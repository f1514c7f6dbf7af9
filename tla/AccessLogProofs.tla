--------------------------- MODULE AccessLogProofs ---------------------------
(***************************************************************************)
(* Proofs about AccessLog, for any number of calls, loggers and files, any *)
(* limit and any number of files kept: lines of calls that did not overlap *)
(* stay in order over the files, only the oldest file is given up, and a   *)
(* call that has the log for itself finds it below its limit.  And about   *)
(* HmacKey: a key that is settled stays until it cannot be read.           *)
(***************************************************************************)
EXTENDS AccessLogger, TLAPS

USE AccessLogAssumption

-----------------------------------------------------------------------------
(* The inductive invariant                                                 *)

\* Line number a, for which a file was opened when b lines had been built, is in
\* the file with number i, or will be once it is written there.
Has(i, a, b) ==
  \/ file[i] # NoFile /\ <<a, b>> \in file[i]
  \/ \E c \in Calls : /\ call[c].phase = "write" /\ call[c].at = i
                      /\ call[c].stamp = a /\ call[c].seen = b

Stamped == \A c \in Calls : call[c].stamp <= stamped

\* Over the files lines are in the order in which files were opened for them, those
\* that are still to be written included.
Sorted ==
  /\ \A i \in Names, a, b \in Nat : Has(i, a, b) => a <= b /\ b <= stamped
  /\ \A i, j \in Names, a, b, k, l \in Nat : i < j /\ Has(i, a, b) /\ Has(j, k, l) => l <= b

IInv == TypeOK /\ Stamped /\ Sorted

-----------------------------------------------------------------------------
(* What a step does to the calls                                           *)

\* The calls other than c are where they were, but the file that one of them writes
\* to may have another number, and a rotation may be marred.
Others(c) ==
  \A d \in Calls : d # c =>
    /\ call'[d].phase = call[d].phase /\ call'[d].by = call[d].by
    /\ call'[d].stamp = call[d].stamp /\ call'[d].seen = call[d].seen
    /\ call'[d].at = call[d].at \/ call[d].phase = "write"
    /\ call[d].marred => call'[d].marred
    /\ call'[d].alone => call[d].alone

AtKept(c) == \A d \in Calls : d # c => call'[d].at = call[d].at

\* The call that does the step stays itself.
Own(c) ==
  /\ call' \in [Calls -> Call]
  /\ call'[c].by = call[c].by /\ call'[c].stamp = call[c].stamp
  /\ call'[c].alone = call[c].alone

LEMMA DoneFields ==
  /\ New \in Call /\ Done \in Call /\ New.phase = "new" /\ Done.phase = "done"
  /\ New.stamp = 0 /\ Done.stamp = 0 /\ ~New.alone /\ ~Done.alone
<1>1. 0 \in Names
  BY DEF Names
<1>2. New \in Call /\ New.phase = "new" /\ New.stamp = 0 /\ ~New.alone
  BY <1>1 DEF New, Call
<1>. QED  BY <1>2 DEF Done, Call

LEMMA LogCalls ==
  ASSUME TypeOK, NEW c \in Calls, Log(c)
  PROVE  /\ call' \in [Calls -> Call] /\ Others(c) /\ AtKept(c)
         /\ call'[c].phase = IF rotating[logger] THEN "open" ELSE "stat"
         /\ call'[c].by = logger /\ call'[c].stamp = stamped + 1
         /\ call'[c].alone = (Active = {})
         /\ \A d \in Calls : d # c => ~call'[d].alone
<1>1. call[c] \in Call /\ logger \in Loggers /\ stamped + 1 \in Nat /\ \A len \in Lengths : len \in Nat
  BY DEF TypeOK
<1>. PICK p \in {"open", "stat"} : p = IF rotating[logger] THEN "open" ELSE "stat"
  OBVIOUS
<1>. PICK alone \in BOOLEAN : alone = (Active = {})
  OBVIOUS
<1>. PICK len \in Lengths :
       call' = [d \in Calls |->
         IF d = c THEN [call[c] EXCEPT !.phase = p, !.by = logger, !.stamp = stamped + 1,
                                       !.len = len, !.alone = alone]
         ELSE [call[d] EXCEPT !.alone = FALSE]]
  BY DEF Log
<1>. PICK q : q = [call[c] EXCEPT !.phase = p, !.by = logger, !.stamp = stamped + 1,
                                  !.len = len, !.alone = alone]
  OBVIOUS
<1>2. q \in Call /\ q.phase = p /\ q.by = logger /\ q.stamp = stamped + 1 /\ q.alone = alone
  BY <1>1 DEF Call
<1>3. call'[c] = q
  OBVIOUS
<1>4. \A d \in Calls : d # c =>
        /\ call'[d] \in Call /\ call'[d].phase = call[d].phase /\ call'[d].by = call[d].by
        /\ call'[d].stamp = call[d].stamp /\ call'[d].seen = call[d].seen
        /\ call'[d].at = call[d].at /\ call'[d].marred = call[d].marred /\ ~call'[d].alone
  <2>. TAKE d \in Calls
  <2>. HAVE d # c
  <2>1. call[d] \in Call /\ call'[d] = [call[d] EXCEPT !.alone = FALSE]
    BY DEF TypeOK
  <2>. QED  BY <2>1 DEF Call
<1>5. call' \in [Calls -> Call]
  BY <1>2, <1>3, <1>4
<1>6. Others(c) /\ AtKept(c)
  BY <1>4 DEF Others, AtKept
<1>. QED  BY <1>2, <1>3, <1>4, <1>5, <1>6

LEMMA StatCalls ==
  ASSUME TypeOK, NEW c \in Calls, Stat(c) \/ StatFails(c)
  PROVE  /\ Own(c) /\ Others(c) /\ AtKept(c)
         /\ \/ /\ call'[c].phase = "shift" /\ call'[c].at = KeepFiles - 1
               /\ call'[c].marred = (Rivals(c) # {})
               /\ \A d \in Rivals(c) : d # c => call'[d].marred
               /\ UNCHANGED rotating
            \/ /\ call'[c].phase = "open" /\ (Full => call'[c].marred)
               /\ rotating' = [rotating EXCEPT ![call[c].by] = FALSE]
<1>0. \A d \in Calls : call[d] \in Call
  BY DEF TypeOK
<1>1. CASE Stat(c) /\ Full
  <2>. PICK marred \in BOOLEAN : marred = (Rivals(c) # {})
    OBVIOUS
  <2>. PICK q : q = [call[c] EXCEPT !.phase = "shift", !.at = FirstShift, !.marred = marred]
    OBVIOUS
  <2>1. FirstShift = KeepFiles - 1 /\ FirstShift \in Names
    BY DEF FirstShift, Names
  <2>2. /\ q \in Call /\ q.phase = "shift" /\ q.at = KeepFiles - 1 /\ q.marred = marred
        /\ q.by = call[c].by /\ q.stamp = call[c].stamp /\ q.alone = call[c].alone
    BY <1>0, <2>1 DEF Call
  <2>3. /\ call' = [d \in Calls |->
             IF d = c THEN q
             ELSE IF d \in Rivals(c) THEN [call[d] EXCEPT !.marred = TRUE] ELSE call[d]]
        /\ UNCHANGED rotating
    BY <1>1 DEF Stat
  <2>4. call'[c] = q
    BY <2>3
  <2>5. \A d \in Calls : d # c =>
          /\ call'[d] \in Call /\ call'[d].phase = call[d].phase /\ call'[d].by = call[d].by
          /\ call'[d].stamp = call[d].stamp /\ call'[d].seen = call[d].seen
          /\ call'[d].at = call[d].at /\ call'[d].alone = call[d].alone
          /\ call[d].marred => call'[d].marred
          /\ d \in Rivals(c) => call'[d].marred
    <3>. TAKE d \in Calls
    <3>. HAVE d # c
    <3>1. CASE d \in Rivals(c)
      <4>1. call'[d] = [call[d] EXCEPT !.marred = TRUE]
        BY <2>3, <3>1
      <4>. QED  BY <1>0, <4>1 DEF Call
    <3>2. CASE d \notin Rivals(c)
      <4>1. call'[d] = call[d]
        BY <2>3, <3>2
      <4>. QED  BY <1>0, <3>2, <4>1
    <3>. QED  BY <3>1, <3>2
  <2>6. call' \in [Calls -> Call]
    BY <2>2, <2>3, <2>4, <2>5
  <2>7. Own(c)
    BY <2>2, <2>4, <2>6 DEF Own
  <2>8. Others(c) /\ AtKept(c) /\ \A d \in Rivals(c) : d # c => call'[d].marred
    BY <2>5 DEF Others, AtKept, Rivals
  <2>. QED  BY <2>2, <2>3, <2>4, <2>7, <2>8
<1>2. CASE (Stat(c) /\ ~Full) \/ StatFails(c)
  <2>1. /\ rotating' = [rotating EXCEPT ![call[c].by] = FALSE]
        /\ \/ call' = [call EXCEPT ![c] = [@ EXCEPT !.phase = "open", !.marred = TRUE]]
           \/ ~Full /\ call' = [call EXCEPT ![c].phase = "open"]
    BY <1>2 DEF Stat, StatFails
  <2>2. /\ DOMAIN call' = Calls /\ \A d \in Calls : d # c => call'[d] = call[d]
        /\ \/ call'[c] = [call[c] EXCEPT !.phase = "open", !.marred = TRUE]
           \/ ~Full /\ call'[c] = [call[c] EXCEPT !.phase = "open"]
        /\ call' = [d \in Calls |-> call'[d]]
    BY <2>1 DEF TypeOK
  <2>3. /\ call'[c] \in Call /\ call'[c].phase = "open" /\ call'[c].by = call[c].by
        /\ call'[c].stamp = call[c].stamp /\ call'[c].alone = call[c].alone
        /\ Full => call'[c].marred
    <3>1. CASE call'[c] = [call[c] EXCEPT !.phase = "open", !.marred = TRUE]
      BY <1>0, <3>1 DEF Call
    <3>2. CASE ~Full /\ call'[c] = [call[c] EXCEPT !.phase = "open"]
      BY <1>0, <3>2 DEF Call
    <3>. QED  BY <2>2, <3>1, <3>2
  <2>4. call' \in [Calls -> Call]
    BY <1>0, <2>2, <2>3
  <2>. QED  BY <2>1, <2>2, <2>3, <2>4 DEF Own, Others, AtKept
<1>. QED  BY <1>1, <1>2

\* A rename takes along the files that calls write to, and changes nothing else.
LEMMA MovedFields ==
  ASSUME TypeOK, NEW i \in Names, NEW j \in Names
  PROVE  /\ Moved(i, j) \in [Calls -> Call]
         /\ \A d \in Calls :
              /\ Moved(i, j)[d].phase = call[d].phase /\ Moved(i, j)[d].by = call[d].by
              /\ Moved(i, j)[d].stamp = call[d].stamp /\ Moved(i, j)[d].seen = call[d].seen
              /\ Moved(i, j)[d].marred = call[d].marred /\ Moved(i, j)[d].alone = call[d].alone
              /\ call[d].phase # "write" => Moved(i, j)[d].at = call[d].at
              /\ call[d].phase = "write" =>
                   Moved(i, j)[d].at = IF call[d].at = j THEN Gone
                                       ELSE IF call[d].at = i THEN j ELSE call[d].at
<1>1. \A d \in Calls : call[d] \in Call
  BY DEF TypeOK
<1>2. ASSUME NEW d \in Calls
      PROVE  /\ Moved(i, j)[d] \in Call
             /\ Moved(i, j)[d].phase = call[d].phase /\ Moved(i, j)[d].by = call[d].by
             /\ Moved(i, j)[d].stamp = call[d].stamp /\ Moved(i, j)[d].seen = call[d].seen
             /\ Moved(i, j)[d].marred = call[d].marred /\ Moved(i, j)[d].alone = call[d].alone
             /\ call[d].phase # "write" => Moved(i, j)[d].at = call[d].at
             /\ call[d].phase = "write" =>
                  Moved(i, j)[d].at = IF call[d].at = j THEN Gone
                                      ELSE IF call[d].at = i THEN j ELSE call[d].at
  <2>1. CASE call[d].phase # "write" \/ (call[d].at # j /\ call[d].at # i)
    <3>1. Moved(i, j)[d] = call[d]
      BY <2>1 DEF Moved
    <3>. QED  BY <1>1, <2>1, <3>1
  <2>2. ASSUME NEW n \in Names \cup {Gone}, Moved(i, j)[d] = [call[d] EXCEPT !.at = n]
        PROVE  /\ Moved(i, j)[d] \in Call
               /\ Moved(i, j)[d].phase = call[d].phase /\ Moved(i, j)[d].by = call[d].by
               /\ Moved(i, j)[d].stamp = call[d].stamp /\ Moved(i, j)[d].seen = call[d].seen
               /\ Moved(i, j)[d].marred = call[d].marred /\ Moved(i, j)[d].alone = call[d].alone
               /\ Moved(i, j)[d].at = n
    BY <1>1, <2>2 DEF Call
  <2>3. CASE call[d].phase = "write" /\ call[d].at = j
    <3>1. Moved(i, j)[d] = [call[d] EXCEPT !.at = Gone]
      BY <2>3 DEF Moved
    <3>. QED  BY <2>2, <2>3, <3>1
  <2>4. CASE call[d].phase = "write" /\ call[d].at # j /\ call[d].at = i
    <3>1. Moved(i, j)[d] = [call[d] EXCEPT !.at = j]
      BY <2>4 DEF Moved
    <3>. QED  BY <2>2, <2>4, <3>1
  <2>. QED  BY <2>1, <2>3, <2>4
<1>3. Moved(i, j) \in [Calls -> Call]
  <2>1. Moved(i, j) = [d \in Calls |-> Moved(i, j)[d]]
    BY DEF Moved
  <2>. QED  BY <1>2, <2>1
<1>. QED  BY <1>2, <1>3

\* A rotation goes on to the next lower number, and leaves none behind at this one
\* unless it is marred; access.log is the last.
LEMMA ShiftedFields ==
  ASSUME TypeOK, NEW c \in Calls, call[c].phase = "shift", NEW cs \in [Calls -> Call],
         NEW fails \in BOOLEAN, call' = Shifted(cs, c, fails)
  PROVE  /\ Own(c) /\ \A d \in Calls : d # c => call'[d] = cs[d]
         /\ call'[c].marred = (call[c].marred \/ fails)
         /\ \/ call[c].at > 0 /\ call'[c].phase = "shift" /\ call'[c].at = call[c].at - 1
            \/ call[c].at = 0 /\ call'[c].phase = "clean"
<1>1. call[c] \in Call /\ call[c].at \in 0..(KeepFiles - 1)
  BY DEF TypeOK
<1>. PICK i \in 0..(KeepFiles - 1) : i = call[c].at
  BY <1>1
<1>. PICK p \in {"shift", "clean"} : p = IF i = 0 THEN "clean" ELSE "shift"
  OBVIOUS
<1>. PICK n \in 0..(KeepFiles - 1) : n = IF i = 0 THEN 0 ELSE i - 1
  OBVIOUS
<1>. PICK marred \in BOOLEAN : marred = (call[c].marred \/ fails)
  BY <1>1 DEF Call
<1>. PICK q : q = [call[c] EXCEPT !.phase = p, !.at = n, !.marred = marred]
  OBVIOUS
<1>2. n \in Names
  BY DEF Names
<1>3. /\ q \in Call /\ q.phase = p /\ q.at = n /\ q.marred = marred
      /\ q.by = call[c].by /\ q.stamp = call[c].stamp /\ q.alone = call[c].alone
  BY <1>1, <1>2 DEF Call
<1>4. call' = [cs EXCEPT ![c] = q]
  BY DEF Shifted
<1>5. call'[c] = q /\ call' \in [Calls -> Call] /\ \A d \in Calls : d # c => call'[d] = cs[d]
  BY <1>3, <1>4
<1>. QED  BY <1>3, <1>5 DEF Own

LEMMA ShiftCalls ==
  ASSUME TypeOK, NEW c \in Calls, Shift(c)
  PROVE  /\ Own(c) /\ Others(c) /\ call'[c].marred = call[c].marred
         /\ \/ call[c].at > 0 /\ call'[c].phase = "shift" /\ call'[c].at = call[c].at - 1
            \/ call[c].at = 0 /\ call'[c].phase = "clean"
         /\ \A d \in Calls : call[d].phase = "write" =>
              call'[d].at = IF call[d].at = call[c].at + 1 THEN Gone
                            ELSE IF call[d].at = call[c].at THEN call[c].at + 1 ELSE call[d].at
<1>1. call[c].phase = "shift" /\ call[c].at \in Names /\ call[c].at + 1 \in Names
      /\ call[c].marred \in BOOLEAN
  BY DEF Shift, TypeOK, Names, Call
<1>. PICK fails \in BOOLEAN : fails = FALSE
  OBVIOUS
<1>. PICK cs \in [Calls -> Call] : cs = Moved(call[c].at, call[c].at + 1)
  BY <1>1, MovedFields
<1>2. call' = Shifted(cs, c, fails)
  BY DEF Shift, Target
<1>3. /\ Own(c) /\ \A d \in Calls : d # c => call'[d] = cs[d]
      /\ call'[c].marred = (call[c].marred \/ fails)
      /\ \/ call[c].at > 0 /\ call'[c].phase = "shift" /\ call'[c].at = call[c].at - 1
         \/ call[c].at = 0 /\ call'[c].phase = "clean"
  BY <1>1, <1>2, ShiftedFields
<1>4. \A d \in Calls :
        /\ cs[d].phase = call[d].phase /\ cs[d].by = call[d].by
        /\ cs[d].stamp = call[d].stamp /\ cs[d].seen = call[d].seen
        /\ cs[d].marred = call[d].marred /\ cs[d].alone = call[d].alone
        /\ call[d].phase # "write" => cs[d].at = call[d].at
        /\ call[d].phase = "write" =>
             cs[d].at = IF call[d].at = call[c].at + 1 THEN Gone
                        ELSE IF call[d].at = call[c].at THEN call[c].at + 1 ELSE call[d].at
  BY <1>1, MovedFields
<1>5. Others(c)
  BY <1>3, <1>4 DEF Others
<1>. QED  BY <1>1, <1>3, <1>4, <1>5

LEMMA ShiftFailsCalls ==
  ASSUME TypeOK, NEW c \in Calls, ShiftFails(c)
  PROVE  /\ Own(c) /\ Others(c) /\ AtKept(c)
         /\ call'[c].marred = (call[c].marred \/ file[call[c].at] # NoFile)
         /\ \/ call[c].at > 0 /\ call'[c].phase = "shift" /\ call'[c].at = call[c].at - 1
            \/ call[c].at = 0 /\ call'[c].phase = "clean"
<1>. PICK fails \in BOOLEAN : fails = (file[call[c].at] # NoFile)
  OBVIOUS
<1>. PICK cs \in [Calls -> Call] : cs = call
  BY DEF TypeOK
<1>1. call[c].phase = "shift" /\ call' = Shifted(cs, c, fails)
  BY DEF ShiftFails
<1>2. /\ Own(c) /\ \A d \in Calls : d # c => call'[d] = cs[d]
      /\ call'[c].marred = (call[c].marred \/ fails)
      /\ \/ call[c].at > 0 /\ call'[c].phase = "shift" /\ call'[c].at = call[c].at - 1
         \/ call[c].at = 0 /\ call'[c].phase = "clean"
  BY <1>1, ShiftedFields
<1>. QED  BY <1>2 DEF Others, AtKept

LEMMA CleanCalls ==
  ASSUME TypeOK, NEW c \in Calls, NEW kept \in SUBSET {i \in Names : i > KeepFiles},
         call' = [d \in Calls |->
            IF d = c THEN [call[c] EXCEPT !.phase = "open"]
            ELSE IF call[d].phase = "write" /\ call[d].at > KeepFiles /\ call[d].at \notin kept
                 THEN [call[d] EXCEPT !.at = Gone] ELSE call[d]]
  PROVE  /\ Own(c) /\ Others(c) /\ call'[c].phase = "open" /\ call'[c].marred = call[c].marred
         /\ \A d \in Calls : d # c /\ call[d].phase = "write" =>
              IF call[d].at > KeepFiles /\ call[d].at \notin kept
              THEN call'[d].at = Gone ELSE call'[d].at = call[d].at
<1>0. \A d \in Calls : call[d] \in Call
  BY DEF TypeOK
<1>1. call'[c] = [call[c] EXCEPT !.phase = "open"]
  OBVIOUS
<1>2. /\ call'[c] \in Call /\ call'[c].phase = "open" /\ call'[c].by = call[c].by
      /\ call'[c].stamp = call[c].stamp /\ call'[c].alone = call[c].alone
      /\ call'[c].marred = call[c].marred
  BY <1>0, <1>1 DEF Call
<1>3. \A d \in Calls : d # c =>
        /\ call'[d] \in Call /\ call'[d].phase = call[d].phase /\ call'[d].by = call[d].by
        /\ call'[d].stamp = call[d].stamp /\ call'[d].seen = call[d].seen
        /\ call'[d].marred = call[d].marred /\ call'[d].alone = call[d].alone
        /\ IF call[d].phase = "write" /\ call[d].at > KeepFiles /\ call[d].at \notin kept
           THEN call'[d].at = Gone ELSE call'[d].at = call[d].at
  <2>. TAKE d \in Calls
  <2>. HAVE d # c
  <2>1. CASE call[d].phase = "write" /\ call[d].at > KeepFiles /\ call[d].at \notin kept
    <3>1. call'[d] = [call[d] EXCEPT !.at = Gone]
      BY <2>1
    <3>. QED  BY <1>0, <2>1, <3>1 DEF Call
  <2>2. CASE ~(call[d].phase = "write" /\ call[d].at > KeepFiles /\ call[d].at \notin kept)
    <3>1. call'[d] = call[d]
      BY <2>2
    <3>. QED  BY <1>0, <2>2, <3>1
  <2>. QED  BY <2>1, <2>2
<1>4. call' \in [Calls -> Call]
  BY <1>2, <1>3
<1>5. Others(c)
  BY <1>3 DEF Others
<1>. QED  BY <1>2, <1>3, <1>4, <1>5 DEF Own

LEMMA CleanOwn ==
  ASSUME TypeOK, NEW c \in Calls, Clean(c)
  PROVE  Own(c) /\ Others(c) /\ call'[c].phase = "open" /\ call'[c].marred = call[c].marred
<1>. PICK kept \in SUBSET {i \in Names : i > KeepFiles} :
       call' = [d \in Calls |->
            IF d = c THEN [call[c] EXCEPT !.phase = "open"]
            ELSE IF call[d].phase = "write" /\ call[d].at > KeepFiles /\ call[d].at \notin kept
                 THEN [call[d] EXCEPT !.at = Gone] ELSE call[d]]
  BY DEF Clean
<1>. QED  BY CleanCalls

LEMMA OpenCalls ==
  ASSUME TypeOK, NEW c \in Calls, Open(c)
  PROVE  /\ Own(c) /\ Others(c) /\ AtKept(c)
         /\ call'[c].phase = "write" /\ call'[c].at = 0 /\ call'[c].seen = stamped
         /\ call'[c].marred = call[c].marred
<1>0. call[c] \in Call /\ 0 \in Names /\ stamped \in Nat
  BY DEF TypeOK, Names
<1>. PICK q : q = [call[c] EXCEPT !.phase = "write", !.at = 0, !.seen = stamped]
  OBVIOUS
<1>1. /\ q \in Call /\ q.phase = "write" /\ q.at = 0 /\ q.seen = stamped
      /\ q.by = call[c].by /\ q.stamp = call[c].stamp /\ q.alone = call[c].alone
      /\ q.marred = call[c].marred
  BY <1>0 DEF Call
<1>2. call' = [call EXCEPT ![c] = q]
  BY DEF Open
<1>3. call'[c] = q /\ call' \in [Calls -> Call] /\ \A d \in Calls : d # c => call'[d] = call[d]
  BY <1>1, <1>2 DEF TypeOK
<1>. QED  BY <1>1, <1>3 DEF Own, Others, AtKept

LEMMA EndCalls ==
  ASSUME TypeOK, NEW c \in Calls, Write(c) \/ Drop(c)
  PROVE  /\ call' \in [Calls -> Call] /\ Others(c) /\ AtKept(c)
         /\ call'[c].phase = "done" /\ call'[c].stamp = 0 /\ ~call'[c].alone
<1>1. call' = [call EXCEPT ![c] = Done]
  BY DEF Write, Drop
<1>2. /\ call'[c] = Done /\ call' \in [Calls -> Call]
      /\ \A d \in Calls : d # c => call'[d] = call[d]
  BY <1>1, DoneFields DEF TypeOK
<1>. QED  BY <1>2, DoneFields DEF Others, AtKept

LEMMA DieCalls ==
  ASSUME TypeOK, Die
  PROVE  /\ call' \in [Calls -> Call]
         /\ \A d \in Calls : /\ call'[d].phase \in {"new", "done"}
                             /\ call'[d].stamp = call[d].stamp \/ call'[d].stamp = 0
<1>1. \A d \in Calls : /\ call'[d] \in Call /\ call'[d].phase \in {"new", "done"}
                       /\ call'[d].stamp = call[d].stamp \/ call'[d].stamp = 0
  BY DoneFields DEF Die, TypeOK, Active
<1>2. call' = [d \in Calls |-> call'[d]]
  BY DEF Die
<1>. QED  BY <1>1, <1>2

-----------------------------------------------------------------------------
(* Types                                                                   *)

\* Every call that is under way belongs to a logger, a rotation keeps to the files
\* it is to shift, and each logger has one rotation at most, and is marked so.
CallsOK ==
  \A c \in Calls :
    /\ call[c].phase \notin {"new", "done"} => call[c].by \in Loggers
    /\ call[c].phase = "shift" => call[c].at \in 0..(KeepFiles - 1)
    /\ Rotates(c) => /\ rotating[call[c].by]
                     /\ \A d \in Calls : Rotates(d) /\ call[d].by = call[c].by => d = c

\* What is written to is there.
WritesOK == \A c \in Calls : call[c].phase = "write" /\ call[c].at # Gone => file[call[c].at] # NoFile

\* Every file has its lines and its length, and no file has none.
FilesOK ==
  /\ file \in [Names -> (SUBSET Line) \cup {NoFile}]
  /\ bytes \in [Names -> Nat]
  /\ \A i \in Names : file[i] = NoFile => bytes[i] = 0

LEMMA TypeParts ==
  TypeOK <=> /\ FilesOK /\ CallsOK /\ WritesOK
             /\ stamped \in Nat /\ logger \in Loggers
             /\ rotating \in [Loggers -> BOOLEAN] /\ call \in [Calls -> Call]
BY DEF TypeOK, FilesOK, CallsOK, WritesOK

LEMMA TypeNext ==
  ASSUME FilesOK', CallsOK', WritesOK', stamped' \in Nat, logger' \in Loggers,
         rotating' \in [Loggers -> BOOLEAN], call' \in [Calls -> Call]
  PROVE  TypeOK'
BY DEF TypeOK, FilesOK, CallsOK, WritesOK

\* A step of call c keeps what is said of the calls, when it keeps what is said of c
\* and takes the mark of rotating from no other.
LEMMA CallsKept ==
  ASSUME TypeOK, NEW c \in Calls, Others(c),
         \A g \in Loggers : rotating[g] /\ g # call'[c].by => rotating'[g],
         call'[c].phase \notin {"new", "done"} => call'[c].by \in Loggers,
         call'[c].phase = "shift" => call'[c].at \in 0..(KeepFiles - 1),
         \/ Rotates(c) /\ call'[c].by = call[c].by
         \/ ~rotating[call'[c].by] \/ rotating'[call'[c].by],
         Rotates(c)' => /\ rotating'[call'[c].by]
                        /\ ~rotating[call'[c].by] \/ (Rotates(c) /\ call'[c].by = call[c].by)
  PROVE  CallsOK'
<1>1. \A d \in Calls : d # c => (Rotates(d)' <=> Rotates(d)) /\ call'[d].by = call[d].by
  BY DEF Others, Rotates
<1>2. \A d \in Calls : Rotates(d) => call[d].by \in Loggers /\ rotating[call[d].by]
  BY DEF TypeOK, Rotates
<1>3. ASSUME NEW d \in Calls, d # c, Rotates(d)
      PROVE  rotating'[call[d].by] /\ (Rotates(c)' => call[d].by # call'[c].by)
  <2>1. Rotates(c) /\ call'[c].by = call[c].by => call[d].by # call'[c].by
    BY <1>3 DEF TypeOK
  <2>. QED  BY <1>2, <1>3, <2>1
<1>. SUFFICES ASSUME NEW d \in Calls
              PROVE  /\ call'[d].phase \notin {"new", "done"} => call'[d].by \in Loggers
                     /\ call'[d].phase = "shift" => call'[d].at \in 0..(KeepFiles - 1)
                     /\ Rotates(d)' =>
                          /\ rotating'[call'[d].by]
                          /\ \A e \in Calls : Rotates(e)' /\ call'[e].by = call'[d].by => e = d
  BY DEF CallsOK
<1>4. CASE d = c
  BY <1>1, <1>3, <1>4
<1>5. CASE d # c
  <2>1. /\ call'[d].phase \notin {"new", "done"} => call'[d].by \in Loggers
        /\ call'[d].phase = "shift" => call'[d].at \in 0..(KeepFiles - 1)
    BY <1>5 DEF TypeOK, Others
  <2>2. ASSUME Rotates(d)', NEW e \in Calls, Rotates(e)', call'[e].by = call'[d].by
        PROVE  e = d
    <3>1. e # c
      BY <1>1, <1>3, <1>5, <2>2
    <3>2. Rotates(e) /\ Rotates(d) /\ call[e].by = call[d].by
      BY <1>1, <1>5, <2>2, <3>1
    <3>. QED  BY <3>2 DEF TypeOK
  <2>3. Rotates(d)' => rotating'[call'[d].by]
    BY <1>1, <1>3, <1>5
  <2>. QED  BY <2>1, <2>2, <2>3
<1>. QED  BY <1>4, <1>5

\* Where every file stays, so do those that are written to.
LEMMA WritesKept ==
  ASSUME TypeOK, NEW c \in Calls, Others(c), AtKept(c), call'[c].phase # "write",
         \A i \in Names : file[i] # NoFile => file'[i] # NoFile
  PROVE  WritesOK'
<1>. SUFFICES ASSUME NEW d \in Calls, call'[d].phase = "write", call'[d].at # Gone
              PROVE  file'[call'[d].at] # NoFile
  BY DEF WritesOK
<1>1. call[d].phase = "write" /\ call'[d].at = call[d].at
  BY DEF Others, AtKept
<1>2. call[d].at \in Names /\ file[call[d].at] # NoFile
  BY <1>1 DEF TypeOK, Call
<1>. QED  BY <1>1, <1>2

LEMMA LogType ==
  ASSUME TypeOK, NEW c \in Calls, Log(c)
  PROVE  TypeOK'
<1>1. /\ stamped' \in Nat /\ UNCHANGED <<file, bytes, logger>> /\ logger \in Loggers
      /\ rotating' = [rotating EXCEPT ![logger] = TRUE]
  <2>1. stamped' = stamped + 1 /\ UNCHANGED <<file, bytes, logger>>
        /\ rotating' = [rotating EXCEPT ![logger] = TRUE]
    BY DEF Log
  <2>. QED  BY <2>1 DEF TypeOK
<1>2. /\ call' \in [Calls -> Call] /\ Others(c) /\ AtKept(c)
      /\ call'[c].phase = IF rotating[logger] THEN "open" ELSE "stat"
      /\ call'[c].by = logger
  BY LogCalls
<1>3. /\ rotating' \in [Loggers -> BOOLEAN] /\ rotating'[logger]
      /\ \A g \in Loggers : rotating[g] => rotating'[g]
  BY <1>1 DEF TypeOK
<1>4. CallsOK'
  BY <1>1, <1>2, <1>3, CallsKept DEF Rotates
<1>5. WritesOK'
  BY <1>1, <1>2, WritesKept
<1>6. FilesOK'
  BY <1>1, TypeParts DEF FilesOK
<1>. QED  BY <1>1, <1>2, <1>3, <1>4, <1>5, <1>6, TypeNext

LEMMA StatType ==
  ASSUME TypeOK, NEW c \in Calls, Stat(c) \/ StatFails(c)
  PROVE  TypeOK'
<1>1. /\ call[c].phase = "stat" /\ Rotates(c) /\ UNCHANGED <<file, bytes, stamped, logger>>
      /\ call[c].by \in Loggers /\ rotating[call[c].by]
  BY DEF Stat, StatFails, Rotates, TypeOK
<1>2. /\ Own(c) /\ Others(c) /\ AtKept(c)
      /\ \/ /\ call'[c].phase = "shift" /\ call'[c].at = KeepFiles - 1
            /\ UNCHANGED rotating
         \/ call'[c].phase = "open" /\ rotating' = [rotating EXCEPT ![call[c].by] = FALSE]
  BY StatCalls
<1>3. /\ rotating' \in [Loggers -> BOOLEAN]
      /\ \A g \in Loggers : rotating[g] /\ g # call[c].by => rotating'[g]
      /\ call'[c].phase = "shift" => rotating'[call[c].by]
  BY <1>1, <1>2 DEF TypeOK
<1>4. CallsOK'
  BY <1>1, <1>2, <1>3, CallsKept DEF Rotates, Own
<1>5. WritesOK'
  BY <1>1, <1>2, WritesKept
<1>6. FilesOK'
  BY <1>1, TypeParts DEF FilesOK
<1>. QED  BY <1>1, <1>2, <1>3, <1>4, <1>5, <1>6, TypeNext DEF Own, TypeOK

\* The files after a rename.
LEMMA ShiftFiles ==
  ASSUME TypeOK, NEW c \in Calls, Shift(c)
  PROVE  /\ call[c].at \in Names /\ call[c].at + 1 \in Names /\ file[call[c].at] # NoFile
         /\ file'[call[c].at] = NoFile /\ file'[call[c].at + 1] = file[call[c].at]
         /\ \A j \in Names \ {call[c].at, call[c].at + 1} : file'[j] = file[j]
         /\ bytes'[call[c].at] = 0 /\ FilesOK'
<1>1. /\ call[c].phase = "shift" /\ call[c].at \in 0..(KeepFiles - 1) /\ file[call[c].at] # NoFile
      /\ file' = [file EXCEPT ![call[c].at + 1] = file[call[c].at], ![call[c].at] = NoFile]
      /\ bytes' = [bytes EXCEPT ![call[c].at + 1] = bytes[call[c].at], ![call[c].at] = 0]
  BY DEF Shift, Target, TypeOK
<1>2. /\ call[c].at \in Names /\ call[c].at + 1 \in Names /\ call[c].at # call[c].at + 1
  BY <1>1 DEF Names
<1>. PICK i \in Names, j \in Names : i = call[c].at /\ j = call[c].at + 1 /\ i # j
  BY <1>2
<1>3. FilesOK /\ file[i] \in (SUBSET Line) \cup {NoFile} /\ bytes[i] \in Nat
  BY TypeParts DEF FilesOK
<1>4. /\ file' \in [Names -> (SUBSET Line) \cup {NoFile}]
      /\ file'[i] = NoFile /\ file'[j] = file[i] /\ \A k \in Names \ {i, j} : file'[k] = file[k]
  BY <1>1, <1>3 DEF FilesOK
<1>5. /\ bytes' \in [Names -> Nat] /\ bytes'[i] = 0
      /\ \A k \in Names \ {i, j} : bytes'[k] = bytes[k]
  BY <1>1, <1>3 DEF FilesOK
<1>6. FilesOK'
  BY <1>1, <1>3, <1>4, <1>5 DEF FilesOK
<1>. QED  BY <1>1, <1>2, <1>4, <1>5, <1>6

LEMMA ShiftType ==
  ASSUME TypeOK, NEW c \in Calls, Shift(c) \/ ShiftFails(c)
  PROVE  TypeOK'
<1>1. /\ call[c].phase = "shift" /\ Rotates(c) /\ UNCHANGED <<stamped, logger, rotating>>
      /\ call[c].by \in Loggers /\ rotating[call[c].by] /\ call[c].at \in 0..(KeepFiles - 1)
  BY DEF Shift, ShiftFails, Rotates, TypeOK
<1>2. /\ Own(c) /\ Others(c)
      /\ \/ call[c].at > 0 /\ call'[c].phase = "shift" /\ call'[c].at = call[c].at - 1
         \/ call[c].at = 0 /\ call'[c].phase = "clean"
  BY ShiftCalls, ShiftFailsCalls
<1>3. CallsOK'
  <2>1. call'[c].phase = "shift" => call'[c].at \in 0..(KeepFiles - 1)
    BY <1>1, <1>2
  <2>. QED  BY <1>1, <1>2, <2>1, CallsKept DEF Rotates, Own
<1>4. WritesOK' /\ FilesOK'
  <2>1. CASE ShiftFails(c)
    <3>1. UNCHANGED <<file, bytes>> /\ AtKept(c)
      BY <2>1, ShiftFailsCalls DEF ShiftFails
    <3>2. FilesOK'
      BY <3>1, TypeParts DEF FilesOK
    <3>. QED  BY <1>2, <3>1, <3>2, WritesKept
  <2>2. CASE Shift(c)
    <3>1. FilesOK'
      BY <2>2, ShiftFiles
    <3>. SUFFICES ASSUME NEW d \in Calls, call'[d].phase = "write", call'[d].at # Gone
                  PROVE  file'[call'[d].at] # NoFile
      BY <3>1 DEF WritesOK
    <3>2. call[d].phase = "write"
      BY <1>2 DEF Others
    <3>3. call'[d].at = IF call[d].at = call[c].at + 1 THEN Gone
                        ELSE IF call[d].at = call[c].at THEN call[c].at + 1 ELSE call[d].at
      BY <2>2, <3>2, ShiftCalls
    <3>4. call[d].at # Gone => call[d].at \in Names /\ file[call[d].at] # NoFile
      BY <3>2 DEF TypeOK, Call
    <3>5. /\ file[call[c].at] # NoFile /\ file'[call[c].at + 1] = file[call[c].at]
          /\ \A j \in Names \ {call[c].at, call[c].at + 1} : file'[j] = file[j]
      BY <2>2, ShiftFiles
    <3>. QED  BY <3>3, <3>4, <3>5
  <2>. QED  BY <2>1, <2>2
<1>. QED  BY <1>1, <1>2, <1>3, <1>4, TypeNext DEF Own, TypeOK

LEMMA CleanType ==
  ASSUME TypeOK, NEW c \in Calls, Clean(c)
  PROVE  TypeOK'
<1>1. /\ call[c].phase = "clean" /\ Rotates(c) /\ UNCHANGED <<stamped, logger>>
      /\ call[c].by \in Loggers /\ rotating[call[c].by]
      /\ rotating' = [rotating EXCEPT ![call[c].by] = FALSE]
  BY DEF Clean, Rotates, TypeOK
<1>. PICK kept \in SUBSET {i \in Names : i > KeepFiles} :
       /\ file' = [i \in Names |-> IF i > KeepFiles /\ i \notin kept THEN NoFile ELSE file[i]]
       /\ bytes' = [i \in Names |-> IF i > KeepFiles /\ i \notin kept THEN 0 ELSE bytes[i]]
       /\ call' = [d \in Calls |->
            IF d = c THEN [call[c] EXCEPT !.phase = "open"]
            ELSE IF call[d].phase = "write" /\ call[d].at > KeepFiles /\ call[d].at \notin kept
                 THEN [call[d] EXCEPT !.at = Gone] ELSE call[d]]
  BY DEF Clean
<1>2. /\ Own(c) /\ Others(c) /\ call'[c].phase = "open"
      /\ \A d \in Calls : d # c /\ call[d].phase = "write" =>
           IF call[d].at > KeepFiles /\ call[d].at \notin kept
           THEN call'[d].at = Gone ELSE call'[d].at = call[d].at
  BY CleanCalls
<1>3. /\ rotating' \in [Loggers -> BOOLEAN]
      /\ \A g \in Loggers : rotating[g] /\ g # call[c].by => rotating'[g]
  BY <1>1 DEF TypeOK
<1>4. CallsOK'
  BY <1>1, <1>2, <1>3, CallsKept DEF Rotates, Own
<1>5. FilesOK'
  <2>1. FilesOK
    BY TypeParts
  <2>2. file' \in [Names -> (SUBSET Line) \cup {NoFile}] /\ bytes' \in [Names -> Nat]
    BY <2>1 DEF FilesOK
  <2>3. \A i \in Names : file'[i] = NoFile => bytes'[i] = 0
    BY <2>1 DEF FilesOK
  <2>. QED  BY <2>2, <2>3 DEF FilesOK
<1>6. WritesOK'
  <2>. SUFFICES ASSUME NEW d \in Calls, call'[d].phase = "write", call'[d].at # Gone
                PROVE  file'[call'[d].at] # NoFile
    BY DEF WritesOK
  <2>1. d # c /\ call[d].phase = "write" /\ call'[d].at = call[d].at
        /\ ~(call[d].at > KeepFiles /\ call[d].at \notin kept)
    BY <1>2 DEF Others
  <2>2. call[d].at \in Names /\ file[call[d].at] # NoFile
    BY <2>1 DEF TypeOK, Call
  <2>. QED  BY <2>1, <2>2
<1>. QED  BY <1>1, <1>2, <1>3, <1>4, <1>5, <1>6, TypeNext DEF Own, TypeOK

LEMMA OpenType ==
  ASSUME TypeOK, NEW c \in Calls, Open(c)
  PROVE  TypeOK'
<1>1. /\ call[c].phase = "open" /\ UNCHANGED <<bytes, stamped, rotating, logger>>
      /\ file' = [file EXCEPT ![0] = IF @ = NoFile THEN {} ELSE @]
      /\ call[c].by \in Loggers /\ 0 \in Names
  BY DEF Open, TypeOK, Names
<1>2. Own(c) /\ Others(c) /\ AtKept(c) /\ call'[c].phase = "write" /\ call'[c].at = 0
  BY OpenCalls
<1>3. CallsOK'
  BY <1>1, <1>2, CallsKept DEF Rotates, Own
<1>4. /\ file' \in [Names -> (SUBSET Line) \cup {NoFile}]
      /\ file'[0] # NoFile /\ \A i \in Names \ {0} : file'[i] = file[i]
  <2>1. {} # NoFile /\ {} \in SUBSET Line
    BY DEF NoFile
  <2>. QED  BY <1>1, <2>1 DEF TypeOK
<1>5. FilesOK'
  BY <1>1, <1>4, TypeParts DEF FilesOK
<1>6. WritesOK'
  <2>. SUFFICES ASSUME NEW d \in Calls, call'[d].phase = "write", call'[d].at # Gone
                PROVE  file'[call'[d].at] # NoFile
    BY DEF WritesOK
  <2>1. CASE d = c
    BY <1>2, <1>4, <2>1
  <2>2. CASE d # c
    <3>1. call[d].phase = "write" /\ call'[d].at = call[d].at
      BY <1>2, <2>2 DEF Others, AtKept
    <3>2. call[d].at \in Names /\ file[call[d].at] # NoFile
      BY <3>1 DEF TypeOK, Call
    <3>. QED  BY <1>4, <3>1, <3>2
  <2>. QED  BY <2>1, <2>2
<1>. QED  BY <1>1, <1>2, <1>3, <1>5, <1>6, TypeNext DEF Own, TypeOK

\* The files after a write.
LEMMA WriteFiles ==
  ASSUME TypeOK, NEW c \in Calls, Write(c)
  PROVE  /\ FilesOK' /\ \A i \in Names : file[i] # NoFile => file'[i] # NoFile
         /\ \/ UNCHANGED <<file, bytes>>
            \/ /\ call[c].at \in Names /\ file[call[c].at] # NoFile
               /\ file'[call[c].at] = file[call[c].at] \cup {<<call[c].stamp, call[c].seen>>}
               /\ bytes'[call[c].at] = bytes[call[c].at] + call[c].len
               /\ \A i \in Names \ {call[c].at} : file'[i] = file[i]
<1>1. /\ call[c].phase = "write" /\ call[c].stamp \in Nat /\ call[c].seen \in Nat
      /\ call[c].len \in Nat /\ call[c].at \in Names \cup {Gone}
  BY DEF Write, TypeOK, Call
<1>2. FilesOK
  BY TypeParts
<1>3. CASE call[c].at = Gone
  <2>1. UNCHANGED <<file, bytes>>
    BY <1>3 DEF Write
  <2>2. FilesOK'
    BY <1>2, <2>1 DEF FilesOK
  <2>. QED  BY <2>1, <2>2
<1>4. CASE call[c].at # Gone
  <2>1. file[call[c].at] # NoFile
    BY <1>1, <1>4 DEF TypeOK
  <2>. PICK i \in Names : i = call[c].at
    BY <1>1, <1>4
  <2>. PICK line \in Line : line = <<call[c].stamp, call[c].seen>>
    BY <1>1 DEF Line
  <2>. PICK len \in Nat : len = call[c].len
    BY <1>1
  <2>2. file[i] \in SUBSET Line /\ bytes[i] \in Nat
    BY <1>2, <2>1 DEF FilesOK
  <2>. PICK new : new = file[i] \cup {line}
    OBVIOUS
  <2>3. new \in SUBSET Line /\ new # NoFile
    <3>1. <<-1, -1>> \notin Line
      BY DEF Line
    <3>. QED  BY <2>2, <3>1 DEF NoFile
  <2>4. file' = [file EXCEPT ![i] = new] /\ bytes' = [bytes EXCEPT ![i] = bytes[i] + len]
    BY <1>4 DEF Write
  <2>5. /\ file' \in [Names -> (SUBSET Line) \cup {NoFile}] /\ file'[i] = new
        /\ \A j \in Names \ {i} : file'[j] = file[j]
    BY <1>2, <2>3, <2>4 DEF FilesOK
  <2>6. /\ bytes' \in [Names -> Nat] /\ bytes'[i] = bytes[i] + len
        /\ \A j \in Names \ {i} : bytes'[j] = bytes[j]
    BY <1>2, <2>2, <2>4 DEF FilesOK
  <2>7. FilesOK'
    BY <1>2, <2>3, <2>5, <2>6 DEF FilesOK
  <2>. QED  BY <2>1, <2>3, <2>5, <2>6, <2>7
<1>. QED  BY <1>3, <1>4

LEMMA EndType ==
  ASSUME TypeOK, NEW c \in Calls, Write(c) \/ Drop(c)
  PROVE  TypeOK'
<1>1. call[c].phase \in {"open", "write"} /\ UNCHANGED <<stamped, rotating, logger>>
  BY DEF Write, Drop
<1>2. call' \in [Calls -> Call] /\ Others(c) /\ AtKept(c) /\ call'[c].phase = "done"
  BY EndCalls
<1>3. CallsOK'
  BY <1>1, <1>2, CallsKept DEF Rotates
<1>4. FilesOK' /\ \A i \in Names : file[i] # NoFile => file'[i] # NoFile
  <2>1. CASE Write(c)
    BY <2>1, WriteFiles
  <2>2. CASE Drop(c)
    BY <2>2, TypeParts DEF Drop, FilesOK
  <2>. QED  BY <2>1, <2>2
<1>5. WritesOK'
  BY <1>2, <1>4, WritesKept
<1>. QED  BY <1>1, <1>2, <1>3, <1>4, <1>5, TypeNext DEF TypeOK

LEMMA ReloadType ==
  ASSUME TypeOK, Reload \/ Die
  PROVE  TypeOK'
<1>1. logger' \in Loggers /\ UNCHANGED <<file, bytes, stamped>>
  BY DEF Reload, Die, TypeOK, Loggers
<1>2. CASE Reload
  BY <1>1, <1>2 DEF Reload, TypeOK, Rotates
<1>3. CASE Die
  <2>1. call' \in [Calls -> Call] /\ \A d \in Calls : call'[d].phase \in {"new", "done"}
    BY <1>3, DieCalls
  <2>2. CallsOK' /\ WritesOK'
    BY <2>1 DEF CallsOK, WritesOK, Rotates
  <2>3. FilesOK' /\ rotating' \in [Loggers -> BOOLEAN]
    BY <1>1, <1>3, TypeParts DEF FilesOK, Die
  <2>. QED  BY <1>1, <2>1, <2>2, <2>3, TypeNext DEF TypeOK
<1>. QED  BY <1>2, <1>3

LEMMA TypeStep ==
  ASSUME TypeOK, Next
  PROVE  TypeOK'
BY LogType, StatType, ShiftType, CleanType, OpenType, EndType, ReloadType DEF Next, Step

-----------------------------------------------------------------------------
(* The order of the lines                                                  *)

LEMMA StampedStep ==
  ASSUME TypeOK, Stamped, Next
  PROVE  Stamped' /\ stamped <= stamped'
<1>0. stamped \in Nat /\ \A d \in Calls : call[d].stamp \in Nat
  BY DEF TypeOK, Call
<1>1. ASSUME NEW c \in Calls, Log(c) PROVE Stamped' /\ stamped <= stamped'
  <2>1. /\ call'[c].stamp = stamped + 1 /\ stamped' = stamped + 1
        /\ \A d \in Calls : d # c => call'[d].stamp = call[d].stamp
    BY <1>1, LogCalls DEF Log, Others
  <2>. QED  BY <1>0, <2>1 DEF Stamped
<1>2. ASSUME NEW c \in Calls,
             \/ Stat(c) \/ StatFails(c) \/ Shift(c) \/ ShiftFails(c) \/ Clean(c)
             \/ Open(c) \/ Write(c) \/ Drop(c)
      PROVE  Stamped' /\ stamped <= stamped'
  <2>1. /\ stamped' = stamped
        /\ \A d \in Calls : call'[d].stamp = call[d].stamp \/ call'[d].stamp = 0
    <3>1. CASE Stat(c) \/ StatFails(c)
      BY <3>1, StatCalls DEF Stat, StatFails, Own, Others
    <3>2. CASE Shift(c) \/ ShiftFails(c)
      BY <3>2, ShiftCalls, ShiftFailsCalls DEF Shift, ShiftFails, Own, Others
    <3>3. CASE Clean(c)
      BY <3>3, CleanCalls DEF Clean, Own, Others
    <3>4. CASE Open(c)
      BY <3>4, OpenCalls DEF Open, Own, Others
    <3>5. CASE Write(c) \/ Drop(c)
      BY <3>5, EndCalls DEF Write, Drop, Others
    <3>. QED  BY <1>2, <3>1, <3>2, <3>3, <3>4, <3>5
  <2>. QED  BY <1>0, <2>1 DEF Stamped
<1>3. CASE Reload
  BY <1>0, <1>3 DEF Reload, Stamped
<1>4. CASE Die
  <2>1. \A d \in Calls : call'[d].stamp = call[d].stamp \/ call'[d].stamp = 0
    BY <1>4, DieCalls
  <2>. QED  BY <1>0, <1>4, <2>1 DEF Die, Stamped
<1>. QED  BY <1>1, <1>2, <1>3, <1>4 DEF Next, Step

\* Where no line is under a number that it was not under, the order stays.
LEMMA NothingNew ==
  ASSUME Sorted, stamped \in Nat, stamped' \in Nat, stamped <= stamped',
         \A i \in Names, a, b \in Nat : Has(i, a, b)' => Has(i, a, b)
  PROVE  Sorted'
<1>1. \A i \in Names, a, b \in Nat : Has(i, a, b)' => a <= b /\ b <= stamped'
  BY DEF Sorted
<1>2. \A i, j \in Names, a, b, k, l \in Nat : i < j /\ Has(i, a, b)' /\ Has(j, k, l)' => l <= b
  BY DEF Sorted
<1>. QED  BY <1>1, <1>2 DEF Sorted

LEMMA NothingWritten ==
  ASSUME NEW c \in Calls, Others(c), AtKept(c), call'[c].phase # "write", UNCHANGED file
  PROVE  \A i \in Names, a, b \in Nat : Has(i, a, b)' => Has(i, a, b)
BY DEF Has, Others, AtKept

\* The line for which access.log is opened comes after all whose files were opened
\* before, wherever these are.
LEMMA OpenSorted ==
  ASSUME TypeOK, Stamped, Sorted, NEW c \in Calls, Open(c)
  PROVE  Sorted'
<1>1. /\ call[c].phase = "open" /\ stamped' = stamped /\ stamped \in Nat
      /\ call[c].stamp \in Nat /\ call[c].stamp <= stamped
      /\ file' = [file EXCEPT ![0] = IF @ = NoFile THEN {} ELSE @]
  BY DEF Open, TypeOK, Call, Stamped
<1>2. /\ Own(c) /\ Others(c) /\ AtKept(c) /\ call'[c].at = 0 /\ call'[c].seen = stamped
  BY OpenCalls
<1>3. \A i \in Names, a, b \in Nat : Has(i, a, b)' =>
        Has(i, a, b) \/ (i = 0 /\ a = call[c].stamp /\ b = stamped)
  <2>. SUFFICES ASSUME NEW i \in Names, NEW a \in Nat, NEW b \in Nat, Has(i, a, b)'
                PROVE  Has(i, a, b) \/ (i = 0 /\ a = call[c].stamp /\ b = stamped)
    OBVIOUS
  <2>1. CASE file'[i] # NoFile /\ <<a, b>> \in file'[i]
    BY <1>1, <2>1 DEF Has, TypeOK
  <2>2. ASSUME NEW d \in Calls, call'[d].phase = "write", call'[d].at = i,
               call'[d].stamp = a, call'[d].seen = b
        PROVE  Has(i, a, b) \/ (i = 0 /\ a = call[c].stamp /\ b = stamped)
    <3>1. CASE d = c
      BY <1>2, <2>2, <3>1 DEF Own
    <3>2. CASE d # c
      BY <1>2, <2>2, <3>2 DEF Has, Others, AtKept
    <3>. QED  BY <3>1, <3>2
  <2>. QED  BY <2>1, <2>2 DEF Has
<1>4. \A i \in Names, a, b \in Nat : Has(i, a, b)' => a <= b /\ b <= stamped'
  BY <1>1, <1>3 DEF Sorted
<1>5. ASSUME NEW i \in Names, NEW j \in Names, NEW a \in Nat, NEW b \in Nat,
             NEW k \in Nat, NEW l \in Nat, i < j, Has(i, a, b)', Has(j, k, l)'
      PROVE  l <= b
  <2>1. j # 0
    BY <1>5 DEF Names
  <2>2. Has(j, k, l) /\ l <= stamped
    BY <1>3, <1>5, <2>1 DEF Sorted
  <2>3. CASE b = stamped
    BY <2>2, <2>3
  <2>4. CASE Has(i, a, b)
    BY <1>5, <2>2, <2>4 DEF Sorted
  <2>. QED  BY <1>3, <1>5, <2>3, <2>4
<1>. QED  BY <1>4, <1>5 DEF Sorted

\* A rename takes all lines of a number, written or not, to the next.
LEMMA ShiftSorted ==
  ASSUME TypeOK, Sorted, NEW c \in Calls, Shift(c)
  PROVE  Sorted'
<1>. PICK i \in Names, i1 \in Names : i = call[c].at /\ i1 = i + 1
  BY ShiftFiles
<1>1. /\ i # i1 /\ file[i] # NoFile /\ file'[i] = NoFile /\ file'[i1] = file[i]
      /\ \A j \in Names \ {i, i1} : file'[j] = file[j]
  BY ShiftFiles DEF Names
<1>2. stamped' = stamped /\ stamped \in Nat
  BY DEF Shift, TypeOK
<1>3. \A d \in Calls : call'[d].phase = "write" =>
        /\ call[d].phase = "write" /\ call'[d].stamp = call[d].stamp /\ call'[d].seen = call[d].seen
        /\ call'[d].at = IF call[d].at = i1 THEN Gone ELSE IF call[d].at = i THEN i1 ELSE call[d].at
  BY ShiftCalls DEF Others
<1>4. \A j \in Names, a, b \in Nat : Has(j, a, b)' =>
        j # i /\ (IF j = i1 THEN Has(i, a, b) ELSE Has(j, a, b))
  <2>. SUFFICES ASSUME NEW j \in Names, NEW a \in Nat, NEW b \in Nat, Has(j, a, b)'
                PROVE  j # i /\ (IF j = i1 THEN Has(i, a, b) ELSE Has(j, a, b))
    OBVIOUS
  <2>1. CASE file'[j] # NoFile /\ <<a, b>> \in file'[j]
    BY <1>1, <2>1 DEF Has
  <2>2. ASSUME NEW d \in Calls, call'[d].phase = "write", call'[d].at = j,
               call'[d].stamp = a, call'[d].seen = b
        PROVE  j # i /\ (IF j = i1 THEN Has(i, a, b) ELSE Has(j, a, b))
    <3>1. j # Gone
      BY DEF Names, Gone
    <3>2. call[d].at # i1
      BY <1>3, <2>2, <3>1
    <3>3. CASE call[d].at = i
      BY <1>1, <1>3, <2>2, <3>2, <3>3 DEF Has
    <3>4. CASE call[d].at # i
      <4>1. /\ call[d].at = j /\ call[d].phase = "write"
            /\ call[d].stamp = a /\ call[d].seen = b
        BY <1>3, <2>2, <3>2, <3>4
      <4>. QED  BY <3>2, <3>4, <4>1 DEF Has
    <3>. QED  BY <3>3, <3>4
  <2>. QED  BY <2>1, <2>2 DEF Has
<1>5. \A j \in Names, a, b \in Nat : Has(j, a, b)' => a <= b /\ b <= stamped'
  BY <1>2, <1>4 DEF Sorted
<1>6. ASSUME NEW j \in Names, NEW j2 \in Names, NEW a \in Nat, NEW b \in Nat,
             NEW k \in Nat, NEW l \in Nat, j < j2, Has(j, a, b)', Has(j2, k, l)'
      PROVE  l <= b
  <2>1. CASE j = i1
    <3>1. i < j2 /\ Has(i, a, b) /\ Has(j2, k, l)
      BY <1>4, <1>6, <2>1 DEF Names
    <3>. QED  BY <3>1 DEF Sorted
  <2>2. CASE j2 = i1
    <3>1. j < i /\ Has(j, a, b) /\ Has(i, k, l)
      BY <1>4, <1>6, <2>2 DEF Names
    <3>. QED  BY <3>1 DEF Sorted
  <2>3. CASE j # i1 /\ j2 # i1
    BY <1>4, <1>6, <2>3 DEF Sorted
  <2>. QED  BY <2>1, <2>2, <2>3
<1>. QED  BY <1>5, <1>6 DEF Sorted

LEMMA SortedStep ==
  ASSUME TypeOK, Stamped, Sorted, Next
  PROVE  Sorted'
<1>0. stamped \in Nat /\ stamped' \in Nat /\ stamped <= stamped'
  <2>1. TypeOK'
    BY TypeStep
  <2>. QED  BY <2>1, StampedStep DEF TypeOK
<1>1. ASSUME NEW c \in Calls, Log(c) \/ Stat(c) \/ StatFails(c) \/ ShiftFails(c) \/ Drop(c)
      PROVE  Sorted'
  <2>1. Others(c) /\ AtKept(c) /\ call'[c].phase # "write" /\ UNCHANGED file
    <3>1. CASE Log(c)
      BY <3>1, LogCalls DEF Log
    <3>2. CASE Stat(c) \/ StatFails(c)
      BY <3>2, StatCalls DEF Stat, StatFails
    <3>3. CASE ShiftFails(c)
      BY <3>3, ShiftFailsCalls DEF ShiftFails
    <3>4. CASE Drop(c)
      BY <3>4, EndCalls DEF Drop
    <3>. QED  BY <1>1, <3>1, <3>2, <3>3, <3>4
  <2>2. \A i \in Names, a, b \in Nat : Has(i, a, b)' => Has(i, a, b)
    BY <2>1, NothingWritten
  <2>. QED  BY <1>0, <2>2, NothingNew
<1>2. ASSUME NEW c \in Calls, Shift(c) PROVE Sorted'
  BY <1>2, ShiftSorted
<1>3. ASSUME NEW c \in Calls, Clean(c) PROVE Sorted'
  <2>. PICK kept \in SUBSET {i \in Names : i > KeepFiles} :
         /\ file' = [i \in Names |-> IF i > KeepFiles /\ i \notin kept THEN NoFile ELSE file[i]]
         /\ call' = [d \in Calls |->
              IF d = c THEN [call[c] EXCEPT !.phase = "open"]
              ELSE IF call[d].phase = "write" /\ call[d].at > KeepFiles /\ call[d].at \notin kept
                   THEN [call[d] EXCEPT !.at = Gone] ELSE call[d]]
    BY <1>3 DEF Clean
  <2>1. /\ Others(c) /\ call'[c].phase = "open"
        /\ \A d \in Calls : d # c /\ call[d].phase = "write" =>
             IF call[d].at > KeepFiles /\ call[d].at \notin kept
             THEN call'[d].at = Gone ELSE call'[d].at = call[d].at
    BY CleanCalls
  <2>2. \A d \in Calls : call'[d].phase = "write" /\ call'[d].at \in Names =>
          /\ call[d].phase = "write" /\ call'[d].at = call[d].at
          /\ call'[d].stamp = call[d].stamp /\ call'[d].seen = call[d].seen
    <3>1. Gone \notin Names
      BY DEF Gone, Names
    <3>. QED  BY <2>1, <3>1 DEF Others
  <2>3. \A i \in Names : file'[i] = file[i] \/ file'[i] = NoFile
    OBVIOUS
  <2>4. \A i \in Names, a, b \in Nat : Has(i, a, b)' => Has(i, a, b)
    BY <2>2, <2>3 DEF Has
  <2>. QED  BY <1>0, <2>4, NothingNew
<1>4. ASSUME NEW c \in Calls, Open(c) PROVE Sorted'
  BY <1>4, OpenSorted
<1>5. ASSUME NEW c \in Calls, Write(c) PROVE Sorted'
  <2>1. Others(c) /\ AtKept(c) /\ call'[c].phase = "done" /\ call[c].phase = "write"
    BY <1>5, EndCalls DEF Write
  <2>2. ASSUME NEW i \in Names, NEW a \in Nat, NEW b \in Nat, Has(i, a, b)' PROVE Has(i, a, b)
    <3>1. ASSUME NEW d \in Calls, call'[d].phase = "write", call'[d].at = i,
                 call'[d].stamp = a, call'[d].seen = b
          PROVE  Has(i, a, b)
      BY <2>1, <3>1 DEF Has, Others, AtKept
    <3>2. CASE file'[i] # NoFile /\ <<a, b>> \in file'[i]
      <4>1. CASE file'[i] = file[i]
        BY <3>2, <4>1 DEF Has
      <4>2. CASE /\ i = call[c].at /\ file[i] # NoFile
                 /\ file'[i] = file[i] \cup {<<call[c].stamp, call[c].seen>>}
        BY <2>1, <3>2, <4>2 DEF Has
      <4>. QED  BY <1>5, <4>1, <4>2, WriteFiles
    <3>. QED  BY <2>2, <3>1, <3>2 DEF Has
  <2>. QED  BY <1>0, <2>2, NothingNew
<1>6. CASE Reload
  BY <1>6 DEF Reload, Sorted, Has
<1>7. CASE Die
  <2>1. \A d \in Calls : call'[d].phase # "write"
    BY <1>7, DieCalls
  <2>2. \A i \in Names, a, b \in Nat : Has(i, a, b)' => Has(i, a, b)
    BY <1>7, <2>1 DEF Has, Die
  <2>. QED  BY <1>0, <2>2, NothingNew
<1>. QED  BY <1>1, <1>2, <1>3, <1>4, <1>5, <1>6, <1>7 DEF Next, Step

-----------------------------------------------------------------------------
(* Rotations                                                               *)

\* Two rotations at a time are both marked, and one that is not has made room at
\* the number it is to rename to.
Room ==
  /\ \A c, d \in Calls : Shifting(c) /\ Shifting(d) /\ c # d => call[c].marred
  /\ \A c \in Calls : call[c].phase = "shift" /\ ~call[c].marred /\ call[c].at < KeepFiles - 1 =>
       file[call[c].at + 1] = NoFile

\* A step that begins no rotation, goes on with none and creates no file but
\* access.log leaves room where there was.
LEMMA RoomKept ==
  ASSUME TypeOK, Room, NEW c \in Calls, Others(c), ~Shifting(c)',
         \A i \in Names : i > 0 /\ file[i] = NoFile => file'[i] = NoFile
  PROVE  Room'
<1>0. \A d \in Calls : Shifting(d)' =>
        /\ d # c /\ Shifting(d) /\ call'[d].phase = call[d].phase /\ call'[d].at = call[d].at
        /\ call[d].marred => call'[d].marred
  BY DEF Others, Shifting
<1>1. \A d, e \in Calls : Shifting(d)' /\ Shifting(e)' /\ d # e => call'[d].marred
  BY <1>0 DEF Room
<1>2. ASSUME NEW d \in Calls, call'[d].phase = "shift", ~call'[d].marred,
             call'[d].at < KeepFiles - 1
      PROVE  file'[call'[d].at + 1] = NoFile
  <2>1. /\ call[d].phase = "shift" /\ ~call[d].marred /\ call'[d].at = call[d].at
        /\ call[d].at \in 0..(KeepFiles - 1)
    BY <1>0, <1>2 DEF Shifting, TypeOK
  <2>2. file[call[d].at + 1] = NoFile
    BY <1>2, <2>1 DEF Room
  <2>3. call[d].at + 1 \in Names /\ call[d].at + 1 > 0
    BY <2>1 DEF Names
  <2>. QED  BY <2>1, <2>2, <2>3
<1>. QED  BY <1>1, <1>2 DEF Room

\* A rotation that goes on leaves room for its next rename.
LEMMA RoomGoesOn ==
  ASSUME TypeOK, Room, NEW c \in Calls, call[c].phase = "shift", Others(c),
         call[c].marred => call'[c].marred,
         call'[c].phase = "shift" => call'[c].at = call[c].at - 1,
         ~call'[c].marred => file'[call[c].at] = NoFile
  PROVE  Room'
<1>0. /\ Shifting(c) /\ call[c].at \in Int
      /\ \A d \in Calls : d # c /\ Shifting(d) => call[d].marred
  BY DEF Shifting, TypeOK, Room
<1>1. \A d \in Calls : d # c => (Shifting(d)' <=> Shifting(d)) /\ (call[d].marred => call'[d].marred)
  BY DEF Others, Shifting
<1>2. ASSUME NEW d \in Calls, NEW e \in Calls, Shifting(d)', Shifting(e)', d # e
      PROVE  call'[d].marred
  <2>1. CASE d = c
    BY <1>0, <1>1, <1>2, <2>1 DEF Room
  <2>2. CASE d # c
    BY <1>0, <1>1, <1>2, <2>2
  <2>. QED  BY <2>1, <2>2
<1>3. ASSUME NEW d \in Calls, call'[d].phase = "shift", ~call'[d].marred
      PROVE  d = c
  BY <1>0, <1>1, <1>3 DEF Shifting
<1>4. call'[c].phase = "shift" /\ ~call'[c].marred => file'[call'[c].at + 1] = NoFile
  BY <1>0
<1>. QED  BY <1>2, <1>3, <1>4 DEF Room

LEMMA RoomStep ==
  ASSUME TypeOK, Room, Next
  PROVE  Room'
<1>1. ASSUME NEW c \in Calls, Log(c) \/ Clean(c) \/ Open(c) \/ Write(c) \/ Drop(c) PROVE Room'
  <2>1. Others(c) /\ call'[c].phase \in {"stat", "open", "write", "done"}
    <3>1. CASE Log(c)
      BY <3>1, LogCalls
    <3>2. CASE Clean(c)
      BY <3>2, CleanOwn
    <3>3. CASE Open(c) \/ Write(c) \/ Drop(c)
      BY <3>3, OpenCalls, EndCalls
    <3>. QED  BY <1>1, <3>1, <3>2, <3>3
  <2>2. \A i \in Names : i > 0 /\ file[i] = NoFile => file'[i] = NoFile
    <3>1. CASE Log(c) \/ Drop(c)
      BY <3>1 DEF Log, Drop
    <3>2. CASE Clean(c)
      BY <3>2 DEF Clean
    <3>3. CASE Open(c)
      BY <3>3 DEF Open, TypeOK
    <3>4. CASE Write(c)
      BY <3>4, WriteFiles
    <3>. QED  BY <1>1, <3>1, <3>2, <3>3, <3>4
  <2>. QED  BY <2>1, <2>2, RoomKept DEF Shifting
<1>2. ASSUME NEW c \in Calls, Stat(c) \/ StatFails(c) PROVE Room'
  <2>0. call[c].phase = "stat" /\ UNCHANGED file /\ Others(c)
    BY <1>2, StatCalls DEF Stat, StatFails
  <2>1. CASE call'[c].phase = "open"
    BY <2>0, <2>1, RoomKept DEF Shifting
  <2>2. CASE /\ call'[c].phase = "shift" /\ call'[c].at = KeepFiles - 1
             /\ call'[c].marred = (Rivals(c) # {})
             /\ \A d \in Rivals(c) : d # c => call'[d].marred
    <3>1. \A d \in Calls : d # c /\ Shifting(d) => d \in Rivals(c)
      BY <2>0 DEF Rivals, Shifting, Rotates, TypeOK
    <3>2. \A d \in Calls : d # c => (Shifting(d)' <=> Shifting(d))
      BY <2>0 DEF Others, Shifting
    <3>3. ASSUME NEW d \in Calls, NEW e \in Calls, Shifting(d)', Shifting(e)', d # e
          PROVE  call'[d].marred
      <4>1. CASE d = c
        BY <2>2, <3>1, <3>2, <3>3, <4>1
      <4>2. CASE d # c
        BY <2>2, <3>1, <3>2, <3>3, <4>2
      <4>. QED  BY <4>1, <4>2
    <3>4. ASSUME NEW d \in Calls, call'[d].phase = "shift", ~call'[d].marred
          PROVE  d = c
      BY <2>2, <3>1, <3>2, <3>4 DEF Shifting
    <3>. QED  BY <2>2, <3>3, <3>4 DEF Room
  <2>. QED  BY <1>2, <2>1, <2>2, StatCalls
<1>3. ASSUME NEW c \in Calls, Shift(c) PROVE Room'
  <2>1. call[c].phase = "shift" /\ file'[call[c].at] = NoFile
    BY <1>3, ShiftFiles DEF Shift
  <2>. QED  BY <1>3, <2>1, ShiftCalls, RoomGoesOn
<1>4. ASSUME NEW c \in Calls, ShiftFails(c) PROVE Room'
  <2>1. call[c].phase = "shift" /\ UNCHANGED file
    BY <1>4 DEF ShiftFails
  <2>. QED  BY <1>4, <2>1, ShiftFailsCalls, RoomGoesOn
<1>5. CASE Reload
  BY <1>5 DEF Reload, Room, Shifting
<1>6. CASE Die
  BY <1>6, DieCalls DEF Room, Shifting
<1>. QED  BY <1>1, <1>2, <1>3, <1>4, <1>5, <1>6 DEF Next, Step

\* What is lost from a file that is kept is written over by the next younger one.
LEMMA LostStep ==
  ASSUME TypeOK, Room, Next, NEW i \in 0..KeepFiles, file[i] # NoFile, ~(file[i] \subseteq Kept')
  PROVE  \/ i = KeepFiles /\ file'[i] = file[i - 1]
         \/ \E c \in Calls : Shifting(c) /\ call[c].marred
<1>0. i \in Names /\ \A j \in Names : file'[j] # NoFile => file'[j] \subseteq Kept'
  BY DEF Names, Kept
<1>1. ~(file'[i] # NoFile /\ file[i] \subseteq file'[i])
  BY <1>0
<1>2. ASSUME NEW c \in Calls, Shift(c)
      PROVE  \/ i = KeepFiles /\ file'[i] = file[i - 1]
             \/ \E d \in Calls : Shifting(d) /\ call[d].marred
  <2>1. call[c].phase = "shift" /\ call[c].at \in 0..(KeepFiles - 1) /\ Shifting(c)
    BY <1>2 DEF Shift, TypeOK, Shifting
  <2>2. /\ file[call[c].at] # NoFile /\ file'[call[c].at + 1] = file[call[c].at]
        /\ call[c].at + 1 \in Names
        /\ \A j \in Names \ {call[c].at, call[c].at + 1} : file'[j] = file[j]
    BY <1>2, ShiftFiles
  <2>3. i = call[c].at + 1
    BY <1>0, <1>1, <2>2
  <2>4. CASE i = KeepFiles
    BY <2>1, <2>2, <2>3, <2>4
  <2>5. CASE i # KeepFiles
    BY <2>1, <2>3, <2>5 DEF Room
  <2>. QED  BY <2>4, <2>5
<1>3. ASSUME NEW c \in Calls, Clean(c) PROVE FALSE
  BY <1>0, <1>1, <1>3 DEF Clean
<1>4. ASSUME NEW c \in Calls, Open(c) PROVE FALSE
  BY <1>0, <1>1, <1>4 DEF Open, TypeOK
<1>5. ASSUME NEW c \in Calls, Write(c) PROVE FALSE
  <2>1. file'[i] # NoFile
    BY <1>0, <1>5, WriteFiles
  <2>2. file[i] \subseteq file'[i]
    BY <1>0, <1>5, WriteFiles
  <2>. QED  BY <1>1, <2>1, <2>2
<1>6. ASSUME NEW c \in Calls, Log(c) \/ Stat(c) \/ StatFails(c) \/ ShiftFails(c) \/ Drop(c)
      PROVE  UNCHANGED file
  BY <1>6 DEF Log, Stat, StatFails, ShiftFails, Drop
<1>7. ASSUME Reload \/ Die PROVE UNCHANGED file
  BY <1>7 DEF Reload, Die
<1>8. ASSUME UNCHANGED file PROVE FALSE
  BY <1>1, <1>8
<1>. QED  BY <1>2, <1>3, <1>4, <1>5, <1>6, <1>7, <1>8 DEF Next, Step

-----------------------------------------------------------------------------
(* A call that has the log for itself                                      *)

\* It finds room in access.log, or makes it.
Fits(c) ==
  /\ call[c].phase = "clean" => bytes[0] = 0
  /\ call[c].phase \in {"open", "write"} => bytes[0] < Cap

\* A logger that is marked as rotating is, so that a call never goes on without a
\* rotation when there is nobody to do it ...
Busy == \A g \in Loggers : rotating[g] => \E c \in Calls : Rotates(c) /\ call[c].by = g

\* ... and one that began alone is, until the next arrives.
Alone == \A c \in Calls : call[c].alone => Active \subseteq {c} /\ (call[c].marred \/ Fits(c))

Undisturbed == Busy /\ Alone

\* A mark of rotating goes with the rotation it is for.
LEMMA BusyKept ==
  ASSUME Busy, NEW c \in Calls, Others(c),
         \A g \in Loggers : rotating'[g] =>
           \/ Rotates(c)' /\ call'[c].by = g
           \/ rotating[g] /\ ~(Rotates(c) /\ call[c].by = g)
  PROVE  Busy'
<1>. SUFFICES ASSUME NEW g \in Loggers, rotating'[g]
              PROVE  \E d \in Calls : Rotates(d)' /\ call'[d].by = g
  BY DEF Busy
<1>1. CASE Rotates(c)' /\ call'[c].by = g
  BY <1>1
<1>2. CASE rotating[g] /\ ~(Rotates(c) /\ call[c].by = g)
  <2>1. PICK d \in Calls : Rotates(d) /\ call[d].by = g
    BY <1>2 DEF Busy
  <2>2. Rotates(d)' /\ call'[d].by = g
    BY <1>2, <2>1 DEF Others, Rotates
  <2>. QED  BY <2>2
<1>. QED  BY <1>1, <1>2

\* Whoever does a step is under way, so that a call which is alone did it itself.
LEMMA AloneKept ==
  ASSUME Alone, NEW c \in Active, Others(c),
         call'[c].alone => call[c].alone /\ (call'[c].marred \/ Fits(c)')
  PROVE  Alone'
<1>. SUFFICES ASSUME NEW d \in Calls, call'[d].alone
              PROVE  Active' \subseteq {d} /\ (call'[d].marred \/ Fits(d)')
  BY DEF Alone
<1>1. call[d].alone
  BY DEF Others, Active
<1>2. Active \subseteq {c} /\ d = c
  BY <1>1 DEF Alone, Active
<1>3. Active' \subseteq {c}
  BY <1>2 DEF Active, Others
<1>. QED  BY <1>2, <1>3

\* A call that arrives: alone when there is no other, and then nobody rotates.
LEMMA LogAlone ==
  ASSUME TypeOK, Busy, Alone, NEW c \in Calls, Log(c)
  PROVE  Busy' /\ Alone'
<1>1. /\ call[c].phase = "new" /\ logger \in Loggers /\ rotating' = [rotating EXCEPT ![logger] = TRUE]
  BY DEF Log, TypeOK
<1>2. /\ Others(c) /\ call'[c].phase = (IF rotating[logger] THEN "open" ELSE "stat")
      /\ call'[c].by = logger /\ call'[c].alone = (Active = {})
      /\ \A d \in Calls : d # c => ~call'[d].alone
  BY LogCalls
<1>3. Busy'
  <2>1. ~Rotates(c) /\ (~rotating[logger] => Rotates(c)')
    BY <1>1, <1>2 DEF Rotates
  <2>2. \A g \in Loggers : rotating'[g] => rotating[g] \/ g = logger
    BY <1>1 DEF TypeOK
  <2>. QED  BY <1>2, <2>1, <2>2, BusyKept
<1>4. Alone'
  <2>. SUFFICES ASSUME NEW d \in Calls, call'[d].alone
                PROVE  Active' \subseteq {d} /\ Fits(d)'
    BY DEF Alone
  <2>1. d = c /\ Active = {}
    BY <1>2
  <2>2. Active' \subseteq {c}
    BY <1>2, <2>1 DEF Active, Others
  <2>3. ~rotating[logger]
    BY <1>1, <2>1 DEF Busy, Active, Rotates
  <2>. QED  BY <1>2, <2>1, <2>2, <2>3 DEF Fits
<1>. QED  BY <1>3, <1>4

LEMMA UndisturbedStep ==
  ASSUME TypeOK, Undisturbed, Next
  PROVE  Undisturbed'
<1>0. Busy /\ Alone /\ 0 \in Names /\ FilesOK
  BY TypeParts DEF Undisturbed, Names
<1>1. ASSUME NEW c \in Calls, Log(c) PROVE Busy' /\ Alone'
  BY <1>0, <1>1, LogAlone
<1>2. ASSUME NEW c \in Calls, Stat(c) \/ StatFails(c) PROVE Busy' /\ Alone'
  <2>1. /\ call[c].phase = "stat" /\ c \in Active /\ call[c].by \in Loggers /\ UNCHANGED bytes
    BY <1>2 DEF Stat, StatFails, Active, TypeOK
  <2>2. /\ Own(c) /\ Others(c)
        /\ \/ call'[c].phase = "shift" /\ UNCHANGED rotating
           \/ /\ call'[c].phase = "open" /\ (Full => call'[c].marred)
              /\ rotating' = [rotating EXCEPT ![call[c].by] = FALSE]
    BY <1>2, StatCalls
  <2>3. Busy'
    <3>1. \A g \in Loggers : rotating'[g] =>
            \/ Rotates(c)' /\ call'[c].by = g
            \/ rotating[g] /\ ~(Rotates(c) /\ call[c].by = g)
      BY <2>1, <2>2 DEF Rotates, TypeOK, Own
    <3>. QED  BY <1>0, <2>2, <3>1, BusyKept
  <2>4. ~Full => bytes'[0] < Cap
    BY <1>0, <2>1 DEF Full, FilesOK
  <2>5. call'[c].marred \/ Fits(c)'
    BY <2>2, <2>4 DEF Fits
  <2>. QED  BY <1>0, <2>1, <2>2, <2>3, <2>5, AloneKept DEF Own
<1>3. ASSUME NEW c \in Calls, Shift(c) \/ ShiftFails(c) PROVE Busy' /\ Alone'
  <2>1. call[c].phase = "shift" /\ c \in Active /\ UNCHANGED rotating /\ Rotates(c)
    BY <1>3 DEF Shift, ShiftFails, Active, Rotates
  <2>2. /\ Own(c) /\ Others(c)
        /\ \/ call'[c].phase = "shift"
           \/ call[c].at = 0 /\ call'[c].phase = "clean"
    BY <1>3, ShiftCalls, ShiftFailsCalls
  <2>3. Busy'
    BY <1>0, <2>1, <2>2, BusyKept DEF Rotates, Own
  <2>4. call[c].at = 0 => call'[c].marred \/ bytes'[0] = 0
    <3>1. CASE Shift(c)
      BY <3>1, ShiftFiles
    <3>2. CASE ShiftFails(c)
      BY <1>0, <3>2, ShiftFailsCalls DEF ShiftFails, FilesOK
    <3>. QED  BY <1>3, <3>1, <3>2
  <2>5. call'[c].marred \/ Fits(c)'
    BY <2>2, <2>4 DEF Fits
  <2>. QED  BY <1>0, <2>1, <2>2, <2>3, <2>5, AloneKept DEF Own
<1>4. ASSUME NEW c \in Calls, Clean(c) PROVE Busy' /\ Alone'
  <2>1. /\ call[c].phase = "clean" /\ c \in Active /\ call[c].by \in Loggers
        /\ rotating' = [rotating EXCEPT ![call[c].by] = FALSE] /\ Rotates(c)
    BY <1>4 DEF Clean, Active, Rotates, TypeOK
  <2>2. Own(c) /\ Others(c) /\ call'[c].phase = "open" /\ call'[c].marred = call[c].marred
    BY <1>4, CleanOwn
  <2>3. Busy'
    <3>1. \A g \in Loggers : rotating'[g] => rotating[g] /\ ~(Rotates(c) /\ call[c].by = g)
      BY <2>1 DEF TypeOK
    <3>. QED  BY <1>0, <2>2, <3>1, BusyKept
  <2>4. bytes'[0] = bytes[0]
    BY <1>0, <1>4 DEF Clean
  <2>5. call[c].alone => call'[c].marred \/ Fits(c)'
    BY <1>0, <2>1, <2>2, <2>4 DEF Alone, Fits
  <2>. QED  BY <1>0, <2>1, <2>2, <2>3, <2>5, AloneKept DEF Own
<1>5. ASSUME NEW c \in Calls, Open(c) PROVE Busy' /\ Alone'
  <2>1. call[c].phase = "open" /\ c \in Active /\ UNCHANGED <<rotating, bytes>> /\ ~Rotates(c)
    BY <1>5 DEF Open, Active, Rotates
  <2>2. Own(c) /\ Others(c) /\ call'[c].phase = "write" /\ call'[c].marred = call[c].marred
    BY <1>5, OpenCalls
  <2>3. Busy'
    BY <1>0, <2>1, <2>2, BusyKept
  <2>4. call[c].alone => call'[c].marred \/ Fits(c)'
    BY <1>0, <2>1, <2>2 DEF Alone, Fits
  <2>. QED  BY <1>0, <2>1, <2>2, <2>3, <2>4, AloneKept DEF Own
<1>6. ASSUME NEW c \in Calls, Write(c) \/ Drop(c) PROVE Busy' /\ Alone'
  <2>1. call[c].phase \in {"open", "write"} /\ c \in Active /\ UNCHANGED rotating /\ ~Rotates(c)
    BY <1>6 DEF Write, Drop, Active, Rotates
  <2>2. Others(c) /\ ~call'[c].alone
    BY <1>6, EndCalls
  <2>. QED  BY <1>0, <2>1, <2>2, BusyKept, AloneKept
<1>7. CASE Reload
  <2>1. UNCHANGED <<bytes, rotating, call>>
    BY <1>7 DEF Reload
  <2>. QED  BY <1>0, <2>1 DEF Undisturbed, Busy, Alone, Rotates, Active, Fits
<1>8. CASE Die
  <2>1. \A d \in Calls : call'[d].phase \in {"new", "done"}
    BY <1>8, DieCalls
  <2>2. Busy'
    BY <1>8 DEF Die, Busy
  <2>3. Alone'
    BY <2>1 DEF Alone, Active, Fits
  <2>. QED  BY <2>2, <2>3 DEF Undisturbed
<1>. QED  BY <1>1, <1>2, <1>3, <1>4, <1>5, <1>6, <1>7, <1>8 DEF Next, Step, Undisturbed

-----------------------------------------------------------------------------
(* Theorems                                                                *)

LEMMA InitIInv ==
  ASSUME Init
  PROVE  IInv
<1>1. PICK old \in SUBSET Names :
        /\ file = [i \in Names |-> IF i \in old THEN {<<MaxFile - i, MaxFile - i>>} ELSE NoFile]
        /\ bytes = [i \in Names |-> IF i \in old THEN Cap ELSE 0]
  BY DEF Init
<1>2. /\ stamped = MaxFile /\ logger = 1 /\ rotating = [g \in Loggers |-> FALSE]
      /\ call = [c \in Calls |-> New]
  BY DEF Init
<1>3. \A c \in Calls : call[c] \in Call /\ call[c].phase = "new" /\ call[c].stamp = 0
  BY <1>2, DoneFields
<1>4. \A i \in Names : MaxFile - i \in Nat /\ <<MaxFile - i, MaxFile - i>> \in Line
  BY DEF Names, Line
<1>5. TypeOK
  <2>2. ASSUME NEW i \in Names PROVE {<<MaxFile - i, MaxFile - i>>} # NoFile
    <3>0. i \in Int /\ i <= MaxFile /\ MaxFile \in Int
      BY DEF Names
    <3>1. MaxFile - i # -1
      BY <3>0
    <3>2. <<MaxFile - i, MaxFile - i>> # <<-1, -1>>
      BY <3>1
    <3>. QED  BY <3>2 DEF NoFile
  <2>3. FilesOK
    BY <1>1, <1>4, <2>2 DEF FilesOK
  <2>4. CallsOK /\ WritesOK
    BY <1>3 DEF CallsOK, WritesOK, Rotates
  <2>5. /\ stamped \in Nat /\ logger \in Loggers
        /\ rotating \in [Loggers -> BOOLEAN] /\ call \in [Calls -> Call]
    BY <1>2, <1>3 DEF Loggers
  <2>. QED  BY <2>3, <2>4, <2>5, TypeParts
<1>6. Stamped
  <2>1. stamped \in Nat
    BY <1>2
  <2>2. \A c \in Calls : call[c].stamp = 0
    BY <1>3
  <2>3. 0 <= stamped
    BY <2>1
  <2>. QED  BY <2>2, <2>3 DEF Stamped
<1>7. ASSUME NEW i \in Names, NEW a \in Nat, NEW b \in Nat, Has(i, a, b)
      PROVE  a = MaxFile - i /\ b = MaxFile - i
  <2>1. file[i] # NoFile /\ <<a, b>> \in file[i]
    BY <1>3, <1>7 DEF Has
  <2>2. <<a, b>> \in {<<MaxFile - i, MaxFile - i>>}
    BY <1>1, <2>1
  <2>. QED  BY <2>2
<1>8. Sorted
  <2>1. \A i \in Names, a, b \in Nat : Has(i, a, b) => a <= b /\ b <= stamped
    BY <1>2, <1>4, <1>7 DEF Names
  <2>2. \A i, j \in Names, a, b, k, l \in Nat : i < j /\ Has(i, a, b) /\ Has(j, k, l) => l <= b
    BY <1>7 DEF Names
  <2>. QED  BY <2>1, <2>2 DEF Sorted
<1>. QED  BY <1>5, <1>6, <1>8 DEF IInv

LEMMA Unchanged ==
  ASSUME IInv, UNCHANGED vars
  PROVE  IInv'
BY DEF IInv, TypeOK, Stamped, Sorted, Has, Rotates, vars

THEOREM Invariant == Spec => []IInv
<1>1. ASSUME IInv, [Next]_vars PROVE IInv'
  <2>1. CASE Next
    BY <1>1, <2>1, TypeStep, StampedStep, SortedStep DEF IInv
  <2>2. CASE UNCHANGED vars
    BY <1>1, <2>2, Unchanged
  <2>. QED  BY <1>1, <2>1, <2>2
<1>. QED  BY InitIInv, <1>1, PTL DEF Spec

\* The state keeps its types: among them, that a logger never rotates twice at once
\* and that its mark says so.
THEOREM TypeCorrect == Spec => []TypeOK
<1>1. IInv => TypeOK
  BY DEF IInv
<1>. QED  BY <1>1, Invariant, PTL

\* Lines of calls that did not overlap are in order over the files, for any number
\* of files kept, however many calls and loggers there are and whichever renames
\* fail: what is in a file with a higher number was built before the file was opened
\* for what is in one with a lower number.
THEOREM InOrder == Spec => []Chronological
<1>1. IInv => Chronological
  <2>. SUFFICES ASSUME IInv, NEW i \in Names, NEW j \in Names, i < j,
                       file[i] # NoFile, file[j] # NoFile, NEW m \in file[i], NEW n \in file[j]
                PROVE  n[1] <= m[2]
    BY DEF Chronological
  <2>1. file[i] \subseteq Line /\ file[j] \subseteq Line
    BY DEF IInv, TypeOK
  <2>2. PICK a \in Nat, b \in Nat, k \in Nat, l \in Nat : m = <<a, b>> /\ n = <<k, l>>
    BY <2>1 DEF Line
  <2>3. Has(i, a, b) /\ Has(j, k, l)
    BY <2>2 DEF Has
  <2>4. l <= b /\ k <= l
    BY <2>3 DEF IInv, Sorted
  <2>. QED  BY <2>2, <2>4
<1>. QED  BY <1>1, Invariant, PTL

\* What is kept of the log is lost only from the oldest file that is kept, unless a
\* rename of a rotation failed or two loggers rotated at once.
THEOREM NothingElseLost == Spec => OnlyOldestLost
<1>1. ASSUME Init PROVE Room
  <2>1. \A c \in Calls : call[c].phase = "new"
    BY <1>1, DoneFields DEF Init
  <2>. QED  BY <2>1 DEF Room, Shifting
<1>2. ASSUME IInv, Room, [Next]_vars PROVE Room'
  <2>1. CASE Next
    BY <1>2, <2>1, RoomStep DEF IInv
  <2>2. CASE UNCHANGED vars
    <3>1. UNCHANGED <<file, call>>
      BY <2>2 DEF vars
    <3>. QED  BY <1>2, <3>1 DEF Room, Shifting
  <2>. QED  BY <1>2, <2>1, <2>2
<1>3. ASSUME IInv, Room, [Next]_vars
      PROVE  [\A i \in 0..KeepFiles :
                file[i] # NoFile /\ ~(file[i] \subseteq Kept') =>
                  \/ i = KeepFiles /\ file'[i] = file[i - 1]
                  \/ \E c \in Calls : Shifting(c) /\ call[c].marred]_vars
  BY <1>3, LostStep DEF IInv
<1>. QED  BY <1>1, <1>2, <1>3, Invariant, PTL DEF Spec, OnlyOldestLost

\* A call that has had the log for itself passes the limit of access.log by less
\* than its own line, unless its rotation was marred: for any limit, lines of any
\* length and whatever was there before.
THEOREM WithinCapAlone == Spec => AloneWithinCap
<1>1. ASSUME Init PROVE Undisturbed
  <2>1. \A c \in Calls : ~call[c].alone
    BY <1>1, DoneFields DEF Init
  <2>2. \A g \in Loggers : ~rotating[g]
    BY <1>1 DEF Init
  <2>. QED  BY <2>1, <2>2 DEF Undisturbed, Busy, Alone
<1>2. ASSUME IInv, Undisturbed, [Next]_vars PROVE Undisturbed'
  <2>1. CASE Next
    BY <1>2, <2>1, UndisturbedStep DEF IInv
  <2>2. CASE UNCHANGED vars
    <3>1. UNCHANGED <<bytes, rotating, call>>
      BY <2>2 DEF vars
    <3>. QED  BY <1>2, <3>1 DEF Undisturbed, Busy, Alone, Rotates, Active, Fits
  <2>. QED  BY <1>2, <2>1, <2>2
<1>3. ASSUME IInv, Undisturbed, Next, NEW c \in Calls,
             call[c].phase = "write", call'[c].phase = "done",
             call[c].alone, ~call[c].marred, call[c].at = 0, file' # file
      PROVE  bytes'[0] < Cap + call[c].len
  <2>1. c \in Active /\ TypeOK /\ 0 \in Names /\ 0 # Gone
    BY <1>3 DEF Active, IInv, Names, Gone
  <2>2. \A d \in Calls : d # c => call[d].phase \in {"new", "done"}
    BY <1>3 DEF Undisturbed, Alone, Active
  <2>3. bytes[0] < Cap
    BY <1>3 DEF Undisturbed, Alone, Fits
  <2>4. Write(c)
    <3>1. ASSUME NEW d \in Calls, Shift(d) \/ Clean(d) \/ Open(d) PROVE FALSE
      BY <1>3, <2>2, <3>1 DEF Shift, Clean, Open
    <3>2. ASSUME NEW d \in Calls, Write(d) PROVE d = c
      BY <2>2, <3>2 DEF Write
    <3>3. ASSUME NEW d \in Calls, Log(d) \/ Stat(d) \/ StatFails(d) \/ ShiftFails(d) \/ Drop(d)
          PROVE  FALSE
      BY <1>3, <3>3 DEF Log, Stat, StatFails, ShiftFails, Drop
    <3>4. ASSUME Reload \/ Die PROVE FALSE
      BY <1>3, <3>4 DEF Reload, Die
    <3>. QED  BY <1>3, <3>1, <3>2, <3>3, <3>4 DEF Next, Step
  <2>5. bytes'[0] = bytes[0] + call[c].len
    BY <1>3, <2>1, <2>4, WriteFiles
  <2>6. bytes[0] \in Nat /\ call[c].len \in Nat
    BY <2>1 DEF TypeOK, Call
  <2>. QED  BY <2>3, <2>5, <2>6
<1>4. ASSUME IInv, Undisturbed, [Next]_vars
      PROVE  [\A c \in Calls :
                /\ call[c].phase = "write" /\ call'[c].phase = "done"
                /\ call[c].alone /\ ~call[c].marred /\ call[c].at = 0 /\ file' # file
                => bytes'[0] < Cap + call[c].len]_vars
  BY <1>3, <1>4
<1>. QED  BY <1>1, <1>2, <1>4, Invariant, PTL DEF Spec, AloneWithinCap

LEMMA SettledStays == Key!Spec => Key!KeyStays
<1>. DEFINE Indexed == DOMAIN keyInit = Key!Loggers
<1>1. Key!Init => Indexed
  BY DEF Key!Init
<1>2. ASSUME Indexed, [Key!Next]_Key!vars PROVE Indexed'
  BY <1>2 DEF Key!Next, Key!Step, Key!vars, Key!LoadKey, Key!MisreadKey, Key!SaveKey, Key!UseKey,
              Key!Reload, Key!Die
<1>3. ASSUME Indexed, Key!Next, Key!KeySettled
      PROVE  /\ keyFile' = keyFile
             /\ Key!KeySettled' \/ \E g \in Key!Loggers : keyInit'[g] = "misread"
  <2>1. ASSUME NEW g \in Key!Loggers, Key!LoadKey(g) PROVE Key!KeySettled' /\ keyFile' = keyFile
    <3>1. /\ hmacKey' = keyFile /\ keyFile' = keyFile
          /\ keyInit' = [keyInit EXCEPT ![g] = "done"]
      BY <1>3, <2>1 DEF Key!LoadKey, Key!KeySettled
    <3>2. \A h \in Key!Loggers : keyInit'[h] \in {"none", "read", "done"}
      BY <1>3, <3>1 DEF Key!KeySettled
    <3>. QED  BY <1>3, <3>1, <3>2 DEF Key!KeySettled, Key!Usable
  <2>2. ASSUME NEW g \in Key!Loggers, Key!MisreadKey(g)
        PROVE  keyFile' = keyFile /\ keyInit'[g] = "misread"
    BY <1>3, <2>2 DEF Key!MisreadKey
  <2>3. ASSUME NEW g \in Key!Loggers, Key!SaveKey(g) \/ Key!UseKey(g) PROVE FALSE
    BY <1>3, <2>3 DEF Key!SaveKey, Key!UseKey, Key!ToAppend, Key!KeySettled
  <2>4. CASE Key!Reload
    <3>1. /\ UNCHANGED <<hmacKey, keyFile>>
          /\ \A h \in Key!Loggers : keyInit'[h] \in {"none", "read", "done"}
      BY <1>3, <2>4 DEF Key!Reload, Key!KeySettled
    <3>. QED  BY <1>3, <3>1 DEF Key!KeySettled, Key!Usable
  <2>5. CASE Key!Die
    <3>1. /\ hmacKey' = <<>> /\ keyFile' = keyFile
          /\ \A h \in Key!Loggers : keyInit'[h] \in {"none", "read", "done"}
      BY <1>3, <2>5 DEF Key!Die, Key!ToAppend, Key!KeySettled
    <3>. QED  BY <1>3, <3>1 DEF Key!KeySettled, Key!Usable
  <2>. QED  BY <1>3, <2>1, <2>2, <2>3, <2>4, <2>5 DEF Key!Next, Key!Step
<1>4. ASSUME Indexed, [Key!Next]_Key!vars
      PROVE  [Key!KeySettled =>
                /\ keyFile' = keyFile
                /\ Key!KeySettled' \/ \E g \in Key!Loggers : keyInit'[g] = "misread"]_Key!vars
  BY <1>3, <1>4
<1>. QED  BY <1>1, <1>2, <1>4, PTL DEF Key!Spec, Key!KeyStays

\* The log goes on as AccessLog says whatever its loggers do about the key, so that
\* what is proved of it above holds of AccessLogger.
THEOREM LogIsApart == LoggerSpec => Spec
<1>1. LoggerInit => Init
  BY DEF LoggerInit
<1>2. [LoggerNext]_<<vars, keyVars>> => [Next]_vars
  BY DEF LoggerNext, Next, vars
<1>. QED  BY <1>1, <1>2, PTL DEF LoggerSpec, Spec

\* A key that is settled stays the key, of this process and of every one to come,
\* until a logger fails to read it: for any number of loggers, and whatever is
\* logged meanwhile.
THEOREM KeyIsForGood == LoggerSpec => KeyStays
<1>1. LoggerInit => Key!Init
  BY DEF LoggerInit
<1>2. [LoggerNext]_<<vars, keyVars>> => [Key!Next]_Key!vars
  BY DEF LoggerNext, Key!Next, vars, keyVars, Key!vars, Step, Log, Stat, StatFails, Shift,
         ShiftFails, Clean, Open, Write, Drop, Loggers, Key!Loggers
<1>. QED  BY <1>1, <1>2, SettledStays, PTL DEF LoggerSpec, Key!Spec, KeyStays
=============================================================================
