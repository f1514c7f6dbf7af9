------------------------------ MODULE AccessLog ------------------------------
(***************************************************************************)
(* The access log (lib/accesslog.mjs): access.log and its numbered         *)
(* histories, written and rotated by calls of log() that overlap.  The key *)
(* of the pseudonyms in them is in HmacKey, both together in AccessLogger. *)
(*                                                                         *)
(* Every rename, stat, open and write is an await of its own.  A write     *)
(* goes to the file that was opened, whatever its name is by then.  The    *)
(* plugin may be applied again in the same process while calls of the      *)
(* logger before are under way, and the process may die anywhere.          *)
(*                                                                         *)
(* A line is its number in the order in which lines were built, which is   *)
(* before any rotation, with the number of lines that had been built when  *)
(* a file was opened for it.  File 0 is access.log, file i access.log.i.   *)
(***************************************************************************)
EXTENDS Integers, Sequences

CONSTANTS
  Calls,       \* bound: calls of log(), each made once
  MaxLoggers,  \* bound: calls of createAccessLogger()
  Cap,         \* capBytes
  Lengths,     \* how long a line may be, in the same unit
  KeepFiles,   \* keepFiles
  MaxFile      \* the highest number a file has, from a larger keepFiles before

Names == 0..MaxFile
Loggers == 1..MaxLoggers

\* What is under a name when there is no such file: not a set of lines.
NoFile == {<<-1, -1>>}

\* Lines: <<number, number of lines built when the file for it was opened>>.
Line == Nat \X Nat

ASSUME AccessLogAssumption ==
  /\ MaxLoggers \in Nat \ {0}
  /\ Cap \in Nat \ {0}
  /\ Lengths \subseteq Nat \ {0}
  /\ KeepFiles \in Nat \ {0}
  /\ MaxFile \in Nat /\ MaxFile >= KeepFiles

VARIABLES
  file,      \* file[i]: the lines of the file with number i, or NoFile
  bytes,     \* bytes[i]: how long that file is, 0 for none
  stamped,   \* number of lines built
  logger,    \* the logger that gets the calls
  rotating,  \* rotating[g], of logger g
  call       \* call[c]: where call c is

vars == <<file, bytes, stamped, logger, rotating, call>>

-----------------------------------------------------------------------------
(* Calls and files.  Definitions named Faulty... are seeded faults:        *)
(* plausible slips in the definition that follows them, never used by      *)
(* Next, kept to see that each property can fail.                          *)

Gone == -1

\* at: in a shift the number that is renamed next, in a write the number that
\* the opened file has now, or Gone; stamp, seen, len: its line, from when the
\* call begins, seen from when it opens the file.  History: marred, its rotation
\* did not see access.log, failed to rename a file or went on beside that of
\* another logger; alone, no other call was under way since it began.
Call == [phase : {"new", "stat", "shift", "clean", "open", "write", "done"},
         by : Loggers \cup {0}, at : Names \cup {Gone},
         stamp : Nat, seen : Nat, len : Nat, marred : BOOLEAN, alone : BOOLEAN]

New  == [phase |-> "new", by |-> 0, at |-> 0, stamp |-> 0, seen |-> 0, len |-> 0,
         marred |-> FALSE, alone |-> FALSE]
Done == [New EXCEPT !.phase = "done"]

Active == {c \in Calls : call[c].phase \notin {"new", "done"}}
Shifting(c) == call[c].phase \in {"shift", "clean"}
Rotates(c) == call[c].phase \in {"stat", "shift", "clean"}

\* The calls when the file with number i gets number j, and that of j is gone.
Moved(i, j) ==
  [c \in Calls |->
     IF call[c].phase # "write" THEN call[c]
     ELSE IF call[c].at = j THEN [call[c] EXCEPT !.at = Gone]
     ELSE IF call[c].at = i THEN [call[c] EXCEPT !.at = j]
     ELSE call[c]]

\* Any of the files may be there from before, with a line that fills it.
Init ==
  /\ \E old \in SUBSET Names :
       /\ file = [i \in Names |-> IF i \in old THEN {<<MaxFile - i, MaxFile - i>>} ELSE NoFile]
       /\ bytes = [i \in Names |-> IF i \in old THEN Cap ELSE 0]
  /\ stamped = MaxFile
  /\ logger = 1
  /\ rotating = [g \in Loggers |-> FALSE]
  /\ call = [c \in Calls |-> New]

-----------------------------------------------------------------------------
(* log() and rotate()                                                      *)

FaultyLog(c) ==
  /\ call[c].phase = "new"
  /\ stamped' = stamped + 1
  /\ \E len \in Lengths :
       call' = [d \in Calls |->
         IF d = c THEN [call[c] EXCEPT !.phase = "stat", !.by = logger, !.stamp = stamped + 1,
                                       !.len = len, !.alone = (Active = {})]
         ELSE [call[d] EXCEPT !.alone = FALSE]]
  /\ rotating' = [rotating EXCEPT ![logger] = TRUE]
  /\ UNCHANGED <<file, bytes, logger>>

\* The line is built, with its time, before anything is awaited.  A call that finds
\* a rotation of its logger under way goes on without one.
Log(c) ==
  /\ call[c].phase = "new"
  /\ stamped' = stamped + 1
  /\ \E len \in Lengths :
       call' = [d \in Calls |->
         IF d = c THEN [call[c] EXCEPT !.phase = IF rotating[logger] THEN "open" ELSE "stat",
                                       !.by = logger, !.stamp = stamped + 1, !.len = len,
                                       !.alone = (Active = {})]
         ELSE [call[d] EXCEPT !.alone = FALSE]]
  /\ rotating' = [rotating EXCEPT ![logger] = TRUE]
  /\ UNCHANGED <<file, bytes, logger>>

FaultyFull == bytes[0] > Cap

\* As the file is before the line is added to it.
Full == bytes[0] >= Cap

FaultyFirstShift == KeepFiles

\* The shift begins with the oldest file that is kept after it.
FirstShift == KeepFiles - 1

\* The rotations of other loggers that are under way when c begins its own.
Rivals(c) == {d \in Calls : Shifting(d) /\ call[d].by # call[c].by}

Stat(c) ==
  /\ call[c].phase = "stat"
  /\ IF Full
     THEN /\ call' = [d \in Calls |->
               IF d = c THEN [call[c] EXCEPT !.phase = "shift", !.at = FirstShift,
                                             !.marred = (Rivals(c) # {})]
               ELSE IF d \in Rivals(c) THEN [call[d] EXCEPT !.marred = TRUE] ELSE call[d]]
          /\ UNCHANGED rotating
     ELSE /\ call' = [call EXCEPT ![c].phase = "open"]
          /\ rotating' = [rotating EXCEPT ![call[c].by] = FALSE]
  /\ UNCHANGED <<file, bytes, stamped, logger>>

\* stat() of a file that is there fails: it is taken for one that is not.
StatFails(c) ==
  /\ call[c].phase = "stat"
  /\ file[0] # NoFile
  /\ call' = [call EXCEPT ![c] = [@ EXCEPT !.phase = "open", !.marred = TRUE]]
  /\ rotating' = [rotating EXCEPT ![call[c].by] = FALSE]
  /\ UNCHANGED <<file, bytes, stamped, logger>>

\* The call after it has dealt with number i, in the calls cs.
Shifted(cs, c, fails) ==
  LET i == call[c].at
  IN  [cs EXCEPT ![c] = [call[c] EXCEPT !.phase = IF i = 0 THEN "clean" ELSE "shift",
                                        !.at = IF i = 0 THEN 0 ELSE i - 1,
                                        !.marred = @ \/ fails]]

FaultyTarget(i) ==
  LET free == {j \in Names : j > i /\ file[j] = NoFile}
  IN  IF free = {} THEN i + 1 ELSE CHOOSE j \in free : \A k \in free : j <= k

\* The number that number i gets, even if there is a file with it.
Target(i) == i + 1

\* rename() of number i, over what is there.
Shift(c) ==
  LET i == call[c].at
      j == Target(i)
  IN  /\ call[c].phase = "shift"
      /\ file[i] # NoFile
      /\ file' = [file EXCEPT ![j] = file[i], ![i] = NoFile]
      /\ bytes' = [bytes EXCEPT ![j] = bytes[i], ![i] = 0]
      /\ call' = Shifted(Moved(i, j), c, FALSE)
      /\ UNCHANGED <<stamped, rotating, logger>>

\* It fails: there is no such file, or the system refuses.
ShiftFails(c) ==
  /\ call[c].phase = "shift"
  /\ call' = Shifted(call, c, file[call[c].at] # NoFile)
  /\ UNCHANGED <<file, bytes, stamped, rotating, logger>>

\* What is numbered beyond keepFiles is removed, as far as the system lets it.
Clean(c) ==
  /\ call[c].phase = "clean"
  /\ \E kept \in SUBSET {i \in Names : i > KeepFiles} :
       /\ file' = [i \in Names |-> IF i > KeepFiles /\ i \notin kept THEN NoFile ELSE file[i]]
       /\ bytes' = [i \in Names |-> IF i > KeepFiles /\ i \notin kept THEN 0 ELSE bytes[i]]
       /\ call' = [d \in Calls |->
            IF d = c THEN [call[c] EXCEPT !.phase = "open"]
            ELSE IF call[d].phase = "write" /\ call[d].at > KeepFiles /\ call[d].at \notin kept
                 THEN [call[d] EXCEPT !.at = Gone] ELSE call[d]]
  /\ rotating' = [rotating EXCEPT ![call[c].by] = FALSE]
  /\ UNCHANGED <<stamped, logger>>

\* appendFile() opens access.log, which may have to be created, ...
Open(c) ==
  /\ call[c].phase = "open"
  /\ file' = [file EXCEPT ![0] = IF @ = NoFile THEN {} ELSE @]
  /\ call' = [call EXCEPT ![c] = [@ EXCEPT !.phase = "write", !.at = 0, !.seen = stamped]]
  /\ UNCHANGED <<bytes, stamped, rotating, logger>>

\* ... and writes to the file it has opened.
Write(c) ==
  /\ call[c].phase = "write"
  /\ IF call[c].at = Gone
     THEN UNCHANGED <<file, bytes>>
     ELSE /\ file' = [file EXCEPT ![call[c].at] = @ \cup {<<call[c].stamp, call[c].seen>>}]
          /\ bytes' = [bytes EXCEPT ![call[c].at] = @ + call[c].len]
  /\ call' = [call EXCEPT ![c] = Done]
  /\ UNCHANGED <<stamped, rotating, logger>>

\* Either fails, and the line is dropped silently.
Drop(c) ==
  /\ call[c].phase \in {"open", "write"}
  /\ call' = [call EXCEPT ![c] = Done]
  /\ UNCHANGED <<file, bytes, stamped, rotating, logger>>

-----------------------------------------------------------------------------
(* The plugin and the process                                              *)

\* apply() once more: a new logger, which knows nothing of the rotations before.
Reload ==
  /\ logger < MaxLoggers
  /\ logger' = logger + 1
  /\ UNCHANGED <<file, bytes, stamped, rotating, call>>

\* The process dies and starts again: what calls had still to do is not done.
Die ==
  /\ logger < MaxLoggers
  /\ logger' = logger + 1
  /\ call' = [c \in Calls |-> IF c \in Active THEN Done ELSE call[c]]
  /\ rotating' = [g \in Loggers |-> FALSE]
  /\ UNCHANGED <<file, bytes, stamped>>

\* A call of log() goes on.
Step(c) ==
  \/ Log(c)
  \/ Stat(c)
  \/ StatFails(c)
  \/ Shift(c)
  \/ ShiftFails(c)
  \/ Clean(c)
  \/ Open(c)
  \/ Write(c)
  \/ Drop(c)

Next ==
  \/ \E c \in Calls : Step(c)
  \/ Reload
  \/ Die

Spec == Init /\ [][Next]_vars

-----------------------------------------------------------------------------
(* Properties                                                              *)

\* The types of the state; a rotation keeps to the files it is to shift, and is
\* the only one of its logger, which it keeps marked as rotating.
TypeOK ==
  /\ file \in [Names -> (SUBSET Line) \cup {NoFile}]
  /\ bytes \in [Names -> Nat] /\ \A i \in Names : file[i] = NoFile => bytes[i] = 0
  /\ stamped \in Nat
  /\ logger \in Loggers
  /\ rotating \in [Loggers -> BOOLEAN]
  /\ call \in [Calls -> Call]
  /\ \A c \in Calls :
       /\ call[c].phase \notin {"new", "done"} => call[c].by \in Loggers
       /\ call[c].phase = "shift" => call[c].at \in 0..(KeepFiles - 1)
       /\ call[c].phase = "write" /\ call[c].at # Gone => file[call[c].at] # NoFile
       /\ Rotates(c) => /\ rotating[call[c].by]
                        /\ \A d \in Calls : Rotates(d) /\ call[d].by = call[c].by => d = c

\* A line in a file with a higher number was built before a file was opened for any
\* in one with a lower number: over the files, lines of calls that did not overlap
\* are in order, whatever renames fail and wherever the process dies.  Calls that
\* overlap may leave theirs in the wrong files, as a line is built before the
\* rotation that its call awaits and another call does not.
Chronological ==
  \A i, j \in Names :
    i < j /\ file[i] # NoFile /\ file[j] # NoFile =>
      \A m \in file[i], n \in file[j] : n[1] <= m[2]

Kept == UNION {file[i] : i \in {j \in Names : file[j] # NoFile}}

\* A line once written is lost from the oldest file that is kept only when the
\* next one takes its place, and from a younger one only by a rotation one of whose
\* renames failed or that two loggers did at once; never by a call that arrives
\* during a rotation, nor by a death in the middle of one.
OnlyOldestLost ==
  [][\A i \in 0..KeepFiles :
       file[i] # NoFile /\ ~(file[i] \subseteq Kept') =>
         \/ i = KeepFiles /\ file'[i] = file[i - 1]
         \/ \E c \in Calls : Shifting(c) /\ call[c].marred]_vars

\* A call that has had the log for itself adds its line to an access.log that is
\* below the limit, so that it passes the limit by less than that line, unless its
\* rotation was marred.
AloneWithinCap ==
  [][\A c \in Calls :
       /\ call[c].phase = "write" /\ call'[c].phase = "done"
       /\ call[c].alone /\ ~call[c].marred /\ call[c].at = 0 /\ file' # file
       => bytes'[0] < Cap + call[c].len]_vars

\* What lib/accesslog.mjs says of itself: every file has a hard limit, here read as
\* one that a line may pass if it is the last.  Calls that overlap all add theirs.
HardCap == \A i \in Names : \E len \in Lengths : bytes[i] < Cap + len
=============================================================================
