-------------------------- MODULE SettingsPageProofs --------------------------
(***************************************************************************)
(* Proofs about SettingsPage, for any number of rows, polls and operations *)
(* under way and any number of changes and lost requests: one operation at *)
(* a time unless an addition was given up, and a new password for the row  *)
(* that was picked.                                                        *)
(***************************************************************************)
EXTENDS SettingsPage, TLAPS, WellFoundedInduction, FiniteSetTheorems

-----------------------------------------------------------------------------
(* The inductive invariant                                                 *)

\* Only an addition does not know its row.
RowsKnown ==
  \A o \in Ops : op[o].kind \in {"on", "off", "del", "save"} => op[o].row # NoRow

\* Only what is under way is timed.
TimersRunning == timers \subseteq UnderWay

\* Until an addition is given up there is one operation at a time, and the buttons
\* are disabled while there is one.
Alone ==
  ~gaveUp => /\ UnderWay # {} => busy
             /\ \A o, q \in UnderWay : o = q

\* rs shows every row of the table but those that came after it was taken.
Accounted(rs, late) == \A i \in Rows : rs[i] = "none" => table[i] = "none" \/ i \in late

\* The page accounts for the rows it does not show, and so does every answer that is
\* on its way to be shown.
ShownAccounted == Accounted(shown, behind)
PollsAccounted == \A p \in Polls : poll[p].at = "taken" => Accounted(poll[p].rows, poll[p].behind)

IInv == /\ TypeOK
        /\ RowsKnown
        /\ TimersRunning
        /\ Alone
        /\ ShownAccounted
        /\ PollsAccounted

\* What a step that begins or ends no operation leaves of the invariant to show.
OpsInv   == RowsKnown /\ TimersRunning /\ Alone
RowsInv  == ShownAccounted /\ PollsAccounted

LEMMA OpsStay ==
  ASSUME OpsInv, UNCHANGED <<op, busy, timers, gaveUp>>
  PROVE  OpsInv'
BY DEF OpsInv, RowsKnown, TimersRunning, Alone, UnderWay

LEMMA RowsStay ==
  ASSUME RowsInv, UNCHANGED <<table, poll, shown, behind>>
  PROVE  RowsInv'
BY DEF RowsInv, ShownAccounted, PollsAccounted, Accounted

LEMMA InitIInv == Init => IInv
<1>. SUFFICES ASSUME Init
              PROVE  IInv
  OBVIOUS
<1>1. Empty \in Table /\ table \in Table
  BY DEF Init, Empty, Table
<1>2. NoOp.at = "idle" /\ NoOp.kind = "none" /\ NoPoll.at = "idle"
  BY DEF NoOp, NoPoll
<1>3. TypeOK
  <2>1. picked \in {NoRow} \cup 0..MaxRow /\ busy \in BOOLEAN /\ timers \subseteq Ops
    BY DEF Init
  <2>2. changes \in 0..MaxChanges /\ lost \in 0..MaxLost /\ behind \subseteq Rows /\ gaveUp \in BOOLEAN
    <3>1. changes = 0 /\ lost = 0 /\ behind = {} /\ gaveUp = FALSE
      BY DEF Init
    <3>2. changes \in 0..MaxChanges /\ lost \in 0..MaxLost
      BY <3>1, SettingsAssumption
    <3>3. behind \subseteq Rows
      BY <3>1
    <3>4. gaveUp \in BOOLEAN
      BY <3>1
    <3>. QED  BY <3>2, <3>3, <3>4
  <2>3. /\ poll \in [Polls -> Poll \cup {NoPoll}] /\ op \in [Ops -> Op \cup {NoOp}]
        /\ \A o \in Ops : op[o].at # "done"
    BY <1>2 DEF Init
  <2>. QED  BY <1>1, <2>1, <2>2, <2>3 DEF Init, TypeOK
<1>4. UnderWay = {}
  BY DEF Init, UnderWay
<1>5. RowsKnown /\ TimersRunning /\ Alone
  BY <1>2, <1>4 DEF Init, RowsKnown, TimersRunning, Alone
<1>6. ShownAccounted /\ PollsAccounted
  BY <1>2 DEF Init, ShownAccounted, PollsAccounted, Accounted
<1>. QED  BY <1>3, <1>5, <1>6 DEF IInv

-----------------------------------------------------------------------------
(* Polls                                                                   *)

\* A poll that is asked for has nothing to account for.
LEMMA LoadKeeps ==
  ASSUME TypeOK, NEW p \in Polls, Load(p)
  PROVE  /\ poll' \in [Polls -> Poll \cup {NoPoll}]
         /\ \A q \in Polls : poll'[q].at = "taken" => poll'[q] = poll[q]
<1>1. poll \in [Polls -> Poll \cup {NoPoll}]
  BY DEF TypeOK
<1>. DEFINE asked == [NoPoll EXCEPT !.at = "asked"]
<1>2. asked \in Poll /\ asked.at = "asked"
  BY DEF NoPoll, Poll, Empty, Table
<1>3. poll' = [poll EXCEPT ![p] = asked]
  BY DEF Load
<1>. HIDE DEF asked
<1>. QED  BY <1>1, <1>2, <1>3

LEMMA AskKeeps ==
  ASSUME IInv, NEW p \in Polls, Ask(p)
  PROVE  IInv'
<1>1. /\ Load(p) /\ UNCHANGED <<table, op, page, changes, lost>>
      /\ TypeOK /\ OpsInv /\ RowsInv
  BY DEF Ask, IInv, OpsInv, RowsInv
<1>2. /\ poll' \in [Polls -> Poll \cup {NoPoll}]
      /\ \A q \in Polls : poll'[q].at = "taken" => poll'[q] = poll[q]
  BY <1>1, LoadKeeps
<1>3. TypeOK'
  BY <1>1, <1>2 DEF TypeOK, page
<1>4. OpsInv'
  BY <1>1, OpsStay DEF page
<1>5. ShownAccounted' /\ PollsAccounted'
  BY <1>1, <1>2 DEF RowsInv, ShownAccounted, PollsAccounted, Accounted, page
<1>. QED  BY <1>3, <1>4, <1>5 DEF IInv, OpsInv

LEMMA TakeKeeps ==
  ASSUME IInv, NEW p \in Polls, Take(p)
  PROVE  IInv'
<1>. DEFINE taken == [at |-> "taken", rows |-> table, behind |-> {}]
<1>1. /\ poll' = [poll EXCEPT ![p] = taken] /\ UNCHANGED <<table, op, page, changes, lost>>
      /\ TypeOK /\ OpsInv /\ RowsInv
  BY DEF Take, IInv, OpsInv, RowsInv
<1>2. taken \in Poll /\ taken.rows = table /\ taken.behind = {}
  BY <1>1 DEF TypeOK, Poll
<1>. HIDE DEF taken
<1>3. poll \in [Polls -> Poll \cup {NoPoll}]
  BY <1>1 DEF TypeOK
<1>4. /\ poll' \in [Polls -> Poll \cup {NoPoll}]
      /\ poll'[p] = taken /\ \A q \in Polls : q # p => poll'[q] = poll[q]
  BY <1>1, <1>2, <1>3
<1>5. TypeOK'
  BY <1>1, <1>4 DEF TypeOK, page
<1>6. OpsInv'
  BY <1>1, OpsStay DEF page
<1>7. ShownAccounted' /\ PollsAccounted'
  BY <1>1, <1>2, <1>4 DEF RowsInv, ShownAccounted, PollsAccounted, Accounted, page
<1>. QED  BY <1>5, <1>6, <1>7 DEF IInv, OpsInv

\* A slot that is emptied.
LEMMA PollEnds ==
  ASSUME TypeOK, NEW p \in Polls, poll' = [poll EXCEPT ![p] = NoPoll]
  PROVE  /\ poll' \in [Polls -> Poll \cup {NoPoll}]
         /\ \A q \in Polls : poll'[q].at = "taken" => poll'[q] = poll[q]
<1>1. poll \in [Polls -> Poll \cup {NoPoll}] /\ NoPoll.at = "idle"
  BY DEF TypeOK, NoPoll
<1>2. poll'[p] = NoPoll /\ \A q \in Polls : q # p => poll'[q] = poll[q]
  BY <1>1
<1>. QED  BY <1>1, <1>2

LEMMA ArriveKeeps ==
  ASSUME IInv, NEW p \in Polls, Arrive(p)
  PROVE  IInv'
<1>1. /\ poll[p].at = "taken" /\ shown' = poll[p].rows /\ behind' = poll[p].behind
      /\ poll' = [poll EXCEPT ![p] = NoPoll]
      /\ UNCHANGED <<table, op, picked, busy, timers, gaveUp, changes, lost>>
      /\ TypeOK /\ OpsInv /\ RowsInv
  BY DEF Arrive, Merged, IInv, OpsInv, RowsInv
<1>2. poll[p] \in Poll
  BY <1>1 DEF TypeOK, NoPoll
<1>3. poll[p].rows \in Table /\ poll[p].behind \subseteq Rows
  BY <1>2 DEF Poll
<1>4. /\ poll' \in [Polls -> Poll \cup {NoPoll}]
      /\ \A q \in Polls : poll'[q].at = "taken" => poll'[q] = poll[q]
  BY <1>1, PollEnds
<1>5. TypeOK'
  BY <1>1, <1>3, <1>4 DEF TypeOK
<1>6. OpsInv'
  BY <1>1, OpsStay
<1>7. ShownAccounted' /\ PollsAccounted'
  BY <1>1, <1>4 DEF RowsInv, ShownAccounted, PollsAccounted, Accounted
<1>. QED  BY <1>5, <1>6, <1>7 DEF IInv, OpsInv

LEMMA PollFailsKeeps ==
  ASSUME IInv, NEW p \in Polls, PollFails(p)
  PROVE  IInv'
<1>1. /\ poll' = [poll EXCEPT ![p] = NoPoll] /\ lost < MaxLost /\ lost' = lost + 1
      /\ UNCHANGED <<table, op, page, changes>>
      /\ TypeOK /\ OpsInv /\ RowsInv
  BY DEF PollFails, IInv, OpsInv, RowsInv
<1>2. /\ poll' \in [Polls -> Poll \cup {NoPoll}]
      /\ \A q \in Polls : poll'[q].at = "taken" => poll'[q] = poll[q]
  BY <1>1, PollEnds
<1>3. TypeOK'
  <2>1. lost' \in 0..MaxLost
    BY <1>1, SettingsAssumption DEF TypeOK
  <2>. QED  BY <1>1, <1>2, <2>1 DEF TypeOK, page
<1>4. OpsInv'
  BY <1>1, OpsStay DEF page
<1>5. ShownAccounted' /\ PollsAccounted'
  BY <1>1, <1>2 DEF RowsInv, ShownAccounted, PollsAccounted, Accounted, page
<1>. QED  BY <1>3, <1>4, <1>5 DEF IInv, OpsInv

-----------------------------------------------------------------------------
(* Operations on the page                                                  *)

\* An operation in a free slot is the only one, unless an addition was given up.
LEMMA SendKeeps ==
  ASSUME IInv, NEW o \in Ops, NEW kind, kind \in {"on", "off", "del", "add", "save"},
         NEW row, row \in {NoRow} \cup 0..MaxRow, kind # "add" => row # NoRow,
         Send(o, kind, row), timers' \in {timers, timers \cup {o}}
  PROVE  IInv'
<1>. DEFINE sent == [at |-> "sent", kind |-> kind, row |-> row]
<1>1. /\ ~busy /\ changes < MaxChanges /\ changes' = changes + 1
      /\ op' = [op EXCEPT ![o] = sent] /\ busy' = TRUE
      /\ UNCHANGED <<table, poll, shown, picked, behind, gaveUp, lost>>
      /\ TypeOK /\ OpsInv /\ RowsInv
  BY DEF Send, IInv, OpsInv, RowsInv
<1>2. sent \in Op /\ sent # NoOp /\ sent.at = "sent" /\ sent.kind = kind /\ sent.row = row
  BY DEF Op, NoOp
<1>. HIDE DEF sent
<1>3. op \in [Ops -> Op \cup {NoOp}]
  BY <1>1 DEF TypeOK
<1>4. /\ op' \in [Ops -> Op \cup {NoOp}]
      /\ op'[o] = sent /\ \A q \in Ops : q # o => op'[q] = op[q]
  BY <1>1, <1>2, <1>3
<1>5. TypeOK'
  <2>1. changes' \in 0..MaxChanges
    BY <1>1, SettingsAssumption DEF TypeOK
  <2>2. timers' \subseteq Ops
    BY <1>1 DEF TypeOK
  <2>3. \A q \in Ops : op'[q].at = "done" => op'[q].row # NoRow
    BY <1>1, <1>2, <1>4 DEF TypeOK
  <2>. QED  BY <1>1, <1>4, <2>1, <2>2, <2>3 DEF TypeOK
<1>6. UnderWay' = UnderWay \cup {o}
  BY <1>2, <1>4 DEF UnderWay
<1>7. RowsKnown'
  BY <1>1, <1>2, <1>4 DEF OpsInv, RowsKnown
<1>8. TimersRunning'
  BY <1>1, <1>6 DEF OpsInv, TimersRunning
<1>9. Alone'
  <2>1. ~gaveUp => UnderWay = {}
    BY <1>1 DEF OpsInv, Alone
  <2>. QED  BY <1>1, <1>6, <2>1 DEF Alone
<1>10. RowsInv'
  BY <1>1, RowsStay
<1>. QED  BY <1>5, <1>7, <1>8, <1>9, <1>10 DEF IInv, RowsInv

LEMMA FlipKeeps ==
  ASSUME IInv, NEW o \in Ops, NEW i \in Rows, Flip(o, i)
  PROVE  IInv'
<1>. PICK kind : kind = (IF shown[i] = "on" THEN "off" ELSE "on")
  OBVIOUS
<1>1. kind \in {"on", "off"} /\ Send(o, kind, i) /\ timers' = timers
  BY DEF Flip
<1>2. i \in 0..MaxRow /\ i # NoRow
  BY SettingsAssumption DEF Rows, NoRow
<1>. QED  BY <1>1, <1>2, SendKeeps

LEMMA DeleteKeeps ==
  ASSUME IInv, NEW o \in Ops, NEW i \in Rows, Delete(o, i)
  PROVE  IInv'
<1>1. Send(o, "del", i) /\ timers' = timers
  BY DEF Delete
<1>2. i \in 0..MaxRow /\ i # NoRow
  BY SettingsAssumption DEF Rows, NoRow
<1>. QED  BY <1>1, <1>2, SendKeeps

\* Of the rows that are shown one is the first.
LEMMA FirstShown ==
  ASSUME NEW S, S \subseteq Rows, S # {}
  PROVE  \E i \in S : \A j \in S : i <= j
<1>1. S \subseteq Nat
  BY SettingsAssumption DEF Rows
<1>2. PICK i \in S : \A j \in S : <<j, i>> \notin OpToRel(<, Nat)
  BY <1>1, NatLessThanWellFounded, WFMin, Zenon
<1>3. \A j \in S : ~(j < i)
  BY <1>1, <1>2, Zenon DEF OpToRel
<1>. QED  BY <1>1, <1>3

LEMMA TargetIsRow ==
  ASSUME TypeOK
  PROVE  Target \in {0} \cup Rows
<1>1. Shown \subseteq Rows
  BY DEF Shown
<1>2. CASE picked \in {0} \cup Shown
  BY <1>1, <1>2 DEF Target
<1>3. CASE picked \notin {0} \cup Shown /\ Shown # {}
  <2>1. \E i \in Shown : \A j \in Shown : i <= j
    BY <1>1, <1>3, FirstShown
  <2>2. Target = CHOOSE i \in Shown : \A j \in Shown : i <= j
    BY <1>3 DEF Target
  <2>. QED  BY <1>1, <2>1, <2>2
<1>4. CASE picked \notin {0} \cup Shown /\ Shown = {}
  BY <1>4 DEF Target
<1>. QED  BY <1>2, <1>3, <1>4

LEMMA SaveKeeps ==
  ASSUME IInv, NEW o \in Ops, Save(o)
  PROVE  IInv'
<1>. PICK row : row = Target
  OBVIOUS
<1>1. Send(o, "save", row) /\ timers' = timers
  BY DEF Save
<1>2. row \in {0} \cup Rows
  BY TargetIsRow DEF IInv
<1>3. row \in 0..MaxRow /\ row # NoRow
  BY <1>2, SettingsAssumption DEF Rows, NoRow
<1>. QED  BY <1>1, <1>3, SendKeeps

LEMMA AddKeeps ==
  ASSUME IInv, NEW o \in Ops, Add(o)
  PROVE  IInv'
<1>1. Send(o, "add", NoRow) /\ timers' = timers \cup {o}
  BY DEF Add
<1>. QED  BY <1>1, SendKeeps

LEMMA PickKeeps ==
  ASSUME IInv, NEW i \in {0} \cup Rows, Pick(i)
  PROVE  IInv'
<1>1. /\ picked' = i
      /\ UNCHANGED <<table, poll, op, shown, busy, timers, behind, gaveUp, changes, lost>>
      /\ TypeOK /\ OpsInv /\ RowsInv
  BY DEF Pick, IInv, OpsInv, RowsInv
<1>2. i \in 0..MaxRow
  BY SettingsAssumption DEF Rows
<1>3. TypeOK'
  BY <1>1, <1>2 DEF TypeOK
<1>4. OpsInv' /\ RowsInv'
  BY <1>1, OpsStay, RowsStay
<1>. QED  BY <1>3, <1>4 DEF IInv, OpsInv, RowsInv

LEMMA GiveUpKeeps ==
  ASSUME IInv, NEW o \in Ops, GiveUp(o)
  PROVE  IInv'
<1>1. /\ o \in timers /\ timers' = timers \ {o} /\ busy' = FALSE
      /\ gaveUp' = (gaveUp \/ op[o] # NoOp)
      /\ UNCHANGED <<table, poll, op, shown, picked, behind, changes, lost>>
      /\ TypeOK /\ OpsInv /\ RowsInv
  BY DEF GiveUp, IInv, OpsInv, RowsInv
<1>2. op[o] # NoOp
  BY <1>1 DEF OpsInv, TimersRunning, UnderWay
<1>3. gaveUp' = TRUE
  BY <1>1, <1>2
<1>4. TypeOK'
  BY <1>1, <1>3 DEF TypeOK
<1>5. RowsKnown' /\ TimersRunning' /\ Alone'
  BY <1>1, <1>3 DEF OpsInv, RowsKnown, TimersRunning, Alone, UnderWay
<1>6. RowsInv'
  BY <1>1, RowsStay
<1>. QED  BY <1>4, <1>5, <1>6 DEF IInv, RowsInv

-----------------------------------------------------------------------------
(* The server                                                              *)

\* An operation that is served goes on to be done or refused.
GoesOn(o, to) ==
  /\ op[o].at = "sent"
  /\ to \in Op /\ to.at \in {"done", "refused"} /\ to.kind = op[o].kind
  /\ to.at = "done" => to.row # NoRow
  /\ op[o].kind # "add" => to.row = op[o].row
  /\ op' = [op EXCEPT ![o] = to]

LEMMA ServedKeeps ==
  ASSUME TypeOK, OpsInv, NEW o \in Ops, NEW to, GoesOn(o, to), UNCHANGED <<busy, timers, gaveUp>>
  PROVE  /\ op' \in [Ops -> Op \cup {NoOp}]
         /\ \A q \in Ops : op'[q].at = "done" => op'[q].row # NoRow
         /\ OpsInv'
<1>1. op \in [Ops -> Op \cup {NoOp}] /\ \A q \in Ops : op[q].at = "done" => op[q].row # NoRow
  BY DEF TypeOK
<1>2. /\ op' \in [Ops -> Op \cup {NoOp}]
      /\ op'[o] = to /\ \A q \in Ops : q # o => op'[q] = op[q]
  BY <1>1 DEF GoesOn
<1>3. op[o] # NoOp /\ to # NoOp
  BY DEF GoesOn, NoOp
<1>4. UnderWay' = UnderWay
  BY <1>2, <1>3 DEF UnderWay
<1>5. RowsKnown'
  BY <1>2 DEF GoesOn, OpsInv, RowsKnown
<1>6. TimersRunning' /\ Alone'
  BY <1>4 DEF OpsInv, TimersRunning, Alone
<1>7. \A q \in Ops : op'[q].at = "done" => op'[q].row # NoRow
  BY <1>1, <1>2 DEF GoesOn
<1>. QED  BY <1>2, <1>5, <1>6, <1>7 DEF OpsInv

LEMMA ServeKeeps ==
  ASSUME IInv, NEW o \in Ops, Serve(o)
  PROVE  IInv'
<1>. DEFINE end == IF op[o].kind = "save" /\ op[o].row # 0 /\ table[op[o].row] = "none"
                   THEN "refused" ELSE "done"
            to  == [op[o] EXCEPT !.at = end]
<1>1. /\ op[o].at = "sent" /\ op[o].kind # "add" /\ op' = [op EXCEPT ![o] = to]
      /\ UNCHANGED <<poll, page, changes, lost>>
      /\ TypeOK /\ OpsInv /\ RowsInv
  BY DEF Serve, IInv, OpsInv, RowsInv
<1>2. op[o] \in Op
  BY <1>1 DEF TypeOK, NoOp
<1>3. op[o].row # NoRow
  BY <1>1, <1>2 DEF Op, OpsInv, RowsKnown
<1>4. GoesOn(o, to)
  <2>1. end \in {"done", "refused"}
    OBVIOUS
  <2>. HIDE DEF end
  <2>2. to \in Op /\ to.at = end /\ to.kind = op[o].kind /\ to.row = op[o].row
    BY <1>2, <2>1 DEF Op
  <2>. QED  BY <1>1, <1>3, <2>1, <2>2 DEF GoesOn
<1>5. /\ op' \in [Ops -> Op \cup {NoOp}]
      /\ \A q \in Ops : op'[q].at = "done" => op'[q].row # NoRow
      /\ OpsInv'
  <2>. HIDE DEF to
  <2>. QED  BY <1>1, <1>4, ServedKeeps DEF page
<1>6. table' \in Table /\ \A i \in Rows : table[i] = "none" => table'[i] = "none"
  <2>1. table \in Table
    BY <1>1 DEF TypeOK
  <2>2. CASE op[o].kind = "del"
    <3>1. table' = [table EXCEPT ![op[o].row] = "none"]
      BY <2>2 DEF Serve
    <3>. QED  BY <2>1, <3>1 DEF Table
  <2>3. CASE op[o].kind \in {"on", "off"} /\ table[op[o].row] # "none"
    <3>1. table' = [table EXCEPT ![op[o].row] = op[o].kind]
      BY <2>3 DEF Serve
    <3>. QED  BY <2>1, <2>3, <3>1 DEF Table
  <2>4. CASE op[o].kind # "del" /\ ~(op[o].kind \in {"on", "off"} /\ table[op[o].row] # "none")
    <3>1. table' = table
      BY <2>4 DEF Serve
    <3>. QED  BY <2>1, <3>1
  <2>. QED  BY <2>2, <2>3, <2>4
<1>7. TypeOK'
  BY <1>1, <1>5, <1>6 DEF TypeOK, page
<1>8. ShownAccounted' /\ PollsAccounted'
  BY <1>1, <1>6 DEF RowsInv, ShownAccounted, PollsAccounted, Accounted, page
<1>. QED  BY <1>5, <1>7, <1>8 DEF IInv, OpsInv

\* Where row i comes into the table, what was taken before is marked.
LEMMA ComesKeeps ==
  ASSUME IInv, NEW i \in Rows, NEW s, s \in {"none", "off", "on"}, Comes(i),
         table' = [table EXCEPT ![i] = s], UNCHANGED shown
  PROVE  /\ poll' \in [Polls -> Poll \cup {NoPoll}] /\ behind' \subseteq Rows
         /\ table' \in Table
         /\ RowsInv'
<1>1. /\ poll \in [Polls -> Poll \cup {NoPoll}] /\ behind \subseteq Rows /\ table \in Table
      /\ RowsInv
  BY DEF IInv, TypeOK, RowsInv
<1>2. table' \in Table /\ \A j \in Rows : j # i => table'[j] = table[j]
  BY <1>1 DEF Table
<1>3. behind' = behind \cup {i}
  BY DEF Comes
<1>4. ASSUME NEW p \in Polls
      PROVE  /\ poll'[p] \in Poll \cup {NoPoll}
             /\ poll'[p].at = "taken" => /\ poll[p].at = "taken"
                                         /\ poll'[p].rows = poll[p].rows
                                         /\ poll'[p].behind = poll[p].behind \cup {i}
  <2>1. CASE poll[p].at = "taken"
    <3>1. poll[p] \in Poll
      BY <1>1, <2>1 DEF NoPoll
    <3>2. poll'[p] = [poll[p] EXCEPT !.behind = @ \cup {i}]
      BY <2>1 DEF Comes
    <3>. QED  BY <2>1, <3>1, <3>2 DEF Poll
  <2>2. CASE poll[p].at # "taken"
    <3>1. poll'[p] = poll[p]
      BY <2>2 DEF Comes
    <3>. QED  BY <1>1, <2>2, <3>1
  <2>. QED  BY <2>1, <2>2
<1>5. poll' \in [Polls -> Poll \cup {NoPoll}]
  <2>1. poll' = [p \in Polls |-> IF poll[p].at = "taken"
                                 THEN [poll[p] EXCEPT !.behind = @ \cup {i}] ELSE poll[p]]
    BY DEF Comes
  <2>. QED  BY <1>4, <2>1
<1>6. ShownAccounted' /\ PollsAccounted'
  BY <1>1, <1>2, <1>3, <1>4 DEF RowsInv, ShownAccounted, PollsAccounted, Accounted
<1>. QED  BY <1>2, <1>1, <1>3, <1>5, <1>6 DEF RowsInv

LEMMA ServeAddKeeps ==
  ASSUME IInv, NEW o \in Ops, NEW i \in Rows, ServeAdd(o, i)
  PROVE  IInv'
<1>. DEFINE to == [op[o] EXCEPT !.at = "done", !.row = i]
<1>1. /\ op[o].at = "sent" /\ op[o].kind = "add" /\ op' = [op EXCEPT ![o] = to]
      /\ table' = [table EXCEPT ![i] = "off"] /\ Comes(i)
      /\ UNCHANGED <<shown, picked, busy, timers, gaveUp, changes, lost>>
      /\ TypeOK /\ OpsInv
  BY DEF ServeAdd, IInv, OpsInv
<1>2. op[o] \in Op
  BY <1>1 DEF TypeOK, NoOp
<1>3. i \in 0..MaxRow /\ i # NoRow
  BY SettingsAssumption DEF Rows, NoRow
<1>4. GoesOn(o, to)
  <2>1. to \in Op /\ to.at = "done" /\ to.kind = op[o].kind /\ to.row = i
    BY <1>2, <1>3 DEF Op
  <2>. QED  BY <1>1, <1>3, <2>1 DEF GoesOn
<1>. HIDE DEF to
<1>5. /\ op' \in [Ops -> Op \cup {NoOp}]
      /\ \A q \in Ops : op'[q].at = "done" => op'[q].row # NoRow
      /\ OpsInv'
  BY <1>1, <1>4, ServedKeeps
<1>6. /\ poll' \in [Polls -> Poll \cup {NoPoll}] /\ behind' \subseteq Rows
      /\ table' \in Table
      /\ RowsInv'
  <2>. PICK s : s = "off"
    OBVIOUS
  <2>. QED  BY <1>1, ComesKeeps
<1>7. TypeOK'
  BY <1>1, <1>5, <1>6 DEF TypeOK
<1>. QED  BY <1>5, <1>6, <1>7 DEF IInv, OpsInv, RowsInv

LEMMA RefuseKeeps ==
  ASSUME IInv, NEW o \in Ops, Refuse(o)
  PROVE  IInv'
<1>. DEFINE to == [op[o] EXCEPT !.at = "refused"]
<1>1. /\ op[o].at = "sent" /\ op' = [op EXCEPT ![o] = to]
      /\ UNCHANGED <<table, poll, page, changes, lost>>
      /\ TypeOK /\ OpsInv /\ RowsInv
  BY DEF Refuse, IInv, OpsInv, RowsInv
<1>2. op[o] \in Op
  BY <1>1 DEF TypeOK, NoOp
<1>3. GoesOn(o, to)
  <2>1. to \in Op /\ to.at = "refused" /\ to.kind = op[o].kind /\ to.row = op[o].row
    BY <1>2 DEF Op
  <2>. QED  BY <1>1, <2>1 DEF GoesOn
<1>. HIDE DEF to
<1>4. /\ op' \in [Ops -> Op \cup {NoOp}]
      /\ \A q \in Ops : op'[q].at = "done" => op'[q].row # NoRow
      /\ OpsInv'
  BY <1>1, <1>3, ServedKeeps DEF page
<1>5. TypeOK'
  BY <1>1, <1>4 DEF TypeOK, page
<1>6. RowsInv'
  BY <1>1, RowsStay DEF page
<1>. QED  BY <1>4, <1>5, <1>6 DEF IInv, OpsInv, RowsInv

LEMMA ElsewhereKeeps ==
  ASSUME IInv, NEW i \in Rows, NEW s \in {"none", "off", "on"}, Elsewhere(i, s)
  PROVE  IInv'
<1>1. /\ changes < MaxChanges /\ changes' = changes + 1
      /\ table' = [table EXCEPT ![i] = s]
      /\ UNCHANGED <<op, shown, picked, busy, timers, gaveUp, lost>>
      /\ TypeOK /\ OpsInv /\ RowsInv
  BY DEF Elsewhere, IInv, OpsInv, RowsInv
<1>2. /\ poll' \in [Polls -> Poll \cup {NoPoll}] /\ behind' \subseteq Rows
      /\ table' \in Table
      /\ RowsInv'
  <2>1. CASE table[i] = "none"
    <3>1. Comes(i)
      BY <2>1 DEF Elsewhere
    <3>. QED  BY <1>1, <3>1, ComesKeeps
  <2>2. CASE table[i] # "none"
    <3>1. UNCHANGED <<behind, poll>>
      BY <2>2 DEF Elsewhere
    <3>2. table' \in Table /\ \A j \in Rows : table[j] = "none" => table'[j] = "none"
      BY <1>1, <2>2 DEF TypeOK, Table
    <3>3. RowsInv'
      BY <1>1, <3>1, <3>2 DEF RowsInv, ShownAccounted, PollsAccounted, Accounted
    <3>. QED  BY <1>1, <3>1, <3>2, <3>3 DEF TypeOK
  <2>. QED  BY <2>1, <2>2
<1>3. changes' \in 0..MaxChanges
  BY <1>1, SettingsAssumption DEF TypeOK
<1>4. TypeOK'
  BY <1>1, <1>2, <1>3 DEF TypeOK
<1>5. OpsInv'
  BY <1>1, OpsStay
<1>. QED  BY <1>2, <1>4, <1>5 DEF IInv, OpsInv, RowsInv

-----------------------------------------------------------------------------
(* Answers                                                                 *)

\* The end of an operation, if it is the only one, leaves none.
LEMMA EndKeeps ==
  ASSUME TypeOK, OpsInv, NEW o \in Ops, op' = [op EXCEPT ![o] = NoOp], busy' = FALSE,
         timers' = Cleared(o), op[o] # NoOp, UNCHANGED gaveUp
  PROVE  /\ op' \in [Ops -> Op \cup {NoOp}]
         /\ \A q \in Ops : op'[q].at = "done" => op'[q].row # NoRow
         /\ timers' \subseteq Ops
         /\ OpsInv'
<1>1. /\ op \in [Ops -> Op \cup {NoOp}] /\ timers \subseteq Ops
      /\ \A q \in Ops : op[q].at = "done" => op[q].row # NoRow
  BY DEF TypeOK
<1>2. /\ op' \in [Ops -> Op \cup {NoOp}]
      /\ op'[o] = NoOp /\ \A q \in Ops : q # o => op'[q] = op[q]
  BY <1>1
<1>3. NoOp.at = "idle" /\ NoOp.kind = "none"
  BY DEF NoOp
<1>4. UnderWay' = UnderWay \ {o} /\ o \in UnderWay
  BY <1>2 DEF UnderWay
<1>5. \A q \in Ops : op'[q].at = "done" => op'[q].row # NoRow
  BY <1>1, <1>2, <1>3
<1>6. RowsKnown'
  BY <1>2, <1>3 DEF OpsInv, RowsKnown
<1>7. TimersRunning' /\ timers' \subseteq Ops
  BY <1>1, <1>4 DEF OpsInv, TimersRunning, Cleared
<1>8. Alone'
  BY <1>4 DEF OpsInv, Alone
<1>. QED  BY <1>2, <1>5, <1>6, <1>7, <1>8 DEF OpsInv

LEMMA AnsweredKeeps ==
  ASSUME IInv, NEW o \in Ops, NEW p \in Polls, Answered(o, p)
  PROVE  IInv'
<1>1. /\ op[o].at = "done" /\ op' = [op EXCEPT ![o] = NoOp] /\ busy' = FALSE
      /\ timers' = Cleared(o) /\ Load(p)
      /\ UNCHANGED <<table, picked, gaveUp, changes, lost>>
      /\ TypeOK /\ OpsInv /\ RowsInv
  BY DEF Answered, IInv, OpsInv, RowsInv
<1>2. op[o] # NoOp
  BY <1>1 DEF NoOp
<1>3. /\ op' \in [Ops -> Op \cup {NoOp}]
      /\ \A q \in Ops : op'[q].at = "done" => op'[q].row # NoRow
      /\ timers' \subseteq Ops
      /\ OpsInv'
  BY <1>1, <1>2, EndKeeps
<1>4. /\ poll' \in [Polls -> Poll \cup {NoPoll}]
      /\ \A q \in Polls : poll'[q].at = "taken" => poll'[q] = poll[q]
  BY <1>1, LoadKeeps
<1>5. /\ shown' \in Table /\ behind' \subseteq Rows
      /\ \A i \in Rows : shown'[i] = "none" => shown[i] = "none" /\ (i \in behind => i \in behind')
  <2>1. shown \in Table /\ behind \subseteq Rows
    BY <1>1 DEF TypeOK
  <2>2. CASE op[o].kind = "add"
    <3>1. shown' = [shown EXCEPT ![op[o].row] = "off"] /\ behind' = behind \ {op[o].row}
      BY <2>2 DEF Answered
    <3>. QED  BY <2>1, <3>1 DEF Table
  <2>3. CASE op[o].kind # "add"
    <3>1. UNCHANGED <<shown, behind>>
      BY <2>3 DEF Answered
    <3>. QED  BY <2>1, <3>1
  <2>. QED  BY <2>2, <2>3
<1>6. TypeOK'
  BY <1>1, <1>3, <1>4, <1>5 DEF TypeOK
<1>7. ShownAccounted'
  BY <1>1, <1>5 DEF RowsInv, ShownAccounted, Accounted
<1>8. PollsAccounted'
  BY <1>1, <1>4 DEF RowsInv, PollsAccounted, Accounted
<1>. QED  BY <1>3, <1>6, <1>7, <1>8 DEF IInv, OpsInv

LEMMA RefusedKeeps ==
  ASSUME IInv, NEW o \in Ops, Refused(o)
  PROVE  IInv'
<1>1. /\ op[o].at = "refused" /\ op' = [op EXCEPT ![o] = NoOp] /\ busy' = FALSE
      /\ timers' = Cleared(o)
      /\ UNCHANGED <<table, poll, shown, picked, behind, gaveUp, changes, lost>>
      /\ TypeOK /\ OpsInv /\ RowsInv
  BY DEF Refused, IInv, OpsInv, RowsInv
<1>2. op[o] # NoOp
  BY <1>1 DEF NoOp
<1>3. /\ op' \in [Ops -> Op \cup {NoOp}]
      /\ \A q \in Ops : op'[q].at = "done" => op'[q].row # NoRow
      /\ timers' \subseteq Ops
      /\ OpsInv'
  BY <1>1, <1>2, EndKeeps
<1>4. TypeOK'
  BY <1>1, <1>3 DEF TypeOK
<1>5. RowsInv'
  BY <1>1, RowsStay
<1>. QED  BY <1>3, <1>4, <1>5 DEF IInv, OpsInv, RowsInv

LEMMA FailsKeeps ==
  ASSUME IInv, NEW o \in Ops, Fails(o)
  PROVE  IInv'
<1>1. /\ op[o] # NoOp /\ op' = [op EXCEPT ![o] = NoOp] /\ busy' = FALSE
      /\ timers' = Cleared(o) /\ lost < MaxLost /\ lost' = lost + 1
      /\ UNCHANGED <<table, poll, shown, picked, behind, gaveUp, changes>>
      /\ TypeOK /\ OpsInv /\ RowsInv
  BY DEF Fails, IInv, OpsInv, RowsInv
<1>2. /\ op' \in [Ops -> Op \cup {NoOp}]
      /\ \A q \in Ops : op'[q].at = "done" => op'[q].row # NoRow
      /\ timers' \subseteq Ops
      /\ OpsInv'
  BY <1>1, EndKeeps
<1>3. lost' \in 0..MaxLost
  BY <1>1, SettingsAssumption DEF TypeOK
<1>4. TypeOK'
  BY <1>1, <1>2, <1>3 DEF TypeOK
<1>5. RowsInv'
  BY <1>1, RowsStay
<1>. QED  BY <1>2, <1>4, <1>5 DEF IInv, OpsInv, RowsInv

LEMMA NextKeeps == IInv /\ [Next]_vars => IInv'
<1>. SUFFICES ASSUME IInv, [Next]_vars
              PROVE  IInv'
  OBVIOUS
<1>1. ASSUME NEW p \in Polls, PollGoesOn(p)
      PROVE  IInv'
  BY <1>1, AskKeeps, TakeKeeps, ArriveKeeps DEF PollGoesOn
<1>2. ASSUME NEW p \in Polls, PollFails(p)
      PROVE  IInv'
  BY <1>2, PollFailsKeeps
<1>3. ASSUME NEW o \in Ops, NEW i \in Rows, Flip(o, i) \/ Delete(o, i)
      PROVE  IInv'
  BY <1>3, FlipKeeps, DeleteKeeps
<1>4. ASSUME NEW o \in Ops, Save(o) \/ Add(o) \/ GiveUp(o) \/ Fails(o)
      PROVE  IInv'
  BY <1>4, SaveKeeps, AddKeeps, GiveUpKeeps, FailsKeeps
<1>5. ASSUME NEW i \in {0} \cup Rows, Pick(i)
      PROVE  IInv'
  BY <1>5, PickKeeps
<1>6. ASSUME NEW o \in Ops, OpGoesOn(o)
      PROVE  IInv'
  BY <1>6, ServeKeeps, ServeAddKeeps, RefuseKeeps, AnsweredKeeps, RefusedKeeps DEF OpGoesOn
<1>7. ASSUME NEW i \in Rows, NEW s \in {"none", "off", "on"}, Elsewhere(i, s)
      PROVE  IInv'
  BY <1>7, ElsewhereKeeps
<1>8. CASE UNCHANGED vars
  <2>1. TypeOK' /\ OpsInv' /\ RowsInv'
    <3>1. TypeOK /\ OpsInv /\ RowsInv
      BY DEF IInv, OpsInv, RowsInv
    <3>2. TypeOK'
      BY <1>8, <3>1 DEF TypeOK, vars, page
    <3>. QED  BY <1>8, <3>1, <3>2, OpsStay, RowsStay DEF vars, page
  <2>. QED  BY <2>1 DEF IInv, OpsInv, RowsInv
<1>. QED  BY <1>1, <1>2, <1>3, <1>4, <1>5, <1>6, <1>7, <1>8 DEF Next

-----------------------------------------------------------------------------
(* Theorems                                                                *)

\* The inductive invariant holds always, for any number of rows, polls, operations,
\* changes and lost requests.
THEOREM Invariant == Spec => []IInv
<1>1. Init => IInv
  BY InitIInv
<1>2. IInv /\ [Next]_vars => IInv'
  BY NextKeeps
<1>. QED  BY <1>1, <1>2, PTL DEF Spec

\* The page, its requests and the table keep their types.
THEOREM TypeCorrect == Spec => []TypeOK
<1>1. IInv => TypeOK
  BY DEF IInv
<1>. QED  BY <1>1, Invariant, PTL

\* Two operations of a page are under way at once only after an addition was given
\* up while it was under way (the busy flag and the timer of addEntry()).
THEOREM OnlyOneUnderWay == Spec => []OneAtATime
<1>1. IInv => OneAtATime
  <2>1. SUFFICES ASSUME IInv, ~gaveUp
                 PROVE  ~(Cardinality(UnderWay) > 1)
    BY DEF OneAtATime, IInv, TypeOK
  <2>2. \A o, q \in UnderWay : o = q
    BY <2>1 DEF IInv, Alone
  <2>3. CASE UnderWay = {}
    BY <2>3, FS_EmptySet
  <2>4. CASE UnderWay # {}
    <3>1. PICK o : UnderWay = {o}
      BY <2>2, <2>4
    <3>. QED  BY <3>1, FS_Singleton
  <2>. QED  BY <2>3, <2>4
<1>. QED  BY <1>1, Invariant, PTL

\* A step that begins to save a password saves it for the row that was picked, unless
\* that row is gone or what is shown is older than the row.
LEMMA SaveForPicked ==
  ASSUME IInv, [Next]_vars, NEW o \in Ops, op[o] = NoOp, op'[o].kind = "save", picked # NoRow
  PROVE  \/ op'[o].row = picked
         \/ table[picked] = "none"
         \/ picked \in behind
<1>1. op \in [Ops -> Op \cup {NoOp}] /\ NoOp.at = "idle" /\ NoOp.kind = "none"
  BY DEF IInv, TypeOK, NoOp
<1>2. \A q \in Ops : Save(q) => q = o /\ op'[o].row = Target
  BY <1>1 DEF Save, Send
<1>3. \E q \in Ops : Save(q)
  <2>1. op'[o] # op[o]
    BY <1>1
  <2>2. ASSUME NEW p \in Polls, PollGoesOn(p) \/ PollFails(p)
        PROVE  FALSE
    BY <2>1, <2>2 DEF PollGoesOn, PollFails, Ask, Take, Arrive
  <2>3. ASSUME NEW q \in Ops, NEW i \in Rows, Flip(q, i)
        PROVE  FALSE
    <3>. PICK kind : kind = (IF shown[i] = "on" THEN "off" ELSE "on")
      OBVIOUS
    <3>1. kind # "save" /\ Send(q, kind, i)
      BY <2>3 DEF Flip
    <3>. QED  BY <1>1, <3>1 DEF Send
  <2>4. ASSUME NEW q \in Ops, NEW i \in Rows, Delete(q, i)
        PROVE  FALSE
    BY <1>1, <2>4 DEF Delete, Send
  <2>5. ASSUME NEW q \in Ops, Add(q)
        PROVE  FALSE
    BY <1>1, <2>5 DEF Add, Send
  <2>6. ASSUME NEW q \in Ops, GiveUp(q)
        PROVE  FALSE
    BY <2>1, <2>6 DEF GiveUp
  <2>7. ASSUME NEW q \in Ops, OpGoesOn(q) \/ Fails(q)
        PROVE  FALSE
    <3>1. \A r \in Ops : r # q => op'[r] = op[r]
      BY <1>1, <2>7 DEF OpGoesOn, Serve, ServeAdd, Refuse, Answered, Refused, Fails
    <3>2. op[q] # NoOp
      BY <1>1, <2>7 DEF OpGoesOn, Serve, ServeAdd, Refuse, Answered, Refused, Fails
    <3>. QED  BY <2>1, <3>1, <3>2
  <2>8. ASSUME NEW i \in {0} \cup Rows, Pick(i)
        PROVE  FALSE
    BY <2>1, <2>8 DEF Pick
  <2>9. ASSUME NEW i \in Rows, NEW s \in {"none", "off", "on"}, Elsewhere(i, s)
        PROVE  FALSE
    BY <2>1, <2>9 DEF Elsewhere
  <2>10. ~UNCHANGED vars
    BY <2>1 DEF vars
  <2>. QED  BY <2>2, <2>3, <2>4, <2>5, <2>6, <2>7, <2>8, <2>9, <2>10 DEF Next
<1>4. op'[o].row = Target
  BY <1>2, <1>3
<1>5. CASE picked \in {0} \cup Shown
  BY <1>4, <1>5 DEF Target
<1>6. CASE picked \notin {0} \cup Shown
  <2>1. picked \in Rows /\ shown[picked] = "none"
    BY <1>6, SettingsAssumption DEF IInv, TypeOK, Rows, Shown
  <2>. QED  BY <2>1 DEF IInv, ShownAccounted, Accounted
<1>. QED  BY <1>5, <1>6

\* A new password goes to the row that was picked, unless that row is gone or what is
\* shown is older than the row, however polls and operations overtake each other.
THEOREM PasswordForPicked == Spec => SavesForPicked
<1>1. IInv /\ [Next]_vars =>
        [\A o \in Ops :
           op[o] = NoOp /\ op'[o].kind = "save" /\ picked # NoRow =>
             \/ op'[o].row = picked
             \/ table[picked] = "none"
             \/ picked \in behind]_vars
  BY SaveForPicked
<1>. QED  BY <1>1, Invariant, PTL DEF Spec, SavesForPicked
=============================================================================
