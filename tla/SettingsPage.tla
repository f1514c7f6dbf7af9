---------------------------- MODULE SettingsPage ----------------------------
(***************************************************************************)
(* The settings page (client/client.js) against the server that answers it: *)
(* the status is polled every three seconds, a status is taken at once and *)
(* answered up to 1.2 seconds later (lib/index.js, getStatus), an added    *)
(* row is shown before any poll has it, and one operation is to be under   *)
(* way at a time - except that an addition is given up after eight seconds *)
(* and may be answered all the same.                                       *)
(*                                                                         *)
(* Requests are served and answered in any order; some are lost.  Row 0 is *)
(* the owner's, always there.  Other pages change the table, too.          *)
(*                                                                         *)
(* Abstracted: labels, addresses and reachability; forms not acceptable;   *)
(* logging out, after which the page is another one; the time before the   *)
(* first status is shown.                                                  *)
(***************************************************************************)
EXTENDS Integers, FiniteSets

CONSTANTS
  MaxRow,      \* bound: rows are 0..MaxRow
  MaxPolls,    \* bound: status requests under way
  MaxOps,      \* bound: operations under way
  MaxChanges,  \* bound: operations begun here or carried out for other pages
  MaxLost      \* bound: requests that fail

ASSUME SettingsAssumption ==
  /\ MaxRow \in Nat \ {0}
  /\ MaxPolls \in Nat /\ MaxOps \in Nat
  /\ MaxChanges \in Nat
  /\ MaxLost \in Nat

Rows == 1..MaxRow
Polls == 1..MaxPolls
Ops == 1..MaxOps

VARIABLES
  table,    \* table[i]: row i as the server has it: none (or hidden), off or on
  poll,     \* poll[p]: the status request in slot p
  op,       \* op[o]: the operation in slot o
  shown,    \* shown[i]: row i as the page shows it
  picked,   \* entryIdx: the row picked for a new password, NoRow if none
  busy,     \* buttons are disabled
  timers,   \* operations whose eight seconds are running
  changes,  \* operations begun here or carried out for other pages
  lost,     \* requests that failed
  behind,   \* history: rows shown as they were before they came (back) into the table
  gaveUp    \* history: an addition was given up while it was under way

page == <<shown, picked, busy, timers, behind, gaveUp>>
vars == <<table, poll, op, page, changes, lost>>

-----------------------------------------------------------------------------
(* Definitions named Faulty... are seeded faults: plausible slips in the   *)
(* definition that follows them, never used by Next, kept to see that each *)
(* property can fail.                                                      *)

NoRow == -1
Table == [Rows -> {"none", "off", "on"}]
Empty == [i \in Rows |-> "none"]

NoPoll == [at |-> "idle", rows |-> Empty, behind |-> {}]
NoOp   == [at |-> "idle", kind |-> "none", row |-> NoRow]

\* A poll is asked, then taken; an operation is sent, then done or refused.  The
\* row of an addition is known when it is done.
Poll == [at : {"asked", "taken"}, rows : Table, behind : SUBSET Rows]
Op   == [at : {"sent", "done", "refused"}, kind : {"on", "off", "del", "add", "save"},
         row : {NoRow} \cup 0..MaxRow]

UnderWay == {o \in Ops : op[o] # NoOp}

Shown == {i \in Rows : shown[i] # "none"}

FaultyTarget ==
  IF picked \in {0} \cup Shown THEN Cardinality({i \in Shown : i <= picked}) ELSE 0

\* effIdx: the row picked, if it is shown; else the first one that is not the
\* owner's, if there is one.
Target ==
  CASE picked \in {0} \cup Shown -> picked
    [] picked \notin {0} \cup Shown /\ Shown # {} ->
         CHOOSE i \in Shown : \A j \in Shown : i <= j
    [] OTHER -> 0

Init ==
  /\ table = [Empty EXCEPT ![1] = "off"]
  /\ poll = [p \in Polls |-> NoPoll]
  /\ op = [o \in Ops |-> NoOp]
  /\ shown = table
  /\ picked = NoRow
  /\ busy = FALSE
  /\ timers = {}
  /\ changes = 0
  /\ lost = 0
  /\ behind = {}
  /\ gaveUp = FALSE

-----------------------------------------------------------------------------
(* Polls                                                                   *)

\* load(), in the first free slot.
Load(p) ==
  /\ poll[p] = NoPoll
  /\ \A q \in Polls : q < p => poll[q] # NoPoll
  /\ poll' = [poll EXCEPT ![p].at = "asked"]

\* The interval.
Ask(p) ==
  /\ Load(p)
  /\ UNCHANGED <<table, op, page, changes, lost>>

\* getStatus() looks at the table; its answer waits for the probes.
Take(p) ==
  /\ poll[p].at = "asked"
  /\ poll' = [poll EXCEPT ![p] = [at |-> "taken", rows |-> table, behind |-> {}]]
  /\ UNCHANGED <<table, op, page, changes, lost>>

FaultyMerged(p) == [i \in Rows |-> IF poll[p].rows[i] = "none" THEN shown[i] ELSE poll[p].rows[i]]

\* setStatus(): the answer takes the place of whatever is shown.
Merged(p) == poll[p].rows

Arrive(p) ==
  /\ poll[p].at = "taken"
  /\ shown' = Merged(p)
  /\ behind' = poll[p].behind
  /\ poll' = [poll EXCEPT ![p] = NoPoll]
  /\ UNCHANGED <<table, op, picked, busy, timers, gaveUp, changes, lost>>

PollFails(p) ==
  /\ poll[p] # NoPoll
  /\ lost < MaxLost
  /\ lost' = lost + 1
  /\ poll' = [poll EXCEPT ![p] = NoPoll]
  /\ UNCHANGED <<table, op, page, changes>>

-----------------------------------------------------------------------------
(* Operations on the page                                                  *)

Send(o, kind, row) ==
  /\ ~busy
  /\ op[o] = NoOp /\ o \notin timers
  /\ \A q \in Ops : q < o => op[q] # NoOp \/ q \in timers
  /\ changes < MaxChanges
  /\ changes' = changes + 1
  /\ op' = [op EXCEPT ![o] = [at |-> "sent", kind |-> kind, row |-> row]]
  /\ busy' = TRUE
  /\ UNCHANGED <<table, poll, shown, picked, behind, gaveUp, lost>>

Flip(o, i) ==
  /\ i \in Shown
  /\ Send(o, IF shown[i] = "on" THEN "off" ELSE "on", i)
  /\ UNCHANGED timers

Delete(o, i) ==
  /\ i \in Shown
  /\ Send(o, "del", i)
  /\ UNCHANGED timers

\* The new password goes to the row that the list of rows shows as selected.
Save(o) ==
  /\ Send(o, "save", Target)
  /\ UNCHANGED timers

Add(o) ==
  /\ Send(o, "add", NoRow)
  /\ timers' = timers \cup {o}

\* The list of rows is enabled at any time.
Pick(i) ==
  /\ i \in {0} \cup Shown
  /\ picked' = i
  /\ UNCHANGED <<table, poll, op, shown, busy, timers, behind, gaveUp, changes, lost>>

\* Eight seconds after an addition was sent the buttons are enabled again.
GiveUp(o) ==
  /\ o \in timers
  /\ timers' = timers \ {o}
  /\ busy' = FALSE
  /\ gaveUp' = (gaveUp \/ op[o] # NoOp)
  /\ UNCHANGED <<table, poll, op, shown, picked, behind, changes, lost>>

-----------------------------------------------------------------------------
(* The server                                                              *)

\* Row i comes into the table, or back: what is shown, or on its way, is older.
Comes(i) ==
  /\ behind' = behind \cup {i}
  /\ poll' = [p \in Polls |-> IF poll[p].at = "taken"
                              THEN [poll[p] EXCEPT !.behind = @ \cup {i}] ELSE poll[p]]

\* entry.set, entry.del and password.set: a row that was deleted stays so, and
\* gets no password.
Serve(o) ==
  LET q == op[o]
  IN  /\ q.at = "sent" /\ q.kind # "add"
      /\ op' = [op EXCEPT ![o].at =
                   IF q.kind = "save" /\ q.row # 0 /\ table[q.row] = "none"
                   THEN "refused" ELSE "done"]
      /\ table' = CASE q.kind = "del" -> [table EXCEPT ![q.row] = "none"]
                    [] q.kind \in {"on", "off"} /\ table[q.row] # "none" ->
                         [table EXCEPT ![q.row] = q.kind]
                    [] OTHER -> table
      /\ UNCHANGED <<poll, page, changes, lost>>

FaultyServeAdd(o, i) ==
  /\ op[o].at = "sent" /\ op[o].kind = "add"
  /\ table[i] = "none"
  /\ table' = [table EXCEPT ![i] = "off"]
  /\ op' = [op EXCEPT ![o].at = "done"]
  /\ Comes(i)
  /\ UNCHANGED <<shown, picked, busy, timers, gaveUp, changes, lost>>

\* entry.add of a new address, or of one that was deleted: the row is off.
ServeAdd(o, i) ==
  /\ op[o].at = "sent" /\ op[o].kind = "add"
  /\ table[i] = "none"
  /\ table' = [table EXCEPT ![i] = "off"]
  /\ op' = [op EXCEPT ![o].at = "done", ![o].row = i]
  /\ Comes(i)
  /\ UNCHANGED <<shown, picked, busy, timers, gaveUp, changes, lost>>

\* The address is taken.
Refuse(o) ==
  /\ op[o].at = "sent" /\ op[o].kind = "add"
  /\ op' = [op EXCEPT ![o].at = "refused"]
  /\ UNCHANGED <<table, poll, page, changes, lost>>

\* Another page switches, deletes or adds a row.
Elsewhere(i, s) ==
  /\ changes < MaxChanges
  /\ changes' = changes + 1
  /\ s # table[i]
  /\ s = "on" => table[i] = "off"
  /\ table' = [table EXCEPT ![i] = s]
  /\ IF table[i] = "none" THEN Comes(i) ELSE UNCHANGED <<behind, poll>>
  /\ UNCHANGED <<op, shown, picked, busy, timers, gaveUp, lost>>

-----------------------------------------------------------------------------
(* Answers                                                                 *)

FaultyCleared(o) == timers

\* clearTimeout()
Cleared(o) == timers \ {o}

\* Whatever else is under way, the buttons are enabled again; then load().
Answered(o, p) ==
  /\ op[o].at = "done"
  /\ op' = [op EXCEPT ![o] = NoOp]
  /\ busy' = FALSE
  /\ timers' = Cleared(o)
  /\ Load(p)
  /\ IF op[o].kind = "add"
     THEN /\ shown' = [shown EXCEPT ![op[o].row] = "off"]
          /\ behind' = behind \ {op[o].row}
     ELSE UNCHANGED <<shown, behind>>
  /\ UNCHANGED <<table, picked, gaveUp, changes, lost>>

\* An addition or a password was refused: only an error is shown.
Refused(o) ==
  /\ op[o].at = "refused"
  /\ op' = [op EXCEPT ![o] = NoOp]
  /\ busy' = FALSE
  /\ timers' = Cleared(o)
  /\ UNCHANGED <<table, poll, shown, picked, behind, gaveUp, changes, lost>>

\* The request, or its answer, is lost.
Fails(o) ==
  /\ op[o] # NoOp
  /\ lost < MaxLost
  /\ lost' = lost + 1
  /\ op' = [op EXCEPT ![o] = NoOp]
  /\ busy' = FALSE
  /\ timers' = Cleared(o)
  /\ UNCHANGED <<table, poll, shown, picked, behind, gaveUp, changes>>

PollGoesOn(p) == Ask(p) \/ Take(p) \/ Arrive(p)

OpGoesOn(o) ==
  \/ Serve(o)
  \/ \E i \in Rows : ServeAdd(o, i)
  \/ Refuse(o)
  \/ \E p \in Polls : Answered(o, p)
  \/ Refused(o)

Next ==
  \/ \E p \in Polls : PollGoesOn(p)
  \/ \E p \in Polls : PollFails(p)
  \/ \E o \in Ops, i \in Rows : Flip(o, i)
  \/ \E o \in Ops, i \in Rows : Delete(o, i)
  \/ \E o \in Ops : Save(o)
  \/ \E o \in Ops : Add(o)
  \/ \E i \in {0} \cup Rows : Pick(i)
  \/ \E o \in Ops : GiveUp(o)
  \/ \E o \in Ops : OpGoesOn(o)
  \/ \E o \in Ops : Fails(o)
  \/ \E i \in Rows, s \in {"none", "off", "on"} : Elsewhere(i, s)

\* The interval goes on as long as the page is open, the probes of a status have a
\* timeout, no handler waits for anything but a hash, and a request is answered
\* unless it fails.  (Strong fairness of an operation because its load() may find
\* all slots for polls in use again and again, which the code knows nothing of.)
Fairness ==
  /\ \A p \in Polls : WF_vars(PollGoesOn(p))
  /\ \A o \in Ops : SF_vars(OpGoesOn(o))

Spec == Init /\ [][Next]_vars /\ Fairness

-----------------------------------------------------------------------------
(* Properties                                                              *)

\* The types of the state; what is shown differs from no table only by rows that
\* are there.
TypeOK ==
  /\ table \in Table
  /\ poll \in [Polls -> Poll \cup {NoPoll}]
  /\ op \in [Ops -> Op \cup {NoOp}]
  /\ \A o \in Ops : op[o].at = "done" => op[o].row # NoRow
  /\ shown \in Table
  /\ picked \in {NoRow} \cup 0..MaxRow
  /\ busy \in BOOLEAN
  /\ timers \subseteq Ops
  /\ changes \in 0..MaxChanges
  /\ lost \in 0..MaxLost
  /\ behind \subseteq Rows
  /\ gaveUp \in BOOLEAN

\* An operation is begun while another one is under way only after an addition
\* was given up: its late answer enables the buttons of whatever came after it.
OneAtATime == Cardinality(UnderWay) > 1 => gaveUp

\* A new password goes to the row that was picked - to another one only if the
\* picked row is gone from the server, or if the page shows an answer that was
\* taken before that row was there.
SavesForPicked ==
  [][\A o \in Ops :
       op[o] = NoOp /\ op'[o].kind = "save" /\ picked # NoRow =>
         \/ op'[o].row = picked
         \/ table[picked] = "none"
         \/ picked \in behind]_vars

\* When nothing changes any more the page comes to show the table as it is, with
\* its buttons enabled, whatever was overtaken by what.
Settles == <>[](shown = table /\ ~busy)
=============================================================================
