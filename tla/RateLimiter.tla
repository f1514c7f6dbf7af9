----------------------------- MODULE RateLimiter -----------------------------
(***************************************************************************)
(* The login limiter of the gate (lib/ratelimit.mjs) in the order the      *)
(* login handler uses it: a request is admitted or refused when its header *)
(* arrives, its password is judged later, and only a wrong one is recorded *)
(* - so any number of requests of one client may be under judgement when   *)
(* the lock falls.  A right password changes nothing here.                 *)
(*                                                                         *)
(* The Map is rows plus the order of its keys; a client without a row      *)
(* behaves as one with NewRow.  Time starts at 1: the code uses 0 for      *)
(* "never".                                                                *)
(***************************************************************************)
EXTENDS Integers, Sequences, FiniteSets, SequencesExt

CONSTANTS
  IPs,          \* the keys failKey() returns
  MaxAttempts,  \* MAX_ATTEMPTS
  LockBase,     \* LOCK_BASE_MS, in ticks
  MultMax,      \* MULT_MAX
  ResetIdle,    \* RESET_IDLE_MS, in ticks
  MapMax,       \* mapMax
  MaxInFlight,  \* bound: requests of one client under judgement
  MaxTime       \* bound: the clock stops there

ASSUME LimiterAssumption ==
  /\ MaxAttempts \in Nat \ {0}
  /\ LockBase \in Nat \ {0}
  /\ MultMax \in Nat \ {0}
  /\ ResetIdle \in Nat
  /\ MapMax \in Nat \ {0}
  /\ MaxInFlight \in Nat
  /\ MaxTime \in Nat

VARIABLES
  rows,      \* rows[ip]: what the limiter knows of ip
  order,     \* keys of the Map, oldest first
  inFlight,  \* inFlight[ip]: admitted requests whose password is not judged yet
  now,       \* Date.now(), in ticks
  lock       \* history: the last lock of ip, from one time until another

vars == <<rows, order, inFlight, now, lock>>

-----------------------------------------------------------------------------
(* Rows.  Definitions named Faulty... are seeded faults: plausible slips in *)
(* the definition that follows them, never used by Next, kept to see that  *)
(* each property can fail.                                                 *)

Row == [hits : Seq(Nat), lockedUntil : Nat, mult : Nat, coolSince : Nat]
NewRow == [hits |-> <<>>, lockedUntil |-> 0, mult |-> 1, coolSince |-> 0]
NoLock == [from |-> 0, until |-> 0]

Smaller(x, y) == IF x < y THEN x ELSE y

FaultyUnlockedEarly(row) ==
  IF row.lockedUntil # 0 /\ row.lockedUntil <= now + 1
  THEN [row EXCEPT !.coolSince = row.lockedUntil, !.lockedUntil = 0, !.hits = <<>>]
  ELSE row

FaultyUnlockedClearing(row) ==
  IF row.lockedUntil # 0 /\ row.lockedUntil <= now
  THEN [row EXCEPT !.coolSince = row.lockedUntil, !.lockedUntil = 0, !.hits = <<>>,
                   !.mult = 1]
  ELSE row

\* settle(): a lock that is over leaves its multiplier and the time it ended.
Unlocked(row) ==
  IF row.lockedUntil # 0 /\ row.lockedUntil <= now
  THEN [row EXCEPT !.coolSince = row.lockedUntil, !.lockedUntil = 0, !.hits = <<>>]
  ELSE row

\* settle() drops the row ResetIdle after its last lock ended - whatever
\* failures it has counted since.
Cooled(row) == row.coolSince # 0 /\ now - row.coolSince > ResetIdle

Settled(row) == IF Cooled(Unlocked(row)) THEN NewRow ELSE Unlocked(row)

\* lockRemainingMs() > 0, of a settled row.
Locked(row) == row.lockedUntil > now

\* Failures of the last LockBase count.
Recent(hits) ==
  FoldLeft(LAMBDA kept, t : IF now - t < LockBase THEN Append(kept, t) ELSE kept, <<>>, hits)

\* One more failure: the one that reaches the limit locks the row and doubles the
\* multiplier.
Counted(row) ==
  LET recent == Append(Recent(row.hits), now)
  IN  IF Len(recent) < MaxAttempts THEN [row EXCEPT !.hits = recent]
      ELSE [hits |-> <<>>, lockedUntil |-> now + LockBase * row.mult,
            mult |-> Smaller(row.mult * 2, MultMax), coolSince |-> 0]

FaultyDroppedLate == IF Len(order) > MapMax THEN 1 ELSE 0

FaultyDroppedMore == IF Len(order) >= MapMax THEN Len(order) - MapMax + 2 ELSE 0

\* A full Map drops its oldest keys until there is room for one, even when the
\* client at hand has a row already and even when a dropped one is locked.
Dropped == IF Len(order) >= MapMax THEN Len(order) - MapMax + 1 ELSE 0

Evicted == ToSet(SubSeq(order, 1, Dropped))

-----------------------------------------------------------------------------
(* Operations                                                              *)

Init ==
  /\ rows = [ip \in IPs |-> NewRow]
  /\ order = <<>>
  /\ inFlight = [ip \in IPs |-> 0]
  /\ now = 1
  /\ lock = [ip \in IPs |-> NoLock]

\* lockRemainingMs() settles the row on the way.
Settle(ip) ==
  /\ rows' = [rows EXCEPT ![ip] = Settled(@)]
  /\ order' = IF Cooled(Unlocked(rows[ip])) THEN RemoveFirst(order, ip) ELSE order

\* POST /gate-login of a client that is not locked: its password will be judged.
Admit(ip) ==
  /\ inFlight[ip] < MaxInFlight
  /\ Settle(ip)
  /\ ~Locked(Settled(rows[ip]))
  /\ inFlight' = [inFlight EXCEPT ![ip] = @ + 1]
  /\ UNCHANGED <<now, lock>>

\* POST /gate-login of a locked client is answered 401 at once.
Refuse(ip) ==
  /\ Settle(ip)
  /\ Locked(Settled(rows[ip]))
  /\ UNCHANGED <<inFlight, now, lock>>

\* A password is right, or the request ends before it is judged.
NotWrong(ip) ==
  /\ inFlight[ip] > 0
  /\ inFlight' = [inFlight EXCEPT ![ip] = @ - 1]
  /\ UNCHANGED <<rows, order, now, lock>>

\* The history forgets an evicted client as the Map does.
Forget(hist, ip, new, none) ==
  [i \in IPs |-> IF i = ip THEN new ELSE IF i \in Evicted THEN none ELSE hist[i]]

\* A wrong password: recordFailure().
Wrong(ip) ==
  LET kept   == SubSeq(order, Dropped + 1, Len(order))
      old    == IF ip \in Evicted THEN NewRow ELSE rows[ip]
      row    == Settled(old)
      new    == IF Locked(row) THEN row ELSE Counted(row)
      locked == ~Locked(row) /\ Locked(new)
      rowGone == Cooled(Unlocked(old)) \/ ip \notin ToSet(kept)
  IN /\ inFlight[ip] > 0
     /\ inFlight' = [inFlight EXCEPT ![ip] = @ - 1]
     /\ rows' = Forget(rows, ip, new, NewRow)
     /\ order' = IF rowGone THEN Append(RemoveFirst(kept, ip), ip) ELSE kept
     /\ lock' = Forget(lock, ip,
                       IF locked THEN [from |-> now, until |-> new.lockedUntil]
                       ELSE IF ip \in Evicted THEN NoLock ELSE lock[ip], NoLock)
     /\ UNCHANGED now

Tick ==
  /\ now < MaxTime
  /\ now' = now + 1
  /\ UNCHANGED <<rows, order, inFlight, lock>>

Next ==
  \/ \E ip \in IPs : Admit(ip)
  \/ \E ip \in IPs : Refuse(ip)
  \/ \E ip \in IPs : NotWrong(ip)
  \/ \E ip \in IPs : Wrong(ip)
  \/ Tick

Spec == Init /\ [][Next]_vars

-----------------------------------------------------------------------------
(* Properties                                                              *)

\* The types of the state.  The Map never outgrows mapMax and lists no key twice,
\* and a client it does not list has nothing held against it.
TypeOK ==
  /\ rows \in [IPs -> Row]
  /\ order \in Seq(IPs) /\ Len(order) <= MapMax /\ IsInjective(order)
  /\ \A ip \in IPs : ip \notin ToSet(order) => rows[ip] = NewRow
  /\ inFlight \in [IPs -> Nat]
  /\ now \in Nat
  /\ lock \in [IPs -> [from : Nat, until : Nat]]

\* A lock is in force from the failure that set it until exactly the end it was
\* given then: nothing the locked client or another one does shortens or
\* extends it, short of an eviction.
LockHonoured ==
  \A ip \in IPs : lock[ip].until > now => rows[ip].lockedUntil = lock[ip].until

\* A lock that follows the end of the last one within ResetIdle is twice as long,
\* up to MultMax times LockBase.  Any other lock is that or LockBase: which of them
\* it is after failures that gave no lock is the question of MultiplierSurvives.
RepeatDoubles ==
  [][\A ip \in IPs :
       LET Span(l) == l.until - l.from
           Twice == Smaller(2 * Span(lock[ip]), LockBase * MultMax)
           repeats == lock[ip] # NoLock /\ ip \notin Evicted
       IN lock'[ip] # lock[ip] /\ lock'[ip] # NoLock =>
            \/ repeats /\ Span(lock'[ip]) = Twice
            \/ ~(repeats /\ now - lock[ip].until <= ResetIdle) /\ Span(lock'[ip]) = LockBase]_vars

\* What README.en.md:51 says: the multiplier of a client that was not evicted goes
\* back only after ResetIdle without failures.  The failures a row still counts are
\* in its hits.
MultiplierSurvives ==
  [][\A ip \in IPs \ Evicted :
       rows'[ip].mult < rows[ip].mult =>
         \A t \in ToSet(rows[ip].hits) : now - t > ResetIdle]_vars

\* A lock in force is lost only by eviction, and only from a full Map.
LockLostOnlyWhenFull ==
  [][\A ip \in IPs : lock[ip].until > now /\ lock'[ip] # lock[ip] =>
       Len(order) = MapMax /\ ip = Head(order)]_vars
=============================================================================
