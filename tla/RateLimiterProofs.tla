-------------------------- MODULE RateLimiterProofs --------------------------
(***************************************************************************)
(* Proofs about RateLimiter, for any number of clients and of logins under *)
(* judgement, any limits and any size of the Map: a lock is in force for   *)
(* as long as it was given, unless a full Map drops it as its oldest key,  *)
(* and a repeated one is twice as long.                                    *)
(***************************************************************************)
EXTENDS RateLimiter, TLAPS, WellFoundedInduction

USE LimiterAssumption

-----------------------------------------------------------------------------
(* The inductive invariant                                                 *)

\* A row, whatever failures it counts.
RowLike(row) == \E h : row \in [hits : {h}, lockedUntil : Nat, mult : Nat \ {0}, coolSince : Nat]

Lock == [from : Nat, until : Nat]

\* A row that no lock has left anything in.
Unmarked(row) == row.lockedUntil = 0 /\ row.mult = 1 /\ row.coolSince = 0

\* The next lock is to be twice as long as l, up to the limit.
Doubled(row, l) == LockBase * row.mult = Smaller(2 * (l.until - l.from), LockBase * MultMax)

\* How the row of a client agrees with its last lock l: there was none; or it is in
\* force; or it is over, and settle() has seen it; or it is forgotten.
Agrees(row, l) ==
  \/ l = NoLock /\ Unmarked(row)
  \/ /\ l # NoLock /\ l.until > 0 /\ Doubled(row, l)
     /\ row.lockedUntil = l.until /\ row.coolSince = 0
  \/ /\ l # NoLock /\ l.until > 0 /\ Doubled(row, l)
     /\ row.lockedUntil = 0 /\ row.coolSince = l.until /\ l.until <= now
  \/ l # NoLock /\ Unmarked(row) /\ now - l.until > ResetIdle

IInv == /\ now \in Nat \ {0}
        /\ DOMAIN rows = IPs
        /\ \A ip \in IPs : /\ RowLike(rows[ip])
                           /\ lock[ip] \in Lock
                           /\ Agrees(rows[ip], lock[ip])

-----------------------------------------------------------------------------
(* Rows                                                                    *)

LEMMA NewRowFields == RowLike(NewRow) /\ Unmarked(NewRow) /\ NoLock \in Lock
BY DEF NewRow, RowLike, Unmarked, NoLock, Lock

\* settle() keeps what the row knows of the last lock; a row it leaves unlocked
\* has the multiplier that the next lock is to have.
LEMMA SettledAgrees ==
  ASSUME now \in Nat \ {0}, NEW row, RowLike(row), NEW l \in Lock, Agrees(row, l)
  PROVE  /\ RowLike(Settled(row)) /\ Agrees(Settled(row), l)
         /\ ~Locked(Settled(row)) =>
              /\ Settled(row).lockedUntil = 0
              /\ IF l # NoLock /\ now - l.until <= ResetIdle
                 THEN Doubled(Settled(row), l) ELSE Settled(row).mult = 1
<1>1. PICK h : row \in [hits : {h}, lockedUntil : Nat, mult : Nat \ {0}, coolSince : Nat]
  BY DEF RowLike
<1>2. l.from \in Nat /\ l.until \in Nat
  BY DEF Lock
<1>3. CASE row.lockedUntil # 0 /\ row.lockedUntil <= now
  <2>. PICK q : q = [row EXCEPT !.coolSince = row.lockedUntil, !.lockedUntil = 0, !.hits = <<>>]
    OBVIOUS
  <2>1. /\ q \in [hits : {<<>>}, lockedUntil : Nat, mult : Nat \ {0}, coolSince : Nat]
        /\ q.coolSince = row.lockedUntil /\ q.lockedUntil = 0 /\ q.mult = row.mult
    BY <1>1
  <2>2. Unlocked(row) = q /\ RowLike(q)
    BY <1>3, <2>1 DEF Unlocked, RowLike
  <2>3. l # NoLock /\ l.until > 0 /\ Doubled(row, l) /\ row.lockedUntil = l.until
    BY <1>3 DEF Agrees, Unmarked
  <2>4. Doubled(q, l) /\ q.coolSince = l.until /\ l.until <= now
    BY <1>3, <2>1, <2>3 DEF Doubled
  <2>5. CASE now - l.until > ResetIdle
    <3>1. Settled(row) = NewRow
      BY <1>2, <2>2, <2>3, <2>4, <2>5 DEF Settled, Cooled
    <3>2. Agrees(NewRow, l)
      BY <2>3, <2>5, NewRowFields DEF Agrees
    <3>3. NewRow.lockedUntil = 0 /\ NewRow.mult = 1 /\ ~(now - l.until <= ResetIdle)
      BY <1>2, <2>5, NewRowFields DEF Unmarked
    <3>. QED  BY <3>1, <3>2, <3>3, NewRowFields
  <2>6. CASE ~(now - l.until > ResetIdle)
    <3>1. Settled(row) = q
      BY <1>2, <2>2, <2>3, <2>4, <2>6 DEF Settled, Cooled
    <3>2. Agrees(q, l)
      BY <2>1, <2>3, <2>4 DEF Agrees
    <3>3. now - l.until <= ResetIdle
      BY <1>2, <2>6
    <3>. QED  BY <2>1, <2>2, <2>3, <2>4, <3>1, <3>2, <3>3
  <2>. QED  BY <2>5, <2>6
<1>4. CASE ~(row.lockedUntil # 0 /\ row.lockedUntil <= now)
  <2>1. Unlocked(row) = row
    BY <1>4 DEF Unlocked
  <2>2. row.lockedUntil = 0 \/ row.lockedUntil > now
    BY <1>1, <1>4
  <2>3. CASE Cooled(row)
    <3>1. Settled(row) = NewRow
      BY <2>1, <2>3 DEF Settled
    <3>2. l # NoLock /\ now - l.until > ResetIdle
      BY <2>3 DEF Cooled, Agrees, Unmarked
    <3>. QED  BY <1>2, <3>1, <3>2, NewRowFields DEF Agrees, Unmarked
  <2>4. CASE ~Cooled(row)
    <3>1. Settled(row) = row
      BY <2>1, <2>4 DEF Settled
    <3>2. ASSUME ~Locked(row)
          PROVE  /\ row.lockedUntil = 0
                 /\ IF l # NoLock /\ now - l.until <= ResetIdle THEN Doubled(row, l)
                    ELSE row.mult = 1
      <4>1. row.lockedUntil = 0
        BY <2>2, <3>2 DEF Locked
      <4>. QED  BY <1>2, <2>4, <4>1 DEF Agrees, Unmarked, Cooled
    <3>. QED  BY <3>1, <3>2
  <2>. QED  BY <2>3, <2>4
<1>. QED  BY <1>3, <1>4

\* A lock given now lasts LockBase times the multiplier, and the next is to last
\* twice as long; a failure that does not lock leaves what the row knows.
LEMMA CountedFields ==
  ASSUME now \in Nat \ {0}, NEW row, RowLike(row), row.lockedUntil = 0
  PROVE  /\ RowLike(Counted(row))
         /\ \/ /\ ~Locked(Counted(row)) /\ Counted(row).lockedUntil = 0
               /\ Counted(row).mult = row.mult /\ Counted(row).coolSince = row.coolSince
            \/ /\ Counted(row).lockedUntil = now + LockBase * row.mult
               /\ Counted(row).mult = Smaller(row.mult * 2, MultMax)
               /\ Counted(row).coolSince = 0
<1>. DEFINE r == Append(Recent(row.hits), now)
<1>1. Counted(row) = IF Len(r) < MaxAttempts THEN [row EXCEPT !.hits = r]
                     ELSE [hits |-> <<>>, lockedUntil |-> now + LockBase * row.mult,
                           mult |-> Smaller(row.mult * 2, MultMax), coolSince |-> 0]
  BY DEF Counted
<1>. HIDE DEF r
<1>2. PICK h : row \in [hits : {h}, lockedUntil : Nat, mult : Nat \ {0}, coolSince : Nat]
  BY DEF RowLike
<1>3. CASE Len(r) < MaxAttempts
  <2>. PICK q : q = [row EXCEPT !.hits = r]
    OBVIOUS
  <2>1. /\ q \in [hits : {r}, lockedUntil : Nat, mult : Nat \ {0}, coolSince : Nat]
        /\ q.lockedUntil = 0 /\ q.mult = row.mult /\ q.coolSince = row.coolSince
    BY <1>2
  <2>. QED  BY <1>1, <1>3, <2>1 DEF RowLike, Locked
<1>4. CASE ~(Len(r) < MaxAttempts)
  <2>. PICK q : q = [hits |-> <<>>, lockedUntil |-> now + LockBase * row.mult,
                     mult |-> Smaller(row.mult * 2, MultMax), coolSince |-> 0]
    OBVIOUS
  <2>1. /\ now + LockBase * row.mult \in Nat /\ Smaller(row.mult * 2, MultMax) \in Nat \ {0}
    BY <1>2 DEF Smaller
  <2>2. q \in [hits : {<<>>}, lockedUntil : Nat, mult : Nat \ {0}, coolSince : Nat]
    BY <2>1
  <2>. QED  BY <1>1, <1>4, <2>2 DEF RowLike
<1>. QED  BY <1>3, <1>4

LEMMA SmallerTimes ==
  ASSUME NEW b \in Nat \ {0}, NEW m \in Nat, NEW M \in Nat
  PROVE  b * Smaller(m * 2, M) = Smaller(2 * (b * m), b * M)
BY DEF Smaller

-----------------------------------------------------------------------------
(* A failure                                                               *)

\* What one more failure makes of the row and the lock of the client, and how long
\* a lock is that it gives.
LEMMA WrongFields ==
  ASSUME IInv, NEW ip \in IPs, Wrong(ip)
  PROVE  /\ RowLike(rows'[ip]) /\ lock'[ip] \in Lock /\ Agrees(rows'[ip], lock'[ip])
         /\ lock'[ip] # lock[ip] /\ lock'[ip] # NoLock =>
              lock'[ip].until - lock'[ip].from =
                IF lock[ip] # NoLock /\ now - lock[ip].until <= ResetIdle /\ ip \notin Evicted
                THEN Smaller(2 * (lock[ip].until - lock[ip].from), LockBase * MultMax)
                ELSE LockBase
<1>. PICK old : old = IF ip \in Evicted THEN NewRow ELSE rows[ip]
  OBVIOUS
<1>. PICK l : l = IF ip \in Evicted THEN NoLock ELSE lock[ip]
  OBVIOUS
<1>. PICK row : row = Settled(old)
  OBVIOUS
<1>. PICK new : new = IF Locked(row) THEN row ELSE Counted(row)
  OBVIOUS
<1>1. RowLike(old) /\ l \in Lock /\ Agrees(old, l) /\ now \in Nat \ {0}
  BY NewRowFields DEF IInv, Agrees
<1>2. /\ RowLike(row) /\ Agrees(row, l)
      /\ ~Locked(row) =>
           /\ row.lockedUntil = 0
           /\ IF l # NoLock /\ now - l.until <= ResetIdle
              THEN Doubled(row, l) ELSE row.mult = 1
  BY <1>1, SettledAgrees
<1>3. rows'[ip] = new
  BY DEF Wrong, Forget
<1>4. lock'[ip] = IF ~Locked(row) /\ Locked(new) THEN [from |-> now, until |-> new.lockedUntil] ELSE l
  BY DEF Wrong, Forget
<1>5. CASE Locked(row)
  BY <1>1, <1>2, <1>3, <1>4, <1>5
<1>6. CASE ~Locked(row)
  <2>1. new = Counted(row) /\ RowLike(new)
    BY <1>1, <1>2, <1>6, CountedFields
  <2>2. CASE ~Locked(new) /\ new.lockedUntil = 0 /\ new.mult = row.mult /\ new.coolSince = row.coolSince
    <3>1. Agrees(new, l)
      BY <1>2, <1>6, <2>2 DEF Agrees, Unmarked, Doubled
    <3>. QED  BY <1>1, <1>3, <1>4, <2>1, <2>2, <3>1
  <2>3. CASE /\ new.lockedUntil = now + LockBase * row.mult
             /\ new.mult = Smaller(row.mult * 2, MultMax) /\ new.coolSince = 0
    <3>0. row.mult \in Nat \ {0} /\ LockBase * row.mult \in Nat \ {0}
      BY <1>2 DEF RowLike
    <3>1. CASE Locked(new)
      <4>. PICK k : k = [from |-> now, until |-> new.lockedUntil]
        OBVIOUS
      <4>1. /\ k \in Lock /\ k.from = now /\ k.until = new.lockedUntil
            /\ k.until - k.from = LockBase * row.mult /\ k.until > 0 /\ k # NoLock
        BY <1>1, <2>3, <3>0 DEF Lock, NoLock
      <4>2. lock'[ip] = k
        BY <1>4, <1>6, <3>1
      <4>3. Doubled(new, k)
        <5>1. LockBase * Smaller(row.mult * 2, MultMax) = Smaller(2 * (LockBase * row.mult), LockBase * MultMax)
          BY <3>0, SmallerTimes
        <5>. QED  BY <2>3, <4>1, <5>1 DEF Doubled
      <4>4. Agrees(new, k)
        BY <2>3, <4>1, <4>3 DEF Agrees
      <4>5. LockBase * row.mult =
              IF l # NoLock /\ now - l.until <= ResetIdle
              THEN Smaller(2 * (l.until - l.from), LockBase * MultMax) ELSE LockBase
        BY <1>2, <1>6 DEF Doubled
      <4>. QED  BY <1>3, <2>1, <4>1, <4>2, <4>4, <4>5
    <3>2. Locked(new)
      BY <1>1, <2>3, <3>0 DEF Locked
    <3>. QED  BY <3>1, <3>2
  <2>. QED  BY <1>1, <1>2, <1>6, <2>1, <2>2, <2>3, CountedFields
<1>. QED  BY <1>5, <1>6

-----------------------------------------------------------------------------
(* The invariant                                                           *)

LEMMA InitIInv == Init => IInv
<1>1. ASSUME Init, NEW ip \in IPs
      PROVE  RowLike(rows[ip]) /\ lock[ip] \in Lock /\ Agrees(rows[ip], lock[ip])
  BY <1>1, NewRowFields DEF Init, Agrees
<1>. QED  BY <1>1 DEF Init, IInv

\* A step that leaves the clock alone has only to keep the rows and the locks in step.
LEMMA StepIInv ==
  ASSUME IInv, UNCHANGED now, DOMAIN rows' = IPs,
         \A ip \in IPs : RowLike(rows'[ip]) /\ lock'[ip] \in Lock /\ Agrees(rows'[ip], lock'[ip])
  PROVE  IInv'
BY DEF IInv, Agrees

LEMMA SettleIInv ==
  ASSUME IInv, NEW ip \in IPs, Settle(ip), UNCHANGED <<now, lock>>
  PROVE  IInv'
<1>1. rows' = [rows EXCEPT ![ip] = Settled(rows[ip])] /\ DOMAIN rows' = IPs
  BY DEF Settle, IInv
<1>2. now \in Nat \ {0} /\ RowLike(rows[ip]) /\ lock[ip] \in Lock /\ Agrees(rows[ip], lock[ip])
  BY DEF IInv
<1>3. RowLike(Settled(rows[ip])) /\ Agrees(Settled(rows[ip]), lock[ip])
  BY <1>2, SettledAgrees
<1>4. ASSUME NEW i \in IPs
      PROVE  RowLike(rows'[i]) /\ lock'[i] \in Lock /\ Agrees(rows'[i], lock'[i])
  <2>1. CASE i = ip
    <3>1. rows'[i] = Settled(rows[ip]) /\ lock'[i] = lock[ip]
      BY <1>1, <2>1 DEF IInv
    <3>. QED  BY <1>2, <1>3, <3>1
  <2>2. CASE i # ip
    <3>1. rows'[i] = rows[i] /\ lock'[i] = lock[i]
      BY <1>1, <2>2 DEF IInv
    <3>. QED  BY <3>1 DEF IInv
  <2>. QED  BY <2>1, <2>2
<1>. QED  BY <1>1, <1>4, StepIInv

LEMMA WrongIInv ==
  ASSUME IInv, NEW ip \in IPs, Wrong(ip)
  PROVE  IInv'
<1>1. DOMAIN rows' = IPs /\ UNCHANGED now
  BY DEF Wrong, Forget
<1>2. ASSUME NEW i \in IPs
      PROVE  RowLike(rows'[i]) /\ lock'[i] \in Lock /\ Agrees(rows'[i], lock'[i])
  <2>1. CASE i = ip
    BY <2>1, WrongFields
  <2>2. CASE i # ip /\ i \in Evicted
    <3>1. rows'[i] = NewRow /\ lock'[i] = NoLock
      BY <2>2 DEF Wrong, Forget
    <3>. QED  BY <3>1, NewRowFields DEF Agrees
  <2>3. CASE i # ip /\ i \notin Evicted
    <3>1. rows'[i] = rows[i] /\ lock'[i] = lock[i]
      BY <2>3 DEF Wrong, Forget
    <3>. QED  BY <3>1 DEF IInv
  <2>. QED  BY <2>1, <2>2, <2>3
<1>. QED  BY <1>1, <1>2, StepIInv

\* Time only brings the end of a lock nearer, and of what it leaves.
LEMMA TickIInv == IInv /\ Tick => IInv'
<1>. SUFFICES ASSUME IInv, Tick
              PROVE  IInv'
  OBVIOUS
<1>1. now' \in Nat \ {0} /\ now' = now + 1 /\ rows' = rows /\ lock' = lock
  BY DEF IInv, Tick
<1>2. ASSUME NEW ip \in IPs
      PROVE  Agrees(rows[ip], lock[ip])'
  <2>1. Agrees(rows[ip], lock[ip]) /\ lock[ip].until \in Nat /\ now \in Nat
    BY DEF IInv, Lock
  <2>. QED  BY <1>1, <2>1 DEF Agrees
<1>. QED  BY <1>1, <1>2 DEF IInv

LEMMA NextIInv == IInv /\ [Next]_vars => IInv'
<1>. SUFFICES ASSUME IInv, [Next]_vars
              PROVE  IInv'
  OBVIOUS
<1>1. CASE \E ip \in IPs : Admit(ip)
  BY <1>1, SettleIInv DEF Admit
<1>2. CASE \E ip \in IPs : Refuse(ip)
  BY <1>2, SettleIInv DEF Refuse
<1>3. CASE \E ip \in IPs : NotWrong(ip)
  BY <1>3, StepIInv DEF NotWrong, IInv
<1>4. CASE \E ip \in IPs : Wrong(ip)
  BY <1>4, WrongIInv
<1>5. CASE Tick
  BY <1>5, TickIInv
<1>6. CASE UNCHANGED vars
  BY <1>6, StepIInv DEF vars, IInv
<1>. QED  BY <1>1, <1>2, <1>3, <1>4, <1>5, <1>6 DEF Next

\* In every state the row of each client agrees with the last lock it was given.
THEOREM Invariant == Spec => []IInv
<1>. QED  BY InitIInv, NextIInv, PTL DEF Spec

-----------------------------------------------------------------------------
(* What the limiter promises                                               *)

\* A lock is in force until exactly the end that the failure that set it gave it:
\* recordFailure() of a locked row changes nothing, settle() ends no lock early,
\* and an eviction forgets it altogether.
THEOREM LockInForce == Spec => []LockHonoured
<1>1. ASSUME IInv PROVE LockHonoured
  <2>. SUFFICES ASSUME NEW ip \in IPs, lock[ip].until > now
                PROVE  rows[ip].lockedUntil = lock[ip].until
    BY DEF LockHonoured
  <2>1. /\ now \in Nat /\ lock[ip].until \in Nat /\ Agrees(rows[ip], lock[ip])
        /\ NoLock.until = 0
    BY <1>1 DEF IInv, Lock, NoLock
  <2>. QED  BY <2>1 DEF Agrees
<1>. QED  BY <1>1, Invariant, PTL

\* A lock that follows the last one within RESET_IDLE_MS of its end is twice as long,
\* up to MULT_MAX times LOCK_BASE_MS; any other is that, or lasts LOCK_BASE_MS.
THEOREM RepeatsDouble == Spec => RepeatDoubles
<1>1. ASSUME IInv, [Next]_vars, NEW ip \in IPs, lock'[ip] # lock[ip], lock'[ip] # NoLock
      PROVE  lock'[ip].until - lock'[ip].from =
               IF lock[ip] # NoLock /\ now - lock[ip].until <= ResetIdle /\ ip \notin Evicted
               THEN Smaller(2 * (lock[ip].until - lock[ip].from), LockBase * MultMax)
               ELSE LockBase
  <2>1. PICK i \in IPs : Wrong(i)
    BY <1>1 DEF Next, vars, Admit, Refuse, NotWrong, Tick
  <2>2. i = ip
    BY <1>1, <2>1 DEF Wrong, Forget
  <2>. QED  BY <1>1, <2>1, <2>2, WrongFields
<1>2. IInv /\ [Next]_vars =>
        [\A ip \in IPs :
           LET Span(l) == l.until - l.from
               Twice == Smaller(2 * Span(lock[ip]), LockBase * MultMax)
               repeats == lock[ip] # NoLock /\ ip \notin Evicted
           IN lock'[ip] # lock[ip] /\ lock'[ip] # NoLock =>
                \/ repeats /\ Span(lock'[ip]) = Twice
                \/ ~(repeats /\ now - lock[ip].until <= ResetIdle) /\ Span(lock'[ip]) = LockBase]_vars
  BY <1>1
<1>. QED  BY <1>2, Invariant, PTL DEF Spec, RepeatDoubles

-----------------------------------------------------------------------------
(* The failures that count                                                 *)

\* Induction, for a set of numbers.
LEMMA NatSetInduction ==
  ASSUME NEW T, 0 \in T, \A n \in Nat : n \in T => n + 1 \in T
  PROVE  \A n \in Nat : n \in T
<1>. DEFINE S == {n \in Nat : n \notin T}
<1>1. SUFFICES ASSUME S # {}
               PROVE  FALSE
  OBVIOUS
<1>2. PICK n \in S : \A m \in S : <<m, n>> \notin OpToRel(<, Nat)
  BY <1>1, NatLessThanWellFounded, WFMin, Zenon
<1>3. \A m \in S : ~(m < n)
  BY <1>2, Zenon DEF OpToRel
<1>4. n # 0 /\ n - 1 \in Nat /\ n - 1 \notin S
  BY <1>3
<1>. QED  BY <1>4

\* What the filter makes of one more failure, and of those at the positions in p.
Filtered(kept, t) == IF now - t < LockBase THEN Append(kept, t) ELSE kept

FilterStep(g, h, p) == IF p = {} THEN <<>> ELSE Filtered(g[p \ {Max(p)}], h[Max(p)])

LEMMA RecentIsFold ==
  ASSUME NEW h
  PROVE  Recent(h) = (CHOOSE g : g = [p \in SUBSET DOMAIN h |-> FilterStep(g, h, p)])[DOMAIN h]
BY DEF Recent, FoldLeft, MapThenFoldSet, FilterStep, Filtered

LEMMA MaxOf ==
  ASSUME NEW n \in Nat, NEW p, n \in p, p \subseteq 1..n
  PROVE  Max(p) = n
<1>1. n \in p /\ \A y \in p : n >= y
  OBVIOUS
<1>2. \A x \in p : (\A y \in p : x >= y) => x = n
  OBVIOUS
<1>. QED  BY <1>1, <1>2 DEF Max

\* There is such a fold, and it gives times.
LEMMA FilterExists ==
  ASSUME NEW h
  PROVE  \A n \in Nat : \E g : g = [p \in SUBSET (1..n) |-> FilterStep(g, h, p)]
<1>. DEFINE T == {n \in Nat : \E g : g = [p \in SUBSET (1..n) |-> FilterStep(g, h, p)]}
<1>1. 0 \in T
  <2>. DEFINE g == [p \in SUBSET (1..0) |-> <<>>]
  <2>1. \A p \in SUBSET (1..0) : p = {} /\ FilterStep(g, h, p) = <<>>
    BY DEF FilterStep
  <2>2. g = [p \in SUBSET (1..0) |-> FilterStep(g, h, p)]
    BY <2>1
  <2>. QED  BY <2>2
<1>2. ASSUME NEW n \in Nat, n \in T
      PROVE  n + 1 \in T
  <2>1. PICK g : g = [p \in SUBSET (1..n) |-> FilterStep(g, h, p)]
    BY <1>2
  <2>. DEFINE f == [p \in SUBSET (1..(n + 1)) |->
                      IF n + 1 \in p THEN Filtered(g[p \ {n + 1}], h[n + 1]) ELSE g[p]]
  <2>2. ASSUME NEW p \in SUBSET (1..(n + 1))
        PROVE  f[p] = FilterStep(f, h, p)
    <3>1. CASE n + 1 \in p
      <4>1. Max(p) = n + 1
        <5>1. n + 1 \in Nat /\ p \subseteq 1..(n + 1)
          OBVIOUS
        <5>. QED  BY <3>1, <5>1, MaxOf
      <4>2. f[p \ {n + 1}] = g[p \ {n + 1}]
        OBVIOUS
      <4>. QED  BY <3>1, <4>1, <4>2 DEF FilterStep
    <3>2. CASE n + 1 \notin p
      <4>1. p \in SUBSET (1..n)
        BY <3>2
      <4>2. p \ {Max(p)} \in SUBSET (1..n) /\ n + 1 \notin p \ {Max(p)}
        BY <3>2, <4>1
      <4>3. f[p \ {Max(p)}] = g[p \ {Max(p)}] /\ f[p] = g[p]
        BY <3>2, <4>2
      <4>4. g[p] = FilterStep(g, h, p)
        BY <2>1, <4>1
      <4>. QED  BY <4>3, <4>4 DEF FilterStep
    <3>. QED  BY <3>1, <3>2
  <2>3. f = [p \in SUBSET (1..(n + 1)) |-> FilterStep(f, h, p)]
    BY <2>2
  <2>. HIDE DEF f
  <2>4. \E k : k = [p \in SUBSET (1..(n + 1)) |-> FilterStep(k, h, p)]
    BY <2>3
  <2>. QED  BY <2>4
<1>3. \A n \in Nat : n \in T => n + 1 \in T
  BY <1>2
<1>4. \A n \in Nat : n \in T
  <2>. HIDE DEF T
  <2>. QED  BY <1>1, <1>3, NatSetInduction
<1>. QED  BY <1>4

LEMMA RecentTypes ==
  ASSUME NEW h \in Seq(Nat)
  PROVE  Recent(h) \in Seq(Nat)
<1>. DEFINE n == Len(h)
            g == CHOOSE g : g = [p \in SUBSET (1..n) |-> FilterStep(g, h, p)]
            T == {k \in Nat : k <= n => g[1..k] \in Seq(Nat)}
<1>1. n \in Nat /\ DOMAIN h = 1..n
  OBVIOUS
<1>2. g = [p \in SUBSET (1..n) |-> FilterStep(g, h, p)]
  BY <1>1, FilterExists
<1>3. g[1..n] = Recent(h)
  BY <1>1, RecentIsFold
<1>. HIDE DEF g
<1>4. 0 \in T
  <2>1. 1..0 \in SUBSET (1..n) /\ 1..0 = {}
    OBVIOUS
  <2>2. g[1..0] = <<>>
    BY <1>2, <2>1 DEF FilterStep
  <2>3. <<>> \in Seq(Nat)
    OBVIOUS
  <2>. QED  BY <2>2, <2>3
<1>5. ASSUME NEW k \in Nat, k \in T, k + 1 <= n
      PROVE  g[1..(k + 1)] \in Seq(Nat)
  <2>1. Max(1..(k + 1)) = k + 1
    <3>. PICK p : p = 1..(k + 1)
      OBVIOUS
    <3>1. k + 1 \in Nat /\ k + 1 \in p
      OBVIOUS
    <3>. QED  BY <3>1, MaxOf
  <2>2. (1..(k + 1)) \ {k + 1} = 1..k
    OBVIOUS
  <2>3. 1..(k + 1) \in SUBSET (1..n)
    BY <1>1, <1>5
  <2>4. 1..(k + 1) # {}
    <3>1. k + 1 \in 1..(k + 1)
      OBVIOUS
    <3>. QED  BY <3>1, Zenon
  <2>5. g[1..(k + 1)] = Filtered(g[1..k], h[k + 1])
    BY <1>2, <2>1, <2>2, <2>3, <2>4 DEF FilterStep
  <2>6. g[1..k] \in Seq(Nat) /\ h[k + 1] \in Nat
    BY <1>1, <1>5
  <2>. QED  BY <2>5, <2>6 DEF Filtered
<1>6. \A k \in Nat : k \in T
  <2>1. \A k \in Nat : k \in T => k + 1 \in T
    BY <1>5
  <2>. HIDE DEF T
  <2>. QED  BY <1>4, <2>1, NatSetInduction
<1>7. n \in T
  BY <1>1, <1>6
<1>. QED  BY <1>3, <1>7

-----------------------------------------------------------------------------
(* The order of the Map                                                    *)

\* r lists what s lists, each once, but for e.
Without(s, e, r) ==
  /\ r \in Seq(IPs) /\ IsInjective(r) /\ Len(r) <= Len(s)
  /\ ToSet(r) = ToSet(s) \ {e}

\* r is s without its position i.
Skips(s, i, r) ==
  /\ r \in Seq(IPs) /\ Len(r) = Len(s) - 1
  /\ \A j \in 1..(i - 1) : r[j] = s[j]
  /\ \A j \in (i + 1)..Len(s) : r[j - 1] = s[j]

LEMMA RemoveAtSkips ==
  ASSUME NEW s \in Seq(IPs), NEW i \in 1..Len(s)
  PROVE  Skips(s, i, RemoveAt(s, i))
<1>1. PICK a : a = SubSeq(s, 1, i - 1)
  OBVIOUS
<1>2. PICK b : b = SubSeq(s, i + 1, Len(s))
  OBVIOUS
<1>3. PICK n \in Nat : n = Len(s)
  OBVIOUS
<1>4. a \in Seq(IPs) /\ Len(a) = i - 1 /\ \A j \in 1..(i - 1) : a[j] = s[j]
  BY <1>1, <1>3
<1>5. b \in Seq(IPs) /\ Len(b) = n - i /\ \A j \in 1..(n - i) : b[j] = s[i + j]
  BY <1>2, <1>3
<1>6. PICK r : r = a \o b
  OBVIOUS
<1>7. r \in Seq(IPs) /\ Len(r) = Len(a) + Len(b)
  <2>1. a \in Seq(IPs) /\ b \in Seq(IPs)
    BY <1>4, <1>5
  <2>. QED  BY <1>6, <2>1
<1>8. ASSUME NEW j \in 1..(i - 1)
      PROVE  r[j] = s[j]
  BY <1>3, <1>4, <1>5, <1>6
<1>9. ASSUME NEW j \in (i + 1)..n
      PROVE  r[j - 1] = s[j]
  <2>1. j - i \in 1..(n - i) /\ i + (j - i) = j /\ Len(a) + (j - i) = j - 1
    BY <1>3, <1>4
  <2>2. r[Len(a) + (j - i)] = b[j - i]
    BY <1>3, <1>4, <1>5, <1>6, <2>1
  <2>. QED  BY <1>5, <2>1, <2>2
<1>10. RemoveAt(s, i) = r
  BY <1>1, <1>2, <1>6 DEF RemoveAt
<1>11. Len(r) = Len(s) - 1
  BY <1>3, <1>4, <1>5, <1>7
<1>12. Skips(s, i, r)
  BY <1>3, <1>7, <1>8, <1>9, <1>11 DEF Skips
<1>. QED  BY <1>10, <1>12

LEMMA SkipsFields ==
  ASSUME NEW s, s \in Seq(IPs), IsInjective(s), NEW i, i \in 1..Len(s), NEW r, Skips(s, i, r)
  PROVE  Without(s, s[i], r)
<1>1. PICK n \in Nat : n = Len(s)
  OBVIOUS
<1>2. \A j, k \in 1..n : s[j] = s[k] => j = k
  BY <1>1 DEF IsInjective
<1>3. /\ r \in Seq(IPs) /\ DOMAIN r = 1..(n - 1) /\ Len(r) = n - 1 /\ n - 1 \in Nat
      /\ DOMAIN s = 1..n /\ i \in 1..n
  BY <1>1 DEF Skips
<1>4. ASSUME NEW j \in 1..(n - 1)
      PROVE  \E k \in 1..n : k # i /\ r[j] = s[k] /\ (j < i => k = j) /\ (j >= i => k = j + 1)
  <2>1. CASE j < i
    <3>1. j \in 1..(i - 1) /\ j \in 1..n
      BY <1>1, <1>3, <2>1
    <3>. QED  BY <2>1, <3>1 DEF Skips
  <2>2. CASE j >= i
    <3>1. j + 1 \in (i + 1)..n /\ j + 1 \in 1..n /\ (j + 1) - 1 = j
      BY <1>1, <1>3, <2>2
    <3>2. r[(j + 1) - 1] = s[j + 1]
      BY <1>1, <3>1 DEF Skips
    <3>. QED  BY <1>3, <2>2, <3>1, <3>2
  <2>. QED  BY <1>3, <2>1, <2>2
<1>5. ASSUME NEW j \in 1..(n - 1), NEW k \in 1..(n - 1), r[j] = r[k]
      PROVE  j = k
  <2>1. PICK x \in 1..n : x # i /\ r[j] = s[x] /\ (j < i => x = j) /\ (j >= i => x = j + 1)
    BY <1>4
  <2>2. PICK y \in 1..n : y # i /\ r[k] = s[y] /\ (k < i => y = k) /\ (k >= i => y = k + 1)
    BY <1>4
  <2>3. x = y
    BY <1>2, <1>5, <2>1, <2>2
  <2>. QED  BY <1>3, <2>1, <2>2, <2>3
<1>6. IsInjective(r)
  BY <1>3, <1>5 DEF IsInjective
<1>7. ASSUME NEW x \in ToSet(r)
      PROVE  x \in ToSet(s) \ {s[i]}
  <2>1. PICK j \in 1..(n - 1) : x = r[j]
    BY <1>3, <1>7 DEF ToSet
  <2>2. PICK k \in 1..n : k # i /\ x = s[k]
    BY <1>4, <2>1
  <2>3. x # s[i]
    BY <1>2, <1>3, <2>2
  <2>. QED  BY <1>3, <2>2, <2>3 DEF ToSet
<1>8. ASSUME NEW x \in ToSet(s), x # s[i]
      PROVE  x \in ToSet(r)
  <2>1. PICK k \in 1..n : x = s[k]
    BY <1>3, <1>8 DEF ToSet
  <2>2. k # i
    BY <1>8, <2>1
  <2>3. \E j \in 1..(n - 1) : x = r[j]
    <3>1. CASE k < i
      <4>1. k \in 1..(i - 1) /\ k \in 1..(n - 1)
        BY <1>3, <3>1
      <4>. QED  BY <2>1, <4>1 DEF Skips
    <3>2. CASE k > i
      <4>1. k \in (i + 1)..n /\ k - 1 \in 1..(n - 1)
        BY <1>3, <3>2
      <4>. QED  BY <1>1, <2>1, <4>1 DEF Skips
    <3>. QED  BY <1>3, <2>2, <3>1, <3>2
  <2>. QED  BY <1>3, <2>3 DEF ToSet
<1>. QED  BY <1>1, <1>3, <1>6, <1>7, <1>8 DEF Without

LEMMA RemoveFirstFields ==
  ASSUME NEW s, s \in Seq(IPs), IsInjective(s), NEW e
  PROVE  Without(s, e, RemoveFirst(s, e))
<1>1. CASE ~\E i \in 1..Len(s) : s[i] = e
  <2>1. RemoveFirst(s, e) = s
    BY <1>1 DEF RemoveFirst
  <2>2. e \notin ToSet(s)
    BY <1>1 DEF ToSet
  <2>. QED  BY <2>1, <2>2 DEF Without
<1>2. CASE \E i \in 1..Len(s) : s[i] = e
  <2>1. PICK i \in 1..Len(s) : s[i] = e
    BY <1>2
  <2>. DEFINE I == {j \in 1..Len(s) : s[j] = e}
  <2>2. I = {i}
    BY <2>1 DEF IsInjective
  <2>3. SelectInSeq(s, LAMBDA v : v = e) = Min(I)
    BY <2>2 DEF SelectInSeq
  <2>4. Min({i}) = i
    BY <2>1 DEF Min
  <2>5. RemoveFirst(s, e) = RemoveAt(s, i)
    BY <1>2, <2>2, <2>3, <2>4 DEF RemoveFirst
  <2>. HIDE DEF I
  <2>6. Skips(s, i, RemoveFirst(s, e))
    BY <2>5, RemoveAtSkips
  <2>. QED  BY <2>1, <2>6, SkipsFields
<1>. QED  BY <1>1, <1>2

\* What a failure leaves of the Map before its client comes (back) in.
Spared == SubSeq(order, Dropped + 1, Len(order))

LEMMA SparedFields ==
  ASSUME TypeOK
  PROVE  /\ Spared \in Seq(IPs) /\ IsInjective(Spared) /\ Len(Spared) <= MapMax - 1
         /\ ToSet(Spared) = ToSet(order) \ Evicted
         /\ Evicted # {} => Len(order) = MapMax /\ Evicted = {Head(order)}
<1>1. order \in Seq(IPs) /\ Len(order) \in Nat /\ Len(order) <= MapMax /\ IsInjective(order)
  BY DEF TypeOK
<1>2. CASE Len(order) = MapMax
  <2>1. Dropped = 1 /\ 1 \in 1..Len(order)
    BY <1>1, <1>2 DEF Dropped
  <2>2. Head(order) = order[1]
    BY <1>1, <2>1
  <2>3. Evicted = {order[1]}
    <3>1. PICK d : d = SubSeq(order, 1, 1)
      OBVIOUS
    <3>2. Len(d) = 1 /\ d[1] = order[1] /\ DOMAIN d = 1..1
      BY <1>1, <2>1, <3>1
    <3>3. ToSet(d) = {order[1]}
      BY <3>2 DEF ToSet
    <3>. QED  BY <2>1, <3>1, <3>3 DEF Evicted
  <2>4. PICK s : s = SubSeq(order, 2, Len(order))
    OBVIOUS
  <2>5. /\ s \in Seq(IPs) /\ Len(s) = Len(order) - 1
        /\ \A j \in 2..Len(order) : s[j - 1] = order[j]
    BY <1>1, <1>2, <2>4
  <2>6. Skips(order, 1, s)
    BY <2>5 DEF Skips
  <2>7. Without(order, order[1], s)
    BY <1>1, <2>1, <2>6, SkipsFields
  <2>8. Spared = s
    BY <2>1, <2>4 DEF Spared
  <2>. QED  BY <1>1, <1>2, <2>2, <2>3, <2>5, <2>7, <2>8 DEF Without
<1>3. CASE Len(order) # MapMax
  <2>1. Dropped = 0
    BY <1>1, <1>3 DEF Dropped
  <2>2. SubSeq(order, 1, 0) = <<>>
    BY <1>1
  <2>3. Evicted = {}
    BY <2>1, <2>2 DEF Evicted, ToSet
  <2>4. Spared = order
    BY <1>1, <2>1 DEF Spared
  <2>. QED  BY <1>1, <1>3, <2>3, <2>4
<1>. QED  BY <1>2, <1>3

-----------------------------------------------------------------------------
(* The types                                                               *)

LEMMA SettledTypes ==
  ASSUME now \in Nat, NEW row \in Row
  PROVE  /\ Settled(row) \in Row /\ NewRow \in Row
         /\ Settled(NewRow) = NewRow /\ ~Cooled(Unlocked(NewRow))
         /\ Cooled(Unlocked(row)) => Settled(row) = NewRow
<1>1. NewRow \in Row
  BY DEF NewRow, Row
<1>2. Unlocked(row) \in Row
  <2>. PICK q : q = [row EXCEPT !.coolSince = row.lockedUntil, !.lockedUntil = 0, !.hits = <<>>]
    OBVIOUS
  <2>1. <<>> \in Seq(Nat)
    OBVIOUS
  <2>2. q \in Row
    BY <2>1 DEF Row
  <2>. QED  BY <2>2 DEF Unlocked
<1>3. Unlocked(NewRow) = NewRow /\ ~Cooled(NewRow)
  BY DEF Unlocked, NewRow, Cooled
<1>. QED  BY <1>1, <1>2, <1>3 DEF Settled

LEMMA CountedTypes ==
  ASSUME now \in Nat, NEW row \in Row
  PROVE  Counted(row) \in Row
<1>. DEFINE r == Append(Recent(row.hits), now)
<1>1. r \in Seq(Nat)
  BY RecentTypes DEF Row
<1>2. Counted(row) = IF Len(r) < MaxAttempts THEN [row EXCEPT !.hits = r]
                     ELSE [hits |-> <<>>, lockedUntil |-> now + LockBase * row.mult,
                           mult |-> Smaller(row.mult * 2, MultMax), coolSince |-> 0]
  BY DEF Counted
<1>. HIDE DEF r
<1>3. [row EXCEPT !.hits = r] \in Row
  BY <1>1 DEF Row
<1>4. now + LockBase * row.mult \in Nat /\ Smaller(row.mult * 2, MultMax) \in Nat
  BY DEF Row, Smaller
<1>. QED  BY <1>2, <1>3, <1>4 DEF Row

LEMMA InitTypes == Init => TypeOK
<1>. SUFFICES ASSUME Init
              PROVE  TypeOK
  OBVIOUS
<1>1. NewRow \in Row /\ NoLock \in [from : Nat, until : Nat]
  BY DEF NewRow, Row, NoLock
<1>2. order \in Seq(IPs) /\ Len(order) <= MapMax /\ IsInjective(order)
  BY DEF Init, IsInjective
<1>. QED  BY <1>1, <1>2 DEF Init, TypeOK

LEMMA SettleTypes ==
  ASSUME TypeOK, NEW ip \in IPs, Settle(ip)
  PROVE  /\ rows' \in [IPs -> Row]
         /\ order' \in Seq(IPs) /\ Len(order') <= MapMax /\ IsInjective(order')
         /\ \A i \in IPs : i \notin ToSet(order') => rows'[i] = NewRow
<1>1. /\ rows \in [IPs -> Row] /\ now \in Nat
      /\ order \in Seq(IPs) /\ Len(order) <= MapMax /\ IsInjective(order)
      /\ \A i \in IPs : i \notin ToSet(order) => rows[i] = NewRow
  BY DEF TypeOK
<1>. PICK row : row = Settled(rows[ip])
  OBVIOUS
<1>2. /\ row \in Row
      /\ rows[ip] = NewRow => row = NewRow
      /\ Cooled(Unlocked(rows[ip])) => row = NewRow
  BY <1>1, SettledTypes
<1>3. /\ rows' \in [IPs -> Row] /\ rows'[ip] = row
      /\ \A i \in IPs : i # ip => rows'[i] = rows[i]
  BY <1>1, <1>2 DEF Settle
<1>4. CASE Cooled(Unlocked(rows[ip]))
  <2>1. Without(order, ip, order')
    BY <1>1, <1>4, RemoveFirstFields DEF Settle
  <2>2. /\ order' \in Seq(IPs) /\ IsInjective(order') /\ Len(order') <= Len(order)
        /\ ToSet(order') = ToSet(order) \ {ip}
    BY <2>1 DEF Without
  <2>. QED  BY <1>1, <1>2, <1>3, <1>4, <2>2
<1>5. CASE ~Cooled(Unlocked(rows[ip]))
  <2>1. order' = order
    BY <1>5 DEF Settle
  <2>. QED  BY <1>1, <1>2, <1>3, <2>1
<1>. QED  BY <1>4, <1>5

LEMMA WrongTypes ==
  ASSUME TypeOK, NEW ip \in IPs, Wrong(ip)
  PROVE  TypeOK'
<1>. PICK old : old = IF ip \in Evicted THEN NewRow ELSE rows[ip]
  OBVIOUS
<1>. PICK row : row = Settled(old)
  OBVIOUS
<1>. PICK new : new = IF Locked(row) THEN row ELSE Counted(row)
  OBVIOUS
<1>. PICK kept : kept = Spared
  OBVIOUS
<1>1. /\ rows \in [IPs -> Row] /\ now \in Nat /\ inFlight \in [IPs -> Nat]
      /\ lock \in [IPs -> [from : Nat, until : Nat]]
      /\ \A i \in IPs : i \notin ToSet(order) => rows[i] = NewRow
  BY DEF TypeOK
<1>2. old \in Row /\ NewRow \in Row
  BY <1>1 DEF NewRow, Row
<1>3. row \in Row
  BY <1>1, <1>2, SettledTypes
<1>4. new \in Row
  BY <1>1, <1>3, CountedTypes
<1>5. /\ rows' = [i \in IPs |-> IF i = ip THEN new ELSE IF i \in Evicted THEN NewRow ELSE rows[i]]
      /\ lock' = [i \in IPs |-> IF i = ip
                                THEN IF ~Locked(row) /\ Locked(new)
                                     THEN [from |-> now, until |-> new.lockedUntil]
                                     ELSE IF ip \in Evicted THEN NoLock ELSE lock[ip]
                                ELSE IF i \in Evicted THEN NoLock ELSE lock[i]]
  BY DEF Wrong, Forget
<1>6. /\ order' = IF Cooled(Unlocked(old)) \/ ip \notin ToSet(kept)
                  THEN Append(RemoveFirst(kept, ip), ip) ELSE kept
      /\ inFlight[ip] > 0 /\ inFlight' = [inFlight EXCEPT ![ip] = @ - 1] /\ now' = now
  BY DEF Wrong, Spared
<1>7. rows' \in [IPs -> Row]
  BY <1>1, <1>2, <1>4, <1>5
<1>8. lock' \in [IPs -> [from : Nat, until : Nat]]
  <2>1. [from |-> now, until |-> new.lockedUntil] \in [from : Nat, until : Nat]
    BY <1>1, <1>4 DEF Row
  <2>2. NoLock \in [from : Nat, until : Nat]
    BY DEF NoLock
  <2>. QED  BY <1>1, <1>5, <2>1, <2>2
<1>9. inFlight' \in [IPs -> Nat]
  BY <1>1, <1>6
<1>10. /\ kept \in Seq(IPs) /\ IsInjective(kept) /\ Len(kept) <= MapMax - 1 /\ Len(kept) \in Nat
       /\ ToSet(kept) = ToSet(order) \ Evicted
  BY SparedFields
<1>11. /\ order' \in Seq(IPs) /\ Len(order') <= MapMax /\ IsInjective(order')
       /\ ToSet(order') = ToSet(kept) \cup {ip}
  <2>1. CASE Cooled(Unlocked(old)) \/ ip \notin ToSet(kept)
    <3>. PICK s : s = RemoveFirst(kept, ip)
      OBVIOUS
    <3>1. Without(kept, ip, s)
      BY <1>10, RemoveFirstFields
    <3>2. /\ s \in Seq(IPs) /\ IsInjective(s) /\ Len(s) <= Len(kept) /\ Len(s) \in Nat
          /\ ToSet(s) = ToSet(kept) \ {ip}
      BY <3>1 DEF Without
    <3>3. /\ order' = Append(s, ip) /\ order' \in Seq(IPs) /\ Len(order') = Len(s) + 1
          /\ \A i \in 1..Len(s) : order'[i] = s[i]
          /\ order'[Len(s) + 1] = ip
      BY <1>6, <2>1, <3>2
    <3>4. \A i \in 1..Len(s) : s[i] # ip
      BY <3>2 DEF ToSet
    <3>5. IsInjective(order')
      BY <3>2, <3>3, <3>4 DEF IsInjective
    <3>6. ToSet(order') = ToSet(s) \cup {ip}
      BY <3>2, <3>3 DEF ToSet
    <3>. QED  BY <1>10, <3>2, <3>3, <3>5, <3>6
  <2>2. CASE ~(Cooled(Unlocked(old)) \/ ip \notin ToSet(kept))
    BY <1>6, <1>10, <2>2
  <2>. QED  BY <2>1, <2>2
<1>12. \A i \in IPs : i \notin ToSet(order') => rows'[i] = NewRow
  BY <1>1, <1>5, <1>10, <1>11
<1>. QED  BY <1>1, <1>6, <1>7, <1>8, <1>9, <1>11, <1>12 DEF TypeOK

LEMMA NextTypes == TypeOK /\ [Next]_vars => TypeOK'
<1>. SUFFICES ASSUME TypeOK, [Next]_vars
              PROVE  TypeOK'
  OBVIOUS
<1>1. ASSUME NEW ip \in IPs, Admit(ip)
      PROVE  TypeOK'
  <2>1. inFlight' \in [IPs -> Nat] /\ now' \in Nat /\ lock' \in [IPs -> [from : Nat, until : Nat]]
    BY <1>1 DEF Admit, TypeOK
  <2>. QED  BY <1>1, <2>1, SettleTypes DEF Admit, TypeOK
<1>2. ASSUME NEW ip \in IPs, Refuse(ip)
      PROVE  TypeOK'
  <2>1. inFlight' \in [IPs -> Nat] /\ now' \in Nat /\ lock' \in [IPs -> [from : Nat, until : Nat]]
    BY <1>2 DEF Refuse, TypeOK
  <2>. QED  BY <1>2, <2>1, SettleTypes DEF Refuse, TypeOK
<1>3. ASSUME NEW ip \in IPs, NotWrong(ip)
      PROVE  TypeOK'
  <2>1. inFlight' \in [IPs -> Nat]
    BY <1>3 DEF NotWrong, TypeOK
  <2>. QED  BY <1>3, <2>1 DEF NotWrong, TypeOK
<1>4. ASSUME NEW ip \in IPs, Wrong(ip)
      PROVE  TypeOK'
  BY <1>4, WrongTypes
<1>5. CASE Tick
  BY <1>5 DEF Tick, TypeOK
<1>6. CASE UNCHANGED vars
  BY <1>6 DEF vars, TypeOK
<1>. QED  BY <1>1, <1>2, <1>3, <1>4, <1>5, <1>6 DEF Next

\* The state keeps its types: the Map never outgrows mapMax and lists no key twice,
\* and a client it does not list has nothing held against it.
THEOREM TypeCorrect == Spec => []TypeOK
<1>. QED  BY InitTypes, NextTypes, PTL DEF Spec

\* A lock in force is lost only when recordFailure() drops the oldest key of a full
\* Map: neither time, nor settle(), nor a failure judged after the lock fell ends it.
THEOREM LostOnlyToEviction == Spec => LockLostOnlyWhenFull
<1>1. ASSUME IInv, TypeOK, [Next]_vars, NEW ip \in IPs, lock[ip].until > now, lock'[ip] # lock[ip]
      PROVE  Len(order) = MapMax /\ ip = Head(order)
  <2>1. PICK i \in IPs : Wrong(i)
    BY <1>1 DEF Next, vars, Admit, Refuse, NotWrong, Tick
  <2>2. ip \in Evicted
    <3>1. SUFFICES ASSUME ip \notin Evicted
                   PROVE  FALSE
      OBVIOUS
    <3>2. i = ip
      BY <1>1, <2>1, <3>1 DEF Wrong, Forget
    <3>. PICK row : row = rows[ip]
      OBVIOUS
    <3>3. row.lockedUntil = lock[ip].until /\ row.coolSince = 0 /\ now \in Nat \ {0}
      <4>1. /\ now \in Nat \ {0} /\ lock[ip].until \in Nat /\ Agrees(row, lock[ip])
            /\ NoLock.until = 0
        BY <1>1 DEF IInv, Lock, NoLock
      <4>. QED  BY <1>1, <4>1 DEF Agrees
    <3>4. lock[ip].until \in Nat
      BY <1>1 DEF IInv, Lock
    <3>5. Settled(row) = row /\ Locked(row)
      BY <1>1, <3>3, <3>4 DEF Settled, Unlocked, Cooled, Locked
    <3>6. lock'[ip] = lock[ip]
      BY <2>1, <3>1, <3>2, <3>5 DEF Wrong, Forget
    <3>. QED  BY <1>1, <3>6
  <2>. QED  BY <1>1, <2>2, SparedFields
<1>2. IInv /\ TypeOK /\ [Next]_vars =>
        [\A ip \in IPs : lock[ip].until > now /\ lock'[ip] # lock[ip] =>
           Len(order) = MapMax /\ ip = Head(order)]_vars
  BY <1>1
<1>. QED  BY <1>2, Invariant, TypeCorrect, PTL DEF Spec, LockLostOnlyWhenFull
=============================================================================
