------------------------- MODULE SessionStoreProofs -------------------------
(***************************************************************************)
(* Proofs about SessionStore, for every number of tokens, every set of     *)
(* entries, every TTL and every bound: the invariant IInv is inductive,    *)
(* hence the types and Mirrors hold; from it, no session that ended comes  *)
(* back, and the store implements the table of SessionTable.               *)
(***************************************************************************)
EXTENDS SessionStore, FiniteSetTheorems, TLAPS, WellFoundedInduction

USE StoreAssumption

-----------------------------------------------------------------------------
(* What a file says                                                        *)

LEMMA LineTypes ==
  /\ Gone \in Session
  /\ Garbage \in Line
  /\ PurgeLine \in Line
  /\ \A t \in Tokens : RevokeLine(t) \in Line
  /\ \A t \in Tokens, s \in Session : IssueLine(t, s) \in Line
  /\ Garbage.op = "garbage" /\ PurgeLine.op = "purge"
BY DEF Gone, Session, Garbage, PurgeLine, RevokeLine, IssueLine, Line, Ops

LEMMA LineFields ==
  ASSUME NEW f \in Seq(Line), NEW i \in 1..Len(f)
  PROVE  f[i] \in Line /\ f[i].sess \in Session /\ f[i].sess.exp \in Nat
<1>1. f[i] \in Line
  OBVIOUS
<1>. QED  BY <1>1 DEF Line, Session

\* The last word on a token is unique: it is what reading the file gives.
LEMMA LoadedDecided ==
  ASSUME NEW f \in Seq(Line), NEW t \in Tokens, NEW m \in Int,
         NEW i \in 1..Len(f), Decides(f, t, m, i)
  PROVE  Loaded(f, t, m) = f[i].sess
<1>1. \A j \in 1..Len(f) : Decides(f, t, m, j) => j = i
  <2>1. SUFFICES ASSUME NEW j \in 1..Len(f), Decides(f, t, m, j), j # i
                 PROVE  FALSE
    OBVIOUS
  <2>2. CASE j < i
    BY <2>1, <2>2 DEF Decides
  <2>3. CASE i < j
    BY <2>1, <2>3 DEF Decides
  <2>. QED  BY <2>1, <2>2, <2>3
<1>2. i = CHOOSE j \in 1..Len(f) : Decides(f, t, m, j)
  BY <1>1
<1>. QED  BY <1>2 DEF Loaded

LEMMA LoadedNone ==
  ASSUME NEW f \in Seq(Line), NEW t \in Tokens, NEW m \in Int,
         \A i \in 1..Len(f) : ~Decides(f, t, m, i)
  PROVE  Loaded(f, t, m) = Gone
BY DEF Loaded

\* Whatever is read comes from an issue line of the token and is not over.
LEMMA LoadedFrom ==
  ASSUME NEW f \in Seq(Line), NEW t \in Tokens, NEW m \in Int
  PROVE  /\ Loaded(f, t, m) \in Session
         /\ Loaded(f, t, m) = Gone
            \/ \E i \in 1..Len(f) : /\ Decides(f, t, m, i)
                                    /\ Loaded(f, t, m) = f[i].sess
                                    /\ f[i].op = "issue" /\ f[i].token = t
                                    /\ f[i].sess.exp > m
<1>1. CASE \E i \in 1..Len(f) : Decides(f, t, m, i)
  <2>1. PICK i \in 1..Len(f) : Decides(f, t, m, i)
    BY <1>1
  <2>2. Loaded(f, t, m) = f[i].sess
    BY <2>1, LoadedDecided
  <2>3. f[i] \in Line
    OBVIOUS
  <2>. QED  BY <2>1, <2>2, <2>3 DEF Decides, Grants, Line
<1>2. CASE ~\E i \in 1..Len(f) : Decides(f, t, m, i)
  BY <1>2, LineTypes DEF Loaded
<1>. QED  BY <1>1, <1>2

\* One more line does to what is read exactly what the loop of _load does.
LEMMA LoadedAppend ==
  ASSUME NEW f \in Seq(Line), NEW ln \in Line, NEW t \in Tokens, NEW m \in Int
  PROVE  Loaded(Append(f, ln), t, m) =
           IF Grants(ln, t, m) THEN ln.sess
           ELSE IF Kills(ln, t) THEN Gone ELSE Loaded(f, t, m)
<1>. DEFINE n == Len(f)
            g == Append(f, ln)
<1>1. /\ g \in Seq(Line)
      /\ n \in Nat
      /\ Len(g) = n + 1
      /\ g[n + 1] = ln
      /\ \A i \in 1..n : g[i] = f[i]
  OBVIOUS
<1>. HIDE DEF g
<1>2. \A i \in 1..n : Decides(g, t, m, i) <=>
                        Decides(f, t, m, i) /\ ~Grants(ln, t, m) /\ ~Kills(ln, t)
  <2>. SUFFICES ASSUME NEW i \in 1..n
                PROVE  Decides(g, t, m, i) <=>
                         Decides(f, t, m, i) /\ ~Grants(ln, t, m) /\ ~Kills(ln, t)
    OBVIOUS
  <2>1. (i + 1)..Len(g) = ((i + 1)..n) \cup {n + 1}
    BY <1>1
  <2>. QED  BY <1>1, <2>1 DEF Decides
<1>3. Decides(g, t, m, n + 1) <=> Grants(ln, t, m)
  BY <1>1 DEF Decides
<1>4. CASE Grants(ln, t, m)
  <2>1. n + 1 \in 1..Len(g)
    BY <1>1
  <2>2. Loaded(g, t, m) = ln.sess
    BY <1>1, <1>3, <1>4, <2>1, LoadedDecided
  <2>. QED  BY <1>4, <2>2 DEF g
<1>5. CASE ~Grants(ln, t, m) /\ Kills(ln, t)
  <2>1. \A i \in 1..Len(g) : ~Decides(g, t, m, i)
    BY <1>1, <1>2, <1>3, <1>5
  <2>2. Loaded(g, t, m) = Gone
    BY <1>1, <2>1, LoadedNone
  <2>. QED  BY <1>5, <2>2 DEF g
<1>6. CASE ~Grants(ln, t, m) /\ ~Kills(ln, t)
  <2>1. CASE \E i \in 1..n : Decides(f, t, m, i)
    <3>1. PICK i \in 1..n : Decides(f, t, m, i)
      BY <2>1
    <3>2. Decides(g, t, m, i) /\ i \in 1..Len(g)
      BY <1>1, <1>2, <1>6, <3>1
    <3>3. Loaded(g, t, m) = g[i].sess
      BY <1>1, <3>2, LoadedDecided
    <3>4. Loaded(f, t, m) = f[i].sess
      BY <3>1, LoadedDecided
    <3>. QED  BY <1>1, <1>6, <3>3, <3>4 DEF g
  <2>2. CASE ~\E i \in 1..n : Decides(f, t, m, i)
    <3>1. \A i \in 1..Len(g) : ~Decides(g, t, m, i)
      BY <1>1, <1>2, <1>3, <1>6, <2>2
    <3>2. Loaded(g, t, m) = Gone
      BY <1>1, <3>1, LoadedNone
    <3>3. Loaded(f, t, m) = Gone
      BY <2>2, LoadedNone
    <3>. QED  BY <1>6, <3>2, <3>3 DEF g
  <2>. QED  BY <2>1, <2>2
<1>. QED  BY <1>4, <1>5, <1>6

\* Reading later is reading now and forgetting what has expired since.
LEMMA LoadedLater ==
  ASSUME NEW f \in Seq(Line), NEW t \in Tokens, NEW m \in Nat, NEW k \in Nat, m <= k,
         NEW b, NEW c \in Int, LinesOK(f, b, c)
  PROVE  Loaded(f, t, k) = Alive(Loaded(f, t, m), k)
<1>0. \A i \in 1..Len(f) : f[i] \in Line /\ f[i].sess.exp \in Nat
  BY LineFields
<1>1. CASE \E i \in 1..Len(f) : Decides(f, t, m, i)
  <2>1. PICK i \in 1..Len(f) : Decides(f, t, m, i)
    BY <1>1
  <2>2. Loaded(f, t, m) = f[i].sess
    BY <2>1, LoadedDecided
  <2>3. CASE f[i].sess.exp > k
    <3>1. Decides(f, t, k, i)
      BY <1>0, <2>1, <2>3 DEF Decides, Grants
    <3>2. Loaded(f, t, k) = f[i].sess
      BY <3>1, LoadedDecided
    <3>. QED  BY <2>2, <2>3, <3>2 DEF Alive
  <2>4. CASE ~(f[i].sess.exp > k)
    <3>1. ASSUME NEW j \in 1..Len(f), Decides(f, t, k, j)
          PROVE  FALSE
      <4>1. Grants(f[j], t, k) /\ Grants(f[j], t, m)
        BY <1>0, <3>1 DEF Decides, Grants
      <4>2. CASE j < i
        BY <1>0, <2>1, <2>4, <4>1, <4>2 DEF Decides, Grants, LinesOK
      <4>3. CASE j = i
        BY <2>4, <4>1, <4>3 DEF Grants
      <4>4. CASE j > i
        BY <2>1, <4>1, <4>4 DEF Decides
      <4>. QED  BY <4>2, <4>3, <4>4
    <3>2. Loaded(f, t, k) = Gone
      BY <3>1, LoadedNone
    <3>. QED  BY <2>2, <2>4, <3>2 DEF Alive
  <2>. QED  BY <2>3, <2>4
<1>2. CASE ~\E i \in 1..Len(f) : Decides(f, t, m, i)
  <2>1. ASSUME NEW j \in 1..Len(f), Decides(f, t, k, j)
        PROVE  FALSE
    <3>1. Grants(f[j], t, m)
      BY <1>0, <2>1 DEF Decides, Grants
    <3>2. \A i \in (j + 1)..Len(f) : ~Kills(f[i], t)
      BY <2>1 DEF Decides
    <3>3. ASSUME NEW i \in (j + 1)..Len(f), Grants(f[i], t, m)
          PROVE  FALSE
      <4>1. f[i].sess.exp >= f[j].sess.exp
        BY <1>0, <3>1, <3>3 DEF LinesOK, Grants
      <4>2. Grants(f[i], t, k)
        BY <1>0, <2>1, <3>3, <4>1 DEF Decides, Grants
      <4>. QED  BY <2>1, <4>2 DEF Decides
    <3>4. Decides(f, t, m, j)
      BY <3>1, <3>2, <3>3 DEF Decides
    <3>. QED  BY <1>2, <3>4
  <2>2. Loaded(f, t, k) = Gone /\ Loaded(f, t, m) = Gone
    BY <1>2, <2>1, LoadedNone
  <2>. QED  BY <2>2 DEF Alive, Gone
<1>. QED  BY <1>1, <1>2

-----------------------------------------------------------------------------
(* The loop of _load                                                       *)

\* Induction, for a set of numbers.
LEMMA NatSetInduction ==
  ASSUME NEW T, 0 \in T, \A n \in Nat : n \in T => n + 1 \in T
  PROVE  \A n \in Nat : n \in T
<1>. DEFINE S == {n \in Nat : n \notin T}
<1>1. SUFFICES ASSUME S # {}
               PROVE  FALSE
  OBVIOUS
<1>2. PICK n \in S : \A m \in S : <<m, n>> \notin OpToRel(<, Nat)
  BY <1>1, NatLessThanWellFounded, WFMin, Zenon
<1>3. \A m \in S : ~(m < n)
  BY <1>2, Zenon DEF OpToRel
<1>4. n # 0 /\ n - 1 \in Nat /\ n - 1 \notin S
  BY <1>3
<1>. QED  BY <1>4

\* What the loop makes of one more line.
Read(map, ln, m) ==
  [t \in Tokens |-> IF Grants(ln, t, m) THEN ln.sess
                    ELSE IF Kills(ln, t) THEN Gone ELSE map[t]]

\* What it makes of the lines at the positions in p, when g has what it makes of fewer.
ReadStep(g, f, m, p) ==
  IF p = {} THEN [t \in Tokens |-> Gone] ELSE Read(g[p \ {Max(p)}], f[Max(p)], m)

LEMMA LoopIsFold ==
  ASSUME NEW f, NEW m
  PROVE  ReplayByLine(f, m) =
           (CHOOSE g : g = [p \in SUBSET DOMAIN f |-> ReadStep(g, f, m, p)])[DOMAIN f]
BY DEF ReplayByLine, FoldLeft, MapThenFoldSet, ReadStep, Read

LEMMA MaxOf ==
  ASSUME NEW n \in Nat, NEW p, n \in p, p \subseteq 1..n
  PROVE  Max(p) = n
<1>1. n \in p /\ \A y \in p : n >= y
  OBVIOUS
<1>2. \A x \in p : (\A y \in p : x >= y) => x = n
  OBVIOUS
<1>. QED  BY <1>1, <1>2 DEF Max

\* There is such a fold.
LEMMA LoopExists ==
  ASSUME NEW f, NEW m
  PROVE  \A n \in Nat : \E g : g = [p \in SUBSET (1..n) |-> ReadStep(g, f, m, p)]
<1>. DEFINE T == {n \in Nat : \E g : g = [p \in SUBSET (1..n) |-> ReadStep(g, f, m, p)]}
<1>1. 0 \in T
  <2>. DEFINE g == [p \in SUBSET (1..0) |-> [t \in Tokens |-> Gone]]
  <2>1. \A p \in SUBSET (1..0) : p = {} /\ ReadStep(g, f, m, p) = [t \in Tokens |-> Gone]
    BY DEF ReadStep
  <2>2. g = [p \in SUBSET (1..0) |-> ReadStep(g, f, m, p)]
    BY <2>1
  <2>. QED  BY <2>2
<1>2. ASSUME NEW n \in Nat, n \in T
      PROVE  n + 1 \in T
  <2>1. PICK g : g = [p \in SUBSET (1..n) |-> ReadStep(g, f, m, p)]
    BY <1>2
  <2>. DEFINE h == [p \in SUBSET (1..(n + 1)) |->
                      IF n + 1 \in p THEN Read(g[p \ {n + 1}], f[n + 1], m) ELSE g[p]]
  <2>2. ASSUME NEW p \in SUBSET (1..(n + 1))
        PROVE  h[p] = ReadStep(h, f, m, p)
    <3>1. CASE n + 1 \in p
      <4>1. Max(p) = n + 1
        <5>1. n + 1 \in Nat /\ p \subseteq 1..(n + 1)
          OBVIOUS
        <5>. QED  BY <3>1, <5>1, MaxOf
      <4>2. h[p \ {n + 1}] = g[p \ {n + 1}]
        OBVIOUS
      <4>. QED  BY <3>1, <4>1, <4>2 DEF ReadStep
    <3>2. CASE n + 1 \notin p
      <4>1. p \in SUBSET (1..n)
        BY <3>2
      <4>2. p \ {Max(p)} \in SUBSET (1..n) /\ n + 1 \notin p \ {Max(p)}
        BY <3>2, <4>1
      <4>3. h[p \ {Max(p)}] = g[p \ {Max(p)}] /\ h[p] = g[p]
        BY <3>2, <4>2
      <4>4. g[p] = ReadStep(g, f, m, p)
        BY <2>1, <4>1
      <4>. QED  BY <4>3, <4>4 DEF ReadStep
    <3>. QED  BY <3>1, <3>2
  <2>3. h = [p \in SUBSET (1..(n + 1)) |-> ReadStep(h, f, m, p)]
    BY <2>2
  <2>. HIDE DEF h
  <2>4. \E k : k = [p \in SUBSET (1..(n + 1)) |-> ReadStep(k, f, m, p)]
    BY <2>3
  <2>. QED  BY <2>4
<1>3. \A n \in Nat : n \in T => n + 1 \in T
  BY <1>2
<1>4. \A n \in Nat : n \in T
  <2>. HIDE DEF T
  <2>. QED  BY <1>1, <1>3, NatSetInduction
<1>. QED  BY <1>4

\* The loop goes through the lines one by one.
LEMMA LoopByOne ==
  ASSUME NEW f \in Seq(Line), NEW m
  PROVE  \E r : /\ r[0] = [t \in Tokens |-> Gone]
                /\ \A k \in 1..Len(f) : r[k] = Read(r[k - 1], f[k], m)
                /\ r[Len(f)] = ReplayByLine(f, m)
<1>. DEFINE n == Len(f)
            g == CHOOSE g : g = [p \in SUBSET (1..n) |-> ReadStep(g, f, m, p)]
            r == [k \in 0..n |-> g[1..k]]
<1>1. n \in Nat /\ DOMAIN f = 1..n
  OBVIOUS
<1>2. g = [p \in SUBSET (1..n) |-> ReadStep(g, f, m, p)]
  BY <1>1, LoopExists
<1>3. g[1..n] = ReplayByLine(f, m)
  BY <1>1, LoopIsFold
<1>. HIDE DEF g
<1>4. r[0] = [t \in Tokens |-> Gone]
  BY <1>1, <1>2 DEF ReadStep
<1>5. ASSUME NEW k \in 1..n
      PROVE  r[k] = Read(r[k - 1], f[k], m)
  <2>1. k \in Nat /\ k \in 1..k
    BY <1>1
  <2>2. Max(1..k) = k
    <3>. PICK p : p = 1..k
      OBVIOUS
    <3>. QED  BY <2>1, MaxOf
  <2>3. (1..k) \ {k} = 1..(k - 1)
    BY <2>1
  <2>4. 1..k \in SUBSET (1..n)
    BY <1>1
  <2>5. 1..k # {}
    BY <2>1
  <2>6. g[1..k] = Read(g[1..(k - 1)], f[k], m)
    BY <1>2, <2>2, <2>3, <2>4, <2>5 DEF ReadStep
  <2>. QED  BY <1>1, <2>6
<1>6. r[n] = ReplayByLine(f, m)
  BY <1>1, <1>3
<1>. QED  BY <1>4, <1>5, <1>6

\* The loop ends with what Replay reads in one go.
LEMMA LoopIsReplay ==
  ASSUME NEW f \in Seq(Line), NEW m \in Int
  PROVE  ReplayByLine(f, m) = Replay(f, m)
<1>1. PICK r : /\ r[0] = [t \in Tokens |-> Gone]
               /\ \A k \in 1..Len(f) : r[k] = Read(r[k - 1], f[k], m)
               /\ r[Len(f)] = ReplayByLine(f, m)
  BY LoopByOne
<1>. DEFINE T == {k \in Nat : k <= Len(f) => r[k] = Replay(SubSeq(f, 1, k), m)}
<1>2. 0 \in T
  <2>. PICK e : e = SubSeq(f, 1, 0)
    OBVIOUS
  <2>1. e = <<>> /\ e \in Seq(Line) /\ Len(e) = 0
    OBVIOUS
  <2>2. ASSUME NEW t \in Tokens
        PROVE  Loaded(e, t, m) = Gone
    <3>1. \A i \in 1..Len(e) : ~Decides(e, t, m, i)
      BY <2>1
    <3>. QED  BY <2>1, <3>1, LoadedNone
  <2>. QED  BY <1>1, <2>2 DEF Replay
<1>3. ASSUME NEW k \in Nat, k \in T, k + 1 <= Len(f)
      PROVE  r[k + 1] = Replay(SubSeq(f, 1, k + 1), m)
  <2>. PICK s : s = SubSeq(f, 1, k)
    OBVIOUS
  <2>1. s \in Seq(Line) /\ f[k + 1] \in Line
    BY <1>3
  <2>2. SubSeq(f, 1, k + 1) = Append(s, f[k + 1])
    BY <1>3
  <2>3. r[k + 1] = Read(Replay(s, m), f[k + 1], m)
    BY <1>1, <1>3
  <2>4. \A t \in Tokens : Loaded(Append(s, f[k + 1]), t, m) =
           IF Grants(f[k + 1], t, m) THEN f[k + 1].sess
           ELSE IF Kills(f[k + 1], t) THEN Gone ELSE Loaded(s, t, m)
    BY <2>1, LoadedAppend
  <2>. QED  BY <2>2, <2>3, <2>4 DEF Replay, Read
<1>4. \A k \in Nat : k \in T
  <2>1. \A k \in Nat : k \in T => k + 1 \in T
    BY <1>3
  <2>. HIDE DEF T
  <2>. QED  BY <1>2, <2>1, NatSetInduction
<1>5. r[Len(f)] = Replay(SubSeq(f, 1, Len(f)), m)
  BY <1>4
<1>6. SubSeq(f, 1, Len(f)) = f
  OBVIOUS
<1>. QED  BY <1>1, <1>5, <1>6

-----------------------------------------------------------------------------
(* What a compaction writes                                                *)

LEMMA TokensFinite == IsFiniteSet(Tokens)
BY FS_Interval DEF Tokens

\* SetToSeq lists a finite set, each element once.
LEMMA SetToSeqLists ==
  ASSUME NEW S, IsFiniteSet(S)
  PROVE  /\ SetToSeq(S) \in Seq(S)
         /\ \A i, j \in 1..Len(SetToSeq(S)) : SetToSeq(S)[i] = SetToSeq(S)[j] => i = j
         /\ \A x \in S : \E i \in 1..Len(SetToSeq(S)) : SetToSeq(S)[i] = x
<1>. DEFINE n == Cardinality(S)
            q == SetToSeq(S)
<1>1. n \in Nat /\ ExistsBijection(1..n, S)
  BY FS_CardinalityType
<1>2. \E f \in [1..n -> S] : IsInjective(f)
  BY <1>1 DEF ExistsBijection, Bijection, Injection
<1>3. q \in [1..n -> S] /\ IsInjective(q)
  BY <1>2 DEF SetToSeq
<1>4. q \in Injection(1..n, S)
  BY <1>3 DEF Injection
<1>5. Cardinality(1..n) = n
  BY <1>1, FS_Interval
<1>6. q \in Surjection(1..n, S)
  BY <1>4, <1>5, FS_Injection
<1>7. q \in Seq(S) /\ Len(q) = n
  BY <1>1, <1>3
<1>8. \A x \in S : \E i \in 1..n : q[i] = x
  BY <1>6 DEF Surjection
<1>9. \A i, j \in 1..n : q[i] = q[j] => i = j
  BY <1>3 DEF IsInjective
<1>. QED  BY <1>7, <1>8, <1>9

\* The rewritten file is a file, says of every token what the Map says, and
\* keeps the order of lines.
LEMMA SnapshotLoaded ==
  ASSUME NEW map \in [Tokens -> Session], NEW m \in Nat, NEW b, LiveOK(map, b, m)
  PROVE  /\ Snapshot(map, m) \in Seq(Line)
         /\ LinesOK(Snapshot(map, m), b, m)
         /\ \A t \in Tokens, k \in Nat :
              k >= m => Loaded(Snapshot(map, m), t, k) = Alive(map[t], k)
<1>. DEFINE S == {t \in Tokens : map[t].exp > m}
            kept == SetToSeq(S)
            f == Snapshot(map, m)
<1>1. IsFiniteSet(S)
  BY TokensFinite, FS_Subset
<1>2. /\ kept \in Seq(S)
      /\ \A i, j \in 1..Len(kept) : kept[i] = kept[j] => i = j
      /\ \A x \in S : \E i \in 1..Len(kept) : kept[i] = x
  BY <1>1, SetToSeqLists
<1>3. f = [i \in 1..Len(kept) |-> IssueLine(kept[i], map[kept[i]])]
  BY DEF Snapshot
<1>. HIDE DEF kept, f
<1>4. \A i \in 1..Len(kept) : /\ kept[i] \in S /\ kept[i] \in Tokens
                              /\ map[kept[i]] \in Session
                              /\ map[kept[i]].exp > m
  BY <1>2
<1>5. \A i \in 1..Len(kept) : IssueLine(kept[i], map[kept[i]]) \in Line
  BY <1>4, LineTypes
<1>6. f \in Seq(Line) /\ Len(f) = Len(kept)
  BY <1>2, <1>3, <1>5
<1>7. \A i \in 1..Len(f) : /\ f[i].op = "issue" /\ f[i].token = kept[i]
                           /\ f[i].sess = map[kept[i]]
  BY <1>3, <1>6 DEF IssueLine
<1>8. LinesOK(f, b, m)
  <2>1. \A i \in 1..Len(f) : map[kept[i]] # Gone
    BY <1>4, <1>6 DEF Gone
  <2>2. \A i, j \in 1..Len(f) : i < j => f[i].token # f[j].token
    BY <1>2, <1>6, <1>7
  <2>. QED  BY <1>4, <1>6, <1>7, <2>1, <2>2 DEF LinesOK, LiveOK
<1>9. ASSUME NEW t \in Tokens, NEW k \in Nat, k >= m
      PROVE  Loaded(f, t, k) = Alive(map[t], k)
  <2>0. map[t] \in Session /\ map[t].exp \in Nat
    BY DEF Session
  <2>1. CASE map[t].exp > k
    <3>1. t \in S
      BY <1>9, <2>0, <2>1
    <3>2. PICK i \in 1..Len(f) : kept[i] = t
      BY <1>2, <1>6, <3>1
    <3>3. Grants(f[i], t, k)
      BY <1>7, <2>1, <3>2 DEF Grants
    <3>4. \A j \in (i + 1)..Len(f) : ~Grants(f[j], t, k) /\ ~Kills(f[j], t)
      BY <1>2, <1>6, <1>7, <3>2 DEF Grants, Kills
    <3>5. Loaded(f, t, k) = f[i].sess
      BY <1>6, <3>3, <3>4, LoadedDecided DEF Decides
    <3>. QED  BY <1>7, <2>1, <3>2, <3>5 DEF Alive
  <2>2. CASE ~(map[t].exp > k)
    <3>1. \A i \in 1..Len(f) : ~Decides(f, t, k, i)
      BY <1>7, <2>2 DEF Decides, Grants
    <3>2. Loaded(f, t, k) = Gone
      BY <1>6, <3>1, LoadedNone
    <3>. QED  BY <2>2, <3>2 DEF Alive
  <2>. QED  BY <2>1, <2>2
<1>. QED  BY <1>6, <1>8, <1>9 DEF f

-----------------------------------------------------------------------------
(* What a write does                                                       *)

\* b tells at least as much of who owns a token as owner does.
Extends(b) == \A t \in Tokens : owner[t] # NoEntry => b[t] = owner[t]

\* A line that may be written next: what it issues is as fresh as can be.
Fits(ln, b) ==
  /\ ln \in Line
  /\ ln.op = "issue" =>
       /\ ln.token \in Tokens
       /\ b[ln.token] # NoEntry
       /\ ln.sess.entry = b[ln.token]
       /\ ln.sess.exp = now + TTL

LEMMA WithLineOK ==
  ASSUME IInv, NEW b, Extends(b), NEW ln, Fits(ln, b)
  PROVE  /\ WithLine(ln) \in Seq(Line)
         /\ WithLine(ln) # <<>>
         /\ LinesOK(WithLine(ln), b, now)
<1>. DEFINE g == WithLine(ln)
<1>1. file \in Seq(Line) /\ ln \in Line /\ now \in Nat /\ Garbage \in Line
  BY LineTypes DEF IInv, TypeOK, Fits
<1>2. /\ \A i \in 1..Len(file) : file[i].op = "issue" =>
           /\ file[i].token \in Tokens
           /\ b[file[i].token] # NoEntry
           /\ file[i].sess.entry = b[file[i].token]
           /\ file[i].sess.exp <= now + TTL
      /\ \A i, j \in 1..Len(file) :
           /\ i < j
           /\ file[i].op = "issue" /\ file[j].op = "issue"
           /\ file[i].token = file[j].token
           => file[i].sess.exp <= file[j].sess.exp
  BY DEF IInv, LinesOK, Extends
<1>3. CASE open
  <2>1. g = [file EXCEPT ![Len(file)] = Garbage] /\ file # <<>>
    BY <1>3 DEF WithLine, IInv, TypeOK
  <2>2. /\ g \in Seq(Line) /\ Len(g) = Len(file) /\ Len(g) \in Nat \ {0}
        /\ \A i \in 1..Len(g) : g[i] = IF i = Len(file) THEN Garbage ELSE file[i]
    BY <1>1, <2>1
  <2>. HIDE DEF g
  <2>3. \A i \in 1..Len(g) : g[i].op = "issue" => g[i] = file[i]
    BY <2>2, LineTypes
  <2>4. LinesOK(g, b, now)
    BY <1>2, <2>2, <2>3 DEF LinesOK
  <2>. QED  BY <2>2, <2>4 DEF g
<1>4. CASE ~open
  <2>1. g = Append(file, ln)
    BY <1>4 DEF WithLine
  <2>2. /\ g \in Seq(Line) /\ Len(g) = Len(file) + 1 /\ Len(file) \in Nat
        /\ \A i \in 1..Len(file) : g[i] = file[i]
        /\ g[Len(file) + 1] = ln
    BY <1>1, <2>1
  <2>. HIDE DEF g
  <2>3. \A i \in 1..Len(g) : g[i].op = "issue" =>
          /\ g[i].token \in Tokens
          /\ b[g[i].token] # NoEntry
          /\ g[i].sess.entry = b[g[i].token]
          /\ g[i].sess.exp <= now + TTL
    <3>. SUFFICES ASSUME NEW i \in 1..Len(g), g[i].op = "issue"
                  PROVE  /\ g[i].token \in Tokens
                         /\ b[g[i].token] # NoEntry
                         /\ g[i].sess.entry = b[g[i].token]
                         /\ g[i].sess.exp <= now + TTL
      OBVIOUS
    <3>1. CASE i <= Len(file)
      BY <1>2, <2>2, <3>1
    <3>2. CASE i = Len(file) + 1
      BY <1>1, <2>2, <3>2 DEF Fits
    <3>. QED  BY <2>2, <3>1, <3>2
  <2>4. \A i, j \in 1..Len(g) :
           /\ i < j
           /\ g[i].op = "issue" /\ g[j].op = "issue"
           /\ g[i].token = g[j].token
           => g[i].sess.exp <= g[j].sess.exp
    <3>. SUFFICES ASSUME NEW i \in 1..Len(g), NEW j \in 1..Len(g), i < j,
                         g[i].op = "issue", g[j].op = "issue", g[i].token = g[j].token
                  PROVE  g[i].sess.exp <= g[j].sess.exp
      OBVIOUS
    <3>1. CASE j <= Len(file)
      BY <1>2, <2>2, <3>1
    <3>2. CASE j = Len(file) + 1
      <4>1. g[j].sess.exp = now + TTL
        BY <2>2, <3>2 DEF Fits
      <4>. QED  BY <2>3, <4>1
    <3>. QED  BY <2>2, <3>1, <3>2
  <2>5. LinesOK(g, b, now)
    BY <2>3, <2>4 DEF LinesOK
  <2>6. g # <<>>
    BY <2>2
  <2>. QED  BY <2>2, <2>5, <2>6 DEF g
<1>. QED  BY <1>3, <1>4

LEMMA WithPartOK ==
  ASSUME IInv, NEW b, Extends(b), NEW ln, Fits(ln, b), NEW part \in Parts
  PROVE  /\ WithPart(ln, part) \in Seq(Line)
         /\ open \/ part # "none" => WithPart(ln, part) # <<>>
         /\ LinesOK(WithPart(ln, part), b, now)
<1>1. Fits(Garbage, b)
  BY LineTypes DEF Fits
<1>2. file \in Seq(Line) /\ (open => file # <<>>) /\ LinesOK(file, b, now)
  BY DEF IInv, TypeOK, LinesOK, Extends
<1>3. CASE part = "none"
  BY <1>2, <1>3 DEF WithPart
<1>4. CASE part = "torn"
  BY <1>1, <1>4, WithLineOK DEF WithPart
<1>5. CASE part = "cut"
  BY <1>5, WithLineOK DEF WithPart
<1>. QED  BY <1>3, <1>4, <1>5 DEF Parts

\* The new line and the new Map agree on every token.
Agree(ln) ==
  \A t \in Tokens, k \in now..Horizon :
    Alive(live'[t], k) = IF Grants(ln, t, k) THEN ln.sess
                         ELSE IF Kills(ln, t) THEN Gone ELSE Alive(live[t], k)

\* What every write of the running process leaves behind.
Written ==
  /\ file' \in Seq(Line)
  /\ open' \in BOOLEAN
  /\ exposed' \in BOOLEAN
  /\ open' => file' # <<>> /\ exposed'
  /\ LinesOK(file', owner', now)
  /\ ~exposed' => \A t \in Tokens, k \in now..Horizon :
                    Loaded(file', t, k) = Alive(live'[t], k)

LEMMA TimesAreNaturals == ASSUME IInv PROVE now \in Nat /\ now..Horizon \in SUBSET Nat
BY DEF IInv, TypeOK, Horizon

LEMMA CompactedWrites ==
  ASSUME IInv, live' \in [Tokens -> Session], LiveOK(live', owner', now), Compacted
  PROVE  Written
<1>1. now \in Nat /\ now..Horizon \in SUBSET Nat
  BY TimesAreNaturals
<1>2. /\ Snapshot(live', now) \in Seq(Line)
      /\ LinesOK(Snapshot(live', now), owner', now)
      /\ \A t \in Tokens, k \in Nat :
           k >= now => Loaded(Snapshot(live', now), t, k) = Alive(live'[t], k)
  BY <1>1, SnapshotLoaded
<1>3. \A k \in now..Horizon : k \in Nat /\ k >= now
  BY <1>1 DEF Horizon
<1>. QED  BY <1>2, <1>3 DEF Compacted, Written

LEMMA AppendedWrites ==
  ASSUME IInv, running, NEW ln, Extends(owner'), Fits(ln, owner'), Agree(ln),
         live' \in [Tokens -> Session], LiveOK(live', owner', now), Appended(ln)
  PROVE  Written
<1>1. CASE Compacted
  BY <1>1, CompactedWrites
<1>2. CASE file' = WithLine(ln) /\ open' = FALSE /\ UNCHANGED exposed
  <2>1. file' \in Seq(Line) /\ LinesOK(file', owner', now)
    BY <1>2, WithLineOK
  <2>2. ASSUME ~exposed, NEW t \in Tokens, NEW k \in now..Horizon
        PROVE  Loaded(file', t, k) = Alive(live'[t], k)
    <3>1. file' = Append(file, ln)
      BY <1>2, <2>2 DEF WithLine, IInv, WorldOK
    <3>2. file \in Seq(Line) /\ ln \in Line /\ k \in Int
      BY <2>2, TimesAreNaturals DEF IInv, TypeOK, Fits
    <3>3. Loaded(file', t, k) = IF Grants(ln, t, k) THEN ln.sess
                                ELSE IF Kills(ln, t) THEN Gone ELSE Loaded(file, t, k)
      BY <3>1, <3>2, LoadedAppend
    <3>4. Loaded(file, t, k) = Alive(live[t], k)
      BY <2>2 DEF IInv, Mirrors
    <3>. QED  BY <3>3, <3>4 DEF Agree
  <2>. QED  BY <1>2, <2>1, <2>2 DEF Written, IInv, TypeOK
<1>. QED  BY <1>1, <1>2 DEF Appended

LEMMA NotAppendedWrites ==
  ASSUME IInv, NEW ln, Extends(owner'), Fits(ln, owner'), NotAppended(ln)
  PROVE  Written
<1>1. PICK part \in Parts : file' = WithPart(ln, part) /\ open' = (open \/ part # "none")
  BY DEF NotAppended
<1>. QED  BY <1>1, WithPartOK DEF Written, NotAppended, IInv, TypeOK

-----------------------------------------------------------------------------
(* IInv is inductive: operations of the running process                    *)

LEMMA InvInit == Init => IInv
<1>. SUFFICES ASSUME Init PROVE IInv
  OBVIOUS
<1>1. TypeOK
  <2>1. live \in [Tokens -> Session]
    BY LineTypes DEF Init
  <2>2. owner \in [Tokens -> Entries \cup {NoEntry}]
    BY DEF Init
  <2>3. file \in Seq(Line)
    BY DEF Init
  <2>. QED  BY <2>1, <2>2, <2>3 DEF Init, TypeOK
<1>2. LinesOK(file, owner, now) /\ LiveOK(live, owner, now) /\ WorldOK
  BY DEF Init, LinesOK, LiveOK, WorldOK
<1>3. Mirrors
  <2>. SUFFICES ASSUME NEW t \in Tokens, NEW m \in now..Horizon
                PROVE  Loaded(file, t, m) = Alive(live[t], m)
    BY DEF Mirrors
  <2>1. file = <<>> /\ live[t] = Gone /\ Loaded(file, t, m) = Gone
    BY DEF Init, Loaded
  <2>. QED  BY <2>1 DEF Alive
<1>. QED  BY <1>1, <1>2, <1>3 DEF IInv

\* Any operation whose write is accounted for keeps the invariant.
LEMMA OperationKeepsInv ==
  ASSUME IInv, running, UNCHANGED <<running, now>>, Written,
         live' \in [Tokens -> Session], LiveOK(live', owner', now),
         owner' \in [Tokens -> Entries \cup {NoEntry}],
         todo' \in SUBSET Tokens
  PROVE  IInv'
<1>1. TypeOK'
  BY DEF IInv, TypeOK, Written
<1>2. LinesOK(file', owner', now') /\ LiveOK(live', owner', now')
  BY DEF Written
<1>3. WorldOK'
  BY DEF IInv, WorldOK, Written
<1>4. Mirrors'
  BY DEF Written, Mirrors
<1>. QED  BY <1>1, <1>2, <1>3, <1>4 DEF IInv, LinesOK, LiveOK

LEMMA FreshIsSession ==
  ASSUME IInv, NEW e \in Entries
  PROVE  /\ Fresh(e) \in Session
         /\ Fresh(e) # Gone
         /\ Fresh(e).exp = now + TTL
         /\ Fresh(e).entry = e
BY DEF IInv, TypeOK, Fresh, Session, Gone

LEMMA CreateKeepsInv ==
  ASSUME IInv, NEW t \in Tokens, NEW e \in Entries, Create(t, e)
  PROVE  IInv'
<1>. DEFINE ln == IssueLine(t, Fresh(e))
<1>1. /\ live \in [Tokens -> Session] /\ owner \in [Tokens -> Entries \cup {NoEntry}]
      /\ now \in Nat /\ LiveOK(live, owner, now) /\ running
      /\ owner[t] = NoEntry /\ live[t] = Gone
  BY DEF IInv, TypeOK, LiveOK, Create, Idle, Unissued
<1>2. /\ live' = [live EXCEPT ![t] = Fresh(e)]
      /\ owner' = [owner EXCEPT ![t] = e]
      /\ UNCHANGED <<todo, running, now>>
      /\ Appended(ln) \/ NotAppended(ln)
  BY DEF Create
<1>3. /\ Fresh(e) \in Session /\ Fresh(e) # Gone
      /\ Fresh(e).exp = now + TTL /\ Fresh(e).entry = e
  BY FreshIsSession
<1>4. live' \in [Tokens -> Session] /\ owner' \in [Tokens -> Entries \cup {NoEntry}]
  BY <1>1, <1>2, <1>3
<1>5. LiveOK(live', owner', now)
  BY <1>1, <1>2, <1>3 DEF LiveOK
<1>6. Extends(owner')
  BY <1>1, <1>2 DEF Extends
<1>7. Fits(ln, owner')
  BY <1>1, <1>2, <1>3, LineTypes DEF Fits, IssueLine
<1>8. Agree(ln)
  <2>. SUFFICES ASSUME NEW u \in Tokens, NEW k \in now..Horizon
                PROVE  Alive(live'[u], k) = IF Grants(ln, u, k) THEN ln.sess
                                            ELSE IF Kills(ln, u) THEN Gone
                                            ELSE Alive(live[u], k)
    BY DEF Agree
  <2>1. CASE u = t
    BY <1>1, <1>2, <1>3, <2>1 DEF Alive, Grants, Kills, IssueLine
  <2>2. CASE u # t
    BY <1>1, <1>2, <2>2 DEF Alive, Grants, Kills, IssueLine
  <2>. QED  BY <2>1, <2>2
<1>9. Written
  BY <1>1, <1>2, <1>4, <1>5, <1>6, <1>7, <1>8, AppendedWrites, NotAppendedWrites
<1>. QED  BY <1>1, <1>2, <1>4, <1>5, <1>9, OperationKeepsInv DEF IInv, TypeOK

LEMMA VerifyRenewsKeepsInv ==
  ASSUME IInv, NEW t \in Tokens, VerifyRenews(t)
  PROVE  IInv'
<1>. DEFINE e == live[t].entry
            ln == IssueLine(t, Fresh(e))
<1>1. /\ live \in [Tokens -> Session] /\ owner \in [Tokens -> Entries \cup {NoEntry}]
      /\ now \in Nat /\ LiveOK(live, owner, now) /\ running
      /\ live[t] \in Session /\ live[t].exp > now
  BY DEF IInv, TypeOK, VerifyRenews, DueForRenewal, Idle
<1>2. live[t] # Gone /\ owner[t] = e /\ e \in Entries /\ live[t].exp <= now + TTL
  BY <1>1 DEF LiveOK, Gone
<1>3. /\ live' = [live EXCEPT ![t] = Fresh(e)]
      /\ UNCHANGED <<todo, running, now, owner>>
      /\ Appended(ln) \/ NotAppended(ln)
  BY DEF VerifyRenews, RenewedLine
<1>. HIDE DEF e
<1>4. /\ Fresh(e) \in Session /\ Fresh(e) # Gone
      /\ Fresh(e).exp = now + TTL /\ Fresh(e).entry = e
  BY <1>2, FreshIsSession
<1>5. live' \in [Tokens -> Session]
  BY <1>1, <1>3, <1>4
<1>6. LiveOK(live', owner', now)
  BY <1>1, <1>2, <1>3, <1>4 DEF LiveOK
<1>7. Extends(owner')
  BY <1>3 DEF Extends
<1>8. Fits(ln, owner')
  BY <1>1, <1>2, <1>3, <1>4, LineTypes DEF Fits, IssueLine
<1>9. Agree(ln)
  <2>. SUFFICES ASSUME NEW u \in Tokens, NEW k \in now..Horizon
                PROVE  Alive(live'[u], k) = IF Grants(ln, u, k) THEN ln.sess
                                            ELSE IF Kills(ln, u) THEN Gone
                                            ELSE Alive(live[u], k)
    BY DEF Agree
  <2>0. k \in Nat /\ live[t].exp \in Nat
    BY <1>1, TimesAreNaturals DEF Session
  <2>1. CASE u = t
    BY <1>1, <1>2, <1>3, <1>4, <2>0, <2>1 DEF Alive, Grants, Kills, IssueLine
  <2>2. CASE u # t
    BY <1>1, <1>3, <2>2 DEF Alive, Grants, Kills, IssueLine
  <2>. QED  BY <2>1, <2>2
<1>10. Written
  BY <1>1, <1>3, <1>5, <1>6, <1>7, <1>8, <1>9, AppendedWrites, NotAppendedWrites
<1>. QED  BY <1>1, <1>3, <1>5, <1>6, <1>10, OperationKeepsInv DEF IInv, TypeOK

\* Deleting a session from the Map and appending its revocation.
LEMMA RevokingKeepsInv ==
  ASSUME IInv, running, NEW t \in Tokens, Revoking(t),
         todo' \in SUBSET Tokens, UNCHANGED <<running, now, owner>>
  PROVE  IInv'
<1>. DEFINE ln == RevokeLine(t)
<1>1. /\ live \in [Tokens -> Session]
      /\ LiveOK(live, owner, now) /\ Gone \in Session
  BY LineTypes DEF IInv, TypeOK
<1>2. /\ live' = [live EXCEPT ![t] = Gone]
      /\ Appended(ln) \/ NotAppended(ln)
  BY <1>1 DEF Revoking
<1>3. live' \in [Tokens -> Session]
  BY <1>1, <1>2
<1>4. LiveOK(live', owner', now)
  BY <1>1, <1>2 DEF LiveOK
<1>5. Extends(owner')
  BY DEF Extends
<1>6. Fits(ln, owner')
  BY LineTypes DEF Fits, RevokeLine
<1>7. Agree(ln)
  BY <1>1, <1>2 DEF Agree, Alive, Grants, Kills, RevokeLine
<1>8. Written
  BY <1>2, <1>3, <1>4, <1>5, <1>6, <1>7, AppendedWrites, NotAppendedWrites
<1>. QED  BY <1>2, <1>3, <1>4, <1>8, OperationKeepsInv DEF IInv, TypeOK

LEMMA DestroyAllKeepsInv ==
  ASSUME IInv, DestroyAll
  PROVE  IInv'
<1>1. /\ LiveOK(live, owner, now) /\ Gone \in Session
      /\ running
  BY LineTypes DEF IInv, TypeOK, DestroyAll, Idle
<1>2. /\ live' = [t \in Tokens |-> Gone]
      /\ Appended(PurgeLine) \/ NotAppended(PurgeLine)
      /\ UNCHANGED <<todo, running, now, owner>>
  BY <1>1 DEF DestroyAll
<1>3. live' \in [Tokens -> Session] /\ LiveOK(live', owner', now)
  BY <1>1, <1>2 DEF LiveOK
<1>4. Extends(owner')
  BY <1>2 DEF Extends
<1>5. Fits(PurgeLine, owner')
  BY LineTypes DEF Fits, PurgeLine
<1>6. Agree(PurgeLine)
  BY <1>2 DEF Agree, Alive, Grants, Kills, PurgeLine
<1>7. Written
  BY <1>1, <1>2, <1>3, <1>4, <1>5, <1>6, AppendedWrites, NotAppendedWrites
<1>. QED  BY <1>1, <1>2, <1>3, <1>7, OperationKeepsInv DEF IInv, TypeOK

-----------------------------------------------------------------------------
(* IInv is inductive: the clock, crashes and starts                        *)

LEMMA TickKeepsInv == ASSUME IInv, Tick PROVE IInv'
<1>1. now \in Nat /\ now' = now + 1 /\ now' <= MaxTime
  BY DEF IInv, TypeOK, Tick
<1>2. /\ UNCHANGED <<live, todo, file, open, running, exposed, owner>>
      /\ file \in Seq(Line) /\ live \in [Tokens -> Session]
  BY DEF IInv, TypeOK, Tick
<1>3. TypeOK'
  BY <1>1, <1>2 DEF IInv, TypeOK
<1>4. LinesOK(file, owner, now')
  <2>1. \A i \in 1..Len(file) : file[i].sess.exp \in Nat
    BY <1>2, LineFields
  <2>2. LinesOK(file, owner, now)
    BY DEF IInv
  <2>3. ASSUME NEW i \in 1..Len(file), file[i].op = "issue"
        PROVE  file[i].sess.exp <= now' + TTL
    <3>1. file[i].sess.exp <= now + TTL /\ file[i].sess.exp \in Nat
      BY <2>1, <2>2, <2>3 DEF LinesOK
    <3>. QED  BY <1>1, <3>1
  <2>. QED  BY <2>2, <2>3 DEF LinesOK
<1>5. LiveOK(live, owner, now')
  <2>1. \A t \in Tokens : live[t].exp \in Nat
    BY <1>2 DEF Session
  <2>. QED  BY <1>1, <2>1 DEF IInv, LiveOK
<1>6. WorldOK'
  BY <1>1, <1>2 DEF IInv, WorldOK
<1>7. Mirrors'
  BY <1>1, <1>2 DEF IInv, Mirrors, Horizon
<1>. QED  BY <1>2, <1>3, <1>4, <1>5, <1>6, <1>7 DEF IInv, LinesOK, LiveOK

\* A death leaves the file the write left, and nothing in memory.
LEMMA DeathKeepsInv ==
  ASSUME IInv, Dies, file' \in Seq(Line), open' \in BOOLEAN, open' => file' # <<>>,
         LinesOK(file', owner', now), owner' \in [Tokens -> Entries \cup {NoEntry}]
  PROVE  IInv'
<1>1. live' \in [Tokens -> Session]
  BY LineTypes DEF Dies
<1>2. TypeOK'
  BY <1>1 DEF IInv, TypeOK, Dies
<1>3. LinesOK(file', owner', now') /\ LiveOK(live', owner', now')
  BY DEF Dies, LiveOK
<1>4. WorldOK'
  BY DEF IInv, WorldOK, Dies
<1>5. Mirrors'
  BY DEF Mirrors, Dies
<1>. QED  BY <1>2, <1>3, <1>4, <1>5 DEF IInv, LinesOK, LiveOK

LEMMA CrashKeepsInv == ASSUME IInv, Crash PROVE IInv'
BY DeathKeepsInv DEF IInv, TypeOK, Crash

LEMMA DeathWritingLeaves ==
  ASSUME IInv, NEW ln, NEW b, Extends(b), Fits(ln, b), DiesWriting(ln)
  PROVE  /\ file' \in Seq(Line)
         /\ open' \in BOOLEAN
         /\ open' => file' # <<>>
         /\ LinesOK(file', b, now)
<1>1. PICK part \in {"torn", "cut", "all"} :
        /\ file' = IF part = "all" THEN WithLine(ln) ELSE WithPart(ln, part)
        /\ open' = (part # "all")
  BY DEF DiesWriting
<1>2. CASE part = "all"
  BY <1>1, <1>2, WithLineOK
<1>3. CASE part # "all"
  <2>1. part \in Parts /\ part # "none"
    BY <1>3 DEF Parts
  <2>. QED  BY <1>1, <1>3, <2>1, WithPartOK
<1>. QED  BY <1>2, <1>3

\* What a death in create() leaves of the token: all of it or nothing.
LEMMA CrashInCreateOwner ==
  ASSUME IInv, NEW t \in Tokens, NEW e \in Entries, CrashInCreate(t, e)
  PROVE  \/ owner' = owner /\ Loaded(file', t, now) = Gone
            /\ LinesOK(file', owner, now)
         \/ /\ owner' = [owner EXCEPT ![t] = e]
            /\ Loaded(file', t, now) = Fresh(e)
<1>. DEFINE b == [owner EXCEPT ![t] = e]
            ln == IssueLine(t, Fresh(e))
<1>1. /\ owner \in [Tokens -> Entries \cup {NoEntry}] /\ owner[t] = NoEntry
      /\ now \in Nat /\ file \in Seq(Line)
      /\ DiesWriting(ln)
      /\ owner' = [owner EXCEPT ![t] = Loaded(file', t, now).entry]
  BY DEF IInv, TypeOK, CrashInCreate, Unissued
<1>2. /\ Fresh(e) \in Session /\ Fresh(e) # Gone
      /\ Fresh(e).exp = now + TTL /\ Fresh(e).entry = e
  BY FreshIsSession
<1>3. Extends(b) /\ Fits(ln, b)
  BY <1>1, <1>2, LineTypes DEF Extends, Fits, IssueLine
<1>4. \A i \in 1..Len(file) : ~Grants(file[i], t, now)
  BY <1>1 DEF IInv, LinesOK, Grants
<1>5. PICK part \in {"torn", "cut", "all"} :
        /\ file' = IF part = "all" THEN WithLine(ln) ELSE WithPart(ln, part)
        /\ open' = (part # "all")
  BY <1>1 DEF DiesWriting
<1>6. file' = WithLine(ln) \/ file' = WithLine(Garbage)
  BY <1>5 DEF WithPart
<1>7. Loaded(file, t, now) = Gone
  BY <1>4 DEF Loaded, Decides
<1>8. CASE file' = Append(file, ln)
  <2>1. Grants(ln, t, now)
    BY <1>1, <1>2 DEF Grants, IssueLine
  <2>2. ln \in Line /\ now \in Int
    BY <1>1, <1>3 DEF Fits
  <2>3. Loaded(file', t, now) = Fresh(e)
    BY <1>1, <1>8, <2>1, <2>2, LoadedAppend DEF IssueLine
  <2>. QED  BY <1>1, <1>2, <2>3
<1>9. CASE file' = WithLine(Garbage) \/ (open /\ file' = WithLine(ln))
  <2>1. file' = WithLine(Garbage)
    BY <1>9 DEF WithLine
  <2>2. Fits(Garbage, owner) /\ Extends(owner)
    BY LineTypes DEF Fits, Extends
  <2>3. LinesOK(file', owner, now) /\ file' \in Seq(Line)
    BY <2>1, <2>2, WithLineOK
  <2>4. \A i \in 1..Len(file') : ~Grants(file'[i], t, now)
    BY <1>1, <2>3 DEF LinesOK, Grants
  <2>5. Loaded(file', t, now) = Gone
    BY <2>4 DEF Loaded, Decides
  <2>6. owner' = owner
    BY <1>1, <2>5 DEF Gone
  <2>. QED  BY <2>3, <2>5, <2>6
<1>. QED  BY <1>6, <1>8, <1>9 DEF WithLine

LEMMA CrashInCreateKeepsInv ==
  ASSUME IInv, NEW t \in Tokens, NEW e \in Entries, CrashInCreate(t, e)
  PROVE  IInv'
<1>. DEFINE b == [owner EXCEPT ![t] = e]
            ln == IssueLine(t, Fresh(e))
<1>1. /\ owner \in [Tokens -> Entries \cup {NoEntry}] /\ owner[t] = NoEntry
      /\ now \in Nat /\ DiesWriting(ln) /\ Dies
  BY DEF IInv, TypeOK, CrashInCreate, Unissued, DiesWriting
<1>2. /\ Fresh(e) \in Session
      /\ Fresh(e).exp = now + TTL /\ Fresh(e).entry = e
  BY FreshIsSession
<1>3. Extends(b) /\ Fits(ln, b)
  BY <1>1, <1>2, LineTypes DEF Extends, Fits, IssueLine
<1>4. /\ file' \in Seq(Line) /\ open' \in BOOLEAN /\ (open' => file' # <<>>)
      /\ LinesOK(file', b, now)
  BY <1>1, <1>3, DeathWritingLeaves
<1>5. /\ owner' \in [Tokens -> Entries \cup {NoEntry}]
      /\ LinesOK(file', owner', now)
  BY <1>1, <1>4, CrashInCreateOwner
<1>. QED  BY <1>1, <1>4, <1>5, DeathKeepsInv

LEMMA CrashInRenewalKeepsInv ==
  ASSUME IInv, NEW t \in Tokens, CrashInRenewal(t)
  PROVE  IInv'
<1>. DEFINE e == live[t].entry
            ln == IssueLine(t, Fresh(e))
<1>1. /\ owner \in [Tokens -> Entries \cup {NoEntry}] /\ owner' = owner
      /\ now \in Nat /\ DiesWriting(ln) /\ Dies
      /\ live[t] \in Session /\ live[t].exp > now
  BY DEF IInv, TypeOK, CrashInRenewal, DiesWriting, DueForRenewal, RenewedLine
<1>2. owner[t] = e /\ e \in Entries
  BY <1>1 DEF IInv, LiveOK, Gone
<1>. HIDE DEF e
<1>3. /\ Fresh(e) \in Session
      /\ Fresh(e).exp = now + TTL /\ Fresh(e).entry = e
  BY <1>2, FreshIsSession
<1>4. Extends(owner) /\ Fits(ln, owner)
  BY <1>1, <1>2, <1>3, LineTypes DEF Extends, Fits, IssueLine
<1>5. /\ file' \in Seq(Line) /\ open' \in BOOLEAN /\ (open' => file' # <<>>)
      /\ LinesOK(file', owner, now)
  BY <1>1, <1>4, DeathWritingLeaves
<1>. QED  BY <1>1, <1>5, DeathKeepsInv

\* A revocation or a purge cut short by the death of the process.
LEMMA CrashInRevocationKeepsInv ==
  ASSUME IInv, NEW ln \in Line, ln.op # "issue", DiesWriting(ln), UNCHANGED owner
  PROVE  IInv'
<1>1. Extends(owner) /\ Fits(ln, owner)
  BY DEF Extends, Fits
<1>2. /\ file' \in Seq(Line) /\ open' \in BOOLEAN /\ (open' => file' # <<>>)
      /\ LinesOK(file', owner, now)
  BY <1>1, DeathWritingLeaves
<1>. QED  BY <1>2, DeathKeepsInv DEF DiesWriting, IInv, TypeOK

\* What a start reads is what was issued.
LEMMA ReplayOK ==
  ASSUME IInv
  PROVE  /\ Replay(file, now) \in [Tokens -> Session]
         /\ LiveOK(Replay(file, now), owner, now)
<1>1. file \in Seq(Line) /\ now \in Nat /\ LinesOK(file, owner, now)
  BY DEF IInv, TypeOK
<1>2. ASSUME NEW t \in Tokens
      PROVE  /\ Loaded(file, t, now) \in Session
             /\ Loaded(file, t, now) # Gone =>
                  /\ owner[t] # NoEntry
                  /\ Loaded(file, t, now).entry = owner[t]
                  /\ Loaded(file, t, now).exp <= now + TTL
  BY <1>1, LoadedFrom DEF LinesOK
<1>. QED  BY <1>2 DEF Replay, LiveOK

LEMMA StartKeepsInv == ASSUME IInv, Start PROVE IInv'
<1>1. /\ live' = Replay(file, now) /\ owner' = owner /\ running'
      /\ UNCHANGED <<todo, now, owner>>
      /\ Compacted \/ (exposed' = open /\ UNCHANGED <<file, open>>)
  BY DEF Start
<1>2. live' \in [Tokens -> Session] /\ LiveOK(live', owner', now)
  BY <1>1, ReplayOK
<1>3. Written
  <2>1. CASE Compacted
    BY <1>2, <2>1, CompactedWrites
  <2>2. CASE exposed' = open /\ UNCHANGED <<file, open>>
    <3>1. ASSUME NEW t \in Tokens, NEW k \in now..Horizon
          PROVE  Loaded(file, t, k) = Alive(live'[t], k)
      <4>1. /\ file \in Seq(Line) /\ now \in Nat /\ k \in Nat /\ now <= k /\ now \in Int
            /\ LinesOK(file, owner, now)
        BY TimesAreNaturals DEF IInv, TypeOK
      <4>2. Loaded(file, t, k) = Alive(Loaded(file, t, now), k)
        BY <4>1, LoadedLater
      <4>. QED  BY <1>1, <4>2 DEF Replay
    <3>2. file' \in Seq(Line) /\ LinesOK(file', owner', now)
      BY <1>1, <2>2 DEF IInv, TypeOK
    <3>. QED  BY <1>1, <2>2, <3>1, <3>2 DEF Written, IInv, TypeOK
  <2>. QED  BY <1>1, <2>1, <2>2
<1>4. TypeOK'
  BY <1>1, <1>2, <1>3 DEF IInv, TypeOK, Written, Start
<1>5. WorldOK' /\ Mirrors'
  BY <1>1, <1>3 DEF IInv, WorldOK, Mirrors, Written
<1>. QED  BY <1>1, <1>2, <1>3, <1>4, <1>5 DEF IInv, Written, LinesOK, LiveOK

LEMMA StartUnreadableKeepsInv == ASSUME IInv, StartUnreadable PROVE IInv'
BY DEF IInv, TypeOK, LinesOK, LiveOK, WorldOK, Mirrors, StartUnreadable

-----------------------------------------------------------------------------
(* The invariant                                                           *)

LEMMA NextKeepsInv == IInv /\ [Next]_vars => IInv'
<1>. SUFFICES ASSUME IInv, [Next]_vars PROVE IInv'
  OBVIOUS
<1>0. todo \in SUBSET Tokens /\ live \in [Tokens -> Session]
  BY DEF IInv, TypeOK
<1>1. CASE \E t \in Tokens, e \in Entries : Create(t, e)
  BY <1>1, CreateKeepsInv
<1>2. CASE \E t \in Tokens : VerifyExpired(t)
  <2>1. PICK t \in Tokens : VerifyExpired(t)
    BY <1>2
  <2>. QED  BY <1>0, <2>1, RevokingKeepsInv DEF VerifyExpired, Revoking, Idle
<1>3. CASE \E t \in Tokens : VerifyRenews(t)
  BY <1>3, VerifyRenewsKeepsInv
<1>4. CASE \E t \in Tokens : Destroy(t)
  BY <1>0, <1>4, RevokingKeepsInv DEF Destroy, Idle
<1>5. CASE \E e \in Entries : DestroyEntrySessions(e)
  <2>1. UNCHANGED <<live, file, open, running, exposed, now, owner>>
        /\ todo' \in SUBSET Tokens /\ running
    BY <1>5 DEF DestroyEntrySessions, Idle
  <2>. QED  BY <2>1 DEF IInv, TypeOK, LinesOK, LiveOK, WorldOK, Mirrors
<1>6. CASE \E keep \in Tokens : DestroyAllExcept(keep)
  <2>1. UNCHANGED <<live, file, open, running, exposed, now, owner>>
        /\ todo' \in SUBSET Tokens /\ running
    BY <1>6 DEF DestroyAllExcept, Idle
  <2>. QED  BY <2>1 DEF IInv, TypeOK, LinesOK, LiveOK, WorldOK, Mirrors
<1>7. CASE \E t \in Tokens : RevokeNext(t)
  BY <1>0, <1>7, RevokingKeepsInv DEF RevokeNext
<1>8. CASE DestroyAll
  BY <1>8, DestroyAllKeepsInv
<1>9. CASE Tick
  BY <1>9, TickKeepsInv
<1>10. CASE Crash
  BY <1>10, CrashKeepsInv
<1>11. CASE \E t \in Tokens, e \in Entries : CrashInCreate(t, e)
  BY <1>11, CrashInCreateKeepsInv
<1>12. CASE \E t \in Tokens : CrashInRenewal(t)
  BY <1>12, CrashInRenewalKeepsInv
<1>13. CASE \E t \in Tokens : CrashInRevoke(t)
  <2>1. PICK t \in Tokens : CrashInRevoke(t)
    BY <1>13
  <2>2. RevokeLine(t) \in Line /\ RevokeLine(t).op # "issue"
    BY LineTypes DEF RevokeLine
  <2>. QED  BY <2>1, <2>2, CrashInRevocationKeepsInv DEF CrashInRevoke
<1>14. CASE CrashInPurge
  BY <1>14, LineTypes, CrashInRevocationKeepsInv DEF CrashInPurge
<1>15. CASE Start
  BY <1>15, StartKeepsInv
<1>16. CASE StartUnreadable
  BY <1>16, StartUnreadableKeepsInv
<1>17. CASE UNCHANGED vars
  BY <1>17 DEF vars, IInv, TypeOK, LinesOK, LiveOK, WorldOK, Mirrors
<1>. QED
  BY <1>1, <1>2, <1>3, <1>4, <1>5, <1>6, <1>7, <1>8, <1>9, <1>10, <1>11, <1>12,
     <1>13, <1>14, <1>15, <1>16, <1>17 DEF Next

\* The invariant holds in every reachable state: what the file says was issued,
\* in order, and a file that lost no write replays to the Map.
THEOREM Invariant == Spec => []IInv
<1>1. Init => IInv
  BY InvInit
<1>2. IInv /\ [Next]_vars => IInv'
  BY NextKeepsInv
<1>. QED  BY <1>1, <1>2, PTL DEF Spec

\* Every variable stays in its type.
THEOREM TypeCorrect == Spec => []TypeOK
<1>1. IInv => TypeOK
  BY DEF IInv
<1>. QED  BY <1>1, Invariant, PTL

\* While no write was lost, a restart at any later time finds exactly the
\* sessions the Map holds.
THEOREM FileMirrorsMap == Spec => []Mirrors
<1>1. IInv => Mirrors
  BY DEF IInv
<1>. QED  BY <1>1, Invariant, PTL

\* The loop of _load, line by line, gives what Replay reads in one go - the last line
\* on a token that was not over decides - whatever is in the file and whenever it is
\* read.
THEOREM LoopReadsLastWord == Spec => []LoadIsReplay
<1>1. IInv => LoadIsReplay
  <2>1. SUFFICES ASSUME IInv, NEW m \in now..Horizon
                 PROVE  ReplayByLine(file, m) = Replay(file, m)
    BY DEF LoadIsReplay
  <2>2. m \in Int /\ file \in Seq(Line)
    BY <2>1, TimesAreNaturals DEF IInv, TypeOK
  <2>. QED  BY <2>2, LoopIsReplay
<1>. QED  BY <1>1, Invariant, PTL

-----------------------------------------------------------------------------
(***************************************************************************)
(* The refinement: every step of the store is a step of the abstract table *)
(* or leaves it alone, so the store implements SessionTable, and a session *)
(* that ended does not come back.                                          *)
(***************************************************************************)

-----------------------------------------------------------------------------
(* The sessions the store stands for                                       *)

LEMMA SessionsUp ==
  ASSUME running
  PROVE  Sessions = [t \in Tokens |-> Alive(live[t], now)]
BY DEF Sessions

LEMMA SessionsUpNext ==
  ASSUME running'
  PROVE  Sessions' = [t \in Tokens |-> Alive(live'[t], now')]
BY DEF Sessions

LEMMA SessionsDown ==
  ASSUME ~running
  PROVE  Sessions = [t \in Tokens |-> Loaded(file, t, now)]
BY DEF Sessions, Replay

LEMMA SessionsDownNext ==
  ASSUME ~running'
  PROVE  Sessions' = [t \in Tokens |-> Loaded(file', t, now')]
BY DEF Sessions, Replay

\* With no write lost, what the file says is what the store stands for, up or
\* down.
LEMMA FileSaysSessions ==
  ASSUME IInv, ~exposed
  PROVE  Sessions = [t \in Tokens |-> Loaded(file, t, now)]
<1>1. CASE ~running
  BY <1>1, SessionsDown
<1>2. CASE running
  <2>1. now \in now..Horizon
    BY DEF IInv, TypeOK, WorldOK, Horizon
  <2>2. \A t \in Tokens : Loaded(file, t, now) = Alive(live[t], now)
    BY <1>2, <2>1 DEF IInv, Mirrors
  <2>. QED  BY <1>2, <2>2, SessionsUp
<1>. QED  BY <1>1, <1>2

\* Whatever is read is a session a disturbed table may hold.
LEMMA LoadedIsAllowed ==
  ASSUME NEW f \in Seq(Line), NEW t \in Tokens, NEW m \in Nat, NEW b, LinesOK(f, b, m)
  PROVE  \/ Loaded(f, t, m) = Gone
         \/ /\ Loaded(f, t, m).entry = b[t]
            /\ Loaded(f, t, m).exp > m
            /\ Loaded(f, t, m).exp <= m + TTL
BY LoadedFrom DEF LinesOK

\* The three kinds of steps: what the table allows, nothing at all, or - only
\* around lost writes - a disturbance.
Step ==
  \/ Table!Clean
  \/ UNCHANGED <<Sessions, owner, now>>
  \/ exposed /\ Table!Disturb
  \/ exposed' /\ Sessions' = [t \in Tokens |-> Gone] /\ UNCHANGED <<owner, now>>

-----------------------------------------------------------------------------
(* Operations of the running process                                       *)

LEMMA CreateStep ==
  ASSUME IInv, NEW t \in Tokens, NEW e \in Entries, Create(t, e)
  PROVE  Table!Issue(t, e)
<1>1. /\ running /\ running' /\ now' = now /\ owner[t] = NoEntry
      /\ owner' = [owner EXCEPT ![t] = e]
      /\ live' = [live EXCEPT ![t] = Fresh(e)]
      /\ live \in [Tokens -> Session]
  BY DEF Create, Idle, Unissued, IInv, TypeOK
<1>2. Alive(Fresh(e), now) = Fresh(e)
  BY DEF Alive, Fresh, IInv, TypeOK
<1>3. Sessions' = [Sessions EXCEPT ![t] = Fresh(e)]
  BY <1>1, <1>2, SessionsUp, SessionsUpNext
<1>. QED  BY <1>1, <1>3 DEF Table!Issue, Table!Fresh, Fresh

LEMMA RenewStep ==
  ASSUME IInv, NEW t \in Tokens, VerifyRenews(t)
  PROVE  Table!Extend(t)
<1>1. /\ running /\ running' /\ now' = now /\ owner' = owner
      /\ live' = [live EXCEPT ![t] = Fresh(live[t].entry)]
      /\ live \in [Tokens -> Session]
      /\ live[t].exp > now /\ live[t].exp - now < Renew
  BY DEF VerifyRenews, DueForRenewal, Idle, IInv, TypeOK
<1>2. Sessions[t] = live[t] /\ live[t] \in Session
  BY <1>1, SessionsUp DEF Alive
<1>3. Fresh(live[t].entry) = [live[t] EXCEPT !.exp = now + TTL]
  BY <1>2 DEF Fresh, Session
<1>4. Alive(Fresh(live[t].entry), now) = Fresh(live[t].entry)
  BY DEF Alive, Fresh, IInv, TypeOK
<1>5. Sessions' = [Sessions EXCEPT ![t] = Fresh(live[t].entry)]
  BY <1>1, <1>4, SessionsUp, SessionsUpNext
<1>6. Sessions' = [Sessions EXCEPT ![t].exp = now + TTL]
  BY <1>2, <1>3, <1>5
<1>. QED  BY <1>1, <1>2, <1>6 DEF Table!Extend, Table!Renew, Renew

LEMMA RevokingStep ==
  ASSUME IInv, running, NEW t \in Tokens, live' = [live EXCEPT ![t] = Gone],
         UNCHANGED <<running, now, owner>>
  PROVE  Table!Revoke({t})
<1>1. live \in [Tokens -> Session]
  BY DEF IInv, TypeOK
<1>2. Sessions' = [u \in Tokens |-> IF u \in {t} THEN Gone ELSE Sessions[u]]
  BY <1>1, SessionsUp, SessionsUpNext DEF Alive
<1>. QED  BY <1>2 DEF Table!Revoke, Table!Gone, Gone

LEMMA DestroyAllStep == ASSUME IInv, DestroyAll PROVE Table!Revoke(Tokens)
<1>1. /\ running /\ running' /\ now' = now /\ owner' = owner
      /\ live' = [t \in Tokens |-> Gone]
  BY DEF DestroyAll, Idle
<1>2. Sessions' = [t \in Tokens |-> Gone]
  BY <1>1, SessionsUpNext DEF Alive
<1>. QED  BY <1>1, <1>2 DEF Table!Revoke, Table!Gone, Gone

-----------------------------------------------------------------------------
(* The clock, crashes and starts                                           *)

LEMMA TickStep == ASSUME IInv, Tick PROVE Table!Pass
<1>1. /\ now \in Nat /\ now' = now + 1 /\ UNCHANGED <<live, file, running, owner>>
      /\ live \in [Tokens -> Session] /\ file \in Seq(Line)
      /\ LinesOK(file, owner, now)
  BY DEF Tick, IInv, TypeOK
<1>2. CASE running
  <2>1. ASSUME NEW t \in Tokens
        PROVE  Alive(live[t], now') = Alive(Alive(live[t], now), now')
    BY <1>1 DEF Session, Alive
  <2>2. Sessions' = [t \in Tokens |-> Alive(Sessions[t], now')]
    BY <1>1, <1>2, <2>1, SessionsUp, SessionsUpNext
  <2>. QED  BY <1>1, <2>2 DEF Table!Pass, Table!Gone, Alive, Gone
<1>3. CASE ~running
  <2>1. ASSUME NEW t \in Tokens
        PROVE  Loaded(file, t, now') = Alive(Loaded(file, t, now), now')
    BY <1>1, LoadedLater
  <2>2. Sessions' = [t \in Tokens |-> Alive(Sessions[t], now')]
    BY <1>1, <1>3, <2>1, SessionsDown, SessionsDownNext
  <2>. QED  BY <1>1, <2>2 DEF Table!Pass, Table!Gone, Alive, Gone
<1>. QED  BY <1>2, <1>3

\* After writes were lost a death may change the table, within its bounds.
LEMMA DeathDisturbs ==
  ASSUME IInv, IInv', Dies, exposed, Extends(owner')
  PROVE  exposed /\ Table!Disturb
<1>1. /\ ~running' /\ now' = now /\ now \in Nat
      /\ file' \in Seq(Line) /\ LinesOK(file', owner', now)
  BY DEF Dies, IInv, TypeOK
<1>2. Sessions' = [t \in Tokens |-> Loaded(file', t, now)]
  BY <1>1, SessionsDownNext
<1>3. \A t \in Tokens : \/ Sessions'[t] = Gone
                        \/ /\ Sessions'[t].entry = owner'[t]
                           /\ Sessions'[t].exp > now
                           /\ Sessions'[t].exp <= now + TTL
  BY <1>1, <1>2, LoadedIsAllowed
<1>. QED  BY <1>1, <1>3 DEF Table!Disturb, Table!Gone, Gone, Extends

\* With no write lost, a death while ln is written either loses ln or keeps it.
LEMMA DeathWriting ==
  ASSUME IInv, ~exposed, NEW ln \in Line, DiesWriting(ln)
  PROVE  \/ Sessions' = Sessions
         \/ Sessions' = [t \in Tokens |-> IF Grants(ln, t, now) THEN ln.sess
                                          ELSE IF Kills(ln, t) THEN Gone ELSE Sessions[t]]
<1>1. /\ ~running' /\ now' = now /\ now \in Int /\ file \in Seq(Line) /\ ~open
      /\ Garbage \in Line
  BY LineTypes DEF DiesWriting, Dies, IInv, TypeOK, WorldOK
<1>2. file' = Append(file, ln) \/ file' = Append(file, Garbage)
  BY <1>1 DEF DiesWriting, WithPart, WithLine
<1>3. /\ Sessions = [t \in Tokens |-> Loaded(file, t, now)]
      /\ Sessions' = [t \in Tokens |-> Loaded(file', t, now)]
  BY <1>1, FileSaysSessions, SessionsDownNext
<1>4. CASE file' = Append(file, ln)
  <2>1. \A t \in Tokens : Loaded(file', t, now) =
          IF Grants(ln, t, now) THEN ln.sess
          ELSE IF Kills(ln, t) THEN Gone ELSE Loaded(file, t, now)
    BY <1>1, <1>4, LoadedAppend
  <2>. QED  BY <1>3, <2>1
<1>5. CASE file' = Append(file, Garbage)
  <2>1. \A t \in Tokens : ~Grants(Garbage, t, now) /\ ~Kills(Garbage, t)
    BY LineTypes DEF Grants, Kills
  <2>2. \A t \in Tokens : Loaded(file', t, now) = Loaded(file, t, now)
    BY <1>1, <1>5, <2>1, LoadedAppend
  <2>. QED  BY <1>3, <2>2
<1>. QED  BY <1>2, <1>4, <1>5

LEMMA CrashStep == ASSUME IInv, IInv', Crash PROVE Step
<1>1. CASE exposed
  BY <1>1, DeathDisturbs DEF Step, Crash, Extends
<1>2. CASE ~exposed
  BY <1>2, FileSaysSessions, SessionsDownNext DEF Step, Crash, Dies
<1>. QED  BY <1>1, <1>2

LEMMA CrashInCreateStep ==
  ASSUME IInv, IInv', NEW t \in Tokens, NEW e \in Entries, CrashInCreate(t, e)
  PROVE  Step
<1>. DEFINE ln == IssueLine(t, Fresh(e))
<1>1. /\ owner[t] = NoEntry /\ Dies /\ DiesWriting(ln) /\ ~running' /\ now' = now
      /\ owner \in [Tokens -> Entries \cup {NoEntry}]
  BY DEF CrashInCreate, DiesWriting, Unissued, Dies, IInv, TypeOK
<1>2. \/ owner' = owner /\ Loaded(file', t, now) = Gone
      \/ owner' = [owner EXCEPT ![t] = e] /\ Loaded(file', t, now) = Fresh(e)
  BY CrashInCreateOwner
<1>3. CASE exposed
  <2>1. Extends(owner')
    BY <1>1, <1>2 DEF Extends
  <2>. QED  BY <1>1, <1>3, <2>1, DeathDisturbs DEF Step
<1>4. CASE ~exposed
  <2>1. Sessions'[t] = Loaded(file', t, now)
    BY <1>1, SessionsDownNext
  <2>2. Sessions = [u \in Tokens |-> Loaded(file, u, now)]
    BY <1>4, FileSaysSessions
  <2>3. Sessions[t] = Gone
    <3>1. \A i \in 1..Len(file) : ~Grants(file[i], t, now)
      BY <1>1 DEF IInv, LinesOK, Grants
    <3>. QED  BY <2>2, <3>1 DEF Loaded, Decides
  <2>4. Fresh(e) # Gone /\ Fresh(e) \in Session /\ Fresh(e).exp = now + TTL
        /\ now \in Nat
    BY FreshIsSession DEF IInv, TypeOK
  <2>5. ln \in Line
    BY <2>4, LineTypes
  <2>6. \/ Sessions' = Sessions
        \/ Sessions' = [u \in Tokens |-> IF Grants(ln, u, now) THEN ln.sess
                                         ELSE IF Kills(ln, u) THEN Gone ELSE Sessions[u]]
    BY <1>1, <1>4, <2>5, DeathWriting
  <2>7. \A u \in Tokens : /\ Grants(ln, u, now) <=> u = t
                          /\ ~Kills(ln, u)
                          /\ ln.sess = Fresh(e)
    BY <2>4 DEF Grants, Kills, IssueLine
  <2>8. Sessions' = Sessions \/ Sessions' = [Sessions EXCEPT ![t] = Fresh(e)]
    <3>1. CASE Sessions' = [u \in Tokens |-> IF Grants(ln, u, now) THEN ln.sess
                                             ELSE IF Kills(ln, u) THEN Gone ELSE Sessions[u]]
      BY <2>2, <2>7, <3>1
    <3>. QED  BY <2>6, <3>1
  <2>9. CASE Sessions' = Sessions
    BY <1>1, <1>2, <2>1, <2>3, <2>4, <2>9 DEF Step
  <2>10. CASE Sessions' = [Sessions EXCEPT ![t] = Fresh(e)]
    <3>1. Sessions'[t] = Fresh(e)
      BY <2>2, <2>10
    <3>2. owner' = [owner EXCEPT ![t] = e]
      BY <1>2, <2>1, <2>4, <3>1
    <3>3. Table!Issue(t, e)
      BY <1>1, <2>10, <3>2 DEF Table!Issue, Table!Fresh, Fresh
    <3>. QED  BY <3>3 DEF Step, Table!Clean
  <2>. QED  BY <2>8, <2>9, <2>10
<1>. QED  BY <1>3, <1>4

LEMMA CrashInRenewalStep ==
  ASSUME IInv, IInv', NEW t \in Tokens, CrashInRenewal(t)
  PROVE  Step
<1>. DEFINE e == live[t].entry
            ln == IssueLine(t, Fresh(e))
<1>1. /\ Dies /\ DiesWriting(ln) /\ running /\ ~running' /\ now' = now /\ owner' = owner
      /\ live[t] \in Session /\ live[t].exp > now /\ live[t].exp - now < Renew
      /\ now \in Nat
  BY DEF CrashInRenewal, DiesWriting, Dies, DueForRenewal, RenewedLine, IInv, TypeOK
<1>2. e \in Entries
  BY <1>1 DEF IInv, TypeOK, LiveOK, Gone
<1>3. CASE exposed
  BY <1>1, <1>3, DeathDisturbs DEF Step, Extends
<1>4. CASE ~exposed
  <2>1. Sessions \in [Tokens -> Session] /\ Sessions[t] = live[t]
    <3>1. live \in [Tokens -> Session]
      BY DEF IInv, TypeOK
    <3>. QED  BY <1>1, <3>1, SessionsUp, LineTypes DEF Alive
  <2>2. Fresh(e) \in Session /\ Fresh(e).exp = now + TTL
    BY <1>2, FreshIsSession
  <2>3. ln \in Line
    BY <2>2, LineTypes
  <2>4. \/ Sessions' = Sessions
        \/ Sessions' = [u \in Tokens |-> IF Grants(ln, u, now) THEN ln.sess
                                         ELSE IF Kills(ln, u) THEN Gone ELSE Sessions[u]]
    BY <1>1, <1>4, <2>3, DeathWriting
  <2>5. \A u \in Tokens : /\ Grants(ln, u, now) <=> u = t
                          /\ ~Kills(ln, u)
                          /\ ln.sess = Fresh(e)
    BY <1>1, <2>2 DEF Grants, Kills, IssueLine
  <2>6. Fresh(e) = [live[t] EXCEPT !.exp = now + TTL]
    BY <1>1 DEF Fresh, Session
  <2>7. CASE Sessions' = [u \in Tokens |-> IF Grants(ln, u, now) THEN ln.sess
                                           ELSE IF Kills(ln, u) THEN Gone ELSE Sessions[u]]
    <3>1. Sessions' = [Sessions EXCEPT ![t] = Fresh(e)]
      BY <2>1, <2>5, <2>7
    <3>2. Sessions' = [Sessions EXCEPT ![t].exp = now + TTL]
      BY <2>1, <2>6, <3>1
    <3>3. Table!Extend(t)
      BY <1>1, <2>1, <3>2 DEF Table!Extend, Table!Renew, Renew
    <3>. QED  BY <3>3 DEF Step, Table!Clean
  <2>. QED  BY <1>1, <2>4, <2>7 DEF Step
<1>. QED  BY <1>3, <1>4

LEMMA CrashInRevokeStep ==
  ASSUME IInv, IInv', NEW t \in Tokens, CrashInRevoke(t)
  PROVE  Step
<1>. DEFINE ln == RevokeLine(t)
<1>1. /\ Dies /\ DiesWriting(ln) /\ now' = now /\ owner' = owner /\ ln \in Line
  BY LineTypes DEF CrashInRevoke, DiesWriting, Dies
<1>2. CASE exposed
  BY <1>1, <1>2, DeathDisturbs DEF Step, Extends
<1>3. CASE ~exposed
  <2>1. \/ Sessions' = Sessions
        \/ Sessions' = [u \in Tokens |-> IF Grants(ln, u, now) THEN ln.sess
                                         ELSE IF Kills(ln, u) THEN Gone ELSE Sessions[u]]
    BY <1>1, <1>3, DeathWriting
  <2>2. \A u \in Tokens : ~Grants(ln, u, now) /\ (Kills(ln, u) <=> u \in {t})
    BY DEF Grants, Kills, RevokeLine
  <2>3. CASE Sessions' = [u \in Tokens |-> IF Grants(ln, u, now) THEN ln.sess
                                           ELSE IF Kills(ln, u) THEN Gone ELSE Sessions[u]]
    <3>1. Sessions' = [u \in Tokens |-> IF u \in {t} THEN Gone ELSE Sessions[u]]
      BY <2>2, <2>3
    <3>2. Table!Revoke({t})
      BY <1>1, <3>1 DEF Table!Revoke, Table!Gone, Gone
    <3>. QED  BY <3>2 DEF Step, Table!Clean
  <2>. QED  BY <1>1, <2>1, <2>3 DEF Step
<1>. QED  BY <1>2, <1>3

LEMMA CrashInPurgeStep == ASSUME IInv, IInv', CrashInPurge PROVE Step
<1>1. /\ Dies /\ DiesWriting(PurgeLine) /\ now' = now /\ owner' = owner
      /\ PurgeLine \in Line
  BY LineTypes DEF CrashInPurge, DiesWriting, Dies
<1>2. CASE exposed
  BY <1>1, <1>2, DeathDisturbs DEF Step, Extends
<1>3. CASE ~exposed
  <2>1. \/ Sessions' = Sessions
        \/ Sessions' = [u \in Tokens |-> IF Grants(PurgeLine, u, now) THEN PurgeLine.sess
                                         ELSE IF Kills(PurgeLine, u) THEN Gone
                                         ELSE Sessions[u]]
    BY <1>1, <1>3, DeathWriting
  <2>2. \A u \in Tokens : ~Grants(PurgeLine, u, now) /\ Kills(PurgeLine, u)
    BY DEF Grants, Kills, PurgeLine
  <2>3. CASE Sessions' = [u \in Tokens |-> IF Grants(PurgeLine, u, now) THEN PurgeLine.sess
                                           ELSE IF Kills(PurgeLine, u) THEN Gone
                                           ELSE Sessions[u]]
    <3>1. Sessions' = [u \in Tokens |-> IF u \in Tokens THEN Gone ELSE Sessions[u]]
      BY <2>2, <2>3
    <3>2. Table!Revoke(Tokens)
      BY <1>1, <3>1 DEF Table!Revoke, Table!Gone, Gone
    <3>. QED  BY <3>2 DEF Step, Table!Clean
  <2>. QED  BY <1>1, <2>1, <2>3 DEF Step
<1>. QED  BY <1>2, <1>3

LEMMA StartStep == ASSUME IInv, Start PROVE UNCHANGED <<Sessions, owner, now>>
<1>1. /\ ~running /\ running' /\ live' = Replay(file, now) /\ now' = now /\ owner' = owner
      /\ file \in Seq(Line) /\ now \in Int
  BY DEF Start, IInv, TypeOK
<1>2. ASSUME NEW t \in Tokens
      PROVE  Alive(Loaded(file, t, now), now) = Loaded(file, t, now)
  BY <1>1, LoadedFrom DEF Alive
<1>3. Sessions' = Sessions
  BY <1>1, <1>2, SessionsDown, SessionsUpNext DEF Replay
<1>. QED  BY <1>1, <1>3

LEMMA StartUnreadableStep == ASSUME IInv, StartUnreadable PROVE Step
<1>1. /\ running' /\ exposed' /\ now' = now /\ owner' = owner
      /\ \A t \in Tokens : live'[t] = Gone
  BY DEF StartUnreadable, IInv, WorldOK
<1>2. Sessions' = [t \in Tokens |-> Gone]
  BY <1>1, SessionsUpNext DEF Alive
<1>. QED  BY <1>1, <1>2 DEF Step

-----------------------------------------------------------------------------
(* The theorems                                                            *)

LEMMA EveryStep == IInv /\ IInv' /\ [Next]_vars => Step
<1>. SUFFICES ASSUME IInv, IInv', [Next]_vars PROVE Step
  OBVIOUS
<1>1. CASE \E t \in Tokens, e \in Entries : Create(t, e)
  BY <1>1, CreateStep DEF Step, Table!Clean
<1>2. CASE \E t \in Tokens : VerifyExpired(t) \/ Destroy(t) \/ RevokeNext(t)
  <2>1. PICK t \in Tokens : VerifyExpired(t) \/ Destroy(t) \/ RevokeNext(t)
    BY <1>2
  <2>2. running /\ live' = [live EXCEPT ![t] = Gone] /\ UNCHANGED <<running, now, owner>>
    BY <2>1 DEF VerifyExpired, Destroy, RevokeNext, Revoking, Idle
  <2>3. Table!Revoke({t})
    BY <2>2, RevokingStep
  <2>. QED  BY <2>3 DEF Step, Table!Clean
<1>3. CASE \E t \in Tokens : VerifyRenews(t)
  BY <1>3, RenewStep DEF Step, Table!Clean
<1>4. CASE \/ \E e \in Entries : DestroyEntrySessions(e)
           \/ \E keep \in Tokens : DestroyAllExcept(keep)
           \/ UNCHANGED vars
  <2>1. UNCHANGED <<live, file, running, now, owner>>
    BY <1>4 DEF DestroyEntrySessions, DestroyAllExcept, vars
  <2>2. Sessions' = Sessions
    BY <2>1 DEF Sessions, Replay
  <2>. QED  BY <2>1, <2>2 DEF Step
<1>5. CASE DestroyAll
  <2>1. Table!Revoke(Tokens)
    BY <1>5, DestroyAllStep
  <2>. QED  BY <2>1 DEF Step, Table!Clean
<1>6. CASE Tick
  BY <1>6, TickStep DEF Step, Table!Clean
<1>7. CASE Crash
  BY <1>7, CrashStep
<1>8. CASE \E t \in Tokens, e \in Entries : CrashInCreate(t, e)
  BY <1>8, CrashInCreateStep
<1>9. CASE \E t \in Tokens : CrashInRenewal(t)
  BY <1>9, CrashInRenewalStep
<1>10. CASE \E t \in Tokens : CrashInRevoke(t)
  BY <1>10, CrashInRevokeStep
<1>11. CASE CrashInPurge
  BY <1>11, CrashInPurgeStep
<1>12. CASE Start
  BY <1>12, StartStep DEF Step
<1>13. CASE StartUnreadable
  BY <1>13, StartUnreadableStep
<1>. QED
  BY <1>1, <1>2, <1>3, <1>4, <1>5, <1>6, <1>7, <1>8, <1>9, <1>10, <1>11, <1>12,
     <1>13 DEF Next

\* A token whose session ended never opens an entry again, across crashes and
\* restarts, unless writes were lost when the process died.
THEOREM EndedStaysEnded == Spec => NoResurrection
<1>. DEFINE P == \A t \in Tokens :
                   owner[t] # NoEntry /\ Sessions[t] = Gone => Sessions'[t] = Gone \/ exposed
<1>1. IInv /\ Step => P
  <2>. SUFFICES ASSUME IInv, Step, NEW t \in Tokens, owner[t] # NoEntry,
                       Sessions[t] = Gone, ~exposed
                PROVE  Sessions'[t] = Gone
    OBVIOUS
  <2>0. Sessions = [u \in Tokens |-> Sessions[u]]
    BY DEF Sessions, Replay
  <2>1. ASSUME NEW u \in Tokens, NEW e \in Entries, Table!Issue(u, e)
        PROVE  Sessions'[t] = Gone
    BY <2>0, <2>1 DEF Table!Issue
  <2>2. ASSUME NEW u \in Tokens, Table!Extend(u)
        PROVE  Sessions'[t] = Gone
    <3>1. u # t
      BY <2>2 DEF Table!Extend, Gone, IInv, TypeOK
    <3>. QED  BY <2>0, <2>2, <3>1 DEF Table!Extend
  <2>3. ASSUME NEW S \in SUBSET Tokens, Table!Revoke(S)
        PROVE  Sessions'[t] = Gone
    BY <2>3 DEF Table!Revoke, Table!Gone, Gone
  <2>4. CASE Table!Pass
    BY <2>4 DEF Table!Pass, Table!Gone, Gone
  <2>. QED  BY <2>1, <2>2, <2>3, <2>4 DEF Step, Table!Clean
<1>2. IInv /\ IInv' /\ [Next]_vars => [P]_vars
  BY <1>1, EveryStep
<1>. QED  BY <1>2, Invariant, PTL DEF Spec, NoResurrection

\* The store implements the table: its first state is the empty table and each
\* of its steps is a step of the table or leaves the table alone.
THEOREM StoreImplementsTable == Spec => ImplementsTable
<1>1. Init => Table!Init
  <2>. SUFFICES ASSUME Init PROVE Table!Init
    OBVIOUS
  <2>1. Sessions = [t \in Tokens |-> Gone]
    BY DEF Init, Sessions, Alive
  <2>. QED  BY <2>1 DEF Init, Table!Init, Table!Gone, Gone
<1>2. IInv /\ IInv' /\ Step => [Table!Next]_Table!tableVars
  <2>. SUFFICES ASSUME IInv, IInv', Step PROVE Table!Next
    OBVIOUS
  <2>0. exposed' \in BOOLEAN
    BY DEF IInv, TypeOK
  <2>1. CASE Table!Clean
    BY <2>0, <2>1 DEF Table!Next
  <2>2. CASE UNCHANGED <<Sessions, owner, now>>
    <3>1. Sessions = [t \in Tokens |-> Sessions[t]]
      BY DEF Sessions, Replay
    <3>2. Table!Revoke({})
      BY <2>2, <3>1 DEF Table!Revoke
    <3>. QED  BY <2>0, <3>2 DEF Table!Next, Table!Clean
  <2>3. CASE exposed /\ Table!Disturb
    BY <2>3 DEF Table!Next
  <2>4. CASE exposed' /\ Sessions' = [t \in Tokens |-> Gone] /\ UNCHANGED <<owner, now>>
    BY <2>4 DEF Table!Next, Table!Disturb, Table!Gone, Gone
  <2>. QED  BY <2>1, <2>2, <2>3, <2>4 DEF Step
<1>3. IInv /\ IInv' /\ [Next]_vars => [Table!Next]_Table!tableVars
  BY <1>2, EveryStep
<1>. QED  BY <1>1, <1>3, Invariant, PTL DEF Spec, ImplementsTable, Table!Spec
=============================================================================
