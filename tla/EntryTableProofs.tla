--------------------------- MODULE EntryTableProofs ---------------------------
(***************************************************************************)
(* Proofs about EntryTable, for any addresses, any patch configurations of *)
(* bounded length and any number of added rows: what deduplication makes   *)
(* of a list of addresses, and from it that no address has two entries and *)
(* that every entry behind the patch rows has a row.                       *)
(***************************************************************************)
EXTENDS EntryTable, TLAPS, WellFoundedInduction, SequenceTheorems

-----------------------------------------------------------------------------
(* Deduplication                                                           *)

\* Induction, for a set of numbers.
LEMMA NatSetInduction ==
  ASSUME NEW T, 0 \in T, \A n \in Nat : n \in T => n + 1 \in T
  PROVE  \A n \in Nat : n \in T
<1>. DEFINE S == {n \in Nat : n \notin T}
<1>1. SUFFICES ASSUME S # {}
               PROVE  FALSE
  OBVIOUS
<1>2. PICK n \in S : \A m \in S : <<m, n>> \notin OpToRel(<, Nat)
  BY <1>1, NatLessThanWellFounded, WFMin, Zenon
<1>3. \A m \in S : ~(m < n)
  BY <1>2, Zenon DEF OpToRel
<1>4. n # 0 /\ n - 1 \in Nat /\ n - 1 \notin S
  BY <1>3
<1>. QED  BY <1>4

\* One more address behind those that are kept.
Kept(out, a) == IF Contains(out, a) THEN out ELSE Append(out, a)

\* What the fold makes of the positions in t, when f has what it makes of fewer.
FoldStep(f, s, t) ==
  IF t = {} THEN <<>> ELSE Kept(f[t \ {Max(t)}], s[Max(t)])

LEMMA DedupedIsFold ==
  ASSUME NEW s
  PROVE  Deduped(s) = (CHOOSE f : f = [t \in SUBSET DOMAIN s |-> FoldStep(f, s, t)])[DOMAIN s]
BY DEF Deduped, FoldLeft, MapThenFoldSet, FoldStep, Kept

LEMMA MaxOf ==
  ASSUME NEW n \in Nat, NEW t, n \in t, t \subseteq 1..n
  PROVE  Max(t) = n
<1>1. n \in t /\ \A y \in t : n >= y
  OBVIOUS
<1>2. \A x \in t : (\A y \in t : x >= y) => x = n
  OBVIOUS
<1>. QED  BY <1>1, <1>2 DEF Max

\* There is such a fold.
LEMMA FoldExists ==
  ASSUME NEW s
  PROVE  \A n \in Nat : \E f : f = [t \in SUBSET (1..n) |-> FoldStep(f, s, t)]
<1>. DEFINE T == {n \in Nat : \E f : f = [t \in SUBSET (1..n) |-> FoldStep(f, s, t)]}
<1>1. 0 \in T
  <2>. DEFINE f == [t \in SUBSET (1..0) |-> <<>>]
  <2>1. \A t \in SUBSET (1..0) : t = {} /\ FoldStep(f, s, t) = <<>>
    BY DEF FoldStep
  <2>2. f = [t \in SUBSET (1..0) |-> FoldStep(f, s, t)]
    BY <2>1
  <2>. QED  BY <2>2
<1>2. ASSUME NEW n \in Nat, n \in T
      PROVE  n + 1 \in T
  <2>1. PICK f : f = [t \in SUBSET (1..n) |-> FoldStep(f, s, t)]
    BY <1>2
  <2>. DEFINE g == [t \in SUBSET (1..(n + 1)) |->
                      IF n + 1 \in t THEN Kept(f[t \ {n + 1}], s[n + 1]) ELSE f[t]]
  <2>2. ASSUME NEW t \in SUBSET (1..(n + 1))
        PROVE  g[t] = FoldStep(g, s, t)
    <3>1. CASE n + 1 \in t
      <4>1. Max(t) = n + 1
        <5>1. n + 1 \in Nat /\ t \subseteq 1..(n + 1)
          OBVIOUS
        <5>. QED  BY <3>1, <5>1, MaxOf
      <4>2. g[t \ {n + 1}] = f[t \ {n + 1}]
        OBVIOUS
      <4>. QED  BY <3>1, <4>1, <4>2 DEF FoldStep
    <3>2. CASE n + 1 \notin t
      <4>1. t \in SUBSET (1..n)
        BY <3>2
      <4>2. t \ {Max(t)} \in SUBSET (1..n) /\ n + 1 \notin t \ {Max(t)}
        BY <3>2, <4>1
      <4>3. g[t \ {Max(t)}] = f[t \ {Max(t)}] /\ g[t] = f[t]
        BY <3>2, <4>2
      <4>4. f[t] = FoldStep(f, s, t)
        BY <2>1, <4>1
      <4>. QED  BY <4>3, <4>4 DEF FoldStep
    <3>. QED  BY <3>1, <3>2
  <2>3. g = [t \in SUBSET (1..(n + 1)) |-> FoldStep(g, s, t)]
    BY <2>2
  <2>. HIDE DEF g
  <2>4. \E h : h = [t \in SUBSET (1..(n + 1)) |-> FoldStep(h, s, t)]
    BY <2>3
  <2>. QED  BY <2>4
<1>3. \A n \in Nat : n \in T => n + 1 \in T
  BY <1>2
<1>4. \A n \in Nat : n \in T
  <2>. HIDE DEF T
  <2>. QED  BY <1>1, <1>3, NatSetInduction
<1>. QED  BY <1>4

\* Deduped(s) is what the addresses of s, kept one after the other, come to.
LEMMA DedupedByOne ==
  ASSUME NEW S, NEW s \in Seq(S)
  PROVE  \E g : /\ g[0] = <<>>
                /\ \A k \in 1..Len(s) : g[k] = Kept(g[k - 1], s[k])
                /\ g[Len(s)] = Deduped(s)
<1>. DEFINE n == Len(s)
            f == CHOOSE f : f = [t \in SUBSET (1..n) |-> FoldStep(f, s, t)]
            g == [k \in 0..n |-> f[1..k]]
<1>1. n \in Nat /\ DOMAIN s = 1..n
  OBVIOUS
<1>2. f = [t \in SUBSET (1..n) |-> FoldStep(f, s, t)]
  BY <1>1, FoldExists
<1>3. f[1..n] = Deduped(s)
  BY <1>1, DedupedIsFold
<1>. HIDE DEF f
<1>4. g[0] = <<>>
  BY <1>1, <1>2 DEF FoldStep
<1>5. ASSUME NEW k \in 1..n
      PROVE  g[k] = Kept(g[k - 1], s[k])
  <2>0. k \in Nat /\ k \in 1..k
    BY <1>1
  <2>a. Max(1..k) = k
    <3>. PICK t : t = 1..k
      OBVIOUS
    <3>. QED  BY <2>0, MaxOf
  <2>b. (1..k) \ {k} = 1..(k - 1)
    BY <2>0
  <2>1. Max(1..k) = k /\ 1..k # {} /\ (1..k) \ {k} = 1..(k - 1)
    BY <2>0, <2>a, <2>b
  <2>2. 1..k \in SUBSET (1..n)
    BY <1>1
  <2>3. f[1..k] = Kept(f[1..(k - 1)], s[k])
    BY <1>2, <2>1, <2>2 DEF FoldStep
  <2>. QED  BY <1>1, <2>3
<1>6. g[n] = Deduped(s)
  BY <1>1, <1>3
<1>. QED  BY <1>4, <1>5, <1>6

\* What keeping a makes of out: it is put behind it, unless it is there.
Grown(S, out, a, next) ==
  /\ next \in Seq(S) /\ IsInjective(next)
  /\ \/ Len(next) = Len(out) + 1 /\ next[Len(out) + 1] = a
     \/ Len(next) = Len(out) /\ Contains(out, a)
  /\ \A i \in 1..Len(out) : next[i] = out[i]

LEMMA KeptGrows ==
  ASSUME NEW S, NEW out, out \in Seq(S), IsInjective(out), NEW a, a \in S
  PROVE  Grown(S, out, a, Kept(out, a))
BY DEF Grown, Kept, Contains, IsInjective

\* What is distinct at the beginning of a list.
Distinct(s, n) == n \in 0..Len(s) /\ \A i, j \in 1..n : s[i] = s[j] => i = j

\* d has addresses like s, each once.  What is distinct at the beginning of s stays
\* there, and nothing is moved unless something is dropped.
MadeOf(S, s, d) ==
  /\ d \in Seq(S) /\ IsInjective(d) /\ Len(d) <= Len(s)
  /\ Len(d) = Len(s) => d = s
  /\ \A n \in 0..Len(s) : Distinct(s, n) => Len(d) >= n /\ \A i \in 1..n : d[i] = s[i]

LEMMA DedupedFields ==
  ASSUME NEW S, NEW s, s \in Seq(S)
  PROVE  MadeOf(S, s, Deduped(s))
<1>1. PICK g : /\ g[0] = <<>>
               /\ \A k \in 1..Len(s) : g[k] = Kept(g[k - 1], s[k])
               /\ g[Len(s)] = Deduped(s)
  BY DedupedByOne
<1>. DEFINE T == {k \in Nat : k <= Len(s) =>
                    /\ g[k] \in Seq(S) /\ IsInjective(g[k]) /\ Len(g[k]) <= k
                    /\ Len(g[k]) = k => \A i \in 1..k : g[k][i] = s[i]}
<1>2. 0 \in T
  <2>1. <<>> \in Seq(S) /\ Len(<<>>) = 0 /\ IsInjective(<<>>)
    BY DEF IsInjective
  <2>2. /\ g[0] \in Seq(S) /\ IsInjective(g[0]) /\ Len(g[0]) <= 0
        /\ \A i \in 1..0 : g[0][i] = s[i]
    BY <1>1, <2>1
  <2>. QED  BY <2>2
<1>3. ASSUME NEW k \in Nat, k \in T, k + 1 <= Len(s)
      PROVE  /\ g[k + 1] \in Seq(S) /\ IsInjective(g[k + 1]) /\ Len(g[k + 1]) <= k + 1
             /\ Len(g[k + 1]) = k + 1 => \A i \in 1..(k + 1) : g[k + 1][i] = s[i]
  <2>1. g[k + 1] = Kept(g[k], s[k + 1]) /\ s[k + 1] \in S
    BY <1>1, <1>3
  <2>2. /\ g[k] \in Seq(S) /\ IsInjective(g[k]) /\ Len(g[k]) <= k
        /\ Len(g[k]) = k => \A i \in 1..k : g[k][i] = s[i]
    BY <1>3
  <2>3. /\ g[k + 1] \in Seq(S) /\ IsInjective(g[k + 1])
        /\ \/ Len(g[k + 1]) = Len(g[k]) + 1 /\ g[k + 1][Len(g[k]) + 1] = s[k + 1]
           \/ Len(g[k + 1]) = Len(g[k])
        /\ \A i \in 1..Len(g[k]) : g[k + 1][i] = g[k][i]
    <3>1. Grown(S, g[k], s[k + 1], g[k + 1])
      BY <2>1, <2>2, KeptGrows
    <3>. QED  BY <3>1 DEF Grown
  <2>. QED  BY <2>2, <2>3
<1>4. \A k \in 0..Len(s) : k \in T
  <2>1. \A k \in Nat : k \in T => k + 1 \in T
    BY <1>3
  <2>. HIDE DEF T
  <2>2. \A k \in Nat : k \in T
    BY <1>2, <2>1, NatSetInduction
  <2>. QED  BY <2>2
<1>5. /\ Deduped(s) \in Seq(S) /\ IsInjective(Deduped(s)) /\ Len(Deduped(s)) <= Len(s)
      /\ Len(Deduped(s)) = Len(s) => \A i \in 1..Len(s) : Deduped(s)[i] = s[i]
  BY <1>1, <1>4
<1>6. ASSUME NEW n \in 0..Len(s), Distinct(s, n)
      PROVE  Len(Deduped(s)) >= n /\ \A i \in 1..n : Deduped(s)[i] = s[i]
  <2>. DEFINE U == {k \in Nat : k <= Len(s) =>
                      /\ k <= n => Len(g[k]) = k /\ \A i \in 1..k : g[k][i] = s[i]
                      /\ k >= n => Len(g[k]) >= n /\ \A i \in 1..n : g[k][i] = s[i]}
  <2>1. 0 \in U
    BY <1>1
  <2>2. ASSUME NEW k \in Nat, k \in U, k + 1 <= Len(s)
        PROVE  /\ k + 1 <= n => Len(g[k + 1]) = k + 1 /\ \A i \in 1..(k + 1) : g[k + 1][i] = s[i]
               /\ k + 1 >= n => Len(g[k + 1]) >= n /\ \A i \in 1..n : g[k + 1][i] = s[i]
    <3>1. g[k] \in Seq(S) /\ IsInjective(g[k]) /\ s[k + 1] \in S /\ g[k + 1] = Kept(g[k], s[k + 1])
      BY <1>1, <1>4, <2>2
    <3>2. /\ \/ Len(g[k + 1]) = Len(g[k]) + 1 /\ g[k + 1][Len(g[k]) + 1] = s[k + 1]
             \/ Len(g[k + 1]) = Len(g[k]) /\ Contains(g[k], s[k + 1])
          /\ \A i \in 1..Len(g[k]) : g[k + 1][i] = g[k][i]
      <4>1. Grown(S, g[k], s[k + 1], g[k + 1])
        BY <3>1, KeptGrows
      <4>. QED  BY <4>1 DEF Grown
    <3>3. CASE k + 1 <= n
      <4>1. Len(g[k]) = k /\ \A i \in 1..k : g[k][i] = s[i]
        BY <2>2, <3>3
      <4>2. ~Contains(g[k], s[k + 1])
        BY <1>6, <3>3, <4>1 DEF Contains, Distinct
      <4>3. Len(g[k + 1]) = k + 1 /\ g[k + 1][k + 1] = s[k + 1]
        BY <3>2, <4>1, <4>2
      <4>4. \A i \in 1..k : g[k + 1][i] = s[i]
        BY <3>2, <4>1
      <4>. QED  BY <2>2, <3>3, <4>3, <4>4
    <3>4. CASE k >= n
      BY <2>2, <3>2, <3>4
    <3>. QED  BY <3>3, <3>4
  <2>3. \A k \in 0..Len(s) : k \in U
    <3>1. \A k \in Nat : k \in U => k + 1 \in U
      BY <2>2
    <3>. HIDE DEF U
    <3>2. \A k \in Nat : k \in U
      BY <2>1, <3>1, NatSetInduction
    <3>. QED  BY <3>2
  <2>. QED  BY <1>1, <2>3
<1>7. Len(Deduped(s)) = Len(s) => Deduped(s) = s
  BY <1>5, SeqEqual
<1>. QED  BY <1>5, <1>6, <1>7 DEF MadeOf

-----------------------------------------------------------------------------
(* The table of a start                                                    *)

LEMMA LongestPatch ==
  /\ MaxPatch \in Nat
  /\ \A p \in Patches : p \in Seq(Addresses) /\ Len(p) <= MaxPatch
<1>1. PICK p \in Patches : \A q \in Patches : Len(q) <= Len(p)
  BY EntryTableAssumption
<1>2. \A q \in Patches : q \in Seq(Addresses) /\ Len(q) \in Nat
  BY EntryTableAssumption
<1>3. \E n \in {Len(q) : q \in Patches} : \A q \in Patches : Len(q) <= n
  BY <1>1
<1>4. MaxPatch \in {Len(q) : q \in Patches} /\ \A q \in Patches : Len(q) <= MaxPatch
  BY <1>3, Zenon DEF MaxPatch
<1>. QED  BY <1>2, <1>4

\* Entry 0 is the owner's, no address is there twice.
LEMMA ResolvedFields ==
  ASSUME NEW patch \in Patches
  PROVE  /\ Resolved(patch) \in Seq(Addresses) /\ IsInjective(Resolved(patch))
         /\ 1 <= Len(Resolved(patch)) /\ Len(Resolved(patch)) <= MaxPatch + 1
         /\ Resolved(patch)[1] = Owner
<1>. PICK s : s = <<Owner>> \o patch
  OBVIOUS
<1>1. patch \in Seq(Addresses) /\ Len(patch) <= MaxPatch /\ MaxPatch \in Nat
  BY LongestPatch
<1>2. s \in Seq(Addresses) /\ Len(s) = 1 + Len(patch) /\ s[1] = Owner
  BY <1>1, EntryTableAssumption
<1>3. Resolved(patch) = Deduped(s)
  BY DEF Resolved
<1>4. Distinct(s, 1)
  BY <1>1, <1>2 DEF Distinct
<1>5. MadeOf(Addresses, s, Deduped(s))
  BY <1>2, DedupedFields
<1>6. /\ Deduped(s) \in Seq(Addresses) /\ IsInjective(Deduped(s)) /\ Len(Deduped(s)) <= Len(s)
      /\ Len(Deduped(s)) >= 1 /\ Deduped(s)[1] = s[1]
  BY <1>1, <1>2, <1>4, <1>5 DEF MadeOf
<1>. QED  BY <1>1, <1>2, <1>3, <1>6

LEMMA AddressesFields ==
  ASSUME NEW rs, rs \in Seq(Row)
  PROVE  /\ AddressesOf(rs) \in Seq(Addresses) /\ Len(AddressesOf(rs)) = Len(rs)
         /\ \A k \in 1..Len(rs) : AddressesOf(rs)[k] = rs[k].addr
<1>1. \A r \in Row : r.addr \in Addresses
  BY DEF Row
<1>. QED  BY <1>1 DEF AddressesOf

\* The entries of a start are those of the configuration, and behind them at most
\* one for each row; where there is one for each, they are in order.
TableOf(r, rs, d) ==
  /\ d \in Seq(Addresses) /\ IsInjective(d)
  /\ Len(r) <= Len(d) /\ Len(d) <= Len(r) + Len(rs)
  /\ \A i \in 1..Len(r) : d[i] = r[i]
  /\ Len(d) = Len(r) + Len(rs) => \A k \in 1..Len(rs) : d[Len(r) + k] = rs[k].addr

LEMMA RebuiltFields ==
  ASSUME NEW patch \in Patches, NEW rs, rs \in Seq(Row)
  PROVE  TableOf(Resolved(patch), rs, Rebuilt(patch, rs))
<1>. PICK r : r = Resolved(patch)
  OBVIOUS
<1>. PICK s : s = r \o AddressesOf(rs)
  OBVIOUS
<1>1. r \in Seq(Addresses) /\ IsInjective(r) /\ Len(r) \in Nat /\ Len(rs) \in Nat
  BY ResolvedFields
<1>2. /\ s \in Seq(Addresses) /\ Len(s) = Len(r) + Len(rs)
      /\ \A i \in 1..Len(r) : s[i] = r[i]
      /\ \A k \in 1..Len(rs) : s[Len(r) + k] = rs[k].addr
  <2>. PICK t : t = AddressesOf(rs)
    OBVIOUS
  <2>1. /\ t \in Seq(Addresses) /\ Len(t) = Len(rs)
        /\ \A k \in 1..Len(rs) : t[k] = rs[k].addr
    BY AddressesFields
  <2>a. r \in Seq(Addresses) /\ t \in Seq(Addresses) /\ s = r \o t
    BY <1>1, <2>1
  <2>2. s = r \o t /\ Len(s) = Len(r) + Len(t) /\ s \in Seq(Addresses)
    BY <2>a
  <2>3. \A i \in 1..Len(r) : s[i] = r[i]
    BY <1>1, <2>1, <2>2
  <2>4. \A k \in 1..Len(t) : s[Len(r) + k] = t[k]
    BY <1>1, <2>1, <2>2
  <2>. QED  BY <2>1, <2>2, <2>3, <2>4
<1>3. Rebuilt(patch, rs) = Deduped(s)
  BY DEF Rebuilt
<1>4. MadeOf(Addresses, s, Deduped(s))
  BY <1>2, DedupedFields
<1>5. Distinct(s, Len(r)) /\ Len(r) \in 0..Len(s)
  BY <1>1, <1>2 DEF Distinct, IsInjective
<1>6. /\ Deduped(s) \in Seq(Addresses) /\ IsInjective(Deduped(s)) /\ Len(Deduped(s)) <= Len(s)
      /\ Len(Deduped(s)) = Len(s) => Deduped(s) = s
      /\ Len(Deduped(s)) >= Len(r) /\ \A i \in 1..Len(r) : Deduped(s)[i] = s[i]
  BY <1>4, <1>5 DEF MadeOf
<1>. QED  BY <1>1, <1>2, <1>3, <1>6 DEF TableOf

-----------------------------------------------------------------------------
(* The inductive invariant                                                 *)

\* The table begins with the entries of the configuration.
FromConfig ==
  /\ base = Len(Resolved(config))
  /\ \A i \in 1..base : defs[i] = Resolved(config)[i]

\* There is at most one entry for each row; where there is one for each row, they
\* are in the same order.
InOrder ==
  /\ Len(defs) <= base + Len(rows)
  /\ Len(defs) = base + Len(rows) => \A k \in 1..Len(rows) : defs[base + k] = rows[k].addr

\* What is on disk is what is in memory, unless a write was lost.
FilesAgree == ~lost => diskFlags = flags /\ diskRows = rows

\* While nothing has moved every row has its entry, no index has a password that has
\* not had an entry, and what a row says of deletion the flags say as well.
Unmoved ==
  ~moved =>
    /\ Len(defs) = base + Len(rows)
    /\ \A i \in pw : i < Len(defs)
    /\ \A k \in 1..Len(rows) : rows[k].deleted => base + k - 1 \in flags.deleted
    /\ added # 0 => added \notin pw

IInv == /\ TypeOK
        /\ IsInjective(defs)
        /\ FromConfig
        /\ InOrder
        /\ FilesAgree
        /\ Unmoved

\* Where every row has its entry, a start from the same rows gives the same table.
LEMMA SameAgain ==
  ASSUME IInv, Len(defs) = base + Len(rows)
  PROVE  Rebuilt(config, rows) = defs
<1>. PICK r : r = Resolved(config)
  OBVIOUS
<1>. PICK s : s = r \o AddressesOf(rows)
  OBVIOUS
<1>1. /\ defs \in Seq(Addresses) /\ rows \in Seq(Row) /\ base \in Nat /\ IsInjective(defs)
      /\ base = Len(r) /\ \A i \in 1..base : defs[i] = r[i]
      /\ \A k \in 1..Len(rows) : defs[base + k] = rows[k].addr
  BY DEF IInv, TypeOK, FromConfig, InOrder
<1>2. r \in Seq(Addresses)
  BY ResolvedFields DEF IInv, TypeOK
<1>3. /\ s \in Seq(Addresses) /\ Len(s) = Len(r) + Len(rows)
      /\ \A i \in 1..Len(s) : s[i] = IF i <= Len(r) THEN r[i] ELSE rows[i - Len(r)].addr
  <2>. PICK t : t = AddressesOf(rows)
    OBVIOUS
  <2>1. /\ t \in Seq(Addresses) /\ Len(t) = Len(rows)
        /\ \A k \in 1..Len(rows) : t[k] = rows[k].addr
    BY <1>1, AddressesFields
  <2>a. r \in Seq(Addresses) /\ t \in Seq(Addresses) /\ s = r \o t
    BY <1>2, <2>1
  <2>2. s = r \o t /\ Len(s) = Len(r) + Len(t) /\ s \in Seq(Addresses)
    BY <2>a
  <2>3. ASSUME NEW i \in 1..Len(s)
        PROVE  s[i] = IF i <= Len(r) THEN r[i] ELSE rows[i - Len(r)].addr
    <3>1. CASE i <= Len(r)
      BY <1>2, <2>1, <2>2, <3>1
    <3>2. CASE ~(i <= Len(r))
      <4>1. i - Len(r) \in 1..Len(t) /\ s[i] = t[i - Len(r)]
        BY <1>2, <2>1, <2>2, <3>2
      <4>. QED  BY <2>1, <3>2, <4>1
    <3>. QED  BY <3>1, <3>2
  <2>. QED  BY <2>1, <2>2, <2>3
<1>4. \A i \in 1..Len(s) : s[i] = defs[i]
  <2>1. ASSUME NEW i \in 1..Len(s), ~(i <= base)
        PROVE  defs[i] = rows[i - base].addr
    <3>1. i - base \in 1..Len(rows) /\ base + (i - base) = i
      BY <1>1, <1>3, <2>1
    <3>. QED  BY <1>1, <3>1
  <2>2. ASSUME NEW i \in 1..Len(s), i <= base
        PROVE  s[i] = defs[i]
    <3>1. i \in 1..base /\ i <= Len(r)
      BY <1>1, <1>3, <2>2
    <3>. QED  BY <1>1, <1>3, <3>1
  <2>. QED  BY <1>1, <1>3, <2>1, <2>2
<1>5. s = defs
  BY <1>1, <1>3, <1>4, SeqEqual
<1>6. Distinct(defs, Len(defs))
  <2>1. DOMAIN defs = 1..Len(defs) /\ Len(defs) \in Nat /\ IsInjective(defs)
    BY <1>1
  <2>. QED  BY <2>1 DEF Distinct, IsInjective
<1>7. Deduped(defs) = defs
  <2>. PICK d : d = Deduped(defs)
    OBVIOUS
  <2>1. MadeOf(Addresses, defs, d)
    BY <1>1, DedupedFields
  <2>2. Len(d) \in Nat /\ Len(defs) \in Nat /\ Len(d) <= Len(defs) /\ Len(d) >= Len(defs)
    BY <1>1, <1>6, <2>1 DEF MadeOf
  <2>. QED  BY <2>1, <2>2 DEF MadeOf
<1>. QED  BY <1>5, <1>7 DEF Rebuilt

LEMMA InitIInv == Init => IInv
<1>. SUFFICES ASSUME Init
              PROVE  IInv
  OBVIOUS
<1>1. PICK patch \in Patches : Started(patch, <<>>)
  BY DEF Init
<1>2. config = patch /\ defs = Rebuilt(patch, <<>>) /\ base = Len(Resolved(patch)) /\ rows = <<>>
  BY <1>1 DEF Started, Init
<1>3. <<>> \in Seq(Row) /\ Len(<<>>) = 0
  OBVIOUS
<1>. PICK r : r = Resolved(patch)
  OBVIOUS
<1>4. /\ r \in Seq(Addresses) /\ 1 <= Len(r) /\ Len(r) <= MaxPatch + 1 /\ r[1] = Owner
      /\ MaxPatch \in Nat
  BY ResolvedFields, LongestPatch
<1>5. /\ defs \in Seq(Addresses) /\ IsInjective(defs) /\ Len(defs) = Len(r)
      /\ \A i \in 1..Len(r) : defs[i] = r[i]
  <2>1. TableOf(r, <<>>, defs)
    BY <1>2, <1>3, RebuiltFields
  <2>. QED  BY <1>3, <1>4, <2>1 DEF TableOf
<1>6. MaxRows \in Nat /\ NoFlags \in Flags
  BY EntryTableAssumption DEF NoFlags, Flags
<1>7. TypeOK
  <2>1. Len(defs) - 1 \in Indices /\ base \in 1..Len(defs) /\ 0 \in Indices
    BY <1>2, <1>4, <1>5, <1>6 DEF Indices
  <2>2. rows \in Seq(Row) /\ Len(rows) <= MaxRows /\ diskRows = rows
    BY <1>2, <1>3, <1>6 DEF Init
  <2>3. flags \in Flags /\ diskFlags \in Flags
    BY <1>6 DEF Init
  <2>4. lost \in BOOLEAN /\ moved \in BOOLEAN /\ pw \subseteq PasswordIndices /\ added = 0
    BY DEF Init
  <2>. QED  BY <1>2, <1>5, <2>1, <2>2, <2>3, <2>4 DEF TypeOK
<1>. QED  BY <1>2, <1>3, <1>5, <1>7 DEF Init, IInv, FromConfig, InOrder, FilesAgree, Unmoved

-----------------------------------------------------------------------------
(* Operations                                                              *)

MemoryTypes == rows \in Seq(Row) /\ Len(rows) <= MaxRows /\ flags \in Flags

FilesFine ==
  /\ diskRows \in Seq(Row) /\ Len(diskRows) <= MaxRows /\ diskFlags \in Flags
  /\ lost \in BOOLEAN
  /\ FilesAgree

\* A table that is not written has not been changed.
Written(r, f, between) ==
  /\ between \subseteq Flags
  /\ ~r => rows' = rows
  /\ ~f => flags' = flags
  /\ SavesAll(r, f) \/ SavesFail(r, f, between)

\* Whatever is written, the files keep their types, and they agree with the tables
\* in memory unless a write was lost.
LEMMA SavesFields ==
  ASSUME IInv, MemoryTypes', NEW r, NEW f, NEW between, Written(r, f, between)
  PROVE  FilesFine'
<1>1. /\ diskRows \in Seq(Row) /\ Len(diskRows) <= MaxRows /\ diskFlags \in Flags
      /\ lost \in BOOLEAN /\ FilesAgree
  BY DEF IInv, TypeOK
<1>2. <<>> \in Seq(Row) /\ Len(<<>>) <= MaxRows /\ NoFlags \in Flags
  BY EntryTableAssumption DEF NoFlags, Flags
<1>3. CASE SavesAll(r, f)
  BY <1>1, <1>3 DEF SavesAll, FilesAgree, FilesFine, MemoryTypes, Written
<1>4. CASE SavesFail(r, f, between)
  BY <1>1, <1>2, <1>4 DEF SavesFail, FilesAgree, FilesFine, MemoryTypes, Written
<1>. QED  BY <1>3, <1>4 DEF Written

\* A change that leaves the entries alone, and the addresses of the rows with an
\* entry, has only to keep what is said of deletions and passwords.
LEMMA EntriesStay ==
  ASSUME IInv, UNCHANGED <<config, defs, base, moved>>,
         MemoryTypes', FilesFine', Len(rows') = Len(rows),
         Len(defs) = base + Len(rows) => \A k \in 1..Len(rows) : rows'[k].addr = rows[k].addr,
         pw' \subseteq PasswordIndices, added' = 0,
         ~moved => /\ \A i \in pw' : i < Len(defs)
                   /\ \A k \in 1..Len(rows) : rows'[k].deleted => base + k - 1 \in flags'.deleted
  PROVE  IInv'
<1>1. 0 \in Indices
  BY LongestPatch, EntryTableAssumption DEF Indices
<1>2. TypeOK'
  BY <1>1 DEF IInv, TypeOK, MemoryTypes, FilesFine
<1>3. IsInjective(defs)' /\ FromConfig' /\ FilesAgree'
  BY DEF IInv, FromConfig, FilesFine
<1>4. InOrder'
  BY DEF IInv, InOrder
<1>5. Unmoved'
  BY DEF IInv, Unmoved
<1>. QED  BY <1>2, <1>3, <1>4, <1>5 DEF IInv

LEMMA SetEnabledKeeps ==
  ASSUME IInv, NEW i \in Indices, NEW en \in BOOLEAN, SetEnabled(i, en)
  PROVE  IInv'
<1>1. /\ rows' = rows /\ UNCHANGED <<config, defs, base, moved, pw>> /\ added' = 0
      /\ SavesAll(FALSE, TRUE) \/ SavesFail(FALSE, TRUE, {})
  BY DEF SetEnabled, Saves
<1>2. rows \in Seq(Row) /\ Len(rows) <= MaxRows /\ flags \in Flags /\ pw \subseteq PasswordIndices
  BY DEF IInv, TypeOK
<1>3. flags' \in Flags /\ flags'.deleted = flags.deleted
  BY <1>2 DEF SetEnabled, Flags
<1>4. MemoryTypes'
  BY <1>1, <1>2, <1>3 DEF MemoryTypes
<1>5. FilesFine'
  <2>1. Written(FALSE, TRUE, {})
    BY <1>1 DEF Written
  <2>. QED  BY <1>4, <2>1, SavesFields
<1>6. ~moved => /\ \A j \in pw : j < Len(defs)
                /\ \A k \in 1..Len(rows) : rows[k].deleted => base + k - 1 \in flags.deleted
  BY DEF IInv, Unmoved
<1>. QED  BY <1>1, <1>2, <1>3, <1>4, <1>5, <1>6, EntriesStay

LEMMA DeleteKeeps ==
  ASSUME IInv, NEW i \in Indices, Delete(i)
  PROVE  IInv'
<1>. PICK hasRow : hasRow = (i >= base /\ i - base < Len(rows))
  OBVIOUS
<1>1. /\ UNCHANGED <<config, defs, base, moved, pw>> /\ added' = 0
      /\ flags' = [flags EXCEPT !.deleted = @ \cup {i}]
      /\ rows' = IF hasRow THEN [rows EXCEPT ![i - base + 1].deleted = TRUE] ELSE rows
      /\ SavesAll(hasRow, TRUE) \/ SavesFail(hasRow, TRUE, {})
  BY DEF Delete, Saves
<1>2. /\ rows \in Seq(Row) /\ Len(rows) <= MaxRows /\ flags \in Flags /\ pw \subseteq PasswordIndices
      /\ base \in Nat /\ i \in Nat /\ hasRow \in BOOLEAN
  BY LongestPatch, EntryTableAssumption DEF IInv, TypeOK, Indices
<1>3. flags' \in Flags /\ flags'.deleted = flags.deleted \cup {i}
  BY <1>1, <1>2 DEF Flags
<1>4. /\ rows' \in Seq(Row) /\ Len(rows') = Len(rows)
      /\ \A k \in 1..Len(rows) :
           /\ rows'[k].addr = rows[k].addr
           /\ rows'[k].deleted => rows[k].deleted \/ k = i - base + 1
  <2>1. CASE ~hasRow
    BY <1>1, <1>2, <2>1
  <2>2. CASE hasRow
    <3>. PICK m : m = i - base + 1
      OBVIOUS
    <3>0. i >= base /\ i - base < Len(rows)
      BY <2>2, Zenon
    <3>1. m \in 1..Len(rows)
      BY <1>2, <3>0
    <3>. PICK row : row = [rows[m] EXCEPT !.deleted = TRUE]
      OBVIOUS
    <3>2. rows' = [rows EXCEPT ![m] = row]
      <4>1. rows' = [rows EXCEPT ![m].deleted = TRUE]
        BY <1>1, <2>2
      <4>. QED  BY <4>1
    <3>3. row \in Row /\ row.addr = rows[m].addr
      <4>1. rows[m] \in Row
        BY <1>2, <3>1
      <4>. QED  BY <4>1 DEF Row
    <3>4. rows' \in Seq(Row) /\ Len(rows') = Len(rows)
      BY <1>2, <3>1, <3>2, <3>3
    <3>5. rows'[m] = row /\ \A k \in 1..Len(rows) : k # m => rows'[k] = rows[k]
      <4>1. DOMAIN rows = 1..Len(rows)
        BY <1>2
      <4>. QED  BY <3>1, <3>2, <4>1, Zenon
    <3>. QED  BY <3>3, <3>4, <3>5
  <2>. QED  BY <1>2, <2>1, <2>2
<1>5. MemoryTypes'
  BY <1>2, <1>3, <1>4 DEF MemoryTypes
<1>6. FilesFine'
  <2>1. Written(hasRow, TRUE, {})
    BY <1>1 DEF Written
  <2>. QED  BY <1>5, <2>1, SavesFields
<1>7. ~moved => /\ \A j \in pw : j < Len(defs)
                /\ \A k \in 1..Len(rows) : rows[k].deleted => base + k - 1 \in flags.deleted
  BY DEF IInv, Unmoved
<1>8. ~moved => \A k \in 1..Len(rows) : rows'[k].deleted => base + k - 1 \in flags'.deleted
  BY <1>2, <1>3, <1>4, <1>7
<1>. QED  BY <1>1, <1>2, <1>4, <1>5, <1>6, <1>7, <1>8, EntriesStay

LEMMA AddAgainKeeps ==
  ASSUME IInv, NEW i \in Indices, AddAgain(i)
  PROVE  IInv'
<1>. PICK k : k = i - base + 1
  OBVIOUS
<1>. PICK visible : visible = [flags EXCEPT !.deleted = @ \ {i}]
  OBVIOUS
<1>1. /\ UNCHANGED <<config, defs, base, moved, pw>> /\ added' = 0
      /\ i >= base /\ k <= Len(rows) /\ Known(i)
      /\ flags' = [visible EXCEPT !.disabled = @ \cup {i}]
      /\ rows' = [rows EXCEPT ![k] = [addr |-> At(i), deleted |-> FALSE]]
      /\ SavesAll(TRUE, TRUE) \/ SavesFail(TRUE, TRUE, {visible})
  BY DEF AddAgain
<1>2. /\ rows \in Seq(Row) /\ Len(rows) <= MaxRows /\ flags \in Flags /\ pw \subseteq PasswordIndices
      /\ base \in Nat /\ i \in Nat /\ defs \in Seq(Addresses) /\ InOrder
  BY LongestPatch, EntryTableAssumption DEF IInv, TypeOK, Indices
<1>3. /\ visible \in Flags /\ flags' \in Flags /\ flags'.deleted = flags.deleted \ {i}
  BY <1>1, <1>2 DEF Flags
<1>4. k \in 1..Len(rows) /\ At(i) = defs[base + k] /\ At(i) \in Addresses
  BY <1>1, <1>2 DEF Known, At
<1>5. /\ rows' \in Seq(Row) /\ Len(rows') = Len(rows)
      /\ rows'[k].addr = At(i) /\ ~rows'[k].deleted
      /\ \A j \in 1..Len(rows) : j # k => rows'[j] = rows[j]
  BY <1>1, <1>2, <1>4 DEF Row
<1>6. Len(defs) = base + Len(rows) => \A j \in 1..Len(rows) : rows'[j].addr = rows[j].addr
  BY <1>2, <1>4, <1>5 DEF InOrder
<1>7. MemoryTypes'
  BY <1>2, <1>3, <1>5 DEF MemoryTypes
<1>8. FilesFine'
  <2>1. Written(TRUE, TRUE, {visible})
    BY <1>1, <1>3 DEF Written
  <2>. QED  BY <1>7, <2>1, SavesFields
<1>9. ~moved => /\ \A j \in pw : j < Len(defs)
                /\ \A j \in 1..Len(rows) : rows[j].deleted => base + j - 1 \in flags.deleted
  BY DEF IInv, Unmoved
<1>10. ~moved => \A j \in 1..Len(rows) : rows'[j].deleted => base + j - 1 \in flags'.deleted
  <2>1. ASSUME ~moved, NEW j \in 1..Len(rows), rows'[j].deleted
        PROVE  base + j - 1 \in flags'.deleted
    <3>1. j # k /\ rows[j].deleted
      BY <1>5, <2>1
    <3>2. base + j - 1 # i
      BY <1>2, <3>1
    <3>. QED  BY <1>3, <1>9, <2>1, <3>1, <3>2
  <2>. QED  BY <2>1
<1>. QED  BY <1>1, <1>2, <1>5, <1>6, <1>7, <1>8, <1>9, <1>10, EntriesStay

LEMMA SetPasswordKeeps ==
  ASSUME IInv, NEW i \in Indices, SetPassword(i)
  PROVE  IInv'
<1>1. /\ UNCHANGED <<config, defs, base, rows, flags, diskRows, diskFlags, lost, moved>>
      /\ pw' = pw \cup {i} /\ added' = 0 /\ i \in PasswordIndices /\ i \in 0..(Len(defs) - 1)
  BY DEF SetPassword, Visible, Known
<1>2. /\ rows \in Seq(Row) /\ flags \in Flags /\ pw \subseteq PasswordIndices
      /\ diskRows \in Seq(Row) /\ Len(diskRows) <= MaxRows /\ diskFlags \in Flags
      /\ lost \in BOOLEAN /\ FilesAgree /\ defs \in Seq(Addresses)
  BY DEF IInv, TypeOK
<1>3. FilesFine' /\ MemoryTypes'
  <2>1. Len(rows) <= MaxRows
    BY DEF IInv, TypeOK
  <2>. QED  BY <1>1, <1>2, <2>1 DEF FilesAgree, FilesFine, MemoryTypes
<1>4. ~moved => /\ \A j \in pw' : j < Len(defs)
                /\ \A k \in 1..Len(rows) : rows[k].deleted => base + k - 1 \in flags.deleted
  BY <1>1, <1>2 DEF IInv, Unmoved
<1>. QED  BY <1>1, <1>2, <1>3, <1>4, EntriesStay

LEMMA AddNewKeeps ==
  ASSUME IInv, NEW a \in Addresses, AddNew(a)
  PROVE  IInv'
<1>. PICK row : row = [addr |-> a, deleted |-> FALSE]
  OBVIOUS
<1>. PICK n : n = Len(defs)
  OBVIOUS
<1>1. /\ UNCHANGED <<config, base, moved, pw>> /\ added' = n
      /\ ~Contains(defs, a) /\ Len(rows) < MaxRows
      /\ flags' = [flags EXCEPT !.disabled = @ \cup {n}]
      /\ rows' = Append(rows, row) /\ defs' = Append(defs, a)
      /\ SavesAll(TRUE, TRUE) \/ SavesFail(TRUE, TRUE, {})
  BY DEF AddNew, Saves
<1>2. /\ rows \in Seq(Row) /\ Len(rows) \in Nat /\ flags \in Flags /\ pw \subseteq PasswordIndices
      /\ base \in 1..n /\ n \in Nat /\ defs \in Seq(Addresses) /\ IsInjective(defs)
      /\ InOrder /\ FromConfig /\ config \in Patches /\ moved \in BOOLEAN
      /\ MaxPatch \in Nat /\ MaxRows \in Nat
  BY LongestPatch, EntryTableAssumption DEF IInv, TypeOK
<1>3. base <= MaxPatch + 1
  BY <1>2, ResolvedFields DEF FromConfig
<1>4. n \in Indices
  BY <1>1, <1>2, <1>3 DEF InOrder, Indices
<1>5. flags' \in Flags /\ flags'.deleted = flags.deleted
  BY <1>1, <1>2, <1>4 DEF Flags
<1>6. /\ rows' \in Seq(Row) /\ Len(rows') = Len(rows) + 1
      /\ \A k \in 1..Len(rows) : rows'[k] = rows[k]
      /\ rows'[Len(rows) + 1].addr = a /\ ~rows'[Len(rows) + 1].deleted
  <2>1. row \in Row /\ row.addr = a /\ ~row.deleted
    BY DEF Row
  <2>. QED  BY <1>1, <1>2, <2>1
<1>7. /\ defs' \in Seq(Addresses) /\ Len(defs') = n + 1
      /\ \A k \in 1..n : defs'[k] = defs[k]
      /\ defs'[n + 1] = a
  BY <1>1, <1>2
<1>8. MemoryTypes'
  BY <1>1, <1>2, <1>5, <1>6 DEF MemoryTypes
<1>9. FilesFine'
  <2>1. Written(TRUE, TRUE, {})
    BY <1>1 DEF Written
  <2>. QED  BY <1>8, <2>1, SavesFields
<1>10. TypeOK'
  BY <1>1, <1>2, <1>4, <1>7, <1>8, <1>9 DEF TypeOK, MemoryTypes, FilesFine
<1>11. IsInjective(defs)'
  BY <1>1, <1>2, <1>7 DEF IsInjective, Contains
<1>12. FromConfig'
  BY <1>1, <1>2, <1>7 DEF FromConfig
<1>13. InOrder'
  <2>1. Len(defs') <= base' + Len(rows')
    BY <1>1, <1>2, <1>6, <1>7 DEF InOrder
  <2>2. ASSUME Len(defs') = base' + Len(rows'), NEW k \in 1..Len(rows')
        PROVE  defs'[base' + k] = rows'[k].addr
    <3>1. n = base + Len(rows) /\ k \in 1..(Len(rows) + 1)
      BY <1>1, <1>2, <1>6, <1>7, <2>2
    <3>2. CASE k = Len(rows) + 1
      <4>1. base + k = n + 1
        BY <1>2, <3>1, <3>2
      <4>. QED  BY <1>1, <1>6, <1>7, <3>2, <4>1
    <3>3. CASE k \in 1..Len(rows)
      <4>1. defs[base + k] = rows[k].addr /\ base + k \in 1..n
        BY <1>2, <3>1, <3>3 DEF InOrder
      <4>. QED  BY <1>1, <1>6, <1>7, <3>3, <4>1
    <3>. QED  BY <1>2, <3>1, <3>2, <3>3
  <2>. QED  BY <2>1, <2>2 DEF InOrder
<1>14. Unmoved'
  <2>1. SUFFICES ASSUME ~moved
                 PROVE  /\ Len(defs') = base + Len(rows')
                        /\ \A j \in pw : j < Len(defs')
                        /\ \A k \in 1..Len(rows') : rows'[k].deleted => base + k - 1 \in flags'.deleted
                        /\ n \notin pw
    BY <1>1 DEF Unmoved
  <2>2. /\ n = base + Len(rows)
        /\ \A j \in pw : j < n
        /\ \A k \in 1..Len(rows) : rows[k].deleted => base + k - 1 \in flags.deleted
    BY <2>1 DEF IInv, Unmoved
  <2>3. \A j \in pw : j \in Nat
    BY <1>2, EntryTableAssumption DEF Indices
  <2>4. \A k \in 1..Len(rows') : k \in 1..Len(rows) \/ k = Len(rows) + 1
    BY <1>2, <1>6
  <2>5. \A k \in 1..Len(rows') : rows'[k].deleted => base + k - 1 \in flags'.deleted
    BY <1>5, <1>6, <2>2, <2>4
  <2>6. Len(defs') = base + Len(rows')
    BY <1>2, <1>6, <1>7, <2>2
  <2>7. n \notin pw /\ \A j \in pw : j < Len(defs')
    BY <1>2, <1>7, <2>2, <2>3
  <2>. QED  BY <2>5, <2>6, <2>7
<1>. QED  BY <1>9, <1>10, <1>11, <1>12, <1>13, <1>14 DEF IInv, FilesFine

LEMMA RestartKeeps ==
  ASSUME IInv, NEW patch \in Patches, Restart(patch)
  PROVE  IInv'
<1>. PICK r : r = Resolved(patch)
  OBVIOUS
<1>1. /\ config' = patch /\ rows' = diskRows /\ flags' = diskFlags
      /\ defs' = Rebuilt(patch, diskRows) /\ base' = Len(r)
      /\ lost' = FALSE /\ moved' = (moved \/ lost \/ patch # config) /\ added' = 0
      /\ UNCHANGED <<diskRows, diskFlags, pw>>
  BY DEF Restart
<1>2. /\ diskRows \in Seq(Row) /\ Len(diskRows) \in Nat /\ Len(diskRows) <= MaxRows
      /\ diskFlags \in Flags /\ pw \subseteq PasswordIndices
      /\ moved \in BOOLEAN /\ lost \in BOOLEAN
      /\ MaxPatch \in Nat /\ MaxRows \in Nat
  BY LongestPatch, EntryTableAssumption DEF IInv, TypeOK
<1>3. r \in Seq(Addresses) /\ Len(r) \in Nat /\ 1 <= Len(r) /\ Len(r) <= MaxPatch + 1
  BY ResolvedFields
<1>4. TableOf(r, diskRows, defs')
  BY <1>1, <1>2, RebuiltFields
<1>5. /\ defs' \in Seq(Addresses) /\ IsInjective(defs') /\ Len(defs') \in Nat
      /\ Len(r) <= Len(defs') /\ Len(defs') <= Len(r) + Len(diskRows)
      /\ \A i \in 1..Len(r) : defs'[i] = r[i]
      /\ Len(defs') = Len(r) + Len(diskRows) =>
           \A k \in 1..Len(diskRows) : defs'[Len(r) + k] = diskRows[k].addr
  BY <1>4 DEF TableOf
<1>6. TypeOK'
  <2>1. Len(defs') - 1 \in Indices /\ Len(r) \in 1..Len(defs') /\ 0 \in Indices
    BY <1>2, <1>3, <1>5 DEF Indices
  <2>. QED  BY <1>1, <1>2, <1>5, <2>1 DEF TypeOK
<1>7. IsInjective(defs)' /\ FromConfig' /\ InOrder' /\ FilesAgree'
  BY <1>1, <1>5 DEF FromConfig, InOrder, FilesAgree
<1>8. Unmoved'
  <2>1. SUFFICES ASSUME ~moved, ~lost, patch = config
                 PROVE  /\ Len(defs') = base' + Len(rows')
                        /\ \A j \in pw : j < Len(defs')
                        /\ \A k \in 1..Len(rows') :
                             rows'[k].deleted => base' + k - 1 \in flags'.deleted
    BY <1>1, <1>2 DEF Unmoved
  <2>2. diskRows = rows /\ diskFlags = flags
    BY <2>1 DEF IInv, FilesAgree
  <2>3. /\ Len(defs) = base + Len(rows)
        /\ \A i \in pw : i < Len(defs)
        /\ \A k \in 1..Len(rows) : rows[k].deleted => base + k - 1 \in flags.deleted
    BY <2>1 DEF IInv, Unmoved
  <2>4. defs' = defs
    BY <1>1, <2>1, <2>2, <2>3, SameAgain
  <2>5. base' = base
    BY <1>1, <2>1 DEF IInv, FromConfig
  <2>. QED  BY <1>1, <2>2, <2>3, <2>4, <2>5
<1>. QED  BY <1>6, <1>7, <1>8 DEF IInv

LEMMA NextKeeps == IInv /\ [Next]_vars => IInv'
<1>. SUFFICES ASSUME IInv, [Next]_vars
              PROVE  IInv'
  OBVIOUS
<1>1. ASSUME NEW a \in Addresses, AddNew(a)
      PROVE  IInv'
  BY <1>1, AddNewKeeps
<1>2. ASSUME NEW i \in Indices, AddAgain(i)
      PROVE  IInv'
  BY <1>2, AddAgainKeeps
<1>3. ASSUME NEW i \in Indices, NEW en \in BOOLEAN, SetEnabled(i, en)
      PROVE  IInv'
  BY <1>3, SetEnabledKeeps
<1>4. ASSUME NEW i \in Indices, Delete(i)
      PROVE  IInv'
  BY <1>4, DeleteKeeps
<1>5. ASSUME NEW i \in Indices, SetPassword(i)
      PROVE  IInv'
  BY <1>5, SetPasswordKeeps
<1>6. ASSUME NEW patch \in Patches, Restart(patch)
      PROVE  IInv'
  BY <1>6, RestartKeeps
<1>7. CASE UNCHANGED vars
  <2>1. TypeOK' /\ IsInjective(defs)'
    BY <1>7 DEF IInv, TypeOK, vars
  <2>2. FromConfig' /\ InOrder' /\ FilesAgree'
    BY <1>7 DEF IInv, FromConfig, InOrder, FilesAgree, vars
  <2>3. Unmoved'
    BY <1>7 DEF IInv, Unmoved, vars
  <2>. QED  BY <2>1, <2>2, <2>3 DEF IInv
<1>. QED  BY <1>1, <1>2, <1>3, <1>4, <1>5, <1>6, <1>7 DEF Next

-----------------------------------------------------------------------------
(* Theorems                                                                *)

\* The inductive invariant holds always, for any addresses, any patch
\* configurations of bounded length and any number of added rows.
THEOREM Invariant == Spec => []IInv
<1>1. Init => IInv
  BY InitIInv
<1>2. IInv /\ [Next]_vars => IInv'
  BY NextKeeps
<1>. QED  BY <1>1, <1>2, PTL DEF Spec

\* The table, the flags and the files keep their types.
THEOREM TypeCorrect == Spec => []TypeOK
<1>1. IInv => TypeOK
  BY DEF IInv
<1>. QED  BY <1>1, Invariant, PTL

\* Entry 0 is always the owner's and no address has two entries, whatever the patch
\* rows of the starts, the additions, the deletions and the writes that fail
\* (resolveEntries(), appendRuntimeEntries(), addEntry()).
THEOREM OneDoorEach == Spec => []NoTwoDoors
<1>1. IInv => NoTwoDoors
  <2>1. SUFFICES ASSUME IInv
                 PROVE  NoTwoDoors
    OBVIOUS
  <2>2. base \in Nat /\ 1 <= base /\ defs[1] = Resolved(config)[1]
    BY <2>1 DEF IInv, TypeOK, FromConfig
  <2>3. defs[1] = Owner
    BY <2>1, <2>2, ResolvedFields DEF IInv, TypeOK
  <2>. QED  BY <2>1, <2>3 DEF IInv, NoTwoDoors, At
<1>. QED  BY <1>1, Invariant, PTL

\* An entry behind the patch rows always has a row, so addEntry() never ends in
\* "state inconsistent, no persisted row".
THEOREM EveryEntryHasRow == Spec => []RowBehindEveryEntry
<1>1. IInv => RowBehindEveryEntry
  <2>1. SUFFICES ASSUME IInv, NEW i \in Indices, Known(i), i >= base
                 PROVE  i - base < Len(rows)
    BY DEF RowBehindEveryEntry
  <2>2. i \in 0..(Len(defs) - 1) /\ base \in Nat /\ Len(defs) \in Nat /\ Len(rows) \in Nat
    BY <2>1 DEF IInv, TypeOK, Known
  <2>3. Len(defs) <= base + Len(rows)
    BY <2>1 DEF IInv, InOrder
  <2>. QED  BY <2>1, <2>2, <2>3
<1>. QED  BY <1>1, Invariant, PTL

\* A restart with the same patch rows finds the table it left, unless a write failed
\* or a patch row has taken the address of an added row.
THEOREM SameTableAfterRestart == Spec => []RestartKeepsTable
<1>1. IInv => RestartKeepsTable
  BY SameAgain DEF IInv, FilesAgree, RestartKeepsTable
<1>. QED  BY <1>1, Invariant, PTL

\* While every process has had the same patch rows and no write was lost, a new entry
\* has no password another left behind and the entry of a deleted row is hidden.
THEOREM ShownAsIs == Spec => []UnmovedAsShown
<1>1. IInv => UnmovedAsShown
  <2>1. SUFFICES ASSUME IInv, ~moved, NEW i \in Indices, Known(i), i >= base,
                        rows[i - base + 1].deleted
                 PROVE  ~Visible(i)
    BY DEF IInv, Unmoved, UnmovedAsShown
  <2>2. i \in 0..(Len(defs) - 1) /\ base \in Nat /\ Len(defs) \in Nat /\ Len(rows) \in Nat
    BY <2>1 DEF IInv, TypeOK, Known
  <2>3. /\ Len(defs) = base + Len(rows)
        /\ \A k \in 1..Len(rows) : rows[k].deleted => base + k - 1 \in flags.deleted
    BY <2>1 DEF IInv, Unmoved
  <2>4. i - base + 1 \in 1..Len(rows) /\ base + (i - base + 1) - 1 = i
    BY <2>1, <2>2, <2>3
  <2>. QED  BY <2>1, <2>3, <2>4 DEF Visible
<1>. QED  BY <1>1, Invariant, PTL
=============================================================================
