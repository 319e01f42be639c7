----------------------------- MODULE PathsProofs -----------------------------
(***************************************************************************)
(* symbolicRealpath of src/util.c makes of every plain path what Resolved  *)
(* says: the scan, which goes from byte to byte and takes segments back as *)
(* it meets "..", keeps at each slash exactly the segments that no later   *)
(* ".." goes back over.  The argument looks at how far down the path is    *)
(* after each segment.                                                     *)
(***************************************************************************)
EXTENDS Paths, SequenceTheorems, FiniteSetTheorems, WellFoundedInduction, TLAPS

-----------------------------------------------------------------------------
(* Numbers, and the members of a set of positions in order.                *)

\* A set of numbers that is not empty has a least member.
LEMMA Minimum ==
  ASSUME NEW S, S \subseteq Nat, S # {}
  PROVE  \E x \in S : \A y \in S : x <= y
<1> DEFINE R == OpToRel(<, Nat)
<1>1. IsWellFoundedOn(R, Nat)
      BY NatLessThanWellFounded
<1>2. PICK x \in S : \A y \in S : <<y, x>> \notin R
  <2> HIDE DEF R
  <2> QED BY <1>1, WFMin
<1>3. \A y \in S : ~(y < x)
      BY <1>2 DEF OpToRel
<1> QED BY <1>3

\* Induction over the numbers up to N, said of a set.
LEMMA Induct ==
  ASSUME NEW S, 0 \in S, \A n \in Nat : n \in S => n + 1 \in S
  PROVE  \A n \in Nat : n \in S
<1> DEFINE T == {n \in Nat : n \notin S}
<1>1. CASE T # {}
  <2>1. PICK x \in T : \A y \in T : x <= y
        BY <1>1, Minimum
  <2>2. x # 0 /\ x \in Nat
        OBVIOUS
  <2>3. x - 1 \in Nat /\ x - 1 \notin T
        BY <2>1, <2>2
  <2> QED BY <2>1, <2>2, <2>3
<1> QED BY <1>1

\* Among numbers that do not exceed N there is a greatest.
LEMMA Maximum ==
  ASSUME NEW S, S \subseteq Nat, S # {}, NEW N \in Nat, \A x \in S : x <= N
  PROVE  Max(S) \in S /\ \A y \in S : y <= Max(S)
<1> DEFINE T == {N - x : x \in S}
<1>1. T \subseteq Nat /\ T # {}
  <2>1. \A x \in S : x \in Nat /\ N - x \in Nat
        OBVIOUS
  <2> QED BY <2>1
<1>2. PICK t \in T : \A y \in T : t <= y
      BY <1>1, Minimum
<1>3. PICK x \in S : t = N - x
      OBVIOUS
<1>4. ASSUME NEW y \in S PROVE x >= y
  <2>1. N - y \in T /\ x \in Nat /\ y \in Nat
        OBVIOUS
  <2>2. N - x <= N - y
        BY <1>2, <1>3, <2>1
  <2> QED BY <2>1, <2>2
<1>5. Max(S) \in S /\ \A y \in S : Max(S) >= y
      BY <1>4 DEF Max
<1> QED BY <1>5

\* The one that no other exceeds.
LEMMA MaxIs ==
  ASSUME NEW S, S \subseteq Nat, NEW x \in S, \A y \in S : y <= x
  PROVE  Max(S) = x
<1>1. ASSUME NEW z \in S, \A y \in S : z >= y PROVE z = x
  <2>1. z \in Nat /\ x \in Nat /\ z >= x /\ z <= x
        BY <1>1
  <2> QED BY <2>1
<1>2. \A y \in S : x >= y
      OBVIOUS
<1> QED BY <1>1, <1>2 DEF Max

LEMMA MinIs ==
  ASSUME NEW S, S \subseteq Nat, NEW x \in S, \A y \in S : x <= y
  PROVE  Min(S) = x
<1>1. ASSUME NEW z \in S, \A y \in S : z =< y PROVE z = x
  <2>1. z \in Nat /\ x \in Nat /\ z <= x /\ x <= z
        BY <1>1
  <2> QED BY <2>1
<1> QED BY <1>1 DEF Min

-----------------------------------------------------------------------------
\* f are the N members of S in their order.
Enumerates(f, N, S) ==
  /\ f \in [1..N -> S]
  /\ \A i, j \in 1..N : i < j => f[i] < f[j]
  /\ \A x \in S : \E n \in 1..N : f[n] = x

Lesser(S, i) == {j \in S : j < i}

\* There is one way only to enumerate a set.
LEMMA InOrderIs ==
  ASSUME NEW S, S \subseteq Nat, NEW N \in Nat, NEW f, Enumerates(f, N, S)
  PROVE  InOrder(S) = f /\ Cardinality(S) = N /\ IsFiniteSet(S)
<1>1. ASSUME NEW n \in 0..N,
             NEW T, T = {f[k] : k \in 1..n}
      PROVE  IsFiniteSet(T) /\ Cardinality(T) = n
  <2> DEFINE g == [k \in 1..n |-> f[k]]
  <2>1. n \in Nat /\ \A k \in 1..n : k \in 1..N /\ k \in Nat
        OBVIOUS
  <2>2. g \in [1..n -> T] /\ \A x \in T : \E k \in 1..n : g[k] = x
        BY <1>1
  <2>3. ASSUME NEW a \in 1..n, NEW b \in 1..n, g[a] = g[b] PROVE a = b
    <3>1. f[a] = f[b]
          BY <2>3
    <3>2. f[a] \in S /\ a \in 1..N /\ b \in 1..N
          BY <2>1 DEF Enumerates
    <3>3. f[a] \in Nat
          BY <3>2
    <3>4. ~(a < b) /\ ~(b < a)
          BY <3>1, <3>2, <3>3 DEF Enumerates
    <3> QED BY <2>1, <3>4
  <2>4. g \in Bijection(1..n, T)
        BY <2>2, <2>3 DEF Bijection, Injection, IsInjective, Surjection
  <2>5. ExistsBijection(1..n, T)
        BY <2>4 DEF ExistsBijection
  <2> QED BY <2>1, <2>5, FS_CountingElements, FS_NatBijection
<1>2. S = {f[k] : k \in 1..N}
      BY DEF Enumerates
<1>3. IsFiniteSet(S) /\ Cardinality(S) = N
      BY <1>1, <1>2
<1>4. ASSUME NEW n \in 1..N
      PROVE  Cardinality(Lesser(S, f[n])) = n - 1
  <2>1. n - 1 \in 0..N
        OBVIOUS
  <2>5. \A k \in 1..N : f[k] \in S /\ f[k] \in Nat
        BY DEF Enumerates
  <2>2. ASSUME NEW k \in 1..N PROVE f[k] < f[n] <=> k \in 1..(n - 1)
    <3>1. f[k] \in Nat /\ f[n] \in Nat
          BY <2>5
    <3>2. CASE k < n
          BY <3>2 DEF Enumerates
    <3>3. CASE n < k
          BY <2>1, <3>1, <3>3 DEF Enumerates
    <3>4. CASE n = k
          BY <2>1, <3>1, <3>4
    <3> QED BY <3>2, <3>3, <3>4
  <2>3. \A k \in 1..(n - 1) : k \in 1..N
        OBVIOUS
  <2>4. Lesser(S, f[n]) = {f[k] : k \in 1..(n - 1)}
        BY <1>2, <2>2, <2>3 DEF Lesser
  <2> QED BY <1>1, <2>1, <2>4
<1>5. ASSUME NEW n \in 1..N
      PROVE  (CHOOSE i \in S : Cardinality({j \in S : j < i}) = n - 1) = f[n]
  <2>1. ASSUME NEW i \in S, Cardinality(Lesser(S, i)) = n - 1 PROVE i = f[n]
    <3>1. PICK k \in 1..N : f[k] = i
          BY DEF Enumerates
    <3>2. k - 1 = n - 1
          BY <1>4, <2>1, <3>1
    <3> QED BY <3>1, <3>2
  <2>2. f[n] \in S /\ Cardinality(Lesser(S, f[n])) = n - 1
        BY <1>4 DEF Enumerates
  <2>3. \A i : i \in S /\ Cardinality({j \in S : j < i}) = n - 1 <=> i = f[n]
        BY <2>1, <2>2 DEF Lesser
  <2> QED BY <2>3
<1>6. InOrder(S) = [n \in 1..N |-> f[n]]
      BY <1>3, <1>5 DEF InOrder
<1> QED BY <1>3, <1>6 DEF Enumerates

\* InOrder is that way, for any finite set: by induction over its size.
LEMMA InOrderEnumerates ==
  ASSUME NEW S, S \subseteq Nat, IsFiniteSet(S)
  PROVE  Cardinality(S) \in Nat /\ Enumerates(InOrder(S), Cardinality(S), S)
<1> DEFINE C == Cardinality(S)
           rank == [i \in S |-> Cardinality(Lesser(S, i))]
<1>1. C \in Nat
      BY FS_CardinalityType
<1>2. ASSUME NEW i \in S
      PROVE  IsFiniteSet(Lesser(S, i)) /\ rank[i] \in Nat /\ rank[i] < C
  <2>1. IsFiniteSet(Lesser(S, i)) /\ Cardinality(Lesser(S, i)) <= C
        BY FS_Subset DEF Lesser
  <2>2. Lesser(S, i) # S
        BY DEF Lesser
  <2>3. Lesser(S, i) \in SUBSET S
        BY DEF Lesser
  <2>4. Cardinality(Lesser(S, i)) # C
        BY <2>2, <2>3, FS_Subset
  <2>5. Cardinality(Lesser(S, i)) \in Nat
        BY <2>1, FS_CardinalityType
  <2> QED BY <1>1, <2>1, <2>4, <2>5
<1>3. ASSUME NEW i \in S, NEW j \in S, i < j PROVE rank[i] < rank[j]
  <2>0. \A k \in S : k \in Nat
        OBVIOUS
  <2>1. Lesser(S, i) \in SUBSET Lesser(S, j)
    <3>1. \A k \in S : k < i => k < j
          BY <1>3, <2>0
    <3> QED BY <3>1 DEF Lesser
  <2>2. i \in Lesser(S, j) /\ i \notin Lesser(S, i)
        BY <1>3 DEF Lesser
  <2>3. Cardinality(Lesser(S, i)) <= Cardinality(Lesser(S, j))
        BY <1>2, <2>1, FS_Subset
  <2>4. Cardinality(Lesser(S, i)) # Cardinality(Lesser(S, j))
        BY <1>2, <2>1, <2>2, FS_Subset
  <2> HIDE DEF C
  <2>5. Cardinality(Lesser(S, i)) \in Nat /\ Cardinality(Lesser(S, j)) \in Nat
        BY <1>2
  <2> QED BY <2>3, <2>4, <2>5
<1>4. \A i, j \in S : rank[i] = rank[j] => i = j
  <2> TAKE i, j \in S
  <2>1. i \in Nat /\ j \in Nat /\ rank[i] \in Nat /\ rank[j] \in Nat
        BY <1>2
  <2> HIDE DEF rank
  <2> QED BY <1>3, <2>1
<1>5. IsFiniteSet(0..(C - 1)) /\ Cardinality(0..(C - 1)) = C
  <2>1. C - 1 \in Int /\ (0 > C - 1 <=> C = 0)
        BY <1>1
  <2>2. IsFiniteSet(0..(C - 1)) /\ Cardinality(0..(C - 1)) = IF 0 > C - 1 THEN 0 ELSE C - 1 - 0 + 1
        BY <2>1, FS_Interval
  <2> HIDE DEF C
  <2> QED BY <1>1, <2>1, <2>2
<1>6. rank \in Injection(S, 0..(C - 1))
  <2>1. \A i \in S : rank[i] \in 0..(C - 1)
        BY <1>1, <1>2
  <2>2. rank \in [S -> 0..(C - 1)]
        BY <2>1
  <2> HIDE DEF rank, C
  <2> QED BY <1>4, <2>2 DEF Injection, IsInjective
<1>7. rank \in Surjection(S, 0..(C - 1))
      BY <1>5, <1>6, FS_Injection
<1>8. ASSUME NEW n \in 1..C
      PROVE  InOrder(S)[n] \in S /\ rank[InOrder(S)[n]] = n - 1
  <2>1. n - 1 \in 0..(C - 1)
        BY <1>1
  <2>2. \E i \in S : rank[i] = n - 1
        BY <1>7, <2>1 DEF Surjection
  <2>3. \E i \in S : Cardinality({j \in S : j < i}) = n - 1
        BY <2>2 DEF Lesser
  <2>4. InOrder(S)[n] = CHOOSE i \in S : Cardinality({j \in S : j < i}) = n - 1
        BY DEF InOrder
  <2>5. InOrder(S)[n] \in S /\ Cardinality({j \in S : j < InOrder(S)[n]}) = n - 1
        BY <2>3, <2>4
  <2> QED BY <2>5 DEF Lesser
<1>9. InOrder(S) \in [1..C -> S]
  <2> DEFINE e(n) == CHOOSE i \in S : Cardinality({j \in S : j < i}) = n - 1
  <2>1. InOrder(S) = [n \in 1..C |-> e(n)]
        BY DEF InOrder
  <2> HIDE DEF C, e
  <2> QED BY <1>8, <2>1
<1>10. ASSUME NEW a \in 1..C, NEW b \in 1..C, a < b PROVE InOrder(S)[a] < InOrder(S)[b]
  <2>1. /\ InOrder(S)[a] \in Nat /\ InOrder(S)[b] \in Nat /\ a \in Nat /\ b \in Nat
        /\ rank[InOrder(S)[a]] = a - 1 /\ rank[InOrder(S)[b]] = b - 1
    <3>1. \A k \in S : k \in Nat
          OBVIOUS
    <3>2. \A k \in 1..C : k \in Nat
          BY <1>1
    <3> HIDE DEF rank, C
    <3>3. rank[InOrder(S)[a]] = a - 1 /\ rank[InOrder(S)[b]] = b - 1
          BY <1>8
    <3>4. InOrder(S)[a] \in S /\ InOrder(S)[b] \in S
          BY <1>8
    <3> QED BY <3>1, <3>2, <3>3, <3>4
  <2> HIDE DEF rank
  <2>2. ~(InOrder(S)[b] < InOrder(S)[a])
    <3>1. ~(b - 1 < a - 1)
          BY <1>10, <2>1
    <3> QED BY <1>3, <1>8, <2>1, <3>1
  <2>3. InOrder(S)[b] # InOrder(S)[a]
        BY <1>10, <2>1
  <2> QED BY <2>1, <2>2, <2>3
<1>11. ASSUME NEW x \in S PROVE \E n \in 1..C : InOrder(S)[n] = x
  <2>1. rank[x] \in Nat /\ rank[x] + 1 \in 1..C /\ rank[x] + 1 - 1 = rank[x]
        BY <1>1, <1>2
  <2> HIDE DEF rank, C
  <2>2. rank[InOrder(S)[rank[x] + 1]] = rank[x] /\ InOrder(S)[rank[x] + 1] \in S
        BY <1>8, <2>1
  <2> QED BY <1>4, <2>1, <2>2
<1> QED BY <1>1, <1>9, <1>10, <1>11 DEF Enumerates

-----------------------------------------------------------------------------
(* Cuts of sequences.                                                      *)

LEMMA SameSubSeq ==
  ASSUME NEW B, NEW s, NEW t, NEW m \in Int, NEW n \in Int,
         \A i \in m..n : s[i] \in B /\ t[i] = s[i]
  PROVE  SubSeq(s, m, n) = SubSeq(t, m, n)
<1> DEFINE x == SubSeq(s, m, n)  y == SubSeq(t, m, n)
<1>1. /\ x \in Seq(B) /\ Len(x) = IF m <= n THEN n - m + 1 ELSE 0
      /\ \A i \in 1..(n - m + 1) : x[i] = s[m + i - 1]
      BY SubSeqProperties
<1>2. /\ y \in Seq(B) /\ Len(y) = IF m <= n THEN n - m + 1 ELSE 0
      /\ \A i \in 1..(n - m + 1) : y[i] = t[m + i - 1]
  <2>1. \A i \in m..n : t[i] \in B
        OBVIOUS
  <2> QED BY <2>1, SubSeqProperties
<1> HIDE DEF x, y
<1>3. ASSUME NEW i \in 1..Len(x) PROVE x[i] = y[i]
  <2>1. i \in 1..(n - m + 1) /\ m + i - 1 \in m..n
        BY <1>1
  <2> QED BY <1>1, <1>2, <2>1
<1>4. Len(x) = Len(y)
      BY <1>1, <1>2
<1>5. x = y
      BY <1>1, <1>2, <1>3, <1>4, SeqEqual
<1> QED BY <1>5 DEF x, y

\* A cut out of a sequence.
LEMMA Cut ==
  ASSUME NEW B, NEW s \in Seq(B), NEW m \in 1..(Len(s) + 1), NEW n \in 0..Len(s)
  PROVE  /\ SubSeq(s, m, n) \in Seq(B)
         /\ Len(SubSeq(s, m, n)) = IF m <= n THEN n - m + 1 ELSE 0
         /\ DOMAIN SubSeq(s, m, n) = 1..Len(SubSeq(s, m, n))
         /\ \A i \in 1..(n - m + 1) : SubSeq(s, m, n)[i] = s[m + i - 1]
         /\ ToSet(SubSeq(s, m, n)) = {s[i] : i \in m..n}
<1> DEFINE t == SubSeq(s, m, n)
<1>1. Len(s) \in Nat /\ m \in Nat /\ n \in Nat /\ n <= Len(s) /\ m >= 1
      BY LenProperties
<1>2. \A i \in m..n : i \in 1..Len(s)
      BY <1>1
<1>3. \A i \in m..n : s[i] \in B
      BY <1>2, ElementOfSeq
<1>4. /\ t \in Seq(B)
      /\ Len(t) = IF m <= n THEN n - m + 1 ELSE 0
      /\ \A i \in 1..(n - m + 1) : t[i] = s[m + i - 1]
      BY <1>1, <1>3, SubSeqProperties
<1> HIDE DEF t
<1>5. DOMAIN t = 1..Len(t)
      BY <1>4, LenProperties
<1>6. ASSUME NEW i \in 1..Len(t) PROVE t[i] = s[m + i - 1] /\ m + i - 1 \in m..n
  <2>1. i \in 1..(n - m + 1) /\ m + i - 1 \in m..n
        BY <1>1, <1>4
  <2> QED BY <1>4, <2>1
<1>7. ASSUME NEW i \in m..n PROVE t[i - m + 1] = s[i] /\ i - m + 1 \in 1..Len(t)
  <2>1. i - m + 1 \in 1..(n - m + 1) /\ m + (i - m + 1) - 1 = i /\ i - m + 1 \in 1..Len(t)
        BY <1>1, <1>4
  <2> QED BY <1>4, <2>1
<1>8. ToSet(t) = {s[i] : i \in m..n}
  <2>1. \A x : x \in ToSet(t) <=> \E i \in 1..Len(t) : x = t[i]
        BY <1>5 DEF ToSet
  <2>2. \A x : x \in ToSet(t) => x \in {s[i] : i \in m..n}
        BY <1>6, <2>1
  <2>3. \A x : x \in {s[i] : i \in m..n} => x \in ToSet(t)
        BY <1>7, <2>1
  <2> QED BY <2>2, <2>3
<1> QED BY <1>4, <1>5, <1>8 DEF t

-----------------------------------------------------------------------------
(* Recursion, and what FlattenSeq and Picked compute.                      *)

\* g goes from base on by step.
Iterates(g, N, S, base, step) ==
  g \in [0..N -> S] /\ g[0] = base /\ \A i \in 1..N : g[i] = step[<<i, g[i - 1]>>]

\* A function over 0..N can be defined by recursion.
LEMMA Recursion ==
  ASSUME NEW S, NEW N \in Nat, NEW base \in S, NEW step, step \in [(1..N) \X S -> S]
  PROVE  \E g : Iterates(g, N, S, base, step)
<1> DEFINE Has(n) == \E g \in [0..n -> S] : g[0] = base /\ \A i \in 1..n : g[i] = step[<<i, g[i - 1]>>]
           T == {n \in Nat : n <= N => Has(n)}
<1>1. 0 \in T
  <2> DEFINE g == [i \in 0..0 |-> base]
  <2>1. g \in [0..0 -> S] /\ g[0] = base /\ 1..0 = {}
        OBVIOUS
  <2>2. Has(0)
        BY <2>1
  <2> QED BY <2>2
<1>2. ASSUME NEW n \in Nat, n \in T PROVE n + 1 \in T
  <2> SUFFICES ASSUME n + 1 <= N PROVE Has(n + 1)
      OBVIOUS
  <2>1. PICK g \in [0..n -> S] : g[0] = base /\ \A i \in 1..n : g[i] = step[<<i, g[i - 1]>>]
        BY <1>2
  <2> DEFINE h == [i \in 0..(n + 1) |-> IF i = n + 1 THEN step[<<n + 1, g[n]>>] ELSE g[i]]
  <2>2. n \in 0..n /\ n + 1 \in 1..N /\ g[n] \in S
        BY <2>1
  <2>3. step[<<n + 1, g[n]>>] \in S
        BY <2>2
  <2>4. \A i \in 0..(n + 1) : i = n + 1 \/ i \in 0..n
        OBVIOUS
  <2>5. h \in [0..(n + 1) -> S]
        BY <2>3, <2>4
  <2>6. /\ \A i \in 0..n : i \in 0..(n + 1) /\ i # n + 1
        /\ n + 1 \in 0..(n + 1) /\ 0 \in 0..n
        OBVIOUS
  <2>7. h[n + 1] = step[<<n + 1, g[n]>>] /\ \A i \in 0..n : h[i] = g[i]
        BY <2>6
  <2> HIDE DEF h
  <2>8. ASSUME NEW i \in 1..(n + 1) PROVE h[i] = step[<<i, h[i - 1]>>]
    <3>1. CASE i = n + 1
      <4>1. i - 1 = n
            BY <3>1
      <4> QED BY <2>2, <2>7, <3>1, <4>1
    <3>2. CASE i # n + 1
      <4>1. i \in 1..n /\ i \in 0..n /\ i - 1 \in 0..n
            BY <3>2
      <4> QED BY <2>1, <2>7, <4>1
    <3> QED BY <3>1, <3>2
  <2>9. h[0] = base
        BY <2>1, <2>6, <2>7
  <2> QED BY <2>5, <2>8, <2>9
<1> HIDE DEF T
<1>3. \A n \in Nat : n \in T
      BY <1>1, <1>2, Induct
<1>4. N \in T
      BY <1>3
<1> QED BY <1>4 DEF T, Iterates

-----------------------------------------------------------------------------
\* h[n] is what the first n of seqs make, one after the other.
Flattens(seqs, h) ==
  h = [i \in 1..Len(seqs) |-> IF i = 1 THEN seqs[i] ELSE h[i - 1] \o seqs[i]]

LEMMA FlattensExists ==
  ASSUME NEW B, NEW seqs \in Seq(Seq(B))
  PROVE  \E h : Flattens(seqs, h)
<1> DEFINE N == Len(seqs)
           step == [p \in (1..N) \X Seq(B) |-> IF p[1] = 1 THEN seqs[1] ELSE p[2] \o seqs[p[1]]]
<1>1. N \in Nat /\ \A i \in 1..N : seqs[i] \in Seq(B)
      BY LenProperties, ElementOfSeq
<1>2. step \in [(1..N) \X Seq(B) -> Seq(B)]
  <2>1. ASSUME NEW p \in (1..N) \X Seq(B)
        PROVE  (IF p[1] = 1 THEN seqs[1] ELSE p[2] \o seqs[p[1]]) \in Seq(B)
    <3>1. p[1] \in 1..N /\ p[2] \in Seq(B)
          OBVIOUS
    <3>2. seqs[p[1]] \in Seq(B)
          BY <1>1, <3>1
    <3>3. p[2] \o seqs[p[1]] \in Seq(B)
          BY <3>1, <3>2, ConcatProperties
    <3> QED BY <3>2, <3>3
  <2> QED BY <2>1
<1>3. <<>> \in Seq(B)
      OBVIOUS
<1> HIDE DEF N
<1>4. \A i \in 1..N, s \in Seq(B) : step[<<i, s>>] = IF i = 1 THEN seqs[1] ELSE s \o seqs[i]
      OBVIOUS
<1> HIDE DEF step
<1>5. PICK g \in [0..N -> Seq(B)] : g[0] = <<>> /\ \A i \in 1..N : g[i] = step[<<i, g[i - 1]>>]
  <2>1. \E g : Iterates(g, N, Seq(B), <<>>, step)
        BY <1>1, <1>2, <1>3, Recursion
  <2> QED BY <2>1 DEF Iterates
<1> DEFINE h == [i \in 1..N |-> g[i]]
<1>6. ASSUME NEW i \in 1..N PROVE g[i] = IF i = 1 THEN seqs[i] ELSE h[i - 1] \o seqs[i]
  <2>1. i - 1 \in 0..N /\ (i # 1 => i - 1 \in 1..N)
        BY <1>1
  <2>2. g[i - 1] \in Seq(B)
        BY <2>1
  <2>3. g[i] = IF i = 1 THEN seqs[1] ELSE g[i - 1] \o seqs[i]
        BY <1>4, <1>5, <2>2
  <2>4. i # 1 => h[i - 1] = g[i - 1]
        BY <2>1
  <2> HIDE DEF h
  <2> QED BY <2>3, <2>4
<1>7. h = [i \in 1..N |-> IF i = 1 THEN seqs[i] ELSE h[i - 1] \o seqs[i]]
  <2> DEFINE e(i) == IF i = 1 THEN seqs[i] ELSE h[i - 1] \o seqs[i]
  <2>1. \A i \in 1..N : g[i] = e(i)
        BY <1>6
  <2> HIDE DEF e
  <2>2. h = [i \in 1..N |-> e(i)]
        BY <2>1
  <2> QED BY <2>2 DEF e
<1>8. Flattens(seqs, h)
      BY <1>7 DEF Flattens, N
<1> QED BY <1>8

\* FlattenSeq, which the library defines by recursion, for sequences that are not empty.
LEMMA FlattenIs ==
  ASSUME NEW B, NEW seqs \in Seq(Seq(B)), Len(seqs) # 0
  PROVE  \E h : Flattens(seqs, h) /\ FlattenSeq(seqs) = h[Len(seqs)]
<1> DEFINE h == CHOOSE h : Flattens(seqs, h)
<1>1. Flattens(seqs, h)
      BY FlattensExists
<1>2. FlattenSeq(seqs) = h[Len(seqs)]
      BY DEF FlattenSeq, Flattens
<1> QED BY <1>1, <1>2

LEMMA FlattenEmpty == FlattenSeq(<<>>) = <<>>
BY DEF FlattenSeq

\* One sequence more at the end.
LEMMA FlattenAppend ==
  ASSUME NEW B, NEW seqs \in Seq(Seq(B)), FlattenSeq(seqs) \in Seq(B), NEW x \in Seq(B)
  PROVE  FlattenSeq(Append(seqs, x)) = FlattenSeq(seqs) \o x
<1> DEFINE N == Len(seqs)  t == Append(seqs, x)
<1>1. /\ N \in Nat /\ t \in Seq(Seq(B)) /\ Len(t) = N + 1
      /\ \A i \in 1..N : t[i] = seqs[i]
      /\ t[N + 1] = x
      BY AppendProperties, LenProperties
<1>2. PICK h : Flattens(t, h) /\ FlattenSeq(t) = h[N + 1]
  <2>1. Len(t) # 0
        BY <1>1
  <2> HIDE DEF t, N
  <2> QED BY <1>1, <2>1, FlattenIs
<1> HIDE DEF t
<1>3. \A i \in 1..(N + 1) : h[i] = IF i = 1 THEN t[i] ELSE h[i - 1] \o t[i]
      BY <1>1, <1>2 DEF Flattens
<1>4. N + 1 \in 1..(N + 1)
      BY <1>1
<1>5. CASE N = 0
  <2>1. seqs = <<>>
        BY <1>5, EmptySeq
  <2>2. FlattenSeq(seqs) = <<>>
        BY <2>1, FlattenEmpty
  <2>3. <<>> \o x = x
        BY ConcatEmptySeq
  <2>4. h[N + 1] = t[N + 1]
        BY <1>3, <1>4, <1>5
  <2> QED BY <1>1, <1>2, <2>2, <2>3, <2>4 DEF t
<1>6. CASE N # 0
  <2>1. PICK f : Flattens(seqs, f) /\ FlattenSeq(seqs) = f[N]
        BY <1>6, FlattenIs
  <2>2. \A i \in 1..N : f[i] = IF i = 1 THEN seqs[i] ELSE f[i - 1] \o seqs[i]
        BY <2>1 DEF Flattens, N
  <2> HIDE DEF N
  <2>3. \A i \in 1..N : i # 1 => f[i] = f[i - 1] \o seqs[i]
        BY <2>2, Zenon
  <2>4. \A i \in 1..(N + 1) : i # 1 => h[i] = h[i - 1] \o t[i]
        BY <1>3, Zenon
  <2> DEFINE T == {k \in Nat : k \in 1..N => f[k] = h[k]}
  <2>5. 0 \in T
        OBVIOUS
  <2>6. ASSUME NEW n \in Nat, n \in T PROVE n + 1 \in T
    <3> DEFINE m == n + 1
    <3> SUFFICES ASSUME m \in 1..N PROVE f[m] = h[m]
        OBVIOUS
    <3>1. m \in 1..(N + 1) /\ m - 1 = n /\ (m # 1 => n \in 1..N)
          BY <1>1
    <3>2. t[m] = seqs[m]
          BY <1>1
    <3>3. CASE m = 1
      <4>1. 1 \in 1..N /\ 1 \in 1..(N + 1)
            BY <1>1, <3>3
      <4>2. f[1] = seqs[1] /\ h[1] = t[1]
            BY <1>3, <2>2, <4>1, Zenon
      <4> HIDE DEF m
      <4> QED BY <3>2, <3>3, <4>2, Zenon
    <3>4. CASE m # 1
      <4>1. f[n] = h[n]
            BY <2>6, <3>1, <3>4
      <4> HIDE DEF m
      <4>2. f[m] = f[n] \o seqs[m] /\ h[m] = h[n] \o t[m]
            BY <2>3, <2>4, <3>1, <3>4, Zenon
      <4> QED BY <3>2, <4>1, <4>2, Zenon
    <3> QED BY <3>3, <3>4
  <2> HIDE DEF T
  <2>7. \A n \in Nat : n \in T
        BY <2>5, <2>6, Induct
  <2>8. f[N] = h[N]
    <3>1. N \in 1..N
          BY <1>1, <1>6
    <3> QED BY <1>1, <2>7, <3>1 DEF T
  <2>9. h[N + 1] = h[N] \o t[N + 1]
    <3> DEFINE m == N + 1
    <3>1. m \in 1..(N + 1) /\ m # 1 /\ m - 1 = N
          BY <1>1, <1>6
    <3> HIDE DEF m
    <3>2. h[m] = h[N] \o t[m]
          BY <2>4, <3>1, Zenon
    <3> QED BY <3>2 DEF m
  <2> QED BY <1>1, <1>2, <2>1, <2>8, <2>9 DEF t
<1> QED BY <1>5, <1>6

\* By induction over the length of a sequence of sequences.
LEMMA FlattenType ==
  ASSUME NEW B, NEW seqs \in Seq(Seq(B))
  PROVE  FlattenSeq(seqs) \in Seq(B)
<1> DEFINE T == {n \in Nat : \A q \in Seq(Seq(B)) : Len(q) = n => FlattenSeq(q) \in Seq(B)}
<1>1. 0 \in T
  <2>1. ASSUME NEW q \in Seq(Seq(B)), Len(q) = 0 PROVE FlattenSeq(q) \in Seq(B)
    <3>1. q = <<>>
          BY <2>1, EmptySeq
    <3>2. <<>> \in Seq(B)
          OBVIOUS
    <3> QED BY <3>1, <3>2, FlattenEmpty
  <2> QED BY <2>1
<1>2. ASSUME NEW n \in Nat, n \in T PROVE n + 1 \in T
  <2>1. ASSUME NEW q \in Seq(Seq(B)), Len(q) = n + 1 PROVE FlattenSeq(q) \in Seq(B)
    <3>1. q # <<>>
          BY <2>1
    <3>2. PICK r \in Seq(Seq(B)), x \in Seq(B) : q = Append(r, x)
          BY <3>1, SequenceEmptyOrAppend
    <3>3. Len(r) \in Nat /\ Len(q) = Len(r) + 1
          BY <3>2, AppendProperties, LenProperties
    <3>4. Len(r) = n
          BY <2>1, <3>3
    <3>5. FlattenSeq(r) \in Seq(B)
          BY <1>2, <3>4
    <3>6. FlattenSeq(q) = FlattenSeq(r) \o x
          BY <3>2, <3>5, FlattenAppend
    <3> QED BY <3>5, <3>6, ConcatProperties
  <2> QED BY <2>1
<1> HIDE DEF T
<1>3. \A n \in Nat : n \in T
      BY <1>1, <1>2, Induct
<1>4. Len(seqs) \in Nat
      BY LenProperties
<1> QED BY <1>3, <1>4 DEF T

-----------------------------------------------------------------------------
\* What is picked at some positions of a sequence.
LEMMA PickedType ==
  ASSUME NEW B, NEW s \in Seq(B), NEW S, S \subseteq 1..Len(s)
  PROVE  /\ IsFiniteSet(S) /\ S \subseteq Nat /\ Cardinality(S) \in Nat
         /\ Picked(s, S) \in Seq(B) /\ Len(Picked(s, S)) = Cardinality(S)
<1> DEFINE C == Cardinality(S)  d == InOrder(S)
<1>1. Len(s) \in Nat
      BY LenProperties
<1>2. \A i \in S : i \in Nat /\ i <= Len(s)
      BY <1>1
<1>3. S \in SUBSET Nat
      BY <1>2
<1>4. IsFiniteSet(S)
      BY <1>1, <1>2, <1>3, FS_BoundedSetOfNaturals
<1>5. C \in Nat /\ Enumerates(d, C, S)
      BY <1>3, <1>4, InOrderEnumerates
<1>6. Picked(s, S) = [n \in DOMAIN d |-> s[d[n]]]
      BY DEF Picked
<1> HIDE DEF C, d
<1>7. DOMAIN d = 1..C /\ \A n \in 1..C : d[n] \in S
      BY <1>5 DEF Enumerates
<1>8. \A n \in 1..C : s[d[n]] \in B
      BY <1>7, ElementOfSeq
<1>9. Picked(s, S) \in [1..C -> B]
      BY <1>6, <1>7, <1>8
<1>10. Picked(s, S) \in Seq(B) /\ Len(Picked(s, S)) = C
      BY <1>5, <1>9
<1> QED BY <1>3, <1>4, <1>5, <1>10 DEF C

LEMMA PickedAt ==
  ASSUME NEW B, NEW s \in Seq(B), NEW S \in SUBSET (1..Len(s)), NEW n \in 1..Cardinality(S)
  PROVE  \E x \in S : InOrder(S)[n] = x /\ Picked(s, S)[n] = s[x]
<1>1. IsFiniteSet(S) /\ S \subseteq Nat
      BY PickedType, Zenon
<1>2. Enumerates(InOrder(S), Cardinality(S), S)
      BY <1>1, InOrderEnumerates
<1>3. InOrder(S) \in [1..Cardinality(S) -> S]
      BY <1>2 DEF Enumerates
<1>4. DOMAIN InOrder(S) = 1..Cardinality(S)
      BY <1>3
<1> QED BY <1>3, <1>4 DEF Picked

\* And at one more, after all of them.
LEMMA PickedMore ==
  ASSUME NEW B, NEW s \in Seq(B), NEW S, S \subseteq 1..Len(s), NEW m \in 1..Len(s), \A i \in S : i < m
  PROVE  Picked(s, S \cup {m}) = Append(Picked(s, S), s[m])
<1> DEFINE C == Cardinality(S)  d == InOrder(S)
           f == [n \in 1..(C + 1) |-> IF n = C + 1 THEN m ELSE d[n]]
<1>1. /\ C \in Nat /\ IsFiniteSet(S) /\ S \subseteq Nat
      /\ Picked(s, S) \in Seq(B) /\ Len(Picked(s, S)) = C
      /\ \A n \in 1..C : Picked(s, S)[n] = s[d[n]]
  <2>1. /\ IsFiniteSet(S) /\ S \subseteq Nat /\ Cardinality(S) \in Nat
        /\ Picked(s, S) \in Seq(B) /\ Len(Picked(s, S)) = Cardinality(S)
        /\ \A n \in 1..Cardinality(S) : InOrder(S)[n] \in S /\ Picked(s, S)[n] = s[InOrder(S)[n]]
    <3>1. IsFiniteSet(S) /\ S \subseteq Nat /\ Cardinality(S) \in Nat
          BY PickedType
    <3>2. Picked(s, S) \in Seq(B) /\ Len(Picked(s, S)) = Cardinality(S)
          BY PickedType
    <3>3. ASSUME NEW n \in 1..Cardinality(S)
          PROVE  InOrder(S)[n] \in S /\ Picked(s, S)[n] = s[InOrder(S)[n]]
      <4>1. \E x \in S : InOrder(S)[n] = x /\ Picked(s, S)[n] = s[x]
            BY PickedAt
      <4> QED BY <4>1
    <3> QED BY <3>1, <3>2, <3>3
  <2> QED BY <2>1, Zenon
<1>2. Enumerates(d, C, S)
      BY <1>1, InOrderEnumerates
<1> HIDE DEF C, d
<1>3. /\ f[C + 1] = m /\ \A n \in 1..C : f[n] = d[n]
      /\ \A n \in 1..(C + 1) : n \in 1..C \/ n = C + 1
      /\ DOMAIN f = 1..(C + 1)
  <2>1. C + 1 \in 1..(C + 1) /\ \A n \in 1..C : n \in 1..(C + 1) /\ n # C + 1
        BY <1>1
  <2>2. \A n \in 1..(C + 1) : n \in 1..C \/ n = C + 1
        BY <1>1
  <2> QED BY <2>1, <2>2
<1>4. f \in [1..(C + 1) -> S \cup {m}]
      BY <1>2, <1>3 DEF Enumerates
<1> HIDE DEF f
<1>5. ASSUME NEW i \in 1..(C + 1), NEW j \in 1..(C + 1), i < j PROVE f[i] < f[j]
  <2>1. i \in 1..C
        BY <1>1, <1>5
  <2>2. CASE j = C + 1
        BY <1>2, <1>3, <2>1, <2>2 DEF Enumerates
  <2>3. CASE j # C + 1
    <3>1. j \in 1..C
          BY <1>3, <2>3
    <3> QED BY <1>2, <1>3, <1>5, <2>1, <3>1 DEF Enumerates
  <2> QED BY <2>2, <2>3
<1>6. ASSUME NEW x \in S \cup {m} PROVE \E n \in 1..(C + 1) : f[n] = x
  <2>1. CASE x = m
    <3>1. C + 1 \in 1..(C + 1)
          BY <1>1
    <3> QED BY <1>3, <2>1, <3>1
  <2>2. CASE x # m
    <3>1. PICK n \in 1..C : d[n] = x
          BY <1>2, <2>2 DEF Enumerates
    <3>2. n \in 1..(C + 1)
          BY <1>1
    <3> QED BY <1>3, <3>1, <3>2
  <2> QED BY <2>1, <2>2
<1>7. Enumerates(f, C + 1, S \cup {m})
      BY <1>4, <1>5, <1>6 DEF Enumerates
<1>8. InOrder(S \cup {m}) = f
  <2>1. C + 1 \in Nat /\ S \cup {m} \subseteq Nat
        BY <1>1
  <2> QED BY <1>7, <2>1, InOrderIs
<1>9. Picked(s, S \cup {m}) = [n \in 1..(C + 1) |-> s[f[n]]]
      BY <1>3, <1>8 DEF Picked
<1>10. s[m] \in B
      BY ElementOfSeq
<1> DEFINE p == Picked(s, S)  q == Append(p, s[m])  r == Picked(s, S \cup {m})
<1>11. /\ q \in Seq(B) /\ Len(q) = C + 1 /\ \A n \in 1..C : q[n] = p[n]
       /\ q[C + 1] = s[m]
      BY <1>1, <1>10, AppendProperties
<1>12. r \in Seq(B) /\ Len(r) = C + 1
  <2>1. S \cup {m} \subseteq 1..Len(s)
        OBVIOUS
  <2>2. r \in Seq(B)
        BY <2>1, PickedType
  <2> QED BY <1>1, <1>9, <2>2
<1>13. ASSUME NEW n \in 1..(C + 1) PROVE r[n] = q[n]
  <2>1. r[n] = s[f[n]]
        BY <1>9
  <2>2. CASE n = C + 1
        BY <1>3, <1>11, <2>1, <2>2
  <2>3. CASE n # C + 1
    <3>1. n \in 1..C
          BY <1>3, <2>3
    <3> QED BY <1>1, <1>3, <1>11, <2>1, <3>1
  <2> QED BY <2>2, <2>3
<1> HIDE DEF q, r
<1>14. q = r
      BY <1>11, <1>12, <1>13, SeqEqual
<1> QED BY <1>14 DEF q, r, p

\* Without the last one.
LEMMA PickedLess ==
  ASSUME NEW B, NEW s \in Seq(B), NEW S, S \subseteq 1..Len(s), NEW m \in S, \A i \in S : i <= m
  PROVE  Picked(s, S) # <<>> /\ Picked(s, S \ {m}) = Front(Picked(s, S))
<1> DEFINE R == S \ {m}  p == Picked(s, R)
<1>1. R \subseteq 1..Len(s) /\ m \in 1..Len(s) /\ S = R \cup {m}
      OBVIOUS
<1>2. \A i \in R : i < m
  <2>1. \A i \in R : i <= m /\ i # m /\ i \in 1..Len(s) /\ m \in 1..Len(s)
        BY <1>1
  <2> QED BY <2>1
<1>3. p \in Seq(B) /\ Len(p) \in Nat
  <2>1. p \in Seq(B)
        BY <1>1, PickedType, Zenon
  <2> QED BY <2>1, LenProperties
<1>4. Picked(s, R \cup {m}) = Append(p, s[m])
      BY <1>1, <1>2, PickedMore
<1>5. s[m] \in B
      BY <1>1, ElementOfSeq
<1>6. Append(p, s[m]) # <<>> /\ Front(Append(p, s[m])) = p
  <2> DEFINE q == Append(p, s[m])
  <2>1. /\ q \in Seq(B) /\ q # <<>> /\ Len(q) = Len(p) + 1 /\ \A n \in 1..Len(p) : q[n] = p[n]
    <3> HIDE DEF p
    <3> QED BY <1>3, <1>5, AppendProperties
  <2> HIDE DEF p, q
  <2>2. Len(q) - 1 = Len(p) /\ 1 \in Int /\ Len(p) \in Int
        BY <1>3, <2>1
  <2>3. \A n \in 1..Len(p) : p[n] \in B /\ q[n] = p[n]
        BY <1>3, <2>1, ElementOfSeq
  <2>4. SubSeq(p, 1, Len(p)) = SubSeq(q, 1, Len(p))
        BY <2>2, <2>3, SameSubSeq
  <2>5. SubSeq(p, 1, Len(p)) = p
        BY <1>3, SubSeqFull
  <2> QED BY <2>1, <2>2, <2>4, <2>5 DEF Front, q
<1> QED BY <1>1, <1>4, <1>6

\* All of them.
LEMMA PickedAll ==
  ASSUME NEW B, NEW s \in Seq(B)
  PROVE  Picked(s, DOMAIN s) = s
<1> DEFINE L == Len(s)  f == [n \in 1..L |-> n]
<1>1. L \in Nat /\ DOMAIN s = 1..L /\ 1..L \subseteq Nat
      BY LenProperties
<1>2. Enumerates(f, L, 1..L)
  <2>1. f \in [1..L -> 1..L] /\ \A n \in 1..L : f[n] = n
        OBVIOUS
  <2> HIDE DEF f, L
  <2>2. \A i, j \in 1..L : i < j => f[i] < f[j]
        BY <2>1
  <2>3. \A x \in 1..L : \E n \in 1..L : f[n] = x
        BY <2>1
  <2> QED BY <2>1, <2>2, <2>3 DEF Enumerates
<1>3. InOrder(1..L) = f
  <2> HIDE DEF f, L
  <2> QED BY <1>1, <1>2, InOrderIs
<1>4. Picked(s, 1..L) = [n \in DOMAIN f |-> s[f[n]]]
  <2> HIDE DEF f
  <2> QED BY <1>3 DEF Picked
<1>5. s = [n \in 1..L |-> s[n]]
      BY LenProperties
<1> QED BY <1>1, <1>4, <1>5

-----------------------------------------------------------------------------
(* The scan.                                                               *)

\* The scan of symbolicRealpath, its parts by name.
Rest(file) == IF Absolute(file) THEN Tail(file) ELSE file
Short(file, r) == r.up + (IF Absolute(file) THEN 0 ELSE 1)
ScanStart == [up |-> 0, kept |-> <<>>, open |-> <<>>]
ScanStep(file, r, i) ==
  IF Rest(file)[i] = Slash /\ Len(Rest(file)) - i >= Short(file, r) THEN Closed(r)
  ELSE [r EXCEPT !.open = Append(@, Rest(file)[i])]
Scans(file, g) ==
  g = [i \in 0..Len(Rest(file)) |-> IF i = 0 THEN ScanStart ELSE ScanStep(file, g[i - 1], i)]

Climbing(r) == FlattenSeq([n \in 1..r.up |-> <<".", ".", "/">>])
Going(r) == FlattenSeq([n \in DOMAIN r.kept |-> Append(r.kept[n], Slash)])
Written(r) == Climbing(r) \o <<Slash>> \o Going(r) \o r.open

ScanStates(P) == [up : Nat, kept : Seq(Seq(P)), open : Seq(P)]

LEMMA RealpathScans ==
  ASSUME NEW file
  PROVE  symbolicRealpath(file) = Squeezed(Written((CHOOSE g : Scans(file, g))[Len(Rest(file))]))
BY DEF symbolicRealpath, Squeezed, Written, Climbing, Going, Scans, ScanStep, ScanStart, Short, Rest

LEMMA FrontIs ==
  ASSUME NEW P, NEW s \in Seq(P), s # <<>>
  PROVE  /\ Front(s) \in Seq(P) /\ Len(s) \in Nat \ {0} /\ Len(Front(s)) = Len(s) - 1
         /\ \A i \in 1..(Len(s) - 1) : Front(s)[i] = s[i]
<1>1. Len(s) \in Nat \ {0}
      BY EmptySeq, LenProperties
<1>2. \A i \in 1..(Len(s) - 1) : s[i] \in P
      BY <1>1, ElementOfSeq
<1>3. 1 \in Int /\ Len(s) - 1 \in Int
      BY <1>1
<1> DEFINE n == Len(s) - 1
<1>4. n \in Nat /\ \A i \in 1..n : s[i] \in P
      BY <1>1, <1>2
<1>5. /\ SubSeq(s, 1, n) \in Seq(P) /\ Len(SubSeq(s, 1, n)) = n
      /\ \A i \in 1..n : SubSeq(s, 1, n)[i] = s[i]
  <2>1. /\ SubSeq(s, 1, n) \in Seq(P)
        /\ Len(SubSeq(s, 1, n)) = IF 1 <= n THEN n - 1 + 1 ELSE 0
        /\ \A i \in 1..(n - 1 + 1) : SubSeq(s, 1, n)[i] = s[1 + i - 1]
    <3> HIDE DEF n
    <3> QED BY <1>3, <1>4, SubSeqProperties
  <2> HIDE DEF n
  <2>2. Len(SubSeq(s, 1, n)) = n
        BY <1>4, <2>1
  <2>3. \A i \in 1..n : i \in 1..(n - 1 + 1) /\ 1 + i - 1 = i
        BY <1>4
  <2> QED BY <2>1, <2>2, <2>3
<1> QED BY <1>1, <1>5 DEF Front

LEMMA StepType ==
  ASSUME NEW P, NEW file \in Seq(P), NEW i \in 1..Len(Rest(file)), NEW r \in ScanStates(P)
  PROVE  ScanStep(file, r, i) \in ScanStates(P)
<1>1. r.up \in Nat /\ r.kept \in Seq(Seq(P)) /\ r.open \in Seq(P) /\ <<>> \in Seq(P)
      BY DEF ScanStates
<1>2. r = [up |-> r.up, kept |-> r.kept, open |-> r.open]
      BY DEF ScanStates
<1>3. Rest(file) \in Seq(P) /\ Rest(file)[i] \in P
  <2>1. Rest(file) \in Seq(P)
    <3>1. CASE Absolute(file)
          BY <3>1, HeadTailProperties DEF Rest, Absolute
    <3>2. CASE ~Absolute(file)
          BY <3>2 DEF Rest
    <3> QED BY <3>1, <3>2
  <2> QED BY <2>1, ElementOfSeq
<1>4. Append(r.open, Rest(file)[i]) \in Seq(P)
      BY <1>1, <1>3, AppendProperties
<1>5. Append(r.kept, r.open) \in Seq(Seq(P))
      BY <1>1, AppendProperties
<1>6. r.kept # <<>> => Front(r.kept) \in Seq(Seq(P))
      BY <1>1, FrontIs
<1>7. [r EXCEPT !.open = Append(@, Rest(file)[i])] \in ScanStates(P)
      BY <1>1, <1>2, <1>4 DEF ScanStates
<1>8. Closed(r) \in ScanStates(P)
  <2>1. [r EXCEPT !.open = <<>>] \in ScanStates(P)
        BY <1>1, <1>2 DEF ScanStates
  <2>2. r.kept # <<>> => [r EXCEPT !.open = <<>>, !.kept = Front(@)] \in ScanStates(P)
        BY <1>1, <1>2, <1>6 DEF ScanStates
  <2>3. [r EXCEPT !.open = <<>>, !.up = @ + 1] \in ScanStates(P)
    <3>1. r.up + 1 \in Nat
          BY <1>1
    <3>2. [r EXCEPT !.open = <<>>, !.up = @ + 1] = [up |-> r.up + 1, kept |-> r.kept, open |-> <<>>]
      <4> DEFINE q == [r EXCEPT !.open = <<>>, !.up = @ + 1]
      <4>1. /\ DOMAIN q = {"up", "kept", "open"} /\ q.kept = r.kept /\ q.open = <<>>
            /\ q.up = r.up + 1 /\ q = [f \in {"up", "kept", "open"} |-> q[f]]
            BY <1>2
      <4> HIDE DEF q
      <4>2. q = [up |-> r.up + 1, kept |-> r.kept, open |-> <<>>]
            BY <4>1
      <4> QED BY <4>2 DEF q
    <3> HIDE DEF ScanStates
    <3>3. \A n \in Nat : [up |-> n, kept |-> r.kept, open |-> <<>>] \in ScanStates(P)
          BY <1>1 DEF ScanStates
    <3> QED BY <3>1, <3>2, <3>3, Zenon
  <2>4. [r EXCEPT !.open = <<>>, !.kept = Append(@, r.open)] \in ScanStates(P)
        BY <1>1, <1>2, <1>5 DEF ScanStates
  <2> QED BY <2>1, <2>2, <2>3, <2>4 DEF Closed
<1> QED BY <1>7, <1>8 DEF ScanStep

\* The scan is a function: by Recursion.
LEMMA ScanExists ==
  ASSUME NEW P, NEW file \in Seq(P)
  PROVE  \E g : Scans(file, g)
<1> DEFINE N == Len(Rest(file))
           step == [p \in (1..N) \X ScanStates(P) |-> ScanStep(file, p[2], p[1])]
<1>1. N \in Nat
  <2>1. Rest(file) \in Seq(P)
    <3>1. CASE Absolute(file)
          BY <3>1, HeadTailProperties DEF Rest, Absolute
    <3>2. CASE ~Absolute(file)
          BY <3>2 DEF Rest
    <3> QED BY <3>1, <3>2
  <2> QED BY <2>1, LenProperties
<1>2. step \in [(1..N) \X ScanStates(P) -> ScanStates(P)]
  <2>1. ASSUME NEW p \in (1..N) \X ScanStates(P) PROVE ScanStep(file, p[2], p[1]) \in ScanStates(P)
        BY StepType
  <2> QED BY <2>1
<1>3. ScanStart \in ScanStates(P)
      BY DEF ScanStart, ScanStates
<1>4. \A i \in 1..N, r \in ScanStates(P) : step[<<i, r>>] = ScanStep(file, r, i)
      OBVIOUS
<1> HIDE DEF N, step
<1>5. PICK g : Iterates(g, N, ScanStates(P), ScanStart, step)
      BY <1>1, <1>2, <1>3, Recursion
<1>6. ASSUME NEW i \in 0..N PROVE g[i] = IF i = 0 THEN ScanStart ELSE ScanStep(file, g[i - 1], i)
  <2>1. CASE i = 0
        BY <1>5, <2>1 DEF Iterates
  <2>2. CASE i # 0
    <3>1. i \in 1..N /\ i - 1 \in 0..N
          BY <1>1, <2>2
    <3>2. g[i - 1] \in ScanStates(P) /\ g[i] = step[<<i, g[i - 1]>>]
          BY <1>5, <3>1 DEF Iterates
    <3> QED BY <1>4, <2>2, <3>1, <3>2
  <2> QED BY <2>1, <2>2
<1>7. g = [i \in 0..N |-> g[i]]
      BY <1>5 DEF Iterates
<1>8. g = [i \in 0..N |-> IF i = 0 THEN ScanStart ELSE ScanStep(file, g[i - 1], i)]
  <2> DEFINE e(i) == IF i = 0 THEN ScanStart ELSE ScanStep(file, g[i - 1], i)
  <2>1. \A i \in 0..N : g[i] = e(i)
        BY <1>6
  <2> HIDE DEF e
  <2>2. g = [i \in 0..N |-> e(i)]
        BY <1>7, <2>1
  <2> QED BY <2>2 DEF e
<1>9. Scans(file, g)
      BY <1>8 DEF Scans, N
<1> QED BY <1>9

\* The scan, step by step.
LEMMA RealpathIs ==
  ASSUME NEW P, NEW file \in Seq(P)
  PROVE  \E g : /\ g \in [0..Len(Rest(file)) -> ScanStates(P)]
                /\ g[0] = ScanStart
                /\ \A i \in 1..Len(Rest(file)) : g[i] = ScanStep(file, g[i - 1], i)
                /\ symbolicRealpath(file) = Squeezed(Written(g[Len(Rest(file))]))
<1> DEFINE g == CHOOSE g : Scans(file, g)  N == Len(Rest(file))
<1>1. Scans(file, g)
      BY ScanExists
<1>2. symbolicRealpath(file) = Squeezed(Written(g[N]))
      BY RealpathScans
<1> HIDE DEF g
<1>3. g = [i \in 0..N |-> IF i = 0 THEN ScanStart ELSE ScanStep(file, g[i - 1], i)]
      BY <1>1 DEF Scans
<1>4. N \in Nat /\ Rest(file) \in Seq(P)
  <2>1. Rest(file) \in Seq(P)
    <3>1. CASE Absolute(file)
          BY <3>1, HeadTailProperties DEF Rest, Absolute
    <3>2. CASE ~Absolute(file)
          BY <3>2 DEF Rest
    <3> QED BY <3>1, <3>2
  <2> QED BY <2>1, LenProperties
<1> HIDE DEF N
<1>5. 0 \in 0..N /\ \A i \in 1..N : i \in 0..N /\ i # 0
      BY <1>4
<1>6. g[0] = ScanStart /\ \A i \in 1..N : g[i] = ScanStep(file, g[i - 1], i)
  <2>1. \A i \in 0..N : g[i] = IF i = 0 THEN ScanStart ELSE ScanStep(file, g[i - 1], i)
        BY <1>3
  <2> QED BY <1>5, <2>1
<1>7. \A i \in 0..N : g[i] \in ScanStates(P)
  <2> DEFINE T == {i \in Nat : i \in 0..N => g[i] \in ScanStates(P)}
  <2>1. 0 \in T
    <3>1. ScanStart \in ScanStates(P)
          BY DEF ScanStart, ScanStates
    <3> QED BY <1>6, <3>1
  <2>2. ASSUME NEW n \in Nat, n \in T PROVE n + 1 \in T
    <3> DEFINE m == n + 1
    <3> SUFFICES ASSUME m \in 0..N PROVE g[m] \in ScanStates(P)
        OBVIOUS
    <3>1. m \in 1..N /\ n \in 0..N /\ m - 1 = n
          BY <1>4
    <3>2. g[n] \in ScanStates(P)
          BY <2>2, <3>1
    <3> HIDE DEF m
    <3>3. g[m] = ScanStep(file, g[n], m)
          BY <1>6, <3>1
    <3>4. m \in 1..Len(Rest(file))
          BY <3>1 DEF N
    <3> QED BY <3>2, <3>3, <3>4, StepType
  <2> HIDE DEF T
  <2>3. \A n \in Nat : n \in T
        BY <2>1, <2>2, Induct
  <2>4. \A i \in 0..N : i \in Nat
        BY <1>4
  <2> QED BY <2>3, <2>4 DEF T
<1>8. g \in [0..N -> ScanStates(P)]
      BY <1>3, <1>7
<1> QED BY <1>2, <1>6, <1>8 DEF N

-----------------------------------------------------------------------------
(* Heights: a walk up and down, and what it keeps.                         *)

\* How far down a path is after each of its segments: at most one up or down at a time.
Heights(h, N) ==
  /\ h \in [0..N -> Int] /\ h[0] = 0
  /\ \A j \in 0..(N - 1) : \A i \in 0..N : i = j + 1 => h[i] \in {h[j] - 1, h[j], h[j] + 1}

\* The segments that went down and that none has gone back over since.
Kept(h, n) == {k \in 1..n : \A i \in 0..n : i = k - 1 => \A j \in k..n : h[j] > h[i]}

LEMMA KeptIn ==
  ASSUME NEW h, NEW n \in Nat, NEW k \in 1..n
  PROVE  k \in Kept(h, n) <=> \A j \in k..n : h[j] > h[k - 1]
<1>1. k - 1 \in 0..n
      OBVIOUS
<1> QED BY <1>1 DEF Kept

\* A segment that stays at its height, like ".", changes nothing.
LEMMA KeptLevel ==
  ASSUME NEW N \in Nat, NEW h, Heights(h, N), NEW n \in 0..(N - 1), NEW m, m = n + 1, h[m] = h[n]
  PROVE  Kept(h, m) = Kept(h, n)
<1>1. n \in Nat /\ m \in Nat /\ n \in 0..N /\ m \in 0..N
      OBVIOUS
<1>2. \A j \in 0..N : h[j] \in Int
      BY DEF Heights
<1>3. ASSUME NEW k \in 1..m PROVE k \in Kept(h, m) <=> k \in 1..n /\ k \in Kept(h, n)
  <2>1. k - 1 \in 0..N /\ k \in 0..N /\ k \in Nat
        BY <1>1
  <2>2. CASE k = m
    <3>1. m \in k..m /\ k - 1 = n /\ k \notin 1..n
          BY <1>1, <2>2
    <3>2. ~(h[m] > h[n])
          BY <1>1, <1>2
    <3>3. k \notin Kept(h, m)
          BY <1>1, <3>1, <3>2, KeptIn
    <3> QED BY <3>1, <3>3
  <2>3. CASE k # m
    <3>1. k \in 1..n /\ n \in k..n /\ \A j \in k..m : j \in k..n \/ j = m
          BY <1>1, <2>3
    <3>2. \A j \in k..n : j \in k..m
          BY <1>1
    <3>3. k \in Kept(h, n) <=> \A j \in k..n : h[j] > h[k - 1]
          BY <1>1, <3>1, KeptIn
    <3>4. k \in Kept(h, m) <=> \A j \in k..m : h[j] > h[k - 1]
          BY <1>1, KeptIn
    <3> QED BY <3>1, <3>2, <3>3, <3>4
  <2> QED BY <2>2, <2>3
<1>4. Kept(h, m) \subseteq 1..m /\ Kept(h, n) \subseteq 1..n /\ 1..n \subseteq 1..m
      BY <1>1 DEF Kept
<1> QED BY <1>3, <1>4

\* A segment that goes down is kept, for now.
LEMMA KeptUp ==
  ASSUME NEW N \in Nat, NEW h, Heights(h, N), NEW n \in 0..(N - 1), NEW m, m = n + 1, h[m] = h[n] + 1
  PROVE  Kept(h, m) = Kept(h, n) \cup {m}
<1>1. n \in Nat /\ m \in Nat /\ n \in 0..N /\ m \in 0..N
      OBVIOUS
<1>2. \A j \in 0..N : h[j] \in Int
      BY DEF Heights
<1>3. ASSUME NEW k \in 1..m PROVE k \in Kept(h, m) <=> k = m \/ k \in Kept(h, n)
  <2>1. k - 1 \in 0..N /\ k \in 0..N /\ k \in Nat
        BY <1>1
  <2>2. CASE k = m
    <3>1. k - 1 = n /\ \A j \in k..m : j = m
          BY <1>1, <2>2
    <3>2. h[m] > h[n]
          BY <1>1, <1>2
    <3>3. k \in Kept(h, m)
          BY <1>1, <3>1, <3>2, KeptIn
    <3> QED BY <2>2, <3>3
  <2>3. CASE k # m
    <3>1. k \in 1..n /\ n \in k..n /\ \A j \in k..m : j \in k..n \/ j = m
          BY <1>1, <2>3
    <3>2. \A j \in k..n : j \in k..m
          BY <1>1
    <3>3. k \in Kept(h, n) <=> \A j \in k..n : h[j] > h[k - 1]
          BY <1>1, <3>1, KeptIn
    <3>4. k \in Kept(h, m) <=> \A j \in k..m : h[j] > h[k - 1]
          BY <1>1, KeptIn
    <3>5. h[n] > h[k - 1] => h[m] > h[k - 1]
          BY <1>1, <1>2, <2>1
    <3> QED BY <2>3, <3>1, <3>2, <3>3, <3>4, <3>5
  <2> QED BY <2>2, <2>3
<1>4. Kept(h, m) \subseteq 1..m /\ Kept(h, n) \subseteq 1..n /\ 1..n \subseteq 1..m /\ m \in 1..m
      BY <1>1 DEF Kept
<1> QED BY <1>3, <1>4

\* A step back takes along the last of what is kept.
LEMMA KeptDown ==
  ASSUME NEW N \in Nat, NEW h, Heights(h, N), NEW n \in 0..(N - 1), NEW m, m = n + 1,
         h[m] = h[n] - 1, h[m] >= 0
  PROVE  \E k \in Kept(h, n) : /\ \A i \in Kept(h, n) : i <= k
                               /\ Kept(h, m) = Kept(h, n) \ {k}
<1>1. n \in Nat /\ m \in Nat /\ n \in 0..N /\ m \in 0..N
      OBVIOUS
<1>2. \A j \in 0..N : h[j] \in Int
      BY DEF Heights
<1> DEFINE Low == {j \in 0..n : h[j] < h[n]}  g == Max(Low)  k == g + 1
<1>3. g \in Low /\ \A j \in Low : j <= g
  <2>1. Low \subseteq Nat /\ \A j \in Low : j <= n
        BY <1>1
  <2>2. 0 \in Low
    <3>1. h[0] = 0 /\ 0 \in 0..n
          BY <1>1 DEF Heights
    <3>2. h[n] > 0
          BY <1>1, <1>2
    <3> QED BY <3>1, <3>2
  <2> HIDE DEF Low
  <2> QED BY <1>1, <2>1, <2>2, Maximum
<1> HIDE DEF g
<1>4. g \in 0..n /\ h[g] < h[n] /\ g # n /\ \A j \in 0..n : j > g => h[j] >= h[n]
  <2>1. g \in 0..n /\ h[g] < h[n]
        BY <1>3
  <2>2. g # n
        BY <1>1, <1>2, <2>1
  <2>3. ASSUME NEW j \in 0..n, j > g PROVE h[j] >= h[n]
    <3>1. j \notin Low
          BY <1>3, <2>1, <2>3
    <3>2. ~(h[j] < h[n])
          BY <3>1
    <3>3. h[j] \in Int /\ h[n] \in Int
          BY <1>1, <1>2
    <3> QED BY <3>2, <3>3
  <2> QED BY <2>1, <2>2, <2>3
<1> HIDE DEF Low
<1>5. k \in 1..n /\ k - 1 = g /\ k \in 0..n /\ g \in 0..(N - 1) /\ k \in 0..N /\ g \in 0..N
      BY <1>1, <1>4
<1> HIDE DEF k
<1>6. h[g] = h[n] - 1
  <2>1. h[k] \in {h[g] - 1, h[g], h[g] + 1}
    <3>1. k = g + 1
          BY DEF k
    <3> QED BY <1>5, <3>1 DEF Heights
  <2>2. h[k] >= h[n]
    <3>1. k > g
          BY <1>4, <1>5
    <3> QED BY <1>4, <1>5, <3>1
  <2>3. h[k] \in Int /\ h[g] \in Int /\ h[n] \in Int
        BY <1>1, <1>2, <1>5
  <2> QED BY <1>4, <2>1, <2>2, <2>3
<1>7. k \in Kept(h, n)
  <2>1. ASSUME NEW j \in k..n PROVE h[j] > h[k - 1]
    <3>1. j \in 0..n /\ j > g /\ j \in 0..N
          BY <1>1, <1>5
    <3>2. h[j] >= h[n]
          BY <1>4, <3>1
    <3>3. h[j] \in Int /\ h[n] \in Int /\ h[g] \in Int
          BY <1>1, <1>2, <1>5, <3>1
    <3>4. h[j] > h[g]
          BY <1>4, <3>2, <3>3
    <3> QED BY <1>5, <3>4
  <2> QED BY <1>1, <1>5, <2>1, KeptIn
<1>8. ASSUME NEW i \in Kept(h, n) PROVE i <= k
  <2>1. i \in 1..n
        BY DEF Kept
  <2>2. i - 1 \in 0..n /\ n \in i..n /\ i - 1 \in 0..N
        BY <1>1, <2>1
  <2>3. h[n] > h[i - 1]
        BY <1>1, <2>1, <2>2, KeptIn
  <2>4. h[n] \in Int /\ h[i - 1] \in Int
        BY <1>1, <1>2, <2>2
  <2>5. ~(i - 1 > g)
        BY <1>4, <2>2, <2>3, <2>4
  <2> QED BY <1>5, <2>1, <2>5
<1>9. ASSUME NEW i \in 1..m PROVE i \in Kept(h, m) <=> i \in Kept(h, n) /\ i # k
  <2>1. i - 1 \in 0..N /\ i \in 0..N /\ i \in Nat
        BY <1>1
  <2>2. i \in Kept(h, m) <=> \A j \in i..m : h[j] > h[i - 1]
        BY <1>1, KeptIn
  <2>3. CASE i = m
    <3>1. m \in i..m /\ i - 1 = n /\ i \notin 1..n
          BY <1>1, <2>3
    <3>2. ~(h[m] > h[n])
          BY <1>1, <1>2
    <3> QED BY <2>2, <3>1, <3>2 DEF Kept
  <2>4. CASE i # m
    <3>1. i \in 1..n /\ n \in i..n /\ m \in i..m /\ \A j \in i..m : j \in i..n \/ j = m
          BY <1>1, <2>4
    <3>2. \A j \in i..n : j \in i..m
          BY <1>1
    <3>3. i \in Kept(h, n) <=> \A j \in i..n : h[j] > h[i - 1]
          BY <1>1, <3>1, KeptIn
    <3>4. ASSUME i \in Kept(h, n), i # k PROVE h[m] > h[i - 1]
      <4>1. i <= k
            BY <1>8, <3>4
      <4>2. g \in i..n
            BY <1>5, <2>1, <3>4, <4>1
      <4>3. h[g] > h[i - 1]
            BY <3>3, <3>4, <4>2
      <4>4. h[m] = h[g]
            BY <1>6
      <4> QED BY <4>3, <4>4
    <3>5. ASSUME i = k PROVE ~(h[m] > h[i - 1])
      <4>1. h[m] = h[i - 1] /\ h[m] \in Int
            BY <1>1, <1>2, <1>5, <1>6, <3>5
      <4> QED BY <4>1
    <3> QED BY <2>2, <3>1, <3>2, <3>3, <3>4, <3>5
  <2> QED BY <2>3, <2>4
<1>10. Kept(h, m) \subseteq 1..m /\ Kept(h, n) \subseteq 1..n /\ 1..n \subseteq 1..m
      BY <1>1 DEF Kept
<1>11. Kept(h, m) = Kept(h, n) \ {k}
      BY <1>9, <1>10
<1> QED BY <1>7, <1>8, <1>11

-----------------------------------------------------------------------------
\* How many of i..j are in T.
Count(T, i, j) == Cardinality({n \in i..j : n \in T})

LEMMA CountNext ==
  ASSUME NEW T, NEW i \in Nat, NEW j \in Int, j >= i - 1, NEW m, m = j + 1
  PROVE  /\ Count(T, i, j) \in Nat
         /\ Count(T, i, m) = Count(T, i, j) + (IF m \in T THEN 1 ELSE 0)
<1> DEFINE A == {n \in i..j : n \in T}  C == {n \in i..m : n \in T}
<1>1. i..m = (i..j) \cup {m} /\ m \notin i..j
      OBVIOUS
<1>2. IsFiniteSet(A)
  <2>1. IsFiniteSet(i..j) /\ A \in SUBSET (i..j)
        BY FS_Interval
  <2> QED BY <2>1, FS_Subset
<1>3. Cardinality(A) \in Nat
      BY <1>2, FS_CardinalityType
<1>4. CASE m \in T
  <2>1. C = A \cup {m} /\ m \notin A
        BY <1>1, <1>4
  <2>2. Cardinality(A \cup {m}) = Cardinality(A) + 1
    <3> HIDE DEF A
    <3> QED BY <1>2, <2>1, FS_AddElement
  <2> QED BY <1>3, <1>4, <2>1, <2>2 DEF Count
<1>5. CASE m \notin T
  <2>1. C = A
        BY <1>1, <1>5
  <2>2. Count(T, i, j) = Cardinality(A) /\ Count(T, i, m) = Cardinality(C)
        BY DEF Count
  <2> HIDE DEF A, C
  <2> QED BY <1>3, <1>5, <2>1, <2>2
<1> QED BY <1>4, <1>5

LEMMA CountNone ==
  ASSUME NEW T, NEW i \in Nat
  PROVE  Count(T, i, i - 1) = 0
<1>1. {n \in i..(i - 1) : n \in T} = {}
      OBVIOUS
<1> QED BY <1>1, FS_EmptySet DEF Count

\* The count of i..j is what 1..j has more than 1..i-1.
LEMMA CountSplit ==
  ASSUME NEW T, NEW i \in Nat \ {0}, NEW j \in Nat, j >= i - 1
  PROVE  Count(T, i, j) = Count(T, 1, j) - Count(T, 1, i - 1)
<1> DEFINE b == i - 1
           S == {d \in Nat : Count(T, i, b + d) = Count(T, 1, b + d) - Count(T, 1, b)}
<1>1. b \in Nat /\ b >= 0 /\ i = b + 1
      OBVIOUS
<1> HIDE DEF b
<1>2. \A d \in Nat : Count(T, 1, b + d) \in Nat /\ Count(T, i, b + d) \in Nat
  <2> TAKE d \in Nat
  <2>1. b + d \in Int /\ b + d >= 1 - 1 /\ b + d >= i - 1
        BY <1>1
  <2> QED BY <2>1, CountNext
<1>3. 0 \in S
  <2>1. b + 0 = b /\ i - 1 = b
        BY <1>1
  <2>2. Count(T, i, b) = 0
        BY <2>1, CountNone
  <2>3. Count(T, 1, b) \in Nat
        BY <1>2, <2>1
  <2> QED BY <2>1, <2>2, <2>3
<1>4. ASSUME NEW d \in Nat, d \in S PROVE d + 1 \in S
  <2> DEFINE j0 == b + d  m == b + (d + 1)
  <2>1. j0 \in Int /\ j0 >= i - 1 /\ j0 >= 1 - 1 /\ m = j0 + 1 /\ 1 \in Nat /\ i \in Nat
        BY <1>1
  <2>2. Count(T, i, j0) \in Nat /\ Count(T, 1, j0) \in Nat /\ Count(T, 1, b) \in Nat
    <3>1. b + 0 = b
          BY <1>1
    <3> QED BY <1>2, <3>1
  <2>3. Count(T, i, j0) = Count(T, 1, j0) - Count(T, 1, b)
        BY <1>4
  <2> HIDE DEF j0, m
  <2>4. Count(T, i, m) = Count(T, i, j0) + (IF m \in T THEN 1 ELSE 0)
        BY <2>1, CountNext
  <2>5. Count(T, 1, m) = Count(T, 1, j0) + (IF m \in T THEN 1 ELSE 0)
        BY <2>1, CountNext
  <2>6. Count(T, i, m) = Count(T, 1, m) - Count(T, 1, b)
        BY <2>2, <2>3, <2>4, <2>5
  <2> QED BY <2>6 DEF m
<1> HIDE DEF S
<1>5. \A d \in Nat : d \in S
      BY <1>3, <1>4, Induct
<1>6. j - b \in Nat /\ b + (j - b) = j
      BY <1>1
<1> QED BY <1>5, <1>6 DEF S, b

-----------------------------------------------------------------------------
(* The segments of a path.                                                 *)

\* The slashes of a path and the position after its end.
Marks(p) == {i \in DOMAIN p : p[i] = Slash} \cup {Len(p) + 1}

\* o are the marks of the path p, which has M segments.
Cuts(p, M, o) ==
  /\ M \in Nat \ {0} /\ Enumerates(o, M + 1, Marks(p))
  /\ o[1] = 1 /\ o[M + 1] = Len(p) + 1
  /\ Segments(p) = [n \in 1..M |-> SubSeq(p, o[n] + 1, o[n + 1] - 1)]

LEMMA CutsExist ==
  ASSUME NEW B, NEW p \in Seq(B), Absolute(p)
  PROVE  \E M, o : Cuts(p, M, o)
<1> DEFINE L == Len(p)  S == Marks(p)  C == Cardinality(S)  o == InOrder(S)  M == C - 1
<1>1. L \in Nat \ {0} /\ DOMAIN p = 1..L /\ p[1] = Slash
      BY EmptySeq, LenProperties DEF Absolute
<1>2. \A i \in S : i \in Nat /\ i <= L + 1 /\ 1 <= i
      BY <1>1 DEF Marks
<1>3. 1 \in S /\ L + 1 \in S /\ S \in SUBSET Nat
      BY <1>1, <1>2 DEF Marks
<1>4. IsFiniteSet(S)
      BY <1>1, <1>2, <1>3, FS_BoundedSetOfNaturals
<1>5. C \in Nat /\ Enumerates(o, C, S)
      BY <1>3, <1>4, InOrderEnumerates
<1> HIDE DEF L, S, C, o
<1>6. PICK a \in 1..C : o[a] = 1
      BY <1>3, <1>5 DEF Enumerates
<1>7. PICK z \in 1..C : o[z] = L + 1
      BY <1>3, <1>5 DEF Enumerates
<1>8. \A n \in 1..C : o[n] \in Nat /\ o[n] <= L + 1 /\ 1 <= o[n]
      BY <1>2, <1>5 DEF Enumerates
<1>9. a # z /\ C \in Nat /\ C >= 2 /\ 1 \in 1..C /\ C \in 1..C
      BY <1>1, <1>5, <1>6, <1>7
<1>10. o[1] = 1
  <2>1. CASE a = 1
        BY <1>6, <2>1
  <2>2. CASE a # 1
    <3>1. 1 < a
          BY <1>5, <2>2
    <3>2. o[1] < o[a]
          BY <1>5, <1>9, <3>1 DEF Enumerates
    <3>3. o[1] \in Nat /\ 1 <= o[1]
          BY <1>8, <1>9
    <3> QED BY <1>6, <3>2, <3>3
  <2> QED BY <2>1, <2>2
<1>11. o[C] = L + 1
  <2>1. CASE z = C
        BY <1>7, <2>1
  <2>2. CASE z # C
    <3>1. z < C
          BY <1>5, <2>2
    <3>2. o[z] < o[C]
          BY <1>5, <1>9, <3>1 DEF Enumerates
    <3>3. o[C] \in Nat /\ o[C] <= L + 1
          BY <1>8, <1>9
    <3> QED BY <1>1, <1>7, <3>2, <3>3
  <2> QED BY <2>1, <2>2
<1>12. o \in Seq(S) /\ Len(o) = C
      BY <1>5 DEF Enumerates
<1>13. Segments(p) = [n \in 1..M |-> SubSeq(p, o[n] + 1, o[n + 1] - 1)]
  <2>1. Segments(p) = [n \in 1..Len(o) - 1 |-> SubSeq(p, o[n] + 1, o[n + 1] - 1)]
        BY DEF Segments, o, S, Marks
  <2> QED BY <1>12, <2>1
<1>14. M \in Nat \ {0} /\ M + 1 = C
      BY <1>9
<1> HIDE DEF M
<1>15. Cuts(p, M, o)
      BY <1>5, <1>10, <1>11, <1>13, <1>14 DEF Cuts, L, S
<1> QED BY <1>15

LEMMA MarksIncrease ==
  ASSUME NEW B, NEW p \in Seq(B), NEW M, NEW o, Cuts(p, M, o), NEW n \in 1..M, NEW k, k = n + 1
  PROVE  /\ M \in Nat \ {0} /\ o[n] \in 1..Len(p) /\ o[k] \in (o[n] + 1)..(Len(p) + 1)
         /\ p[o[n]] = Slash
         /\ \A i \in Marks(p) : i <= o[n] \/ o[k] <= i
<1> DEFINE L == Len(p)
<1>1. L \in Nat /\ DOMAIN p = 1..L /\ M \in Nat \ {0}
      BY LenProperties DEF Cuts
<1>2. n \in 1..(M + 1) /\ k \in 1..(M + 1) /\ M + 1 \in 1..(M + 1) /\ n < k /\ n < M + 1
      BY <1>1
<1>3. Enumerates(o, M + 1, Marks(p)) /\ o[M + 1] = L + 1
      BY DEF Cuts
<1> HIDE DEF L
<1>4. \A i \in Marks(p) : i \in 1..(L + 1) /\ (i # L + 1 => p[i] = Slash)
      BY <1>1 DEF Marks, L
<1>5. o[n] \in Marks(p) /\ o[k] \in Marks(p) /\ o[n] < o[k] /\ o[n] < o[M + 1]
      BY <1>2, <1>3 DEF Enumerates
<1>6. o[n] \in 1..(L + 1) /\ o[k] \in 1..(L + 1) /\ o[n] # L + 1
      BY <1>1, <1>3, <1>4, <1>5
<1>7. ASSUME NEW i \in Marks(p) PROVE i <= o[n] \/ o[k] <= i
  <2>1. PICK j \in 1..(M + 1) : o[j] = i
        BY <1>3 DEF Enumerates
  <2>2. i \in 1..(L + 1)
        BY <1>4
  <2>3. CASE j < n
        BY <1>1, <1>2, <1>3, <1>6, <2>1, <2>2, <2>3 DEF Enumerates
  <2>4. CASE j = n
        BY <1>1, <1>6, <2>1, <2>2, <2>4
  <2>5. CASE j = k
        BY <1>1, <1>6, <2>1, <2>2, <2>5
  <2>6. CASE k < j
        BY <1>1, <1>2, <1>3, <1>6, <2>1, <2>2, <2>6 DEF Enumerates
  <2>7. j < n \/ j = n \/ j = k \/ k < j
        BY <1>1, <2>1
  <2> QED BY <2>3, <2>4, <2>5, <2>6, <2>7
<1>8. o[n] \in 1..L /\ o[k] \in (o[n] + 1)..(L + 1)
      BY <1>1, <1>5, <1>6
<1> QED BY <1>1, <1>4, <1>5, <1>6, <1>7, <1>8 DEF L

\* A segment stands between two marks and holds no slash.
LEMMA SegmentIs ==
  ASSUME NEW B, NEW p \in Seq(B), NEW M, NEW o, Cuts(p, M, o), NEW n \in 1..M, NEW k, k = n + 1
  PROVE  /\ Segments(p)[n] = SubSeq(p, o[n] + 1, o[k] - 1)
         /\ Segments(p)[n] \in Seq(B)
         /\ Slash \notin ToSet(Segments(p)[n])
<1>1. /\ M \in Nat \ {0} /\ o[n] \in 1..Len(p) /\ o[k] \in (o[n] + 1)..(Len(p) + 1)
      /\ \A i \in Marks(p) : i <= o[n] \/ o[k] <= i
      BY MarksIncrease
<1>2. Segments(p) = [i \in 1..M |-> SubSeq(p, o[i] + 1, o[i + 1] - 1)]
      BY DEF Cuts
<1>3. Segments(p)[n] = SubSeq(p, o[n] + 1, o[k] - 1)
      BY <1>2
<1>4. Len(p) \in Nat /\ DOMAIN p = 1..Len(p)
      BY LenProperties
<1> DEFINE a == o[n] + 1  z == o[k] - 1
<1>5. a \in 1..(Len(p) + 1) /\ z \in 0..Len(p)
  <2>1. o[n] \in Nat /\ 1 <= o[n] /\ o[n] <= Len(p)
        BY <1>1, <1>4
  <2>2. o[k] \in Nat /\ o[n] < o[k] /\ o[k] <= Len(p) + 1
        BY <1>1, <1>4, <2>1
  <2> QED BY <1>4, <2>1, <2>2
<1>6. ASSUME NEW i \in a..z PROVE p[i] # Slash
  <2>1. i \in 1..Len(p) /\ ~(i <= o[n]) /\ ~(o[k] <= i)
        BY <1>1, <1>4
  <2>2. i \notin Marks(p)
        BY <1>1, <2>1
  <2> QED BY <1>4, <2>1, <2>2 DEF Marks
<1> HIDE DEF a, z
<1>7. SubSeq(p, a, z) \in Seq(B) /\ ToSet(SubSeq(p, a, z)) = {p[i] : i \in a..z}
      BY <1>5, Cut
<1>8. Slash \notin ToSet(SubSeq(p, a, z))
      BY <1>6, <1>7
<1> QED BY <1>3, <1>7, <1>8 DEF a, z

LEMMA SegmentsType ==
  ASSUME NEW B, NEW p \in Seq(B), NEW M, NEW o, Cuts(p, M, o)
  PROVE  M \in Nat \ {0} /\ Segments(p) \in Seq(Seq(B)) /\ Len(Segments(p)) = M
<1>1. M \in Nat \ {0} /\ Segments(p) = [n \in 1..M |-> SubSeq(p, o[n] + 1, o[n + 1] - 1)]
      BY DEF Cuts
<1>2. \A n \in 1..M : Segments(p)[n] \in Seq(B)
  <2> TAKE n \in 1..M
  <2> QED BY SegmentIs
<1>3. DOMAIN Segments(p) = 1..M /\ Segments(p) = [n \in 1..M |-> Segments(p)[n]]
      BY <1>1
<1> DEFINE s == Segments(p)  D == Seq(B)
<1>4. s \in [1..M -> D]
  <2> HIDE DEF s, D
  <2> QED BY <1>2, <1>3 DEF s, D
<1>5. s \in Seq(D) /\ Len(s) = M
  <2> HIDE DEF s, D
  <2> QED BY <1>1, <1>4
<1> QED BY <1>1, <1>5

-----------------------------------------------------------------------------
\* Depth as the difference of two counts, and so step by step.
LEMMA DepthIs ==
  ASSUME NEW s, NEW i \in Nat, NEW j \in Int
  PROVE  Depth(s, i, j) = Count({n \in Nat : s[n] \notin {Dot, DotDot}}, i, j)
                            - Count({n \in Nat : s[n] = DotDot}, i, j)
<1> DEFINE T == {n \in Nat : s[n] \notin {Dot, DotDot}}  U == {n \in Nat : s[n] = DotDot}
<1>1. {n \in i..j : n \in T} = {n \in i..j : s[n] \notin {Dot, DotDot}}
      OBVIOUS
<1>2. {n \in i..j : n \in U} = {n \in i..j : s[n] = DotDot}
      OBVIOUS
<1> QED BY <1>1, <1>2 DEF Depth, Count

LEMMA DepthNext ==
  ASSUME NEW s, NEW j \in Nat, NEW m, m = j + 1
  PROVE  /\ Depth(s, 1, j) \in Int
         /\ s[m] = Dot => Depth(s, 1, m) = Depth(s, 1, j)
         /\ s[m] = DotDot => Depth(s, 1, m) = Depth(s, 1, j) - 1
         /\ s[m] \notin {Dot, DotDot} => Depth(s, 1, m) = Depth(s, 1, j) + 1
<1> DEFINE T == {n \in Nat : s[n] \notin {Dot, DotDot}}  U == {n \in Nat : s[n] = DotDot}
<1>1. /\ m \in T <=> s[m] \notin {Dot, DotDot}
      /\ m \in U <=> s[m] = DotDot
      OBVIOUS
<1>2. Depth(s, 1, j) = Count(T, 1, j) - Count(U, 1, j)
      BY DepthIs
<1>3. Depth(s, 1, m) = Count(T, 1, m) - Count(U, 1, m)
      BY DepthIs
<1> HIDE DEF T, U
<1>4. 1 \in Nat /\ j \in Int /\ j >= 1 - 1
      OBVIOUS
<1>5. Count(T, 1, j) \in Nat /\ Count(T, 1, m) = Count(T, 1, j) + (IF m \in T THEN 1 ELSE 0)
      BY <1>4, CountNext
<1>6. Count(U, 1, j) \in Nat /\ Count(U, 1, m) = Count(U, 1, j) + (IF m \in U THEN 1 ELSE 0)
      BY <1>4, CountNext
<1>7. Dot # DotDot
  <2>1. Len(Dot) = 1 /\ Len(DotDot) = 2
        BY DEF Dot, DotDot
  <2> QED BY <2>1
<1>8. /\ s[m] = Dot => m \notin T /\ m \notin U
      /\ s[m] = DotDot => m \notin T /\ m \in U
      /\ s[m] \notin {Dot, DotDot} => m \in T /\ m \notin U
      BY <1>1, <1>7
<1> QED BY <1>2, <1>3, <1>5, <1>6, <1>8

\* How far i to j go down is how much further down 1 to j go than 1 to i - 1.
LEMMA DepthSplit ==
  ASSUME NEW s, NEW i \in Nat \ {0}, NEW j \in Nat, j >= i - 1
  PROVE  Depth(s, i, j) = Depth(s, 1, j) - Depth(s, 1, i - 1)
<1> DEFINE T == {n \in Nat : s[n] \notin {Dot, DotDot}}  U == {n \in Nat : s[n] = DotDot}
           b == i - 1
<1>1. /\ Depth(s, i, j) = Count(T, i, j) - Count(U, i, j)
      /\ Depth(s, 1, j) = Count(T, 1, j) - Count(U, 1, j)
      /\ Depth(s, 1, b) = Count(T, 1, b) - Count(U, 1, b)
      BY DepthIs
<1> HIDE DEF T, U
<1>2. Count(T, i, j) = Count(T, 1, j) - Count(T, 1, b) /\ Count(U, i, j) = Count(U, 1, j) - Count(U, 1, b)
      BY CountSplit
<1>3. 1 \in Nat /\ j \in Int /\ j >= 1 - 1 /\ b \in Int /\ b >= 1 - 1
      OBVIOUS
<1>4. \A V : Count(V, 1, j) \in Nat /\ Count(V, 1, b) \in Nat
  <2> TAKE V
  <2> HIDE DEF b
  <2> QED BY <1>3, CountNext
<1>5. Count(T, 1, j) \in Nat /\ Count(T, 1, b) \in Nat /\ Count(U, 1, j) \in Nat /\ Count(U, 1, b) \in Nat
      BY <1>4
<1> HIDE DEF b
<1>6. Depth(s, i, j) = Depth(s, 1, j) - Depth(s, 1, b)
      BY <1>1, <1>2, <1>5
<1> QED BY <1>6 DEF b

\* How far down each segment is.
Altitudes(s, N) == [j \in 0..N |-> Depth(s, 1, j)]

LEMMA LevelsAre ==
  ASSUME NEW s, NEW N \in Nat
  PROVE  Heights(Altitudes(s, N), N)
<1> DEFINE h == Altitudes(s, N)
<1>1. \A j \in 0..N : h[j] = Depth(s, 1, j) /\ h[j] \in Int
  <2> TAKE j \in 0..N
  <2>1. j \in Nat
        OBVIOUS
  <2>2. Depth(s, 1, j) \in Int
        BY <2>1, DepthNext
  <2> QED BY <2>2 DEF Altitudes
<1>2. h \in [0..N -> Int]
  <2>1. h = [j \in 0..N |-> h[j]]
        BY DEF Altitudes
  <2> HIDE DEF h
  <2> QED BY <1>1, <2>1
<1>3. h[0] = 0
  <2>1. 0 \in 0..N /\ 1 - 1 = 0 /\ 1 \in Nat
        OBVIOUS
  <2>2. \A T : Count(T, 1, 0) = 0
        BY <2>1, CountNone
  <2>3. Depth(s, 1, 0) = 0
    <3>1. 1 \in Nat /\ 0 \in Int
          OBVIOUS
    <3>2. Depth(s, 1, 0) = Count({n \in Nat : s[n] \notin {Dot, DotDot}}, 1, 0)
                             - Count({n \in Nat : s[n] = DotDot}, 1, 0)
          BY <3>1, DepthIs
    <3> QED BY <2>2, <3>2
  <2> QED BY <1>1, <2>1, <2>3
<1> HIDE DEF h
<1>4. ASSUME NEW j \in 0..(N - 1), NEW i \in 0..N, i = j + 1 PROVE h[i] \in {h[j] - 1, h[j], h[j] + 1}
  <2>1. j \in Nat /\ j \in 0..N
        OBVIOUS
  <2>2. /\ s[i] = Dot => Depth(s, 1, i) = Depth(s, 1, j)
        /\ s[i] = DotDot => Depth(s, 1, i) = Depth(s, 1, j) - 1
        /\ s[i] \notin {Dot, DotDot} => Depth(s, 1, i) = Depth(s, 1, j) + 1
        BY <1>4, <2>1, DepthNext
  <2>3. h[i] = Depth(s, 1, i) /\ h[j] = Depth(s, 1, j)
        BY <1>1, <2>1
  <2> QED BY <2>2, <2>3
<1> QED BY <1>2, <1>3, <1>4 DEF Heights, h

\* What is left of the segments, said by how far down they are.
LEMMA LeftIsKept ==
  ASSUME NEW s, NEW N \in Nat, NEW i \in 1..N
  PROVE  i \in Kept(Altitudes(s, N), N) <=>
           s[i] \notin {Dot, DotDot} /\ \A j \in (i + 1)..N : Depth(s, i, j) > 0
<1> DEFINE h == Altitudes(s, N)  b == i - 1
<1>1. Heights(h, N)
      BY LevelsAre
<1>2. \A j \in 0..N : h[j] = Depth(s, 1, j)
      BY DEF Altitudes
<1> HIDE DEF h
<1>3. i \in Nat \ {0} /\ b \in 0..N /\ b \in Nat /\ i = b + 1 /\ i \in 0..N
      OBVIOUS
<1>4. i \in Kept(h, N) <=> \A j \in i..N : h[j] > h[b]
      BY KeptIn
<1>5. ASSUME NEW j \in i..N PROVE j \in 0..N /\ h[j] \in Int /\ h[b] \in Int /\ Depth(s, i, j) = h[j] - h[b]
  <2>1. j \in Nat /\ j >= i - 1 /\ j \in 0..N
        BY <1>3
  <2>2. Depth(s, i, j) = Depth(s, 1, j) - Depth(s, 1, b)
        BY <1>3, <2>1, DepthSplit
  <2> QED BY <1>1, <1>2, <1>3, <2>1, <2>2 DEF Heights
<1>6. h[i] > h[b] <=> s[i] \notin {Dot, DotDot}
  <2>1. /\ s[i] = Dot => Depth(s, 1, i) = Depth(s, 1, b)
        /\ s[i] = DotDot => Depth(s, 1, i) = Depth(s, 1, b) - 1
        /\ s[i] \notin {Dot, DotDot} => Depth(s, 1, i) = Depth(s, 1, b) + 1
        BY <1>3, DepthNext
  <2>2. h[i] = Depth(s, 1, i) /\ h[b] = Depth(s, 1, b) /\ h[i] \in Int /\ h[b] \in Int
        BY <1>1, <1>2, <1>3 DEF Heights
  <2> QED BY <2>1, <2>2
<1>7. ASSUME NEW j \in (i + 1)..N PROVE Depth(s, i, j) > 0 <=> h[j] > h[b]
  <2>1. j \in i..N
        BY <1>3
  <2> QED BY <1>5, <2>1
<1>8. /\ \A j \in i..N : j = i \/ j \in (i + 1)..N
      /\ i \in i..N /\ \A j \in (i + 1)..N : j \in i..N
      BY <1>3
<1> HIDE DEF b
<1>9. (\A j \in i..N : h[j] > h[b]) <=>
        s[i] \notin {Dot, DotDot} /\ \A j \in (i + 1)..N : Depth(s, i, j) > 0
  <2>1. ASSUME \A j \in i..N : h[j] > h[b]
        PROVE  s[i] \notin {Dot, DotDot} /\ \A j \in (i + 1)..N : Depth(s, i, j) > 0
        BY <1>6, <1>7, <1>8, <2>1
  <2>2. ASSUME s[i] \notin {Dot, DotDot}, \A j \in (i + 1)..N : Depth(s, i, j) > 0
        PROVE  \A j \in i..N : h[j] > h[b]
        BY <1>6, <1>7, <1>8, <2>2
  <2> QED BY <2>1, <2>2
<1> QED BY <1>4, <1>9 DEF h

-----------------------------------------------------------------------------
(* What the scan keeps.                                                    *)

LeftOf(p, M, n) == Picked(Segments(p), Kept(Altitudes(Segments(p), M - 1), n))

\* After q bytes of the path p the scan is in segment m: those before it are done.
InSegment(p, M, o, r, q, m) ==
  /\ m \in 1..M /\ o[m] <= q /\ \A k \in 1..(M + 1) : k = m + 1 => q < o[k]
  /\ r \in [up : {0}, kept : {LeftOf(p, M, m - 1)}, open : {SubSeq(p, o[m] + 1, q)}]

\* No segment of p goes back over the first.
NeverClimbs(p, M) == \A n \in 1..(M - 1) : Depth(Segments(p), 1, n) >= 0

LEMMA PlainIs ==
  ASSUME NEW B, NEW p \in Seq(B), Plain(p), NEW M, NEW o, Cuts(p, M, o)
  PROVE  NeverClimbs(p, M) /\ \A n \in 1..(M - 1) : Segments(p)[n] # <<>>
<1>1. M \in Nat \ {0} /\ Len(Segments(p)) = M
      BY SegmentsType
<1>2. \A n \in 1..(M - 1) : ~(Depth(Segments(p), 1, n) < 0) /\ Segments(p)[n] # <<>>
      BY <1>1 DEF Plain, Climbs
<1>3. \A n \in 1..(M - 1) : Depth(Segments(p), 1, n) \in Int
  <2> TAKE n \in 1..(M - 1)
  <2>1. n \in Nat
        BY <1>1
  <2> QED BY <2>1, DepthNext
<1> QED BY <1>2, <1>3 DEF NeverClimbs

LEMMA KeptType ==
  ASSUME NEW h, NEW n \in Nat
  PROVE  Kept(h, n) \subseteq 1..n
BY DEF Kept

LEMMA DotsDiffer == Dot # DotDot
<1>1. Len(Dot) = 1 /\ Len(DotDot) = 2
      BY DEF Dot, DotDot
<1> QED BY <1>1

\* The cases of Closed, without the one that a path which never climbs does not reach.
LEMMA ClosedIs ==
  ASSUME NEW u, NEW k, NEW x
  PROVE  LET r == [up |-> u, kept |-> k, open |-> x] IN
         /\ x = Dot => Closed(r) = [up |-> u, kept |-> k, open |-> <<>>]
         /\ x = DotDot /\ k # <<>> => Closed(r) = [up |-> u, kept |-> Front(k), open |-> <<>>]
         /\ x \notin {Dot, DotDot} => Closed(r) = [up |-> u, kept |-> Append(k, x), open |-> <<>>]
<1> DEFINE r == [up |-> u, kept |-> k, open |-> x]
<1>1. r.up = u /\ r.kept = k /\ r.open = x
      OBVIOUS
<1>2. ASSUME x = Dot PROVE Closed(r) = [up |-> u, kept |-> k, open |-> <<>>]
  <2>1. Closed(r) = [r EXCEPT !.open = <<>>]
        BY <1>1, <1>2, DotsDiffer DEF Closed
  <2> QED BY <2>1
<1>3. ASSUME x = DotDot, k # <<>> PROVE Closed(r) = [up |-> u, kept |-> Front(k), open |-> <<>>]
  <2>1. Closed(r) = [r EXCEPT !.open = <<>>, !.kept = Front(@)]
        BY <1>1, <1>3, DotsDiffer DEF Closed
  <2> QED BY <2>1
<1>4. ASSUME x \notin {Dot, DotDot}
      PROVE  Closed(r) = [up |-> u, kept |-> Append(k, x), open |-> <<>>]
  <2>1. Closed(r) = [r EXCEPT !.open = <<>>, !.kept = Append(@, x)]
        BY <1>1, <1>4 DEF Closed
  <2> QED BY <2>1
<1> QED BY <1>2, <1>3, <1>4

\* A segment that ends at a slash is dealt with as Resolved says.
LEMMA ClosedKeeps ==
  ASSUME NEW B, NEW p \in Seq(B), NEW M, NEW o, Cuts(p, M, o), NeverClimbs(p, M),
         NEW n \in 0..(M - 2), NEW m, m = n + 1,
         NEW r, r = [up |-> 0, kept |-> LeftOf(p, M, n), open |-> Segments(p)[m]]
  PROVE  Closed(r) = [up |-> 0, kept |-> LeftOf(p, M, m), open |-> <<>>]
<1> DEFINE s == Segments(p)  N == M - 1  h == Altitudes(s, N)  K == Kept(h, n)
<1>1. M \in Nat \ {0} /\ s \in Seq(Seq(B)) /\ Len(s) = M
      BY SegmentsType
<1>2. N \in Nat /\ n \in 0..(N - 1) /\ n \in Nat /\ m \in 1..N /\ m \in 1..Len(s) /\ n \in 0..N /\ m \in 0..N
      BY <1>1
<1>3. Heights(h, N)
      BY <1>2, LevelsAre
<1>4. h[n] = Depth(s, 1, n) /\ h[m] = Depth(s, 1, m)
      BY <1>2 DEF Altitudes
<1>5. h[m] >= 0
      BY <1>2, <1>4 DEF NeverClimbs
<1>6. /\ s[m] = Dot => h[m] = h[n]
      /\ s[m] = DotDot => h[m] = h[n] - 1
      /\ s[m] \notin {Dot, DotDot} => h[m] = h[n] + 1
      BY <1>2, <1>4, DepthNext
<1>7. K \subseteq 1..n
      BY <1>2, KeptType
<1>8. \A i \in K : i < m /\ i \in 1..Len(s)
      BY <1>1, <1>2, <1>7
<1>9. LeftOf(p, M, n) = Picked(s, K) /\ LeftOf(p, M, m) = Picked(s, Kept(h, m))
      BY DEF LeftOf
<1>10. /\ s[m] = Dot => Closed(r) = [up |-> 0, kept |-> Picked(s, K), open |-> <<>>]
       /\ s[m] = DotDot /\ Picked(s, K) # <<>> =>
            Closed(r) = [up |-> 0, kept |-> Front(Picked(s, K)), open |-> <<>>]
       /\ s[m] \notin {Dot, DotDot} =>
            Closed(r) = [up |-> 0, kept |-> Append(Picked(s, K), s[m]), open |-> <<>>]
  <2>1. r = [up |-> 0, kept |-> Picked(s, K), open |-> s[m]]
        BY <1>9
  <2> DEFINE k == Picked(s, K)  x == s[m]
  <2> HIDE DEF s, K, h, k, x
  <2>2. r = [up |-> 0, kept |-> k, open |-> x]
        BY <2>1 DEF k, x
  <2>3. /\ x = Dot => Closed(r) = [up |-> 0, kept |-> k, open |-> <<>>]
        /\ x = DotDot /\ k # <<>> => Closed(r) = [up |-> 0, kept |-> Front(k), open |-> <<>>]
        /\ x \notin {Dot, DotDot} => Closed(r) = [up |-> 0, kept |-> Append(k, x), open |-> <<>>]
        BY <2>2, ClosedIs
  <2> QED BY <2>3 DEF k, x
<1>11. CASE s[m] = Dot
  <2>1. Kept(h, m) = K
        BY <1>2, <1>3, <1>6, <1>11, KeptLevel
  <2> HIDE DEF s, K, h
  <2> QED BY <1>9, <1>10, <1>11, <2>1
<1>12. CASE s[m] = DotDot
  <2>1. PICK k \in K : /\ \A i \in K : i <= k
                       /\ Kept(h, m) = K \ {k}
        BY <1>2, <1>3, <1>5, <1>6, <1>12, KeptDown
  <2>2. Picked(s, K) # <<>> /\ Picked(s, K \ {k}) = Front(Picked(s, K))
    <3>1. K \subseteq 1..Len(s)
          BY <1>8
    <3> HIDE DEF s, K, h
    <3> QED BY <1>1, <2>1, <3>1, PickedLess
  <2> HIDE DEF s, K, h
  <2> QED BY <1>9, <1>10, <1>12, <2>1, <2>2
<1>13. CASE s[m] \notin {Dot, DotDot}
  <2>1. Kept(h, m) = K \cup {m}
        BY <1>2, <1>3, <1>6, <1>13, KeptUp
  <2>2. Picked(s, K \cup {m}) = Append(Picked(s, K), s[m])
    <3>1. K \subseteq 1..Len(s) /\ \A i \in K : i < m
          BY <1>8
    <3> HIDE DEF s, K, h
    <3> QED BY <1>1, <1>2, <3>1, PickedMore
  <2> HIDE DEF s, K, h
  <2> QED BY <1>9, <1>10, <1>13, <2>1, <2>2
<1> QED BY <1>11, <1>12, <1>13

LEMMA RestOfAbsolute ==
  ASSUME NEW B, NEW p \in Seq(B), Absolute(p)
  PROVE  /\ Len(p) \in Nat \ {0} /\ Rest(p) \in Seq(B) /\ Len(Rest(p)) = Len(p) - 1
         /\ \A q \in 1..(Len(p) - 1) : \A z \in 1..Len(p) : z = q + 1 => Rest(p)[q] = p[z]
<1>1. p # <<>> /\ Rest(p) = Tail(p)
      BY DEF Absolute, Rest
<1> QED BY <1>1, HeadTailProperties, EmptySeq, LenProperties

LEMMA SubSeqNext ==
  ASSUME NEW B, NEW s \in Seq(B), NEW q \in 0..(Len(s) - 1), NEW z, z = q + 1,
         NEW a \in 1..(Len(s) + 1), a <= z
  PROVE  Append(SubSeq(s, a, q), s[z]) = SubSeq(s, a, z)
<1>1. Len(s) \in Nat
      BY LenProperties
<1>2. q \in 0..Len(s) /\ z \in 0..Len(s) /\ z \in 1..Len(s) /\ a \in Nat
      BY <1>1
<1> DEFINE x == SubSeq(s, a, q)  y == SubSeq(s, a, z)  w == Append(x, s[z])  n == z - a
<1>3. /\ x \in Seq(B) /\ Len(x) = IF a <= q THEN q - a + 1 ELSE 0
      /\ \A i \in 1..(q - a + 1) : x[i] = s[a + i - 1]
      BY <1>2, Cut
<1>4. /\ y \in Seq(B) /\ Len(y) = IF a <= z THEN z - a + 1 ELSE 0
      /\ \A i \in 1..(z - a + 1) : y[i] = s[a + i - 1]
      BY <1>2, Cut
<1>5. n \in Nat /\ q - a + 1 = n /\ z - a + 1 = n + 1 /\ a + (n + 1) - 1 = z
      BY <1>1, <1>2
<1> HIDE DEF x, y, n
<1>6. Len(x) = n /\ Len(y) = n + 1
      BY <1>2, <1>3, <1>4, <1>5
<1>7. s[z] \in B
      BY <1>2, ElementOfSeq
<1>8. w \in Seq(B) /\ Len(w) = n + 1 /\ w[n + 1] = s[z] /\ \A i \in 1..n : w[i] = x[i]
      BY <1>3, <1>6, <1>7, AppendProperties
<1> HIDE DEF w
<1>9. ASSUME NEW i \in 1..(n + 1) PROVE w[i] = y[i]
  <2>1. y[i] = s[a + i - 1]
        BY <1>4, <1>5
  <2>2. CASE i = n + 1
        BY <1>5, <1>8, <2>1, <2>2
  <2>3. CASE i # n + 1
    <3>1. i \in 1..n
          BY <1>5, <2>3
    <3>2. x[i] = s[a + i - 1]
          BY <1>3, <1>5, <3>1
    <3> QED BY <1>8, <2>1, <3>1, <3>2
  <2> QED BY <2>2, <2>3
<1>10. w = y
      BY <1>4, <1>6, <1>8, <1>9, SeqEqual
<1> QED BY <1>10 DEF w, x, y

\* One more byte.
LEMMA NextByte ==
  ASSUME NEW B, NEW p \in Seq(B), Absolute(p), NEW M, NEW o, Cuts(p, M, o), NeverClimbs(p, M),
         NEW q \in 1..(Len(p) - 1), NEW z, z = q + 1,
         NEW r \in ScanStates(B), NEW m, InSegment(p, M, o, r, q, m)
  PROVE  \E n : InSegment(p, M, o, ScanStep(p, r, q), z, n)
<1> DEFINE L == Len(p)  k == m + 1  a == o[m] + 1  e == o[k]
<1>1. L \in Nat \ {0} /\ Len(Rest(p)) = L - 1 /\ Rest(p)[q] = p[z] /\ z \in 1..L /\ q \in Nat /\ q \in 1..L
  <2>1. z \in 1..Len(p)
        BY RestOfAbsolute
  <2> QED BY <2>1, RestOfAbsolute
<1>2. M \in Nat \ {0} /\ m \in 1..M /\ k \in 1..(M + 1) /\ k = m + 1 /\ m \in Nat
      BY DEF Cuts, InSegment
<1> HIDE DEF k
<1>3. o[m] <= q /\ q < e /\ r.up = 0 /\ r.kept = LeftOf(p, M, m - 1) /\ r.open = SubSeq(p, a, q)
      BY <1>2 DEF InSegment
<1>4. r = [up |-> 0, kept |-> LeftOf(p, M, m - 1), open |-> SubSeq(p, a, q)]
      BY DEF InSegment
<1>5. /\ o[m] \in 1..L /\ e \in (o[m] + 1)..(L + 1)
      /\ \A i \in Marks(p) : i <= o[m] \/ e <= i
      BY <1>2, MarksIncrease
<1>6. Short(p, r) = 0
      BY <1>3 DEF Short
<1>7. Len(Rest(p)) - q >= Short(p, r)
      BY <1>1, <1>6
<1> DEFINE t == ScanStep(p, r, q)
<1> HIDE DEF L, e, a
<1>8. CASE p[z] = Slash
  <2>1. z \in Marks(p)
    <3>1. z \in DOMAIN p
          BY <1>1, LenProperties DEF L
    <3> QED BY <1>8, <3>1 DEF Marks
  <2>2. e = z
    <3>1. ~(z <= o[m])
          BY <1>1, <1>3, <1>5
    <3> QED BY <1>1, <1>3, <1>5, <2>1, <3>1
  <2>3. m # M
    <3>1. o[M + 1] = L + 1
          BY DEF Cuts, L
    <3>2. e # L + 1
          BY <1>1, <2>2
    <3> QED BY <1>2, <3>1, <3>2 DEF e, k
  <2>4. k \in 1..M /\ m - 1 \in 0..(M - 2) /\ m = m - 1 + 1
        BY <1>2, <2>3
  <2>5. r.open = Segments(p)[m]
    <3>1. Segments(p)[m] = SubSeq(p, o[m] + 1, e - 1)
          BY <1>2, SegmentIs DEF e
    <3>2. e - 1 = q
          BY <1>1, <2>2
    <3> QED BY <1>3, <3>1, <3>2 DEF a
  <2>6. t = Closed(r)
        BY <1>1, <1>7, <1>8 DEF ScanStep
  <2>7. Closed(r) = [up |-> 0, kept |-> LeftOf(p, M, m), open |-> <<>>]
    <3> DEFINE b == m - 1
    <3>1. b \in 0..(M - 2) /\ m = b + 1
          BY <2>4
    <3>2. r = [up |-> 0, kept |-> LeftOf(p, M, b), open |-> Segments(p)[m]]
          BY <1>3, <1>4, <2>5
    <3> HIDE DEF b
    <3> QED BY <3>1, <3>2, ClosedKeeps
  <2>8. SubSeq(p, o[k] + 1, z) = <<>>
    <3> DEFINE x == z + 1
    <3>1. x \in 1..(Len(p) + 1) /\ z \in 0..Len(p) /\ ~(x <= z)
          BY <1>1 DEF L
    <3> HIDE DEF x
    <3>2. SubSeq(p, x, z) \in Seq(B) /\ Len(SubSeq(p, x, z)) = 0
          BY <3>1, Cut
    <3>3. SubSeq(p, x, z) = <<>>
          BY <3>2, EmptySeq
    <3> QED BY <2>2, <3>3 DEF x, e
  <2>9. k - 1 = m
        BY <1>2
  <2>10. \A j \in 1..(M + 1) : j = k + 1 => z < o[j]
    <3> TAKE j \in 1..(M + 1)
    <3> HAVE j = k + 1
    <3>1. o[j] \in (o[k] + 1)..(Len(p) + 1) /\ o[k] \in 1..Len(p)
          BY <2>4, MarksIncrease
    <3> QED BY <1>1, <2>2, <3>1 DEF e
  <2>11. o[k] <= z
        BY <1>1, <2>2 DEF e
  <2>12. InSegment(p, M, o, t, z, k)
    <3>1. t = [up |-> 0, kept |-> LeftOf(p, M, k - 1), open |-> SubSeq(p, o[k] + 1, z)]
          BY <2>6, <2>7, <2>8, <2>9
    <3> HIDE DEF t
    <3>2. t \in [up : {0}, kept : {LeftOf(p, M, k - 1)}, open : {SubSeq(p, o[k] + 1, z)}]
          BY <3>1
    <3> QED BY <2>4, <2>10, <2>11, <3>2 DEF InSegment
  <2> QED BY <2>12
<1>9. CASE p[z] # Slash
  <2>1. e # z
    <3>1. e = L + 1 \/ p[e] = Slash
      <4>1. e \in Marks(p)
        <5>1. Enumerates(o, M + 1, Marks(p))
              BY DEF Cuts
        <5> QED BY <1>2, <5>1 DEF Enumerates, e
      <4> QED BY <4>1 DEF Marks, L
    <3> QED BY <1>1, <1>9, <3>1
  <2>2. o[m] <= z /\ z < e
        BY <1>1, <1>3, <1>5, <2>1
  <2>3. t = [r EXCEPT !.open = Append(@, p[z])]
        BY <1>1, <1>9 DEF ScanStep
  <2>4. Append(SubSeq(p, a, q), p[z]) = SubSeq(p, a, z)
    <3>1. a \in 1..(L + 1) /\ a <= z
          BY <1>1, <1>3, <1>5 DEF a
    <3> QED BY <1>1, <3>1, SubSeqNext DEF L
  <2>5. t = [up |-> 0, kept |-> LeftOf(p, M, m - 1), open |-> SubSeq(p, a, z)]
        BY <1>3, <1>4, <2>3, <2>4
  <2>6. InSegment(p, M, o, t, z, m)
    <3>1. \A j \in 1..(M + 1) : j = m + 1 => z < o[j]
          BY <1>2, <2>2 DEF e
    <3> HIDE DEF t
    <3> QED BY <1>2, <2>2, <2>5, <3>1 DEF InSegment, a
  <2> QED BY <2>6
<1> QED BY <1>8, <1>9

\* The whole scan, by induction over the bytes.
LEMMA ScanEnds ==
  ASSUME NEW B, NEW p \in Seq(B), Plain(p), NEW M, NEW o, Cuts(p, M, o)
  PROVE  symbolicRealpath(p) =
           Squeezed(Written([up |-> 0, kept |-> LeftOf(p, M, M - 1), open |-> Segments(p)[M]]))
<1> DEFINE L == Len(p)
<1>1. Absolute(p) /\ NeverClimbs(p, M)
      BY PlainIs DEF Plain
<1>2. /\ L \in Nat \ {0} /\ Len(Rest(p)) = L - 1
      BY <1>1, RestOfAbsolute
<1>3. PICK g : /\ g \in [0..Len(Rest(p)) -> ScanStates(B)]
               /\ g[0] = ScanStart
               /\ \A i \in 1..Len(Rest(p)) : g[i] = ScanStep(p, g[i - 1], i)
               /\ symbolicRealpath(p) = Squeezed(Written(g[Len(Rest(p))]))
      BY RealpathIs
<1> DEFINE n == L - 1
<1>4. n \in Nat /\ n = Len(Rest(p)) /\ n + 1 = L
      BY <1>2
<1> HIDE DEF L, n
<1>5. /\ g \in [0..n -> ScanStates(B)]
      /\ g[0] = ScanStart
      /\ \A i \in 1..n : g[i] = ScanStep(p, g[i - 1], i)
      /\ symbolicRealpath(p) = Squeezed(Written(g[n]))
      BY <1>3, <1>4
<1>6. M \in Nat \ {0} /\ M + 1 \in 1..(M + 1) /\ 1 \in 1..(M + 1) /\ o[1] = 1 /\ o[M + 1] = L + 1
      BY DEF Cuts, L
<1> DEFINE T == {i \in Nat : i \in 0..n => \E m : InSegment(p, M, o, g[i], i + 1, m)}
<1>7. 0 \in T
  <2>1. 1 \in 1..M
        BY <1>6
  <2>2. \A k \in 1..(M + 1) : k = 1 + 1 => 1 < o[k]
    <3> TAKE k \in 1..(M + 1)
    <3> HAVE k = 1 + 1
    <3>1. o[1] \in 1..Len(p) /\ o[k] \in (o[1] + 1)..(Len(p) + 1)
          BY <2>1, MarksIncrease
    <3> QED BY <1>6, <3>1
  <2>3. Kept(Altitudes(Segments(p), M - 1), 0) = {}
        BY DEF Kept
  <2>4. LeftOf(p, M, 1 - 1) = <<>>
    <3>1. 1 - 1 = 0
          OBVIOUS
    <3>2. Segments(p) \in Seq(Seq(B)) /\ {} \subseteq 1..Len(Segments(p))
          BY SegmentsType
    <3>3. Picked(Segments(p), {}) \in Seq(Seq(B)) /\ Len(Picked(Segments(p), {})) = Cardinality({})
          BY <3>2, PickedType
    <3>4. Picked(Segments(p), {}) = <<>>
          BY <3>3, FS_EmptySet, EmptySeq
    <3> QED BY <2>3, <3>1, <3>4 DEF LeftOf
  <2>5. SubSeq(p, o[1] + 1, 1) = <<>>
    <3>1. 2 \in 1..(Len(p) + 1) /\ 1 \in 0..Len(p) /\ ~(2 <= 1) /\ o[1] + 1 = 2
          BY <1>2, <1>6 DEF L
    <3>2. SubSeq(p, 2, 1) \in Seq(B) /\ Len(SubSeq(p, 2, 1)) = 0
          BY <3>1, Cut
    <3> QED BY <3>1, <3>2, EmptySeq
  <2>6. ScanStart \in [up : {0}, kept : {LeftOf(p, M, 1 - 1)}, open : {SubSeq(p, o[1] + 1, 1)}]
        BY <2>4, <2>5 DEF ScanStart
  <2>7. InSegment(p, M, o, ScanStart, 1, 1)
        BY <1>6, <2>1, <2>2, <2>6 DEF InSegment
  <2>8. 0 + 1 = 1
        OBVIOUS
  <2> QED BY <1>5, <2>7, <2>8
<1>8. ASSUME NEW i \in Nat, i \in T PROVE i + 1 \in T
  <2> DEFINE q == i + 1  z == q + 1
  <2> SUFFICES ASSUME q \in 0..n PROVE \E m : InSegment(p, M, o, g[q], z, m)
      OBVIOUS
  <2>1. i \in 0..n /\ q \in 1..n /\ q - 1 = i
        BY <1>4
  <2>2. PICK m : InSegment(p, M, o, g[i], q, m)
        BY <1>8, <2>1
  <2> HIDE DEF T, q
  <2>3. g[q] = ScanStep(p, g[i], q)
        BY <1>5, <2>1
  <2>4. g[i] \in ScanStates(B)
        BY <1>5, <2>1
  <2>5. q \in 1..(Len(p) - 1) /\ z = q + 1
        BY <1>4, <2>1 DEF L
  <2> HIDE DEF z
  <2>6. \E k : InSegment(p, M, o, ScanStep(p, g[i], q), z, k)
        BY <1>1, <2>2, <2>4, <2>5, NextByte
  <2> QED BY <2>3, <2>6
<1> HIDE DEF T
<1>9. \A i \in Nat : i \in T
      BY <1>7, <1>8, Induct
<1>10. PICK m : InSegment(p, M, o, g[n], L, m)
  <2>1. n \in T /\ n \in 0..n
        BY <1>4, <1>9
  <2> QED BY <1>4, <2>1 DEF T
<1>11. m = M
  <2>1. m \in 1..M /\ o[m] <= L /\ \A k \in 1..(M + 1) : k = m + 1 => L < o[k]
        BY <1>10 DEF InSegment
  <2> SUFFICES ASSUME m # M PROVE FALSE
      OBVIOUS
  <2> DEFINE k == m + 1
  <2>2. k \in 1..(M + 1) /\ k < M + 1 /\ m \in 1..M
        BY <1>6, <2>1
  <2>3. L < o[k]
        BY <2>1, <2>2
  <2>4. o[k] < o[M + 1]
    <3> HIDE DEF k
    <3> QED BY <1>6, <2>2 DEF Cuts, Enumerates
  <2>5. o[k] \in Nat
    <3>1. o[k] \in (o[m] + 1)..(Len(p) + 1) /\ o[m] \in 1..Len(p)
          BY <2>2, MarksIncrease
    <3> QED BY <3>1
  <2> QED BY <1>2, <1>6, <2>3, <2>4, <2>5
<1>12. g[n] \in [up : {0}, kept : {LeftOf(p, M, M - 1)}, open : {SubSeq(p, o[M] + 1, L)}]
      BY <1>10, <1>11 DEF InSegment
<1>13. SubSeq(p, o[M] + 1, L) = Segments(p)[M]
  <2> DEFINE k == M + 1
  <2>1. M \in 1..M /\ k = M + 1 /\ o[k] = L + 1
        BY <1>6
  <2> HIDE DEF k
  <2>2. Segments(p)[M] = SubSeq(p, o[M] + 1, o[k] - 1)
        BY <2>1, SegmentIs
  <2>3. o[k] - 1 = L
        BY <1>2, <2>1
  <2> QED BY <2>2, <2>3
<1>14. g[n] = [up |-> 0, kept |-> LeftOf(p, M, M - 1), open |-> Segments(p)[M]]
      BY <1>12, <1>13
<1> QED BY <1>5, <1>14

-----------------------------------------------------------------------------
\* A slash after each segment, and one before each.
Ended(k) == [n \in DOMAIN k |-> Append(k[n], Slash)]
Begun(k) == [n \in DOMAIN k |-> <<Slash>> \o k[n]]

LEMMA EndedAppend ==
  ASSUME NEW B, Slash \in B, NEW k \in Seq(Seq(B)), NEW x \in Seq(B)
  PROVE  /\ Ended(Append(k, x)) = Append(Ended(k), Append(x, Slash))
         /\ Begun(Append(k, x)) = Append(Begun(k), <<Slash>> \o x)
         /\ Ended(k) \in Seq(Seq(B)) /\ Begun(k) \in Seq(Seq(B))
<1> DEFINE K == Append(k, x)  N == Len(k)  D == Seq(B)
<1>1. /\ N \in Nat /\ DOMAIN k = 1..N /\ K \in Seq(D) /\ DOMAIN K = 1..(N + 1)
      /\ \A n \in 1..N : k[n] \in D /\ K[n] = k[n]
      /\ K[N + 1] = x
      BY AppendProperties, LenProperties, ElementOfSeq
<1>2. \A y \in D : Append(y, Slash) \in D /\ <<Slash>> \o y \in D
  <2> TAKE y \in D
  <2>1. <<Slash>> \in Seq(B)
        OBVIOUS
  <2> QED BY <2>1, AppendProperties, ConcatProperties
<1> HIDE DEF K, N, D
<1>3. x \in D /\ \A n \in DOMAIN k : k[n] \in D
      BY <1>1 DEF D
<1>4. ASSUME NEW F \in [D -> D]
      PROVE  /\ [n \in DOMAIN k |-> F[k[n]]] \in Seq(D)
             /\ [n \in DOMAIN K |-> F[K[n]]] = Append([n \in DOMAIN k |-> F[k[n]]], F[x])
  <2> DEFINE f == [n \in 1..N |-> F[k[n]]]  e == [n \in 1..(N + 1) |-> F[K[n]]]  a == Append(f, F[x])
  <2>1. f \in Seq(D) /\ Len(f) = N /\ F[x] \in D
    <3>1. \A n \in 1..N : F[k[n]] \in D
          BY <1>1, <1>4
    <3>2. f \in [1..N -> D]
          BY <3>1
    <3> HIDE DEF f
    <3> QED BY <1>3, <1>1, <1>4, <3>2
  <2>2. e \in Seq(D) /\ Len(e) = N + 1
    <3>1. \A n \in 1..(N + 1) : K[n] \in D
          BY <1>1, ElementOfSeq
    <3> QED BY <1>1, <1>4, <3>1
  <2>3. a \in Seq(D) /\ Len(a) = N + 1 /\ a[N + 1] = F[x] /\ \A n \in 1..N : a[n] = f[n]
    <3> HIDE DEF f
    <3> QED BY <1>1, <2>1, AppendProperties
  <2>4. ASSUME NEW n \in 1..(N + 1) PROVE a[n] = e[n]
    <3>1. n \in 1..N \/ n = N + 1
          BY <1>1
    <3>2. ASSUME n \in 1..N PROVE a[n] = e[n]
          BY <1>1, <2>3, <3>2
    <3>3. ASSUME n = N + 1 PROVE a[n] = e[n]
          BY <1>1, <2>3, <3>3
    <3> QED BY <3>1, <3>2, <3>3
  <2> HIDE DEF a, e
  <2>5. a = e
        BY <2>2, <2>3, <2>4, SeqEqual
  <2> QED BY <1>1, <2>1, <2>5 DEF a, e
<1>5. /\ Ended(k) \in Seq(D) /\ Ended(K) = Append(Ended(k), Append(x, Slash))
  <2> DEFINE F == [y \in D |-> Append(y, Slash)]
  <2>1. F \in [D -> D]
        BY <1>2
  <2>3. \A y \in D : F[y] = Append(y, Slash)
        OBVIOUS
  <2> HIDE DEF F
  <2>2. /\ [n \in DOMAIN k |-> F[k[n]]] \in Seq(D)
        /\ [n \in DOMAIN K |-> F[K[n]]] = Append([n \in DOMAIN k |-> F[k[n]]], F[x])
        BY <1>4, <2>1
  <2>4. [n \in DOMAIN k |-> F[k[n]]] = Ended(k)
    <3>1. \A n \in DOMAIN k : F[k[n]] = Append(k[n], Slash)
          BY <1>3, <2>3
    <3> QED BY <3>1 DEF Ended
  <2>5. [n \in DOMAIN K |-> F[K[n]]] = Ended(K)
    <3>1. \A n \in DOMAIN K : K[n] \in D
          BY <1>1, ElementOfSeq
    <3>2. \A n \in DOMAIN K : F[K[n]] = Append(K[n], Slash)
          BY <2>3, <3>1
    <3> QED BY <3>2 DEF Ended
  <2>6. F[x] = Append(x, Slash)
        BY <1>3, <2>3
  <2> QED BY <2>2, <2>4, <2>5, <2>6
<1>6. /\ Begun(k) \in Seq(D) /\ Begun(K) = Append(Begun(k), <<Slash>> \o x)
  <2> DEFINE F == [y \in D |-> <<Slash>> \o y]
  <2>1. F \in [D -> D]
        BY <1>2
  <2>3. \A y \in D : F[y] = <<Slash>> \o y
        OBVIOUS
  <2> HIDE DEF F
  <2>2. /\ [n \in DOMAIN k |-> F[k[n]]] \in Seq(D)
        /\ [n \in DOMAIN K |-> F[K[n]]] = Append([n \in DOMAIN k |-> F[k[n]]], F[x])
        BY <1>4, <2>1
  <2>4. [n \in DOMAIN k |-> F[k[n]]] = Begun(k)
    <3>1. \A n \in DOMAIN k : F[k[n]] = <<Slash>> \o k[n]
          BY <1>3, <2>3
    <3> QED BY <3>1 DEF Begun
  <2>5. [n \in DOMAIN K |-> F[K[n]]] = Begun(K)
    <3>1. \A n \in DOMAIN K : K[n] \in D
          BY <1>1, ElementOfSeq
    <3>2. \A n \in DOMAIN K : F[K[n]] = <<Slash>> \o K[n]
          BY <2>3, <3>1
    <3> QED BY <3>2 DEF Begun
  <2>6. F[x] = <<Slash>> \o x
        BY <1>3, <2>3
  <2> QED BY <2>2, <2>4, <2>5, <2>6
<1> QED BY <1>5, <1>6 DEF K, D

-----------------------------------------------------------------------------
(* What is written: the slashes move from behind the segments before them. *)

LEMMA FlattenLast ==
  ASSUME NEW B, Slash \in B, NEW k \in Seq(Seq(B)), NEW x \in Seq(B)
  PROVE  /\ FlattenSeq(Ended(Append(k, x))) = FlattenSeq(Ended(k)) \o (x \o <<Slash>>)
         /\ FlattenSeq(Begun(Append(k, x))) = FlattenSeq(Begun(k)) \o (<<Slash>> \o x)
         /\ FlattenSeq(Ended(k)) \in Seq(B) /\ FlattenSeq(Begun(k)) \in Seq(B)
<1>1. /\ Ended(Append(k, x)) = Append(Ended(k), Append(x, Slash))
      /\ Begun(Append(k, x)) = Append(Begun(k), <<Slash>> \o x)
      /\ Ended(k) \in Seq(Seq(B)) /\ Begun(k) \in Seq(Seq(B))
      BY EndedAppend
<1>2. FlattenSeq(Ended(k)) \in Seq(B) /\ FlattenSeq(Begun(k)) \in Seq(B)
      BY <1>1, FlattenType
<1>3. Append(x, Slash) = x \o <<Slash>> /\ Append(x, Slash) \in Seq(B)
      BY AppendIsConcat, AppendProperties
<1>4. <<Slash>> \in Seq(B)
      OBVIOUS
<1>5. <<Slash>> \o x \in Seq(B)
      BY <1>4, ConcatProperties
<1>6. FlattenSeq(Append(Ended(k), Append(x, Slash))) = FlattenSeq(Ended(k)) \o Append(x, Slash)
      BY <1>1, <1>2, <1>3, FlattenAppend
<1>7. FlattenSeq(Append(Begun(k), <<Slash>> \o x)) = FlattenSeq(Begun(k)) \o (<<Slash>> \o x)
      BY <1>1, <1>2, <1>5, FlattenAppend
<1> QED BY <1>1, <1>2, <1>3, <1>6, <1>7

LEMMA EmptyAreEmpty ==
  FlattenSeq(Ended(<<>>)) = <<>> /\ FlattenSeq(Begun(<<>>)) = <<>>
<1>1. Ended(<<>>) = <<>> /\ Begun(<<>>) = <<>>
      BY DEF Ended, Begun
<1> QED BY <1>1, FlattenEmpty

\* By induction over the length of a sequence of sequences: to say something of each it
\* is enough to say it of the empty one, and of one that is longer by one.
LEMMA InductSequence ==
  ASSUME NEW D, NEW T, <<>> \in T,
         \A k \in Seq(D) : k \in T => \A x \in D : Append(k, x) \in T
  PROVE  \A k \in Seq(D) : k \in T
<1> DEFINE S == {n \in Nat : \A k \in Seq(D) : Len(k) = n => k \in T}
<1>1. 0 \in S
  <2>1. ASSUME NEW k \in Seq(D), Len(k) = 0 PROVE k \in T
    <3>1. k = <<>>
          BY <2>1, EmptySeq
    <3> QED BY <3>1
  <2> QED BY <2>1
<1>2. ASSUME NEW n \in Nat, n \in S PROVE n + 1 \in S
  <2>1. ASSUME NEW k \in Seq(D), Len(k) = n + 1 PROVE k \in T
    <3>1. k # <<>>
          BY <2>1
    <3>2. PICK r \in Seq(D), x \in D : k = Append(r, x)
          BY <3>1, SequenceEmptyOrAppend
    <3>3. Len(r) \in Nat /\ Len(k) = Len(r) + 1
          BY <3>2, AppendProperties, LenProperties
    <3>4. Len(r) = n
          BY <2>1, <3>3
    <3>5. r \in T
          BY <1>2, <3>4
    <3> QED BY <3>2, <3>5
  <2> QED BY <2>1
<1> HIDE DEF S
<1>3. \A n \in Nat : n \in S
      BY <1>1, <1>2, Induct
<1>4. \A k \in Seq(D) : Len(k) \in Nat
      BY LenProperties
<1> QED BY <1>3, <1>4 DEF S

Shifts(c, e, f) == c \o e = f \o c

LEMMA Regroup ==
  ASSUME NEW B
  PROVE  \A s, t, u \in Seq(B) : (s \o t) \o u = s \o (t \o u)
BY ConcatAssociative, SMTT(30)

LEMMA SlashMoves ==
  ASSUME NEW B, NEW c \in Seq(B), NEW e \in Seq(B), NEW f \in Seq(B), NEW x \in Seq(B)
  PROVE  Shifts(c, e, f) => Shifts(c, e \o (x \o c), f \o (c \o x))
<1> DEFINE xc == x \o c  fc == f \o c
<1>1. xc \in Seq(B) /\ fc \in Seq(B)
      BY ConcatProperties
<1>2. \A s, t, u \in Seq(B) : (s \o t) \o u = s \o (t \o u)
      BY Regroup, SMTT(30)
<1>3. fc \o x = f \o (c \o x)
      BY <1>2, SMTT(30)
<1>4. (c \o e) \o xc = c \o (e \o xc)
      BY <1>1, <1>2, SMTT(30)
<1>5. (fc \o x) \o c = fc \o xc
      BY <1>1, <1>2, SMTT(30)
<1>6. ASSUME c \o e = fc PROVE (fc \o x) \o c = c \o (e \o xc)
  <2> HIDE DEF fc, xc
  <2> QED BY <1>4, <1>5, <1>6
<1> QED BY <1>3, <1>6 DEF Shifts

\* Slashes after the segments and one in front are slashes before them and one behind.
LEMMA SlashesShift ==
  ASSUME NEW B, Slash \in B, NEW k \in Seq(Seq(B))
  PROVE  <<Slash>> \o FlattenSeq(Ended(k)) = FlattenSeq(Begun(k)) \o <<Slash>>
<1> DEFINE T == {q \in Seq(Seq(B)) : <<Slash>> \o FlattenSeq(Ended(q)) = FlattenSeq(Begun(q)) \o <<Slash>>}
           c == <<Slash>>
<1>1. c \in Seq(B)
      OBVIOUS
<1>2. <<>> \in T
  <2>1. c \o <<>> = c /\ <<>> \o c = c
        BY <1>1, ConcatEmptySeq
  <2>2. <<>> \in Seq(Seq(B))
        OBVIOUS
  <2> QED BY <2>1, <2>2, EmptyAreEmpty
<1>3. ASSUME NEW q \in Seq(Seq(B)), q \in T, NEW x \in Seq(B) PROVE Append(q, x) \in T
  <2> DEFINE E == FlattenSeq(Ended(q))  F == FlattenSeq(Begun(q))
  <2>1. /\ FlattenSeq(Ended(Append(q, x))) = E \o (x \o c)
        /\ FlattenSeq(Begun(Append(q, x))) = F \o (c \o x)
        /\ E \in Seq(B) /\ F \in Seq(B)
        BY FlattenLast
  <2>2. c \o E = F \o c
        BY <1>3
  <2>3. Append(q, x) \in Seq(Seq(B))
        BY AppendProperties
  <2> HIDE DEF E, F, c
  <2>4. c \in Seq(B) /\ E \in Seq(B) /\ F \in Seq(B)
        BY <1>1, <2>1
  <2>8. Shifts(c, E \o (x \o c), F \o (c \o x))
    <3>1. Shifts(c, E, F)
          BY <2>2 DEF Shifts
    <3> QED BY <2>4, <3>1, SlashMoves
  <2> QED BY <2>1, <2>3, <2>8 DEF c, Shifts
<1> HIDE DEF T
<1>4. \A q \in Seq(Seq(B)) : q \in T
      BY <1>2, <1>3, InductSequence
<1> QED BY <1>4 DEF T

-----------------------------------------------------------------------------
NoDouble(w) == \A i, j \in 1..Len(w) : j = i + 1 => ~(w[i] = Slash /\ w[j] = Slash)
PlainEnd(w) == w # <<>> => w[Len(w)] # Slash

LEMMA NoDoubleNext ==
  ASSUME NEW B, Slash \in B, NEW f \in Seq(B), NoDouble(f), PlainEnd(f),
         NEW x \in Seq(B), Slash \notin ToSet(x), NEW w, w = f \o (<<Slash>> \o x)
  PROVE  w \in Seq(B) /\ NoDouble(w) /\ (x # <<>> => PlainEnd(w))
<1> DEFINE F == Len(f)  X == Len(x)  y == <<Slash>> \o x
<1>1. F \in Nat /\ X \in Nat
      BY LenProperties
<1>2. \A i \in 1..X : x[i] # Slash
  <2>1. ToSet(x) = {x[i] : i \in 1..X}
        BY LenProperties DEF ToSet
  <2> QED BY <2>1
<1>3. y \in Seq(B) /\ Len(y) = X + 1 /\ y[1] = Slash /\ \A i \in 2..(X + 1) : y[i] # Slash
  <2>1. <<Slash>> \in Seq(B) /\ Len(<<Slash>>) = 1
        OBVIOUS
  <2>2. /\ y \in Seq(B) /\ Len(y) = 1 + X
        /\ \A i \in 1..(1 + X) : y[i] = IF i <= 1 THEN <<Slash>>[i] ELSE x[i - 1]
        BY <2>1, ConcatProperties
  <2> HIDE DEF y, X
  <2>3. 1 \in 1..(1 + X) /\ \A i \in 2..(X + 1) : i \in 1..(1 + X) /\ ~(i <= 1) /\ i - 1 \in 1..X
        BY <1>1
  <2>4. y[1] = Slash
    <3>1. y[1] = <<Slash>>[1]
          BY <2>2, <2>3
    <3> QED BY <3>1
  <2>5. ASSUME NEW i \in 2..(X + 1) PROVE y[i] # Slash
    <3>1. y[i] = x[i - 1]
          BY <2>2, <2>3
    <3> QED BY <1>2, <2>3, <3>1
  <2> QED BY <1>1, <2>2, <2>4, <2>5
<1> HIDE DEF y, X, F
<1>4. /\ w \in Seq(B) /\ Len(w) = F + X + 1
      /\ \A i \in 1..F : w[i] = f[i]
      /\ w[F + 1] = Slash
      /\ \A i \in (F + 2)..(F + X + 1) : w[i] # Slash
  <2>1. /\ w \in Seq(B) /\ Len(w) = F + Len(y)
        /\ \A i \in 1..(F + Len(y)) : w[i] = IF i <= F THEN f[i] ELSE y[i - F]
        BY <1>3, ConcatProperties DEF F, y
  <2>2. Len(w) = F + X + 1
        BY <1>1, <1>3, <2>1
  <2>3. \A i \in 1..F : i \in 1..(F + Len(y)) /\ i <= F
        BY <1>1, <1>3
  <2>4. F + 1 \in 1..(F + Len(y)) /\ ~(F + 1 <= F) /\ F + 1 - F = 1
        BY <1>1, <1>3
  <2>5. \A i \in (F + 2)..(F + X + 1) :
           i \in 1..(F + Len(y)) /\ ~(i <= F) /\ i - F \in 2..(X + 1)
        BY <1>1, <1>3
  <2>6. ASSUME NEW i \in (F + 2)..(F + X + 1) PROVE w[i] # Slash
    <3>1. w[i] = y[i - F]
          BY <2>1, <2>5
    <3> QED BY <1>3, <2>5, <3>1
  <2>7. ASSUME NEW i \in 1..F PROVE w[i] = f[i]
        BY <2>1, <2>3
  <2>8. w[F + 1] = y[1]
    <3> DEFINE i == F + 1
    <3>1. i \in 1..(F + Len(y)) /\ ~(i <= F) /\ i - F = 1
          BY <1>1, <2>4
    <3> HIDE DEF i
    <3>2. w[i] = y[i - F]
          BY <2>1, <3>1
    <3> QED BY <3>1, <3>2 DEF i
  <2> QED BY <1>3, <2>1, <2>2, <2>6, <2>7, <2>8
<1>5. ASSUME NEW i \in 1..Len(w), NEW j \in 1..Len(w), j = i + 1, w[i] = Slash, w[j] = Slash
      PROVE  FALSE
  <2>1. i \in 1..(F + X + 1) /\ j \in 1..(F + X + 1)
        BY <1>4
  <2>2. j <= F + 1
    <3>1. j \notin (F + 2)..(F + X + 1)
          BY <1>4, <1>5
    <3> QED BY <1>1, <2>1, <3>1
  <2>3. i \in 1..F
        BY <1>1, <1>5, <2>1, <2>2
  <2>4. f[i] = Slash
        BY <1>4, <1>5, <2>3
  <2>5. CASE j = F + 1
    <3>1. i = F
          BY <1>1, <1>5, <2>3, <2>5
    <3>2. f # <<>>
          BY <2>3 DEF F
    <3> QED BY <2>4, <3>1, <3>2 DEF PlainEnd, F
  <2>6. CASE j # F + 1
    <3>1. j \in 1..F
          BY <1>1, <2>1, <2>2, <2>6
    <3>2. f[j] = Slash
          BY <1>4, <1>5, <3>1
    <3> QED BY <1>5, <2>3, <2>4, <3>1, <3>2 DEF NoDouble, F
  <2> QED BY <2>5, <2>6
<1>6. ASSUME x # <<>> PROVE PlainEnd(w)
  <2>1. X # 0
        BY <1>6, EmptySeq DEF X
  <2>2. Len(w) \in (F + 2)..(F + X + 1)
        BY <1>1, <1>4, <2>1
  <2> QED BY <1>4, <2>2 DEF PlainEnd
<1> QED BY <1>4, <1>5, <1>6 DEF NoDouble

\* No two slashes meet if no segment is empty.
LEMMA BegunPlain ==
  ASSUME NEW B, Slash \in B, NEW k \in Seq(Seq(B)),
         \A n \in 1..Len(k) : k[n] # <<>> /\ Slash \notin ToSet(k[n])
  PROVE  /\ FlattenSeq(Begun(k)) \in Seq(B)
         /\ NoDouble(FlattenSeq(Begun(k))) /\ PlainEnd(FlattenSeq(Begun(k)))
<1> DEFINE Fine(q) == \A n \in 1..Len(q) : q[n] # <<>> /\ Slash \notin ToSet(q[n])
           T == {q \in Seq(Seq(B)) : Fine(q) =>
                   /\ FlattenSeq(Begun(q)) \in Seq(B)
                   /\ NoDouble(FlattenSeq(Begun(q))) /\ PlainEnd(FlattenSeq(Begun(q)))}
<1>1. <<>> \in T
  <2>1. NoDouble(<<>>) /\ PlainEnd(<<>>) /\ <<>> \in Seq(B) /\ <<>> \in Seq(Seq(B))
        BY DEF NoDouble, PlainEnd
  <2> QED BY <2>1, EmptyAreEmpty
<1>2. ASSUME NEW q \in Seq(Seq(B)), q \in T, NEW x \in Seq(B) PROVE Append(q, x) \in T
  <2> DEFINE a == Append(q, x)
  <2>1. /\ a \in Seq(Seq(B)) /\ Len(q) \in Nat /\ Len(a) = Len(q) + 1 /\ a[Len(q) + 1] = x
        /\ \A n \in 1..Len(q) : a[n] = q[n]
        BY AppendProperties, LenProperties
  <2> HIDE DEF a
  <2>2. ASSUME Fine(a)
        PROVE  /\ FlattenSeq(Begun(a)) \in Seq(B)
               /\ NoDouble(FlattenSeq(Begun(a))) /\ PlainEnd(FlattenSeq(Begun(a)))
    <3>1. Len(q) + 1 \in 1..Len(a) /\ \A n \in 1..Len(q) : n \in 1..Len(a)
          BY <2>1
    <3>2. x # <<>> /\ Slash \notin ToSet(x)
          BY <2>1, <2>2, <3>1
    <3>3. Fine(q)
          BY <2>1, <2>2, <3>1
    <3>4. /\ FlattenSeq(Begun(q)) \in Seq(B)
          /\ NoDouble(FlattenSeq(Begun(q))) /\ PlainEnd(FlattenSeq(Begun(q)))
          BY <1>2, <3>3
    <3>5. FlattenSeq(Begun(a)) = FlattenSeq(Begun(q)) \o (<<Slash>> \o x)
          BY FlattenLast DEF a
    <3> QED BY <3>2, <3>4, <3>5, NoDoubleNext
  <2> QED BY <2>1, <2>2 DEF a
<1> HIDE DEF T
<1>3. \A q \in Seq(Seq(B)) : q \in T
      BY <1>1, <1>2, InductSequence
<1> QED BY <1>3 DEF T

LEMMA SqueezedSame ==
  ASSUME NEW B, NEW w \in Seq(B), NoDouble(w)
  PROVE  Squeezed(w) = w
<1>1. Len(w) \in Nat /\ DOMAIN w = 1..Len(w)
      BY LenProperties
<1>2. ASSUME NEW i \in DOMAIN w, w[i] = Slash PROVE i = 1 \/ w[i - 1] # Slash
  <2> DEFINE j == i - 1
  <2>1. i = 1 \/ (j \in 1..Len(w) /\ i = j + 1 /\ i \in 1..Len(w))
        BY <1>1
  <2> HIDE DEF j
  <2>2. i = 1 \/ w[j] # Slash
        BY <1>2, <2>1 DEF NoDouble
  <2> QED BY <2>2 DEF j
<1>3. {i \in DOMAIN w : w[i] = Slash => i = 1 \/ w[i - 1] # Slash} = DOMAIN w
      BY <1>2
<1> QED BY <1>3, PickedAll DEF Squeezed

-----------------------------------------------------------------------------
\* What symbolicRealpath makes of an absolute path that never climbs above its start and
\* has no empty segment before the last is what its segments lead to (Resolved), however
\* its bytes are scanned: with any number of segments, "." and "..".
THEOREM RealpathResolves ==
  ASSUME NEW B, NEW path \in Seq(B), Plain(path)
  PROVE  symbolicRealpath(path) = Resolved(path)
<1>1. Absolute(path)
      BY DEF Plain
<1>2. Slash \in B
  <2>1. path # <<>> /\ path[1] = Slash
        BY <1>1 DEF Absolute
  <2>2. 1 \in 1..Len(path)
        BY <2>1, EmptySeq
  <2> QED BY <2>1, <2>2, ElementOfSeq
<1>3. PICK M, o : Cuts(path, M, o)
      BY <1>1, CutsExist
<1> DEFINE s == Segments(path)  N == M - 1  K == Kept(Altitudes(s, N), N)  kept == LeftOf(path, M, N)
<1>4. M \in Nat \ {0} /\ s \in Seq(Seq(B)) /\ Len(s) = M
      BY <1>3, SegmentsType
<1>5. N \in Nat /\ M \in 1..M /\ K \subseteq 1..N /\ K \subseteq 1..M /\ \A i \in K : i < M
  <2>1. N \in Nat
        BY <1>4
  <2>2. K \subseteq 1..N
        BY <2>1, KeptType
  <2> HIDE DEF K
  <2> QED BY <1>4, <2>1, <2>2
<1>6. \A n \in 1..N : s[n] # <<>>
      BY <1>3, PlainIs
<1>7. \A n \in 1..M : Slash \notin ToSet(s[n]) /\ s[n] \in Seq(B)
  <2> TAKE n \in 1..M
  <2> QED BY <1>3, SegmentIs
<1>8. symbolicRealpath(path) = Squeezed(Written([up |-> 0, kept |-> kept, open |-> s[M]]))
      BY <1>3, ScanEnds
<1>9. kept = Picked(s, K)
      BY DEF LeftOf
<1> HIDE DEF s, kept
<1>10. {i \in 1..N : s[i] \notin {Dot, DotDot} /\ \A j \in (i + 1)..N : Depth(s, i, j) > 0} = K
  <2>1. \A i \in 1..N : i \in K <=>
           s[i] \notin {Dot, DotDot} /\ \A j \in (i + 1)..N : Depth(s, i, j) > 0
    <3> TAKE i \in 1..N
    <3> QED BY <1>5, LeftIsKept
  <2> HIDE DEF K
  <2> QED BY <1>5, <2>1
<1>11. Resolved(path) = FlattenSeq(Begun(Picked(s, K \cup {M})))
  <2>1. Resolved(path) =
          FlattenSeq(Begun(Picked(s, {i \in 1..N : s[i] \notin {Dot, DotDot}
                              /\ \A j \in (i + 1)..N : Depth(s, i, j) > 0} \cup {M})))
        BY <1>4 DEF Resolved, Begun, s
  <2> QED BY <1>10, <2>1
<1> HIDE DEF K, N
<1>12. Picked(s, K \cup {M}) = Append(kept, s[M])
      BY <1>4, <1>5, <1>9, PickedMore
<1>13. kept \in Seq(Seq(B)) /\ Len(kept) = Cardinality(K)
      BY <1>4, <1>5, <1>9, PickedType
<1>14. \A n \in 1..Len(kept) : kept[n] # <<>> /\ Slash \notin ToSet(kept[n])
  <2> TAKE n \in 1..Len(kept)
  <2>1. n \in 1..Cardinality(K) /\ K \in SUBSET (1..Len(s))
        BY <1>4, <1>5, <1>13
  <2>2. \E x \in K : InOrder(K)[n] = x /\ Picked(s, K)[n] = s[x]
        BY <1>4, <2>1, PickedAt
  <2>3. PICK x \in K : kept[n] = s[x]
        BY <1>9, <2>2
  <2> QED BY <1>5, <1>6, <1>7, <2>3
<1> DEFINE x == s[M]  c == <<Slash>>  F == FlattenSeq(Begun(kept))  E == FlattenSeq(Ended(kept))
           w == F \o (c \o x)
<1>15. x \in Seq(B) /\ Slash \notin ToSet(x) /\ c \in Seq(B)
      BY <1>2, <1>5, <1>7
<1>16. F \in Seq(B) /\ NoDouble(F) /\ PlainEnd(F)
      BY <1>2, <1>13, <1>14, BegunPlain
<1>17. FlattenSeq(Begun(Append(kept, x))) = w /\ E \in Seq(B)
      BY <1>2, <1>13, <1>15, FlattenLast
<1>18. c \o E = F \o c
      BY <1>2, <1>13, SlashesShift
<1>19. Written([up |-> 0, kept |-> kept, open |-> x]) = ((<<>> \o c) \o E) \o x
  <2> DEFINE r == [up |-> 0, kept |-> kept, open |-> x]
  <2>1. r.up = 0 /\ r.kept = kept /\ r.open = x
        OBVIOUS
  <2> HIDE DEF r, x, E
  <2>2. Climbing(r) = <<>>
    <3>1. [n \in 1..0 |-> <<".", ".", "/">>] = <<>>
          OBVIOUS
    <3> QED BY <2>1, <3>1, FlattenEmpty DEF Climbing
  <2>3. Going(r) = E
        BY <2>1 DEF Going, Ended, E
  <2> QED BY <2>1, <2>2, <2>3 DEF Written, r
<1> HIDE DEF x, F, E, w, c
<1>20. ((<<>> \o c) \o E) \o x = w
  <2>1. <<>> \o c = c
        BY <1>15, ConcatEmptySeq
  <2>2. (F \o c) \o x = F \o (c \o x)
    <3>1. F \in Seq(B) /\ c \in Seq(B) /\ x \in Seq(B)
          BY <1>15, <1>16
    <3> QED BY <3>1, Regroup, SMTT(30)
  <2> QED BY <1>18, <2>1, <2>2 DEF w
<1>21. w \in Seq(B) /\ NoDouble(w)
      BY <1>2, <1>15, <1>16, NoDoubleNext DEF w, c
<1>22. Squeezed(w) = w
      BY <1>21, SqueezedSame
<1> QED BY <1>8, <1>11, <1>12, <1>17, <1>19, <1>20, <1>22 DEF x, N

LEMMA SeqOfFunction ==
  ASSUME NEW C, NEW n \in Nat, NEW s \in [1..n -> C]
  PROVE  s \in Seq(C)
OBVIOUS

LEMMA SeqGrows ==
  ASSUME NEW B, NEW C, B \subseteq C, NEW s \in Seq(B)
  PROVE  s \in Seq(C)
<1>1. s \in [1..Len(s) -> B] /\ Len(s) \in Nat
      BY LenProperties
<1>2. s \in [1..Len(s) -> C]
      BY <1>1
<1> QED BY <1>1, <1>2

\* symbolicRealpath adds slashes and dots to what it is given, and nothing else.
LEMMA RealpathType ==
  ASSUME NEW B, NEW path \in Seq(B)
  PROVE  symbolicRealpath(path) \in Seq(B \cup {Slash, "."})
<1> DEFINE P == B \cup {Slash, "."}  n == Len(Rest(path))
<1>1. path \in Seq(P)
      BY SeqGrows
<1>2. PICK g : /\ g \in [0..n -> ScanStates(P)]
               /\ symbolicRealpath(path) = Squeezed(Written(g[n]))
      BY <1>1, RealpathIs
<1>3. n \in Nat
  <2>1. Rest(path) \in Seq(P)
    <3>1. CASE Absolute(path)
          BY <1>1, <3>1, HeadTailProperties DEF Rest, Absolute
    <3>2. CASE ~Absolute(path)
          BY <1>1, <3>2 DEF Rest
    <3> QED BY <3>1, <3>2
  <2> QED BY <2>1, LenProperties
<1> DEFINE r == g[n]
<1>4. r \in ScanStates(P)
  <2>1. n \in 0..n
        BY <1>3
  <2> QED BY <1>2, <2>1
<1>5. Slash \in P /\ "." \in P /\ "/" = Slash
      BY DEF Slash
<1> HIDE DEF P, n, r
<1>6. r.up \in Nat /\ r.kept \in Seq(Seq(P)) /\ r.open \in Seq(P)
      BY <1>4 DEF ScanStates
<1>7. Climbing(r) \in Seq(P)
  <2> DEFINE u == [m \in 1..r.up |-> <<".", ".", "/">>]  D == Seq(P)
  <2>1. <<".", ".", "/">> \in D
        BY <1>5
  <2>2. u \in [1..r.up -> D]
    <3> HIDE DEF D
    <3> QED BY <2>1
  <2> HIDE DEF D
  <2>3. u \in Seq(D)
    <3> DEFINE m == r.up
    <3>1. u \in [1..m -> D] /\ m \in Nat
          BY <1>6, <2>2
    <3> HIDE DEF u, m
    <3> QED BY <3>1
  <2>4. FlattenSeq(u) \in Seq(P)
    <3> HIDE DEF u
    <3> QED BY <2>3, FlattenType DEF D
  <2> QED BY <2>4 DEF Climbing
<1>8. Going(r) \in Seq(P)
  <2>1. Ended(r.kept) \in Seq(Seq(P))
    <3>1. <<>> \in Seq(P)
          OBVIOUS
    <3> QED BY <1>5, <1>6, <3>1, EndedAppend
  <2>2. FlattenSeq(Ended(r.kept)) \in Seq(P)
        BY <2>1, FlattenType
  <2> QED BY <2>2 DEF Going, Ended
<1>9. Written(r) \in Seq(P)
  <2> DEFINE a == Climbing(r)  b == Going(r)  c == <<Slash>>
  <2>1. a \in Seq(P) /\ b \in Seq(P) /\ c \in Seq(P)
        BY <1>5, <1>7, <1>8
  <2> HIDE DEF a, b, c
  <2>2. a \o c \in Seq(P)
        BY <2>1, ConcatProperties
  <2>3. (a \o c) \o b \in Seq(P)
        BY <2>1, <2>2, ConcatProperties
  <2>4. ((a \o c) \o b) \o r.open \in Seq(P)
        BY <1>6, <2>3, ConcatProperties
  <2> QED BY <2>4 DEF Written, a, b, c
<1>10. Squeezed(Written(r)) \in Seq(P)
  <2> DEFINE w == Written(r)  S == {i \in DOMAIN w : w[i] = Slash => i = 1 \/ w[i - 1] # Slash}
  <2>1. S \subseteq 1..Len(w)
        BY <1>9, LenProperties
  <2>2. Squeezed(w) = Picked(w, S)
        BY DEF Squeezed
  <2> HIDE DEF w, S
  <2>3. Picked(w, S) \in Seq(P)
        BY <1>9, <2>1, PickedType DEF w
  <2> QED BY <2>2, <2>3 DEF w
<1> QED BY <1>2, <1>10 DEF r, P

-----------------------------------------------------------------------------
(* Paths that begin with the same segments.                                *)

\* A path that is cut off before a slash has the segments up to there.
LEMMA CutShort ==
  ASSUME NEW B, NEW p \in Seq(B), NEW N, NEW q, Cuts(p, N, q), NEW m \in 1..N, NEW k, k = m + 1
  PROVE  /\ Segments(SubSeq(p, 1, q[k] - 1)) = SubSeq(Segments(p), 1, m)
         /\ q[k] - 1 \in 1..Len(p)
<1> DEFINE L == Len(p)  z == q[k] - 1  e == SubSeq(p, 1, z)  r == [i \in 1..k |-> q[i]]
<1>1. L \in Nat /\ DOMAIN p = 1..L /\ N \in Nat \ {0} /\ m \in Nat /\ k \in 1..(N + 1) /\ k \in Nat
      BY LenProperties DEF Cuts
<1>2. q[m] \in 1..L /\ q[k] \in (q[m] + 1)..(L + 1)
      BY MarksIncrease
<1>3. z \in 1..L /\ q[k] = z + 1 /\ q[k] \in Nat
  <2>1. q[m] \in Nat /\ 1 <= q[m]
        BY <1>1, <1>2
  <2>2. q[k] \in Nat /\ q[m] < q[k] /\ q[k] <= L + 1
        BY <1>1, <1>2, <2>1
  <2> QED BY <1>1, <2>1, <2>2
<1>4. Enumerates(q, N + 1, Marks(p))
      BY DEF Cuts
<1> HIDE DEF L, z
<1>5. e \in Seq(B) /\ Len(e) = z /\ \A i \in 1..z : e[i] = p[i]
  <2>1. 1 \in Int /\ z \in Int /\ z \in Nat
        BY <1>1, <1>3
  <2>2. \A i \in 1..z : i \in 1..L
        BY <1>1, <1>3
  <2>3. \A i \in 1..z : p[i] \in B
        BY <2>2, ElementOfSeq DEF L
  <2>4. /\ e \in Seq(B) /\ Len(e) = IF 1 <= z THEN z - 1 + 1 ELSE 0
        /\ \A i \in 1..(z - 1 + 1) : e[i] = p[1 + i - 1]
        BY <2>1, <2>3, SubSeqProperties
  <2>5. \A i \in 1..z : i \in 1..(z - 1 + 1) /\ 1 + i - 1 = i
        BY <2>1
  <2>6. Len(e) = z
        BY <1>1, <1>3, <2>4
  <2> HIDE DEF e
  <2> QED BY <2>4, <2>5, <2>6
<1> HIDE DEF e
<1>6. DOMAIN e = 1..z
      BY <1>5
<1>7. Marks(e) = {x \in Marks(p) : x <= q[k]}
  <2>1. q[k] \in Marks(p) /\ \A x \in Marks(p) : x \in 1..(L + 1) /\ (x # L + 1 => p[x] = Slash)
        BY <1>1, <1>4 DEF Marks, Enumerates, L
  <2>2. Marks(e) = {i \in 1..z : p[i] = Slash} \cup {z + 1}
        BY <1>5, <1>6 DEF Marks
  <2>3. ASSUME NEW x \in 1..z, p[x] = Slash PROVE x \in Marks(p) /\ x <= q[k]
        BY <1>1, <1>3, <2>3 DEF Marks
  <2>4. ASSUME NEW x \in Marks(p), x <= q[k], x # q[k] PROVE x \in 1..z /\ p[x] = Slash
    <3>1. x \in 1..(L + 1) /\ x \in Nat
          BY <1>1, <2>1
    <3>2. x \in 1..z /\ x # L + 1
          BY <1>1, <1>3, <2>4, <3>1
    <3> QED BY <2>1, <3>2
  <2>5. q[k] <= q[k]
        BY <1>3
  <2> QED BY <1>3, <2>1, <2>2, <2>3, <2>4, <2>5
<1>8. Enumerates(r, k, Marks(e))
  <2>1. ASSUME NEW i \in 1..k PROVE i \in 1..(N + 1) /\ q[i] \in Marks(e) /\ r[i] = q[i]
    <3>1. i \in 1..(N + 1) /\ (i = k \/ i < k)
          BY <1>1
    <3>2. q[i] \in Marks(p) /\ (i < k => q[i] < q[k])
          BY <1>1, <1>4, <3>1 DEF Enumerates
    <3>3. q[i] \in Nat
      <4>1. \A x \in Marks(p) : x \in Nat
            BY <1>1 DEF Marks, L
      <4> QED BY <3>2, <4>1
    <3>4. q[i] <= q[k]
          BY <1>3, <3>1, <3>2, <3>3
    <3> QED BY <1>7, <3>1, <3>2, <3>4
  <2>2. r \in [1..k -> Marks(e)]
        BY <2>1
  <2>3. \A i, j \in 1..k : i < j => r[i] < r[j]
    <3> HIDE DEF r
    <3> QED BY <1>4, <2>1 DEF Enumerates
  <2>4. ASSUME NEW x \in Marks(e) PROVE \E n \in 1..k : r[n] = x
    <3>1. x \in Marks(p) /\ x <= q[k] /\ x \in Nat
      <4>1. \A y \in Marks(p) : y \in Nat
            BY <1>1 DEF Marks, L
      <4> QED BY <1>7, <4>1
    <3>2. PICK j \in 1..(N + 1) : q[j] = x
          BY <1>4, <3>1 DEF Enumerates
    <3>3. ~(k < j)
      <4>1. ~(q[k] < q[j])
            BY <1>3, <3>1, <3>2
      <4> QED BY <1>1, <1>4, <4>1 DEF Enumerates
    <3>4. j \in 1..k
          BY <1>1, <3>3
    <3> HIDE DEF r
    <3> QED BY <2>1, <3>2, <3>4
  <2> HIDE DEF r
  <2> QED BY <2>2, <2>3, <2>4 DEF Enumerates
<1>9. InOrder(Marks(e)) = r
  <2>1. Marks(e) \subseteq Nat
        BY <1>1, <1>3, <1>6 DEF Marks, L
  <2> HIDE DEF r
  <2> QED BY <1>1, <1>8, <2>1, InOrderIs
<1>10. Len(r) = k /\ \A n \in 1..k : r[n] = q[n]
      BY <1>1
<1> HIDE DEF r
<1>11. Segments(e) = [n \in 1..m |-> SubSeq(e, r[n] + 1, r[n + 1] - 1)]
  <2>1. Segments(e) = [n \in 1..Len(r) - 1 |-> SubSeq(e, r[n] + 1, r[n + 1] - 1)]
        BY <1>9 DEF Segments, Marks
  <2>2. Len(r) - 1 = m
        BY <1>1, <1>10
  <2> QED BY <2>1, <2>2
<1>12. ASSUME NEW n \in 1..m PROVE SubSeq(e, r[n] + 1, r[n + 1] - 1) = Segments(p)[n]
  <2> DEFINE j == n + 1  a == q[n] + 1  b == q[j] - 1
  <2>1. n \in 1..N /\ n \in 1..k /\ j \in 1..k
        BY <1>1
  <2>2. q[n] \in 1..L /\ q[j] \in (q[n] + 1)..(L + 1)
        BY <2>1, MarksIncrease DEF L
  <2>3. Segments(p)[n] = SubSeq(p, a, b)
        BY <2>1, SegmentIs
  <2>4. q[j] <= q[k]
    <3>1. r[j] \in Marks(e)
          BY <1>8, <2>1 DEF Enumerates
    <3> QED BY <1>7, <1>10, <2>1, <3>1
  <2>5. a \in Int /\ b \in Int /\ \A i \in a..b : i \in 1..z
    <3>1. q[n] \in Nat /\ 1 <= q[n]
          BY <1>1, <2>2
    <3>2. q[j] \in Nat
          BY <1>1, <2>2, <3>1
    <3> QED BY <1>1, <1>3, <2>4, <3>1, <3>2, SMTT(30)
  <2>6. r[n] = q[n] /\ r[n + 1] = q[j]
        BY <1>10, <2>1
  <2> HIDE DEF a, b, j
  <2>7. \A i \in a..b : p[i] \in B /\ e[i] = p[i]
    <3>1. \A i \in 1..z : i \in 1..L
          BY <1>1, <1>3
    <3>2. \A i \in 1..z : p[i] \in B
          BY <3>1, ElementOfSeq DEF L
    <3> QED BY <1>5, <2>5, <3>2
  <2>8. SubSeq(p, a, b) = SubSeq(e, a, b)
        BY <2>5, <2>7, SameSubSeq
  <2> QED BY <2>3, <2>6, <2>8 DEF a, b
<1>13. Segments(e) = SubSeq(Segments(p), 1, m)
  <2> DEFINE s == Segments(p)  t == Segments(e)  u == SubSeq(s, 1, m)
  <2>1. s \in Seq(Seq(B)) /\ Len(s) = N
        BY SegmentsType
  <2>2. \A i \in 1..m : i \in 1..N
        BY <1>1
  <2>3. DOMAIN t = 1..m /\ (\A i \in 1..m : t[i] = s[i]) /\ t = [i \in 1..m |-> t[i]]
        BY <1>11, <1>12
  <2> HIDE DEF s, t
  <2>4. \A i \in 1..m : s[i] \in Seq(B)
        BY <2>1, <2>2, ElementOfSeq
  <2>5. t \in Seq(Seq(B)) /\ Len(t) = m
    <3> DEFINE D == Seq(B)
    <3> HIDE DEF D
    <3>1. t \in [1..m -> D]
          BY <2>3, <2>4 DEF D
    <3>2. t \in Seq(D) /\ Len(t) = m
          BY <1>1, <3>1
    <3> QED BY <3>2 DEF D
  <2>6. 1 \in Int /\ m \in Int /\ 1 <= m
        BY <1>1
  <2>7. /\ u \in Seq(Seq(B)) /\ Len(u) = IF 1 <= m THEN m - 1 + 1 ELSE 0
        /\ \A i \in 1..(m - 1 + 1) : u[i] = s[1 + i - 1]
        BY <2>4, <2>6, SubSeqProperties
  <2> HIDE DEF u
  <2>8. Len(u) = m /\ \A i \in 1..m : u[i] = s[i]
    <3>1. m - 1 + 1 = m /\ \A i \in 1..m : 1 + i - 1 = i
          BY <1>1
    <3> QED BY <2>6, <2>7, <3>1
  <2>9. t = u
        BY <2>3, <2>5, <2>7, <2>8, SeqEqual
  <2> QED BY <2>9 DEF s, t, u
<1> QED BY <1>3, <1>13 DEF e, z, L

\* A path is known by its segments.
LEMMA SegmentsTell ==
  ASSUME NEW B, NEW p \in Seq(B), NEW d \in Seq(B), Absolute(p), Absolute(d),
         Segments(p) = Segments(d)
  PROVE  p = d
<1>1. PICK N, q : Cuts(p, N, q)
      BY CutsExist
<1>2. PICK M, o : Cuts(d, M, o)
      BY CutsExist
<1>3. M = N /\ N \in Nat \ {0}
  <2>1. Len(Segments(p)) = N /\ N \in Nat \ {0}
        BY <1>1, SegmentsType
  <2>2. Len(Segments(d)) = M
        BY <1>2, SegmentsType
  <2> QED BY <2>1, <2>2
<1>4. ASSUME NEW n \in 1..N
      PROVE  /\ o[n] = q[n] => o[n + 1] = q[n + 1]
             /\ o[n] = q[n] => \A i \in (q[n] + 1)..(q[n + 1] - 1) : p[i] = d[i]
             /\ q[n] \in Nat /\ q[n + 1] \in Nat /\ q[n] < q[n + 1]
  <2> DEFINE j == n + 1  s == Segments(p)[n]
             a == q[n] + 1  b == q[j] - 1  e == o[n] + 1  f == o[j] - 1
  <2>1. s = SubSeq(p, a, b)
        BY <1>1, SegmentIs
  <2>2. s = SubSeq(d, e, f)
        BY <1>2, <1>3, SegmentIs
  <2>3. q[n] \in 1..Len(p) /\ q[j] \in (q[n] + 1)..(Len(p) + 1)
        BY <1>1, MarksIncrease
  <2>4. o[n] \in 1..Len(d) /\ o[j] \in (o[n] + 1)..(Len(d) + 1)
        BY <1>2, <1>3, MarksIncrease
  <2>5. Len(p) \in Nat /\ Len(d) \in Nat
        BY LenProperties
  <2> HIDE DEF j, s
  <2>6. /\ q[n] \in Nat /\ q[j] \in Nat /\ q[n] < q[j] /\ 1 <= q[n] /\ q[j] <= Len(p) + 1
        /\ o[n] \in Nat /\ o[j] \in Nat /\ o[n] < o[j] /\ 1 <= o[n] /\ o[j] <= Len(d) + 1
    <3>1. q[n] \in Nat /\ q[j] \in Nat /\ q[n] < q[j] /\ 1 <= q[n] /\ q[j] <= Len(p) + 1
          BY <2>3, <2>5, SMTT(30)
    <3>2. o[n] \in Nat /\ o[j] \in Nat /\ o[n] < o[j] /\ 1 <= o[n] /\ o[j] <= Len(d) + 1
          BY <2>4, <2>5, SMTT(30)
    <3> QED BY <3>1, <3>2
  <2>9. q[j] = b + 1 /\ o[j] = f + 1 /\ a = q[n] + 1 /\ e = o[n] + 1
        BY <2>6
  <2>8. a \in Nat /\ b \in Nat /\ e \in Nat /\ f \in Nat
    <3>1. q[j] - 1 \in Nat /\ o[j] - 1 \in Nat
          BY <2>6
    <3>2. q[n] + 1 \in Nat /\ o[n] + 1 \in Nat
          BY <2>6
    <3> QED BY <3>1, <3>2
  <2> HIDE DEF a, b, e, f
  <2>7. /\ a \in 1..(Len(p) + 1) /\ b \in 0..Len(p) /\ a <= b + 1
        /\ e \in 1..(Len(d) + 1) /\ f \in 0..Len(d) /\ e <= f + 1
    <3>1. a <= Len(p) + 1 /\ b <= Len(p) /\ 1 <= a /\ a <= b + 1
          BY <2>5, <2>6, <2>8, <2>9
    <3>2. e <= Len(d) + 1 /\ f <= Len(d) /\ 1 <= e /\ e <= f + 1
          BY <2>5, <2>6, <2>8, <2>9
    <3> QED BY <2>5, <2>8, <3>1, <3>2
  <2>10. Len(s) = (IF a <= b THEN b - a + 1 ELSE 0) /\ \A i \in 1..(b - a + 1) : s[i] = p[a + i - 1]
        BY <2>1, <2>7, Cut
  <2>11. Len(s) = (IF e <= f THEN f - e + 1 ELSE 0) /\ \A i \in 1..(f - e + 1) : s[i] = d[e + i - 1]
        BY <2>2, <2>7, Cut
  <2>12. ASSUME o[n] = q[n]
         PROVE  o[j] = q[j] /\ \A i \in a..b : p[i] = d[i]
    <3>1. a = e
          BY <2>9, <2>12
    <3>2. b - a + 1 = f - e + 1
          BY <2>7, <2>8, <2>10, <2>11
    <3>3. b = f
          BY <2>8, <3>1, <3>2
    <3>4. ASSUME NEW i \in a..b PROVE p[i] = d[i]
      <4>1. i - a + 1 \in 1..(b - a + 1) /\ a + (i - a + 1) - 1 = i
            BY <2>8
      <4>2. s[i - a + 1] = p[i]
            BY <2>10, <4>1
      <4>3. s[i - a + 1] = d[i]
            BY <2>11, <3>1, <3>3, <4>1
      <4> QED BY <4>2, <4>3
    <3> QED BY <2>9, <3>3, <3>4
  <2> QED BY <2>6, <2>12 DEF a, b, j
<1>5. \A n \in 1..(N + 1) : o[n] = q[n]
  <2> DEFINE T == {n \in Nat : n <= N => o[n + 1] = q[n + 1]}
  <2>1. 0 \in T
    <3>1. o[1] = 1 /\ q[1] = 1
          BY <1>1, <1>2 DEF Cuts
    <3> QED BY <3>1
  <2>2. ASSUME NEW n \in Nat, n \in T PROVE n + 1 \in T
    <3> DEFINE m == n + 1
    <3> SUFFICES ASSUME m <= N PROVE o[m + 1] = q[m + 1]
        OBVIOUS
    <3>1. m \in 1..N /\ n <= N
          BY <1>3
    <3>2. o[m] = q[m]
          BY <2>2, <3>1
    <3> HIDE DEF m
    <3> QED BY <1>4, <3>1, <3>2
  <2> HIDE DEF T
  <2>3. \A n \in Nat : n \in T
        BY <2>1, <2>2, Induct
  <2>4. ASSUME NEW n \in 1..(N + 1) PROVE o[n] = q[n]
    <3>1. n - 1 \in Nat /\ n - 1 <= N /\ (n - 1) + 1 = n
          BY <1>3
    <3>2. n - 1 \in T
          BY <2>3, <3>1
    <3> QED BY <3>1, <3>2 DEF T
  <2> QED BY <2>4
<1>6. Len(p) = Len(d) /\ Len(p) \in Nat /\ Len(d) \in Nat
  <2>1. q[N + 1] = Len(p) + 1 /\ o[N + 1] = Len(d) + 1
        BY <1>1, <1>2, <1>3 DEF Cuts
  <2>2. N + 1 \in 1..(N + 1)
        BY <1>3
  <2>3. Len(p) \in Nat /\ Len(d) \in Nat
        BY LenProperties
  <2> QED BY <1>5, <2>1, <2>2, <2>3
<1>7. ASSUME NEW i \in 1..Len(p) PROVE p[i] = d[i]
  <2> DEFINE S == {n \in 1..N : q[n] <= i}
  <2>1. q[1] = 1 /\ q[N + 1] = Len(p) + 1 /\ 1 \in 1..N
        BY <1>1, <1>3 DEF Cuts
  <2>2. Max(S) \in S /\ \A y \in S : y <= Max(S)
    <3>1. S \subseteq Nat /\ 1 \in S /\ \A x \in S : x <= N
          BY <1>3, <1>6, <2>1
    <3> HIDE DEF S
    <3> QED BY <1>3, <3>1, Maximum
  <2> DEFINE n == Max(S)
  <2>3. n \in 1..N /\ q[n] <= i
        BY <2>2
  <2>4. n + 1 \in 1..N => ~(q[n + 1] <= i)
    <3> HIDE DEF n
    <3>1. n + 1 \in 1..N /\ q[n + 1] <= i => n + 1 \in S
          OBVIOUS
    <3>2. ~(n + 1 <= n)
          BY <1>3, <2>3
    <3> QED BY <2>2, <3>1, <3>2 DEF n
  <2> HIDE DEF n, S
  <2>5. /\ o[n] = q[n] /\ q[n] \in Nat /\ q[n + 1] \in Nat
        /\ \A k \in (q[n] + 1)..(q[n + 1] - 1) : p[k] = d[k]
    <3>1. n \in 1..(N + 1)
          BY <1>3, <2>3
    <3> QED BY <1>4, <1>5, <2>3, <3>1
  <2>6. i < q[n + 1] /\ i \in Nat
    <3>1. i \in Nat /\ i < Len(p) + 1
          BY <1>6
    <3>2. n = N \/ n + 1 \in 1..N
          BY <1>3, <2>3
    <3> QED BY <2>1, <2>4, <2>5, <3>1, <3>2
  <2>7. CASE q[n] = i
    <3>1. p[q[n]] = Slash
          BY <1>1, <2>3, MarksIncrease
    <3>2. d[o[n]] = Slash
          BY <1>2, <1>3, <2>3, MarksIncrease
    <3> QED BY <2>5, <2>7, <3>1, <3>2
  <2>8. CASE q[n] # i
    <3>1. i \in (q[n] + 1)..(q[n + 1] - 1)
          BY <2>3, <2>5, <2>6, <2>8
    <3> QED BY <2>5, <3>1
  <2> QED BY <2>7, <2>8
<1> QED BY <1>6, <1>7, SeqEqual

\* The last segment is empty if and only if the path ends with a slash.
LEMMA LastSegment ==
  ASSUME NEW B, NEW p \in Seq(B), NEW M, NEW o, Cuts(p, M, o)
  PROVE  /\ Last(Segments(p)) = <<>> <=> Last(p) = Slash
         /\ Last(p) = Slash => o[M] = Len(p)
<1>1. M \in Nat \ {0} /\ Len(p) \in Nat /\ Len(Segments(p)) = M /\ DOMAIN p = 1..Len(p)
      BY SegmentsType, LenProperties
<1>2. M \in 1..M /\ o[M + 1] = Len(p) + 1
      BY <1>1 DEF Cuts
<1>3. /\ o[M] \in 1..Len(p) /\ p[o[M]] = Slash
      /\ \A i \in Marks(p) : i <= o[M] \/ o[M + 1] <= i
      BY <1>2, MarksIncrease
<1> DEFINE a == o[M] + 1  s == Segments(p)[M]
<1>4. s = SubSeq(p, a, o[M + 1] - 1)
      BY <1>2, SegmentIs
<1> HIDE DEF s
<1>5. s = SubSeq(p, a, Len(p)) /\ a \in 1..(Len(p) + 1) /\ a \in Nat /\ Len(p) \in 0..Len(p)
  <2>1. o[M + 1] - 1 = Len(p)
        BY <1>1, <1>2
  <2>2. o[M] \in Nat /\ 1 <= o[M] /\ o[M] <= Len(p)
        BY <1>1, <1>3
  <2>3. a \in 1..(Len(p) + 1) /\ a \in Nat
        BY <1>1, <2>2
  <2>4. s = SubSeq(p, a, Len(p))
        BY <1>4, <2>1
  <2>5. Len(p) \in 0..Len(p)
        BY <1>1
  <2> QED BY <2>3, <2>4, <2>5
<1>6. a = o[M] + 1 /\ o[M] \in Nat /\ 1 <= o[M] /\ o[M] <= Len(p)
      BY <1>1, <1>3
<1> HIDE DEF a
<1>7. s \in Seq(B) /\ Len(s) = IF a <= Len(p) THEN Len(p) - a + 1 ELSE 0
      BY <1>5, Cut
<1>8. s = <<>> <=> Len(s) = 0
      BY <1>7, EmptySeq
<1>9. s = <<>> <=> o[M] = Len(p)
  <2>1. a \in Nat /\ Len(p) \in Nat
        BY <1>1, <1>5
  <2>2. Len(s) = 0 <=> a > Len(p)
        BY <1>7, <2>1
  <2>3. a > Len(p) <=> o[M] = Len(p)
        BY <1>6, <2>1
  <2> QED BY <1>8, <2>2, <2>3
<1>10. p[Len(p)] = Slash => o[M] = Len(p)
  <2>1. Len(p) \in 1..Len(p)
        BY <1>1, <1>6
  <2>2. p[Len(p)] = Slash => Len(p) \in Marks(p)
        BY <1>1, <2>1 DEF Marks
  <2> QED BY <1>1, <1>2, <1>3, <1>6, <2>2
<1> QED BY <1>1, <1>3, <1>9, <1>10 DEF Last, s

\* What it means to be a prefix, position by position.
LEMMA PrefixIs ==
  ASSUME NEW B, NEW s \in Seq(B), NEW t \in Seq(B)
  PROVE  /\ IsPrefix(s, t) <=> Len(s) <= Len(t) /\ \A i \in 1..Len(s) : s[i] = t[i]
         /\ IsPrefix(s, t) <=> Len(s) <= Len(t) /\ s = SubSeq(t, 1, Len(s))
<1> DEFINE n == Len(s)  m == Len(t)
<1>1. n \in Nat /\ m \in Nat /\ 1 \in Int /\ n \in Int /\ DOMAIN s = 1..n
      BY LenProperties
<1> DEFINE u == SubSeq(s, 1, n)  v == SubSeq(t, 1, n)
<1>2. \A i \in 1..n : s[i] \in B
      BY ElementOfSeq
<1>3. u = s
  <2>1. /\ u \in Seq(B) /\ Len(u) = IF 1 <= n THEN n - 1 + 1 ELSE 0
        /\ \A i \in 1..(n - 1 + 1) : u[i] = s[1 + i - 1]
        BY <1>1, <1>2, SubSeqProperties
  <2> HIDE DEF u
  <2>2. n - 1 + 1 = n /\ \A i \in 1..n : 1 + i - 1 = i
        BY <1>1
  <2>3. Len(u) = n /\ \A i \in 1..n : u[i] = s[i]
        BY <1>1, <2>1, <2>2
  <2> QED BY <2>1, <2>3, SeqEqual
<1>4. ASSUME n <= m PROVE v \in Seq(B) /\ Len(v) = n /\ \A i \in 1..n : v[i] = t[i]
  <2>1. \A i \in 1..n : i \in 1..m
        BY <1>1, <1>4
  <2>2. \A i \in 1..n : t[i] \in B
        BY <2>1, ElementOfSeq
  <2>3. /\ v \in Seq(B) /\ Len(v) = IF 1 <= n THEN n - 1 + 1 ELSE 0
        /\ \A i \in 1..(n - 1 + 1) : v[i] = t[1 + i - 1]
        BY <1>1, <2>2, SubSeqProperties
  <2> HIDE DEF v
  <2>4. n - 1 + 1 = n /\ \A i \in 1..n : 1 + i - 1 = i
        BY <1>1
  <2> QED BY <1>1, <2>3, <2>4
<1> HIDE DEF u, v
<1>5. ASSUME n <= m PROVE u = v <=> \A i \in 1..n : s[i] = t[i]
  <2>1. ASSUME \A i \in 1..n : s[i] = t[i] PROVE s = v
    <3>1. \A i \in 1..Len(s) : s[i] = v[i]
          BY <1>4, <1>5, <2>1
    <3>2. v \in Seq(B) /\ Len(s) = Len(v)
          BY <1>4, <1>5
    <3> QED BY <3>1, <3>2, SeqEqual
  <2> QED BY <1>3, <1>4, <1>5, <2>1
<1>6. IsPrefix(s, t) <=> n <= m /\ u = v
      BY DEF IsPrefix, u, v
<1> QED BY <1>3, <1>5, <1>6 DEF v

\* One absolute path is a whole part of another, which ends or goes on with a slash after
\* it, if and only if its segments come first among those of the other.
LEMMA WithinIs ==
  ASSUME NEW B, NEW file \in Seq(B), NEW dir \in Seq(B), Absolute(file), Absolute(dir)
  PROVE  /\ IsPrefix(dir, file)
         /\ Len(file) = Len(dir) \/ file[Len(dir) + 1] = Slash
         <=> IsPrefix(Segments(dir), Segments(file))
<1>1. PICK N, q : Cuts(file, N, q)
      BY CutsExist
<1>2. PICK M, o : Cuts(dir, M, o)
      BY CutsExist
<1> DEFINE S == Segments(file)  T == Segments(dir)  k == Len(dir)
<1>3. /\ N \in Nat \ {0} /\ M \in Nat \ {0} /\ S \in Seq(Seq(B)) /\ T \in Seq(Seq(B))
      /\ Len(S) = N /\ Len(T) = M
      BY <1>1, <1>2, SegmentsType
<1>4. /\ k \in Nat \ {0} /\ Len(file) \in Nat /\ DOMAIN file = 1..Len(file)
      BY EmptySeq, LenProperties DEF Absolute
<1> HIDE DEF S, T
<1>5. /\ q[1] = 1 /\ q[N + 1] = Len(file) + 1
      /\ \A x \in Marks(file) : \E n \in 1..(N + 1) : q[n] = x
      /\ \A n \in 1..(N + 1) : q[n] \in Marks(file)
      BY <1>1 DEF Cuts, Enumerates
<1>6. ASSUME IsPrefix(dir, file), Len(file) = k \/ file[k + 1] = Slash PROVE IsPrefix(T, S)
  <2>1. k <= Len(file) /\ dir = SubSeq(file, 1, k)
        BY <1>6, PrefixIs
  <2>2. k + 1 \in Marks(file)
    <3>1. CASE Len(file) = k
          BY <3>1 DEF Marks
    <3>2. CASE Len(file) # k
      <4> HIDE DEF k
      <4>0. k \in Nat /\ Len(file) \in Nat /\ k <= Len(file) /\ Len(file) # k
            BY <1>4, <2>1, <3>2
      <4>1. k + 1 \in 1..Len(file)
            BY <4>0
      <4> QED BY <1>4, <1>6, <3>2, <4>1 DEF Marks
    <3> QED BY <3>1, <3>2
  <2>3. PICK j \in 1..(N + 1) : q[j] = k + 1
        BY <1>5, <2>2
  <2> DEFINE m == j - 1
  <2>4. j # 1
        BY <1>4, <1>5, <2>3
  <2>5. m \in 1..N /\ j = m + 1 /\ q[j] - 1 = k
        BY <1>3, <1>4, <2>3, <2>4
  <2> HIDE DEF m, k
  <2>6. Segments(SubSeq(file, 1, q[j] - 1)) = SubSeq(Segments(file), 1, m)
        BY <1>1, <2>5, CutShort
  <2>7. T = SubSeq(S, 1, m)
        BY <2>1, <2>5, <2>6 DEF S, T
  <2>8. 1 \in 1..(Len(S) + 1) /\ m \in 0..Len(S) /\ m \in Nat /\ 1 <= m /\ m <= N
        BY <1>3, <2>5
  <2>9. Len(SubSeq(S, 1, m)) = IF 1 <= m THEN m - 1 + 1 ELSE 0
        BY <1>3, <2>8, Cut
  <2>10. M = m
    <3>1. M = m - 1 + 1
          BY <1>3, <2>7, <2>8, <2>9
    <3> QED BY <2>8, <3>1
  <2> QED BY <1>3, <2>7, <2>8, <2>10, PrefixIs
<1>7. ASSUME IsPrefix(T, S)
      PROVE  IsPrefix(dir, file) /\ (Len(file) = k \/ file[k + 1] = Slash)
  <2>1. M <= N /\ T = SubSeq(S, 1, M)
        BY <1>3, <1>7, PrefixIs
  <2> DEFINE j == M + 1  z == q[j] - 1  e == SubSeq(file, 1, z)
  <2>2. M \in 1..N /\ j = M + 1 /\ j \in 1..(N + 1)
        BY <1>3, <2>1
  <2> HIDE DEF j
  <2>3. Segments(e) = SubSeq(S, 1, M) /\ z \in 1..Len(file)
        BY <1>1, <2>2, CutShort DEF S
  <2>4. e \in Seq(B) /\ Len(e) = z /\ e[1] = file[1]
    <3> HIDE DEF z
    <3>1. 1 \in 1..(Len(file) + 1) /\ z \in 0..Len(file) /\ z \in Nat /\ 1 <= z
          BY <1>4, <2>3
    <3>2. /\ e \in Seq(B) /\ Len(e) = IF 1 <= z THEN z - 1 + 1 ELSE 0
          /\ \A i \in 1..(z - 1 + 1) : e[i] = file[1 + i - 1]
          BY <3>1, Cut
    <3> HIDE DEF e
    <3>3. z - 1 + 1 = z /\ 1 \in 1..z /\ 1 + 1 - 1 = 1
          BY <3>1
    <3> QED BY <3>1, <3>2, <3>3
  <2>5. Absolute(e)
    <3>1. z \in Nat \ {0}
          BY <1>4, <2>3
    <3> HIDE DEF e, z
    <3>2. e # <<>>
          BY <2>4, <3>1
    <3> QED BY <2>4, <3>2 DEF Absolute
  <2> HIDE DEF e
  <2>6. e = dir
        BY <2>1, <2>3, <2>4, <2>5, SegmentsTell DEF T
  <2>7. k = z /\ q[j] = k + 1
    <3>1. q[j] \in Nat
      <4>1. \A x \in Marks(file) : x \in Nat
            BY <1>4 DEF Marks
      <4> QED BY <1>5, <2>2, <4>1
    <3> QED BY <2>4, <2>6, <3>1
  <2>8. k <= Len(file) /\ dir = SubSeq(file, 1, k)
    <3> HIDE DEF z, k
    <3>1. k <= Len(file)
          BY <1>4, <2>3, <2>7
    <3> QED BY <2>6, <2>7, <3>1 DEF e
  <2>9. IsPrefix(dir, file)
        BY <2>8, PrefixIs
  <2>10. k + 1 \in Marks(file)
        BY <1>5, <2>2, <2>7
  <2>11. Len(file) = k \/ file[k + 1] = Slash
    <3> HIDE DEF k
    <3>1. file[k + 1] = Slash \/ k + 1 = Len(file) + 1
          BY <2>10 DEF Marks
    <3>2. k \in Nat /\ Len(file) \in Nat
          BY <1>4
    <3> QED BY <3>1, <3>2
  <2> QED BY <2>9, <2>11
<1> QED BY <1>6, <1>7 DEF S, T

Bare(dir) == IF Last(Segments(dir)) = <<>> THEN Front(Segments(dir)) ELSE Segments(dir)

\* What isInDir finds byte by byte is what the segments say: an absolute path is in a
\* directory if the directory's segments come first among its own, where a slash at the
\* end of the directory does not count (isInDir, util.c:112-126).
THEOREM InDirIs ==
  ASSUME NEW B, NEW file \in Seq(B), NEW dir \in Seq(B), Absolute(file), dir # <<>>
  PROVE  isInDir(file, dir) <=> Absolute(dir) /\ IsPrefix(Bare(dir), Segments(file))
<1> DEFINE k == Len(dir)  l == Len(file)
<1>1. k \in Nat \ {0} /\ l \in Nat \ {0} /\ file[1] = Slash
      BY EmptySeq, LenProperties DEF Absolute
<1>2. /\ Front(dir) \in Seq(B) /\ Len(Front(dir)) = k - 1
      /\ \A i \in 1..(k - 1) : Front(dir)[i] = dir[i]
      BY FrontIs
<1>3. Absolute(dir) <=> dir[1] = Slash
      BY DEF Absolute
<1>4. Segments(file) \in Seq(Seq(B))
  <2>1. PICK N, q : Cuts(file, N, q)
        BY CutsExist
  <2> QED BY <2>1, SegmentsType
<1>5. ASSUME NEW bare \in Seq(B), bare = IF Last(dir) = Slash THEN Front(dir) ELSE dir
      PROVE  isInDir(file, dir) <=> /\ IsPrefix(bare, file)
                                    /\ Len(file) = Len(bare) \/ file[Len(bare) + 1] = Slash
      BY <1>5 DEF isInDir
<1> HIDE DEF k, l
<1>6. CASE ~Absolute(dir)
  <2> DEFINE bare == IF Last(dir) = Slash THEN Front(dir) ELSE dir
  <2>1. bare \in Seq(B)
        BY <1>2
  <2>2. Len(bare) >= 1 /\ Len(bare) \in Nat /\ bare[1] = dir[1]
    <3>1. CASE Last(dir) = Slash
      <4>1. k # 1
            BY <1>3, <1>6, <3>1 DEF Last, k
      <4>2. k - 1 >= 1 /\ k - 1 \in Nat /\ 1 \in 1..(k - 1)
            BY <1>1, <4>1
      <4>3. bare = Front(dir)
            BY <3>1
      <4> HIDE DEF bare
      <4> QED BY <1>2, <4>2, <4>3
    <3>2. CASE Last(dir) # Slash
      <4>1. bare = dir
            BY <3>2
      <4> HIDE DEF bare
      <4> QED BY <1>1, <4>1 DEF k
    <3> QED BY <3>1, <3>2
  <2> HIDE DEF bare
  <2>3. ~IsPrefix(bare, file)
    <3>1. 1 \in 1..Len(bare)
          BY <2>2
    <3> QED BY <1>1, <1>3, <1>6, <2>1, <2>2, <3>1, PrefixIs
  <2>4. ~isInDir(file, dir)
        BY <1>5, <2>1, <2>3 DEF bare
  <2> QED BY <1>6, <2>4
<1>7. CASE Absolute(dir)
  <2>1. PICK M, o : Cuts(dir, M, o)
        BY <1>7, CutsExist
  <2> DEFINE T == Segments(dir)
  <2>2. M \in Nat \ {0} /\ T \in Seq(Seq(B)) /\ Len(T) = M
        BY <2>1, SegmentsType
  <2>3. /\ Last(T) = <<>> <=> Last(dir) = Slash
        /\ Last(dir) = Slash => o[M] = k
        BY <2>1, LastSegment DEF k
  <2>4. o[1] = 1 /\ \A i \in 1..M : 1 < i => o[1] < o[i]
    <3>1. Enumerates(o, M + 1, Marks(dir)) /\ o[1] = 1
          BY <2>1 DEF Cuts
    <3>2. \A i \in 1..M : i \in 1..(M + 1) /\ 1 \in 1..(M + 1)
          BY <2>2
    <3> QED BY <3>1, <3>2 DEF Enumerates
  <2>5. CASE Last(dir) # Slash
    <3>1. Bare(dir) = T
          BY <2>3, <2>5 DEF Bare
    <3>2. isInDir(file, dir) <=> IsPrefix(dir, file) /\ (l = k \/ file[k + 1] = Slash)
          BY <1>5, <2>5 DEF k, l
    <3> QED BY <1>7, <3>1, <3>2, WithinIs DEF k, l
  <2>6. CASE Last(dir) = Slash
    <3> DEFINE bare == Front(dir)
    <3>1. Bare(dir) = Front(T)
          BY <2>3, <2>6 DEF Bare
    <3>2. isInDir(file, dir) <=> IsPrefix(bare, file) /\ (l = Len(bare) \/ file[Len(bare) + 1] = Slash)
          BY <1>2, <1>5, <2>6 DEF l
    <3>3. CASE k = 1
      <4>1. Len(bare) = 0
            BY <1>2, <3>3
      <4>2. IsPrefix(bare, file)
        <5>1. bare \in Seq(B) /\ Len(bare) <= Len(file) /\ 1..Len(bare) = {}
              BY <1>1, <1>2, <4>1 DEF l
        <5> QED BY <5>1, PrefixIs
      <4>3. isInDir(file, dir)
        <5>1. Len(bare) + 1 = 1
              BY <4>1
        <5> HIDE DEF bare
        <5> QED BY <1>1, <3>2, <4>2, <5>1
      <4>4. M = 1
        <5>1. M \in 1..M /\ ~(1 < 1)
              BY <2>2
        <5>2. ~(1 < M)
              BY <2>3, <2>4, <2>6, <3>3, <5>1
        <5> QED BY <2>2, <5>2
      <4> HIDE DEF T
      <4>5. Front(T) \in Seq(Seq(B)) /\ Len(Front(T)) = 0
        <5>1. T # <<>>
              BY <2>2, EmptySeq
        <5>2. Front(T) \in Seq(Seq(B)) /\ Len(Front(T)) = Len(T) - 1
              BY <2>2, <5>1, FrontIs
        <5> QED BY <2>2, <4>4, <5>2
      <4>6. IsPrefix(Front(T), Segments(file))
        <5>1. Len(Segments(file)) \in Nat
              BY <1>4, LenProperties
        <5>2. Len(Front(T)) <= Len(Segments(file)) /\ 1..Len(Front(T)) = {}
              BY <4>5, <5>1
        <5> QED BY <1>4, <4>5, <5>2, PrefixIs
      <4> QED BY <1>7, <3>1, <4>3, <4>6
    <3>4. CASE k # 1
      <4>1. PICK m \in 1..M : M = m + 1
        <5>1. M # 1
              BY <2>3, <2>4, <2>6, <3>4
        <5>2. M - 1 \in 1..M /\ M = (M - 1) + 1
              BY <2>2, <5>1
        <5> QED BY <5>2
      <4>2. Segments(SubSeq(dir, 1, o[M] - 1)) = SubSeq(T, 1, m)
        <5>1. ASSUME NEW j, j = m + 1
              PROVE  Segments(SubSeq(dir, 1, o[j] - 1)) = SubSeq(Segments(dir), 1, m)
              BY <2>1, <5>1, CutShort
        <5> QED BY <4>1, <5>1
      <4>3. Segments(bare) = Front(T)
        <5>1. SubSeq(dir, 1, o[M] - 1) = bare
              BY <2>3, <2>6 DEF Front, k
        <5>2. Len(T) - 1 = m
              BY <2>2, <4>1
        <5>3. SubSeq(T, 1, m) = Front(T)
              BY <5>2 DEF Front
        <5> QED BY <4>2, <5>1, <5>3
      <4>4. Absolute(bare)
        <5>1. k - 1 \in Nat \ {0} /\ 1 \in 1..(k - 1)
              BY <1>1, <3>4
        <5>2. Len(bare) = k - 1 /\ bare[1] = dir[1]
              BY <1>2, <5>1
        <5> HIDE DEF bare
        <5>3. bare # <<>>
              BY <5>1, <5>2
        <5> QED BY <1>3, <1>7, <5>2, <5>3 DEF Absolute
      <4>5. bare \in Seq(B)
            BY <1>2
      <4> HIDE DEF bare
      <4>6. IsPrefix(bare, file) /\ (Len(file) = Len(bare) \/ file[Len(bare) + 1] = Slash)
              <=> IsPrefix(Segments(bare), Segments(file))
            BY <4>4, <4>5, WithinIs
      <4> QED BY <1>7, <3>1, <3>2, <4>3, <4>6 DEF l
    <3> QED BY <3>3, <3>4
  <2> QED BY <2>5, <2>6
<1> QED BY <1>6, <1>7

\* What paths made of segments begin with.
LEMMA BegunAbsolute ==
  ASSUME NEW B, Slash \in B, NEW k \in Seq(Seq(B)), k # <<>>
  PROVE  Absolute(FlattenSeq(Begun(k)))
<1> DEFINE T == {s \in Seq(Seq(B)) : s # <<>> => Absolute(FlattenSeq(Begun(s)))}
<1>1. <<>> \in T
      OBVIOUS
<1>2. ASSUME NEW s \in Seq(Seq(B)), s \in T, NEW x \in Seq(B) PROVE Append(s, x) \in T
  <2> DEFINE F == FlattenSeq(Begun(s))  c == <<Slash>>  G == FlattenSeq(Begun(Append(s, x)))
  <2>1. G = F \o (c \o x) /\ F \in Seq(B)
        BY FlattenLast
  <2>2. Append(s, x) \in Seq(Seq(B))
        BY AppendProperties
  <2>3. c \in Seq(B) /\ Len(c) = 1 /\ c[1] = Slash
        OBVIOUS
  <2>4. s = <<>> => F = <<>>
        BY EmptyAreEmpty
  <2>5. s # <<>> => Absolute(F)
        BY <1>2
  <2> HIDE DEF F, c, G
  <2> DEFINE d == c \o x
  <2>6. d \in Seq(B) /\ Len(d) = Len(c) + Len(x) /\ d[1] = Slash
    <3>1. 1 \in 1..(Len(c) + Len(x)) /\ Len(x) \in Nat
          BY <2>3, LenProperties
    <3> HIDE DEF d
    <3>2. d \in Seq(B) /\ Len(d) = Len(c) + Len(x)
          BY <2>3, ConcatProperties DEF d
    <3>3. d[1] = IF 1 <= Len(c) THEN c[1] ELSE x[1 - Len(c)]
          BY <2>3, <3>1, ConcatProperties DEF d
    <3> QED BY <2>3, <3>2, <3>3
  <2>7. Len(d) >= 1 /\ Len(d) \in Nat
    <3>1. Len(x) \in Nat
          BY LenProperties
    <3> HIDE DEF d
    <3> QED BY <2>3, <2>6, <3>1
  <2> HIDE DEF d
  <2>8. G \in Seq(B) /\ Len(G) = Len(F) + Len(d) /\ Len(F) \in Nat
        BY <2>1, <2>6, ConcatProperties, LenProperties DEF d
  <2>9. G[1] = IF 1 <= Len(F) THEN F[1] ELSE d[1 - Len(F)]
    <3>1. 1 \in 1..(Len(F) + Len(d))
          BY <2>7, <2>8
    <3>2. G = F \o d /\ F \in Seq(B) /\ d \in Seq(B)
          BY <2>1, <2>6 DEF d
    <3> QED BY <3>1, <3>2, ConcatProperties
  <2>10. G[1] = Slash
    <3>1. CASE s = <<>>
      <4>1. Len(F) = 0
            BY <2>4, <3>1
      <4>2. ~(1 <= Len(F)) /\ 1 - Len(F) = 1
            BY <4>1
      <4> QED BY <2>6, <2>9, <4>2
    <3>2. CASE s # <<>>
      <4>1. F # <<>> /\ F[1] = Slash
            BY <2>5, <3>2 DEF Absolute
      <4>2. 1 <= Len(F)
            BY <2>1, <2>8, <4>1, EmptySeq
      <4> QED BY <2>9, <4>1, <4>2
    <3> QED BY <3>1, <3>2
  <2>11. G # <<>>
    <3>1. Len(G) # 0
          BY <2>7, <2>8
    <3> QED BY <3>1
  <2>12. Absolute(G)
        BY <2>10, <2>11 DEF Absolute
  <2> QED BY <2>2, <2>12 DEF G
<1> HIDE DEF T
<1>3. \A s \in Seq(Seq(B)) : s \in T
      BY <1>1, <1>2, InductSequence
<1> QED BY <1>3 DEF T

\* What the segments of an absolute path lead to is a path of the same bytes, absolute too.
LEMMA ResolvedType ==
  ASSUME NEW B, NEW path \in Seq(B), Absolute(path)
  PROVE  Resolved(path) \in Seq(B) /\ Absolute(Resolved(path))
<1>1. PICK M, o : Cuts(path, M, o)
      BY CutsExist
<1> DEFINE s == Segments(path)  n == Len(s)
           Left(i) == /\ s[i] \notin {Dot, DotDot}
                      /\ \A j \in i + 1..n - 1 : Depth(s, i, j) > 0
           S == {i \in 1..n - 1 : Left(i)} \cup {n}
           left == Picked(s, S)
<1>2. M \in Nat \ {0} /\ s \in Seq(Seq(B)) /\ n = M
      BY <1>1, SegmentsType
<1>3. Resolved(path) = FlattenSeq(Begun(left))
      BY DEF Resolved, Begun
<1> HIDE DEF s, Left
<1>4. S \subseteq 1..n /\ n \in S
      BY <1>2
<1>5. Slash \in B
  <2>1. path # <<>> /\ path[1] = Slash
        BY DEF Absolute
  <2>2. 1 \in 1..Len(path)
        BY <2>1, EmptySeq
  <2> QED BY <2>1, <2>2, ElementOfSeq
<1> HIDE DEF S
<1>6. left \in Seq(Seq(B)) /\ Len(left) = Cardinality(S)
      BY <1>2, <1>4, PickedType
<1>7. left # <<>>
  <2>1. IsFiniteSet(S)
    <3>1. IsFiniteSet(1..n)
          BY <1>2, FS_Interval
    <3> QED BY <1>4, <3>1, FS_Subset
  <2>2. Cardinality(S) # 0
        BY <1>4, <2>1, FS_EmptySet
  <2> HIDE DEF left
  <2> QED BY <1>6, <2>2
<1> HIDE DEF left
<1>8. Begun(left) \in Seq(Seq(B))
  <2>1. <<>> \in Seq(B)
        OBVIOUS
  <2> QED BY <1>5, <1>6, <2>1, EndedAppend
<1> QED BY <1>3, <1>5, <1>6, <1>7, <1>8, BegunAbsolute, FlattenType
=============================================================================
