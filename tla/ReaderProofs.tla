---------------------------- MODULE ReaderProofs ----------------------------
(***************************************************************************)
(* The reader of src/networking.c and src/headers.c: the header list is a  *)
(* map; a line is read as what it says; and dataHandler reads the lines    *)
(* that were sent, whatever pieces they come in.                           *)
(***************************************************************************)
EXTENDS HeaderReader, PathsProofs

-----------------------------------------------------------------------------
(* The header list is a map: no key is in it twice, however it is changed. *)

HeaderLists(K, V) == Seq([key : K, value : V])
DistinctKeys(h) == \A i, j \in 1 .. Len(h) : h[i].key = h[j].key => i = j
Keys(h) == {h[i].key : i \in 1 .. Len(h)}

\* The list as a function from its keys to their values.
AsMap(h) == [key \in Keys(h) |-> headers_get(h, key)]

-----------------------------------------------------------------------------
(* Where a key is found.                                                   *)

LEMMA FindsNone ==
  ASSUME NEW h, NEW key, key \notin Keys(h)
  PROVE  headers_find(h, key) = 0
<1>1. {i \in 1 .. Len(h) : h[i].key = key} = {}
      BY DEF Keys
<1> QED BY <1>1 DEF headers_find, SelectInSeq

LEMMA FindsIt ==
  ASSUME NEW h, Len(h) \in Nat, DistinctKeys(h), NEW i \in 1 .. Len(h)
  PROVE  headers_find(h, h[i].key) = i
<1>1. {j \in 1 .. Len(h) : h[j].key = h[i].key} = {i}
      BY DEF DistinctKeys
<1>2. Min({i}) = i
  <2>1. \A x : x \in {i} /\ (\A y \in {i} : x <= y) <=> x = i
        OBVIOUS
  <2> QED BY <2>1 DEF Min
<1>3. {i} # {}
      OBVIOUS
<1> QED BY <1>1, <1>2, <1>3 DEF headers_find, SelectInSeq

LEMMA GetsIt ==
  ASSUME NEW h, Len(h) \in Nat, DistinctKeys(h), NEW i \in 1 .. Len(h)
  PROVE  headers_get(h, h[i].key) = h[i].value
<1>1. headers_find(h, h[i].key) = i /\ i # 0
      BY FindsIt
<1> QED BY <1>1 DEF headers_get

LEMMA AddsAtEnd ==
  ASSUME NEW K, NEW V, NEW h \in HeaderLists(K, V), NEW key \in K, NEW value \in V,
         DistinctKeys(h), key \notin Keys(h)
  PROVE  LET g == headers_mod(h, key, value)
         IN /\ g \in HeaderLists(K, V) /\ Len(g) = Len(h) + 1
            /\ \A i \in 1 .. Len(h) : g[i] = h[i]
            /\ g[Len(h) + 1] = [key |-> key, value |-> value]
<1>1. headers_mod(h, key, value) = Append(h, [key |-> key, value |-> value])
      BY FindsNone DEF headers_mod
<1>2. [key |-> key, value |-> value] \in [key : K, value : V]
      OBVIOUS
<1> QED BY <1>1, <1>2, AppendProperties DEF HeaderLists

LEMMA Replaces ==
  ASSUME NEW K, NEW V, NEW h \in HeaderLists(K, V), NEW value \in V,
         DistinctKeys(h), NEW n \in 1 .. Len(h)
  PROVE  LET g == headers_mod(h, h[n].key, value)
         IN /\ g \in HeaderLists(K, V) /\ Len(g) = Len(h)
            /\ \A i \in 1 .. Len(h) :
                 g[i] = IF i = n THEN [key |-> h[n].key, value |-> value] ELSE h[i]
<1> DEFINE header == [key |-> h[n].key, value |-> value]
<1>1. Len(h) \in Nat /\ h[n] \in [key : K, value : V]
      BY ElementOfSeq, LenProperties DEF HeaderLists
<1>2. headers_find(h, h[n].key) = n /\ n # 0
      BY <1>1, FindsIt
<1>3. headers_mod(h, h[n].key, value) = [h EXCEPT ![n] = header]
      BY <1>2 DEF headers_mod
<1>4. header \in [key : K, value : V]
      BY <1>1
<1>5. [h EXCEPT ![n] = header] \in HeaderLists(K, V) /\ Len([h EXCEPT ![n] = header]) = Len(h)
      BY <1>1, <1>4, ExceptSeq DEF HeaderLists
<1>6. \A i \in 1 .. Len(h) : [h EXCEPT ![n] = header][i] = IF i = n THEN header ELSE h[i]
      BY <1>1, LenProperties DEF HeaderLists
<1> HIDE DEF header
<1>7. QED BY <1>3, <1>5, <1>6 DEF header

\* What follows the key moves up.
LEMMA Removes ==
  ASSUME NEW K, NEW V, NEW h \in HeaderLists(K, V),
         DistinctKeys(h), NEW n \in 1 .. Len(h)
  PROVE  LET g == headers_remove(h, h[n].key)
         IN /\ g \in HeaderLists(K, V) /\ Len(g) = Len(h) - 1
            /\ \A i \in 1 .. Len(h) - 1 : g[i] = IF i < n THEN h[i] ELSE h[i + 1]
<1> DEFINE S == [key : K, value : V]
           first == SubSeq(h, 1, n - 1)
           rest == SubSeq(h, n + 1, Len(h))
<1>1. Len(h) \in Nat /\ h \in Seq(S)
      BY LenProperties DEF HeaderLists
<1>2. headers_find(h, h[n].key) = n /\ n # 0
      BY <1>1, FindsIt
<1>3. headers_remove(h, h[n].key) = first \o rest
      BY <1>2 DEF headers_remove, RemoveAt
<1> HIDE DEF S
<1>4. /\ first \in Seq(S) /\ Len(first) = n - 1
      /\ \A i \in 1 .. n - 1 : first[i] = h[i]
  <2>1. /\ \A i \in 1 .. n - 1 : i \in 1 .. Len(h)
        /\ Len(first) = IF 1 <= n - 1 THEN (n - 1) - 1 + 1 ELSE 0
        /\ first \in Seq(S)
        /\ \A i \in 1 .. (n - 1) - 1 + 1 : first[i] = h[1 + i - 1]
        BY <1>1, SubSeqProperties
  <2> QED BY <1>1, <2>1
<1>5. /\ rest \in Seq(S) /\ Len(rest) = Len(h) - n
      /\ \A i \in 1 .. Len(h) - n : rest[i] = h[n + i]
  <2>1. /\ Len(rest) = IF n + 1 <= Len(h) THEN Len(h) - (n + 1) + 1 ELSE 0
        /\ rest \in Seq(S)
        /\ \A i \in 1 .. Len(h) - (n + 1) + 1 : rest[i] = h[(n + 1) + i - 1]
        BY <1>1, SubSeqProperties
  <2> HIDE DEF rest
  <2>2. Len(h) - (n + 1) + 1 = Len(h) - n /\ (n + 1 <= Len(h) <=> Len(h) - n # 0)
        BY <1>1
  <2>3. Len(rest) = Len(h) - n
        BY <1>1, <2>1, <2>2
  <2>4. \A i \in 1 .. Len(h) - n : (n + 1) + i - 1 = n + i
        BY <1>1
  <2> QED BY <2>1, <2>2, <2>3, <2>4
<1> HIDE DEF first, rest
<1>6. /\ first \o rest \in Seq(S) /\ Len(first \o rest) = Len(h) - 1
      /\ \A i \in 1 .. Len(h) - 1 :
           (first \o rest)[i] = IF i <= n - 1 THEN first[i] ELSE rest[i - (n - 1)]
  <2>1. /\ Len(first \o rest) = Len(first) + Len(rest) /\ first \o rest \in Seq(S)
        /\ \A i \in 1 .. Len(first) + Len(rest) :
             (first \o rest)[i] = IF i <= Len(first) THEN first[i] ELSE rest[i - Len(first)]
        BY <1>4, <1>5, ConcatProperties
  <2>2. Len(first) = n - 1 /\ Len(first) + Len(rest) = Len(h) - 1
        BY <1>1, <1>4, <1>5
  <2> QED BY <2>1, <2>2
<1>7. ASSUME NEW i \in 1 .. Len(h) - 1
      PROVE  (first \o rest)[i] = IF i < n THEN h[i] ELSE h[i + 1]
  <2>1. CASE i < n
        BY <1>1, <1>4, <1>6, <2>1
  <2>2. CASE ~(i < n)
    <3>1. i - (n - 1) \in 1 .. Len(h) - n /\ n + (i - (n - 1)) = i + 1
          BY <1>1, <2>2
    <3>2. (first \o rest)[i] = rest[i - (n - 1)]
          BY <1>1, <1>6, <2>2
    <3> QED BY <1>5, <2>2, <3>1, <3>2
  <2> QED BY <2>1, <2>2
<1> QED BY <1>3, <1>6, <1>7 DEF S, HeaderLists

-----------------------------------------------------------------------------
(* The list is a map.                                                      *)

\* headers_mod keeps the keys apart, and is an assignment to the map: the new
\* value is found under its key, and under any other what was there before.
THEOREM ModAssigns ==
  ASSUME NEW K, NEW V, NEW h \in HeaderLists(K, V), DistinctKeys(h),
         NEW key \in K, NEW value \in V
  PROVE  LET g == headers_mod(h, key, value)
         IN /\ g \in HeaderLists(K, V) /\ DistinctKeys(g)
            /\ AsMap(g) = [k \in Keys(h) \cup {key} |->
                             IF k = key THEN value ELSE AsMap(h)[k]]
<1> DEFINE g == headers_mod(h, key, value)
<1>1. Len(h) \in Nat
      BY LenProperties DEF HeaderLists
<1>2. CASE key \notin Keys(h)
  <2>1. /\ g \in HeaderLists(K, V) /\ Len(g) = Len(h) + 1
        /\ \A i \in 1 .. Len(h) : g[i] = h[i]
        /\ g[Len(h) + 1] = [key |-> key, value |-> value]
        BY <1>2, AddsAtEnd
  <2> HIDE DEF g
  <2>2. \A i \in 1 .. Len(h) : h[i].key # key /\ g[i].key # key
        BY <1>2, <2>1 DEF Keys
  <2>3. g[Len(h) + 1].key = key /\ g[Len(h) + 1].value = value
        BY <2>1
  <2>4. 1 .. Len(g) = 1 .. Len(h) \cup {Len(h) + 1}
        BY <1>1, <2>1
  <2>5. DistinctKeys(g)
        BY <2>1, <2>2, <2>3, <2>4 DEF DistinctKeys
  <2>6. Keys(g) = Keys(h) \cup {key}
        BY <2>1, <2>3, <2>4 DEF Keys
  <2>7. Len(g) \in Nat /\ headers_get(g, key) = value
    <3>1. Len(g) \in Nat /\ Len(h) + 1 \in 1 .. Len(g)
          BY <1>1, <2>1
    <3> QED BY <3>1, <2>3, <2>5, GetsIt
  <2>8. ASSUME NEW k \in Keys(h) PROVE headers_get(g, k) = headers_get(h, k) /\ k # key
    <3>1. PICK i \in 1 .. Len(h) : k = h[i].key
          BY DEF Keys
    <3>2. i \in 1 .. Len(g) /\ g[i] = h[i]
          BY <2>1, <2>4
    <3>3. headers_get(g, g[i].key) = g[i].value
          BY <2>5, <2>7, <3>2, GetsIt
    <3>4. headers_get(h, h[i].key) = h[i].value
          BY <1>1, GetsIt
    <3> QED BY <1>2, <3>1, <3>2, <3>3, <3>4
  <2>9. AsMap(g) = [k \in Keys(h) \cup {key} |-> IF k = key THEN value ELSE AsMap(h)[k]]
        BY <2>6, <2>7, <2>8 DEF AsMap
  <2> QED BY <2>1, <2>5, <2>9 DEF g
<1>3. CASE key \in Keys(h)
  <2>1. PICK n \in 1 .. Len(h) : key = h[n].key
        BY <1>3 DEF Keys
  <2>2. /\ g \in HeaderLists(K, V) /\ Len(g) = Len(h)
        /\ \A i \in 1 .. Len(h) :
             g[i] = IF i = n THEN [key |-> key, value |-> value] ELSE h[i]
        BY <2>1, Replaces
  <2> HIDE DEF g
  <2>3. \A i \in 1 .. Len(h) : g[i].key = h[i].key
        BY <2>1, <2>2
  <2>4. DistinctKeys(g) /\ Keys(g) = Keys(h)
        BY <2>2, <2>3 DEF DistinctKeys, Keys
  <2>5. ASSUME NEW k \in Keys(h)
        PROVE  headers_get(g, k) = IF k = key THEN value ELSE headers_get(h, k)
    <3>1. PICK i \in 1 .. Len(h) : k = h[i].key
          BY DEF Keys
    <3>2. headers_get(g, g[i].key) = g[i].value
          BY <1>1, <2>2, <2>4, GetsIt
    <3>3. headers_get(h, h[i].key) = h[i].value
          BY <1>1, GetsIt
    <3>4. k = key <=> i = n
          BY <2>1, <3>1 DEF DistinctKeys
    <3>5. g[i] = IF i = n THEN [key |-> key, value |-> value] ELSE h[i]
          BY <2>2
    <3> QED BY <2>3, <3>1, <3>2, <3>3, <3>4, <3>5
  <2>6. Keys(h) \cup {key} = Keys(h)
        BY <1>3
  <2>7. AsMap(g) = [k \in Keys(h) |-> IF k = key THEN value ELSE AsMap(h)[k]]
        BY <2>4, <2>5 DEF AsMap
  <2> QED BY <2>2, <2>4, <2>6, <2>7 DEF g
<1> QED BY <1>2, <1>3

\* headers_remove takes a key out of the map, and nothing else, although every
\* header behind it moves.
THEOREM RemoveTakesOut ==
  ASSUME NEW K, NEW V, NEW h \in HeaderLists(K, V), DistinctKeys(h), NEW key
  PROVE  LET g == headers_remove(h, key)
         IN /\ g \in HeaderLists(K, V) /\ DistinctKeys(g)
            /\ AsMap(g) = [k \in Keys(h) \ {key} |-> AsMap(h)[k]]
            /\ headers_get(g, key) = NULL
<1> DEFINE g == headers_remove(h, key)
<1>1. Len(h) \in Nat
      BY LenProperties DEF HeaderLists
<1>2. CASE key \notin Keys(h)
  <2>1. g = h /\ headers_get(h, key) = NULL
        BY <1>2, FindsNone DEF headers_remove, headers_get
  <2>2. Keys(h) \ {key} = Keys(h)
        BY <1>2
  <2> QED BY <2>1, <2>2 DEF AsMap
<1>3. CASE key \in Keys(h)
  <2>1. PICK n \in 1 .. Len(h) : key = h[n].key
        BY <1>3 DEF Keys
  <2>2. /\ g \in HeaderLists(K, V) /\ Len(g) = Len(h) - 1
        /\ \A i \in 1 .. Len(h) - 1 : g[i] = IF i < n THEN h[i] ELSE h[i + 1]
        BY <2>1, Removes
  <2> HIDE DEF g
  <2> DEFINE at(i) == IF i < n THEN i ELSE i + 1
  <2>3. ASSUME NEW i \in 1 .. Len(g)
        PROVE  at(i) \in (1 .. Len(h)) \ {n} /\ g[i] = h[at(i)]
        BY <1>1, <2>2
  <2>4. ASSUME NEW j \in (1 .. Len(h)) \ {n} PROVE \E i \in 1 .. Len(g) : at(i) = j
    <3>1. CASE j < n
          BY <1>1, <2>2, <3>1
    <3>2. CASE n < j
      <4>1. j - 1 \in 1 .. Len(g) /\ at(j - 1) = j
            BY <1>1, <2>2, <3>2
      <4> QED BY <4>1
    <3> QED BY <1>1, <3>1, <3>2
  <2>5. \A i, j \in 1 .. Len(g) : at(i) = at(j) => i = j
        BY <1>1, <2>2
  <2> HIDE DEF at
  <2>6. DistinctKeys(g)
    <3> SUFFICES ASSUME NEW i \in 1 .. Len(g), NEW j \in 1 .. Len(g), g[i].key = g[j].key
                 PROVE  i = j
        BY DEF DistinctKeys
    <3>1. at(i) = at(j)
          BY <2>3 DEF DistinctKeys
    <3> QED BY <2>5, <3>1
  <2>7. Keys(g) = Keys(h) \ {key}
    <3>1. ASSUME NEW i \in 1 .. Len(g) PROVE g[i].key \in Keys(h) \ {key}
      <4>1. at(i) \in 1 .. Len(h) /\ at(i) # n /\ g[i].key = h[at(i)].key
            BY <2>3
      <4>2. h[at(i)].key # h[n].key
            BY <4>1 DEF DistinctKeys
      <4> QED BY <2>1, <4>1, <4>2 DEF Keys
    <3>2. ASSUME NEW k \in Keys(h) \ {key} PROVE k \in Keys(g)
      <4>1. PICK j \in (1 .. Len(h)) \ {n} : k = h[j].key
            BY <2>1 DEF Keys
      <4>2. PICK i \in 1 .. Len(g) : at(i) = j
            BY <2>4
      <4> QED BY <2>3, <4>1, <4>2 DEF Keys
    <3> QED BY <3>1, <3>2 DEF Keys
  <2>8. ASSUME NEW k \in Keys(h) \ {key} PROVE headers_get(g, k) = headers_get(h, k)
    <3>1. PICK i \in 1 .. Len(g) : k = g[i].key
          BY <2>7 DEF Keys
    <3>2. headers_get(g, g[i].key) = g[i].value
          BY <1>1, <2>2, <2>6, GetsIt
    <3>3. headers_get(h, h[at(i)].key) = h[at(i)].value
          BY <1>1, <2>3, GetsIt
    <3> QED BY <2>3, <3>1, <3>2, <3>3
  <2>9. AsMap(g) = [k \in Keys(h) \ {key} |-> AsMap(h)[k]]
        BY <2>7, <2>8 DEF AsMap
  <2>10. headers_get(g, key) = NULL
    <3>1. headers_find(g, key) = 0
          BY <2>7, FindsNone
    <3> QED BY <3>1 DEF headers_get
  <2> QED BY <2>2, <2>6, <2>9, <2>10 DEF g
<1> QED BY <1>2, <1>3

-----------------------------------------------------------------------------
(* Lines: what a byte adds to the lines read so far.                       *)

LastEnd(s) == Max(EndsOfLines(s) \cup {0})

\* c ends a line.
Closes(s, c) == s # <<>> /\ Last(s) = "CR" /\ c = "LF"

LEMMA EndsAreFinite ==
  ASSUME NEW B, NEW s \in Seq(B)
  PROVE  /\ Len(s) \in Nat /\ EndsOfLines(s) \subseteq 2..Len(s)
         /\ EndsOfLines(s) \subseteq Nat
         /\ IsFiniteSet(EndsOfLines(s))
<1>1. Len(s) \in Nat
      BY LenProperties
<1>2. EndsOfLines(s) \subseteq 2..Len(s)
      BY DEF EndsOfLines
<1>3. \A i \in EndsOfLines(s) : i \in Nat /\ i <= Len(s)
      BY <1>1, <1>2
<1>4. EndsOfLines(s) \in SUBSET Nat
      BY <1>3
<1>5. IsFiniteSet(EndsOfLines(s))
      BY <1>1, <1>3, <1>4, FS_BoundedSetOfNaturals
<1> QED BY <1>1, <1>2, <1>4, <1>5

LEMMA LastEndIs ==
  ASSUME NEW B, NEW s \in Seq(B)
  PROVE  /\ LastEnd(s) \in 0..Len(s)
         /\ LastEnd(s) \in EndsOfLines(s) \cup {0}
         /\ \A e \in EndsOfLines(s) : e <= LastEnd(s)
<1> DEFINE S == EndsOfLines(s) \cup {0}
<1>1. Len(s) \in Nat /\ EndsOfLines(s) \subseteq 2..Len(s)
      BY EndsAreFinite
<1>2. \A x \in S : x \in Nat /\ x <= Len(s)
      BY <1>1
<1>3. S \subseteq Nat /\ S # {}
      BY <1>2
<1>4. Max(S) \in S /\ \A y \in S : y <= Max(S)
  <2>1. \A x \in S : x <= Len(s)
        BY <1>2
  <2> HIDE DEF S
  <2> QED BY <1>1, <1>3, <2>1, Maximum
<1>5. Max(S) \in 0..Len(s)
  <2>1. Max(S) \in Nat /\ Max(S) <= Len(s)
        BY <1>2, <1>4
  <2> QED BY <1>1, <2>1
<1> QED BY <1>4, <1>5 DEF LastEnd

\* The open line is what follows the last line end.
LEMMA OpenLineIs ==
  ASSUME NEW B, NEW s \in Seq(B)
  PROVE  /\ OpenLine(s) \in Seq(B)
         /\ Len(OpenLine(s)) = Len(s) - LastEnd(s)
         /\ \A i \in 1..(Len(s) - LastEnd(s)) : OpenLine(s)[i] = s[LastEnd(s) + i]
<1> DEFINE e == LastEnd(s)
<1>1. Len(s) \in Nat /\ e \in 0..Len(s)
      BY LastEndIs, LenProperties
<1>2. OpenLine(s) = SubSeq(s, e + 1, Len(s))
      BY DEF OpenLine, LastEnd
<1> HIDE DEF e
<1>3. \A i \in (e + 1)..Len(s) : s[i] \in B
  <2>1. \A i \in (e + 1)..Len(s) : i \in 1..Len(s)
        BY <1>1
  <2> QED BY <2>1, ElementOfSeq
<1>4. /\ OpenLine(s) \in Seq(B)
      /\ Len(OpenLine(s)) = IF e + 1 <= Len(s) THEN Len(s) - (e + 1) + 1 ELSE 0
      /\ \A i \in 1..(Len(s) - (e + 1) + 1) : OpenLine(s)[i] = s[(e + 1) + i - 1]
      BY <1>1, <1>2, <1>3, SubSeqProperties
<1>5. Len(s) - (e + 1) + 1 = Len(s) - e /\ (e + 1 <= Len(s) <=> Len(s) - e # 0)
      BY <1>1
<1>6. \A i \in 1..(Len(s) - e) : (e + 1) + i - 1 = e + i
      BY <1>1
<1>7. Len(OpenLine(s)) = Len(s) - e
      BY <1>4, <1>5
<1> QED BY <1>4, <1>5, <1>6, <1>7 DEF e

\* A byte adds a line end if it closes a line, and none otherwise.
LEMMA EndsOfAppend ==
  ASSUME NEW B, NEW s \in Seq(B), NEW c \in B
  PROVE  EndsOfLines(Append(s, c)) =
           EndsOfLines(s) \cup (IF Closes(s, c) THEN {Len(s) + 1} ELSE {})
<1> DEFINE t == Append(s, c)
<1>1. /\ Len(s) \in Nat /\ Len(t) = Len(s) + 1
      /\ \A i \in 1..Len(s) : t[i] = s[i]
      /\ t[Len(s) + 1] = c
      BY AppendProperties, LenProperties
<1>2. s # <<>> <=> Len(s) # 0
      BY EmptySeq
<1> HIDE DEF t
<1>3. ASSUME NEW i \in 2..Len(s) PROVE i \in EndsOfLines(t) <=> i \in EndsOfLines(s)
  <2>1. i \in 2..Len(t) /\ i \in 1..Len(s) /\ i - 1 \in 1..Len(s)
        BY <1>1
  <2> QED BY <1>1, <2>1 DEF EndsOfLines
<1>4. Len(s) + 1 \in EndsOfLines(t) <=> Closes(s, c)
  <2>1. Len(s) + 1 \in 2..Len(t) <=> Len(s) # 0
        BY <1>1
  <2>2. Len(s) + 1 - 1 = Len(s) /\ (Len(s) # 0 => Len(s) \in 1..Len(s))
        BY <1>1
  <2>3. Len(s) # 0 => t[Len(s) + 1 - 1] = s[Len(s)]
        BY <1>1, <2>2
  <2> QED BY <1>1, <1>2, <2>1, <2>3 DEF EndsOfLines, Closes, Last
<1>5. \A i \in 2..Len(t) : i \in 2..Len(s) \/ i = Len(s) + 1
      BY <1>1
<1>6. EndsOfLines(t) \subseteq 2..Len(t) /\ EndsOfLines(s) \subseteq 2..Len(s)
      BY DEF EndsOfLines
<1>7. \A i : i \in EndsOfLines(t) <=> i \in EndsOfLines(s) \/ (Closes(s, c) /\ i = Len(s) + 1)
      BY <1>3, <1>4, <1>5, <1>6
<1> QED BY <1>7 DEF t

\* A byte that ends no line goes on with the open one.
LEMMA GoesOn ==
  ASSUME NEW B, NEW s \in Seq(B), NEW c \in B, ~Closes(s, c)
  PROVE  /\ OpenLine(Append(s, c)) = Append(OpenLine(s), c)
         /\ LinesOf(Append(s, c)) = LinesOf(s)
<1> DEFINE t == Append(s, c)
<1>1. /\ Len(s) \in Nat /\ Len(t) = Len(s) + 1 /\ t \in Seq(B)
      /\ \A i \in 1..Len(s) : t[i] = s[i]
      /\ t[Len(s) + 1] = c
      BY AppendProperties, LenProperties
<1>2. EndsOfLines(t) = EndsOfLines(s)
      BY EndsOfAppend
<1> HIDE DEF t
<1>3. LastEnd(t) = LastEnd(s) /\ LastEnd(s) \in 0..Len(s)
      BY <1>2, LastEndIs DEF LastEnd
<1>4. OpenLine(t) = Append(OpenLine(s), c)
  <2> DEFINE o == OpenLine(s)  p == OpenLine(t)  e == LastEnd(s)
  <2>1. /\ o \in Seq(B) /\ Len(o) = Len(s) - e
        /\ \A i \in 1..(Len(s) - e) : o[i] = s[e + i]
        BY OpenLineIs
  <2>2. /\ p \in Seq(B) /\ Len(p) = Len(s) + 1 - e
        /\ \A i \in 1..(Len(s) + 1 - e) : p[i] = t[e + i]
    <3>1. t \in Seq(B) /\ Len(t) = Len(s) + 1 /\ LastEnd(t) = e
          BY <1>1, <1>3
    <3>2. /\ p \in Seq(B) /\ Len(p) = Len(t) - LastEnd(t)
          /\ \A i \in 1..(Len(t) - LastEnd(t)) : p[i] = t[LastEnd(t) + i]
          BY <3>1, OpenLineIs
    <3>3. Len(t) - LastEnd(t) = Len(s) + 1 - e
          BY <1>1, <1>3, <3>1
    <3> HIDE DEF e, p
    <3> QED BY <3>1, <3>2, <3>3
  <2> HIDE DEF o, p, e
  <2>3. e \in 0..Len(s)
        BY <1>3 DEF e
  <2>4. /\ Append(o, c) \in Seq(B) /\ Len(Append(o, c)) = Len(o) + 1
        /\ \A i \in 1..Len(o) : Append(o, c)[i] = o[i]
        /\ Append(o, c)[Len(o) + 1] = c
        BY <2>1, AppendProperties
  <2>5. Len(p) = Len(Append(o, c))
        BY <1>1, <2>1, <2>2, <2>3, <2>4
  <2>6. ASSUME NEW i \in 1..Len(p) PROVE p[i] = Append(o, c)[i]
    <3>1. CASE i = Len(o) + 1
      <4>1. e + i = Len(s) + 1 /\ i \in 1..(Len(s) + 1 - e)
            BY <1>1, <2>1, <2>2, <2>3, <3>1
      <4> QED BY <1>1, <2>2, <2>4, <3>1, <4>1
    <3>2. CASE i # Len(o) + 1
      <4>1. i \in 1..Len(o) /\ i \in 1..(Len(s) - e) /\ i \in 1..(Len(s) + 1 - e) /\ e + i \in 1..Len(s)
            BY <1>1, <2>1, <2>2, <2>3, <3>2
      <4> QED BY <1>1, <2>1, <2>2, <2>4, <4>1
    <3> QED BY <3>1, <3>2
  <2>7. p = Append(o, c)
        BY <2>2, <2>4, <2>5, <2>6, SeqEqual
  <2> QED BY <2>7 DEF o, p
<1>5. LinesOf(t) = LinesOf(s)
  <2> DEFINE E == EndsOfLines(s)
             d == InOrder(E)
             C == Cardinality(E)
  <2>1. C \in Nat /\ Enumerates(d, C, E) /\ E \subseteq 2..Len(s)
        BY EndsAreFinite, InOrderEnumerates
  <2> DEFINE from(n) == IF n = 1 THEN 1 ELSE d[n - 1] + 1
  <2>2. LinesOf(s) = [n \in DOMAIN d |-> SubSeq(s, from(n), d[n] - 2)]
        BY DEF LinesOf
  <2>3. LinesOf(t) = [n \in DOMAIN d |-> SubSeq(t, from(n), d[n] - 2)]
        BY <1>2 DEF LinesOf
  <2> HIDE DEF d, C, E
  <2>4. DOMAIN d = 1..C /\ \A n \in 1..C : d[n] \in 2..Len(s)
        BY <2>1 DEF Enumerates
  <2>5. ASSUME NEW n \in 1..C PROVE from(n) \in Int /\ from(n) >= 1 /\ d[n] - 2 \in Int /\ d[n] - 2 <= Len(s)
    <3>1. CASE n = 1
          BY <1>1, <2>4, <3>1
    <3>2. CASE n # 1
      <4>1. n - 1 \in 1..C
            BY <2>1, <3>2
      <4>2. d[n - 1] \in 2..Len(s) /\ d[n] \in 2..Len(s)
            BY <2>4, <4>1
      <4> QED BY <1>1, <3>2, <4>2
    <3> QED BY <3>1, <3>2
  <2> HIDE DEF from
  <2>6. ASSUME NEW n \in 1..C PROVE SubSeq(s, from(n), d[n] - 2) = SubSeq(t, from(n), d[n] - 2)
    <3>1. \A i \in from(n)..(d[n] - 2) : i \in 1..Len(s)
          BY <1>1, <2>5
    <3>2. \A i \in from(n)..(d[n] - 2) : s[i] \in B /\ t[i] = s[i]
          BY <1>1, <3>1, ElementOfSeq
    <3> QED BY <2>5, <3>2, SameSubSeq
  <2> QED BY <2>2, <2>3, <2>4, <2>6
<1> QED BY <1>4, <1>5 DEF t

\* A line ends: the open one, without its CR.
LEMMA EndsIt ==
  ASSUME NEW B, NEW s \in Seq(B), NEW c \in B, Closes(s, c)
  PROVE  /\ OpenLine(s) # <<>> /\ Last(OpenLine(s)) = "CR"
         /\ OpenLine(Append(s, c)) = <<>>
         /\ LinesOf(Append(s, c)) = Append(LinesOf(s), Front(OpenLine(s)))
<1> DEFINE t == Append(s, c)
           E == EndsOfLines(s)
           L == Len(s)
           e == LastEnd(s)
<1>1. /\ L \in Nat /\ Len(t) = L + 1 /\ t \in Seq(B)
      /\ \A i \in 1..L : t[i] = s[i]
      /\ t[L + 1] = c
      BY AppendProperties, LenProperties
<1>2. EndsOfLines(t) = E \cup {L + 1}
      BY EndsOfAppend
<1>3. L # 0 /\ s[L] = "CR"
      BY EmptySeq DEF Closes, Last
<1>4. e \in 0..L /\ e \in E \cup {0} /\ E \subseteq 2..L
      BY LastEndIs, EndsAreFinite
<1>5. L \notin E
      BY <1>3 DEF EndsOfLines
<1>6. e < L
      BY <1>1, <1>3, <1>4, <1>5
<1>7. /\ OpenLine(s) \in Seq(B) /\ Len(OpenLine(s)) = L - e
      /\ \A i \in 1..(L - e) : OpenLine(s)[i] = s[e + i]
      BY OpenLineIs
<1>8. LastEnd(t) = L + 1
  <2>1. /\ \A y \in E \cup {L + 1} \cup {0} : y \in Nat /\ y <= L + 1
        BY <1>1, <1>4
  <2>2. E \cup {L + 1} \cup {0} \subseteq Nat
        BY <2>1
  <2>3. Max(E \cup {L + 1} \cup {0}) = L + 1
        BY <2>1, <2>2, MaxIs
  <2> QED BY <1>2, <2>3 DEF LastEnd
<1>9. OpenLine(t) = <<>>
  <2>1. Len(OpenLine(t)) = 0 /\ OpenLine(t) \in Seq(B)
    <3>1. Len(t) - LastEnd(t) = 0
          BY <1>1, <1>8
    <3> HIDE DEF t
    <3> QED BY <1>1, <3>1, OpenLineIs
  <2> QED BY <2>1, EmptySeq
<1>10. OpenLine(s) # <<>> /\ Last(OpenLine(s)) = "CR"
  <2>1. L - e \in 1..(L - e) /\ e + (L - e) = L /\ L - e # 0
        BY <1>1, <1>4, <1>6
  <2> HIDE DEF L, e
  <2> QED BY <1>3, <1>7, <2>1, EmptySeq DEF Last
<1>11. LinesOf(t) = Append(LinesOf(s), Front(OpenLine(s)))
  <2> DEFINE d == InOrder(E)
             C == Cardinality(E)
             f == [n \in 1..(C + 1) |-> IF n = C + 1 THEN L + 1 ELSE d[n]]
             from(g, n) == IF n = 1 THEN 1 ELSE g[n - 1] + 1
  <2>1. C \in Nat /\ Enumerates(d, C, E) /\ E \subseteq 2..L
        BY EndsAreFinite, InOrderEnumerates
  <2>2. LinesOf(s) = [n \in DOMAIN d |-> SubSeq(s, from(d, n), d[n] - 2)]
        BY DEF LinesOf
  <2>3. LinesOf(t) = [n \in DOMAIN InOrder(E \cup {L + 1}) |->
                        SubSeq(t, from(InOrder(E \cup {L + 1}), n), InOrder(E \cup {L + 1})[n] - 2)]
        BY <1>2 DEF LinesOf
  <2> HIDE DEF d, C, E, t, L
  <2>4. d \in [1..C -> E] /\ \A n \in 1..C : d[n] \in 2..L
        BY <2>1 DEF Enumerates
  <2>5. /\ f[C + 1] = L + 1 /\ \A n \in 1..C : f[n] = d[n]
        /\ \A n \in 1..(C + 1) : n \in 1..C \/ n = C + 1
    <3>1. C + 1 \in 1..(C + 1) /\ \A n \in 1..C : n \in 1..(C + 1) /\ n # C + 1
          BY <2>1
    <3>2. \A n \in 1..(C + 1) : n \in 1..C \/ n = C + 1
          BY <2>1
    <3> QED BY <3>1, <3>2
  <2>6. Enumerates(f, C + 1, E \cup {L + 1})
    <3>1. f \in [1..(C + 1) -> E \cup {L + 1}]
          BY <2>4, <2>5
    <3>2. ASSUME NEW i \in 1..(C + 1), NEW j \in 1..(C + 1), i < j PROVE f[i] < f[j]
      <4>1. i \in 1..C
            BY <2>1, <3>2
      <4>2. CASE j = C + 1
        <5>1. f[i] = d[i] /\ d[i] \in 2..L /\ f[j] = L + 1
              BY <2>4, <2>5, <4>1, <4>2
        <5> HIDE DEF f
        <5> QED BY <1>1, <5>1
      <4>3. CASE j # C + 1
        <5>1. j \in 1..C
              BY <2>5, <4>3
        <5> QED BY <2>1, <2>5, <3>2, <4>1, <5>1 DEF Enumerates
      <4> QED BY <4>2, <4>3
    <3>3. ASSUME NEW x \in E \cup {L + 1} PROVE \E n \in 1..(C + 1) : f[n] = x
      <4>1. CASE x = L + 1
        <5>1. C + 1 \in 1..(C + 1)
              BY <2>1
        <5> QED BY <2>5, <4>1, <5>1
      <4>2. CASE x # L + 1
        <5>1. PICK n \in 1..C : d[n] = x
              BY <2>1, <4>2 DEF Enumerates
        <5>2. n \in 1..(C + 1)
              BY <2>1
        <5> QED BY <2>5, <5>1, <5>2
      <4> QED BY <4>1, <4>2
    <3> HIDE DEF f
    <3> QED BY <3>1, <3>2, <3>3 DEF Enumerates
  <2>7. InOrder(E \cup {L + 1}) = f
    <3>1. C + 1 \in Nat /\ E \cup {L + 1} \subseteq Nat
          BY <1>1, <2>1
    <3> HIDE DEF f
    <3> QED BY <2>6, <3>1, InOrderIs
  <2>8. LinesOf(t) = [n \in 1..(C + 1) |-> SubSeq(t, from(f, n), f[n] - 2)]
    <3>1. DOMAIN f = 1..(C + 1)
          OBVIOUS
    <3> HIDE DEF f
    <3> QED BY <2>3, <2>7, <3>1
  <2>9. LinesOf(s) = [n \in 1..C |-> SubSeq(s, from(d, n), d[n] - 2)]
        BY <2>2, <2>4
  <2> HIDE DEF f
  <2>10. ASSUME NEW n \in 1..C
         PROVE  /\ SubSeq(t, from(f, n), f[n] - 2) = SubSeq(s, from(d, n), d[n] - 2)
                /\ SubSeq(s, from(d, n), d[n] - 2) \in Seq(B)
    <3>1. from(f, n) = from(d, n)
      <4>1. n # 1 => n - 1 \in 1..C
            BY <2>1
      <4> QED BY <2>5, <4>1
    <3>2. from(d, n) \in Int /\ from(d, n) >= 1 /\ d[n] - 2 \in Int /\ d[n] - 2 <= L
      <4>1. CASE n = 1
            BY <1>1, <2>4, <4>1
      <4>2. CASE n # 1
        <5>1. n - 1 \in 1..C
              BY <2>1, <4>2
        <5>2. d[n - 1] \in 2..L /\ d[n] \in 2..L
              BY <2>4, <5>1
        <5> QED BY <1>1, <4>2, <5>2
      <4> QED BY <4>1, <4>2
    <3> HIDE DEF from
    <3>3. \A i \in from(d, n)..(d[n] - 2) : i \in 1..L
          BY <1>1, <3>2
    <3>4. \A i \in from(d, n)..(d[n] - 2) : s[i] \in B /\ t[i] = s[i]
          BY <1>1, <3>3, ElementOfSeq DEF L
    <3>5. SubSeq(s, from(d, n), d[n] - 2) = SubSeq(t, from(d, n), d[n] - 2)
      <4> DEFINE x == from(d, n)  y == d[n] - 2
      <4>1. x \in Int /\ y \in Int /\ \A i \in x..y : s[i] \in B /\ t[i] = s[i]
            BY <3>2, <3>4
      <4> HIDE DEF x, y
      <4>2. SubSeq(s, x, y) = SubSeq(t, x, y)
            BY <4>1, SameSubSeq
      <4> QED BY <4>2 DEF x, y
    <3>6. SubSeq(s, from(d, n), d[n] - 2) \in Seq(B)
          BY <3>2, <3>4, SubSeqProperties
    <3> QED BY <2>5, <3>1, <3>5, <3>6
  <2>11. SubSeq(t, from(f, C + 1), f[C + 1] - 2) = Front(OpenLine(s))
    <3>1. from(f, C + 1) = e + 1
      <4>1. CASE C = 0
        <5>1. E = {}
              BY <2>1, <4>1 DEF Enumerates
        <5>2. e = 0
              BY <1>4, <5>1
        <5> HIDE DEF e
        <5> QED BY <4>1, <5>2
      <4>2. CASE C # 0
        <5>1. C \in 1..C /\ C + 1 - 1 = C /\ C + 1 # 1
              BY <2>1, <4>2
        <5>2. d[C] = e
          <6>1. d[C] \in E /\ d[C] \in Nat /\ d[C] # 0
                BY <2>4, <5>1
          <6>2. d[C] <= e
                BY <6>1, LastEndIs DEF E
          <6>3. e \in E
            <7>1. e # 0
                  BY <1>4, <6>1, <6>2
            <7> QED BY <1>4, <7>1
          <6>4. PICK k \in 1..C : d[k] = e
                BY <2>1, <6>3 DEF Enumerates
          <6>5. k = C \/ k < C
                BY <2>1
          <6>6. k < C => d[k] < d[C]
                BY <2>1, <5>1 DEF Enumerates
          <6> HIDE DEF e
          <6>7. e \in Nat
                BY <1>1, <1>4
          <6> QED BY <6>1, <6>2, <6>4, <6>5, <6>6, <6>7
        <5> HIDE DEF e
        <5> QED BY <2>5, <5>1, <5>2
      <4> QED BY <4>1, <4>2
    <3> HIDE DEF e, from
    <3>2. f[C + 1] - 2 = L - 1
          BY <1>1, <2>5
    <3> DEFINE a == SubSeq(t, e + 1, L - 1)  o == OpenLine(s)  b == SubSeq(o, 1, Len(o) - 1)
    <3>3. \A i \in (e + 1)..(L - 1) : i \in 1..L
          BY <1>1, <1>4
    <3>4. \A i \in (e + 1)..(L - 1) : s[i] \in B /\ t[i] \in B /\ t[i] = s[i]
      <4>1. \A i \in 1..L : s[i] \in B
            BY ElementOfSeq DEF L
      <4> QED BY <1>1, <3>3, <4>1
    <3>5. e + 1 \in Int /\ L - 1 \in Int /\ (L - 1) - (e + 1) + 1 = L - e - 1
          BY <1>1, <1>4
    <3>6. /\ a \in Seq(B) /\ Len(a) = IF e + 1 <= L - 1 THEN L - e - 1 ELSE 0
          /\ \A i \in 1..(L - e - 1) : a[i] = t[(e + 1) + i - 1]
          BY <3>4, <3>5, SubSeqProperties
    <3>7. Len(o) = L - e /\ \A i \in 1..(Len(o) - 1) : i \in 1..Len(o)
          BY <1>1, <1>4, <1>7
    <3>8. \A i \in 1..(Len(o) - 1) : o[i] \in B
          BY <1>7, <3>7, ElementOfSeq
    <3>9. /\ b \in Seq(B) /\ Len(b) = IF 1 <= Len(o) - 1 THEN (Len(o) - 1) - 1 + 1 ELSE 0
          /\ \A i \in 1..((Len(o) - 1) - 1 + 1) : b[i] = o[1 + i - 1]
      <4>1. 1 \in Int /\ Len(o) - 1 \in Int
            BY <1>1, <1>4, <3>7
      <4> HIDE DEF o
      <4> QED BY <3>8, <4>1, SubSeqProperties
    <3> HIDE DEF a, b
    <3>10. Len(a) = L - e - 1 /\ Len(b) = L - e - 1
      <4> HIDE DEF o
      <4> QED BY <1>1, <1>4, <1>6, <3>6, <3>7, <3>9 DEF e
    <3>11. ASSUME NEW i \in 1..Len(a) PROVE a[i] = b[i]
      <4>1. i \in 1..(L - e - 1) /\ i \in 1..(L - e) /\ (e + 1) + i - 1 = e + i /\ e + i \in 1..L /\ 1 + i - 1 = i
            BY <1>1, <1>4, <3>10
      <4>2. a[i] = t[e + i] /\ t[e + i] = s[e + i]
            BY <1>1, <3>6, <4>1
      <4>3. i \in 1..((Len(o) - 1) - 1 + 1)
            BY <1>1, <1>4, <3>7, <4>1
      <4>4. b[i] = o[i]
            BY <3>9, <4>1, <4>3
      <4>5. o[i] = s[e + i]
            BY <1>7, <4>1
      <4> QED BY <4>2, <4>4, <4>5
    <3>12. a = b
          BY <3>6, <3>9, <3>10, <3>11, SeqEqual
    <3> QED BY <3>1, <3>2, <3>12 DEF a, b, Front
  <2>12. Front(OpenLine(s)) \in Seq(B)
    <3>1. \A i \in 1..(Len(OpenLine(s)) - 1) : i \in 1..Len(OpenLine(s))
          BY <1>7
    <3>2. Len(OpenLine(s)) - 1 \in Int
      <4> QED BY <1>1, <1>4, <1>7 DEF L
    <3>3. \A i \in 1..(Len(OpenLine(s)) - 1) : OpenLine(s)[i] \in B
          BY <1>7, <3>1, ElementOfSeq
    <3> QED BY <3>2, <3>3, SubSeqProperties DEF Front
  <2> DEFINE A == LinesOf(s)  z == Front(OpenLine(s))
  <2>13. A \in Seq(Seq(B)) /\ Len(A) = C
    <3>1. A \in [1..C -> Seq(B)]
          BY <2>9, <2>10
    <3> HIDE DEF A
    <3> QED BY <2>1, <3>1
  <2>14. LinesOf(t) \in Seq(Seq(B)) /\ Len(LinesOf(t)) = C + 1
    <3>1. \A n \in 1..(C + 1) : SubSeq(t, from(f, n), f[n] - 2) \in Seq(B)
          BY <2>5, <2>10, <2>11, <2>12
    <3> HIDE DEF from
    <3>2. LinesOf(t) \in [1..(C + 1) -> Seq(B)]
          BY <2>8, <3>1
    <3> QED BY <2>1, <3>2
  <2> HIDE DEF from
  <2>15. ASSUME NEW n \in 1..(C + 1) PROVE LinesOf(t)[n] = IF n = C + 1 THEN z ELSE A[n]
    <3>1. CASE n = C + 1
          BY <2>8, <2>11, <3>1
    <3>2. CASE n # C + 1
      <4>1. n \in 1..C
            BY <2>5, <3>2
      <4> QED BY <2>8, <2>9, <2>10, <3>2, <4>1
    <3> QED BY <3>1, <3>2
  <2> HIDE DEF A, z
  <2>16. /\ Append(A, z) \in Seq(Seq(B)) /\ Len(Append(A, z)) = C + 1
         /\ \A n \in 1..C : Append(A, z)[n] = A[n]
         /\ Append(A, z)[C + 1] = z
    <3>1. z \in Seq(B)
          BY <2>12 DEF z
    <3> QED BY <2>13, <3>1, AppendProperties
  <2>17. \A n \in 1..(C + 1) : LinesOf(t)[n] = Append(A, z)[n]
        BY <2>5, <2>15, <2>16
  <2>18. LinesOf(t) = Append(A, z)
        BY <2>14, <2>16, <2>17, SeqEqual
  <2> QED BY <2>18 DEF A, z
<1> QED BY <1>9, <1>10, <1>11 DEF t

-----------------------------------------------------------------------------
(* Header lines.                                                           *)

LEMMA FrontLast ==
  ASSUME NEW B, NEW s \in Seq(B), s # <<>>
  PROVE  Front(s) \in Seq(B) /\ Last(s) \in B /\ Last(s) = s[Len(s)] /\ Len(s) \in Nat \ {0}
<1>1. Len(s) \in Nat \ {0} /\ s \in [1..Len(s) -> B]
      BY LenProperties, EmptySeq
<1>2. Front(s) \in Seq(B)
  <2>1. Front(s) = SubSeq(s, 1, Len(s) - 1)
        BY DEF Front
  <2>2. 1 \in 1..(Len(s) + 1) /\ Len(s) - 1 \in 0..Len(s)
        BY <1>1
  <2> QED BY <2>1, <2>2, Cut
<1>3. Last(s) = s[Len(s)]
      BY DEF Last
<1> QED BY <1>1, <1>2, <1>3

\* What Before and After are, if the first b is known.
LEMMA FirstIs ==
  ASSUME NEW B, NEW s \in Seq(B), NEW b, NEW i \in 1..Len(s),
         s[i] = b, \A j \in 1..(i - 1) : s[j] # b
  PROVE  /\ Contains(s, b) /\ First(s, b) = i
         /\ Before(s, b) = SubSeq(s, 1, i - 1) /\ After(s, b) = SubSeq(s, i + 1, Len(s))
<1> DEFINE I == {k \in 1..Len(s) : s[k] = b}
<1>1. Len(s) \in Nat
      BY LenProperties
<1>2. ASSUME NEW k \in I PROVE i <= k
  <2>1. k \in 1..Len(s) /\ k \notin 1..(i - 1)
        OBVIOUS
  <2> QED BY <1>1, <2>1
<1>3. I \subseteq Nat /\ i \in I
  <2>1. \A k \in 1..Len(s) : k \in Nat
        OBVIOUS
  <2> QED BY <2>1
<1>4. Min(I) = i
  <2> HIDE DEF I
  <2> QED BY <1>2, <1>3, MinIs
<1>5. First(s, b) = i
      BY <1>3, <1>4 DEF First, SelectInSeq
<1>6. Contains(s, b)
      BY DEF Contains
<1> QED BY <1>5, <1>6 DEF Before, After

LEMMA FirstExists ==
  ASSUME NEW B, NEW s \in Seq(B), NEW b, Contains(s, b)
  PROVE  \E i \in 1..Len(s) : s[i] = b /\ \A j \in 1..(i - 1) : s[j] # b
<1> DEFINE I == {k \in 1..Len(s) : s[k] = b}
<1>1. Len(s) \in Nat
      BY LenProperties
<1>2. I \subseteq Nat /\ I # {}
  <2>1. \A k \in 1..Len(s) : k \in Nat
        OBVIOUS
  <2> QED BY <2>1 DEF Contains
<1>3. PICK i \in I : \A k \in I : i <= k
      BY <1>2, Minimum
<1>4. ASSUME NEW j \in 1..(i - 1) PROVE s[j] # b
  <2>1. j \in 1..Len(s) /\ ~(i <= j)
        BY <1>1
  <2> QED BY <1>3, <2>1
<1> QED BY <1>4

\* What comes before the first b, and after it.
LEMMA BeforeIs ==
  ASSUME NEW B, NEW s \in Seq(B), NEW b
  PROVE  /\ Before(s, b) \in Seq(B) /\ After(s, b) \in Seq(B)
         /\ Len(Before(s, b)) \in 0..Len(s)
         /\ Before(s, b) = SubSeq(s, 1, Len(Before(s, b)))
         /\ \A i \in 1..Len(Before(s, b)) : s[i] # b /\ Before(s, b)[i] = s[i]
         /\ Contains(s, b) => /\ Len(Before(s, b)) < Len(s)
                              /\ s[Len(Before(s, b)) + 1] = b
                              /\ After(s, b) = SubSeq(s, Len(Before(s, b)) + 2, Len(s))
         /\ ~Contains(s, b) => Before(s, b) = s /\ After(s, b) = <<>>
<1>1. Len(s) \in Nat
      BY LenProperties
<1>2. CASE ~Contains(s, b)
  <2>1. Before(s, b) = s /\ After(s, b) = <<>>
        BY <1>2 DEF Before, After
  <2>2. s = SubSeq(s, 1, Len(s))
        BY SubSeqFull
  <2>3. \A i \in 1..Len(s) : s[i] # b
        BY <1>2 DEF Contains
  <2> QED BY <1>1, <1>2, <2>1, <2>2, <2>3
<1>3. CASE Contains(s, b)
  <2>1. PICK i \in 1..Len(s) : s[i] = b /\ \A j \in 1..(i - 1) : s[j] # b
        BY <1>3, FirstExists
  <2> DEFINE f == SubSeq(s, 1, i - 1)  a == SubSeq(s, i + 1, Len(s))
  <2>2. Before(s, b) = f /\ After(s, b) = a
        BY <2>1, FirstIs
  <2>3. 1 \in 1..(Len(s) + 1) /\ i - 1 \in 0..Len(s) /\ i + 1 \in 1..(Len(s) + 1) /\ Len(s) \in 0..Len(s)
        BY <1>1
  <2>4. a \in Seq(B)
        BY <2>3, Cut
  <2>5. /\ f \in Seq(B) /\ Len(f) = IF 1 <= i - 1 THEN i - 1 - 1 + 1 ELSE 0
        /\ \A k \in 1..(i - 1 - 1 + 1) : f[k] = s[1 + k - 1]
        BY <2>3, Cut
  <2> HIDE DEF f
  <2>6. Len(f) = i - 1
        BY <1>1, <2>5
  <2>7. \A k \in 1..(i - 1) : f[k] = s[k]
    <3>1. \A k \in 1..(i - 1) : k \in 1..(i - 1 - 1 + 1) /\ 1 + k - 1 = k
          BY <1>1
    <3> QED BY <2>5, <3>1
  <2>8. i - 1 + 1 = i /\ i - 1 + 2 = i + 1 /\ i - 1 < Len(s) /\ i - 1 \in 0..Len(s)
        BY <1>1
  <2>9. f = SubSeq(s, 1, i - 1)
        BY DEF f
  <2> HIDE DEF a
  <2>10. a = SubSeq(s, i - 1 + 2, Len(s)) /\ s[i - 1 + 1] = b
        BY <2>1, <2>8 DEF a
  <2> QED BY <1>3, <2>1, <2>2, <2>4, <2>5, <2>6, <2>7, <2>8, <2>9, <2>10
<1> QED BY <1>2, <1>3

LEMMA TrimmedType ==
  ASSUME NEW B, NEW v \in Seq(B)
  PROVE  Trimmed(v) \in Seq(B)
<1> DEFINE solid == {i \in DOMAIN v : v[i] # Blank}
<1>1. CASE solid = {}
      BY <1>1 DEF Trimmed
<1>2. CASE solid # {}
  <2>1. Len(v) \in Nat /\ DOMAIN v = 1..Len(v)
        BY LenProperties
  <2>2. \A i \in solid : i \in Nat /\ i <= Len(v) /\ i \in 1..Len(v)
        BY <2>1
  <2>3. solid \subseteq Nat
        BY <2>2
  <2>4. PICK a \in solid : \A y \in solid : a <= y
    <3> HIDE DEF solid
    <3> QED BY <1>2, <2>3, Minimum
  <2>5. Min(solid) = a
    <3> HIDE DEF solid
    <3> QED BY <2>3, <2>4, MinIs
  <2>6. Max(solid) \in solid
    <3>1. \A i \in solid : i <= Len(v)
          BY <2>2
    <3> HIDE DEF solid
    <3> QED BY <1>2, <2>1, <2>3, <3>1, Maximum
  <2>7. Min(solid) \in 1..(Len(v) + 1) /\ Max(solid) \in 0..Len(v)
    <3>1. Min(solid) \in 1..Len(v) /\ Max(solid) \in 1..Len(v)
          BY <2>2, <2>5, <2>6
    <3> HIDE DEF solid
    <3> QED BY <2>1, <3>1
  <2>8. SubSeq(v, Min(solid), Max(solid)) \in Seq(B)
        BY <2>7, Cut
  <2> QED BY <1>2, <2>8 DEF Trimmed
<1> QED BY <1>1, <1>2

\* Trimmed goes from the first to the last that is not blank.
LEMMA TrimmedIs ==
  ASSUME NEW B, NEW v \in Seq(B), NEW a \in 1..Len(v), NEW z \in 1..Len(v),
         v[a] # Blank, v[z] # Blank,
         \A i \in 1..Len(v) : v[i] # Blank => a <= i /\ i <= z
  PROVE  Trimmed(v) = SubSeq(v, a, z)
<1> DEFINE solid == {i \in DOMAIN v : v[i] # Blank}
<1>1. Len(v) \in Nat /\ DOMAIN v = 1..Len(v)
      BY LenProperties
<1>2. /\ \A i \in solid : i \in Nat /\ a <= i /\ i <= z
      /\ a \in solid /\ z \in solid
      BY <1>1
<1>3. solid \subseteq Nat /\ solid # {}
      BY <1>2
<1>4. Min(solid) = a /\ Max(solid) = z
  <2> HIDE DEF solid
  <2> QED BY <1>2, <1>3, MinIs, MaxIs
<1> QED BY <1>3, <1>4 DEF Trimmed

LEMMA TrimmedBlank ==
  ASSUME NEW B, NEW v \in Seq(B), \A i \in 1..Len(v) : v[i] = Blank
  PROVE  Trimmed(v) = v
<1>1. {i \in DOMAIN v : v[i] # Blank} = {}
      BY LenProperties
<1> QED BY <1>1 DEF Trimmed

\* A header line sets its key to its trimmed value, and nothing else.
LEMMA SetsExactly ==
  ASSUME NEW B, NEW line \in Seq(B), Contains(line, ":"), NEW key, NEW value
  PROVE  Sets(line, key, value) <=>
           key = Before(line, ":") /\ value = Trimmed(After(line, ":"))
<1> DEFINE L == Len(line)
<1>1. L \in Nat /\ DOMAIN line = 1..L
      BY LenProperties
<1>2. PICK i \in 1..L : line[i] = ":" /\ \A j \in 1..(i - 1) : line[j] # ":"
      BY FirstExists
<1> DEFINE v == SubSeq(line, i + 1, L)
<1>3. Before(line, ":") = SubSeq(line, 1, i - 1) /\ After(line, ":") = v
      BY <1>2, FirstIs
<1> HIDE DEF L
<1>4. i + 1 \in 1..(L + 1) /\ L \in 0..L /\ (i + 1 <= L => L - (i + 1) + 1 = L - i) /\ (~(i + 1 <= L) => L - i = 0)
      /\ L - (i + 1) + 1 = L - i /\ L - i \in Nat
      BY <1>1
<1>5. /\ v \in Seq(B) /\ Len(v) = L - i /\ DOMAIN v = 1..(L - i)
      /\ \A n \in 1..(L - i) : v[n] = line[i + n]
  <2>1. /\ v \in Seq(B) /\ Len(v) = IF i + 1 <= L THEN L - (i + 1) + 1 ELSE 0
        /\ DOMAIN v = 1..Len(v)
        /\ \A n \in 1..(L - (i + 1) + 1) : v[n] = line[i + 1 + n - 1]
    <3>1. i + 1 \in 1..(Len(line) + 1) /\ Len(line) \in 0..Len(line)
          BY <1>4 DEF L
    <3> QED BY <3>1, Cut DEF L
  <2> HIDE DEF v
  <2>2. Len(v) = L - i
        BY <1>4, <2>1
  <2>3. \A n \in 1..(L - i) : i + 1 + n - 1 = i + n
        BY <1>1
  <2> QED BY <1>4, <2>1, <2>2, <2>3
<1>6. \A m \in 1..(L + 1), n \in 0..L : ToSet(SubSeq(line, m, n)) = {line[k] : k \in m..n}
      BY Cut DEF L
<1>7. ASSUME NEW a \in 1..(L - i), NEW z \in 1..(L - i)
      PROVE  SubSeq(v, a, z) = SubSeq(line, i + a, i + z)
  <2>1. /\ i + 1 \in 1..L /\ L \in 1..L /\ a \in 1..(L - (i + 1) + 1) /\ z \in 1..(L - (i + 1) + 1)
        /\ i + 1 + a - 1 = i + a /\ i + 1 + z - 1 = i + z
        BY <1>1, <1>4
  <2>2. SubSeq(SubSeq(line, i + 1, L), a, z) = SubSeq(line, i + 1 + a - 1, i + 1 + z - 1)
        BY <2>1, SubSeqOfSubSeq DEF L
  <2> QED BY <2>1, <2>2 DEF v
<1> HIDE DEF v
<1>8. ASSUME Sets(line, key, value)
      PROVE  key = SubSeq(line, 1, i - 1) /\ value = Trimmed(v)
  <2>1. PICK p \in 1..L : /\ line[p] = ":" /\ key = SubSeq(line, 1, p - 1) /\ ":" \notin ToSet(key)
                          /\ \E j, k \in p..L :
                               /\ j <= k /\ value = SubSeq(line, j + 1, k)
                               /\ Blanks(SubSeq(line, p + 1, j)) /\ Blanks(SubSeq(line, k + 1, L))
                               /\ Solid(value) \/ (j = p /\ k = L /\ Blanks(value))
        BY <1>1, <1>8 DEF Sets, L
  <2>2. p = i
    <3>1. ToSet(SubSeq(line, 1, p - 1)) = {line[k] : k \in 1..(p - 1)}
      <4>1. 1 \in 1..(L + 1) /\ p - 1 \in 0..L
            BY <1>1
      <4> QED BY <1>6, <4>1
    <3>2. i \notin 1..(p - 1)
          BY <1>2, <2>1, <3>1
    <3>3. p \notin 1..(i - 1)
          BY <1>2, <2>1
    <3> QED BY <1>1, <3>2, <3>3
  <2>3. PICK j \in i..L, k \in i..L :
          /\ j <= k /\ value = SubSeq(line, j + 1, k)
          /\ Blanks(SubSeq(line, i + 1, j)) /\ Blanks(SubSeq(line, k + 1, L))
          /\ Solid(value) \/ (j = i /\ k = L /\ Blanks(value))
        BY <2>1, <2>2
  <2>4. j \in Nat /\ k \in Nat /\ i \in Nat /\ i <= j /\ k <= L /\ j <= L
        BY <1>1, <2>3
  <2>5. \A n \in (i + 1)..j : line[n] = Blank
    <3>1. i + 1 \in 1..(L + 1) /\ j \in 0..L
          BY <1>1, <2>4
    <3> QED BY <1>6, <2>3, <3>1 DEF Blanks
  <2>6. \A n \in (k + 1)..L : line[n] = Blank
    <3>1. k + 1 \in 1..(L + 1) /\ L \in 0..L
          BY <1>1, <2>4
    <3> QED BY <1>6, <2>3, <3>1 DEF Blanks
  <2>7. value = Trimmed(v)
    <3>1. CASE Solid(value)
      <4>1. j < k
        <5>1. CASE j = k
          <6>1. value = <<>>
                BY <2>3, <2>4, <5>1, SubSeqEmpty
          <6> QED BY <3>1, <6>1 DEF Solid
        <5> QED BY <2>3, <2>4, <5>1
      <4>2. j + 1 \in 1..L /\ k \in j + 1..L /\ j + 1 \in 1..(L + 1) /\ k \in 0..L
            BY <1>1, <2>4, <4>1
      <4>3. Head(value) = line[j + 1]
            BY <2>3, <4>2, HeadTailOfSubSeq DEF L
      <4>4. Last(value) = line[k]
        <5>1. /\ Len(value) = IF j + 1 <= k THEN k - (j + 1) + 1 ELSE 0
              /\ \A n \in 1..(k - (j + 1) + 1) : value[n] = line[(j + 1) + n - 1]
              BY <2>3, <4>2, Cut DEF L
        <5>2. k - (j + 1) + 1 \in 1..(k - (j + 1) + 1) /\ (j + 1) + (k - (j + 1) + 1) - 1 = k /\ j + 1 <= k
              BY <2>4, <4>1
        <5> QED BY <5>1, <5>2 DEF Last
      <4>5. line[j + 1] # Blank /\ line[k] # Blank
            BY <3>1, <4>3, <4>4 DEF Solid
      <4> DEFINE a == j + 1 - i  z == k - i
      <4>6. a \in 1..(L - i) /\ z \in 1..(L - i) /\ i + a = j + 1 /\ i + z = k
            BY <1>1, <2>4, <4>1
      <4>7. \A n \in 1..(L - i) : i + n \in (i + 1)..j \/ i + n \in (k + 1)..L \/ (a <= n /\ n <= z)
            BY <1>1, <2>4, <4>1
      <4> HIDE DEF a, z
      <4>8. \A n \in 1..Len(v) : v[n] # Blank => a <= n /\ n <= z
            BY <1>5, <2>5, <2>6, <4>7
      <4>9. v[a] # Blank /\ v[z] # Blank
            BY <1>5, <4>5, <4>6
      <4>10. Trimmed(v) = SubSeq(v, a, z)
            BY <1>5, <4>6, <4>8, <4>9, TrimmedIs
      <4>11. SubSeq(v, a, z) = SubSeq(line, j + 1, k)
        <5>1. SubSeq(v, a, z) = SubSeq(line, i + a, i + z)
              BY <1>7, <4>6
        <5> QED BY <4>6, <5>1
      <4> QED BY <2>3, <4>10, <4>11
    <3>2. CASE j = i /\ k = L /\ Blanks(value)
      <4>1. value = v
            BY <2>3, <3>2 DEF v
      <4>2. \A n \in 1..Len(v) : v[n] = Blank
            BY <1>5, <3>2, <4>1 DEF Blanks, ToSet
      <4> QED BY <1>5, <4>1, <4>2, TrimmedBlank
    <3> QED BY <2>3, <3>1, <3>2
  <2> QED BY <2>1, <2>2, <2>7
<1>9. ASSUME key = SubSeq(line, 1, i - 1), value = Trimmed(v)
      PROVE  Sets(line, key, value)
  <2>1. ":" \notin ToSet(key)
    <3>1. 1 \in 1..(L + 1) /\ i - 1 \in 0..L
          BY <1>1
    <3> QED BY <1>2, <1>6, <1>9, <3>1
  <2>2. ASSUME NEW m \in 1..(L + 1), NEW n \in 0..L, \A k \in m..n : line[k] = Blank
        PROVE  Blanks(SubSeq(line, m, n))
        BY <1>6, <2>2 DEF Blanks
  <2>3. \E j, k \in i..L :
          /\ j <= k /\ value = SubSeq(line, j + 1, k)
          /\ Blanks(SubSeq(line, i + 1, j)) /\ Blanks(SubSeq(line, k + 1, L))
          /\ Solid(value) \/ (j = i /\ k = L /\ Blanks(value))
    <3>1. CASE \A n \in 1..Len(v) : v[n] = Blank
      <4>1. value = SubSeq(line, i + 1, L)
            BY <1>5, <1>9, <3>1, TrimmedBlank DEF v
      <4>2. Blanks(SubSeq(line, i + 1, i)) /\ Blanks(SubSeq(line, L + 1, L))
        <5>1. /\ i + 1 \in 1..(L + 1) /\ i \in 0..L /\ \A k \in (i + 1)..i : line[k] = Blank
              /\ L + 1 \in 1..(L + 1) /\ L \in 0..L /\ \A k \in (L + 1)..L : line[k] = Blank
              BY <1>1
        <5> QED BY <2>2, <5>1
      <4>3. Blanks(value)
            BY <1>5, <3>1, <4>1 DEF Blanks, ToSet, v
      <4>4. i \in i..L /\ L \in i..L /\ i <= L
            BY <1>1
      <4> QED BY <4>1, <4>2, <4>3, <4>4
    <3>2. CASE \E n \in 1..Len(v) : v[n] # Blank
      <4> DEFINE S == {n \in 1..Len(v) : v[n] # Blank}
      <4>1. Len(v) \in Nat /\ S # {} /\ \A n \in S : n \in Nat /\ n \in 1..Len(v) /\ n <= Len(v)
            BY <1>4, <1>5, <3>2
      <4>2. S \subseteq Nat
            BY <4>1
      <4>3. PICK a \in S : \A y \in S : a <= y
        <5> HIDE DEF S
        <5> QED BY <4>1, <4>2, Minimum
      <4>4. PICK z \in S : \A y \in S : y <= z
        <5>1. \A n \in S : n <= Len(v)
              BY <4>1
        <5> HIDE DEF S
        <5>2. Max(S) \in S /\ \A y \in S : y <= Max(S)
              BY <4>1, <4>2, <5>1, Maximum
        <5> QED BY <5>2
      <4>5. a \in 1..(L - i) /\ z \in 1..(L - i) /\ v[a] # Blank /\ v[z] # Blank /\ a <= z
            BY <1>5, <4>3, <4>4
      <4>6. Trimmed(v) = SubSeq(v, a, z)
        <5>1. \A n \in 1..Len(v) : v[n] # Blank => a <= n /\ n <= z
              BY <4>3, <4>4
        <5> QED BY <1>5, <4>5, <5>1, TrimmedIs
      <4> DEFINE j == i + a - 1  k == i + z
      <4>7. /\ j \in i..L /\ k \in i..L /\ j <= k /\ j + 1 = i + a
            /\ i + 1 \in 1..(L + 1) /\ j \in 0..L /\ k + 1 \in 1..(L + 1) /\ L \in 0..L
            /\ j + 1 \in 1..L /\ k \in (j + 1)..L /\ j + 1 \in 1..(L + 1) /\ k \in 0..L
            BY <1>1, <4>5
      <4>8. value = SubSeq(line, j + 1, k)
        <5>1. SubSeq(v, a, z) = SubSeq(line, i + a, i + z)
              BY <1>7, <4>5
        <5> QED BY <1>9, <4>6, <4>7, <5>1
      <4>9. Blanks(SubSeq(line, i + 1, j))
        <5>1. ASSUME NEW n \in (i + 1)..j PROVE line[n] = Blank
          <6>1. n - i \in 1..(L - i) /\ ~(a <= n - i) /\ i + (n - i) = n
                BY <1>1, <4>5
          <6> QED BY <1>5, <4>3, <6>1
        <5> QED BY <2>2, <4>7, <5>1
      <4>10. Blanks(SubSeq(line, k + 1, L))
        <5>1. ASSUME NEW n \in (k + 1)..L PROVE line[n] = Blank
          <6>1. n - i \in 1..(L - i) /\ ~(n - i <= z) /\ i + (n - i) = n
                BY <1>1, <4>5
          <6> QED BY <1>5, <4>4, <6>1
        <5> QED BY <2>2, <4>7, <5>1
      <4>11. Solid(value)
        <5> HIDE DEF j, k
        <5>1. Head(value) = line[j + 1]
              BY <4>7, <4>8, HeadTailOfSubSeq DEF L
        <5>2. /\ Len(value) = IF j + 1 <= k THEN k - (j + 1) + 1 ELSE 0
              /\ \A n \in 1..(k - (j + 1) + 1) : value[n] = line[(j + 1) + n - 1]
              /\ value \in Seq(B)
          <6> DEFINE q == SubSeq(line, j + 1, k)
          <6>1. j + 1 \in 1..(Len(line) + 1) /\ k \in 0..Len(line)
                BY <4>7 DEF L
          <6>2. /\ Len(q) = IF j + 1 <= k THEN k - (j + 1) + 1 ELSE 0
                /\ \A n \in 1..(k - (j + 1) + 1) : q[n] = line[(j + 1) + n - 1]
                /\ q \in Seq(B)
                BY <6>1, Cut
          <6>3. value = q
                BY <4>8
          <6> HIDE DEF q
          <6> QED BY <6>2, <6>3
        <5>3. k - (j + 1) + 1 \in 1..(k - (j + 1) + 1) /\ (j + 1) + (k - (j + 1) + 1) - 1 = k /\ j + 1 <= k /\ k - (j + 1) + 1 # 0
              BY <1>1, <4>7
        <5>4. Last(value) = line[k] /\ value # <<>>
              BY <5>2, <5>3, EmptySeq DEF Last
        <5>5. line[j + 1] = v[a] /\ line[k] = v[z]
              BY <1>5, <4>5, <4>7 DEF k
        <5> QED BY <4>5, <5>1, <5>4, <5>5 DEF Solid
      <4> HIDE DEF j, k
      <4> QED BY <4>7, <4>8, <4>9, <4>10, <4>11
    <3> QED BY <3>1, <3>2
  <2> QED BY <1>1, <1>2, <1>9, <2>1, <2>3 DEF Sets, L
<1> QED BY <1>3, <1>8, <1>9

-----------------------------------------------------------------------------
(* Request lines.                                                          *)

Starts(line) == {i \in DOMAIN line : line[i] # Blank /\ (i = 1 \/ line[i - 1] = Blank)}
WordAt(line, i) == Before(SubSeq(line, i, Len(line)), Blank)

\* The three words of a request line, byte by byte: a, b..c and d.
ThreeWords(line, a, b, c, d) ==
  /\ line[a] \in Methods /\ line[d] \in Protocols
  /\ a + 1 < b /\ b <= c /\ c + 1 < d
  /\ \A k \in b..c : line[k] # Blank
  /\ \A k \in 1..Len(line) : k < a \/ (a < k /\ k < b) \/ (c < k /\ k < d) \/ d < k
                               => line[k] = Blank

\* The word that begins at i ends before a blank or at the end, and nowhere else.
LEMMA WordAtIs ==
  ASSUME NEW B, NEW line \in Seq(B), NEW i \in 1..Len(line), line[i] # Blank
  PROVE  \E e \in i..Len(line) :
           /\ WordAt(line, i) = SubSeq(line, i, e)
           /\ \A k \in i..e : line[k] # Blank
           /\ e = Len(line) \/ line[e + 1] = Blank
<1> DEFINE L == Len(line)  s == SubSeq(line, i, L)  w == Before(s, Blank)
<1>1. L \in Nat /\ i \in 1..(L + 1) /\ L \in 0..L /\ i <= L
      BY LenProperties
<1>2. /\ s \in Seq(B) /\ Len(s) = L - i + 1
      /\ \A k \in 1..(L - i + 1) : s[k] = line[i + k - 1]
      BY <1>1, Cut
<1> HIDE DEF L, s
<1>3. /\ Len(w) \in 0..Len(s)
      /\ w = SubSeq(s, 1, Len(w))
      /\ \A k \in 1..Len(w) : s[k] # Blank /\ w[k] = s[k]
      /\ Contains(s, Blank) => Len(w) < Len(s) /\ s[Len(w) + 1] = Blank
      /\ ~Contains(s, Blank) => w = s
  <2>1. s \in Seq(B)
        BY <1>2
  <2> QED BY <2>1, BeforeIs
<1> HIDE DEF w
<1>4. Len(w) # 0
  <2>1. 1 \in 1..(L - i + 1) /\ i + 1 - 1 = i /\ L - i + 1 # 0
        BY <1>1
  <2>2. s[1] # Blank
        BY <1>2, <2>1
  <2> QED BY <1>2, <1>3, <2>1, <2>2
<1> DEFINE e == i + Len(w) - 1
<1>5. e \in i..L /\ Len(w) \in 1..(L - i + 1) /\ Len(w) \in Nat
      BY <1>1, <1>2, <1>3, <1>4
<1>6. ASSUME NEW k \in i..e PROVE line[k] # Blank
  <2>1. k - i + 1 \in 1..Len(w) /\ k - i + 1 \in 1..(L - i + 1) /\ i + (k - i + 1) - 1 = k
        BY <1>1, <1>5
  <2> QED BY <1>2, <1>3, <2>1
<1>7. w = SubSeq(line, i, e)
  <2>1. i \in 1..L /\ L \in 1..L /\ 1 \in 1..(L - i + 1)
        BY <1>1
  <2>2. SubSeq(SubSeq(line, i, L), 1, Len(w)) = SubSeq(line, i + 1 - 1, i + Len(w) - 1)
        BY <1>5, <2>1, SubSeqOfSubSeq DEF L
  <2>3. i + 1 - 1 = i
        BY <1>1
  <2> QED BY <1>3, <2>2, <2>3 DEF s
<1>8. e = L \/ line[e + 1] = Blank
  <2>1. CASE Contains(s, Blank)
    <3>1. Len(w) + 1 \in 1..(L - i + 1) /\ i + (Len(w) + 1) - 1 = e + 1
          BY <1>1, <1>2, <1>3, <1>5, <2>1
    <3> QED BY <1>2, <1>3, <2>1, <3>1
  <2>2. CASE ~Contains(s, Blank)
    <3>1. Len(w) = L - i + 1
          BY <1>2, <1>3, <2>2
    <3> QED BY <1>1, <3>1
  <2> QED BY <2>1, <2>2
<1> HIDE DEF e
<1> QED BY <1>5, <1>6, <1>7, <1>8 DEF WordAt, w, s, L

\* The word that ends there is known by its end.
LEMMA WordIs ==
  ASSUME NEW B, NEW line \in Seq(B), NEW i \in 1..Len(line), NEW e \in i..Len(line),
         \A k \in i..e : line[k] # Blank, e = Len(line) \/ line[e + 1] = Blank
  PROVE  WordAt(line, i) = SubSeq(line, i, e)
<1>1. Len(line) \in Nat /\ i \in i..e /\ e <= Len(line)
      BY LenProperties
<1>2. PICK f \in i..Len(line) : /\ WordAt(line, i) = SubSeq(line, i, f)
                                /\ \A k \in i..f : line[k] # Blank
                                /\ f = Len(line) \/ line[f + 1] = Blank
      BY <1>1, WordAtIs
<1>3. ~(e < f)
  <2>1. e < f => e + 1 \in i..f /\ e # Len(line)
        BY <1>1
  <2> QED BY <1>2, <2>1
<1>4. ~(f < e)
  <2>1. f < e => f + 1 \in i..e /\ f # Len(line)
        BY <1>1
  <2> QED BY <1>2, <2>1
<1>5. e = f
      BY <1>1, <1>3, <1>4
<1> QED BY <1>2, <1>5

\* Whatever is not blank belongs to a word.
LEMMA StartExists ==
  ASSUME NEW B, NEW line \in Seq(B), NEW i \in 1..Len(line), line[i] # Blank
  PROVE  \E a \in Starts(line) : a <= i /\ \A k \in a..i : line[k] # Blank
<1> DEFINE S == {a \in 1..i : \A k \in a..i : line[k] # Blank}
<1>1. Len(line) \in Nat /\ DOMAIN line = 1..Len(line) /\ i \in Nat /\ i <= Len(line)
      BY LenProperties
<1>2. S \subseteq Nat /\ i \in S
  <2>1. i \in 1..i /\ \A k \in i..i : k = i
        BY <1>1
  <2>2. \A a \in 1..i : a \in Nat
        OBVIOUS
  <2> QED BY <2>1, <2>2
<1>3. PICK a \in S : \A y \in S : a <= y
      BY <1>2, Minimum
<1>4. a \in 1..i /\ a \in 1..Len(line) /\ a \in a..i /\ a <= i
      BY <1>1
<1>5. CASE a # 1 /\ line[a - 1] # Blank
  <2>1. a - 1 \in 1..i /\ ~(a <= a - 1)
        BY <1>1, <1>4, <1>5
  <2>2. ASSUME NEW k \in (a - 1)..i PROVE line[k] # Blank
    <3>1. k = a - 1 \/ k \in a..i
          BY <1>1, <1>4
    <3> QED BY <1>3, <1>5, <3>1
  <2>3. a - 1 \in S
        BY <2>1, <2>2
  <2> QED BY <1>3, <2>1, <2>3
<1>6. CASE a = 1 \/ line[a - 1] = Blank
  <2>1. a \in Starts(line)
        BY <1>1, <1>3, <1>4, <1>6 DEF Starts
  <2> QED BY <1>3, <1>4, <2>1
<1> QED BY <1>5, <1>6

\* Words, if the beginnings of the words are known in their order.
LEMMA WordsAre ==
  ASSUME NEW B, NEW line \in Seq(B), NEW N \in Nat, NEW f, Enumerates(f, N, Starts(line))
  PROVE  Words(line) = [n \in 1..N |-> WordAt(line, f[n])]
<1>1. Starts(line) \subseteq Nat
  <2>1. DOMAIN line = 1..Len(line)
        BY LenProperties
  <2> QED BY <2>1 DEF Starts
<1>2. InOrder(Starts(line)) = f
      BY <1>1, InOrderIs
<1>3. DOMAIN f = 1..N
      BY DEF Enumerates
<1>4. Words(line) = [n \in DOMAIN InOrder(Starts(line)) |-> WordAt(line, InOrder(Starts(line))[n])]
      BY DEF Words, Starts, WordAt
<1> QED BY <1>2, <1>3, <1>4

LEMMA WordsEnumerated ==
  ASSUME NEW B, NEW line \in Seq(B)
  PROVE  \E N \in Nat : \E f :
           /\ Enumerates(f, N, Starts(line))
           /\ Words(line) = [n \in 1..N |-> WordAt(line, f[n])]
<1>1. Len(line) \in Nat /\ DOMAIN line = 1..Len(line)
      BY LenProperties
<1>2. Starts(line) \in SUBSET Nat /\ \A i \in Starts(line) : i <= Len(line)
      BY <1>1 DEF Starts
<1>3. IsFiniteSet(Starts(line))
      BY <1>1, <1>2, FS_BoundedSetOfNaturals
<1>4. Cardinality(Starts(line)) \in Nat
      /\ Enumerates(InOrder(Starts(line)), Cardinality(Starts(line)), Starts(line))
      BY <1>2, <1>3, InOrderEnumerates
<1> QED BY <1>4, WordsAre

LEMMA SubSeqOne ==
  ASSUME NEW B, NEW s \in Seq(B), NEW i \in 1..Len(s)
  PROVE  SubSeq(s, i, i) = <<s[i]>>
<1>1. Len(s) \in Nat
      BY LenProperties
<1>2. i \in 1..(Len(s) + 1) /\ i \in 0..Len(s) /\ i - i + 1 = 1 /\ i <= i /\ 1 \in 1..1 /\ i + 1 - 1 = i
      BY <1>1
<1>3. SubSeq(s, i, i) \in Seq(B) /\ Len(SubSeq(s, i, i)) = 1 /\ SubSeq(s, i, i)[1] = s[i]
  <2>1. /\ SubSeq(s, i, i) \in Seq(B)
        /\ Len(SubSeq(s, i, i)) = IF i <= i THEN i - i + 1 ELSE 0
        /\ \A k \in 1..(i - i + 1) : SubSeq(s, i, i)[k] = s[i + k - 1]
        BY <1>2, Cut
  <2> QED BY <1>2, <2>1
<1> DEFINE t == SubSeq(s, i, i)  u == <<s[i]>>
<1>4. u \in Seq(B) /\ Len(u) = 1 /\ u[1] = s[i]
      BY ElementOfSeq
<1> HIDE DEF t, u
<1>5. t \in Seq(B) /\ Len(t) = 1 /\ \A k \in 1..Len(t) : t[k] = u[k]
      BY <1>3, <1>4 DEF t
<1>6. t = u
      BY <1>4, <1>5, SeqEqual
<1> QED BY <1>6 DEF t, u

\* A line with three words has them as its words.
LEMMA ThreeWordsAre ==
  ASSUME NEW B, NEW line \in Seq(B),
         NEW a \in 1..Len(line), NEW b \in 1..Len(line), NEW c \in 1..Len(line), NEW d \in 1..Len(line),
         ThreeWords(line, a, b, c, d)
  PROVE  /\ ~MetadataError(line)
         /\ Words(line)[1] = <<line[a]>> /\ Words(line)[2] = SubSeq(line, b, c)
         /\ Words(line)[3] = <<line[d]>>
<1>1. Len(line) \in Nat /\ DOMAIN line = 1..Len(line)
      BY LenProperties
<1>2. /\ a \in Nat /\ b \in Nat /\ c \in Nat /\ d \in Nat /\ a >= 1 /\ d <= Len(line)
      /\ a + 1 < b /\ b <= c /\ c + 1 < d
      BY <1>1 DEF ThreeWords
<1>3. line[a] # Blank /\ line[d] # Blank
      BY DEF ThreeWords, Methods, Protocols, Blank
<1>4. Starts(line) = {a, b, d}
  <2>1. ASSUME NEW i \in {a, b, d} PROVE i \in Starts(line)
    <3>1. line[i] # Blank
      <4>1. b \in b..c
            BY <1>2
      <4> QED BY <1>3, <4>1 DEF ThreeWords
    <3>2. i = 1 \/ line[i - 1] = Blank
      <4>1. i = 1 \/ i - 1 \in 1..Len(line)
            BY <1>1, <1>2
      <4>2. \/ i - 1 < a \/ (a < i - 1 /\ i - 1 < b) \/ (c < i - 1 /\ i - 1 < d)
            BY <1>2
      <4> QED BY <4>1, <4>2 DEF ThreeWords
    <3> QED BY <1>1, <3>1, <3>2 DEF Starts
  <2>2. ASSUME NEW i \in Starts(line) PROVE i \in {a, b, d}
    <3>1. i \in 1..Len(line) /\ line[i] # Blank /\ (i = 1 \/ line[i - 1] = Blank)
          BY <1>1 DEF Starts
    <3>2. ~(i < a \/ (a < i /\ i < b) \/ (c < i /\ i < d) \/ d < i)
          BY <3>1 DEF ThreeWords
    <3>3. i = a \/ i = b \/ i = d \/ (b < i /\ i <= c)
          BY <1>2, <3>1, <3>2
    <3>4. ~(b < i /\ i <= c)
      <4>1. b < i /\ i <= c => i - 1 \in b..c /\ i # 1
            BY <1>2, <3>1
      <4> QED BY <3>1, <4>1 DEF ThreeWords
    <3> QED BY <3>3, <3>4
  <2> QED BY <2>1, <2>2
<1> DEFINE f == <<a, b, d>>
<1>5. Enumerates(f, 3, Starts(line))
  <2>1. 1..3 = {1, 2, 3} /\ f[1] = a /\ f[2] = b /\ f[3] = d
        OBVIOUS
  <2>2. f \in [1..3 -> {a, b, d}]
        BY <2>1
  <2>3. \A i, j \in 1..3 : i < j => f[i] < f[j]
        BY <1>2, <2>1
  <2>4. \A x \in {a, b, d} : \E n \in 1..3 : f[n] = x
        BY <2>1
  <2> HIDE DEF f
  <2> QED BY <1>4, <2>2, <2>3, <2>4 DEF Enumerates
<1>6. Words(line) = [n \in 1..3 |-> WordAt(line, f[n])]
      BY <1>5, WordsAre
<1>7. /\ Len(Words(line)) = 3 /\ Words(line)[1] = WordAt(line, a)
      /\ Words(line)[2] = WordAt(line, b) /\ Words(line)[3] = WordAt(line, d)
  <2>1. 1..3 = {1, 2, 3} /\ f[1] = a /\ f[2] = b /\ f[3] = d
        OBVIOUS
  <2> HIDE DEF f
  <2>2. DOMAIN Words(line) = 1..3
        BY <1>6
  <2>4. Len(Words(line)) = 3
        BY <1>6
  <2> QED BY <1>6, <2>1, <2>4
<1>8. WordAt(line, a) = <<line[a]>>
  <2>1. a \in a..Len(line) /\ \A k \in a..a : k = a
        BY <1>1, <1>2
  <2>2. line[a + 1] = Blank
    <3>1. a + 1 \in 1..Len(line) /\ a < a + 1
          BY <1>1, <1>2
    <3> QED BY <1>2, <3>1 DEF ThreeWords
  <2>3. WordAt(line, a) = SubSeq(line, a, a)
        BY <1>3, <2>1, <2>2, WordIs
  <2> QED BY <2>3, SubSeqOne
<1>9. WordAt(line, d) = <<line[d]>>
  <2>1. d \in d..Len(line) /\ \A k \in d..d : k = d
        BY <1>1, <1>2
  <2>2. d = Len(line) \/ line[d + 1] = Blank
    <3>1. d # Len(line) => d + 1 \in 1..Len(line) /\ d < d + 1
      <4>1. \A n \in Nat : \A x \in 1..n : x # n => x + 1 \in 1..n /\ x < x + 1
            OBVIOUS
      <4> QED BY <1>1, <4>1
    <3>2. d + 1 \in 1..Len(line) /\ d < d + 1 => line[d + 1] = Blank
          BY DEF ThreeWords
    <3> QED BY <3>1, <3>2
  <2>3. WordAt(line, d) = SubSeq(line, d, d)
        BY <1>3, <2>1, <2>2, WordIs
  <2> QED BY <2>3, SubSeqOne
<1>10. WordAt(line, b) = SubSeq(line, b, c)
  <2>1. c \in b..Len(line)
        BY <1>1, <1>2
  <2>2. line[c + 1] = Blank
    <3>1. c + 1 \in 1..Len(line) /\ c < c + 1
          BY <1>1, <1>2
    <3> QED BY <1>2, <3>1 DEF ThreeWords
  <2> QED BY <2>1, <2>2, WordIs DEF ThreeWords
<1>11. line[a] \in Methods /\ line[d] \in Protocols
       BY DEF ThreeWords
<1> QED BY <1>7, <1>8, <1>9, <1>10, <1>11 DEF MetadataError

\* And a line that has three words of the right kind is made of them.
LEMMA HasThreeWords ==
  ASSUME NEW B, NEW line \in Seq(B), ~MetadataError(line)
  PROVE  \E a, b, c, d \in 1..Len(line) :
           ThreeWords(line, a, b, c, d)
<1> DEFINE L == Len(line)
<1>1. L \in Nat /\ DOMAIN line = 1..L
      BY LenProperties
<1>2. PICK N \in Nat : \E f : /\ Enumerates(f, N, Starts(line))
                              /\ Words(line) = [n \in 1..N |-> WordAt(line, f[n])]
      BY WordsEnumerated
<1>3. PICK f : /\ Enumerates(f, N, Starts(line))
               /\ Words(line) = [n \in 1..N |-> WordAt(line, f[n])]
      BY <1>2
<1>4. N = 3
  <2>1. Len(Words(line)) = 3
        BY DEF MetadataError
  <2> QED BY <1>3, <2>1
<1> DEFINE a == f[1]  b == f[2]  d == f[3]
<1>5. /\ Starts(line) = {a, b, d} /\ a < b /\ b < d
      /\ Words(line)[1] = WordAt(line, a) /\ Words(line)[2] = WordAt(line, b)
      /\ Words(line)[3] = WordAt(line, d)
  <2>1. 1..3 = {1, 2, 3}
        OBVIOUS
  <2>2. f[1] \in Starts(line) /\ f[2] \in Starts(line) /\ f[3] \in Starts(line)
        BY <1>3, <1>4, <2>1 DEF Enumerates
  <2>3. \A x \in Starts(line) : x = f[1] \/ x = f[2] \/ x = f[3]
        BY <1>3, <1>4, <2>1 DEF Enumerates
  <2>4. f[1] < f[2] /\ f[2] < f[3]
        BY <1>3, <1>4, <2>1 DEF Enumerates
  <2> QED BY <1>3, <1>4, <2>1, <2>2, <2>3, <2>4
<1> HIDE DEF a, b, d, L
<1>6. ASSUME NEW i \in {a, b, d}
      PROVE  i \in 1..L /\ line[i] # Blank /\ (i = 1 \/ line[i - 1] = Blank)
      BY <1>1, <1>5 DEF Starts
<1>7. ASSUME NEW i \in {a, b, d}, NEW x, x # Blank, WordAt(line, i) = <<x>>
      PROVE  line[i] = x /\ (i = L \/ line[i + 1] = Blank)
  <2>1. i \in 1..L /\ line[i] # Blank
        BY <1>6
  <2>2. PICK e \in i..L : /\ WordAt(line, i) = SubSeq(line, i, e)
                          /\ e = L \/ line[e + 1] = Blank
        BY <2>1, WordAtIs DEF L
  <2>3. i \in 1..(L + 1) /\ e \in 0..L /\ i <= e /\ e - i + 1 \in Nat
        BY <1>1, <2>1
  <2>4. /\ Len(SubSeq(line, i, e)) = IF i <= e THEN e - i + 1 ELSE 0
        /\ \A k \in 1..(e - i + 1) : SubSeq(line, i, e)[k] = line[i + k - 1]
    <3>1. i \in 1..(Len(line) + 1) /\ e \in 0..Len(line)
          BY <2>3 DEF L
    <3> QED BY <3>1, Cut
  <2>5. Len(SubSeq(line, i, e)) = 1 /\ SubSeq(line, i, e)[1] = x
    <3>1. SubSeq(line, i, e) = <<x>>
          BY <1>7, <2>2, Zenon
    <3>2. Len(<<x>>) = 1 /\ <<x>>[1] = x
          OBVIOUS
    <3> QED BY <3>1, <3>2, Zenon
  <2>6. e = i /\ 1 \in 1..(e - i + 1) /\ i + 1 - 1 = i
        BY <2>1, <2>3, <2>4, <2>5
  <2> QED BY <2>2, <2>4, <2>5, <2>6
<1>8. /\ line[a] \in Methods /\ line[d] \in Protocols
      /\ a = L \/ line[a + 1] = Blank
      /\ d = L \/ line[d + 1] = Blank
  <2>1. PICK m \in Methods : WordAt(line, a) = <<m>>
        BY <1>5 DEF MetadataError
  <2>2. PICK p \in Protocols : WordAt(line, d) = <<p>>
        BY <1>5 DEF MetadataError
  <2>3. m # Blank /\ p # Blank
        BY DEF Methods, Protocols, Blank
  <2> QED BY <1>7, <2>1, <2>2, <2>3
<1>9. PICK c \in b..L : /\ \A k \in b..c : line[k] # Blank
                        /\ c = L \/ line[c + 1] = Blank
  <2>1. b \in 1..L /\ line[b] # Blank
        BY <1>6
  <2> QED BY <2>1, WordAtIs DEF L
<1>10. /\ a \in 1..L /\ b \in 1..L /\ d \in 1..L /\ c \in 1..L
      /\ a \in Nat /\ b \in Nat /\ c \in Nat /\ d \in Nat /\ b <= c /\ c <= L /\ d <= L
  <2>1. a \in 1..L /\ b \in 1..L /\ d \in 1..L
        BY <1>6
  <2> QED BY <1>1, <2>1
<1>11. a + 1 < b
  <2>1. b # 1 /\ line[b - 1] = Blank
        BY <1>5, <1>6, <1>10
  <2>2. b - 1 # a
        BY <1>6, <2>1
  <2> QED BY <1>5, <1>10, <2>2
<1>12. c + 1 < d
  <2>1. d # 1 /\ line[d - 1] = Blank
        BY <1>5, <1>6, <1>10
  <2>2. d - 1 \notin b..c
        BY <1>9, <2>1
  <2> QED BY <1>5, <1>10, <2>2
<1>13. ASSUME NEW k \in 1..L, k < a \/ (a < k /\ k < b) \/ (c < k /\ k < d) \/ d < k
       PROVE  line[k] = Blank
  <2> SUFFICES ASSUME line[k] # Blank PROVE FALSE
      OBVIOUS
  <2>1. PICK s \in Starts(line) : s <= k /\ \A j \in s..k : line[j] # Blank
        BY StartExists DEF L
  <2>2. CASE s = a
    <3>1. a < k /\ a + 1 \in s..k /\ a # L
          BY <1>5, <1>10, <1>12, <1>13, <2>1, <2>2
    <3> QED BY <1>8, <2>1, <3>1
  <2>3. CASE s = b
    <3>1. c + 1 \in s..k /\ c # L
          BY <1>5, <1>10, <1>12, <1>13, <2>1, <2>3
    <3> QED BY <1>9, <2>1, <3>1
  <2>4. CASE s = d
    <3>1. d + 1 \in s..k /\ d # L
          BY <1>5, <1>10, <1>12, <1>13, <2>1, <2>4
    <3> QED BY <1>8, <2>1, <3>1
  <2> QED BY <1>5, <2>1, <2>2, <2>3, <2>4
<1>14. ThreeWords(line, a, b, c, d)
       BY <1>8, <1>9, <1>10, <1>11, <1>12, <1>13 DEF ThreeWords, L
<1> QED BY <1>10, <1>14 DEF L

\* The parts of a request line are its three words.
LEMMA InParts ==
  ASSUME NEW B, NEW line \in Seq(B), NEW x
  PROVE  x \in Parts(line) <=>
           \E a, b, c, d \in 1..Len(line) :
             /\ ThreeWords(line, a, b, c, d)
             /\ x = [method |-> line[a], target |-> SubSeq(line, b, c), protocol |-> line[d]]
<1> DEFINE L == Len(line)
           Positions(set) == {i \in DOMAIN line : line[i] \in set}
           Between(i, j) == SubSeq(line, i + 1, j - 1)
           Apart(i, j) == i < j /\ Between(i, j) # <<>> /\ Blanks(Between(i, j))
           Fits(a, b, c, d) == /\ Apart(a, b) /\ b <= c /\ Apart(c, d)
                               /\ Blank \notin ToSet(SubSeq(line, b, c))
                               /\ Blanks(Between(0, a)) /\ Blanks(Between(d, L + 1))
           Part(a, b, c, d) == [method |-> line[a], target |-> SubSeq(line, b, c), protocol |-> line[d]]
<1>1. L \in Nat /\ DOMAIN line = 1..L
      BY LenProperties
<1>2. x \in Parts(line) <=>
        \E a \in Positions(Methods), b \in DOMAIN line, c \in DOMAIN line, d \in Positions(Protocols) :
          Fits(a, b, c, d) /\ x = Part(a, b, c, d)
  <2> DEFINE Q == Positions(Methods) \X (DOMAIN line) \X (DOMAIN line) \X Positions(Protocols)
  <2>1. Parts(line) = {Part(q[1], q[2], q[3], q[4]) : q \in {q \in Q : Fits(q[1], q[2], q[3], q[4])}}
        BY DEF Parts
  <2>2. x \in Parts(line) <=> \E q \in Q : Fits(q[1], q[2], q[3], q[4]) /\ x = Part(q[1], q[2], q[3], q[4])
    <3> HIDE DEF Q, Fits, Part
    <3> QED BY <2>1
  <2>3. ASSUME NEW q \in Q
        PROVE  /\ q[1] \in Positions(Methods) /\ q[2] \in DOMAIN line /\ q[3] \in DOMAIN line
               /\ q[4] \in Positions(Protocols)
    <3> HIDE DEF Positions
    <3> QED OBVIOUS
  <2>4. ASSUME NEW a \in Positions(Methods), NEW b \in DOMAIN line, NEW c \in DOMAIN line,
               NEW d \in Positions(Protocols)
        PROVE  /\ <<a, b, c, d>> \in Q
               /\ <<a, b, c, d>>[1] = a /\ <<a, b, c, d>>[2] = b
               /\ <<a, b, c, d>>[3] = c /\ <<a, b, c, d>>[4] = d
    <3> HIDE DEF Positions
    <3> QED OBVIOUS
  <2> HIDE DEF Q, Fits, Part, Positions
  <2>5. ASSUME NEW a \in Positions(Methods), NEW b \in DOMAIN line, NEW c \in DOMAIN line,
               NEW d \in Positions(Protocols), Fits(a, b, c, d), x = Part(a, b, c, d)
        PROVE  \E q \in Q : Fits(q[1], q[2], q[3], q[4]) /\ x = Part(q[1], q[2], q[3], q[4])
    <3> DEFINE q == <<a, b, c, d>>
    <3>1. q \in Q /\ q[1] = a /\ q[2] = b /\ q[3] = c /\ q[4] = d
          BY <2>4
    <3> HIDE DEF q
    <3> QED BY <2>5, <3>1
  <2> QED BY <2>2, <2>3, <2>5
<1>3. \A m \in 1..(L + 1), n \in 0..L :
        /\ ToSet(SubSeq(line, m, n)) = {line[k] : k \in m..n}
        /\ SubSeq(line, m, n) # <<>> <=> m <= n
  <2> TAKE m \in 1..(L + 1), n \in 0..L
  <2>1. /\ SubSeq(line, m, n) \in Seq(B)
        /\ Len(SubSeq(line, m, n)) = IF m <= n THEN n - m + 1 ELSE 0
        /\ ToSet(SubSeq(line, m, n)) = {line[k] : k \in m..n}
        BY Cut
  <2>2. SubSeq(line, m, n) # <<>> <=> Len(SubSeq(line, m, n)) # 0
        BY <2>1, EmptySeq
  <2>3. m <= n => n - m + 1 # 0
        BY <1>1
  <2> QED BY <2>1, <2>2, <2>3
<1> HIDE DEF L
<1>4. ASSUME NEW m \in 1..(L + 1), NEW n \in 0..L
      PROVE  Blanks(SubSeq(line, m, n)) <=> \A k \in m..n : line[k] = Blank
  <2>1. ToSet(SubSeq(line, m, n)) = {line[k] : k \in m..n}
        BY <1>3
  <2> QED BY <2>1 DEF Blanks
<1>5. ASSUME NEW a \in 1..L, NEW b \in 1..L, NEW c \in 1..L, NEW d \in 1..L
      PROVE  Fits(a, b, c, d) <=>
               /\ a + 1 < b /\ b <= c /\ c + 1 < d
               /\ \A k \in b..c : line[k] # Blank
               /\ \A k \in 1..L : k < a \/ (a < k /\ k < b) \/ (c < k /\ k < d) \/ d < k
                                    => line[k] = Blank
  <2>1. /\ a \in Nat /\ b \in Nat /\ c \in Nat /\ d \in Nat
        /\ a <= L /\ b <= L /\ c <= L /\ d <= L /\ a >= 1 /\ b >= 1 /\ c >= 1 /\ d >= 1
        BY <1>1
  <2>2. /\ a + 1 \in 1..(L + 1) /\ b - 1 \in 0..L /\ c + 1 \in 1..(L + 1) /\ d - 1 \in 0..L
        /\ 0 + 1 \in 1..(L + 1) /\ a - 1 \in 0..L /\ d + 1 \in 1..(L + 1) /\ L + 1 - 1 \in 0..L
        /\ b \in 1..(L + 1) /\ c \in 0..L
        BY <1>1, <2>1
  <2>3. Apart(a, b) <=> a + 1 < b /\ \A k \in (a + 1)..(b - 1) : line[k] = Blank
    <3>1. Between(a, b) # <<>> <=> a + 1 <= b - 1
          BY <1>3, <2>2
    <3>2. Blanks(Between(a, b)) <=> \A k \in (a + 1)..(b - 1) : line[k] = Blank
          BY <1>4, <2>2
    <3>3. a < b /\ a + 1 <= b - 1 <=> a + 1 < b
          BY <2>1
    <3> HIDE DEF Between
    <3> QED BY <3>1, <3>2, <3>3
  <2>4. Apart(c, d) <=> c + 1 < d /\ \A k \in (c + 1)..(d - 1) : line[k] = Blank
    <3>1. Between(c, d) # <<>> <=> c + 1 <= d - 1
          BY <1>3, <2>2
    <3>2. Blanks(Between(c, d)) <=> \A k \in (c + 1)..(d - 1) : line[k] = Blank
          BY <1>4, <2>2
    <3>3. c < d /\ c + 1 <= d - 1 <=> c + 1 < d
          BY <2>1
    <3> HIDE DEF Between
    <3> QED BY <3>1, <3>2, <3>3
  <2>5. Blanks(Between(0, a)) <=> \A k \in (0 + 1)..(a - 1) : line[k] = Blank
        BY <1>4, <2>2
  <2>6. Blanks(Between(d, L + 1)) <=> \A k \in (d + 1)..(L + 1 - 1) : line[k] = Blank
    <3>1. d + 1 \in 1..(L + 1) /\ L \in 0..L /\ L + 1 - 1 = L
          BY <1>1, <2>2
    <3>2. Blanks(SubSeq(line, d + 1, L)) <=> \A k \in (d + 1)..L : line[k] = Blank
          BY <1>4, <3>1
    <3>3. Between(d, L + 1) = SubSeq(line, d + 1, L)
          BY <3>1
    <3> HIDE DEF Between
    <3> QED BY <3>1, <3>2, <3>3
  <2>7. Blank \notin ToSet(SubSeq(line, b, c)) <=> \A k \in b..c : line[k] # Blank
    <3>1. ToSet(SubSeq(line, b, c)) = {line[k] : k \in b..c}
          BY <1>3, <2>2
    <3> QED BY <3>1
  <2>8. \A k \in 1..L : /\ k < a <=> k \in (0 + 1)..(a - 1)
                        /\ a < k /\ k < b <=> k \in (a + 1)..(b - 1)
                        /\ c < k /\ k < d <=> k \in (c + 1)..(d - 1)
                        /\ d < k <=> k \in (d + 1)..(L + 1 - 1)
        BY <1>1, <2>1
  <2>9. /\ \A k \in (0 + 1)..(a - 1) : k \in 1..L
        /\ \A k \in (a + 1)..(b - 1) : k \in 1..L
        /\ \A k \in (c + 1)..(d - 1) : k \in 1..L
        /\ \A k \in (d + 1)..(L + 1 - 1) : k \in 1..L
        BY <1>1, <2>1
  <2> HIDE DEF Apart, Between
  <2> QED BY <2>3, <2>4, <2>5, <2>6, <2>7, <2>8, <2>9
<1> HIDE DEF Fits
<1>6. ASSUME NEW a \in 1..L, NEW b \in 1..L, NEW c \in 1..L, NEW d \in 1..L
      PROVE  ThreeWords(line, a, b, c, d) <=>
               a \in Positions(Methods) /\ d \in Positions(Protocols) /\ Fits(a, b, c, d)
  <2>1. a \in Positions(Methods) <=> line[a] \in Methods
        BY <1>1
  <2>2. d \in Positions(Protocols) <=> line[d] \in Protocols
        BY <1>1
  <2> HIDE DEF Positions
  <2>3. ThreeWords(line, a, b, c, d)
          <=> line[a] \in Methods /\ line[d] \in Protocols /\ Fits(a, b, c, d)
    <3>1. Fits(a, b, c, d) <=>
            /\ a + 1 < b /\ b <= c /\ c + 1 < d
            /\ \A k \in b..c : line[k] # Blank
            /\ \A k \in 1..L : k < a \/ (a < k /\ k < b) \/ (c < k /\ k < d) \/ d < k
                                 => line[k] = Blank
          BY <1>5
    <3> QED BY <3>1, Zenon DEF ThreeWords, L
  <2> QED BY <2>1, <2>2, <2>3
<1>7. \A set : Positions(set) \subseteq 1..L
      BY <1>1
<1> HIDE DEF Positions
<1> QED BY <1>1, <1>2, <1>6, <1>7 DEF L

\* The words of a request line are what Parts takes it apart into.
LEMMA PartsAreWords ==
  ASSUME NEW B, NEW line \in Seq(B)
  PROVE  /\ MetadataError(line) <=> Parts(line) = {}
         /\ \A part \in Parts(line) :
              part.target = Words(line)[2] /\ part.protocol = Words(line)[3][1]
<1>1. ASSUME NEW part \in Parts(line)
      PROVE  /\ ~MetadataError(line)
             /\ part.target = Words(line)[2] /\ part.protocol = Words(line)[3][1]
  <2>1. PICK a \in 1..Len(line), b \in 1..Len(line), c \in 1..Len(line), d \in 1..Len(line) :
          /\ ThreeWords(line, a, b, c, d)
          /\ part = [method |-> line[a], target |-> SubSeq(line, b, c), protocol |-> line[d]]
    <3>1. part \in Parts(line) <=>
            \E a, b, c, d \in 1..Len(line) :
              /\ ThreeWords(line, a, b, c, d)
              /\ part = [method |-> line[a], target |-> SubSeq(line, b, c), protocol |-> line[d]]
          BY InParts
    <3> QED BY <3>1
  <2>2. /\ ~MetadataError(line) /\ Words(line)[2] = SubSeq(line, b, c)
        /\ Words(line)[3] = <<line[d]>>
        BY <2>1, ThreeWordsAre
  <2>3. part.target = SubSeq(line, b, c) /\ part.protocol = line[d] /\ <<line[d]>>[1] = line[d]
        BY <2>1
  <2> QED BY <2>2, <2>3
<1>2. ASSUME ~MetadataError(line) PROVE Parts(line) # {}
  <2>1. PICK a \in 1..Len(line), b \in 1..Len(line), c \in 1..Len(line), d \in 1..Len(line) :
          ThreeWords(line, a, b, c, d)
        BY <1>2, HasThreeWords
  <2> DEFINE part == [method |-> line[a], target |-> SubSeq(line, b, c), protocol |-> line[d]]
  <2>2. part \in Parts(line)
    <3>1. \E p, q, r, s \in 1..Len(line) :
            /\ ThreeWords(line, p, q, r, s)
            /\ part = [method |-> line[p], target |-> SubSeq(line, q, r), protocol |-> line[s]]
          BY <2>1
    <3> HIDE DEF part
    <3> QED BY <3>1, InParts
  <2> QED BY <2>2
<1> QED BY <1>1, <1>2

\* What is known of the words of a request line.
LEMMA WordsOfRequest ==
  ASSUME NEW B, NEW line \in Seq(B), ~MetadataError(line)
  PROVE  Words(line)[2] \in Seq(B) /\ Words(line)[3][1] \in Protocols
<1>1. PICK a \in 1..Len(line), b \in 1..Len(line), c \in 1..Len(line), d \in 1..Len(line) :
        ThreeWords(line, a, b, c, d)
      BY HasThreeWords
<1>2. Words(line)[2] = SubSeq(line, b, c) /\ Words(line)[3] = <<line[d]>>
      BY <1>1, ThreeWordsAre
<1>3. Len(line) \in Nat
      BY LenProperties
<1>4. b \in 1..(Len(line) + 1) /\ c \in 0..Len(line)
      BY <1>3
<1>5. SubSeq(line, b, c) \in Seq(B)
      BY <1>4, Cut
<1>6. line[d] \in Protocols /\ <<line[d]>>[1] = line[d]
      BY <1>1 DEF ThreeWords
<1> QED BY <1>2, <1>5, <1>6

\* What stands in a part of a sequence.
LEMMA CutItems ==
  ASSUME NEW B, NEW s \in Seq(B)
  PROVE  \A m \in 1..(Len(s) + 1), n \in 0..Len(s) :
           ToSet(SubSeq(s, m, n)) = {s[i] : i \in m..n}
BY Cut

\* A target aims at what is cut out of it.
LEMMA AimsAtIt ==
  ASSUME NEW B, NEW target \in Seq(B), NEW resolved,
         Plain(Before(Before(target, "#"), "?")) =>
           resolved = Resolved(Before(Before(target, "#"), "?"))
  PROVE  Aims(target, resolved, After(Before(target, "#"), "?"))
<1> DEFINE T == Before(target, "#")  P == Before(T, "?")  Q == After(T, "?")
           L == Len(target)  k == Len(P)  l == Len(T)
<1>1. L \in Nat
      BY LenProperties
<1>2. /\ T \in Seq(B) /\ l \in 0..L /\ T = SubSeq(target, 1, l)
      /\ \A i \in 1..l : target[i] # "#" /\ T[i] = target[i]
      /\ Contains(target, "#") => l < L /\ target[l + 1] = "#"
      /\ ~Contains(target, "#") => T = target
      BY BeforeIs
<1> HIDE DEF T
<1>3. /\ P \in Seq(B) /\ Q \in Seq(B) /\ k \in 0..l /\ P = SubSeq(T, 1, k)
      /\ \A i \in 1..k : T[i] # "?" /\ P[i] = T[i]
      /\ Contains(T, "?") => k < l /\ T[k + 1] = "?" /\ Q = SubSeq(T, k + 2, l)
      /\ ~Contains(T, "?") => P = T /\ Q = <<>>
  <2>1. T \in Seq(B)
        BY <1>2
  <2> QED BY <2>1, BeforeIs
<1> HIDE DEF P, Q, L
<1>4. k \in Nat /\ l \in Nat /\ k <= l /\ l <= L /\ k \in 0..L
      BY <1>1, <1>2, <1>3
<1>5. \A i \in 1..k : i \in 1..l
      BY <1>4
<1>6. SubSeq(target, 1, k) = P
  <2>1. \A i \in 1..k : T[i] \in B /\ target[i] = T[i]
        BY <1>2, <1>5, ElementOfSeq
  <2>2. SubSeq(T, 1, k) = SubSeq(target, 1, k)
        BY <1>4, <2>1, SameSubSeq
  <2> QED BY <1>3, <2>2
<1>7. \A m \in 1..(L + 1), n \in 0..L :
        ToSet(SubSeq(target, m, n)) = {target[i] : i \in m..n}
      BY CutItems DEF L
<1>8. {"?", "#"} \cap ToSet(SubSeq(target, 1, k)) = {}
  <2>1. 1 \in 1..(L + 1)
        BY <1>1
  <2>2. ToSet(SubSeq(target, 1, k)) = {target[i] : i \in 1..k}
        BY <1>4, <1>7, <2>1
  <2> QED BY <1>2, <1>3, <1>5, <2>2
<1>9. "#" \notin ToSet(SubSeq(target, k + 1, l))
  <2>1. k + 1 \in 1..(L + 1) /\ \A i \in (k + 1)..l : i \in 1..l
        BY <1>1, <1>4
  <2>2. ToSet(SubSeq(target, k + 1, l)) = {target[i] : i \in (k + 1)..l}
        BY <1>4, <1>7, <2>1
  <2> QED BY <1>2, <2>1, <2>2
<1>10. \/ SubSeq(target, k + 1, l) = <<>> /\ Q = <<>>
      \/ SubSeq(target, k + 1, l) = <<"?">> \o Q
  <2>1. CASE ~Contains(T, "?")
    <3>1. k = l
          BY <1>3, <2>1
    <3>2. k + 1 \in Int /\ l \in Int /\ l < k + 1
          BY <1>4, <3>1
    <3> QED BY <1>3, <2>1, <3>2, SubSeqEmpty
  <2>2. CASE Contains(T, "?")
    <3>1. k + 1 \in 1..l /\ l \in (k + 1)..l /\ k + 1 + 1 = k + 2 /\ k < l
          BY <1>3, <1>4, <2>2
    <3>2. SubSeq(T, k + 1, l) = <<T[k + 1]>> \o SubSeq(T, k + 1 + 1, l)
          BY <1>2, <3>1, SubSeqRecursiveFirst
    <3>3. SubSeq(T, k + 1, l) = <<"?">> \o Q
          BY <1>3, <2>2, <3>1, <3>2
    <3>4. \A i \in (k + 1)..l : T[i] \in B /\ target[i] = T[i]
      <4>1. \A i \in (k + 1)..l : i \in 1..l
            BY <1>4
      <4> QED BY <1>2, <4>1, ElementOfSeq
    <3>5. SubSeq(T, k + 1, l) = SubSeq(target, k + 1, l)
      <4>1. k + 1 \in Int /\ l \in Int
            BY <1>4
      <4> QED BY <3>4, <4>1, SameSubSeq
    <3> QED BY <3>3, <3>5
  <2> QED BY <2>1, <2>2
<1>11. ASSUME SubSeq(target, l + 1, L) # <<>> PROVE Head(SubSeq(target, l + 1, L)) = "#"
  <2>1. l < L
    <3>1. CASE l = L
      <4>1. l + 1 \in Int /\ L \in Int /\ L < l + 1
            BY <1>1, <3>1
      <4> QED BY <1>11, <4>1, SubSeqEmpty
    <3> QED BY <1>1, <1>4, <3>1
  <2>2. Contains(target, "#")
        BY <1>1, <1>2, <2>1 DEF L
  <2>3. l + 1 \in 1..L /\ L \in (l + 1)..L
        BY <1>1, <1>4, <2>1
  <2>4. Head(SubSeq(target, l + 1, L)) = target[l + 1]
        BY <2>3, HeadTailOfSubSeq DEF L
  <2> QED BY <1>2, <2>2, <2>4
<1>12. Plain(SubSeq(target, 1, k)) => resolved = Resolved(SubSeq(target, 1, k))
       BY <1>6 DEF P, T
<1>13. k \in 0..L /\ l \in 0..L
       BY <1>2, <1>4
<1>14. Aims(target, resolved, Q)
  <2> HIDE DEF k, l
  <2> QED BY <1>4, <1>8, <1>9, <1>10, <1>11, <1>12, <1>13 DEF Aims, L
<1> QED BY <1>14 DEF Q, T

-----------------------------------------------------------------------------
(* What the header list says of the lines.                                 *)

LEMMA ConcatAppend ==
  ASSUME NEW B, NEW s \in Seq(B), NEW t \in Seq(B), NEW c \in B
  PROVE  s \o Append(t, c) = Append(s \o t, c)
<1> DEFINE u == s \o t  v == <<c>>
<1>1. u \in Seq(B) /\ v \in Seq(B)
      BY ConcatProperties
<1>2. Append(t, c) = t \o v
      BY AppendIsConcat
<1>3. (s \o t) \o v = s \o (t \o v)
      BY <1>1, ConcatAssociative
<1> HIDE DEF u
<1>4. Append(u, c) = u \o v
      BY <1>1, AppendIsConcat
<1> QED BY <1>2, <1>3, <1>4 DEF u

-----------------------------------------------------------------------------
\* What headers_mod leaves of a list.
Assigns(g, h, key, value) ==
  /\ Keys(g) = Keys(h) \cup {key}
  /\ \A i \in 1..Len(g) : \/ g[i] = [key |-> key, value |-> value]
                          \/ g[i].key # key /\ \E j \in 1..Len(h) : g[i] = h[j]

\* headers_mod writes one header and leaves the others, wherever they are.
LEMMA ModIs ==
  ASSUME NEW K, NEW V, NEW h \in HeaderLists(K, V), DistinctKeys(h), NEW key \in K, NEW value \in V
  PROVE  /\ headers_mod(h, key, value) \in HeaderLists(K, V)
         /\ DistinctKeys(headers_mod(h, key, value))
         /\ Assigns(headers_mod(h, key, value), h, key, value)
<1> DEFINE g == headers_mod(h, key, value)
<1>1. /\ g \in HeaderLists(K, V) /\ DistinctKeys(g)
      /\ AsMap(g) = [k \in Keys(h) \cup {key} |-> IF k = key THEN value ELSE AsMap(h)[k]]
      BY ModAssigns
<1>2. Keys(g) = Keys(h) \cup {key}
  <2>1. DOMAIN AsMap(g) = Keys(g)
        BY DEF AsMap
  <2> QED BY <1>1, <2>1
<1>3. Len(h) \in Nat
      BY LenProperties DEF HeaderLists
<1>4. CASE key \notin Keys(h)
  <2>1. /\ Len(g) = Len(h) + 1
        /\ \A i \in 1..Len(h) : g[i] = h[i]
        /\ g[Len(h) + 1] = [key |-> key, value |-> value]
        BY <1>4, AddsAtEnd
  <2>2. \A i \in 1..Len(g) : i \in 1..Len(h) \/ i = Len(h) + 1
        BY <1>3, <2>1
  <2>3. \A i \in 1..Len(h) : h[i].key # key
        BY <1>4 DEF Keys
  <2> HIDE DEF g
  <2>4. ASSUME NEW i \in 1..Len(g)
        PROVE  g[i] = [key |-> key, value |-> value] \/ (g[i].key # key /\ \E j \in 1..Len(h) : g[i] = h[j])
    <3>1. CASE i = Len(h) + 1
          BY <2>1, <3>1
    <3>2. CASE i # Len(h) + 1
      <4>1. i \in 1..Len(h)
            BY <2>2, <3>2
      <4> QED BY <2>1, <2>3, <4>1
    <3> QED BY <3>1, <3>2
  <2>6. Assigns(g, h, key, value)
        BY <1>2, <2>4 DEF Assigns
  <2> QED BY <1>1, <2>6 DEF g
<1>5. CASE key \in Keys(h)
  <2>1. PICK n \in 1..Len(h) : h[n].key = key
        BY <1>5 DEF Keys
  <2>2. g = headers_mod(h, h[n].key, value)
        BY <2>1
  <2>3. /\ Len(g) = Len(h)
        /\ \A i \in 1..Len(h) : g[i] = IF i = n THEN [key |-> h[n].key, value |-> value] ELSE h[i]
        BY <2>2, Replaces
  <2>4. \A i \in 1..Len(h) : i # n => h[i].key # key
        BY <2>1 DEF DistinctKeys
  <2> HIDE DEF g
  <2>5. ASSUME NEW i \in 1..Len(g)
        PROVE  g[i] = [key |-> key, value |-> value] \/ (g[i].key # key /\ \E j \in 1..Len(h) : g[i] = h[j])
    <3>1. i \in 1..Len(h)
          BY <2>3
    <3>2. CASE i = n
          BY <2>1, <2>3, <3>1, <3>2
    <3>3. CASE i # n
      <4>1. g[i] = h[i] /\ h[i].key # key
            BY <2>3, <2>4, <3>1, <3>3
      <4> QED BY <3>1, <4>1
    <3> QED BY <3>2, <3>3
  <2>6. Assigns(g, h, key, value)
        BY <1>2, <2>5 DEF Assigns
  <2> QED BY <1>1, <2>6 DEF g
<1> QED BY <1>4, <1>5

Named(lines) == {n \in 2..Len(lines) : lines[n] # <<>>}

\* A header line is read as it is to be.
LEMMA ParseSays ==
  ASSUME NEW B, NEW lines \in Seq(Seq(B)), lines # <<>>,
         NEW h \in HeaderLists(Seq(B), Seq(B)), Says(h, lines),
         NEW line \in Seq(B), line # <<>>, Contains(line, ":")
  PROVE  /\ headers_parse(h, line) \in HeaderLists(Seq(B), Seq(B))
         /\ Says(headers_parse(h, line), Append(lines, line))
<1> DEFINE key == Before(line, ":")  value == Trimmed(After(line, ":"))
           g == headers_mod(h, key, value)  all == Append(lines, line)  N == Len(lines)  z == N + 1
           D == Seq(B)
<1>1. key \in D /\ value \in D
      BY BeforeIs, TrimmedType
<1>2. g = headers_parse(h, line)
      BY DEF headers_parse
<1>3. Sets(line, key, value)
      BY SetsExactly
<1>4. /\ N \in Nat \ {0} /\ z \in Nat /\ z = N + 1 /\ all \in Seq(D) /\ Len(all) = z /\ all[z] = line
      /\ \A n \in 1..N : all[n] = lines[n]
      BY AppendProperties, LenProperties, EmptySeq
<1>5. DistinctKeys(h) /\ DOMAIN h = 1..Len(h)
      BY LenProperties DEF Says, DistinctKeys, HeaderLists
<1> HIDE DEF key, value, g, all, N, z, D
<1>6. /\ g \in HeaderLists(D, D) /\ DistinctKeys(g) /\ Keys(g) = Keys(h) \cup {key}
      /\ \A i \in 1..Len(g) : \/ g[i] = [key |-> key, value |-> value]
                              \/ g[i].key # key /\ \E j \in 1..Len(h) : g[i] = h[j]
  <2>1. g \in HeaderLists(D, D) /\ DistinctKeys(g) /\ Assigns(g, h, key, value)
        BY <1>1, <1>5, ModIs DEF g, D
  <2> QED BY <2>1 DEF Assigns
<1>7. DOMAIN g = 1..Len(g)
      BY <1>6, LenProperties DEF HeaderLists
<1>8. Named(all) = Named(lines) \cup {z} /\ z \notin Named(lines) /\ \A n \in Named(lines) : n < z /\ n \in 1..N /\ n \in Nat
  <2>1. \A n \in 2..z : n = z \/ n \in 2..N
        BY <1>4
  <2>2. z \in 2..z /\ \A n \in 2..N : n \in 2..z /\ n # z /\ n \in 1..N /\ n < z /\ n \in Nat
        BY <1>4
  <2> QED BY <1>4, <2>1, <2>2 DEF Named, N
<1>9. {g[i].key : i \in DOMAIN g} = {Before(all[n], ":") : n \in Named(all)}
  <2>1. {g[i].key : i \in DOMAIN g} = Keys(h) \cup {key}
        BY <1>6, <1>7 DEF Keys
  <2>2. Keys(h) = {Before(lines[n], ":") : n \in Named(lines)}
        BY <1>5 DEF Says, Keys, Named
  <2>3. \A n \in Named(lines) : all[n] = lines[n]
        BY <1>4, <1>8
  <2>4. {Before(all[n], ":") : n \in Named(all)} = {Before(lines[n], ":") : n \in Named(lines)} \cup {key}
        BY <1>4, <1>8, <2>3 DEF key
  <2> QED BY <2>1, <2>2, <2>4
<1>10. ASSUME NEW i \in DOMAIN g
       PROVE  \E n \in Named(all) : /\ Sets(all[n], g[i].key, g[i].value)
                                    /\ \A m \in Named(all) : m > n => ~Names(all[m], g[i].key)
  <2>1. CASE g[i] = [key |-> key, value |-> value]
    <3>1. g[i].key = key /\ g[i].value = value
          BY <2>1
    <3>2. Sets(all[z], g[i].key, g[i].value) /\ z \in Named(all)
          BY <1>3, <1>4, <1>8, <3>1
    <3>3. \A m \in Named(all) : ~(m > z)
          BY <1>4, <1>8
    <3> QED BY <3>2, <3>3
  <2>2. CASE g[i] # [key |-> key, value |-> value]
    <3>1. PICK j \in 1..Len(h) : g[i] = h[j] /\ g[i].key # key
          BY <1>6, <1>7, <2>2
    <3>2. PICK n \in Named(lines) : /\ Sets(lines[n], h[j].key, h[j].value)
                                    /\ \A m \in Named(lines) : m > n => ~Names(lines[m], h[j].key)
          BY <1>5 DEF Says, Named
    <3>3. Sets(all[n], g[i].key, g[i].value) /\ n \in Named(all)
          BY <1>4, <1>8, <3>1, <3>2
    <3>4. ASSUME NEW m \in Named(all), m > n PROVE ~Names(all[m], g[i].key)
      <4>1. CASE m = z
            BY <1>4, <3>1, <4>1 DEF Names, key
      <4>2. CASE m # z
        <5>1. m \in Named(lines) /\ all[m] = lines[m]
              BY <1>4, <1>8, <4>2
        <5> QED BY <3>1, <3>2, <3>4, <5>1
      <4> QED BY <4>1, <4>2
    <3> QED BY <3>3, <3>4
  <2> QED BY <2>1, <2>2
<1>11. Says(g, all)
  <2>1. \A i, j \in DOMAIN g : g[i].key = g[j].key => i = j
        BY <1>6, <1>7 DEF DistinctKeys
  <2> QED BY <1>9, <1>10, <2>1 DEF Says, Named
<1> QED BY <1>2, <1>6, <1>11 DEF all, D

\* The empty line at the end of a request says nothing.
LEMMA SaysNoMore ==
  ASSUME NEW B, NEW lines \in Seq(Seq(B)), NEW h, Says(h, lines), NEW line \in Seq(B),
         line = <<>> \/ lines = <<>>
  PROVE  Says(h, Append(lines, line))
<1> DEFINE all == Append(lines, line)  N == Len(lines)
<1>1. /\ N \in Nat /\ Len(all) = N + 1 /\ all[N + 1] = line /\ \A n \in 1..N : all[n] = lines[n]
      BY AppendProperties, LenProperties
<1>2. lines = <<>> => N = 0
      OBVIOUS
<1> HIDE DEF all, N
<1>3. Named(all) = Named(lines) /\ \A n \in Named(lines) : all[n] = lines[n]
  <2>1. \A n \in 2..(N + 1) : n = N + 1 \/ n \in 2..N
        BY <1>1
  <2>2. \A n \in 2..N : n \in 2..(N + 1) /\ n \in 1..N
        BY <1>1
  <2>3. N = 0 => 2..(N + 1) = {} /\ 2..N = {}
        BY <1>1
  <2>4. CASE lines = <<>>
        BY <1>1, <1>2, <2>3, <2>4 DEF Named, N
  <2>5. CASE line = <<>>
        BY <1>1, <2>1, <2>2, <2>5 DEF Named, N
  <2> QED BY <2>4, <2>5
<1>4. /\ \A i, j \in DOMAIN h : h[i].key = h[j].key => i = j
      /\ {h[i].key : i \in DOMAIN h} = {Before(lines[n], ":") : n \in Named(lines)}
      /\ \A i \in DOMAIN h : \E n \in Named(lines) :
           /\ Sets(lines[n], h[i].key, h[i].value)
           /\ \A m \in Named(lines) : m > n => ~Names(lines[m], h[i].key)
      BY DEF Says, Named
<1>5. {Before(all[n], ":") : n \in Named(all)} = {Before(lines[n], ":") : n \in Named(lines)}
      BY <1>3
<1>6. \A i \in DOMAIN h : \E n \in Named(all) :
           /\ Sets(all[n], h[i].key, h[i].value)
           /\ \A m \in Named(all) : m > n => ~Names(all[m], h[i].key)
      BY <1>3, <1>4
<1>7. Says(h, all)
      BY <1>4, <1>5, <1>6 DEF Says, Named
<1> QED BY <1>7 DEF all

-----------------------------------------------------------------------------
(* The state of the reader.                                                *)

MetaDatas == [protocol : Protocols, path : Seq(Bytes \cup {Slash, "."}), queryString : Seq(Bytes)]

Typed ==
  /\ eof \in BOOLEAN /\ failed \in BOOLEAN /\ sent \in 0..MaxLines
  /\ state \in {"OPENED", "PROCESSING", "KEEP_ALIVE", "ABORTED"}
  /\ pc \in {"wait", "read"} /\ fault \in {"none", "length", "buffer", "uri"}
  /\ sock \in Seq(Bytes) /\ taken \in Seq(Bytes)
  /\ buffer \in Seq(Bytes) /\ Len(buffer) <= BUFFER_LENGTH
  /\ currentHeader \in Seq(Bytes) \cup {NULL}
  /\ metaData \in MetaDatas \cup {NULL}
  /\ headers \in HeaderLists(Seq(Bytes), Seq(Bytes)) /\ DistinctKeys(headers)
  /\ pc = "read" => state = "OPENED"
  /\ pc = "wait" => buffer = <<>>
  /\ state # "OPENED" => currentHeader = NULL

\* `last` is the byte before, as long as the line it belongs to is open.
InPiece ==
  fault = "none" /\ pc = "read" /\ dumpHeaderBuffer # <<>> => last = Last(dumpHeaderBuffer)

\* What metaData and headers are for the complete lines.
Told(lines, meta, h, at) ==
  /\ IF lines = <<>> THEN meta = NULL /\ h = <<>>
     ELSE meta = headers_metadata(lines[1]) /\ ~MetadataError(lines[1])
  /\ Says(h, lines)
  /\ at = "OPENED" => \A n \in 2..Len(lines) : lines[n] # <<>> /\ Contains(lines[n], ":")

InStep ==
  fault = "none" /\ state # "ABORTED" =>
    dumpHeaderBuffer = OpenLine(taken) /\ Told(LinesOf(taken), metaData, headers, state)

-----------------------------------------------------------------------------
LEMMA DumpType ==
  ASSUME Typed
  PROVE  Held \in Seq(Bytes) /\ dumpHeaderBuffer \in Seq(Bytes)
<1>1. Held \in Seq(Bytes) /\ buffer \in Seq(Bytes)
      BY DEF Typed, Held
<1> QED BY <1>1, ConcatProperties DEF dumpHeaderBuffer

\* What headers_metadata returns, if it returns anything.
LEMMA MetaDataType ==
  ASSUME NEW line \in Seq(Bytes), ~MetadataError(line)
  PROVE  headers_metadata(line) \in MetaDatas
<1> DEFINE t == Target(line)  r == RawPath(line)
<1>1. Words(line)[2] \in Seq(Bytes) /\ Words(line)[3][1] \in Protocols
      BY WordsOfRequest
<1>2. t \in Seq(Bytes)
      BY <1>1, BeforeIs DEF Target
<1>3. r \in Seq(Bytes) /\ After(t, "?") \in Seq(Bytes)
      BY <1>2, BeforeIs DEF RawPath
<1>4. symbolicRealpath(r) \in Seq(Bytes \cup {Slash, "."})
      BY <1>3, RealpathType
<1> QED BY <1>1, <1>3, <1>4 DEF headers_metadata, MetaDatas

LEMMA ParseType ==
  ASSUME NEW B, NEW h \in HeaderLists(Seq(B), Seq(B)), DistinctKeys(h), NEW line \in Seq(B)
  PROVE  /\ headers_parse(h, line) \in HeaderLists(Seq(B), Seq(B))
         /\ DistinctKeys(headers_parse(h, line))
<1> DEFINE key == Before(line, ":")  value == Trimmed(After(line, ":"))
<1>1. key \in Seq(B) /\ value \in Seq(B)
      BY BeforeIs, TrimmedType
<1> HIDE DEF key, value
<1>2. /\ headers_mod(h, key, value) \in HeaderLists(Seq(B), Seq(B))
      /\ DistinctKeys(headers_mod(h, key, value))
      BY <1>1, ModIs
<1> QED BY <1>2 DEF headers_parse, key, value

LEMMA BytesHave == "CR" \in Bytes /\ "LF" \in Bytes
BY DEF Bytes

LEMMA TypedInit == Init => Typed
<1> SUFFICES ASSUME Init PROVE Typed
    OBVIOUS
<1>1. <<>> \in Seq(Bytes) /\ Len(<<>>) = 0 /\ BUFFER_LENGTH \in Nat /\ MaxLines \in Nat
      BY ReaderAssumption
<1>2. <<>> \in HeaderLists(Seq(Bytes), Seq(Bytes)) /\ DistinctKeys(<<>>)
      BY DEF HeaderLists, DistinctKeys
<1>3. headers \in HeaderLists(Seq(Bytes), Seq(Bytes)) /\ DistinctKeys(headers)
      BY <1>2 DEF Init
<1>4. /\ sock \in Seq(Bytes) /\ taken \in Seq(Bytes)
      /\ buffer \in Seq(Bytes) /\ Len(buffer) <= BUFFER_LENGTH
      BY <1>1 DEF Init
<1>5. eof \in BOOLEAN /\ failed \in BOOLEAN
      BY Zenon DEF Init
<1>6. /\ sent \in 0..MaxLines
      /\ state = "OPENED" /\ pc = "wait" /\ fault = "none" /\ buffer = <<>>
      /\ currentHeader = NULL /\ metaData = NULL
      BY <1>1 DEF Init
<1> QED BY <1>3, <1>4, <1>6, <1>5 DEF Typed

\* Every action of the client and of the data thread keeps the types.
LEMMA TypedStep == Typed /\ [Next]_vars => Typed'
<1> SUFFICES ASSUME Typed, [Next]_vars PROVE Typed'
    OBVIOUS
<1> USE DEF Typed
<1>1. <<>> \in Seq(Bytes) /\ Len(<<>>) = 0 /\ BUFFER_LENGTH \in Nat \ {0} /\ MaxLines \in Nat
      BY ReaderAssumption
<1>2. Held \in Seq(Bytes) /\ dumpHeaderBuffer \in Seq(Bytes)
      BY DumpType
<1>3. ASSUME NEW line \in Lines, ClientSend(line) PROVE Typed'
  <2>1. line \in Seq(Bytes) /\ <<"CR", "LF">> \in Seq(Bytes)
        BY BytesHave, ReaderAssumption
  <2>2. line \o <<"CR", "LF">> \in Seq(Bytes)
        BY <2>1, ConcatProperties
  <2> QED BY <1>1, <1>3, <2>2 DEF ClientSend
<1>4. CASE ClientClose
      BY <1>1, <1>4 DEF ClientClose
<1>5. CASE Wake
      BY <1>1, <1>5 DEF Wake, client
<1>6. ASSUME NEW c \in ToSet(sock), Reading(c), Take(c)
      PROVE  /\ c \in Bytes /\ sock' \in Seq(Bytes) /\ taken' \in Seq(Bytes)
             /\ eof' = eof /\ sent' = sent /\ failed' = failed
             /\ state = "OPENED" /\ fault = "none" /\ pc = "read"
      BY <1>6, HeadTailProperties, AppendProperties DEF Reading, Take, ToSet
<1>7. ASSUME NEW c \in ToSet(sock), ReadByte(c) PROVE Typed'
  <2>1. Reading(c) /\ Take(c)
        BY <1>7 DEF ReadByte
  <2>2. c \in Bytes /\ sock' \in Seq(Bytes) /\ taken' \in Seq(Bytes)
        BY <1>6, <2>1
  <2>3. <<c>> \in Seq(Bytes) /\ Len(<<c>>) = 1
        BY <2>2
  <2>4. Append(buffer, c) \in Seq(Bytes) /\ Len(Append(buffer, c)) = Len(buffer) + 1 /\ Len(buffer) \in Nat
        BY <2>2, AppendProperties, LenProperties
  <2>5. /\ buffer' \in Seq(Bytes) /\ Len(buffer') <= BUFFER_LENGTH
        /\ currentHeader' \in Seq(Bytes) \cup {NULL}
    <3> HIDE DEF Typed
    <3>1. Len(buffer) <= BUFFER_LENGTH /\ currentHeader \in Seq(Bytes) \cup {NULL}
          BY DEF Typed
    <3>2. CASE Len(buffer) < BUFFER_LENGTH /\ buffer' = Append(buffer, c) /\ UNCHANGED currentHeader
          BY <1>1, <2>4, <3>1, <3>2
    <3>3. CASE currentHeader' = dumpHeaderBuffer /\ buffer' = <<c>>
          BY <1>1, <1>2, <2>3, <3>3
    <3> QED BY <1>7, <3>2, <3>3 DEF ReadByte
  <2>6. /\ eof' = eof /\ sent' = sent /\ failed' = failed /\ state = "OPENED"
        /\ UNCHANGED <<state, pc, metaData, headers, fault>> /\ pc = "read"
        BY <1>6, <1>7, <2>1 DEF ReadByte
  <2> QED BY <2>2, <2>5, <2>6
<1>8. ASSUME NEW c \in ToSet(sock), LineEnds(c)
      PROVE  Line \in Seq(Bytes) /\ Reading(c) /\ Take(c)
      BY <1>2, <1>8, FrontLast DEF LineEnds, Line
<1>9. ASSUME NEW c \in ToSet(sock), ReadRequestLine(c) PROVE Typed'
  <2>1. LineEnds(c) /\ ~MetadataError(Line)
        BY <1>9 DEF ReadRequestLine
  <2>2. headers_metadata(Line) \in MetaDatas
        BY <1>8, <2>1, MetaDataType
  <2> QED BY <1>1, <1>6, <1>8, <1>9, <2>1, <2>2 DEF ReadRequestLine, LineDone
<1>10. ASSUME NEW c \in ToSet(sock), ReadHeader(c) PROVE Typed'
  <2>1. LineEnds(c)
        BY <1>10 DEF ReadHeader
  <2>2. /\ headers_parse(headers, Line) \in HeaderLists(Seq(Bytes), Seq(Bytes))
        /\ DistinctKeys(headers_parse(headers, Line))
        BY <1>8, <2>1, ParseType
  <2>3. headers' \in HeaderLists(Seq(Bytes), Seq(Bytes)) /\ DistinctKeys(headers')
        BY <1>10, <2>2 DEF ReadHeader
  <2> QED BY <1>1, <1>6, <1>8, <1>10, <2>1, <2>3 DEF ReadHeader, LineDone
<1>11. ASSUME NEW c \in ToSet(sock), UriOverflows(c) PROVE Typed'
  <2>1. LineEnds(c)
        BY <1>11 DEF UriOverflows
  <2> QED BY <1>6, <1>8, <1>11, <2>1 DEF UriOverflows
<1>12. ASSUME NEW c \in ToSet(sock), BadLine(c) PROVE Typed'
  <2>1. LineEnds(c) /\ Drop /\ fault' = fault
        BY <1>12 DEF BadLine
  <2> QED BY <1>1, <1>6, <1>8, <2>1 DEF Drop
<1>13. ASSUME NEW c \in ToSet(sock), ReadEnd(c) PROVE Typed'
  <2>1. LineEnds(c)
        BY <1>13 DEF ReadEnd
  <2> QED BY <1>1, <1>6, <1>8, <1>13, <2>1 DEF ReadEnd
<1>14. ASSUME NEW c \in ToSet(sock), LengthWraps(c) PROVE Typed'
  <2>1. Reading(c) /\ Take(c)
        BY <1>14 DEF LengthWraps
  <2> QED BY <1>6, <1>14, <2>1 DEF LengthWraps
<1>15. CASE ReadAgain
      BY <1>1, <1>2, <1>15 DEF ReadAgain, client
<1>16. CASE ReadEof
      BY <1>1, <1>16 DEF ReadEof, Drop, client
<1>17. CASE ReadFails
      BY <1>1, <1>17 DEF ReadFails, Drop, client
<1>18. CASE resetPersistentConnection
  <2>1. <<>> \in HeaderLists(Seq(Bytes), Seq(Bytes)) /\ DistinctKeys(<<>>)
        BY DEF HeaderLists, DistinctKeys
  <2> QED BY <1>1, <1>18, <2>1 DEF resetPersistentConnection, client
<1>19. CASE UNCHANGED vars
      BY <1>19 DEF vars, client
<1> QED BY <1>3, <1>4, <1>5, <1>7, <1>9, <1>10, <1>11, <1>12, <1>13, <1>14, <1>15, <1>16, <1>17,
           <1>18, <1>19 DEF Next

\* Every variable has its type (TypeOK), whatever a client sends in whatever pieces, with
\* any size of the buffer: it is never filled beyond its end, and what is held of a line
\* is given up with the connection and when the request starts.
THEOREM ReaderTypeOK == Spec => []TypeOK
<1>1. Typed => TypeOK
      BY DEF Typed, TypeOK, MetaDatas
<1> QED BY <1>1, TypedInit, TypedStep, PTL DEF Spec

-----------------------------------------------------------------------------
(* The reader is in step with what was read.                               *)

LEMMA LinesType ==
  ASSUME NEW B, NEW s \in Seq(B)
  PROVE  LinesOf(s) \in Seq(Seq(B)) /\ Len(LinesOf(s)) = Cardinality(EndsOfLines(s))
<1> DEFINE E == EndsOfLines(s)  C == Cardinality(E)  d == InOrder(E)  L == Len(s)
           from(n) == IF n = 1 THEN 1 ELSE d[n - 1] + 1
           D == Seq(B)
<1>1. LinesOf(s) = [n \in DOMAIN d |-> SubSeq(s, from(n), d[n] - 2)]
      BY DEF LinesOf
<1>2. C \in Nat /\ E \subseteq 2..L /\ Enumerates(d, C, E) /\ L \in Nat
      BY EndsAreFinite, InOrderEnumerates
<1> HIDE DEF d, C, E
<1>3. d \in [1..C -> E] /\ \A n \in 1..C : d[n] \in 2..L
      BY <1>2 DEF Enumerates
<1>4. ASSUME NEW n \in 1..C PROVE SubSeq(s, from(n), d[n] - 2) \in D
  <2>1. d[n] - 2 \in 0..Len(s)
        BY <1>2, <1>3
  <2>2. from(n) \in 1..(Len(s) + 1)
    <3>1. CASE n = 1
          BY <1>2, <3>1
    <3>2. CASE n # 1
      <4>1. n - 1 \in 1..C
            BY <1>2, <3>2
      <4> QED BY <1>2, <1>3, <3>2, <4>1
    <3> QED BY <3>1, <3>2
  <2> HIDE DEF from
  <2> QED BY <2>1, <2>2, Cut
<1> HIDE DEF from, D
<1>5. LinesOf(s) \in [1..C -> D]
      BY <1>1, <1>3, <1>4
<1>6. LinesOf(s) \in Seq(D) /\ Len(LinesOf(s)) = C
  <2> DEFINE l == LinesOf(s)
  <2>1. l \in [1..C -> D]
        BY <1>5
  <2> HIDE DEF l
  <2>2. l \in Seq(D) /\ Len(l) = C
        BY <1>2, <2>1
  <2> QED BY <2>2 DEF l
<1> QED BY <1>6 DEF C, D, E

\* Where the reader sees a line end there is one.
LEMMA SeesTheEnd ==
  ASSUME Typed, InPiece, NEW c, Reading(c), dumpHeaderBuffer = OpenLine(taken)
  PROVE  IF dumpHeaderBuffer = <<>> THEN ~Closes(taken, c) ELSE Closes(taken, c) <=> AtLineEnd(c)
<1> DEFINE d == OpenLine(taken)  e == LastEnd(taken)
<1>1. taken \in Seq(Bytes) /\ fault = "none" /\ pc = "read" /\ d = dumpHeaderBuffer
      BY DEF Typed, Reading
<1>2. /\ d \in Seq(Bytes) /\ Len(d) = Len(taken) - e /\ Len(taken) \in Nat /\ e \in 0..Len(taken)
      /\ \A i \in 1..(Len(taken) - e) : d[i] = taken[e + i]
      BY <1>1, OpenLineIs, LastEndIs, LenProperties
<1> HIDE DEF d, e
<1>3. CASE d = <<>>
  <2>1. c = "LF" => c \in Bytes
        BY BytesHave
  <2>2. ~Closes(taken, c)
        BY <1>1, <1>3, <2>1, EndsIt DEF Closes, d
  <2> QED BY <1>1, <1>3, <2>2
<1>4. CASE d # <<>>
  <2>1. Last(d) = d[Len(d)] /\ Len(d) \in Nat \ {0}
        BY <1>2, <1>4, FrontLast
  <2>2. d[Len(d)] = taken[Len(taken)] /\ Len(taken) # 0
        BY <1>2, <2>1
  <2>3. Last(taken) = taken[Len(taken)]
        BY DEF Last
  <2>4. taken # <<>>
        BY <2>2
  <2>5. last = Last(d)
        BY <1>1, <1>4 DEF InPiece
  <2> QED BY <1>1, <1>4, <2>1, <2>2, <2>3, <2>4, <2>5 DEF Closes, AtLineEnd
<1> QED BY <1>3, <1>4

\* What reading a byte does to what was read: it goes on with the open line, or ends it.
LEMMA LineEnded ==
  ASSUME Typed, InPiece, InStep, NEW c \in ToSet(sock), LineEnds(c)
  PROVE  /\ OpenLine(taken') = <<>> /\ LinesOf(taken') = Append(LinesOf(taken), Line)
         /\ Line \in Seq(Bytes) /\ LinesOf(taken) \in Seq(Seq(Bytes))
         /\ Told(LinesOf(taken), metaData, headers, state) /\ state = "OPENED"
<1>1. /\ Reading(c) /\ Take(c) /\ AtLineEnd(c) /\ dumpHeaderBuffer # <<>>
      /\ c \in Bytes /\ taken \in Seq(Bytes) /\ state = "OPENED"
      BY HeadTailProperties DEF LineEnds, Reading, Typed
<1>2. dumpHeaderBuffer = OpenLine(taken) /\ Told(LinesOf(taken), metaData, headers, state)
      BY <1>1 DEF InStep, Reading
<1>3. Closes(taken, c)
      BY <1>1, <1>2, SeesTheEnd
<1>4. taken' = Append(taken, c)
      BY <1>1 DEF Take
<1>5. Line \in Seq(Bytes)
      BY <1>1, DumpType, FrontLast DEF Line
<1>6. LinesOf(taken) \in Seq(Seq(Bytes))
      BY <1>1, LinesType
<1> QED BY <1>1, <1>2, <1>3, <1>4, <1>5, <1>6, EndsIt DEF Line

LEMMA NothingRead == OpenLine(<<>>) = <<>> /\ LinesOf(<<>>) = <<>>
<1> DEFINE s == <<>>
<1>1. s \in Seq({}) /\ Len(s) = 0
      OBVIOUS
<1>2. EndsOfLines(s) = {}
      BY <1>1 DEF EndsOfLines
<1> HIDE DEF s
<1>3. Len(OpenLine(s)) = 0 /\ OpenLine(s) \in Seq({})
  <2>1. LastEnd(s) \in 0..Len(s) /\ Len(OpenLine(s)) = Len(s) - LastEnd(s) /\ OpenLine(s) \in Seq({})
        BY <1>1, LastEndIs, OpenLineIs
  <2> QED BY <1>1, <2>1
<1>4. LinesOf(s) \in Seq(Seq({})) /\ Len(LinesOf(s)) = 0
      BY <1>1, <1>2, LinesType, FS_EmptySet
<1>5. OpenLine(s) = <<>>
      BY <1>3, EmptySeq
<1>6. LinesOf(s) = <<>>
      BY <1>4, EmptySeq
<1> QED BY <1>5, <1>6 DEF s

LEMMA NothingTold == \A at : Told(<<>>, NULL, <<>>, at)
<1>1. Len(<<>>) = 0 /\ 2..0 = {} /\ DOMAIN <<>> = {}
      OBVIOUS
<1>2. Says(<<>>, <<>>)
      BY <1>1 DEF Says
<1> QED BY <1>1, <1>2 DEF Told

LEMMA StepInit == Init => InPiece /\ InStep
<1> SUFFICES ASSUME Init PROVE InPiece /\ InStep
    OBVIOUS
<1>1. InPiece
      BY DEF Init, InPiece
<1>2. dumpHeaderBuffer = <<>>
      BY DEF Init, dumpHeaderBuffer, Held
<1>3. Told(<<>>, metaData, headers, state) /\ taken = <<>>
      BY NothingTold DEF Init
<1> QED BY <1>1, <1>2, <1>3, NothingRead DEF InStep

\* metaData is set exactly if there was a line: what headers_metadata returns is never NULL.
LEMMA WithLines ==
  ASSUME Typed, NEW lines \in Seq(Seq(Bytes)), Told(lines, metaData, headers, state)
  PROVE  /\ metaData = NULL <=> lines = <<>>
         /\ lines # <<>> => lines[1] \in Seq(Bytes) /\ Len(lines) \in Nat \ {0}
<1> DEFINE D == Seq(Bytes)
<1>1. NULL \notin MetaDatas
      BY ReaderAssumption DEF MetaDatas
<1>2. lines # <<>> => lines[1] \in D /\ Len(lines) \in Nat \ {0}
  <2>1. lines \in Seq(D)
        OBVIOUS
  <2> HIDE DEF D
  <2> QED BY <2>1
<1>3. lines # <<>> => metaData \in MetaDatas
      BY <1>2, MetaDataType DEF Told
<1> QED BY <1>1, <1>2, <1>3 DEF Told

\* The lines so far and one more.
LEMMA OneMore ==
  ASSUME NEW lines \in Seq(Seq(Bytes)), NEW line \in Seq(Bytes)
  PROVE  /\ Append(lines, line) # <<>> /\ Append(lines, line) \in Seq(Seq(Bytes))
         /\ Len(Append(lines, line)) = Len(lines) + 1 /\ Len(lines) \in Nat
         /\ Last(Append(lines, line)) = line
         /\ Append(lines, line)[Len(lines) + 1] = line
         /\ \A n \in 1..Len(lines) : Append(lines, line)[n] = lines[n]
         /\ Append(lines, line)[1] = IF lines = <<>> THEN line ELSE lines[1]
<1> DEFINE D == Seq(Bytes)  a == Append(lines, line)
<1>1. lines \in Seq(D) /\ line \in D
      OBVIOUS
<1> HIDE DEF D
<1>2. /\ a # <<>> /\ a \in Seq(D) /\ Len(a) = Len(lines) + 1 /\ a[Len(lines) + 1] = line
      /\ \A n \in 1..Len(lines) : a[n] = lines[n]
      BY <1>1, AppendProperties
<1>3. Len(lines) \in Nat /\ (lines = <<>> => Len(lines) = 0) /\ (lines # <<>> => 1 \in 1..Len(lines))
      BY <1>1
<1> HIDE DEF a
<1>4. a[1] = IF lines = <<>> THEN line ELSE lines[1]
      BY <1>2, <1>3
<1>5. Last(a) = line
      BY <1>2 DEF Last
<1> QED BY <1>2, <1>3, <1>4, <1>5 DEF D, a

\* What dataHandler holds and whether the buffer was dumped makes no difference.
LEMMA ByteKept ==
  ASSUME Typed, NEW c \in Bytes, ReadByte(c)
  PROVE  dumpHeaderBuffer' = Append(dumpHeaderBuffer, c)
<1>1. Held \in Seq(Bytes) /\ dumpHeaderBuffer \in Seq(Bytes) /\ buffer \in Seq(Bytes)
      BY DumpType DEF Typed
<1>2. CASE buffer' = Append(buffer, c) /\ UNCHANGED currentHeader
  <2>1. dumpHeaderBuffer' = Held \o Append(buffer, c)
        BY <1>2 DEF dumpHeaderBuffer, Held
  <2> QED BY <1>1, <2>1, ConcatAppend DEF dumpHeaderBuffer
<1>3. CASE currentHeader' = dumpHeaderBuffer /\ buffer' = <<c>>
  <2>1. dumpHeaderBuffer # NULL
        BY <1>1, ReaderAssumption
  <2>2. dumpHeaderBuffer' = dumpHeaderBuffer \o <<c>>
        BY <1>3, <2>1 DEF dumpHeaderBuffer, Held
  <2> QED BY <1>1, <2>2, AppendIsConcat
<1> QED BY <1>2, <1>3 DEF ReadByte

\* Nor does it make a difference that the piece ends.
LEMMA PieceKept ==
  ASSUME Typed, ReadAgain
  PROVE  dumpHeaderBuffer' = dumpHeaderBuffer
<1>1. Held \in Seq(Bytes) /\ dumpHeaderBuffer \in Seq(Bytes) /\ buffer \in Seq(Bytes)
      BY DumpType DEF Typed
<1>2. dumpHeaderBuffer \o <<>> = dumpHeaderBuffer
      BY <1>1, ConcatEmptySeq
<1>3. CASE buffer = <<>>
      BY <1>3 DEF ReadAgain, dumpHeaderBuffer, Held
<1>4. CASE buffer # <<>>
  <2>1. dumpHeaderBuffer # NULL
        BY <1>1, ReaderAssumption
  <2>2. dumpHeaderBuffer' = dumpHeaderBuffer \o <<>>
        BY <1>4, <2>1 DEF ReadAgain, dumpHeaderBuffer, Held
  <2> QED BY <1>2, <2>2
<1> QED BY <1>3, <1>4

\* Every action keeps InPiece and InStep: a byte either goes on with the open line, in
\* dumpHeaderBuffer as in taken, or ends the line in both.
LEMMA StepNext == Typed /\ InPiece /\ InStep /\ [Next]_vars => InPiece' /\ InStep'
<1> SUFFICES ASSUME Typed, InPiece, InStep, [Next]_vars PROVE InPiece' /\ InStep'
    OBVIOUS
<1> DEFINE lines == LinesOf(taken)
<1>1. ASSUME UNCHANGED <<state, pc, buffer, last, currentHeader, metaData, headers, fault, taken>>
      PROVE  InPiece' /\ InStep'
      BY <1>1 DEF InPiece, InStep, Told, dumpHeaderBuffer, Held
<1>2. ASSUME NEW line \in Lines, ClientSend(line) PROVE InPiece' /\ InStep'
      BY <1>1, <1>2 DEF ClientSend
<1>3. CASE ClientClose
      BY <1>1, <1>3 DEF ClientClose
<1>4. CASE UNCHANGED vars
      BY <1>1, <1>4 DEF vars
<1>5. CASE Wake
  <2>1. dumpHeaderBuffer' = dumpHeaderBuffer /\ dumpHeaderBuffer' = Held \o <<>>
        BY <1>5 DEF Wake, Typed, dumpHeaderBuffer, Held
  <2>2. dumpHeaderBuffer' = Held
        BY <2>1, DumpType, ConcatEmptySeq
  <2>3. InPiece'
        BY <1>5, <2>2 DEF InPiece, Wake, LastHeld
  <2>4. UNCHANGED <<state, metaData, headers, fault, taken>>
        BY <1>5 DEF Wake
  <2> QED BY <2>1, <2>3, <2>4 DEF InStep, Told
<1>6. ASSUME state' = "ABORTED" \/ fault' # "none", pc' = "wait" \/ fault' # "none"
      PROVE  InPiece' /\ InStep'
      BY <1>6 DEF InPiece, InStep
<1>7. CASE ReadAgain
  <2>1. dumpHeaderBuffer' = dumpHeaderBuffer
        BY <1>7, PieceKept
  <2>2. UNCHANGED <<state, metaData, headers, fault, taken>> /\ pc' = "wait"
        BY <1>7 DEF ReadAgain
  <2> QED BY <2>1, <2>2 DEF InPiece, InStep, Told
<1>8. CASE ReadEof
      BY <1>6, <1>8 DEF ReadEof, Drop
<1>9. CASE ReadFails
      BY <1>6, <1>9 DEF ReadFails, Drop
<1>10. CASE resetPersistentConnection
  <2>1. /\ pc' = "wait" /\ buffer' = <<>> /\ currentHeader' = NULL /\ metaData' = NULL
        /\ headers' = <<>> /\ taken' = <<>>
        BY <1>10 DEF resetPersistentConnection, Typed
  <2>2. dumpHeaderBuffer' = <<>>
        BY <2>1 DEF dumpHeaderBuffer, Held
  <2>3. Told(LinesOf(taken'), metaData', headers', state')
        BY <2>1, NothingTold, NothingRead
  <2> QED BY <2>1, <2>2, <2>3, NothingRead DEF InPiece, InStep
<1>11. ASSUME NEW c \in ToSet(sock), UriOverflows(c) PROVE InPiece' /\ InStep'
      BY <1>6, <1>11 DEF UriOverflows
<1>12. ASSUME NEW c \in ToSet(sock), BadLine(c) PROVE InPiece' /\ InStep'
      BY <1>6, <1>12 DEF BadLine, Drop
<1>13. ASSUME NEW c \in ToSet(sock), LengthWraps(c) PROVE InPiece' /\ InStep'
      BY <1>6, <1>13 DEF LengthWraps
<1>14. ASSUME NEW c \in ToSet(sock), ReadByte(c) PROVE InPiece' /\ InStep'
  <2>1. /\ Reading(c) /\ Take(c) /\ ~AtLineEnd(c) /\ last' = c /\ taken' = Append(taken, c)
        /\ UNCHANGED <<state, pc, metaData, headers, fault>>
        BY <1>14 DEF ReadByte, Take
  <2>2. fault = "none" /\ pc = "read" /\ state = "OPENED" /\ c \in Bytes /\ taken \in Seq(Bytes)
        BY <2>1, HeadTailProperties DEF Reading, Typed
  <2>3. dumpHeaderBuffer = OpenLine(taken) /\ Told(lines, metaData, headers, state) /\ dumpHeaderBuffer \in Seq(Bytes)
        BY <2>2, DumpType DEF InStep
  <2>4. dumpHeaderBuffer' = Append(dumpHeaderBuffer, c)
        BY <1>14, <2>2, ByteKept
  <2>5. ~Closes(taken, c)
        BY <2>1, <2>3, SeesTheEnd
  <2>6. OpenLine(taken') = Append(OpenLine(taken), c) /\ LinesOf(taken') = lines
        BY <2>1, <2>2, <2>5, GoesOn
  <2>7. Last(dumpHeaderBuffer') = c
    <3>1. Append(dumpHeaderBuffer, c)[Len(dumpHeaderBuffer) + 1] = c
          /\ Len(Append(dumpHeaderBuffer, c)) = Len(dumpHeaderBuffer) + 1
          BY <2>2, <2>3, AppendProperties
    <3> QED BY <2>4, <3>1 DEF Last
  <2>8. Told(LinesOf(taken'), metaData', headers', state')
        BY <2>1, <2>3, <2>6 DEF Told
  <2> QED BY <2>1, <2>3, <2>4, <2>6, <2>7, <2>8 DEF InPiece, InStep
<1>15. ASSUME NEW c \in ToSet(sock), LineEnds(c)
       PROVE  /\ OpenLine(taken') = <<>> /\ LinesOf(taken') = Append(lines, Line)
              /\ Line \in Seq(Bytes) /\ lines \in Seq(Seq(Bytes)) /\ Told(lines, metaData, headers, state) /\ state = "OPENED"
              /\ metaData = NULL <=> lines = <<>>
              /\ lines # <<>> => lines[1] \in Seq(Bytes) /\ Len(lines) \in Nat \ {0}
  <2>1. /\ OpenLine(taken') = <<>> /\ LinesOf(taken') = Append(lines, Line)
        /\ Line \in Seq(Bytes) /\ lines \in Seq(Seq(Bytes)) /\ Told(lines, metaData, headers, state) /\ state = "OPENED"
        BY <1>15, LineEnded
  <2> HIDE DEF lines
  <2> QED BY <2>1, WithLines
<1>16. ASSUME NEW c \in ToSet(sock), LineEnds(c), currentHeader' = NULL, buffer' = <<>>,
              Told(Append(lines, Line), metaData', headers', state')
       PROVE  InPiece' /\ InStep'
  <2>1. dumpHeaderBuffer' = <<>>
        BY <1>16 DEF dumpHeaderBuffer, Held
  <2>2. OpenLine(taken') = <<>> /\ LinesOf(taken') = Append(lines, Line)
        BY <1>15, <1>16
  <2> QED BY <1>16, <2>1, <2>2 DEF InPiece, InStep
<1>17. ASSUME NEW c \in ToSet(sock), ReadRequestLine(c) PROVE InPiece' /\ InStep'
  <2>1. LineEnds(c) /\ metaData = NULL /\ ~MetadataError(Line)
        /\ metaData' = headers_metadata(Line) /\ headers' = headers /\ state' = state
        /\ currentHeader' = NULL /\ buffer' = <<>>
        BY <1>17 DEF ReadRequestLine, LineDone
  <2>2. lines = <<>> /\ Says(headers, lines) /\ Line \in Seq(Bytes) /\ lines \in Seq(Seq(Bytes))
        BY <1>15, <2>1 DEF Told
  <2> DEFINE all == Append(lines, Line)
  <2> HIDE DEF lines
  <2>3. all # <<>> /\ all[1] = Line /\ Len(all) = 1
        BY <2>2, OneMore
  <2>4. Says(headers, all)
        BY <2>2, SaysNoMore
  <2> HIDE DEF all
  <2>5. 2..Len(all) = {}
        BY <2>3
  <2>6. Told(all, metaData', headers', state')
        BY <2>1, <2>3, <2>4, <2>5 DEF Told
  <2> QED BY <1>16, <2>1, <2>6 DEF lines, all
<1>18. ASSUME NEW c \in ToSet(sock), ReadHeader(c) PROVE InPiece' /\ InStep'
  <2>1. LineEnds(c) /\ metaData # NULL /\ Line # <<>> /\ Contains(Line, ":")
        /\ headers' = headers_parse(headers, Line) /\ metaData' = metaData /\ state' = state
        /\ currentHeader' = NULL /\ buffer' = <<>>
        BY <1>18 DEF ReadHeader, LineDone, HeaderEnd, HeaderError
  <2>2. lines # <<>> /\ Told(lines, metaData, headers, state) /\ Line \in Seq(Bytes)
        /\ lines \in Seq(Seq(Bytes)) /\ state = "OPENED"
        BY <1>15, <2>1
  <2> DEFINE all == Append(lines, Line)
  <2> HIDE DEF lines
  <2>3. all # <<>> /\ all[1] = lines[1] /\ Len(all) = Len(lines) + 1 /\ Len(lines) \in Nat
        /\ all[Len(lines) + 1] = Line /\ \A n \in 1..Len(lines) : all[n] = lines[n]
        BY <2>2, OneMore
  <2>4. Says(headers', all)
        BY <2>1, <2>2, ParseSays DEF Typed, Told
  <2> HIDE DEF all
  <2>5. ASSUME NEW n \in 2..Len(all) PROVE all[n] # <<>> /\ Contains(all[n], ":")
    <3>1. CASE n = Len(lines) + 1
          BY <2>1, <2>3, <3>1
    <3>2. CASE n # Len(lines) + 1
      <4>1. n \in 2..Len(lines) /\ all[n] = lines[n]
            BY <2>3, <3>2
      <4> QED BY <2>2, <4>1 DEF Told
    <3> QED BY <3>1, <3>2
  <2>6. Told(all, metaData', headers', state')
        BY <2>1, <2>2, <2>3, <2>4, <2>5 DEF Told
  <2> QED BY <1>16, <2>1, <2>6 DEF lines, all
<1>19. ASSUME NEW c \in ToSet(sock), ReadEnd(c) PROVE InPiece' /\ InStep'
  <2>1. LineEnds(c) /\ metaData # NULL /\ Line = <<>>
        /\ headers' = headers /\ metaData' = metaData /\ state' # "OPENED"
        /\ currentHeader' = NULL /\ buffer' = <<>>
        BY <1>19 DEF ReadEnd, HeaderEnd
  <2>2. lines # <<>> /\ Told(lines, metaData, headers, state) /\ Line \in Seq(Bytes)
        /\ lines \in Seq(Seq(Bytes))
        BY <1>15, <2>1
  <2> DEFINE all == Append(lines, Line)
  <2> HIDE DEF lines
  <2>3. all # <<>> /\ all[1] = lines[1]
        BY <2>2, OneMore
  <2>4. Says(headers, all)
        BY <2>1, <2>2, SaysNoMore DEF Told
  <2> HIDE DEF all
  <2>5. Told(all, metaData', headers', state')
        BY <2>1, <2>2, <2>3, <2>4 DEF Told
  <2> QED BY <1>16, <2>1, <2>5 DEF lines, all
<1> QED BY <1>2, <1>3, <1>4, <1>5, <1>7, <1>8, <1>9, <1>10, <1>11, <1>12, <1>13, <1>14, <1>17, <1>18,
           <1>19 DEF Next

-----------------------------------------------------------------------------
(* The properties.                                                         *)

\* What headers_metadata makes of a request line is what the line asks for.
LEMMA RequestRead ==
  ASSUME NEW line \in Seq(Bytes), ~MetadataError(line)
  PROVE  Requests(line, headers_metadata(line))
<1> DEFINE target == Words(line)[2]  path == Before(Before(target, "#"), "?")
           query == After(Before(target, "#"), "?")  resolved == symbolicRealpath(path)
<1>1. target \in Seq(Bytes)
      BY WordsOfRequest
<1>2. Parts(line) # {} /\ \A part \in Parts(line) : part.target = target /\ part.protocol = Words(line)[3][1]
      BY PartsAreWords
<1>3. headers_metadata(line) = [protocol |-> Words(line)[3][1], path |-> resolved, queryString |-> query]
      BY DEF headers_metadata, Target, RawPath
<1> HIDE DEF target
<1>4. path \in Seq(Bytes)
      BY <1>1, BeforeIs
<1>5. Plain(path) => resolved = Resolved(path)
  <2> HIDE DEF path
  <2> QED BY <1>4, RealpathResolves
<1>6. Aims(target, resolved, query)
  <2> HIDE DEF resolved
  <2> QED BY <1>1, <1>5, AimsAtIt
<1> HIDE DEF path, query, resolved
<1> QED BY <1>2, <1>3, <1>6 DEF Requests

IInv == Typed /\ InPiece /\ InStep

LEMMA IInvStep == IInv /\ [Next]_vars => IInv'
BY TypedStep, StepNext DEF IInv

\* The invariant of the reader, for any lines and any size of the buffer.
THEOREM ReaderInvariant == Spec => []IInv
<1>1. Init => IInv
      BY TypedInit, StepInit DEF IInv
<1> QED BY <1>1, IInvStep, PTL DEF Spec

\* However a request is cut into pieces, and wherever the buffer was dumped in between,
\* metaData and headers say what the complete lines so far say, and the open line is kept
\* (ReadsWhatWasSent): for any lines of any length, any number of requests and any size of
\* the buffer.
THEOREM ReaderReadsWhatWasSent == Spec => []ReadsWhatWasSent
<1>1. IInv => ReadsWhatWasSent
  <2> SUFFICES ASSUME IInv, fault = "none", state # "ABORTED"
               PROVE  LET lines == LinesOf(taken)
                      IN /\ dumpHeaderBuffer = OpenLine(taken)
                         /\ IF lines = <<>> THEN metaData = NULL /\ headers = <<>>
                            ELSE Requests(lines[1], metaData) /\ Says(headers, lines)
      BY DEF ReadsWhatWasSent
  <2> DEFINE lines == LinesOf(taken)
  <2>1. dumpHeaderBuffer = OpenLine(taken) /\ Told(lines, metaData, headers, state)
        BY DEF IInv, InStep
  <2>2. lines \in Seq(Seq(Bytes))
        BY LinesType DEF IInv, Typed
  <2> HIDE DEF lines
  <2>3. lines # <<>> => lines[1] \in Seq(Bytes)
        BY <2>1, <2>2, WithLines DEF IInv
  <2>4. lines # <<>> => Requests(lines[1], metaData)
        BY <2>1, <2>3, RequestRead DEF Told
  <2>5. /\ dumpHeaderBuffer = OpenLine(taken)
        /\ IF lines = <<>> THEN metaData = NULL /\ headers = <<>>
           ELSE Requests(lines[1], metaData) /\ Says(headers, lines)
        BY <2>1, <2>4 DEF Told
  <2> QED BY <2>5 DEF lines
<1> QED BY <1>1, ReaderInvariant, PTL

\* The reader gives a connection up only at its end, when read fails, or for a line that
\* is malformed (DroppedForAReason): what headers_metadata and headers_parse refuse is
\* exactly what Malformed says, and it is a line that was sent.
THEOREM ReaderDroppedForAReason == Spec => DroppedForAReason
<1>1. IInv /\ [Next]_vars =>
        (state' = "ABORTED" => state = "ABORTED" \/ eof \/ failed' \/ Malformed(LinesOf(taken')))
  <2> SUFFICES ASSUME IInv, [Next]_vars, state' = "ABORTED", state # "ABORTED", ~eof, ~failed'
               PROVE  Malformed(LinesOf(taken'))
      OBVIOUS
  <2>1. PICK c \in ToSet(sock) : BadLine(c)
    <3>1. ~ReadEof /\ ~ReadFails /\ ~resetPersistentConnection /\ ~ReadAgain /\ ~ClientClose /\ ~Wake
          /\ ~UNCHANGED vars
          BY DEF ReadEof, ReadFails, resetPersistentConnection, ReadAgain, ClientClose, Wake, vars
    <3>2. \A line \in Lines : ~ClientSend(line)
          BY DEF ClientSend
    <3>3. \A c \in ToSet(sock) : /\ ~ReadByte(c) /\ ~ReadRequestLine(c) /\ ~ReadHeader(c)
                                 /\ ~UriOverflows(c) /\ ~ReadEnd(c) /\ ~LengthWraps(c)
          BY DEF ReadByte, ReadRequestLine, ReadHeader, UriOverflows, ReadEnd, LengthWraps, LineDone
    <3> QED BY <3>1, <3>2, <3>3 DEF Next
  <2> DEFINE lines == LinesOf(taken)  all == Append(lines, Line)
  <2>2. LineEnds(c) /\ IF metaData = NULL THEN MetadataError(Line) ELSE HeaderError(Line)
        BY <2>1 DEF BadLine
  <2>3. /\ LinesOf(taken') = all /\ Line \in Seq(Bytes) /\ lines \in Seq(Seq(Bytes))
        /\ Told(lines, metaData, headers, state)
        BY <2>2, LineEnded DEF IInv
  <2> HIDE DEF lines
  <2>4. metaData = NULL <=> lines = <<>>
        BY <2>3, WithLines DEF IInv
  <2>5. /\ all # <<>> /\ Len(all) = Len(lines) + 1 /\ Len(lines) \in Nat /\ Last(all) = Line
        /\ all[1] = IF lines = <<>> THEN Line ELSE lines[1]
        BY <2>3, OneMore
  <2>6. lines = <<>> <=> Len(lines) = 0
        BY <2>3, EmptySeq
  <2> HIDE DEF all
  <2>7. CASE metaData = NULL
    <3>1. Parts(Line) = {}
          BY <2>2, <2>3, <2>7, PartsAreWords
    <3>2. Len(all) = 1 /\ all[1] = Line
          BY <2>4, <2>5, <2>6, <2>7
    <3> QED BY <2>3, <2>5, <3>1, <3>2 DEF Malformed
  <2>8. CASE metaData # NULL
    <3>1. Len(all) # 1
          BY <2>4, <2>5, <2>6, <2>8
    <3>2. Line # <<>> /\ ":" \notin ToSet(Line)
          BY <2>2, <2>8 DEF HeaderError, Contains, ToSet
    <3> QED BY <2>3, <2>5, <3>1, <3>2 DEF Malformed
  <2> QED BY <2>7, <2>8
<1> QED BY <1>1, ReaderInvariant, PTL DEF Spec, DroppedForAReason

LEMMA EndsTheRequest ==
  ASSUME IInv, NEW c \in ToSet(sock), ReadEnd(c)
  PROVE  LET lines == LinesOf(taken)
         IN /\ OpenLine(taken') = <<>> /\ LinesOf(taken') = Append(lines, <<>>)
            /\ lines # <<>> /\ lines \in Seq(Seq(Bytes)) /\ lines[1] \in Seq(Bytes)
            /\ Told(lines, metaData, headers, "OPENED")
            /\ metaData \in MetaDatas
<1>1. LineEnds(c) /\ metaData # NULL /\ Line = <<>>
      BY DEF ReadEnd, HeaderEnd
<1> DEFINE lines == LinesOf(taken)
<1>2. /\ OpenLine(taken') = <<>> /\ LinesOf(taken') = Append(lines, <<>>)
      /\ lines \in Seq(Seq(Bytes)) /\ Told(lines, metaData, headers, "OPENED")
      BY <1>1, LineEnded DEF IInv
<1> HIDE DEF lines
<1>3. Told(lines, metaData, headers, state) 
      BY <1>1, LineEnded DEF IInv, lines
<1>4. lines # <<>> /\ lines[1] \in Seq(Bytes)
      BY <1>1, <1>2, <1>3, WithLines DEF IInv
<1> QED BY <1>1, <1>2, <1>4 DEF lines, IInv, Typed

ConnectionKey == <<"Connection">>

\* What headers_get finds under Connection is what the last line that names it says.
LEMMA AsksIt ==
  ASSUME NEW B, NULL \notin Seq(B),
         NEW lines \in Seq(Seq(B)), lines # <<>>, NEW h \in HeaderLists(Seq(B), Seq(B)),
         NEW meta, Told(lines, meta, h, "OPENED"), Parts(lines[1]) # {},
         \A part \in Parts(lines[1]) : part.protocol = meta.protocol
  PROVE  AsksToClose(Append(lines, <<>>)) <=>
           LET found == headers_get(h, ConnectionKey)
           IN IF found = NULL THEN meta.protocol = "HTTP/1.0" ELSE found = <<"close">>
<1> DEFINE all == Append(lines, <<>>)  N == Len(lines)  K == ConnectionKey
           about == {n \in 2..Len(all) : Names(all[n], K)}  D == Seq(B)
           found == headers_get(h, K)
<1>1. /\ N \in Nat \ {0} /\ all \in Seq(D) /\ Len(all) = N + 1 /\ all[N + 1] = <<>>
      /\ \A n \in 1..N : all[n] = lines[n] /\ lines[n] \in D
  <2>1. lines \in Seq(D) /\ <<>> \in D
        OBVIOUS
  <2> HIDE DEF D
  <2>2. N \in Nat \ {0} /\ \A n \in 1..N : lines[n] \in D
        BY <2>1
  <2>3. all \in Seq(D) /\ Len(all) = N + 1 /\ all[N + 1] = <<>> /\ \A n \in 1..N : all[n] = lines[n]
        BY <2>1, AppendProperties
  <2> QED BY <2>2, <2>3
<1>2. Says(h, lines) /\ \A n \in 2..N : lines[n] # <<>> /\ Contains(lines[n], ":")
      BY DEF Told
<1>3. DistinctKeys(h) /\ DOMAIN h = 1..Len(h) /\ Len(h) \in Nat
      /\ \A i \in 1..Len(h) : h[i].value \in D
  <2>1. h \in Seq([key : D, value : D])
        BY DEF HeaderLists
  <2> HIDE DEF D
  <2>2. DOMAIN h = 1..Len(h) /\ Len(h) \in Nat /\ \A i \in 1..Len(h) : h[i].value \in D
    <3> DEFINE E == [key : D, value : D]
    <3>1. h \in Seq(E)
          BY <2>1
    <3>2. \A x \in E : x.value \in D
          OBVIOUS
    <3> HIDE DEF E
    <3>3. DOMAIN h = 1..Len(h) /\ Len(h) \in Nat /\ h \in [1..Len(h) -> E]
          BY <3>1, LenProperties
    <3> QED BY <3>2, <3>3
  <2>3. \A i, j \in DOMAIN h : h[i].key = h[j].key => i = j
        BY <1>2 DEF Says
  <2>4. DistinctKeys(h)
        BY <2>2, <2>3 DEF DistinctKeys
  <2> QED BY <2>2, <2>4
<1> HIDE DEF all, N, K, D, found
<1>4. Names(<<>>, K) <=> FALSE
  <2>1. <<>> \in Seq(B) /\ ~Contains(<<>>, ":")
        BY DEF Contains
  <2>2. Before(<<>>, ":") = <<>>
        BY <2>1 DEF Before
  <2>3. <<>> # <<"Connection">>
        OBVIOUS
  <2> QED BY <2>2, <2>3 DEF Names, K, ConnectionKey
<1>5. about = {n \in 2..N : Names(lines[n], K)} /\ Named(lines) = 2..N
  <2>1. \A n \in 2..(N + 1) : n = N + 1 \/ n \in 2..N
        BY <1>1
  <2>2. \A n \in 2..N : n \in 2..(N + 1) /\ n \in 1..N
        BY <1>1
  <2>3. about = {n \in 2..N : Names(lines[n], K)}
        BY <1>1, <1>4, <2>1, <2>2
  <2> QED BY <1>2, <2>3 DEF Named, N
<1>6. /\ {h[i].key : i \in DOMAIN h} = {Before(lines[n], ":") : n \in Named(lines)}
       /\ \A i \in DOMAIN h : \E n \in Named(lines) :
            /\ Sets(lines[n], h[i].key, h[i].value)
            /\ \A k \in Named(lines) : k > n => ~Names(lines[k], h[i].key)
       BY <1>2 DEF Says, Named
<1>7. AsksToClose(all) <=> IF about = {} THEN \E part \in Parts(all[1]) : part.protocol = "HTTP/1.0"
                           ELSE Sets(all[Max(about)], K, <<"close">>)
      BY DEF AsksToClose, K, ConnectionKey
<1>8. all[1] = lines[1]
      BY <1>1
<1> HIDE DEF about
<1>9. CASE about = {}
  <2>1. K \notin Keys(h)
    <3>1. \A n \in 2..N : Before(lines[n], ":") # K
          BY <1>5, <1>9 DEF Names
    <3>2. K \notin {Before(lines[n], ":") : n \in Named(lines)}
          BY <1>5, <3>1
    <3>3. Keys(h) = {h[i].key : i \in DOMAIN h}
          BY <1>3 DEF Keys
    <3> QED BY <1>6, <3>2, <3>3
  <2>2. found = NULL
        BY <2>1, FindsNone DEF found, headers_get
  <2>3. AsksToClose(all) <=> meta.protocol = "HTTP/1.0"
        BY <1>7, <1>8, <1>9
  <2> QED BY <2>2, <2>3 DEF all, found, K
<1>10. CASE about # {}
  <2>1. PICK m \in 2..N : Names(lines[m], K)
        BY <1>5, <1>10
  <2>2. PICK i \in 1..Len(h) : h[i].key = K
    <3>1. K \in {Before(lines[n], ":") : n \in Named(lines)}
          BY <1>5, <2>1 DEF Names
    <3>2. K \in {h[i].key : i \in DOMAIN h}
          BY <1>6, <3>1
    <3> QED BY <1>3, <3>2
  <2>3. PICK n \in 2..N : /\ Sets(lines[n], K, h[i].value)
                          /\ \A k \in 2..N : k > n => ~Names(lines[k], K)
    <3>1. PICK n \in Named(lines) : /\ Sets(lines[n], h[i].key, h[i].value)
                                    /\ \A k \in Named(lines) : k > n => ~Names(lines[k], h[i].key)
          BY <1>3, <1>6
    <3>2. n \in 2..N /\ \A k \in 2..N : k \in Named(lines)
          BY <1>5
    <3>3. Sets(lines[n], K, h[i].value)
          BY <2>2, <3>1
    <3>4. \A k \in 2..N : k > n => ~Names(lines[k], K)
          BY <2>2, <3>1, <3>2
    <3> QED BY <3>2, <3>3, <3>4
  <2>4. lines[n] \in Seq(B) /\ Contains(lines[n], ":") /\ n \in 1..N
    <3>1. n \in 1..N
          BY <1>1
    <3>2. lines[n] \in D
          BY <1>1, <3>1
    <3>3. Contains(lines[n], ":")
          BY <1>2
    <3> QED BY <3>1, <3>2, <3>3 DEF D
  <2>5. /\ K = Before(lines[n], ":") /\ h[i].value = Trimmed(After(lines[n], ":"))
        /\ Sets(lines[n], K, <<"close">>) <=> K = Before(lines[n], ":") /\ <<"close">> = Trimmed(After(lines[n], ":"))
        BY <2>3, <2>4, SetsExactly
  <2>6. n \in about /\ about \subseteq Nat /\ \A k \in about : k <= n
    <3>1. n \in about
          BY <1>5, <2>5 DEF Names
    <3>2. ASSUME NEW k \in about PROVE k \in Nat /\ k <= n
          BY <1>1, <1>5, <2>3
    <3> QED BY <3>1, <3>2
  <2>7. Max(about) = n
        BY <2>6, MaxIs
  <2>8. found = h[i].value /\ h[i].value # NULL
    <3>1. headers_get(h, h[i].key) = h[i].value
          BY <1>3, GetsIt
    <3> QED BY <1>3, <2>2, <3>1 DEF found, D
  <2>9. AsksToClose(all) <=> h[i].value = <<"close">>
        BY <1>1, <1>7, <1>10, <2>4, <2>5, <2>7
  <2> QED BY <2>8, <2>9 DEF all, found, K
<1> QED BY <1>9, <1>10

\* A request starts at its first empty line, with nothing read beyond it, and is kept or
\* not as its last Connection header, or else its protocol, asks for (StartsAtEmptyLine).
THEOREM ReaderStartsAtEmptyLine == Spec => StartsAtEmptyLine
<1>1. IInv /\ [Next]_vars =>
        LET lines == LinesOf(taken')
        IN state = "OPENED" /\ state' \in {"KEEP_ALIVE", "PROCESSING"} =>
             /\ OpenLine(taken') = <<>>
             /\ \A n \in DOMAIN lines : lines[n] = <<>> <=> n = Len(lines)
             /\ state' = "PROCESSING" <=> AsksToClose(lines)
  <2> DEFINE all == LinesOf(taken')  lines == LinesOf(taken)
  <2> SUFFICES ASSUME IInv, [Next]_vars, state = "OPENED", state' \in {"KEEP_ALIVE", "PROCESSING"}
               PROVE  /\ OpenLine(taken') = <<>>
                      /\ \A n \in DOMAIN all : all[n] = <<>> <=> n = Len(all)
                      /\ state' = "PROCESSING" <=> AsksToClose(all)
      OBVIOUS
  <2>1. PICK c \in ToSet(sock) : ReadEnd(c)
    <3>1. ~ReadEof /\ ~ReadFails /\ ~resetPersistentConnection /\ ~ReadAgain /\ ~ClientClose /\ ~Wake
          /\ ~UNCHANGED vars
          BY DEF ReadEof, ReadFails, resetPersistentConnection, ReadAgain, ClientClose, Wake, vars, Drop
    <3>2. \A line \in Lines : ~ClientSend(line)
          BY DEF ClientSend
    <3>3. \A c \in ToSet(sock) : /\ ~ReadByte(c) /\ ~ReadRequestLine(c) /\ ~ReadHeader(c)
                                 /\ ~UriOverflows(c) /\ ~BadLine(c) /\ ~LengthWraps(c)
          BY DEF ReadByte, ReadRequestLine, ReadHeader, UriOverflows, BadLine, LengthWraps, LineDone, Drop
    <3> QED BY <3>1, <3>2, <3>3 DEF Next
  <2>2. /\ OpenLine(taken') = <<>> /\ all = Append(lines, <<>>)
        /\ lines # <<>> /\ lines \in Seq(Seq(Bytes)) /\ lines[1] \in Seq(Bytes)
        /\ Told(lines, metaData, headers, "OPENED")
        /\ metaData \in MetaDatas
        BY <2>1, EndsTheRequest
  <2> HIDE DEF lines, all
  <2>3. ~MetadataError(lines[1]) /\ metaData = headers_metadata(lines[1])
        BY <2>2 DEF Told
  <2>4. Parts(lines[1]) # {} /\ \A part \in Parts(lines[1]) : part.protocol = metaData.protocol
        BY <2>2, <2>3, PartsAreWords DEF headers_metadata
  <2>5. /\ Len(all) = Len(lines) + 1 /\ Len(lines) \in Nat \ {0} /\ all[Len(lines) + 1] = <<>>
        /\ \A n \in 1..Len(lines) : all[n] = lines[n]
        /\ DOMAIN all = 1..Len(all)
    <3>1. <<>> \in Seq(Bytes)
          OBVIOUS
    <3>2. Append(lines, <<>>) \in Seq(Seq(Bytes)) /\ Len(lines) \in Nat \ {0}
          BY <2>2, <3>1, OneMore, EmptySeq
    <3>3. DOMAIN all = 1..Len(all)
          BY <2>2, <3>2, LenProperties
    <3> QED BY <2>2, <3>1, <3>2, <3>3, OneMore
  <2>6. lines[1] # <<>>
    <3>1. PICK a \in 1..Len(lines[1]) : TRUE
          BY <2>2, <2>3, HasThreeWords
    <3> QED BY <3>1
  <2>7. ASSUME NEW n \in DOMAIN all PROVE all[n] = <<>> <=> n = Len(all)
    <3>1. CASE n = Len(lines) + 1
          BY <2>5, <3>1
    <3>2. CASE n = 1
          BY <2>5, <2>6, <3>2
    <3>3. CASE n # Len(lines) + 1 /\ n # 1
      <4>1. n \in 2..Len(lines) /\ n \in 1..Len(lines)
            BY <2>5, <3>3
      <4> QED BY <2>2, <2>5, <3>3, <4>1 DEF Told
    <3> QED BY <3>1, <3>2, <3>3
  <2>8. state' = "PROCESSING" <=> ~isPersistent
        BY <2>1 DEF ReadEnd
  <2>9. AsksToClose(all) <=> ~isPersistent
    <3>1. headers \in HeaderLists(Seq(Bytes), Seq(Bytes))
          BY DEF IInv, Typed
    <3>2. NULL \notin Seq(Bytes)
          BY ReaderAssumption
    <3>3. AsksToClose(Append(lines, <<>>)) <=>
            LET found == headers_get(headers, ConnectionKey)
            IN IF found = NULL THEN metaData.protocol = "HTTP/1.0" ELSE found = <<"close">>
          BY <2>2, <2>4, <3>1, <3>2, AsksIt
    <3> QED BY <2>2, <3>3 DEF isPersistent, ConnectionKey
  <2> QED BY <2>2, <2>7, <2>8, <2>9
<1> QED BY <1>1, ReaderInvariant, PTL DEF Spec, StartsAtEmptyLine
=============================================================================
