-------------------------- MODULE ListShapeProofs --------------------------
(***************************************************************************)
(* The shape of the list of src/linked.c when one thread at most calls     *)
(* linked_unlink: which link leads to which while links are appended,      *)
(* taken out and destroyed, for any number of links and threads; and the   *)
(* links that following next meets, from one end to the other. From them,  *)
(* that the list keeps what ListPromise says, step by step, and that a     *)
(* pass over it misses nothing.                                            *)
(***************************************************************************)
EXTENDS LinkedListPass, LinkedListProofs, SequenceTheorems

\* linked_unlink is called by one thread at most, as for the two lists of the
\* server, where only the cleanup thread calls it (networking.c:87, 105).
SoleUnlinker == \A t, u \in Unlinkers : t = u

InList == Members \cup {List}

Destroying(t) == pc[t] \in {"destroy_link", "destroy_next"}

\* linked_destroy has taken the last link out.
Over == mem[List] = "freed" \/ \E t \in Threads : Destroying(t) /\ cur[t] = NULL

\* The successor of n is being, or was, redirected past n by linked_unlink.
Redirected(n) == \E t \in Threads : pc[t] = "unlink_do" /\ at[t] = n

\* next leads from list->first through the members, each met from one other.
Linear ==
  /\ \A l \in Members : \E n \in InList : next[n] = l
  /\ \A n \in Members : next[n] \in Members \cup {NULL}
  /\ \A n, m \in InList : next[n] = next[m] /\ next[n] # NULL => n = m
  /\ ~Over => next[List] \in Members \cup {NULL}
  /\ Over => /\ next[List] \notin Members
             /\ next[List] # NULL => /\ next[next[List]] = NULL
                                     /\ prev[next[List]] = List

\* prev leads back, and never to a link that was taken out.
Backed ==
  /\ \A n \in InList : next[n] \in Members =>
       prev[next[n]] = IF Redirected(n) THEN prev[n] ELSE n
  /\ \A l, p \in Links : prev[l] = p /\ next[p] = l => p \in Members

\* Where the threads stand: who has locked a predecessor has one in the list.
Placed ==
  /\ mem[List] # "fresh"
  /\ mem[List] = "freed" => mutex[List] = NULL
  /\ \A t \in Threads :
       /\ pc[t] \in {"unlink_prev", "unlink_lock_prev", "unlink_check",
                     "unlink_lock", "unlink_next", "unlink_do"} => t \in Unlinkers
       /\ pc[t] = "push_walk" => cur[t] \in InList
       /\ pc[t] = "unlink_lock_prev" /\ next[cur[t]] = at[t] => cur[t] \in InList
       /\ pc[t] \in {"unlink_lock", "unlink_next", "unlink_do"}
            => cur[t] \in InList /\ at[t] \in Members /\ prev[at[t]] = cur[t]

Shape == Linear /\ Backed /\ Placed

-----------------------------------------------------------------------------
LEMMA MembersQuiet ==
  ASSUME Settled, NEW t \in Threads, Step(t) \/ Call(t),
         ~PushAppend(t), ~UnlinkDo(t), ~DestroyNext(t)
  PROVE  Members' = Members
<1> USE ListAssumption DEF Settled, Typed, TypeOK, Locals, Nodes, Ptr, In, Goto,
                          heap, Members, Pushing, Secluded, Private
<1>1. ASSUME PushLockList(t) PROVE Members' = Members
      BY <1>1 DEF PushLockList
<1>2. ASSUME PushWalk(t) PROVE Members' = Members
      BY <1>2 DEF PushWalk
<1>3. ASSUME FirstLockList(t) PROVE Members' = Members
      BY <1>3 DEF FirstLockList
<1>4. ASSUME FirstTake(t) PROVE Members' = Members
      BY <1>4 DEF FirstTake
<1>5. ASSUME NextStep(t) PROVE Members' = Members
      BY <1>5 DEF NextStep, StepTo, FreeIf
<1>6. ASSUME UnlinkPrev(t) PROVE Members' = Members
      BY <1>6 DEF UnlinkPrev
<1>7. ASSUME UnlinkLockPrev(t) PROVE Members' = Members
      BY <1>7 DEF UnlinkLockPrev
<1>8. ASSUME UnlinkCheck(t) PROVE Members' = Members
      BY <1>8 DEF UnlinkCheck
<1>9. ASSUME UnlinkLock(t) PROVE Members' = Members
      BY <1>9 DEF UnlinkLock
<1>10. ASSUME UnlinkNext(t) PROVE Members' = Members
      BY <1>10 DEF UnlinkNext
<1>11. ASSUME DestroyLockList(t) PROVE Members' = Members
      BY <1>11 DEF DestroyLockList
<1>12. ASSUME DestroyLink(t) PROVE Members' = Members
      BY <1>12 DEF DestroyLink
<1>13. ASSUME DestroyList(t) PROVE Members' = Members
      BY <1>13 DEF DestroyList
<1>14. ASSUME PushAlloc(t) PROVE Members' = Members
      BY <1>14 DEF PushAlloc
<1>15. ASSUME FirstCall(t) PROVE Members' = Members
      BY <1>15 DEF FirstCall
<1>16. ASSUME NextLock(t) PROVE Members' = Members
      BY <1>16 DEF NextLock
<1>17. ASSUME Release(t) PROVE Members' = Members
      BY <1>17 DEF Release, FreeIf
<1>18. ASSUME UnlinkCall(t) PROVE Members' = Members
      BY <1>18 DEF UnlinkCall
<1>19. ASSUME DestroyCall(t) PROVE Members' = Members
      BY <1>19 DEF DestroyCall
<1> QED BY <1>1, <1>2, <1>3, <1>4, <1>5, <1>6, <1>7, <1>8, <1>9, <1>10, <1>11,
           <1>12, <1>13, <1>14, <1>15, <1>16, <1>17, <1>18, <1>19 DEF Step,
           Call

LEMMA MembersPush ==
  ASSUME Settled, NEW t \in Threads, PushAppend(t)
  PROVE  /\ at[t] \in Links \ Members
         /\ Members' = Members \cup {at[t]}
<1> USE ListAssumption DEF Settled, Typed, TypeOK, Locals, Nodes, Ptr, In, Goto,
                          Members, Pushing, Secluded, Private, PushAppend
<1>1. at[t] \in Links \ Members
      OBVIOUS
<1>2. Members' = Members \cup {at[t]}
  <2>1. \A l \in Links : l \in Members' => l \in Members \/ l = at[t]
        OBVIOUS
  <2>2. \A l \in Links : l \in Members => l \in Members'
        OBVIOUS
  <2>3. at[t] \in Members'
        OBVIOUS
  <2> QED BY <2>1, <2>2, <2>3
<1> QED BY <1>1, <1>2

LEMMA MembersTaken ==
  ASSUME Settled, NEW t \in Threads, UnlinkDo(t)
  PROVE  Members' = Members \ {at[t]}
BY DEF Settled, Typed, TypeOK, Locals, Nodes, Ptr, In, Goto,
       Members, Pushing, UnlinkDo, TakeOut, FreeIf

LEMMA MembersCleared ==
  ASSUME Settled, NEW t \in Threads, DestroyNext(t)
  PROVE  Members' = Members \ {cur[t]}
BY DEF Settled, Typed, TypeOK, Locals, Nodes, Ptr, In, Goto,
       Members, Pushing, DestroyNext, Clear, FreeIf

\* Once linked_destroy has nothing left to take out, no link is in the list.
LEMMA OverIsEmpty ==
  ASSUME Settled, Linear, Over PROVE Members = {}
<1>1. PICK r : Ranking(r)
      BY DEF Settled, Ordered
<1> DEFINE K == {r[l] : l \in Members}
<1>2. Members \subseteq Nodes /\ NULL \notin Members
      BY ListAssumption DEF Members, Nodes
<1>3. K \subseteq Nat
      BY <1>1, <1>2 DEF Ranking
<1>4. ASSUME Members # {} PROVE FALSE
  <2>1. PICK k \in K : \A j \in K : k <= j
    <3>1. K # {}
          BY <1>4
    <3> HIDE DEF K
    <3> QED BY <1>3, <3>1, Minimum
  <2>2. PICK l \in Members : k = r[l]
        OBVIOUS
  <2>3. PICK n \in InList : next[n] = l
        BY DEF Linear
  <2>4. n \in Members
        BY <2>2, <2>3 DEF Linear, InList
  <2>5. r[n] < r[l] /\ r[n] \in Nat /\ r[l] \in Nat
        BY <1>1, <1>2, <2>2, <2>3, <2>4 DEF Ranking
  <2> QED BY <2>1, <2>2, <2>4, <2>5
<1> QED BY <1>4

-----------------------------------------------------------------------------
LEMMA ListFree ==
  ASSUME Settled, Placed, Free(List) \/ \E t \in Threads : mutex[List] = t /\ ~Destroying(t)
  PROVE  ~Over
<1>1. mem[List] # "freed"
      BY ListAssumption DEF Placed, Free
<1>2. \A u \in Threads : Destroying(u) => mutex[List] = u
      BY DEF Settled, Owned, Holds, Destroying, Nodes
<1> QED BY <1>1, <1>2, ListAssumption DEF Over, Free

LEMMA DestroyNotOver ==
  ASSUME Settled, Placed, NEW t \in Threads, Destroying(t), cur[t] # NULL
  PROVE  ~Over
<1>1. mem[List] # "freed"
  <2>1. mutex[List] = t
        BY DEF Settled, Owned, Holds, Destroying, Nodes
  <2> QED BY <2>1, ListAssumption DEF Placed
<1>2. \A u \in Threads : Destroying(u) => mutex[List] = u
      BY DEF Settled, Owned, Holds, Destroying, Nodes
<1> QED BY <1>1, <1>2 DEF Over

-----------------------------------------------------------------------------
(* linked_push: the new link goes behind the last one.                     *)

LEMMA PushFacts ==
  ASSUME Settled, Shape, NEW t \in Threads, PushAppend(t)
  PROVE  /\ at[t] \in Links \ Members /\ Members' = Members \cup {at[t]}
         /\ cur[t] \in InList /\ next[cur[t]] = NULL /\ ~Over /\ ~Over'
         /\ next' = [next EXCEPT ![cur[t]] = at[t]]
         /\ prev' = [prev EXCEPT ![at[t]] = cur[t]]
         /\ next[at[t]] = NULL /\ (\A n \in Nodes : next[n] # at[t])
         /\ (\A x \in Links : prev[x] # at[t])
         /\ (\A u \in Threads : at[u] = at[t] => Pushing(u))
         /\ (\A u \in Threads : cur[u] # at[t])
<1>1. /\ at[t] \in Links \ Members /\ Members' = Members \cup {at[t]}
      BY MembersPush
<1>2. /\ cur[t] \in InList /\ next[cur[t]] = NULL /\ pc[t] = "push_walk"
      /\ mutex[cur[t]] = t /\ mem' = mem /\ pc' = [pc EXCEPT ![t] = "idle"]
      /\ cur' = [cur EXCEPT ![t] = NULL]
      /\ next' = [next EXCEPT ![cur[t]] = at[t]]
      /\ prev' = [prev EXCEPT ![at[t]] = cur[t]]
      BY DEF PushAppend, In, Goto, Shape, Placed, Settled, Owned, Holds, Typed,
         Locals
<1>3. ~Over
  <2>1. CASE cur[t] = List
        BY <1>2, <2>1, ListFree DEF Shape, Destroying
  <2>2. CASE cur[t] \in Members
        BY <2>2, OverIsEmpty DEF Shape
  <2> QED BY <1>2, <2>1, <2>2 DEF InList
<1>4. ~Over'
      BY <1>2, <1>3 DEF Over, Destroying, Settled, Typed, TypeOK
<1>5. /\ next[at[t]] = NULL /\ (\A n \in Nodes : next[n] # at[t])
      /\ (\A x \in Links : prev[x] # at[t])
      /\ (\A u \in Threads : at[u] = at[t] => Pushing(u))
      /\ (\A u \in Threads : cur[u] # at[t])
  <2>1. Private(at[t])
        BY <1>2 DEF Private, Pushing
  <2> QED BY <1>1, <2>1 DEF Settled, Secluded
<1> QED BY <1>1, <1>2, <1>3, <1>4, <1>5

LEMMA PushLinear ==
  ASSUME Settled, Shape, NEW t \in Threads, PushAppend(t) PROVE Linear'
<1> PICK l \in Links, c \in InList : l = at[t] /\ c = cur[t]
    BY PushFacts
<1>1. /\ l \notin Members /\ Members' = Members \cup {l} /\ ~Over'
      /\ next[c] = NULL /\ next[l] = NULL /\ \A n \in Nodes : next[n] # l
      /\ next[List] \in Members \cup {NULL}
      BY PushFacts DEF Shape, Linear
<1>2. InList \subseteq Nodes /\ InList' = InList \cup {l} /\ l \notin InList
      /\ l # NULL
      BY <1>1, ListAssumption DEF InList, Members, Nodes
<1>3. \A n \in Nodes : next'[n] = IF n = c THEN l ELSE next[n]
      BY <1>2, PushFacts DEF Settled, Typed, TypeOK
<1>4. \A x \in Members' : \E n \in InList' : next'[n] = x
  <2>1. ASSUME NEW x \in Members PROVE \E n \in InList' : next'[n] = x
    <3>1. PICK n \in InList : next[n] = x
          BY DEF Shape, Linear
    <3>2. n # c
          BY <1>1, <3>1, ListAssumption DEF Members
    <3> QED BY <1>2, <1>3, <3>1, <3>2
  <2>2. next'[c] = l
        BY <1>2, <1>3
  <2> QED BY <1>1, <1>2, <2>1, <2>2
<1>5. \A n \in Members' : next'[n] \in Members' \cup {NULL}
      BY <1>1, <1>2, <1>3 DEF Shape, Linear, InList, Members, Nodes
<1>6. ASSUME NEW n \in InList', NEW m \in InList', next'[n] = next'[m],
             next'[n] # NULL
      PROVE  n = m
  <2>1. next'[l] = NULL
        BY <1>1, <1>2, <1>3 DEF Nodes
  <2>2. n \in InList /\ m \in InList /\ n \in Nodes /\ m \in Nodes
        BY <1>2, <1>6, <2>1
  <2>3. CASE n = c \/ m = c
        BY <1>1, <1>3, <1>6, <2>2, <2>3
  <2>4. CASE n # c /\ m # c
        BY <1>3, <1>6, <2>2, <2>4 DEF Shape, Linear
  <2> QED BY <2>3, <2>4
<1>7. next'[List] \in Members' \cup {NULL}
      BY <1>1, <1>2, <1>3 DEF Nodes
<1> QED BY <1>1, <1>4, <1>5, <1>6, <1>7 DEF Linear

LEMMA PushBacked ==
  ASSUME Settled, Shape, NEW t \in Threads, PushAppend(t) PROVE Backed'
<1> PICK l \in Links, c \in InList : l = at[t] /\ c = cur[t]
    BY PushFacts
<1>1. /\ l \notin Members /\ Members' = Members \cup {l}
      /\ next[l] = NULL /\ (\A n \in Nodes : next[n] # l)
      /\ \A x \in Links : prev[x] # l
      BY PushFacts
<1>2. InList \subseteq Nodes /\ InList' = InList \cup {l} /\ l \notin InList
      /\ l # NULL /\ List \notin Links
      BY <1>1, ListAssumption DEF InList, Members, Nodes
<1>3. /\ \A n \in Nodes : next'[n] = IF n = c THEN l ELSE next[n]
      /\ \A x \in Links : prev'[x] = IF x = l THEN c ELSE prev[x]
      BY <1>2, PushFacts DEF Settled, Typed, TypeOK
<1>4. \A n : Redirected(n)' = Redirected(n)
  <2>1. pc[t] = "push_walk" /\ pc' = [pc EXCEPT ![t] = "idle"]
        /\ at' = [at EXCEPT ![t] = NULL]
        BY DEF PushAppend, In, Goto
  <2> QED BY <2>1 DEF Redirected, Settled, Typed, TypeOK
<1>5. ~Redirected(c)
  <2>1. mutex[c] = t /\ pc[t] = "push_walk"
        BY <1>2 DEF PushAppend, In, Settled, Owned, Holds
  <2>2. \A u \in Threads : pc[u] = "unlink_do" /\ at[u] = c => mutex[c] = u
        BY <1>2 DEF Settled, Owned, Holds
  <2> QED BY <2>1, <2>2 DEF Redirected
<1>6. ASSUME NEW n \in InList', next'[n] \in Members'
      PROVE  prev'[next'[n]] = IF Redirected(n)' THEN prev'[n] ELSE n
  <2>1. CASE n = c
        BY <1>2, <1>3, <1>4, <1>5, <2>1
  <2>2. CASE n # c
    <3>1. n # l /\ n \in InList /\ next'[n] = next[n] /\ next[n] \in Members
      <4>1. n \in Nodes /\ l \in Nodes /\ NULL \notin Members'
            BY <1>1, <1>2, ListAssumption DEF Members, Nodes
      <4>2. n # l
            BY <1>1, <1>3, <1>6, <2>2, <4>1
      <4>3. next'[n] = next[n] /\ n \in InList
            BY <1>2, <1>3, <2>2, <4>1, <4>2
      <4> QED BY <1>1, <1>6, <4>1, <4>2, <4>3
    <3>2. next[n] \in Links /\ prev'[next[n]] = prev[next[n]]
          BY <1>1, <1>2, <1>3, <3>1 DEF Members
    <3>3. prev[next[n]] = IF Redirected(n) THEN prev[n] ELSE n
          BY <3>1 DEF Shape, Backed
    <3>4. Redirected(n) => n \in Links
          BY DEF Redirected, Settled, Typed, Locals
    <3>5. n \in Links => prev'[n] = prev[n]
          BY <1>3, <3>1
    <3> QED BY <1>4, <3>1, <3>2, <3>3, <3>4, <3>5
  <2> QED BY <2>1, <2>2
<1>7. ASSUME NEW x \in Links, NEW p \in Links, prev'[x] = p, next'[p] = x
      PROVE  p \in Members'
  <2>1. CASE x = l
        BY <1>1, <1>2, <1>3, <1>7, <2>1 DEF InList
  <2>2. CASE x # l
        BY <1>1, <1>2, <1>3, <1>7, <2>2 DEF Shape, Backed, Nodes
  <2> QED BY <2>1, <2>2
<1> QED BY <1>6, <1>7 DEF Backed

-----------------------------------------------------------------------------
(* linked_unlink: first prev of the successor, then next of the            *)
(* predecessor, is led past the link.                                      *)

LEMMA SoleRedirect ==
  ASSUME Settled, Shape, SoleUnlinker, NEW t \in Threads, NEW u \in Threads,
         pc[t] \in {"unlink_prev", "unlink_lock_prev", "unlink_check",
                   "unlink_lock", "unlink_next", "unlink_do"},
         pc[u] = "unlink_do"
  PROVE  u = t
BY DEF Shape, Placed, SoleUnlinker

\* A link is not its own successor.
LEMMA NextIsOther ==
  ASSUME Settled, NEW n \in Nodes PROVE next[n] # n
<1>1. PICK r : Ranking(r)
      BY DEF Settled, Ordered
<1> QED BY <1>1, ListAssumption DEF Ranking, Nodes

LEMMA UnlinkFacts ==
  ASSUME Settled, Shape, NEW t \in Threads, pc[t] \in {"unlink_next", "unlink_do"}
  PROVE  /\ at[t] \in Members /\ cur[t] \in InList /\ cur[t] # at[t]
         /\ next[cur[t]] = at[t] /\ prev[at[t]] = cur[t] /\ ~Over
         /\ next[at[t]] \in Members \cup {NULL} /\ next[at[t]] # at[t]
         /\ Members \subseteq Links /\ InList \subseteq Nodes
         /\ NULL \notin Links /\ List \notin Links
<1>1. /\ at[t] \in Members /\ cur[t] \in InList /\ next[cur[t]] = at[t]
      /\ prev[at[t]] = cur[t]
      BY DEF Shape, Placed, Settled, Aimed
<1>2. Members \subseteq Links /\ InList \subseteq Nodes
      BY DEF Members, InList, Nodes
<1>3. ~Over
      BY <1>1, OverIsEmpty DEF Shape
<1>4. next[at[t]] \in Members \cup {NULL}
      BY <1>1 DEF Shape, Linear
<1>5. cur[t] # at[t] /\ next[at[t]] # at[t]
      BY <1>1, <1>2, NextIsOther DEF Nodes
<1> QED BY <1>1, <1>2, <1>3, <1>4, <1>5, ListAssumption

LEMMA UnlinkNextShape ==
  ASSUME Settled, Shape, SoleUnlinker, NEW t \in Threads, UnlinkNext(t)
  PROVE  Linear' /\ Backed'
<1>1. /\ pc[t] = "unlink_next" /\ pc' = [pc EXCEPT ![t] = "unlink_do"]
      /\ next' = next /\ mem' = mem /\ at' = at /\ cur' = cur
      /\ prev' = [x \in Links |-> IF x = next[at[t]] THEN prev[at[t]] ELSE prev[x]]
      BY DEF UnlinkNext, In, Goto
<1> PICK l \in Links, p \in InList : l = at[t] /\ p = cur[t]
    BY <1>1, UnlinkFacts
<1> DEFINE n == next[l]
<1>2. /\ l \in Members /\ p # l /\ next[p] = l /\ prev[l] = p /\ ~Over
      /\ n \in Members \cup {NULL} /\ n # l
      /\ Members \subseteq Links /\ InList \subseteq Nodes
      /\ NULL \notin Links /\ List \notin Links
      BY <1>1, UnlinkFacts
<1>3. Members' = Members /\ InList' = InList
  <2>1. Members' = Members
        BY <1>1, MembersQuiet DEF Step, PushAppend, UnlinkDo, TakeOut,
           DestroyNext,
                                  Clear, In
  <2> QED BY <2>1 DEF InList
<1>4. ~Over'
      BY <1>1, <1>2 DEF Over, Destroying, Settled, Typed, TypeOK
<1>5. Linear'
      BY <1>1, <1>2, <1>3, <1>4 DEF Shape, Linear
<1>6. \A m : ~Redirected(m) /\ (Redirected(m)' <=> m = l)
  <2>1. \A u \in Threads : pc[u] # "unlink_do"
        BY <1>1, SoleRedirect
  <2> QED BY <1>1, <2>1 DEF Redirected, Settled, Typed, TypeOK
<1>7. ASSUME NEW m \in InList, next[m] \in Members
      PROVE  prev'[next[m]] = IF Redirected(m)' THEN prev'[m] ELSE m
  <2>1. CASE m = l
        BY <1>1, <1>2, <1>6, <1>7, <2>1
  <2>2. CASE m # l
    <3>1. next[m] # n
          BY <1>2, <1>7, <2>2 DEF Shape, Linear, InList
    <3>2. prev[next[m]] = m
          BY <1>6, <1>7 DEF Shape, Backed
    <3> QED BY <1>1, <1>2, <1>6, <1>7, <2>2, <3>1, <3>2
  <2> QED BY <2>1, <2>2
<1>8. ASSUME NEW x \in Links, NEW q \in Links, prev'[x] = q, next[q] = x
      PROVE  q \in Members
  <2>1. CASE x = n
        BY <1>1, <1>2, <1>8, <2>1 DEF InList
  <2>2. CASE x # n
        BY <1>1, <1>8, <2>2 DEF Shape, Backed
  <2> QED BY <2>1, <2>2
<1> QED BY <1>1, <1>3, <1>5, <1>7, <1>8 DEF Backed

LEMMA UnlinkDoShape ==
  ASSUME Settled, Shape, SoleUnlinker, NEW t \in Threads, UnlinkDo(t)
  PROVE  Linear' /\ Backed'
<1>1. /\ pc[t] = "unlink_do" /\ pc' = [pc EXCEPT ![t] = "idle"]
      /\ at' = at /\ cur' = [cur EXCEPT ![t] = NULL] /\ prev' = prev
      /\ next' = [next EXCEPT ![cur[t]] = next[at[t]], ![at[t]] = next[at[t]]]
      /\ mem' \in {mem, [mem EXCEPT ![at[t]] = "freed"]}
      BY DEF UnlinkDo, TakeOut, FreeIf, In, Goto
<1> PICK l \in Links, p \in InList : l = at[t] /\ p = cur[t]
    BY <1>1, UnlinkFacts
<1> DEFINE n == next[l]
<1>2. /\ l \in Members /\ p # l /\ next[p] = l /\ prev[l] = p /\ ~Over
      /\ n \in Members \cup {NULL} /\ n # l
      /\ Members \subseteq Links /\ InList \subseteq Nodes
      /\ NULL \notin Links /\ List \notin Links
      BY <1>1, UnlinkFacts
<1>3. Members' = Members \ {l} /\ InList' = InList \ {l}
  <2>1. Members' = Members \ {l}
        BY MembersTaken
  <2> QED BY <1>2, <2>1 DEF InList
<1>4. ~Over'
      BY <1>1, <1>2 DEF Over, Destroying, Settled, Typed, TypeOK, Nodes
<1>5. \A m \in Nodes : next'[m] = IF m = p THEN n ELSE next[m]
      BY <1>1, <1>2 DEF Settled, Typed, TypeOK
<1>6. \A m \in InList : m # l /\ next[m] # NULL => next[m] # n
      BY <1>2 DEF Shape, Linear, InList
<1>7. Linear'
  <2>1. ASSUME NEW x \in Members' PROVE \E m \in InList' : next'[m] = x
    <3>1. PICK m \in InList : next[m] = x
          BY <1>3 DEF Shape, Linear
    <3>2. CASE m = l
          BY <1>2, <1>3, <1>5, <3>1, <3>2
    <3>3. CASE m # l
          BY <1>2, <1>3, <1>5, <3>1, <3>3
    <3> QED BY <3>2, <3>3
  <2>2. ASSUME NEW m \in InList, m # l, next[m] \in Members \cup {NULL}
        PROVE  next'[m] \in Members' \cup {NULL}
    <3>1. CASE m = p
          BY <1>2, <1>3, <1>5, <3>1
    <3>2. CASE m # p
          BY <1>2, <1>3, <1>5, <2>2, <3>2 DEF Shape, Linear
    <3> QED BY <3>1, <3>2
  <2>3. \A m \in Members' : next'[m] \in Members' \cup {NULL}
        BY <1>3, <2>2 DEF Shape, Linear, InList
  <2>4. next'[List] \in Members' \cup {NULL}
        BY <1>2, <2>2 DEF Shape, Linear, InList
  <2>5. ASSUME NEW m \in InList', NEW k \in InList', next'[m] = next'[k],
               next'[m] # NULL
        PROVE  m = k
    <3>1. m \in InList /\ k \in InList /\ m # l /\ k # l /\ m \in Nodes /\ k \in Nodes
          BY <1>2, <1>3
    <3> QED BY <1>5, <1>6, <2>5, <3>1 DEF Shape, Linear
  <2> QED BY <1>4, <2>1, <2>3, <2>4, <2>5 DEF Linear
<1>8. \A m : (Redirected(m) <=> m = l) /\ ~Redirected(m)'
  <2>1. \A u \in Threads : pc[u] = "unlink_do" <=> u = t
        BY <1>1, SoleRedirect
  <2> QED BY <1>1, <2>1 DEF Redirected, Settled, Typed, TypeOK
<1>9. ASSUME NEW m \in InList', next'[m] \in Members'
      PROVE  prev'[next'[m]] = IF Redirected(m)' THEN prev'[m] ELSE m
  <2>1. CASE m = p
    <3>1. next'[m] = n /\ n \in Members
          BY <1>2, <1>3, <1>5, <1>9, <2>1
    <3>2. prev[n] = prev[l]
          BY <1>2, <1>8, <3>1 DEF Shape, Backed, InList
    <3> QED BY <1>1, <1>2, <1>8, <2>1, <3>1, <3>2
  <2>2. CASE m # p
    <3>1. m \in InList /\ m # l /\ next'[m] = next[m] /\ next[m] \in Members
          BY <1>2, <1>3, <1>5, <1>9, <2>2
    <3>2. prev[next[m]] = m
          BY <1>8, <3>1 DEF Shape, Backed
    <3> QED BY <1>1, <1>8, <3>1, <3>2
  <2> QED BY <2>1, <2>2
<1>10. ASSUME NEW x \in Links, NEW q \in Links, prev'[x] = q, next'[q] = x
       PROVE  q \in Members'
  <2>1. CASE q = p
        BY <1>2, <1>3, <2>1 DEF InList
  <2>2. CASE q = l
    <3>1. x = n /\ n \in Members
          BY <1>2, <1>5, <1>10, <2>2 DEF Nodes
    <3>2. prev[n] = prev[l]
          BY <1>2, <1>8, <3>1 DEF Shape, Backed, InList
    <3> QED BY <1>1, <1>2, <1>10, <2>2, <3>1, <3>2
  <2>3. CASE q # p /\ q # l
        BY <1>1, <1>3, <1>5, <1>10, <2>3 DEF Shape, Backed, Nodes
  <2> QED BY <2>1, <2>2, <2>3
<1> QED BY <1>7, <1>9, <1>10 DEF Backed

-----------------------------------------------------------------------------
(* linked_destroy takes the first link out, again and again.               *)

LEMMA DestroyNextShape ==
  ASSUME Settled, Shape, NEW t \in Threads, DestroyNext(t)
  PROVE  Linear' /\ Backed'
<1>1. /\ pc[t] = "destroy_next" /\ pc' = [pc EXCEPT ![t] = "destroy_link"]
      /\ cur[t] \in Links /\ at' = at /\ cur' = [cur EXCEPT ![t] = next[cur[t]]]
      /\ next' = [next EXCEPT ![List] = IF next[cur[t]] = NULL THEN @ ELSE next[cur[t]],
                              ![cur[t]] = NULL]
      /\ prev' = [x \in Links |-> IF x = next[cur[t]] THEN List ELSE prev[x]]
      /\ mem' \in {mem, [mem EXCEPT ![cur[t]] = "freed"]}
      BY DEF DestroyNext, Clear, FreeIf, In, Goto, Settled, Typed, Locals
<1> PICK l \in Links : l = cur[t]
    BY <1>1
<1> DEFINE n == next[l]
<1>2. /\ NULL \notin Links /\ List \notin Links /\ List # NULL /\ List \in InList
      /\ Members \subseteq Links /\ InList \subseteq Nodes /\ l \in Nodes
      BY ListAssumption DEF InList, Members, Nodes
<1>3. mutex[List] = t /\ mutex[l] = t
      BY <1>1, <1>2 DEF Settled, Owned, Holds, Nodes
<1>4. ~Over
      BY <1>1, <1>2, DestroyNotOver DEF Shape, Destroying
<1>5. next[List] = l /\ l \in Members /\ n \in Members \cup {NULL} /\ n # l
  <2>1. next[List] = l
        BY <1>1, <1>2 DEF Settled, Aimed
  <2>2. l \in Members
        BY <1>2, <1>4, <2>1 DEF Shape, Linear
  <2>3. n \in Members \cup {NULL}
        BY <2>2 DEF Shape, Linear
  <2> QED BY <1>2, <2>1, <2>2, <2>3, NextIsOther
<1>6. Members' = Members \ {l} /\ InList' = InList \ {l}
  <2>1. Members' = Members \ {l}
        BY MembersCleared
  <2> QED BY <1>2, <2>1 DEF InList
<1>7. Over' <=> n = NULL
  <2>1. mem'[List] = mem[List] /\ mem[List] # "freed"
        BY <1>1, <1>2, <1>4 DEF Over, Settled, Typed, TypeOK, Nodes
  <2>2. \A u \in Threads : Destroying(u) => mutex[List] = u
        BY DEF Settled, Owned, Holds, Destroying, Nodes
  <2>3. \A u \in Threads : Destroying(u)' <=> u = t
        BY <1>1, <1>3, <2>2 DEF Destroying, Settled, Typed, TypeOK
  <2>4. cur'[t] = n
        BY <1>1 DEF Settled, Typed, TypeOK
  <2> QED BY <2>1, <2>3, <2>4 DEF Over
<1>8. /\ \A m \in Members : m # l => next'[m] = next[m]
      /\ next'[l] = NULL
      /\ next'[List] = IF n = NULL THEN l ELSE n
      BY <1>1, <1>2, <1>5 DEF Settled, Typed, TypeOK, Nodes
<1>9. \A m \in Members :
        m # l => next[m] # l /\ (next[m] # NULL => next[m] # n)
      BY <1>2, <1>5 DEF Shape, Linear, InList
<1>10. ASSUME NEW u \in Threads, pc[u] = "unlink_do" PROVE at[u] # n
  <2>1. /\ u # t /\ next[cur[u]] = at[u] /\ at[u] # NULL /\ cur[u] \in InList
        BY <1>1, <1>2, <1>10 DEF Shape, Placed, Settled, Aimed, Typed, Locals
  <2>2. mutex[cur[u]] = u
        BY <1>2, <1>10, <2>1 DEF Settled, Owned, Holds
  <2>3. cur[u] # l
        BY <1>3, <2>1, <2>2
  <2> QED BY <1>5, <2>1, <2>3 DEF Shape, Linear, InList
<1>11. Linear'
  <2>1. ASSUME NEW x \in Members' PROVE \E m \in InList' : next'[m] = x
    <3>1. PICK m \in InList : next[m] = x
          BY <1>6 DEF Shape, Linear
    <3>2. m # List
          BY <1>5, <1>6, <3>1
    <3>3. CASE m = l
          BY <1>2, <1>6, <1>8, <3>1, <3>3
    <3>4. CASE m # l
          BY <1>6, <1>8, <3>1, <3>2, <3>4 DEF InList
    <3> QED BY <3>3, <3>4
  <2>2. ASSUME NEW m \in Members' PROVE next'[m] \in Members' \cup {NULL}
    <3>1. m \in Members /\ m # l
          BY <1>6
    <3>2. next'[m] = next[m] /\ next[m] # l /\ next[m] \in Members \cup {NULL}
          BY <1>8, <1>9, <3>1 DEF Shape, Linear
    <3> QED BY <1>6, <3>2
  <2>3. ASSUME NEW m \in InList', NEW k \in InList', next'[m] = next'[k],
               next'[m] # NULL
        PROVE  m = k
    <3>1. CASE m \in Members /\ k \in Members
          BY <1>6, <1>8, <2>3, <3>1 DEF Shape, Linear, InList
    <3>2. ASSUME NEW x \in Members, x # l, next'[x] = next'[List] PROVE FALSE
      <4>1. next'[x] = next[x] /\ next[x] # l /\ next[x] \in Members \cup {NULL}
            BY <1>8, <1>9, <3>2 DEF Shape, Linear
      <4>2. next[x] # NULL => next[x] # n
            BY <1>9, <3>2
      <4> QED BY <1>2, <1>8, <3>2, <4>1, <4>2
    <3> QED BY <1>6, <2>3, <3>1, <3>2 DEF InList
  <2>4. n # NULL => next'[List] \in Members'
        BY <1>5, <1>6, <1>8
  <2>5. n = NULL => /\ next'[List] \notin Members' /\ next'[next'[List]] = NULL
                    /\ prev'[next'[List]] = List
    <3>1. prev[l] = List
      <4>1. ~Redirected(List)
            BY <1>2 DEF Redirected, Settled, Typed, Locals
      <4> QED BY <1>2, <1>5, <4>1 DEF Shape, Backed
    <3>2. n = NULL => prev'[l] = prev[l]
          BY <1>1, <1>2
    <3>3. n = NULL => next'[List] = l
          BY <1>8
    <3> QED BY <1>6, <1>8, <3>1, <3>2, <3>3
  <2> QED BY <1>7, <2>1, <2>2, <2>3, <2>4, <2>5 DEF Linear
<1>12. \A m : Redirected(m)' <=> Redirected(m)
      BY <1>1 DEF Redirected, Settled, Typed, TypeOK
<1>13. ASSUME NEW m \in InList', next'[m] \in Members'
      PROVE  prev'[next'[m]] = IF Redirected(m)' THEN prev'[m] ELSE m
  <2>1. CASE m = List
    <3>1. next'[m] = n /\ n \in Links
          BY <1>2, <1>5, <1>6, <1>8, <1>13, <2>1
    <3>2. prev'[n] = List
          BY <1>1, <3>1
    <3>3. ~Redirected(List)
          BY <1>2 DEF Redirected, Settled, Typed, Locals
    <3> QED BY <1>12, <2>1, <3>1, <3>2, <3>3
  <2>2. CASE m # List
    <3>1. /\ m \in Members /\ m # l /\ next'[m] = next[m] /\ next[m] \in Members
          /\ next[m] # n /\ next[m] \in Links
          BY <1>2, <1>6, <1>8, <1>9, <1>13, <2>2 DEF InList
    <3>2. prev'[next[m]] = prev[next[m]]
          BY <1>1, <3>1
    <3>3. prev[next[m]] = IF Redirected(m) THEN prev[m] ELSE m
          BY <3>1 DEF Shape, Backed, InList
    <3>4. Redirected(m) => prev'[m] = prev[m]
          BY <1>1, <1>2, <1>10, <3>1 DEF Redirected
    <3> QED BY <1>12, <3>1, <3>2, <3>3, <3>4
  <2> QED BY <2>1, <2>2
<1>14. ASSUME NEW x \in Links, NEW q \in Links, prev'[x] = q, next'[q] = x
       PROVE  q \in Members'
  <2>1. x # n /\ q # l
        BY <1>1, <1>2, <1>8, <1>14
  <2>2. next'[q] = next[q] /\ prev'[x] = prev[x]
        BY <1>1, <1>2, <2>1 DEF Settled, Typed, TypeOK, Nodes
  <2> QED BY <1>6, <1>14, <2>1, <2>2 DEF Shape, Backed
<1> QED BY <1>11, <1>13, <1>14 DEF Backed

-----------------------------------------------------------------------------
(* The other steps leave the links as they are.                            *)

LEMMA QuietShape ==
  ASSUME Settled, Shape, NEW t \in Threads, Step(t) \/ Call(t),
         ~PushAppend(t), ~UnlinkNext(t), ~UnlinkDo(t), ~DestroyNext(t)
  PROVE  Linear' /\ Backed'
<1> DEFINE Same == /\ next' = next /\ prev' = prev
                   /\ \A n : Redirected(n)' <=> Redirected(n)
                   /\ Over => Over'
                   /\ Over' /\ ~Over => next[List] = NULL
<1> USE ListAssumption DEF Settled, Typed, TypeOK, Locals, Nodes, Ptr, In, Goto,
                          heap, Redirected, Over, Destroying
<1>1. ASSUME PushLockList(t) PROVE Same
      BY <1>1 DEF PushLockList
<1>2. ASSUME PushWalk(t) PROVE Same
      BY <1>2 DEF PushWalk
<1>3. ASSUME FirstLockList(t) PROVE Same
      BY <1>3 DEF FirstLockList
<1>4. ASSUME FirstTake(t) PROVE Same
      BY <1>4 DEF FirstTake
<1>5. ASSUME NextStep(t) PROVE Same
      BY <1>5 DEF NextStep, StepTo, FreeIf
<1>6. ASSUME UnlinkPrev(t) PROVE Same
      BY <1>6 DEF UnlinkPrev
<1>7. ASSUME UnlinkLockPrev(t) PROVE Same
      BY <1>7 DEF UnlinkLockPrev
<1>8. ASSUME UnlinkCheck(t) PROVE Same
      BY <1>8 DEF UnlinkCheck
<1>9. ASSUME UnlinkLock(t) PROVE Same
      BY <1>9 DEF UnlinkLock
<1>10. ASSUME DestroyLockList(t) PROVE Same
      BY <1>10 DEF DestroyLockList
<1>11. ASSUME DestroyLink(t) PROVE Same
      BY <1>11 DEF DestroyLink
<1>12. ASSUME DestroyList(t) PROVE Same
      BY <1>12 DEF DestroyList
<1>13. ASSUME PushAlloc(t) PROVE Same
      BY <1>13 DEF PushAlloc
<1>14. ASSUME FirstCall(t) PROVE Same
      BY <1>14 DEF FirstCall
<1>15. ASSUME NextLock(t) PROVE Same
      BY <1>15 DEF NextLock
<1>16. ASSUME Release(t) PROVE Same
      BY <1>16 DEF Release, FreeIf
<1>17. ASSUME UnlinkCall(t) PROVE Same
      BY <1>17 DEF UnlinkCall
<1>18. ASSUME DestroyCall(t) PROVE Same
      BY <1>18 DEF DestroyCall
<1>19. Same
      BY <1>1, <1>2, <1>3, <1>4, <1>5, <1>6, <1>7, <1>8, <1>9, <1>10, <1>11,
         <1>12, <1>13, <1>14, <1>15, <1>16, <1>17, <1>18 DEF Step, Call
<1>20. Members' = Members /\ InList' = InList
      BY MembersQuiet DEF InList
<1>21. Linear'
      BY <1>19, <1>20 DEF Shape, Linear, Members
<1>22. Backed'
      BY <1>19, <1>20 DEF Shape, Backed
<1> QED BY <1>21, <1>22

-----------------------------------------------------------------------------
(* Where the threads stand.                                                *)

LEMMA QuietPlaced ==
  ASSUME Settled, Shape, SoleUnlinker, NEW t \in Threads, Step(t) \/ Call(t),
         ~PushAppend(t), ~UnlinkNext(t), ~UnlinkDo(t), ~DestroyNext(t)
  PROVE  Placed'
<1>0. Members' = Members /\ InList' = InList
      BY MembersQuiet DEF InList
<1> USE <1>0, ListAssumption DEF Settled, Typed, TypeOK, Locals, Nodes, Ptr, In, Goto,
                          heap, Free, NoneOrFree, Owned, Holds, Shape, Placed
<1>1. CASE PushLockList(t)
      BY <1>1 DEF PushLockList, InList
<1>2. CASE PushWalk(t)
  <2>1. pc[t] = "push_walk" /\ next[cur[t]] # NULL /\ cur[t] \in InList
        /\ mutex[cur[t]] = t
        BY <1>2 DEF PushWalk
  <2>2. next[cur[t]] \in Members
    <3>1. CASE cur[t] = List
      <4>1. ~Over
            BY <2>1, <3>1, ListFree DEF Destroying
      <4> QED BY <2>1, <3>1, <4>1 DEF Linear
    <3>2. CASE cur[t] \in Members
          BY <2>1, <3>2 DEF Linear
    <3> QED BY <2>1, <3>1, <3>2 DEF InList
  <2> QED BY <1>2, <2>2 DEF PushWalk, InList
<1>3. CASE FirstLockList(t)
      BY <1>3 DEF FirstLockList
<1>4. CASE FirstTake(t)
      BY <1>4 DEF FirstTake
<1>5. CASE NextStep(t)
      BY <1>5 DEF NextStep, StepTo, FreeIf
<1>6. CASE UnlinkPrev(t)
  <2>1. at[t] \in Links /\ (next[prev[at[t]]] = at[t] => prev[at[t]] \in InList)
        BY <1>6 DEF UnlinkPrev, Backed, InList
  <2> QED BY <1>6, <2>1 DEF UnlinkPrev
<1>7. CASE UnlinkLockPrev(t)
  <2>1. CASE next[cur[t]] = at[t]
    <3>1. /\ pc[t] = "unlink_lock_prev" /\ at[t] \in Links /\ cur[t] \in InList
          /\ Free(cur[t])
          BY <1>7, <2>1 DEF UnlinkLockPrev
    <3>2. at[t] \in Members
      <4>1. CASE cur[t] = List
        <5>1. ~Over
              BY <3>1, <4>1, ListFree
        <5> QED BY <2>1, <3>1, <4>1, <5>1 DEF Linear
      <4>2. CASE cur[t] \in Members
            BY <2>1, <3>1, <4>2 DEF Linear
      <4> QED BY <3>1, <4>1, <4>2 DEF InList
    <3>3. prev[at[t]] = cur[t]
      <4>1. ~Redirected(cur[t])
            BY <3>1 DEF Redirected, SoleUnlinker
      <4> QED BY <2>1, <3>1, <3>2, <4>1 DEF Backed
    <3> QED BY <1>7, <2>1, <3>1, <3>2, <3>3 DEF UnlinkLockPrev
  <2>2. CASE next[cur[t]] # at[t]
        BY <1>7, <2>2 DEF UnlinkLockPrev
  <2> QED BY <2>1, <2>2
<1>8. CASE UnlinkCheck(t)
      BY <1>8 DEF UnlinkCheck
<1>9. CASE UnlinkLock(t)
      BY <1>9 DEF UnlinkLock
<1>10. CASE DestroyLockList(t)
      BY <1>10 DEF DestroyLockList
<1>11. CASE DestroyLink(t)
      BY <1>11 DEF DestroyLink
<1>12. CASE DestroyList(t)
      BY <1>12 DEF DestroyList
<1>13. CASE PushAlloc(t)
      BY <1>13 DEF PushAlloc
<1>14. CASE FirstCall(t)
      BY <1>14 DEF FirstCall
<1>15. CASE NextLock(t)
      BY <1>15 DEF NextLock
<1>16. CASE Release(t)
      BY <1>16 DEF Release, FreeIf
<1>17. CASE UnlinkCall(t)
      BY <1>17 DEF UnlinkCall
<1>18. CASE DestroyCall(t)
      BY <1>18 DEF DestroyCall
<1> QED BY <1>1, <1>2, <1>3, <1>4, <1>5, <1>6, <1>7, <1>8, <1>9, <1>10, <1>11,
           <1>12, <1>13, <1>14, <1>15, <1>16, <1>17, <1>18 DEF Step, Call

-----------------------------------------------------------------------------
(* Where the threads stand after the steps that move pointers.             *)

LEMMA PushPlaced ==
  ASSUME Settled, Shape, NEW t \in Threads, PushAppend(t) PROVE Placed'
<1> PICK l \in Links, c \in InList : l = at[t] /\ c = cur[t]
    BY PushFacts
<1>1. /\ Members' = Members \cup {l} /\ InList' = InList \cup {l}
      /\ \A u \in Threads : at[u] = l => Pushing(u)
      BY PushFacts DEF InList
<1>2. /\ pc' = [pc EXCEPT ![t] = "idle"] /\ cur' = [cur EXCEPT ![t] = NULL]
      /\ at' = [at EXCEPT ![t] = NULL] /\ mem' = mem
      /\ mutex' = [mutex EXCEPT ![c] = NULL]
      /\ next' = [next EXCEPT ![c] = l] /\ prev' = [prev EXCEPT ![l] = c]
      BY DEF PushAppend, In, Goto
<1> QED BY <1>1, <1>2, ListAssumption
        DEF Shape, Placed, Settled, Typed, TypeOK, Locals, Nodes, Pushing

LEMMA UnlinkNextPlaced ==
  ASSUME Settled, Shape, SoleUnlinker, NEW t \in Threads, UnlinkNext(t)
  PROVE  Placed'
<1>1. /\ pc[t] = "unlink_next" /\ pc' = [pc EXCEPT ![t] = "unlink_do"]
      /\ UNCHANGED <<mutex, next, mem, at, cur>>
      /\ prev' = [x \in Links |-> IF x = next[at[t]] THEN prev[at[t]] ELSE prev[x]]
      BY DEF UnlinkNext, In, Goto
<1>2. Members' = Members /\ InList' = InList
  <2>1. Members' = Members
        BY <1>1, MembersQuiet DEF Step, PushAppend, UnlinkDo, TakeOut,
           DestroyNext,
                                  Clear, In
  <2> QED BY <2>1 DEF InList
<1>3. prev'[at[t]] = prev[at[t]]
      BY <1>1, UnlinkFacts
<1> QED BY <1>1, <1>2, <1>3
        DEF Shape, Placed, SoleUnlinker, Settled, Typed, TypeOK

LEMMA UnlinkDoPlaced ==
  ASSUME Settled, Shape, SoleUnlinker, NEW t \in Threads, UnlinkDo(t)
  PROVE  Placed'
<1>1. /\ pc[t] = "unlink_do" /\ pc' = [pc EXCEPT ![t] = "idle"]
      /\ cur' = [cur EXCEPT ![t] = NULL]
      /\ mutex' = [mutex EXCEPT ![cur[t]] = NULL, ![at[t]] = NULL]
      /\ mem' \in {mem, [mem EXCEPT ![at[t]] = "freed"]}
      BY DEF UnlinkDo, TakeOut, FreeIf, In, Goto
<1>2. Members' = Members \ {at[t]} /\ InList' = InList \ {at[t]} /\ at[t] # List
  <2>1. Members' = Members \ {at[t]}
        BY MembersTaken
  <2> QED BY <1>1, <2>1, UnlinkFacts DEF InList
<1>3. mutex[at[t]] = t
      BY <1>1, UnlinkFacts DEF Settled, Owned, Holds, Nodes
<1>4. \A u \in Threads : pc[u] = "push_walk" => cur[u] # at[t]
      BY <1>1, <1>3 DEF Settled, Owned, Holds, Shape, Placed, Typed, Locals
<1>5. mem'[List] = mem[List] /\ (mutex[List] = NULL => mutex'[List] = NULL)
      BY <1>1, <1>2 DEF Settled, Typed, TypeOK, Nodes
<1> QED BY <1>1, <1>2, <1>4, <1>5
        DEF Shape, Placed, SoleUnlinker, Settled, Typed, TypeOK

LEMMA DestroyNextPlaced ==
  ASSUME Settled, Shape, NEW t \in Threads, DestroyNext(t) PROVE Placed'
<1>1. /\ pc[t] = "destroy_next" /\ pc' = [pc EXCEPT ![t] = "destroy_link"]
      /\ cur[t] \in Links /\ at' = at /\ cur' = [cur EXCEPT ![t] = next[cur[t]]]
      /\ next' = [next EXCEPT ![List] = IF next[cur[t]] = NULL THEN @ ELSE next[cur[t]],
                              ![cur[t]] = NULL]
      /\ prev' = [x \in Links |-> IF x = next[cur[t]] THEN List ELSE prev[x]]
      /\ mem' \in {mem, [mem EXCEPT ![cur[t]] = "freed"]}
      /\ mutex' = [mutex EXCEPT ![cur[t]] = NULL]
      BY DEF DestroyNext, Clear, FreeIf, In, Goto, Settled, Typed, Locals
<1> PICK l \in Links : l = cur[t]
    BY <1>1
<1>2. /\ l # NULL /\ l # List /\ List # NULL /\ l \in Nodes /\ List \in Nodes
      /\ InList \subseteq Nodes /\ Members \subseteq Links
      BY ListAssumption DEF InList, Members, Nodes
<1>3. Members' = Members \ {l} /\ InList' = InList \ {l}
  <2>1. Members' = Members \ {l}
        BY MembersCleared
  <2> QED BY <1>2, <2>1 DEF InList
<1>4. mutex[l] = t /\ mutex[List] = t
      BY <1>1, <1>2 DEF Settled, Owned, Holds
<1>5. mem'[List] = mem[List] /\ mutex'[List] = mutex[List]
      BY <1>1, <1>2 DEF Settled, Typed, TypeOK
<1>6. next[List] = l
      BY <1>1, <1>2 DEF Settled, Aimed
<1>7. ASSUME NEW u \in Threads, pc[u] = "unlink_lock_prev", next'[cur[u]] = at[u]
      PROVE  cur[u] \in InList'
  <2>1. at[u] \in Links /\ cur[u] \in Nodes
        BY <1>7 DEF Settled, Typed, Locals
  <2>2. cur[u] # l
        BY <1>1, <1>2, <1>7, <2>1, ListAssumption DEF Settled, Typed, TypeOK
  <2>3. cur[u] = List \/ next'[cur[u]] = next[cur[u]]
        BY <1>1, <2>1, <2>2 DEF Settled, Typed, TypeOK
  <2> QED BY <1>2, <1>3, <1>7, <2>2, <2>3 DEF Shape, Placed, InList
<1>8. ASSUME NEW u \in Threads, pc[u] \in {"unlink_lock", "unlink_next", "unlink_do"}
      PROVE  cur[u] \in InList' /\ at[u] \in Members' /\ prev'[at[u]] = cur[u]
  <2>1. /\ cur[u] \in InList /\ at[u] \in Members /\ prev[at[u]] = cur[u]
        /\ next[cur[u]] = at[u] /\ at[u] # NULL /\ u # t
        BY <1>1, <1>2, <1>8, ListAssumption DEF Shape, Placed, Settled, Aimed
  <2>2. mutex[cur[u]] = u
        BY <1>2, <1>8, <2>1 DEF Settled, Owned, Holds
  <2>3. cur[u] # l /\ cur[u] # List
        BY <1>4, <2>1, <2>2
  <2>4. at[u] # l
        BY <1>6, <2>1, <2>3 DEF Shape, Linear, InList
  <2>5. at[u] # next[l]
    <3>1. l \in InList \/ next[l] # at[u]
      <4>1. ~Over
            BY <1>1, <1>2, DestroyNotOver DEF Shape, Destroying
      <4> QED BY <1>2, <1>6, <4>1 DEF Shape, Linear, InList
    <3> QED BY <2>1, <2>3, <3>1 DEF Shape, Linear
  <2> QED BY <1>1, <1>2, <1>3, <2>1, <2>3, <2>4, <2>5
<1>9. ASSUME NEW u \in Threads, pc[u] = "push_walk" PROVE cur[u] \in InList'
  <2>1. cur[u] \in InList /\ mutex[cur[u]] = u /\ u # t
        BY <1>1, <1>2, <1>9 DEF Shape, Placed, Settled, Owned, Holds
  <2> QED BY <1>3, <1>4, <2>1
<1>10. /\ \A u \in Threads : u # t => pc'[u] = pc[u] /\ cur'[u] = cur[u]
       /\ pc'[t] = "destroy_link"
       BY <1>1 DEF Settled, Typed, TypeOK
<1>11. /\ mem'[List] # "fresh"
       /\ mem'[List] = "freed" => mutex'[List] = NULL
      BY <1>5 DEF Shape, Placed
<1>12. ASSUME NEW u \in Threads, pc'[u] \in {"unlink_prev", "unlink_lock_prev",
         "unlink_check", "unlink_lock", "unlink_next", "unlink_do"}
       PROVE  u \in Unlinkers
      BY <1>10, <1>12 DEF Shape, Placed
<1>13. ASSUME NEW u \in Threads
       PROVE  /\ pc'[u] = "push_walk" => cur'[u] \in InList'
              /\ pc'[u] = "unlink_lock_prev" /\ next'[cur'[u]] = at'[u]
                   => cur'[u] \in InList'
              /\ pc'[u] \in {"unlink_lock", "unlink_next", "unlink_do"}
                   => cur'[u] \in InList' /\ at'[u] \in Members' /\ prev'[at'[u]] = cur'[u]
      BY <1>1, <1>7, <1>8, <1>9, <1>10
<1> QED BY <1>11, <1>12, <1>13 DEF Placed

LEMMA InitShape == Init => Shape
<1> SUFFICES ASSUME Init PROVE Shape
    OBVIOUS
<1>1. Members = {}
      BY ListAssumption DEF Init, Members, Nodes
<1>2. ~Over
      BY ListAssumption DEF Init, Over, Destroying, Nodes
<1>3. Linear
      BY <1>1, <1>2 DEF Init, Linear, InList, Nodes
<1>4. Backed
      BY <1>1, ListAssumption DEF Init, Backed, Nodes
<1>5. Placed
      BY ListAssumption DEF Init, Placed, Nodes
<1> QED BY <1>3, <1>4, <1>5 DEF Shape

LEMMA NextShape ==
  ASSUME SoleUnlinker PROVE Settled /\ Shape /\ [Next]_vars => Shape'
<1> SUFFICES ASSUME Settled, Shape, [Next]_vars PROVE Shape'
    OBVIOUS
<1>1. ASSUME NEW t \in Threads, Step(t) \/ Call(t) PROVE Shape'
  <2>1. CASE PushAppend(t)
        BY <2>1, PushLinear, PushBacked, PushPlaced DEF Shape
  <2>2. CASE UnlinkNext(t)
        BY <2>2, UnlinkNextShape, UnlinkNextPlaced DEF Shape
  <2>3. CASE UnlinkDo(t)
        BY <2>3, UnlinkDoShape, UnlinkDoPlaced DEF Shape
  <2>4. CASE DestroyNext(t)
        BY <2>4, DestroyNextShape, DestroyNextPlaced DEF Shape
  <2> QED BY <1>1, <2>1, <2>2, <2>3, <2>4, QuietShape, QuietPlaced DEF Shape
<1>2. ASSUME UNCHANGED <<mutex, heap, pc, at, cur>> PROVE Shape'
      BY <1>2 DEF heap, Shape, Linear, Backed, Placed, InList, Members,
         Pushing, Over,
                  Destroying, Redirected
<1> QED BY <1>1, <1>2 DEF Next, TouchFreed, vars, heap

LEMMA InductiveShape == SoleUnlinker => (Spec => [](Settled /\ Shape))
<1> SUFFICES ASSUME SoleUnlinker PROVE Spec => [](Settled /\ Shape)
    OBVIOUS
<1> QED BY InitShape, NextShape, InitSettled, NextSettled, PTL DEF Spec

-----------------------------------------------------------------------------
(* One thread walks and nobody destroys: freed memory is never touched.    *)

Solitary == (\A t, u \in Walkers : t = u) /\ Destroyers = {}

\* Nobody destroys, and from the link the walker stands at, which may have been
\* taken out, both pointers lead to a link in the list or to none.
Alone ==
  /\ mem[List] = "live"
  /\ \A t \in Threads :
       /\ pc[t] \notin {"destroy_head", "destroy_link", "destroy_next"}
       /\ pc[t] \in {"first_head", "first_link", "next_step"} => t \in Walkers
       /\ at[t] \in Links /\ ~Pushing(t)
            => /\ t \in Walkers
               /\ next[at[t]] \in Members \cup {NULL}
               /\ prev[at[t]] \in InList
       /\ pc[t] = "unlink_lock_prev" => cur[t] \in InList

LEMMA AloneNotOver ==
  ASSUME Alone PROVE ~Over /\ \A t \in Threads : ~DestroyNext(t)
BY DEF Alone, Over, Destroying, DestroyNext, Clear, In

\* A link the walker moves to.
LEMMA MovesInside ==
  ASSUME Settled, Shape, Alone, Solitary, NEW t \in Threads, NEW l \in Members,
         pc[t] \in {"first_link", "next_step"}
  PROVE  l \in Links /\ next[l] \in Members \cup {NULL} /\ prev[l] \in InList
<1>1. PICK n \in InList : next[n] = l
      BY DEF Shape, Linear
<1>2. ASSUME Redirected(n) PROVE FALSE
  <2>1. PICK u \in Threads : pc[u] = "unlink_do" /\ at[u] = n
        BY <1>2 DEF Redirected
  <2>2. u \in Walkers /\ t \in Walkers
        BY <2>1 DEF Alone, Pushing, Settled, Typed, Locals
  <2> QED BY <2>1, <2>2 DEF Solitary
<1>3. prev[l] = n
      BY <1>1, <1>2 DEF Shape, Backed
<1> QED BY <1>1, <1>3 DEF Shape, Linear, Members

LEMMA StepAlone ==
  ASSUME Settled, Shape, Alone, Solitary, NEW t \in Threads, Step(t) \/ Call(t)
  PROVE  Alone'
<1> USE ListAssumption DEF Settled, Typed, TypeOK, Locals, Nodes, Ptr, In, Goto,
                          heap, Alone, Pushing
<1>0. ASSUME ~PushAppend(t), ~UnlinkDo(t) PROVE Members' = Members /\ InList' = InList
      BY <1>0, AloneNotOver, MembersQuiet DEF InList
<1> DEFINE Quiet == UNCHANGED <<next, prev, Members, InList>>
<1>1. ASSUME PushLockList(t) PROVE Alone'
      BY <1>0, <1>1 DEF Solitary, PushAppend, UnlinkDo, TakeOut, PushLockList
<1>2. ASSUME PushWalk(t) PROVE Alone'
      BY <1>0, <1>2 DEF Solitary, PushAppend, UnlinkDo, TakeOut, PushWalk
<1>3. ASSUME FirstLockList(t) PROVE Alone'
      BY <1>0, <1>3 DEF Solitary, PushAppend, UnlinkDo, TakeOut, FirstLockList
<1>4. ASSUME UnlinkLockPrev(t) PROVE Alone'
      BY <1>0, <1>4 DEF Solitary, PushAppend, UnlinkDo, TakeOut, UnlinkLockPrev
<1>5. ASSUME UnlinkCheck(t) PROVE Alone'
      BY <1>0, <1>5 DEF Solitary, PushAppend, UnlinkDo, TakeOut, UnlinkCheck
<1>6. ASSUME UnlinkLock(t) PROVE Alone'
      BY <1>0, <1>6 DEF Solitary, PushAppend, UnlinkDo, TakeOut, UnlinkLock
<1>7. ASSUME DestroyLockList(t) PROVE Alone'
      BY <1>0, <1>7 DEF Solitary, PushAppend, UnlinkDo, TakeOut, DestroyLockList
<1>8. ASSUME DestroyLink(t) PROVE Alone'
      BY <1>0, <1>8 DEF Solitary, PushAppend, UnlinkDo, TakeOut, DestroyLink
<1>9. ASSUME DestroyList(t) PROVE Alone'
      BY <1>0, <1>9 DEF Solitary, PushAppend, UnlinkDo, TakeOut, DestroyList
<1>10. ASSUME PushAlloc(t) PROVE Alone'
      BY <1>0, <1>10 DEF Solitary, PushAppend, UnlinkDo, TakeOut, PushAlloc
<1>11. ASSUME FirstCall(t) PROVE Alone'
      BY <1>0, <1>11 DEF Solitary, PushAppend, UnlinkDo, TakeOut, FirstCall
<1>12. ASSUME NextLock(t) PROVE Alone'
      BY <1>0, <1>12 DEF Solitary, PushAppend, UnlinkDo, TakeOut, NextLock
<1>13. ASSUME Release(t) PROVE Alone'
      BY <1>0, <1>13 DEF Solitary, PushAppend, UnlinkDo, TakeOut, Release,
         FreeIf
<1>14. ASSUME UnlinkCall(t) PROVE Alone'
      BY <1>0, <1>14 DEF Solitary, PushAppend, UnlinkDo, TakeOut, UnlinkCall
<1>15. ASSUME DestroyCall(t) PROVE Alone'
      BY <1>0, <1>15 DEF Solitary, PushAppend, UnlinkDo, TakeOut, DestroyCall
<1>16. ASSUME FirstTake(t) PROVE Alone'
  <2>1. next[List] \in Members
        BY <1>16, AloneNotOver DEF FirstTake, Shape, Linear, Aimed
  <2>2. /\ next[List] \in Links /\ next[next[List]] \in Members \cup {NULL}
        /\ prev[next[List]] \in InList
        BY <1>16, <2>1, MovesInside DEF FirstTake
  <2> QED BY <1>0, <1>16, <2>2 DEF FirstTake, PushAppend, UnlinkDo, TakeOut
<1>17. ASSUME NextStep(t) PROVE Alone'
  <2>1. next[at[t]] \in Members \cup {NULL}
        BY <1>17 DEF NextStep, StepTo
  <2>2. next[at[t]] # NULL =>
          /\ next[at[t]] \in Links /\ next[next[at[t]]] \in Members \cup {NULL}
          /\ prev[next[at[t]]] \in InList
        BY <1>17, <2>1, MovesInside DEF NextStep, StepTo
  <2> QED BY <1>0, <1>17, <2>2 DEF NextStep, StepTo, FreeIf, PushAppend,
             UnlinkDo, TakeOut
<1>18. ASSUME UnlinkPrev(t) PROVE Alone'
  <2>1. prev[at[t]] \in InList
        BY <1>18 DEF UnlinkPrev
  <2> QED BY <1>0, <1>18, <2>1 DEF UnlinkPrev, PushAppend, UnlinkDo, TakeOut
<1>19. ASSUME PushAppend(t) PROVE Alone'
  <2> PICK l \in Links, c \in InList : l = at[t] /\ c = cur[t]
      BY <1>19, PushFacts
  <2>1. /\ Members' = Members \cup {l} /\ InList' = InList \cup {l}
        /\ \A u \in Threads : at[u] = l => Pushing(u)
        BY <1>19, PushFacts DEF InList
  <2>2. /\ pc' = [pc EXCEPT ![t] = "idle"] /\ cur' = [cur EXCEPT ![t] = NULL]
        /\ at' = [at EXCEPT ![t] = NULL] /\ mem' = mem
        /\ next' = [next EXCEPT ![c] = l] /\ prev' = [prev EXCEPT ![l] = c]
        BY <1>19 DEF PushAppend
  <2> QED BY <2>1, <2>2
<1>20. ASSUME UnlinkNext(t) PROVE Alone'
  <2>1. /\ pc[t] = "unlink_next" /\ pc' = [pc EXCEPT ![t] = "unlink_do"]
        /\ next' = next /\ mem' = mem /\ at' = at /\ cur' = cur
        /\ prev' = [x \in Links |-> IF x = next[at[t]] THEN prev[at[t]] ELSE prev[x]]
        BY <1>20 DEF UnlinkNext
  <2>2. Members' = Members /\ InList' = InList
        BY <1>0, <2>1 DEF PushAppend, UnlinkDo, TakeOut
  <2> QED BY <2>1, <2>2
<1>21. ASSUME UnlinkDo(t) PROVE Alone'
  <2> PICK l \in Links, p \in InList : l = at[t] /\ p = cur[t]
      BY <1>21, UnlinkFacts DEF UnlinkDo, TakeOut
  <2>1. /\ pc[t] = "unlink_do" /\ pc' = [pc EXCEPT ![t] = "idle"]
        /\ at' = at /\ cur' = [cur EXCEPT ![t] = NULL] /\ prev' = prev
        /\ next' = [next EXCEPT ![p] = next[l], ![l] = next[l]]
        /\ mem' \in {mem, [mem EXCEPT ![l] = "freed"]}
        BY <1>21 DEF UnlinkDo, TakeOut, FreeIf
  <2>2. /\ Members' = Members \ {l} /\ next[l] \in Members \cup {NULL} /\ next[l] # l
        /\ p # l /\ prev[l] = p
        BY <1>21, <2>1, MembersTaken, UnlinkFacts
  <2>3. InList' = InList \ {l}
        BY <2>2 DEF InList
  <2>4. next'[l] = next[l] /\ mem'[List] = mem[List] /\ l # NULL
        BY <2>1
  <2>5. \A u \in Threads : at[u] \in Links /\ ~Pushing(u) => u = t
        BY <2>1 DEF Solitary
  <2>6. \A u \in Threads : pc[u] = "unlink_lock_prev" => u = t
        BY <2>1, <2>5
  <2> QED BY <2>1, <2>2, <2>3, <2>4, <2>5, <2>6
<1> QED BY AloneNotOver, <1>1, <1>2, <1>3, <1>4, <1>5, <1>6, <1>7, <1>8, <1>9,
           <1>10, <1>11, <1>12, <1>13, <1>14, <1>15, <1>16, <1>17, <1>18,
           <1>19, <1>20, <1>21 DEF Step, Call

LEMMA InitAlone == Init => Alone
BY ListAssumption DEF Init, Alone, Nodes

\* Nobody who is in such a state is about to touch freed memory.
LEMMA NoTouch ==
  ASSUME Settled, Shape, Alone, NEW t \in Threads PROVE ~TouchFreed(t)
<1>1. \A n \in InList : mem[n] = "live"
      BY DEF Alone, InList, Members
<1>2. next[List] \in Members \cup {NULL}
      BY AloneNotOver DEF Shape, Linear
<1>3. \A n \in InList : next[n] \in InList \cup {NULL}
      BY <1>2 DEF InList, Shape, Linear
<1>4. ASSUME at[t] \in Links, ~Pushing(t)
      PROVE  mem[at[t]] # "freed" /\ next[at[t]] \in InList \cup {NULL}
      BY <1>4 DEF Settled, Counted, FreedUnreferenced, Holders, Alone, InList
<1>5. pc[t] \in PCs /\ (at[t] = NULL \/ at[t] \in Links)
      BY DEF Settled, Typed, TypeOK, Ptr
<1>6. Touches(t) = NULL \/ mem[Touches(t)] # "freed"
  <2>1. CASE pc[t] \in {"push_head", "first_head"}
        BY <1>1, <2>1 DEF Touches, InList
  <2>2. CASE pc[t] = "push_walk"
        BY <1>1, <1>3, <2>2 DEF Touches, Shape, Placed
  <2>3. CASE pc[t] = "unlink_lock_prev"
        BY <1>1, <2>3 DEF Touches, Alone
  <2>4. CASE pc[t] = "first_link"
        BY <1>1, <1>2, <2>4 DEF Touches, InList
  <2>5. CASE pc[t] \in {"next_step", "unlink_next"}
        BY <1>1, <1>4, <2>5 DEF Touches, Pushing, Settled, Typed, Locals
  <2>6. CASE pc[t] \in {"idle", "unlink_prev", "unlink_check", "unlink_lock"}
        BY <1>4, <1>5, <2>6 DEF Touches, Pushing
  <2>7. CASE pc[t] = "unlink_do"
        BY <2>7 DEF Touches
  <2> QED BY <1>5, <2>1, <2>2, <2>3, <2>4, <2>5, <2>6, <2>7 DEF PCs, Alone
<1> QED BY <1>6 DEF TouchFreed

LEMMA StepKeepsFault ==
  ASSUME NEW t \in Threads, Step(t) \/ Call(t) PROVE fault' = fault
BY DEF Step, Call, In, PushLockList, PushWalk, PushAppend, FirstLockList,
   FirstTake,
       NextStep, StepTo, UnlinkPrev, UnlinkLockPrev, UnlinkCheck, UnlinkLock,
       UnlinkNext, UnlinkDo, TakeOut, DestroyLockList, DestroyLink, DestroyNext,
       Clear, DestroyList, PushAlloc, FirstCall, NextLock, Release, UnlinkCall,
       DestroyCall

LEMMA InductiveAlone ==
  Solitary => (Spec => [](Settled /\ Shape /\ Alone /\ NoUseAfterFree))
<1> SUFFICES ASSUME Solitary
             PROVE  Spec => [](Settled /\ Shape /\ Alone /\ NoUseAfterFree)
    OBVIOUS
<1>1. SoleUnlinker
      BY ListAssumption DEF Solitary, SoleUnlinker
<1>2. Init => Alone /\ NoUseAfterFree
      BY InitAlone DEF Init, NoUseAfterFree
<1>3. ASSUME Settled, Shape, Alone, NoUseAfterFree, [Next]_vars
      PROVE  Alone' /\ NoUseAfterFree'
  <2>1. ASSUME NEW t \in Threads, Step(t) \/ Call(t)
        PROVE  Alone' /\ NoUseAfterFree'
    <3>1. Alone'
          BY <1>3, <2>1, StepAlone
    <3>2. fault' = fault
          BY <2>1, StepKeepsFault
    <3> QED BY <1>3, <3>1, <3>2 DEF NoUseAfterFree
  <2>2. ASSUME UNCHANGED vars PROVE Alone' /\ NoUseAfterFree'
        BY <1>3, <2>2 DEF vars, Alone, NoUseAfterFree, Pushing, InList, Members
  <2> QED BY <1>3, <2>1, <2>2, NoTouch DEF Next
<1> QED BY <1>1, <1>2, <1>3, InductiveShape, PTL DEF Spec

-----------------------------------------------------------------------------
\* When linked_destroy is over, no link is in the list, not even one that a
\* linked_push that was past list->lock appended meanwhile, and all that nobody
\* stands at are freed (linked.c:226-261), if one thread at most unlinks.
THEOREM DestroyIsComplete == SoleUnlinker => (Spec => []DestroyLeavesNothing)
<1> SUFFICES ASSUME SoleUnlinker PROVE Spec => []DestroyLeavesNothing
    OBVIOUS
<1>1. Settled /\ Shape => DestroyLeavesNothing
  <2> SUFFICES ASSUME Settled, Shape, mem[List] = "freed"
               PROVE  /\ Members = {}
                      /\ \A l \in Links : Holders(l) = {} /\ unlinked[l]
                                            => mem[l] = "freed"
      BY DEF DestroyLeavesNothing
  <2>1. Members = {}
        BY OverIsEmpty DEF Shape, Over
  <2> QED BY <2>1 DEF Settled, NoLeak
<1> QED BY <1>1, InductiveShape, PTL

\* Whatever is appended, taken out or destroyed between the reading of link->prev
\* and the locking of it, linked_unlink takes a link out behind a predecessor
\* that is in the list and leads to it (linked.c:150-184), if one thread at most
\* unlinks.  With two, an unlinked predecessor still leads to the link.
THEOREM UnlinksBehindItsPredecessor ==
  SoleUnlinker => (Spec => []PredecessorHeld)
<1> SUFFICES ASSUME SoleUnlinker PROVE Spec => []PredecessorHeld
    OBVIOUS
<1>1. Settled /\ Shape => PredecessorHeld
  <2> SUFFICES ASSUME Settled, Shape, NEW t \in Threads,
                      pc[t] \in {"unlink_lock", "unlink_next", "unlink_do"}
               PROVE  /\ mutex[cur[t]] = t /\ cur[t] \in Members \cup {List}
                      /\ next[cur[t]] = at[t] /\ at[t] \in Members
      BY DEF PredecessorHeld
  <2>1. mutex[cur[t]] = t
        BY ListAssumption DEF Settled, Typed, TypeOK, Locals, Owned, Holds, Nodes, Ptr
  <2>2. next[cur[t]] = at[t]
        BY DEF Settled, Aimed
  <2>3. cur[t] \in InList /\ at[t] \in Members
        BY DEF Shape, Placed
  <2> QED BY <2>1, <2>2, <2>3 DEF InList
<1> QED BY <1>1, InductiveShape, PTL

\* As long as one thread walks and nobody destroys, no thread ever touches a
\* link that linked_free gave back (linked.c:78-82), whatever that thread unlinks
\* and however many others append: so it is for connectionsToFree.
THEOREM OneWalkerIsSafe == Solitary => (Spec => []NoUseAfterFree)
<1> SUFFICES ASSUME Solitary PROVE Spec => []NoUseAfterFree
    OBVIOUS
<1> QED BY InductiveAlone, PTL

-----------------------------------------------------------------------------
(* From the shape of the list to the sequence of links that following next *)
(* meets.  The recursive function in Chain is handled by induction over    *)
(* its first argument (Induct): what it returns follows next, ranks rise   *)
(* along it, so that no link is met twice and it is cut off nowhere.       *)

\* g[k][n] are the first k links met by following next from n.
Unfolds(g, C) ==
  g = [k \in 0..C |->
        [n \in Nodes |->
          IF k = 0 \/ next[n] = NULL THEN << >>
          ELSE <<next[n]>> \o g[k - 1][next[n]]]]

\* The i-th link of a path from n follows this node.
Before(n, s, i) == IF i = 1 THEN n ELSE s[i - 1]

\* s follows nx from n, and where it ends nx ends.
Follows(nx, n, s) ==
  s \in Seq(Links) /\ \A i \in 1..Len(s) : s[i] = nx[Before(n, s, i)]

Route(nx, s) == Follows(nx, List, s) /\ nx[Before(List, s, Len(s) + 1)] = NULL

LEMMA UnfoldingExists == \A C \in Nat : \E g : Unfolds(g, C)
<1> DEFINE S == {C \in Nat : \E g : Unfolds(g, C)}
<1>1. 0 \in S
  <2> DEFINE g == [k \in 0..0 |-> [n \in Nodes |-> << >>]]
  <2>1. \A k \in 0..0 : k = 0
        OBVIOUS
  <2>2. g = [k \in 0..0 |->
              [n \in Nodes |->
                IF k = 0 \/ next[n] = NULL THEN << >>
                ELSE <<next[n]>> \o g[k - 1][next[n]]]]
        BY <2>1, Zenon
  <2>3. Unfolds(g, 0)
        BY <2>2 DEF Unfolds
  <2> QED BY <2>3
<1>2. ASSUME NEW C \in Nat, C \in S PROVE C + 1 \in S
  <2>1. PICK g : Unfolds(g, C)
        BY <1>2
  <2> DEFINE h == [k \in 0..(C + 1) |->
                    [n \in Nodes |->
                      IF k = 0 \/ next[n] = NULL THEN << >>
                      ELSE <<next[n]>> \o g[k - 1][next[n]]]]
  <2>2. ASSUME NEW k \in 0..C PROVE h[k] = g[k]
    <3>1. k \in 0..(C + 1)
          OBVIOUS
    <3>2. h[k] = [n \in Nodes |->
                    IF k = 0 \/ next[n] = NULL THEN << >>
                    ELSE <<next[n]>> \o g[k - 1][next[n]]]
          BY <3>1, Zenon
    <3>3. g[k] = [n \in Nodes |->
                    IF k = 0 \/ next[n] = NULL THEN << >>
                    ELSE <<next[n]>> \o g[k - 1][next[n]]]
          BY <2>1, Zenon DEF Unfolds
    <3> QED BY <3>2, <3>3, Zenon
  <2>3. \A k \in 0..(C + 1) :
          [n \in Nodes |-> IF k = 0 \/ next[n] = NULL THEN << >>
                           ELSE <<next[n]>> \o g[k - 1][next[n]]]
          = [n \in Nodes |-> IF k = 0 \/ next[n] = NULL THEN << >>
                             ELSE <<next[n]>> \o h[k - 1][next[n]]]
    <3> TAKE k \in 0..(C + 1)
    <3>1. CASE k = 0
          BY <3>1, Zenon
    <3>2. CASE k # 0
      <4>1. k - 1 \in 0..C
            BY <3>2
      <4>2. h[k - 1] = g[k - 1]
            BY <2>2, <4>1, Zenon
      <4> HIDE DEF h
      <4> QED BY <4>2, Zenon
    <3> QED BY <3>1, <3>2
  <2>4. h = [k \in 0..(C + 1) |->
              [n \in Nodes |->
                IF k = 0 \/ next[n] = NULL THEN << >>
                ELSE <<next[n]>> \o h[k - 1][next[n]]]]
    <3> DEFINE A(k) == [n \in Nodes |-> IF k = 0 \/ next[n] = NULL THEN << >>
                           ELSE <<next[n]>> \o g[k - 1][next[n]]]
               B(f, k) == [n \in Nodes |-> IF k = 0 \/ next[n] = NULL THEN << >>
                           ELSE <<next[n]>> \o f[k - 1][next[n]]]
    <3>1. \A k \in 0..(C + 1) : A(k) = B(h, k)
          BY <2>3
    <3>2. h = [k \in 0..(C + 1) |-> A(k)]
          OBVIOUS
    <3> HIDE DEF A, B, h
    <3>3. h = [k \in 0..(C + 1) |-> B(h, k)]
          BY <3>1, <3>2, Zenon
    <3> QED BY <3>3 DEF B
  <2>5. Unfolds(h, C + 1)
        BY <2>4 DEF Unfolds
  <2> QED BY <2>5
<1>3. \A n \in Nat : n \in S
  <2> HIDE DEF S
  <2> QED BY <1>1, <1>2, Induct
<1> QED BY <1>3

LEMMA ChainUnfolds ==
  ASSUME IsFiniteSet(Links)
  PROVE  \E g : Unfolds(g, Cardinality(Links)) /\ Chain = g[Cardinality(Links)][List]
<1> DEFINE g == CHOOSE g : Unfolds(g, Cardinality(Links))
<1>1. Cardinality(Links) \in Nat
      BY FS_CardinalityType
<1>2. Unfolds(g, Cardinality(Links))
      BY <1>1, UnfoldingExists, Zenon
<1>3. Chain = g[Cardinality(Links)][List]
      BY DEF Chain, Unfolds
<1> QED BY <1>2, <1>3

\* One more link in front of a path.
LEMMA InFront ==
  ASSUME NEW nx, NEW n, NEW l \in Links, nx[n] = l, NEW s, Follows(nx, l, s)
  PROVE  /\ Follows(nx, n, <<l>> \o s)
         /\ Len(<<l>> \o s) = Len(s) + 1
         /\ Before(n, <<l>> \o s, Len(s) + 2) = Before(l, s, Len(s) + 1)
<1> DEFINE q == <<l>> \o s
<1>1. s \in Seq(Links) /\ <<l>> \in Seq(Links) /\ Len(<<l>>) = 1 /\ <<l>>[1] = l
      BY DEF Follows
<1>2. /\ q \in Seq(Links) /\ Len(q) = 1 + Len(s)
      /\ \A i \in 1 .. 1 + Len(s) : q[i] = IF i <= 1 THEN <<l>>[i] ELSE s[i - 1]
      BY <1>1, ConcatProperties
<1>3. Len(s) \in Nat
      BY <1>1
<1> HIDE DEF q
<1>4. q[1] = l /\ \A i \in 1..Len(s) : q[i + 1] = s[i]
      BY <1>1, <1>2, <1>3
<1>5. \A i \in 1..(Len(s) + 1) : Before(n, q, i + 1) = Before(l, s, i)
      BY <1>3, <1>4 DEF Before
<1>6. ASSUME NEW i \in 1..Len(q) PROVE q[i] = nx[Before(n, q, i)]
  <2>1. CASE i = 1
        BY <1>4, <2>1 DEF Before
  <2>2. CASE i # 1
    <3>1. i - 1 \in 1..Len(s)
          BY <1>2, <1>3, <2>2
    <3>2. s[i - 1] = nx[Before(l, s, i - 1)]
          BY <3>1 DEF Follows
    <3>3. q[i] = s[i - 1] /\ Before(n, q, i) = Before(l, s, i - 1)
          BY <1>3, <1>4, <1>5, <3>1
    <3> QED BY <3>2, <3>3
  <2> QED BY <2>1, <2>2
<1>7. Follows(nx, n, q)
      BY <1>2, <1>6 DEF Follows
<1>8. Before(n, q, Len(s) + 2) = Before(l, s, Len(s) + 1)
      BY <1>3, <1>5
<1> QED BY <1>2, <1>3, <1>7, <1>8 DEF q

LEMMA UnfoldedPaths ==
  ASSUME NEW C \in Nat, NEW g, Unfolds(g, C), next \in [Nodes -> Ptr]
  PROVE  \A k \in 0..C : \A n \in Nodes :
           /\ Follows(next, n, g[k][n])
           /\ Len(g[k][n]) <= k
           /\ Len(g[k][n]) < k => next[Before(n, g[k][n], Len(g[k][n]) + 1)] = NULL
<1> DEFINE Good(n, s, k) == /\ Follows(next, n, s) /\ Len(s) \in Nat /\ Len(s) <= k
                            /\ Len(s) < k => next[Before(n, s, Len(s) + 1)] = NULL
           S == {k \in Nat : k <= C => \A n \in Nodes : Good(n, g[k][n], k)}
<1>1. ASSUME NEW k \in 0..C, NEW n \in Nodes
      PROVE  g[k][n] = IF k = 0 \/ next[n] = NULL THEN << >>
                       ELSE <<next[n]>> \o g[k - 1][next[n]]
  <2> DEFINE B(j) == [m \in Nodes |-> IF j = 0 \/ next[m] = NULL THEN << >>
                           ELSE <<next[m]>> \o g[j - 1][next[m]]]
  <2>1. g = [j \in 0..C |-> B(j)]
        BY DEF Unfolds
  <2>2. g[k] = B(k)
    <3> HIDE DEF B
    <3> QED BY <2>1, Zenon
  <2> QED BY <2>2, Zenon
<1>2. \A n : Follows(next, n, << >>) /\ Len(<< >>) = 0 /\ Before(n, << >>, 1) = n
      BY DEF Follows, Before
<1>3. 0 \in S
  <2>1. 0 \in 0..C
        OBVIOUS
  <2>2. \A n \in Nodes : g[0][n] = << >>
        BY <1>1, <2>1
  <2> QED BY <1>2, <2>2
<1>4. ASSUME NEW k \in Nat, k \in S PROVE k + 1 \in S
  <2> SUFFICES ASSUME k + 1 <= C, NEW n \in Nodes PROVE Good(n, g[k + 1][n], k + 1)
      OBVIOUS
  <2>1. k + 1 \in 0..C /\ k + 1 # 0 /\ (k + 1) - 1 = k /\ k <= C
        OBVIOUS
  <2>2. CASE next[n] = NULL
    <3>1. g[k + 1][n] = << >>
          BY <1>1, <2>1, <2>2
    <3>2. Before(n, << >>, 0 + 1) = n
          BY <1>2
    <3> QED BY <1>2, <2>2, <3>1, <3>2
  <2>3. CASE next[n] # NULL
    <3> DEFINE l == next[n]
               s == g[k][l]
    <3>1. l \in Links /\ l \in Nodes
          BY <2>3 DEF Ptr, Nodes
    <3>2. g[k + 1][n] = <<l>> \o s
          BY <1>1, <2>1, <2>3
    <3>3. Good(l, s, k)
          BY <1>4, <2>1, <3>1
    <3>4. /\ Follows(next, n, <<l>> \o s)
          /\ Len(<<l>> \o s) = Len(s) + 1
          /\ Before(n, <<l>> \o s, Len(s) + 2) = Before(l, s, Len(s) + 1)
          BY <3>1, <3>3, InFront
    <3>5. (Len(s) + 1) + 1 = Len(s) + 2
          BY <3>3
    <3> HIDE DEF l, s
    <3> QED BY <3>2, <3>3, <3>4, <3>5
  <2> QED BY <2>2, <2>3
<1>5. \A k \in Nat : k \in S
  <2> HIDE DEF S
  <2> QED BY <1>3, <1>4, Induct
<1> QED BY <1>5

LEMMA BeforeTyped ==
  ASSUME NEW n \in Nodes, NEW s \in Seq(Links), NEW i \in 1..(Len(s) + 1)
  PROVE  Before(n, s, i) \in Nodes
<1>1. CASE i = 1 BY <1>1 DEF Before
<1>2. CASE i # 1
  <2>1. i - 1 \in 1..Len(s)
        BY <1>2
  <2>2. s[i - 1] \in Links
        BY <2>1, ElementOfSeq
  <2> QED BY <1>2, <2>2 DEF Before, Nodes
<1> QED BY <1>1, <1>2

\* Ranks rise along a path, so that no link is met twice.
LEMMA PathRises ==
  ASSUME NEW r, Ranking(r), NULL \notin Links, NEW n \in Nodes, NEW s, Follows(next, n, s)
  PROVE  \A i, j \in 1..Len(s) : i < j => r[s[i]] < r[s[j]]
<1> DEFINE Q(j) == j <= Len(s) => \A i \in 1..Len(s) : i < j => r[s[i]] < r[s[j]]
           S == {j \in Nat : Q(j)}
<1>1. s \in Seq(Links) /\ Len(s) \in Nat /\ \A i \in 1..Len(s) : s[i] \in Links
      BY ElementOfSeq DEF Follows
<1>2. \A l \in Links : r[l] \in Nat
      BY DEF Ranking, Nodes
<1>3. 0 \in S
      OBVIOUS
<1>4. ASSUME NEW j \in Nat, j \in S PROVE j + 1 \in S
  <2> SUFFICES ASSUME j + 1 <= Len(s), NEW i \in 1..Len(s), i < j + 1
               PROVE  r[s[i]] < r[s[j + 1]]
      OBVIOUS
  <2>1. j \in 1..Len(s) /\ j + 1 \in 1..Len(s) /\ j + 1 # 1 /\ (j + 1) - 1 = j
        BY <1>1
  <2>2. s[j + 1] = next[s[j]]
        BY <2>1 DEF Follows, Before
  <2>3. r[s[j]] < r[s[j + 1]]
        BY <1>1, <2>1, <2>2 DEF Ranking, Nodes
  <2>4. i < j => r[s[i]] < r[s[j]]
        BY <1>4, <2>1
  <2>5. r[s[i]] \in Nat /\ r[s[j]] \in Nat /\ r[s[j + 1]] \in Nat
        BY <1>1, <1>2, <2>1
  <2>6. i = j \/ i < j
        BY <1>1
  <2> QED BY <2>3, <2>4, <2>5, <2>6
<1>5. \A j \in Nat : j \in S
  <2> HIDE DEF S
  <2> QED BY <1>3, <1>4, Induct
<1> QED BY <1>1, <1>5

LEMMA PathOnce ==
  ASSUME NEW r, Ranking(r), NULL \notin Links, NEW n \in Nodes, NEW s, Follows(next, n, s)
  PROVE  \A i, j \in 1..Len(s) : s[i] = s[j] => i = j
<1>1. s \in Seq(Links) /\ Len(s) \in Nat /\ \A i \in 1..Len(s) : s[i] \in Links
      BY ElementOfSeq DEF Follows
<1>2. \A l \in Links : r[l] \in Nat
      BY DEF Ranking, Nodes
<1> SUFFICES ASSUME NEW i \in 1..Len(s), NEW j \in 1..Len(s), s[i] = s[j], i # j
             PROVE  FALSE
    OBVIOUS
<1>3. i < j \/ j < i
      BY <1>1
<1>4. r[s[i]] < r[s[j]] \/ r[s[j]] < r[s[i]]
      BY <1>3, PathRises
<1> QED BY <1>1, <1>2, <1>4

LEMMA PathFits ==
  ASSUME IsFiniteSet(Links), NEW r, Ranking(r), NULL \notin Links, NEW n \in Nodes,
         NEW s, Follows(next, n, s)
  PROVE  Len(s) <= Cardinality(Links)
<1>1. s \in Seq(Links) /\ Len(s) \in Nat /\ s \in [1..Len(s) -> Links]
      BY DEF Follows
<1>2. s \in Injection(1..Len(s), Links)
      BY <1>1, PathOnce DEF Injection, IsInjective
<1>3. Cardinality(1..Len(s)) <= Cardinality(Links)
      BY <1>2, FS_Injection
<1>4. Cardinality(1..Len(s)) = Len(s)
      BY <1>1, FS_Interval
<1> QED BY <1>3, <1>4

\* A path that does not end can be followed one link further.
LEMMA Further ==
  ASSUME NEW n \in Nodes, NEW s, Follows(next, n, s),
         NEW l \in Links, next[Before(n, s, Len(s) + 1)] = l
  PROVE  Follows(next, n, Append(s, l)) /\ Len(Append(s, l)) = Len(s) + 1
<1> DEFINE q == Append(s, l)
<1>1. s \in Seq(Links) /\ Len(s) \in Nat
      BY DEF Follows
<1>2. /\ q \in Seq(Links) /\ Len(q) = Len(s) + 1 /\ q[Len(s) + 1] = l
      /\ \A i \in 1..Len(s) : q[i] = s[i]
      BY <1>1, AppendProperties
<1> HIDE DEF q
<1>3. \A i \in 1..(Len(s) + 1) : Before(n, q, i) = Before(n, s, i)
      BY <1>1, <1>2 DEF Before
<1>4. \A i \in 1..Len(q) : q[i] = next[Before(n, q, i)]
      BY <1>1, <1>2, <1>3 DEF Follows
<1> QED BY <1>2, <1>4 DEF Follows, q

\* Chain is the whole way from list->first to the end of the list.
LEMMA ChainIsRoute ==
  ASSUME IsFiniteSet(Links) PROVE Settled => Route(next, Chain)
<1> SUFFICES ASSUME Settled PROVE Route(next, Chain)
    OBVIOUS
<1> DEFINE C == Cardinality(Links)
<1>1. PICK g : Unfolds(g, C) /\ Chain = g[C][List]
      BY ChainUnfolds
<1>2. PICK r : Ranking(r)
      BY DEF Settled, Ordered
<1>3. C \in Nat /\ C \in 0..C /\ List \in Nodes /\ next \in [Nodes -> Ptr] /\ NULL \notin Links
      BY FS_CardinalityType, ListAssumption DEF Nodes, Settled, Typed, TypeOK
<1>4. /\ Follows(next, List, Chain) /\ Len(Chain) <= C
      /\ Len(Chain) < C => next[Before(List, Chain, Len(Chain) + 1)] = NULL
      BY <1>1, <1>3, UnfoldedPaths
<1>5. Chain \in Seq(Links) /\ Len(Chain) \in Nat
      BY <1>4 DEF Follows
<1> DEFINE e == next[Before(List, Chain, Len(Chain) + 1)]
<1>6. ASSUME e # NULL PROVE FALSE
  <2>1. Len(Chain) = C
        BY <1>3, <1>4, <1>5, <1>6
  <2>2. Before(List, Chain, Len(Chain) + 1) \in Nodes
        BY <1>3, <1>5, BeforeTyped
  <2>3. e \in Links
        BY <1>3, <1>6, <2>2 DEF Ptr
  <2>4. Follows(next, List, Append(Chain, e)) /\ Len(Append(Chain, e)) = Len(Chain) + 1
        BY <1>3, <1>4, <2>3, Further
  <2>5. Len(Chain) + 1 <= C
        BY <1>2, <1>3, <2>4, PathFits
  <2> QED BY <1>3, <2>1, <2>5
<1> QED BY <1>4, <1>6 DEF Route

\* There is one way only.
LEMMA RouteIsUnique ==
  ASSUME NEW nx, NEW s, NEW q, Route(nx, s), Route(nx, q), NULL \notin Links
  PROVE  s = q
<1>1. /\ s \in Seq(Links) /\ Len(s) \in Nat /\ \A i \in 1..Len(s) : s[i] \in Links
      /\ q \in Seq(Links) /\ Len(q) \in Nat /\ \A i \in 1..Len(q) : q[i] \in Links
      BY ElementOfSeq DEF Route, Follows
<1> DEFINE Same(i) == (i <= Len(s) <=> i <= Len(q)) /\ (0 < i /\ i <= Len(s) => s[i] = q[i])
           S == {i \in Nat : Same(i)}
<1>2. 0 \in S
      BY <1>1
<1>3. ASSUME NEW i \in Nat, i \in S PROVE i + 1 \in S
  <2>1. CASE i > Len(s)
        BY <1>1, <1>3, <2>1
  <2>2. CASE i <= Len(s)
    <3>1. i <= Len(q)
          BY <1>3, <2>2
    <3>2. Before(List, s, i + 1) = Before(List, q, i + 1)
      <4>1. CASE i = 0
            BY <4>1 DEF Before
      <4>2. CASE i # 0
        <5>1. s[i] = q[i] /\ i + 1 # 1 /\ (i + 1) - 1 = i
              BY <1>3, <2>2, <4>2
        <5> QED BY <5>1 DEF Before
      <4> QED BY <4>1, <4>2
    <3>3. i + 1 <= Len(s) => i + 1 \in 1..Len(s) /\ s[i + 1] = nx[Before(List, s, i + 1)]
          BY <1>1 DEF Route, Follows
    <3>4. i + 1 <= Len(q) => i + 1 \in 1..Len(q) /\ q[i + 1] = nx[Before(List, q, i + 1)]
          BY <1>1 DEF Route, Follows
    <3>5. i = Len(s) => nx[Before(List, s, i + 1)] = NULL
          BY DEF Route
    <3>6. i = Len(q) => nx[Before(List, q, i + 1)] = NULL
          BY DEF Route
    <3>7. i + 1 <= Len(s) => i # Len(q)
          BY <1>1, <3>2, <3>3, <3>6
    <3>8. i + 1 <= Len(q) => i # Len(s)
          BY <1>1, <3>2, <3>4, <3>5
    <3> QED BY <1>1, <2>2, <3>1, <3>2, <3>3, <3>4, <3>7, <3>8
  <2> QED BY <1>1, <2>1, <2>2
<1>4. \A i \in Nat : i \in S
  <2> HIDE DEF S
  <2> QED BY <1>2, <1>3, Induct
<1>5. Len(s) = Len(q)
      BY <1>1, <1>4
<1>6. \A i \in 1..Len(s) : s[i] = q[i]
      BY <1>1, <1>4
<1> QED BY <1>1, <1>5, <1>6, SeqEqual

LEMMA ChainFacts ==
  ASSUME IsFiniteSet(Links), Settled
  PROVE  /\ Chain \in Seq(Links) /\ Len(Chain) \in Nat
         /\ \A i \in 1..Len(Chain) : /\ Chain[i] \in Links
                                     /\ Before(List, Chain, i) \in Nodes
                                     /\ Chain[i] = next[Before(List, Chain, i)]
         /\ next[Before(List, Chain, Len(Chain) + 1)] = NULL
         /\ \A i, j \in 1..Len(Chain) : Chain[i] = Chain[j] => i = j
<1>1. Route(next, Chain)
      BY ChainIsRoute
<1>2. PICK r : Ranking(r)
      BY DEF Settled, Ordered
<1>3. /\ Chain \in Seq(Links) /\ Len(Chain) \in Nat
      /\ \A i \in 1..Len(Chain) : /\ Chain[i] \in Links
                                  /\ Chain[i] = next[Before(List, Chain, i)]
      /\ next[Before(List, Chain, Len(Chain) + 1)] = NULL
      BY <1>1, ElementOfSeq DEF Route, Follows
<1>4. ASSUME NEW i \in 1..Len(Chain) PROVE Before(List, Chain, i) \in Nodes
  <2>1. List \in Nodes
        BY DEF Nodes
  <2> QED BY <1>3, <2>1, BeforeTyped, SMTT(30)
<1>5. \A i, j \in 1..Len(Chain) : Chain[i] = Chain[j] => i = j
      BY <1>1, <1>2, PathOnce, ListAssumption DEF Route, Nodes
<1> QED BY <1>3, <1>4, <1>5

\* The way from list->first stays inside the list.
LEMMA ChainInside ==
  ASSUME IsFiniteSet(Links), Settled, Linear, ~Over
  PROVE  \A i \in 1..Len(Chain) : Chain[i] \in Members /\ Before(List, Chain, i) \in InList
<1> DEFINE S == {i \in Nat : i \in 1..Len(Chain) =>
                    Chain[i] \in Members /\ Before(List, Chain, i) \in InList}
<1>1. /\ Len(Chain) \in Nat /\ NULL \notin Links
      /\ \A i \in 1..Len(Chain) : /\ Chain[i] \in Links
                                  /\ Chain[i] = next[Before(List, Chain, i)]
      BY ChainFacts, ListAssumption
<1>2. \A n \in InList : next[n] \in Members \cup {NULL}
      BY DEF Linear, InList
<1>3. ASSUME NEW i \in 1..Len(Chain), Before(List, Chain, i) \in InList
      PROVE  Chain[i] \in Members
      BY <1>1, <1>2, <1>3
<1>4. 0 \in S
      OBVIOUS
<1>5. ASSUME NEW i \in Nat, i \in S PROVE i + 1 \in S
  <2> SUFFICES ASSUME i + 1 \in 1..Len(Chain)
               PROVE  Chain[i + 1] \in Members /\ Before(List, Chain, i + 1) \in InList
      OBVIOUS
  <2>1. CASE i = 0
        BY <1>3, <2>1 DEF Before, InList
  <2>2. CASE i # 0
    <3>1. Chain[i] \in Members /\ i + 1 # 1 /\ (i + 1) - 1 = i
          BY <1>1, <1>5, <2>2
    <3> QED BY <1>3, <3>1 DEF Before, InList
  <2> QED BY <2>1, <2>2
<1>6. \A i \in Nat : i \in S
  <2> HIDE DEF S
  <2> QED BY <1>4, <1>5, Induct
<1> QED BY <1>1, <1>6

\* And misses no link of the list.
LEMMA ChainMeetsAll ==
  ASSUME IsFiniteSet(Links), Settled, Linear
  PROVE  \A l \in Members : \E i \in 1..Len(Chain) : Chain[i] = l
<1>1. PICK r : Ranking(r)
      BY DEF Settled, Ordered
<1> DEFINE Missed == {l \in Members : \A i \in 1..Len(Chain) : Chain[i] # l}
           K == {r[l] : l \in Missed}
<1>2. /\ Len(Chain) \in Nat /\ NULL \notin Links /\ Members \subseteq Links
      /\ \A i \in 1..Len(Chain) : Chain[i] = next[Before(List, Chain, i)]
      /\ next[Before(List, Chain, Len(Chain) + 1)] = NULL
      BY ChainFacts, ListAssumption DEF Members
<1>3. K \subseteq Nat
      BY <1>1, <1>2 DEF Ranking, Nodes
<1>4. ASSUME Missed # {} PROVE FALSE
  <2>1. PICK k \in K : \A j \in K : k <= j
    <3>1. K # {}
          BY <1>4
    <3> HIDE DEF K
    <3> QED BY <1>3, <3>1, Minimum
  <2>2. PICK l \in Missed : k = r[l]
        OBVIOUS
  <2>3. PICK n \in InList : next[n] = l
        BY DEF Linear
  <2>4. ASSUME NEW i \in 1..(Len(Chain) + 1) PROVE Before(List, Chain, i) # n
    <3>1. CASE i \in 1..Len(Chain)
          BY <1>2, <2>2, <2>3, <3>1
    <3>2. CASE i = Len(Chain) + 1
          BY <1>2, <2>2, <2>3, <3>2
    <3> QED BY <1>2, <3>1, <3>2
  <2>5. n # List
        BY <1>2, <2>4 DEF Before
  <2>6. n \in Members
        BY <2>5 DEF InList
  <2>7. ASSUME NEW i \in 1..Len(Chain), Chain[i] = n PROVE FALSE
    <3>1. i + 1 \in 1..(Len(Chain) + 1) /\ i + 1 # 1 /\ (i + 1) - 1 = i
          BY <1>2
    <3>2. Before(List, Chain, i + 1) = n
          BY <2>7, <3>1 DEF Before
    <3> QED BY <2>4, <3>1, <3>2
  <2>8. n \in Missed
        BY <2>6, <2>7
  <2>9. r[n] < r[l] /\ r[n] \in Nat /\ r[l] \in Nat
        BY <1>1, <1>2, <2>2, <2>3, <2>6 DEF Ranking, Nodes
  <2>10. r[n] \in K
        BY <2>8
  <2>11. r[l] <= r[n]
        BY <2>1, <2>2, <2>10
  <2> HIDE DEF K, Missed
  <2> QED BY <2>9, <2>11
<1> QED BY <1>4

-----------------------------------------------------------------------------
\* Following next from list->first meets each link that was appended and not
\* unlinked once, and no other, through every step of linked_push and
\* linked_unlink, however many append (linked.c:17-47, 204-206).
THEOREM ListIsWhatWasAppended ==
  IsFiniteSet(Links) /\ SoleUnlinker => (Spec => []ChainIsMembers)
<1> SUFFICES ASSUME IsFiniteSet(Links), SoleUnlinker PROVE Spec => []ChainIsMembers
    OBVIOUS
<1>1. Settled /\ Shape => ChainIsMembers
  <2> SUFFICES ASSUME Settled, Shape, Undestroyed
               PROVE  /\ {Chain[i] : i \in DOMAIN Chain} = Members
                      /\ Len(Chain) = Cardinality(Members)
      BY DEF ChainIsMembers
  <2>1. ~Over
        BY DEF Undestroyed, Over, Destroying
  <2>2. /\ Chain \in Seq(Links) /\ Len(Chain) \in Nat /\ DOMAIN Chain = 1..Len(Chain)
        /\ Chain \in [1..Len(Chain) -> Links]
        BY ChainFacts
  <2>3. {Chain[i] : i \in DOMAIN Chain} = Members
        BY <2>1, <2>2, ChainInside, ChainMeetsAll DEF Shape
  <2>4. Chain \in Bijection(1..Len(Chain), Members)
    <3>1. Chain \in [1..Len(Chain) -> Members]
          BY <2>1, <2>2, ChainInside DEF Shape
    <3>2. \A i, j \in 1..Len(Chain) : Chain[i] = Chain[j] => i = j
          BY ChainFacts
    <3>3. \A l \in Members : \E i \in 1..Len(Chain) : Chain[i] = l
          BY ChainMeetsAll DEF Shape
    <3> QED BY <3>1, <3>2, <3>3 DEF Bijection, Injection, IsInjective,
               Surjection
  <2>5. Cardinality(Members) = Len(Chain)
        BY <2>2, <2>4, FS_CountingElements DEF ExistsBijection
  <2> QED BY <2>3, <2>5
<1> QED BY <1>1, InductiveShape, PTL

\* And prev leads the same way back, except for the successor of a link whose
\* linked_unlink is half done (linked.c:192-206), even while linked_destroy runs.
THEOREM PrevIsNextReversed ==
  IsFiniteSet(Links) /\ SoleUnlinker => (Spec => []BackPointers)
<1> SUFFICES ASSUME IsFiniteSet(Links), SoleUnlinker PROVE Spec => []BackPointers
    OBVIOUS
<1>1. Settled /\ Shape => BackPointers
  <2> SUFFICES ASSUME Settled, Shape, NEW i \in DOMAIN Chain
               PROVE  LET before == Before(List, Chain, i)
                      IN prev[Chain[i]] = IF Redirected(before) THEN prev[before]
                                          ELSE before
      BY DEF BackPointers, Before, Redirected
  <2>1. /\ i \in 1..Len(Chain) /\ Len(Chain) \in Nat /\ Chain[i] \in Links
        /\ Chain[i] = next[Before(List, Chain, i)]
        /\ next[Before(List, Chain, Len(Chain) + 1)] = NULL
        /\ NULL \notin Links /\ List \notin Links
    <3>1. DOMAIN Chain = 1..Len(Chain)
          BY ChainFacts
    <3> QED BY <3>1, ChainFacts, ListAssumption
  <2>2. CASE ~Over
    <3>1. Chain[i] \in Members /\ Before(List, Chain, i) \in InList
          BY <2>1, <2>2, ChainInside DEF Shape
    <3> QED BY <2>1, <3>1 DEF Shape, Backed
  <2>3. CASE Over
    <3>1. i = 1
      <4>1. ASSUME i # 1 PROVE FALSE
        <5>1. 1 \in 1..Len(Chain) /\ Before(List, Chain, 1) = List
              BY <2>1 DEF Before
        <5>2. Chain[1] = next[List] /\ Chain[1] \in Links
              BY <5>1, ChainFacts
        <5>3. next[next[List]] = NULL
              BY <2>1, <2>3, <5>2 DEF Shape, Linear
        <5>4. 2 \in 1..Len(Chain)
              BY <2>1, <4>1
        <5>5. Before(List, Chain, 2) = Chain[1]
              BY DEF Before
        <5>6. Chain[2] = next[Chain[1]] /\ Chain[2] \in Links
              BY <5>4, <5>5, ChainFacts
        <5> QED BY <2>1, <5>2, <5>3, <5>6
      <4> QED BY <4>1
    <3>2. Before(List, Chain, i) = List /\ next[List] \in Links
          BY <2>1, <3>1 DEF Before
    <3>3. prev[next[List]] = List
          BY <2>1, <2>3, <3>2 DEF Shape, Linear
    <3>4. ~Redirected(List)
          BY <2>1 DEF Redirected, Settled, Typed, Locals
    <3> QED BY <2>1, <3>2, <3>3, <3>4
  <2> QED BY <2>2, <2>3
<1> QED BY <1>1, InductiveShape, PTL
-----------------------------------------------------------------------------
(* The list as a sequence, step by step, and the passes over it.           *)

\* Chain is the way through the list, now and after a step.
ChainRoute == Route(next, Chain)

LEMMA ChainIsRouteAfter ==
  ASSUME IsFiniteSet(Links) PROVE Settled' => Route(next', Chain')
<1>1. Settled => ChainRoute
      BY ChainIsRoute DEF ChainRoute
<1>2. Settled' => ChainRoute'
      BY <1>1, PTL
<1> QED BY <1>2 DEF ChainRoute

\* The reference a thread holds, and the links that were given back.
Held == [t \in Threads |-> IF Pushing(t) THEN NULL ELSE at[t]]
Gone == {l \in Links : mem[l] = "freed"}

\* Nobody takes the list apart.
Undisturbed ==
  /\ mem[List] = "live"
  /\ \A t \in Threads : pc[t] \notin {"destroy_head", "destroy_link", "destroy_next"}

\* Appending and taking out, on paths.
LEMMA RouteAppend ==
  ASSUME NEW nx, NEW nx2, NEW s, Route(nx, s), NEW l \in Links, NEW c,
         c = Before(List, s, Len(s) + 1), l # c,
         \A i \in 1..Len(s) : Before(List, s, i) # c,
         nx2[c] = l, nx2[l] = NULL,
         \A i \in 1..Len(s) : nx2[Before(List, s, i)] = nx[Before(List, s, i)]
  PROVE  Route(nx2, Append(s, l))
<1> DEFINE q == Append(s, l)
<1>1. s \in Seq(Links) /\ Len(s) \in Nat
      BY DEF Route, Follows
<1>2. /\ q \in Seq(Links) /\ Len(q) = Len(s) + 1 /\ q[Len(s) + 1] = l
      /\ \A i \in 1..Len(s) : q[i] = s[i]
      BY <1>1, AppendProperties
<1> HIDE DEF q
<1>3. \A i \in 1..(Len(s) + 1) : Before(List, q, i) = Before(List, s, i)
      BY <1>1, <1>2 DEF Before
<1>4. ASSUME NEW i \in 1..Len(q) PROVE q[i] = nx2[Before(List, q, i)]
  <2>1. CASE i = Len(s) + 1
        BY <1>2, <1>3, <2>1
  <2>2. CASE i \in 1..Len(s)
        BY <1>1, <1>2, <1>3, <2>2 DEF Route, Follows
  <2> QED BY <1>1, <1>2, <2>1, <2>2
<1>5. Before(List, q, Len(q) + 1) = l
      BY <1>1, <1>2 DEF Before
<1> QED BY <1>2, <1>4, <1>5 DEF Route, Follows, q

\* s without its i-th link.
Dropped(s, i) == [j \in 1..(Len(s) - 1) |-> IF j < i THEN s[j] ELSE s[j + 1]]

LEMMA RouteWithout ==
  ASSUME NEW nx, NEW nx2, NEW s, Route(nx, s), NEW i \in 1..Len(s),
         nx2[Before(List, s, i)] = nx[s[i]],
         \A j \in 1..(Len(s) + 1) : j # i => nx2[Before(List, s, j)] = nx[Before(List, s, j)]
  PROVE  Route(nx2, Dropped(s, i))
<1> DEFINE q == Dropped(s, i)
<1>1. s \in Seq(Links) /\ Len(s) \in Nat /\ Len(s) # 0 /\ Len(s) - 1 \in Nat
      BY DEF Route, Follows
<1>2. \A j \in 1..Len(s) : s[j] \in Links /\ s[j] = nx[Before(List, s, j)]
      BY ElementOfSeq DEF Route, Follows
<1>3. q \in Seq(Links)
  <2> DEFINE e(j) == IF j < i THEN s[j] ELSE s[j + 1]
  <2>1. \A j \in 1..(Len(s) - 1) : e(j) \in Links
        BY <1>1, <1>2
  <2> HIDE DEF e
  <2>2. [j \in 1..(Len(s) - 1) |-> e(j)] \in Seq(Links)
        BY <1>1, <2>1, IsASeq
  <2> QED BY <2>2 DEF e, Dropped
<1>4. Len(q) = Len(s) - 1 /\ \A j \in 1..(Len(s) - 1) : q[j] = IF j < i THEN s[j] ELSE s[j + 1]
      BY <1>1 DEF Dropped
<1> HIDE DEF q
<1>5. ASSUME NEW j \in 1..Len(s)
      PROVE  nx2[Before(List, q, j)] = nx[Before(List, s, IF j < i THEN j ELSE j + 1)]
  <2>1. CASE j < i \/ j = i
    <3>1. Before(List, q, j) = Before(List, s, j)
          BY <1>1, <1>4, <2>1 DEF Before
    <3>2. j = i => Before(List, s, j + 1) = s[i]
          BY DEF Before
    <3> QED BY <2>1, <3>1, <3>2
  <2>2. CASE j > i
    <3>1. j # 1 /\ j - 1 \in 1..(Len(s) - 1) /\ ~(j - 1 < i) /\ (j - 1) + 1 = j
          BY <1>1, <2>2
    <3>2. Before(List, q, j) = s[j]
          BY <1>4, <3>1 DEF Before
    <3>3. Before(List, s, j + 1) = s[j]
          BY DEF Before
    <3>4. j + 1 \in 1..(Len(s) + 1) /\ j + 1 # i /\ ~(j < i)
          BY <1>1, <2>2
    <3> QED BY <3>2, <3>3, <3>4
  <2> QED BY <2>1, <2>2
<1>6. ASSUME NEW j \in 1..Len(q) PROVE q[j] = nx2[Before(List, q, j)]
  <2>1. j \in 1..Len(s) /\ j + 1 \in 1..Len(s) /\ q[j] = s[IF j < i THEN j ELSE j + 1]
        BY <1>1, <1>4
  <2> QED BY <1>2, <1>5, <2>1
<1>7. nx2[Before(List, q, Len(q) + 1)] = NULL
  <2>1. Len(q) + 1 \in 1..Len(s) /\ Len(q) + 1 = Len(s)
        BY <1>1, <1>4
  <2>2. ~(Len(s) < i)
        BY <1>1
  <2> QED BY <1>5, <2>1, <2>2 DEF Route
<1> QED BY <1>3, <1>6, <1>7 DEF Route, Follows, q

\* The steps the promise does not show.
LEMMA QuietStutters ==
  ASSUME Settled, NEW t \in Threads, Step(t) \/ Call(t), ~PushAppend(t), ~UnlinkDo(t),
         ~FirstTake(t), ~NextStep(t), ~Release(t), Undisturbed, Destroyers = {}
  PROVE  Chain' = Chain /\ Held' = Held /\ Gone' = Gone
<1> DEFINE Same == next' = next /\ Held' = Held /\ Gone' = Gone
<1> USE ListAssumption DEF Settled, Typed, TypeOK, Locals, Nodes, Ptr, In, Goto,
                          heap, Held, Gone, Pushing, Secluded, Private
<1>1. ASSUME PushLockList(t) PROVE Same
      BY <1>1 DEF PushLockList
<1>2. ASSUME PushWalk(t) PROVE Same
      BY <1>2 DEF PushWalk
<1>3. ASSUME FirstLockList(t) PROVE Same
      BY <1>3 DEF FirstLockList
<1>4. ASSUME UnlinkPrev(t) PROVE Same
      BY <1>4 DEF UnlinkPrev
<1>5. ASSUME UnlinkLockPrev(t) PROVE Same
      BY <1>5 DEF UnlinkLockPrev
<1>6. ASSUME UnlinkCheck(t) PROVE Same
      BY <1>6 DEF UnlinkCheck
<1>7. ASSUME UnlinkLock(t) PROVE Same
      BY <1>7 DEF UnlinkLock
<1>8. ASSUME UnlinkNext(t) PROVE Same
      BY <1>8 DEF UnlinkNext
<1>9. ASSUME PushAlloc(t) PROVE Same
      BY <1>9 DEF PushAlloc
<1>10. ASSUME FirstCall(t) PROVE Same
      BY <1>10 DEF FirstCall
<1>11. ASSUME NextLock(t) PROVE Same
      BY <1>11 DEF NextLock
<1>12. ASSUME UnlinkCall(t) PROVE Same
      BY <1>12 DEF UnlinkCall
<1>13. Same
      BY <1>1, <1>2, <1>3, <1>4, <1>5, <1>6, <1>7, <1>8, <1>9, <1>10, <1>11,
         <1>12
      DEF Step, Call, Undisturbed, DestroyCall, DestroyLockList, DestroyLink, DestroyNext,
          Clear, DestroyList
<1>14. Chain' = Chain
      BY <1>13 DEF Chain
<1> QED BY <1>13, <1>14

-----------------------------------------------------------------------------
(* linked_push is Append1, and taking a link out is Remove.                *)

LEMMA UndisturbedFacts ==
  ASSUME Undisturbed PROVE ~Over
BY DEF Undisturbed, Over, Destroying

LEMMA StepUndisturbed ==
  ASSUME Settled, NEW t \in Threads, Step(t) \/ Call(t), Undisturbed, Destroyers = {}
  PROVE  Undisturbed'
<1> USE ListAssumption DEF Settled, Typed, TypeOK, Locals, Nodes, Ptr, In, Goto,
                          heap, Undisturbed
<1>1. CASE PushLockList(t)
      BY <1>1 DEF PushLockList
<1>2. CASE PushWalk(t)
      BY <1>2 DEF PushWalk
<1>3. CASE PushAppend(t)
      BY <1>3 DEF PushAppend
<1>4. CASE FirstLockList(t)
      BY <1>4 DEF FirstLockList
<1>5. CASE FirstTake(t)
      BY <1>5 DEF FirstTake
<1>6. CASE NextStep(t)
      BY <1>6 DEF NextStep, StepTo, FreeIf
<1>7. CASE UnlinkPrev(t)
      BY <1>7 DEF UnlinkPrev
<1>8. CASE UnlinkLockPrev(t)
      BY <1>8 DEF UnlinkLockPrev
<1>9. CASE UnlinkCheck(t)
      BY <1>9 DEF UnlinkCheck
<1>10. CASE UnlinkLock(t)
      BY <1>10 DEF UnlinkLock
<1>11. CASE UnlinkNext(t)
      BY <1>11 DEF UnlinkNext
<1>12. CASE UnlinkDo(t)
      BY <1>12 DEF UnlinkDo, TakeOut, FreeIf
<1>13. CASE DestroyLockList(t)
      BY <1>13 DEF DestroyLockList
<1>14. CASE DestroyLink(t)
      BY <1>14 DEF DestroyLink
<1>15. CASE DestroyNext(t)
      BY <1>15 DEF DestroyNext, Clear, FreeIf
<1>16. CASE DestroyList(t)
      BY <1>16 DEF DestroyList
<1>17. CASE PushAlloc(t)
      BY <1>17 DEF PushAlloc
<1>18. CASE FirstCall(t)
      BY <1>18 DEF FirstCall
<1>19. CASE NextLock(t)
      BY <1>19 DEF NextLock
<1>20. CASE Release(t)
      BY <1>20 DEF Release, FreeIf
<1>21. CASE UnlinkCall(t)
      BY <1>21 DEF UnlinkCall
<1>22. CASE DestroyCall(t)
      BY <1>22 DEF DestroyCall
<1> QED BY <1>1, <1>2, <1>3, <1>4, <1>5, <1>6, <1>7, <1>8, <1>9, <1>10, <1>11,
           <1>12, <1>13, <1>14, <1>15, <1>16, <1>17, <1>18, <1>19, <1>20,
           <1>21, <1>22 DEF Step, Call

\* What the promise says of the list, in terms of the pointers.
LEMMA PromiseIn ==
  ASSUME IsFiniteSet(Links), Settled, Linear, Undisturbed
  PROVE  /\ \A l \in Links : Promise!In(l) <=> l \in Members
         /\ \A l \in Members : Promise!After(l) = next[l]
<1>1. /\ Chain \in Seq(Links) /\ Len(Chain) \in Nat /\ DOMAIN Chain = 1..Len(Chain)
      /\ \A i \in 1..Len(Chain) : Chain[i] = next[Before(List, Chain, i)]
      /\ next[Before(List, Chain, Len(Chain) + 1)] = NULL
      /\ \A i, j \in 1..Len(Chain) : Chain[i] = Chain[j] => i = j
      BY ChainFacts
<1>2. /\ \A i \in 1..Len(Chain) : Chain[i] \in Members
      /\ \A l \in Members : \E i \in 1..Len(Chain) : Chain[i] = l
      BY UndisturbedFacts, ChainInside, ChainMeetsAll
<1>3. \A l \in Links : Promise!In(l) <=> l \in Members
      BY <1>1, <1>2 DEF Promise!In
<1>4. ASSUME NEW l \in Members PROVE Promise!After(l) = next[l]
  <2> DEFINE i == CHOOSE j \in DOMAIN Chain : Chain[j] = l
  <2>1. i \in 1..Len(Chain) /\ Chain[i] = l
        BY <1>1, <1>2
  <2>2. Promise!After(l) = IF i = Len(Chain) THEN NULL ELSE Chain[i + 1]
        BY DEF Promise!After
  <2> HIDE DEF i
  <2>3. Before(List, Chain, i + 1) = l
        BY <1>1, <2>1 DEF Before
  <2>4. i # Len(Chain) => i + 1 \in 1..Len(Chain)
    <3>1. Len(Chain) \in Nat
          BY <1>1
    <3> QED BY <2>1, <3>1
  <2> QED BY <1>1, <2>1, <2>2, <2>3, <2>4
<1> QED BY <1>3, <1>4

LEMMA PushPromised ==
  ASSUME IsFiniteSet(Links), Settled, Shape, Settled', Undisturbed,
         NEW t \in Threads, PushAppend(t)
  PROVE  \E l \in Links : Promise!Append1(l)
<1> PICK l \in Links, c \in InList : l = at[t] /\ c = cur[t]
    BY PushFacts
<1>1. /\ l \notin Members /\ next[c] = NULL /\ next[l] = NULL
      /\ next' = [next EXCEPT ![c] = l]
      BY PushFacts
<1>2. /\ pc' = [pc EXCEPT ![t] = "idle"] /\ pc[t] = "push_walk"
      /\ at' = [at EXCEPT ![t] = NULL] /\ mem' = mem /\ mem[l] = "live"
      BY DEF PushAppend, In, Goto, Settled, Secluded, Pushing
<1>3. l # NULL /\ l # List /\ l \in Nodes /\ c \in Nodes /\ c # l /\ List \in Nodes
      BY <1>1, ListAssumption DEF InList, Members, Nodes
<1>4. /\ Chain \in Seq(Links) /\ Len(Chain) \in Nat
      /\ \A i \in 1..Len(Chain) : /\ Chain[i] = next[Before(List, Chain, i)]
                                  /\ Chain[i] \in Links
                                  /\ Before(List, Chain, i) \in Nodes
      /\ Route(next, Chain)
      BY ChainFacts, ChainIsRoute
<1>5. \A i \in 1..Len(Chain) : Before(List, Chain, i) # c
      BY <1>1, <1>4, ListAssumption
<1>6. c = Before(List, Chain, Len(Chain) + 1)
  <2>1. CASE c = List
    <3>1. Len(Chain) = 0
          BY <1>4, <1>5, <2>1 DEF Before
    <3> QED BY <2>1, <3>1 DEF Before
  <2>2. CASE c \in Members
    <3>1. PICK i \in 1..Len(Chain) : Chain[i] = c
          BY <2>2, ChainMeetsAll DEF Shape
    <3>2. Before(List, Chain, i + 1) = c
          BY <3>1 DEF Before
    <3>3. i = Len(Chain)
          BY <1>4, <1>5, <3>2
    <3> QED BY <3>2, <3>3
  <2> QED BY <2>1, <2>2 DEF InList
<1>7. /\ next'[c] = l /\ next'[l] = NULL
      /\ \A i \in 1..Len(Chain) : next'[Before(List, Chain, i)] = next[Before(List, Chain, i)]
      BY <1>1, <1>3, <1>4, <1>5 DEF Settled, Typed, TypeOK
<1>8. Route(next', Append(Chain, l))
      BY <1>3, <1>4, <1>5, <1>6, <1>7, RouteAppend
<1>9. Chain' = Append(Chain, l)
  <2>1. Route(next', Chain')
        BY ChainIsRouteAfter
  <2> QED BY <1>8, <2>1, RouteIsUnique, ListAssumption
<1>10. Held' = Held
      BY <1>2 DEF Held, Pushing, Settled, Typed, TypeOK
<1>11. Gone' = Gone /\ l \notin Gone
      BY <1>2 DEF Gone
<1>12. ~Promise!In(l)
      BY <1>1, PromiseIn DEF Shape
<1> QED BY <1>9, <1>10, <1>11, <1>12 DEF Promise!Append1, Held, Gone

LEMMA UnlinkPromised ==
  ASSUME IsFiniteSet(Links), Settled, Shape, Settled', Undisturbed,
         NEW t \in Threads, UnlinkDo(t)
  PROVE  \E l \in Links : Promise!Remove(l)
<1>1. /\ pc[t] = "unlink_do" /\ pc' = [pc EXCEPT ![t] = "idle"] /\ at' = at
      /\ next' = [next EXCEPT ![cur[t]] = next[at[t]], ![at[t]] = next[at[t]]]
      /\ mem' = IF inUse[at[t]] = 0 THEN [mem EXCEPT ![at[t]] = "freed"] ELSE mem
      BY DEF UnlinkDo, TakeOut, FreeIf, In, Goto
<1> PICK l \in Links, p \in InList : l = at[t] /\ p = cur[t]
    BY <1>1, UnlinkFacts
<1>2. /\ l \in Members /\ p # l /\ next[p] = l /\ next[l] # l
      /\ Members \subseteq Links /\ p \in Nodes /\ l \in Nodes
      /\ NULL \notin Links /\ List \notin Links
      BY <1>1, UnlinkFacts DEF Nodes
<1>3. t \in Holders(l)
      BY <1>1 DEF Holders, Pushing
<1>4. inUse[l] # 0
  <2>1. IsFiniteSet(Holders(l))
        BY FS_Subset, ListAssumption DEF Holders
  <2> QED BY <1>3, <2>1, FS_EmptySet DEF Settled, Counted, RefCount
<1>5. mem' = mem
      BY <1>1, <1>4
<1>6. /\ Chain \in Seq(Links) /\ Len(Chain) \in Nat /\ DOMAIN Chain = 1..Len(Chain)
      /\ \A i \in 1..Len(Chain) : /\ Chain[i] = next[Before(List, Chain, i)]
                                  /\ Before(List, Chain, i) \in Nodes
      /\ next[Before(List, Chain, Len(Chain) + 1)] = NULL
      /\ \A i, j \in 1..Len(Chain) : Chain[i] = Chain[j] => i = j
      /\ Route(next, Chain)
      BY ChainFacts, ChainIsRoute
<1>7. PICK i \in 1..Len(Chain) : Chain[i] = l
      BY <1>2, ChainMeetsAll DEF Shape
<1>8. /\ \A j \in 1..Len(Chain) : Before(List, Chain, j) \in InList
      /\ \A j \in 1..Len(Chain) : Chain[j] \in Members
      BY ChainInside, UndisturbedFacts DEF Shape
<1>9. Before(List, Chain, i) = p
      BY <1>2, <1>6, <1>7, <1>8 DEF Shape, Linear
<1>10. \A j \in 1..(Len(Chain) + 1) : j # i => Before(List, Chain, j) # p
  <2>1. \A j \in 1..Len(Chain) : j # i => Before(List, Chain, j) # p
        BY <1>2, <1>6, <1>7
  <2>2. Before(List, Chain, Len(Chain) + 1) # p
        BY <1>2, <1>6
  <2> QED BY <1>6, <2>1, <2>2
<1>11. \A n \in Nodes : next'[n] = IF n = p THEN next[l] ELSE next[n]
      BY <1>1, <1>2 DEF Settled, Typed, TypeOK
<1>12. \A j \in 1..(Len(Chain) + 1) : Before(List, Chain, j) \in Nodes
      BY <1>6, BeforeTyped, ListAssumption DEF Nodes
<1>13. Route(next', Dropped(Chain, i))
  <2>1. next'[Before(List, Chain, i)] = next[Chain[i]]
        BY <1>2, <1>7, <1>9, <1>11
  <2>2. \A j \in 1..(Len(Chain) + 1) :
          j # i => next'[Before(List, Chain, j)] = next[Before(List, Chain, j)]
        BY <1>10, <1>11, <1>12
  <2> QED BY <1>6, <2>1, <2>2, RouteWithout
<1>14. Chain' = Dropped(Chain, i)
  <2>1. Route(next', Chain')
        BY ChainIsRouteAfter
  <2> QED BY <1>2, <1>13, <2>1, RouteIsUnique
<1>15. Held' = Held /\ Gone' = Gone
      BY <1>1, <1>5 DEF Held, Gone, Pushing, Settled, Typed, TypeOK
<1>16. Held[t] = l
      BY <1>1 DEF Held, Pushing
<1> QED BY <1>6, <1>7, <1>14, <1>15, <1>16
        DEF Promise!Remove, Promise!Without, Dropped, Held, Gone

-----------------------------------------------------------------------------
(* linked_first is Take, linked_next is Advance, linked_release is Let.    *)

LEMMA TakePromised ==
  ASSUME IsFiniteSet(Links), Settled, Shape, Undisturbed,
         NEW t \in Threads, FirstTake(t)
  PROVE  Promise!Take(t)
<1>1. /\ pc[t] = "first_link" /\ pc' = [pc EXCEPT ![t] = "idle"]
      /\ at' = [at EXCEPT ![t] = next[List]] /\ next' = next /\ mem' = mem
      BY DEF FirstTake, In, Goto
<1>2. at[t] = NULL /\ next[List] # NULL
      BY <1>1 DEF Settled, Typed, Locals, Aimed
<1>3. Chain # << >> /\ Chain[1] = next[List]
  <2>1. /\ Chain \in Seq(Links) /\ Len(Chain) \in Nat
        /\ \A i \in 1..Len(Chain) : Chain[i] = next[Before(List, Chain, i)]
        /\ next[Before(List, Chain, Len(Chain) + 1)] = NULL
        BY ChainFacts
  <2>2. Before(List, Chain, 1) = List
        BY DEF Before
  <2>3. Len(Chain) # 0
        BY <1>2, <2>1, <2>2
  <2>4. 1 \in 1..Len(Chain)
        BY <2>1, <2>3
  <2> QED BY <2>1, <2>2, <2>3, <2>4
<1>4. Chain' = Chain
      BY <1>1 DEF Chain
<1>5. Held[t] = NULL /\ Held' = [Held EXCEPT ![t] = next[List]] /\ Gone' = Gone
      BY <1>1, <1>2 DEF Held, Gone, Pushing, Settled, Typed, TypeOK
<1> QED BY <1>3, <1>4, <1>5 DEF Promise!Take, Held, Gone

\* A walker lets go of a link: it is freed when it is not in the list and
\* nobody else stands at it.
LEMMA DropPromised ==
  ASSUME IsFiniteSet(Links), Settled, Shape, Undisturbed, NEW t \in Threads,
         at[t] \in Links, ~Pushing(t),
         mem' = IF unlinked[at[t]] /\ inUse[at[t]] = 1
                THEN [mem EXCEPT ![at[t]] = "freed"] ELSE mem
  PROVE  Gone' = IF Promise!In(at[t]) \/ \E u \in Threads \ {t} : Held[u] = at[t]
                 THEN Gone ELSE Gone \cup {at[t]}
<1> PICK l \in Links : l = at[t]
    OBVIOUS
<1>1. t \in Holders(l) /\ IsFiniteSet(Holders(l))
      BY FS_Subset, ListAssumption DEF Holders
<1>2. mem[l] = "live" /\ ~Private(l)
  <2>1. mem[l] # "freed"
        BY <1>1 DEF Settled, Counted, FreedUnreferenced
  <2>2. ~Private(l)
        BY DEF Settled, Secluded
  <2> QED BY <2>1, <2>2 DEF Private, Settled, Typed, TypeOK, Nodes
<1>3. l \in Members <=> ~unlinked[l]
      BY <1>2 DEF Members, Private
<1>4. inUse[l] = 1 <=> \A u \in Threads \ {t} : Held[u] # l
  <2>1. inUse[l] = Cardinality(Holders(l))
        BY DEF Settled, Counted, RefCount
  <2>2. \A u \in Threads : u \in Holders(l) <=> Held[u] = l
        BY ListAssumption DEF Holders, Held
  <2>3. ASSUME inUse[l] = 1 PROVE Holders(l) = {t}
    <3>1. Cardinality(Holders(l) \ {t}) = 0
      <4>1. Cardinality(Holders(l) \ {t}) = Cardinality(Holders(l)) - 1
            BY <1>1, FS_RemoveElement
      <4> QED BY <2>1, <2>3, <4>1
    <3>2. IsFiniteSet(Holders(l) \ {t})
          BY <1>1, FS_RemoveElement
    <3>3. Holders(l) \ {t} = {}
          BY <3>1, <3>2, FS_EmptySet
    <3> QED BY <1>1, <3>3
  <2>4. ASSUME Holders(l) = {t} PROVE inUse[l] = 1
        BY <2>1, <2>4, FS_Singleton
  <2>5. Holders(l) \subseteq Threads
        BY DEF Holders
  <2> QED BY <1>1, <2>2, <2>3, <2>4, <2>5
<1>5. Promise!In(l) <=> l \in Members
      BY PromiseIn DEF Shape
<1>6. Gone' = IF Promise!In(l) \/ \E u \in Threads \ {t} : Held[u] = l
              THEN Gone ELSE Gone \cup {l}
  <2>1. Gone' = IF unlinked[l] /\ inUse[l] = 1 THEN Gone \cup {l} ELSE Gone
        BY DEF Gone, Settled, Typed, TypeOK, Nodes
  <2> QED BY <1>3, <1>4, <1>5, <2>1
<1> QED BY <1>6

LEMMA AdvancePromised ==
  ASSUME IsFiniteSet(Links), Settled, Shape, Undisturbed,
         NEW t \in Threads, NextStep(t)
  PROVE  Promise!Advance(t)
<1>1. /\ pc[t] = "next_step" /\ pc' = [pc EXCEPT ![t] = "idle"]
      /\ at' = [at EXCEPT ![t] = next[at[t]]] /\ next' = next
      /\ mem' = IF unlinked[at[t]] /\ inUse[at[t]] = 1
                THEN [mem EXCEPT ![at[t]] = "freed"] ELSE mem
      /\ next[at[t]] # NULL => mem[next[at[t]]] = "live"
      BY DEF NextStep, StepTo, FreeIf, NoneOrFree, Free, In, Goto
<1>2. at[t] \in Links /\ ~Pushing(t) /\ at[t] # NULL /\ at[t] \in Nodes
      BY <1>1, ListAssumption DEF Settled, Typed, Locals, Pushing, Nodes
<1>3. Gone' = IF Promise!In(at[t]) \/ \E u \in Threads \ {t} : Held[u] = at[t]
              THEN Gone ELSE Gone \cup {at[t]}
      BY <1>1, <1>2, DropPromised
<1>4. Held[t] = at[t] /\ Held' = [Held EXCEPT ![t] = next[at[t]]]
      BY <1>1, <1>2 DEF Held, Pushing, Settled, Typed, TypeOK
<1>5. next[at[t]] \in Ptr /\ next[at[t]] # at[t]
      BY <1>2, NextIsOther DEF Settled, Typed, TypeOK
<1>6. next[at[t]] \in (Links \ Gone') \cup {NULL}
      BY <1>1, <1>2, <1>5 DEF Gone, Ptr, Settled, Typed, TypeOK
<1>7. Promise!In(at[t]) => next[at[t]] = Promise!After(at[t])
      BY <1>2, PromiseIn DEF Shape
<1>8. Chain' = Chain
      BY <1>1 DEF Chain
<1>9. \E n \in (Links \ Gone') \cup {NULL} :
        /\ Promise!In(at[t]) => n = Promise!After(at[t])
        /\ Held' = [Held EXCEPT ![t] = n]
      BY <1>4, <1>6, <1>7
<1> QED BY <1>2, <1>3, <1>4, <1>8, <1>9 DEF Promise!Advance, Promise!Drop,
           Held, Gone

LEMMA ReleasePromised ==
  ASSUME IsFiniteSet(Links), Settled, Shape, Undisturbed,
         NEW t \in Threads, Release(t)
  PROVE  Promise!Let(t)
<1>1. /\ pc[t] = "idle" /\ pc' = pc /\ at[t] # NULL
      /\ at' = [at EXCEPT ![t] = NULL] /\ next' = next
      /\ mem' = IF unlinked[at[t]] /\ inUse[at[t]] = 1
                THEN [mem EXCEPT ![at[t]] = "freed"] ELSE mem
      BY DEF Release, FreeIf, In
<1>2. at[t] \in Links /\ ~Pushing(t)
      BY <1>1 DEF Settled, Typed, TypeOK, Ptr, Pushing
<1>3. Gone' = IF Promise!In(at[t]) \/ \E u \in Threads \ {t} : Held[u] = at[t]
              THEN Gone ELSE Gone \cup {at[t]}
      BY <1>1, <1>2, DropPromised
<1>4. Held[t] = at[t] /\ Held' = [Held EXCEPT ![t] = NULL]
      BY <1>1, <1>2 DEF Held, Pushing, Settled, Typed, TypeOK
<1>5. Chain' = Chain
      BY <1>1 DEF Chain
<1> QED BY <1>1, <1>3, <1>4, <1>5 DEF Promise!Let, Promise!Drop, Held, Gone

LEMMA NextPromised ==
  ASSUME IsFiniteSet(Links), Destroyers = {}
  PROVE  Settled /\ Settled' /\ Shape /\ Undisturbed /\ [Next]_vars
           => [Promise!Next]_(Promise!vars) /\ Undisturbed'
<1> SUFFICES ASSUME Settled, Settled', Shape, Undisturbed, [Next]_vars
             PROVE  [Promise!Next]_(Promise!vars) /\ Undisturbed'
    OBVIOUS
<1>1. ASSUME Chain' = Chain, Held' = Held, Gone' = Gone
      PROVE  UNCHANGED Promise!vars
      BY <1>1 DEF Promise!vars, Held, Gone
<1>2. ASSUME NEW t \in Threads, Step(t) \/ Call(t) PROVE [Promise!Next]_(Promise!vars)
  <2>1. CASE PushAppend(t)
        BY <2>1, PushPromised DEF Promise!Next
  <2>2. CASE UnlinkDo(t)
        BY <2>2, UnlinkPromised DEF Promise!Next
  <2>3. CASE FirstTake(t)
        BY <2>3, TakePromised DEF Promise!Next
  <2>4. CASE NextStep(t)
        BY <2>4, AdvancePromised DEF Promise!Next
  <2>5. CASE Release(t)
        BY <2>5, ReleasePromised DEF Promise!Next
  <2>6. CASE ~PushAppend(t) /\ ~UnlinkDo(t) /\ ~FirstTake(t) /\ ~NextStep(t) /\ ~Release(t)
        BY <1>1, <1>2, <2>6, QuietStutters
  <2> QED BY <2>1, <2>2, <2>3, <2>4, <2>5, <2>6
<1>3. ASSUME UNCHANGED <<mutex, heap, pc, at, cur>>
      PROVE  UNCHANGED Promise!vars /\ Undisturbed'
  <2>1. Chain' = Chain
        BY <1>3 DEF heap, Chain
  <2>2. Held' = Held /\ Gone' = Gone /\ Undisturbed'
        BY <1>3 DEF heap, Held, Gone, Pushing, Undisturbed
  <2> QED BY <1>1, <2>1, <2>2
<1> QED BY <1>2, <1>3, StepUndisturbed DEF Next, TouchFreed, vars, heap

LEMMA InitPromised ==
  ASSUME IsFiniteSet(Links) PROVE Init => Promise!Init /\ Undisturbed
<1> SUFFICES ASSUME Init PROVE Promise!Init /\ Undisturbed
    OBVIOUS
<1>1. Route(next, Chain) /\ List \in Nodes /\ NULL \notin Links
      BY InitSettled, ChainIsRoute, ListAssumption DEF Nodes
<1>2. Route(next, << >>)
      BY <1>1 DEF Init, Route, Follows, Before
<1>3. Chain = << >>
      BY <1>1, <1>2, RouteIsUnique
<1>4. Held = [t \in Threads |-> NULL] /\ Gone = {}
      BY ListAssumption DEF Init, Held, Gone, Pushing, Nodes
<1>5. Undisturbed
      BY <1>1 DEF Init, Undisturbed
<1> QED BY <1>3, <1>4, <1>5 DEF Promise!Init, Held, Gone

\* The locks, pointers and counts of linked.c implement the FIFO of ListPromise,
\* for any number of walkers and appenders, as long as one thread at most unlinks
\* and nobody destroys: each step is one of its operations or changes nothing of
\* it (linked.c:17-224).
THEOREM ListKeepsItsPromise ==
  IsFiniteSet(Links) /\ SoleUnlinker /\ Destroyers = {} => (Spec => KeepsPromise)
<1> SUFFICES ASSUME IsFiniteSet(Links), SoleUnlinker, Destroyers = {}
             PROVE  Spec => KeepsPromise
    OBVIOUS
<1>1. Init => Promise!Init /\ Undisturbed
      BY InitPromised
<1>2. Settled /\ Settled' /\ Shape /\ Undisturbed /\ [Next]_vars
        => [Promise!Next]_(Promise!vars) /\ Undisturbed'
      BY NextPromised
<1> QED BY <1>1, <1>2, InductiveShape, PTL DEF Spec, KeepsPromise, Promise!Spec

-----------------------------------------------------------------------------
(* What a pass that is under way will still meet.                          *)

Closed(nx, S) == \A x \in S : nx[x] # NULL => nx[x] \in S

\* Following nx from n one meets m.
Reaches(nx, n, m) == \A S \in SUBSET Nodes : n \in S /\ Closed(nx, S) => m \in S

LEMMA ReachesOn ==
  ASSUME NEW nx, NEW n \in Nodes, NEW m, Reaches(nx, n, m), m # n,
         nx[n] \in Nodes \cup {NULL}
  PROVE  nx[n] # NULL /\ Reaches(nx, nx[n], m)
<1>1. ASSUME nx[n] = NULL PROVE FALSE
  <2>1. Closed(nx, {n})
        BY <1>1 DEF Closed
  <2> QED BY <2>1 DEF Reaches
<1>2. ASSUME NEW S \in SUBSET Nodes, nx[n] \in S, Closed(nx, S) PROVE m \in S
  <2>1. Closed(nx, S \cup {n})
        BY <1>2 DEF Closed
  <2>2. m \in S \cup {n}
        BY <2>1 DEF Reaches
  <2> QED BY <2>2
<1> QED BY <1>1, <1>2 DEF Reaches

\* From the list object every member is met.
LEMMA ReachesMembers ==
  ASSUME Settled, Linear PROVE \A m \in Members : Reaches(next, List, m)
<1> SUFFICES ASSUME NEW S \in SUBSET Nodes, List \in S, Closed(next, S), Members \ S # {}
             PROVE  FALSE
    BY DEF Reaches
<1>1. PICK r : Ranking(r)
      BY DEF Settled, Ordered
<1> DEFINE K == {r[l] : l \in Members \ S}
<1>2. Members \subseteq Links /\ NULL \notin Links
      BY ListAssumption DEF Members
<1>3. K \subseteq Nat
      BY <1>1, <1>2 DEF Ranking, Nodes
<1>4. PICK k \in K : \A j \in K : k <= j
  <2>1. K # {}
        OBVIOUS
  <2> HIDE DEF K
  <2> QED BY <1>3, <2>1, Minimum
<1>5. PICK l \in Members \ S : k = r[l]
      OBVIOUS
<1>6. PICK n \in InList : next[n] = l
      BY DEF Linear
<1>7. n \in Members \ S
      BY <1>2, <1>5, <1>6 DEF Closed, InList
<1>8. r[n] \in K /\ r[n] < r[l] /\ r[n] \in Nat /\ r[l] \in Nat
      BY <1>1, <1>2, <1>5, <1>6, <1>7 DEF Ranking, Nodes
<1>9. r[l] <= r[n]
      BY <1>4, <1>5, <1>8
<1> HIDE DEF K
<1> QED BY <1>8, <1>9

\* The pointers a step moves cut nobody off from a link that stays in the list.
LEMMA ReachesStill ==
  ASSUME Settled, Shape, NEW t \in Threads, Step(t) \/ Call(t), ~DestroyNext(t),
         NEW n \in Nodes, NEW m \in Links, Reaches(next, n, m), ~unlinked'[m]
  PROVE  Reaches(next', n, m)
<1>1. CASE PushAppend(t)
  <2> PICK l \in Links, c \in InList : l = at[t] /\ c = cur[t]
      BY <1>1, PushFacts
  <2>1. next[c] = NULL /\ next' = [next EXCEPT ![c] = l]
        BY <1>1, PushFacts
  <2>2. ASSUME NEW S \in SUBSET Nodes, Closed(next', S) PROVE Closed(next, S)
        BY <2>1, <2>2 DEF Closed, Settled, Typed, TypeOK
  <2> QED BY <2>2 DEF Reaches
<1>2. CASE UnlinkDo(t)
  <2>1. /\ pc[t] = "unlink_do"
        /\ next' = [next EXCEPT ![cur[t]] = next[at[t]], ![at[t]] = next[at[t]]]
        /\ unlinked' = [unlinked EXCEPT ![at[t]] = TRUE]
        BY <1>2 DEF UnlinkDo, TakeOut, In
  <2> PICK l \in Links, p \in InList : l = at[t] /\ p = cur[t]
      BY <2>1, UnlinkFacts
  <2>2. p # l /\ next[p] = l /\ p \in Nodes /\ l \in Nodes /\ m # l
        BY <2>1, UnlinkFacts DEF Settled, Typed, TypeOK, Nodes
  <2>3. \A x \in Nodes : next'[x] = IF x = p THEN next[l] ELSE next[x]
        BY <2>1, <2>2 DEF Settled, Typed, TypeOK
  <2>4. ASSUME NEW S \in SUBSET Nodes, n \in S, Closed(next', S) PROVE m \in S
    <3> DEFINE T == IF p \in S THEN S \cup {l} ELSE S
    <3>1. T \in SUBSET Nodes /\ n \in T /\ (m \in T => m \in S)
          BY <2>2, <2>4
    <3>2. Closed(next, T)
      <4>1. CASE p \in S
            BY <2>2, <2>3, <2>4, <4>1 DEF Closed
      <4>2. CASE p \notin S
            BY <2>3, <2>4, <4>2 DEF Closed
      <4> QED BY <4>1, <4>2
    <3> QED BY <3>1, <3>2 DEF Reaches
  <2> QED BY <2>4 DEF Reaches
<1>3. CASE ~PushAppend(t) /\ ~UnlinkDo(t)
  <2>1. next' = next
    <3> USE DEF In, heap
    <3>1. CASE PushLockList(t)
          BY <3>1 DEF PushLockList
    <3>2. CASE PushWalk(t)
          BY <3>2 DEF PushWalk
    <3>3. CASE FirstLockList(t)
          BY <3>3 DEF FirstLockList
    <3>4. CASE FirstTake(t)
          BY <3>4 DEF FirstTake
    <3>5. CASE NextStep(t)
          BY <3>5 DEF NextStep, StepTo, FreeIf
    <3>6. CASE UnlinkPrev(t)
          BY <3>6 DEF UnlinkPrev
    <3>7. CASE UnlinkLockPrev(t)
          BY <3>7 DEF UnlinkLockPrev
    <3>8. CASE UnlinkCheck(t)
          BY <3>8 DEF UnlinkCheck
    <3>9. CASE UnlinkLock(t)
          BY <3>9 DEF UnlinkLock
    <3>10. CASE UnlinkNext(t)
          BY <3>10 DEF UnlinkNext
    <3>11. CASE DestroyLockList(t)
          BY <3>11 DEF DestroyLockList
    <3>12. CASE DestroyLink(t)
          BY <3>12 DEF DestroyLink
    <3>13. CASE DestroyList(t)
          BY <3>13 DEF DestroyList
    <3>14. CASE PushAlloc(t)
          BY <3>14 DEF PushAlloc
    <3>15. CASE FirstCall(t)
          BY <3>15 DEF FirstCall
    <3>16. CASE NextLock(t)
          BY <3>16 DEF NextLock
    <3>17. CASE Release(t)
          BY <3>17 DEF Release, FreeIf
    <3>18. CASE UnlinkCall(t)
          BY <3>18 DEF UnlinkCall
    <3>19. CASE DestroyCall(t)
          BY <3>19 DEF DestroyCall
    <3> QED BY <1>3, <3>1, <3>2, <3>3, <3>4, <3>5, <3>6, <3>7, <3>8, <3>9,
               <3>10, <3>11, <3>12, <3>13, <3>14, <3>15, <3>16, <3>17, <3>18,
               <3>19 DEF Step, Call
  <2> QED BY <2>1 DEF Reaches, Closed
<1> QED BY <1>1, <1>2, <1>3

\* What a pass still owes lies ahead of the walker.
Passing ==
  /\ seen \in [Walkers -> SUBSET Links] /\ due \in [Walkers -> SUBSET Links]
  /\ \A t \in Walkers : due[t] \subseteq Members
  /\ Undestroyed => \A t \in Walkers :
       at[t] \in Links /\ ~Pushing(t)
         => /\ at[t] \in seen[t]
            /\ \A m \in due[t] \ seen[t] : Reaches(next, at[t], m)

LEMMA OthersDestroyNot ==
  ASSUME Settled, NEW t \in Threads, Step(t) \/ Call(t), ~DestroyList(t),
         ~DestroyLockList(t), ~DestroyLink(t), ~DestroyNext(t)
  PROVE  /\ \A u \in Threads : Destroying(u)' <=> Destroying(u)
         /\ mem'[List] = "live" => mem[List] = "live"
<1> USE ListAssumption DEF Settled, Typed, TypeOK, Locals, Nodes, Ptr, In, Goto, heap,
        Destroying
<1>1. CASE PushLockList(t)
      BY <1>1 DEF PushLockList
<1>2. CASE PushWalk(t)
      BY <1>2 DEF PushWalk
<1>3. CASE PushAppend(t)
      BY <1>3 DEF PushAppend
<1>4. CASE FirstLockList(t)
      BY <1>4 DEF FirstLockList
<1>5. CASE FirstTake(t)
      BY <1>5 DEF FirstTake
<1>6. CASE NextStep(t)
      BY <1>6 DEF NextStep, StepTo, FreeIf
<1>7. CASE UnlinkPrev(t)
      BY <1>7 DEF UnlinkPrev
<1>8. CASE UnlinkLockPrev(t)
      BY <1>8 DEF UnlinkLockPrev
<1>9. CASE UnlinkCheck(t)
      BY <1>9 DEF UnlinkCheck
<1>10. CASE UnlinkLock(t)
      BY <1>10 DEF UnlinkLock
<1>11. CASE UnlinkNext(t)
      BY <1>11 DEF UnlinkNext
<1>12. CASE UnlinkDo(t)
      BY <1>12 DEF UnlinkDo, TakeOut, FreeIf
<1>13. CASE PushAlloc(t)
      BY <1>13 DEF PushAlloc
<1>14. CASE FirstCall(t)
      BY <1>14 DEF FirstCall
<1>15. CASE NextLock(t)
      BY <1>15 DEF NextLock
<1>16. CASE Release(t)
      BY <1>16 DEF Release, FreeIf
<1>17. CASE UnlinkCall(t)
      BY <1>17 DEF UnlinkCall
<1>18. CASE DestroyCall(t)
      BY <1>18 DEF DestroyCall
<1> QED BY <1>1, <1>2, <1>3, <1>4, <1>5, <1>6, <1>7, <1>8, <1>9, <1>10, <1>11,
           <1>12, <1>13, <1>14, <1>15, <1>16, <1>17, <1>18 DEF Step, Call

\* Taken apart stays taken apart.
LEMMA StaysDestroyed ==
  ASSUME Settled, Shape, NEW t \in Threads, Step(t) \/ Call(t), Undestroyed'
  PROVE  Undestroyed /\ ~DestroyNext(t)
<1>1. ASSUME DestroyNext(t) PROVE FALSE
      BY <1>1 DEF DestroyNext, Clear, In, Goto, Settled, Typed, TypeOK,
         Undestroyed
<1>2. Undestroyed
  <2> USE ListAssumption DEF Settled, Typed, TypeOK, Locals, Nodes, Ptr, In, Goto, heap,
          Undestroyed, Placed, Shape
  <2>1. CASE DestroyList(t) BY <2>1 DEF DestroyList
  <2>2. CASE DestroyLockList(t) BY <2>2 DEF DestroyLockList
  <2>3. CASE DestroyLink(t) BY <2>3 DEF DestroyLink
  <2>4. CASE ~DestroyList(t) /\ ~DestroyLockList(t) /\ ~DestroyLink(t)
    <3>1. (\A u \in Threads : Destroying(u)' <=> Destroying(u))
          /\ (mem'[List] = "live" => mem[List] = "live")
          BY <1>1, <2>4, OthersDestroyNot
    <3> QED BY <3>1 DEF Destroying
  <2> QED BY <2>1, <2>2, <2>3, <2>4
<1> QED BY <1>1, <1>2

\* A link leaves the members only by being unlinked.
LEMMA MembersKept ==
  ASSUME Settled, NEW t \in Threads, Step(t) \/ Call(t)
  PROVE  \A l \in Members : ~unlinked'[l] => l \in Members'
<1>1. CASE PushAppend(t)
      BY <1>1, MembersPush
<1>2. CASE UnlinkDo(t)
  <2>1. at[t] \in Links /\ unlinked' = [unlinked EXCEPT ![at[t]] = TRUE]
        BY <1>2 DEF UnlinkDo, TakeOut, In, Settled, Typed, Locals
  <2> QED BY <1>2, <2>1, MembersTaken DEF Settled, Typed, TypeOK
<1>3. CASE DestroyNext(t)
  <2>1. cur[t] \in Links /\ unlinked' = [unlinked EXCEPT ![cur[t]] = TRUE]
        BY <1>3 DEF DestroyNext, Clear, In, Settled, Typed, Locals
  <2> QED BY <1>3, <2>1, MembersCleared DEF Settled, Typed, TypeOK
<1> QED BY <1>1, <1>2, <1>3, MembersQuiet

\* Where a walker goes: it stays, or takes the first link, or the next one.
LEMMA WalkerMoves ==
  ASSUME Settled, NEW t \in Threads, Step(t) \/ Call(t), NEW w \in Threads,
         at'[w] \in Links, ~Pushing(w)'
  PROVE  \/ at'[w] = at[w] /\ ~Pushing(w) /\ ~(pc[w] = "idle" /\ pc'[w] = "first_head")
         \/ w = t /\ FirstTake(t)
         \/ w = t /\ NextStep(t)
<1> USE ListAssumption DEF Settled, Typed, TypeOK, Locals, Nodes, Ptr, In, Goto, heap,
        Pushing
<1>1. CASE PushLockList(t)
      BY <1>1 DEF PushLockList
<1>2. CASE PushWalk(t)
      BY <1>2 DEF PushWalk
<1>3. CASE PushAppend(t)
      BY <1>3 DEF PushAppend
<1>4. CASE FirstLockList(t)
      BY <1>4 DEF FirstLockList
<1>5. CASE FirstTake(t)
      BY <1>5 DEF FirstTake
<1>6. CASE NextStep(t)
      BY <1>6 DEF NextStep, StepTo, FreeIf
<1>7. CASE UnlinkPrev(t)
      BY <1>7 DEF UnlinkPrev
<1>8. CASE UnlinkLockPrev(t)
      BY <1>8 DEF UnlinkLockPrev
<1>9. CASE UnlinkCheck(t)
      BY <1>9 DEF UnlinkCheck
<1>10. CASE UnlinkLock(t)
      BY <1>10 DEF UnlinkLock
<1>11. CASE UnlinkNext(t)
      BY <1>11 DEF UnlinkNext
<1>12. CASE UnlinkDo(t)
      BY <1>12 DEF UnlinkDo, TakeOut, FreeIf
<1>13. CASE DestroyLockList(t)
      BY <1>13 DEF DestroyLockList
<1>14. CASE DestroyLink(t)
      BY <1>14 DEF DestroyLink
<1>15. CASE DestroyNext(t)
      BY <1>15 DEF DestroyNext, Clear, FreeIf
<1>16. CASE DestroyList(t)
      BY <1>16 DEF DestroyList
<1>17. CASE PushAlloc(t)
      BY <1>17 DEF PushAlloc
<1>18. CASE FirstCall(t)
      BY <1>18 DEF FirstCall
<1>19. CASE NextLock(t)
      BY <1>19 DEF NextLock
<1>20. CASE Release(t)
      BY <1>20 DEF Release, FreeIf
<1>21. CASE UnlinkCall(t)
      BY <1>21 DEF UnlinkCall
<1>22. CASE DestroyCall(t)
      BY <1>22 DEF DestroyCall
<1> QED BY <1>1, <1>2, <1>3, <1>4, <1>5, <1>6, <1>7, <1>8, <1>9, <1>10, <1>11,
           <1>12, <1>13, <1>14, <1>15, <1>16, <1>17, <1>18, <1>19, <1>20,
           <1>21, <1>22 DEF Step, Call

\* How linked_first and linked_next end a pass.
LEMMA PassEnds ==
  ASSUME Settled, NEW t \in Threads, Step(t) \/ Call(t), NEW w \in Threads,
         pc'[w] = "idle", at'[w] = NULL, pc[w] \in {"first_head", "next_step"}
  PROVE  \/ pc[w] = "first_head" /\ next[List] = NULL
         \/ pc[w] = "next_step" /\ next[at[w]] = NULL /\ at[w] \in Links /\ ~Pushing(w)
<1> USE ListAssumption DEF Settled, Typed, TypeOK, Locals, Nodes, Ptr, In, Goto, heap,
        Pushing
<1>1. CASE PushLockList(t)
      BY <1>1 DEF PushLockList
<1>2. CASE PushWalk(t)
      BY <1>2 DEF PushWalk
<1>3. CASE PushAppend(t)
      BY <1>3 DEF PushAppend
<1>4. CASE FirstLockList(t)
      BY <1>4 DEF FirstLockList
<1>5. CASE FirstTake(t)
      BY <1>5 DEF FirstTake
<1>6. CASE NextStep(t)
      BY <1>6 DEF NextStep, StepTo, FreeIf
<1>7. CASE UnlinkPrev(t)
      BY <1>7 DEF UnlinkPrev
<1>8. CASE UnlinkLockPrev(t)
      BY <1>8 DEF UnlinkLockPrev
<1>9. CASE UnlinkCheck(t)
      BY <1>9 DEF UnlinkCheck
<1>10. CASE UnlinkLock(t)
      BY <1>10 DEF UnlinkLock
<1>11. CASE UnlinkNext(t)
      BY <1>11 DEF UnlinkNext
<1>12. CASE UnlinkDo(t)
      BY <1>12 DEF UnlinkDo, TakeOut, FreeIf
<1>13. CASE DestroyLockList(t)
      BY <1>13 DEF DestroyLockList
<1>14. CASE DestroyLink(t)
      BY <1>14 DEF DestroyLink
<1>15. CASE DestroyNext(t)
      BY <1>15 DEF DestroyNext, Clear, FreeIf
<1>16. CASE DestroyList(t)
      BY <1>16 DEF DestroyList
<1>17. CASE PushAlloc(t)
      BY <1>17 DEF PushAlloc
<1>18. CASE FirstCall(t)
      BY <1>18 DEF FirstCall
<1>19. CASE NextLock(t)
      BY <1>19 DEF NextLock
<1>20. CASE Release(t)
      BY <1>20 DEF Release, FreeIf
<1>21. CASE UnlinkCall(t)
      BY <1>21 DEF UnlinkCall
<1>22. CASE DestroyCall(t)
      BY <1>22 DEF DestroyCall
<1> QED BY <1>1, <1>2, <1>3, <1>4, <1>5, <1>6, <1>7, <1>8, <1>9, <1>10, <1>11,
           <1>12, <1>13, <1>14, <1>15, <1>16, <1>17, <1>18, <1>19, <1>20,
           <1>21, <1>22 DEF Step, Call

LEMMA NextPassing ==
  ASSUME SoleUnlinker, Settled, Shape, Passing, Settled', Shape', NEW t \in Threads,
         Step(t) \/ Call(t), HNext
  PROVE  /\ Passing'
         /\ \A w \in Walkers : Ended(w) /\ Undestroyed => due'[w] \subseteq seen'[w]
<1>1. /\ seen' = [w \in Walkers |->
                   IF Starting(w) THEN {} ELSE seen[w] \cup ({at'[w]} \ {NULL})]
      /\ due' = [w \in Walkers |->
                  (IF Starting(w) THEN Members ELSE due[w]) \ {l \in Links : unlinked'[l]}]
      BY DEF HNext
<1>2. at' \in [Threads -> Ptr] /\ Walkers \subseteq Threads /\ Members \subseteq Links
      BY ListAssumption DEF Settled, Typed, TypeOK, Members
<1>3. seen' \in [Walkers -> SUBSET Links] /\ due' \in [Walkers -> SUBSET Links]
      BY <1>1, <1>2 DEF Passing, Ptr
<1>4. \A w \in Walkers : due'[w] \subseteq Members'
      BY <1>1, <1>2, MembersKept DEF Passing
<1>5. ASSUME Undestroyed', NEW w \in Walkers, at'[w] \in Links, ~Pushing(w)'
      PROVE  at'[w] \in seen'[w] /\ \A m \in due'[w] \ seen'[w] : Reaches(next', at'[w], m)
  <2>1. Undestroyed /\ ~DestroyNext(t) /\ ~Over
        BY <1>5, StaysDestroyed DEF Undestroyed, Over, Destroying
  <2>2. ASSUME ~Starting(w), NEW m \in due'[w] \ seen'[w]
        PROVE  /\ m \in due[w] \ seen[w] /\ m # at'[w] /\ m \in Links /\ m \in Members
               /\ ~unlinked'[m]
        BY <1>1, <1>2, <1>5, <2>2, ListAssumption DEF Passing
  <2>3. w \in Threads /\ at'[w] # NULL /\ at'[w] \in Nodes
        BY <1>2, <1>5, ListAssumption DEF Nodes
  <2>4. ASSUME ~Starting(w) PROVE at'[w] \in seen'[w]
        BY <1>1, <2>3, <2>4
  <2>5. CASE at'[w] = at[w] /\ ~Pushing(w) /\ ~Starting(w)
    <3>1. ASSUME NEW m \in due'[w] \ seen'[w] PROVE Reaches(next', at[w], m)
      <4>1. m \in due[w] \ seen[w] /\ m \in Links /\ ~unlinked'[m]
            BY <2>2, <2>5
      <4>2. Reaches(next, at[w], m)
            BY <1>5, <2>1, <2>5, <4>1 DEF Passing
      <4> QED BY <1>5, <2>1, <2>3, <2>5, <4>1, <4>2, ReachesStill
    <3> QED BY <2>4, <2>5, <3>1
  <2>6. CASE w = t /\ FirstTake(t)
    <3>1. /\ pc[w] = "first_link" /\ next' = next
          /\ at' = [at EXCEPT ![w] = next[List]]
          BY <2>6 DEF FirstTake, In
    <3>2. ~Starting(w) /\ at'[w] = next[List]
          BY <2>3, <3>1 DEF Starting, Settled, Typed, TypeOK
    <3>3. ASSUME NEW m \in due'[w] \ seen'[w] PROVE Reaches(next, next[List], m)
      <4>1. m \in Members /\ m # List
            BY <2>2, <3>2, ListAssumption
      <4>2. Reaches(next, List, m)
            BY <4>1, ReachesMembers DEF Shape
      <4>3. List \in Nodes /\ next[List] \in Nodes \cup {NULL}
            BY DEF Nodes, Settled, Typed, TypeOK, Ptr
      <4> QED BY <4>1, <4>2, <4>3, ReachesOn
    <3> QED BY <2>4, <3>1, <3>2, <3>3
  <2>7. CASE w = t /\ NextStep(t)
    <3>1. /\ pc[w] = "next_step" /\ next' = next
          /\ at' = [at EXCEPT ![w] = next[at[w]]]
          BY <2>7 DEF NextStep, StepTo, In
    <3>2. ~Starting(w) /\ at'[w] = next[at[w]]
          BY <2>3, <3>1 DEF Starting, Settled, Typed, TypeOK
    <3>3. at[w] \in Links /\ ~Pushing(w)
          BY <2>3, <3>1 DEF Settled, Typed, Locals, Pushing
    <3>4. ASSUME NEW m \in due'[w] \ seen'[w] PROVE Reaches(next, next[at[w]], m)
      <4>1. m \in due[w] \ seen[w] /\ at[w] \in seen[w]
            BY <2>1, <2>2, <3>2, <3>3 DEF Passing
      <4>2. Reaches(next, at[w], m) /\ m # at[w]
            BY <2>1, <3>3, <4>1 DEF Passing
      <4>3. at[w] \in Nodes /\ next[at[w]] \in Nodes \cup {NULL}
            BY <3>3 DEF Nodes, Settled, Typed, TypeOK, Ptr
      <4> QED BY <4>2, <4>3, ReachesOn
    <3> QED BY <2>4, <3>1, <3>2, <3>4
  <2> QED BY <1>5, <2>3, <2>5, <2>6, <2>7, WalkerMoves DEF Starting
<1>6. ASSUME NEW w \in Walkers, Ended(w), Undestroyed, NEW m \in due'[w] \ seen'[w]
      PROVE  FALSE
  <2>1. /\ w \in Threads /\ at'[w] = NULL /\ pc'[w] = "idle"
        /\ pc[w] \in {"first_head", "next_step"} /\ ~Starting(w)
        BY <1>2, <1>6 DEF Ended, Starting
  <2>2. m \in due[w] /\ m \notin seen[w] /\ m \in Members /\ m \in Links
        BY <1>1, <1>2, <1>6, <2>1 DEF Passing
  <2>3. CASE next[List] = NULL
    <3>1. Reaches(next, List, m) /\ m # List
          BY <2>2, ReachesMembers, ListAssumption DEF Shape
    <3>2. List \in Nodes
          BY DEF Nodes
    <3> QED BY <2>3, <3>1, <3>2, ReachesOn
  <2>4. CASE next[at[w]] = NULL /\ at[w] \in Links /\ ~Pushing(w)
    <3>1. Reaches(next, at[w], m) /\ m # at[w]
          BY <1>6, <2>2, <2>4 DEF Passing
    <3>2. at[w] \in Nodes
          BY <2>4 DEF Nodes
    <3> QED BY <2>4, <3>1, <3>2, ReachesOn
  <2> QED BY <2>1, <2>3, <2>4, PassEnds
<1> QED BY <1>3, <1>4, <1>5, <1>6 DEF Passing

LEMMA InitPassing == HInit => Passing
<1> SUFFICES ASSUME HInit PROVE Passing
    OBVIOUS
<1> QED BY ListAssumption DEF HInit, Init, Passing

\* No pass misses a link that was in the list from its linked_first to its last
\* linked_next, whatever is appended or unlinked meanwhile, under the walker's
\* feet too (linked.c:61-110): for any number of walkers and appenders and one
\* unlinker.
THEOREM PassesAreComplete == SoleUnlinker => (HSpec => PassIsComplete)
<1> SUFFICES ASSUME SoleUnlinker PROVE HSpec => PassIsComplete
    OBVIOUS
<1> DEFINE Met == \A t \in Walkers : Ended(t) /\ Undestroyed => due'[t] \subseteq seen'[t]
<1>1. HInit => Settled /\ Shape /\ Passing
      BY InitSettled, InitShape, InitPassing DEF HInit
<1>2. ASSUME Settled, Shape, Passing, [HNext]_hvars
      PROVE  Settled' /\ Shape' /\ Passing' /\ [Met]_hvars
  <2>1. Settled' /\ Shape'
        BY <1>2, NextSettled, NextShape DEF HNext, hvars
  <2>2. ASSUME NEW t \in Threads, Step(t) \/ Call(t), HNext PROVE Passing' /\ Met
        BY <1>2, <2>1, <2>2, NextPassing
  <2>3. ASSUME NEW t \in Threads, TouchFreed(t), HNext PROVE Passing' /\ Met
    <3>1. UNCHANGED <<mutex, heap, pc, at, cur>>
          BY <2>3 DEF TouchFreed
    <3>2. \A w : ~Starting(w) /\ ~Ended(w)
          BY <3>1 DEF Starting, Ended
    <3>3. Members' = Members /\ Undestroyed' = Undestroyed
          BY <3>1 DEF heap, Members, Pushing, Undestroyed
    <3>4. due' = [w \in Walkers |-> due[w] \ {l \in Links : unlinked[l]}]
          BY <2>3, <3>1, <3>2 DEF HNext, heap
    <3>5. seen' = [w \in Walkers |-> seen[w] \cup ({at[w]} \ {NULL})]
          BY <2>3, <3>1, <3>2 DEF HNext
    <3>6. Passing'
      <4>1. seen' \in [Walkers -> SUBSET Links] /\ due' \in [Walkers -> SUBSET Links]
            BY <1>2, <3>4, <3>5, ListAssumption DEF Passing, Settled, Typed,
               TypeOK, Ptr
      <4>2. \A w \in Walkers : due'[w] \subseteq due[w] /\ seen[w] \subseteq seen'[w]
            BY <3>4, <3>5
      <4>3. UNCHANGED <<pc, at, next>>
            BY <3>1 DEF heap
      <4> QED BY <1>2, <3>3, <4>1, <4>2, <4>3 DEF Passing, Pushing
    <3> QED BY <3>2, <3>6
  <2>4. ASSUME UNCHANGED hvars PROVE Passing'
        BY <1>2, <2>4 DEF hvars, vars, Passing, Pushing, Members, Undestroyed
  <2> QED BY <1>2, <2>1, <2>2, <2>3, <2>4 DEF HNext, Next
<1>3. QED BY <1>1, <1>2, PTL DEF HSpec, PassIsComplete
=============================================================================
