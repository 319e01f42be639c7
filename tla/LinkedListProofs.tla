-------------------------- MODULE LinkedListProofs --------------------------
(***************************************************************************)
(* What holds of src/linked.c for any number of links and threads, in any  *)
(* role: typing, ownership of the mutexes, exact reference counts (a link  *)
(* is freed when, and only when, it is unlinked and nobody stands at it),  *)
(* and the order of next, in which the mutexes are taken.                  *)
(***************************************************************************)
EXTENDS LinkedList, FiniteSetTheorems, WellFoundedInduction, TLAPS

\* What the locals of a thread are at each location.
Locals ==
  \A t \in Threads :
    /\ pc[t] \in {"push_head", "push_walk", "next_step", "unlink_prev",
                  "unlink_lock_prev", "unlink_check", "unlink_lock",
                  "unlink_next", "unlink_do"} => at[t] \in Links
    /\ pc[t] \in {"first_head", "first_link", "destroy_head", "destroy_link",
                  "destroy_next"} => at[t] = NULL
    /\ pc[t] \in {"push_walk", "unlink_lock_prev", "unlink_lock",
                  "unlink_next", "unlink_do"} => cur[t] \in Nodes
    /\ pc[t] = "destroy_link" => cur[t] \in Ptr
    /\ pc[t] = "destroy_next" => cur[t] \in Links

\* Does t hold the mutex of n where it is?
Holds(t, n) ==
  \/ /\ pc[t] \in {"push_walk", "unlink_lock", "unlink_next", "unlink_do",
                   "destroy_next"}
     /\ n = cur[t]
  \/ pc[t] \in {"next_step", "unlink_next", "unlink_do"} /\ n = at[t]
  \/ pc[t] \in {"first_link", "destroy_link", "destroy_next"} /\ n = List

\* Where a thread is says which mutexes it holds, and it holds no other.
Owned == \A t \in Threads, n \in Nodes : mutex[n] = t <=> Holds(t, n)

Typed == TypeOK /\ Locals

-----------------------------------------------------------------------------
LEMMA InitTyped == Init => Typed
<1> SUFFICES ASSUME Init PROVE Typed
    OBVIOUS
<1>1. mem \in [Nodes -> {"fresh", "live", "freed"}]
  <2>1. \A n \in Nodes :
          (IF n = List THEN "live" ELSE "fresh") \in {"fresh", "live", "freed"}
        OBVIOUS
  <2> QED BY <2>1 DEF Init
<1>2. TypeOK
  <2>1. /\ mutex \in [Nodes -> Threads \cup {NULL}]
        /\ next \in [Nodes -> Ptr]
        /\ prev \in [Links -> Nodes]
        BY DEF Init, Nodes, Ptr
  <2>2. inUse \in [Links -> Int] /\ unlinked \in [Links -> BOOLEAN]
        BY DEF Init
  <2>3. pc \in [Threads -> PCs] /\ at \in [Threads -> Ptr]
        BY DEF Init, PCs, Ptr
  <2>4. cur \in [Threads -> Nodes \cup {NULL}] /\ fault \in BOOLEAN
        BY DEF Init
  <2> QED BY <1>1, <2>1, <2>2, <2>3, <2>4 DEF TypeOK
<1>3. Locals
      BY DEF Init, Locals
<1> QED BY <1>2, <1>3 DEF Typed

LEMMA StepTyped ==
  ASSUME Typed, NEW t \in Threads, Step(t) PROVE Typed'
<1> USE ListAssumption DEF Typed, TypeOK, Locals, Nodes, Ptr, PCs, In, Goto, heap
<1>1. CASE PushLockList(t)  BY <1>1 DEF PushLockList
<1>2. CASE PushWalk(t)      BY <1>2 DEF PushWalk
<1>3. CASE PushAppend(t)    BY <1>3 DEF PushAppend
<1>4. CASE FirstLockList(t) BY <1>4 DEF FirstLockList
<1>5. CASE FirstTake(t)
  <2>1. next[List] \in Ptr
        OBVIOUS
  <2>2. inUse' \in [Links -> Int]
    <3>1. inUse' = [inUse EXCEPT ![next[List]] = @ + 1]
          BY <1>5 DEF FirstTake
    <3>2. CASE next[List] \in Links BY <3>1, <3>2
    <3>3. CASE next[List] = NULL
      <4>1. \A l \in Links : l # next[List]
            BY <3>3
      <4>2. inUse' = inUse
            BY <3>1, <4>1
      <4> QED BY <4>2
    <3> QED BY <2>1, <3>2, <3>3
  <2>3. /\ pc' = [pc EXCEPT ![t] = "idle"] /\ at' = [at EXCEPT ![t] = next[List]]
        /\ mutex' = [mutex EXCEPT ![List] = NULL]
        /\ UNCHANGED <<next, prev, unlinked, mem, cur, fault>>
        BY <1>5 DEF FirstTake
  <2> QED BY <2>1, <2>2, <2>3
<1>6. CASE NextStep(t)      BY <1>6 DEF NextStep, StepTo, FreeIf
<1>7. CASE UnlinkPrev(t)    BY <1>7 DEF UnlinkPrev
<1>8. CASE UnlinkLockPrev(t) BY <1>8 DEF UnlinkLockPrev
<1>9. CASE UnlinkCheck(t)   BY <1>9 DEF UnlinkCheck
<1>10. CASE UnlinkLock(t)   BY <1>10 DEF UnlinkLock
<1>11. CASE UnlinkNext(t)   BY <1>11 DEF UnlinkNext
<1>12. CASE UnlinkDo(t)     BY <1>12 DEF UnlinkDo, TakeOut, FreeIf
<1>13. CASE DestroyLockList(t) BY <1>13 DEF DestroyLockList
<1>14. CASE DestroyLink(t)  BY <1>14 DEF DestroyLink
<1>15. CASE DestroyNext(t)  BY <1>15 DEF DestroyNext, Clear, FreeIf
<1>16. CASE DestroyList(t)  BY <1>16 DEF DestroyList
<1> QED BY <1>1, <1>2, <1>3, <1>4, <1>5, <1>6, <1>7, <1>8, <1>9, <1>10,
           <1>11, <1>12, <1>13, <1>14, <1>15, <1>16 DEF Step

LEMMA CallTyped ==
  ASSUME Typed, NEW t \in Threads, Call(t) PROVE Typed'
<1> USE ListAssumption DEF Typed, TypeOK, Locals, Nodes, Ptr, PCs, In, Goto, heap
<1>1. CASE PushAlloc(t)   BY <1>1 DEF PushAlloc
<1>2. CASE FirstCall(t)   BY <1>2 DEF FirstCall
<1>3. CASE NextLock(t)    BY <1>3 DEF NextLock
<1>4. CASE Release(t)     BY <1>4 DEF Release, FreeIf
<1>5. CASE UnlinkCall(t)  BY <1>5 DEF UnlinkCall
<1>6. CASE DestroyCall(t) BY <1>6 DEF DestroyCall
<1> QED BY <1>1, <1>2, <1>3, <1>4, <1>5, <1>6 DEF Call

LEMMA NextTyped == Typed /\ [Next]_vars => Typed'
<1> SUFFICES ASSUME Typed, [Next]_vars PROVE Typed'
    OBVIOUS
<1>1. CASE Next
  <2>1. PICK t \in Threads : Step(t) \/ Call(t) \/ TouchFreed(t)
        BY <1>1 DEF Next
  <2>2. CASE TouchFreed(t)
        BY <2>2 DEF TouchFreed, Typed, TypeOK, Locals, heap, Nodes
  <2> QED BY <2>1, <2>2, StepTyped, CallTyped
<1>2. CASE UNCHANGED vars
      BY <1>2 DEF vars, Typed, TypeOK, Locals, Nodes
<1> QED BY <1>1, <1>2

\* Every variable keeps its type, for any links and threads.
THEOREM TypeCorrect == Spec => []TypeOK
<1>1. Typed => TypeOK
      BY DEF Typed
<1> QED BY <1>1, InitTyped, NextTyped, PTL DEF Spec

-----------------------------------------------------------------------------
LEMMA StepOwned ==
  ASSUME Typed, Owned, NEW t \in Threads, Step(t) PROVE Owned'
<1> USE ListAssumption DEF Typed, TypeOK, Locals, Owned, Holds, Nodes, Ptr, In, Goto,
                          heap, Free, NoneOrFree
<1>1. CASE PushLockList(t) BY <1>1 DEF PushLockList
<1>2. CASE PushWalk(t) BY <1>2 DEF PushWalk
<1>3. CASE PushAppend(t) BY <1>3 DEF PushAppend
<1>4. CASE FirstLockList(t) BY <1>4 DEF FirstLockList
<1>5. CASE FirstTake(t) BY <1>5 DEF FirstTake
<1>6. CASE NextStep(t) BY <1>6 DEF NextStep, StepTo
<1>7. CASE UnlinkPrev(t) BY <1>7 DEF UnlinkPrev
<1>8. CASE UnlinkLockPrev(t) BY <1>8 DEF UnlinkLockPrev
<1>9. CASE UnlinkCheck(t) BY <1>9 DEF UnlinkCheck
<1>10. CASE UnlinkLock(t) BY <1>10 DEF UnlinkLock
<1>11. CASE UnlinkNext(t) BY <1>11 DEF UnlinkNext
<1>12. CASE UnlinkDo(t) BY <1>12 DEF UnlinkDo, TakeOut
<1>13. CASE DestroyLockList(t) BY <1>13 DEF DestroyLockList
<1>14. CASE DestroyLink(t) BY <1>14 DEF DestroyLink
<1>15. CASE DestroyNext(t) BY <1>15 DEF DestroyNext, Clear
<1>16. CASE DestroyList(t) BY <1>16 DEF DestroyList
<1> QED BY <1>1, <1>2, <1>3, <1>4, <1>5, <1>6, <1>7, <1>8, <1>9, <1>10, <1>11, <1>12,
         <1>13, <1>14, <1>15, <1>16 DEF Step

LEMMA CallOwned ==
  ASSUME Typed, Owned, NEW t \in Threads, Call(t) PROVE Owned'
<1> USE ListAssumption DEF Typed, TypeOK, Locals, Owned, Holds, Nodes, Ptr, In, Goto,
                          heap, Free
<1>1. CASE PushAlloc(t) BY <1>1 DEF PushAlloc
<1>2. CASE FirstCall(t) BY <1>2 DEF FirstCall
<1>3. CASE NextLock(t) BY <1>3 DEF NextLock
<1>4. CASE Release(t) BY <1>4 DEF Release
<1>5. CASE UnlinkCall(t) BY <1>5 DEF UnlinkCall
<1>6. CASE DestroyCall(t) BY <1>6 DEF DestroyCall
<1> QED BY <1>1, <1>2, <1>3, <1>4, <1>5, <1>6 DEF Call

LEMMA NextOwned == Typed /\ Owned /\ [Next]_vars => Owned'
<1> SUFFICES ASSUME Typed, Owned, [Next]_vars PROVE Owned'
    OBVIOUS
<1>1. CASE Next
  <2>1. PICK t \in Threads : Step(t) \/ Call(t) \/ TouchFreed(t)
        BY <1>1 DEF Next
  <2>2. CASE TouchFreed(t)
        BY <2>2 DEF TouchFreed, Owned, Holds, heap
  <2> QED BY <2>1, <2>2, StepOwned, CallOwned
<1>2. CASE UNCHANGED vars
      BY <1>2 DEF vars, Owned, Holds
<1> QED BY <1>1, <1>2

-----------------------------------------------------------------------------
\* A thread that walks from its link (or NULL) to n (or NULL), with inUse
\* adjusted on both sides, keeps the counts exact.
LEMMA MoveHolder ==
  ASSUME Typed, RefCount, NEW t \in Threads, NEW n \in Ptr,
         ~Pushing(t), ~Pushing(t)', at' = [at EXCEPT ![t] = n],
         \A u \in Threads \ {t} : pc'[u] = pc[u],
         \A x \in Links : inUse'[x] = inUse[x] + (IF x = n THEN 1 ELSE 0)
                                              - (IF x = at[t] THEN 1 ELSE 0)
  PROVE  /\ RefCount'
         /\ \A x \in Links : Holders(x)' = (Holders(x) \ {t})
                                 \cup (IF x = n THEN {t} ELSE {})
<1>1. ASSUME NEW x \in Links
      PROVE  Holders(x)' = (Holders(x) \ {t}) \cup (IF x = n THEN {t} ELSE {})
      BY DEF Holders, Pushing, Typed, TypeOK
<1>2. ASSUME NEW x \in Links
      PROVE  inUse'[x] = Cardinality(Holders(x)')
  <2> DEFINE H == Holders(x)
  <2>1. IsFiniteSet(H) /\ IsFiniteSet(H \ {t})
    <3>1. H \subseteq Threads
          BY DEF Holders
    <3> QED BY <3>1, FS_Subset, ListAssumption
  <2>2. Cardinality(H) \in Nat /\ inUse[x] = Cardinality(H)
        BY <2>1, FS_CardinalityType DEF RefCount
  <2>3. t \in H <=> x = at[t]
        BY DEF Holders, Typed, TypeOK
  <2>4. Cardinality(H \ {t}) = Cardinality(H) - (IF x = at[t] THEN 1 ELSE 0)
        BY <2>1, <2>2, <2>3, FS_RemoveElement
  <2>5. Cardinality((H \ {t}) \cup {t}) = Cardinality(H \ {t}) + 1
        BY <2>1, FS_AddElement
  <2>6. Cardinality(Holders(x)')
          = Cardinality(H) - (IF x = at[t] THEN 1 ELSE 0) + (IF x = n THEN 1 ELSE 0)
    <3>1. CASE x = n
          BY <1>1, <2>2, <2>4, <2>5, <3>1
    <3>2. CASE x # n
      <4>1. Holders(x)' = H \ {t}
            BY <1>1, <3>2
      <4> QED BY <2>2, <2>4, <3>2, <4>1
    <3> QED BY <3>1, <3>2
  <2> QED BY <2>2, <2>6
<1> QED BY <1>1, <1>2 DEF RefCount

\* The one reference of a link that is counted once is t's own.
LEMMA LastHolder ==
  ASSUME Typed, RefCount, NEW t \in Threads, NEW l \in Links, t \in Holders(l)
  PROVE  inUse[l] # 0 /\ (inUse[l] = 1 => Holders(l) = {t})
<1>1. IsFiniteSet(Holders(l))
  <2>1. Holders(l) \subseteq Threads
        BY DEF Holders
  <2> QED BY <2>1, FS_Subset, ListAssumption
<1>2. /\ Cardinality(Holders(l)) = Cardinality(Holders(l) \ {t}) + 1
      /\ Cardinality(Holders(l) \ {t}) \in Nat
      /\ IsFiniteSet(Holders(l) \ {t})
  <2>1. Cardinality(Holders(l) \ {t}) = Cardinality(Holders(l)) - 1
        BY <1>1, FS_RemoveElement
  <2> QED BY <1>1, <2>1, FS_RemoveElement, FS_CardinalityType
<1>3. Cardinality(Holders(l) \ {t}) = 0 => Holders(l) = {t}
      BY <1>2, FS_EmptySet
<1> QED BY <1>2, <1>3 DEF RefCount

LEMMA NoHolder ==
  ASSUME RefCount, NEW l \in Links, inUse[l] = 0 PROVE Holders(l) = {}
<1>1. IsFiniteSet(Holders(l))
  <2>1. Holders(l) \subseteq Threads
        BY DEF Holders
  <2> QED BY <2>1, FS_Subset, ListAssumption
<1> QED BY <1>1, FS_EmptySet DEF RefCount

-----------------------------------------------------------------------------
Counted == RefCount /\ FreedUnreferenced

\* A step that moves no reference and frees nothing keeps the counts.
LEMMA QuietStep ==
  ASSUME Counted, inUse' = inUse,
         \A l \in Links : /\ Holders(l)' = Holders(l)
                          /\ mem'[l] = "freed" => mem[l] = "freed"
                          /\ unlinked[l] => unlinked'[l]
  PROVE  Counted'
BY DEF Counted, RefCount, FreedUnreferenced

LEMMA InitCounted == Init => Counted
<1> SUFFICES ASSUME Init PROVE Counted
    OBVIOUS
<1>1. ASSUME NEW l \in Links PROVE Holders(l) = {} /\ mem[l] # "freed"
      BY ListAssumption DEF Init, Holders, Nodes
<1>2. Cardinality({}) = 0
      BY FS_EmptySet
<1> QED BY <1>1, <1>2 DEF Init, Counted, RefCount, FreedUnreferenced

LEMMA FirstTakeCounted ==
  ASSUME Typed, Counted, NEW t \in Threads, FirstTake(t) PROVE Counted'
<1> DEFINE n == next[List]
<1>1. /\ n \in Ptr /\ at[t] = NULL /\ Free(n) /\ pc[t] = "first_link"
      /\ inUse' = [inUse EXCEPT ![n] = @ + 1] /\ at' = [at EXCEPT ![t] = n]
      /\ pc' = [pc EXCEPT ![t] = "idle"] /\ mem' = mem /\ unlinked' = unlinked
      BY DEF FirstTake, In, Goto, Typed, TypeOK, Locals, Nodes
<1>2. /\ ~Pushing(t) /\ ~Pushing(t)'
      /\ \A u \in Threads \ {t} : pc'[u] = pc[u]
      BY <1>1 DEF Pushing, Typed, TypeOK
<1>3. \A x \in Links : inUse'[x] = inUse[x] + (IF x = n THEN 1 ELSE 0)
                                           - (IF x = at[t] THEN 1 ELSE 0)
      BY <1>1, ListAssumption DEF Typed, TypeOK
<1>4. /\ RefCount'
      /\ \A x \in Links : Holders(x)' = (Holders(x) \ {t})
                              \cup (IF x = n THEN {t} ELSE {})
      BY <1>1, <1>2, <1>3, MoveHolder DEF Counted
<1>5. FreedUnreferenced'
      BY <1>1, <1>4 DEF Counted, FreedUnreferenced, Free
<1> QED BY <1>4, <1>5 DEF Counted

\* linked_next and linked_release: t goes from l to n, and frees an unlinked l
\* that was counted once.
LEMMA LetGoCounted ==
  ASSUME Typed, Counted, NEW t \in Threads, NEW n \in Ptr, at[t] \in Links,
         n # at[t], NoneOrFree(n), ~Pushing(t), ~Pushing(t)',
         \A u \in Threads \ {t} : pc'[u] = pc[u],
         at' = [at EXCEPT ![t] = n], unlinked' = unlinked,
         \A x \in Links : inUse'[x] = inUse[x] + (IF x = n THEN 1 ELSE 0)
                                              - (IF x = at[t] THEN 1 ELSE 0),
         FreeIf(at[t], unlinked[at[t]] /\ inUse[at[t]] = 1)
  PROVE  Counted'
<1>1. /\ RefCount'
      /\ \A x \in Links : Holders(x)' = (Holders(x) \ {t})
                              \cup (IF x = n THEN {t} ELSE {})
      BY MoveHolder DEF Counted
<1>2. ASSUME NEW l \in Links, mem'[l] = "freed"
      PROVE  unlinked'[l] /\ Holders(l)' = {}
  <2>1. CASE l = at[t] /\ unlinked[l] /\ inUse[l] = 1
    <3>1. t \in Holders(l)
          BY <2>1 DEF Holders
    <3>2. Holders(l) = {t}
          BY <2>1, <3>1, LastHolder DEF Counted
    <3> QED BY <1>1, <2>1, <3>2
  <2>2. CASE ~(l = at[t] /\ unlinked[l] /\ inUse[l] = 1)
    <3>1. mem[l] = "freed"
          BY <1>2, <2>2 DEF FreeIf, Typed, TypeOK, Nodes
    <3>2. unlinked[l] /\ Holders(l) = {}
          BY <3>1 DEF Counted, FreedUnreferenced
    <3>3. l # n
          BY <3>1, ListAssumption DEF NoneOrFree, Free
    <3> QED BY <1>1, <3>2, <3>3
  <2> QED BY <2>1, <2>2
<1> QED BY <1>1, <1>2 DEF Counted, FreedUnreferenced

LEMMA NextStepCounted ==
  ASSUME Typed, Owned, Counted, NEW t \in Threads, NextStep(t) PROVE Counted'
<1> DEFINE n == next[at[t]]
<1>1. /\ at[t] \in Links /\ n \in Ptr /\ NoneOrFree(n) /\ pc[t] = "next_step"
      /\ mutex[at[t]] = t /\ at' = [at EXCEPT ![t] = n] /\ unlinked' = unlinked
      /\ pc' = [pc EXCEPT ![t] = "idle"]
      /\ inUse' = [x \in Links |-> inUse[x] + (IF x = n THEN 1 ELSE 0)
                                            - (IF x = at[t] THEN 1 ELSE 0)]
      /\ FreeIf(at[t], unlinked[at[t]] /\ inUse[at[t]] = 1)
      BY DEF NextStep, StepTo, In, Goto, Typed, TypeOK, Locals, Owned, Holds,
             Nodes
<1>2. n # at[t]
      BY <1>1, ListAssumption DEF NoneOrFree, Free
<1>3. /\ ~Pushing(t) /\ ~Pushing(t)'
      /\ \A u \in Threads \ {t} : pc'[u] = pc[u]
      BY <1>1 DEF Pushing, Typed, TypeOK
<1> QED BY <1>1, <1>2, <1>3, LetGoCounted

LEMMA ReleaseCounted ==
  ASSUME Typed, Counted, NEW t \in Threads, Release(t) PROVE Counted'
<1>1. /\ at[t] \in Links /\ pc[t] = "idle" /\ pc' = pc
      /\ at' = [at EXCEPT ![t] = NULL] /\ unlinked' = unlinked
      /\ inUse' = [inUse EXCEPT ![at[t]] = @ - 1]
      /\ FreeIf(at[t], unlinked[at[t]] /\ inUse[at[t]] = 1)
      BY DEF Release, In, Typed, TypeOK, Ptr
<1>2. /\ ~Pushing(t) /\ ~Pushing(t)' /\ NULL # at[t] /\ NoneOrFree(NULL)
      BY <1>1, ListAssumption DEF Pushing, NoneOrFree
<1>3. \A x \in Links : inUse'[x] = inUse[x] + (IF x = NULL THEN 1 ELSE 0)
                                           - (IF x = at[t] THEN 1 ELSE 0)
      BY <1>1, ListAssumption DEF Typed, TypeOK
<1> QED BY <1>1, <1>2, <1>3, LetGoCounted DEF Ptr

\* linked_unlink never frees: its caller still stands at the link.
LEMMA UnlinkDoCounted ==
  ASSUME Typed, Counted, NEW t \in Threads, UnlinkDo(t) PROVE Counted'
<1>1. /\ at[t] \in Links /\ pc[t] = "unlink_do" /\ pc' = [pc EXCEPT ![t] = "idle"]
      /\ unlinked' = [unlinked EXCEPT ![at[t]] = TRUE]
      /\ FreeIf(at[t], inUse[at[t]] = 0) /\ inUse' = inUse /\ at' = at
      BY DEF UnlinkDo, TakeOut, In, Goto, Typed, Locals
<1>2. mem' = mem
  <2>1. t \in Holders(at[t])
        BY <1>1 DEF Holders, Pushing
  <2> QED BY <1>1, <2>1, LastHolder DEF Counted, FreeIf
<1>3. \A l \in Links : Holders(l)' = Holders(l)
      BY <1>1 DEF Holders, Pushing, Typed, TypeOK
<1>4. \A l \in Links : unlinked[l] => unlinked'[l]
      BY <1>1 DEF Typed, TypeOK
<1> QED BY <1>1, <1>2, <1>3, <1>4, QuietStep

LEMMA DestroyNextCounted ==
  ASSUME Typed, Counted, NEW t \in Threads, DestroyNext(t) PROVE Counted'
<1> DEFINE c == cur[t]
<1>1. /\ c \in Links /\ pc[t] = "destroy_next"
      /\ pc' = [pc EXCEPT ![t] = "destroy_link"]
      /\ unlinked' = [unlinked EXCEPT ![c] = TRUE]
      /\ FreeIf(c, inUse[c] = 0) /\ inUse' = inUse /\ at' = at
      BY DEF DestroyNext, Clear, In, Goto, Typed, Locals
<1>2. \A l \in Links : Holders(l)' = Holders(l)
      BY <1>1 DEF Holders, Pushing, Typed, TypeOK
<1>3. ASSUME NEW l \in Links, mem'[l] = "freed"
      PROVE  unlinked'[l] /\ Holders(l) = {}
  <2>1. CASE l = c /\ inUse[c] = 0
        BY <1>1, <2>1, NoHolder DEF Counted, Typed, TypeOK
  <2>2. CASE ~(l = c /\ inUse[c] = 0)
    <3>1. mem[l] = "freed"
          BY <1>1, <1>3, <2>2 DEF FreeIf, Typed, TypeOK, Nodes
    <3> QED BY <1>1, <3>1 DEF Counted, FreedUnreferenced, Typed, TypeOK
  <2> QED BY <2>1, <2>2
<1> QED BY <1>1, <1>2, <1>3 DEF Counted, RefCount, FreedUnreferenced

\* The steps that neither count nor free.
LEMMA OtherCounted ==
  ASSUME Typed, Counted, NEW t \in Threads,
         \/ Step(t) \/ Call(t),
         ~FirstTake(t), ~NextStep(t), ~Release(t), ~UnlinkDo(t), ~DestroyNext(t)
  PROVE  Counted'
<1> DEFINE Quiet == /\ inUse' = inUse
                    /\ \A l \in Links : /\ Holders(l)' = Holders(l)
                                        /\ mem'[l] = "freed" => mem[l] = "freed"
                                        /\ unlinked[l] => unlinked'[l]
<1> USE ListAssumption DEF Typed, TypeOK, Locals, Nodes, Ptr, In, Goto, heap,
                          Holders, Pushing
<1>1. ASSUME PushLockList(t) PROVE Quiet
      BY <1>1 DEF PushLockList
<1>2. ASSUME PushWalk(t) PROVE Quiet
      BY <1>2 DEF PushWalk
<1>3. ASSUME PushAppend(t) PROVE Quiet
      BY <1>3 DEF PushAppend
<1>4. ASSUME FirstLockList(t) PROVE Quiet
      BY <1>4 DEF FirstLockList
<1>5. ASSUME UnlinkPrev(t) PROVE Quiet
      BY <1>5 DEF UnlinkPrev
<1>6. ASSUME UnlinkLockPrev(t) PROVE Quiet
      BY <1>6 DEF UnlinkLockPrev
<1>7. ASSUME UnlinkCheck(t) PROVE Quiet
      BY <1>7 DEF UnlinkCheck
<1>8. ASSUME UnlinkLock(t) PROVE Quiet
      BY <1>8 DEF UnlinkLock
<1>9. ASSUME UnlinkNext(t) PROVE Quiet
      BY <1>9 DEF UnlinkNext
<1>10. ASSUME DestroyLockList(t) PROVE Quiet
      BY <1>10 DEF DestroyLockList
<1>11. ASSUME DestroyLink(t) PROVE Quiet
      BY <1>11 DEF DestroyLink
<1>12. ASSUME DestroyList(t) PROVE Quiet
      BY <1>12 DEF DestroyList
<1>13. ASSUME PushAlloc(t) PROVE Quiet
      BY <1>13 DEF PushAlloc
<1>14. ASSUME FirstCall(t) PROVE Quiet
      BY <1>14 DEF FirstCall
<1>15. ASSUME NextLock(t) PROVE Quiet
      BY <1>15 DEF NextLock
<1>16. ASSUME UnlinkCall(t) PROVE Quiet
      BY <1>16 DEF UnlinkCall
<1>17. ASSUME DestroyCall(t) PROVE Quiet
      BY <1>17 DEF DestroyCall
<1>18. Quiet
      BY <1>1, <1>2, <1>3, <1>4, <1>5, <1>6, <1>7, <1>8, <1>9, <1>10, <1>11, <1>12,
               <1>13, <1>14, <1>15, <1>16, <1>17 DEF Step, Call
<1> QED BY <1>18, QuietStep

LEMMA NextCounted == Typed /\ Owned /\ Counted /\ [Next]_vars => Counted'
<1> SUFFICES ASSUME Typed, Owned, Counted, [Next]_vars PROVE Counted'
    OBVIOUS
<1>1. CASE Next
  <2>1. PICK t \in Threads : Step(t) \/ Call(t) \/ TouchFreed(t)
        BY <1>1 DEF Next
  <2>2. CASE TouchFreed(t)
        BY <2>2, QuietStep DEF TouchFreed, Holders, Pushing, heap
  <2> QED BY <2>1, <2>2, FirstTakeCounted, NextStepCounted, ReleaseCounted,
             UnlinkDoCounted, DestroyNextCounted, OtherCounted
<1>2. CASE UNCHANGED vars
      BY <1>2, QuietStep DEF vars, Holders, Pushing
<1> QED BY <1>1, <1>2

LEMMA InitOwned == Init => Owned
BY ListAssumption DEF Init, Owned, Holds

-----------------------------------------------------------------------------
\* A link no other thread can know of: not allocated yet, or being appended.
Private(l) == mem[l] = "fresh" \/ \E t \in Threads : Pushing(t) /\ at[t] = l

\* Nothing leads to a private link and it leads nowhere.
Secluded ==
  /\ \A l \in Links : Private(l) =>
       /\ ~unlinked[l] /\ next[l] = NULL /\ mem[l] # "freed"
       /\ \A n \in Nodes : next[n] # l
       /\ \A x \in Links : prev[x] # l
       /\ \A t \in Threads : cur[t] # l /\ (at[t] = l => Pushing(t))
  /\ \A t \in Threads : Pushing(t) =>
       /\ mem[at[t]] = "live"
       /\ \A u \in Threads : Pushing(u) /\ at[u] = at[t] => u = t

LEMMA InitSecluded == Init => Secluded
BY ListAssumption DEF Init, Secluded, Private, Pushing, Nodes

LEMMA StepSecluded ==
  ASSUME Typed, Owned, Counted, Secluded, NEW t \in Threads, Step(t)
  PROVE  Secluded'
<1> USE ListAssumption DEF Typed, TypeOK, Locals, Owned, Holds, Nodes, Ptr, In, Goto,
                          heap, Free, NoneOrFree, Secluded, Private, Pushing
<1>1. CASE PushLockList(t)
      BY <1>1 DEF PushLockList
<1>2. CASE PushWalk(t)
      BY <1>2 DEF PushWalk
<1>3. CASE PushAppend(t)
      BY <1>3 DEF PushAppend
<1>4. CASE FirstLockList(t)
      BY <1>4 DEF FirstLockList
<1>5. CASE FirstTake(t)
      BY <1>5 DEF FirstTake
<1>6. CASE NextStep(t)
      BY <1>6 DEF NextStep, StepTo, FreeIf
<1>7. CASE UnlinkPrev(t)
      BY <1>7 DEF UnlinkPrev
<1>8. CASE UnlinkLockPrev(t)
      BY <1>8 DEF UnlinkLockPrev
<1>9. CASE UnlinkCheck(t)
      BY <1>9 DEF UnlinkCheck
<1>10. CASE UnlinkLock(t)
      BY <1>10 DEF UnlinkLock
<1>11. CASE UnlinkNext(t)
      BY <1>11 DEF UnlinkNext
<1>12. CASE UnlinkDo(t)
      BY <1>12 DEF UnlinkDo, TakeOut, FreeIf
<1>13. CASE DestroyLockList(t)
      BY <1>13 DEF DestroyLockList
<1>14. CASE DestroyLink(t)
      BY <1>14 DEF DestroyLink
<1>15. CASE DestroyNext(t)
      BY <1>15 DEF DestroyNext, Clear, FreeIf
<1>16. CASE DestroyList(t)
      BY <1>16 DEF DestroyList
<1> QED BY <1>1, <1>2, <1>3, <1>4, <1>5, <1>6, <1>7, <1>8, <1>9, <1>10, <1>11,
           <1>12, <1>13, <1>14, <1>15, <1>16 DEF Step

LEMMA CallSecluded ==
  ASSUME Typed, Owned, Counted, Secluded, NEW t \in Threads, Call(t)
  PROVE  Secluded'
<1> USE ListAssumption DEF Typed, TypeOK, Locals, Owned, Holds, Nodes, Ptr, In, Goto,
                          heap, Free, NoneOrFree, Secluded, Private, Pushing
<1>1. CASE PushAlloc(t)
      BY <1>1 DEF PushAlloc
<1>2. CASE FirstCall(t)
      BY <1>2 DEF FirstCall
<1>3. CASE NextLock(t)
      BY <1>3 DEF NextLock
<1>4. CASE Release(t)
      BY <1>4 DEF Release, FreeIf
<1>5. CASE UnlinkCall(t)
      BY <1>5 DEF UnlinkCall
<1>6. CASE DestroyCall(t)
      BY <1>6 DEF DestroyCall
<1> QED BY <1>1, <1>2, <1>3, <1>4, <1>5, <1>6 DEF Call

-----------------------------------------------------------------------------
\* What a thread that holds a predecessor has checked stays so.
Aimed ==
  \A t \in Threads :
    /\ pc[t] \in {"unlink_lock", "unlink_next", "unlink_do"}
         => next[cur[t]] = at[t]
    /\ pc[t] = "first_link" => next[List] # NULL
    /\ pc[t] \in {"destroy_link", "destroy_next"} /\ cur[t] # NULL
         => next[List] = cur[t]

LEMMA InitAimed == Init => Aimed
BY DEF Init, Aimed

LEMMA StepAimed ==
  ASSUME Typed, Owned, Aimed, NEW t \in Threads, Step(t)
  PROVE  Aimed'
<1> USE ListAssumption DEF Typed, TypeOK, Locals, Owned, Holds, Nodes, Ptr, In, Goto,
                          heap, Free, NoneOrFree, Aimed
<1>1. CASE PushLockList(t)
      BY <1>1 DEF PushLockList
<1>2. CASE PushWalk(t)
      BY <1>2 DEF PushWalk
<1>3. CASE PushAppend(t)
      BY <1>3 DEF PushAppend
<1>4. CASE FirstLockList(t)
      BY <1>4 DEF FirstLockList
<1>5. CASE FirstTake(t)
      BY <1>5 DEF FirstTake
<1>6. CASE NextStep(t)
      BY <1>6 DEF NextStep, StepTo, FreeIf
<1>7. CASE UnlinkPrev(t)
      BY <1>7 DEF UnlinkPrev
<1>8. CASE UnlinkLockPrev(t)
      BY <1>8 DEF UnlinkLockPrev
<1>9. CASE UnlinkCheck(t)
      BY <1>9 DEF UnlinkCheck
<1>10. CASE UnlinkLock(t)
      BY <1>10 DEF UnlinkLock
<1>11. CASE UnlinkNext(t)
      BY <1>11 DEF UnlinkNext
<1>12. CASE UnlinkDo(t)
      BY <1>12 DEF UnlinkDo, TakeOut, FreeIf
<1>13. CASE DestroyLockList(t)
      BY <1>13 DEF DestroyLockList
<1>14. CASE DestroyLink(t)
      BY <1>14 DEF DestroyLink
<1>15. CASE DestroyNext(t)
      BY <1>15 DEF DestroyNext, Clear, FreeIf
<1>16. CASE DestroyList(t)
      BY <1>16 DEF DestroyList
<1> QED BY <1>1, <1>2, <1>3, <1>4, <1>5, <1>6, <1>7, <1>8, <1>9, <1>10, <1>11,
           <1>12, <1>13, <1>14, <1>15, <1>16 DEF Step

LEMMA CallAimed ==
  ASSUME Typed, Owned, Aimed, NEW t \in Threads, Call(t)
  PROVE  Aimed'
<1> USE ListAssumption DEF Typed, TypeOK, Locals, Owned, Holds, Nodes, Ptr, In, Goto,
                          heap, Free, NoneOrFree, Aimed
<1>1. CASE PushAlloc(t)
      BY <1>1 DEF PushAlloc
<1>2. CASE FirstCall(t)
      BY <1>2 DEF FirstCall
<1>3. CASE NextLock(t)
      BY <1>3 DEF NextLock
<1>4. CASE Release(t)
      BY <1>4 DEF Release, FreeIf
<1>5. CASE UnlinkCall(t)
      BY <1>5 DEF UnlinkCall
<1>6. CASE DestroyCall(t)
      BY <1>6 DEF DestroyCall
<1> QED BY <1>1, <1>2, <1>3, <1>4, <1>5, <1>6 DEF Call

-----------------------------------------------------------------------------
\* r numbers the nodes so that next always leads upwards, from the list on.
Ranking(r) ==
  /\ r \in [Nodes -> Nat]
  /\ \A n \in Nodes : /\ n = List <=> r[n] = 0
                      /\ next[n] # NULL => r[n] < r[next[n]]

Ordered == \E r : Ranking(r)

LEMMA InitOrdered == Init => Ordered
<1> SUFFICES ASSUME Init PROVE Ordered
    OBVIOUS
<1> DEFINE r == [n \in Nodes |-> IF n = List THEN 0 ELSE 1]
<1>1. Ranking(r)
      BY DEF Init, Ranking
<1> QED BY <1>1 DEF Ordered

\* The new link goes above the last one.
LEMMA PushAppendOrdered ==
  ASSUME Typed, Owned, Secluded, Ordered, NEW t \in Threads, PushAppend(t)
  PROVE  Ordered'
<1>1. PICK r : Ranking(r)
      BY DEF Ordered
<1> DEFINE l == at[t]
           c == cur[t]
<1>2. /\ l \in Links /\ c \in Nodes /\ next' = [next EXCEPT ![c] = l]
      /\ next[l] = NULL /\ c # l /\ \A n \in Nodes : next[n] # l
      BY DEF PushAppend, In, Typed, Locals, Secluded, Private, Pushing
<1>3. PICK q : q \in [Nodes -> Nat] /\ q = [r EXCEPT ![l] = r[c] + 1]
  <2>1. r[c] + 1 \in Nat /\ r \in [Nodes -> Nat] /\ l \in Nodes
        BY <1>1, <1>2 DEF Ranking, Nodes
  <2>2. [r EXCEPT ![l] = r[c] + 1] \in [Nodes -> Nat]
        BY <2>1
  <2> QED BY <2>2
<1>4. \A n \in Nodes : n = List <=> q[n] = 0
      BY <1>1, <1>2, <1>3, ListAssumption DEF Ranking, Nodes
<1>5. ASSUME NEW n \in Nodes, next'[n] # NULL PROVE q[n] < q[next'[n]]
  <2>1. CASE n = c
        BY <1>1, <1>2, <1>3, <2>1 DEF Ranking, Typed, TypeOK, Nodes
  <2>2. CASE n # c
    <3>1. next'[n] = next[n] /\ n # l /\ next[n] # l /\ next[n] \in Nodes
          BY <1>2, <1>5, <2>2, ListAssumption DEF Typed, TypeOK, Nodes, Ptr
    <3> QED BY <1>1, <1>2, <1>3, <1>5, <3>1 DEF Ranking, Nodes
  <2> QED BY <2>1, <2>2
<1>6. Ranking(q)'
      BY <1>3, <1>4, <1>5 DEF Ranking, Nodes
<1> QED BY <1>6 DEF Ordered

LEMMA UnlinkDoOrdered ==
  ASSUME Typed, Owned, Aimed, Ordered, NEW t \in Threads, UnlinkDo(t)
  PROVE  Ordered'
<1>1. PICK r : Ranking(r)
      BY DEF Ordered
<1> DEFINE l == at[t]
           p == cur[t]
<1>2. /\ l \in Links /\ p \in Nodes /\ next[p] = l
      /\ next' = [next EXCEPT ![p] = next[l], ![l] = next[l]]
      BY DEF UnlinkDo, TakeOut, In, Typed, Locals, Aimed
<1>3. \A n \in Nodes : next'[n] = IF n = p THEN next[l] ELSE next[n]
      BY <1>2 DEF Typed, TypeOK, Nodes
<1>4. ASSUME NEW n \in Nodes, next'[n] # NULL PROVE r[n] < r[next'[n]]
  <2>1. next[l] \in Ptr /\ l # NULL /\ l \in Nodes
        BY <1>2, ListAssumption DEF Typed, TypeOK, Nodes
  <2>2. r[p] < r[l] /\ r[p] \in Nat /\ r[l] \in Nat
        BY <1>1, <1>2, <2>1 DEF Ranking
  <2>3. CASE n = p
    <3>1. next[l] \in Nodes /\ r[l] < r[next[l]] /\ r[next[l]] \in Nat
          BY <1>1, <1>3, <1>4, <2>1, <2>3 DEF Ranking, Ptr, Nodes
    <3> QED BY <1>3, <2>2, <2>3, <3>1
  <2>4. CASE n # p
        BY <1>1, <1>3, <1>4, <2>4 DEF Ranking
  <2> QED BY <2>3, <2>4
<1>5. Ranking(r)'
      BY <1>1, <1>4 DEF Ranking, Nodes
<1> QED BY <1>5 DEF Ordered

LEMMA DestroyNextOrdered ==
  ASSUME Typed, Ordered, NEW t \in Threads, DestroyNext(t)
  PROVE  Ordered'
<1>1. PICK r : Ranking(r)
      BY DEF Ordered
<1> DEFINE l == cur[t]
<1>2. /\ l \in Links /\ List \notin Links
      /\ next' = [next EXCEPT ![List] = IF next[l] = NULL THEN @ ELSE next[l],
                              ![l] = NULL]
      BY ListAssumption DEF DestroyNext, Clear, In, Typed, Locals
<1>3. \A n \in Nodes :
        next'[n] = IF n = l THEN NULL
                   ELSE IF n = List /\ next[l] # NULL THEN next[l] ELSE next[n]
      BY <1>2 DEF Typed, TypeOK, Nodes
<1>4. ASSUME NEW n \in Nodes, next'[n] # NULL PROVE r[n] < r[next'[n]]
  <2>1. CASE n = List /\ next[l] # NULL
    <3>1. next[l] \in Nodes /\ next[l] # List
          BY <1>2, <2>1, ListAssumption DEF Typed, TypeOK, Ptr, Nodes
    <3>2. r[List] = 0 /\ r[next[l]] \in Nat /\ r[next[l]] # 0
          BY <1>1, <3>1 DEF Ranking, Nodes
    <3>3. next'[n] = next[l]
          BY <1>2, <1>3, <2>1
    <3> QED BY <2>1, <3>2, <3>3
  <2>2. CASE ~(n = List /\ next[l] # NULL)
        BY <1>1, <1>3, <1>4, <2>2 DEF Ranking
  <2> QED BY <2>1, <2>2
<1>5. Ranking(r)'
      BY <1>1, <1>4 DEF Ranking, Nodes
<1> QED BY <1>5 DEF Ordered

LEMMA StepOrdered ==
  ASSUME Typed, Owned, Secluded, Aimed, Ordered, NEW t \in Threads,
         Step(t) \/ Call(t)
  PROVE  Ordered'
<1> USE DEF heap
<1>1. ASSUME PushLockList(t) PROVE next' = next
      BY <1>1 DEF PushLockList
<1>2. ASSUME PushWalk(t) PROVE next' = next
      BY <1>2 DEF PushWalk
<1>3. ASSUME FirstLockList(t) PROVE next' = next
      BY <1>3 DEF FirstLockList
<1>4. ASSUME FirstTake(t) PROVE next' = next
      BY <1>4 DEF FirstTake
<1>5. ASSUME NextStep(t) PROVE next' = next
      BY <1>5 DEF NextStep, StepTo, FreeIf
<1>6. ASSUME UnlinkPrev(t) PROVE next' = next
      BY <1>6 DEF UnlinkPrev
<1>7. ASSUME UnlinkLockPrev(t) PROVE next' = next
      BY <1>7 DEF UnlinkLockPrev
<1>8. ASSUME UnlinkCheck(t) PROVE next' = next
      BY <1>8 DEF UnlinkCheck
<1>9. ASSUME UnlinkLock(t) PROVE next' = next
      BY <1>9 DEF UnlinkLock
<1>10. ASSUME UnlinkNext(t) PROVE next' = next
      BY <1>10 DEF UnlinkNext
<1>11. ASSUME DestroyLockList(t) PROVE next' = next
      BY <1>11 DEF DestroyLockList
<1>12. ASSUME DestroyLink(t) PROVE next' = next
      BY <1>12 DEF DestroyLink
<1>13. ASSUME DestroyList(t) PROVE next' = next
      BY <1>13 DEF DestroyList
<1>14. ASSUME PushAlloc(t) PROVE next' = next
      BY <1>14 DEF PushAlloc
<1>15. ASSUME FirstCall(t) PROVE next' = next
      BY <1>15 DEF FirstCall
<1>16. ASSUME NextLock(t) PROVE next' = next
      BY <1>16 DEF NextLock
<1>17. ASSUME Release(t) PROVE next' = next
      BY <1>17 DEF Release, FreeIf
<1>18. ASSUME UnlinkCall(t) PROVE next' = next
      BY <1>18 DEF UnlinkCall
<1>19. ASSUME DestroyCall(t) PROVE next' = next
      BY <1>19 DEF DestroyCall
<1>20. ASSUME next' = next PROVE Ordered'
      BY <1>20 DEF Ordered, Ranking, Nodes
<1> QED BY <1>1, <1>2, <1>3, <1>4, <1>5, <1>6, <1>7, <1>8, <1>9, <1>10, <1>11,
           <1>12, <1>13, <1>14, <1>15, <1>16, <1>17, <1>18, <1>19, <1>20,
           PushAppendOrdered, UnlinkDoOrdered, DestroyNextOrdered DEF Step, Call

-----------------------------------------------------------------------------
\* Who moves a reference or unlinks a link leaves it held, or freed.
LEMMA LeakStep ==
  ASSUME Typed, Owned, Counted, NoLeak, NEW t \in Threads, Step(t) \/ Call(t)
  PROVE  NoLeak'
<1> USE ListAssumption DEF Typed, TypeOK, Locals, Nodes, Ptr, In, Goto, heap,
                          Holders, Pushing
<1> DEFINE Quiet == /\ \A l \in Links : Holders(l) \subseteq Holders(l)'
                    /\ \A l \in Links : mem[l] = "freed" => mem'[l] = "freed"
                    /\ unlinked' = unlinked
<1>1. ASSUME PushLockList(t) PROVE Quiet
      BY <1>1 DEF PushLockList
<1>2. ASSUME PushWalk(t) PROVE Quiet
      BY <1>2 DEF PushWalk
<1>3. ASSUME PushAppend(t) PROVE Quiet
      BY <1>3 DEF PushAppend
<1>4. ASSUME FirstLockList(t) PROVE Quiet
      BY <1>4 DEF FirstLockList
<1>5. ASSUME UnlinkPrev(t) PROVE Quiet
      BY <1>5 DEF UnlinkPrev
<1>6. ASSUME UnlinkLockPrev(t) PROVE Quiet
      BY <1>6 DEF UnlinkLockPrev
<1>7. ASSUME UnlinkCheck(t) PROVE Quiet
      BY <1>7 DEF UnlinkCheck
<1>8. ASSUME UnlinkLock(t) PROVE Quiet
      BY <1>8 DEF UnlinkLock
<1>9. ASSUME UnlinkNext(t) PROVE Quiet
      BY <1>9 DEF UnlinkNext
<1>10. ASSUME DestroyLockList(t) PROVE Quiet
      BY <1>10 DEF DestroyLockList
<1>11. ASSUME DestroyLink(t) PROVE Quiet
      BY <1>11 DEF DestroyLink
<1>12. ASSUME DestroyList(t) PROVE Quiet
      BY <1>12 DEF DestroyList
<1>13. ASSUME PushAlloc(t) PROVE Quiet
      BY <1>13 DEF PushAlloc
<1>14. ASSUME FirstCall(t) PROVE Quiet
      BY <1>14 DEF FirstCall
<1>15. ASSUME NextLock(t) PROVE Quiet
      BY <1>15 DEF NextLock
<1>16. ASSUME UnlinkCall(t) PROVE Quiet
      BY <1>16 DEF UnlinkCall
<1>17. ASSUME DestroyCall(t) PROVE Quiet
      BY <1>17 DEF DestroyCall
<1>18. ASSUME FirstTake(t) PROVE Quiet
      BY <1>18 DEF FirstTake
<1>19. ASSUME Quiet PROVE NoLeak'
      BY <1>19 DEF NoLeak
<1>20. CASE NextStep(t) \/ Release(t)
  <2> PICK c \in Links : c = at[t]
      BY <1>20 DEF NextStep, StepTo, Release
  <2>1. /\ c \in Links /\ t \in Holders(c) /\ unlinked' = unlinked
        /\ mem' = IF unlinked[c] /\ inUse[c] = 1 THEN [mem EXCEPT ![c] = "freed"] ELSE mem
        /\ \A l \in Links : l # c => Holders(l) \subseteq Holders(l)'
        /\ Holders(c) \ {t} \subseteq Holders(c)'
    <3>1. /\ c \in Links /\ pc[t] \in {"idle", "next_step"} /\ pc'[t] = "idle"
          /\ unlinked' = unlinked
          /\ mem' = IF unlinked[c] /\ inUse[c] = 1 THEN [mem EXCEPT ![c] = "freed"] ELSE mem
          BY <1>20 DEF NextStep, StepTo, Release, FreeIf
    <3>2. \A u \in Threads \ {t} : at'[u] = at[u] /\ pc'[u] = pc[u]
          BY <1>20 DEF NextStep, StepTo, Release
    <3> QED BY <3>1, <3>2
  <2>2. ASSUME NEW l \in Links, unlinked[l], Holders(l)' = {}
        PROVE  mem'[l] = "freed"
    <3>1. CASE l # c
      <4>1. mem[l] = "freed"
            BY <2>1, <2>2, <3>1 DEF NoLeak
      <4> QED BY <2>1, <4>1 DEF FreeIf
    <3>2. CASE l = c
      <4>1. IsFiniteSet({t}) /\ Cardinality({t}) = 1
            BY FS_Singleton
      <4>2. Holders(c) = {t}
            BY <2>1, <2>2, <3>2
      <4>3. inUse[c] = 1
            BY <2>1, <4>1, <4>2 DEF Counted, RefCount
      <4> QED BY <2>1, <2>2, <3>2, <4>3 DEF FreeIf
    <3> QED BY <3>1, <3>2
  <2> QED BY <2>1, <2>2 DEF NoLeak
<1>21. CASE UnlinkDo(t)
  <2> PICK c \in Links : c = at[t]
      BY <1>21 DEF UnlinkDo, TakeOut
  <2>1. /\ c \in Links /\ t \in Holders(c)'
        /\ unlinked' = [unlinked EXCEPT ![c] = TRUE]
        /\ \A l \in Links : Holders(l)' = Holders(l)
        /\ \A l \in Links : mem[l] = "freed" => mem'[l] = "freed"
    <3>1. /\ c \in Links /\ pc[t] = "unlink_do" /\ at' = at
          /\ pc' = [pc EXCEPT ![t] = "idle"]
          /\ unlinked' = [unlinked EXCEPT ![c] = TRUE]
          /\ mem' \in {mem, [mem EXCEPT ![c] = "freed"]}
          BY <1>21 DEF UnlinkDo, TakeOut, FreeIf
    <3>2. \A l \in Links : mem[l] = "freed" => mem'[l] = "freed"
          BY <3>1 DEF FreeIf
    <3> QED BY <3>1, <3>2
  <2> QED BY <2>1 DEF NoLeak
<1>22. CASE DestroyNext(t)
  <2> PICK c \in Links : c = cur[t]
      BY <1>22 DEF DestroyNext, Clear
  <2>1. /\ c \in Links /\ unlinked' = [unlinked EXCEPT ![c] = TRUE]
        /\ mem' = IF inUse[c] = 0 THEN [mem EXCEPT ![c] = "freed"] ELSE mem
        /\ \A l \in Links : Holders(l)' = Holders(l)
    <3>1. /\ c \in Links /\ pc[t] = "destroy_next" /\ at' = at
          /\ pc' = [pc EXCEPT ![t] = "destroy_link"]
          /\ unlinked' = [unlinked EXCEPT ![c] = TRUE]
          /\ mem' = IF inUse[c] = 0 THEN [mem EXCEPT ![c] = "freed"] ELSE mem
          BY <1>22 DEF DestroyNext, Clear, FreeIf
    <3> QED BY <3>1
  <2>2. \A l \in Links : mem[l] = "freed" => mem'[l] = "freed"
        BY <2>1 DEF FreeIf
  <2>3. Holders(c) = {} => mem'[c] = "freed"
        BY <2>1, FS_EmptySet DEF Counted, RefCount, FreeIf
  <2>4. ASSUME NEW l \in Links, unlinked'[l], Holders(l)' = {}
        PROVE  mem'[l] = "freed"
        BY <2>1, <2>2, <2>3, <2>4 DEF NoLeak
  <2> QED BY <2>4 DEF NoLeak
<1> QED BY <1>1, <1>2, <1>3, <1>4, <1>5, <1>6, <1>7, <1>8, <1>9, <1>10, <1>11,
           <1>12, <1>13, <1>14, <1>15, <1>16, <1>17, <1>18, <1>19, <1>20,
           <1>21, <1>22 DEF Step, Call

-----------------------------------------------------------------------------
\* The whole inductive invariant: none of its parts needs a condition on who
\* walks, appends, unlinks or destroys.
Settled ==
  Typed /\ Owned /\ Counted /\ Secluded /\ Aimed /\ Ordered /\ NoLeak

LEMMA InitSettled == Init => Settled
<1>1. Init => NoLeak
      BY DEF Init, NoLeak
<1> QED BY <1>1, InitTyped, InitOwned, InitCounted, InitSecluded, InitAimed,
           InitOrdered DEF Settled

\* A fault changes nothing the invariant speaks of.
LEMMA StutterSettled ==
  ASSUME Settled, UNCHANGED <<mutex, heap, pc, at, cur>>
  PROVE  Secluded' /\ Aimed' /\ Ordered' /\ NoLeak'
<1> USE DEF Settled, heap
<1>1. Secluded' /\ Aimed'
      BY DEF Secluded, Private, Pushing, Aimed
<1>2. Ordered'
      BY DEF Ordered, Ranking, Nodes
<1>3. NoLeak'
      BY DEF NoLeak, Holders, Pushing
<1> QED BY <1>1, <1>2, <1>3

LEMMA NextSettled == Settled /\ [Next]_vars => Settled'
<1> SUFFICES ASSUME Settled, [Next]_vars PROVE Settled'
    OBVIOUS
<1>1. Typed' /\ Owned' /\ Counted'
      BY NextTyped, NextOwned, NextCounted DEF Settled
<1>2. CASE Next
  <2>1. PICK t \in Threads : Step(t) \/ Call(t) \/ TouchFreed(t)
        BY <1>2 DEF Next
  <2>2. CASE TouchFreed(t)
        BY <1>1, <2>2, StutterSettled DEF TouchFreed, Settled
  <2>3. CASE Step(t) \/ Call(t)
    <3>1. Secluded' /\ Aimed'
          BY <2>3, StepSecluded, CallSecluded, StepAimed, CallAimed DEF Settled
    <3>2. Ordered' /\ NoLeak'
          BY <2>3, StepOrdered, LeakStep DEF Settled
    <3> QED BY <1>1, <3>1, <3>2 DEF Settled
  <2> QED BY <2>1, <2>2, <2>3
<1>3. CASE UNCHANGED vars
      BY <1>1, <1>3, StutterSettled DEF vars, heap, Settled
<1> QED BY <1>2, <1>3

LEMMA Inductive == Spec => []Settled
BY InitSettled, NextSettled, PTL DEF Spec

-----------------------------------------------------------------------------
LEMMA Minimum ==
  ASSUME NEW S, S \subseteq Nat, S # {}
  PROVE  \E x \in S : \A y \in S : x <= y
<1> DEFINE R == OpToRel(<, Nat)
<1>1. IsWellFoundedOn(R, Nat)
      BY NatLessThanWellFounded
<1>2. PICK x \in S : \A y \in S : <<y, x>> \notin R
  <2> HIDE DEF R
  <2> QED BY <1>1, WFMin
<1>3. \A y \in S : ~(y < x)
      BY <1>2 DEF OpToRel
<1> QED BY <1>3

\* Induction over the natural numbers, for the members of a set.
LEMMA Induct ==
  ASSUME NEW S, 0 \in S, \A n \in Nat : n \in S => n + 1 \in S
  PROVE  \A n \in Nat : n \in S
<1> DEFINE T == {n \in Nat : n \notin S}
<1>1. CASE T # {}
  <2>1. PICK x \in T : \A y \in T : x <= y
        BY <1>1, Minimum
  <2>2. x # 0 /\ x \in Nat
        OBVIOUS
  <2>3. x - 1 \in Nat /\ x - 1 \notin T
        BY <2>1, <2>2
  <2> QED BY <2>1, <2>2, <2>3
<1> QED BY <1>1

LEMMA Topmost ==
  ASSUME NEW S, IsFiniteSet(S), S # {}, NEW f \in [S -> Nat]
  PROVE  \E t \in S : \A u \in S : f[u] <= f[t]
<1> DEFINE Has(T) == \E t \in T : \A u \in T : f[u] <= f[t]
           K == {k \in Nat : \A T \in SUBSET S : T # {} /\ Cardinality(T) = k => Has(T)}
<1>1. \A T \in SUBSET S : IsFiniteSet(T)
      BY FS_Subset
<1>2. 0 \in K
      BY <1>1, FS_EmptySet
<1>3. ASSUME NEW k \in Nat, k \in K PROVE k + 1 \in K
  <2>1. ASSUME NEW T \in SUBSET S, T # {}, Cardinality(T) = k + 1 PROVE Has(T)
    <3>1. PICK x \in T : TRUE
          BY <2>1
    <3>2. Cardinality(T \ {x}) = k
      <4>1. Cardinality(T \ {x}) = Cardinality(T) - 1
            BY <1>1, <3>1, FS_RemoveElement
      <4> QED BY <2>1, <4>1
    <3>3. CASE T \ {x} = {}
          BY <3>1, <3>3
    <3>4. CASE T \ {x} # {}
      <4>1. PICK t \in T \ {x} : \A u \in T \ {x} : f[u] <= f[t]
            BY <1>3, <3>2, <3>4
      <4>2. f[t] <= f[x] \/ f[x] <= f[t]
            BY <3>1, <4>1
      <4> QED BY <3>1, <4>1, <4>2
    <3> QED BY <3>3, <3>4
  <2> QED BY <2>1
<1>4. Cardinality(S) \in Nat
      BY FS_CardinalityType
<1>5. Cardinality(S) \in K
  <2> HIDE DEF K
  <2> QED BY <1>2, <1>3, <1>4, Induct
<1> QED BY <1>5

-----------------------------------------------------------------------------
LEMMA TouchesTyped ==
  ASSUME Typed, NEW t \in Threads PROVE Touches(t) \in Nodes \cup {NULL}
BY DEF Typed, TypeOK, Locals, Touches, Nodes, Ptr

\* A thread only ever waits for a node above those it has locked.
LEMMA WaitsUpwards ==
  ASSUME Typed, Owned, Aimed, NEW r, Ranking(r), NEW t \in Threads,
         NEW n \in Nodes, mutex[n] = t, Touches(t) # NULL
  PROVE  r[n] < r[Touches(t)]
<1> USE DEF Typed, TypeOK, Locals, Nodes, Ptr
<1>1. Holds(t, n)
      BY DEF Owned
<1>2. CASE pc[t] \in {"push_walk", "first_link", "next_step"}
      BY <1>1, <1>2 DEF Holds, Touches, Ranking
<1>3. CASE pc[t] = "unlink_lock"
      BY <1>1, <1>3, ListAssumption DEF Holds, Touches, Ranking, Aimed
<1>4. CASE pc[t] = "unlink_next"
  <2>1. r[at[t]] < r[next[at[t]]] /\ Touches(t) = next[at[t]]
        BY <1>4 DEF Touches, Ranking
  <2>2. r[cur[t]] < r[at[t]]
        BY <1>4, ListAssumption DEF Ranking, Aimed
  <2>3. r[cur[t]] \in Nat /\ r[at[t]] \in Nat /\ r[next[at[t]]] \in Nat
    <3>1. next[at[t]] \in Nodes /\ at[t] \in Nodes /\ cur[t] \in Nodes
          BY <1>4 DEF Touches
    <3> QED BY <3>1 DEF Ranking
  <2>4. n = cur[t] \/ n = at[t]
        BY <1>1, <1>4 DEF Holds
  <2> QED BY <2>1, <2>2, <2>3, <2>4
<1>5. CASE pc[t] \in {"destroy_link", "destroy_next"}
  <2>1. cur[t] # NULL => r[List] < r[cur[t]]
        BY <1>5 DEF Ranking, Aimed
  <2>2. CASE pc[t] = "destroy_link"
        BY <1>1, <2>1, <2>2 DEF Holds, Touches
  <2>3. CASE pc[t] = "destroy_next"
    <3>1. cur[t] \in Links /\ Touches(t) = next[cur[t]] /\ next[cur[t]] \in Nodes
          BY <2>3 DEF Touches
    <3>2. r[cur[t]] < r[next[cur[t]]]
          BY <3>1 DEF Ranking, Touches
    <3>3. r[List] = 0 /\ r[next[cur[t]]] \in Nat
          BY <3>1 DEF Ranking
    <3>4. r[cur[t]] \in Nat
          BY <3>1 DEF Ranking
    <3>5. n = List \/ n = cur[t]
          BY <1>1, <2>3 DEF Holds
    <3> QED BY <3>1, <3>2, <3>3, <3>4, <3>5
  <2> QED BY <1>5, <2>2, <2>3
<1>6. pc[t] # "unlink_do"
      BY DEF Touches
<1> QED BY <1>1, <1>2, <1>3, <1>4, <1>5, <1>6 DEF Holds

LEMMA OrderedWaits ==
  Typed /\ Owned /\ Aimed /\ Ordered => NoWaitCycle
<1> SUFFICES ASSUME Typed, Owned, Aimed, Ordered,
                    NEW S \in (SUBSET Threads) \ {{}},
                    \A t \in S : Touches(t) # NULL /\ mutex[Touches(t)] \in S
             PROVE  FALSE
    BY DEF NoWaitCycle
<1>1. PICK r : Ranking(r)
      BY DEF Ordered
<1> DEFINE f == [t \in S |-> r[Touches(t)]]
<1>2. \A t \in S : Touches(t) \in Nodes
      BY TouchesTyped
<1>3. f \in [S -> Nat]
      BY <1>1, <1>2 DEF Ranking
<1>4. IsFiniteSet(S)
      BY FS_Subset, ListAssumption
<1>5. PICK t \in S : \A u \in S : f[u] <= f[t]
  <2> HIDE DEF f
  <2> QED BY <1>3, <1>4, Topmost
<1>6. PICK u \in S : u = mutex[Touches(t)]
      OBVIOUS
<1>7. r[Touches(t)] < r[Touches(u)]
      BY <1>1, <1>2, <1>6, WaitsUpwards
<1>8. r[Touches(t)] \in Nat /\ r[Touches(u)] \in Nat
      BY <1>1, <1>2 DEF Ranking
<1> QED BY <1>5, <1>7, <1>8

-----------------------------------------------------------------------------
\* The mutexes a thread holds are those its place in linked_push, linked_first,
\* linked_next, linked_unlink or linked_destroy says, and never any other: none
\* is forgotten on a way out of an operation (linked.c:23-36, 145-206).
THEOREM LocksAreHeld == Spec => []Owned
<1>1. Settled => Owned
      BY DEF Settled
<1> QED BY <1>1, Inductive, PTL

\* link->inUse is the number of threads that stand at the link, however many
\* threads walk, append, unlink and destroy at once (linked.c:71, 86, 101).
THEOREM CountsAreExact == Spec => []RefCount
<1>1. Settled => RefCount
      BY DEF Settled, Counted
<1> QED BY <1>1, Inductive, PTL

\* linked_free only ever gets a link that was unlinked and that no thread
\* stands at, even with several unlinkers (linked.c:85-93, 217-221).
THEOREM FreeingIsSafe == Spec => []FreedUnreferenced
<1>1. Settled => FreedUnreferenced
      BY DEF Settled, Counted
<1> QED BY <1>1, Inductive, PTL

\* And no unlinked link is forgotten: the last one to leave it frees it
\* (linked.c:88-91, 217-221, 243-247).
THEOREM NothingLeaks == Spec => []NoLeak
<1>1. Settled => NoLeak
      BY DEF Settled
<1> QED BY <1>1, Inductive, PTL

\* The mutexes are always taken in the order of next, from the list object on,
\* so no circle of waiting threads forms, whatever they do and however many
\* they are (linked.c:23-36, 66-72, 100-106, 140-206, 231-251).
THEOREM NoDeadlock == Spec => []NoWaitCycle
<1>1. Settled => NoWaitCycle
      BY OrderedWaits DEF Settled
<1> QED BY <1>1, Inductive, PTL
=============================================================================
