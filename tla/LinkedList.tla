----------------------------- MODULE LinkedList -----------------------------
(***************************************************************************)
(* The concurrent doubly linked list of src/linked.c, one action per       *)
(* stretch of code between two blocking lock acquisitions.                 *)
(*                                                                         *)
(* The list object itself is the node List: next[List] is list->first,     *)
(* mutex[List] is list->lock, and a link whose prev pointer is NULL in C   *)
(* has prev = List here, because linked_unlink treats that NULL as "my     *)
(* predecessor is the list".  A link's address is never reused, so that a  *)
(* touch of freed memory can be told from a touch of a new link.           *)
(*                                                                         *)
(* Touching a freed link, or the list after linked_destroy, is undefined   *)
(* behaviour in C.  Freed links hold garbage in their mutex, so the build  *)
(* crashes, hangs or goes on with garbage: fault becomes TRUE, nothing is  *)
(* promised after that, and no further step is modelled.                   *)
(***************************************************************************)
EXTENDS Integers, FiniteSets, Sequences

CONSTANTS
  Links,      \* the links that can ever be allocated by linked_push
  Threads,    \* the threads that use the list
  Pushers,    \* those that call linked_push
  Walkers,    \* those that iterate with linked_first/linked_next or linked_get
  Unlinkers,  \* the walkers that may linked_unlink the link they stand at
  Destroyers, \* those that may call linked_destroy
  List,       \* the list object
  NULL        \* the null pointer, and the holder of a free mutex

ASSUME ListAssumption ==
  /\ IsFiniteSet(Threads)
  /\ Pushers \subseteq Threads /\ Walkers \subseteq Threads
  /\ Unlinkers \subseteq Walkers /\ Destroyers \subseteq Threads
  /\ List \notin Links /\ NULL \notin Links \cup Threads \cup {List}

VARIABLES
  mutex,    \* holder of list->lock and of every link->lock
  next,     \* list->first and link->next
  prev,     \* link->prev
  inUse,    \* link->inUse
  unlinked, \* link->unlinked
  mem,      \* whether a node is not yet allocated, live or freed
  pc,       \* where each thread is
  at,       \* the link a walker holds a reference to (NULL: none)
  cur,      \* the local pointer new/current/prev of the operation under way
  fault     \* has a thread touched freed memory?

vars == <<mutex, next, prev, inUse, unlinked, mem, pc, at, cur, fault>>
heap == <<next, prev, inUse, unlinked, mem>>

Nodes == Links \cup {List}
Ptr == Links \cup {NULL}
PCs == {"idle", "push_head", "push_walk", "first_head", "first_link",
        "next_step", "unlink_prev", "unlink_lock_prev",
        "unlink_check", "unlink_lock", "unlink_next", "unlink_do",
        "destroy_head", "destroy_link", "destroy_next"}

Init ==
  /\ mutex = [n \in Nodes |-> NULL]
  /\ next = [n \in Nodes |-> NULL]
  /\ prev = [l \in Links |-> List]
  /\ inUse = [l \in Links |-> 0]
  /\ unlinked = [l \in Links |-> FALSE]
  /\ mem = [n \in Nodes |-> IF n = List THEN "live" ELSE "fresh"]
  /\ pc = [t \in Threads |-> "idle"]
  /\ at = [t \in Threads |-> NULL]
  /\ cur = [t \in Threads |-> NULL]
  /\ fault = FALSE

\* The guard of every step: thread t is at location l of a process that is,
\* and stays, sane.
In(t, l) == pc[t] = l /\ ~fault /\ UNCHANGED fault

Goto(t, l) == pc' = [pc EXCEPT ![t] = l]

\* n's mutex can be taken by a thread that may still touch n.
Free(n) == mem[n] = "live" /\ mutex[n] = NULL

NoneOrFree(n) == n # NULL => Free(n)

\* linked_free when the last reference to an unlinked link goes; otherwise
\* the caller only unlocks it.
FreeIf(l, gone) == mem' = IF gone THEN [mem EXCEPT ![l] = "freed"] ELSE mem

-----------------------------------------------------------------------------
(* linked_push                                                             *)

\* malloc and the initialisation of the new link, which no one else can see.
PushAlloc(t) ==
  /\ In(t, "idle") /\ t \in Pushers /\ at[t] = NULL
  /\ \E l \in Links :
       /\ mem[l] = "fresh"
       /\ mem' = [mem EXCEPT ![l] = "live"]
       /\ at' = [at EXCEPT ![t] = l]
  /\ Goto(t, "push_head")
  /\ UNCHANGED <<mutex, next, prev, inUse, unlinked, cur>>

PushLockList(t) ==
  /\ In(t, "push_head")
  /\ Free(List)
  /\ mutex' = [mutex EXCEPT ![List] = t]
  /\ cur' = [cur EXCEPT ![t] = List]
  /\ Goto(t, "push_walk")
  /\ UNCHANGED <<heap, at>>

\* Hand over hand: the successor is locked before the current node is let go.
PushWalk(t) ==
  LET c == cur[t]
      n == next[c]
  IN /\ In(t, "push_walk") /\ n # NULL
     /\ Free(n)
     /\ mutex' = [mutex EXCEPT ![n] = t, ![c] = NULL]
     /\ cur' = [cur EXCEPT ![t] = n]
     /\ UNCHANGED <<heap, pc, at>>

PushAppend(t) ==
  LET c == cur[t]
  IN /\ In(t, "push_walk") /\ next[c] = NULL
     /\ prev' = [prev EXCEPT ![at[t]] = c]
     /\ next' = [next EXCEPT ![c] = at[t]]
     /\ mutex' = [mutex EXCEPT ![c] = NULL]
     /\ at' = [at EXCEPT ![t] = NULL]
     /\ cur' = [cur EXCEPT ![t] = NULL]
     /\ Goto(t, "idle")
     /\ UNCHANGED <<inUse, unlinked, mem>>

-----------------------------------------------------------------------------
(* linked_first and linked_next; linked_length and linked_get are loops of *)
(* them, and linked_release is the second half of linked_next.             *)

FirstCall(t) ==
  /\ In(t, "idle") /\ t \in Walkers /\ at[t] = NULL
  /\ Goto(t, "first_head")
  /\ UNCHANGED <<mutex, heap, at, cur>>

FirstLockList(t) ==
  /\ In(t, "first_head")
  /\ \/ /\ Free(List) /\ next[List] = NULL
        /\ Goto(t, "idle")
        /\ UNCHANGED <<mutex, heap, at, cur>>
     \/ /\ Free(List) /\ next[List] # NULL
        /\ mutex' = [mutex EXCEPT ![List] = t]
        /\ Goto(t, "first_link")
        /\ UNCHANGED <<heap, at, cur>>

\* Mutant: linked_first forgets to count its reference.
FirstTakeNoRef(t) ==
  /\ In(t, "first_link") /\ Free(next[List])
  /\ mutex' = [mutex EXCEPT ![List] = NULL]
  /\ at' = [at EXCEPT ![t] = next[List]]
  /\ Goto(t, "idle")
  /\ UNCHANGED <<heap, cur>>

FirstTake(t) ==
  LET l == next[List]
  IN /\ In(t, "first_link")
     /\ Free(l)
     /\ mutex' = [mutex EXCEPT ![List] = NULL]
     /\ inUse' = [inUse EXCEPT ![l] = @ + 1]
     /\ at' = [at EXCEPT ![t] = l]
     /\ Goto(t, "idle")
     /\ UNCHANGED <<next, prev, unlinked, mem, cur>>

NextLock(t) ==
  /\ In(t, "idle") /\ t \in Walkers /\ at[t] # NULL
  /\ Free(at[t])
  /\ mutex' = [mutex EXCEPT ![at[t]] = t]
  /\ Goto(t, "next_step")
  /\ UNCHANGED <<heap, at, cur>>

\* The walk of t goes from its link to n; gone says whether the link is freed.
StepTo(t, n, gone) ==
  LET l == at[t]
  IN /\ In(t, "next_step")
     /\ NoneOrFree(n)
     /\ inUse' = [x \in Links |-> inUse[x] + (IF x = n THEN 1 ELSE 0)
                                           - (IF x = l THEN 1 ELSE 0)]
     /\ FreeIf(l, gone)
     /\ mutex' = [mutex EXCEPT ![l] = NULL]
     /\ at' = [at EXCEPT ![t] = n]
     /\ Goto(t, "idle")
     /\ UNCHANGED <<next, prev, unlinked, cur>>

\* Mutant: the last reader of an unlinked link does not free it.
NextStepNoFree(t) == StepTo(t, next[at[t]], FALSE)

\* The successor is referenced before the current link is released.
NextStep(t) ==
  LET l == at[t]
  IN StepTo(t, next[l], unlinked[l] /\ inUse[l] = 1)

\* linked_get's caller lets its link go: lock, linked_release, unlock.
Release(t) ==
  LET l == at[t]
  IN /\ In(t, "idle") /\ t \in Walkers /\ l # NULL
     /\ Free(l)
     /\ inUse' = [inUse EXCEPT ![l] = @ - 1]
     /\ FreeIf(l, unlinked[l] /\ inUse[l] = 1)
     /\ at' = [at EXCEPT ![t] = NULL]
     /\ UNCHANGED <<mutex, next, prev, unlinked, pc, cur>>

-----------------------------------------------------------------------------
(* linked_unlink, called on the link the walker holds                      *)

UnlinkCall(t) ==
  /\ In(t, "idle") /\ t \in Unlinkers /\ at[t] # NULL
  /\ Goto(t, "unlink_prev")
  /\ UNCHANGED <<mutex, heap, at, cur>>

\* Mutant: the link stays locked while its predecessor is being locked.
UnlinkPrevHold(t) ==
  /\ In(t, "unlink_prev") /\ Free(at[t])
  /\ mutex' = [mutex EXCEPT ![at[t]] = t]
  /\ cur' = [cur EXCEPT ![t] = prev[at[t]]]
  /\ Goto(t, "unlink_lock_prev")
  /\ UNCHANGED <<heap, at>>

\* The predecessor is read under the link's lock, which is then given up.
UnlinkPrev(t) ==
  /\ In(t, "unlink_prev")
  /\ Free(at[t])
  /\ cur' = [cur EXCEPT ![t] = prev[at[t]]]
  /\ Goto(t, "unlink_lock_prev")
  /\ UNCHANGED <<mutex, heap, at>>

\* Mutant: whether the predecessor still leads to the link is not looked at.
UnlinkLockPrevBlind(t) ==
  /\ In(t, "unlink_lock_prev") /\ Free(cur[t])
  /\ mutex' = [mutex EXCEPT ![cur[t]] = t]
  /\ Goto(t, "unlink_lock")
  /\ UNCHANGED <<heap, at, cur>>

UnlinkLockPrev(t) ==
  LET p == cur[t]
  IN /\ In(t, "unlink_lock_prev")
     /\ \/ /\ Free(p) /\ next[p] = at[t]
           /\ mutex' = [mutex EXCEPT ![p] = t]
           /\ Goto(t, "unlink_lock")
           /\ UNCHANGED <<heap, at, cur>>
        \/ /\ Free(p) /\ next[p] # at[t]
           /\ Goto(t, "unlink_check")
           /\ UNCHANGED <<mutex, heap, at, cur>>

\* link->unlinked is read with no lock held: give up, or try again.
UnlinkCheck(t) ==
  /\ In(t, "unlink_check")
  /\ \/ /\ mem[at[t]] = "live" /\ unlinked[at[t]]
        /\ cur' = [cur EXCEPT ![t] = NULL]
        /\ Goto(t, "idle")
        /\ UNCHANGED <<mutex, heap, at>>
     \/ /\ mem[at[t]] = "live" /\ ~unlinked[at[t]]
        /\ Goto(t, "unlink_prev")
        /\ UNCHANGED <<mutex, heap, at, cur>>

UnlinkLock(t) ==
  LET l == at[t]
  IN /\ In(t, "unlink_lock")
     /\ \/ /\ Free(l) /\ unlinked[l]
           /\ mutex' = [mutex EXCEPT ![cur[t]] = NULL]
           /\ cur' = [cur EXCEPT ![t] = NULL]
           /\ Goto(t, "idle")
           /\ UNCHANGED <<heap, at>>
        \/ /\ Free(l) /\ ~unlinked[l]
           /\ mutex' = [mutex EXCEPT ![l] = t]
           /\ Goto(t, "unlink_next")
           /\ UNCHANGED <<heap, at, cur>>

\* Mutant: the successor keeps its old prev.
UnlinkNextNoPrev(t) ==
  /\ In(t, "unlink_next") /\ NoneOrFree(next[at[t]])
  /\ Goto(t, "unlink_do")
  /\ UNCHANGED <<mutex, heap, at, cur>>

\* The successor's prev is redirected under the successor's lock.
UnlinkNext(t) ==
  LET l == at[t]
      n == next[l]
  IN /\ In(t, "unlink_next")
     /\ NoneOrFree(n)
     /\ prev' = [x \in Links |-> IF x = n THEN prev[l] ELSE prev[x]]
     /\ Goto(t, "unlink_do")
     /\ UNCHANGED <<mutex, next, inUse, unlinked, mem, at, cur>>

\* The link at[t] leaves the list: its predecessor now leads to n, its own next
\* is kept as `keep`, and gone says whether it is freed.
TakeOut(t, n, keep, gone) ==
  LET l == at[t]
      p == cur[t]
  IN /\ In(t, "unlink_do")
     /\ unlinked' = [unlinked EXCEPT ![l] = TRUE]
     /\ next' = [next EXCEPT ![p] = n, ![l] = keep]
     /\ mutex' = [mutex EXCEPT ![p] = NULL, ![l] = NULL]
     /\ FreeIf(l, gone)
     /\ cur' = [cur EXCEPT ![t] = NULL]
     /\ Goto(t, "idle")
     /\ UNCHANGED <<prev, inUse, at>>

\* Mutants: the predecessor gets link->prev for link->next; it is not changed;
\* the link's own next is cleared; the link is freed whoever refers to it.
UnlinkDoPrev(t) == TakeOut(t, prev[at[t]], next[at[t]], inUse[at[t]] = 0)
UnlinkDoNot(t) == TakeOut(t, at[t], next[at[t]], inUse[at[t]] = 0)
UnlinkDoClear(t) == TakeOut(t, next[at[t]], NULL, inUse[at[t]] = 0)
UnlinkDoFree(t) == TakeOut(t, next[at[t]], next[at[t]], TRUE)

UnlinkDo(t) == TakeOut(t, next[at[t]], next[at[t]], inUse[at[t]] = 0)

-----------------------------------------------------------------------------
(* linked_destroy                                                          *)

DestroyCall(t) ==
  /\ In(t, "idle") /\ t \in Destroyers /\ at[t] = NULL
  /\ Goto(t, "destroy_head")
  /\ UNCHANGED <<mutex, heap, at, cur>>

DestroyLockList(t) ==
  /\ In(t, "destroy_head")
  /\ Free(List)
  /\ mutex' = [mutex EXCEPT ![List] = t]
  /\ cur' = [cur EXCEPT ![t] = next[List]]
  /\ Goto(t, "destroy_link")
  /\ UNCHANGED <<heap, at>>

DestroyLink(t) ==
  /\ In(t, "destroy_link") /\ cur[t] # NULL
  /\ Free(cur[t])
  /\ mutex' = [mutex EXCEPT ![cur[t]] = t]
  /\ Goto(t, "destroy_next")
  /\ UNCHANGED <<heap, at, cur>>

\* The link cur[t] leaves the list, which then starts with its successor (but
\* list->first is not moved past the last link); gone: it is freed.
Clear(t, gone) ==
  LET l == cur[t]
      n == next[l]
  IN /\ In(t, "destroy_next")
     /\ NoneOrFree(n)
     /\ next' = [next EXCEPT ![List] = IF n = NULL THEN @ ELSE n,
                             ![l] = NULL]
     /\ prev' = [x \in Links |-> IF x = n THEN List ELSE prev[x]]
     /\ unlinked' = [unlinked EXCEPT ![l] = TRUE]
     /\ FreeIf(l, gone)
     /\ mutex' = [mutex EXCEPT ![l] = NULL]
     /\ cur' = [cur EXCEPT ![t] = n]
     /\ Goto(t, "destroy_link")
     /\ UNCHANGED <<inUse, at>>

\* Mutant: links are only unlinked.
DestroyNextKeep(t) == Clear(t, FALSE)

DestroyNext(t) == Clear(t, inUse[cur[t]] = 0)

DestroyList(t) ==
  /\ In(t, "destroy_link") /\ cur[t] = NULL
  /\ mutex' = [mutex EXCEPT ![List] = NULL]
  /\ mem' = [mem EXCEPT ![List] = "freed"]
  /\ Goto(t, "idle")
  /\ UNCHANGED <<next, prev, inUse, unlinked, at, cur>>

-----------------------------------------------------------------------------
\* The node whose mutex, or unlinked flag, t touches in its next step.
Touches(t) ==
  CASE pc[t] \in {"push_head", "first_head", "destroy_head"} -> List
    [] pc[t] \in {"push_walk", "destroy_next"} -> next[cur[t]]
    [] pc[t] \in {"destroy_link", "unlink_lock_prev"} -> cur[t]
    [] pc[t] = "first_link" -> next[List]
    [] pc[t] \in {"next_step", "unlink_next"} -> next[at[t]]
    [] pc[t] \in {"idle", "unlink_prev", "unlink_check", "unlink_lock"} -> at[t]
    [] OTHER -> NULL

\* t goes on to a node whose memory is gone.
TouchFreed(t) ==
  /\ ~fault
  /\ Touches(t) # NULL /\ mem[Touches(t)] = "freed"
  /\ fault' = TRUE
  /\ UNCHANGED <<mutex, heap, pc, at, cur>>

\* A thread goes on with the call it is in.
Step(t) ==
  \/ PushLockList(t) \/ PushWalk(t) \/ PushAppend(t)
  \/ FirstLockList(t) \/ FirstTake(t) \/ NextStep(t)
  \/ UnlinkPrev(t) \/ UnlinkLockPrev(t) \/ UnlinkCheck(t)
  \/ UnlinkLock(t) \/ UnlinkNext(t) \/ UnlinkDo(t)
  \/ DestroyLockList(t) \/ DestroyLink(t) \/ DestroyNext(t) \/ DestroyList(t)

\* A thread calls an operation of the list.
Call(t) ==
  \/ PushAlloc(t) \/ FirstCall(t) \/ NextLock(t) \/ Release(t)
  \/ UnlinkCall(t) \/ DestroyCall(t)

Next == \E t \in Threads : Step(t) \/ Call(t) \/ TouchFreed(t)

Spec == Init /\ [][Next]_vars

-----------------------------------------------------------------------------
TypeOK ==
  /\ mutex \in [Nodes -> Threads \cup {NULL}]
  /\ next \in [Nodes -> Ptr]
  /\ prev \in [Links -> Nodes]
  /\ inUse \in [Links -> Int]
  /\ unlinked \in [Links -> BOOLEAN]
  /\ mem \in [Nodes -> {"fresh", "live", "freed"}]
  /\ pc \in [Threads -> PCs]
  /\ at \in [Threads -> Ptr]
  /\ cur \in [Threads -> Nodes \cup {NULL}]
  /\ fault \in BOOLEAN

Pushing(t) == pc[t] \in {"push_head", "push_walk"}

\* The threads that hold a counted reference to l.
Holders(l) == {t \in Threads : at[t] = l /\ ~Pushing(t)}

\* The links an iteration should meet: appended and not unlinked.
Members == {l \in Links : /\ mem[l] = "live" /\ ~unlinked[l]
                          /\ \A t \in Threads : Pushing(t) => at[t] # l}

\* The links met by following next from list->first, in order; cut off when
\* it is longer than the links there are, as a cyclic list would be.
Chain ==
  LET from[k \in 0..Cardinality(Links)] ==
        [n \in Nodes |->
          IF k = 0 \/ next[n] = NULL THEN << >>
          ELSE <<next[n]>> \o from[k - 1][next[n]]]
  IN from[Cardinality(Links)][List]

-----------------------------------------------------------------------------
\* linked_release and linked_unlink free a link when inUse says so; that is
\* right only if inUse counts exactly the references walkers hold
\* (linked.c:71, 86, 101), through every interleaving of calls.
RefCount == \A l \in Links : inUse[l] = Cardinality(Holders(l))

\* A link is given back only after it was unlinked, and nobody is left
\* standing at it (linked.c:85-93, 217-221).
FreedUnreferenced ==
  \A l \in Links : mem[l] = "freed" => unlinked[l] /\ Holders(l) = {}

\* An unlinked link that nobody refers to has been freed: whoever of the
\* unlinker and the last reader comes last frees it (linked.c:88-91, 217-221).
NoLeak ==
  \A l \in Links : unlinked[l] /\ Holders(l) = {} => mem[l] = "freed"

\* Has nobody begun to take the list apart?
Undestroyed ==
  mem[List] = "live" /\ \A t \in Threads : pc[t] \notin {"destroy_link", "destroy_next"}

\* While nobody destroys the list, following next meets exactly the links that
\* were appended and not unlinked, each of them once (linked.c:17-47, 204-206).
ChainIsMembers ==
  Undestroyed
    => /\ {Chain[i] : i \in DOMAIN Chain} = Members
       /\ Len(Chain) = Cardinality(Members)

\* prev is next turned round, except in the middle of linked_unlink, which
\* redirects the successor's prev first (linked.c:192-206).
BackPointers ==
  \A i \in DOMAIN Chain :
    LET before == IF i = 1 THEN List ELSE Chain[i - 1]
    IN prev[Chain[i]] = IF \E t \in Threads : pc[t] = "unlink_do" /\ at[t] = before
                        THEN prev[before] ELSE before

\* "need to get prev sem before link sem to avoid dead lock" (linked.c:140):
\* no threads, however many, wait in a circle for each other's locks, and
\* nobody for its own.
NoWaitCycle ==
  \A S \in (SUBSET Threads) \ {{}} :
    \E t \in S : Touches(t) = NULL \/ mutex[Touches(t)] \notin S

\* When linked_destroy is over no link is left in the list, and the ones
\* nobody refers to were freed (linked.c:226-261), whatever a linked_push
\* that was already past list->lock appended meanwhile.
DestroyLeavesNothing ==
  mem[List] = "freed" =>
    /\ Members = {}
    /\ \A l \in Links : Holders(l) = {} /\ unlinked[l] => mem[l] = "freed"

\* No thread touches a link after it was freed: "check if the link is used; if
\* so: unlock; if not: free" (linked.c:215-216).
NoUseAfterFree == ~fault

\* linked_unlink reads link->prev under the link's lock, lets that go and locks
\* the predecessor only then (linked.c:150-184): links may be taken out or
\* destroyed in between.  Once it is past its retry, the predecessor it has
\* locked is in the list and leads to the link, which is in the list as well.
PredecessorHeld ==
  \A t \in Threads :
    pc[t] \in {"unlink_lock", "unlink_next", "unlink_do"} =>
      /\ mutex[cur[t]] = t /\ cur[t] \in Members \cup {List}
      /\ next[cur[t]] = at[t] /\ at[t] \in Members
=============================================================================
