--------------------------- MODULE LinkedListPass ---------------------------
(***************************************************************************)
(* Iterations over the list of src/linked.c: LinkedList with two history   *)
(* variables that say what a pass of a walker has met and what it owes.    *)
(***************************************************************************)
EXTENDS LinkedList

VARIABLES
  seen, \* the links walker t has stood at in the pass under way
  due   \* the members since before the pass started, none of them unlinked

hvars == <<vars, seen, due>>

HInit == Init /\ seen = [t \in Walkers |-> {}] /\ due = [t \in Walkers |-> {}]

\* A pass starts with the call of linked_first.
Starting(t) == pc[t] = "idle" /\ pc'[t] = "first_head"

HNext ==
  /\ Next
  /\ seen' = [t \in Walkers |->
                IF Starting(t) THEN {} ELSE seen[t] \cup ({at'[t]} \ {NULL})]
  /\ due' = [t \in Walkers |->
               (IF Starting(t) THEN Members ELSE due[t])
                 \ {l \in Links : unlinked'[l]}]

HSpec == HInit /\ [][HNext]_hvars

\* The pass ends where linked_first or linked_next returns NULL.
Ended(t) == /\ at'[t] = NULL /\ pc'[t] = "idle"
            /\ pc[t] \in {"first_head", "next_step"}

\* A pass that runs to its end has met every link that was in the list from
\* before its linked_first until its last linked_next (linked.c:61-110):
\* unlinking around it and appending behind it hide nothing from it, and
\* nothing but linked_destroy does.
PassIsComplete ==
  [][\A t \in Walkers :
       Ended(t) /\ Undestroyed => due'[t] \subseteq seen'[t]]_hvars

-----------------------------------------------------------------------------
\* What linked.h promises, read off the pointers and reference counts.
Promise == INSTANCE ListPromise WITH
  list <- Chain,
  held <- [t \in Threads |-> IF Pushing(t) THEN NULL ELSE at[t]],
  gone <- {l \in Links : mem[l] = "freed"}

\* Every step of the locks and pointers is a step of that promise or invisible
\* in it: order of arrival, removal from anywhere, no link given back while it
\* is in the list or somebody stands at it.
KeepsPromise == Promise!Spec
=============================================================================
