---------------------------- MODULE ListPromise -----------------------------
(***************************************************************************)
(* What a user of src/linked.c may rely on, with no lock and no pointer in *)
(* sight: a FIFO of links with removal from anywhere, references that move *)
(* along it, and memory that is given back only when a link is out of the  *)
(* list and nobody refers to it.                                           *)
(***************************************************************************)
EXTENDS Naturals, Sequences

CONSTANTS Links, Threads, NULL

VARIABLES
  list, \* the links in the list, oldest first
  held, \* the link each thread refers to, or NULL
  gone  \* the links whose memory was given back

vars == <<list, held, gone>>

In(l) == \E i \in DOMAIN list : list[i] = l

\* The link after l, NULL after the last one.
After(l) ==
  LET i == CHOOSE j \in DOMAIN list : list[j] = l
  IN IF i = Len(list) THEN NULL ELSE list[i + 1]

\* The list without its i-th link.
Without(i) ==
  [j \in 1..(Len(list) - 1) |-> IF j < i THEN list[j] ELSE list[j + 1]]

Init == list = << >> /\ held = [t \in Threads |-> NULL] /\ gone = {}

Append1(l) ==
  /\ ~In(l) /\ l \notin gone
  /\ list' = Append(list, l)
  /\ UNCHANGED <<held, gone>>

Take(t) ==
  /\ held[t] = NULL /\ list # << >>
  /\ held' = [held EXCEPT ![t] = list[1]]
  /\ UNCHANGED <<list, gone>>

\* A thread lets go of l; an unlinked l that nobody else holds is given back.
Drop(t, l) ==
  gone' = IF In(l) \/ \E u \in Threads \ {t} : held[u] = l
          THEN gone ELSE gone \cup {l}

\* From a link in the list the walk goes to its successor; from one that was
\* removed under the walker it goes to no link that was given back.
Advance(t) ==
  LET l == held[t]
  IN /\ l # NULL
     /\ Drop(t, l)
     /\ \E n \in (Links \ gone') \cup {NULL} :
          /\ In(l) => n = After(l)
          /\ held' = [held EXCEPT ![t] = n]
     /\ UNCHANGED list

Let(t) ==
  /\ held[t] # NULL
  /\ Drop(t, held[t])
  /\ held' = [held EXCEPT ![t] = NULL]
  /\ UNCHANGED list

Remove(l) ==
  /\ \E i \in DOMAIN list : list[i] = l /\ list' = Without(i)
  /\ gone' = IF \E t \in Threads : held[t] = l THEN gone ELSE gone \cup {l}
  /\ UNCHANGED held

Next ==
  \/ \E l \in Links : Append1(l) \/ Remove(l)
  \/ \E t \in Threads : Take(t) \/ Advance(t) \/ Let(t)

Spec == Init /\ [][Next]_vars
=============================================================================
