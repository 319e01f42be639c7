---------------------------- MODULE MCLinkedList ----------------------------
(* Small instances of LinkedListPass: who uses the list is set in each cfg. *)
EXTENDS LinkedListPass, TLC

CONSTANTS cleaner, walker, pusher1, pusher2, l1, l2, l3, l4

\* The links are interchangeable.
SymLinks == Permutations(Links)
=============================================================================
