------------------------ MODULE ConnectionLifecycle -------------------------
(***************************************************************************)
(* What src/networking.c promises about a connection, with no thread and   *)
(* no lock in sight.                                                       *)
(***************************************************************************)
CONSTANT Conns

VARIABLE life \* none, idle, busy with a request, closing, or freed

Init == life = [c \in Conns |-> "none"]

Move(c, from, to) ==
  /\ life[c] \in from
  /\ life' = [life EXCEPT ![c] = to]

Open(c) == Move(c, {"none"}, "idle")

\* A request that was being read while the connection was given up still runs.
Begin(c) == Move(c, {"idle", "closing"}, "busy")

Finish(c) == \E to \in {"idle", "closing"} : Move(c, {"busy"}, to)

GiveUp(c) == Move(c, {"idle"}, "closing")

\* Never from busy.  An idle connection is freed when it was given up while
\* its last request was being read.
Free(c) == Move(c, {"idle", "closing"}, "freed")

Next == \E c \in Conns : Open(c) \/ Begin(c) \/ Finish(c) \/ GiveUp(c) \/ Free(c)

Spec == Init /\ [][Next]_life
=============================================================================
