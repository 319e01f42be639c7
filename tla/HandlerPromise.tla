--------------------------- MODULE HandlerPromise ---------------------------
(***************************************************************************)
(* What src/networking.c counts on when it calls a handler and resets the  *)
(* connection after it, and what Connection takes for granted: one head,   *)
(* everything written to is closed when the handler returns, and the       *)
(* encoder does not reach the end before that.                             *)
(***************************************************************************)
CONSTANT Requests

VARIABLES
  rs,  \* the handler: before its head, in the body, at the end
  en,  \* the encoder: none, copying or ended
  open \* the requests whose response is still open in the server

vars == <<rs, en, open>>

Init ==
  /\ rs = [r \in Requests |-> "handler"]
  /\ en = [r \in Requests |-> "none"]
  /\ open = {}

SendHeader(r) ==
  /\ rs[r] = "handler" /\ r \notin open
  /\ open' = open \cup {r}
  /\ \E e \in {"none", "copy"} : en' = [en EXCEPT ![r] = e]
  /\ UNCHANGED rs

WriteHead(r) ==
  /\ rs[r] = "handler" /\ r \in open
  /\ rs' = [rs EXCEPT ![r] = "body"]
  /\ UNCHANGED <<en, open>>

Close(r) ==
  /\ rs[r] = "body" /\ r \in open
  /\ open' = open \ {r}
  /\ UNCHANGED <<rs, en>>

\* Perhaps with the last close.
Return(r) ==
  /\ rs[r] = "body"
  /\ rs' = [rs EXCEPT ![r] = "end"]
  /\ open' = open \ {r}
  /\ UNCHANGED en

Copied(r) ==
  /\ en[r] = "copy" /\ r \notin open
  /\ en' = [en EXCEPT ![r] = "ended"]
  /\ UNCHANGED <<rs, open>>

Next ==
  \E r \in Requests :
    SendHeader(r) \/ WriteHead(r) \/ Close(r) \/ Return(r) \/ Copied(r)

Spec == Init /\ [][Next]_vars
=============================================================================
