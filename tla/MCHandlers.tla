----------------------------- MODULE MCHandlers -----------------------------
EXTENDS Handlers, TLC

CONSTANTS r1, r2

\* Bodies with and without Content-Length, and headers that are refused for
\* their status, or for a line.
MCScripts ==
  r1 :> {<<"header", "blank", "a">>, <<"length", "blank">>, <<"wrong", "blank">>}
  @@ r2 :> {<<"header", "blank">>, <<"malformed", "a", "b">>}
MCFiles == r1 :> {<<"a", "b">>} @@ r2 :> {<< >>}
=============================================================================
