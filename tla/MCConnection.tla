---------------------------- MODULE MCConnection ----------------------------
(* Small instances of Connection.                                          *)
EXTENDS Connection, TLC

CONSTANT c1
=============================================================================
