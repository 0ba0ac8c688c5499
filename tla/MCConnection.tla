----------------------------- MODULE MCConnection -----------------------------
(* Small instances of the connection for TLC. *)
EXTENDS Connection

CONSTANTS w1, w2, w3
=============================================================================
