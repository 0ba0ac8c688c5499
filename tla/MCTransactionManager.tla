-------------------------- MODULE MCTransactionManager --------------------------
(* Small instances of the transaction manager for TLC. *)
EXTENDS TransactionManager

CONSTANTS t1, c1, c2, op1, op2

MCClients    == {c1, c2}
MCOperations == {op1, op2}
=============================================================================
