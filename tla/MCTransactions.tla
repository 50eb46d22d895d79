--------------------------- MODULE MCTransactions ---------------------------
(* Instance of Transactions for TLC: two units of work, four writes and       *)
(* batches of two rows, so that a transaction writes before and after one.   *)
EXTENDS Transactions
=============================================================================
