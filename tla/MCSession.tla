----------------------------- MODULE MCSession -----------------------------
(* Instance of Session for TLC: the mechanisms of a password in clear, of an *)
(* encrypted one and of Kerberos; up to two result sets, two rows.           *)
EXTENDS Session

MCMechanisms == {3, 9, 11}
=============================================================================
