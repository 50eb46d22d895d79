----------------------------- MODULE MCExchange -----------------------------
(* Instance of Exchange for TLC: two requests, of one checkout or of two, and *)
(* reply chains of up to two frames.                                         *)
EXTENDS Exchange
=============================================================================
