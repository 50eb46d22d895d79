------------------------- MODULE MCClientRegisters -------------------------
(* Instance of ClientRegisters for TLC: three registers, of which one is      *)
(* configured, two values besides the empty one, and two users.              *)
EXTENDS ClientRegisters

MCBase == [r \in 1 .. 3 |-> IF r = 1 THEN "app" ELSE ""]
=============================================================================
