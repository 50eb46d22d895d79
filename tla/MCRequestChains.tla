-------------------------- MODULE MCRequestChains --------------------------
(* Instance of RequestChains for TLC: segments of 15 bytes, so that bodies   *)
(* of 5 and 6, 11 and 12, 14 and 15 bytes lie on both sides of a boundary.   *)
EXTENDS RequestChains

MCSizes == {0, 5, 6, 11, 12, 14, 15, 28, 33}
MCReplySizes == {0, 14}
MCPieces == {0, 5, 13}
=============================================================================
