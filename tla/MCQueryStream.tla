--------------------------- MODULE MCQueryStream ---------------------------
(* Instance of QueryStream for TLC: four rows of two parts each, with one,   *)
(* no, two and one large objects.                                            *)
EXTENDS QueryStream

MCLobs == <<1, 0, 2, 1>>
=============================================================================
