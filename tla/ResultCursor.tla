---------------------------- MODULE ResultCursor ----------------------------
(***************************************************************************)
(* What the application expects of the rows of a query: the rows of the    *)
(* result one after the other, the end after the last one and never        *)
(* before it, an error at any time and nothing after it.  QueryStream      *)
(* implements this with blocks, buffers and large objects sent apart.      *)
(***************************************************************************)
EXTENDS Naturals, Sequences

CONSTANT Result      \* the rows of the query, a sequence

VARIABLES delivered, \* the rows the application has got
          answer     \* "rows" while it may ask for more; "eof", "error", "closed"

cursorVars == <<delivered, answer>>

Init == delivered = <<>> /\ answer = "rows"

Deliver ==
  /\ answer = "rows" /\ Len(delivered) < Len(Result)
  /\ delivered' = Append(delivered, Result[Len(delivered) + 1])
  /\ UNCHANGED answer

End ==
  /\ answer = "rows" /\ delivered = Result
  /\ answer' = "eof"
  /\ UNCHANGED delivered

Fail ==
  /\ answer = "rows"
  /\ answer' = "error"
  /\ UNCHANGED delivered

Close ==
  /\ answer' = "closed"
  /\ UNCHANGED delivered

Next == Deliver \/ End \/ Fail \/ Close

Spec == Init /\ [][Next]_cursorVars
=============================================================================
