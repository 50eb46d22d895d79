------------------------------ MODULE Rewriting ------------------------------
(***************************************************************************)
(* rewriteBinaryParams (statement.go): the parameter markers of short      *)
(* BLOBs become literals in the text of the statement, and what looks like *)
(* a marker in a string, a quoted identifier or a comment stays alone.     *)
(*                                                                         *)
(* A text is a sequence of characters; one name stands for all that the    *)
(* scanner does not tell apart, and one element for a whole literal.       *)
(***************************************************************************)
EXTENDS Integers, Sequences, FiniteSetsExt, SequencesExt

Quotes     == {"'", "\""}
Characters == Quotes \cup {"-", "/", "*", "newline", "?", "other"}
Literal    == "BLOB(X'..')"

-----------------------------------------------------------------------------
(* The scanner: one character after the other, with one of look-ahead. *)

\* Where the scanner is: outside everything, inside a string or identifier of
\* the quote q, inside a comment.
Modes == {"plain", "line", "block"} \cup Quotes

Scanner == [mode |-> "plain", skip |-> FALSE, out |-> <<>>, param |-> 0,
            kept |-> <<>>, inlined |-> <<>>]

\* The character goes out as it is; with skip, the next one too, whatever it is.
Copied(st, ch, mode, skip) == [st EXCEPT !.out = Append(@, ch), !.mode = mode, !.skip = skip]

InLine(st, ch) == Copied(st, ch, IF ch = "newline" THEN "plain" ELSE "line", FALSE)

InBlock(st, ch, next) ==
  IF ch = "*" /\ next = "/" THEN Copied(st, ch, "plain", TRUE) ELSE Copied(st, ch, "block", FALSE)

\* A doubled quote that closes the string.
InQuotesPairless(st, ch, next) ==
  IF ch = st.mode /\ next = st.mode THEN Copied(st, ch, "plain", TRUE)
  ELSE Copied(st, ch, IF ch = st.mode THEN "plain" ELSE st.mode, FALSE)

InQuotes(st, ch, next) ==
  IF ch = st.mode /\ next = st.mode THEN Copied(st, ch, st.mode, TRUE)
  ELSE Copied(st, ch, IF ch = st.mode THEN "plain" ELSE st.mode, FALSE)

\* A parameter marker: a literal, or a marker of the new text.
AtMarker(st, inline) ==
  LET k == st.param + 1
  IN CASE k \notin DOMAIN inline -> Copied(st, "?", "plain", FALSE)
       [] k \in DOMAIN inline /\ inline[k] ->
            [st EXCEPT !.out = Append(@, Literal), !.param = k, !.inlined = Append(@, k)]
       [] OTHER ->
            [st EXCEPT !.out = Append(@, "?"), !.param = k, !.kept = Append(@, k)]

Outside(st, ch, next, inline) ==
  CASE ch = "-" /\ next = "-" -> Copied(st, ch, "line", TRUE)
    [] ch = "/" /\ next = "*" -> Copied(st, ch, "block", TRUE)
    [] ch \in Quotes -> Copied(st, ch, ch, FALSE)
    [] ch = "?" -> AtMarker(st, inline)
    [] OTHER -> Copied(st, ch, "plain", FALSE)

\* One turn of the loop.  The character after a two-character token is copied by
\* the turn that follows, the code copies both at once.
ScanStep(text, inline, st, i) ==
  LET ch   == text[i]
      next == IF i < Len(text) THEN text[i + 1] ELSE "end"
  IN IF st.skip THEN Copied(st, ch, st.mode, FALSE)
     ELSE CASE st.mode = "line" -> InLine(st, ch)
            [] st.mode = "block" -> InBlock(st, ch, next)
            [] st.mode \in Quotes -> InQuotes(st, ch, next)
            [] OTHER -> Outside(st, ch, next, inline)

\* rewriteBinaryParams: the text with the parameters of inline as literals, the
\* parameters that are left and those that went into the text, in order.
rewriteBinaryParams(text, inline) ==
  LET Turn(st, i) == ScanStep(text, inline, st, i)
      end == FoldLeft(Turn, Scanner, [i \in DOMAIN text |-> i])
  IN [text |-> end.out, kept |-> end.kept, inlined |-> end.inlined]

-----------------------------------------------------------------------------
(* Db2 server: the tokens of a text, said without a scanner.  Comments do  *)
(* not nest here.                                                          *)

\* The least position at or after i that satisfies the set, the last one otherwise.
FirstOf(positions, text) == Min(positions \cup {Len(text)})

\* The last character of the token that begins at i.
TokenEnd(text, i) ==
  LET n == Len(text)
      Pair(j, a, b) == j < n /\ text[j] = a /\ text[j + 1] = b
      \* the quotes from i to j pair up and no other follows
      Closes(j) == /\ text[j] = text[i]
                   /\ Quantify(i .. j, LAMBDA h : text[h] = text[i]) % 2 = 0
                   /\ ~ Pair(j, text[i], text[i])
  IN CASE text[i] \in Quotes -> FirstOf({j \in i + 1 .. n : Closes(j)}, text)
       [] Pair(i, "-", "-") -> FirstOf({j \in i + 2 .. n : text[j] = "newline"}, text)
       [] Pair(i, "/", "*") ->
            FirstOf({j + 1 : j \in {h \in i + 2 .. n : Pair(h, "*", "/")}}, text)
       [] OTHER -> i

\* The positions at which a token begins: the first, and each behind the end of one.
TokenStarts(text) ==
  LET Begin(starts, i) ==
        IF starts = {} \/ TokenEnd(text, Max(starts)) = i - 1 THEN starts \cup {i} ELSE starts
  IN FoldLeft(Begin, {}, [i \in DOMAIN text |-> i])

\* The positions of the parameter markers of a text.
Markers(text) == {i \in TokenStarts(text) : text[i] = "?"}

\* The k-th of some positions.
Nth(positions, k) == CHOOSE i \in positions : Cardinality({j \in positions : j < i}) = k - 1

\* The k-th marker of a text.
MarkerAt(text, k) == Nth(Markers(text), k)
=============================================================================
