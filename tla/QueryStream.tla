----------------------------- MODULE QueryStream -----------------------------
(***************************************************************************)
(* A streamed query: QueryStream in internal/drda/session.go and the Rows  *)
(* that reads it (rows.go).  The server sends the result in reply chains   *)
(* of query blocks.  A row may start in one block and end in the next; its *)
(* large objects come apart from it, as EXTDTA objects, in the same chain  *)
(* or a later one.  The client keeps what is incomplete: the bytes of an   *)
(* unfinished row in tailBuf, rows that wait for large objects in          *)
(* pendingRows, large objects without a row in pendingExt.                 *)
(*                                                                         *)
(* A request and its reply chain are one step, since the calls of a stream *)
(* hold Session.mu; the mode of the session and its breakdown may change   *)
(* between any two.                                                        *)
(***************************************************************************)
EXTENDS Naturals, Sequences, SequencesExt

CONSTANTS NumRows,   \* rows of the result
          Parts,     \* parts a row's bytes may be split into by the blocks
          Lobs       \* row -> the number of its large objects that are not null

ASSUME StreamAssumption ==
  /\ NumRows \in Nat /\ Parts \in Nat \ {0}
  /\ Lobs \in [1 .. NumRows -> Nat]

VARIABLES rest,        \* server: parts of rows to be sent
          owed,        \* server: large objects of the rows sent, to be sent
          cursor,      \* server: "none", "open", "closed"
          ended,       \* QueryStream.ended; open is cursor # "none", see Open
          committed,   \* QueryStream.committed
          tailBuf,     \* QueryStream.tailBuf
          pendingRows, \* QueryStream.pendingRows
          pendingExt,  \* QueryStream.pendingExt
          data,        \* the batch Rows works on
          pos,         \* Rows.cursor
          at,          \* where the query is
          autoCommit,  \* Session.autoCommit
          broken,      \* Session.broken
          delivered    \* history: the rows Next has returned

serverVars == <<rest, owed, cursor>>
bufferVars == <<tailBuf, pendingRows, pendingExt>>
rowsVars   == <<data, pos, delivered>>
vars == <<serverVars, ended, committed, bufferVars, rowsVars, at, autoCommit, broken>>

\* The bytes of a row, and its large objects.
Bytes(r)  == [p \in 1 .. Parts |-> [row |-> r, part |-> p]]
Values(r) == [k \in 1 .. Lobs[r] |-> <<r, k>>]

\* The rows the application must get.
Result == [r \in 1 .. NumRows |-> [bytes |-> Bytes(r), lobs |-> Values(r)]]

StreamInit ==
  /\ rest = FlattenSeq([r \in 1 .. NumRows |-> Bytes(r)])
  /\ owed = <<>> /\ cursor = "none"
  /\ ended = FALSE /\ committed = FALSE
  /\ tailBuf = <<>> /\ pendingRows = <<>> /\ pendingExt = <<>>
  /\ data = <<>> /\ pos = 0 /\ delivered = <<>>
  /\ at = "opening" /\ autoCommit \in BOOLEAN /\ broken = FALSE

-----------------------------------------------------------------------------
\* decodeRowsPartial: the complete rows ...
Decoded(bytes) ==
  [i \in 1 .. Len(bytes) \div Parts |-> SubSeq(bytes, (i - 1) * Parts + 1, i * Parts)]

\* A count of consumed bytes that stays at 0.
UnconsumedAll(bytes) == bytes

\* ... and the bytes it did not consume.
Unconsumed(bytes) == SubSeq(bytes, (Len(bytes) \div Parts) * Parts + 1, Len(bytes))

\* Large objects that the first n rows need: a null one is not sent.
Needed(rows, n) == FoldLeft(+, 0, [i \in 1 .. n |-> Lobs[rows[i][1].row]])

\* stitchReadyRows that releases rows whatever has come for them.
ReadyAtOnce(rows, exts, final) == Len(rows)

\* stitchReadyRows: the number of leading rows whose large objects are here; at
\* the end of the query all of them.
Ready(rows, exts, final) ==
  IF final THEN Len(rows)
  ELSE CHOOSE n \in 0 .. Len(rows) :
         /\ Needed(rows, n) <= Len(exts)
         /\ n = Len(rows) \/ Needed(rows, n + 1) > Len(exts)

\* Large objects used by the first n rows; a row for which none is left goes without.
Used(rows, exts, n) == IF Needed(rows, n) < Len(exts) THEN Needed(rows, n) ELSE Len(exts)

Stitched(rows, exts, n) ==
  [i \in 1 .. n |->
     [bytes |-> rows[i],
      lobs  |-> SubSeq(exts, Used(rows, exts, i - 1) + 1, Used(rows, exts, i))]]

-----------------------------------------------------------------------------
\* The server (external) sends the next n parts and m large objects, and may mark
\* the end of the query when there is nothing else to send; it closes the cursor
\* with that.  Large objects are owed from the end of their row on.
Owed(n) == owed \o FlattenSeq(
  [i \in 1 .. n |-> IF rest[i].part = Parts THEN Values(rest[i].row) ELSE <<>>])

Sends(n, m, end) ==
  /\ m <= Len(Owed(n))
  /\ end => n = Len(rest) /\ m = Len(Owed(n))
  /\ rest' = SubSeq(rest, n + 1, Len(rest))
  /\ owed' = SubSeq(Owed(n), m + 1, Len(Owed(n)))
  /\ cursor' = IF end THEN "closed" ELSE "open"

\* A client that forgets the end mark.
EndMissed(end) == FALSE

\* ENDQRYRM, or SQLCODE +100, is in the chain.
EndSeen(end) == end

\* What the client makes of a chain: a new batch, and what stays incomplete.
Take(n, m, end) ==
  /\ ended' = EndSeen(end)
  /\ LET bytes == tailBuf \o SubSeq(rest, 1, n)
         rows  == pendingRows \o Decoded(bytes)
         exts  == pendingExt \o SubSeq(Owed(n), 1, m)
         ready == Ready(rows, exts, ended')
     IN  /\ tailBuf' = Unconsumed(bytes)
         /\ data' = Stitched(rows, exts, ready)
         /\ pendingRows' = SubSeq(rows, ready + 1, Len(rows))
         /\ pendingExt' = SubSeq(exts, Used(rows, exts, ready) + 1, Len(exts))

\* A commit for every batch.
CommitsAlways == committed' = (committed \/ (autoCommit /\ ~ broken))

\* In auto-commit mode the stream commits once, when the query has ended.
CommitsAtEnd ==
  committed' = (committed \/ (ended' /\ pendingRows' = <<>> /\ autoCommit /\ ~ broken))

-----------------------------------------------------------------------------
\* initStreamFromReplies: OPNQRYRM and the first chain.  Without a complete row it
\* goes on fetching before it returns.
Open(n, m, end) ==
  /\ at = "opening" /\ ~ broken
  /\ Sends(n, m, end) /\ Take(n, m, end)
  /\ CommitsAtEnd
  /\ at' = IF data' = <<>> /\ ~ ended' THEN "first" ELSE "held"
  /\ UNCHANGED <<pos, delivered, autoCommit, broken>>

\* fetchNextBatchLocked: a CNTQRY and its chain, again until there is a row.  Rows
\* hands out the first row of the batch at once.  (Until then it keeps the batch it
\* has used up, which is as good as an empty one.)
Fetch(n, m, end) ==
  /\ at \in {"first", "fetching"} /\ ~ ended /\ ~ broken
  /\ cursor = "open"
  /\ n > 0 \/ m > 0 \/ end
  /\ Sends(n, m, end) /\ Take(n, m, end)
  /\ CommitsAtEnd
  /\ IF data' = <<>>
     THEN pos' = 0 /\ UNCHANGED <<at, delivered>>
     ELSE /\ at' = "held"
          /\ IF at = "first"
             THEN pos' = 0 /\ UNCHANGED delivered
             ELSE pos' = 1 /\ delivered' = Append(delivered, data'[1])
  /\ UNCHANGED <<autoCommit, broken>>

\* The query has ended and no row is left: the stream commits if it has not done so.
FetchEnd ==
  /\ at \in {"first", "fetching"} /\ ended
  /\ UNCHANGED <<serverVars, ended, bufferVars, rowsVars, autoCommit, broken>>
  /\ CommitsAtEnd
  /\ at' = IF at = "first" THEN "held" ELSE "eof"

\* An error return: the application gets no Rows, or the error of Next.
Fails == at' = IF at = "fetching" THEN "failed" ELSE "refused"

\* The server reports an error, in place of or after data, which is then lost, or
\* sends neither data nor an end.  The cursor may have been opened, may be open
\* still, and an ENDQRYRM may have come before the error.
ServerError(after, noted) ==
  /\ at \in {"opening", "first", "fetching"} /\ ~ ended /\ ~ broken
  /\ after = "none" => at = "opening"
  /\ noted => after = "closed" /\ at # "opening"
  /\ cursor' = after /\ ended' = noted
  /\ Fails
  /\ UNCHANGED <<rest, owed, committed, bufferVars, rowsVars, autoCommit, broken>>

\* The session is broken: no request goes out, none in flight is answered.
RequestFails ==
  /\ at \in {"opening", "first", "fetching"} /\ ~ ended /\ broken
  /\ Fails
  /\ UNCHANGED <<serverVars, ended, committed, bufferVars, rowsVars, autoCommit, broken>>

-----------------------------------------------------------------------------
\* Rows.Next inside the batch, or at the end of it.
NextRow ==
  /\ at = "held" /\ pos < Len(data)
  /\ pos' = pos + 1
  /\ delivered' = Append(delivered, data[pos'])
  /\ UNCHANGED <<serverVars, ended, committed, bufferVars, data, at, autoCommit, broken>>

NextBatch ==
  /\ at = "held" /\ pos = Len(data)
  /\ at' = "fetching"
  /\ UNCHANGED <<serverVars, ended, committed, bufferVars, rowsVars, autoCommit, broken>>

\* A Close that leaves the cursor to the commit.
CloseCursorNot(answered) ==
  /\ answered
  /\ committed' = (committed \/ autoCommit)
  /\ UNCHANGED <<cursor, ended, broken>>

\* CLSQRY, whose answer is not looked at, and the commit.
CloseCursor(answered) ==
  IF answered
  THEN /\ cursor' = "closed" /\ ended' = TRUE
       /\ committed' = (committed \/ autoCommit)
       /\ UNCHANGED broken
  ELSE /\ cursor' \in {cursor, "closed"} /\ broken' = TRUE
       /\ UNCHANGED <<ended, committed>>

\* Rows.Close with QueryStream.Close, by the application or by database/sql after
\* the end, an error or a cancellation.
Close(answered) ==
  /\ at \in {"held", "eof", "failed"}
  /\ IF ended \/ broken
     THEN /\ answered
          /\ committed' = (committed \/ (autoCommit /\ ~ broken))
          /\ UNCHANGED <<cursor, ended, broken>>
     ELSE CloseCursor(answered)
  /\ at' = "closed"
  /\ tailBuf' = <<>> /\ pendingRows' = <<>> /\ pendingExt' = <<>>
  /\ UNCHANGED <<rest, owed, rowsVars, autoCommit>>

\* A transaction begins or ends on the connection between two calls.
SwitchMode ==
  /\ at = "held" /\ ~ broken
  /\ autoCommit' = ~ autoCommit
  /\ UNCHANGED <<serverVars, ended, committed, bufferVars, rowsVars, at, broken>>

\* A cancelled context or an I/O error breaks the session.
Break ==
  /\ at # "closed" /\ ~ broken
  /\ broken' = TRUE
  /\ UNCHANGED <<serverVars, ended, committed, bufferVars, rowsVars, at, autoCommit>>

StreamNext ==
  \/ \E n \in 0 .. Len(rest), m \in 0 .. Len(Owed(Len(rest))), end \in BOOLEAN :
       Open(n, m, end) \/ Fetch(n, m, end)
  \/ \E after \in {"none", "open", "closed"}, noted \in BOOLEAN : ServerError(after, noted)
  \/ \E answered \in BOOLEAN : Close(answered)
  \/ FetchEnd \/ RequestFails \/ NextRow \/ NextBatch \/ SwitchMode \/ Break

StreamSpec == StreamInit /\ [][StreamNext]_vars

-----------------------------------------------------------------------------
\* The stream has the shape the code relies on: tailBuf is less than a row, a large
\* object waits only behind a row that waits for more, and nothing waits at the end.
StreamTypeOK ==
  /\ cursor \in {"none", "open", "closed"}
  /\ at \in {"opening", "first", "held", "fetching", "refused", "failed", "eof", "closed"}
  /\ {ended, committed, autoCommit, broken} \subseteq BOOLEAN
  /\ Len(tailBuf) < Parts /\ pos \in 0 .. Len(data) /\ Len(delivered) <= NumRows
  /\ pendingRows = <<>> => pendingExt = <<>>
  /\ ended /\ at \notin {"failed", "refused"} => tailBuf = <<>> /\ pendingRows = <<>>

\* A fetch goes out only while the server has the cursor open ("a client must not ask
\* for more", fetch_blocks_test.go), however the end mark and the last rows came.
NoFetchAfterEnd ==
  (at \in {"first", "fetching"} /\ ~ ended /\ ~ broken) => cursor = "open"

\* The stream never commits under an open cursor: the rows that are left would be
\* read outside the unit of work the query ran in.
CommitAfterEnd == committed => cursor = "closed"

\* When Rows is closed, at whatever point, the server holds no cursor for it, unless
\* the session is broken.
CursorReleased == at = "closed" => cursor # "open" \/ broken

\* Whatever blocks the server chooses, the application gets the rows of the query in
\* order, each with its own large objects, and is told that they are at an end only
\* when it has got them all: rows are lost only with an error.
ResultCursorOf == INSTANCE ResultCursor
  WITH answer <- CASE at \in {"eof", "closed"} -> at
                   [] at \in {"failed", "refused"} -> "error"
                   [] OTHER -> "rows"

ImplementsResult == ResultCursorOf!Spec
=============================================================================
