--------------------------- MODULE RequestChains ---------------------------
(***************************************************************************)
(* The bytes of a conversation: the request chains each method of Session  *)
(* writes with WriteRequestDSS, and reply chains read back with ReadDSS    *)
(* and readReplyChain (internal/drda/session.go, dss.go).                  *)
(*                                                                         *)
(* The two sides take turns.  In the request turn the driver writes and    *)
(* the server reads; in the reply turn it is the other way round, and the  *)
(* server may cut a DSS into segments and choose the form of a length as   *)
(* it likes.  Both turns are read by the algorithm of ReadDSS (the mock    *)
(* servers of the tests use it too).  The connection may be cut at any     *)
(* byte.                                                                   *)
(***************************************************************************)
EXTENDS Framing

CONSTANTS Sizes,       \* body sizes of statements, parameters and large objects
          MaxExternal, \* bound: large objects of a request
          ReplySizes,  \* body sizes of replies
          MaxReplies,  \* bound: frames of a reply chain
          Pieces,      \* the most bytes of payload the server puts into a segment
          Window       \* bound: a writer waits while more bytes are unread

ASSUME ChainsAssumption ==
  /\ Sizes \subseteq Nat /\ ReplySizes \subseteq Nat /\ Pieces \subseteq Nat
  /\ MaxExternal \in Nat /\ MaxReplies \in Nat \ {0} /\ Window \in Nat

VARIABLES stage,     \* how far the session is: see ChainsAt
          turn,      \* "ready", "request", "reply"
          chain,     \* what the writer has still to hand to WriteRequestDSS
          id,        \* the correlation identifier of the next DSS
          rest,      \* the part of the DSS in progress that is not written
          wire,      \* bytes written and unread
          cut,       \* the connection is down: nothing more is written
          reading,   \* how far the reader is in the DSS it reads
          sent,      \* history: the DSSs of the turn, as handed over
          received   \* history: the DSSs of the turn, as read

vars == <<stage, turn, chain, id, rest, wire, cut, reading, sent, received>>

-----------------------------------------------------------------------------
\* The codepoints of the commands and objects the driver sends.
CP == [EXCSAT    |-> \h1041, ACCSEC    |-> \h106D, SECCHK    |-> \h106E, ACCRDB    |-> \h2001,
       PRPSQLSTT |-> \h200D, EXCSQLSTT |-> \h200B, EXCSQLIMM |-> \h200A, EXCSQLSET |-> \h2014,
       DSCSQLSTT |-> \h2008, OPNQRY    |-> \h200C, CNTQRY    |-> \h2006, CLSQRY    |-> \h2005,
       RDBCMM    |-> \h200E, RDBRLLBCK |-> \h200F, SQLINTR   |-> \h2007, SQLCARD   |-> \h2408,
       SQLSTT    |-> \h2414, SQLATTR   |-> \h2450, SQLDTA    |-> \h2412, EXTDTA    |-> \h146C]

\* Those WriteRequestDSS sends as object DSS.
Objects == {CP.SQLSTT, CP.SQLATTR, CP.SQLDTA, CP.EXTDTA}

\* One call of WriteRequestDSS; a restart passes 1 for the running identifier.
Call(cp, size, sameID, last) ==
  [cp |-> cp, size |-> size, sameID |-> sameID, last |-> last, restart |-> FALSE]
Command(cp, sameID, last) == Call(cp, 0, sameID, last)

\* In auto-commit mode a request goes on with RDBCMM.
Commit(auto) == IF auto THEN <<Command(CP.RDBCMM, FALSE, TRUE)>> ELSE <<>>

\* The RDBCMM behind parameters is written with identifier 1 again.
CommitRestarted(auto) == [i \in 1 .. Len(Commit(auto)) |-> [Commit(auto)[i] EXCEPT !.restart = TRUE]]

\* A last object that forgets the commit behind it.
ParametersAlone(size, ext, more) ==
  <<Call(CP.SQLDTA, size, ext > 0, ext = 0)>>
    \o [i \in 1 .. ext |-> Call(CP.EXTDTA, size, i < ext, i = ext)]

\* SQLDTA and the large objects it leaves to EXTDTA; more says a command follows.
Parameters(size, ext, more) ==
  <<Call(CP.SQLDTA, size, ext > 0, ~ (ext > 0 \/ more))>>
    \o [i \in 1 .. ext |-> Call(CP.EXTDTA, size, i < ext, i = ext /\ ~ more)]

\* A command that does not announce its text.
StatementUnannounced(command, size, last) ==
  <<Command(command, FALSE, FALSE), Call(CP.SQLSTT, size, FALSE, last)>>

\* A command with its statement text.
Statement(command, size, last) ==
  <<Command(command, TRUE, FALSE), Call(CP.SQLSTT, size, FALSE, last)>>

\* ExecDirect, QueryCallDirect and ExecSQLSet.
Immediate(command, size, auto) == Statement(command, size, ~ auto) \o Commit(auto)

\* QueryDirect, QueryStreamDirect and PrepareAndDescribe.
Prepared(second, size) ==
  Statement(CP.PRPSQLSTT, size, FALSE) \o <<Command(second, FALSE, TRUE)>>

\* ExecWithParams and QueryCallWithParams.
Execution(size, ext, auto) ==
  <<Command(CP.EXCSQLSTT, TRUE, FALSE)>> \o Parameters(size, ext, auto) \o CommitRestarted(auto)

\* QueryWithParams and QueryStreamWithParams.
OpenWithParams(size, ext) ==
  <<Command(CP.OPNQRY, TRUE, FALSE)>> \o Parameters(size, ext, FALSE)

\* The chains of the handshake, and the session's set-up after it.
Attributes == <<Command(CP.EXCSAT, FALSE, FALSE), Command(CP.ACCSEC, FALSE, TRUE)>>
Security   == <<Command(CP.SECCHK, FALSE, FALSE), Command(CP.ACCRDB, FALSE, TRUE)>>
PostConnect(size) ==
  <<Command(CP.EXCSAT, FALSE, FALSE)>> \o Statement(CP.EXCSQLSET, size, FALSE) \o Commit(TRUE)

\* Ping, Commit, Rollback, CNTQRY, CLSQRY, the SECCHK of SwitchUser, Interrupt.
Single(command) == <<Command(command, FALSE, TRUE)>>
Singles == {CP.EXCSAT, CP.RDBCMM, CP.RDBRLLBCK, CP.CNTQRY, CP.CLSQRY, CP.SECCHK, CP.SQLINTR}

\* The chains of a connected session.
SessionChains ==
  {Single(command) : command \in Singles}
    \cup {Immediate(command, size, auto) :
            command \in {CP.EXCSQLIMM, CP.EXCSQLSET}, size \in Sizes, auto \in BOOLEAN}
    \cup {Prepared(second, size) : second \in {CP.OPNQRY, CP.DSCSQLSTT}, size \in Sizes}
    \cup {Execution(size, ext, auto) :
            size \in Sizes, ext \in 0 .. MaxExternal, auto \in BOOLEAN}
    \cup {OpenWithParams(size, ext) : size \in Sizes, ext \in 0 .. MaxExternal}

\* What a session may write: the three chains of its handshake, then any of its own.
Connected == 3
ChainsAt(n) == CASE n = 0 -> {Attributes}
                 [] n = 1 -> {Security}
                 [] n = 2 -> {PostConnect(size) : size \in Sizes}
                 [] n = Connected -> SessionChains

\* The body of a call: bytes that tell calls and positions apart.
Body(size, tag) == [i \in 1 .. size |-> (50 * tag + i) % 251]

-----------------------------------------------------------------------------
\* A reader at the start of a chain, at the start of a DSS, at rest.
AtHeader  == [phase |-> "header"]
AtRest    == [phase |-> "rest"]
Failed    == [phase |-> "failed"]

ChainsInit ==
  /\ stage = 0 /\ turn = "ready"
  /\ chain = <<>> /\ id = 1 /\ rest = <<>>
  /\ wire = <<>> /\ cut = FALSE
  /\ reading = AtRest
  /\ sent = <<>> /\ received = <<>>

\* A request method starts.  Identifiers start from 1 again, but those of the
\* second chain of the handshake go on from its first.
Request(calls) ==
  /\ turn = "ready" /\ calls \in ChainsAt(stage)
  /\ turn' = "request" /\ chain' = calls
  /\ id' = IF stage = 1 THEN id ELSE 1
  /\ reading' = AtHeader /\ sent' = <<>> /\ received' = <<>>
  /\ UNCHANGED <<stage, rest, wire, cut>>

\* The DSS that a call makes of its payload.
DSS(call) ==
  [cp |-> call.cp, data |-> Body(call.size, Len(sent)),
   type |-> IF call.cp \in Objects THEN TypeObject ELSE TypeRequest,
   chained |-> ~ call.last, sameID |-> call.sameID,
   id |-> IF call.restart THEN 1 ELSE id]

\* The identifier after a call: it moves on unless the next DSS shares it.
NextId(call) == IF call.sameID THEN DSS(call).id ELSE DSS(call).id + 1

Writable == ~ cut /\ Len(wire) <= Window

\* A segment that is filled up without its length.
FittingLong(payload, header) ==
  IF Len(payload) > MaxSegment THEN MaxSegment ELSE Len(payload)

\* The bytes of a payload that go into a segment with a header of so many bytes.
Fitting(payload, header) ==
  IF header + Len(payload) > MaxSegment THEN MaxSegment - header ELSE Len(payload)

\* WriteRequestDSS up to its first segment ...
WriteFirst ==
  /\ turn = "request" /\ Writable /\ rest = <<>> /\ chain # <<>>
  /\ LET call    == Head(chain)
         dss     == DSS(call)
         payload == PackDDMObject(dss.cp, dss.data)
         n       == Fitting(payload, HeaderSize)
     IN  /\ wire' = wire \o Header(dss, HeaderSize + n, n < Len(payload))
                         \o SubSeq(payload, 1, n)
         /\ rest' = SubSeq(payload, n + 1, Len(payload))
         /\ sent' = Append(sent, dss)
         /\ id' = NextId(call)
  /\ chain' = Tail(chain)
  /\ UNCHANGED <<stage, turn, cut, reading, received>>

\* ... and each of its continuation segments.
WriteContinuation ==
  /\ turn = "request" /\ Writable /\ rest # <<>>
  /\ LET n == Fitting(rest, ContinuationSize) IN
     /\ wire' = wire \o Word(ContinuationSize + n, n < Len(rest)) \o SubSeq(rest, 1, n)
     /\ rest' = SubSeq(rest, n + 1, Len(rest))
  /\ UNCHANGED <<stage, turn, chain, id, cut, reading, sent, received>>

-----------------------------------------------------------------------------
\* What the server may answer with: plain and extended lengths alike.
Forms(size) == {0, 4, 8} \cup (IF size + 4 <= MaxSegment THEN {-1} ELSE {})

Replied(form, cp, body) ==
  IF form = -1 THEN PackDDMObject(cp, body) ELSE Extended(cp, body, form)

\* The server (external) answers a request it has read: a chain of frames.
Answer(sizes) ==
  /\ turn = "request" /\ reading = AtRest
  /\ turn' = "reply" /\ chain' = sizes
  /\ reading' = AtHeader /\ sent' = <<>> /\ received' = <<>>
  /\ UNCHANGED <<stage, id, rest, wire, cut>>

\* The bytes of a payload it puts into a segment, a piece of at most so many.
Some(piece, fitting) == IF piece < fitting THEN piece ELSE fitting

\* It starts a frame ...
ServeFirst(form, piece) ==
  /\ turn = "reply" /\ Writable /\ rest = <<>> /\ chain # <<>>
  /\ form \in Forms(Head(chain))
  /\ LET dss == [cp |-> CP.SQLCARD, data |-> Body(Head(chain), Len(sent)),
                 type |-> TypeReply, chained |-> Len(chain) > 1, sameID |-> FALSE, id |-> 1]
         payload == Replied(form, dss.cp, dss.data)
         n == Some(piece, Fitting(payload, HeaderSize))
     IN  /\ wire' = wire \o Header(dss, HeaderSize + n, n < Len(payload))
                         \o SubSeq(payload, 1, n)
         /\ rest' = SubSeq(payload, n + 1, Len(payload))
         /\ sent' = Append(sent, dss)
  /\ chain' = Tail(chain)
  /\ UNCHANGED <<stage, turn, id, cut, reading, received>>

\* ... and goes on with it, perhaps with a segment that holds nothing.
ServeContinuation(piece) ==
  /\ turn = "reply" /\ Writable /\ rest # <<>>
  /\ LET n == Some(piece, Fitting(rest, ContinuationSize)) IN
     /\ wire' = wire \o Word(ContinuationSize + n, n < Len(rest)) \o SubSeq(rest, 1, n)
     /\ rest' = SubSeq(rest, n + 1, Len(rest))
  /\ UNCHANGED <<stage, turn, chain, id, cut, reading, sent, received>>

\* The connection breaks: what the other side has not read may be lost from any
\* byte on, and the rest of the chain is never written.
Cut(kept) ==
  /\ turn \in {"request", "reply"} /\ ~ cut
  /\ kept <= Len(wire)
  /\ wire' = SubSeq(wire, 1, kept) /\ cut' = TRUE
  /\ UNCHANGED <<stage, turn, chain, id, rest, reading, sent, received>>

-----------------------------------------------------------------------------
\* The bytes the reader waits for.
Needed == CASE reading.phase = "header"       -> HeaderSize
            [] reading.phase = "body"         -> reading.need
            [] reading.phase = "continuation" -> ContinuationSize

Reading == reading.phase \in {"header", "body", "continuation"}

\* io.ReadFull returns n bytes.
Take(n) == /\ Len(wire) >= n
           /\ wire' = SubSeq(wire, n + 1, Len(wire))

\* ReadDSS reads the header: a wrong magic or a length below six is an error.
ReadHeader ==
  /\ reading.phase = "header"
  /\ Take(HeaderSize)
  /\ LET h == ParsedHeader(SubSeq(wire, 1, HeaderSize)) IN
     reading' = IF wire[3] # Magic \/ h.length < HeaderSize THEN Failed
                ELSE [phase |-> "body", header |-> h, body |-> <<>>,
                      need |-> h.length - HeaderSize, continued |-> h.continued]
  /\ UNCHANGED <<stage, turn, chain, id, rest, cut, sent, received>>

\* A continuation segment: its length, the limit on the whole.
ReadContinuation ==
  /\ reading.phase = "continuation"
  /\ Take(ContinuationSize)
  /\ LET word == NumberOf(SubSeq(wire, 1, ContinuationSize))
         n    == LengthOf(word) - ContinuationSize
     IN  reading' = IF n < 0 \/ Len(reading.body) + n > MaxPayload THEN Failed
                    ELSE [reading EXCEPT !.phase = "body", !.need = n,
                                         !.continued = HasFlag(word)]
  /\ UNCHANGED <<stage, turn, chain, id, rest, cut, sent, received>>

\* A chain goes on behind a frame with the chained bit; one without ends it.
Behind(header) == IF header.chained THEN AtHeader ELSE AtRest

\* The DSS as it is returned to readReplyChain.
Read(header, cp, data) ==
  [cp |-> cp, data |-> data, type |-> header.type, chained |-> header.chained,
   sameID |-> header.sameID, id |-> header.id]

\* The rest of a segment.  Behind the last one the object is taken out.
ReadBody ==
  /\ reading.phase = "body"
  /\ Take(reading.need)
  /\ LET body == reading.body \o SubSeq(wire, 1, reading.need) IN
     IF reading.continued
     THEN /\ reading' = [reading EXCEPT !.phase = "continuation", !.body = body]
          /\ UNCHANGED received
     ELSE IF ObjectData(body) = {}
     THEN reading' = Failed /\ UNCHANGED received
     ELSE \E data \in ObjectData(body) :
            /\ received' = Append(received, Read(reading.header, CodePointOf(body), data))
            /\ reading' = Behind(reading.header)
  /\ UNCHANGED <<stage, turn, chain, id, rest, cut, sent>>

\* The connection ends before the bytes the reader waits for.
ReadEOF ==
  /\ Reading /\ cut /\ Len(wire) < Needed
  /\ reading' = Failed
  /\ UNCHANGED <<stage, turn, chain, id, rest, wire, cut, sent, received>>

\* A method returns with the chain it has read.
Return ==
  /\ turn = "reply" /\ reading = AtRest
  /\ turn' = "ready" /\ stage' = IF stage = Connected THEN stage ELSE stage + 1
  /\ sent' = <<>> /\ received' = <<>>
  /\ UNCHANGED <<chain, id, rest, wire, cut, reading>>

\* A session that has failed is discarded and its socket closed; a new one connects.
Discard ==
  /\ reading = Failed
  /\ stage' = 0 /\ turn' = "ready" /\ chain' = <<>> /\ id' = 1 /\ rest' = <<>>
  /\ wire' = <<>> /\ cut' = FALSE /\ reading' = AtRest
  /\ sent' = <<>> /\ received' = <<>>

-----------------------------------------------------------------------------
WriteStep == WriteFirst \/ WriteContinuation
ReadStep  == ReadHeader \/ ReadContinuation \/ ReadBody \/ ReadEOF

ServerStep ==
  \/ \E frames \in 1 .. MaxReplies : \E sizes \in [1 .. frames -> ReplySizes] : Answer(sizes)
  \/ \E piece \in Pieces :
       ServeContinuation(piece) \/ \E form \in {-1, 0, 4, 8} : ServeFirst(form, piece)

ChainsNext ==
  \/ \E calls \in ChainsAt(stage) : Request(calls)
  \/ WriteStep \/ ReadStep \/ ServerStep
  \/ \E kept \in 0 .. Len(wire) : Cut(kept)
  \/ Return \/ Discard

ChainsSpec == ChainsInit /\ [][ChainsNext]_vars

-----------------------------------------------------------------------------
Byte   == 0 .. 255
UInt16 == 0 .. 65535
Frame  == [cp : UInt16, data : Seq(Byte), type : 0 .. 15, chained : BOOLEAN,
           sameID : BOOLEAN, id : UInt16]

\* What goes over the wire are bytes, and what either side notes are frames.
ChainsTypeOK ==
  /\ stage \in 0 .. Connected /\ turn \in {"ready", "request", "reply"}
  /\ id \in UInt16 /\ id # 0 /\ cut \in BOOLEAN
  /\ rest \in Seq(Byte) /\ wire \in Seq(Byte)
  /\ reading.phase \in {"header", "body", "continuation", "rest", "failed"}
  /\ sent \in Seq(Frame) /\ received \in Seq(Frame)

Oversize(frame) == Len(frame.data) + 12 > MaxPayload

\* Wherever payloads are cut into segments, whatever form their lengths have and
\* however the connection ends, a reader gets exactly the frames that were written,
\* in their order, whole; and it fails for a broken connection or a payload over
\* the limit and for nothing else (WriteRequestDSS against ReadDSS).
ReadsWhatWasWritten ==
  /\ IsPrefix(received, sent)
  /\ reading = Failed => cut \/ \E i \in DOMAIN sent : Oversize(sent[i])

\* A reader that has reached the end of a chain has all of it and leaves nothing
\* behind: no chain is answered before it is written, none waits for more, and the
\* next one starts on a header (the chained bit, readReplyChain).
TurnsAlternate ==
  turn # "ready" /\ reading = AtRest =>
    chain = <<>> /\ rest = <<>> /\ wire = <<>> /\ received = sent

IsObject(frame) == frame.type = TypeObject

\* Statement texts, parameters and large objects share the identifier of the
\* command they belong to, and the header in front of each announces it; no
\* command is announced as somebody's object.
ObjectsFollowTheirCommand ==
  \A i \in DOMAIN sent :
    /\ IsObject(sent[i]) => /\ i > 1
                            /\ sent[i - 1].sameID /\ sent[i].id = sent[i - 1].id
    /\ ~ IsObject(sent[i]) /\ i > 1 => ~ sent[i - 1].sameID
=============================================================================
