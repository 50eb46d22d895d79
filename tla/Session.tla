------------------------------ MODULE Session ------------------------------
(***************************************************************************)
(* A session from dial to close: the handshake of connectRaw with its ways *)
(* to fail, and the requests of a connected session with all the server    *)
(* may answer (internal/drda/session.go, ddm.go).                          *)
(*                                                                         *)
(* A request is one step: it is written, the server answers with one reply *)
(* chain or two, and the method takes its result from them (Replies).  The *)
(* connection may be lost before either chain.  A query of fetchQuery goes *)
(* on for as many steps as it has blocks.  The server's side of each       *)
(* answer is kept in truth, to compare it with the result.                 *)
(***************************************************************************)
EXTENDS Replies

CONSTANTS Mechanisms,  \* the security mechanisms a session may ask for
          MaxSets,     \* bound: result sets of a CALL
          MaxRows,     \* bound: rows of a query, of a result set, and those affected
          MaxObjects   \* bound: large objects of a result set

ASSUME SessionAssumption ==
  /\ Mechanisms \subseteq Nat \ {0}
  /\ MaxSets \in Nat /\ MaxRows \in Nat /\ MaxObjects \in Nat

VARIABLES cfg,     \* the configuration of the session
          step,    \* how far Connect is
          conn,    \* Session.conn is not nil
          closed,  \* Session.closed
          broken,  \* Session.broken
          token,   \* Session.secTkn has at least 20 bytes
          socket,  \* "none", "open", "closed"
          offered, \* server: the mechanism it stated, 0 for none
          verdict, \* server: what it made of the user and the database
          call,    \* the last request: method, truth, result, and what was lost
          query    \* the query being fetched, or NoQuery

vars == <<cfg, step, conn, closed, broken, token, socket, offered, verdict, call, query>>
handshakeVars == <<cfg, step, token, socket, offered, verdict>>

\* SECMEC 3, 9 and those of Kerberos.
Plain == 3
Encrypted == 9
Kerberos == {7, 11}

Configs == [mechanism : Mechanisms, tls : BOOLEAN, password : BOOLEAN,
            plaintextOK : BOOLEAN, registers : BOOLEAN]

NoCall  == [method |-> "none"]
NoQuery == [on |-> FALSE]

SessionInit ==
  /\ cfg \in Configs
  /\ step = "new" /\ conn = FALSE /\ closed = FALSE /\ broken = FALSE
  /\ token = FALSE /\ socket = "none"
  /\ offered = 0 /\ verdict = "none"
  /\ call = NoCall /\ query = NoQuery

-----------------------------------------------------------------------------
\* connectRaw: a password in clear needs TLS or the permission to do without.
PlaintextRefused ==
  cfg.mechanism = Plain /\ cfg.password /\ ~ cfg.tls /\ ~ cfg.plaintextOK

\* No socket yet, or the TCP connection but no TLS.
FailBefore ==
  /\ step' = "failed"
  /\ socket' = IF socket = "open" THEN "closed" ELSE socket
  /\ UNCHANGED <<cfg, conn, closed, broken, token, offered, verdict, call, query>>

Established ==
  /\ conn' = TRUE /\ closed' = FALSE /\ step' = "accsec"

Dial ==
  /\ step = "new"
  /\ \/ FailBefore
     \/ /\ ~ PlaintextRefused
        /\ socket' = "open"
        /\ IF cfg.tls THEN step' = "tls" /\ UNCHANGED <<conn, closed>> ELSE Established
        /\ UNCHANGED <<cfg, broken, token, offered, verdict, call, query>>

StartTLS ==
  /\ step = "tls"
  /\ \/ FailBefore
     \/ Established /\ UNCHANGED <<cfg, broken, token, socket, offered, verdict, call, query>>

\* The handshake fails: the connection is closed, and the session marked so.
HandshakeFails(lost) ==
  /\ step' = "failed" /\ socket' = "closed" /\ conn' = FALSE /\ closed' = TRUE
  /\ broken' = (broken \/ lost)
  /\ UNCHANGED <<cfg, token, call, query>>

\* What the server may answer to ACCSEC.
AccessSecurity ==
  {<<Message("EXCSATRD"), Message("RDBNFNRM")>>}
    \cup {<<Message("EXCSATRD"), ACCSECRD(mechanism, long)>> :
            mechanism \in Mechanisms \cup {0}, long \in BOOLEAN}

\* A driver that goes on with whatever mechanism the server states.
AgreesToAny(read) == read.ok /\ (cfg.mechanism = Encrypted => read.token)

\* The driver goes on with its own mechanism only; SECMEC 9 needs a server token.
Agrees(read) ==
  /\ read.ok
  /\ read.mechanism \in {0, cfg.mechanism}
  /\ cfg.mechanism = Encrypted => read.token
  /\ cfg.mechanism \notin Kerberos

AccSec(replies) ==
  /\ step = "accsec"
  /\ LET read == Negotiated(replies) IN
     /\ offered' = read.mechanism
     /\ IF Agrees(read)
        THEN /\ step' = "secchk" /\ token' = read.token
             /\ UNCHANGED <<cfg, conn, closed, broken, socket, call, query>>
        ELSE HandshakeFails(FALSE)
  /\ UNCHANGED verdict

\* What it may answer to SECCHK and ACCRDB, by what it made of them.
Access ==
  [granted  |-> {<<SECCHKRM(0), Message("ACCRDBRM")>>, <<Message("ACCRDBRM")>>},
   refused  |-> {<<SECCHKRM(15)>>, <<SECCHKRM(15), Message("RDBNACRM")>>}
                  \cup {<<SECCHKRM(0), Message(cp)>> : cp \in {"RDBAFLRM", "RDBATHRM", "SQLERRRM"}},
   \* The code looks for no database only in the answer to ACCSEC.
   notfound |-> {<<SECCHKRM(0), Message("RDBNFNRM")>>}]

SecChk(kind, replies) ==
  /\ step = "secchk" /\ replies \in Access[kind]
  /\ verdict' = kind
  /\ IF ReadAccess(replies).ok
     THEN step' = "post" /\ UNCHANGED <<cfg, conn, closed, broken, token, socket, call, query>>
     ELSE HandshakeFails(FALSE)
  /\ UNCHANGED offered

\* setPostConnectVariables reads a reply chain and looks at nothing in it.
PostConnect ==
  /\ step = "post"
  /\ step' = IF cfg.registers THEN "registers" ELSE "connected"
  /\ UNCHANGED <<cfg, conn, closed, broken, token, socket, offered, verdict, call, query>>

\* A reply chain of the handshake does not come, or not whole.
HandshakeLost ==
  /\ step \in {"accsec", "secchk", "post"}
  /\ HandshakeFails(TRUE)
  /\ UNCHANGED <<offered, verdict>>

\* Connect sets the configured client registers: an error closes the session.
SetRegisters(ok, lost) ==
  /\ step = "registers" /\ (ok => ~ lost)
  /\ broken' = (broken \/ lost)
  /\ IF ok THEN step' = "connected" /\ UNCHANGED <<conn, closed, socket>>
     ELSE step' = "failed" /\ conn' = FALSE /\ closed' = TRUE /\ socket' = "closed"
  /\ UNCHANGED <<cfg, token, offered, verdict, call, query>>

\* Close; one that finds the session closed does nothing.
CloseSession ==
  /\ step = "connected" /\ ~ query.on /\ call = NoCall
  /\ step' = "left"
  /\ closed' = TRUE
  /\ IF closed THEN UNCHANGED <<conn, socket>>
     ELSE conn' = FALSE /\ socket' = IF conn THEN "closed" ELSE socket
  /\ UNCHANGED <<cfg, broken, token, offered, verdict, call, query>>

\* Connector.Connect makes another session.
NewSession(config) ==
  /\ step \in {"failed", "left"}
  /\ cfg' = config
  /\ step' = "new" /\ conn' = FALSE /\ closed' = FALSE /\ broken' = FALSE
  /\ token' = FALSE /\ socket' = "none"
  /\ offered' = 0 /\ verdict' = "none"
  /\ call' = NoCall /\ query' = NoQuery

HandshakeNext ==
  \/ Dial \/ StartTLS
  \/ \E replies \in AccessSecurity : AccSec(replies)
  \/ \E kind \in DOMAIN Access : \E replies \in Access[kind] : SecChk(kind, replies)
  \/ PostConnect \/ HandshakeLost
  \/ \E ok, lost \in BOOLEAN : SetRegisters(ok, lost)
  \/ CloseSession
  \/ \E config \in Configs : NewSession(config)

-----------------------------------------------------------------------------
\* The answers of the server (external): what happened, in one chain or two.
Answer(first, second, truth) == [first |-> first, second |-> second, truth |-> truth]

Faults == [card |-> {SQLCARD(-1, 0), UnreadableCard}, message |-> {SQLERRRM}]

\* The card of a statement, and the row counts that may be told for it: one of
\* a statement that counts no rows may say none or be counted as one.
Effects ==
  {[reply |-> SQLCARD(0, n), rows |-> {n}] : n \in 1 .. MaxRows}
    \cup {[reply |-> SQLCARD(100, 0), rows |-> {0}],
          [reply |-> SQLCARD(0, 0), rows |-> {0, 1}], [reply |-> NullCard, rows |-> {0}]}

\* Behind it, in auto-commit mode, that of RDBCMM.
Ending(auto) == IF auto THEN <<Message("ENDUOWRM"), NullCard>> ELSE <<>>

Done(effect, out) == [failed |-> "no", rows |-> effect.rows, out |-> out]

\* Successes in one chain, or behind a descriptor of the OUT parameters in a second.
ExecDone(auto, outs) ==
  UNION {{LET told == (IF out = <<>> THEN <<>> ELSE <<SQLDTARD(out)>>)
                        \o <<effect.reply>> \o Ending(auto)
          IN  IF split THEN Answer(<<SQLDARD(<<"p">>, "ok")>>, told, Done(effect, out))
              ELSE Answer(told, <<>>, Done(effect, out)) :
            split \in {out # <<>>, FALSE}} : effect \in Effects, out \in outs}

Failing(first, second, how) == Answer(first, second, [failed |-> how])

\* The statement fails, in either chain, or its commit does.
ExecFailed(auto, outs) ==
  UNION {UNION {
    {Failing(<<fault>> \o Ending(auto), <<>>, how)}
      \cup (IF auto THEN {Failing(<<SQLCARD(0, 1), Message("ENDUOWRM"), fault>>, <<>>, how)} ELSE {})
      \cup (IF outs # {<<>>} THEN {Failing(<<SQLDARD(<<"p">>, "ok")>>, <<fault>> \o Ending(auto), how)}
            ELSE {}) :
    fault \in Faults[how]} : how \in DOMAIN Faults}

ExecAnswers(auto, outs) == ExecDone(auto, outs) \cup ExecFailed(auto, outs)

\* Both descriptors, in the order of the two commands, or an error in place of either.
DescribeAnswers ==
  {Answer(<<SQLDARD(output, "ok"), SQLDARD(params, "null")>>, <<>>,
          [failed |-> "no", output |-> output, params |-> params]) :
     output \in {<<>>, <<"c">>}, params \in {<<>>, <<"p">>}}
  \cup {Failing(<<SQLDARD(<<>>, "error")>>, <<>>, "card")}
  \cup UNION {UNION {{Failing(<<fault>>, <<>>, how), Failing(<<SQLDARD(<<"c">>, "ok"), fault>>, <<>>, how)} :
                       fault \in Faults[how]} : how \in DOMAIN Faults}

\* A result set: its column names when the server describes it, rows, large objects.
\* Rows and objects say whose they are.
ResultSets == [rows : 0 .. MaxRows, objects : 0 .. MaxObjects]

SetReplies(i, set, described) ==
  <<Message("OPNQRYRM")>>
    \o (IF described THEN <<SQLDARD(<<"column", i>>, "ok")>> ELSE <<>>)
    \o <<QRYDSC(<<"field", i>>)>>
    \o [k \in 1 .. set.rows |-> QRYDTA(<<<<i, k>>>>)]
    \o [k \in 1 .. (IF set.rows = 0 THEN 0 ELSE set.objects) |-> EXTDTA(<<i, k>>)]

SetTold(i, set, described) ==
  [columns |-> IF described THEN <<"column", i>> ELSE <<"field", i>>,
   fields |-> <<"field", i>>, data |-> [k \in 1 .. set.rows |-> <<i, k>>],
   extdta |-> [k \in 1 .. set.objects |-> <<i, k>>]]

\* Those with rows: the driver leaves the others out.
Told(sets, described) ==
  FlattenSeq([i \in DOMAIN sets |->
                IF sets[i].rows = 0 THEN <<>> ELSE <<SetTold(i, sets[i], described)>>])

\* A CALL returns OUT values and then its sets.  With descriptors, and when a
\* second chain is read, the sets come in that one.
CallDone(sets, described, out, twice) ==
  LET result == FlattenSeq([i \in DOMAIN sets |-> SetReplies(i, sets[i], described)])
      values == IF out = <<>> THEN <<>> ELSE <<SQLDTARD(out)>>
      truth  == [failed |-> "no", sets |-> Told(sets, described), out |-> out]
  IN  IF described /\ twice
      THEN Answer(<<SQLDARD(<<"p">>, "ok")>>, values \o result \o <<NullCard>>, truth)
      ELSE Answer(values \o result \o <<NullCard>>, <<>>, truth)

CallAnswers(twice, outs) ==
  {CallDone(sets, described, out, twice) :
     sets \in UNION {[1 .. n -> ResultSets] : n \in 0 .. MaxSets},
     described \in BOOLEAN, out \in outs}
  \cup UNION {UNION {{Failing(<<fault>>, <<>>, how),
                      Failing(SetReplies(1, [rows |-> 1, objects |-> 0], FALSE) \o <<fault>>, <<>>, how)} :
                       fault \in Faults[how]} : how \in DOMAIN Faults}

\* SET, a commit, a rollback or a ping: done or not.
PlainAnswers(done) ==
  {Answer(<<done>>, <<>>, [failed |-> "no"])}
    \cup UNION {{Failing(<<fault>>, <<>>, how) : fault \in Faults[how]} : how \in DOMAIN Faults}

SwitchAnswers ==
  {Answer(<<SECCHKRM(0)>>, <<>>, [failed |-> "no"])}
    \cup {Failing(<<reply>>, <<>>, "message") :
            reply \in {SECCHKRM(15), SQLERRRM, Message("RDBAFLRM"), Message("RDBATHRM"),
                       Message("ACCRDBRM")}}

-----------------------------------------------------------------------------
\* Requests need a session that is connected and not closed, and wait for the one
\* before; what becomes of one on a broken session is the subject of Exchange.
Usable == step = "connected" /\ conn /\ ~ closed /\ ~ broken /\ ~ query.on /\ call = NoCall

\* A method returns.
Return ==
  /\ call # NoCall /\ call' = NoCall
  /\ UNCHANGED <<handshakeVars, conn, closed, broken, query>>

Outcome(method, answer, result, lost) ==
  [method |-> method, truth |-> answer.truth, result |-> result, lost |-> lost]

Failure == [ok |-> FALSE]

\* What each method takes from its replies.
ResultOf(method, replies) ==
  CASE method = "direct"   -> ReadDirect(replies)
    [] method = "exec"     -> ReadExec(replies)
    [] method = "describe" -> ReadDescribe(replies)
    [] method = "call"     -> ReadCall(replies)
    [] method = "set"      -> ReadSet(replies)
    [] method = "commit"   -> ReadCommit(replies)
    [] method = "switch"   -> ReadSwitch(replies)

\* The answer is read; or its first chain is lost; or the second one, and then the
\* error is dropped and the result taken from the first.
Read(method, answer) ==
  /\ Usable
  /\ \/ /\ call' = Outcome(method, answer, ResultOf(method, answer.first \o answer.second), "none")
        /\ UNCHANGED broken
     \/ /\ call' = Outcome(method, answer, Failure, "first") /\ broken' = TRUE
     \/ /\ answer.second # <<>>
        /\ call' = Outcome(method, answer, ResultOf(method, answer.first), "second") /\ broken' = TRUE
  /\ UNCHANGED <<handshakeVars, conn, closed, query>>

ExecDirect(auto) ==
  \E answer \in ExecAnswers(auto, {<<>>}) : Read("direct", answer)

ExecWithParams(auto) ==
  \E answer \in ExecAnswers(auto, {<<>>, <<"v">>}) : Read("exec", answer)

PrepareAndDescribe ==
  \E answer \in DescribeAnswers : Read("describe", answer)

\* Only in auto-commit mode QueryCallDirect expects a second chain.
QueryCallDirect(auto) ==
  \E answer \in CallAnswers(auto, {<<>>}) : Read("call", answer)

QueryCallWithParams ==
  \E answer \in CallAnswers(TRUE, {<<>>, <<"v">>}) : Read("call", answer)

ExecSQLSet == \E answer \in PlainAnswers(NullCard) : Read("set", answer)

CommitOrRollback ==
  \E answer \in PlainAnswers(Message("ENDUOWRM")) : Read("commit", answer)

\* A switch with a password; SECMEC 9 needs the token of the handshake, and a
\* password in clear what the handshake needs.
SwitchUser ==
  /\ cfg.mechanism = Encrypted => token
  /\ cfg.mechanism = Plain => cfg.tls \/ cfg.plaintextOK
  /\ \E answer \in SwitchAnswers : Read("switch", answer)

\* Marked closed and no more: Close would find nothing to do, and the socket stay open.
PingMarks(answer, result, lost) ==
  /\ call' = Outcome("ping", answer, result, lost)
  /\ closed' = TRUE /\ broken' = TRUE
  /\ UNCHANGED <<handshakeVars, conn, query>>

\* A ping that is lost, or in a transaction answered by anything but EXCSATRD,
\* closes the session and its socket.
PingCloses(answer, result, lost) ==
  /\ call' = Outcome("ping", answer, result, lost)
  /\ closed' = TRUE /\ broken' = TRUE /\ socket' = "closed"
  /\ UNCHANGED <<cfg, step, token, offered, verdict, conn, query>>

Ping(auto) ==
  /\ Usable
  /\ \E answer \in PlainAnswers(Message(IF auto THEN "ENDUOWRM" ELSE "EXCSATRD")) :
       \/ PingCloses(answer, Failure, "first")
       \/ LET result == ReadPing(auto, answer.first) IN
          IF auto \/ result.ok
          THEN /\ call' = Outcome("ping", answer, result, "none")
               /\ UNCHANGED <<handshakeVars, conn, closed, broken, query>>
          ELSE PingCloses(answer, result, "none")

-----------------------------------------------------------------------------
\* A query of QueryDirect or QueryWithParams.  The server sends its rows as the
\* pieces <<row, 1>>, <<row, 2>>, cut into blocks anywhere, and an object per row.
PiecesOf(rows)  == [i \in 1 .. 2 * rows |-> <<(i + 1) \div 2, 2 - (i % 2)>>]
ObjectsOf(rows) == [i \in 1 .. rows |-> i]

EndReplies == {<<Message("ENDQRYRM")>>, <<SQLCARD(100, 0)>>,
               <<Message("ENDQRYRM"), SQLCARD(100, 0)>>}

\* What it may send next, of so many rows with so much sent already: pieces, objects
\* of rows that are sent, and the end once all is sent.
Blocks(rows, pieces, objects) ==
  {[replies |-> (IF p = 0 THEN <<>> ELSE <<QRYDTA(SubSeq(PiecesOf(rows), pieces + 1, pieces + p))>>)
                  \o [i \in 1 .. o |-> EXTDTA(objects + i)] \o last,
    pieces |-> pieces + p, objects |-> objects + o, ended |-> last # <<>>] :
     p \in 0 .. 2 * rows - pieces, o \in 0 .. rows - objects, last \in EndReplies \cup {<<>>}}

PossibleBlocks(rows, pieces, objects) ==
  {block \in Blocks(rows, pieces, objects) :
     /\ 2 * block.objects <= block.pieces
     /\ block.ended => block.pieces = 2 * rows /\ block.objects = rows}

Decodable(result) == Len(result.data) % 2 = 0

\* The query is over; in auto-commit mode RDBCMM follows, and its loss is not told.
QueryDone(rows, result, ok, lost, commitLost) ==
  /\ call' = [method |-> "query",
              truth |-> [failed |-> lost, data |-> PiecesOf(rows), extdta |-> ObjectsOf(rows)],
              result |-> IF ok /\ Decodable(result)
                         THEN [ok |-> TRUE, data |-> result.data, extdta |-> result.extdta]
                         ELSE Failure,
              lost |-> "none"]
  /\ query' = NoQuery
  /\ broken' = (lost = "lost" \/ commitLost)

\* The loop of fetchQuery that stops at a chain without rows.
GoesOnWithRows(result, replies) == result.open /\ ~ result.ended /\ Has(replies, "QRYDTA")

\* The loop that asks for more of a query that has ended.
GoesOnPastEnd(result, replies) == result.open

\* It goes on until the server has ended the query.
GoesOn(result, replies) == result.open /\ ~ result.ended

\* One chain of replies is consumed.
Fetched(rows, result, block, replies) ==
  IF GoesOn(result, replies)
  THEN /\ query' = [on |-> TRUE, rows |-> rows, result |-> result,
                    pieces |-> block.pieces, objects |-> block.objects]
       /\ UNCHANGED <<broken, call>>
  ELSE \E commitLost \in BOOLEAN : QueryDone(rows, result, TRUE, "no", commitLost)

OpenQuery(rows) ==
  /\ Usable
  /\ \E block \in PossibleBlocks(rows, 0, 0) :
       LET replies == <<Message("OPNQRYRM"), QRYDSC(<<"field">>)>> \o block.replies
       IN  Fetched(rows, Consume(NoResult, replies), block, replies)
  /\ UNCHANGED <<handshakeVars, conn, closed>>

\* CNTQRY: a chain that brings no data and does not end the query is an error.
ContinueQuery ==
  /\ query.on
  /\ \E block \in PossibleBlocks(query.rows, query.pieces, query.objects) :
       LET result == Consume(query.result, block.replies) IN
       IF Progress(block.replies) \/ result.ended
       THEN Fetched(query.rows, result, block, block.replies)
       ELSE QueryDone(query.rows, result, FALSE, "silent", FALSE)
  /\ UNCHANGED <<handshakeVars, conn, closed>>

\* The server answers a query or a CNTQRY with an error, behind a block or alone, or
\* the chain is lost.
QueryBreaks(how) ==
  /\ query.on \/ Usable
  /\ LET rows == IF query.on THEN query.rows ELSE 1
         sofar == IF query.on THEN query.result ELSE NoResult
     IN  IF how = "lost"
         THEN QueryDone(rows, sofar, FALSE, "lost", FALSE)
         ELSE \E fault \in Faults[how] : \E some \in {<<>>, <<QRYDTA(<<>>)>>} :
                QueryDone(rows, Consume(sofar, some), ~ QueryFails(Append(some, fault)), how, FALSE)
  /\ UNCHANGED <<handshakeVars, conn, closed>>

RequestNext ==
  \/ \E auto \in BOOLEAN :
       ExecDirect(auto) \/ ExecWithParams(auto) \/ QueryCallDirect(auto) \/ Ping(auto)
  \/ PrepareAndDescribe \/ QueryCallWithParams \/ ExecSQLSet \/ CommitOrRollback \/ SwitchUser
  \/ \E rows \in 0 .. MaxRows : OpenQuery(rows)
  \/ ContinueQuery \/ Return
  \/ \E how \in {"lost", "card", "message"} : QueryBreaks(how)

SessionNext == HandshakeNext \/ RequestNext

SessionSpec == SessionInit /\ [][SessionNext]_vars

-----------------------------------------------------------------------------
Steps == {"new", "tls", "accsec", "secchk", "post", "registers", "connected", "failed", "left"}
Methods == {"none", "direct", "exec", "describe", "call", "set", "commit", "switch", "ping", "query"}

\* The types; a query is fetched on a session in use, from a cursor that is open.
SessionTypeOK ==
  /\ cfg \in Configs /\ step \in Steps
  /\ conn \in BOOLEAN /\ closed \in BOOLEAN /\ broken \in BOOLEAN /\ token \in BOOLEAN
  /\ socket \in {"none", "open", "closed"}
  /\ offered \in Mechanisms \cup {0}
  /\ verdict \in {"none"} \cup DOMAIN Access
  /\ call.method \in Methods /\ query.on \in BOOLEAN
  /\ query.on => /\ query.pieces \in 0 .. 2 * query.rows /\ query.objects \in 0 .. query.rows
                 /\ step = "connected" /\ query.result.open /\ ~ query.result.ended

\* A session that requests may use is one the server has let in: it has not asked for
\* another mechanism than the session's own, gave SECMEC 9 the token that SwitchUser
\* needs again, and neither refused the user nor the database, in whichever of its
\* replies it says so.  A database it cannot find is not among the answers to ACCRDB
\* that handshake looks at.
AcceptedByServer ==
  conn /\ ~ closed /\ step \notin {"accsec", "secchk"} =>
    /\ offered \in {0, cfg.mechanism}
    /\ cfg.mechanism = Encrypted => token
    /\ verdict \in {"granted", "notfound"}
    /\ ~ PlaintextRefused

\* However a connection attempt or a ping fails, it leaves no socket behind that
\* nobody closes: Session.Close does nothing once closed is set, and the Connector
\* forgets a session that did not connect.
NothingLeftBehind ==
  /\ step \in {"failed", "left"} => socket # "open"
  /\ closed => socket = "closed"
  /\ conn /\ ~ closed => socket = "open"

\* How each method hears that its request has failed.
Hears == [m \in Methods |-> CASE m \in {"direct", "exec", "describe", "call", "query"} -> {"card", "message"}
                              [] m = "set"                -> {"card"}
                              [] m \in {"ping", "switch"} -> {"message"}
                              [] OTHER                    -> {}]

\* A request of a method that hears its failures is reported as failed when the
\* server failed it, wherever in the chains it says so, or the connection was lost,
\* and for no other reason; only a second chain that is lost is not told.
ErrorsReported ==
  call.method # "none" =>
    /\ call.lost = "first" => ~ call.result.ok
    /\ call.lost = "none" /\ call.truth.failed \in Hears[call.method] => ~ call.result.ok
    /\ call.lost = "none" /\ call.truth.failed = "no" => call.result.ok

Heard(method) == call.method = method /\ call.lost = "none" /\ call.truth.failed = "no"

\* What the server said is what the method returns: the rows it counted, the OUT
\* values, each descriptor as its own, and of a CALL every set that has rows, in
\* order, with its own names, fields, rows and large objects.
AnswersAreRead ==
  /\ Heard("direct") \/ Heard("exec") => call.result.rows \in call.truth.rows
  /\ Heard("exec") \/ Heard("call") =>
       "out" \in DOMAIN call.result /\ call.result.out = call.truth.out
  /\ Heard("describe") => /\ call.result.output = call.truth.output
                          /\ call.result.params = call.truth.params
  /\ Heard("call") => call.result.sets = call.truth.sets

\* A query that returns has all the rows and large objects of the server's cursor,
\* wherever the server cut its blocks; one that does not has a reason.
QueryIsWhole ==
  call.method = "query" =>
    IF call.result.ok
    THEN call.result.data = call.truth.data /\ call.result.extdta = call.truth.extdta
    ELSE call.truth.failed # "no"
=============================================================================
