------------------------------ MODULE Replies ------------------------------
(***************************************************************************)
(* What the methods of Session take from the reply chains they have read   *)
(* (internal/drda/session.go, ddm.go).  A reply is a record with its       *)
(* codepoint and what the driver looks at of its data.  Each reader gives  *)
(* a record with ok and the method's results.                              *)
(***************************************************************************)
EXTENDS Integers, Sequences, SequencesExt

\* The replies.  A null SQLCARD carries no SQLCA; an unreadable one is cut short.
SQLCARD(code, rows) == [cp |-> "SQLCARD", code |-> code, rows |-> rows]
NullCard        == SQLCARD(0, -1)
Unreadable      == -9999
UnreadableCard  == SQLCARD(Unreadable, -1)
Message(cp)     == [cp |-> cp]
SQLERRRM        == Message("SQLERRRM")
SQLDTARD(values) == [cp |-> "SQLDTARD", values |-> values]
SECCHKRM(code)  == [cp |-> "SECCHKRM", code |-> code]
ACCSECRD(mechanism, token) == [cp |-> "ACCSECRD", mechanism |-> mechanism, token |-> token]
QRYDSC(fields)  == [cp |-> "QRYDSC", fields |-> fields]
QRYDTA(data)    == [cp |-> "QRYDTA", data |-> data]
EXTDTA(object)  == [cp |-> "EXTDTA", object |-> object]

\* A descriptor of columns, behind a null SQLCA or one without or with an error.
SQLDARD(columns, sqlca) == [cp |-> "SQLDARD", columns |-> columns, sqlca |-> sqlca]

Has(replies, cp) == \E i \in DOMAIN replies : replies[i].cp = cp

-----------------------------------------------------------------------------
\* ParseSQLCARD: the rows of a card.  A success that states none counts one.
RowsOf(card) == IF card.rows = -1 THEN 0
                ELSE IF card.rows = 0 /\ card.code = 0 THEN 1 ELSE card.rows

\* What makes a request fail: an SQLCARD with a negative code or one that cannot
\* be parsed ...
CardFails(reply) == reply.cp = "SQLCARD" /\ (reply.code = Unreadable \/ reply.code < 0)

\* ... an SQLERRRM, whatever is in it ...
ReplyFails(reply) == CardFails(reply) \/ reply.cp = "SQLERRRM"

\* ... and, where descriptors are read, the negative code in front of one.
DescriptorFails(reply) == reply.cp = "SQLDARD" /\ reply.sqlca = "error"

AnyOf(replies, Fails(_)) == \E i \in DOMAIN replies : Fails(replies[i])

\* The last of the replies of a kind, or none.
LastOf(replies, Kind(_), none) ==
  LET kind == {i \in DOMAIN replies : Kind(replies[i])}
  IN  IF kind = {} THEN none ELSE replies[Max(kind)]

IsCard(reply) == reply.cp = "SQLCARD"
HasValues(reply) == reply.cp = "SQLDTARD" /\ reply.values # <<>>

AffectedRows(replies) ==
  FoldLeft(+, 0, [i \in DOMAIN replies |-> IF IsCard(replies[i]) THEN RowsOf(replies[i]) ELSE 0])

\* An SQLDTARD that cannot be parsed counts as one without values.
OutValues(replies) == LastOf(replies, HasValues, SQLDTARD(<<>>)).values

\* A method that is content with the first reply.
ReadFirst(replies) ==
  [ok |-> ~ ReplyFails(Head(replies)), rows |-> AffectedRows(replies)]

\* ExecDirect: the rows of all cards.
ReadDirect(replies) ==
  [ok |-> ~ AnyOf(replies, ReplyFails), rows |-> AffectedRows(replies)]

\* ExecWithParams: these and the OUT values.
ReadExec(replies) ==
  [ok |-> ~ AnyOf(replies, ReplyFails),
   rows |-> AffectedRows(replies), out |-> OutValues(replies)]

\* PrepareAndDescribe: a descriptor behind a null SQLCA is that of the parameters.
IsParams(reply) == reply.cp = "SQLDARD" /\ reply.sqlca = "null"
IsOutput(reply) == reply.cp = "SQLDARD" /\ reply.sqlca # "null"

ReadDescribe(replies) ==
  [ok |-> ~ AnyOf(replies, ReplyFails) /\ ~ AnyOf(replies, DescriptorFails),
   output |-> LastOf(replies, IsOutput, SQLDARD(<<>>, "ok")).columns,
   params |-> LastOf(replies, IsParams, SQLDARD(<<>>, "null")).columns]

\* ExecSQLSet looks at cards only.
ReadSet(replies) == [ok |-> ~ AnyOf(replies, CardFails)]

\* commitLocked and Rollback look at nothing.
ReadCommit(replies) == [ok |-> TRUE]

\* Ping, for RDBCMM and for EXCSAT.
ReadPing(auto, replies) ==
  [ok |-> IF auto THEN ~ Has(replies, "SQLERRRM") ELSE Head(replies).cp = "EXCSATRD"]

-----------------------------------------------------------------------------
\* parseCallResultSets.  The set being read, and what was read before it.
NoSet == [columns |-> <<>>, fields |-> <<>>, data |-> <<>>, extdta |-> <<>>]

\* A flushed set takes column names from its fields when it has none.
Named(set) == [set EXCEPT !.columns = IF @ = <<>> THEN set.fields ELSE @]

\* flushSet: sets without data are dropped.
Flush(sets, set) ==
  IF set.fields # <<>> /\ set.data # <<>> THEN Append(sets, Named(set)) ELSE sets

\* A descriptor that does not end the set before it.
CallStepJoining(call, reply) ==
  CASE reply.cp = "SQLDARD" -> [call EXCEPT !.set.columns = reply.columns]
    [] reply.cp = "QRYDSC"  -> [call EXCEPT !.set.fields = reply.fields]
    [] reply.cp = "QRYDTA"  -> [call EXCEPT !.set.data = @ \o reply.data]
    [] reply.cp = "EXTDTA"  -> [call EXCEPT !.set.extdta = Append(@, reply.object)]
    [] OTHER -> call

\* One reply: SQLDARD and QRYDSC end a set that has fields.
CallStep(call, reply) ==
  LET ends == call.set.fields # <<>>
      sets == IF ends THEN Flush(call.sets, call.set) ELSE call.sets
      set  == IF ends THEN NoSet ELSE call.set
  IN  CASE reply.cp = "SQLDARD" /\ reply.columns # <<>> ->
             [sets |-> sets, set |-> [set EXCEPT !.columns = reply.columns]]
        [] reply.cp = "QRYDSC" -> [sets |-> sets, set |-> [set EXCEPT !.fields = reply.fields]]
        [] reply.cp = "QRYDTA" -> [call EXCEPT !.set.data = @ \o reply.data]
        [] reply.cp = "EXTDTA" -> [call EXCEPT !.set.extdta = Append(@, reply.object)]
        [] OTHER -> call

ReadCall(replies) ==
  LET read == FoldLeft(CallStep, [sets |-> <<>>, set |-> NoSet], replies)
  IN  [ok |-> ~ AnyOf(replies, ReplyFails) /\ ~ AnyOf(replies, DescriptorFails),
       sets |-> Flush(read.sets, read.set), out |-> OutValues(replies)]

-----------------------------------------------------------------------------
\* queryResult, and consume for the replies of one chain.
NoResult == [fields |-> <<>>, data |-> <<>>, extdta |-> <<>>, open |-> FALSE, ended |-> FALSE]

Ends(reply) ==
  reply.cp = "ENDQRYRM" \/ (reply.cp = "SQLCARD" /\ reply.code = 100)

\* The rows of a chain, and its large objects.
Rows(replies) ==
  FlattenSeq([i \in DOMAIN replies |-> IF replies[i].cp = "QRYDTA" THEN replies[i].data ELSE <<>>])
Objects(replies) ==
  FlattenSeq([i \in DOMAIN replies |-> IF replies[i].cp = "EXTDTA" THEN <<replies[i].object>> ELSE <<>>])

Consume(query, replies) ==
  [fields |-> LastOf(replies, LAMBDA r : r.cp = "QRYDSC", QRYDSC(query.fields)).fields,
   data   |-> query.data \o Rows(replies),
   extdta |-> query.extdta \o Objects(replies),
   open   |-> query.open \/ Has(replies, "OPNQRYRM"),
   ended  |-> query.ended \/ AnyOf(replies, Ends)]

QueryFails(replies) == AnyOf(replies, ReplyFails) \/ AnyOf(replies, DescriptorFails)
Progress(replies)   == Has(replies, "QRYDTA") \/ Has(replies, "EXTDTA")

-----------------------------------------------------------------------------
\* The handshake.  parseACCSECRD: RDBNFNRM fails it.
Negotiated(replies) ==
  LET read == LastOf(replies, LAMBDA r : r.cp = "ACCSECRD", ACCSECRD(0, FALSE))
  IN  [ok |-> ~ Has(replies, "RDBNFNRM"), mechanism |-> read.mechanism, token |-> read.token]

\* Replies to SECCHK that refuse a user, and those to ACCRDB that refuse access.
Refuses(reply) ==
  \/ reply.cp \in {"RDBAFLRM", "RDBATHRM", "SQLERRRM"}
  \/ reply.cp = "SECCHKRM" /\ reply.code # 0

ReadAccess(replies) == [ok |-> ~ AnyOf(replies, Refuses)]

\* SwitchUser wants to see an SECCHKRM.
ReadSwitch(replies) == [ok |-> ~ AnyOf(replies, Refuses) /\ Has(replies, "SECCHKRM")]
=============================================================================
