------------------------------ MODULE Parameters ------------------------------
(***************************************************************************)
(* The parameters of a prepared statement: Stmt.ExecContext and            *)
(* Stmt.QueryContext (statement.go) from the arguments of the application  *)
(* to the rows the server sees, and back to the destinations of OUT        *)
(* parameters.  Arguments may be slices, of which each element is a row    *)
(* of a batch; short BLOBs go into the text of the statement (Rewriting);  *)
(* everything else goes through the codec (ParameterData, FieldData).      *)
(*                                                                         *)
(* One goroutine, and one method for each statement: what calls of several *)
(* goroutines, or of ExecContext and QueryContext in turn, do to the text  *)
(* of a section is what Statements is about.                               *)
(***************************************************************************)
EXTENDS FieldData, Rewriting

CONSTANTS Cases,      \* the statements, see ParametersTypeOK
          ShortBlob,  \* longest BLOB that makes ExecContext rewrite a text
          NoDest      \* the destination of a sql.Out without one

\* An argument is a scalar, a slice, a reader or a sql.Out.
Is(form, arg) == form \in DOMAIN arg

Kinds == Ints \cup {"null", "float", "string", "bytes", "bool", "time"}

\* The server describes each marker of a text.
ASSUME CasesAssumption ==
  \A case \in Cases :
    /\ case.kind \in {"exec", "query", "call"}
    /\ case.text \in Seq(Characters)
    /\ case.cols \in Seq([type : ColumnTypes, len : Nat, prec : Nat, scale : Nat])
    /\ Cardinality(Markers(case.text)) = Len(case.cols)
    /\ \A args \in case.uses :
         /\ args \in Seq(ToSet(args))
         /\ \A i \in DOMAIN args :
              Is("list", args[i]) => args[i].list \in Seq(ToSet(args[i].list))

ASSUME ShortAssumption == ShortBlob \in Nat

VARIABLES statement,  \* the statement
          rewritten,  \* Stmt.rewrittenOnServer
          prepared,   \* server: the text of the section
          execution,  \* the call under way, or the last one
          wire,       \* the parameters on their way to the server
          received,   \* server: the rows of the call, each a value per parameter
          outputs,    \* server: the values of the OUT parameters
          dests,      \* the destinations of OUT parameters
          drained     \* the readers that were read to their end

vars == <<statement, rewritten, prepared, execution, wire, received, outputs, dests, drained>>

All(args) == [i \in DOMAIN args |-> i]

NoCall == [at |-> "idle", result |-> "ok", args |-> <<>>, outs |-> <<>>, rows |-> 0,
           row |-> 0, text |-> <<>>, kept |-> <<>>, inlined |-> <<>>]

Nothing == [ok |-> FALSE]

ParametersInit ==
  /\ statement \in Cases
  /\ rewritten = FALSE
  /\ prepared = statement.text
  /\ execution = NoCall
  /\ wire = Nothing
  /\ received = <<>>
  /\ outputs = <<>>
  /\ dests = statement.dests
  /\ drained = {}

-----------------------------------------------------------------------------
(* The arguments of a call. *)

\* The current value behind a sql.Out; without a destination 0, or NULL in a CALL
\* through QueryContext.
OutValue(d) ==
  IF d # NoDest THEN dests[d] ELSE IF statement.kind = "call" THEN Null ELSE Value("int", Zeros(8))

\* rawArgs, and where the OUT values go.
RawArgs(args) ==
  [i \in DOMAIN args |-> IF Is("out", args[i]) THEN [scalar |-> OutValue(args[i].out)] ELSE args[i]]

OutTargets(args) ==
  [i \in {j \in DOMAIN args : Is("out", args[j]) /\ args[j].out # NoDest} |-> args[i].out]

\* fmt.Sprint of a slice.
SliceText(list) ==
  <<91>> \o FlattenSeq([i \in DOMAIN list |->
              (IF i = 1 THEN <<>> ELSE <<32>>) \o TextOf(list[i])]) \o <<93>>

\* The value of an argument in a row; a slice that is no batch stays one value.
ValueIn(arg, row) ==
  CASE Is("scalar", arg) -> arg.scalar
    [] Is("reader", arg) -> Value("reader", IF arg.reader \in drained THEN <<>> ELSE arg.reader)
    [] Is("list", arg) -> IF row \in DOMAIN arg.list THEN arg.list[row]
                          ELSE Value("slice", SliceText(arg.list))

Lists(args) == {i \in DOMAIN args : Is("list", args[i])}

\* detectAndExtractBatch takes the size of the first slice that is not empty.
Leading(args) == {i \in Lists(args) : /\ args[i].list # <<>>
                                      /\ \A j \in Lists(args) : j < i => args[j].list = <<>>}

BatchSize(args) ==
  IF Leading(args) = {} THEN 0 ELSE Len(args[CHOOSE i \in Leading(args) : TRUE].list)

Uneven(args) ==
  \E i \in Leading(args) : \E j \in Lists(args) : j > i /\ Len(args[j].list) # Len(args[i].list)

\* A slice of another length that the check has let pass.
TooShort(args) == \E j \in Lists(args) : Len(args[j].list) < BatchSize(args)

\* hasBlobParams and the test of rewriteBinaryParams.
Inlineable(args) ==
  [i \in DOMAIN args |-> /\ statement.cols[i].type = "BLOB"
                         /\ Is("scalar", args[i])
                         /\ args[i].scalar.kind = "bytes"
                         /\ args[i].scalar.data # <<>>]

hasBlobParams(args) ==
  \E i \in DOMAIN args : Inlineable(args)[i] /\ Len(args[i].scalar.data) <= ShortBlob

-----------------------------------------------------------------------------
(* The call, up to the first row. *)

\* A new call with the arguments args.
Begins(args, at, outs, rows, text, kept, inlined) ==
  execution' = [at |-> at, result |-> "ok", args |-> RawArgs(args), outs |-> outs, rows |-> rows,
           row |-> 1, text |-> text, kept |-> kept, inlined |-> inlined]

\* A call that returns, or panics, before it has sent anything.
Returns(args, result) ==
  /\ execution' = [NoCall EXCEPT !.result = result, !.args = RawArgs(args)]
  /\ UNCHANGED <<rewritten, prepared>>

\* The application calls; a reader it passes once.
Called(args) ==
  /\ execution.at = "idle"
  /\ \A i \in DOMAIN args : Is("reader", args[i]) => args[i].reader \notin drained
  /\ received' = <<>>
  /\ outputs' = <<>>
  /\ wire' = Nothing
  /\ UNCHANGED <<statement, dests, drained>>

CallMiscounted(args) ==
  /\ Called(args)
  /\ Len(args) # Len(statement.cols)
  /\ Returns(args, "error")

\* A batch: only ExecContext looks for one.
CallBatch(args) ==
  LET raw == RawArgs(args)
  IN /\ Called(args)
     /\ Len(args) = Len(statement.cols)
     /\ statement.kind = "exec" /\ BatchSize(raw) > 0
     /\ CASE Uneven(raw) -> Returns(args, "error")
          [] ~ Uneven(raw) /\ TooShort(raw) -> Returns(args, "panic")
          [] ~ Uneven(raw) /\ ~ TooShort(raw) ->
               /\ Begins(args, "sending", <<>>, BatchSize(raw), prepared, All(args), <<>>)
               /\ UNCHANGED <<rewritten, prepared>>

Single(args) ==
  /\ Len(args) = Len(statement.cols)
  /\ statement.kind = "exec" => BatchSize(RawArgs(args)) = 0

\* Short BLOBs: the new text is prepared, or executed at once when it takes no
\* parameter any more.
CallRewritten(args) ==
  LET raw == RawArgs(args)
      new == rewriteBinaryParams(statement.text, Inlineable(raw))
  IN /\ Called(args)
     /\ Single(args)
     /\ statement.kind = "exec" /\ hasBlobParams(raw)
     /\ rewritten' = TRUE
     /\ IF new.kept = <<>>
        THEN /\ Begins(args, "sent", <<>>, 1, new.text, <<>>, new.inlined)
             /\ UNCHANGED prepared
        ELSE /\ Begins(args, "sending", OutTargets(args), 1, new.text, new.kept, new.inlined)
             /\ prepared' = new.text

\* The original text is prepared again when the section holds another one.
CallPlain(args) ==
  /\ Called(args)
  /\ Single(args)
  /\ statement.kind = "exec" => ~ hasBlobParams(RawArgs(args))
  /\ IF statement.kind = "exec" /\ rewritten
     THEN rewritten' = FALSE /\ prepared' = statement.text
     ELSE UNCHANGED <<rewritten, prepared>>
  /\ Begins(args, "sending", OutTargets(args), 1, prepared', All(args), <<>>)

\* That second PREPARE fails: the server keeps the text it had or drops it, and the
\* next execution that takes the original text prepares it again.
CallUnprepared(args) ==
  LET raw == RawArgs(args)
  IN /\ Called(args)
     /\ Single(args)
     /\ statement.kind = "exec"
     /\ \/ hasBlobParams(raw) /\ rewriteBinaryParams(statement.text, Inlineable(raw)).kept # <<>>
        \/ ~ hasBlobParams(raw) /\ rewritten
     /\ rewritten' = TRUE
     /\ prepared' \in {prepared, <<>>}
     /\ execution' = [NoCall EXCEPT !.result = "error", !.args = raw]

-----------------------------------------------------------------------------
(* A row: ExecWithParams, QueryStreamWithParams, QueryCallWithParams. *)

\* The call is over; a batch is rolled back, and an error left nothing behind.
Fails(result) ==
  /\ execution' = [execution EXCEPT !.at = "idle", !.result = result]
  /\ received' = <<>>
  /\ wire' = Nothing

\* The values of the row for the parameters that are left.
RowValues ==
  [j \in DOMAIN execution.kept |-> ValueIn(execution.args[execution.kept[j]], execution.row)]

RowColumns == [j \in DOMAIN execution.kept |-> statement.cols[execution.kept[j]]]

\* The readers of a row that BuildSQLDTA comes to: up to the first error.
ReadersRead ==
  LET bad == {j \in DOMAIN execution.kept : ~ Field(RowColumns[j], RowValues[j]).ok}
  IN {execution.args[execution.kept[j]].reader :
        j \in {h \in DOMAIN execution.kept : /\ Is("reader", execution.args[execution.kept[h]])
                                             /\ \A b \in bad : h <= b}}

SendRow ==
  /\ execution.at = "sending"
  /\ drained' = drained \cup ReadersRead
  /\ \E sqldta \in {BuildSQLDTA(RowColumns, RowValues)} :
       IF sqldta.ok
       THEN /\ wire' = sqldta
            /\ execution' = [execution EXCEPT !.at = "sent"]
            /\ UNCHANGED received
       ELSE Fails("error")
  /\ UNCHANGED <<statement, rewritten, prepared, outputs, dests>>

-----------------------------------------------------------------------------
(* Db2 server: it reads the row by its descriptors, and every byte must    *)
(* have its place.  How it tells the byte in front of the values is not in *)
(* the source; the bytes alone do not always show it.                      *)

\* The large objects take the places of the lengths that stand for them.
WithObjects(fields, values, ext) ==
  LET large == {i \in DOMAIN values : fields[i][1] \in Objects /\ values[i] # Null}
      Rank(i) == Cardinality({j \in large : j <= i})
  IN IF Cardinality(large) # Len(ext) THEN {}
     ELSE {[i \in DOMAIN values |->
             IF i \in large THEN Value("bytes", Tail(ext[Rank(i)])) ELSE values[i]]}

ReadRows(fields, read, ext) ==
  IF read.ok /\ read.rest = <<>> /\ Len(read.values) = Len(fields)
  THEN WithObjects(fields, read.values, ext)
  ELSE {}

Readings(sqldta) ==
  LET fields == FieldsOf(sqldta.dsc)
  IN IF sqldta.ok THEN ReadRows(fields, DecodeFields(fields, sqldta.dta), sqldta.ext) ELSE {<<>>}

\* The places of a text that take a value.
ValuePlaces(text) == {i \in TokenStarts(text) : text[i] \in {"?", Literal}}

\* The value of each place: literals from the text, the others from the row.
Bound(text, literals, row) ==
  LET at == ValuePlaces(text)
      Before(i) == Cardinality({j \in at : j <= i /\ text[j] = Literal})
      Taken(k, i) == IF text[i] = Literal THEN literals[Before(i)] ELSE row[k - Before(i)]
  IN [k \in 1 .. Cardinality(at) |-> Taken(k, Nth(at, k))]

Literals == [j \in DOMAIN execution.inlined |-> execution.args[execution.inlined[j]].scalar]

MarkersLeft(text) == Cardinality(Markers(text))

ServerReads ==
  /\ execution.at = "sent"
  /\ \E row \in Readings(wire), out \in statement.outputs :
       /\ Len(row) = MarkersLeft(execution.text)
       /\ received' = Append(received, Bound(execution.text, Literals, row))
       /\ outputs' = out
  /\ execution' = [execution EXCEPT !.at = "answered"]
  /\ UNCHANGED <<statement, rewritten, prepared, wire, dests, drained>>

\* The parameters cannot be read: an error of the protocol.
ServerRejects ==
  /\ execution.at = "sent"
  /\ \A row \in Readings(wire) : Len(row) # MarkersLeft(execution.text)
  /\ Fails("rejected")
  /\ UNCHANGED <<statement, rewritten, prepared, outputs, dests, drained>>

\* The statement itself fails, for a constraint or a lock.
ServerFails ==
  /\ execution.at = "sent"
  /\ Fails("error")
  /\ UNCHANGED <<statement, rewritten, prepared, outputs, dests, drained>>

\* SQLDTARD: a header, and a field for each parameter, omitted (128) when it is IN.
OutField(c, v) ==
  IF c.type \in CharTypes /\ v # Null
  THEN [dsc |-> <<63, 0, 255>>, data |-> <<0>> \o Word16(Len(Utf8(v.data))) \o Utf8(v.data)]
  ELSE [dsc |-> IF c.type \in CharTypes THEN <<63, 0, 255>> ELSE Descriptor(c, v),
        data |-> IF v = Null THEN <<128>> ELSE FDODTA(c, v).data]

SQLDTARD(fields) ==
  [dsc |-> FDODSC([j \in DOMAIN fields |-> fields[j].dsc]),
   dta |-> <<255, 0>> \o FlattenSeq([j \in DOMAIN fields |-> fields[j].data])]

OutFields ==
  [j \in DOMAIN execution.kept |->
    OutField(statement.cols[execution.kept[j]], outputs[execution.kept[j]])]

-----------------------------------------------------------------------------
(* The OUT values. *)

\* What the call takes from the reply; values that cannot be decoded are dropped.
ValuesOf(read) == IF read.ok THEN read.values ELSE <<>>

OutValues(reply) ==
  IF outputs = <<>> THEN <<>> ELSE ValuesOf(ParseSQLDTARD(reply.dsc, reply.dta))

\* An assignment without a look at the type of the destination.
assignAnyParam(dest, v) == IF v = Null THEN dest ELSE v

\* assignOutParam: the same type, what Go converts, and text for everything.
assignOutParam(dest, v) ==
  CASE v = Null -> dest
    [] v # Null /\ v.kind = dest.kind -> v
    [] v.kind = "int" /\ dest.kind = "int32" ->
         Value("int32", Extended64(SubSeq(v.data, 5, 8)))
    [] v.kind = "int" /\ dest.kind = "float" -> Value("float", <<SmallInt(v.data)>>)
    [] v.kind = "float" /\ dest.kind \in {"int", "int32"} ->
         Value(dest.kind, Int64(v.data[1]))
    [] v.kind = "int" /\ dest.kind = "string" -> Value("string", <<SmallInt(v.data)>>)
    [] v.kind = "string" /\ dest.kind = "bytes" -> Value("bytes", Utf8(v.data))
    [] v.kind = "bytes" /\ dest.kind = "string" -> Value("string", DecodeUtf8(v.data))
    [] v.kind \in {"float", "bool"} /\ dest.kind = "string" -> Value("string", TextOf(v))
    [] OTHER -> Refused

\* The values counted by the targets, as if IN parameters had none.
AssignedInOrder(targets, values) ==
  LET order == SelectSeq(All(execution.args), LAMBDA i : i \in DOMAIN targets)
      Next(st, k) ==
        LET i   == order[k]
            new == assignOutParam(st.dests[targets[i]], values[k])
        IN IF ~ st.ok \/ k > Len(values) THEN st
           ELSE IF new = Refused THEN [st EXCEPT !.ok = FALSE]
           ELSE [st EXCEPT !.dests[targets[i]] = new]
  IN FoldLeft(Next, [ok |-> TRUE, dests |-> dests], All(order))

\* The targets in order, up to the first that cannot take its value.
Assigned(targets, values) ==
  LET Next(st, i) ==
        LET new == assignOutParam(st.dests[targets[i]], values[i])
        IN IF ~ st.ok \/ i \notin DOMAIN targets \/ i > Len(values) THEN st
           ELSE IF new = Refused THEN [st EXCEPT !.ok = FALSE]
           ELSE [st EXCEPT !.dests[targets[i]] = new]
  IN FoldLeft(Next, [ok |-> TRUE, dests |-> dests], All(execution.args))

\* The reply: the next row of a batch, or the end of the execution.
CallReturns ==
  /\ execution.at = "answered"
  /\ IF execution.row < execution.rows
     THEN /\ execution' = [execution EXCEPT !.at = "sending", !.row = @ + 1]
          /\ UNCHANGED dests
     ELSE \E new \in {Assigned(execution.outs, OutValues(SQLDTARD(OutFields)))} :
            /\ execution' = [execution EXCEPT !.at = "idle",
                                            !.result = IF new.ok THEN "ok" ELSE "unassigned"]
            /\ dests' = new.dests
  /\ wire' = Nothing
  /\ UNCHANGED <<statement, rewritten, prepared, received, outputs, drained>>

ParametersNext ==
  \/ \E args \in statement.uses :
       \/ CallMiscounted(args)
       \/ CallBatch(args)
       \/ CallRewritten(args)
       \/ CallPlain(args)
       \/ CallUnprepared(args)
  \/ SendRow
  \/ ServerReads
  \/ ServerRejects
  \/ ServerFails
  \/ CallReturns

ParametersSpec == ParametersInit /\ [][ParametersNext]_vars

-----------------------------------------------------------------------------
(* Properties. *)

\* Type correctness.  A destination keeps its Go type whatever the server answers,
\* and a row has a value for each parameter of the statement.
ParametersTypeOK ==
  /\ statement.kind \in {"exec", "query", "call"}
  /\ \A i \in DOMAIN statement.cols : statement.cols[i].type \in ColumnTypes
  /\ rewritten \in BOOLEAN
  /\ execution.at \in {"idle", "sending", "sent", "answered"}
  /\ execution.result \in {"ok", "error", "panic", "rejected", "unassigned"}
  /\ execution.row \in 0 .. execution.rows
  /\ Len(received) \in 0 .. execution.rows
  /\ \A k \in DOMAIN received :
       /\ Len(received[k]) = Len(statement.cols)
       /\ \A i \in DOMAIN received[k] : received[k][i].kind \in Kinds
  /\ \A d \in DOMAIN statement.dests : dests[d].kind = statement.dests[d].kind

\* What the application means by an argument in a row.
Meant(i, k) ==
  LET arg == execution.args[i]
  IN CASE Is("list", arg) /\ k \in DOMAIN arg.list -> arg.list[k]
       [] Is("scalar", arg) -> arg.scalar
       [] Is("reader", arg) -> Value("bytes", arg.reader)
       [] OTHER -> Null

\* Values whose descriptor says other bytes than the value has: a length in bytes
\* under a descriptor that counts characters, GRAPHIC without a length.
Misdescribed(c, v) ==
  /\ v # Null
  /\ \/ c.type \in {"VARBINARY", "XML", "LONG"}
     \/ c.type \in CharTypes \cup ClobTypes /\ v.kind = "bytes" /\ ~ Externalized(c, v)
     \/ c.type = "GRAPHIC" /\ c.len = 0

IntDigits(t) == Len(TrimZeros(t.int))

\* Values that the code converts into others without an error.
Lossy(c, v) ==
  CASE v = Null -> FALSE
    [] v # Null /\ c.type = "GRAPHIC" -> Len(AppendUTF16BE(TextOf(v))) > 2 * c.len
    [] v # Null /\ c.type = "BINARY" -> Len(toBytes(v)) > c.len
    [] v # Null /\ c.type = "FLOAT" -> v.kind \notin {"float", "int"}
    [] v # Null /\ c.type = "BOOLEAN" -> v.kind \notin Ints \cup {"bool", "float"}
    [] v # Null /\ c.type = "DECIMAL" ->
         LET t == PackedNumber(TextOf(v))
         IN \/ Junk \in ToSet(t.int \o t.frac)
            \/ IntDigits(t) > c.prec - c.scale
    [] OTHER -> FALSE

\* The value that arrives says what was meant, up to the digits that the column has.
SameValue(c, v, got) ==
  IF v = Null THEN got = Null
  ELSE CASE c.type \in {"SMALLINT", "INTEGER", "BIGINT"} -> got = Value("int", v.data)
         [] c.type = "FLOAT" ->
              got.data = IF v.kind = "float" THEN v.data ELSE <<SmallInt(v.data)>>
         [] c.type = "BOOLEAN" -> (Last(got.data) # 0) <=> \E i \in DOMAIN v.data : v.data[i] # 0
         [] c.type \in CharTypes -> got = Value("string", TextOf(v))
         [] c.type = "CLOB" /\ got.kind = "bytes" ->
              got.data = IF v.kind = "bytes" THEN v.data ELSE Utf8(v.data)
         [] c.type = "DBCLOB" /\ got.kind = "bytes" ->
              IF v.kind = "bytes" THEN got.data = v.data ELSE DecodeUTF16BE(got.data) = v.data
         [] c.type \in ClobTypes /\ got.kind = "string" -> got.data = TextOf(v)
         [] c.type = "GRAPHIC" -> got.data = TrimRight(TextOf(v), Blanks)
         [] c.type = "BLOB" -> got = Value("bytes", toBytes(v))
         [] c.type = "BINARY" ->
              /\ Len(got.data) = c.len
              /\ TrimRight(got.data, {0}) = TrimRight(toBytes(v), {0})
         [] c.type = "DATE" -> SubSeq(got.data, 1, 3) = SubSeq(toTime(v).data, 1, 3)
         [] c.type = "TIME" ->
              SubSeq(ParsedTime(got.data).data, 4, 6) = SubSeq(toTime(v).data, 4, 6)
         [] c.type = "TIMESTAMP" -> got = toTime(v)
         [] c.type = "DECIMAL" -> Canonical(PackedNumber(got.data))
                                    = Canonical(CutAt(PackedNumber(TextOf(v)), c.scale))
         [] c.type = "DECFLOAT" -> Canonical(FloatNumber(got.data))
              = Canonical(CutTo(FloatNumber(TextOf(v)), FormatOf(c.len).digits))

\* A batch runs on whatever text the section holds, also one with literals.
BatchOnLiterals == rewritten /\ BatchSize(execution.args) > 0

\* The calls that RowsArrive leaves out: a value that is misdescribed, slices
\* that are all empty (executed once, with "[]"), a reader shared by several rows,
\* and a batch on a text with literals.
Excluded ==
  LET rows == Max({1} \cup {Len(execution.args[i].list) : i \in Lists(execution.args)})
  IN \/ \E i \in DOMAIN statement.cols \cap DOMAIN execution.args, k \in 1 .. rows :
          Misdescribed(statement.cols[i], Meant(i, k))
     \/ Lists(execution.args) # {} /\ BatchSize(execution.args) = 0
     \/ \E i \in DOMAIN execution.args : Is("reader", execution.args[i]) /\ rows > 1
     \/ BatchOnLiterals

\* Every row the server gets carries, parameter by parameter, what the application
\* passed, whichever way it went: in a group of descriptors, behind a byte of
\* padding, as a large object or as a literal.  A call that succeeds has
\* delivered a row for each element of its slices, one that fails leaves none, and
\* the server never meets bytes that it cannot assign; descriptors and values are
\* always even in length.
RowsArrive ==
  /\ wire.ok => (Len(wire.dsc) + Len(wire.front) + Len(wire.dta)) % 2 = 0
  /\ ~ Excluded =>
       /\ execution.result # "rejected"
       /\ \A k \in DOMAIN received, i \in DOMAIN statement.cols :
            \/ Lossy(statement.cols[i], Meant(i, k))
            \/ SameValue(statement.cols[i], Meant(i, k), received[k][i])
       /\ execution.at = "idle" =>
            Len(received) =
              IF execution.result \in {"ok", "unassigned"} /\ execution.rows > 0
              THEN Max({1} \cup {Len(execution.args[i].list) : i \in Lists(execution.args)})
              ELSE 0

\* The parameters that go into the text as literals.
IntoText ==
  {i \in DOMAIN execution.args : /\ statement.kind = "exec"
                                /\ BatchSize(execution.args) = 0
                                /\ hasBlobParams(execution.args)
                                /\ Inlineable(execution.args)[i]}

\* The text that runs is the prepared one, token by token, but for the markers of
\* the parameters that are in the text as literals: strings, identifiers and comments
\* are as they were, and the markers that are left are those of the parameters sent.
TextKeepsItsTokens ==
  execution.text # <<>> /\ ~ BatchOnLiterals =>
    /\ execution.text = [p \in DOMAIN statement.text |->
                          IF p \in {MarkerAt(statement.text, i) : i \in IntoText} THEN Literal
                          ELSE statement.text[p]]
    /\ ToSet(execution.kept) = DOMAIN execution.args \ IntoText

\* An OUT value as the destination's type says it; conversions that lose it are not
\* looked at.
Delivered(before, out, after) ==
  CASE out = Null -> after = before
    [] out # Null /\ out.kind = before.kind -> after = out
    [] out.kind = "int" /\ before.kind = "int32" /\ Fits(out.data, 4) -> after.data = out.data
    [] out.kind = "int" /\ before.kind = "float" -> after.data = <<SmallInt(out.data)>>
    [] out.kind = "string" /\ before.kind = "bytes" -> after.data = Utf8(out.data)
    [] out.kind \in {"float", "bool"} /\ before.kind = "string" -> after.data = TextOf(out)
    [] OTHER -> TRUE

\* After a call each OUT value is in the destination of its own parameter, and a
\* destination whose parameter came back NULL has its old value.  Texts with
\* literals are left out: there the code counts the values by the arguments.
OutputsReachTheirs ==
  execution.at = "idle" /\ execution.result = "ok" /\ execution.inlined = <<>> /\ outputs # <<>> =>
    \A i \in DOMAIN execution.outs :
      Delivered(execution.args[i].scalar, outputs[i], dests[execution.outs[i]])
=============================================================================
