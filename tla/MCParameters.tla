---------------------------- MODULE MCParameters ----------------------------
(* Instance of Parameters for TLC: families of statements, each with the      *)
(* arguments it is called with, again and again and in any order.             *)
EXTENDS Parameters

Col(type, len, prec, scale) == [type |-> type, len |-> len, prec |-> prec, scale |-> scale]
Of(type) == Col(type, 0, 0, 0)

Scalar(v) == [scalar |-> v]
Num(n)    == Value("int", Int64(n))
Str(s)    == Value("string", s)
Raw(b)    == Value("bytes", b)
List(vs)  == [list |-> vs]
Out(d)    == [out |-> d]
Reader(b) == [reader |-> b]

Dec(neg, int, frac, exp) == Str(NumberText(Number(neg, int, frac, exp)))

\* 2026-03-30 12:34:56.789012
Moment == <<2026, 3, 30, 12, 34, 56, 789012>>

MinInt64 == <<128>> \o Zeros(7)
MaxInt64 == <<127>> \o [i \in 1 .. 7 |-> 255]

Integers  == {Num(n) : n \in {-1, 0, 1, 300, -32768, 32767, 32768, -32769, 2147483647}}
               \cup {Value("int", b) : b \in {MinInt64, MaxInt64, Zeros(4) \o <<128, 0, 0, 0>>}}
               \cup {Value("uint", MaxInt64), Value("uint", MinInt64), Value("int32", Int64(-5))}
Floats    == {Value("float", <<n>>) : n \in {-5, 0, 1, 6, 1000}}
\* "", "a", "e", an accent, three bytes, two surrogates, as long as a value may be, longer
Strings   == {Str(s) : s \in {<<>>, <<97>>, <<97, 233>>, <<8364, 98, 32>>, <<128512, 99>>,
                              [i \in 1 .. 8 |-> 97], [i \in 1 .. 9 |-> 97], <<233, 233, 233, 233, 233>>}}
Booleans  == {Value("bool", <<0>>), Value("bool", <<1>>)}
ByteData  == {Raw(b) : b \in {<<>>, <<0>>, <<255, 1>>, <<1, 2, 3, 4, 5>>, [i \in 1 .. 9 |-> i]}}
Moments   == {Value("time", Moment), Str(StampText(Moment)), Str(DateText(Moment)),
              Str(ClockText(Moment, 58)), Str(<<97>>)}

Heads == {<<>>, <<0>>, <<7>>, <<9, 0>>, <<1, 2, 3>>, <<8, 9, 9, 9>>}
Tails == {<<>>, <<0>>, <<5>>, <<0, 8>>, <<1, 2, 9>>}
Decimals20 == [i \in 1 .. 20 |-> i % 10]
DecimalTexts == {Dec(neg, i, f, 0) : neg \in BOOLEAN, i \in Heads, f \in Tails}
FloatTexts == {Dec(neg, i, f, e) : neg \in BOOLEAN, i \in {<<9, 0>>, <<8>>, <<0>>}, f \in {<<>>, <<0, 8>>},
                                   e \in {-7, 3, 25, 500}}
                \cup {Dec(FALSE, Decimals20, f, 0) : f \in {<<>>, Decimals20}}
                \cup {Str(NaNText), Str(<<45>> \o InfText), Str(<<97>>), Str(<<>>)}

Numbers == {Num(-42), Num(7), Value("float", <<-5>>)}

Reading == <<"other", "?">>

Statement(kind, text, cols, uses) ==
  [kind |-> kind, text |-> text, cols |-> cols, uses |-> uses, dests |-> [none |-> Null], outputs |-> {<<>>}]

\* One parameter, of every type and with every kind of value.
OneOf(col, values) ==
  Statement("query", Reading, <<col>>, {<<Scalar(v)>> : v \in values \cup {Null}})

Singles ==
  {OneOf(Of(t), Integers) : t \in {"SMALLINT", "INTEGER", "BIGINT"}}
    \cup {OneOf(Of("SMALLINT"), Strings \cup Floats)}
    \cup {OneOf(Of(t), Strings \cup Booleans) : t \in CharTypes \cup ClobTypes \cup {"XML"}}
    \cup {OneOf(Of(t), ByteData) : t \in {"VARCHAR", "DBCLOB", "VARBINARY", "BLOB"}}
    \cup {OneOf(Of("BLOB"), Strings)}
    \cup {OneOf(Col("GRAPHIC", n, 0, 0), Strings) : n \in {0, 1, 2, 5}}
    \cup {OneOf(Col("BINARY", n, 0, 0), ByteData) : n \in {1, 4}}
    \cup {OneOf(Col("FLOAT", n, 0, 0), Floats \cup {Num(3), Value("int32", Int64(3))}) : n \in {4, 8}}
    \cup {OneOf(Col("BOOLEAN", n, 0, 0), Booleans \cup Floats \cup {Num(2), Str(TrueText)}) : n \in {1, 2}}
    \cup {OneOf(Of(t), Moments) : t \in TimeTypes}
    \cup {OneOf(Col("DECIMAL", 0, p[1], p[2]), DecimalTexts \cup Numbers \cup {Dec(FALSE, <<1>>, <<>>, 5)})
            : p \in {<<5, 2>>, <<4, 0>>, <<3, 3>>, <<1, 0>>, <<31, 8>>, <<32, 0>>}}
    \cup {OneOf(Col("DECFLOAT", n, 0, 0), DecimalTexts \cup Numbers \cup FloatTexts) : n \in {8, 16}}

\* Two parameters side by side: whatever the first one takes, the second is read
\* from its own first byte.
Samples == {<<Of("SMALLINT"), Num(-2)>>, <<Of("INTEGER"), Num(70000)>>, <<Of("BIGINT"), Num(-1)>>,
            <<Col("FLOAT", 8, 0, 0), Value("float", <<6>>)>>, <<Of("DATE"), Value("time", Moment)>>,
            <<Of("TIMESTAMP"), Value("time", Moment)>>, <<Col("BOOLEAN", 1, 0, 0), Value("bool", <<1>>)>>,
            <<Of("VARCHAR"), Str(<<97, 233>>)>>, <<Of("CLOB"), Str(<<97, 98>>)>>,
            <<Of("CLOB"), Str(<<97, 98, 99, 100, 101>>)>>, <<Of("DBCLOB"), Str(<<128512, 97, 97>>)>>,
            <<Of("BLOB"), Raw(<<1, 2>>)>>, <<Col("GRAPHIC", 3, 0, 0), Str(<<233>>)>>,
            <<Col("BINARY", 3, 0, 0), Raw(<<7>>)>>, <<Col("DECIMAL", 0, 4, 1), Dec(TRUE, <<1, 2>>, <<5>>, 0)>>,
            <<Col("DECFLOAT", 16, 0, 0), Dec(FALSE, <<9>>, <<5>>, 0)>>}
Pairs ==
  {Statement("query", <<"?", "other", "?">>, <<a[1], b[1]>>,
             {<<Scalar(x), Scalar(y)>> : x \in {a[2], Null}, y \in {b[2], Null}})
     : a \in Samples, b \in Samples}

\* Streams, of each length up to one that is too long.
Streams ==
  {Statement("query", <<"?", "?", "?">>, <<Of("SMALLINT"), Of(t), Of("BLOB")>>,
             {<<Scalar(v), Reader([i \in 1 .. n |-> i]), Scalar(Raw(<<9>>))>>
                : v \in {Num(1), Num(40000)}, n \in {0, 1, 12, 13}}
               \cup {<<Scalar(Num(1)), Scalar(Null), Scalar(Raw(<<9>>))>>})
     : t \in {"BLOB", "CLOB", "VARCHAR"}}

\* Groups of descriptors that are full, and one more.
Many ==
  {Statement("query", [i \in 1 .. n |-> "?"], [i \in 1 .. n |-> Of("SMALLINT")],
             {[i \in 1 .. n |-> Scalar(Num(i))], [i \in 1 .. n + 1 |-> Scalar(Num(i))]})
     : n \in {83, 84, 85, 168, 169}}

\* Batches.
Rows(n)  == List([i \in 1 .. n |-> Num(10 * i)])
Names(n) == List([i \in 1 .. n |-> IF i = 2 THEN Null ELSE Str(<<96 + i>>)])
Batches ==
  {Statement("exec", <<"?", "?">>, <<Of("SMALLINT"), Of("VARCHAR")>>,
             {<<Rows(m), Names(n)>> : m \in 0 .. 3, n \in 0 .. 3}
               \cup {<<Rows(n), Scalar(v)>> : n \in 0 .. 3, v \in {Null, Str(<<98>>)}}
               \cup {<<Scalar(Num(5)), Names(n)>> : n \in 0 .. 3}
               \cup {<<List(<<Num(1), Num(40000)>>), Names(2)>>, <<Rows(2)>>,
                     <<Scalar(Num(1)), Scalar(Null)>>})}
    \cup {Statement("exec", <<"?", "?">>, <<Of("SMALLINT"), Of("BLOB")>>,
             {<<Rows(2), Scalar(Raw(<<1, 2>>))>>, <<Rows(2), Reader(<<1>>)>>,
              <<Rows(2), List(<<Raw(<<1>>), Null>>)>>})}

\* Texts with markers, and with what only looks like one, under BLOBs.
BlobTexts ==
  {<<"?", "?", "other">>,
   <<"'", "?", "'", "'", "?", "'", "?", "other", "?">>,
   <<"\"", "?", "\"", "?", "\"", "\"", "?">>,
   <<"-", "-", "?", "'", "newline", "?", "-", "?">>,
   <<"/", "*", "?", "'", "*", "/", "?", "/", "?">>,
   <<"?", "'", "-", "-", "'", "?", "/", "*", "?">>,
   <<"'", "/", "*", "'", "?", "'", "*", "/", "?", "'", "?">>}
BlobValues == {Null, Raw(<<>>), Raw(<<1>>), Raw(<<2, 3>>), Raw([i \in 1 .. 6 |-> i])}
Blobs ==
  {Statement("exec", text, <<c, Of("BLOB")>>,
             {<<Scalar(v), Scalar(w)>> : v \in BlobValues, w \in BlobValues})
     : text \in BlobTexts, c \in {Of("BLOB")}}
    \cup {Statement("exec", text, <<Of("INTEGER"), Of("BLOB")>>,
             {<<Scalar(v), Scalar(w)>> : v \in {Num(4), Null}, w \in BlobValues})
     : text \in BlobTexts}
    \cup {Statement("exec", <<"?", "'", "?", "'", "?">>, <<Of("BLOB"), Of("INTEGER")>>,
             {<<Scalar(Raw(<<1>>)), Scalar(Num(4))>>, <<Scalar(Raw(<<1>>)), List(<<>>)>>,
              <<List(<<Raw(<<2>>), Null>>), Rows(2)>>, <<Scalar(Null), Scalar(Null)>>})}

\* Procedures with OUT and INOUT parameters.
Calling == <<"other", "?", "?", "?">>
Procedure(kind, cols, targets, uses, outs) ==
  [Statement(kind, Calling, cols, uses) EXCEPT !.dests = targets, !.outputs = outs]
Procedures ==
  {Procedure(kind, <<Of("INTEGER"), Of("VARCHAR"), Col("DECIMAL", 0, 5, 2)>>,
             [n |-> Num(1), s |-> Str(<<97>>), d |-> Dec(FALSE, <<1>>, <<5>>, 0),
              m |-> Value("int32", Int64(9)), b |-> Raw(<<>>)],
             {<<Scalar(Num(3)), Out("s"), Out("d")>>, <<Out("n"), Scalar(Str(<<98>>)), Out("d")>>,
              <<Scalar(Num(3)), Out("n"), Out("d")>>,
              <<Out("m"), Out("b"), Out("s")>>, <<Out(NoDest), Out("s"), Scalar(Null)>>},
             {<<Null, Str(<<99, 233>>), Dec(TRUE, <<1, 2>>, <<5, 0>>, 0)>>, <<Num(-8), Null, Null>>,
              <<Num(-8), Str(<<99>>), Dec(FALSE, <<0>>, <<0, 5>>, 0)>>})
     : kind \in {"exec", "call"}}
    \cup {Procedure("exec", <<Col("FLOAT", 8, 0, 0), Of("TIMESTAMP"), Of("SMALLINT")>>,
             [f |-> Value("float", <<2>>), t |-> Value("time", Moment), s |-> Str(<<>>), n |-> Num(1)],
             {<<Out("f"), Out("t"), Out("n")>>, <<Out("n"), Scalar(Null), Out("f")>>,
              <<Out("f"), Out("t"), Out("s")>>},
             {<<Value("float", <<5>>), Value("time", [Moment EXCEPT ![7] = 0]), Num(77)>>,
              <<Null, Null, Num(77)>>})}
    \cup {[Statement("exec", <<"?", "?">>, <<Of("BLOB"), Of("INTEGER")>>,
              {<<Scalar(Raw(<<1>>)), Out("n")>>, <<Scalar(Null), Out("n")>>})
             EXCEPT !.dests = [n |-> Num(1)], !.outputs = {<<Null, Num(6)>>}]}

MCCases == Singles \cup Pairs \cup Streams \cup Many \cup Batches \cup Blobs \cup Procedures
=============================================================================
