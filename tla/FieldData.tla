------------------------------ MODULE FieldData ------------------------------
(***************************************************************************)
(* Fields as they are read from bytes: DecodeField, which serves result    *)
(* rows and OUT parameters, and ParseSQLDTARD (codec/decoders.go).  A type *)
(* is the DRDA type of a descriptor, ps its two bytes behind it.           *)
(***************************************************************************)
EXTENDS ParameterData

\* IsNullableDRDAType: these types have an indicator in front.
NullableTypes ==
  {3, 5, 7, 11, 13, 15, 23, 25, 27, 29, 31, 33, 35, 37, 39, 41, 43, 49, 51, 53, 55, 57, 59,
   61, 63, 65, 67, 187, 191, 193, 195, 199, 201, 205, 207, 245, 247, 249}

CharData     == {48, 49, 60, 61}
VarCharData  == {50, 51, 52, 53, 62, 63, 64, 65}
GraphicData  == {54, 55}
VarGraphData == {56, 57, 58, 59}
IntData      == {2, 3, 4, 5, 22, 23}
FloatData    == {10, 11, 12, 13}
BooleanData  == {190, 191}
DateData     == {32, 33}
ClockData    == {34, 35}
StampData    == {36, 37}
DecFloatData == {186, 187}
VarByteData  == {40, 41, 194, 195}
FixByteData  == {30, 31, 38, 39, 192, 193}
DecimalData  == {14, 15}
TextObjects  == {28, 29, 198, 199, 206, 207, 246, 247, 248, 249}
Objects      == TextObjects \cup {16, 17, 24, 25, 26, 27, 200, 201, 244, 245}

PsWord(ps) == Horner(ps, 256)

\* The bytes of a field behind its indicator; 0 for an unknown type without a length.
Size(type, ps, rest) ==
  LET counted == IF Len(rest) < 2 THEN 0 ELSE Horner(SubSeq(rest, 1, 2), 256)
  IN CASE type \in CharData \cup BooleanData \cup DateData \cup ClockData \cup StampData ->
            PsWord(ps)
       [] type \in GraphicData -> 2 * PsWord(ps)
       [] type \in VarCharData \cup VarByteData -> 2 + counted
       [] type \in VarGraphData -> 2 + 2 * counted
       [] type \in {6, 7} -> 1
       [] type \in {4, 5} -> 2
       [] type \in {2, 3, 12, 13} -> 4
       [] type \in {10, 11, 22, 23} -> 8
       [] type \in DecFloatData -> IF 16 \in {ps[1], ps[2]} THEN 16 ELSE 8
       [] type \in DecimalData -> ByteLen(ps[1])
       [] type \in Objects -> IF PsWord(ps) % 2 ^ 15 = 0 THEN 4 ELSE PsWord(ps) % 2 ^ 15
       [] OTHER -> PsWord(ps) % 2 ^ 15

\* The word of a DECFLOAT.
WordOf(bytes) ==
  LET f    == FormatOf(Len(bytes))
      bits == Bits(bytes)
      last == 6 + f.cont
  IN [sign |-> bits[1] = 1, g |-> Horner(SubSeq(bits, 2, 6), 2),
      e |-> Horner(SubSeq(bits, 7, last), 2),
      groups |-> [k \in 1 .. f.groups |-> SubSeq(bits, last + 10 * k - 9, last + 10 * k)]]

Nibbles(bytes) ==
  [i \in 1 .. 2 * Len(bytes) |->
    IF i % 2 = 1 THEN bytes[(i + 1) \div 2] \div 16 ELSE bytes[i \div 2] % 16]

\* The scale is a signed byte.
ScaleOf(ps) == IF ps[2] >= 128 THEN ps[2] - 256 ELSE ps[2]

\* The value of a field from its bytes: character data,
TextContents(type, bytes) ==
  LET counted == SubSeq(bytes, 3, Len(bytes))
  IN CASE type \in CharData -> DecodeUtf8(TrimRight(bytes, {32}))
       [] type \in GraphicData -> TrimRight(DecodeUTF16BE(bytes), Blanks \cup {12288, 0})
       [] type \in VarCharData -> DecodeUtf8(counted)
       [] type \in VarGraphData -> DecodeUTF16BE(counted)

\* binary numbers and booleans,
BinaryContents(type, bytes) ==
  CASE type \in IntData -> Value("int", Extended64(Ordered(bytes)))
    [] type \in {6, 7} -> Value("int", Extended64(bytes))
    [] type \in FloatData -> Value("float", <<FloatOf(Ordered(bytes))>>)
    [] type \in BooleanData ->
         Value("bool", IF bytes = <<>> \/ Last(bytes) = 0 THEN <<0>> ELSE <<1>>)

\* dates and times,
TimeContents(type, bytes) ==
  CASE type \in DateData /\ Len(bytes) = 10 -> ParsedTime(bytes)
    [] type \in StampData -> ParsedTime(TrimRight(bytes, {32}))
    [] OTHER -> Value("string", bytes)

\* and the rest: decimals, bytes and the placeholders of large objects.
Contents(type, ps, bytes) ==
  CASE type \in CharData \cup GraphicData \cup VarCharData \cup VarGraphData ->
         Value("string", TextContents(type, bytes))
    [] type \in IntData \cup {6, 7} \cup FloatData \cup BooleanData ->
         BinaryContents(type, bytes)
    [] type \in DateData \cup ClockData \cup StampData -> TimeContents(type, bytes)
    [] type \in DecFloatData ->
         Value("string", NumberText(DecodeDFP(WordOf(bytes), FormatOf(Len(bytes)))))
    [] type \in DecimalData ->
         Value("string", NumberText(DecodePackedDecimal(Nibbles(bytes), ScaleOf(ps))))
    [] type \in VarByteData -> Value("bytes", SubSeq(bytes, 3, Len(bytes)))
    [] type \in TextObjects -> Value("string", <<>>)
    [] type \in Objects \ TextObjects -> Value("bytes", <<>>)
    [] OTHER -> Value("bytes", bytes)

\* DecodeField: the value and what is left of the data.
DecodeField(field, data) ==
  LET type == field[1]
      ps   == Tail(field)
      nullable == type \in NullableTypes
      rest == IF nullable THEN Tail(data) ELSE data
      size == Size(type, ps, rest)
  IN CASE data = <<>> -> Refused
       [] data # <<>> /\ nullable /\ Head(data) \in {255, 128, 127} ->
            [ok |-> TRUE, value |-> Null, rest |-> rest]
       [] data # <<>> /\ ~ (nullable /\ Head(data) \in {255, 128, 127}) ->
            IF size > Len(rest) \/ (size = 0 /\ type \notin CharData \cup GraphicData
                                      \cup BooleanData \cup DateData \cup ClockData
                                      \cup StampData \cup FixByteData)
            THEN Refused
            ELSE [ok |-> TRUE, value |-> Contents(type, ps, SubSeq(rest, 1, size)),
                  rest |-> SubSeq(rest, size + 1, Len(rest))]

\* The fields of the groups of a descriptor; what is no group of nullable fields
\* is passed over.
FieldsOf(dsc) ==
  LET From[pos \in 1 .. Len(dsc) + 1] ==
        LET length == dsc[pos]
            n == length \div 3 - 1
        IN IF pos + 2 > Len(dsc) THEN <<>>
           ELSE IF length < 3 \/ pos + length - 1 > Len(dsc) THEN <<>>
           ELSE (IF dsc[pos + 1] = 118
                 THEN [i \in 1 .. n |-> SubSeq(dsc, pos + 3 * i, pos + 3 * i + 2)]
                 ELSE <<>>)
                \o From[pos + length]
  IN From[1]

\* The values of fields one after the other, as far as the data goes.
DecodeFields(fields, data) ==
  LET Next(read, field) ==
        LET one == DecodeField(field, read.rest)
        IN IF ~ read.ok \/ read.rest = <<>> THEN read
           ELSE IF ~ one.ok THEN [read EXCEPT !.ok = FALSE]
           ELSE [read EXCEPT !.values = Append(@, one.value), !.rest = one.rest]
  IN FoldLeft(Next, [ok |-> TRUE, values |-> <<>>, rest |-> data], fields)

\* ParseSQLDTARD: a first byte 255 begins a header of two bytes.
ParseSQLDTARD(dsc, dta) ==
  DecodeFields(FieldsOf(dsc), IF Len(dta) >= 2 /\ dta[1] = 255
                              THEN SubSeq(dta, 3, Len(dta)) ELSE dta)
=============================================================================
