---------------------------- MODULE ParameterData ----------------------------
(***************************************************************************)
(* The parameters of an execution as bytes: descriptors, values and large  *)
(* objects (codec/encoders.go), and the reader of the OUT parameters       *)
(* (codec/decoders.go), which also says how the server reads what the      *)
(* client has written.                                                     *)
(*                                                                         *)
(* A value is its kind and a sequence of integers: eight bytes for an      *)
(* integer, code points for a string, <<n>> for the float n and for a      *)
(* boolean, <<year, month, day, hour, minute, second, microsecond>>.  The  *)
(* object headers around descriptors, values and large objects are those   *)
(* of Framing.                                                             *)
(***************************************************************************)
EXTENDS Decimals, SequencesExt

CONSTANTS InlineUnits,   \* longest CLOB sent inline
          MaxInline,     \* longest value with a two-byte length
          MaxStream,     \* MaxLOBStreamSize
          LittleEndian   \* the byte order the server has announced

ASSUME ParameterAssumption ==
  /\ {InlineUnits, MaxInline, MaxStream} \subseteq Nat
  /\ MaxInline < 2 ^ 16
  /\ LittleEndian \in BOOLEAN

Value(kind, data) == [kind |-> kind, data |-> data]

Null == Value("null", <<>>)

Ints == {"int", "int32", "uint"}

\* The types of a column; nullable or not, they are handled alike.
CharTypes    == {"VARCHAR", "VARGRAPHIC", "LOCATOR"}
ClobTypes    == {"CLOB", "DBCLOB"}
NumberTypes  == {"DECIMAL", "DECFLOAT"}
TimeTypes    == {"DATE", "TIME", "TIMESTAMP"}
ColumnTypes  == CharTypes \cup ClobTypes \cup NumberTypes \cup TimeTypes
                  \cup {"SMALLINT", "INTEGER", "BIGINT", "FLOAT", "BOOLEAN", "BLOB",
                        "GRAPHIC", "BINARY", "VARBINARY", "XML", "LONG"}

-----------------------------------------------------------------------------
(* Bytes and characters. *)

\* The number that digits of a base stand for.
Horner(digits, base) == FoldLeft(LAMBDA n, d : n * base + d, 0, digits)

Word16(n) == <<(n \div 256) % 256, n % 256>>

Word32(n) == Word16(n \div 2 ^ 16) \o Word16(n)

Ordered(bytes) == IF LittleEndian THEN Reverse(bytes) ELSE bytes

\* int64 in two's complement, and back for small numbers.
Int64(n) == (IF n < 0 THEN [i \in 1 .. 4 |-> 255] ELSE Zeros(4)) \o Word32(n)

SmallInt(bytes) ==
  FoldLeft(LAMBDA n, b : n * 256 + b, IF bytes[1] >= 128 THEN -1 ELSE 0, bytes)

\* The integer of a word of w bytes, sign-extended, and whether the integer fits.
Extended64(word) ==
  [i \in 1 .. 8 - Len(word) |-> IF word[1] >= 128 THEN 255 ELSE 0] \o word

Fits(bytes, w) == Extended64(SubSeq(bytes, 9 - w, 8)) = bytes

Packed8(bits) == [k \in 1 .. Len(bits) \div 8 |-> Horner(SubSeq(bits, 8 * k - 7, 8 * k), 2)]

BitsOf(n, w) == [i \in 1 .. w |-> (n \div 2 ^ (w - i)) % 2]

Bits(bytes) == FlattenSeq([i \in DOMAIN bytes |-> BitsOf(bytes[i], 8)])

\* math.Float32bits and Float64bits of a float without a fraction.
ExponentBits(w) == IF w = 4 THEN 8 ELSE 11

FloatBytes(n, w) ==
  LET abs == IF n < 0 THEN -n ELSE n
      e   == Max({k \in 0 .. 23 : 2 ^ k <= abs})
      ew  == ExponentBits(w)
  IN IF n = 0 THEN Zeros(w)
     ELSE Packed8(<<IF n < 0 THEN 1 ELSE 0>> \o BitsOf(2 ^ (ew - 1) - 1 + e, ew)
                   \o Tail(BitsOf(abs, e + 1)) \o Zeros(8 * w - 1 - ew - e))

FloatOf(bytes) ==
  LET ew   == ExponentBits(Len(bytes))
      bits == Bits(bytes)
      e    == Horner(SubSeq(bits, 2, ew + 1), 2) - (2 ^ (ew - 1) - 1)
      abs  == Horner(<<1>> \o SubSeq(bits, ew + 2, ew + 1 + e), 2)
  IN IF bytes = Zeros(Len(bytes)) THEN 0 ELSE IF bits[1] = 1 THEN -abs ELSE abs

Utf8(s) ==
  LET Trail(c, k) == 128 + ((c \div 64 ^ k) % 64)
      Of(c) == CASE c < 2 ^ 7 -> <<c>>
                 [] c >= 2 ^ 7 /\ c < 2 ^ 11 -> <<192 + (c \div 64), Trail(c, 0)>>
                 [] c >= 2 ^ 11 /\ c < 2 ^ 16 ->
                      <<224 + (c \div 64 ^ 2), Trail(c, 1), Trail(c, 0)>>
                 [] c >= 2 ^ 16 ->
                      <<240 + (c \div 64 ^ 3), Trail(c, 2), Trail(c, 1), Trail(c, 0)>>
  IN FlattenSeq([i \in DOMAIN s |-> Of(s[i])])

DecodeUtf8(bytes) ==
  LET Lead(b) == CASE b < 128 -> b
                   [] b \in 192 .. 223 -> b - 192
                   [] b \in 224 .. 239 -> b - 224
                   [] b >= 240 -> b - 240
  IN FoldLeft(LAMBDA s, b : IF b \in 128 .. 191 THEN [s EXCEPT ![Len(s)] = @ * 64 + b - 128]
                                                ELSE Append(s, Lead(b)), <<>>, bytes)

AppendUTF16BE(s) ==
  LET Of(c) == IF c < 2 ^ 16 THEN Word16(c)
               ELSE Word16(55296 + ((c - 2 ^ 16) \div 1024)) \o Word16(56320 + (c % 1024))
  IN FlattenSeq([i \in DOMAIN s |-> Of(s[i])])

\* A pair of surrogates is one character, a single one the replacement character.
DecodeUTF16BE(bytes) ==
  LET unit == [i \in 1 .. Len(bytes) \div 2 |-> Horner(SubSeq(bytes, 2 * i - 1, 2 * i), 256)]
      High(i) == i \in DOMAIN unit /\ unit[i] \in 55296 .. 56319
      Low(i)  == i \in DOMAIN unit /\ unit[i] \in 56320 .. 57343
      Of(i) == CASE High(i) /\ Low(i + 1) ->
                      <<2 ^ 16 + (unit[i] - 55296) * 1024 + unit[i + 1] - 56320>>
                 [] Low(i) /\ High(i - 1) -> <<>>
                 [] (High(i) /\ ~ Low(i + 1)) \/ (Low(i) /\ ~ High(i - 1)) -> <<65533>>
                 [] OTHER -> <<unit[i]>>
  IN FlattenSeq([i \in DOMAIN unit |-> Of(i)])

\* strings.TrimRight with a set of characters.
TrimRight(s, set) ==
  LET kept == {i \in DOMAIN s : s[i] \notin set}
  IN IF kept = {} THEN <<>> ELSE SubSeq(s, 1, Max(kept))

Blanks == {32, 9, 13, 10}

TrimSpace(s) == Reverse(TrimRight(Reverse(TrimRight(s, Blanks)), Blanks))

Lower(s) == [i \in DOMAIN s |-> IF s[i] \in 65 .. 90 THEN s[i] + 32 ELSE s[i]]

TrueText  == <<116, 114, 117, 101>>
FalseText == <<102, 97, 108, 115, 101>>
InfText   == <<105, 110, 102>>
InfinityText == InfText \o <<105, 110, 105, 116, 121>>
NaNText   == <<110, 97, 110>>

-----------------------------------------------------------------------------
(* Numbers, dates and the conversions of a value. *)

Chars(digits) == [i \in DOMAIN digits |-> digits[i] + 48]

IntText(n) == IF n < 0 THEN <<45>> \o Chars(DigitsOf[-n]) ELSE Chars(DigitsOf[n])

\* fmt.Sprint, for the kinds that reach it; a slice has its text already.
TextOf(v) ==
  CASE v.kind \in {"string", "slice"} -> v.data
    [] v.kind \in Ints -> IntText(SmallInt(v.data))
    [] v.kind = "float" -> IntText(v.data[1])
    [] v.kind = "bool" -> IF v.data[1] = 1 THEN TrueText ELSE FalseText
    [] v.kind = "bytes" ->
         <<91>> \o FlattenSeq([i \in DOMAIN v.data |->
                     (IF i = 1 THEN <<>> ELSE <<32>>) \o IntText(v.data[i])]) \o <<93>>

FirstIn(s, set) == Min({i \in DOMAIN s : s[i] \in set} \cup {Len(s) + 1})

\* Digits before and behind the point; what is no digit is Junk.
Mantissa(neg, s, exp) ==
  LET Digits(t) == [i \in DOMAIN t |-> IF t[i] \in 48 .. 57 THEN t[i] - 48 ELSE Junk]
      dot == FirstIn(s, {46})
  IN Number(neg, Digits(SubSeq(s, 1, dot - 1)), Digits(SubSeq(s, dot + 1, Len(s))), exp)

\* The text as appendPackedDecimalParam takes it apart.
PackedNumber(s) ==
  IF s # <<>> /\ s[1] = 45 THEN Mantissa(TRUE, Tail(s), 0) ELSE Mantissa(FALSE, s, 0)

Unsigned(s) == IF s # <<>> /\ s[1] \in {43, 45} THEN Tail(s) ELSE s

\* A mantissa with an exponent behind an E, Refused when that is no number.
Scaled(neg, mantissa, exp, size) ==
  IF size = <<>> \/ \E i \in DOMAIN size : size[i] \notin 48 .. 57 THEN Refused
  ELSE Mantissa(neg, mantissa,
                (IF exp[1] = 45 THEN -1 ELSE 1) * Horner([i \in DOMAIN size |-> size[i] - 48], 10))

Finite(neg, s, e) ==
  LET exp == SubSeq(s, e + 1, Len(s))
  IN IF e > Len(s) THEN Mantissa(neg, s, 0)
     ELSE Scaled(neg, SubSeq(s, 1, e - 1), exp, Unsigned(exp))

\* The text as EncodeDFP takes it apart.
FloatNumber(text) ==
  LET neg == TrimSpace(text) # <<>> /\ TrimSpace(text)[1] = 45
      s   == Unsigned(TrimSpace(text))
  IN CASE Lower(s) \in {InfText, InfinityText} -> Infinity(neg)
       [] Lower(s) = NaNText -> NaN
       [] Lower(s) \notin {InfText, InfinityText, NaNText} -> Finite(neg, s, FirstIn(s, {69, 101}))

\* The text of a number that was read, in small letters.
NumberText(t) ==
  LET sign == IF t.neg THEN <<45>> ELSE <<>>
  IN CASE t.kind = "nan" -> NaNText
       [] t.kind = "inf" -> sign \o InfinityText
       [] t.kind = "finite" ->
            sign \o Chars(t.int)
              \o (IF t.frac = <<>> THEN <<>> ELSE <<46>> \o Chars(t.frac))
              \o (IF t.exp = 0 THEN <<>>
                  ELSE <<69>> \o (IF t.exp > 0 THEN <<43>> ELSE <<>>) \o IntText(t.exp))

\* A number in w decimal places.
Places(n, w) == [i \in 1 .. w |-> 48 + ((n \div 10 ^ (w - i)) % 10)]

DateText(t) == Places(t[1], 4) \o <<45>> \o Places(t[2], 2) \o <<45>> \o Places(t[3], 2)

ClockText(t, sep) == Places(t[4], 2) \o <<sep>> \o Places(t[5], 2) \o <<sep>> \o Places(t[6], 2)

StampText(t) == DateText(t) \o <<45>> \o ClockText(t, 46) \o <<46>> \o Places(t[7], 6)

\* time.Parse with the layouts of a date, of a time of day and of Db2's timestamps.
ParsedTime(s) ==
  LET n(i, j) == Horner([k \in 1 .. j - i + 1 |-> s[i + k - 1] - 48], 10)
      date == <<n(1, 4), n(6, 7), n(9, 10), 0, 0, 0, 0>>
      time == <<0, 1, 1, n(1, 2), n(4, 5), n(7, 8), 0>>
      both == SubSeq(date, 1, 3) \o <<n(12, 13), n(15, 16), n(18, 19), n(21, 26)>>
  IN CASE Len(s) = 10 /\ s = DateText(date) -> Value("time", date)
       [] Len(s) = 8 /\ s = ClockText(time, 58) -> Value("time", time)
       [] Len(s) = 26 /\ s = StampText(both) -> Value("time", both)
       [] OTHER -> Value("string", s)

toTime(v) == IF v.kind = "string" THEN ParsedTime(TrimSpace(v.data)) ELSE v

toBytes(v) == IF v.kind = "bytes" THEN v.data ELSE Utf8(TextOf(v))

\* toFloat64: no other integer types, no strings.
toFloat64(v) ==
  CASE v.kind = "float" -> v.data[1]
    [] v.kind = "int" -> SmallInt(v.data)
    [] OTHER -> 0

toBool(v) ==
  CASE v.kind \in {"bool", "float"} -> v.data[1] # 0
    [] v.kind \in Ints -> v.data # Zeros(8)
    [] v.kind = "string" -> Lower(v.data) = TrueText \/ v.data = <<49>>
    [] OTHER -> FALSE

toInt64Strict(v) == v.kind \in Ints /\ ~ (v.kind = "uint" /\ v.data[1] >= 128)

-----------------------------------------------------------------------------
(* What the client writes. *)

\* shouldExternalizeLOB, for the value as it was passed.
Externalized(c, v) ==
  \/ c.type = "BLOB"
  \/ c.type \in ClobTypes
     /\ \/ v.kind = "reader"
        \/ v.kind = "string" /\ Len(Utf8(v.data)) > InlineUnits
        \/ v.kind = "bytes" /\ Len(v.data) > InlineUnits

NVarGraph == <<57, 63, 255>>

\* appendFDODSC, and the choice of BuildSQLDTAWithEXTDTA for CLOBs.
Descriptor(c, v) ==
  CASE c.type \in {"VARCHAR", "VARGRAPHIC", "LOCATOR", "VARBINARY", "XML", "LONG"} -> NVarGraph
    [] c.type \in ClobTypes -> IF Externalized(c, v) THEN <<207, 128, 4>> ELSE NVarGraph
    [] c.type = "BLOB" -> <<201, 128, 4>>
    [] c.type = "SMALLINT" -> <<5, 0, 2>>
    [] c.type = "INTEGER" -> <<3, 0, 4>>
    [] c.type = "BIGINT" -> <<23, 0, 8>>
    [] c.type = "FLOAT" -> IF c.len = 4 THEN <<13, 0, 4>> ELSE <<11, 0, 8>>
    [] c.type = "BOOLEAN" -> IF c.len = 2 THEN <<5, 0, 2>> ELSE <<191, 0, 1>>
    [] c.type = "DATE" -> <<33, 0, 10>>
    [] c.type = "TIME" -> <<35, 0, 8>>
    [] c.type = "TIMESTAMP" -> <<37, 0, 32>>
    [] c.type = "GRAPHIC" -> <<55>> \o Word16(c.len)
    [] c.type = "BINARY" -> <<39>> \o Word16(c.len)
    [] c.type = "DECIMAL" -> <<15, c.prec, c.scale>>
    [] c.type = "DECFLOAT" -> <<187, 0, IF c.len = 16 THEN 16 ELSE 8>>

Inline(data) == [ok |-> TRUE, data |-> data, ext |-> <<>>]

Fixed(data) == Inline(<<0>> \o data)

Counted(n, data) == Fixed(Word16(n) \o data)

CharField(v) ==
  LET bytes == IF v.kind = "bytes" THEN v.data ELSE Utf8(TextOf(v))
      units == AppendUTF16BE(TextOf(v))
  IN CASE Len(bytes) > MaxInline -> Refused
       [] Len(bytes) <= MaxInline /\ v.kind = "bytes" -> Counted(Len(v.data), v.data)
       [] Len(bytes) <= MaxInline /\ v.kind # "bytes" -> Counted(Len(units) \div 2, units)

IntField(v, w) ==
  IF toInt64Strict(v) /\ Fits(v.data, w) THEN Fixed(Ordered(SubSeq(v.data, 9 - w, 8)))
  ELSE Refused

\* PadGraphicUTF16BE: cut off or filled up with blanks.
PadGraphicUTF16BE(bytes, chars) ==
  [i \in 1 .. 2 * chars |->
    IF i \in DOMAIN bytes THEN bytes[i] ELSE IF i % 2 = 1 THEN 0 ELSE 32]

GraphicField(c, v) ==
  LET units == AppendUTF16BE(TextOf(v))
  IN Fixed(PadGraphicUTF16BE(units, IF c.len > 0 THEN c.len ELSE Len(units) \div 2))

DecimalField(c, v) ==
  LET n == EncodePacked(PackedNumber(TextOf(v)), c.prec, c.scale)
  IN IF n.ok THEN Fixed([i \in 1 .. Len(n.nibbles) \div 2 |->
                          16 * n.nibbles[2 * i - 1] + n.nibbles[2 * i]])
     ELSE Refused

\* The bits of a DECFLOAT word; its bytes stay in this order.
WordField(w, f) ==
  IF ~ w.ok THEN Refused
  ELSE Fixed(Packed8(<<IF w.sign THEN 1 ELSE 0>> \o BitsOf(w.g, 5) \o BitsOf(w.e, f.cont)
                      \o FlattenSeq(w.groups)))

DecFloatField(t, f) == IF t = Refused THEN Refused ELSE WordField(EncodeDFP(t, f), f)

TimeField(c, t) ==
  CASE t.kind # "time" -> Refused
    [] t.kind = "time" /\ c.type = "DATE" -> Fixed(DateText(t.data))
    [] t.kind = "time" /\ c.type = "TIME" -> Fixed(ClockText(t.data, 58))
    [] t.kind = "time" /\ c.type = "TIMESTAMP" ->
         Fixed(StampText(t.data) \o [i \in 1 .. 6 |-> 32])

\* appendFDODTA
FDODTA(c, v) ==
  CASE v = Null -> Inline(<<255>>)
    [] v # Null /\ c.type \in CharTypes \cup ClobTypes -> CharField(v)
    [] v # Null /\ c.type = "GRAPHIC" -> GraphicField(c, v)
    [] v # Null /\ c.type = "SMALLINT" -> IntField(v, 2)
    [] v # Null /\ c.type = "INTEGER" -> IntField(v, 4)
    [] v # Null /\ c.type = "BIGINT" -> IntField(v, 8)
    [] v # Null /\ c.type = "FLOAT" ->
         Fixed(Ordered(FloatBytes(toFloat64(v), IF c.len = 4 THEN 4 ELSE 8)))
    [] v # Null /\ c.type = "BOOLEAN" ->
         LET bit == IF toBool(v) THEN 1 ELSE 0
         IN Fixed(IF c.len = 2 THEN Ordered(<<0, bit>>) ELSE <<bit>>)
    [] v # Null /\ c.type \in TimeTypes -> TimeField(c, toTime(v))
    [] v # Null /\ c.type = "BINARY" ->
         Fixed([i \in 1 .. c.len |-> IF i \in DOMAIN toBytes(v) THEN toBytes(v)[i] ELSE 0])
    [] v # Null /\ c.type \in {"VARBINARY", "BLOB"} ->
         IF Len(toBytes(v)) > MaxInline THEN Refused ELSE Counted(Len(toBytes(v)), toBytes(v))
    [] v # Null /\ c.type = "DECIMAL" -> DecimalField(c, v)
    [] v # Null /\ c.type = "DECFLOAT" -> DecFloatField(FloatNumber(TextOf(v)), FormatOf(c.len))
    [] v # Null /\ c.type \in {"XML", "LONG"} ->
         LET units == AppendUTF16BE(TextOf(v)) IN Fixed(Word16(Len(units)) \o units)

\* The value of a parameter, or its length with the object that follows.
Field(c, v) ==
  LET raw == IF v.kind = "reader" THEN Value("bytes", v.data) ELSE v
      object == IF raw.kind = "string" /\ c.type = "DBCLOB" THEN AppendUTF16BE(raw.data)
                ELSE toBytes(raw)
  IN CASE v.kind = "reader" /\ Len(v.data) > MaxStream -> Refused
       [] ~ (v.kind = "reader" /\ Len(v.data) > MaxStream) ->
            CASE ~ Externalized(c, v) -> FDODTA(c, raw)
              [] Externalized(c, v) /\ raw = Null -> Inline(<<255>>)
              [] Externalized(c, v) /\ raw # Null ->
                   [ok |-> TRUE, data |-> <<0>> \o Word32(Len(object)),
                    ext |-> <<(<<0>> \o object)>>]

\* One descriptor too many for the byte that has the length of a group.
FDODSCWide(triplets) ==
  LET groups == (Len(triplets) + 84) \div 85
      Group(g) == SubSeq(triplets, 85 * (g - 1) + 1, Min({85 * g, Len(triplets)}))
  IN FlattenSeq([g \in 1 .. groups |->
       <<(3 * (1 + Len(Group(g)))) % 256, 118, 208>> \o FlattenSeq(Group(g))])
     \o <<6, 113, 228, 208, 0, 1>>

\* Groups of at most 84 descriptors: the length of a group is one byte.
FDODSC(triplets) ==
  LET groups == (Len(triplets) + 83) \div 84
      Group(g) == SubSeq(triplets, 84 * (g - 1) + 1, Min({84 * g, Len(triplets)}))
  IN FlattenSeq([g \in 1 .. groups |->
       <<(3 * (1 + Len(Group(g)))) % 256, 118, 208>> \o FlattenSeq(Group(g))])
     \o <<6, 113, 228, 208, 0, 1>>

\* A byte in front of the values makes their number and that of the descriptors'
\* bytes even.
Assembled(dsc, fields) ==
  LET dta == FlattenSeq([i \in DOMAIN fields |-> fields[i].data])
  IN IF \E i \in DOMAIN fields : ~ fields[i].ok THEN Refused
     ELSE [ok |-> TRUE, dsc |-> dsc, dta |-> dta,
           front |-> IF (Len(dsc) + Len(dta)) % 2 = 0 THEN <<>> ELSE <<0>>,
           ext |-> FlattenSeq([i \in DOMAIN fields |-> fields[i].ext])]

\* BuildSQLDTAWithEXTDTA
BuildSQLDTA(cols, args) ==
  IF Len(cols) # Len(args) THEN Refused
  ELSE Assembled(FDODSC([i \in DOMAIN args |-> Descriptor(cols[i], args[i])]),
                 [i \in DOMAIN args |-> Field(cols[i], args[i])])
=============================================================================
