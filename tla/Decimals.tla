------------------------------- MODULE Decimals -------------------------------
(***************************************************************************)
(* Decimal numbers on the wire: DECFLOAT in densely packed decimal         *)
(* (decfloat.go) and DECIMAL in packed nibbles (encoders.go, decoders.go). *)
(*                                                                         *)
(* The text of a number is a record: its sign, the digits before and after *)
(* the point and the exponent.  A character that is no digit is Junk.      *)
(***************************************************************************)
EXTENDS Integers, Sequences, FiniteSetsExt

Junk  == 10
Digit == 0 .. 9

\* A number as text; kind tells infinities and NaN from finite numbers.
Number(neg, int, frac, exp) ==
  [kind |-> "finite", neg |-> neg, int |-> int, frac |-> frac, exp |-> exp]

Infinity(neg) == [Number(neg, <<>>, <<>>, 0) EXCEPT !.kind = "inf"]

NaN == [Number(FALSE, <<>>, <<>>, 0) EXCEPT !.kind = "nan"]

\* An encoder that returns an error.
Refused == [ok |-> FALSE]

Zeros(n) == [i \in 1 .. n |-> 0]

\* strings.TrimLeft(s, "0")
TrimZeros(s) ==
  LET nonzero == {i \in DOMAIN s : s[i] # 0}
  IN IF nonzero = {} THEN <<>> ELSE SubSeq(s, Min(nonzero), Len(s))

\* The digits without leading zeros, the last one kept.
Significant(digits) ==
  IF TrimZeros(digits) = <<>> THEN <<0>> ELSE TrimZeros(digits)

-----------------------------------------------------------------------------
(* Densely packed decimal: three digits in ten bits, bit 9 first. *)

B2(v) == (v \div 4) % 2
B1(v) == (v \div 2) % 2
B0(v) == v % 2

dpdEncode(d2, d1, d0) ==
  LET h2 == d2 >= 8  h1 == d1 >= 8  h0 == d0 >= 8
      v2 == d2 % 8   v1 == d1 % 8   v0 == d0 % 8
  IN CASE ~h2 /\ ~h1 /\ ~h0 ->
            <<B2(v2), B1(v2), B0(v2), B2(v1), B1(v1), B0(v1), 0, B2(v0), B1(v0), B0(v0)>>
       [] ~h2 /\ ~h1 /\ h0 ->
            <<B2(v2), B1(v2), B0(v2), B2(v1), B1(v1), B0(v1), 1, 0, 0, B0(v0)>>
       [] ~h2 /\ h1 /\ ~h0 ->
            <<B2(v2), B1(v2), B0(v2), B2(v0), B1(v0), B0(v1), 1, 0, 1, B0(v0)>>
       [] h2 /\ ~h1 /\ ~h0 ->
            <<B2(v0), B1(v0), B0(v2), B2(v1), B1(v1), B0(v1), 1, 1, 0, B0(v0)>>
       [] h2 /\ h1 /\ ~h0 ->
            <<B2(v0), B1(v0), B0(v2), 0, 0, B0(v1), 1, 1, 1, B0(v0)>>
       [] h2 /\ ~h1 /\ h0 ->
            <<B2(v1), B1(v1), B0(v2), 0, 1, B0(v1), 1, 1, 1, B0(v0)>>
       [] ~h2 /\ h1 /\ h0 ->
            <<B2(v2), B1(v2), B0(v2), 1, 0, B0(v1), 1, 1, 1, B0(v0)>>
       [] h2 /\ h1 /\ h0 ->
            <<0, 0, B0(v2), 1, 1, B0(v1), 1, 1, 1, B0(v0)>>

dpdDecode(g) ==
  LET first  == 4 * g[1] + 2 * g[2] + g[3]
      middle == 4 * g[4] + 2 * g[5] + g[6]
      last   == 4 * g[8] + 2 * g[9] + g[10]
      top(b) == 4 * g[1] + 2 * g[2] + b     \* the two bits in front, and b
  IN CASE g[7] = 0 -> <<first, middle, last>>
       [] g[7] = 1 /\ g[8] = 0 /\ g[9] = 0 -> <<first, middle, 8 + g[10]>>
       [] g[7] = 1 /\ g[8] = 0 /\ g[9] = 1 ->
            <<first, 8 + g[6], 4 * g[4] + 2 * g[5] + g[10]>>
       [] g[7] = 1 /\ g[8] = 1 /\ g[9] = 0 -> <<8 + g[3], middle, top(g[10])>>
       [] g[7] = 1 /\ g[8] = 1 /\ g[9] = 1 ->
            CASE g[4] = 0 /\ g[5] = 0 -> <<8 + g[3], 8 + g[6], top(g[10])>>
              [] g[4] = 0 /\ g[5] = 1 -> <<8 + g[3], top(g[6]), 8 + g[10]>>
              [] g[4] = 1 /\ g[5] = 0 -> <<first, 8 + g[6], 8 + g[10]>>
              [] g[4] = 1 /\ g[5] = 1 -> <<8 + g[3], 8 + g[6], 8 + g[10]>>

-----------------------------------------------------------------------------
(* DECFLOAT.  A word is its sign, its combination field g, the continuation *)
(* e of its exponent and its groups of digits.                             *)

Decimal64  == [bias |-> 398,  groups |-> 5,  cont |-> 8,  digits |-> 16]
Decimal128 == [bias |-> 6176, groups |-> 11, cont |-> 12, digits |-> 34]

\* nBytes of DecodeField and appendFDODTA.
FormatOf(bytes) == IF bytes = 16 THEN Decimal128 ELSE Decimal64

DecFloatWord(f, sign, g, e, digits) ==
  [ok |-> TRUE, sign |-> sign, g |-> g, e |-> e,
   groups |-> [i \in 1 .. f.groups |->
                 dpdEncode(digits[3 * i - 2], digits[3 * i - 1], digits[3 * i])]]

\* The combination field: the leading digit and the two high bits of the exponent
\* in five bits.  From 30 on it stands for infinity and NaN.
Combination(lead, high) ==
  IF lead >= 8 THEN 24 + 2 * (high % 4) + lead - 8 ELSE 8 * high + lead

HighOf(g) == IF g >= 24 THEN (g \div 2) % 4 ELSE g \div 8

LeadOf(g) == IF g >= 24 THEN 8 + (g % 2) ELSE g % 8

\* EncodeDFP: zeros in front go, digits behind the last place are cut off, and an
\* exponent out of range is an error.  The code's own branch for the text "0"
\* yields what the general one does.
EncodeDFP(t, f) ==
  LET mantissa == TrimZeros(t.int \o t.frac)
      excess   == Max({0, Len(mantissa) - f.digits})
      kept     == SubSeq(mantissa, 1, Len(mantissa) - excess)
      digits   == Zeros(f.digits - Len(kept)) \o kept
      biased   == t.exp - Len(t.frac) + excess + f.bias
  IN CASE t.kind = "inf" -> DecFloatWord(f, t.neg, 30, 0, Zeros(3 * f.groups))
       [] t.kind = "nan" -> DecFloatWord(f, FALSE, 31, 0, Zeros(3 * f.groups))
       [] t.kind = "finite" ->
            IF \/ \E i \in DOMAIN kept : kept[i] = Junk
               \/ biased < 0 \/ biased > 3 * 2 ^ f.cont - 1
            THEN Refused
            ELSE DecFloatWord(f, t.neg, Combination(digits[1], biased \div 2 ^ f.cont),
                              biased % 2 ^ f.cont, Tail(digits))

\* formatDFP: plain notation near the point, scientific notation elsewhere.
formatDFP(neg, digits, exp) ==
  LET s   == Significant(digits)
      n   == Len(s)
      dot == n + exp
  IN CASE s = <<0>> -> Number(neg, <<0>>, <<>>, 0)
       [] s # <<0>> /\ dot > 0 /\ dot <= n ->
            Number(neg, SubSeq(s, 1, dot), SubSeq(s, dot + 1, n), 0)
       [] s # <<0>> /\ dot > n /\ dot <= n + 10 ->
            Number(neg, s \o Zeros(dot - n), <<>>, 0)
       [] s # <<0>> /\ dot <= 0 /\ dot >= -6 ->
            Number(neg, <<0>>, Zeros(-dot) \o s, 0)
       [] s # <<0>> /\ (dot > n + 10 \/ dot < -6) ->
            Number(neg, <<Head(s)>>, Tail(s), exp + n - 1)

\* DecodeDFP
DecodeDFP(w, f) ==
  LET digits == <<LeadOf(w.g)>>
                  \o [i \in 1 .. 3 * f.groups |->
                        dpdDecode(w.groups[(i + 2) \div 3])[((i - 1) % 3) + 1]]
  IN IF w.g >= 30
     THEN IF w.g % 2 # 0 THEN NaN ELSE Infinity(w.sign)
     ELSE formatDFP(w.sign, digits, HighOf(w.g) * 2 ^ f.cont + w.e - f.bias)

-----------------------------------------------------------------------------
(* DECIMAL: a nibble for each digit and one for the sign. *)

ByteLen(prec) == (prec + 2) \div 2

\* The nibble, counted from 0, of the digit d: the sign takes the last nibble, and
\* one in front stays free when the precision is even.
NibbleOf(prec, d) == 2 * ByteLen(prec) - 1 - prec + d

SignNibble(prec) == 2 * ByteLen(prec) - 1

\* The decimal digits of a small natural number.
DigitsOf[n \in Nat] == IF n < 10 THEN <<n>> ELSE Append(DigitsOf[n \div 10], n % 10)

\* What the text has behind the mantissa: E, the sign and the digits of the exponent.
ExponentChars(t) ==
  IF t.exp = 0 THEN <<>>
  ELSE IF t.exp < 0 THEN <<Junk, Junk>> \o DigitsOf[-t.exp] ELSE <<Junk>> \o DigitsOf[t.exp]

\* The characters before the point, and behind it.
IntChars(t) ==
  IF t.kind # "finite" THEN <<Junk, Junk, Junk>>
  ELSE IF t.frac = <<>> THEN t.int \o ExponentChars(t) ELSE t.int

FracChars(t) == IF t.frac = <<>> THEN <<>> ELSE t.frac \o ExponentChars(t)

\* A digit in its place; a character that is none leaves its place empty.
Placed(chars, i) ==
  IF i \in DOMAIN chars /\ chars[i] # Junk THEN chars[i] ELSE 0

\* appendPackedDecimalParam: digits with no place left or right of the point are
\* left out.
EncodePacked(t, prec, scale) ==
  IF prec < 1 \/ scale < 0 \/ prec > 31 \/ scale > prec
  THEN Refused
  ELSE LET places == [d \in 0 .. prec - 1 |->
                        IF d < prec - scale
                        THEN Placed(IntChars(t), d + 1 - (prec - scale) + Len(IntChars(t)))
                        ELSE Placed(FracChars(t), d + 1 - (prec - scale))]
       IN [ok |-> TRUE,
           nibbles |-> [i \in 1 .. 2 * ByteLen(prec) |->
             IF i - 1 = SignNibble(prec) THEN IF t.neg THEN 13 ELSE 12
             ELSE IF i - 1 < NibbleOf(prec, 0) THEN 0
             ELSE places[i - 1 - NibbleOf(prec, 0)]]]

\* DecodePackedDecimal
DecodePackedDecimal(nibbles, scale) ==
  LET s   == Significant(SubSeq(nibbles, 1, Len(nibbles) - 1))
      n   == Len(s)
      neg == nibbles[Len(nibbles)] \in {11, 13}
  IN CASE scale < 0 -> Number(neg, IF s = <<0>> THEN s ELSE s \o Zeros(-scale), <<>>, 0)
       [] scale >= n /\ scale > 0 -> Number(neg, <<0>>, Zeros(scale - n) \o s, 0)
       [] scale >= 0 /\ scale < n ->
            Number(neg, SubSeq(s, 1, n - scale), SubSeq(s, n - scale + 1, n), 0)

-----------------------------------------------------------------------------
(* What these encodings are checked against. *)

\* A finite number by its value: the digits between the outermost nonzero ones,
\* and the exponent of the last.
Canonical(t) ==
  LET all     == t.int \o t.frac
      nonzero == {i \in DOMAIN all : all[i] # 0}
  IN IF t.kind # "finite" THEN t
     ELSE IF nonzero = {} THEN [neg |-> t.neg, digits |-> <<>>, exp |-> 0]
     ELSE [neg |-> t.neg, digits |-> SubSeq(all, Min(nonzero), Max(nonzero)),
           exp |-> t.exp + Len(t.int) - Max(nonzero)]

\* A finite number cut off behind its n-th significant digit.
CutTo(t, n) ==
  LET all     == t.int \o t.frac
      nonzero == {i \in DOMAIN all : all[i] # 0}
      last    == Min(nonzero) + n - 1
  IN IF t.kind # "finite" \/ nonzero = {} THEN t
     ELSE [t EXCEPT !.int  = [i \in DOMAIN t.int |-> IF i <= last THEN @[i] ELSE 0],
                    !.frac = [i \in DOMAIN t.frac |->
                                IF Len(t.int) + i <= last THEN @[i] ELSE 0]]

\* A finite number cut off behind the digit of place scale.
CutAt(t, scale) ==
  [t EXCEPT !.frac = SubSeq(@, 1, Min({scale, Len(@)}))]
=============================================================================
