----------------------------- MODULE WireProofs -----------------------------
(***************************************************************************)
(* Theorems about what goes over the wire.  The first part is about the    *)
(* bytes of words, DDM objects and DSS segments: each reads back as what   *)
(* was written.  The second is about RequestChains: an inductive invariant *)
(* says that the bytes between a writer and a reader, with the lost ones   *)
(* behind them, are segments of the frames the writer was given, from the  *)
(* reader's place to the writer's; the framing properties follow.  The     *)
(* last part is about the decimal encodings.                               *)
(***************************************************************************)
EXTENDS RequestChains, Decimals, DataProofs

\* What two bytes hold, and four.  (Zenon counts numerals up from 0: these are too
\* large for it and stay behind their names.)
IsWord(n) == n \in Nat /\ n <= 65535
Fits(n)   == n \in Nat /\ n < 4294967296

\* A word fits four bytes, and so does what is below a number that fits.
LEMMA WordsFit ==
  ASSUME NEW n, IsWord(n) \/ Fits(n)
  PROVE  n \in Nat /\ Fits(n) /\ \A k \in Nat : k <= n => Fits(k) /\ (IsWord(n) => IsWord(k))
BY SMT DEF IsWord, Fits

\* The sizes the driver's framing rests on.
LEMMA SegmentSizes ==
  /\ Flag \in Nat /\ Flag >= 16 /\ IsWord(2 * Flag - 1)
  /\ MaxSegment \in Nat /\ MaxSegment = Flag - 1 /\ Fits(MaxSegment) /\ Fits(MaxPayload)
<1>1. MaxSegment \in 15 .. 32767 /\ MaxPayload \in 0 .. 2 ^ 30 /\ 2 ^ 30 = 1073741824
  BY FramingAssumption, SMTT(60)
<1> QED BY <1>1, SMTT(60) DEF Flag, IsWord, Fits

\* Sequences of bytes, and functions that are some.
LEMMA BytesAre ==
  ASSUME NEW s \in Seq(Byte)
  PROVE  /\ Len(s) \in Nat /\ DOMAIN s = 1 .. Len(s)
         /\ \A i \in 1 .. Len(s) : s[i] \in Byte /\ s[i] \in Nat /\ s[i] < 256
<1>1. \A x \in Byte : x \in Nat /\ x < 256
  BY DEF Byte
<1>2. \A i \in 1 .. Len(s) : s[i] \in Byte
  OBVIOUS
<1>3. Len(s) \in Nat /\ DOMAIN s = 1 .. Len(s)
  OBVIOUS
<1> QED BY <1>1, <1>2, <1>3

\* A function on the numbers up to n is a sequence of length n.
LEMMA AreSeq ==
  ASSUME NEW S, NEW n \in Nat, NEW f \in [1 .. n -> S]
  PROVE  f \in Seq(S) /\ Len(f) = n
<1>1. f \in Seq(S)
  BY SeqDef
<1> QED BY <1>1, LenProperties

\* A number of two bytes.
LEMMA TwoBytes ==
  ASSUME NEW n \in Nat
  PROVE  /\ BytesOf(n, 2) \in Seq(Byte) /\ Len(BytesOf(n, 2)) = 2
         /\ BytesOf(n, 2)[1] = (n \div 256) % 256 /\ BytesOf(n, 2)[2] = n % 256
<1>1. 256 ^ 1 = 256 /\ 256 ^ 0 = 1 /\ n \div 1 = n
  BY SMT
<1>2. BytesOf(n, 2)[1] = (n \div 256) % 256 /\ BytesOf(n, 2)[2] = n % 256
  BY <1>1 DEF BytesOf
<1>3. n % 256 \in Byte /\ (n \div 256) % 256 \in Byte
  BY DEF Byte
<1>4. \A i \in 1 .. 2 : BytesOf(n, 2)[i] \in Byte
  BY <1>2, <1>3
<1>5. BytesOf(n, 2) \in [1 .. 2 -> Byte]
  BY <1>4 DEF BytesOf
<1>6. BytesOf(n, 2) \in Seq(Byte) /\ Len(BytesOf(n, 2)) = 2
  BY <1>5, AreSeq
<1> QED BY <1>2, <1>6

\* A number read back: each byte is a step, 256 times what is there and the byte.
Counts(s, run) == run[0] = 0 /\ \A i \in 1 .. Len(s) : run[i] = 256 * run[i - 1] + s[i]

\* The fold of NumberOf is the last of its running values.
LEMMA NumberRuns ==
  ASSUME NEW s \in Seq(Byte), NEW run, Counts(s, run)
  PROVE  NumberOf(s) = run[Len(s)]
<1> DEFINE n    == Len(s)
           step == [i \in 1 .. n |-> [v \in Nat |-> 256 * v + s[i]]]
           Def(g) == g = [t \in SUBSET (1 .. n) |->
                            IF t = {} THEN 0 ELSE 256 * g[t \ {Max(t)}] + s[Max(t)]]
           iter == CHOOSE g : Def(g)
<1>1. n \in Nat /\ DOMAIN s = 1 .. n /\ \A i \in 1 .. n : s[i] \in Nat
  BY BytesAre
<1>2. NumberOf(s) = iter[1 .. n]
  BY <1>1 DEF NumberOf, FoldLeft, MapThenFoldSet
<1>3. step \in [1 .. n -> [Nat -> Nat]]
  BY <1>1
<1>4. PICK g \in [SUBSET (1 .. n) -> Nat] : FoldsBy(g, n, 0, step)
  <2> HIDE DEF step, n
  <2> QED BY <1>1, <1>3, FoldsExist
<1>5. Def(g)
  <2>1. ASSUME NEW t \in SUBSET (1 .. n), t # {}
        PROVE  step[Max(t)][g[t \ {Max(t)}]] = 256 * g[t \ {Max(t)}] + s[Max(t)]
    <3>1. Max(t) \in 1 .. n
      <4> HIDE DEF n
      <4> QED BY <1>1, <2>1, MaxOf
    <3>2. g[t \ {Max(t)}] \in Nat
      OBVIOUS
    <3> QED BY <3>1, <3>2
  <2> QED BY <2>1, <1>4, ZenonT(60) DEF FoldsBy
<1>6. Def(iter)
  <2> HIDE DEF Def
  <2> QED BY <1>5
<1> HIDE DEF iter
<1>7. iter[{}] = 0
  <2>1. {} \in SUBSET (1 .. n)
    OBVIOUS
  <2> QED BY <1>6, <2>1
<1>8. ASSUME NEW k \in 1 .. n PROVE iter[1 .. k] = 256 * iter[1 .. k - 1] + s[k]
  <2> DEFINE t == 1 .. k
  <2>1. t \in SUBSET (1 .. n) /\ t # {} /\ Max(t) = k /\ t \ {k} = 1 .. k - 1
    BY <1>1, RangeFolds
  <2> HIDE DEF t
  <2>2. iter[t] = 256 * iter[t \ {Max(t)}] + s[Max(t)]
    BY <1>6, <2>1
  <2> QED BY <2>1, <2>2 DEF t
<1> DEFINE Same == {k \in 0 .. n : iter[1 .. k] = run[k]}
<1>0. run[0] = 0 /\ \A i \in 1 .. n : run[i] = 256 * run[i - 1] + s[i]
  BY DEF Counts
<1>9. 0 \in Same
  <2>1. 1 .. 0 = {}
    OBVIOUS
  <2> QED BY <1>0, <1>1, <1>7, <2>1
<1>10. ASSUME NEW k \in 1 .. n, k - 1 \in Same PROVE k \in Same
  <2>1. k \in 0 .. n /\ iter[1 .. k - 1] = run[k - 1]
    BY <1>10
  <2> QED BY <1>0, <1>8, <2>1
<1>11. \A k \in 0 .. n : k \in Same
  <2> HIDE DEF Same, n
  <2> QED BY <1>1, <1>9, <1>10, InductionUpTo
<1>12. n \in 0 .. n
  BY <1>1
<1> QED BY <1>2, <1>11, <1>12

\* The number of two bytes,
LEMMA NumberOfTwo ==
  ASSUME NEW s \in Seq(Byte), Len(s) = 2
  PROVE  NumberOf(s) = 256 * s[1] + s[2] /\ s[1] \in Byte /\ s[2] \in Byte
<1> DEFINE run == [i \in 0 .. 2 |-> CASE i = 0 -> 0 [] i = 1 -> s[1] [] i = 2 -> 256 * s[1] + s[2]]
<1>1. s[1] \in Byte /\ s[2] \in Byte /\ s[1] \in Nat /\ s[2] \in Nat
  BY BytesAre, SMTT(60)
<1>2. run[0] = 0 /\ run[1] = s[1] /\ run[2] = 256 * s[1] + s[2]
  OBVIOUS
<1> HIDE DEF run
<1>3. Counts(s, run)
  BY <1>1, <1>2 DEF Counts
<1>4. NumberOf(s) = run[2]
  BY <1>3, NumberRuns
<1> QED BY <1>1, <1>2, <1>4

\* of four,
LEMMA NumberOfFour ==
  ASSUME NEW s \in Seq(Byte), Len(s) = 4
  PROVE  NumberOf(s) = 16777216 * s[1] + 65536 * s[2] + 256 * s[3] + s[4]
<1> DEFINE a == s[1]
           b == 256 * a + s[2]
           c == 256 * b + s[3]
           d == 256 * c + s[4]
           run == [i \in 0 .. 4 |-> CASE i = 0 -> 0 [] i = 1 -> a [] i = 2 -> b [] i = 3 -> c [] i = 4 -> d]
<1>0. \A i \in 1 .. 4 : s[i] \in Nat
  BY BytesAre
<1>1. s[1] \in Nat /\ s[2] \in Nat /\ s[3] \in Nat /\ s[4] \in Nat
  BY ONLY <1>0
<1>2. run[0] = 0 /\ run[1] = a /\ run[2] = b /\ run[3] = c /\ run[4] = d
  OBVIOUS
<1> HIDE DEF run
<1>3. Counts(s, run)
  BY <1>1, <1>2 DEF Counts
<1>4. NumberOf(s) = run[Len(s)]
  BY <1>3, NumberRuns
<1>5. NumberOf(s) = d
  BY <1>2, <1>4
<1>6. NumberOf(s) = 256 * (256 * (256 * s[1] + s[2]) + s[3]) + s[4]
  BY <1>5
<1> DEFINE b1 == s[1]
           b2 == s[2]
           b3 == s[3]
           b4 == s[4]
           v == NumberOf(s)
<1>7. b1 \in Nat /\ b2 \in Nat /\ b3 \in Nat /\ b4 \in Nat /\ v = 256 * (256 * (256 * b1 + b2) + b3) + b4
  BY <1>1, <1>6
<1> HIDE DEF b1, b2, b3, b4, v
<1>8. v = 16777216 * b1 + 65536 * b2 + 256 * b3 + b4
  BY ONLY <1>7, SMT
<1> QED BY <1>8 DEF b1, b2, b3, b4, v

\* and of eight whose upper half is zero.
LEMMA NumberOfEight ==
  ASSUME NEW s \in Seq(Byte), Len(s) = 8, s[1] = 0, s[2] = 0, s[3] = 0, s[4] = 0
  PROVE  NumberOf(s) = 16777216 * s[5] + 65536 * s[6] + 256 * s[7] + s[8]
<1> DEFINE a == s[5]
           b == 256 * a + s[6]
           c == 256 * b + s[7]
           d == 256 * c + s[8]
           run == [i \in 0 .. 8 |-> CASE i <= 4 -> 0 [] i = 5 -> a [] i = 6 -> b [] i = 7 -> c [] i = 8 -> d]
<1>0. \A i \in 1 .. 8 : s[i] \in Nat
  BY BytesAre
<1>1. s[5] \in Nat /\ s[6] \in Nat /\ s[7] \in Nat /\ s[8] \in Nat
  BY ONLY <1>0
<1>2. /\ run[0] = 0 /\ run[1] = 0 /\ run[2] = 0 /\ run[3] = 0 /\ run[4] = 0
      /\ run[5] = a /\ run[6] = b /\ run[7] = c /\ run[8] = d
  OBVIOUS
<1> HIDE DEF run
<1>3. Counts(s, run)
  BY <1>1, <1>2, SMTT(60) DEF Counts
<1>4. NumberOf(s) = run[Len(s)]
  BY <1>3, NumberRuns
<1>5. NumberOf(s) = d
  BY <1>2, <1>4
<1>6. NumberOf(s) = 256 * (256 * (256 * s[5] + s[6]) + s[7]) + s[8]
  BY <1>5
<1> DEFINE b1 == s[5]
           b2 == s[6]
           b3 == s[7]
           b4 == s[8]
           v == NumberOf(s)
<1>7. b1 \in Nat /\ b2 \in Nat /\ b3 \in Nat /\ b4 \in Nat /\ v = 256 * (256 * (256 * b1 + b2) + b3) + b4
  BY <1>1, <1>6
<1> HIDE DEF b1, b2, b3, b4, v
<1>8. v = 16777216 * b1 + 65536 * b2 + 256 * b3 + b4
  BY ONLY <1>7, SMT
<1> QED BY <1>8 DEF b1, b2, b3, b4, v

\* The bytes of a codepoint or a length give it back.
LEMMA CodepointReads ==
  ASSUME NEW cp, IsWord(cp)
  PROVE  BytesOf(cp, 2) \in Seq(Byte) /\ Len(BytesOf(cp, 2)) = 2 /\ NumberOf(BytesOf(cp, 2)) = cp
<1>1. /\ BytesOf(cp, 2) \in Seq(Byte) /\ Len(BytesOf(cp, 2)) = 2
      /\ BytesOf(cp, 2)[1] = (cp \div 256) % 256 /\ BytesOf(cp, 2)[2] = cp % 256
  BY WordsFit, TwoBytes, ZenonT(60)
<1>2. NumberOf(BytesOf(cp, 2)) = 256 * ((cp \div 256) % 256) + (cp % 256)
  BY <1>1, NumberOfTwo
<1> QED BY <1>1, <1>2, SMT DEF IsWord

\* Dividing by 256 leaves the last byte,
LEMMA LastByte ==
  ASSUME NEW n \in Nat
  PROVE  n \div 256 \in Nat /\ n % 256 \in 0 .. 255 /\ n = 256 * (n \div 256) + (n % 256)
BY SMT

\* dividing by more leaves what is above,
LEMMA HigherBytes ==
  ASSUME NEW n \in Nat, NEW b \in Nat, NEW r \in Nat
  PROVE  /\ n = 65536 * b + r /\ r < 65536 => n \div 65536 = b
         /\ n = 16777216 * b + r /\ r < 16777216 => n \div 16777216 = b
BY SMT

\* and the four bytes of a number give it back.
LEMMA FourDigits ==
  ASSUME NEW n, Fits(n)
  PROVE  16777216 * ((n \div 16777216) % 256) + 65536 * ((n \div 65536) % 256)
           + 256 * ((n \div 256) % 256) + (n % 256) = n
<1> DEFINE a == n \div 256
           b == a \div 256
           c == b \div 256
           r == n % 256
           s == a % 256
           t == b % 256
<1>1. n \in Nat /\ n < 4294967296
  BY DEF Fits
<1>2. a \in Nat /\ r \in 0 .. 255 /\ n = 256 * a + r
  BY <1>1, LastByte
<1>3. b \in Nat /\ s \in 0 .. 255 /\ a = 256 * b + s
  BY <1>2, LastByte
<1>4. c \in Nat /\ t \in 0 .. 255 /\ b = 256 * c + t
  BY <1>3, LastByte
<1> HIDE DEF a, b, c, r, s, t
<1>5. n \div 65536 = b
  <2> DEFINE low == 256 * s + r
  <2>1. n = 65536 * b + low /\ low \in Nat /\ low < 65536
    BY <1>2, <1>3, SMT
  <2> HIDE DEF low
  <2> QED BY <1>1, <1>3, <2>1, HigherBytes
<1>6. n \div 16777216 = c /\ c < 256
  <2> DEFINE low == 65536 * t + 256 * s + r
  <2>1. n = 16777216 * c + low /\ low \in Nat /\ low < 16777216
    BY <1>2, <1>3, <1>4, SMT
  <2> HIDE DEF low
  <2>2. n \div 16777216 = c
    BY <1>1, <1>4, <2>1, HigherBytes
  <2>3. c < 256
    BY <1>1, <1>4, <2>1, SMT
  <2> QED BY <2>2, <2>3
<1>7. c % 256 = c
  BY <1>4, <1>6, SMT
<1>8. (n \div 256) % 256 = s /\ (n \div 65536) % 256 = t /\ (n \div 16777216) % 256 = c /\ n % 256 = r
  BY <1>5, <1>6, <1>7 DEF a, r, s, t
<1>9. 16777216 * c + 65536 * t + 256 * s + r = n
  BY <1>2, <1>3, <1>4, SMT
<1> QED BY <1>8, <1>9

\* BytesOf of four bytes reads back as the number, if that fits.
LEMMA FourBytes ==
  ASSUME NEW n \in Nat
  PROVE  /\ BytesOf(n, 4) \in Seq(Byte) /\ Len(BytesOf(n, 4)) = 4
         /\ Fits(n) => NumberOf(BytesOf(n, 4)) = n
<1> DEFINE s == BytesOf(n, 4)
<1>1. 256 ^ 3 = 16777216 /\ 256 ^ 2 = 65536 /\ 256 ^ 1 = 256 /\ 256 ^ 0 = 1 /\ n \div 1 = n
  BY SMT
<1>2. /\ s[1] = (n \div 16777216) % 256 /\ s[2] = (n \div 65536) % 256
      /\ s[3] = (n \div 256) % 256 /\ s[4] = n % 256
  BY <1>1, SMT DEF BytesOf
<1>3. \A i \in 1 .. 4 : s[i] \in Byte
  BY <1>2, SMTT(60) DEF Byte
<1>4. s \in [1 .. 4 -> Byte]
  BY <1>3 DEF BytesOf
<1>5. s \in Seq(Byte) /\ Len(s) = 4
  BY <1>4, AreSeq
<1>6. ASSUME Fits(n) PROVE NumberOf(s) = n
  <2>1. NumberOf(s) = 16777216 * s[1] + 65536 * s[2] + 256 * s[3] + s[4]
    <3> HIDE DEF s
    <3> QED BY <1>5, NumberOfFour
  <2>2. 16777216 * ((n \div 16777216) % 256) + 65536 * ((n \div 65536) % 256)
          + 256 * ((n \div 256) % 256) + (n % 256) = n
    BY <1>6, FourDigits
  <2> HIDE DEF s
  <2> QED BY <1>2, <2>1, <2>2, SMT
<1> QED BY <1>5, <1>6

\* BytesOf of eight bytes as well.
LEMMA EightBytes ==
  ASSUME NEW n \in Nat
  PROVE  /\ BytesOf(n, 8) \in Seq(Byte) /\ Len(BytesOf(n, 8)) = 8
         /\ Fits(n) => NumberOf(BytesOf(n, 8)) = n
<1> DEFINE s == BytesOf(n, 8)
<1>1. 256 ^ 3 = 16777216 /\ 256 ^ 2 = 65536 /\ 256 ^ 1 = 256 /\ 256 ^ 0 = 1 /\ n \div 1 = n
  BY SMT
<1>2. /\ s[1] = 0 /\ s[2] = 0 /\ s[3] = 0 /\ s[4] = 0
      /\ s[5] = (n \div 16777216) % 256 /\ s[6] = (n \div 65536) % 256
      /\ s[7] = (n \div 256) % 256 /\ s[8] = n % 256
  BY <1>1, SMT DEF BytesOf
<1>3. \A i \in 1 .. 8 : s[i] \in Byte
  BY <1>2, SMTT(60) DEF Byte
<1>4. s \in [1 .. 8 -> Byte]
  BY <1>3 DEF BytesOf
<1>5. s \in Seq(Byte) /\ Len(s) = 8
  BY <1>4, AreSeq
<1>6. ASSUME Fits(n) PROVE NumberOf(s) = n
  <2>1. NumberOf(s) = 16777216 * s[5] + 65536 * s[6] + 256 * s[7] + s[8]
    <3>1. s[1] = 0 /\ s[2] = 0 /\ s[3] = 0 /\ s[4] = 0
      BY <1>2, SMT
    <3> HIDE DEF s
    <3> QED BY <1>5, <3>1, NumberOfEight
  <2>2. 16777216 * ((n \div 16777216) % 256) + 65536 * ((n \div 65536) % 256)
          + 256 * ((n \div 256) % 256) + (n % 256) = n
    BY <1>6, FourDigits
  <2> HIDE DEF s
  <2> QED BY <1>2, <2>1, <2>2, SMT
<1> QED BY <1>5, <1>6

\* A word tells its length and its flag.
LEMMA WordReads ==
  ASSUME NEW n \in 0 .. MaxSegment, NEW c \in BOOLEAN
  PROVE  /\ Word(n, c) \in Seq(Byte) /\ Len(Word(n, c)) = 2
         /\ HasFlag(NumberOf(Word(n, c))) = c
         /\ LengthOf(NumberOf(Word(n, c))) = n
         /\ ~ c => NumberOf(Word(n, c)) = n
<1>1. Flag \in Nat /\ Flag >= 16 /\ n \in Nat /\ n < Flag
  BY SegmentSizes
<1>2. n \div Flag = 0 /\ (n + Flag) \div Flag = 1
  BY <1>1
<1>3. n % (2 * Flag) = n
  BY <1>1
<1> DEFINE m == IF c THEN n + Flag ELSE n
<1>4. ~ HasFlag(n) /\ HasFlag(m) = c /\ LengthOf(m) = n
  BY <1>1, <1>2 DEF HasFlag, LengthOf
<1>5. Word(n, c) = BytesOf(m, 2)
  BY <1>3, <1>4 DEF Word
<1>6. IsWord(m)
  <2>1. m \in Nat /\ m <= 2 * Flag - 1
    BY <1>1
  <2> HIDE DEF m
  <2> QED BY <2>1, SegmentSizes, WordsFit
<1> HIDE DEF m
<1>7. /\ BytesOf(m, 2) \in Seq(Byte) /\ Len(BytesOf(m, 2)) = 2
      /\ BytesOf(m, 2)[1] = (m \div 256) % 256 /\ BytesOf(m, 2)[2] = m % 256
  BY <1>6, WordsFit, TwoBytes, ZenonT(60)
<1>8. NumberOf(BytesOf(m, 2)) = m
  BY <1>6, CodepointReads
<1> QED BY <1>4, <1>5, <1>7, <1>8 DEF m

-----------------------------------------------------------------------------
\* What is joined is found again by its places.
LEMMA JoinParts ==
  ASSUME NEW S, NEW u \in Seq(S), NEW v \in Seq(S)
  PROVE  /\ u \o v \in Seq(S) /\ Len(u \o v) = Len(u) + Len(v)
         /\ Slice(u \o v, 0, Len(u)) = u /\ Slice(u \o v, Len(u), Len(u) + Len(v)) = v
<1> DEFINE x == u \o v
           m == Len(u)
           n == Len(u) + Len(v)
<1>1. m \in Nat /\ n \in Nat /\ m <= n /\ Len(u) = m /\ Len(v) = n - m
  OBVIOUS
<1>2. x \in Seq(S) /\ Len(x) = n
      /\ \A i \in 1 .. n : x[i] = IF i <= m THEN u[i] ELSE v[i - m]
  BY ConcatProperties
<1> HIDE DEF x, m, n
<1>3. Slice(x, 0, m) = u
  <2>1. \A i \in 1 .. m - 0 : u[i] = x[0 + i]
    BY <1>1, <1>2
  <2>2. 0 \in Nat /\ 0 <= m /\ m <= Len(x) /\ Len(u) = m - 0
    BY <1>1, <1>2
  <2> QED BY ONLY <1>1, <1>2, <2>1, <2>2, SliceEqual, u \in Seq(S), ZenonT(60)
<1>4. Slice(x, m, n) = v
  <2>1. ASSUME NEW i \in 1 .. n - m PROVE v[i] = x[m + i]
    <3>1. m + i \in 1 .. n /\ ~ (m + i <= m) /\ (m + i) - m = i
      BY <1>1
    <3> QED BY <1>2, <3>1
  <2>2. n <= Len(x)
    BY <1>1, <1>2
  <2> QED BY ONLY <1>1, <1>2, <2>1, <2>2, SliceEqual, v \in Seq(S)
<1> QED BY <1>2, <1>3, <1>4 DEF x, m, n

\* A sequence is what it is cut into.
LEMMA CutParts ==
  ASSUME NEW S, NEW s \in Seq(S), NEW n \in Nat, n <= Len(s)
  PROVE  /\ SubSeq(s, 1, n) \in Seq(S) /\ Len(SubSeq(s, 1, n)) = n
         /\ SubSeq(s, n + 1, Len(s)) \in Seq(S) /\ Len(SubSeq(s, n + 1, Len(s))) = Len(s) - n
         /\ SubSeq(s, 1, n) \o SubSeq(s, n + 1, Len(s)) = s
         /\ SubSeq(s, 1, n) = Slice(s, 0, n) /\ SubSeq(s, n + 1, Len(s)) = Slice(s, n, Len(s))
<1> DEFINE l == Len(s)
<1>1. l \in Nat /\ n <= l /\ l <= Len(s) /\ 0 \in Nat /\ 0 <= n /\ n - 0 = n
  OBVIOUS
<1> HIDE DEF l
<1>2. /\ Slice(s, 0, n) \in Seq(S) /\ Len(Slice(s, 0, n)) = n
      /\ Slice(s, n, l) \in Seq(S) /\ Len(Slice(s, n, l)) = l - n
  BY <1>1, SliceParts
<1>3. Slice(s, 0, n) \o Slice(s, n, l) = Slice(s, 0, l)
  BY <1>1, SliceJoin
<1>4. Slice(s, 0, l) = s
  BY SliceWhole DEF l
<1>5. SubSeq(s, 1, n) = Slice(s, 0, n) /\ SubSeq(s, n + 1, l) = Slice(s, n, l)
  BY DEF Slice
<1>6. SubSeq(s, 1, n) \o SubSeq(s, n + 1, l) = s
  BY <1>3, <1>4, <1>5
<1> QED BY <1>2, <1>5, <1>6 DEF l

\* Two ways to begin with as many elements are the same one.
SameSplit(u, v, x, y) == u \o v = x \o y /\ Len(u) = Len(x)

\* Two splits at the same length have the same parts.
LEMMA SameParts ==
  ASSUME NEW S, NEW u \in Seq(S), NEW v \in Seq(S), NEW x \in Seq(S), NEW y \in Seq(S),
         SameSplit(u, v, x, y)
  PROVE  u = x /\ v = y
<1> DEFINE m == Len(u)
           n == Len(u) + Len(v)
           k == Len(x) + Len(y)
<1>1. Len(u \o v) = n /\ Slice(u \o v, 0, m) = u /\ Slice(u \o v, m, n) = v
  BY JoinParts
<1>2. m = Len(x)
  BY DEF SameSplit
<1>3. Len(x \o y) = k /\ Slice(x \o y, 0, m) = x /\ Slice(x \o y, m, k) = y
  <2>1. Len(x \o y) = k /\ Slice(x \o y, 0, Len(x)) = x /\ Slice(x \o y, Len(x), k) = y
    BY JoinParts
  <2> HIDE DEF m, k
  <2> QED BY <1>2, <2>1
<1>4. u \o v = x \o y
  BY DEF SameSplit
<1> HIDE DEF m, n, k
<1> QED BY ONLY <1>1, <1>3, <1>4

\* What is inside the front part of a sequence.
LEMMA SliceInFront ==
  ASSUME NEW S, NEW x \in Seq(S), NEW k \in Nat, k <= Len(x), NEW i \in Nat, NEW j \in Nat, i <= j, j <= k
  PROVE  Slice(Slice(x, 0, k), i, j) = Slice(x, i, j)
<1>1. 0 \in Nat /\ 0 <= k /\ j <= k - 0 /\ 0 + i = i /\ 0 + j = j
  OBVIOUS
<1>2. Slice(Slice(x, 0, k), i, j) = Slice(x, 0 + i, 0 + j)
  BY <1>1, SliceOfSlice
<1> QED BY <1>1, <1>2

\* Four parts, two of them words.
IsFour(x, w, c, l, b) == x = w \o c \o l \o b

\* The four parts of an object: length, codepoint, extension, body.
LEMMA FourParts ==
  ASSUME NEW S, NEW w \in Seq(S), NEW c \in Seq(S), NEW l \in Seq(S), NEW b \in Seq(S),
         NEW x, IsFour(x, w, c, l, b), Len(w) = 2, Len(c) = 2,
         NEW p, NEW q, p = 4 + Len(l), q = 4 + Len(l) + Len(b)
  PROVE  /\ x \in Seq(S) /\ Len(x) = q /\ p \in Nat /\ q \in Nat
         /\ Slice(x, 0, 2) = w /\ Slice(x, 2, 4) = c /\ Slice(x, 4, p) = l /\ Slice(x, p, q) = b
<1> DEFINE y == w \o c
           z == y \o l
<1>0. Len(l) \in Nat /\ Len(b) \in Nat
  OBVIOUS
<1>1. /\ y \in Seq(S) /\ Len(y) = 4 /\ Slice(y, 0, 2) = w /\ Slice(y, 2, 4) = c
  <2>1. /\ y \in Seq(S) /\ Len(y) = Len(w) + Len(c)
        /\ Slice(y, 0, Len(w)) = w /\ Slice(y, Len(w), Len(w) + Len(c)) = c
    BY ONLY w \in Seq(S), c \in Seq(S), JoinParts
  <2> HIDE DEF y
  <2>2. Len(w) = 2 /\ Len(c) = 2 /\ 2 + 2 = 4
    OBVIOUS
  <2> QED BY ONLY <2>1, <2>2
<1>2. x = z \o b
  BY DEF IsFour
<1> HIDE DEF y
<1>3. /\ z \in Seq(S) /\ Len(z) = p /\ p \in Nat /\ 4 <= p
      /\ Slice(z, 0, 4) = y /\ Slice(z, 4, p) = l
  <2>1. /\ z \in Seq(S) /\ Len(z) = Len(y) + Len(l)
        /\ Slice(z, 0, Len(y)) = y /\ Slice(z, Len(y), Len(y) + Len(l)) = l
    <3>1. y \in Seq(S)
      BY <1>1
    <3> QED BY ONLY <3>1, l \in Seq(S), JoinParts
  <2> HIDE DEF z
  <2>2. Len(y) = 4 /\ 4 + Len(l) = p /\ p \in Nat /\ 4 <= p
    BY <1>0, <1>1
  <2> QED BY ONLY <2>1, <2>2
<1> HIDE DEF z
<1>4. /\ x \in Seq(S) /\ Len(x) = q /\ q \in Nat /\ p <= q
      /\ Slice(x, 0, p) = z /\ Slice(x, p, q) = b
  <2>1. /\ z \o b \in Seq(S) /\ Len(z \o b) = Len(z) + Len(b)
        /\ Slice(z \o b, 0, Len(z)) = z /\ Slice(z \o b, Len(z), Len(z) + Len(b)) = b
    <3>1. z \in Seq(S)
      BY <1>3
    <3> QED BY ONLY <3>1, b \in Seq(S), JoinParts
  <2>2. Len(z) = p /\ Len(z) + Len(b) = q /\ q \in Nat /\ p <= q
    BY <1>0, <1>3
  <2> QED BY ONLY <1>2, <2>1, <2>2
<1>5. ASSUME NEW i \in Nat, NEW j \in Nat, i <= j, j <= p PROVE Slice(x, i, j) = Slice(z, i, j)
  <2>1. Slice(Slice(x, 0, p), i, j) = Slice(x, i, j)
    BY <1>3, <1>4, <1>5, SliceInFront
  <2> QED BY <1>4, <2>1
<1>6. Slice(x, 0, 4) = y /\ Slice(x, 4, p) = l
  BY <1>3, <1>5
<1>7. ASSUME NEW i \in Nat, NEW j \in Nat, i <= j, j <= 4 PROVE Slice(x, i, j) = Slice(y, i, j)
  <2>1. 4 \in Nat /\ 4 <= Len(x)
    BY <1>3, <1>4
  <2>2. Slice(Slice(x, 0, 4), i, j) = Slice(x, i, j)
    BY <1>4, <1>7, <2>1, SliceInFront
  <2> QED BY <1>6, <2>2
<1>8. Slice(x, 0, 2) = w /\ Slice(x, 2, 4) = c
  BY <1>1, <1>7
<1> QED BY <1>3, <1>4, <1>6, <1>8

\* The word in front of an extended length of e bytes.
LEMMA ExtensionWord ==
  ASSUME NEW e \in {0, 4, 8}
  PROVE  /\ Word(4 + e, TRUE) \in Seq(Byte) /\ Len(Word(4 + e, TRUE)) = 2
         /\ HasFlag(NumberOf(Word(4 + e, TRUE))) /\ LengthOf(NumberOf(Word(4 + e, TRUE))) = 4 + e
<1>1. 4 + e \in 0 .. MaxSegment
  BY SegmentSizes
<1> QED BY <1>1, WordReads

\* The extension reads back as the length of the data.
LEMMA ExtensionReads ==
  ASSUME NEW n \in Nat, NEW e \in {0, 4, 8}
  PROVE  /\ BytesOf(n, e) \in Seq(Byte) /\ Len(BytesOf(n, e)) = e
         /\ e \in {4, 8} /\ Fits(n) => NumberOf(BytesOf(n, e)) = n
<1>1. CASE e = 0
  BY <1>1 DEF BytesOf
<1>2. CASE e = 4
  BY <1>2, FourBytes
<1>3. CASE e = 8
  BY <1>3, EightBytes
<1> QED BY <1>1, <1>2, <1>3

\* A DDM object with e bytes of extended length.
LEMMA ExtendedReads ==
  ASSUME NEW cp, IsWord(cp), NEW body \in Seq(Byte), NEW e \in {0, 4, 8}
  PROVE  /\ Extended(cp, body, e) \in Seq(Byte)
         /\ Len(Extended(cp, body, e)) = 4 + e + Len(body)
         /\ CodePointOf(Extended(cp, body, e)) = cp
         /\ Fits(Len(body)) => ObjectData(Extended(cp, body, e)) = {body}
<1> DEFINE w == Word(4 + e, TRUE)
           c == BytesOf(cp, 2)
           l == BytesOf(Len(body), e)
           x == Extended(cp, body, e)
           n == Len(body)
           p == 4 + Len(l)
           q == 4 + Len(l) + Len(body)
<1>0. n \in Nat /\ e \in Nat
  OBVIOUS
<1>1. /\ w \in Seq(Byte) /\ Len(w) = 2 /\ HasFlag(NumberOf(w)) /\ LengthOf(NumberOf(w)) = 4 + e
  BY ExtensionWord
<1>2. c \in Seq(Byte) /\ Len(c) = 2 /\ NumberOf(c) = cp
  BY CodepointReads
<1>3. /\ l \in Seq(Byte) /\ Len(l) = e
      /\ e \in {4, 8} /\ Fits(n) => NumberOf(l) = n
  BY <1>0, ExtensionReads
<1>4. IsFour(x, w, c, l, body)
  BY DEF Extended, IsFour
<1> HIDE DEF w, c, l, x
<1>5. /\ x \in Seq(Byte) /\ Len(x) = q
      /\ Slice(x, 0, 2) = w /\ Slice(x, 2, 4) = c /\ Slice(x, 4, p) = l /\ Slice(x, p, q) = body
  BY <1>1, <1>2, <1>3, <1>4, FourParts
<1>6. p = 4 + e /\ q = 4 + e + n /\ 0 + 1 = 1 /\ 2 + 1 = 3 /\ 4 + 1 = 5 /\ (4 + e) + 1 = 5 + e
  BY <1>0, <1>3
<1> HIDE DEF p, q, n
<1>7. /\ x \in Seq(Byte) /\ Len(x) = 4 + e + n
      /\ SubSeq(x, 1, 2) = w /\ SubSeq(x, 3, 4) = c /\ SubSeq(x, 5, 4 + e) = l
      /\ SubSeq(x, 5 + e, 4 + e + n) = body
  BY <1>5, <1>6 DEF Slice
<1>8. ASSUME Fits(n) PROVE ObjectData(x) = {body}
  <2> DEFINE word == NumberOf(SubSeq(x, 1, 2))
             size == NumberOf(SubSeq(x, 5, 4 + e))
  <2>0. HasFlag(word) /\ LengthOf(word) = 4 + e
    BY <1>1, <1>7
  <2>1. ~ (Len(x) < 4) /\ LengthOf(word) - 4 = e
    BY <1>0, <1>7, <2>0
  <2> HIDE DEF word
  <2>2. ObjectData(x) = IF e = 0 THEN {SubSeq(x, 5, Len(x))} ELSE ExtendedData(x, e)
    BY <2>0, <2>1 DEF ObjectData, word
  <2>3. CASE e = 0
    <3>1. 5 + e = 5 /\ 4 + e + n = Len(x)
      BY <1>0, <1>7, <2>3
    <3> QED BY <1>7, <2>2, <2>3, <3>1
  <2>4. CASE e \in {4, 8}
    <3>1. size = n
      BY <1>3, <1>7, <1>8, <2>4 DEF n
    <3>2. e \in 1 .. 8 /\ ~ (4 + e > Len(x)) /\ ~ (n > Len(x) - 4 - e)
      BY <1>0, <1>7, <2>4
    <3>3. 4 + e + size = 4 + e + n
      BY <3>1
    <3> HIDE DEF size
    <3>4. ExtendedData(x, e) = {SubSeq(x, 5 + e, 4 + e + n)}
      BY <3>1, <3>2 DEF ExtendedData, size
    <3>5. e # 0 /\ SubSeq(x, 5 + e, 4 + e + n) = body
      BY <1>7, <2>4
    <3> QED BY ONLY <2>2, <3>4, <3>5
  <2> QED BY <2>3, <2>4
<1>9. CodePointOf(x) = cp
  BY <1>2, <1>7 DEF CodePointOf
<1> QED BY <1>7, <1>8, <1>9 DEF x, n

\* One with a plain length.
LEMMA PlainReads ==
  ASSUME NEW cp, IsWord(cp), NEW body \in Seq(Byte), Len(body) + 4 <= MaxSegment, NEW x,
         IsFour(x, Word(Len(body) + 4, FALSE), BytesOf(cp, 2), <<>>, body)
  PROVE  /\ x \in Seq(Byte) /\ Len(x) = 4 + Len(body) /\ CodePointOf(x) = cp
         /\ ObjectData(x) = {body}
<1> DEFINE w == Word(Len(body) + 4, FALSE)
           c == BytesOf(cp, 2)
           l == <<>>
           n == Len(body)
           p == 4 + Len(l)
           q == 4 + Len(l) + Len(body)
<1>0. n \in Nat
  OBVIOUS
<1>1. w \in Seq(Byte) /\ Len(w) = 2 /\ ~ HasFlag(NumberOf(w)) /\ NumberOf(w) = n + 4
  <2> DEFINE m == Len(body) + 4
  <2>1. m \in 0 .. MaxSegment /\ FALSE \in BOOLEAN
    BY SegmentSizes
  <2> HIDE DEF m
  <2>2. /\ Word(m, FALSE) \in Seq(Byte) /\ Len(Word(m, FALSE)) = 2
        /\ HasFlag(NumberOf(Word(m, FALSE))) = FALSE
        /\ NumberOf(Word(m, FALSE)) = m
    BY <2>1, WordReads
  <2> QED BY <2>2 DEF m
<1>2. c \in Seq(Byte) /\ Len(c) = 2 /\ NumberOf(c) = cp
  BY CodepointReads
<1>3. l \in Seq(Byte) /\ Len(l) = 0
  OBVIOUS
<1>4. IsFour(x, w, c, l, body)
  OBVIOUS
<1> HIDE DEF w, c, l
<1>5. /\ x \in Seq(Byte) /\ Len(x) = q
      /\ Slice(x, 0, 2) = w /\ Slice(x, 2, 4) = c /\ Slice(x, p, q) = body
  <2>1. w \in Seq(Byte) /\ Len(w) = 2
    BY <1>1
  <2>2. c \in Seq(Byte) /\ Len(c) = 2
    BY <1>2
  <2>3. l \in Seq(Byte)
    BY <1>3
  <2>4. p = 4 + Len(l) /\ q = 4 + Len(l) + Len(body)
    OBVIOUS
  <2> HIDE DEF p, q
  <2>5. /\ x \in Seq(Byte) /\ Len(x) = q
        /\ Slice(x, 0, 2) = w /\ Slice(x, 2, 4) = c /\ Slice(x, 4, p) = l /\ Slice(x, p, q) = body
    BY ONLY <2>1, <2>2, <2>3, <2>4, <1>4, FourParts, body \in Seq(Byte)
  <2> QED BY <2>5
<1>6. p = 4 /\ q = n + 4 /\ 0 + 1 = 1 /\ 2 + 1 = 3 /\ 4 + 1 = 5
  BY <1>0, <1>3
<1> HIDE DEF p, q, n
<1>7. /\ x \in Seq(Byte) /\ Len(x) = n + 4
      /\ SubSeq(x, 1, 2) = w /\ SubSeq(x, 3, 4) = c /\ SubSeq(x, 5, n + 4) = body
  BY <1>5, <1>6 DEF Slice
<1>8. ObjectData(x) = {body}
  <2> DEFINE word == NumberOf(SubSeq(x, 1, 2))
  <2>1. ~ HasFlag(word) /\ word = n + 4
    BY <1>1, <1>7
  <2>3. word \in 4 .. Len(x) /\ ~ (Len(x) < 4)
    <3> HIDE DEF word
    <3> QED BY <1>0, <1>7, <2>1
  <2> HIDE DEF word
  <2>2. ObjectData(x) = {SubSeq(x, 5, word)}
    BY <2>1, <2>3 DEF ObjectData, word
  <2> QED BY <1>7, <2>1, <2>2
<1>9. CodePointOf(x) = cp
  BY <1>2, <1>7 DEF CodePointOf
<1>10. n + 4 = 4 + n
  BY <1>0
<1> QED BY <1>7, <1>8, <1>9, <1>10 DEF n

\* What a payload is: any form the writer or the server may choose.
IsPayload(pay, cp, body) ==
  /\ pay \in Seq(Byte)
  /\ Len(pay) >= 4 /\ Len(body) <= Len(pay) /\ Len(pay) <= Len(body) + 12
  /\ CodePointOf(pay) = cp
  /\ Fits(Len(body)) => ObjectData(pay) = {body}

\* An object with an extended length is a payload,
LEMMA ExtendedIs ==
  ASSUME NEW cp, IsWord(cp), NEW body \in Seq(Byte), NEW e \in {0, 4, 8}
  PROVE  IsPayload(Extended(cp, body, e), cp, body)
<1>0. Len(body) \in Nat
  OBVIOUS
<1> DEFINE x == Extended(cp, body, e)
<1>1. /\ x \in Seq(Byte) /\ Len(x) = 4 + e + Len(body) /\ CodePointOf(x) = cp
      /\ Fits(Len(body)) => ObjectData(x) = {body}
  BY ExtendedReads, ZenonT(60)
<1> HIDE DEF x
<1> QED BY <1>0, <1>1 DEF IsPayload, x

\* what PackDDMObject makes is one (the driver's objects),
LEMMA PackedIs ==
  ASSUME NEW cp, IsWord(cp), NEW body \in Seq(Byte)
  PROVE  IsPayload(PackDDMObject(cp, body), cp, body)
<1>0. Len(body) \in Nat
  OBVIOUS
<1>1. CASE ~ (Len(body) + 4 <= MaxSegment)
  BY <1>1, ExtendedIs DEF PackDDMObject
<1>2. CASE Len(body) + 4 <= MaxSegment
  <2> DEFINE w == Word(Len(body) + 4, FALSE)
             c == BytesOf(cp, 2)
             x == w \o c \o body
  <2>1. PackDDMObject(cp, body) = x
    BY <1>2 DEF PackDDMObject
  <2>2. IsFour(x, w, c, <<>>, body)
    <3>1. w \in Seq(Byte)
      <4> DEFINE m == Len(body) + 4
      <4>1. m \in 0 .. MaxSegment /\ FALSE \in BOOLEAN
        BY <1>0, <1>2, SegmentSizes
      <4> HIDE DEF m
      <4>2. Word(m, FALSE) \in Seq(Byte)
        BY <4>1, WordReads
      <4> QED BY <4>2 DEF m
    <3>2. c \in Seq(Byte)
      BY CodepointReads
    <3> HIDE DEF w, c
    <3>3. w \o c \in Seq(Byte)
      BY <3>1, <3>2, ConcatProperties
    <3>4. (w \o c) \o <<>> = w \o c
      BY <3>3, ConcatEmptySeq
    <3> QED BY <3>4 DEF IsFour
  <2>3. /\ x \in Seq(Byte) /\ Len(x) = 4 + Len(body) /\ CodePointOf(x) = cp
        /\ ObjectData(x) = {body}
    <3> HIDE DEF x
    <3> QED BY <1>2, <2>2, PlainReads
  <2> HIDE DEF x
  <2> QED BY <1>0, <2>1, <2>3 DEF IsPayload
<1> QED BY <1>1, <1>2

\* and whatever form the server gives its length.
LEMMA PayloadOf ==
  ASSUME NEW cp, IsWord(cp), NEW body \in Seq(Byte), NEW form \in {-1, 0, 4, 8}
  PROVE  IsPayload(Replied(form, cp, body), cp, body)
<1>1. CASE form = -1
  BY <1>1, PackedIs DEF Replied
<1>2. CASE form \in {0, 4, 8}
  BY <1>2, ExtendedIs DEF Replied
<1> QED BY <1>1, <1>2

-----------------------------------------------------------------------------
\* The bits of a header's fourth byte.
LEMMA HeaderBits ==
  ASSUME NEW t \in 0 .. 15, NEW c \in BOOLEAN, NEW s \in BOOLEAN
  PROVE  LET bits == t + (IF c THEN ChainedBit ELSE 0) + (IF s THEN SameIdBit ELSE 0)
         IN  /\ bits \in Byte /\ bits % 16 = t
             /\ ((bits \div ChainedBit) % 2 = 1) = c
             /\ ((bits \div SameIdBit) % 2 = 1) = s
<1>1. ChainedBit = 64 /\ SameIdBit = 16
  BY DEF ChainedBit, SameIdBit
<1>2. CASE c /\ s
  <2> DEFINE bits == t + 64 + 16
  <2>1. bits \in 0 .. 255 /\ bits % 16 = t /\ (bits \div 64) % 2 = 1 /\ (bits \div 16) % 2 = 1
    BY SMT
  <2> QED BY <1>1, <1>2, <2>1 DEF Byte
<1>3. CASE c /\ ~ s
  <2> DEFINE bits == t + 64 + 0
  <2>1. bits \in 0 .. 255 /\ bits % 16 = t /\ (bits \div 64) % 2 = 1 /\ ~ ((bits \div 16) % 2 = 1)
    BY SMT
  <2> QED BY <1>1, <1>3, <2>1 DEF Byte
<1>4. CASE ~ c /\ s
  <2> DEFINE bits == t + 0 + 16
  <2>1. bits \in 0 .. 255 /\ bits % 16 = t /\ ~ ((bits \div 64) % 2 = 1) /\ (bits \div 16) % 2 = 1
    BY SMT
  <2> QED BY <1>1, <1>4, <2>1 DEF Byte
<1>5. CASE ~ c /\ ~ s
  <2> DEFINE bits == t + 0 + 0
  <2>1. bits \in 0 .. 255 /\ bits % 16 = t /\ (bits \div 64) % 2 = 0 /\ (bits \div 16) % 2 = 0
    BY SMT
  <2> QED BY <1>1, <1>5, <2>1 DEF Byte
<1> QED BY <1>2, <1>3, <1>4, <1>5

\* A DSS header gives back what it was made of.
LEMMA HeaderReads ==
  ASSUME NEW dss, dss.type \in 0 .. 15, dss.chained \in BOOLEAN, dss.sameID \in BOOLEAN, IsWord(dss.id),
         NEW n \in 0 .. MaxSegment, NEW continued \in BOOLEAN
  PROVE  /\ Header(dss, n, continued) \in Seq(Byte) /\ Len(Header(dss, n, continued)) = HeaderSize
         /\ Header(dss, n, continued)[3] = Magic
         /\ ParsedHeader(Header(dss, n, continued)) =
              [continued |-> continued, length |-> n, type |-> dss.type, chained |-> dss.chained,
               sameID |-> dss.sameID, id |-> dss.id]
<1> DEFINE bits == dss.type + (IF dss.chained THEN ChainedBit ELSE 0) + (IF dss.sameID THEN SameIdBit ELSE 0)
           w == Word(n, continued)
           c == <<Magic, bits>>
           l == BytesOf(dss.id, 2)
           x == Header(dss, n, continued)
<1>1. /\ w \in Seq(Byte) /\ Len(w) = 2 /\ HasFlag(NumberOf(w)) = continued /\ LengthOf(NumberOf(w)) = n
  BY WordReads
<1>2. /\ bits \in Byte /\ bits % 16 = dss.type
      /\ ((bits \div ChainedBit) % 2 = 1) = dss.chained
      /\ ((bits \div SameIdBit) % 2 = 1) = dss.sameID
  BY HeaderBits
<1>3. l \in Seq(Byte) /\ Len(l) = 2 /\ NumberOf(l) = dss.id
  BY CodepointReads
<1>4. x = w \o c \o l
  BY DEF Header
<1> HIDE DEF bits
<1>5. c \in Seq(Byte) /\ Len(c) = 2 /\ c[1] = Magic /\ c[2] = bits
  <2>1. Magic \in Byte
    BY DEF Magic, Byte
  <2> QED BY <1>2, <2>1
<1> HIDE DEF w, c, l, x
<1>6. /\ x \in Seq(Byte) /\ Len(x) = 6
      /\ Slice(x, 0, 2) = w /\ Slice(x, 2, 4) = c /\ Slice(x, 4, 6) = l
  <2>1. IsFour(x, w, c, l, <<>>)
    <3>1. w \o c \in Seq(Byte)
      BY <1>1, <1>5, ConcatProperties
    <3>2. (w \o c) \o l \in Seq(Byte)
      BY <1>3, <3>1, ConcatProperties
    <3>3. ((w \o c) \o l) \o <<>> = (w \o c) \o l
      BY <3>2, ConcatEmptySeq
    <3> QED BY <1>4, <3>3 DEF IsFour
  <2> DEFINE b == <<>>
             p == 4 + Len(l)
             q == 4 + Len(l) + Len(b)
  <2>2. b \in Seq(Byte) /\ p = 4 + Len(l) /\ q = 4 + Len(l) + Len(b) /\ p = 6 /\ q = 6
    BY <1>3
  <2> HIDE DEF b, p, q
  <2>3. IsFour(x, w, c, l, b)
    BY <2>1 DEF b
  <2>4. w \in Seq(Byte) /\ Len(w) = 2
    BY <1>1
  <2>5. c \in Seq(Byte) /\ Len(c) = 2
    BY <1>5
  <2>6. l \in Seq(Byte)
    BY <1>3
  <2>7. /\ x \in Seq(Byte) /\ Len(x) = q
        /\ Slice(x, 0, 2) = w /\ Slice(x, 2, 4) = c /\ Slice(x, 4, p) = l /\ Slice(x, p, q) = b
    BY ONLY <2>2, <2>3, <2>4, <2>5, <2>6, FourParts
  <2> QED BY <2>2, <2>7
<1>7. SubSeq(x, 1, 2) = w /\ SubSeq(x, 5, 6) = l
  <2>1. 0 + 1 = 1 /\ 4 + 1 = 5
    OBVIOUS
  <2> QED BY <1>6, <2>1 DEF Slice
<1>8. x[3] = Magic /\ x[4] = bits
  <2>1. \A i \in 1 .. 4 - 2 : Slice(x, 2, 4)[i] = x[2 + i]
    <3>1. 2 \in Nat /\ 4 \in Nat /\ 2 <= 4 /\ 4 <= Len(x)
      BY <1>6
    <3> QED BY <1>6, <3>1, SliceParts
  <2>2. 1 \in 1 .. 4 - 2 /\ 2 \in 1 .. 4 - 2 /\ 2 + 1 = 3 /\ 2 + 2 = 4
    OBVIOUS
  <2>3. c[1] = x[2 + 1] /\ c[2] = x[2 + 2]
    BY <1>6, <2>1, <2>2
  <2> QED BY <1>5, <2>2, <2>3
<1>9. ParsedHeader(x) =
        [continued |-> HasFlag(NumberOf(w)), length |-> LengthOf(NumberOf(w)), type |-> bits % 16,
         chained |-> (bits \div ChainedBit) % 2 = 1, sameID |-> (bits \div SameIdBit) % 2 = 1,
         id |-> NumberOf(l)]
  BY <1>7, <1>8 DEF ParsedHeader
<1>10. ParsedHeader(x) =
        [continued |-> continued, length |-> n, type |-> dss.type, chained |-> dss.chained,
         sameID |-> dss.sameID, id |-> dss.id]
  BY ONLY <1>1, <1>2, <1>3, <1>9
<1> QED BY <1>6, <1>8, <1>10 DEF x, HeaderSize

\* The body of a call is bytes, as many as its size says.
LEMMA BodyIs ==
  ASSUME NEW size \in Nat, NEW tag \in Nat
  PROVE  Body(size, tag) \in Seq(Byte) /\ Len(Body(size, tag)) = size
<1>1. \A i \in 1 .. size : (50 * tag + i) % 251 \in Byte
  BY SMT DEF Byte
<1>2. Body(size, tag) \in [1 .. size -> Byte]
  BY <1>1, SMTT(60) DEF Body
<1> QED BY <1>2, AreSeq

\* The codepoints are words, and four of them are objects'.
LEMMA CodepointsAre ==
  /\ CP.EXCSAT \in UInt16 /\ CP.ACCSEC \in UInt16 /\ CP.SECCHK \in UInt16
  /\ CP.ACCRDB \in UInt16 /\ CP.PRPSQLSTT \in UInt16 /\ CP.EXCSQLSTT \in UInt16
  /\ CP.EXCSQLIMM \in UInt16 /\ CP.EXCSQLSET \in UInt16 /\ CP.DSCSQLSTT \in UInt16
  /\ CP.OPNQRY \in UInt16 /\ CP.CNTQRY \in UInt16 /\ CP.CLSQRY \in UInt16
  /\ CP.RDBCMM \in UInt16 /\ CP.RDBRLLBCK \in UInt16 /\ CP.SQLINTR \in UInt16
  /\ CP.SQLCARD \in UInt16 /\ CP.SQLSTT \in UInt16 /\ CP.SQLATTR \in UInt16
  /\ CP.SQLDTA \in UInt16 /\ CP.EXTDTA \in UInt16
BY SMTT(60) DEF CP, UInt16

\* Which codepoints are those of objects.
LEMMA ObjectsAre ==
  /\ CP.SQLSTT \in Objects /\ CP.SQLDTA \in Objects /\ CP.EXTDTA \in Objects
  /\ CP.EXCSAT \notin Objects /\ CP.ACCSEC \notin Objects /\ CP.SECCHK \notin Objects
  /\ CP.ACCRDB \notin Objects /\ CP.PRPSQLSTT \notin Objects /\ CP.EXCSQLSTT \notin Objects
  /\ CP.EXCSQLIMM \notin Objects /\ CP.EXCSQLSET \notin Objects /\ CP.DSCSQLSTT \notin Objects
  /\ CP.OPNQRY \notin Objects /\ CP.CNTQRY \notin Objects /\ CP.CLSQRY \notin Objects
  /\ CP.RDBCMM \notin Objects /\ CP.RDBRLLBCK \notin Objects /\ CP.SQLINTR \notin Objects
BY SMTT(60) DEF CP, Objects

\* A UInt16 is a word.
LEMMA WordIs ==
  ASSUME NEW n \in UInt16
  PROVE  IsWord(n)
BY SMTT(60) DEF IsWord, UInt16

-----------------------------------------------------------------------------
\* Places in what the writer of a turn writes: in front of the f-th frame, or
\* between two segments of it, a bytes of its payload behind.
Place == Nat \X Nat \X BOOLEAN
After(pays, f, b) == IF b < Len(pays[f]) THEN <<f, b, TRUE>> ELSE <<f + 1, 0, FALSE>>

FirstSegment(dsss, pays, f, b) ==
  Header(dsss[f], HeaderSize + b, b < Len(pays[f])) \o Slice(pays[f], 0, b)
NextSegment(pays, f, a, b) ==
  Word(ContinuationSize + (b - a), b < Len(pays[f])) \o Slice(pays[f], a, b)

\* The segment e lies between the places p and q.
Link(dsss, pays, p, e, q) ==
  \E f \in 1 .. Len(dsss), a \in Nat, b \in Nat :
    /\ a <= b /\ b <= Len(pays[f]) /\ q = After(pays, f, b)
    /\ \/ /\ p = <<f, 0, FALSE>> /\ a = 0
          /\ HeaderSize + b <= MaxSegment /\ e = FirstSegment(dsss, pays, f, b)
       \/ /\ p = <<f, a, TRUE>>
          /\ ContinuationSize + (b - a) <= MaxSegment /\ e = NextSegment(pays, f, a, b)

\* The bytes w are segments from the place p to the place q: the i-th reaches up
\* to off[i] and leads to at[i].
Segments(dsss, pays, w, p, q, m, at, off) ==
  /\ m \in Nat /\ at \in [0 .. m -> Place] /\ off \in [0 .. m -> 0 .. Len(w)]
  /\ at[0] = p /\ at[m] = q /\ off[0] = 0 /\ off[m] = Len(w)
  /\ \A i, j \in 0 .. m : i <= j => off[i] <= off[j]
  /\ \A i \in 1 .. m : Link(dsss, pays, at[i - 1], Slice(w, off[i - 1], off[i]), at[i])

Stream(dsss, pays, w, p, q) ==
  \E m, at, off : Segments(dsss, pays, w, p, q, m, at, off)

\* The first of them.
Begins(dsss, pays, w, p, q, e, r, v) ==
  /\ e \in Seq(Byte) /\ v \in Seq(Byte) /\ w = e \o v /\ r \in Place
  /\ Link(dsss, pays, p, e, r) /\ Stream(dsss, pays, v, r, q)

\* No bytes lead from a place to itself.
LEMMA StreamEmpty ==
  ASSUME NEW dsss, NEW pays, NEW p \in Place
  PROVE  Stream(dsss, pays, <<>>, p, p)
<1> DEFINE at == [i \in 0 .. 0 |-> p]
           off == [i \in 0 .. 0 |-> 0]
<1>1. Len(<<>>) = 0 /\ 0 \in 0 .. 0 /\ 0 \in Nat
  OBVIOUS
<1>2. at \in [0 .. 0 -> Place] /\ off \in [0 .. 0 -> 0 .. Len(<<>>)] /\ at[0] = p /\ off[0] = 0
  BY <1>1
<1>3. \A i \in 0 .. 0 : off[i] = 0
  OBVIOUS
<1> HIDE DEF at, off
<1>4. \A i \in 1 .. 0 : FALSE
  OBVIOUS
<1>5. \A i, j \in 0 .. 0 : i <= j => off[i] <= off[j]
  BY <1>3
<1>6. Segments(dsss, pays, <<>>, p, p, 0, at, off)
  BY ONLY <1>1, <1>2, <1>4, <1>5 DEF Segments
<1> QED BY <1>6 DEF Stream

\* A segment behind a stream makes a longer one.
LEMMA StreamGrows ==
  ASSUME NEW dsss, NEW pays, NEW w \in Seq(Byte), NEW p, NEW q, Stream(dsss, pays, w, p, q),
         NEW e \in Seq(Byte), NEW r \in Place, Link(dsss, pays, q, e, r)
  PROVE  Stream(dsss, pays, w \o e, p, r)
<1>1. PICK m, at, off : Segments(dsss, pays, w, p, q, m, at, off)
  BY DEF Stream
<1> DEFINE k == m + 1
           n == Len(w)
           l == Len(w) + Len(e)
           x == w \o e
           at2 == [i \in 0 .. k |-> IF i = k THEN r ELSE at[i]]
           off2 == [i \in 0 .. k |-> IF i = k THEN l ELSE off[i]]
<1>2. /\ m \in Nat /\ k \in Nat /\ k - 1 = m /\ k # 0 /\ 0 \in 0 .. k /\ k \in 0 .. k
      /\ n \in Nat /\ l \in Nat /\ n <= l /\ 0 .. n \subseteq 0 .. l
  BY <1>1 DEF Segments
<1>3. x \in Seq(Byte) /\ Len(x) = l /\ Slice(x, 0, n) = w /\ Slice(x, n, l) = e
  BY JoinParts
<1>4. /\ at \in [0 .. m -> Place] /\ off \in [0 .. m -> 0 .. n]
      /\ at[0] = p /\ at[m] = q /\ off[0] = 0 /\ off[m] = n
      /\ \A i, j \in 0 .. m : i <= j => off[i] <= off[j]
      /\ \A i \in 1 .. m : Link(dsss, pays, at[i - 1], Slice(w, off[i - 1], off[i]), at[i])
  BY <1>1 DEF Segments
<1>5. \A i \in 0 .. k : i = k \/ (i \in 0 .. m /\ i # k)
  BY <1>2
<1> HIDE DEF k, n, l, x
<1>6. \A i \in 0 .. k : /\ at2[i] = IF i = k THEN r ELSE at[i]
                        /\ off2[i] = IF i = k THEN l ELSE off[i]
  OBVIOUS
<1>7. at2 \in [0 .. k -> Place] /\ off2 \in [0 .. k -> 0 .. l]
  <2>1. \A i \in 0 .. k : at2[i] \in Place /\ off2[i] \in 0 .. l
    BY <1>2, <1>4, <1>5, <1>6
  <2> QED BY <1>6, <2>1
<1> HIDE DEF at2, off2
<1>8. at2[0] = p /\ at2[k] = r /\ off2[0] = 0 /\ off2[k] = Len(x)
  BY <1>2, <1>3, <1>4, <1>6
<1>9. ASSUME NEW i \in 0 .. k, NEW j \in 0 .. k, i <= j PROVE off2[i] <= off2[j]
  <2>1. CASE j = k /\ i = k
    BY <1>2, <1>6, <2>1
  <2>2. CASE j = k /\ i # k
    <3>1. i \in 0 .. m
      BY <1>5, <2>2
    <3>2. off[i] \in 0 .. n
      BY <1>4, <3>1
    <3> QED BY <1>2, <1>6, <2>2, <3>2
  <2>3. CASE j # k
    <3>1. j \in 0 .. m /\ i \in 0 .. m /\ i # k
      BY <1>2, <1>5, <1>9, <2>3
    <3> QED BY <1>4, <1>6, <1>9, <2>3, <3>1
  <2> QED BY <2>1, <2>2, <2>3
<1>10. ASSUME NEW i \in 1 .. k
       PROVE  Link(dsss, pays, at2[i - 1], Slice(x, off2[i - 1], off2[i]), at2[i])
  <2>1. CASE i = k
    <3>1. i - 1 = m /\ m \in 0 .. k /\ m # k /\ k \in 0 .. k
      BY <1>2, <2>1
    <3>2. at2[i - 1] = q /\ off2[i - 1] = n /\ at2[i] = r /\ off2[i] = l
      BY <1>4, <1>6, <2>1, <3>1
    <3> QED BY <1>3, <3>2
  <2>2. CASE i # k
    <3>1. i \in 1 .. m /\ i \in 0 .. k /\ i - 1 \in 0 .. k /\ i - 1 # k /\ i \in 0 .. m /\ i - 1 \in 0 .. m /\ i - 1 <= i
      BY <1>2, <2>2 DEF k
    <3> DEFINE a == off[i - 1]
               b == off[i]
    <3>2. at2[i - 1] = at[i - 1] /\ off2[i - 1] = a /\ at2[i] = at[i] /\ off2[i] = b
      BY <1>6, <2>2, <3>1
    <3>3. Link(dsss, pays, at[i - 1], Slice(w, a, b), at[i])
      BY <1>4, <3>1
    <3>4. a \in Nat /\ b \in Nat /\ a <= b /\ b <= n /\ n <= Len(x) /\ n \in Nat
      BY <1>2, <1>3, <1>4, <3>1
    <3> HIDE DEF a, b
    <3>5. Slice(Slice(x, 0, n), a, b) = Slice(x, a, b)
      BY <1>3, <3>4, SliceInFront
    <3> QED BY <1>3, <3>2, <3>3, <3>5
  <2> QED BY <2>1, <2>2
<1>11. \A i, j \in 0 .. k : i <= j => off2[i] <= off2[j]
  BY <1>9
<1>12. off2 \in [0 .. k -> 0 .. Len(x)]
  BY <1>3, <1>7
<1>13. Segments(dsss, pays, x, p, r, k, at2, off2)
  BY ONLY <1>2, <1>7, <1>8, <1>10, <1>11, <1>12 DEF Segments
<1> QED BY <1>13 DEF Stream, x

\* A stream of some bytes begins with a segment.
LEMMA StreamBegins ==
  ASSUME NEW dsss, NEW pays, NEW w \in Seq(Byte), NEW p, NEW q, Stream(dsss, pays, w, p, q)
  PROVE  (w = <<>> /\ p = q) \/ \E e, r, v : Begins(dsss, pays, w, p, q, e, r, v)
<1>1. PICK m, at, off : Segments(dsss, pays, w, p, q, m, at, off)
  BY DEF Stream
<1> DEFINE n == Len(w)
<1>2. n \in Nat /\ m \in Nat
  BY <1>1 DEF Segments
<1>4. /\ at \in [0 .. m -> Place] /\ off \in [0 .. m -> 0 .. n]
      /\ at[0] = p /\ at[m] = q /\ off[0] = 0 /\ off[m] = n
      /\ \A i, j \in 0 .. m : i <= j => off[i] <= off[j]
      /\ \A i \in 1 .. m : Link(dsss, pays, at[i - 1], Slice(w, off[i - 1], off[i]), at[i])
  BY <1>1 DEF Segments
<1>5. CASE m = 0
  <2>1. Len(w) = 0 /\ p = q
    BY <1>4, <1>5
  <2>2. w = <<>>
    BY <2>1, EmptySeq
  <2> QED BY <2>1, <2>2
<1>6. CASE m # 0
  <2> DEFINE k == m - 1
             c == off[1]
             r == at[1]
             e == Slice(w, 0, c)
             v == Slice(w, c, n)
             at2 == [i \in 0 .. k |-> at[i + 1]]
             off2 == [i \in 0 .. k |-> off[i + 1] - c]
  <2>1. /\ k \in Nat /\ k + 1 = m /\ 1 \in 1 .. m /\ 1 \in 0 .. m /\ 0 \in 0 .. k /\ k \in 0 .. k
        /\ \A i \in 0 .. k : i + 1 \in 0 .. m /\ 1 <= i + 1
        /\ \A i \in 1 .. k : i + 1 \in 1 .. m /\ i \in 0 .. k /\ i - 1 \in 0 .. k /\ (i - 1) + 1 = i /\ (i + 1) - 1 = i
    BY <1>2, <1>6
  <2>2. c \in Nat /\ c <= n /\ r \in Place /\ n - c \in Nat /\ 0 \in Nat /\ 0 <= c /\ n <= Len(w) /\ c - 0 = c /\ c <= Len(w)
    BY <1>2, <1>4, <2>1
  <2>3. /\ \A i \in 0 .. k : off[i + 1] \in Nat /\ c <= off[i + 1] /\ off[i + 1] <= n
    BY <1>2, <1>4, <2>1
  <2>4. Link(dsss, pays, p, e, r)
    <3>1. Link(dsss, pays, at[1 - 1], Slice(w, off[1 - 1], off[1]), at[1])
      BY <1>4, <2>1
    <3> QED BY <1>4, <3>1
  <2>5. \A i \in 0 .. k : at2[i] = at[i + 1] /\ off2[i] = off[i + 1] - c
    OBVIOUS
  <2> HIDE DEF k, c, r, n
  <2>6. /\ e \in Seq(Byte) /\ v \in Seq(Byte) /\ Len(v) = n - c
    BY <1>2, <2>2, SliceParts
  <2>7. e \o v = w
    <3>1. e \o v = Slice(w, 0, n)
      BY <1>2, <2>2, SliceJoin
    <3>2. Slice(w, 0, n) = w
      BY SliceWhole DEF n
    <3> QED BY <3>1, <3>2
  <2>8. at2 \in [0 .. k -> Place] /\ off2 \in [0 .. k -> 0 .. n - c]
    <3>1. \A i \in 0 .. k : at2[i] \in Place
      BY <1>4, <2>1, <2>5
    <3>2. ASSUME NEW i \in 0 .. k PROVE off2[i] \in 0 .. n - c
      <4>1. off2[i] = off[i + 1] - c /\ off[i + 1] \in Nat /\ c <= off[i + 1] /\ off[i + 1] <= n
        BY <2>3, <2>5
      <4> HIDE DEF off2
      <4> QED BY <1>2, <2>2, <4>1
    <3> QED BY <3>1, <3>2
  <2> HIDE DEF at2, off2, e, v
  <2>9. at2[0] = r /\ at2[k] = q /\ off2[0] = 0 /\ off2[k] = n - c
    <3>1. at2[0] = at[0 + 1] /\ off2[0] = off[0 + 1] - c /\ at2[k] = at[k + 1] /\ off2[k] = off[k + 1] - c
      BY <2>1, <2>5
    <3>2. off[0 + 1] = c /\ at[0 + 1] = r /\ c - c = 0
      BY <2>2 DEF c, r
    <3> QED BY <1>4, <2>1, <3>1, <3>2
  <2>10. ASSUME NEW i \in 0 .. k, NEW j \in 0 .. k, i <= j PROVE off2[i] <= off2[j]
    <3>1. i + 1 \in 0 .. m /\ j + 1 \in 0 .. m /\ i + 1 <= j + 1
      BY <2>1, <2>10
    <3>2. off[i + 1] <= off[j + 1] /\ off[i + 1] \in Nat /\ off[j + 1] \in Nat
      BY <1>4, <2>3, <3>1
    <3>3. off2[i] = off[i + 1] - c /\ off2[j] = off[j + 1] - c
      BY <2>5
    <3> QED BY <2>2, <3>2, <3>3
  <2>11. ASSUME NEW i \in 1 .. k
         PROVE  Link(dsss, pays, at2[i - 1], Slice(v, off2[i - 1], off2[i]), at2[i])
    <3> DEFINE a == off2[i - 1]
               b == off2[i]
               a1 == off[i]
               b1 == off[i + 1]
    <3>1. i \in 0 .. k /\ i - 1 \in 0 .. k /\ (i - 1) + 1 = i /\ i + 1 \in 1 .. m /\ (i + 1) - 1 = i /\ i - 1 <= i
      BY <2>1
    <3>2. /\ at2[i - 1] = at[i] /\ at2[i] = at[i + 1] /\ a = a1 - c /\ b = b1 - c
          /\ a \in 0 .. n - c /\ b \in 0 .. n - c /\ a <= b
          /\ a1 \in Nat /\ b1 \in Nat
      <4>1. at2[i - 1] = at[(i - 1) + 1] /\ at2[i] = at[i + 1] /\ a = off[(i - 1) + 1] - c /\ b = b1 - c
        BY <2>5, <3>1
      <4>2. off[(i - 1) + 1] = a1 /\ at[(i - 1) + 1] = at[i]
        BY <3>1
      <4>3. a \in 0 .. n - c /\ b \in 0 .. n - c /\ a <= b
        BY <2>8, <2>10, <3>1
      <4>4. off[(i - 1) + 1] \in Nat /\ b1 \in Nat
        BY <2>3, <3>1
      <4> QED BY <4>1, <4>2, <4>3, <4>4
    <3>3. Link(dsss, pays, at[i], Slice(w, a1, b1), at[i + 1])
      <4>1. Link(dsss, pays, at[(i + 1) - 1], Slice(w, off[(i + 1) - 1], b1), at[i + 1])
        BY <1>4, <3>1
      <4> QED BY <3>1, <4>1
    <3> HIDE DEF a, b, a1, b1
    <3>4. c + a = a1 /\ c + b = b1 /\ a \in Nat /\ b \in Nat /\ b <= n - c
      BY <1>2, <2>2, <3>2
    <3>5. Slice(v, a, b) = Slice(w, c + a, c + b)
      <4>1. Slice(Slice(w, c, n), a, b) = Slice(w, c + a, c + b)
        BY <1>2, <2>2, <3>2, <3>4, SliceOfSlice
      <4> QED BY <4>1 DEF v
    <3>6. Link(dsss, pays, at2[i - 1], Slice(v, a, b), at2[i])
      BY <3>2, <3>3, <3>4, <3>5
    <3> QED BY <3>6 DEF a, b
  <2>12. Segments(dsss, pays, v, r, q, k, at2, off2)
    <3>1. off2 \in [0 .. k -> 0 .. Len(v)] /\ off2[k] = Len(v)
      BY <2>6, <2>8, <2>9
    <3>2. \A i, j \in 0 .. k : i <= j => off2[i] <= off2[j]
      BY <2>10
    <3>3. k \in Nat /\ at2 \in [0 .. k -> Place]
      BY <2>1, <2>8
    <3> QED BY ONLY <2>9, <2>11, <3>1, <3>2, <3>3 DEF Segments
  <2>13. Begins(dsss, pays, w, p, q, e, r, v)
    <3>1. Stream(dsss, pays, v, r, q)
      BY <2>12 DEF Stream
    <3> QED BY <2>2, <2>4, <2>6, <2>7, <3>1 DEF Begins
  <2> QED BY <2>13
<1> QED BY <1>5, <1>6

-----------------------------------------------------------------------------
\* The frames of a turn and the payloads made of them.
Flow(dsss, pays) ==
  /\ dsss \in Seq(Frame) /\ pays \in Seq(Seq(Byte)) /\ Len(pays) = Len(dsss)
  /\ \A f \in 1 .. Len(dsss) : IsPayload(pays[f], dsss[f].cp, dsss[f].data)

\* What a flow says of one of its frames.
LEMMA FlowAt ==
  ASSUME NEW dsss, NEW pays, Flow(dsss, pays), NEW f \in 1 .. Len(dsss)
  PROVE  /\ dsss[f] \in Frame /\ pays[f] \in Seq(Byte) /\ Len(pays[f]) \in Nat
         /\ IsPayload(pays[f], dsss[f].cp, dsss[f].data)
<1>1. Len(pays) = Len(dsss) /\ dsss \in Seq(Frame) /\ pays \in Seq(Seq(Byte))
  BY DEF Flow
<1>2. dsss[f] \in Frame /\ pays[f] \in Seq(Byte)
  BY <1>1
<1>3. IsPayload(pays[f], dsss[f].cp, dsss[f].data)
  BY DEF Flow
<1> QED BY <1>2, <1>3

\* The fields of a record of this kind.
LEMMA RecordIs ==
  ASSUME NEW A, NEW B, NEW C, NEW D, NEW E, NEW F,
         NEW r \in [cp : A, data : B, type : C, chained : D, sameID : E, id : F]
  PROVE  /\ r.cp \in A /\ r.data \in B /\ r.type \in C /\ r.chained \in D /\ r.sameID \in E /\ r.id \in F
         /\ r = [cp |-> r.cp, data |-> r.data, type |-> r.type,
                 chained |-> r.chained, sameID |-> r.sameID, id |-> r.id]
<1>1. /\ r.cp \in A /\ r.data \in B /\ r.type \in C /\ r.chained \in D /\ r.sameID \in E /\ r.id \in F
  OBVIOUS
<1>2. r = [cp |-> r.cp, data |-> r.data, type |-> r.type,
                 chained |-> r.chained, sameID |-> r.sameID, id |-> r.id]
  OBVIOUS
<1> QED BY <1>1, <1>2
\* The fields of a frame.
LEMMA FrameIs ==
  ASSUME NEW dss \in Frame
  PROVE  /\ IsWord(dss.cp) /\ dss.data \in Seq(Byte) /\ dss.type \in 0 .. 15
         /\ dss.chained \in BOOLEAN /\ dss.sameID \in BOOLEAN /\ IsWord(dss.id)
         /\ dss = [cp |-> dss.cp, data |-> dss.data, type |-> dss.type,
                   chained |-> dss.chained, sameID |-> dss.sameID, id |-> dss.id]
<1> DEFINE T == 0 .. 15
           D == Seq(Byte)
           B == BOOLEAN
<1>1. dss \in [cp : UInt16, data : D, type : T, chained : B, sameID : B, id : UInt16]
  BY DEF Frame
<1> HIDE DEF D, B, T
<1>2. /\ dss.cp \in UInt16 /\ dss.data \in D /\ dss.type \in T /\ dss.chained \in B /\ dss.sameID \in B
      /\ dss.id \in UInt16
      /\ dss = [cp |-> dss.cp, data |-> dss.data, type |-> dss.type,
                chained |-> dss.chained, sameID |-> dss.sameID, id |-> dss.id]
  BY ONLY <1>1, RecordIs
<1>3. IsWord(dss.cp) /\ IsWord(dss.id)
  BY <1>2, WordIs
<1> QED BY <1>2, <1>3 DEF D, T, B

\* No frames are a flow ...
LEMMA FlowEmpty ==
  Flow(<<>>, <<>>)
BY DEF Flow

\* ... and one more with its payload makes it longer.
LEMMA FlowGrows ==
  ASSUME NEW dsss, NEW pays, Flow(dsss, pays), NEW dss \in Frame, NEW pay,
         IsPayload(pay, dss.cp, dss.data)
  PROVE  Flow(Append(dsss, dss), Append(pays, pay))
<1> DEFINE n == Len(dsss)
           d2 == Append(dsss, dss)
           p2 == Append(pays, pay)
<1>1. /\ dsss \in Seq(Frame) /\ pays \in Seq(Seq(Byte)) /\ Len(pays) = n /\ n \in Nat
      /\ \A f \in 1 .. n : IsPayload(pays[f], dsss[f].cp, dsss[f].data)
  BY DEF Flow
<1>2. pay \in Seq(Byte)
  BY DEF IsPayload
<1>3. /\ d2 \in Seq(Frame) /\ Len(d2) = n + 1 /\ d2[n + 1] = dss
      /\ \A f \in 1 .. n : d2[f] = dsss[f]
  BY <1>1, AppendProperties
<1>4. /\ p2 \in Seq(Seq(Byte)) /\ Len(p2) = n + 1 /\ p2[n + 1] = pay
      /\ \A f \in 1 .. n : p2[f] = pays[f]
  BY <1>1, <1>2, AppendProperties
<1> HIDE DEF n, d2, p2
<1>5. \A f \in 1 .. n + 1 : f \in 1 .. n \/ f = n + 1
  BY <1>1
<1>6. \A f \in 1 .. n + 1 : IsPayload(p2[f], d2[f].cp, d2[f].data)
  BY <1>1, <1>3, <1>4, <1>5
<1>7. Flow(d2, p2)
  BY ONLY <1>3, <1>4, <1>6 DEF Flow
<1> QED BY <1>7 DEF d2, p2

\* A longer turn holds the segments of a shorter one.
LEMMA LinkStays ==
  ASSUME NEW dsss, NEW pays, Flow(dsss, pays), NEW dss, NEW pay, NEW p, NEW e, NEW q,
         Link(dsss, pays, p, e, q)
  PROVE  Link(Append(dsss, dss), Append(pays, pay), p, e, q)
<1> DEFINE d2 == Append(dsss, dss)
           p2 == Append(pays, pay)
           n == Len(dsss)
<1>1. PICK f \in 1 .. Len(dsss), a \in Nat, b \in Nat :
        /\ a <= b /\ b <= Len(pays[f]) /\ q = After(pays, f, b)
        /\ \/ /\ p = <<f, 0, FALSE>> /\ a = 0
              /\ HeaderSize + b <= MaxSegment /\ e = FirstSegment(dsss, pays, f, b)
           \/ /\ p = <<f, a, TRUE>>
              /\ ContinuationSize + (b - a) <= MaxSegment /\ e = NextSegment(pays, f, a, b)
  BY DEF Link
<1>2. /\ \E S : dsss \in Seq(S) /\ pays \in Seq(Seq(Byte)) /\ Len(pays) = n /\ n \in Nat
  BY DEF Flow
<1>3. d2[f] = dsss[f] /\ f \in 1 .. Len(d2) /\ p2[f] = pays[f]
  <2>1. PICK S : dsss \in Seq(S)
    BY <1>2
  <2>2. d2[f] = dsss[f] /\ f \in 1 .. Len(d2)
    BY <1>2, <2>1
  <2>3. p2[f] = pays[f]
    BY <1>2
  <2> QED BY <2>2, <2>3
<1> HIDE DEF d2, p2, n
<1>4. /\ After(p2, f, b) = After(pays, f, b) /\ Len(p2[f]) = Len(pays[f])
      /\ FirstSegment(d2, p2, f, b) = FirstSegment(dsss, pays, f, b)
      /\ NextSegment(p2, f, a, b) = NextSegment(pays, f, a, b)
  BY <1>3 DEF After, FirstSegment, NextSegment
<1>5. Link(d2, p2, p, e, q)
  BY <1>1, <1>3, <1>4, Zenon DEF Link
<1> QED BY <1>5 DEF d2, p2

\* Streams stay streams when a frame is appended.
LEMMA StreamStays ==
  ASSUME NEW dsss, NEW pays, Flow(dsss, pays), NEW dss, NEW pay, NEW w, NEW p, NEW q,
         Stream(dsss, pays, w, p, q)
  PROVE  Stream(Append(dsss, dss), Append(pays, pay), w, p, q)
<1>1. PICK m, at, off : Segments(dsss, pays, w, p, q, m, at, off)
  BY DEF Stream
<1>2. \A i \in 1 .. m : Link(dsss, pays, at[i - 1], Slice(w, off[i - 1], off[i]), at[i])
  BY <1>1 DEF Segments
<1> DEFINE d2 == Append(dsss, dss)
           p2 == Append(pays, pay)
<1>3. \A i \in 1 .. m : Link(d2, p2, at[i - 1], Slice(w, off[i - 1], off[i]), at[i])
  BY <1>2, LinkStays
<1> HIDE DEF d2, p2
<1>4. Segments(d2, p2, w, p, q, m, at, off)
  BY <1>1, <1>3 DEF Segments
<1>5. Stream(d2, p2, w, p, q)
  BY <1>4 DEF Stream
<1> QED BY <1>5 DEF d2, p2

-----------------------------------------------------------------------------
\* The segments of a frame, and where they lead.
LEMMA FirstSegmentIs ==
  ASSUME NEW dsss, NEW pays, Flow(dsss, pays), NEW f \in 1 .. Len(dsss), NEW b \in Nat,
         b <= Len(pays[f]), HeaderSize + b <= MaxSegment
  PROVE  /\ Header(dsss[f], HeaderSize + b, b < Len(pays[f])) \in Seq(Byte)
         /\ Slice(pays[f], 0, b) \in Seq(Byte)
         /\ FirstSegment(dsss, pays, f, b) \in Seq(Byte) /\ After(pays, f, b) \in Place
         /\ Link(dsss, pays, <<f, 0, FALSE>>, FirstSegment(dsss, pays, f, b), After(pays, f, b))
<1> DEFINE n == HeaderSize + b
           c == b < Len(pays[f])
           dss == dsss[f]
           pay == pays[f]
           s == Slice(pays[f], 0, b)
           h == Header(dss, n, c)
<1>1. n \in 0 .. MaxSegment /\ c \in BOOLEAN /\ HeaderSize = 6
  BY SegmentSizes DEF HeaderSize
<1>2. dss \in Frame /\ pay \in Seq(Byte) /\ Len(pay) \in Nat
  BY FlowAt
<1>3. s \in Seq(Byte)
  <2>1. 0 \in Nat /\ 0 <= b /\ b <= Len(pay)
    OBVIOUS
  <2> HIDE DEF pay
  <2> QED BY <1>2, <2>1, SliceParts DEF pay
<1> HIDE DEF n, c, dss, s
<1>4. h \in Seq(Byte)
  <2>1. IsWord(dss.id) /\ dss.type \in 0 .. 15 /\ dss.chained \in BOOLEAN /\ dss.sameID \in BOOLEAN
    BY <1>2, FrameIs
  <2> QED BY ONLY <1>1, <2>1, HeaderReads
<1>5. FirstSegment(dsss, pays, f, b) = h \o s
  BY DEF FirstSegment, n, c, dss, s
<1> HIDE DEF h
<1>6. h \o s \in Seq(Byte)
  BY <1>3, <1>4, ConcatProperties
<1>7. After(pays, f, b) \in Place
  <2>1. f \in Nat /\ f + 1 \in Nat /\ 0 \in Nat
    OBVIOUS
  <2> QED BY <2>1 DEF After, Place
<1>8. Link(dsss, pays, <<f, 0, FALSE>>, FirstSegment(dsss, pays, f, b), After(pays, f, b))
  <2>1. 0 \in Nat /\ 0 <= b
    OBVIOUS
  <2> QED BY <2>1, Zenon DEF Link
<1> QED BY <1>3, <1>4, <1>5, <1>6, <1>7, <1>8 DEF h, n, c, dss, s

\* So is a later segment of a frame.
LEMMA NextSegmentIs ==
  ASSUME NEW dsss, NEW pays, Flow(dsss, pays), NEW f \in 1 .. Len(dsss), NEW a \in Nat, NEW b \in Nat,
         a <= b, b <= Len(pays[f]), ContinuationSize + (b - a) <= MaxSegment
  PROVE  /\ Word(ContinuationSize + (b - a), b < Len(pays[f])) \in Seq(Byte)
         /\ Slice(pays[f], a, b) \in Seq(Byte)
         /\ NextSegment(pays, f, a, b) \in Seq(Byte) /\ After(pays, f, b) \in Place
         /\ Link(dsss, pays, <<f, a, TRUE>>, NextSegment(pays, f, a, b), After(pays, f, b))
<1> DEFINE n == ContinuationSize + (b - a)
           c == b < Len(pays[f])
           pay == pays[f]
           s == Slice(pays[f], a, b)
           h == Word(n, c)
<1>1. n \in 0 .. MaxSegment /\ c \in BOOLEAN
  BY SegmentSizes DEF ContinuationSize
<1>2. pay \in Seq(Byte) /\ Len(pay) \in Nat
  BY FlowAt
<1>3. s \in Seq(Byte)
  <2>1. b <= Len(pay)
    OBVIOUS
  <2> HIDE DEF pay
  <2> QED BY <1>2, <2>1, SliceParts DEF pay
<1> HIDE DEF n, c, s
<1>4. h \in Seq(Byte)
  BY ONLY <1>1, WordReads
<1>5. NextSegment(pays, f, a, b) = h \o s
  BY DEF NextSegment, n, c, s
<1> HIDE DEF h
<1>6. h \o s \in Seq(Byte)
  BY <1>3, <1>4, ConcatProperties
<1>7. After(pays, f, b) \in Place
  <2>1. f \in Nat /\ f + 1 \in Nat /\ 0 \in Nat
    OBVIOUS
  <2> QED BY <2>1 DEF After, Place
<1>8. Link(dsss, pays, <<f, a, TRUE>>, NextSegment(pays, f, a, b), After(pays, f, b))
  BY Zenon DEF Link
<1> QED BY <1>3, <1>4, <1>5, <1>6, <1>7, <1>8 DEF h, n, c, s

\* The bytes x begin with the first segment of frame f, which takes b bytes of its payload ...
Opens(dsss, pays, x, q, f, b, v) ==
  /\ f \in 1 .. Len(dsss) /\ b \in Nat /\ b <= Len(pays[f]) /\ HeaderSize + b <= MaxSegment
  /\ v \in Seq(Byte) /\ x = FirstSegment(dsss, pays, f, b) \o v
  /\ Stream(dsss, pays, v, After(pays, f, b), q)

\* ... or with a later one that takes it from a to b.
GoesOn(dsss, pays, x, q, f, a, b, v) ==
  /\ f \in 1 .. Len(dsss) /\ b \in Nat /\ a <= b /\ b <= Len(pays[f])
  /\ ContinuationSize + (b - a) <= MaxSegment
  /\ v \in Seq(Byte) /\ x = NextSegment(pays, f, a, b) \o v
  /\ Stream(dsss, pays, v, After(pays, f, b), q)

\* At the start of a frame a stream begins with its first segment ...
LEMMA StreamOpens ==
  ASSUME NEW dsss, NEW pays, NEW x \in Seq(Byte), NEW f, NEW q, Stream(dsss, pays, x, <<f, 0, FALSE>>, q)
  PROVE  (x = <<>> /\ q = <<f, 0, FALSE>>) \/ \E b, v : Opens(dsss, pays, x, q, f, b, v)
<1> DEFINE p == <<f, 0, FALSE>>
<1> HIDE DEF p
<1>1. (x = <<>> /\ p = q) \/ \E e, r, v : Begins(dsss, pays, x, p, q, e, r, v)
  BY StreamBegins DEF p
<1>2. ASSUME NEW e, NEW r, NEW v, Begins(dsss, pays, x, p, q, e, r, v)
      PROVE  \E b : Opens(dsss, pays, x, q, f, b, v)
  <2>1. v \in Seq(Byte) /\ x = e \o v /\ Link(dsss, pays, p, e, r) /\ Stream(dsss, pays, v, r, q)
    BY <1>2 DEF Begins
  <2>2. PICK g \in 1 .. Len(dsss), a \in Nat, b \in Nat :
          /\ a <= b /\ b <= Len(pays[g]) /\ r = After(pays, g, b)
          /\ \/ /\ p = <<g, 0, FALSE>> /\ a = 0
                /\ HeaderSize + b <= MaxSegment /\ e = FirstSegment(dsss, pays, g, b)
             \/ /\ p = <<g, a, TRUE>>
                /\ ContinuationSize + (b - a) <= MaxSegment /\ e = NextSegment(pays, g, a, b)
    BY <2>1 DEF Link
  <2>3. p # <<g, a, TRUE>>
    BY DEF p
  <2>4. p = <<g, 0, FALSE>> => f = g
    BY DEF p
  <2>5. Opens(dsss, pays, x, q, f, b, v)
    BY <2>1, <2>2, <2>3, <2>4 DEF Opens
  <2> QED BY <2>5
<1> QED BY <1>1, <1>2 DEF p

\* ... and inside a frame with a later one.
LEMMA StreamGoesOn ==
  ASSUME NEW dsss, NEW pays, NEW x \in Seq(Byte), NEW f, NEW a, NEW q, Stream(dsss, pays, x, <<f, a, TRUE>>, q)
  PROVE  (x = <<>> /\ q = <<f, a, TRUE>>) \/ \E b, v : GoesOn(dsss, pays, x, q, f, a, b, v)
<1> DEFINE p == <<f, a, TRUE>>
<1> HIDE DEF p
<1>1. (x = <<>> /\ p = q) \/ \E e, r, v : Begins(dsss, pays, x, p, q, e, r, v)
  BY StreamBegins DEF p
<1>2. ASSUME NEW e, NEW r, NEW v, Begins(dsss, pays, x, p, q, e, r, v)
      PROVE  \E b : GoesOn(dsss, pays, x, q, f, a, b, v)
  <2>1. v \in Seq(Byte) /\ x = e \o v /\ Link(dsss, pays, p, e, r) /\ Stream(dsss, pays, v, r, q)
    BY <1>2 DEF Begins
  <2>2. PICK g \in 1 .. Len(dsss), c \in Nat, b \in Nat :
          /\ c <= b /\ b <= Len(pays[g]) /\ r = After(pays, g, b)
          /\ \/ /\ p = <<g, 0, FALSE>> /\ c = 0
                /\ HeaderSize + b <= MaxSegment /\ e = FirstSegment(dsss, pays, g, b)
             \/ /\ p = <<g, c, TRUE>>
                /\ ContinuationSize + (b - c) <= MaxSegment /\ e = NextSegment(pays, g, c, b)
    BY <2>1 DEF Link
  <2>3. p # <<g, 0, FALSE>>
    BY DEF p
  <2>4. p = <<g, c, TRUE>> => f = g /\ a = c
    BY DEF p
  <2>5. GoesOn(dsss, pays, x, q, f, a, b, v)
    BY <2>1, <2>2, <2>3, <2>4 DEF GoesOn
  <2> QED BY <2>5
<1> QED BY <1>1, <1>2 DEF p

-----------------------------------------------------------------------------
\* The reader of a DSS between two reads: the header it has, the bytes so far,
\* those that are still missing of the segment, whether another one follows.
Reader(phase, h, s, n, c) ==
  [phase |-> phase, header |-> h, body |-> s, need |-> n, continued |-> c]

\* The fields of a reader ...
LEMMA ReaderFields ==
  ASSUME NEW phase, NEW h, NEW s, NEW n, NEW c, NEW rd, rd = Reader(phase, h, s, n, c)
  PROVE  /\ rd.phase = phase /\ rd.header = h /\ rd.body = s /\ rd.need = n /\ rd.continued = c
BY DEF Reader

Waiting(rd, t) == [rd EXCEPT !.phase = "continuation", !.body = t]
Taking(rd, k, d) == [rd EXCEPT !.phase = "body", !.need = k, !.continued = d]

\* ... and what ReadBody ...
LEMMA ReaderWaits ==
  ASSUME NEW phase, NEW h, NEW s, NEW n, NEW c, NEW t
  PROVE  Waiting(Reader(phase, h, s, n, c), t) = Reader("continuation", h, t, n, c)
<1> DEFINE r == Reader(phase, h, s, n, c)
           p == [r EXCEPT !.phase = "continuation"]
<1>1. [r EXCEPT !.phase = "continuation", !.body = t] = [p EXCEPT !.body = t]
  OBVIOUS
<1>2. r = [phase |-> phase, header |-> h, body |-> s, need |-> n, continued |-> c]
  BY DEF Reader
<1> HIDE DEF r
<1>3. p = [phase |-> "continuation", header |-> h, body |-> s, need |-> n, continued |-> c]
  BY ONLY <1>2, SMT
<1> HIDE DEF p
<1>4. [p EXCEPT !.body = t] = [phase |-> "continuation", header |-> h, body |-> t, need |-> n, continued |-> c]
  BY ONLY <1>3, SMT
<1> QED BY <1>1, <1>4 DEF r, Reader, Waiting

\* ... and ReadContinuation change of them.
LEMMA ReaderTakes ==
  ASSUME NEW phase, NEW h, NEW s, NEW n, NEW c, NEW k, NEW d
  PROVE  Taking(Reader(phase, h, s, n, c), k, d) = Reader("body", h, s, k, d)
<1> DEFINE r == Reader(phase, h, s, n, c)
           p == [r EXCEPT !.phase = "body"]
           q == [p EXCEPT !.need = k]
<1>1. [r EXCEPT !.phase = "body", !.need = k, !.continued = d] = [q EXCEPT !.continued = d]
  OBVIOUS
<1>2. r = [phase |-> phase, header |-> h, body |-> s, need |-> n, continued |-> c]
  BY DEF Reader
<1> HIDE DEF r
<1>3. p = [phase |-> "body", header |-> h, body |-> s, need |-> n, continued |-> c]
  BY ONLY <1>2, SMT
<1> HIDE DEF p
<1>4. q = [phase |-> "body", header |-> h, body |-> s, need |-> k, continued |-> c]
  BY ONLY <1>3, SMT
<1> HIDE DEF q
<1>5. [q EXCEPT !.continued = d] = [phase |-> "body", header |-> h, body |-> s, need |-> k, continued |-> d]
  BY ONLY <1>4, SMT
<1> QED BY <1>1, <1>5 DEF r, Reader, Taking

\* A header that has been read off the frame's first segment.
HeaderOf(h, dss) ==
  h.type = dss.type /\ h.chained = dss.chained /\ h.sameID = dss.sameID /\ h.id = dss.id

\* The reader has a bytes of frame f and a segment with those up to b in front of it ...
InBody(dsss, pays, q, x, f, rd, a, b, v) ==
  /\ f \in 1 .. Len(dsss) /\ a \in Nat /\ b \in Nat /\ a <= b /\ b <= Len(pays[f]) /\ Fits(b)
  /\ \E h, c : /\ HeaderOf(h, dsss[f]) /\ c \in BOOLEAN /\ c = (b < Len(pays[f]))
               /\ rd = Reader("body", h, Slice(pays[f], 0, a), b - a, c)
  /\ v \in Seq(Byte) /\ x = Slice(pays[f], a, b) \o v
  /\ Stream(dsss, pays, v, After(pays, f, b), q)

\* ... or another segment, of which it has read nothing.
InContinuation(dsss, pays, q, x, f, rd, a) ==
  /\ f \in 1 .. Len(dsss) /\ a \in Nat /\ a < Len(pays[f]) /\ Fits(a)
  /\ \E h, n, c : /\ HeaderOf(h, dsss[f])
                  /\ rd = Reader("continuation", h, Slice(pays[f], 0, a), n, c)
  /\ x \in Seq(Byte) /\ Stream(dsss, pays, x, <<f, a, TRUE>>, q)

\* The bytes x are what a reader of frame f may still expect up to the writer's place q.
Expects(dsss, pays, q, x, f, rd) ==
  \/ rd = AtHeader /\ x \in Seq(Byte) /\ Stream(dsss, pays, x, <<f, 0, FALSE>>, q)
  \/ \E a, b, v : InBody(dsss, pays, q, x, f, rd, a, b, v)
  \/ \E a : InContinuation(dsss, pays, q, x, f, rd, a)

\* What the writer has not written of the last frame, and where it is.
WriterAt(dsss, pays, left, q) ==
  \/ left = <<>> /\ q = <<Len(dsss) + 1, 0, FALSE>>
  \/ /\ left # <<>> /\ Len(dsss) \in 1 .. Len(dsss)
     /\ \E a \in Nat : /\ a < Len(pays[Len(dsss)]) /\ q = <<Len(dsss), a, TRUE>>
                       /\ left = Slice(pays[Len(dsss)], a, Len(pays[Len(dsss)]))

-----------------------------------------------------------------------------
\* Taking the front of what is on the wire, the lost bytes behind it or not.
IsWhole(w, lost, u, v) == w \o lost = u \o v

\* Bytes behind bytes are bytes,
LEMMA JoinIsSeq ==
  ASSUME NEW u \in Seq(Byte), NEW v \in Seq(Byte)
  PROVE  u \o v \in Seq(Byte) /\ Len(u \o v) = Len(u) + Len(v) /\ u \o <<>> = u
BY JoinParts, ConcatEmptySeq

\* and joining them is associative.
LEMMA JoinThree ==
  ASSUME NEW u \in Seq(Byte), NEW v \in Seq(Byte), NEW x \in Seq(Byte)
  PROVE  (u \o v) \o x = u \o (v \o x) /\ v \o x \in Seq(Byte)
<1>1. (u \o v) \o x = u \o (v \o x)
  BY JoinsAssociate
<1>2. v \o x \in Seq(Byte)
  BY JoinIsSeq
<1> QED BY <1>1, <1>2

Taken(w, lost, n, u, v) ==
  /\ SubSeq(w, 1, n) = u /\ SubSeq(w, n + 1, Len(w)) \in Seq(Byte)
  /\ SubSeq(w, n + 1, Len(w)) \o lost = v

\* What is read off the front of the wire is the front of what was written.
LEMMA FrontTaken ==
  ASSUME NEW w \in Seq(Byte), NEW lost \in Seq(Byte), NEW u \in Seq(Byte), NEW v \in Seq(Byte),
         NEW n \in Nat, n = Len(u), n <= Len(w), IsWhole(w, lost, u, v)
  PROVE  Taken(w, lost, n, u, v)
<1> DEFINE s == SubSeq(w, 1, n)
           t == SubSeq(w, n + 1, Len(w))
<1>1. s \in Seq(Byte) /\ t \in Seq(Byte) /\ Len(s) = n /\ s \o t = w
  BY CutParts, ZenonT(60)
<1> HIDE DEF s, t
<1>2. (s \o t) \o lost = s \o (t \o lost) /\ t \o lost \in Seq(Byte)
  <2>1. s \in Seq(Byte) /\ t \in Seq(Byte)
    BY <1>1
  <2> QED BY ONLY <2>1, JoinThree, lost \in Seq(Byte), SMTT(60)
<1>3. SameSplit(s, t \o lost, u, v)
  BY <1>1, <1>2 DEF SameSplit, IsWhole
<1>4. s = u /\ t \o lost = v
  BY ONLY <1>1, <1>2, <1>3, SameParts, u \in Seq(Byte), v \in Seq(Byte)
<1> QED BY <1>1, <1>4 DEF s, t, Taken

-----------------------------------------------------------------------------
\* A reader at a header finds one, and then the rest of its segment.
LEMMA HeaderStep ==
  ASSUME NEW dsss, NEW pays, Flow(dsss, pays), NEW w \in Seq(Byte), NEW lost \in Seq(Byte), NEW f, NEW q,
         Stream(dsss, pays, w \o lost, <<f, 0, FALSE>>, q), Len(w) >= HeaderSize
  PROVE  /\ w[3] = Magic /\ ~ (ParsedHeader(SubSeq(w, 1, HeaderSize)).length < HeaderSize)
         /\ \E b, v :
              InBody(dsss, pays, q, SubSeq(w, HeaderSize + 1, Len(w)) \o lost, f,
                     Reader("body", ParsedHeader(SubSeq(w, 1, HeaderSize)), <<>>,
                            ParsedHeader(SubSeq(w, 1, HeaderSize)).length - HeaderSize,
                            ParsedHeader(SubSeq(w, 1, HeaderSize)).continued),
                     0, b, v)
<1> DEFINE x == w \o lost
<1>0. HeaderSize = 6 /\ Len(w) \in Nat
  BY DEF HeaderSize
<1>1. x \in Seq(Byte) /\ x # <<>>
  <2>1. x \in Seq(Byte) /\ Len(x) = Len(w) + Len(lost) /\ Len(lost) \in Nat
    BY JoinIsSeq
  <2> HIDE DEF x
  <2>2. Len(x) # 0
    BY <1>0, <2>1
  <2> QED BY <2>1, <2>2
<1>2. Stream(dsss, pays, x, <<f, 0, FALSE>>, q)
  OBVIOUS
<1> HIDE DEF x
<1>3. PICK b, v : Opens(dsss, pays, x, q, f, b, v)
  BY <1>1, <1>2, StreamOpens
<1> DEFINE dss == dsss[f]
           pay == pays[f]
           c == b < Len(pays[f])
           h == Header(dsss[f], HeaderSize + b, b < Len(pays[f]))
           s == Slice(pays[f], 0, b)
           ph == ParsedHeader(SubSeq(w, 1, HeaderSize))
           w2 == SubSeq(w, HeaderSize + 1, Len(w))
           n == HeaderSize + b
<1>4. /\ f \in 1 .. Len(dsss) /\ b \in Nat /\ b <= Len(pay) /\ HeaderSize + b <= MaxSegment
      /\ v \in Seq(Byte) /\ x = (h \o s) \o v /\ Stream(dsss, pays, v, After(pays, f, b), q)
  BY <1>3 DEF Opens, FirstSegment
<1>5. dss \in Frame /\ pay \in Seq(Byte)
  BY <1>4, FlowAt
<1>6. h \in Seq(Byte) /\ s \in Seq(Byte)
  BY <1>4, FirstSegmentIs
<1>7. n \in 0 .. MaxSegment /\ c \in BOOLEAN /\ n - HeaderSize = b /\ ~ (n < HeaderSize) /\ Fits(b)
  <2>1. n \in 0 .. MaxSegment /\ n - HeaderSize = b /\ ~ (n < HeaderSize)
    BY <1>0, <1>4, SegmentSizes
  <2>2. Fits(b)
    <3>1. b <= MaxSegment
      BY <1>0, <1>4, SegmentSizes
    <3> QED BY <1>4, <3>1, SegmentSizes, WordsFit
  <2> QED BY <2>1, <2>2
<1>8. /\ Len(h) = HeaderSize /\ h[3] = Magic
      /\ ParsedHeader(h) = [continued |-> c, length |-> n, type |-> dss.type, chained |-> dss.chained,
                            sameID |-> dss.sameID, id |-> dss.id]
  <2>1. IsWord(dss.id) /\ dss.type \in 0 .. 15 /\ dss.chained \in BOOLEAN /\ dss.sameID \in BOOLEAN
    BY <1>5, FrameIs
  <2>2. h = Header(dss, n, c)
    OBVIOUS
  <2> HIDE DEF h, n, c, dss
  <2> QED BY ONLY <1>7, <2>1, <2>2, HeaderReads
<1> HIDE DEF h, s, dss, n, c
<1>9. SubSeq(w, 1, HeaderSize) = h /\ w2 \in Seq(Byte) /\ w2 \o lost = s \o v
  <2>1. (h \o s) \o v = h \o (s \o v) /\ s \o v \in Seq(Byte)
    <3>1. v \in Seq(Byte)
      BY <1>4
    <3> QED BY ONLY <1>6, <3>1, JoinThree, SMTT(60)
  <2> DEFINE y == s \o v
  <2>2. IsWhole(w, lost, h, y)
    BY <1>4, <2>1 DEF IsWhole, x
  <2>3. HeaderSize \in Nat /\ HeaderSize <= Len(w) /\ HeaderSize = Len(h)
    BY <1>0, <1>8
  <2>4. y \in Seq(Byte)
    BY <2>1
  <2> HIDE DEF y
  <2>5. Taken(w, lost, HeaderSize, h, y)
    BY <1>6, <2>2, <2>3, <2>4, FrontTaken, w \in Seq(Byte), lost \in Seq(Byte)
  <2> QED BY <2>5 DEF y, Taken
<1>10. w[3] = Magic
  <2>1. \A i \in 1 .. HeaderSize - 0 : Slice(w, 0, HeaderSize)[i] = w[0 + i]
    <3>1. 0 \in Nat /\ HeaderSize \in Nat /\ 0 <= HeaderSize /\ HeaderSize <= Len(w)
      BY <1>0
    <3> QED BY ONLY <3>1, SliceParts, w \in Seq(Byte)
  <2>2. Slice(w, 0, HeaderSize) = h
    <3>1. 0 + 1 = 1
      OBVIOUS
    <3> QED BY <1>9, <3>1 DEF Slice
  <2>3. 3 \in 1 .. HeaderSize - 0 /\ 0 + 3 = 3
    BY <1>0
  <2> QED BY <1>8, <2>1, <2>2, <2>3
<1>11. ph = ParsedHeader(h)
  BY <1>9
<1> HIDE DEF ph
<1>12. /\ ph.length = n /\ ph.continued = c /\ HeaderOf(ph, dss)
  BY <1>8, <1>11 DEF HeaderOf
<1>13. Slice(pay, 0, 0) = <<>>
  BY <1>5, SliceEmpty
<1>14. b - 0 = b /\ 0 <= b /\ 0 \in Nat
  BY <1>4
<1>15. InBody(dsss, pays, q, w2 \o lost, f, Reader("body", ph, <<>>, ph.length - HeaderSize, ph.continued), 0, b, v)
  <2>1. Reader("body", ph, <<>>, ph.length - HeaderSize, ph.continued)
          = Reader("body", ph, Slice(pay, 0, 0), b - 0, c)
    BY <1>7, <1>12, <1>13, <1>14
  <2> DEFINE rd == Reader("body", ph, <<>>, ph.length - HeaderSize, ph.continued)
  <2>2. rd = Reader("body", ph, Slice(pay, 0, 0), b - 0, c)
    BY <2>1
  <2> HIDE DEF rd
  <2>3. \E h1, c1 : /\ HeaderOf(h1, dsss[f]) /\ c1 \in BOOLEAN /\ c1 = (b < Len(pays[f]))
                    /\ rd = Reader("body", h1, Slice(pays[f], 0, 0), b - 0, c1)
    <3>1. HeaderOf(ph, dsss[f]) /\ c \in BOOLEAN /\ c = (b < Len(pays[f]))
      BY <1>7, <1>12 DEF dss, c
    <3> QED BY <2>2, <3>1
  <2>4. w2 \o lost = Slice(pays[f], 0, b) \o v
    BY <1>9 DEF s
  <2>5. InBody(dsss, pays, q, w2 \o lost, f, rd, 0, b, v)
    BY <1>4, <1>7, <1>14, <2>3, <2>4 DEF InBody
  <2> QED BY <2>5 DEF rd
<1> QED BY <1>7, <1>10, <1>12, <1>15 DEF ph

\* What the reader of a segment has behind it: another segment of the frame to wait for,
\* or the frame as it was sent and what follows it.
BodyRead(dsss, pays, q, w, lost, f, rd, b) ==
  LET body == rd.body \o SubSeq(w, 1, rd.need)
      x    == SubSeq(w, rd.need + 1, Len(w)) \o lost
  IN  /\ SubSeq(w, rd.need + 1, Len(w)) \in Seq(Byte)
      /\ rd.continued => InContinuation(dsss, pays, q, x, f,
                           [rd EXCEPT !.phase = "continuation", !.body = body], b)
      /\ ~ rd.continued =>
           /\ ObjectData(body) = {dsss[f].data}
           /\ Read(rd.header, CodePointOf(body), dsss[f].data) = dsss[f]
           /\ x \in Seq(Byte) /\ Stream(dsss, pays, x, <<f + 1, 0, FALSE>>, q)
      /\ f \in 1 .. Len(dsss) /\ rd.header.chained = dsss[f].chained

\* Behind a segment: the reader waits for another one, or has the frame.
LEMMA BodyStep ==
  ASSUME NEW dsss, NEW pays, Flow(dsss, pays), NEW w \in Seq(Byte), NEW lost \in Seq(Byte),
         NEW f, NEW q, NEW rd, NEW a, NEW b, NEW v,
         InBody(dsss, pays, q, w \o lost, f, rd, a, b, v), rd.need <= Len(w)
  PROVE  BodyRead(dsss, pays, q, w, lost, f, rd, b)
<1> DEFINE pay == pays[f]
           dss == dsss[f]
           s == Slice(pays[f], 0, a)
           t == Slice(pays[f], a, b)
           n == b - a
           x == SubSeq(w, n + 1, Len(w)) \o lost
           u == SubSeq(w, 1, n)
           w2 == SubSeq(w, n + 1, Len(w))
<1>1. /\ f \in 1 .. Len(dsss) /\ a \in Nat /\ b \in Nat /\ a <= b /\ b <= Len(pay) /\ Fits(b)
      /\ v \in Seq(Byte) /\ w \o lost = t \o v
      /\ Stream(dsss, pays, v, After(pays, f, b), q)
  BY DEF InBody
<1>2. PICK h, c : /\ HeaderOf(h, dss) /\ c \in BOOLEAN /\ c = (b < Len(pay))
                  /\ rd = Reader("body", h, s, n, c)
  BY DEF InBody
<1>3. dss \in Frame /\ pay \in Seq(Byte) /\ IsPayload(pay, dss.cp, dss.data)
  BY <1>1, FlowAt
<1>4. n \in Nat /\ 0 \in Nat /\ 0 <= a /\ a <= Len(pay)
  <2>1. Len(pay) \in Nat
    BY <1>1, FlowAt
  <2> QED BY <1>1, <2>1
<1>5. s \in Seq(Byte) /\ t \in Seq(Byte) /\ Len(t) = n
  <2>1. pay \in Seq(Byte) /\ a \in Nat /\ b \in Nat /\ a <= b /\ b <= Len(pay) /\ 0 \in Nat /\ 0 <= a /\ a <= Len(pay)
    BY <1>1, <1>3, <1>4
  <2> HIDE DEF pay
  <2>2. Slice(pay, 0, a) \in Seq(Byte)
    BY ONLY <2>1, SliceParts
  <2>3. Slice(pay, a, b) \in Seq(Byte) /\ Len(Slice(pay, a, b)) = b - a
    BY ONLY <2>1, SliceParts
  <2> QED BY <2>2, <2>3 DEF pay
<1>6. /\ rd.header = h /\ rd.body = s /\ rd.need = n /\ rd.continued = c
      /\ \A y : [rd EXCEPT !.phase = "continuation", !.body = y] = Reader("continuation", h, y, n, c)
  <2>0. rd = Reader("body", h, s, n, c)
    BY <1>2
  <2> HIDE DEF s, n
  <2>1. rd.header = h /\ rd.body = s /\ rd.need = n /\ rd.continued = c
    BY ONLY <2>0, ReaderFields
  <2>2. ASSUME NEW y PROVE [rd EXCEPT !.phase = "continuation", !.body = y] = Reader("continuation", h, y, n, c)
    <3>1. Waiting(rd, y) = Reader("continuation", h, y, n, c)
      BY <2>0, ReaderWaits
    <3> QED BY <3>1 DEF Waiting
  <2> QED BY <2>1, <2>2
<1>7. u = t /\ w2 \in Seq(Byte) /\ w2 \o lost = v
  <2>1. IsWhole(w, lost, t, v)
    BY <1>1 DEF IsWhole
  <2>2. n <= Len(w)
    BY <1>6
  <2> HIDE DEF n, t
  <2>3. Taken(w, lost, n, t, v)
    BY <1>1, <1>4, <1>5, <2>1, <2>2, FrontTaken
  <2> QED BY <2>3 DEF Taken
<1>8. s \o t = Slice(pay, 0, b)
  <2>1. pay \in Seq(Byte) /\ a \in Nat /\ b \in Nat /\ a <= b /\ b <= Len(pay) /\ 0 \in Nat /\ 0 <= a
    BY <1>1, <1>3, <1>4
  <2> HIDE DEF pay
  <2>2. Slice(pay, 0, a) \o Slice(pay, a, b) = Slice(pay, 0, b)
    BY ONLY <2>1, SliceJoin
  <2> QED BY <2>2 DEF pay
<1> HIDE DEF s, t, u, w2
<1> DEFINE body == rd.body \o SubSeq(w, 1, rd.need)
           y == SubSeq(w, rd.need + 1, Len(w)) \o lost
<1>9. body = Slice(pay, 0, b) /\ y = v /\ SubSeq(w, rd.need + 1, Len(w)) \in Seq(Byte)
  BY <1>6, <1>7, <1>8 DEF u, w2
<1>10. ASSUME rd.continued
       PROVE  InContinuation(dsss, pays, q, y, f, [rd EXCEPT !.phase = "continuation", !.body = body], b)
  <2>1. b < Len(pay)
    BY <1>2, <1>6, <1>10
  <2>2. Stream(dsss, pays, v, <<f, b, TRUE>>, q)
    BY <1>1, <2>1 DEF After
  <2> DEFINE r == [rd EXCEPT !.phase = "continuation", !.body = body]
  <2>3. r = Reader("continuation", h, Slice(pay, 0, b), n, c)
    BY <1>6, <1>9
  <2> HIDE DEF r, body, y
  <2>4. \E h1, n1, c1 : HeaderOf(h1, dsss[f]) /\ r = Reader("continuation", h1, Slice(pays[f], 0, b), n1, c1)
    BY <1>2, <2>3
  <2>5. InContinuation(dsss, pays, q, y, f, r, b)
    BY <1>1, <1>9, <2>1, <2>2, <2>4 DEF InContinuation
  <2> QED BY <2>5 DEF r
<1>11. ASSUME ~ rd.continued
       PROVE  /\ ObjectData(body) = {dss.data} /\ Read(rd.header, CodePointOf(body), dss.data) = dss
              /\ y \in Seq(Byte) /\ Stream(dsss, pays, y, <<f + 1, 0, FALSE>>, q)
  <2>1. ~ (b < Len(pay))
    BY <1>2, <1>6, <1>11
  <2>2. b = Len(pay)
    <3>1. Len(pay) \in Nat
      BY <1>1, FlowAt
    <3> QED BY <1>1, <2>1, <3>1
  <2>3. body = pay
    <3>1. Slice(pay, 0, Len(pay)) = pay
      BY <1>3, SliceWhole
    <3> QED BY <1>9, <2>2, <3>1
  <2>4. Fits(Len(dss.data))
    <3>1. Len(dss.data) <= b
      BY <1>3, <2>2 DEF IsPayload
    <3>2. Len(dss.data) \in Nat
      <4>1. dss.data \in Seq(Byte)
        BY <1>3, FrameIs
      <4> HIDE DEF dss
      <4> QED BY <4>1
    <3> HIDE DEF dss, pay
    <3> QED BY <1>1, <3>1, <3>2, WordsFit
  <2>5. CodePointOf(pay) = dss.cp /\ ObjectData(pay) = {dss.data}
    BY <1>3, <2>4 DEF IsPayload
  <2>6. Read(h, dss.cp, dss.data) = dss
    <3>1. dss = [cp |-> dss.cp, data |-> dss.data, type |-> dss.type,
                 chained |-> dss.chained, sameID |-> dss.sameID, id |-> dss.id]
      BY <1>3, FrameIs
    <3>2. h.type = dss.type /\ h.chained = dss.chained /\ h.sameID = dss.sameID /\ h.id = dss.id
      BY <1>2 DEF HeaderOf
    <3> HIDE DEF dss
    <3>3. Read(h, dss.cp, dss.data)
            = [cp |-> dss.cp, data |-> dss.data, type |-> dss.type,
               chained |-> dss.chained, sameID |-> dss.sameID, id |-> dss.id]
      BY ONLY <3>2 DEF Read
    <3> QED BY <3>1, <3>3
  <2>7. Stream(dsss, pays, v, <<f + 1, 0, FALSE>>, q)
    BY <1>1, <2>1 DEF After
  <2> HIDE DEF body, y, pay, dss
  <2> QED BY <1>1, <1>6, <1>9, <2>3, <2>5, <2>6, <2>7
<1>12. rd.header.chained = dsss[f].chained
  BY <1>2, <1>6 DEF HeaderOf
<1> QED BY <1>1, <1>9, <1>10, <1>11, <1>12 DEF BodyRead

\* A reader between two segments finds the length of the next one.
LEMMA ContinuationStep ==
  ASSUME NEW dsss, NEW pays, Flow(dsss, pays), NEW w \in Seq(Byte), NEW lost \in Seq(Byte),
         NEW f, NEW q, NEW rd, NEW a,
         InContinuation(dsss, pays, q, w \o lost, f, rd, a), Len(w) >= ContinuationSize
  PROVE  LET word == NumberOf(SubSeq(w, 1, ContinuationSize))
             n    == LengthOf(word) - ContinuationSize
             w2   == SubSeq(w, ContinuationSize + 1, Len(w))
         IN  /\ ~ (n < 0) /\ w2 \in Seq(Byte)
             /\ Len(rd.body) + n > MaxPayload => Oversize(dsss[f])
             /\ ~ (Len(rd.body) + n > MaxPayload) =>
                  \E b, v : InBody(dsss, pays, q, w2 \o lost, f,
                              [rd EXCEPT !.phase = "body", !.need = n, !.continued = HasFlag(word)],
                              a, b, v)
             /\ f \in 1 .. Len(dsss)
<1> DEFINE x == w \o lost
           pay == pays[f]
           dss == dsss[f]
<1>0. ContinuationSize = 2 /\ Len(w) \in Nat
  BY DEF ContinuationSize
<1>1. /\ f \in 1 .. Len(dsss) /\ a \in Nat /\ a < Len(pay) /\ Fits(a)
      /\ x \in Seq(Byte) /\ Stream(dsss, pays, x, <<f, a, TRUE>>, q)
  BY DEF InContinuation
<1>2. PICK h, n0, c0 : HeaderOf(h, dss) /\ rd = Reader("continuation", h, Slice(pay, 0, a), n0, c0)
  BY DEF InContinuation
<1>3. x # <<>>
  <2>1. Len(x) = Len(w) + Len(lost) /\ Len(lost) \in Nat
    BY JoinIsSeq
  <2> HIDE DEF x
  <2>2. Len(x) # 0
    BY <1>0, <2>1
  <2> QED BY <2>2
<1> HIDE DEF x
<1>4. PICK b, v : GoesOn(dsss, pays, x, q, f, a, b, v)
  BY <1>1, <1>3, StreamGoesOn
<1> DEFINE m == ContinuationSize + (b - a)
           c == b < Len(pays[f])
           l == Word(ContinuationSize + (b - a), b < Len(pays[f]))
           t == Slice(pays[f], a, b)
           word == NumberOf(SubSeq(w, 1, ContinuationSize))
           n == LengthOf(word) - ContinuationSize
           w2 == SubSeq(w, ContinuationSize + 1, Len(w))
<1>5. /\ b \in Nat /\ a <= b /\ b <= Len(pay) /\ m <= MaxSegment
      /\ v \in Seq(Byte) /\ x = (l \o t) \o v /\ Stream(dsss, pays, v, After(pays, f, b), q)
  BY <1>4 DEF GoesOn, NextSegment
<1>6. dss \in Frame /\ pay \in Seq(Byte) /\ Len(pay) \in Nat /\ IsPayload(pay, dss.cp, dss.data)
  BY <1>1, FlowAt
<1>7. l \in Seq(Byte) /\ t \in Seq(Byte)
  BY <1>1, <1>5, NextSegmentIs
<1>8. m \in 0 .. MaxSegment /\ c \in BOOLEAN /\ m - ContinuationSize = b - a
  BY <1>0, <1>1, <1>5, SegmentSizes
<1>9. /\ Len(l) = ContinuationSize /\ HasFlag(NumberOf(l)) = c /\ LengthOf(NumberOf(l)) = m
  <2>1. l = Word(m, c)
    OBVIOUS
  <2> HIDE DEF l, m, c
  <2>2. Len(Word(m, c)) = 2 /\ HasFlag(NumberOf(Word(m, c))) = c /\ LengthOf(NumberOf(Word(m, c))) = m
    BY ONLY <1>8, WordReads
  <2> QED BY <1>0, <2>1, <2>2
<1> HIDE DEF l, m, c, t
<1>10. SubSeq(w, 1, ContinuationSize) = l /\ w2 \in Seq(Byte) /\ w2 \o lost = t \o v
  <2>1. (l \o t) \o v = l \o (t \o v) /\ t \o v \in Seq(Byte)
    <3>1. v \in Seq(Byte)
      BY <1>5
    <3>2. l \in Seq(Byte) /\ t \in Seq(Byte)
      BY <1>7
    <3> HIDE DEF pay, dss, word, n, w2
    <3>3. t \o v \in Seq(Byte)
      BY ONLY <3>1, <3>2, JoinIsSeq
    <3>4. (l \o t) \o v = l \o (t \o v)
      <4> DEFINE ll == l
                 tt == t
      <4>1. ll \in Seq(Byte) /\ tt \in Seq(Byte)
        BY <3>2
      <4> HIDE DEF ll, tt
      <4>2. (ll \o tt) \o v = ll \o (tt \o v)
        BY ONLY <3>1, <4>1, JoinThree, SMTT(60)
      <4> QED BY ONLY <4>2 DEF ll, tt
    <3> QED BY <3>3, <3>4
  <2> DEFINE y == t \o v
  <2>2. IsWhole(w, lost, l, y)
    BY <1>5, <2>1 DEF IsWhole, x
  <2>3. ContinuationSize \in Nat /\ ContinuationSize <= Len(w) /\ ContinuationSize = Len(l)
    BY <1>0, <1>9
  <2>4. y \in Seq(Byte)
    BY <2>1
  <2> HIDE DEF y
  <2>5. Taken(w, lost, ContinuationSize, l, y)
    BY <1>7, <2>2, <2>3, <2>4, FrontTaken, w \in Seq(Byte), lost \in Seq(Byte)
  <2> QED BY <2>5 DEF y, Taken
<1>11. n = b - a /\ HasFlag(word) = c
  BY <1>8, <1>9, <1>10
<1>12. ~ (n < 0)
  BY <1>1, <1>5, <1>11
<1>13. /\ rd.body = Slice(pay, 0, a) /\ Len(rd.body) = a
       /\ \A k, d : [rd EXCEPT !.phase = "body", !.need = k, !.continued = d]
                      = Reader("body", h, Slice(pay, 0, a), k, d)
  <2> DEFINE s == Slice(pay, 0, a)
  <2>0. rd = Reader("continuation", h, s, n0, c0)
    BY <1>2
  <2> HIDE DEF s
  <2>1. rd.body = s
    BY ONLY <2>0, ReaderFields
  <2>2. ASSUME NEW k, NEW d
        PROVE  [rd EXCEPT !.phase = "body", !.need = k, !.continued = d]
                 = Reader("body", h, s, k, d)
    <3>1. Taking(rd, k, d) = Reader("body", h, s, k, d)
      BY <2>0, ReaderTakes
    <3> QED BY <3>1 DEF Taking
  <2>3. Len(Slice(pay, 0, a)) = a
    <3>1. 0 \in Nat /\ 0 <= a /\ a <= Len(pay) /\ a - 0 = a /\ a \in Nat /\ pay \in Seq(Byte)
      BY <1>1, <1>6
    <3> HIDE DEF pay
    <3> QED BY ONLY <3>1, SliceParts
  <2> QED BY <2>1, <2>2, <2>3 DEF s
<1> HIDE DEF n, word
<1>14. Len(rd.body) + n = b
  <2>1. Len(rd.body) = a /\ n = b - a
    BY ONLY <1>11, <1>13
  <2>2. a + (b - a) = b
    BY ONLY <1>1, <1>5
  <2> QED BY ONLY <2>1, <2>2
<1>15. ASSUME Len(rd.body) + n > MaxPayload PROVE Oversize(dss)
  <2>1. Len(dss.data) \in Nat
    <3>1. dss.data \in Seq(Byte)
      BY <1>6, FrameIs
    <3> HIDE DEF dss
    <3> QED BY <3>1
  <2>2. Len(pay) <= Len(dss.data) + 12
    BY <1>6 DEF IsPayload
  <2>3. MaxPayload \in Nat
    BY SegmentSizes, WordsFit
  <2>4. Len(dss.data) + 12 > MaxPayload
    <3>1. b > MaxPayload
      BY <1>14, <1>15
    <3> HIDE DEF dss, pay, n
    <3> QED BY <1>5, <1>6, <2>1, <2>2, <2>3, <3>1
  <2> QED BY <2>4 DEF Oversize
<1>16. ASSUME ~ (Len(rd.body) + n > MaxPayload)
       PROVE  InBody(dsss, pays, q, w2 \o lost, f,
                [rd EXCEPT !.phase = "body", !.need = n, !.continued = HasFlag(word)], a, b, v)
  <2>1. Fits(b)
    <3>1. MaxPayload \in Nat /\ Fits(MaxPayload)
      BY SegmentSizes, WordsFit
    <3>2. b <= MaxPayload
      BY <1>5, <1>14, <1>16, <3>1
    <3> QED BY <1>5, <3>1, <3>2, WordsFit
  <2> DEFINE r == [rd EXCEPT !.phase = "body", !.need = n, !.continued = HasFlag(word)]
  <2>2. r = Reader("body", h, Slice(pay, 0, a), b - a, c)
    BY <1>11, <1>13
  <2> HIDE DEF r
  <2>3. \E h1, c1 : /\ HeaderOf(h1, dsss[f]) /\ c1 \in BOOLEAN /\ c1 = (b < Len(pays[f]))
                    /\ r = Reader("body", h1, Slice(pays[f], 0, a), b - a, c1)
    BY <1>2, <1>8, <2>2 DEF c
  <2>4. w2 \o lost = Slice(pays[f], a, b) \o v
    BY <1>10 DEF t
  <2> HIDE DEF w2
  <2>5. InBody(dsss, pays, q, w2 \o lost, f, r, a, b, v)
    BY <1>1, <1>5, <2>1, <2>3, <2>4 DEF InBody
  <2> QED BY <2>5 DEF r
<1>17. w2 \in Seq(Byte)
  BY <1>10
<1> HIDE DEF w2
<1>18. /\ ~ (n < 0) /\ w2 \in Seq(Byte)
       /\ Len(rd.body) + n > MaxPayload => Oversize(dsss[f])
       /\ ~ (Len(rd.body) + n > MaxPayload) =>
            \E b1, v1 : InBody(dsss, pays, q, w2 \o lost, f,
                          [rd EXCEPT !.phase = "body", !.need = n, !.continued = HasFlag(word)],
                          a, b1, v1)
       /\ f \in 1 .. Len(dsss)
  BY <1>1, <1>12, <1>15, <1>16, <1>17
<1> QED BY <1>18 DEF w2, n, word

\* Behind the last frame of a turn there is nothing.
LEMMA NothingBehind ==
  ASSUME NEW dsss, NEW pays, Flow(dsss, pays), NEW x \in Seq(Byte), NEW q,
         Stream(dsss, pays, x, <<Len(dsss) + 1, 0, FALSE>>, q)
  PROVE  x = <<>> /\ q = <<Len(dsss) + 1, 0, FALSE>>
<1> DEFINE f == Len(dsss) + 1
<1>1. Len(dsss) \in Nat
  <2>1. dsss \in Seq(Frame)
    BY DEF Flow
  <2> QED BY <2>1
<1>2. f \notin 1 .. Len(dsss)
  BY <1>1
<1> HIDE DEF f
<1>3. (x = <<>> /\ q = <<f, 0, FALSE>>) \/ \E b, v : Opens(dsss, pays, x, q, f, b, v)
  BY StreamOpens DEF f
<1>4. ~ \E b, v : Opens(dsss, pays, x, q, f, b, v)
  BY <1>2 DEF Opens
<1> QED BY <1>3, <1>4 DEF f

\* What a reader expects is not touched by a frame that begins ...
LEMMA ExpectsStays ==
  ASSUME NEW dsss, NEW pays, Flow(dsss, pays), NEW dss, NEW pay, NEW q, NEW x, NEW f, NEW rd,
         Expects(dsss, pays, q, x, f, rd)
  PROVE  Expects(Append(dsss, dss), Append(pays, pay), q, x, f, rd)
<1> DEFINE d2 == Append(dsss, dss)
           p2 == Append(pays, pay)
<1>1. dsss \in Seq(Frame) /\ pays \in Seq(Seq(Byte)) /\ Len(pays) = Len(dsss)
  BY DEF Flow
<1>2. \A g \in 1 .. Len(dsss) : d2[g] = dsss[g] /\ p2[g] = pays[g] /\ g \in 1 .. Len(d2)
  <2> TAKE g \in 1 .. Len(dsss)
  <2>1. d2[g] = dsss[g] /\ g \in 1 .. Len(d2)
    BY <1>1
  <2>2. p2[g] = pays[g]
    BY <1>1
  <2> QED BY <2>1, <2>2
<1>3. \A w, p, r : Stream(dsss, pays, w, p, r) => Stream(d2, p2, w, p, r)
  BY StreamStays
<1> HIDE DEF d2, p2
<1>4. CASE rd = AtHeader /\ x \in Seq(Byte) /\ Stream(dsss, pays, x, <<f, 0, FALSE>>, q)
  <2>1. Expects(d2, p2, q, x, f, rd)
    BY <1>3, <1>4 DEF Expects
  <2> QED BY <2>1 DEF d2, p2
<1>5. ASSUME NEW a, NEW b, NEW v, InBody(dsss, pays, q, x, f, rd, a, b, v)
      PROVE  Expects(d2, p2, q, x, f, rd)
  <2>1. /\ f \in 1 .. Len(dsss) /\ a \in Nat /\ b \in Nat /\ a <= b /\ b <= Len(pays[f]) /\ Fits(b)
        /\ \E h, c : /\ HeaderOf(h, dsss[f]) /\ c \in BOOLEAN /\ c = (b < Len(pays[f]))
                     /\ rd = Reader("body", h, Slice(pays[f], 0, a), b - a, c)
        /\ v \in Seq(Byte) /\ x = Slice(pays[f], a, b) \o v
        /\ Stream(dsss, pays, v, After(pays, f, b), q)
    BY <1>5 DEF InBody
  <2>2. d2[f] = dsss[f] /\ p2[f] = pays[f] /\ f \in 1 .. Len(d2) /\ After(p2, f, b) = After(pays, f, b)
    BY <1>2, <2>1 DEF After
  <2>3. InBody(d2, p2, q, x, f, rd, a, b, v)
    BY <1>3, <2>1, <2>2 DEF InBody
  <2> QED BY <2>3 DEF Expects
<1>6. ASSUME NEW a, InContinuation(dsss, pays, q, x, f, rd, a)
      PROVE  Expects(d2, p2, q, x, f, rd)
  <2>1. /\ f \in 1 .. Len(dsss) /\ a \in Nat /\ a < Len(pays[f]) /\ Fits(a)
        /\ \E h, n, c : /\ HeaderOf(h, dsss[f])
                        /\ rd = Reader("continuation", h, Slice(pays[f], 0, a), n, c)
        /\ x \in Seq(Byte) /\ Stream(dsss, pays, x, <<f, a, TRUE>>, q)
    BY <1>6 DEF InContinuation
  <2>2. d2[f] = dsss[f] /\ p2[f] = pays[f] /\ f \in 1 .. Len(d2)
    BY <1>2, <2>1
  <2>3. InContinuation(d2, p2, q, x, f, rd, a)
    BY <1>3, <2>1, <2>2 DEF InContinuation
  <2> QED BY <2>3 DEF Expects
<1> QED BY <1>4, <1>5, <1>6 DEF Expects, d2, p2

\* ... and goes on with the segments that are written.
LEMMA ExpectsGrows ==
  ASSUME NEW dsss, NEW pays, NEW q, NEW x, NEW f, NEW rd, Expects(dsss, pays, q, x, f, rd),
         Flow(dsss, pays), NEW e \in Seq(Byte), NEW r \in Place, Link(dsss, pays, q, e, r)
  PROVE  Expects(dsss, pays, r, x \o e, f, rd)
<1>1. ASSUME NEW w \in Seq(Byte), NEW p, Stream(dsss, pays, w, p, q)
      PROVE  Stream(dsss, pays, w \o e, p, r) /\ w \o e \in Seq(Byte)
  BY <1>1, StreamGrows, JoinIsSeq
<1>2. CASE rd = AtHeader /\ x \in Seq(Byte) /\ Stream(dsss, pays, x, <<f, 0, FALSE>>, q)
  BY <1>1, <1>2 DEF Expects
<1>3. ASSUME NEW a, NEW b, NEW v, InBody(dsss, pays, q, x, f, rd, a, b, v)
      PROVE  Expects(dsss, pays, r, x \o e, f, rd)
  <2>1. /\ f \in 1 .. Len(dsss) /\ a \in Nat /\ b \in Nat /\ a <= b /\ b <= Len(pays[f]) /\ Fits(b)
        /\ \E h, c : /\ HeaderOf(h, dsss[f]) /\ c \in BOOLEAN /\ c = (b < Len(pays[f]))
                     /\ rd = Reader("body", h, Slice(pays[f], 0, a), b - a, c)
        /\ v \in Seq(Byte) /\ x = Slice(pays[f], a, b) \o v
        /\ Stream(dsss, pays, v, After(pays, f, b), q)
    BY <1>3 DEF InBody
  <2>2. Slice(pays[f], a, b) \in Seq(Byte)
    <3>1. pays[f] \in Seq(Byte)
      BY <2>1, FlowAt
    <3> DEFINE s == pays[f]
    <3>2. s \in Seq(Byte) /\ a \in Nat /\ b \in Nat /\ a <= b /\ b <= Len(s)
      BY <2>1, <3>1
    <3> HIDE DEF s
    <3>3. Slice(s, a, b) \in Seq(Byte)
      BY ONLY <3>2, SliceParts
    <3> QED BY <3>3 DEF s
  <2>3. x \o e = Slice(pays[f], a, b) \o (v \o e)
    <3> DEFINE s == Slice(pays[f], a, b)
    <3>1. s \in Seq(Byte) /\ x = s \o v /\ v \in Seq(Byte)
      BY <2>1, <2>2
    <3> HIDE DEF s
    <3>2. (s \o v) \o e = s \o (v \o e)
      BY <3>1, JoinsAssociate
    <3> QED BY <3>1, <3>2 DEF s
  <2>4. Stream(dsss, pays, v \o e, After(pays, f, b), r) /\ v \o e \in Seq(Byte)
    BY <1>1, <2>1
  <2> DEFINE y == x \o e
             u == v \o e
  <2>5. y = Slice(pays[f], a, b) \o u /\ u \in Seq(Byte) /\ Stream(dsss, pays, u, After(pays, f, b), r)
    BY <2>3, <2>4
  <2> HIDE DEF y, u
  <2>6. InBody(dsss, pays, r, y, f, rd, a, b, u)
    BY <2>1, <2>5 DEF InBody
  <2> QED BY <2>6 DEF Expects, y
<1>4. ASSUME NEW a, InContinuation(dsss, pays, q, x, f, rd, a)
      PROVE  Expects(dsss, pays, r, x \o e, f, rd)
  <2>1. x \in Seq(Byte) /\ Stream(dsss, pays, x, <<f, a, TRUE>>, q)
    BY <1>4 DEF InContinuation
  <2>2. Stream(dsss, pays, x \o e, <<f, a, TRUE>>, r) /\ x \o e \in Seq(Byte)
    BY <1>1, <2>1
  <2> DEFINE y == x \o e
  <2> HIDE DEF y
  <2>3. InContinuation(dsss, pays, r, y, f, rd, a)
    BY <1>4, <2>2 DEF InContinuation, y
  <2> QED BY <2>3 DEF Expects, y
<1> QED BY <1>2, <1>3, <1>4 DEF Expects

-----------------------------------------------------------------------------
\* A segment that has been written: where the writer is behind it.
Written(dsss, pays, p, e, left, q) ==
  /\ e \in Seq(Byte) /\ left \in Seq(Byte) /\ q \in Place
  /\ WriterAt(dsss, pays, left, q) /\ Link(dsss, pays, p, e, q)

\* The writer behind the first b bytes of the last frame.
LEMMA WriterBehind ==
  ASSUME NEW dsss, NEW pays, Flow(dsss, pays), NEW f \in 1 .. Len(dsss), f = Len(dsss),
         NEW b \in Nat, b <= Len(pays[f])
  PROVE  /\ WriterAt(dsss, pays, Slice(pays[f], b, Len(pays[f])), After(pays, f, b))
         /\ Slice(pays[f], b, Len(pays[f])) \in Seq(Byte)
<1> DEFINE n == Len(pays[f])
           left == Slice(pays[f], b, n)
<1>1. pays[f] \in Seq(Byte) /\ n \in Nat
  BY FlowAt
<1>2. left \in Seq(Byte) /\ Len(left) = n - b
  <2> DEFINE s == pays[f]
  <2>1. s \in Seq(Byte) /\ b \in Nat /\ n \in Nat /\ b <= n /\ n <= Len(s)
    BY <1>1
  <2> HIDE DEF s, n
  <2>2. Slice(s, b, n) \in Seq(Byte) /\ Len(Slice(s, b, n)) = n - b
    BY ONLY <2>1, SliceParts
  <2> QED BY <2>2 DEF s
<1>3. CASE b < n
  <2>1. left # <<>>
    <3> HIDE DEF left
    <3>1. Len(left) # 0
      BY <1>1, <1>2, <1>3
    <3> QED BY <3>1
  <2>2. After(pays, f, b) = <<f, b, TRUE>>
    BY <1>3 DEF After
  <2> QED BY <1>2, <1>3, <2>1, <2>2 DEF WriterAt
<1>4. CASE ~ (b < n)
  <2>1. left = <<>>
    <3> HIDE DEF left
    <3>1. Len(left) = 0
      BY <1>1, <1>2, <1>4
    <3> QED BY <1>2, <3>1, EmptySeq
  <2>2. After(pays, f, b) = <<f + 1, 0, FALSE>>
    BY <1>4 DEF After
  <2> QED BY <1>2, <2>1, <2>2 DEF WriterAt
<1> QED BY <1>3, <1>4

\* WriteRequestDSS writes the first segment of a new frame ...
LEMMA FirstWritten ==
  ASSUME NEW dsss, NEW pays, Flow(dsss, pays), NEW dss \in Frame, NEW pay,
         IsPayload(pay, dss.cp, dss.data), NEW n \in Nat, n <= Len(pay), HeaderSize + n <= MaxSegment
  PROVE  \E q : Written(Append(dsss, dss), Append(pays, pay), <<Len(dsss) + 1, 0, FALSE>>,
                        Header(dss, HeaderSize + n, n < Len(pay)) \o SubSeq(pay, 1, n),
                        SubSeq(pay, n + 1, Len(pay)), q)
<1> DEFINE d2 == Append(dsss, dss)
           p2 == Append(pays, pay)
           f == Len(dsss) + 1
<1>1. Flow(d2, p2)
  BY FlowGrows
<1>2. f = Len(d2) /\ f \in 1 .. Len(d2) /\ d2[f] = dss /\ p2[f] = pay
  <2>1. dsss \in Seq(Frame) /\ pays \in Seq(Seq(Byte)) /\ Len(pays) = Len(dsss) /\ pay \in Seq(Byte)
    BY DEF Flow, IsPayload
  <2>2. Len(dsss) \in Nat /\ Len(d2) = Len(dsss) + 1 /\ d2[Len(dsss) + 1] = dss
    BY <2>1, AppendProperties
  <2>3. p2[Len(pays) + 1] = pay
    BY <2>1, AppendProperties
  <2> HIDE DEF d2, p2
  <2> QED BY <2>1, <2>2, <2>3
<1> HIDE DEF d2, p2, f
<1>3. SubSeq(pay, 1, n) = Slice(p2[f], 0, n) /\ SubSeq(pay, n + 1, Len(pay)) = Slice(p2[f], n, Len(p2[f]))
  <2>1. 0 + 1 = 1
    OBVIOUS
  <2> QED BY <1>2, <2>1 DEF Slice
<1> DEFINE e == Header(dss, HeaderSize + n, n < Len(pay)) \o SubSeq(pay, 1, n)
           left == SubSeq(pay, n + 1, Len(pay))
           q == After(p2, f, n)
<1>4. e = FirstSegment(d2, p2, f, n)
  BY <1>2, <1>3 DEF FirstSegment
<1>5. n <= Len(p2[f])
  BY <1>2
<1> HIDE DEF e, left
<1>6. e \in Seq(Byte) /\ q \in Place /\ Link(d2, p2, <<f, 0, FALSE>>, e, q)
  BY <1>1, <1>2, <1>4, <1>5, FirstSegmentIs
<1>7. WriterAt(d2, p2, left, q) /\ left \in Seq(Byte)
  BY <1>1, <1>2, <1>3, <1>5, WriterBehind DEF left
<1> HIDE DEF q
<1>8. Written(d2, p2, <<f, 0, FALSE>>, e, left, q)
  BY <1>6, <1>7 DEF Written
<1> QED BY <1>8 DEF d2, p2, f, e, left

\* ... and the continuation segments of the last one.
LEMMA NextWritten ==
  ASSUME NEW dsss, NEW pays, Flow(dsss, pays), NEW left, NEW p, WriterAt(dsss, pays, left, p), left # <<>>,
         NEW n \in Nat, n <= Len(left), ContinuationSize + n <= MaxSegment
  PROVE  \E q : Written(dsss, pays, p,
                        Word(ContinuationSize + n, n < Len(left)) \o SubSeq(left, 1, n),
                        SubSeq(left, n + 1, Len(left)), q)
<1> DEFINE f == Len(dsss)
           pay == pays[Len(dsss)]
           l == Len(pays[Len(dsss)])
<1>1. PICK a \in Nat : a < l /\ p = <<f, a, TRUE>> /\ left = Slice(pay, a, l) /\ f \in 1 .. Len(dsss)
  BY DEF WriterAt
<1>2. pay \in Seq(Byte) /\ l \in Nat
  BY <1>1, FlowAt
<1> DEFINE b == a + n
<1>3. Len(left) = l - a /\ left \in Seq(Byte)
  <2>1. pay \in Seq(Byte) /\ a \in Nat /\ l \in Nat /\ a <= l /\ l <= Len(pay)
    BY <1>1, <1>2
  <2> HIDE DEF pay, l
  <2>2. Slice(pay, a, l) \in Seq(Byte) /\ Len(Slice(pay, a, l)) = l - a
    BY ONLY <2>1, SliceParts
  <2> QED BY <1>1, <2>2
<1>4. /\ b \in Nat /\ a <= b /\ b <= l /\ b - a = n /\ (n < Len(left)) = (b < l) /\ a + 0 = a
      /\ a + (l - a) = l /\ n <= l - a /\ l - a \in Nat /\ a <= l /\ 0 <= n /\ 0 \in Nat /\ l - a <= l - a
  <2> HIDE DEF l
  <2> QED BY <1>1, <1>2, <1>3
<1> HIDE DEF f, l, b
<1>5. SubSeq(left, 1, n) = Slice(pay, a, b) /\ SubSeq(left, n + 1, Len(left)) = Slice(pay, b, l)
  <2>1. SubSeq(left, 1, n) = Slice(left, 0, n) /\ SubSeq(left, n + 1, Len(left)) = Slice(left, n, l - a)
    <3>1. 0 + 1 = 1
      OBVIOUS
    <3> QED BY <1>3, <3>1 DEF Slice
  <2>2. l <= Len(pay) /\ a + n = b
    BY <1>2, <1>4 DEF l, b
  <2> HIDE DEF pay
  <2>3. Slice(Slice(pay, a, l), 0, n) = Slice(pay, a + 0, a + n)
    BY <1>1, <1>2, <1>4, <2>2, SliceOfSlice
  <2>4. Slice(Slice(pay, a, l), n, l - a) = Slice(pay, a + n, a + (l - a))
    <3> DEFINE k == l - a
    <3>1. k \in Nat /\ n <= k /\ k <= l - a
      BY <1>4
    <3> HIDE DEF k
    <3>2. Slice(Slice(pay, a, l), n, k) = Slice(pay, a + n, a + k)
      BY <1>1, <1>2, <1>4, <2>2, <3>1, SliceOfSlice
    <3> QED BY <3>2 DEF k
  <2> QED BY <1>1, <1>4, <2>1, <2>2, <2>3, <2>4
<1> DEFINE e == Word(ContinuationSize + n, n < Len(left)) \o SubSeq(left, 1, n)
           left2 == SubSeq(left, n + 1, Len(left))
           q == After(pays, f, b)
<1>6. e = NextSegment(pays, f, a, b)
  BY <1>4, <1>5 DEF NextSegment, f, l
<1>7. b <= Len(pays[f]) /\ f = Len(dsss) /\ f \in 1 .. Len(dsss)
  BY <1>1, <1>4 DEF f, l
<1>8. left2 = Slice(pays[f], b, Len(pays[f]))
  BY <1>5 DEF f, l
<1> HIDE DEF e, left2
<1>9. e \in Seq(Byte) /\ q \in Place /\ Link(dsss, pays, <<f, a, TRUE>>, e, q)
  <2>1. ContinuationSize + (b - a) <= MaxSegment
    BY <1>4
  <2> QED BY <1>4, <1>6, <1>7, <2>1, NextSegmentIs
<1>10. WriterAt(dsss, pays, left2, q) /\ left2 \in Seq(Byte)
  BY <1>4, <1>7, <1>8, WriterBehind
<1> HIDE DEF q
<1>11. Written(dsss, pays, p, e, left2, q)
  BY <1>1, <1>9, <1>10 DEF Written
<1> QED BY <1>11 DEF e, left2

-----------------------------------------------------------------------------
\* Parts of a chain.  A part starts with an object or not, it announces one behind
\* it or not, it ends the chain or not; left counts the identifiers it still takes.
Calls == [cp : UInt16, size : Nat, sameID : BOOLEAN, last : BOOLEAN, restart : BOOLEAN]

Takes(call) == IF call.sameID THEN 0 ELSE 1

Identifiers(c, left, k) ==
  /\ left \in [1 .. Len(c) + 1 -> Nat] /\ left[1] <= k
  /\ \A i \in 1 .. Len(c) : left[i + 1] + Takes(c[i]) <= left[i]

Part(c, k, object, same, last) ==
  /\ c \in Seq(Calls) /\ Len(c) >= 1
  /\ (c[1].cp \in Objects) = object
  /\ \A i \in 1 .. Len(c) : c[i].restart => c[i].cp \notin Objects
  /\ \A i \in 1 .. Len(c) - 1 : /\ (c[i + 1].cp \in Objects) = c[i].sameID
                                /\ ~ c[i].last
  /\ c[Len(c)].sameID = same /\ c[Len(c)].last = last
  /\ \E left : Identifiers(c, left, k)

\* A call with these fields is one of Calls ...
LEMMA CallIs ==
  ASSUME NEW cp \in UInt16, NEW size \in Nat, NEW sameID \in BOOLEAN, NEW last \in BOOLEAN,
         NEW restart \in BOOLEAN, NEW call,
         call = [cp |-> cp, size |-> size, sameID |-> sameID, last |-> last, restart |-> restart]
  PROVE  /\ call \in Calls /\ call.cp = cp /\ call.size = size /\ call.sameID = sameID
         /\ call.last = last /\ call.restart = restart
<1>1. /\ call.cp = cp /\ call.size = size /\ call.sameID = sameID
      /\ call.last = last /\ call.restart = restart
  OBVIOUS
<1>2. call \in Calls
  BY DEF Calls
<1> QED BY <1>1, <1>2

\* ... and has them.
LEMMA CallHas ==
  ASSUME NEW call \in Calls
  PROVE  /\ call.cp \in UInt16 /\ call.size \in Nat /\ call.sameID \in BOOLEAN
         /\ call.last \in BOOLEAN /\ call.restart \in BOOLEAN
         /\ Takes(call) \in 0 .. 1
<1> DEFINE A == UInt16
           B == Nat
           C == BOOLEAN
<1>1. call \in [cp : A, size : B, sameID : C, last : C, restart : C]
  BY DEF Calls
<1> HIDE DEF A, B, C
<1>2. call.cp \in A /\ call.size \in B /\ call.sameID \in C /\ call.last \in C /\ call.restart \in C
  BY ONLY <1>1
<1>3. Takes(call) \in 0 .. 1
  BY DEF Takes
<1> QED BY <1>2, <1>3 DEF A, B, C

\* One call is a part.
LEMMA PartOne ==
  ASSUME NEW call \in Calls, call.restart => call.cp \notin Objects, NEW k \in Nat, Takes(call) <= k
  PROVE  Part(<<call>>, k, call.cp \in Objects, call.sameID, call.last)
<1> DEFINE c == <<call>>
           left == [i \in 1 .. 2 |-> IF i = 1 THEN k ELSE 0]
<1>1. c \in Seq(Calls) /\ Len(c) = 1 /\ c[1] = call
  OBVIOUS
<1>2. left \in [1 .. 2 -> Nat] /\ left[1] = k /\ left[2] = 0
  OBVIOUS
<1>3. Takes(call) \in 0 .. 1
  BY CallHas
<1>4. \A i \in 1 .. 1 : i = 1
  OBVIOUS
<1>5. \A i \in 1 .. 1 - 1 : FALSE
  OBVIOUS
<1> HIDE DEF c, left
<1>6. Identifiers(c, left, k)
  <2>1. Len(c) + 1 = 2 /\ 1 + 1 = 2 /\ left[2] + Takes(call) <= left[1] /\ left[1] <= k
    BY <1>1, <1>2, <1>3
  <2>2. \A i \in 1 .. Len(c) : left[i + 1] + Takes(c[i]) <= left[i]
    BY <1>1, <1>4, <2>1
  <2> QED BY <1>2, <2>1, <2>2 DEF Identifiers
<1>7. Part(c, k, call.cp \in Objects, call.sameID, call.last)
  <2>1. Len(c) >= 1
    BY <1>1
  <2>2. \A i \in 1 .. Len(c) : c[i].restart => c[i].cp \notin Objects
    BY <1>1, <1>4
  <2>3. \A i \in 1 .. Len(c) - 1 : (c[i + 1].cp \in Objects) = c[i].sameID /\ ~ c[i].last
    BY <1>1, <1>5
  <2>4. \E l : Identifiers(c, l, k)
    BY <1>6
  <2> QED BY <1>1, <2>1, <2>2, <2>3, <2>4, Zenon DEF Part
<1> QED BY <1>7 DEF c

\* Two parts make one when the first announces what the second begins with.
LEMMA PartJoin ==
  ASSUME NEW c, NEW k \in Nat, NEW o, NEW s, NEW d, NEW l \in Nat, NEW s2, NEW f2,
         Part(c, k, o, s, FALSE), Part(d, l, s, s2, f2)
  PROVE  Part(c \o d, k + l, o, s2, f2)
<1> DEFINE e == c \o d
           m == Len(c)
           n == Len(d)
<1>1. /\ c \in Seq(Calls) /\ d \in Seq(Calls) /\ m \in Nat /\ n \in Nat /\ m >= 1 /\ n >= 1
      /\ (c[1].cp \in Objects) = o /\ (d[1].cp \in Objects) = s
      /\ c[m].sameID = s /\ c[m].last = FALSE /\ d[n].sameID = s2 /\ d[n].last = f2
  <2>1. c \in Seq(Calls) /\ d \in Seq(Calls) /\ m >= 1 /\ n >= 1
    BY DEF Part
  <2>2. m \in Nat /\ n \in Nat
    BY <2>1
  <2> QED BY <2>1, <2>2, Zenon DEF Part
<1>a. m \in Nat /\ n \in Nat /\ m >= 1 /\ n >= 1
  BY <1>1
<1>2. /\ \A i \in 1 .. m : c[i].restart => c[i].cp \notin Objects
      /\ \A i \in 1 .. n : d[i].restart => d[i].cp \notin Objects
      /\ \A i \in 1 .. m - 1 : (c[i + 1].cp \in Objects) = c[i].sameID /\ ~ c[i].last
      /\ \A i \in 1 .. n - 1 : (d[i + 1].cp \in Objects) = d[i].sameID /\ ~ d[i].last
  BY Zenon DEF Part
<1>3. PICK left : Identifiers(c, left, k)
  BY DEF Part
<1>4. PICK more : Identifiers(d, more, l)
  BY DEF Part
<1>5. /\ e \in Seq(Calls) /\ Len(e) = m + n
      /\ \A i \in 1 .. m + n : e[i] = IF i <= m THEN c[i] ELSE d[i - m]
  BY <1>1, ConcatProperties
<1>6. /\ left \in [1 .. m + 1 -> Nat] /\ left[1] <= k
      /\ \A i \in 1 .. m : left[i + 1] + Takes(c[i]) <= left[i]
      /\ more \in [1 .. n + 1 -> Nat] /\ more[1] <= l
      /\ \A i \in 1 .. n : more[i + 1] + Takes(d[i]) <= more[i]
  BY <1>3, <1>4 DEF Identifiers
<1> HIDE DEF e, m, n
<1> DEFINE both == [i \in 1 .. m + n + 1 |-> IF i <= m THEN left[i] + more[1] ELSE more[i - m]]
<1>7. /\ \A i \in 1 .. m : e[i] = c[i] /\ i \in 1 .. m + n
      /\ \A i \in 1 .. n : e[m + i] = d[i] /\ m + i \in 1 .. m + n
      /\ \A i \in 1 .. m + n : i \in 1 .. m \/ (i - m \in 1 .. n /\ m + (i - m) = i)
  <2>1. ASSUME NEW i \in 1 .. n PROVE e[m + i] = d[i] /\ m + i \in 1 .. m + n
    <3>1. m + i \in 1 .. m + n /\ ~ (m + i <= m) /\ (m + i) - m = i
      BY <1>1
    <3> QED BY <1>5, <3>1
  <2>2. \A i \in 1 .. m : i \in 1 .. m + n /\ i <= m
    BY <1>1
  <2>3. \A i \in 1 .. m : e[i] = c[i]
    BY <1>5, <2>2
  <2>4. \A i \in 1 .. m + n : i \in 1 .. m \/ (i - m \in 1 .. n /\ m + (i - m) = i)
    BY <1>1
  <2> QED BY <2>1, <2>2, <2>3, <2>4
<1>8. Identifiers(e, both, k + l)
  <2>1. \A i \in 1 .. m + n + 1 : both[i] = IF i <= m THEN left[i] + more[1] ELSE more[i - m]
    OBVIOUS
  <2>2. more[1] \in Nat /\ 1 \in 1 .. n + 1
    BY <1>1, <1>6
  <2>3. both \in [1 .. m + n + 1 -> Nat]
    <3>1. ASSUME NEW i \in 1 .. m + n + 1 PROVE both[i] \in Nat
      <4>1. CASE i <= m
        <5>1. i \in 1 .. m + 1
          BY <1>1, <4>1
        <5>2. left[i] \in Nat
          BY <1>6, <5>1
        <5> QED BY <2>1, <2>2, <4>1, <5>2
      <4>2. CASE ~ (i <= m)
        <5>1. i - m \in 1 .. n + 1
          BY <1>1, <4>2, SMTT(60)
        <5> QED BY <1>6, <2>1, <4>2, <5>1
      <4> QED BY <4>1, <4>2
    <3> QED BY <3>1
  <2> HIDE DEF both
  <2>4. both[1] <= k + l
    <3>1. 1 \in 1 .. m + n + 1 /\ 1 <= m /\ 1 \in 1 .. m + 1
      BY <1>1
    <3>2. both[1] = left[1] + more[1] /\ left[1] \in Nat
      BY <1>6, <2>1, <3>1
    <3> QED BY <1>6, <2>2, <3>2
  <2>5. ASSUME NEW i \in 1 .. m + n PROVE both[i + 1] + Takes(e[i]) <= both[i]
    <3>1. CASE i \in 1 .. m /\ i + 1 <= m
      <4>1. i \in 1 .. m + n + 1 /\ i + 1 \in 1 .. m + n + 1 /\ i + 1 \in 1 .. m + 1 /\ i \in 1 .. m + 1 /\ i <= m
        BY <1>1, <3>1
      <4>2. both[i] = left[i] + more[1] /\ both[i + 1] = left[i + 1] + more[1] /\ e[i] = c[i]
        BY <1>7, <2>1, <3>1, <4>1
      <4>3. left[i] \in Nat /\ left[i + 1] \in Nat /\ left[i + 1] + Takes(c[i]) <= left[i]
        BY <1>6, <3>1, <4>1
      <4>4. Takes(c[i]) \in 0 .. 1
        BY <1>1, <3>1, CallHas DEF m
      <4> QED BY <2>2, <4>2, <4>3, <4>4
    <3>2. CASE i = m
      <4>1. i \in 1 .. m + n + 1 /\ i + 1 \in 1 .. m + n + 1 /\ i <= m /\ ~ (i + 1 <= m) /\ (i + 1) - m = 1
            /\ i \in 1 .. m /\ i \in 1 .. m + 1 /\ i + 1 \in 1 .. m + 1
        BY <1>1, <3>2
      <4>2. both[i] = left[i] + more[1] /\ both[i + 1] = more[1] /\ e[i] = c[i]
        BY <1>7, <2>1, <4>1
      <4>3. left[i] \in Nat /\ left[i + 1] \in Nat /\ left[i + 1] + Takes(c[i]) <= left[i]
        BY <1>6, <4>1
      <4>4. Takes(c[i]) \in 0 .. 1
        BY <1>1, <4>1, CallHas DEF m
      <4> QED BY <2>2, <4>2, <4>3, <4>4
    <3>3. CASE i > m
      <4> DEFINE j == i - m
      <4>1. j \in 1 .. n /\ m + j = i /\ (i + 1) - m = j + 1 /\ i \in 1 .. m + n + 1 /\ i + 1 \in 1 .. m + n + 1
            /\ ~ (i <= m) /\ ~ (i + 1 <= m)
        BY ONLY <1>a, <3>3, i \in 1 .. m + n
      <4>2. both[i] = more[j] /\ both[i + 1] = more[j + 1]
        BY <2>1, <4>1
      <4>3. e[i] = d[j]
        BY <1>7, <4>1
      <4> QED BY <1>6, <4>1, <4>2, <4>3
    <3> QED BY <1>1, <3>1, <3>2, <3>3
  <2> QED BY <1>5, <2>3, <2>4, <2>5 DEF Identifiers
<1>9. ASSUME NEW i \in 1 .. m + n PROVE e[i].restart => e[i].cp \notin Objects
  <2>1. CASE i \in 1 .. m
    BY <1>2, <1>7, <2>1
  <2>2. CASE i - m \in 1 .. n /\ m + (i - m) = i
    <3>1. e[i] = d[i - m]
      BY <1>7, <2>2
    <3> QED BY <1>2, <2>2, <3>1
  <2> QED BY <1>7, <2>1, <2>2
<1>10. ASSUME NEW i \in 1 .. m + n - 1 PROVE (e[i + 1].cp \in Objects) = e[i].sameID /\ ~ e[i].last
  <2>1. CASE i \in 1 .. m - 1
    <3>1. i \in 1 .. m /\ i + 1 \in 1 .. m
      BY <1>1, <2>1
    <3>2. e[i] = c[i] /\ e[i + 1] = c[i + 1]
      BY <1>7, <3>1
    <3> QED BY <1>2, <2>1, <3>2
  <2>2. CASE i = m
    <3>1. i \in 1 .. m /\ i + 1 = m + 1 /\ 1 \in 1 .. n
      BY <1>1, <2>2
    <3>2. e[i] = c[m] /\ e[i + 1] = d[1]
      BY <1>7, <2>2, <3>1
    <3> QED BY <1>1, <3>2
  <2>3. CASE i > m
    <3> DEFINE j == i - m
    <3>1. j \in 1 .. n - 1 /\ j \in 1 .. n /\ j + 1 \in 1 .. n /\ m + j = i /\ m + (j + 1) = i + 1
      BY ONLY <1>a, <2>3, i \in 1 .. m + n - 1
    <3>2. e[m + j] = d[j] /\ e[m + (j + 1)] = d[j + 1]
      BY <1>7, <3>1
    <3>3. e[i] = d[j] /\ e[i + 1] = d[j + 1]
      BY <3>1, <3>2
    <3> HIDE DEF j
    <3> QED BY <1>2, <3>1, <3>3
  <2> QED BY <1>1, <2>1, <2>2, <2>3
<1>11. e[1] = c[1] /\ e[m + n] = d[n]
  <2>1. 1 \in 1 .. m /\ n \in 1 .. n
    BY <1>1
  <2> QED BY <1>7, <2>1
<1>12. Len(e) >= 1 /\ Len(e) = m + n /\ Len(e) - 1 = m + n - 1
  BY <1>1, <1>5
<1>13. Part(e, k + l, o, s2, f2)
  <2>1. e \in Seq(Calls) /\ Len(e) >= 1 /\ (e[1].cp \in Objects) = o
    BY <1>1, <1>5, <1>11, <1>12
  <2>2. \A i \in 1 .. Len(e) : e[i].restart => e[i].cp \notin Objects
    BY <1>9, <1>12
  <2>3. \A i \in 1 .. Len(e) - 1 : (e[i + 1].cp \in Objects) = e[i].sameID /\ ~ e[i].last
    BY <1>10, <1>12
  <2>4. e[Len(e)].sameID = s2 /\ e[Len(e)].last = f2
    BY <1>1, <1>11, <1>12
  <2>5. \E x : Identifiers(e, x, k + l)
    BY <1>8
  <2> QED BY <2>1, <2>2, <2>3, <2>4, <2>5, Zenon DEF Part
<1> QED BY <1>13 DEF e

\* What is left of a part when its first call has been made.
LEMMA PartTail ==
  ASSUME NEW c, NEW k \in Nat, NEW o, NEW s, NEW f, Part(c, k, o, s, f)
  PROVE  \E l \in Nat : /\ l + Takes(c[1]) <= k
                        /\ \/ Tail(c) = <<>> /\ c[1].sameID = s /\ c[1].last = f
                           \/ Part(Tail(c), l, c[1].sameID, s, f) /\ ~ c[1].last
<1> DEFINE t == Tail(c)
           m == Len(c)
           n == Len(c) - 1
<1>1. /\ c \in Seq(Calls) /\ m \in Nat /\ m >= 1 /\ c[m].sameID = s /\ c[m].last = f
  <2>1. c \in Seq(Calls) /\ m >= 1
    BY DEF Part
  <2>2. m \in Nat
    BY <2>1
  <2> QED BY <2>1, <2>2, Zenon DEF Part
<1>2. /\ \A i \in 1 .. m : c[i].restart => c[i].cp \notin Objects
      /\ \A i \in 1 .. m - 1 : (c[i + 1].cp \in Objects) = c[i].sameID /\ ~ c[i].last
  BY Zenon DEF Part
<1>3. PICK left : Identifiers(c, left, k)
  BY DEF Part
<1>4. /\ left \in [1 .. m + 1 -> Nat] /\ left[1] <= k
      /\ \A i \in 1 .. m : left[i + 1] + Takes(c[i]) <= left[i]
  BY <1>3 DEF Identifiers
<1>5. c # <<>>
  BY <1>1
<1>6. t \in Seq(Calls) /\ Len(t) = n /\ \A i \in 1 .. n : t[i] = c[i + 1]
  BY <1>1, <1>5, HeadTailProperties
<1> HIDE DEF t, m
<1>7. 1 \in 1 .. m /\ 1 \in 1 .. m + 1 /\ 2 \in 1 .. m + 1 /\ 1 + 1 = 2 /\ n = m - 1 /\ n \in Nat
  BY <1>1 DEF m
<1> HIDE DEF n
<1>a. m \in Nat /\ n \in Nat /\ n = m - 1
  BY <1>1, <1>7
<1>8. left[1] \in Nat /\ left[2] \in Nat /\ left[2] + Takes(c[1]) <= left[1]
  BY <1>4, <1>7
<1>9. left[2] + Takes(c[1]) <= k
  <2>1. Takes(c[1]) \in 0 .. 1
    BY <1>1, <1>7, CallHas DEF m
  <2> QED BY <1>4, <1>8, <2>1
<1>10. CASE m = 1
  <2>1. t = <<>>
    <3>1. Len(t) = 0
      BY <1>6, <1>a, <1>10
    <3> QED BY <1>6, <3>1, EmptySeq
  <2> QED BY <1>1, <1>8, <1>9, <1>10, <2>1 DEF t
<1>11. CASE m # 1
  <2>0. n >= 1 /\ 1 \in 1 .. n /\ n \in 1 .. n /\ n + 1 = m /\ 1 \in 1 .. m - 1
    BY <1>1, <1>7, <1>11
  <2>1. (t[1].cp \in Objects) = c[1].sameID /\ ~ c[1].last
    <3>1. t[1] = c[1 + 1]
      BY <1>6, <2>0
    <3>2. (c[1 + 1].cp \in Objects) = c[1].sameID /\ ~ c[1].last
      BY <1>2, <2>0
    <3> QED BY <3>1, <3>2
  <2>2. \A i \in 1 .. n : t[i].restart => t[i].cp \notin Objects
    <3> TAKE i \in 1 .. n
    <3>1. i + 1 \in 1 .. m
      BY <1>a
    <3>2. t[i] = c[i + 1]
      BY <1>6
    <3> QED BY <1>2, <3>1, <3>2
  <2>3. ASSUME NEW i \in 1 .. n - 1 PROVE (t[i + 1].cp \in Objects) = t[i].sameID /\ ~ t[i].last
    <3>1. i + 1 \in 1 .. m - 1 /\ i \in 1 .. n /\ i + 1 \in 1 .. n
      BY <1>a
    <3>2. t[i] = c[i + 1] /\ t[i + 1] = c[(i + 1) + 1]
      BY <1>6, <3>1
    <3>3. (c[(i + 1) + 1].cp \in Objects) = c[i + 1].sameID /\ ~ c[i + 1].last
      BY <1>2, <3>1
    <3> QED BY <3>2, <3>3
  <2>4. t[n].sameID = s /\ t[n].last = f
    <3>1. t[n] = c[m]
      BY <1>6, <2>0
    <3> QED BY <1>1, <3>1
  <2> DEFINE l == [i \in 1 .. n + 1 |-> left[i + 1]]
  <2>5. Identifiers(t, l, left[2])
    <3>1. \A i \in 1 .. n + 1 : i + 1 \in 1 .. m + 1 /\ l[i] = left[i + 1]
      BY <1>a
    <3>2. l \in [1 .. n + 1 -> Nat]
      BY <1>4, <3>1
    <3> HIDE DEF l
    <3>3. l[1] <= left[2]
      <4>1. 1 \in 1 .. n + 1
        BY <2>0
      <4>2. l[1] = left[2]
        BY <1>7, <3>1, <4>1
      <4> QED BY <1>8, <4>2
    <3>4. ASSUME NEW i \in 1 .. n PROVE l[i + 1] + Takes(t[i]) <= l[i]
      <4>1. i \in 1 .. n + 1 /\ i + 1 \in 1 .. n + 1 /\ i + 1 \in 1 .. m
        BY <1>a
      <4>2. l[i] = left[i + 1] /\ l[i + 1] = left[(i + 1) + 1] /\ t[i] = c[i + 1]
        BY <1>6, <3>1, <4>1
      <4> QED BY <1>4, <4>1, <4>2
    <3> QED BY <1>6, <3>2, <3>3, <3>4 DEF Identifiers
  <2>6. Part(t, left[2], c[1].sameID, s, f)
    <3>1. Len(t) >= 1 /\ t \in Seq(Calls) /\ Len(t) = n /\ Len(t) - 1 = n - 1
      BY <1>6, <2>0
    <3>2. \A i \in 1 .. Len(t) : t[i].restart => t[i].cp \notin Objects
      BY <2>2, <3>1
    <3>3. \A i \in 1 .. Len(t) - 1 : (t[i + 1].cp \in Objects) = t[i].sameID /\ ~ t[i].last
      BY <2>3, <3>1
    <3>4. t[Len(t)].sameID = s /\ t[Len(t)].last = f
      BY <2>4, <3>1
    <3>5. \E x : Identifiers(t, x, left[2])
      BY <2>5
    <3> QED BY <2>1, <3>1, <3>2, <3>3, <3>4, <3>5, Zenon DEF Part
  <2>7. ~ c[1].last
    BY <2>1
  <2> QED BY <1>8, <1>9, <2>6, <2>7 DEF t
<1> QED BY <1>10, <1>11

\* A part that takes k identifiers takes no more than l if k is at most l.
LEMMA PartMore ==
  ASSUME NEW c, NEW k \in Nat, NEW o, NEW s, NEW f, Part(c, k, o, s, f), NEW l \in Nat, k <= l
  PROVE  Part(c, l, o, s, f)
<1>1. PICK left : Identifiers(c, left, k)
  BY DEF Part
<1>2. 1 \in 1 .. Len(c) + 1
  <2>1. c \in Seq(Calls) /\ Len(c) >= 1
    BY DEF Part
  <2>2. Len(c) \in Nat
    BY <2>1
  <2> QED BY <2>1, <2>2
<1>3. Identifiers(c, left, l)
  BY <1>1, <1>2 DEF Identifiers
<1>4. \E x : Identifiers(c, x, l)
  BY <1>3
<1> QED BY <1>4, Zenon DEF Part

\* A call of its own.
LEMMA PartCall ==
  ASSUME NEW cp \in UInt16, NEW size \in Nat, NEW same \in BOOLEAN, NEW last \in BOOLEAN,
         NEW object \in BOOLEAN, object = (cp \in Objects), NEW k \in Nat, ~ same => 1 <= k
  PROVE  Part(<<Call(cp, size, same, last)>>, k, object, same, last)
<1> DEFINE call == Call(cp, size, same, last)
<1>1. /\ call \in Calls /\ call.cp = cp /\ call.sameID = same
      /\ call.last = last /\ call.restart = FALSE
  <2>1. call = [cp |-> cp, size |-> size, sameID |-> same, last |-> last, restart |-> FALSE]
    BY DEF Call
  <2> DEFINE restart == FALSE
  <2>2. restart \in BOOLEAN
    OBVIOUS
  <2>3. call = [cp |-> cp, size |-> size, sameID |-> same, last |-> last, restart |-> restart]
    BY <2>1
  <2> HIDE DEF call, restart
  <2>4. /\ call \in Calls /\ call.cp = cp /\ call.sameID = same
        /\ call.last = last /\ call.restart = restart
    BY <2>2, <2>3, CallIs
  <2> QED BY <2>4 DEF restart
<1> HIDE DEF call
<1>2. Takes(call) <= k
  BY <1>1 DEF Takes
<1>3. Part(<<call>>, k, call.cp \in Objects, call.sameID, call.last)
  BY <1>1, <1>2, PartOne
<1>4. (call.cp \in Objects) = object
  BY <1>1
<1> QED BY <1>1, <1>3, <1>4, Zenon DEF call

\* Two sequences of one element.
LEMMA PairJoin ==
  ASSUME NEW x, NEW y
  PROVE  <<x>> \o <<y>> = <<x, y>>
<1> DEFINE S == {x, y}
           u == <<x>>
           v == <<y>>
           w == <<x, y>>
           z == u \o v
<1>1. u \in Seq(S) /\ v \in Seq(S) /\ w \in Seq(S) /\ Len(u) = 1 /\ Len(v) = 1 /\ Len(w) = 2
      /\ u[1] = x /\ v[1] = y /\ w[1] = x /\ w[2] = y
  OBVIOUS
<1> HIDE DEF S, u, v, w
<1>2. z \in Seq(S) /\ Len(z) = 2 /\ \A i \in 1 .. 2 : z[i] = IF i <= 1 THEN u[i] ELSE v[i - 1]
  <2>1. z \in Seq(S) /\ Len(z) = 1 + 1 /\ \A i \in 1 .. 1 + 1 : z[i] = IF i <= 1 THEN u[i] ELSE v[i - 1]
    BY <1>1, ConcatProperties
  <2> HIDE DEF z
  <2>2. 1 + 1 = 2
    OBVIOUS
  <2> QED BY <2>1, <2>2
<1> HIDE DEF z
<1>3. \A i \in 1 .. 2 : z[i] = w[i]
  <2>1. z[1] = u[1] /\ z[2] = v[1]
    <3>1. 1 \in 1 .. 2 /\ 2 \in 1 .. 2 /\ 1 <= 1 /\ ~ (2 <= 1) /\ 2 - 1 = 1
      OBVIOUS
    <3> QED BY <1>2, <3>1
  <2>2. \A i \in 1 .. 2 : i = 1 \/ i = 2
    OBVIOUS
  <2> QED BY <1>1, <2>1, <2>2
<1>4. z = w
  BY <1>1, <1>2, <1>3, SeqEqual
<1> QED BY <1>4 DEF z, u, v, w

\* The large objects of a request: one identifier for all of them.
LEMMA PartExternal ==
  ASSUME NEW size \in Nat, NEW ext \in Nat, ext >= 1, NEW end \in BOOLEAN
  PROVE  Part([i \in 1 .. ext |-> Call(CP.EXTDTA, size, i < ext, i = ext /\ end)], 1, TRUE, FALSE, end)
<1> DEFINE c == [i \in 1 .. ext |-> Call(CP.EXTDTA, size, i < ext, i = ext /\ end)]
           left == [i \in 1 .. ext + 1 |-> IF i <= ext THEN 1 ELSE 0]
<1>1. CP.EXTDTA \in UInt16 /\ CP.EXTDTA \in Objects
  BY CodepointsAre, ObjectsAre
<1>2. \A i \in 1 .. ext : c[i] = Call(CP.EXTDTA, size, i < ext, i = ext /\ end)
  OBVIOUS
<1>3. ASSUME NEW i \in 1 .. ext
      PROVE  /\ Call(CP.EXTDTA, size, i < ext, i = ext /\ end) \in Calls
             /\ c[i].cp = CP.EXTDTA /\ c[i].sameID = (i < ext) /\ c[i].last = (i = ext /\ end)
             /\ c[i].restart = FALSE
  <2> DEFINE call == Call(CP.EXTDTA, size, i < ext, i = ext /\ end)
             cp == CP.EXTDTA
             same == i < ext
             last == i = ext /\ end
             restart == FALSE
  <2>1. cp \in UInt16 /\ same \in BOOLEAN /\ last \in BOOLEAN /\ restart \in BOOLEAN
    BY <1>1
  <2>2. call = [cp |-> cp, size |-> size, sameID |-> same, last |-> last, restart |-> restart]
    BY DEF Call
  <2>3. c[i] = call
    BY <1>2
  <2> HIDE DEF call, cp, same, last, restart, c
  <2>4. /\ call \in Calls /\ call.cp = cp /\ call.sameID = same
        /\ call.last = last /\ call.restart = restart
    BY ONLY <2>1, <2>2, CallIs, size \in Nat
  <2> QED BY <2>3, <2>4 DEF call, cp, same, last, restart
<1>4. c \in Seq(Calls) /\ Len(c) = ext
  <2>1. c \in [1 .. ext -> Calls]
    BY <1>3
  <2> HIDE DEF c
  <2> QED BY <2>1, AreSeq
<1>5. \A i \in 1 .. ext + 1 : left[i] = IF i <= ext THEN 1 ELSE 0
  OBVIOUS
<1>6. left \in [1 .. ext + 1 -> Nat]
  OBVIOUS
<1> HIDE DEF c, left
<1>7. Identifiers(c, left, 1)
  <2>1. left[1] <= 1
    <3>1. 1 \in 1 .. ext + 1 /\ 1 <= ext
      OBVIOUS
    <3> QED BY <1>5, <3>1
  <2>2. ASSUME NEW i \in 1 .. ext PROVE left[i + 1] + Takes(c[i]) <= left[i]
    <3>1. i \in 1 .. ext + 1 /\ i + 1 \in 1 .. ext + 1 /\ i <= ext
      OBVIOUS
    <3>2. left[i] = 1
      BY <1>5, <3>1
    <3>3. CASE i < ext
      <4>1. i + 1 <= ext
        BY <3>3
      <4>2. left[i + 1] = 1 /\ Takes(c[i]) = 0
        BY <1>3, <1>5, <3>1, <3>3, <4>1 DEF Takes
      <4> QED BY <3>2, <4>2
    <3>4. CASE ~ (i < ext)
      <4>1. ~ (i + 1 <= ext)
        BY <3>4
      <4>2. left[i + 1] = 0 /\ Takes(c[i]) = 1
        BY <1>3, <1>5, <3>1, <3>4, <4>1 DEF Takes
      <4> QED BY <3>2, <4>2
    <3> QED BY <3>3, <3>4
  <2> QED BY <1>4, <1>6, <2>1, <2>2 DEF Identifiers
<1>8. Part(c, 1, TRUE, FALSE, end)
  <2>1. Len(c) >= 1 /\ 1 \in 1 .. ext /\ ext \in 1 .. ext
    BY <1>4
  <2>2. (c[1].cp \in Objects) = TRUE
    BY <1>1, <1>3, <2>1
  <2>3. \A i \in 1 .. Len(c) : c[i].restart => c[i].cp \notin Objects
    BY <1>3, <1>4
  <2>4. ASSUME NEW i \in 1 .. ext - 1 PROVE (c[i + 1].cp \in Objects) = c[i].sameID /\ ~ c[i].last
    <3>1. i \in 1 .. ext /\ i + 1 \in 1 .. ext /\ i < ext /\ i # ext
      OBVIOUS
    <3> QED BY <1>1, <1>3, <3>1
  <2>5. Len(c) - 1 = ext - 1
    BY <1>4
  <2>6. \A i \in 1 .. Len(c) - 1 : (c[i + 1].cp \in Objects) = c[i].sameID /\ ~ c[i].last
    BY <2>4, <2>5
  <2>7. c[Len(c)].sameID = FALSE /\ c[Len(c)].last = end
    <3>1. (ext < ext) = FALSE /\ (ext = ext /\ end) = end
      OBVIOUS
    <3>2. c[ext].sameID = (ext < ext) /\ c[ext].last = (ext = ext /\ end)
      BY <1>3, <2>1
    <3>3. c[ext].sameID = FALSE /\ c[ext].last = end
      BY ONLY <3>1, <3>2, Zenon
    <3> QED BY <1>4, <3>3, Zenon
  <2>8. \E x : Identifiers(c, x, 1)
    BY <1>7
  <2> QED BY <1>4, <2>1, <2>2, <2>3, <2>6, <2>7, <2>8, Zenon DEF Part
<1> QED BY <1>8 DEF c

\* SQLDTA with what belongs to it.
LEMMA PartParameters ==
  ASSUME NEW size \in Nat, NEW ext \in Nat, NEW more \in BOOLEAN, NEW end \in BOOLEAN, end = ~ more
  PROVE  Part(Parameters(size, ext, more), 1, TRUE, FALSE, end)
<1> DEFINE a == <<Call(CP.SQLDTA, size, ext > 0, ~ (ext > 0 \/ more))>>
           b == [i \in 1 .. ext |-> Call(CP.EXTDTA, size, i < ext, i = ext /\ ~ more)]
           c == [i \in 1 .. ext |-> Call(CP.EXTDTA, size, i < ext, i = ext /\ end)]
<1>1. CP.SQLDTA \in UInt16 /\ TRUE = (CP.SQLDTA \in Objects)
  BY CodepointsAre, ObjectsAre
<1>2. Parameters(size, ext, more) = a \o b /\ b = c
  BY DEF Parameters
<1>3. CASE ext = 0
  <2>1. (ext > 0) = FALSE /\ (~ (ext > 0 \/ more)) = end
    BY <1>3
  <2>2. a = <<Call(CP.SQLDTA, size, FALSE, end)>>
    BY <2>1
  <2>3. Part(<<Call(CP.SQLDTA, size, FALSE, end)>>, 1, TRUE, FALSE, end)
    <3> DEFINE same == FALSE
               object == TRUE
               cp == CP.SQLDTA
               k == 1
    <3>1. same \in BOOLEAN /\ object \in BOOLEAN /\ cp \in UInt16 /\ object = (cp \in Objects) /\ k \in Nat /\ 1 <= k
      BY <1>1
    <3> HIDE DEF same, object, cp, k
    <3>2. Part(<<Call(cp, size, same, end)>>, k, object, same, end)
      BY <3>1, PartCall, ZenonT(60)
    <3> QED BY <3>2 DEF same, object, cp, k
  <2>4. b = <<>>
    BY <1>3
  <2>5. a \in Seq(Calls)
    BY <2>2, <2>3 DEF Part
  <2>6. a \o b = a
    <3> HIDE DEF a, b
    <3> QED BY <2>4, <2>5, ConcatEmptySeq
  <2> HIDE DEF a, b, c
  <2> QED BY <1>2, <2>2, <2>3, <2>6
<1>4. CASE ext # 0
  <2>1. (ext > 0) = TRUE /\ (~ (ext > 0 \/ more)) = FALSE /\ ext >= 1
    BY <1>4
  <2>2. a = <<Call(CP.SQLDTA, size, TRUE, FALSE)>>
    BY <2>1
  <2>3. Part(<<Call(CP.SQLDTA, size, TRUE, FALSE)>>, 0, TRUE, TRUE, FALSE)
    <3> DEFINE same == TRUE
               object == TRUE
               last == FALSE
               cp == CP.SQLDTA
               k == 0
    <3>1. /\ same \in BOOLEAN /\ object \in BOOLEAN /\ last \in BOOLEAN /\ cp \in UInt16
          /\ object = (cp \in Objects) /\ k \in Nat /\ (~ same => 1 <= k)
      BY <1>1
    <3> HIDE DEF same, object, cp, k, last
    <3>2. Part(<<Call(cp, size, same, last)>>, k, object, same, last)
      BY <3>1, PartCall, ZenonT(60)
    <3> QED BY <3>2 DEF same, object, cp, k, last
  <2>4. Part(c, 1, TRUE, FALSE, end)
    BY <2>1, PartExternal
  <2>5. Part(a, 0, TRUE, TRUE, FALSE)
    BY <2>2, <2>3
  <2> HIDE DEF a, b, c
  <2>6. Part(a \o c, 0 + 1, TRUE, FALSE, end)
    <3>1. 0 \in Nat /\ 1 \in Nat
      OBVIOUS
    <3> QED BY ONLY <2>4, <2>5, <3>1, PartJoin
  <2>7. 0 + 1 = 1
    OBVIOUS
  <2> QED BY <1>2, <2>6, <2>7
<1> QED BY <1>3, <1>4

\* The codepoints of commands.
Commands == {cp \in UInt16 : cp \notin Objects}

\* Which codepoints are those of commands.
LEMMA CommandsAre ==
  /\ CP.EXCSAT \in Commands /\ CP.ACCSEC \in Commands /\ CP.SECCHK \in Commands
  /\ CP.ACCRDB \in Commands /\ CP.PRPSQLSTT \in Commands /\ CP.EXCSQLSTT \in Commands
  /\ CP.EXCSQLIMM \in Commands /\ CP.EXCSQLSET \in Commands /\ CP.DSCSQLSTT \in Commands
  /\ CP.OPNQRY \in Commands /\ CP.CNTQRY \in Commands /\ CP.CLSQRY \in Commands
  /\ CP.RDBCMM \in Commands /\ CP.RDBRLLBCK \in Commands /\ CP.SQLINTR \in Commands
BY CodepointsAre, ObjectsAre DEF Commands

\* A command is a part,
LEMMA PartCommand ==
  ASSUME NEW cp \in Commands, NEW same \in BOOLEAN, NEW last \in BOOLEAN, NEW k \in Nat, ~ same => 1 <= k
  PROVE  Part(<<Command(cp, same, last)>>, k, FALSE, same, last)
<1> DEFINE object == FALSE
           size == 0
<1>1. object \in BOOLEAN /\ object = (cp \in Objects) /\ size \in Nat /\ cp \in UInt16
  BY DEF Commands
<1> HIDE DEF object, size
<1>2. Part(<<Call(cp, size, same, last)>>, k, object, same, last)
  BY <1>1, PartCall
<1> QED BY <1>2 DEF object, size, Command

\* and so is one with its text.
LEMMA PartStatement ==
  ASSUME NEW cp \in Commands, NEW size \in Nat, NEW last \in BOOLEAN
  PROVE  Part(Statement(cp, size, last), 1, FALSE, FALSE, last)
<1> DEFINE a == <<Command(cp, TRUE, FALSE)>>
           b == <<Call(CP.SQLSTT, size, FALSE, last)>>
<1>1. Part(a, 0, FALSE, TRUE, FALSE)
  <2> DEFINE same == TRUE
             end == FALSE
             k == 0
  <2>1. same \in BOOLEAN /\ end \in BOOLEAN /\ k \in Nat /\ (~ same => 1 <= k)
    OBVIOUS
  <2> HIDE DEF same, end, k
  <2>2. Part(<<Command(cp, same, end)>>, k, FALSE, same, end)
    BY <2>1, PartCommand
  <2> QED BY <2>2 DEF same, end, k
<1>2. Part(b, 1, TRUE, FALSE, last)
  <2> DEFINE same == FALSE
             object == TRUE
             text == CP.SQLSTT
             k == 1
  <2>1. /\ same \in BOOLEAN /\ object \in BOOLEAN /\ text \in UInt16
        /\ object = (text \in Objects) /\ k \in Nat /\ (~ same => 1 <= k)
    BY CodepointsAre, ObjectsAre
  <2> HIDE DEF same, object, text, k
  <2>2. Part(<<Call(text, size, same, last)>>, k, object, same, last)
    BY <2>1, PartCall
  <2> QED BY <2>2 DEF same, object, text, k
<1>3. Statement(cp, size, last) = a \o b
  <2> DEFINE x == Command(cp, TRUE, FALSE)
             y == Call(CP.SQLSTT, size, FALSE, last)
  <2>1. Statement(cp, size, last) = <<x, y>> /\ a = <<x>> /\ b = <<y>>
    BY DEF Statement
  <2> HIDE DEF x, y, a, b
  <2>2. <<x>> \o <<y>> = <<x, y>>
    BY PairJoin
  <2> QED BY <2>1, <2>2
<1> HIDE DEF a, b
<1>4. Part(a \o b, 0 + 1, FALSE, FALSE, last)
  <2>1. 0 \in Nat /\ 1 \in Nat
    OBVIOUS
  <2> QED BY ONLY <1>1, <1>2, <2>1, PartJoin
<1>5. 0 + 1 = 1
  OBVIOUS
<1> QED BY <1>3, <1>4, <1>5

\* A command that ends a chain.
LEMMA PartLast ==
  ASSUME NEW cp \in Commands
  PROVE  Part(<<Command(cp, FALSE, TRUE)>>, 1, FALSE, FALSE, TRUE)
<1> DEFINE same == FALSE
           end == TRUE
           k == 1
<1>1. same \in BOOLEAN /\ end \in BOOLEAN /\ k \in Nat /\ (~ same => 1 <= k)
  OBVIOUS
<1> HIDE DEF same, end, k
<1>2. Part(<<Command(cp, same, end)>>, k, FALSE, same, end)
  BY <1>1, PartCommand
<1> QED BY <1>2 DEF same, end, k

\* The RDBCMM of auto-commit mode, with the running identifier or with 1.
LEMMA PartCommit ==
  /\ Part(Commit(TRUE), 1, FALSE, FALSE, TRUE) /\ Part(CommitRestarted(TRUE), 1, FALSE, FALSE, TRUE)
  /\ Commit(FALSE) = <<>> /\ CommitRestarted(FALSE) = <<>>
<1> DEFINE call == Command(CP.RDBCMM, FALSE, TRUE)
           again == [call EXCEPT !.restart = TRUE]
<1>1. CP.RDBCMM \in Commands
  BY CommandsAre
<1>2. Commit(TRUE) = <<call>> /\ Commit(FALSE) = <<>>
  BY DEF Commit
<1>3. Part(Commit(TRUE), 1, FALSE, FALSE, TRUE)
  BY <1>1, <1>2, PartLast
<1>4. CommitRestarted(FALSE) = <<>>
  <2> DEFINE f == [i \in 1 .. 0 |-> [Commit(FALSE)[i] EXCEPT !.restart = TRUE]]
  <2>0. Commit(FALSE) = <<>>
    BY <1>2
  <2>1. Len(Commit(FALSE)) = 0
    <3> DEFINE none == Commit(FALSE)
    <3>1. none = <<>>
      BY <2>0
    <3> HIDE DEF none
    <3>2. Len(none) = 0
      BY ONLY <3>1
    <3> QED BY <3>2 DEF none
  <2>2. CommitRestarted(FALSE) = f
    BY <2>1 DEF CommitRestarted
  <2>3. \A i \in 1 .. 0 : FALSE
    OBVIOUS
  <2>4. f \in [1 .. 0 -> {}]
    BY <2>3
  <2> HIDE DEF f
  <2>5. 0 \in Nat
    OBVIOUS
  <2>6. f \in Seq({}) /\ Len(f) = 0
    BY ONLY <2>4, <2>5, AreSeq
  <2> QED BY <2>2, <2>6, EmptySeq
<1>5. CommitRestarted(TRUE) = <<again>>
  <2>1. Len(Commit(TRUE)) = 1 /\ Commit(TRUE)[1] = call
    <3> DEFINE one == Commit(TRUE)
    <3>1. one = <<call>>
      BY <1>2
    <3> HIDE DEF call, one
    <3>2. Len(one) = 1 /\ one[1] = call
      BY ONLY <3>1
    <3> QED BY <3>2 DEF one
  <2>2. CommitRestarted(TRUE) = [i \in 1 .. 1 |-> [Commit(TRUE)[i] EXCEPT !.restart = TRUE]]
    BY <2>1 DEF CommitRestarted
  <2>3. \A i \in 1 .. 1 : [Commit(TRUE)[i] EXCEPT !.restart = TRUE] = again
    <3> TAKE i \in 1 .. 1
    <3>1. i = 1
      OBVIOUS
    <3> QED BY <2>1, <3>1
  <2> HIDE DEF again
  <2>4. CommitRestarted(TRUE) = [i \in 1 .. 1 |-> again]
    BY <2>2, <2>3
  <2>5. [i \in 1 .. 1 |-> again] = <<again>>
    OBVIOUS
  <2> QED BY <2>4, <2>5
<1>6. Part(<<again>>, 1, FALSE, FALSE, TRUE)
  <2> DEFINE cp == CP.RDBCMM
             size == 0
             same == FALSE
             end == TRUE
             restart == TRUE
             k == 1
  <2>1. again = [cp |-> cp, size |-> size, sameID |-> same, last |-> end, restart |-> restart]
    <3> DEFINE r == call
               no == FALSE
    <3>1. r = [cp |-> cp, size |-> size, sameID |-> same, last |-> end, restart |-> no]
      BY DEF Command, Call
    <3>2. again = [r EXCEPT !.restart = restart]
      OBVIOUS
    <3> HIDE DEF r, cp, size, same, end, restart, no, again
    <3>3. [r EXCEPT !.restart = restart]
            = [cp |-> cp, size |-> size, sameID |-> same, last |-> end, restart |-> restart]
      BY ONLY <3>1, SMT
    <3> QED BY <3>2, <3>3
  <2>2. /\ cp \in UInt16 /\ cp \notin Objects /\ size \in Nat /\ same \in BOOLEAN /\ end \in BOOLEAN
        /\ restart \in BOOLEAN /\ k \in Nat
    BY <1>1 DEF Commands
  <2>a. ~ same /\ 1 <= k
    OBVIOUS
  <2> HIDE DEF cp, size, same, end, restart, k, again
  <2>3. /\ again \in Calls /\ again.cp = cp /\ again.sameID = same
        /\ again.last = end /\ again.restart = restart
    BY <2>1, <2>2, CallIs
  <2>4. Takes(again) <= k
    BY <2>a, <2>3 DEF Takes
  <2>5. Part(<<again>>, k, again.cp \in Objects, again.sameID, again.last)
    BY <2>2, <2>3, <2>4, PartOne
  <2>6. (again.cp \in Objects) = FALSE
    BY <2>2, <2>3
  <2>7. Part(<<again>>, k, FALSE, same, end)
    BY <2>3, <2>5, <2>6, Zenon
  <2> QED BY <2>7 DEF k, same, end
<1> QED BY <1>2, <1>3, <1>4, <1>5, <1>6

\* A part that ends a chain in auto-commit mode or not.
LEMMA PartCommitted ==
  ASSUME NEW c, NEW k \in Nat, NEW o, NEW auto \in BOOLEAN, NEW end \in BOOLEAN, end = ~ auto,
         Part(c, k, o, FALSE, end)
  PROVE  /\ Part(c \o Commit(auto), k + 1, o, FALSE, TRUE)
         /\ Part(c \o CommitRestarted(auto), k + 1, o, FALSE, TRUE)
<1>1. CASE auto
  <2>1. auto = TRUE /\ end = FALSE
    BY <1>1
  <2>2. Part(c, k, o, FALSE, FALSE)
    BY <2>1
  <2>3. 1 \in Nat
    OBVIOUS
  <2> DEFINE d == Commit(TRUE)
             e == CommitRestarted(TRUE)
  <2>4. Part(d, 1, FALSE, FALSE, TRUE) /\ Part(e, 1, FALSE, FALSE, TRUE)
    BY PartCommit
  <2> HIDE DEF d, e
  <2>5. Part(c \o d, k + 1, o, FALSE, TRUE)
    BY ONLY <2>2, <2>3, <2>4, PartJoin, k \in Nat
  <2>6. Part(c \o e, k + 1, o, FALSE, TRUE)
    BY ONLY <2>2, <2>3, <2>4, PartJoin, k \in Nat
  <2> QED BY <2>1, <2>5, <2>6 DEF d, e
<1>2. CASE ~ auto
  <2>1. auto = FALSE /\ end = TRUE
    BY <1>2
  <2>2. Commit(auto) = <<>> /\ CommitRestarted(auto) = <<>>
    BY <2>1, PartCommit
  <2>3. c \in Seq(Calls)
    BY DEF Part
  <2>4. c \o <<>> = c
    BY <2>3, ConcatEmptySeq
  <2>5. Part(c, k, o, FALSE, TRUE)
    BY <2>1
  <2>6. k + 1 \in Nat /\ k <= k + 1
    OBVIOUS
  <2> DEFINE l == k + 1
  <2>7. l \in Nat /\ k <= l
    BY <2>6
  <2> HIDE DEF l
  <2>8. Part(c, l, o, FALSE, TRUE)
    BY ONLY <2>5, <2>7, PartMore, k \in Nat
  <2> QED BY <2>2, <2>4, <2>8 DEF l
<1> QED BY <1>1, <1>2

\* The chains of ExecDirect, QueryCallDirect and ExecSQLSet are parts,
LEMMA PartImmediate ==
  ASSUME NEW cp \in Commands, NEW size \in Nat, NEW auto \in BOOLEAN
  PROVE  Part(Immediate(cp, size, auto), 2, FALSE, FALSE, TRUE)
<1> DEFINE end == ~ auto
           c == Statement(cp, size, ~ auto)
<1>1. Immediate(cp, size, auto) = c \o Commit(auto)
  BY DEF Immediate
<1>2. end \in BOOLEAN
  OBVIOUS
<1>3. Part(c, 1, FALSE, FALSE, end)
  <2>1. c = Statement(cp, size, end)
    OBVIOUS
  <2> HIDE DEF end, c
  <2> QED BY <1>2, <2>1, PartStatement
<1>4. end = ~ auto
  OBVIOUS
<1> HIDE DEF end, c
<1>5. Part(c \o Commit(auto), 1 + 1, FALSE, FALSE, TRUE)
  <2>1. 1 \in Nat
    OBVIOUS
  <2> QED BY ONLY <1>2, <1>3, <1>4, <2>1, PartCommitted, auto \in BOOLEAN
<1>6. 1 + 1 = 2
  OBVIOUS
<1> QED BY <1>1, <1>5, <1>6

\* those of QueryDirect, QueryStreamDirect and PrepareAndDescribe,
LEMMA PartPrepared ==
  ASSUME NEW cp \in Commands, NEW size \in Nat
  PROVE  Part(Prepared(cp, size), 2, FALSE, FALSE, TRUE)
<1> DEFINE c == Statement(CP.PRPSQLSTT, size, FALSE)
           d == <<Command(cp, FALSE, TRUE)>>
           end == FALSE
<1>1. Part(c, 1, FALSE, FALSE, FALSE)
  <2>1. CP.PRPSQLSTT \in Commands /\ end \in BOOLEAN
    BY CommandsAre
  <2>2. c = Statement(CP.PRPSQLSTT, size, end)
    OBVIOUS
  <2> HIDE DEF c, end
  <2>3. Part(c, 1, FALSE, FALSE, end)
    BY <2>1, <2>2, PartStatement
  <2> QED BY <2>3 DEF end
<1>2. Part(d, 1, FALSE, FALSE, TRUE)
  BY PartLast
<1>3. Prepared(cp, size) = c \o d
  BY DEF Prepared
<1> HIDE DEF c, d
<1>4. Part(c \o d, 1 + 1, FALSE, FALSE, TRUE)
  <2>1. 1 \in Nat
    OBVIOUS
  <2> QED BY ONLY <1>1, <1>2, <2>1, PartJoin
<1>5. 1 + 1 = 2
  OBVIOUS
<1> QED BY <1>3, <1>4, <1>5

\* A command with parameters.
LEMMA PartWithParameters ==
  ASSUME NEW cp \in Commands, NEW size \in Nat, NEW ext \in Nat, NEW more \in BOOLEAN,
         NEW end \in BOOLEAN, end = ~ more
  PROVE  Part(<<Command(cp, TRUE, FALSE)>> \o Parameters(size, ext, more), 1, FALSE, FALSE, end)
<1> DEFINE a == <<Command(cp, TRUE, FALSE)>>
           b == Parameters(size, ext, more)
<1>1. Part(a, 0, FALSE, TRUE, FALSE)
  <2> DEFINE same == TRUE
             last == FALSE
             k == 0
  <2>1. same \in BOOLEAN /\ last \in BOOLEAN /\ k \in Nat /\ (~ same => 1 <= k)
    OBVIOUS
  <2> HIDE DEF same, last, k
  <2>2. Part(<<Command(cp, same, last)>>, k, FALSE, same, last)
    BY <2>1, PartCommand
  <2> QED BY <2>2 DEF same, last, k
<1>2. Part(b, 1, TRUE, FALSE, end)
  BY PartParameters
<1> HIDE DEF a, b
<1>3. Part(a \o b, 0 + 1, FALSE, FALSE, end)
  <2>1. 0 \in Nat /\ 1 \in Nat
    OBVIOUS
  <2> QED BY ONLY <1>1, <1>2, <2>1, PartJoin
<1>4. 0 + 1 = 1
  OBVIOUS
<1> QED BY <1>3, <1>4 DEF a, b

\* those of the executions with parameters,
LEMMA PartExecution ==
  ASSUME NEW size \in Nat, NEW ext \in Nat, NEW auto \in BOOLEAN
  PROVE  /\ Part(Execution(size, ext, auto), 2, FALSE, FALSE, TRUE)
         /\ Part(OpenWithParams(size, ext), 1, FALSE, FALSE, TRUE)
<1>1. CP.EXCSQLSTT \in Commands /\ CP.OPNQRY \in Commands
  BY CommandsAre
<1>2. Part(Execution(size, ext, auto), 2, FALSE, FALSE, TRUE)
  <2> DEFINE end == ~ auto
             cp == CP.EXCSQLSTT
             c == <<Command(CP.EXCSQLSTT, TRUE, FALSE)>> \o Parameters(size, ext, auto)
  <2>1. end \in BOOLEAN /\ end = ~ auto /\ cp \in Commands
    BY <1>1
  <2>2. c = <<Command(cp, TRUE, FALSE)>> \o Parameters(size, ext, auto)
    OBVIOUS
  <2>3. Execution(size, ext, auto) = c \o CommitRestarted(auto)
    BY DEF Execution
  <2> HIDE DEF end, cp, c
  <2>4. Part(c, 1, FALSE, FALSE, end)
    BY <2>1, <2>2, PartWithParameters
  <2>5. Part(c \o CommitRestarted(auto), 1 + 1, FALSE, FALSE, TRUE)
    <3>1. 1 \in Nat
      OBVIOUS
    <3> QED BY ONLY <2>1, <2>4, <3>1, PartCommitted, auto \in BOOLEAN
  <2>6. 1 + 1 = 2
    OBVIOUS
  <2> QED BY <2>3, <2>5, <2>6
<1>3. Part(OpenWithParams(size, ext), 1, FALSE, FALSE, TRUE)
  <2> DEFINE end == TRUE
             more == FALSE
             cp == CP.OPNQRY
  <2>1. end \in BOOLEAN /\ more \in BOOLEAN /\ end = ~ more /\ cp \in Commands
    BY <1>1
  <2>2. OpenWithParams(size, ext) = <<Command(cp, TRUE, FALSE)>> \o Parameters(size, ext, more)
    BY DEF OpenWithParams
  <2> HIDE DEF end, more, cp
  <2>3. Part(OpenWithParams(size, ext), 1, FALSE, FALSE, end)
    BY <2>1, <2>2, PartWithParameters
  <2> QED BY <2>3 DEF end
<1> QED BY <1>2, <1>3

\* The chains of the handshake.
LEMMA PartPair ==
  ASSUME NEW cp \in Commands, NEW last \in Commands
  PROVE  Part(<<Command(cp, FALSE, FALSE), Command(last, FALSE, TRUE)>>, 2, FALSE, FALSE, TRUE)
<1> DEFINE x == Command(cp, FALSE, FALSE)
           y == Command(last, FALSE, TRUE)
<1>1. Part(<<x>>, 1, FALSE, FALSE, FALSE)
  <2> DEFINE same == FALSE
             end == FALSE
             k == 1
  <2>1. same \in BOOLEAN /\ end \in BOOLEAN /\ k \in Nat /\ (~ same => 1 <= k)
    OBVIOUS
  <2> HIDE DEF same, end, k
  <2>2. Part(<<Command(cp, same, end)>>, k, FALSE, same, end)
    BY <2>1, PartCommand
  <2> QED BY <2>2 DEF same, end, k
<1>2. Part(<<y>>, 1, FALSE, FALSE, TRUE)
  BY PartLast
<1> HIDE DEF x, y
<1>3. Part(<<x>> \o <<y>>, 1 + 1, FALSE, FALSE, TRUE)
  <2> DEFINE a == <<x>>
             b == <<y>>
  <2>1. 1 \in Nat /\ Part(a, 1, FALSE, FALSE, FALSE) /\ Part(b, 1, FALSE, FALSE, TRUE)
    BY <1>1, <1>2
  <2> HIDE DEF a, b
  <2>2. Part(a \o b, 1 + 1, FALSE, FALSE, TRUE)
    BY ONLY <2>1, PartJoin
  <2> QED BY <2>2 DEF a, b
<1>4. 1 + 1 = 2 /\ <<x>> \o <<y>> = <<x, y>>
  BY PairJoin
<1> QED BY <1>3, <1>4 DEF x, y

\* and the one that sets a session up.
LEMMA PartPostConnect ==
  ASSUME NEW size \in Nat
  PROVE  Part(PostConnect(size), 3, FALSE, FALSE, TRUE)
<1> DEFINE a == <<Command(CP.EXCSAT, FALSE, FALSE)>>
           b == Statement(CP.EXCSQLSET, size, FALSE)
           c == Commit(TRUE)
<1>1. PostConnect(size) = (a \o b) \o c
  BY DEF PostConnect
<1>2. CP.EXCSAT \in Commands /\ CP.EXCSQLSET \in Commands
  BY CommandsAre
<1>3. Part(a, 1, FALSE, FALSE, FALSE)
  <2> DEFINE same == FALSE
             end == FALSE
             k == 1
             cp == CP.EXCSAT
  <2>1. same \in BOOLEAN /\ end \in BOOLEAN /\ k \in Nat /\ (~ same => 1 <= k) /\ cp \in Commands
    BY <1>2
  <2> HIDE DEF same, end, k, cp
  <2>2. Part(<<Command(cp, same, end)>>, k, FALSE, same, end)
    BY <2>1, PartCommand
  <2> QED BY <2>2 DEF same, end, k, cp
<1>4. Part(b, 1, FALSE, FALSE, FALSE)
  <2> DEFINE end == FALSE
             cp == CP.EXCSQLSET
  <2>1. end \in BOOLEAN /\ cp \in Commands
    BY <1>2
  <2> HIDE DEF end, cp
  <2>2. Part(Statement(cp, size, end), 1, FALSE, FALSE, end)
    BY <2>1, PartStatement
  <2> QED BY <2>2 DEF end, cp
<1>5. Part(c, 1, FALSE, FALSE, TRUE)
  BY PartCommit
<1> HIDE DEF a, b, c
<1>6. 1 \in Nat /\ 2 \in Nat /\ 1 + 1 = 2 /\ 2 + 1 = 3
  OBVIOUS
<1>7. Part(a \o b, 1 + 1, FALSE, FALSE, FALSE)
  BY ONLY <1>3, <1>4, <1>6, PartJoin
<1> DEFINE d == a \o b
<1>8. Part(d, 2, FALSE, FALSE, FALSE)
  BY <1>6, <1>7
<1>9. PostConnect(size) = d \o c
  BY <1>1
<1> HIDE DEF d
<1>10. Part(d \o c, 2 + 1, FALSE, FALSE, TRUE)
  BY ONLY <1>5, <1>6, <1>8, PartJoin
<1> QED BY <1>6, <1>9, <1>10

\* What a session writes are parts that stand on their own.
Identity(n) == IF n < 2 THEN 2 ELSE 3

\* Whatever a session may write at a stage is a part that ends its chain.
LEMMA ChainsArePart ==
  ASSUME NEW n \in 0 .. Connected, NEW calls \in ChainsAt(n)
  PROVE  Part(calls, Identity(n), FALSE, FALSE, TRUE)
<1>1. Connected = 3 /\ (n = 0 \/ n = 1 \/ n = 2 \/ n = 3)
  BY DEF Connected
<1>2. Sizes \subseteq Nat /\ MaxExternal \in Nat
  BY ChainsAssumption
<1> DEFINE third == {PostConnect(size) : size \in Sizes}
<1>a. ChainsAt(n) = CASE n = 0 -> {Attributes} [] n = 1 -> {Security} [] n = 2 -> third
                      [] n = Connected -> SessionChains
  BY DEF ChainsAt
<1> DEFINE first == {Attributes}
           second == {Security}
           chains == ChainsAt(n)
<1>b. chains = CASE n = 0 -> first [] n = 1 -> second [] n = 2 -> third [] n = 3 -> SessionChains
  BY <1>1, <1>a
<1> HIDE DEF third, first, second, chains
<1>c. /\ n = 0 => chains = first
      /\ n = 1 => chains = second
      /\ n = 2 => chains = third
      /\ n = 3 => chains = SessionChains
  BY ONLY <1>b
<1>3. CASE n = 0
  <2>0. Identity(n) = 2
    BY <1>3 DEF Identity
  <2>2. ChainsAt(n) = {Attributes}
    BY <1>3, <1>c DEF chains, first
  <2>1. calls = Attributes /\ Identity(n) = 2
    BY ONLY <2>0, <2>2, calls \in ChainsAt(n)
  <2> QED BY <2>1, CommandsAre, PartPair DEF Attributes
<1>4. CASE n = 1
  <2>0. Identity(n) = 2
    BY <1>4 DEF Identity
  <2>2. ChainsAt(n) = {Security}
    BY <1>4, <1>c DEF chains, second
  <2>1. calls = Security /\ Identity(n) = 2
    BY ONLY <2>0, <2>2, calls \in ChainsAt(n)
  <2> QED BY <2>1, CommandsAre, PartPair DEF Security
<1>5. CASE n = 2
  <2>0. Identity(n) = 3
    BY <1>5 DEF Identity
  <2>3. ChainsAt(n) = {PostConnect(size) : size \in Sizes}
    BY <1>5, <1>c DEF chains, third
  <2>1. Identity(n) = 3 /\ calls \in {PostConnect(size) : size \in Sizes}
    BY <2>0, <2>3
  <2>2. PICK size \in Sizes : calls = PostConnect(size)
    BY <2>1
  <2> QED BY <1>2, <2>1, <2>2, PartPostConnect
<1>6. CASE n = 3
  <2>0. Identity(n) = 3
    BY <1>6 DEF Identity
  <2>1. Identity(n) = 3 /\ calls \in SessionChains
    BY <1>6, <1>c, <2>0 DEF chains
  <2>2. \E k \in 0 .. 3 : Part(calls, k, FALSE, FALSE, TRUE)
    <3>0. 1 \in 0 .. 3 /\ 2 \in 0 .. 3
      OBVIOUS
    <3> DEFINE A == {Single(command) : command \in Singles}
               B == {Immediate(command, size, auto) :
                       command \in {CP.EXCSQLIMM, CP.EXCSQLSET}, size \in Sizes, auto \in BOOLEAN}
               C == {Prepared(other, size) : other \in {CP.OPNQRY, CP.DSCSQLSTT}, size \in Sizes}
               D == {Execution(size, ext, auto) :
                       size \in Sizes, ext \in 0 .. MaxExternal, auto \in BOOLEAN}
               E == {OpenWithParams(size, ext) : size \in Sizes, ext \in 0 .. MaxExternal}
    <3>1. CASE calls \in A
      <4>1. PICK command \in Singles : calls = <<Command(command, FALSE, TRUE)>>
        BY <3>1 DEF Single
      <4>2. command \in Commands
        BY CommandsAre DEF Singles
      <4> QED BY <3>0, <4>1, <4>2, PartLast
    <3>2. CASE calls \in B
      <4>1. PICK command \in {CP.EXCSQLIMM, CP.EXCSQLSET}, size \in Sizes, auto \in BOOLEAN :
                   calls = Immediate(command, size, auto)
        BY <3>2
      <4>2. command \in Commands /\ size \in Nat
        BY <1>2, CommandsAre
      <4>3. Part(calls, 2, FALSE, FALSE, TRUE)
        BY <4>1, <4>2, PartImmediate
      <4> QED BY <3>0, <4>3
    <3>3. CASE calls \in C
      <4>1. PICK other \in {CP.OPNQRY, CP.DSCSQLSTT}, size \in Sizes : calls = Prepared(other, size)
        BY <3>3
      <4>2. other \in Commands /\ size \in Nat
        BY <1>2, CommandsAre
      <4>3. Part(calls, 2, FALSE, FALSE, TRUE)
        BY <4>1, <4>2, PartPrepared
      <4> QED BY <3>0, <4>3
    <3>4. CASE calls \in D
      <4>1. PICK size \in Sizes, ext \in 0 .. MaxExternal, auto \in BOOLEAN :
                   calls = Execution(size, ext, auto)
        BY <3>4
      <4>2. size \in Nat /\ ext \in Nat
        BY <1>2
      <4>3. Part(calls, 2, FALSE, FALSE, TRUE)
        BY <4>1, <4>2, PartExecution
      <4> QED BY <3>0, <4>3
    <3>5. CASE calls \in E
      <4>1. PICK size \in Sizes, ext \in 0 .. MaxExternal : calls = OpenWithParams(size, ext)
        BY <3>5
      <4>2. size \in Nat /\ ext \in Nat
        BY <1>2
      <4>3. Part(calls, 1, FALSE, FALSE, TRUE)
        BY <4>1, <4>2, PartExecution
      <4> QED BY <3>0, <4>3
    <3>6. calls \in SessionChains
      BY <2>1
    <3>7. SessionChains = A \cup B \cup C \cup D \cup E
      BY DEF SessionChains
    <3>8. calls \in A \/ calls \in B \/ calls \in C \/ calls \in D \/ calls \in E
      <4> HIDE DEF A, B, C, D, E
      <4> QED BY <3>6, <3>7
    <3> HIDE DEF A, B, C, D, E
    <3> QED BY ONLY <3>1, <3>2, <3>3, <3>4, <3>5, <3>8
  <2>3. PICK k \in 0 .. 3 : Part(calls, k, FALSE, FALSE, TRUE)
    BY <2>2
  <2>4. k \in Nat /\ 3 \in Nat /\ k <= 3
    OBVIOUS
  <2>5. Part(calls, 3, FALSE, FALSE, TRUE)
    BY ONLY <2>3, <2>4, PartMore
  <2> QED BY <2>1, <2>5
<1> QED BY <1>1, <1>3, <1>4, <1>5, <1>6

\* What a segment that is written makes of the flow, and of what is on the wire.
Carries(dsss, pays, q, w, d2, p2, left, r, x) ==
  /\ Flow(d2, p2) /\ x \in Seq(Byte) /\ left \in Seq(Byte) /\ r \in Place
  /\ WriterAt(d2, p2, left, r)
  /\ \A f, rd : Expects(dsss, pays, q, w, f, rd) => Expects(d2, p2, r, x, f, rd)

\* The first segment of a frame goes behind everything before it.
LEMMA FrameCarried ==
  ASSUME NEW dsss, NEW pays, Flow(dsss, pays), NEW w \in Seq(Byte), NEW q, WriterAt(dsss, pays, <<>>, q),
         NEW dss \in Frame, NEW pay, IsPayload(pay, dss.cp, dss.data),
         NEW n \in Nat, n <= Len(pay), HeaderSize + n <= MaxSegment
  PROVE  \E r : Carries(dsss, pays, q, w, Append(dsss, dss), Append(pays, pay),
                        SubSeq(pay, n + 1, Len(pay)), r,
                        w \o Header(dss, HeaderSize + n, n < Len(pay)) \o SubSeq(pay, 1, n))
<1> DEFINE d2 == Append(dsss, dss)
           p2 == Append(pays, pay)
           h == Header(dss, HeaderSize + n, n < Len(pay))
           s == SubSeq(pay, 1, n)
           e == h \o s
           left == SubSeq(pay, n + 1, Len(pay))
           x == w \o h \o s
<1>1. PICK r : Written(d2, p2, <<Len(dsss) + 1, 0, FALSE>>, e, left, r)
  BY FirstWritten
<1>2. q = <<Len(dsss) + 1, 0, FALSE>>
  BY DEF WriterAt
<1>3. e \in Seq(Byte) /\ left \in Seq(Byte) /\ r \in Place /\ WriterAt(d2, p2, left, r) /\ Link(d2, p2, q, e, r)
  BY <1>1, <1>2 DEF Written
<1>4. Flow(d2, p2)
  BY FlowGrows
<1>5. x = w \o e /\ w \o e \in Seq(Byte)
  <2>1. pay \in Seq(Byte) /\ Len(pay) \in Nat
    BY DEF IsPayload
  <2>2. s \in Seq(Byte)
    BY <2>1, CutParts
  <2>3. h \in Seq(Byte)
    <3>1. /\ dss.type \in 0 .. 15 /\ dss.chained \in BOOLEAN /\ dss.sameID \in BOOLEAN /\ IsWord(dss.id)
      BY FrameIs
    <3>2. HeaderSize + n \in 0 .. MaxSegment /\ (n < Len(pay)) \in BOOLEAN
      BY SegmentSizes DEF HeaderSize
    <3> QED BY <3>1, <3>2, HeaderReads
  <2> HIDE DEF s, h
  <2>4. (w \o h) \o s = w \o (h \o s) /\ h \o s \in Seq(Byte)
    BY ONLY <2>2, <2>3, w \in Seq(Byte), JoinThree
  <2>5. w \o (h \o s) \in Seq(Byte)
    <3> DEFINE y == h \o s
    <3>1. y \in Seq(Byte)
      BY <2>4
    <3> HIDE DEF y
    <3>2. w \o y \in Seq(Byte)
      BY ONLY <3>1, w \in Seq(Byte), JoinIsSeq
    <3> QED BY <3>2 DEF y
  <2> QED BY <2>4, <2>5
<1> HIDE DEF d2, p2, e, left, x
<1>6. ASSUME NEW f, NEW rd, Expects(dsss, pays, q, w, f, rd)
      PROVE  Expects(d2, p2, r, x, f, rd)
  <2>1. Expects(d2, p2, q, w, f, rd)
    BY <1>6, ExpectsStays DEF d2, p2
  <2>2. Expects(d2, p2, r, w \o e, f, rd)
    BY <1>3, <1>4, <2>1, ExpectsGrows
  <2> QED BY <1>5, <2>2
<1>7. Carries(dsss, pays, q, w, d2, p2, left, r, x)
  BY <1>3, <1>4, <1>5, <1>6 DEF Carries
<1> QED BY <1>7 DEF d2, p2, left, x, h, s

\* A later segment as well.
LEMMA SegmentCarried ==
  ASSUME NEW dsss, NEW pays, Flow(dsss, pays), NEW w \in Seq(Byte), NEW q,
         NEW left \in Seq(Byte), WriterAt(dsss, pays, left, q), left # <<>>,
         NEW n \in Nat, n <= Len(left), ContinuationSize + n <= MaxSegment
  PROVE  \E r : Carries(dsss, pays, q, w, dsss, pays, SubSeq(left, n + 1, Len(left)), r,
                        w \o Word(ContinuationSize + n, n < Len(left)) \o SubSeq(left, 1, n))
<1> DEFINE h == Word(ContinuationSize + n, n < Len(left))
           s == SubSeq(left, 1, n)
           e == h \o s
           l2 == SubSeq(left, n + 1, Len(left))
           x == w \o h \o s
<1>1. PICK r : Written(dsss, pays, q, e, l2, r)
  BY NextWritten
<1>2. e \in Seq(Byte) /\ l2 \in Seq(Byte) /\ r \in Place /\ WriterAt(dsss, pays, l2, r) /\ Link(dsss, pays, q, e, r)
  BY <1>1 DEF Written
<1>3. x = w \o e /\ w \o e \in Seq(Byte)
  <2>1. Len(left) \in Nat
    OBVIOUS
  <2>2. s \in Seq(Byte)
    BY <2>1, CutParts
  <2>3. h \in Seq(Byte)
    <3>1. ContinuationSize + n \in 0 .. MaxSegment /\ (n < Len(left)) \in BOOLEAN
      BY SegmentSizes DEF ContinuationSize
    <3> QED BY <3>1, WordReads
  <2> HIDE DEF s, h
  <2>4. (w \o h) \o s = w \o (h \o s) /\ h \o s \in Seq(Byte)
    BY ONLY <2>2, <2>3, w \in Seq(Byte), JoinThree
  <2>5. w \o (h \o s) \in Seq(Byte)
    <3> DEFINE y == h \o s
    <3>1. y \in Seq(Byte)
      BY <2>4
    <3> HIDE DEF y
    <3>2. w \o y \in Seq(Byte)
      BY ONLY <3>1, w \in Seq(Byte), JoinIsSeq
    <3> QED BY <3>2 DEF y
  <2> QED BY <2>4, <2>5
<1> HIDE DEF e, l2, x
<1>4. ASSUME NEW f, NEW rd, Expects(dsss, pays, q, w, f, rd)
      PROVE  Expects(dsss, pays, r, x, f, rd)
  <2>1. Expects(dsss, pays, r, w \o e, f, rd)
    BY <1>2, <1>4, ExpectsGrows
  <2> QED BY <1>3, <2>1
<1>5. Carries(dsss, pays, q, w, dsss, pays, l2, r, x)
  BY <1>2, <1>3, <1>4 DEF Carries
<1> QED BY <1>5 DEF l2, x, h, s

-----------------------------------------------------------------------------
\* The phases of a reader that expects something.
LEMMA ExpectsPhase ==
  ASSUME NEW dsss, NEW pays, NEW q, NEW x, NEW f, NEW rd, Expects(dsss, pays, q, x, f, rd)
  PROVE  /\ rd.phase \in {"header", "body", "continuation"}
         /\ rd.phase = "header" => rd = AtHeader /\ x \in Seq(Byte) /\ Stream(dsss, pays, x, <<f, 0, FALSE>>, q)
         /\ rd.phase = "body" => \E a, b, v : InBody(dsss, pays, q, x, f, rd, a, b, v)
         /\ rd.phase = "continuation" => \E a : InContinuation(dsss, pays, q, x, f, rd, a)
<1>1. CASE rd = AtHeader /\ x \in Seq(Byte) /\ Stream(dsss, pays, x, <<f, 0, FALSE>>, q)
  <2>1. rd.phase = "header"
    BY <1>1 DEF AtHeader
  <2> QED BY <1>1, <2>1
<1>2. ASSUME NEW a, NEW b, NEW v, InBody(dsss, pays, q, x, f, rd, a, b, v)
      PROVE  rd.phase = "body"
  <2>1. PICK h, s, n, c : rd = Reader("body", h, s, n, c)
    BY <1>2 DEF InBody
  <2> QED BY <2>1, ReaderFields
<1>3. ASSUME NEW a, InContinuation(dsss, pays, q, x, f, rd, a)
      PROVE  rd.phase = "continuation"
  <2>1. PICK h, s, n, c : rd = Reader("continuation", h, s, n, c)
    BY <1>3 DEF InContinuation
  <2> QED BY <2>1, ReaderFields
<1> QED BY <1>1, <1>2, <1>3 DEF Expects

\* A reader at a header, at rest and one that has failed are told apart.
LEMMA PhasesDiffer ==
  /\ AtHeader.phase = "header" /\ AtRest.phase = "rest" /\ Failed.phase = "failed"
  /\ AtHeader # AtRest /\ AtHeader # Failed /\ AtRest # Failed
BY DEF AtHeader, AtRest, Failed

\* How much of a payload goes into a segment.
LEMMA FittingIs ==
  ASSUME NEW pay \in Seq(Byte), NEW header \in {HeaderSize, ContinuationSize}
  PROVE  /\ Fitting(pay, header) \in Nat /\ Fitting(pay, header) <= Len(pay)
         /\ header + Fitting(pay, header) <= MaxSegment
<1>1. MaxSegment \in Nat /\ MaxSegment >= 15 /\ header \in 0 .. 6 /\ Len(pay) \in Nat
  BY SegmentSizes DEF HeaderSize, ContinuationSize
<1> QED BY <1>1 DEF Fitting

\* A piece is at most what fits.
LEMMA SomeIs ==
  ASSUME NEW piece \in Nat, NEW n \in Nat
  PROVE  Some(piece, n) \in Nat /\ Some(piece, n) <= n
BY DEF Some

-----------------------------------------------------------------------------
\* What each side holds.
TypesInv ==
  /\ stage \in 0 .. Connected /\ turn \in {"ready", "request", "reply"} /\ cut \in BOOLEAN
  /\ rest \in Seq(Byte) /\ wire \in Seq(Byte) /\ sent \in Seq(Frame) /\ received \in Seq(Frame)

\* The identifiers that the handshake's two chains, or one of the others, take.
Top(n) == IF n = 0 THEN 3 ELSE 5

\* What is left of a request is a part of one that ends the chain, and its identifiers
\* stay below the bound.
Remains(c, i, n) ==
  c = <<>> \/ \E k \in Nat, object \in BOOLEAN : Part(c, k, object, FALSE, TRUE) /\ i + k <= Top(n)

ChainInv ==
  /\ id \in 1 .. Top(stage) /\ (turn = "ready" /\ stage = 1 => id <= Top(0))
  /\ turn = "ready" => chain = <<>> /\ sent = <<>> /\ reading = AtRest
  /\ turn = "request" => Remains(chain, id, stage)
  /\ turn = "reply" => chain \in Seq(Nat)

\* Every frame but the last is chained, and the last is while something is to come.
OrderInv ==
  /\ \A i \in 1 .. Len(sent) - 1 : sent[i].chained
  /\ turn # "ready" => IF sent = <<>> THEN chain # <<>>
                       ELSE sent[Len(sent)].chained <=> chain # <<>>

Announced == sent # <<>> /\ sent[Len(sent)].sameID

ObjectsInv ==
  /\ ObjectsFollowTheirCommand
  /\ turn = "request" /\ chain # <<>> => (chain[1].cp \in Objects <=> Announced)
  /\ turn = "request" /\ Announced => id = sent[Len(sent)].id
  /\ turn = "reply" => \A i \in 1 .. Len(sent) : sent[i].type = TypeReply /\ ~ sent[i].sameID

\* What the reader has are the first frames; at rest it has them all.
ReceivedInv ==
  /\ Len(received) <= Len(sent) /\ \A i \in 1 .. Len(received) : received[i] = sent[i]
  /\ reading = AtRest => chain = <<>> /\ rest = <<>> /\ wire = <<>> /\ received = sent
  /\ reading = Failed => cut \/ \E i \in 1 .. Len(sent) : Oversize(sent[i])

\* The bytes on the wire and the lost ones behind them are what the reader expects.
InFlow(pays, lost, q) ==
  /\ Flow(sent, pays) /\ lost \in Seq(Byte) /\ (~ cut => lost = <<>>) /\ q \in Place
  /\ WriterAt(sent, pays, rest, q)
  /\ reading # AtRest /\ reading # Failed =>
       Expects(sent, pays, q, wire \o lost, Len(received) + 1, reading)

FlowInv == \E pays, lost, q : InFlow(pays, lost, q)

ChainsInv == TypesInv /\ ChainInv /\ OrderInv /\ ObjectsInv /\ ReceivedInv /\ FlowInv

\* What a step leaves as it is that touches neither the frames nor the rest of the chain.
LEMMA TurnKeeps ==
  ASSUME ChainsInv, turn # "ready", UNCHANGED <<stage, turn, chain, id, sent>>
  PROVE  ChainInv' /\ OrderInv' /\ ObjectsInv'
<1>1. ChainInv'
  BY DEF ChainsInv, ChainInv, Remains, Top
<1>2. OrderInv'
  BY DEF ChainsInv, OrderInv
<1>3. ObjectsInv'
  BY DEF ChainsInv, ObjectsInv, Announced, ObjectsFollowTheirCommand, IsObject
<1> QED BY <1>1, <1>2, <1>3

\* Where a step of the reader finds it.
LEMMA ReaderExpects ==
  ASSUME ChainsInv, reading.phase \in {"header", "body", "continuation"}
  PROVE  /\ turn # "ready" /\ wire \in Seq(Byte)
         /\ \E pays, lost, q : InFlow(pays, lost, q)
                               /\ Expects(sent, pays, q, wire \o lost, Len(received) + 1, reading)
<1>1. reading # AtRest /\ reading # Failed
  BY PhasesDiffer
<1>2. turn # "ready" /\ wire \in Seq(Byte)
  BY <1>1 DEF ChainsInv, ChainInv, TypesInv
<1>3. PICK pays, lost, q : InFlow(pays, lost, q)
  BY DEF ChainsInv, FlowInv
<1>4. Expects(sent, pays, q, wire \o lost, Len(received) + 1, reading)
  BY <1>1, <1>3 DEF InFlow
<1> QED BY <1>2, <1>3, <1>4

\* ReadDSS reads a header: it is the one of the next frame, and no error.
LEMMA HeaderKeeps ==
  ASSUME ChainsInv, ReadHeader
  PROVE  ChainsInv'
<1>1. /\ reading.phase = "header" /\ Len(wire) >= HeaderSize
      /\ wire' = SubSeq(wire, HeaderSize + 1, Len(wire))
      /\ UNCHANGED <<stage, turn, chain, id, rest, cut, sent, received>>
  BY DEF ReadHeader, Take
<1>2. turn # "ready" /\ wire \in Seq(Byte)
  BY <1>1, ReaderExpects
<1>3. PICK pays, lost, q : /\ InFlow(pays, lost, q)
                           /\ Expects(sent, pays, q, wire \o lost, Len(received) + 1, reading)
  BY <1>1, ReaderExpects
<1> DEFINE f == Len(received) + 1
           h == ParsedHeader(SubSeq(wire, 1, HeaderSize))
           rd == Reader("body", h, <<>>, h.length - HeaderSize, h.continued)
<1>4. Stream(sent, pays, wire \o lost, <<f, 0, FALSE>>, q)
  BY <1>1, <1>3, ExpectsPhase
<1>5. Flow(sent, pays) /\ lost \in Seq(Byte)
  BY <1>3 DEF InFlow
<1>6. /\ wire[3] = Magic /\ ~ (h.length < HeaderSize)
      /\ \E b, v : InBody(sent, pays, q, SubSeq(wire, HeaderSize + 1, Len(wire)) \o lost, f, rd, 0, b, v)
  BY <1>1, <1>2, <1>4, <1>5, HeaderStep
<1>7. reading' = rd
  BY <1>6 DEF ReadHeader, Reader
<1> HIDE DEF rd
<1>8. Expects(sent, pays, q, wire' \o lost, f, rd)
  BY <1>1, <1>6 DEF Expects
<1>9. reading' # AtRest /\ reading' # Failed
  BY <1>7, <1>8, ExpectsPhase, PhasesDiffer
<1>10. ChainInv' /\ OrderInv' /\ ObjectsInv'
  BY <1>1, <1>2, TurnKeeps
<1>11. TypesInv'
  <2>1. wire' \in Seq(Byte)
    BY <1>1, <1>2, CutParts DEF HeaderSize
  <2> QED BY <1>1, <2>1 DEF ChainsInv, TypesInv
<1>12. ReceivedInv'
  BY <1>1, <1>9 DEF ChainsInv, ReceivedInv
<1>13. FlowInv'
  <2>1. InFlow(pays, lost, q)'
    BY <1>1, <1>3, <1>7, <1>8 DEF InFlow
  <2> QED BY <2>1 DEF FlowInv
<1> QED BY <1>10, <1>11, <1>12, <1>13 DEF ChainsInv

\* It reads the length of a continuation segment: the limit alone can be an error.
LEMMA ContinuationKeeps ==
  ASSUME ChainsInv, ReadContinuation
  PROVE  ChainsInv'
<1>1. /\ reading.phase = "continuation" /\ Len(wire) >= ContinuationSize
      /\ wire' = SubSeq(wire, ContinuationSize + 1, Len(wire))
      /\ UNCHANGED <<stage, turn, chain, id, rest, cut, sent, received>>
  BY DEF ReadContinuation, Take
<1>2. turn # "ready" /\ wire \in Seq(Byte)
  BY <1>1, ReaderExpects
<1>3. PICK pays, lost, q : /\ InFlow(pays, lost, q)
                           /\ Expects(sent, pays, q, wire \o lost, Len(received) + 1, reading)
  BY <1>1, ReaderExpects
<1> DEFINE f == Len(received) + 1
           word == NumberOf(SubSeq(wire, 1, ContinuationSize))
           n == LengthOf(word) - ContinuationSize
           rd == [reading EXCEPT !.phase = "body", !.need = n, !.continued = HasFlag(word)]
<1>4. PICK a : InContinuation(sent, pays, q, wire \o lost, f, reading, a)
  BY <1>1, <1>3, ExpectsPhase
<1>5. Flow(sent, pays) /\ lost \in Seq(Byte)
  BY <1>3 DEF InFlow
<1>6. /\ ~ (n < 0) /\ wire' \in Seq(Byte)
      /\ Len(reading.body) + n > MaxPayload => Oversize(sent[f])
      /\ ~ (Len(reading.body) + n > MaxPayload) =>
           \E b, v : InBody(sent, pays, q, wire' \o lost, f, rd, a, b, v)
      /\ f \in 1 .. Len(sent)
  BY <1>1, <1>2, <1>4, <1>5, ContinuationStep
<1>7. reading' = IF Len(reading.body) + n > MaxPayload THEN Failed ELSE rd
  BY <1>6 DEF ReadContinuation
<1> HIDE DEF rd, n
<1>8. ChainInv' /\ OrderInv' /\ ObjectsInv'
  BY <1>1, <1>2, TurnKeeps
<1>9. TypesInv'
  BY <1>1, <1>6 DEF ChainsInv, TypesInv
<1>10. CASE Len(reading.body) + n > MaxPayload
  <2>1. reading' = Failed
    BY <1>7, <1>10
  <2>2. \E i \in 1 .. Len(sent) : Oversize(sent[i])
    BY <1>6, <1>10
  <2>3. ReceivedInv'
    BY <1>1, <2>1, <2>2, PhasesDiffer DEF ChainsInv, ReceivedInv
  <2>4. InFlow(pays, lost, q)'
    BY <1>1, <1>3, <2>1 DEF InFlow
  <2>5. FlowInv'
    BY <2>4 DEF FlowInv
  <2> QED BY <1>8, <1>9, <2>3, <2>5 DEF ChainsInv
<1>11. CASE ~ (Len(reading.body) + n > MaxPayload)
  <2>1. reading' = rd
    BY <1>7, <1>11
  <2>2. Expects(sent, pays, q, wire' \o lost, f, rd)
    BY <1>6, <1>11 DEF Expects
  <2>3. reading' # AtRest /\ reading' # Failed
    BY <2>1, <2>2, ExpectsPhase, PhasesDiffer
  <2>4. ReceivedInv'
    BY <1>1, <2>3 DEF ChainsInv, ReceivedInv
  <2>5. InFlow(pays, lost, q)'
    BY <1>1, <1>3, <2>1, <2>2 DEF InFlow
  <2>6. FlowInv'
    BY <2>5 DEF FlowInv
  <2> QED BY <1>8, <1>9, <2>4, <2>6 DEF ChainsInv
<1> QED BY <1>10, <1>11

\* The connection ends in front of it.
LEMMA EOFKeeps ==
  ASSUME ChainsInv, ReadEOF
  PROVE  ChainsInv'
<1>1. /\ reading.phase \in {"header", "body", "continuation"} /\ cut /\ reading' = Failed
      /\ UNCHANGED <<stage, turn, chain, id, rest, wire, cut, sent, received>>
  BY DEF ReadEOF, Reading
<1>2. turn # "ready"
  BY <1>1, ReaderExpects
<1>3. PICK pays, lost, q : InFlow(pays, lost, q)
  BY DEF ChainsInv, FlowInv
<1>4. ChainInv' /\ OrderInv' /\ ObjectsInv'
  BY <1>1, <1>2, TurnKeeps
<1>5. TypesInv'
  BY <1>1 DEF ChainsInv, TypesInv
<1>6. ReceivedInv'
  BY <1>1, PhasesDiffer DEF ChainsInv, ReceivedInv
<1>7. FlowInv'
  <2>1. InFlow(pays, lost, q)'
    BY <1>1, <1>3 DEF InFlow
  <2> QED BY <2>1 DEF FlowInv
<1> QED BY <1>4, <1>5, <1>6, <1>7 DEF ChainsInv

\* A frame that has been read goes behind those that were.
LEMMA ReceivedGrows ==
  ASSUME NEW s \in Seq(Frame), NEW r \in Seq(Frame), NEW f, f = Len(r) + 1, f \in 1 .. Len(s),
         \A i \in 1 .. Len(r) : r[i] = s[i]
  PROVE  /\ Append(r, s[f]) \in Seq(Frame) /\ Len(Append(r, s[f])) = f
         /\ \A i \in 1 .. Len(Append(r, s[f])) : Append(r, s[f])[i] = s[i]
         /\ f = Len(s) => Append(r, s[f]) = s
<1> DEFINE t == Append(r, s[f])
<1>1. s[f] \in Frame /\ Len(r) \in Nat /\ Len(s) \in Nat
  OBVIOUS
<1>2. t \in Seq(Frame) /\ Len(t) = f /\ t[f] = s[f] /\ \A i \in 1 .. Len(r) : t[i] = r[i]
  <2> DEFINE x == s[f]
  <2>1. x \in Frame
    BY <1>1
  <2> HIDE DEF x
  <2>2. /\ Append(r, x) \in Seq(Frame) /\ Len(Append(r, x)) = Len(r) + 1
        /\ Append(r, x)[Len(r) + 1] = x /\ \A i \in 1 .. Len(r) : Append(r, x)[i] = r[i]
    BY <2>1, AppendProperties
  <2> QED BY <2>2 DEF x
<1> HIDE DEF t
<1>3. \A i \in 1 .. Len(t) : t[i] = s[i]
  <2> TAKE i \in 1 .. Len(t)
  <2>1. i \in 1 .. Len(r) \/ i = f
    BY <1>1, <1>2
  <2> QED BY <1>2, <2>1
<1>4. f = Len(s) => t = s
  BY <1>2, <1>3, SeqEqual
<1> QED BY <1>2, <1>3, <1>4 DEF t

\* The last frame of a turn has been read: nothing is left of it on either side.
LEMMA LastRead ==
  ASSUME NEW pays, NEW lost, NEW q, InFlow(pays, lost, q), OrderInv, turn # "ready",
         NEW f \in 1 .. Len(sent), ~ sent[f].chained, NEW w \in Seq(Byte), NEW x \in Seq(Byte),
         x = w \o lost, Stream(sent, pays, x, <<f + 1, 0, FALSE>>, q)
  PROVE  f = Len(sent) /\ chain = <<>> /\ rest = <<>> /\ w = <<>>
<1>0. Flow(sent, pays) /\ lost \in Seq(Byte) /\ WriterAt(sent, pays, rest, q)
  BY DEF InFlow
<1>1. sent \in Seq(Frame) /\ Len(sent) \in Nat
  <2>1. sent \in Seq(Frame)
    BY <1>0 DEF Flow
  <2> QED BY <2>1
<1>2. f = Len(sent)
  <2>1. f \in 1 .. Len(sent) - 1 \/ f = Len(sent)
    BY <1>1
  <2> QED BY <2>1 DEF OrderInv
<1>3. chain = <<>>
  <2>1. sent # <<>>
    BY <1>1
  <2> QED BY <1>2, <2>1 DEF OrderInv
<1>4. x = <<>> /\ q = <<Len(sent) + 1, 0, FALSE>>
  BY <1>0, <1>2, NothingBehind
<1>5. rest = <<>>
  <2>1. ASSUME NEW a, q = <<Len(sent), a, TRUE>> PROVE FALSE
    BY <1>4, <2>1
  <2> QED BY <1>0, <2>1 DEF WriterAt
<1>6. w = <<>>
  <2>1. Len(x) = Len(w) + Len(lost) /\ Len(w) \in Nat /\ Len(lost) \in Nat
    BY <1>0, JoinIsSeq
  <2>2. Len(x) = 0
    BY <1>4
  <2>3. Len(w) = 0
    BY <2>1, <2>2
  <2> QED BY <2>3, EmptySeq
<1> QED BY <1>2, <1>3, <1>5, <1>6

\* It reads the rest of a segment, and behind the last one it has the frame.
LEMMA BodyKeeps ==
  ASSUME ChainsInv, ReadBody
  PROVE  ChainsInv'
<1> DEFINE f == Len(received) + 1
           body == reading.body \o SubSeq(wire, 1, reading.need)
           w2 == SubSeq(wire, reading.need + 1, Len(wire))
           rd == [reading EXCEPT !.phase = "continuation", !.body = body]
           dss == sent[f]
<1>1. /\ reading.phase = "body" /\ Len(wire) >= reading.need /\ wire' = w2
      /\ UNCHANGED <<stage, turn, chain, id, rest, cut, sent>>
  BY DEF ReadBody, Take
<1>2. turn # "ready" /\ wire \in Seq(Byte)
  BY <1>1, ReaderExpects
<1>3. PICK pays, lost, q : /\ InFlow(pays, lost, q)
                           /\ Expects(sent, pays, q, wire \o lost, Len(received) + 1, reading)
  BY <1>1, ReaderExpects
<1>4. PICK a, b, v : InBody(sent, pays, q, wire \o lost, f, reading, a, b, v)
  BY <1>1, <1>3, ExpectsPhase
<1>5. Flow(sent, pays) /\ lost \in Seq(Byte) /\ sent \in Seq(Frame) /\ received \in Seq(Frame)
  BY <1>3 DEF InFlow, ChainsInv, TypesInv
<1>6. reading.need <= Len(wire)
  <2>1. \E n \in Nat : reading.need = n
    <3>1. a \in Nat /\ b \in Nat /\ a <= b
      BY <1>4 DEF InBody
    <3>2. PICK h, c : reading = Reader("body", h, Slice(pays[f], 0, a), b - a, c)
      BY <1>4 DEF InBody
    <3> DEFINE n == b - a
               s == Slice(pays[f], 0, a)
    <3>3. n \in Nat
      BY <3>1
    <3>4. reading = Reader("body", h, s, n, c)
      BY <3>2
    <3> HIDE DEF n, s
    <3>5. reading.need = n
      BY ONLY <3>4, ReaderFields
    <3> QED BY <3>3, <3>5
  <2>2. Len(wire) \in Nat
    BY <1>2
  <2> QED BY <1>1, <2>1, <2>2
<1>7. /\ w2 \in Seq(Byte)
      /\ reading.continued => InContinuation(sent, pays, q, w2 \o lost, f, rd, b)
      /\ ~ reading.continued =>
           /\ ObjectData(body) = {dss.data}
           /\ Read(reading.header, CodePointOf(body), dss.data) = dss
           /\ w2 \o lost \in Seq(Byte) /\ Stream(sent, pays, w2 \o lost, <<f + 1, 0, FALSE>>, q)
      /\ f \in 1 .. Len(sent) /\ reading.header.chained = dss.chained
  <2> HIDE DEF f
  <2>1. /\ w2 \in Seq(Byte)
        /\ reading.continued => InContinuation(sent, pays, q, w2 \o lost, f, rd, b)
        /\ ~ reading.continued =>
             /\ ObjectData(body) = {sent[f].data}
             /\ Read(reading.header, CodePointOf(body), sent[f].data) = sent[f]
             /\ w2 \o lost \in Seq(Byte) /\ Stream(sent, pays, w2 \o lost, <<f + 1, 0, FALSE>>, q)
        /\ f \in 1 .. Len(sent) /\ reading.header.chained = sent[f].chained
    <3> DEFINE w == wire
               r == reading
               d == sent
    <3>0. /\ w \in Seq(Byte) /\ lost \in Seq(Byte) /\ Flow(d, pays)
          /\ InBody(d, pays, q, w \o lost, f, r, a, b, v) /\ r.need <= Len(w)
      BY <1>2, <1>4, <1>5, <1>6
    <3> HIDE DEF w, r, d
    <3>1. BodyRead(d, pays, q, w, lost, f, r, b)
      BY ONLY <3>0, BodyStep
    <3> QED BY <3>1 DEF BodyRead, w, r, d
  <2> QED BY <2>1
<1>8. ChainInv' /\ OrderInv' /\ ObjectsInv'
  BY <1>1, <1>2, TurnKeeps
<1> HIDE DEF w2
<1>9. CASE reading.continued
  <2>1. reading' = rd /\ received' = received
    BY <1>9 DEF ReadBody
  <2> HIDE DEF rd
  <2>2. Expects(sent, pays, q, w2 \o lost, f, rd)
    BY <1>7, <1>9 DEF Expects
  <2>3. reading' # AtRest /\ reading' # Failed
    BY <2>1, <2>2, ExpectsPhase, PhasesDiffer
  <2>4. ReceivedInv'
    BY <1>1, <2>1, <2>3 DEF ChainsInv, ReceivedInv
  <2>5. InFlow(pays, lost, q)'
    BY <1>1, <1>3, <2>1, <2>2 DEF InFlow
  <2>6. FlowInv'
    BY <2>5 DEF FlowInv
  <2>7. TypesInv'
    BY <1>1, <1>7, <2>1 DEF ChainsInv, TypesInv
  <2> QED BY <1>8, <2>4, <2>6, <2>7 DEF ChainsInv
<1>10. CASE ~ reading.continued
  <2>1. received' = Append(received, dss) /\ reading' = Behind(reading.header)
    <3>1. PICK data \in ObjectData(body) :
               /\ received' = Append(received, Read(reading.header, CodePointOf(body), data))
               /\ reading' = Behind(reading.header)
      <4> DEFINE data0 == dss.data
      <4>0. ObjectData(body) = {data0}
        BY <1>7, <1>10
      <4> HIDE DEF data0
      <4>1. ObjectData(body) # {}
        BY <4>0
      <4> QED BY <1>10, <4>1 DEF ReadBody
    <3>2. data = dss.data
      BY <1>7, <1>10, <3>1
    <3> QED BY <1>7, <1>10, <3>1, <3>2
  <2>2. /\ Append(received, dss) \in Seq(Frame) /\ Len(Append(received, dss)) = f
        /\ \A i \in 1 .. Len(Append(received, dss)) : Append(received, dss)[i] = sent[i]
        /\ f = Len(sent) => Append(received, dss) = sent
    <3>1. \A i \in 1 .. Len(received) : received[i] = sent[i]
      BY DEF ChainsInv, ReceivedInv
    <3>2. f = Len(received) + 1
      OBVIOUS
    <3>3. f \in 1 .. Len(sent)
      BY <1>7
    <3> HIDE DEF f
    <3> QED BY <1>5, <3>1, <3>2, <3>3, ReceivedGrows
  <2> DEFINE x == w2 \o lost
  <2>3. x \in Seq(Byte) /\ Stream(sent, pays, x, <<f + 1, 0, FALSE>>, q)
    BY <1>7, <1>10
  <2>4. TypesInv'
    BY <1>1, <1>7, <2>1, <2>2 DEF ChainsInv, TypesInv
  <2>5. f <= Len(sent)
    BY <1>5, <1>7
  <2>6. CASE dss.chained
    <3>1. reading' = AtHeader
      BY <1>7, <2>1, <2>6 DEF Behind
    <3>2. ReceivedInv'
      BY <1>1, <2>1, <2>2, <2>5, <3>1, PhasesDiffer DEF ReceivedInv
    <3>3. Expects(sent, pays, q, x, f + 1, AtHeader)
      BY <2>3 DEF Expects
    <3>4. Len(received') + 1 = f + 1
      BY <2>1, <2>2
    <3> HIDE DEF f
    <3>5. InFlow(pays, lost, q)'
      BY <1>1, <1>3, <3>1, <3>3, <3>4 DEF InFlow
    <3>6. FlowInv'
      BY <3>5 DEF FlowInv
    <3> QED BY <1>8, <2>4, <3>2, <3>6 DEF ChainsInv
  <2>7. CASE ~ dss.chained
    <3>1. reading' = AtRest
      BY <1>7, <2>1, <2>7 DEF Behind
    <3>2. f = Len(sent) /\ chain = <<>> /\ rest = <<>> /\ w2 = <<>>
      <4>1. OrderInv
        BY DEF ChainsInv
      <4>2. f \in 1 .. Len(sent) /\ ~ sent[f].chained
        BY <1>7, <2>7
      <4>3. x = w2 \o lost
        OBVIOUS
      <4> HIDE DEF f, x
      <4> QED BY <1>2, <1>3, <1>7, <2>3, <4>1, <4>2, <4>3, LastRead
    <3>3. ReceivedInv'
      BY <1>1, <2>1, <2>2, <2>5, <3>1, <3>2, PhasesDiffer DEF ReceivedInv
    <3>4. InFlow(pays, lost, q)'
      BY <1>1, <1>3, <3>1 DEF InFlow
    <3>5. FlowInv'
      BY <3>4 DEF FlowInv
    <3> QED BY <1>8, <2>4, <3>3, <3>5 DEF ChainsInv
  <2> QED BY <2>6, <2>7
<1> QED BY <1>9, <1>10

\* A frame behind those of the turn: what stays of them.
LEMMA FramesGrow ==
  ASSUME NEW s \in Seq(Frame), NEW d \in Frame, NEW t, t = Append(s, d)
  PROVE  /\ t \in Seq(Frame) /\ Len(s) \in Nat /\ Len(t) = Len(s) + 1 /\ t # <<>>
         /\ t[Len(s) + 1] = d /\ \A i \in 1 .. Len(s) : t[i] = s[i]
<1>1. /\ t \in Seq(Frame) /\ Len(s) \in Nat /\ Len(t) = Len(s) + 1
      /\ t[Len(s) + 1] = d /\ \A i \in 1 .. Len(s) : t[i] = s[i]
  BY AppendProperties
<1> QED BY <1>1

\* The frame that is written goes into the flow, whoever writes it.
LEMMA FrameFlows ==
  ASSUME ChainsInv, turn # "ready", ~ cut, rest = <<>>, chain # <<>>,
         NEW dss \in Frame, NEW pay, IsPayload(pay, dss.cp, dss.data),
         NEW n \in Nat, n <= Len(pay), HeaderSize + n <= MaxSegment,
         wire' = wire \o Header(dss, HeaderSize + n, n < Len(pay)) \o SubSeq(pay, 1, n),
         rest' = SubSeq(pay, n + 1, Len(pay)), sent' = Append(sent, dss),
         UNCHANGED <<stage, turn, cut, reading, received>>
  PROVE  TypesInv' /\ ReceivedInv' /\ FlowInv'
<1>1. wire \in Seq(Byte) /\ sent \in Seq(Frame) /\ received \in Seq(Frame)
  BY DEF ChainsInv, TypesInv
<1>2. PICK pays, lost, q : InFlow(pays, lost, q)
  BY DEF ChainsInv, FlowInv
<1>3. Flow(sent, pays) /\ WriterAt(sent, pays, <<>>, q) /\ lost = <<>>
  BY <1>2 DEF InFlow
<1> DEFINE p2 == Append(pays, pay)
<1>4. PICK r : Carries(sent, pays, q, wire, sent', p2, rest', r, wire')
  BY <1>1, <1>3, FrameCarried
<1> HIDE DEF p2
<1>5. /\ Flow(sent', p2) /\ wire' \in Seq(Byte) /\ rest' \in Seq(Byte) /\ r \in Place
      /\ WriterAt(sent', p2, rest', r)
      /\ \A f, rd : Expects(sent, pays, q, wire, f, rd) => Expects(sent', p2, r, wire', f, rd)
  BY <1>4 DEF Carries
<1>6. /\ sent' \in Seq(Frame) /\ Len(sent) \in Nat /\ Len(sent') = Len(sent) + 1
      /\ \A i \in 1 .. Len(sent) : sent'[i] = sent[i]
  BY <1>1, FramesGrow
<1>7. TypesInv'
  BY <1>5, <1>6 DEF ChainsInv, TypesInv
<1>8. ReceivedInv'
  <2>1. reading # AtRest
    BY DEF ChainsInv, ReceivedInv
  <2>2. Len(received) <= Len(sent) /\ Len(received) \in Nat /\ \A i \in 1 .. Len(received) : received[i] = sent[i]
    BY <1>1 DEF ChainsInv, ReceivedInv
  <2>3. Len(received) <= Len(sent') /\ \A i \in 1 .. Len(received) : received[i] = sent'[i]
    BY <1>6, <2>2
  <2>4. reading = Failed => cut \/ \E i \in 1 .. Len(sent') : Oversize(sent'[i])
    <3>1. reading = Failed => cut \/ \E i \in 1 .. Len(sent) : Oversize(sent[i])
      BY DEF ChainsInv, ReceivedInv
    <3>2. \A i \in 1 .. Len(sent) : i \in 1 .. Len(sent')
      BY <1>6
    <3> QED BY <1>6, <3>1, <3>2
  <2> QED BY <2>1, <2>3, <2>4 DEF ReceivedInv
<1>9. FlowInv'
  <2>1. reading # AtRest /\ reading # Failed => Expects(sent', p2, r, wire', Len(received) + 1, reading)
    <3>1. reading # AtRest /\ reading # Failed => Expects(sent, pays, q, wire \o lost, Len(received) + 1, reading)
      BY <1>2 DEF InFlow
    <3>2. wire \o lost = wire
      BY <1>1, <1>3, ConcatEmptySeq
    <3> QED BY <1>5, <3>1, <3>2
  <2>2. wire' \o <<>> = wire' /\ <<>> \in Seq(Byte)
    BY <1>5, ConcatEmptySeq
  <2> DEFINE none == <<>>
  <2>3. wire' \o none = wire' /\ none \in Seq(Byte)
    BY <2>2
  <2> HIDE DEF none
  <2>4. InFlow(p2, none, r)'
    <3>1. ~ cut' => none = <<>>
      BY DEF none
    <3> QED BY <1>5, <2>1, <2>3, <3>1 DEF InFlow
  <2> QED BY <2>4 DEF FlowInv
<1> QED BY <1>7, <1>8, <1>9

\* So does a later segment of it.
LEMMA SegmentFlows ==
  ASSUME ChainsInv, turn # "ready", ~ cut, rest # <<>>,
         NEW n \in Nat, n <= Len(rest), ContinuationSize + n <= MaxSegment,
         wire' = wire \o Word(ContinuationSize + n, n < Len(rest)) \o SubSeq(rest, 1, n),
         rest' = SubSeq(rest, n + 1, Len(rest)),
         UNCHANGED <<stage, turn, chain, id, cut, reading, sent, received>>
  PROVE  ChainsInv'
<1>1. wire \in Seq(Byte) /\ rest \in Seq(Byte) /\ sent \in Seq(Frame) /\ received \in Seq(Frame)
  BY DEF ChainsInv, TypesInv
<1>2. PICK pays, lost, q : InFlow(pays, lost, q)
  BY DEF ChainsInv, FlowInv
<1>3. Flow(sent, pays) /\ WriterAt(sent, pays, rest, q) /\ lost = <<>>
  BY <1>2 DEF InFlow
<1>4. PICK r : Carries(sent, pays, q, wire, sent, pays, rest', r, wire')
  BY <1>1, <1>3, SegmentCarried
<1>5. /\ wire' \in Seq(Byte) /\ rest' \in Seq(Byte) /\ r \in Place
      /\ WriterAt(sent, pays, rest', r)
      /\ \A f, rd : Expects(sent, pays, q, wire, f, rd) => Expects(sent, pays, r, wire', f, rd)
  BY <1>4 DEF Carries
<1>6. ChainInv' /\ OrderInv' /\ ObjectsInv'
  BY TurnKeeps
<1>7. TypesInv'
  BY <1>5 DEF ChainsInv, TypesInv
<1>8. ReceivedInv'
  <2>1. reading # AtRest
    BY DEF ChainsInv, ReceivedInv
  <2> QED BY <2>1 DEF ChainsInv, ReceivedInv
<1>9. FlowInv'
  <2>1. reading # AtRest /\ reading # Failed => Expects(sent, pays, r, wire', Len(received) + 1, reading)
    <3>1. reading # AtRest /\ reading # Failed => Expects(sent, pays, q, wire \o lost, Len(received) + 1, reading)
      BY <1>2 DEF InFlow
    <3>2. wire \o lost = wire
      BY <1>1, <1>3, ConcatEmptySeq
    <3> QED BY <1>5, <3>1, <3>2
  <2> DEFINE none == <<>>
  <2>2. wire' \o none = wire' /\ none \in Seq(Byte)
    BY <1>5, ConcatEmptySeq
  <2>3. ~ cut' => none = <<>>
    OBVIOUS
  <2> HIDE DEF none
  <2>4. InFlow(pays, none, r)'
    BY <1>3, <1>5, <2>1, <2>2, <2>3 DEF InFlow
  <2> QED BY <2>4 DEF FlowInv
<1> QED BY <1>6, <1>7, <1>8, <1>9 DEF ChainsInv

\* The order of the frames, when one is written that is chained to the next.
LEMMA OrderGrows ==
  ASSUME ChainsInv, turn # "ready", chain # <<>>, NEW dss \in Frame,
         sent' = Append(sent, dss), dss.chained <=> chain' # <<>>, turn' = turn
  PROVE  OrderInv'
<1>1. sent \in Seq(Frame)
  BY DEF ChainsInv, TypesInv
<1>2. /\ sent' \in Seq(Frame) /\ Len(sent) \in Nat /\ Len(sent') = Len(sent) + 1 /\ sent' # <<>>
      /\ sent'[Len(sent) + 1] = dss /\ \A i \in 1 .. Len(sent) : sent'[i] = sent[i]
  BY <1>1, FramesGrow
<1>3. ASSUME NEW i \in 1 .. Len(sent') - 1 PROVE sent'[i].chained
  <2>1. i \in 1 .. Len(sent)
    BY <1>2
  <2>2. CASE i \in 1 .. Len(sent) - 1
    BY <1>2, <2>1, <2>2 DEF ChainsInv, OrderInv
  <2>3. CASE i = Len(sent)
    <3>1. sent # <<>>
      BY <1>2, <2>1
    <3>2. sent[Len(sent)].chained
      BY <3>1 DEF ChainsInv, OrderInv
    <3> QED BY <1>2, <2>1, <2>3, <3>2
  <2> QED BY <1>2, <2>1, <2>2, <2>3
<1>4. sent'[Len(sent')].chained <=> chain' # <<>>
  BY <1>2
<1> QED BY <1>2, <1>3, <1>4 DEF OrderInv

\* The first call of what remains of a request, and what it leaves.
Goes(c, i, n, call, rest2) ==
  /\ call \in Calls /\ (call.restart => call.cp \notin Objects)
  /\ i + Takes(call) <= Top(n)
  /\ \/ rest2 = <<>> /\ call.last /\ ~ call.sameID
     \/ /\ ~ call.last /\ rest2 # <<>> /\ (rest2[1].cp \in Objects <=> call.sameID)
        /\ \E k \in Nat, object \in BOOLEAN : Part(rest2, k, object, FALSE, TRUE) /\ i + Takes(call) + k <= Top(n)

\* What WriteRequestDSS takes off a request leaves a part again.
LEMMA RemainsGoes ==
  ASSUME NEW c, c # <<>>, NEW i \in Nat, NEW n \in Nat, Remains(c, i, n)
  PROVE  Goes(c, i, n, c[1], Tail(c))
<1> DEFINE none == FALSE
           all == TRUE
<1>1. PICK k \in Nat, object \in BOOLEAN : Part(c, k, object, none, all) /\ i + k <= Top(n)
  BY DEF Remains
<1>2. Top(n) \in Nat
  BY DEF Top
<1>3. c \in Seq(Calls) /\ Len(c) >= 1 /\ \A j \in 1 .. Len(c) : c[j].restart => c[j].cp \notin Objects
  BY <1>1, Zenon DEF Part
<1>4. 1 \in 1 .. Len(c) /\ c[1] \in Calls
  BY <1>3
<1> DEFINE call == c[1]
           rest2 == Tail(c)
<1>5. Takes(call) \in 0 .. 1 /\ call.sameID \in BOOLEAN /\ call.last \in BOOLEAN
  BY <1>4, CallHas
<1> HIDE DEF none, all
<1>6. PICK l \in Nat : /\ l + Takes(call) <= k
                       /\ \/ rest2 = <<>> /\ call.sameID = none /\ call.last = all
                          \/ Part(rest2, l, call.sameID, none, all) /\ ~ call.last
  BY <1>1, PartTail
<1> HIDE DEF call, rest2
<1>7. i + Takes(call) + l <= Top(n) /\ i + Takes(call) <= Top(n)
  BY <1>1, <1>2, <1>5, <1>6
<1>8. call \in Calls /\ (call.restart => call.cp \notin Objects)
  BY <1>3, <1>4 DEF call
<1>9. CASE rest2 = <<>> /\ call.sameID = none /\ call.last = all
  <2>1. rest2 = <<>> /\ call.last /\ ~ call.sameID
    BY <1>9 DEF none, all
  <2>2. Goes(c, i, n, call, rest2)
    BY <1>7, <1>8, <2>1 DEF Goes
  <2> QED BY <2>2 DEF call, rest2
<1>10. CASE Part(rest2, l, call.sameID, none, all) /\ ~ call.last
  <2>1. rest2 \in Seq(Calls) /\ Len(rest2) >= 1 /\ (rest2[1].cp \in Objects) = call.sameID
    BY <1>10, Zenon DEF Part
  <2>2. rest2 # <<>>
    BY <2>1
  <2>3. rest2[1].cp \in Objects <=> call.sameID
    BY <2>1
  <2>4. \E j \in Nat, object2 \in BOOLEAN : Part(rest2, j, object2, none, all) /\ i + Takes(call) + j <= Top(n)
    BY <1>5, <1>7, <1>10
  <2>5. Goes(c, i, n, call, rest2)
    BY <1>7, <1>8, <1>10, <2>2, <2>3, <2>4 DEF Goes, none, all
  <2> QED BY <2>5 DEF call, rest2
<1> QED BY <1>6, <1>9, <1>10

\* The DSS that a call makes.
LEMMA DSSIs ==
  ASSUME NEW call \in Calls, sent \in Seq(Frame), id \in 1 .. 5
  PROVE  /\ DSS(call) \in Frame /\ DSS(call).cp = call.cp
         /\ (IsObject(DSS(call)) <=> call.cp \in Objects)
         /\ DSS(call).chained = (~ call.last) /\ DSS(call).sameID = call.sameID
         /\ DSS(call).id = (IF call.restart THEN 1 ELSE id)
<1> DEFINE type == IF call.cp \in Objects THEN TypeObject ELSE TypeRequest
           data == Body(call.size, Len(sent))
           chained == ~ call.last
           number == IF call.restart THEN 1 ELSE id
           dss == DSS(call)
<1>1. call.cp \in UInt16 /\ call.size \in Nat /\ call.sameID \in BOOLEAN /\ call.last \in BOOLEAN
  BY CallHas
<1>2. dss = [cp |-> call.cp, data |-> data, type |-> type, chained |-> chained,
             sameID |-> call.sameID, id |-> number]
  BY DEF DSS
<1>3. dss.cp = call.cp /\ dss.data = data /\ dss.type = type /\ dss.chained = chained
      /\ dss.sameID = call.sameID /\ dss.id = number
  <2> HIDE DEF data, type, chained, number, dss
  <2> QED BY ONLY <1>2
<1>4. data \in Seq(Byte)
  <2>1. Len(sent) \in Nat
    OBVIOUS
  <2> QED BY <1>1, <2>1, BodyIs
<1>5. type \in 0 .. 15 /\ chained \in BOOLEAN /\ number \in UInt16
  <2>1. type \in 0 .. 15
    BY DEF TypeObject, TypeRequest
  <2>2. chained \in BOOLEAN
    OBVIOUS
  <2>3. number \in UInt16
    <3>1. id \in UInt16
      BY SMTT(60) DEF UInt16
    <3>2. 1 \in UInt16
      BY DEF UInt16
    <3> QED BY <3>1, <3>2, SMTT(60)
  <2> QED BY <2>1, <2>2, <2>3
<1>6. dss \in Frame
  <2> DEFINE A == UInt16
             B == Seq(Byte)
             C == 0 .. 15
             D == BOOLEAN
  <2>1. Frame = [cp : A, data : B, type : C, chained : D, sameID : D, id : A]
    BY DEF Frame
  <2>2. call.cp \in A /\ data \in B /\ type \in C /\ chained \in D /\ call.sameID \in D /\ number \in A
    BY <1>1, <1>4, <1>5
  <2> HIDE DEF A, B, C, D, data, type, chained, number, dss
  <2> QED BY ONLY <1>2, <2>1, <2>2
<1>7. type = TypeObject <=> call.cp \in Objects
  BY DEF TypeObject, TypeRequest
<1>8. IsObject(dss) <=> call.cp \in Objects
  <2> HIDE DEF dss, type
  <2> QED BY <1>3, <1>7 DEF IsObject
<1> HIDE DEF dss, data
<1> QED BY <1>3, <1>6, <1>8 DEF dss

\* Which frame is announced to be followed by an object, when one is written.
LEMMA ObjectsGrow ==
  ASSUME ChainsInv, turn = "request", chain # <<>>, NEW dss \in Frame,
         IsObject(dss) <=> chain[1].cp \in Objects, IsObject(dss) => dss.id = id,
         sent' = Append(sent, dss), turn' = turn,
         chain' # <<>> => (chain'[1].cp \in Objects <=> dss.sameID),
         dss.sameID => id' = dss.id
  PROVE  ObjectsInv'
<1>1. sent \in Seq(Frame)
  BY DEF ChainsInv, TypesInv
<1> DEFINE n == Len(sent)
<1>2. /\ sent' \in Seq(Frame) /\ n \in Nat /\ Len(sent') = n + 1 /\ sent' # <<>>
      /\ sent'[n + 1] = dss /\ \A i \in 1 .. n : sent'[i] = sent[i]
  BY <1>1, FramesGrow
<1>3. /\ \A i \in 1 .. n : /\ IsObject(sent[i]) => i > 1 /\ sent[i - 1].sameID /\ sent[i].id = sent[i - 1].id
                           /\ ~ IsObject(sent[i]) /\ i > 1 => ~ sent[i - 1].sameID
      /\ (chain[1].cp \in Objects <=> Announced) /\ (Announced => id = sent[n].id)
  <2>1. DOMAIN sent = 1 .. n
    BY <1>1
  <2> HIDE DEF n
  <2> QED BY <2>1 DEF ChainsInv, ObjectsInv, ObjectsFollowTheirCommand, n
<1>4. Announced <=> n >= 1 /\ sent[n].sameID
  <2>1. sent # <<>> <=> n >= 1
    BY <1>1
  <2> QED BY <2>1 DEF Announced
<1> HIDE DEF n
<1>5. ASSUME NEW i \in 1 .. n + 1
      PROVE  /\ IsObject(sent'[i]) => i > 1 /\ sent'[i - 1].sameID /\ sent'[i].id = sent'[i - 1].id
             /\ ~ IsObject(sent'[i]) /\ i > 1 => ~ sent'[i - 1].sameID
  <2>1. CASE i \in 1 .. n
    <3>1. sent'[i] = sent[i] /\ (i > 1 => sent'[i - 1] = sent[i - 1])
      <4>1. i > 1 => i - 1 \in 1 .. n
        BY <1>2, <2>1
      <4> QED BY <1>2, <2>1, <4>1
    <3> QED BY <1>3, <2>1, <3>1
  <2>2. CASE i = n + 1
    <3>1. sent'[i] = dss /\ i - 1 = n /\ (i > 1 <=> n >= 1) /\ (n >= 1 => sent'[n] = sent[n])
      <4>1. i - 1 = n /\ (i > 1 <=> n >= 1) /\ (n >= 1 => n \in 1 .. n)
        BY <1>2, <2>2
      <4> QED BY <1>2, <2>2, <4>1
    <3> QED BY <1>3, <1>4, <3>1
  <2> QED BY <1>2, <2>1, <2>2
<1>6. ObjectsFollowTheirCommand'
  <2>1. DOMAIN sent' = 1 .. n + 1
    BY <1>2
  <2> QED BY <1>5, <2>1 DEF ObjectsFollowTheirCommand, IsObject
<1>7. Announced' <=> dss.sameID
  BY <1>2 DEF Announced
<1>8. Announced' => id' = sent'[Len(sent')].id
  BY <1>2, <1>7
<1> QED BY <1>6, <1>7, <1>8 DEF ObjectsInv

\* Where a chain stands: what of the connection has been set up, and how far the ids go.
LEMMA ChainStands ==
  ASSUME ChainInv, TypesInv
  PROVE  stage \in 0 .. 3 /\ id \in 1 .. Top(stage) /\ sent \in Seq(Frame) /\ Top(stage) \in 3 .. 5
BY DEF TypesInv, ChainInv, Connected, Top

\* The next call of a chain under way, and what of the chain remains after it.
LEMMA ChainGoes ==
  ASSUME ChainInv, TypesInv, turn = "request", chain # <<>>
  PROVE  Head(chain) = chain[1] /\ Goes(chain, id, stage, chain[1], Tail(chain))
<1>1. Remains(chain, id, stage)
  BY DEF ChainInv
<1>2. chain \in Seq(Calls)
  BY <1>1 DEF Remains, Part
<1>3. stage \in 0 .. 3 /\ id \in 1 .. Top(stage)
  BY ChainStands
<1>4. Head(chain) = chain[1]
  BY <1>2
<1> QED BY <1>1, <1>3, <1>4, RemainsGoes, SMTT(60)

\* WriteRequestDSS begins a frame ...
LEMMA WriteFirstKeeps ==
  ASSUME ChainsInv, WriteFirst
  PROVE  ChainsInv'
<1>a. turn = "request" /\ chain # <<>>
  BY DEF WriteFirst
<1>b. ChainInv /\ TypesInv
  BY DEF ChainsInv
<1>0. Head(chain) = chain[1] /\ Goes(chain, id, stage, chain[1], Tail(chain))
  BY <1>a, <1>b, ChainGoes
<1> DEFINE call == chain[1]
           dss == DSS(chain[1])
           pay == PackDDMObject(DSS(chain[1]).cp, DSS(chain[1]).data)
           n == Fitting(PackDDMObject(DSS(chain[1]).cp, DSS(chain[1]).data), HeaderSize)
<1>1. /\ turn = "request" /\ ~ cut /\ rest = <<>> /\ chain # <<>>
      /\ wire' = wire \o Header(dss, HeaderSize + n, n < Len(pay)) \o SubSeq(pay, 1, n)
      /\ rest' = SubSeq(pay, n + 1, Len(pay)) /\ sent' = Append(sent, dss) /\ id' = NextId(call)
      /\ chain' = Tail(chain)
      /\ UNCHANGED <<stage, turn, cut, reading, received>>
  BY <1>0, ZenonT(60) DEF WriteFirst, Writable
<1>2. stage \in 0 .. 3 /\ id \in 1 .. Top(stage) /\ sent \in Seq(Frame) /\ Top(stage) \in 3 .. 5
  BY ONLY <1>b, ChainStands
<1>3. Goes(chain, id, stage, chain[1], Tail(chain))
  BY ONLY <1>0
<1>4. /\ call \in Calls /\ (call.restart => call.cp \notin Objects) /\ id + Takes(call) <= Top(stage)
      /\ \/ chain' = <<>> /\ call.last /\ ~ call.sameID
         \/ /\ ~ call.last /\ chain' # <<>> /\ (chain'[1].cp \in Objects <=> call.sameID)
            /\ \E k \in Nat, object \in BOOLEAN :
                 Part(chain', k, object, FALSE, TRUE) /\ id + Takes(call) + k <= Top(stage)
  BY <1>1, <1>3 DEF Goes
<1>5. /\ dss \in Frame /\ (IsObject(dss) <=> call.cp \in Objects)
      /\ dss.chained = (~ call.last) /\ dss.sameID = call.sameID
      /\ dss.id = (IF call.restart THEN 1 ELSE id)
  <2>1. id \in 1 .. 5
    BY <1>2
  <2> QED BY <1>2, <1>4, <2>1, DSSIs
<1>6. NextId(call) = IF call.sameID THEN dss.id ELSE dss.id + 1
  BY DEF NextId
<1> HIDE DEF dss, call
<1>7. IsPayload(pay, dss.cp, dss.data)
  <2>1. IsWord(dss.cp) /\ dss.data \in Seq(Byte)
    BY <1>5, FrameIs
  <2> QED BY <2>1, PackedIs DEF dss
<1> HIDE DEF pay
<1>8. n \in Nat /\ n <= Len(pay) /\ HeaderSize + n <= MaxSegment
  <2>1. pay \in Seq(Byte)
    BY <1>7 DEF IsPayload
  <2>2. n = Fitting(pay, HeaderSize)
    BY DEF pay
  <2> HIDE DEF n
  <2> QED BY <2>1, <2>2, FittingIs
<1> HIDE DEF n
<1>9. TypesInv' /\ ReceivedInv' /\ FlowInv'
  BY <1>1, <1>5, <1>7, <1>8, FrameFlows
<1>10. OrderInv'
  <2>1. dss.chained <=> chain' # <<>>
    BY <1>4, <1>5
  <2> QED BY <1>1, <1>5, <2>1, OrderGrows
<1>11. ObjectsInv'
  <2>1. IsObject(dss) <=> chain[1].cp \in Objects
    BY <1>5 DEF call
  <2>2. IsObject(dss) => dss.id = id
    BY <1>4, <1>5
  <2>3. chain' # <<>> => (chain'[1].cp \in Objects <=> dss.sameID)
    BY <1>4, <1>5
  <2>4. dss.sameID => id' = dss.id
    BY <1>1, <1>5, <1>6
  <2> QED BY <1>1, <1>5, <2>1, <2>2, <2>3, <2>4, ObjectsGrow
<1>12. ChainInv'
  <2>1. id' \in Nat /\ 1 <= id' /\ id' <= id + Takes(call) /\ Takes(call) \in 0 .. 1
    BY <1>1, <1>2, <1>4, <1>5, <1>6 DEF Takes
  <2>2. id' \in 1 .. Top(stage)
    BY <1>2, <1>4, <2>1
  <2>3. Remains(chain', id', stage)
    <3>1. CASE chain' = <<>>
      BY <3>1 DEF Remains
    <3>2. CASE chain' # <<>>
      <4>1. PICK k \in Nat, object \in BOOLEAN :
                   Part(chain', k, object, FALSE, TRUE) /\ id + Takes(call) + k <= Top(stage)
        BY <1>4, <3>2
      <4>2. id' + k <= Top(stage)
        BY <1>2, <2>1, <4>1
      <4> QED BY <4>1, <4>2 DEF Remains
    <3> QED BY <3>1, <3>2
  <2> QED BY <1>1, <2>2, <2>3 DEF ChainInv
<1> QED BY <1>9, <1>10, <1>11, <1>12 DEF ChainsInv

\* ... and goes on with it.
LEMMA WriteContinuationKeeps ==
  ASSUME ChainsInv, WriteContinuation
  PROVE  ChainsInv'
<1> DEFINE n == Fitting(rest, ContinuationSize)
<1>1. /\ turn # "ready" /\ ~ cut /\ rest # <<>>
      /\ wire' = wire \o Word(ContinuationSize + n, n < Len(rest)) \o SubSeq(rest, 1, n)
      /\ rest' = SubSeq(rest, n + 1, Len(rest))
      /\ UNCHANGED <<stage, turn, chain, id, cut, reading, sent, received>>
  BY DEF WriteContinuation, Writable
<1>2. rest \in Seq(Byte)
  BY DEF ChainsInv, TypesInv
<1>3. n \in Nat /\ n <= Len(rest) /\ ContinuationSize + n <= MaxSegment
  BY <1>2, FittingIs
<1> HIDE DEF n
<1> QED BY <1>1, <1>3, SegmentFlows

\* A reply's frame is no object, and announces none.
LEMMA RepliesGrow ==
  ASSUME ChainsInv, turn = "reply", NEW dss \in Frame, dss.type = TypeReply, ~ dss.sameID,
         sent' = Append(sent, dss), turn' = turn
  PROVE  ObjectsInv'
<1>1. sent \in Seq(Frame)
  BY DEF ChainsInv, TypesInv
<1>2. /\ sent' \in Seq(Frame) /\ Len(sent) \in Nat /\ Len(sent') = Len(sent) + 1
      /\ sent'[Len(sent) + 1] = dss /\ \A i \in 1 .. Len(sent) : sent'[i] = sent[i]
  BY <1>1, FramesGrow
<1>3. \A i \in 1 .. Len(sent) : sent[i].type = TypeReply /\ ~ sent[i].sameID
  BY DEF ChainsInv, ObjectsInv
<1>4. ASSUME NEW i \in 1 .. Len(sent') PROVE sent'[i].type = TypeReply /\ ~ sent'[i].sameID
  <2>1. i \in 1 .. Len(sent) \/ i = Len(sent) + 1
    BY <1>2
  <2> QED BY <1>2, <1>3, <2>1
<1>5. ObjectsFollowTheirCommand'
  <2>1. ASSUME NEW i \in 1 .. Len(sent') PROVE ~ (sent'[i].type = TypeObject) /\ (i > 1 => ~ sent'[i - 1].sameID)
    <3>1. TypeReply # TypeObject
      BY DEF TypeReply, TypeObject
    <3>2. i > 1 => i - 1 \in 1 .. Len(sent')
      BY <1>2
    <3> QED BY <1>4, <3>1, <3>2
  <2>2. DOMAIN sent' = 1 .. Len(sent')
    BY <1>2
  <2> QED BY <2>1, <2>2 DEF ObjectsFollowTheirCommand, IsObject
<1>6. turn' # "request"
  OBVIOUS
<1> QED BY <1>4, <1>5, <1>6 DEF ObjectsInv

\* The server begins a frame, whatever the form of its length ...
LEMMA ServeFirstKeeps ==
  ASSUME ChainsInv, NEW form \in {-1, 0, 4, 8}, NEW piece \in Nat, ServeFirst(form, piece)
  PROVE  ChainsInv'
<1> DEFINE data == Body(Head(chain), Len(sent))
           more == Len(chain) > 1
           dss == [cp |-> CP.SQLCARD, data |-> data, type |-> TypeReply, chained |-> more,
                   sameID |-> FALSE, id |-> 1]
           pay == Replied(form, dss.cp, dss.data)
           n == Some(piece, Fitting(pay, HeaderSize))
<1>1. /\ turn = "reply" /\ ~ cut /\ rest = <<>> /\ chain # <<>>
      /\ wire' = wire \o Header(dss, HeaderSize + n, n < Len(pay)) \o SubSeq(pay, 1, n)
      /\ rest' = SubSeq(pay, n + 1, Len(pay)) /\ sent' = Append(sent, dss)
      /\ chain' = Tail(chain)
      /\ UNCHANGED <<stage, turn, id, cut, reading, received>>
  BY DEF ServeFirst, Writable
<1>2. chain \in Seq(Nat) /\ sent \in Seq(Frame)
  BY <1>1 DEF ChainsInv, ChainInv, TypesInv
<1>3. Head(chain) \in Nat /\ Tail(chain) \in Seq(Nat) /\ (more <=> Tail(chain) # <<>>)
  <2>1. Head(chain) \in Nat /\ Tail(chain) \in Seq(Nat) /\ Len(Tail(chain)) = Len(chain) - 1 /\ Len(chain) \in Nat
    <3> DEFINE c == chain
    <3>1. c \in Seq(Nat) /\ c # <<>>
      BY <1>1, <1>2
    <3> HIDE DEF c
    <3>2. Head(c) \in Nat /\ Tail(c) \in Seq(Nat) /\ Len(Tail(c)) = Len(c) - 1
      BY ONLY <3>1, HeadTailProperties
    <3>3. Len(c) \in Nat
      BY ONLY <3>1, EmptySeq
    <3> QED BY <3>2, <3>3 DEF c
  <2> DEFINE tail == Tail(chain)
             l == Len(chain)
  <2>2. tail \in Seq(Nat) /\ Len(tail) = l - 1 /\ l \in Nat
    BY <2>1
  <2> HIDE DEF tail, l
  <2>3. tail # <<>> <=> l > 1
    BY ONLY <2>2, EmptySeq
  <2> QED BY <2>1, <2>3 DEF tail, l
<1>4. data \in Seq(Byte)
  <2>1. Len(sent) \in Nat
    BY <1>2
  <2> QED BY <1>3, <2>1, BodyIs
<1>5. /\ dss.cp = CP.SQLCARD /\ dss.data = data /\ dss.type = TypeReply
      /\ dss.chained = more /\ dss.sameID = FALSE
  <2> DEFINE code == CP.SQLCARD
             type == TypeReply
             none == FALSE
  <2>1. dss = [cp |-> code, data |-> data, type |-> type, chained |-> more, sameID |-> none, id |-> 1]
    OBVIOUS
  <2> HIDE DEF data, more, dss, code, type, none
  <2>2. dss.cp = code /\ dss.data = data /\ dss.type = type /\ dss.chained = more /\ dss.sameID = none
    BY ONLY <2>1
  <2> QED BY <2>2 DEF code, type, none
<1>6. dss \in Frame
  <2> DEFINE A == UInt16
             B == Seq(Byte)
             C == 0 .. 15
             D == BOOLEAN
             code == CP.SQLCARD
             type == TypeReply
             none == FALSE
  <2>1. Frame = [cp : A, data : B, type : C, chained : D, sameID : D, id : A]
    BY DEF Frame
  <2>2. code \in A /\ data \in B /\ type \in C /\ more \in D /\ none \in D /\ 1 \in A
    <3>1. code \in A
      BY CodepointsAre
    <3>2. type \in C /\ 1 \in A
      BY DEF TypeReply, UInt16
    <3>3. more \in D /\ none \in D
      OBVIOUS
    <3> HIDE DEF A, B, C, D, data, more, code, type, none
    <3>4. data \in B
      BY <1>4 DEF B
    <3> QED BY <3>1, <3>2, <3>3, <3>4
  <2>3. dss = [cp |-> code, data |-> data, type |-> type, chained |-> more, sameID |-> none, id |-> 1]
    OBVIOUS
  <2> HIDE DEF A, B, C, D, data, more, dss, code, type, none
  <2> QED BY ONLY <2>1, <2>2, <2>3
<1> HIDE DEF dss, more
<1>7. IsPayload(pay, dss.cp, dss.data)
  <2>1. IsWord(dss.cp) /\ dss.data \in Seq(Byte)
    BY <1>6, FrameIs
  <2> QED BY <2>1, PayloadOf
<1>8. n \in Nat /\ n <= Len(pay) /\ HeaderSize + n <= MaxSegment
  <2> HIDE DEF pay
  <2>1. pay \in Seq(Byte)
    BY <1>7 DEF IsPayload
  <2>2. /\ Fitting(pay, HeaderSize) \in Nat /\ Fitting(pay, HeaderSize) <= Len(pay)
        /\ HeaderSize + Fitting(pay, HeaderSize) <= MaxSegment
    BY <2>1, FittingIs
  <2>3. n \in Nat /\ n <= Fitting(pay, HeaderSize)
    BY <2>2, SomeIs
  <2>4. HeaderSize \in Nat /\ MaxSegment \in Nat /\ Len(pay) \in Nat
    BY <2>1, SegmentSizes DEF HeaderSize
  <2> HIDE DEF n
  <2> QED BY <2>2, <2>3, <2>4
<1> HIDE DEF pay, n
<1>9. TypesInv' /\ ReceivedInv' /\ FlowInv'
  <2>1. turn # "ready"
    BY <1>1
  <2> QED BY <1>1, <1>6, <1>7, <1>8, <2>1, FrameFlows
<1>10. OrderInv'
  <2>1. dss.chained <=> chain' # <<>>
    BY <1>1, <1>3, <1>5
  <2>2. turn # "ready"
    BY <1>1
  <2> QED BY <1>1, <1>6, <2>1, <2>2, OrderGrows
<1>11. ObjectsInv'
  BY <1>1, <1>5, <1>6, RepliesGrow
<1>12. ChainInv'
  BY <1>1, <1>3 DEF ChainsInv, ChainInv, Top
<1> QED BY <1>9, <1>10, <1>11, <1>12 DEF ChainsInv

\* ... and goes on with it, whatever the size of its pieces.
LEMMA ServeContinuationKeeps ==
  ASSUME ChainsInv, NEW piece \in Nat, ServeContinuation(piece)
  PROVE  ChainsInv'
<1> DEFINE n == Some(piece, Fitting(rest, ContinuationSize))
<1>1. /\ turn # "ready" /\ ~ cut /\ rest # <<>>
      /\ wire' = wire \o Word(ContinuationSize + n, n < Len(rest)) \o SubSeq(rest, 1, n)
      /\ rest' = SubSeq(rest, n + 1, Len(rest))
      /\ UNCHANGED <<stage, turn, chain, id, cut, reading, sent, received>>
  BY DEF ServeContinuation, Writable
<1>2. rest \in Seq(Byte)
  BY DEF ChainsInv, TypesInv
<1>3. n \in Nat /\ n <= Len(rest) /\ ContinuationSize + n <= MaxSegment
  <2>1. /\ Fitting(rest, ContinuationSize) \in Nat /\ Fitting(rest, ContinuationSize) <= Len(rest)
        /\ ContinuationSize + Fitting(rest, ContinuationSize) <= MaxSegment
    BY <1>2, FittingIs
  <2>2. n \in Nat /\ n <= Fitting(rest, ContinuationSize)
    BY <2>1, SomeIs
  <2>3. ContinuationSize \in Nat /\ MaxSegment \in Nat /\ Len(rest) \in Nat
    BY <1>2, SegmentSizes DEF ContinuationSize
  <2> HIDE DEF n
  <2> QED BY <2>1, <2>2, <2>3
<1> HIDE DEF n
<1> QED BY <1>1, <1>3, SegmentFlows

\* The bytes that a broken connection loses are still those that were written.
LEMMA CutKeeps ==
  ASSUME ChainsInv, NEW kept \in 0 .. Len(wire), Cut(kept)
  PROVE  ChainsInv'
<1> DEFINE w2 == SubSeq(wire, 1, kept)
<1>1. /\ turn # "ready" /\ ~ cut /\ wire' = w2 /\ cut' = TRUE
      /\ UNCHANGED <<stage, turn, chain, id, rest, reading, sent, received>>
  BY DEF Cut
<1>2. wire \in Seq(Byte) /\ kept \in Nat /\ kept <= Len(wire)
  BY DEF ChainsInv, TypesInv
<1>3. PICK dropped : w2 \in Seq(Byte) /\ dropped \in Seq(Byte) /\ w2 \o dropped = wire /\ Len(w2) = kept
  BY <1>2, CutParts, ZenonT(60)
<1>4. PICK pays, lost, q : InFlow(pays, lost, q)
  BY DEF ChainsInv, FlowInv
<1>5. lost = <<>> /\ wire \o lost = wire
  BY <1>1, <1>2, <1>4, ConcatEmptySeq DEF InFlow
<1>6. wire = <<>> => w2 = <<>>
  <2>1. wire = <<>> => kept = 0
    BY <1>2
  <2> HIDE DEF w2
  <2> QED BY <1>3, <2>1, EmptySeq
<1> HIDE DEF w2
<1>7. InFlow(pays, dropped, q)'
  <2>1. wire' \o dropped = wire /\ cut'
    BY <1>1, <1>3
  <2>2. reading # AtRest /\ reading # Failed => Expects(sent, pays, q, wire, Len(received) + 1, reading)
    BY <1>4, <1>5 DEF InFlow
  <2>3. Flow(sent, pays) /\ q \in Place /\ WriterAt(sent, pays, rest, q)
    BY <1>4 DEF InFlow
  <2> QED BY <1>1, <1>3, <2>1, <2>2, <2>3 DEF InFlow
<1>8. FlowInv'
  BY <1>7 DEF FlowInv
<1>9. TypesInv'
  BY <1>1, <1>3 DEF ChainsInv, TypesInv
<1>10. ReceivedInv'
  BY <1>1, <1>6 DEF ChainsInv, ReceivedInv
<1>11. ChainInv' /\ OrderInv' /\ ObjectsInv'
  BY <1>1, TurnKeeps
<1> QED BY <1>8, <1>9, <1>10, <1>11 DEF ChainsInv

\* A turn that begins: no frame yet, and nothing on the wire.
Begun ==
  /\ sent = <<>> /\ received = <<>> /\ rest = <<>> /\ wire = <<>>
  /\ reading = AtHeader \/ reading = AtRest

\* Such a turn has the empty flow,
LEMMA FlowBegins == Begun => FlowInv
<1> SUFFICES ASSUME Begun PROVE FlowInv
  OBVIOUS
<1> DEFINE none == <<>>
           q == <<1, 0, FALSE>>
<1>1. Flow(none, none)
  BY FlowEmpty
<1>2. q \in Place
  BY DEF Place
<1>3. WriterAt(none, none, none, q)
  <2>1. Len(<<>>) + 1 = 1
    OBVIOUS
  <2> QED BY <2>1 DEF WriterAt
<1>4. Stream(none, none, none, q, q)
  BY <1>2, StreamEmpty
<1>5. none \in Seq(Byte) /\ none \o none = none /\ Len(none) + 1 = 1
  <2>1. <<>> \in Seq(Byte) /\ <<>> \o <<>> = <<>>
    BY EmptySeq, ConcatEmptySeq
  <2>2. Len(<<>>) + 1 = 1
    OBVIOUS
  <2> QED BY <2>1, <2>2
<1>6. sent = none /\ received = none /\ rest = none /\ wire = none /\ (reading = AtHeader \/ reading = AtRest)
  BY DEF Begun
<1>7. q = <<1, 0, FALSE>> /\ (~ cut => none = <<>>)
  OBVIOUS
<1> HIDE DEF none, q
<1>8. Expects(none, none, q, none, 1, AtHeader)
  BY <1>4, <1>5, <1>7 DEF Expects
<1>9. InFlow(none, none, q)
  BY <1>1, <1>2, <1>3, <1>5, <1>6, <1>7, <1>8 DEF InFlow
<1> QED BY <1>9 DEF FlowInv

\* also behind a step.
LEMMA FlowBeginsNext == Begun' => FlowInv'
BY FlowBegins, PTL

\* A request method starts.
LEMMA RequestKeeps ==
  ASSUME ChainsInv, NEW calls \in ChainsAt(stage), Request(calls)
  PROVE  ChainsInv'
<1>1. /\ turn = "ready" /\ turn' = "request" /\ chain' = calls
      /\ id' = (IF stage = 1 THEN id ELSE 1)
      /\ reading' = AtHeader /\ sent' = <<>> /\ received' = <<>>
      /\ UNCHANGED <<stage, rest, wire, cut>>
  BY DEF Request
<1>2. stage \in 0 .. Connected /\ rest = <<>> /\ wire = <<>>
  BY <1>1 DEF ChainsInv, TypesInv, ChainInv, ReceivedInv
<1> DEFINE none == FALSE
           all == TRUE
<1>3. Part(calls, Identity(stage), none, none, all)
  BY <1>2, ChainsArePart
<1>4. id' \in Nat /\ 1 <= id' /\ Identity(stage) \in Nat /\ id' + Identity(stage) <= Top(stage)
  <2>1. stage = 1 => id \in 1 .. 3
    BY <1>1 DEF ChainsInv, ChainInv, Top
  <2>2. stage \in 0 .. 3
    BY <1>2 DEF Connected
  <2> QED BY <1>1, <2>1, <2>2 DEF Identity, Top
<1>5. calls \in Seq(Calls) /\ Len(calls) >= 1 /\ (calls[1].cp \in Objects) = none
  BY <1>3, Zenon DEF Part
<1>6. calls # <<>>
  BY <1>5
<1>7. FlowInv'
  BY <1>1, <1>2, FlowBeginsNext DEF Begun
<1>8. TypesInv'
  <2>1. <<>> \in Seq(Frame)
    BY EmptySeq
  <2> QED BY <1>1, <2>1 DEF ChainsInv, TypesInv
<1>9. ChainInv'
  <2>1. Remains(calls, id', stage)
    <3>1. none \in BOOLEAN
      OBVIOUS
    <3> HIDE DEF none, all
    <3>2. \E k \in Nat, object \in BOOLEAN : Part(calls, k, object, none, all) /\ id' + k <= Top(stage)
      BY <1>3, <1>4, <3>1
    <3> QED BY <3>2 DEF Remains, none, all
  <2>2. id' \in 1 .. Top(stage)
    <3>1. Top(stage) \in Nat
      BY DEF Top
    <3> QED BY <1>4, <3>1
  <2> QED BY <1>1, <2>1, <2>2 DEF ChainInv
<1>10. OrderInv'
  <2>1. \A i \in 1 .. Len(<<>>) - 1 : FALSE
    OBVIOUS
  <2> QED BY <1>1, <1>6, <2>1 DEF OrderInv
<1>11. ObjectsInv'
  <2>1. \A i \in DOMAIN <<>> : FALSE
    OBVIOUS
  <2>2. ObjectsFollowTheirCommand'
    BY <1>1, <2>1 DEF ObjectsFollowTheirCommand
  <2>3. ~ Announced'
    BY <1>1 DEF Announced
  <2>4. ~ (chain'[1].cp \in Objects)
    BY <1>1, <1>5
  <2> QED BY <1>1, <2>2, <2>3, <2>4 DEF ObjectsInv
<1>12. ReceivedInv'
  <2>1. \A i \in 1 .. Len(<<>>) : FALSE
    OBVIOUS
  <2>2. Len(<<>>) <= Len(<<>>)
    OBVIOUS
  <2> QED BY <1>1, <2>1, <2>2, PhasesDiffer DEF ReceivedInv
<1> QED BY <1>7, <1>8, <1>9, <1>10, <1>11, <1>12 DEF ChainsInv

\* The server starts to answer.
LEMMA AnswerKeeps ==
  ASSUME ChainsInv, NEW frames \in 1 .. MaxReplies, NEW sizes \in [1 .. frames -> ReplySizes], Answer(sizes)
  PROVE  ChainsInv'
<1>1. /\ turn' = "reply" /\ chain' = sizes /\ turn = "request" /\ reading = AtRest
      /\ reading' = AtHeader /\ sent' = <<>> /\ received' = <<>>
      /\ UNCHANGED <<stage, id, rest, wire, cut>>
  BY DEF Answer
<1>2. rest = <<>> /\ wire = <<>>
  BY <1>1 DEF ChainsInv, ReceivedInv
<1>3. sizes \in Seq(Nat) /\ sizes # <<>>
  <2>1. frames \in Nat /\ frames >= 1 /\ sizes \in [1 .. frames -> Nat]
    <3>1. MaxReplies \in Nat /\ \A size \in ReplySizes : size \in Nat
      BY ChainsAssumption
    <3>2. frames \in Nat /\ frames >= 1
      BY <3>1
    <3> DEFINE S == 1 .. frames
    <3>3. sizes \in [S -> ReplySizes]
      OBVIOUS
    <3> HIDE DEF S
    <3>4. sizes \in [S -> Nat]
      BY ONLY <3>1, <3>3
    <3> QED BY <3>2, <3>4 DEF S
  <2>2. sizes \in Seq(Nat) /\ Len(sizes) = frames
    BY <2>1, AreSeq
  <2> QED BY <2>1, <2>2
<1>4. FlowInv'
  BY <1>1, <1>2, FlowBeginsNext DEF Begun
<1>5. TypesInv'
  <2>1. <<>> \in Seq(Frame)
    BY EmptySeq
  <2> QED BY <1>1, <2>1 DEF ChainsInv, TypesInv
<1>6. ChainInv'
  BY <1>1, <1>3 DEF ChainsInv, ChainInv
<1>7. OrderInv'
  <2>1. \A i \in 1 .. Len(<<>>) - 1 : FALSE
    OBVIOUS
  <2> QED BY <1>1, <1>3, <2>1 DEF OrderInv
<1>8. ObjectsInv'
  <2>1. \A i \in DOMAIN <<>> : FALSE
    OBVIOUS
  <2>2. ObjectsFollowTheirCommand'
    BY <1>1, <2>1 DEF ObjectsFollowTheirCommand
  <2>3. \A i \in 1 .. Len(<<>>) : FALSE
    OBVIOUS
  <2> QED BY <1>1, <2>2, <2>3 DEF ObjectsInv
<1>9. ReceivedInv'
  <2>1. \A i \in 1 .. Len(<<>>) : FALSE
    OBVIOUS
  <2>2. Len(<<>>) <= Len(<<>>)
    OBVIOUS
  <2> QED BY <1>1, <2>1, <2>2, PhasesDiffer DEF ReceivedInv
<1> QED BY <1>4, <1>5, <1>6, <1>7, <1>8, <1>9 DEF ChainsInv

\* Nothing is under way between two requests.
Idle ==
  /\ turn = "ready" /\ chain = <<>> /\ rest = <<>> /\ wire = <<>> /\ reading = AtRest
  /\ sent = <<>> /\ received = <<>> /\ stage \in 0 .. Connected /\ cut \in BOOLEAN
  /\ id \in 1 .. Top(stage) /\ (stage = 1 => id <= Top(0))

\* Such a state is one of the invariant's,
LEMMA Quiet == Idle => ChainsInv
<1> SUFFICES ASSUME Idle PROVE ChainsInv
  OBVIOUS
<1>1. FlowInv
  BY FlowBegins DEF Idle, Begun
<1>2. TypesInv
  <2>1. <<>> \in Seq(Frame) /\ <<>> \in Seq(Byte)
    BY EmptySeq
  <2> QED BY <2>1 DEF Idle, TypesInv
<1>3. ChainInv
  BY DEF Idle, ChainInv
<1>4. OrderInv
  <2>1. \A i \in 1 .. Len(<<>>) - 1 : FALSE
    OBVIOUS
  <2> QED BY <2>1 DEF Idle, OrderInv
<1>5. ObjectsInv
  <2>1. \A i \in DOMAIN <<>> : FALSE
    OBVIOUS
  <2>2. ObjectsFollowTheirCommand
    BY <2>1 DEF Idle, ObjectsFollowTheirCommand
  <2> QED BY <2>2 DEF Idle, ObjectsInv
<1>6. ReceivedInv
  <2>1. \A i \in 1 .. Len(<<>>) : FALSE
    OBVIOUS
  <2>2. Len(<<>>) <= Len(<<>>)
    OBVIOUS
  <2> QED BY <2>1, <2>2, PhasesDiffer DEF Idle, ReceivedInv
<1> QED BY <1>1, <1>2, <1>3, <1>4, <1>5, <1>6 DEF ChainsInv

\* also behind a step.
LEMMA QuietNext == Idle' => ChainsInv'
BY Quiet, PTL

\* A method returns with its answer.
LEMMA ReturnKeeps ==
  ASSUME ChainsInv, Return
  PROVE  ChainsInv'
<1>1. /\ reading = AtRest /\ turn' = "ready" /\ stage' = (IF stage = Connected THEN stage ELSE stage + 1)
      /\ sent' = <<>> /\ received' = <<>> /\ UNCHANGED <<chain, id, rest, wire, cut, reading>>
  BY DEF Return
<1>2. chain = <<>> /\ rest = <<>> /\ wire = <<>> /\ cut \in BOOLEAN
  BY <1>1 DEF ChainsInv, ReceivedInv, TypesInv
<1>3. stage' \in 0 .. Connected /\ id' \in 1 .. Top(stage') /\ (stage' = 1 => id' <= Top(0))
  <2>1. stage \in 0 .. 3 /\ id \in 1 .. Top(stage)
    BY DEF ChainsInv, TypesInv, ChainInv, Connected
  <2> QED BY <1>1, <2>1 DEF Connected, Top
<1> QED BY <1>1, <1>2, <1>3, QuietNext DEF Idle

\* A failed session is discarded.
LEMMA DiscardKeeps ==
  ASSUME Discard
  PROVE  ChainsInv'
<1>1. stage' = 0 /\ id' = 1 /\ 0 \in 0 .. Connected /\ 1 \in 1 .. Top(0) /\ FALSE \in BOOLEAN
  BY DEF Discard, Connected, Top
<1>2. /\ turn' = "ready" /\ chain' = <<>> /\ rest' = <<>> /\ wire' = <<>> /\ cut' = FALSE
      /\ reading' = AtRest /\ sent' = <<>> /\ received' = <<>>
  BY DEF Discard
<1>3. /\ stage' \in 0 .. Connected /\ cut' \in BOOLEAN /\ id' \in 1 .. Top(stage')
      /\ (stage' = 1 => id' <= Top(0))
  <2>1. stage' \in 0 .. Connected
    BY <1>1
  <2>2. cut' \in BOOLEAN
    BY <1>2
  <2>3. id' \in 1 .. Top(stage')
    BY <1>1
  <2>4. stage' # 1
    BY <1>1
  <2> QED BY <2>1, <2>2, <2>3, <2>4
<1> QED BY <1>2, <1>3, QuietNext DEF Idle

\* The invariant holds before the handshake,
LEMMA InitHolds == ChainsInit => ChainsInv
<1> SUFFICES ASSUME ChainsInit PROVE ChainsInv
  OBVIOUS
<1>1. stage \in 0 .. Connected /\ id \in 1 .. Top(stage) /\ (stage = 1 => id <= Top(0))
  BY DEF ChainsInit, Connected, Top
<1>2. cut \in BOOLEAN
  BY DEF ChainsInit
<1>3. Idle
  BY <1>1, <1>2 DEF ChainsInit, Idle
<1> QED BY <1>3, Quiet

\* The invariant is inductive.
LEMMA StepKeeps == ChainsInv /\ [ChainsNext]_vars => ChainsInv'
<1> SUFFICES ASSUME ChainsInv, [ChainsNext]_vars PROVE ChainsInv'
  OBVIOUS
<1>1. CASE \E calls \in ChainsAt(stage) : Request(calls)
  BY <1>1, RequestKeeps
<1>2. CASE WriteStep
  BY <1>2, WriteFirstKeeps, WriteContinuationKeeps DEF WriteStep
<1>3. CASE ReadStep
  BY <1>3, HeaderKeeps, ContinuationKeeps, BodyKeeps, EOFKeeps DEF ReadStep
<1>4. CASE ServerStep
  <2>1. ASSUME NEW frames \in 1 .. MaxReplies, NEW sizes \in [1 .. frames -> ReplySizes], Answer(sizes)
        PROVE  ChainsInv'
    BY <2>1, AnswerKeeps
  <2>2. ASSUME NEW piece \in Pieces, ServeContinuation(piece) PROVE ChainsInv'
    <3>1. piece \in Nat
      BY ChainsAssumption
    <3> QED BY <2>2, <3>1, ServeContinuationKeeps
  <2>3. ASSUME NEW piece \in Pieces, NEW form \in {-1, 0, 4, 8}, ServeFirst(form, piece) PROVE ChainsInv'
    <3>1. piece \in Nat
      BY ChainsAssumption
    <3> QED BY <2>3, <3>1, ServeFirstKeeps
  <2> QED BY <1>4, <2>1, <2>2, <2>3 DEF ServerStep
<1>5. CASE \E kept \in 0 .. Len(wire) : Cut(kept)
  BY <1>5, CutKeeps
<1>6. CASE Return
  BY <1>6, ReturnKeeps
<1>7. CASE Discard
  BY <1>7, DiscardKeeps
<1>8. CASE UNCHANGED vars
  <2>1. UNCHANGED <<stage, turn, chain, id, rest, wire, cut, reading, sent, received>>
    BY <1>8 DEF vars
  <2>2. TypesInv' /\ ChainInv' /\ OrderInv' /\ ReceivedInv'
    BY <2>1 DEF ChainsInv, TypesInv, ChainInv, Remains, Top, OrderInv, ReceivedInv
  <2>3. ObjectsInv'
    BY <2>1 DEF ChainsInv, ObjectsInv, Announced, ObjectsFollowTheirCommand, IsObject
  <2>4. FlowInv'
    BY <2>1 DEF ChainsInv, FlowInv, InFlow
  <2> QED BY <2>2, <2>3, <2>4 DEF ChainsInv
<1> QED BY <1>1, <1>2, <1>3, <1>4, <1>5, <1>6, <1>7, <1>8 DEF ChainsNext

\* and so it holds of every behaviour.
LEMMA ChainsInvHolds == ChainsSpec => []ChainsInv
<1>1. ChainsInit => ChainsInv
  BY InitHolds
<1>2. ChainsInv /\ [ChainsNext]_vars => ChainsInv'
  BY StepKeeps
<1> QED BY <1>1, <1>2, PTL DEF ChainsSpec

\* What goes over the wire are bytes and both sides note frames, whatever sizes
\* the bodies have and wherever segments are cut.
THEOREM ChainsTyped == ChainsSpec => []ChainsTypeOK
<1>1. ChainsInv => ChainsTypeOK
  <2> SUFFICES ASSUME ChainsInv PROVE ChainsTypeOK
    OBVIOUS
  <2>1. reading.phase \in {"header", "body", "continuation", "rest", "failed"}
    <3>1. CASE reading = AtRest \/ reading = Failed
      BY <3>1, PhasesDiffer
    <3>2. CASE reading # AtRest /\ reading # Failed
      <4>1. PICK pays, lost, q : InFlow(pays, lost, q)
        BY DEF ChainsInv, FlowInv
      <4>2. Expects(sent, pays, q, wire \o lost, Len(received) + 1, reading)
        BY <3>2, <4>1 DEF InFlow
      <4> QED BY <4>2, ExpectsPhase
    <3> QED BY <3>1, <3>2
  <2>2. id \in UInt16 /\ id # 0
    <3>1. id \in 1 .. 5
      <4>1. id \in 1 .. Top(stage)
        BY DEF ChainsInv, ChainInv
      <4> QED BY <4>1 DEF Top
    <3> QED BY ONLY <3>1, SMTT(60) DEF UInt16
  <2>3. /\ stage \in 0 .. Connected /\ turn \in {"ready", "request", "reply"} /\ cut \in BOOLEAN
        /\ rest \in Seq(Byte) /\ wire \in Seq(Byte) /\ sent \in Seq(Frame) /\ received \in Seq(Frame)
    BY DEF ChainsInv, TypesInv
  <2> QED BY ONLY <2>1, <2>2, <2>3 DEF ChainsTypeOK
<1> QED BY <1>1, ChainsInvHolds, PTL

\* ReadDSS gets the frames that WriteRequestDSS wrote, whole and in order, whatever
\* the sizes of bodies, segments and pieces, and fails only for a broken connection
\* or a payload over the limit.
THEOREM FramesArrive == ChainsSpec => []ReadsWhatWasWritten
<1>1. ChainsInv => ReadsWhatWasWritten
  <2> SUFFICES ASSUME ChainsInv PROVE ReadsWhatWasWritten
    OBVIOUS
  <2>1. /\ sent \in Seq(Frame) /\ received \in Seq(Frame)
        /\ Len(received) <= Len(sent) /\ \A i \in 1 .. Len(received) : received[i] = sent[i]
        /\ (reading = Failed => cut \/ \E i \in 1 .. Len(sent) : Oversize(sent[i]))
    BY DEF ChainsInv, TypesInv, ReceivedInv
  <2>2. DOMAIN sent = 1 .. Len(sent) /\ DOMAIN received = 1 .. Len(received)
    BY <2>1
  <2>3. IsPrefix(received, sent)
    BY <2>1, <2>2 DEF IsPrefix
  <2> QED BY <2>1, <2>2, <2>3 DEF ReadsWhatWasWritten
<1> QED BY <1>1, ChainsInvHolds, PTL

\* A reader that has reached the end of a chain has all of it, and nothing of it is
\* left to be written or read.
THEOREM TurnsEnd == ChainsSpec => []TurnsAlternate
<1>1. ChainsInv => TurnsAlternate
  BY DEF ChainsInv, ReceivedInv, TurnsAlternate
<1> QED BY <1>1, ChainsInvHolds, PTL

\* Texts, parameters and large objects have the identifier of their command and are
\* announced by the DSS in front of them, in every chain of every method.
THEOREM ObjectsAnnounced == ChainsSpec => []ObjectsFollowTheirCommand
<1>1. ChainsInv => ObjectsFollowTheirCommand
  BY DEF ChainsInv, ObjectsInv
<1> QED BY <1>1, ChainsInvHolds, PTL

-----------------------------------------------------------------------------
\* The decimal encodings.
\* A group of ten bits.
Group == [1 .. 10 -> {0, 1}]

\* The bits of a number below 8 are its binary digits.
LEMMA BitsOfSmall ==
  ASSUME NEW v \in 0 .. 7
  PROVE  /\ B2(v) \in {0, 1} /\ B1(v) \in {0, 1} /\ B0(v) \in {0, 1}
         /\ 4 * B2(v) + 2 * B1(v) + B0(v) = v
<1>1. v \in {0, 1, 2, 3, 4, 5, 6, 7}
  OBVIOUS
<1>. QED  BY <1>1 DEF B2, B1, B0

\* A small digit is its three bits, a large one its last bit.
LEMMA BitsOfDigit ==
  ASSUME NEW d \in Digit
  PROVE  /\ d % 8 \in 0 .. 7
         /\ B2(d % 8) \in {0, 1} /\ B1(d % 8) \in {0, 1} /\ B0(d % 8) \in {0, 1}
         /\ d < 8 => 4 * B2(d % 8) + 2 * B1(d % 8) + B0(d % 8) = d
         /\ d >= 8 => 8 + B0(d % 8) = d
<1>1. d % 8 \in 0 .. 7 /\ (d < 8 => d % 8 = d) /\ (d >= 8 => d % 8 = d - 8)
  BY DEF Digit
<1>2. d >= 8 => d - 8 \in {0, 1}
  BY DEF Digit
<1>3. d >= 8 => B0(d - 8) = d - 8
  BY <1>2 DEF B0
<1>4. /\ B2(d % 8) \in {0, 1} /\ B1(d % 8) \in {0, 1} /\ B0(d % 8) \in {0, 1}
      /\ 4 * B2(d % 8) + 2 * B1(d % 8) + B0(d % 8) = d % 8
  BY <1>1, BitsOfSmall
<1>5. ASSUME d >= 8  PROVE 8 + B0(d % 8) = d
  <2>1. d % 8 = d - 8
    BY <1>1, <1>5
  <2>2. B0(d % 8) = d - 8
    BY <2>1, <1>3, <1>5
  <2>. QED  BY <2>2 DEF Digit
<1>. QED  BY <1>1, <1>4, <1>5 DEF Digit

\* dpdDecode undoes dpdEncode for all thousand groups of three digits, whatever
\* mixture of small and large digits selects the layout (decfloat.go:12-70).
THEOREM DpdRoundTrip ==
  ASSUME NEW d2 \in Digit, NEW d1 \in Digit, NEW d0 \in Digit
  PROVE  dpdDecode(dpdEncode(d2, d1, d0)) = <<d2, d1, d0>>
<1>. DEFINE v2 == d2 % 8
            v1 == d1 % 8
            v0 == d0 % 8
<1>0. d2 \in Int /\ d1 \in Int /\ d0 \in Int
  BY DEF Digit
<1>b. /\ d2 < 8 => 4 * B2(v2) + 2 * B1(v2) + B0(v2) = d2
      /\ d1 < 8 => 4 * B2(v1) + 2 * B1(v1) + B0(v1) = d1
      /\ d0 < 8 => 4 * B2(v0) + 2 * B1(v0) + B0(v0) = d0
      /\ d2 >= 8 => 8 + B0(v2) = d2
      /\ d1 >= 8 => 8 + B0(v1) = d1
      /\ d0 >= 8 => 8 + B0(v0) = d0
  BY BitsOfDigit
<1>c. \A b \in {B2(v2), B1(v2), B0(v2), B2(v1), B1(v1), B0(v1), B2(v0), B1(v0), B0(v0)} :
        b \in {0, 1}
  BY BitsOfDigit
<1>1. CASE d2 < 8 /\ d1 < 8 /\ d0 < 8
  <2>1. dpdEncode(d2, d1, d0) =
          <<B2(v2), B1(v2), B0(v2), B2(v1), B1(v1), B0(v1), 0, B2(v0), B1(v0), B0(v0)>>
    BY <1>0, <1>1 DEF dpdEncode
  <2>. HIDE DEF v2, v1, v0
  <2>. QED  BY <2>1, <1>1, <1>b, <1>c DEF dpdDecode
<1>2. CASE d2 < 8 /\ d1 < 8 /\ d0 >= 8
  <2>1. dpdEncode(d2, d1, d0) =
          <<B2(v2), B1(v2), B0(v2), B2(v1), B1(v1), B0(v1), 1, 0, 0, B0(v0)>>
    BY <1>0, <1>2 DEF dpdEncode
  <2>. HIDE DEF v2, v1, v0
  <2>. QED  BY <2>1, <1>2, <1>b, <1>c DEF dpdDecode
<1>3. CASE d2 < 8 /\ d1 >= 8 /\ d0 < 8
  <2>1. dpdEncode(d2, d1, d0) =
          <<B2(v2), B1(v2), B0(v2), B2(v0), B1(v0), B0(v1), 1, 0, 1, B0(v0)>>
    BY <1>0, <1>3 DEF dpdEncode
  <2>. HIDE DEF v2, v1, v0
  <2>. QED  BY <2>1, <1>3, <1>b, <1>c DEF dpdDecode
<1>4. CASE d2 >= 8 /\ d1 < 8 /\ d0 < 8
  <2>1. dpdEncode(d2, d1, d0) =
          <<B2(v0), B1(v0), B0(v2), B2(v1), B1(v1), B0(v1), 1, 1, 0, B0(v0)>>
    BY <1>0, <1>4 DEF dpdEncode
  <2>. HIDE DEF v2, v1, v0
  <2>. QED  BY <2>1, <1>4, <1>b, <1>c DEF dpdDecode
<1>5. CASE d2 >= 8 /\ d1 >= 8 /\ d0 < 8
  <2>1. dpdEncode(d2, d1, d0) =
          <<B2(v0), B1(v0), B0(v2), 0, 0, B0(v1), 1, 1, 1, B0(v0)>>
    BY <1>0, <1>5 DEF dpdEncode
  <2>. HIDE DEF v2, v1, v0
  <2>. QED  BY <2>1, <1>5, <1>b, <1>c DEF dpdDecode
<1>6. CASE d2 >= 8 /\ d1 < 8 /\ d0 >= 8
  <2>1. dpdEncode(d2, d1, d0) =
          <<B2(v1), B1(v1), B0(v2), 0, 1, B0(v1), 1, 1, 1, B0(v0)>>
    BY <1>0, <1>6 DEF dpdEncode
  <2>. HIDE DEF v2, v1, v0
  <2>. QED  BY <2>1, <1>6, <1>b, <1>c DEF dpdDecode
<1>7. CASE d2 < 8 /\ d1 >= 8 /\ d0 >= 8
  <2>1. dpdEncode(d2, d1, d0) =
          <<B2(v2), B1(v2), B0(v2), 1, 0, B0(v1), 1, 1, 1, B0(v0)>>
    BY <1>0, <1>7 DEF dpdEncode
  <2>. HIDE DEF v2, v1, v0
  <2>. QED  BY <2>1, <1>7, <1>b, <1>c DEF dpdDecode
<1>8. CASE d2 >= 8 /\ d1 >= 8 /\ d0 >= 8
  <2>1. dpdEncode(d2, d1, d0) =
          <<0, 0, B0(v2), 1, 1, B0(v1), 1, 1, 1, B0(v0)>>
    BY <1>0, <1>8 DEF dpdEncode
  <2>. HIDE DEF v2, v1, v0
  <2>. QED  BY <2>1, <1>8, <1>b, <1>c DEF dpdDecode
<1>. QED  BY <1>0, <1>1, <1>2, <1>3, <1>4, <1>5, <1>6, <1>7, <1>8

\* Whatever ten bits the server sends, dpdDecode finds three decimal digits: the
\* 24 groups no encoder produces included (decfloat.go:12-47).
THEOREM DpdDigits ==
  ASSUME NEW g \in Group
  PROVE  dpdDecode(g) \in Digit \X Digit \X Digit
<1>1. \A i \in 1 .. 10 : g[i] = 0 \/ g[i] = 1
  BY DEF Group
<1>2. CASE g[7] = 0
  BY <1>1, <1>2 DEF dpdDecode, Digit
<1>3. CASE g[7] = 1 /\ ~ (g[8] = 1 /\ g[9] = 1)
  BY <1>1, <1>3 DEF dpdDecode, Digit
<1>4. CASE g[7] = 1 /\ g[8] = 1 /\ g[9] = 1
  BY <1>1, <1>4 DEF dpdDecode, Digit
<1>. QED  BY <1>1, <1>2, <1>3, <1>4

\* The combination field gives back the leading digit and the high bits of every
\* exponent EncodeDFP accepts, and is never taken for an infinity or a NaN
\* (decfloat.go:108-114 and 390-395).
THEOREM CombinationRoundTrip ==
  ASSUME NEW lead \in Digit, NEW high \in 0 .. 2
  PROVE  /\ Combination(lead, high) \in 0 .. 29
         /\ LeadOf(Combination(lead, high)) = lead
         /\ HighOf(Combination(lead, high)) = high
<1>1. CASE lead < 8
  BY <1>1 DEF Combination, LeadOf, HighOf, Digit
<1>2. CASE lead >= 8
  <2>1. Combination(lead, high) = 16 + 2 * high + lead
    BY <1>2 DEF Combination, Digit
  <2>. QED  BY <1>2, <2>1 DEF LeadOf, HighOf, Digit
<1>. QED  BY <1>1, <1>2 DEF Digit

\* The places of a packed decimal: every digit has a nibble of its own inside the
\* bytes of the field, and none shares the nibble of the sign (encoders.go:446-514
\* writes them with |=, so that two in one nibble would mix).
THEOREM PackedPlaces ==
  ASSUME NEW prec \in 1 .. 31
  PROVE  /\ \A d \in 0 .. prec - 1 : NibbleOf(prec, d) \in 0 .. SignNibble(prec) - 1
         /\ \A d, e \in 0 .. prec - 1 :
              NibbleOf(prec, d) = NibbleOf(prec, e) => d = e
         /\ NibbleOf(prec, prec - 1) = SignNibble(prec) - 1
         /\ NibbleOf(prec, 0) \in {0, 1}
<1>1. ByteLen(prec) \in Nat /\ 2 * ByteLen(prec) \in {prec + 1, prec + 2}
  BY DEF ByteLen
<1>2. \A d \in 0 .. prec - 1 : NibbleOf(prec, d) \in 0 .. SignNibble(prec) - 1
  BY <1>1 DEF NibbleOf, SignNibble
<1>3. \A d, e \in 0 .. prec - 1 : NibbleOf(prec, d) = NibbleOf(prec, e) => d = e
  BY <1>1 DEF NibbleOf
<1>4. NibbleOf(prec, prec - 1) = SignNibble(prec) - 1
  BY <1>1 DEF NibbleOf, SignNibble
<1>5. NibbleOf(prec, 0) \in {0, 1}
  BY <1>1 DEF NibbleOf
<1>. QED  BY <1>2, <1>3, <1>4, <1>5
=============================================================================
