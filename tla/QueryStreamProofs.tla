-------------------------- MODULE QueryStreamProofs -------------------------
(***************************************************************************)
(* Theorems about QueryStream, for every result, however its rows and      *)
(* large objects are spread over the blocks and whatever fails on the way: *)
(* first of what the client believes of its cursor, then of every byte     *)
(* between the server and the application.                                 *)
(***************************************************************************)
EXTENDS QueryStream, DataProofs

Part == [row : 1 .. NumRows, part : 1 .. Parts]
Lob  == Nat \X Nat
Row  == [bytes : Seq(Part), lobs : Seq(Lob)]

\* What the server has to send: all bytes, all rows and all large objects in order,
\* of which those of row r lie behind the Off(r - 1)-th.
AllBytes == FlattenSeq([r \in 1 .. NumRows |-> Bytes(r)])
AllRows  == [r \in 1 .. NumRows |-> Bytes(r)]
AllLobs  == FlattenSeq([r \in 1 .. NumRows |-> Values(r)])
Off(r)   == FoldLeft(+, 0, [i \in 1 .. r |-> Lobs[i]])

LEMMA OffSteps ==
  /\ Off(0) = 0 /\ \A r \in 0 .. NumRows : Off(r) \in Nat
  /\ \A r \in 1 .. NumRows : Off(r) = Off(r - 1) + Lobs[r]
<1> DEFINE step == [i \in Nat |-> [v \in Nat |->
                      IF i + 1 \in 1 .. NumRows THEN v + Lobs[i + 1] ELSE v]]
<1>0. NumRows \in Nat /\ (\A r \in 1 .. NumRows : Lobs[r] \in Nat) /\ 0 \in Nat
  BY StreamAssumption
<1>1. step \in [Nat -> [Nat -> Nat]]
  BY <1>0
<1>2. PICK f \in [Nat -> Nat] : f[0] = 0 /\ \A i \in Nat : f[i + 1] = step[i][f[i]]
  <2> HIDE DEF step
  <2>1. Definable(0, step, Nat)
    BY <1>0, <1>1, Recursion
  <2> QED BY <2>1 DEF Definable
<1>3. ASSUME NEW r \in 1 .. NumRows PROVE f[r] = f[r - 1] + Lobs[r]
  <2>1. r - 1 \in Nat /\ (r - 1) + 1 = r /\ f[r - 1] \in Nat
    BY <1>0
  <2>2. f[(r - 1) + 1] = step[r - 1][f[r - 1]]
    BY <1>2, <2>1
  <2>3. step[r - 1][f[r - 1]] = f[r - 1] + Lobs[r]
    BY <2>1
  <2> QED BY <2>1, <2>2, <2>3
<1>4. ASSUME NEW r \in 0 .. NumRows PROVE Off(r) = f[r]
  <2> DEFINE s == [i \in 1 .. r |-> Lobs[i]]
  <2>1. s \in Seq(Nat) /\ Len(s) = r /\ \A i \in 1 .. r : s[i] = Lobs[i]
    BY <1>0
  <2> HIDE DEF s
  <2>2. ASSUME NEW i \in 1 .. Len(s) PROVE f[i] = f[i - 1] + s[i]
    <3>1. i \in 1 .. r /\ i \in 1 .. NumRows
      BY <1>0, <2>1
    <3>2. f[i] = f[i - 1] + Lobs[i] /\ s[i] = Lobs[i]
      BY <1>3, <2>1, <3>1
    <3> QED BY <3>2
  <2>3. f[0] = 0
    BY <1>2
  <2>4. FoldLeft(+, 0, s) = f[Len(s)]
    BY <2>1, <2>2, <2>3, SumRuns
  <2> QED BY <2>1, <2>4 DEF Off, s
<1> HIDE DEF step
<1>5. \A r \in 1 .. NumRows : r \in 0 .. NumRows /\ r - 1 \in 0 .. NumRows
  BY <1>0
<1> QED BY <1>0, <1>2, <1>3, <1>4, <1>5

LEMMA OffGrows ==
  ASSUME NEW a \in 0 .. NumRows, NEW b \in 0 .. NumRows, a <= b
  PROVE  Off(a) \in Nat /\ Off(b) \in Nat /\ Off(a) <= Off(b) /\ Off(b) <= Off(NumRows)
<1>0. NumRows \in Nat /\ \A r \in 1 .. NumRows : Lobs[r] \in Nat
  BY StreamAssumption
<1>1. ASSUME NEW c \in 0 .. NumRows PROVE \A d \in c .. NumRows : Off(c) <= Off(d)
  <2> DEFINE Above == {k \in Nat : k >= c => Off(c) <= Off(k)}
  <2>1. 0 \in Above
    BY OffSteps
  <2>2. ASSUME NEW k \in 1 .. NumRows, k - 1 \in Above PROVE k \in Above
    <3>1. CASE k <= c
      BY <3>1, OffSteps
    <3>2. CASE k > c
      <4>0. k - 1 \in Nat /\ k - 1 >= c /\ k - 1 \in 0 .. NumRows
        BY <3>2, <1>0
      <4>1. Off(c) <= Off(k - 1) /\ k - 1 \in 0 .. NumRows
        BY <4>0, <2>2
      <4>2. Off(k) = Off(k - 1) + Lobs[k] /\ Lobs[k] \in Nat /\ Off(k - 1) \in Nat /\ Off(c) \in Nat
        BY <4>1, <1>0, OffSteps
      <4> QED BY <4>1, <4>2
    <3> QED BY <3>1, <3>2
  <2>3. \A k \in 0 .. NumRows : k \in Above
    <3> HIDE DEF Above
    <3> QED BY <1>0, <2>1, <2>2, InductionUpTo
  <2> QED BY <2>3
<1>2. b \in a .. NumRows /\ NumRows \in b .. NumRows
  BY <1>0
<1> QED BY <1>1, <1>2, OffSteps

LEMMA BytesPlaced ==
  /\ AllBytes \in Seq(Part) /\ Len(AllBytes) = NumRows * Parts
  /\ \A r \in 1 .. NumRows :
       /\ (r - 1) * Parts \in Nat /\ r * Parts = (r - 1) * Parts + Parts
       /\ r * Parts <= NumRows * Parts
       /\ Slice(AllBytes, (r - 1) * Parts, r * Parts) = Bytes(r)
       /\ Bytes(r) \in Seq(Part) /\ Len(Bytes(r)) = Parts
<1> DEFINE seqs == [r \in 1 .. NumRows |-> Bytes(r)]
           off  == [r \in 0 .. NumRows |-> r * Parts]
<1>0. NumRows \in Nat /\ Parts \in Nat
  BY StreamAssumption
<1>1. \A r \in 1 .. NumRows : Bytes(r) \in Seq(Part) /\ Len(Bytes(r)) = Parts
  BY <1>0 DEF Bytes, Part
<1>2. seqs \in Seq(Seq(Part)) /\ Len(seqs) = NumRows /\ \A r \in 1 .. NumRows : seqs[r] = Bytes(r)
  BY <1>0, <1>1
<1>3. ASSUME NEW r \in 1 .. NumRows
      PROVE  /\ (r - 1) * Parts \in Nat /\ r * Parts = (r - 1) * Parts + Parts
             /\ off[r] = r * Parts /\ off[r - 1] = (r - 1) * Parts
  <2>1. r - 1 \in 0 .. NumRows /\ r \in 0 .. NumRows
    BY <1>0
  <2> QED BY <1>0, <2>1
<1>4. off[0] = 0 /\ off[NumRows] = NumRows * Parts /\ \A r \in 0 .. NumRows : off[r] = r * Parts
  BY <1>0
<1> HIDE DEF seqs, off
<1>5. \A r \in 1 .. Len(seqs) : off[r] = off[r - 1] + Len(seqs[r])
  BY <1>1, <1>2, <1>3
<1>6. off[0] = 0
  BY <1>4
<1> DEFINE n == Len(seqs)
           all == FlattenSeq(seqs)
<1>7. /\ all \in Seq(Part) /\ Len(all) = off[n]
      /\ \A i \in 0 .. n : off[i] \in Nat /\ off[i] <= off[n]
      /\ \A i \in 1 .. n : Slice(all, off[i - 1], off[i]) = seqs[i]
  BY <1>2, <1>5, <1>6, FlattenSlices
<1>8. AllBytes = all
  BY DEF AllBytes, seqs
<1>9. n = NumRows
  BY <1>2
<1> HIDE DEF n, all
<1>10. \A r \in 1 .. NumRows : r * Parts <= NumRows * Parts
  BY <1>3, <1>4, <1>7, <1>9
<1> QED BY <1>1, <1>2, <1>3, <1>4, <1>7, <1>8, <1>9, <1>10

LEMMA LobsPlaced ==
  /\ AllLobs \in Seq(Lob) /\ Len(AllLobs) = Off(NumRows)
  /\ \A r \in 1 .. NumRows : Slice(AllLobs, Off(r - 1), Off(r)) = Values(r)
<1> DEFINE seqs == [r \in 1 .. NumRows |-> Values(r)]
           off  == [r \in 0 .. NumRows |-> Off(r)]
<1>0. NumRows \in Nat /\ \A r \in 1 .. NumRows : Lobs[r] \in Nat
  BY StreamAssumption
<1>1. \A r \in 1 .. NumRows : Values(r) \in Seq(Lob) /\ Len(Values(r)) = Lobs[r]
  BY <1>0 DEF Values, Lob
<1>2. seqs \in Seq(Seq(Lob)) /\ Len(seqs) = NumRows /\ \A r \in 1 .. NumRows : seqs[r] = Values(r)
  BY <1>0, <1>1
<1>3. \A r \in 1 .. NumRows : off[r] = Off(r) /\ off[r - 1] = Off(r - 1)
  BY <1>0
<1>4. off[0] = 0 /\ off[NumRows] = Off(NumRows)
  BY <1>0, OffSteps
<1> HIDE DEF seqs, off
<1>5. \A r \in 1 .. Len(seqs) : off[r] = off[r - 1] + Len(seqs[r])
  BY <1>1, <1>2, <1>3, OffSteps
<1>6. off[0] = 0
  BY <1>4
<1> DEFINE n == Len(seqs)
           all == FlattenSeq(seqs)
<1>7. /\ all \in Seq(Lob) /\ Len(all) = off[n]
      /\ \A i \in 0 .. n : off[i] \in Nat /\ off[i] <= off[n]
      /\ \A i \in 1 .. n : Slice(all, off[i - 1], off[i]) = seqs[i]
  BY <1>2, <1>5, <1>6, FlattenSlices
<1>8. AllLobs = all
  BY DEF AllLobs, seqs
<1>9. n = NumRows
  BY <1>2
<1> HIDE DEF n, all
<1> QED BY <1>2, <1>3, <1>4, <1>7, <1>8, <1>9

-----------------------------------------------------------------------------
\* Rows that are complete when g bytes are there.
LEMMA Complete ==
  ASSUME NEW g \in 0 .. NumRows * Parts
  PROVE  /\ g \div Parts \in 0 .. NumRows /\ (g \div Parts) * Parts \in 0 .. g
         /\ g - (g \div Parts) * Parts < Parts
         /\ g = NumRows * Parts => g \div Parts = NumRows
<1> DEFINE q   == g \div Parts
           all == NumRows * Parts
<1>0. NumRows \in Nat /\ Parts \in Nat \ {0} /\ all \in Nat
  BY StreamAssumption
<1>1. g \in Nat /\ g <= all
  BY <1>0
<1>2. q \in Nat /\ q * Parts \in Nat /\ q * Parts <= g /\ g < q * Parts + Parts
  BY <1>0, <1>1, Quotient
<1>3. g = all => q = NumRows
  <2> SUFFICES ASSUME g = all PROVE q = NumRows
    OBVIOUS
  <2>1. NumRows * Parts <= g /\ g < NumRows * Parts + Parts
    BY <1>0
  <2> QED BY <1>0, <1>1, <2>1, Quotient
<1>4. q <= NumRows
  <2> SUFFICES ASSUME q > NumRows PROVE FALSE
    BY <1>0, <1>2
  <2>1. q - NumRows \in Nat /\ q - NumRows >= 1 /\ q = NumRows + (q - NumRows)
    BY <1>0, <1>2
  <2> DEFINE k == q - NumRows
  <2>2. k \in Nat /\ k >= 1 /\ q = NumRows + k
    BY <2>1
  <2> HIDE DEF k, q
  <2>3. q * Parts = NumRows * Parts + k * Parts /\ k * Parts >= Parts
    BY <1>0, <2>2
  <2> QED BY <1>0, <1>1, <1>2, <2>3
<1> HIDE DEF all, q
<1>5. q \in 0 .. NumRows /\ q * Parts \in 0 .. g /\ g - q * Parts < Parts
  BY <1>0, <1>1, <1>2, <1>4
<1> QED BY <1>3, <1>5 DEF all, q

LEMMA CompleteGrows ==
  ASSUME NEW g \in 0 .. NumRows * Parts, NEW h \in 0 .. NumRows * Parts, g <= h
  PROVE  g \div Parts <= h \div Parts
<1> DEFINE q == g \div Parts
           r == h \div Parts
<1>0. Parts \in Nat \ {0} /\ NumRows \in Nat /\ NumRows * Parts \in Nat
  BY StreamAssumption
<1>1. /\ q \in Nat /\ q * Parts \in Nat /\ q * Parts <= g
      /\ r \in Nat /\ r * Parts \in Nat /\ h < r * Parts + Parts
  BY <1>0, Quotient
<1> HIDE DEF q, r
<1>2. q <= r
  <2> SUFFICES ASSUME q > r PROVE FALSE
    BY <1>1
  <2> DEFINE k == q - r
  <2>1. k \in Nat /\ k >= 1 /\ q = r + k
    BY <1>1
  <2> HIDE DEF k
  <2>2. q * Parts = r * Parts + k * Parts /\ k * Parts >= Parts
    BY <1>0, <1>1, <2>1
  <2>3. g \in Int /\ h \in Int
    BY <1>0
  <2> QED BY <1>0, <1>1, <2>2, <2>3
<1> QED BY <1>2 DEF q, r

\* The next byte belongs to the row behind those that are complete, and completes
\* it when it is its last part.
LEMMA NextByte ==
  ASSUME NEW g \in 0 .. NumRows * Parts - 1
  PROVE  LET r == (g \div Parts) + 1 IN
         /\ r \in 1 .. NumRows /\ AllBytes[g + 1].row = r
         /\ AllBytes[g + 1].part = Parts  => (g + 1) \div Parts = r
         /\ AllBytes[g + 1].part # Parts => (g + 1) \div Parts = g \div Parts
<1> DEFINE q == g \div Parts
           r == q + 1
           a == q * Parts
           k == g + 1 - a
<1>0. NumRows \in Nat /\ Parts \in Nat \ {0} /\ NumRows * Parts \in Nat
  BY StreamAssumption
<1>1. g \in Nat /\ g + 1 \in Nat
  BY <1>0
<1>2. /\ q \in Nat /\ a \in Nat /\ a <= g /\ g < a + Parts
  BY <1>0, <1>1, Quotient
<1>3. q \in 0 .. NumRows /\ q # NumRows
  <2>1. q \in 0 .. NumRows
    BY <1>0, Complete
  <2>2. q # NumRows
    BY <1>0, <1>2
  <2> QED BY <2>1, <2>2
<1>4. k \in 1 .. Parts
  BY <1>0, <1>1, <1>2
<1>5. r \in 1 .. NumRows /\ r \in Nat /\ r - 1 = q
  BY <1>0, <1>3
<1>6. r * Parts = a + Parts
  <2> HIDE DEF q
  <2> QED BY <1>0, <1>2
<1>7. /\ AllBytes \in Seq(Part) /\ a + Parts <= Len(AllBytes)
      /\ Slice(AllBytes, a, a + Parts) = Bytes(r)
  BY <1>5, <1>6, BytesPlaced
<1> HIDE DEF q, a, k, r
<1>8. Slice(AllBytes, a, a + Parts)[k] = AllBytes[a + k]
  <2> DEFINE b == a + Parts
  <2>1. a \in Nat /\ b \in Nat /\ a <= b /\ b <= Len(AllBytes) /\ k \in 1 .. b - a
    BY <1>0, <1>2, <1>4, <1>7
  <2> HIDE DEF b
  <2>2. Slice(AllBytes, a, b)[k] = AllBytes[a + k]
    BY <2>1, <1>7, SliceParts
  <2> QED BY <2>2 DEF b
<1>9. AllBytes[a + k] = [row |-> r, part |-> k]
  BY <1>4, <1>7, <1>8 DEF Bytes
<1>10. a + k = g + 1
  BY <1>1, <1>2 DEF k
<1>11. k = Parts => (g + 1) \div Parts = r
  <2> SUFFICES ASSUME k = Parts PROVE (g + 1) \div Parts = r
    OBVIOUS
  <2>1. r * Parts <= g + 1 /\ g + 1 < r * Parts + Parts
    BY <1>0, <1>1, <1>2, <1>6, <1>10
  <2> QED BY <1>0, <1>1, <1>5, <2>1, Quotient
<1>12. k # Parts => (g + 1) \div Parts = q
  <2> SUFFICES ASSUME k # Parts PROVE (g + 1) \div Parts = q
    OBVIOUS
  <2>1. q * Parts <= g + 1 /\ g + 1 < q * Parts + Parts
    BY <1>0, <1>1, <1>2, <1>4, <1>10 DEF a
  <2> QED BY <1>0, <1>1, <1>2, <2>1, Quotient
<1> QED BY <1>5, <1>9, <1>10, <1>11, <1>12 DEF r, q

\* The large objects owed for the next n bytes are those of the rows they complete.
LEMMA OwedJoins ==
  ASSUME NEW g \in Nat, NEW n \in Nat, g + n <= NumRows * Parts
  PROVE  FlattenSeq([i \in 1 .. n |-> IF AllBytes[g + i].part = Parts
                                      THEN Values(AllBytes[g + i].row) ELSE <<>>])
           = Slice(AllLobs, Off(g \div Parts), Off((g + n) \div Parts))
<1> DEFINE seqs == [i \in 1 .. n |-> IF AllBytes[g + i].part = Parts
                                     THEN Values(AllBytes[g + i].row) ELSE <<>>]
           R(i) == (g + i) \div Parts
           off  == [i \in 0 .. n |-> Off(R(i))]
<1>0. NumRows \in Nat /\ Parts \in Nat \ {0} /\ NumRows * Parts \in Nat
  BY StreamAssumption
<1>1. \A i \in 0 .. n : R(i) \in 0 .. NumRows /\ R(0) <= R(i)
  <2> SUFFICES ASSUME NEW i \in 0 .. n PROVE R(i) \in 0 .. NumRows /\ R(0) <= R(i)
    OBVIOUS
  <2>1. g + i \in 0 .. NumRows * Parts /\ g + 0 \in 0 .. NumRows * Parts /\ g + 0 <= g + i
    BY <1>0
  <2> QED BY <2>1, Complete, CompleteGrows
<1>2. ASSUME NEW i \in 1 .. n
      PROVE  /\ R(i - 1) <= R(i)
             /\ seqs[i] = Slice(AllLobs, Off(R(i - 1)), Off(R(i)))
             /\ seqs[i] \in Seq(Lob)
  <2> DEFINE h == g + i - 1
             r == (h \div Parts) + 1
  <2>1. h \in 0 .. NumRows * Parts - 1 /\ h + 1 = g + i /\ g + (i - 1) = h
    BY <1>0
  <2>2. /\ r \in 1 .. NumRows /\ AllBytes[h + 1].row = r
        /\ AllBytes[h + 1].part = Parts  => (h + 1) \div Parts = r
        /\ AllBytes[h + 1].part # Parts => (h + 1) \div Parts = h \div Parts
    <3> HIDE DEF h
    <3> QED BY <2>1, NextByte
  <2>3. R(i - 1) = h \div Parts /\ R(i) = (h + 1) \div Parts
    BY <2>1
  <2>4. R(i - 1) \in 0 .. NumRows /\ R(i) \in 0 .. NumRows /\ R(i - 1) = r - 1
    <3>1. i - 1 \in 0 .. n /\ i \in 0 .. n
      OBVIOUS
    <3>2. R(i - 1) \in 0 .. NumRows /\ R(i) \in 0 .. NumRows
      BY <1>1, <3>1
    <3> QED BY <2>3, <3>2
  <2>5. AllLobs \in Seq(Lob) /\ \A k \in 1 .. NumRows : Slice(AllLobs, Off(k - 1), Off(k)) = Values(k)
    BY LobsPlaced
  <2> HIDE DEF h, r, R
  <2>6. CASE AllBytes[h + 1].part = Parts
    <3>1. seqs[i] = Values(r)
      BY <2>1, <2>2, <2>6
    <3>2. R(i) = r
      BY <2>2, <2>3, <2>6
    <3>3. Values(r) = Slice(AllLobs, Off(R(i - 1)), Off(R(i)))
      BY <2>2, <2>4, <2>5, <3>2
    <3>4. Values(r) \in Seq(Lob)
      BY <2>2, <1>0, StreamAssumption DEF Values, Lob
    <3>5. R(i - 1) <= R(i)
      BY <2>4, <3>2, <2>2
    <3> HIDE DEF seqs
    <3> QED BY <3>1, <3>3, <3>4, <3>5
  <2>7. CASE AllBytes[h + 1].part # Parts
    <3>1. seqs[i] = <<>>
      BY <2>1, <2>7
    <3>2. R(i) = R(i - 1)
      BY <2>2, <2>3, <2>7
    <3>3. Off(R(i)) \in Nat
      BY <2>4, OffSteps
    <3>4. Slice(AllLobs, Off(R(i)), Off(R(i))) = <<>>
      BY <2>5, <3>3, SliceEmpty
    <3>5. R(i - 1) <= R(i)
      BY <2>4, <3>2
    <3> HIDE DEF seqs
    <3> QED BY <3>1, <3>2, <3>4, <3>5
  <2> QED BY <2>6, <2>7
<1>3. seqs \in Seq(Seq(Lob)) /\ Len(seqs) = n
  <2>1. seqs = [i \in 1 .. n |-> seqs[i]] /\ \A i \in 1 .. n : seqs[i] \in Seq(Lob)
    BY <1>2
  <2> HIDE DEF seqs
  <2> QED BY <2>1
<1>4. AllLobs \in Seq(Lob) /\ Len(AllLobs) = Off(NumRows)
  BY LobsPlaced
<1> HIDE DEF seqs, R
<1>5. ASSUME NEW i \in 0 .. n
      PROVE  /\ off[i] = Off(R(i)) /\ off[0] = Off(R(0))
             /\ off[i] \in Nat /\ off[i] <= Len(AllLobs) /\ off[0] <= off[i]
  <2>1. off[i] = Off(R(i)) /\ off[0] = Off(R(0))
    OBVIOUS
  <2>2. R(0) \in 0 .. NumRows /\ R(i) \in 0 .. NumRows /\ R(0) <= R(i)
    BY <1>1
  <2>3. Off(R(i)) \in Nat /\ Off(R(0)) <= Off(R(i)) /\ Off(R(i)) <= Off(NumRows)
    BY <2>2, OffGrows
  <2> HIDE DEF off
  <2> QED BY <2>1, <2>3, <1>4
<1>6. ASSUME NEW i \in 1 .. n
      PROVE  off[i - 1] <= off[i] /\ seqs[i] = Slice(AllLobs, off[i - 1], off[i])
  <2>1. i - 1 \in 0 .. n /\ i \in 0 .. n
    OBVIOUS
  <2>2. off[i - 1] = Off(R(i - 1)) /\ off[i] = Off(R(i))
    BY <2>1
  <2>3. R(i - 1) \in 0 .. NumRows /\ R(i) \in 0 .. NumRows /\ R(i - 1) <= R(i)
    BY <1>1, <1>2, <2>1
  <2>4. Off(R(i - 1)) <= Off(R(i))
    BY <2>3, OffGrows
  <2> HIDE DEF off
  <2> QED BY <2>2, <2>4, <1>2
<1>7. FlattenSeq(seqs) = Slice(AllLobs, off[0], off[n])
  <2> HIDE DEF off
  <2>1. \A i \in 0 .. Len(seqs) : off[i] \in Nat /\ off[i] <= Len(AllLobs) /\ off[0] <= off[i]
    BY <1>3, <1>5
  <2>2. \A i \in 1 .. Len(seqs) :
          off[i - 1] <= off[i] /\ seqs[i] = Slice(AllLobs, off[i - 1], off[i])
    BY <1>3, <1>6
  <2>3. FlattenSeq(seqs) = Slice(AllLobs, off[0], off[Len(seqs)])
    BY <1>3, <1>4, <2>1, <2>2, JoinSlices
  <2> QED BY <1>3, <2>3
<1>8. off[0] = Off(R(0)) /\ off[n] = Off(R(n))
  OBVIOUS
<1>9. R(0) = g \div Parts /\ R(n) = (g + n) \div Parts
  BY DEF R
<1> HIDE DEF off
<1> QED BY <1>7, <1>8, <1>9 DEF seqs

-----------------------------------------------------------------------------
\* Rows as the stream keeps them: pieces of the sequence of all rows.
LEMMA RowsPlaced ==
  ASSUME NEW r \in 0 .. NumRows, NEW q \in 0 .. NumRows, r <= q
  PROVE  /\ AllRows \in Seq(Seq(Part)) /\ Len(AllRows) = NumRows
         /\ Slice(AllRows, r, q) \in Seq(Seq(Part)) /\ Len(Slice(AllRows, r, q)) = q - r
         /\ \A i \in 1 .. q - r : Slice(AllRows, r, q)[i] = Bytes(r + i) /\ r + i \in 1 .. NumRows
<1>0. NumRows \in Nat /\ r \in Nat /\ q \in Nat
  BY StreamAssumption
<1>1. \A i \in 1 .. NumRows : Bytes(i) \in Seq(Part)
  BY BytesPlaced
<1>2. /\ AllRows \in Seq(Seq(Part)) /\ Len(AllRows) = NumRows
      /\ \A i \in 1 .. NumRows : AllRows[i] = Bytes(i)
  BY <1>0, <1>1 DEF AllRows
<1>3. q <= Len(AllRows)
  BY <1>0, <1>2
<1> DEFINE t == Slice(AllRows, r, q)
           V == Seq(Part)
<1>4. t \in Seq(V) /\ Len(t) = q - r /\ \A i \in 1 .. q - r : t[i] = AllRows[r + i]
  <2>1. AllRows \in Seq(V)
    BY <1>2
  <2> HIDE DEF V
  <2> QED BY <1>0, <1>3, <2>1, SliceParts
<1> HIDE DEF t
<1>5. \A i \in 1 .. q - r : r + i \in 1 .. NumRows
  BY <1>0
<1>6. \A i \in 1 .. q - r : t[i] = Bytes(r + i)
  BY <1>2, <1>4, <1>5
<1> QED BY <1>2, <1>4, <1>5, <1>6 DEF t

LEMMA NeededSum ==
  ASSUME NEW r \in 0 .. NumRows, NEW q \in 0 .. NumRows, r <= q, NEW k \in 0 .. q - r
  PROVE  /\ Needed(Slice(AllRows, r, q), k) = Off(r + k) - Off(r)
         /\ Off(r + k) - Off(r) \in Nat
<1> DEFINE rows == Slice(AllRows, r, q)
           s    == [i \in 1 .. k |-> Lobs[rows[i][1].row]]
           off  == [i \in 0 .. k |-> Off(r + i) - Off(r)]
<1>0. NumRows \in Nat /\ Parts \in Nat \ {0} /\ (\A i \in 1 .. NumRows : Lobs[i] \in Nat)
      /\ r \in Nat /\ k \in Nat
  BY StreamAssumption
<1>1. ASSUME NEW i \in 1 .. k
      PROVE  s[i] = Lobs[r + i] /\ s[i] \in Nat /\ r + i \in 1 .. NumRows
  <2>1. rows[i] = Bytes(r + i) /\ r + i \in 1 .. NumRows
    BY <1>0, RowsPlaced
  <2>2. rows[i][1].row = r + i
    BY <1>0, <2>1 DEF Bytes
  <2> QED BY <1>0, <2>1, <2>2
<1>2. s \in Seq(Nat) /\ Len(s) = k
  <2>1. s = [i \in 1 .. k |-> s[i]] /\ \A i \in 1 .. k : s[i] \in Nat
    BY <1>1
  <2> HIDE DEF s
  <2> QED BY <1>0, <2>1, SMTT(60)
<1>3. off[0] = 0 /\ off[k] = Off(r + k) - Off(r)
  BY <1>0, OffSteps
<1>4. ASSUME NEW i \in 1 .. k PROVE off[i] = off[i - 1] + s[i]
  <2>1. i - 1 \in 0 .. k /\ i \in 0 .. k /\ r + (i - 1) = (r + i) - 1
    BY <1>0
  <2>2. off[i] = Off(r + i) - Off(r) /\ off[i - 1] = Off((r + i) - 1) - Off(r)
    BY <2>1
  <2>3. r + i \in 1 .. NumRows /\ (r + i) - 1 \in 0 .. NumRows /\ s[i] = Lobs[r + i]
    BY <1>0, <1>1
  <2>4. /\ Off(r + i) = Off((r + i) - 1) + Lobs[r + i] /\ Off((r + i) - 1) \in Nat
        /\ Off(r) \in Nat /\ Lobs[r + i] \in Nat
    BY <1>0, <2>3, OffSteps
  <2> HIDE DEF off, s
  <2> QED BY <2>2, <2>3, <2>4
<1>5. Needed(rows, k) = FoldLeft(+, 0, s)
  BY DEF Needed
<1> HIDE DEF s, off
<1>6. FoldLeft(+, 0, s) = off[k]
  <2>1. off[0] = 0 /\ \A i \in 1 .. Len(s) : off[i] = off[i - 1] + s[i]
    BY <1>2, <1>3, <1>4
  <2>2. FoldLeft(+, 0, s) = off[Len(s)]
    BY <1>2, <2>1, SumRuns
  <2> QED BY <1>2, <2>2
<1>7. Off(r + k) - Off(r) \in Nat
  <2>1. r + k \in 0 .. NumRows /\ r <= r + k
    BY <1>0
  <2>2. Off(r) \in Nat /\ Off(r + k) \in Nat /\ Off(r) <= Off(r + k)
    BY <2>1, OffGrows
  <2> QED BY <2>2
<1> QED BY <1>3, <1>5, <1>6, <1>7

\* The rows released are among those that have come, and the large objects they
\* need are here; at the end of the query they are all.
LEMMA ReadyRows ==
  ASSUME NEW r \in 0 .. NumRows, NEW q \in 0 .. NumRows, r <= q,
         NEW exts, Len(exts) \in Nat, NEW final \in BOOLEAN,
         final => Off(q) - Off(r) <= Len(exts)
  PROVE  LET k == Ready(Slice(AllRows, r, q), exts, final) IN
         /\ k \in 0 .. q - r /\ Off(r + k) - Off(r) <= Len(exts)
         /\ final => k = q - r
<1> DEFINE rows == Slice(AllRows, r, q)
           n    == q - r
           k    == Ready(rows, exts, final)
           N(i) == Needed(rows, i)
<1>1. n \in Nat /\ Len(rows) = n /\ r + n = q
  BY StreamAssumption, RowsPlaced
<1>2. \A i \in 0 .. n : N(i) = Off(r + i) - Off(r) /\ N(i) \in Nat
  BY NeededSum
<1>3. N(0) = 0
  <2>1. r + 0 = r /\ 0 \in 0 .. n /\ Off(r) \in Nat
    BY <1>1, OffSteps
  <2> QED BY <1>2, <2>1
<1>4. CASE final
  <2>1. k = n
    BY <1>1, <1>4 DEF Ready
  <2> HIDE DEF k
  <2>2. k \in 0 .. q - r /\ k = q - r /\ r + k = q
    BY <1>1, <2>1
  <2> QED BY <1>4, <2>2 DEF k
<1>5. CASE ~ final
  <2> DEFINE Fits(i) == N(i) <= Len(exts) /\ (i = n \/ N(i + 1) > Len(exts))
             Full    == {i \in 0 .. n : i = n \/ N(i + 1) > Len(exts)}
  <2> HIDE DEF N
  <2>1. PICK i \in Full : \A j \in Full : i <= j
    <3>1. n \in Full /\ Full \subseteq Nat
      BY <1>1
    <3> HIDE DEF Full
    <3> QED BY <3>1, LeastOf
  <2>2. N(i) <= Len(exts)
    <3>1. CASE i = 0
      BY <1>3, <3>1
    <3>2. CASE i # 0
      <4>1. i - 1 \in 0 .. n /\ i - 1 # n /\ (i - 1) + 1 = i /\ i - 1 < i
        BY <1>1, <3>2
      <4>2. i - 1 \notin Full
        BY <2>1, <4>1
      <4>3. ~ (N(i) > Len(exts))
        BY <4>1, <4>2
      <4> QED BY <4>3, <1>2
    <3> QED BY <3>1, <3>2
  <2>3. \E j \in 0 .. n : Fits(j)
    BY <2>1, <2>2
  <2>4. k = CHOOSE j \in 0 .. n : Fits(j)
    BY <1>1, <1>5 DEF Ready, N
  <2> HIDE DEF k, Fits
  <2>5. k \in 0 .. n /\ Fits(k)
    BY <2>3, <2>4
  <2>6. N(k) <= Len(exts)
    BY <2>5 DEF Fits
  <2> QED BY <1>2, <1>5, <2>5, <2>6 DEF k
<1> QED BY <1>4, <1>5

\* Of the large objects that have come the first k rows use those they need.
LEMMA UsedLobs ==
  ASSUME NEW r \in 0 .. NumRows, NEW q \in 0 .. NumRows, r <= q, NEW k \in 0 .. q - r,
         NEW exts, Len(exts) \in Nat, Off(r + k) - Off(r) <= Len(exts)
  PROVE  /\ Used(Slice(AllRows, r, q), exts, k) = Off(r + k) - Off(r)
         /\ Off(r + k) - Off(r) \in Nat
<1>1. Needed(Slice(AllRows, r, q), k) = Off(r + k) - Off(r) /\ Off(r + k) - Off(r) \in Nat
  BY NeededSum
<1> QED BY <1>1 DEF Used

\* Bytes that begin with a row decode to the rows they hold, and what is left over
\* begins with the next one.
LEMMA DecodedRows ==
  ASSUME NEW g \in 0 .. NumRows * Parts, NEW h \in 0 .. NumRows * Parts, g <= h
  PROVE  LET bytes == Slice(AllBytes, (g \div Parts) * Parts, h) IN
         /\ Decoded(bytes) = Slice(AllRows, g \div Parts, h \div Parts)
         /\ Unconsumed(bytes) = Slice(AllBytes, (h \div Parts) * Parts, h)
<1> DEFINE q     == g \div Parts
           t     == h \div Parts
           a     == q * Parts
           bytes == Slice(AllBytes, a, h)
           k     == t - q
           b     == k * Parts
<1>0. NumRows \in Nat /\ Parts \in Nat \ {0} /\ NumRows * Parts \in Nat /\ h \in Nat
  BY StreamAssumption
<1>1. /\ q \in 0 .. NumRows /\ a \in 0 .. g
      /\ t \in 0 .. NumRows /\ t * Parts \in 0 .. h /\ h - t * Parts < Parts
  BY Complete
<1>2. k \in Nat /\ t = q + k
  <2>1. q <= t
    BY CompleteGrows
  <2> HIDE DEF q, t
  <2> QED BY <1>1, <2>1
<1>3. b \in Nat /\ t * Parts = a + b
  <2>1. q \in Nat
    BY <1>0, <1>1
  <2> HIDE DEF k, q, t
  <2> QED BY <1>0, <1>2, <2>1
<1>4. AllBytes \in Seq(Part) /\ Len(AllBytes) = NumRows * Parts
  BY BytesPlaced
<1> DEFINE d == h - a
<1>5. a \in Nat /\ a <= h /\ h <= Len(AllBytes) /\ d \in Nat /\ b <= d /\ d < b + Parts /\ a + d = h
  BY <1>0, <1>1, <1>3, <1>4
<1> HIDE DEF q, t, a, k
<1>6. bytes \in Seq(Part) /\ Len(bytes) = d
  BY <1>0, <1>4, <1>5, SliceParts
<1>7. Len(bytes) \div Parts = k
  <2> HIDE DEF d, bytes
  <2>1. d \div Parts = k
    BY <1>0, <1>2, <1>5, Quotient DEF b
  <2> QED BY <1>6, <2>1
<1>8. Unconsumed(bytes) = Slice(AllBytes, t * Parts, h)
  <2>1. Unconsumed(bytes) = Slice(bytes, b, d)
    <3> HIDE DEF bytes, d
    <3> QED BY <1>6, <1>7 DEF Unconsumed, Slice, b
  <2>2. Slice(Slice(AllBytes, a, h), b, d) = Slice(AllBytes, a + b, a + d)
    <3> HIDE DEF b
    <3> QED BY <1>0, <1>3, <1>4, <1>5, SliceOfSlice
  <2> QED BY <1>3, <1>5, <2>1, <2>2
<1>9. ASSUME NEW i \in 1 .. k
      PROVE  SubSeq(bytes, (i - 1) * Parts + 1, i * Parts) = Bytes(q + i)
  <2> DEFINE x == (i - 1) * Parts
             y == i * Parts
             r == q + i
  <2>1. i \in Nat /\ i - 1 \in Nat /\ k - i \in Nat /\ i <= k /\ r - 1 = q + (i - 1) /\ q \in Nat
    BY <1>0, <1>1, <1>2
  <2>2. x \in Nat /\ y \in Nat /\ y = x + Parts
    BY <1>0, <2>1
  <2>3. y <= b
    <3>1. b = y + (k - i) * Parts /\ (k - i) * Parts \in Nat
      <4> DEFINE j == k - i
      <4>1. j \in Nat /\ k = i + j
        BY <1>2, <2>1
      <4> HIDE DEF j
      <4>2. b = y + j * Parts /\ j * Parts \in Nat
        BY <1>0, <2>1, <4>1 DEF b
      <4> QED BY <4>2 DEF j
    <3> HIDE DEF y, b
    <3> QED BY <2>2, <3>1, <1>3
  <2>4. r * Parts = a + y /\ (r - 1) * Parts = a + x
    BY <1>0, <2>1 DEF a
  <2>5. r \in 1 .. NumRows
    BY <1>0, <1>1, <1>2, <2>1
  <2>6. Slice(AllBytes, (r - 1) * Parts, r * Parts) = Bytes(r)
    BY <2>5, BytesPlaced
  <2>7. Slice(Slice(AllBytes, a, h), x, y) = Slice(AllBytes, a + x, a + y)
    <3> HIDE DEF x, y, r
    <3>1. x <= y /\ y <= h - a
      BY <1>0, <1>3, <1>5, <2>2, <2>3 DEF d
    <3> QED BY <1>0, <1>4, <1>5, <2>2, <3>1, SliceOfSlice
  <2>8. SubSeq(bytes, x + 1, y) = Bytes(r)
    <3> HIDE DEF x, y, r
    <3> QED BY <2>4, <2>6, <2>7 DEF Slice
  <2> QED BY <2>8
<1>10. Decoded(bytes) = [i \in 1 .. k |-> Bytes(q + i)]
  <2> HIDE DEF bytes
  <2> QED BY <1>7, <1>9 DEF Decoded
<1>11. Slice(AllRows, q, t) = [i \in 1 .. k |-> Bytes(q + i)]
  <2> DEFINE rows == Slice(AllRows, q, t)
  <2>1. q <= t /\ t - q = k
    BY <1>0, <1>1, <1>2
  <2>2. rows \in Seq(Seq(Part)) /\ Len(rows) = k /\ \A i \in 1 .. k : rows[i] = Bytes(q + i)
    BY <1>1, <2>1, RowsPlaced
  <2> HIDE DEF rows
  <2>3. rows = [i \in 1 .. k |-> Bytes(q + i)]
    BY <1>2, <2>2
  <2> QED BY <2>3 DEF rows
<1> QED BY <1>8, <1>10, <1>11 DEF q, t, a

\* The result as pieces: each row released has its own bytes and large objects.
LEMMA StitchedRows ==
  ASSUME NEW r \in 0 .. NumRows, NEW q \in 0 .. NumRows, r <= q, NEW k \in 0 .. q - r,
         NEW l \in Nat, Off(r + k) <= l, l <= Off(NumRows)
  PROVE  /\ Stitched(Slice(AllRows, r, q), Slice(AllLobs, Off(r), l), k) = Slice(Result, r, r + k)
         /\ Result \in Seq(Row) /\ Len(Result) = NumRows
<1> DEFINE rows == Slice(AllRows, r, q)
           exts == Slice(AllLobs, Off(r), l)
           got  == Stitched(rows, exts, k)
           o    == Off(r)
<1>0. NumRows \in Nat /\ r \in Nat /\ k \in Nat /\ r + k \in 0 .. NumRows /\ r <= r + k
  BY StreamAssumption
<1>1. /\ AllLobs \in Seq(Lob) /\ Len(AllLobs) = Off(NumRows)
      /\ \A i \in 1 .. NumRows : Slice(AllLobs, Off(i - 1), Off(i)) = Values(i)
  BY LobsPlaced
<1>2. /\ Result \in Seq(Row) /\ Len(Result) = NumRows
      /\ \A i \in 1 .. NumRows : Result[i] = [bytes |-> Bytes(i), lobs |-> Values(i)]
  <2>1. \A i \in 1 .. NumRows : Bytes(i) \in Seq(Part) /\ Values(i) \in Seq(Lob)
    <3>1. \A i \in 1 .. NumRows : i \in Nat /\ Lobs[i] \in Nat
      BY <1>0, StreamAssumption
    <3>2. \A i \in 1 .. NumRows : Values(i) \in Seq(Lob)
      BY <3>1, SMTT(60) DEF Values, Lob
    <3> QED BY <3>2, BytesPlaced, SMTT(60)
  <2>2. \A i \in 1 .. NumRows : [bytes |-> Bytes(i), lobs |-> Values(i)] \in Row
    BY <2>1 DEF Row
  <2> QED BY <1>0, <2>2 DEF Result
<1>3. o \in Nat /\ Off(r + k) \in Nat /\ o <= Off(r + k) /\ o <= l /\ l <= Len(AllLobs)
  <2>1. o \in Nat /\ Off(r + k) \in Nat /\ o <= Off(r + k)
    BY <1>0, OffGrows
  <2> HIDE DEF o
  <2> QED BY <2>1, <1>1
<1>4. exts \in Seq(Lob) /\ Len(exts) = l - o /\ Len(exts) \in Nat
  <2>1. Slice(AllLobs, o, l) \in Seq(Lob) /\ Len(Slice(AllLobs, o, l)) = l - o
    <3> HIDE DEF o
    <3> QED BY <1>1, <1>3, SliceParts
  <2> QED BY <2>1, <1>3
<1>5. ASSUME NEW i \in 0 .. k
      PROVE  /\ Used(rows, exts, i) = Off(r + i) - o /\ Off(r + i) - o \in Nat
             /\ Off(r + i) \in Nat /\ Off(r + i) <= l /\ r + i \in 0 .. NumRows
  <2>1. r + i \in 0 .. NumRows /\ r + i <= r + k /\ i \in 0 .. q - r
    BY <1>0
  <2>2. Off(r + i) \in Nat /\ Off(r + i) <= Off(r + k)
    BY <1>0, <2>1, OffGrows
  <2>3. Off(r + i) <= l
    BY <2>2, <1>3
  <2>4. Off(r + i) - Off(r) <= Len(exts) /\ Len(exts) \in Nat
    BY <1>4, <1>3, <2>2, <2>3
  <2> HIDE DEF exts
  <2>5. Used(Slice(AllRows, r, q), exts, i) = Off(r + i) - Off(r) /\ Off(r + i) - Off(r) \in Nat
    BY <2>1, <2>4, UsedLobs
  <2> QED BY <2>1, <2>2, <2>3, <2>5
<1>6. ASSUME NEW i \in 1 .. k
      PROVE  got[i] = [bytes |-> Bytes(r + i), lobs |-> Values(r + i)]
  <2> DEFINE x == Off(r + (i - 1)) - o
             y == Off(r + i) - o
  <2>1. i - 1 \in 0 .. k /\ i \in 0 .. k /\ r + i \in 1 .. NumRows /\ r + (i - 1) = (r + i) - 1
    BY <1>0
  <2>2. /\ Used(rows, exts, i - 1) = x /\ Used(rows, exts, i) = y /\ x \in Nat /\ y \in Nat
        /\ Off(r + (i - 1)) \in Nat /\ Off(r + i) \in Nat /\ Off(r + i) <= l
    BY <2>1, <1>5
  <2>3. Off(r + (i - 1)) <= Off(r + i)
    <3>1. r + (i - 1) \in 0 .. NumRows /\ r + i \in 0 .. NumRows /\ r + (i - 1) <= r + i
      BY <1>0, <2>1
    <3> QED BY <3>1, OffGrows
  <2>4. o + x = Off(r + (i - 1)) /\ o + y = Off(r + i) /\ x <= y /\ y <= l - o /\ o <= l
    BY <1>3, <2>2, <2>3, SMTT(60)
  <2>5. Slice(Slice(AllLobs, o, l), x, y) = Slice(AllLobs, o + x, o + y)
    <3>1. x \in Nat /\ y \in Nat /\ x <= y /\ y <= l - o /\ o <= l /\ l <= Len(AllLobs) /\ o \in Nat
          /\ AllLobs \in Seq(Lob)
      BY <1>1, <1>3, <2>2, <2>4
    <3> HIDE DEF x, y, o
    <3> QED BY <3>1, SliceOfSlice
  <2>6. Slice(AllLobs, o + x, o + y) = Values(r + i)
    BY <1>1, <2>1, <2>4
  <2>7. rows[i] = Bytes(r + i)
    <3>1. i \in 1 .. q - r
      BY <1>0
    <3> QED BY <3>1, RowsPlaced
  <2>8. got[i] = [bytes |-> rows[i], lobs |-> SubSeq(exts, Used(rows, exts, i - 1) + 1, Used(rows, exts, i))]
    BY DEF Stitched
  <2>9. SubSeq(exts, x + 1, y) = Values(r + i)
    BY <2>5, <2>6 DEF Slice
  <2> HIDE DEF x, y, got, exts, rows
  <2> QED BY <2>2, <2>7, <2>8, <2>9
<1>7. got = [i \in 1 .. k |-> [bytes |-> Bytes(r + i), lobs |-> Values(r + i)]]
  <2>1. got = [i \in 1 .. k |-> got[i]]
    BY DEF Stitched
  <2> HIDE DEF got
  <2> QED BY <1>6, <2>1
<1> HIDE DEF got, rows, exts
<1> DEFINE b == r + k
<1>8. /\ b \in Nat /\ r <= b /\ b <= Len(Result) /\ b - r = k
      /\ \A i \in 1 .. k : r + i \in 1 .. NumRows
  BY <1>0, <1>2
<1>9. \A i \in 1 .. b - r : got[i] = Result[r + i]
  BY <1>2, <1>7, <1>8
<1>10. got \in Seq(Row) /\ Len(got) = b - r
  <2>1. \A i \in 1 .. k : [bytes |-> Bytes(r + i), lobs |-> Values(r + i)] \in Row
    <3>1. \A i \in 1 .. k : Result[r + i] \in Row
      BY <1>2, <1>8
    <3> QED BY <3>1, <1>2, <1>8
  <2>2. got = [i \in 1 .. k |-> got[i]] /\ \A i \in 1 .. k : got[i] \in Row
    BY <1>7, <2>1
  <2> HIDE DEF b
  <2>3. got \in Seq(Row) /\ Len(got) = k
    BY ONLY <1>0, <2>2
  <2> QED BY <2>3, <1>8
<1> HIDE DEF b
<1>11. got = Slice(Result, r, b)
  BY ONLY r \in Nat, <1>2, <1>0, <1>8, <1>9, <1>10, SliceEqual, ZenonT(60)
<1> QED BY <1>2, <1>11 DEF got, rows, exts, b

-----------------------------------------------------------------------------
\* g bytes and l large objects have been sent, r rows have been released to Rows:
\* what the server and the buffers of the client hold is told by these three.
InFlight(g, r, l) ==
  LET q == g \div Parts IN
  /\ g \in 0 .. NumRows * Parts /\ r \in 0 .. q
  /\ l \in Nat /\ Off(r) <= l /\ l <= Off(q)
  /\ rest = Slice(AllBytes, g, NumRows * Parts)
  /\ tailBuf = Slice(AllBytes, q * Parts, g)
  /\ pendingRows = Slice(AllRows, r, q)
  /\ pendingExt = Slice(AllLobs, Off(r), l)
  /\ owed = Slice(AllLobs, l, Off(q))

LEMMA Sizes ==
  ASSUME NEW g, NEW r, NEW l, InFlight(g, r, l)
  PROVE  /\ g \in Nat /\ g <= NumRows * Parts /\ r \in 0 .. NumRows
         /\ g \div Parts \in 0 .. NumRows /\ r <= g \div Parts
         /\ Off(r) \in Nat /\ Off(g \div Parts) \in Nat /\ Off(g \div Parts) <= Len(AllLobs)
         /\ rest \in Seq(Part) /\ Len(rest) = NumRows * Parts - g
         /\ Len(tailBuf) = g - (g \div Parts) * Parts /\ Len(tailBuf) < Parts
         /\ Len(pendingRows) = g \div Parts - r
         /\ Len(pendingExt) = l - Off(r)
         /\ owed \in Seq(Lob) /\ Len(owed) = Off(g \div Parts) - l
<1> DEFINE q == g \div Parts
           a == q * Parts
           z == NumRows * Parts
<1>0. NumRows \in Nat /\ Parts \in Nat /\ z \in Nat
  BY StreamAssumption
<1>1. g \in 0 .. z /\ r \in 0 .. q /\ l \in Nat /\ Off(r) <= l /\ l <= Off(q)
  BY DEF InFlight
<1>2. q \in 0 .. NumRows /\ a \in 0 .. g /\ g - a < Parts
  BY <1>1, Complete
<1>3. /\ AllBytes \in Seq(Part) /\ Len(AllBytes) = z
      /\ AllLobs \in Seq(Lob) /\ Len(AllLobs) = Off(NumRows)
  BY BytesPlaced, LobsPlaced
<1>4. /\ rest = Slice(AllBytes, g, z) /\ tailBuf = Slice(AllBytes, a, g)
      /\ pendingRows = Slice(AllRows, r, q) /\ pendingExt = Slice(AllLobs, Off(r), l)
      /\ owed = Slice(AllLobs, l, Off(q))
  BY DEF InFlight
<1> HIDE DEF q, a, z
<1>5. r \in 0 .. NumRows /\ r <= q /\ g \in Nat /\ a \in Nat /\ a <= g /\ g <= z
  BY <1>0, <1>1, <1>2
<1>6. Off(r) \in Nat /\ Off(q) \in Nat /\ Off(q) <= Len(AllLobs)
  BY <1>2, <1>3, <1>5, OffGrows
<1>7. rest \in Seq(Part) /\ Len(rest) = z - g
  <2>1. AllBytes \in Seq(Part) /\ g \in Nat /\ z \in Nat /\ g <= z /\ z <= Len(AllBytes)
    BY <1>0, <1>3, <1>5
  <2>2. Slice(AllBytes, g, z) \in Seq(Part) /\ Len(Slice(AllBytes, g, z)) = z - g
    BY ONLY <2>1, SliceParts
  <2> QED BY <1>4, <2>2
<1>8. Len(tailBuf) = g - a
  <2>1. g <= Len(AllBytes)
    BY <1>0, <1>3, <1>5
  <2> QED BY <1>3, <1>4, <1>5, <2>1, SliceParts
<1>9. Len(pendingRows) = q - r
  BY <1>2, <1>4, <1>5, RowsPlaced
<1>10. Len(pendingExt) = l - Off(r)
  <2> DEFINE o == Off(r)
  <2>1. o \in Nat /\ o <= l /\ l <= Len(AllLobs) /\ l \in Nat
    BY <1>1, <1>3, <1>6
  <2> HIDE DEF o
  <2>2. Len(Slice(AllLobs, o, l)) = l - o
    BY <1>3, <2>1, SliceParts
  <2> QED BY <1>4, <2>2 DEF o
<1>11. owed \in Seq(Lob) /\ Len(owed) = Off(q) - l
  <2> DEFINE o == Off(q)
  <2>1. o \in Nat /\ l <= o /\ o <= Len(AllLobs) /\ l \in Nat
    BY <1>1, <1>6
  <2> HIDE DEF o
  <2>2. Slice(AllLobs, l, o) \in Seq(Lob) /\ Len(Slice(AllLobs, l, o)) = o - l
    BY <1>3, <2>1, SliceParts
  <2> QED BY <1>4, <2>2 DEF o
<1> QED BY <1>2, <1>5, <1>6, <1>7, <1>8, <1>9, <1>10, <1>11 DEF q, a, z

\* The bytes of a chain carry on where the last ones ended, ...
LEMMA ChainBytes ==
  ASSUME NEW g, NEW r, NEW l, InFlight(g, r, l), NEW n \in 0 .. Len(rest)
  PROVE  /\ g + n \in 0 .. NumRows * Parts
         /\ tailBuf \o SubSeq(rest, 1, n) = Slice(AllBytes, (g \div Parts) * Parts, g + n)
         /\ SubSeq(rest, n + 1, Len(rest)) = Slice(AllBytes, g + n, NumRows * Parts)
         /\ n = Len(rest) <=> g + n = NumRows * Parts
<1> DEFINE a == (g \div Parts) * Parts
           z == NumRows * Parts
           h == g + n
           d == z - g
<1>0. NumRows \in Nat /\ Parts \in Nat /\ z \in Nat
  BY StreamAssumption
<1>1. g \in Nat /\ g <= z /\ Len(rest) = d
  BY Sizes
<1>2. a \in Nat /\ a <= g
  <2>1. g \in 0 .. z
    BY <1>0, <1>1
  <2>2. a \in 0 .. g
    BY <2>1, Complete
  <2> QED BY <1>1, <2>2
<1>3. AllBytes \in Seq(Part) /\ Len(AllBytes) = z
  BY BytesPlaced
<1>4. n \in Nat /\ h \in Nat /\ g <= h /\ h <= z /\ n <= d /\ d \in Nat /\ g + d = z
  BY <1>0, <1>1
<1>5. rest = Slice(AllBytes, g, z) /\ tailBuf = Slice(AllBytes, a, g)
  BY DEF InFlight
<1> HIDE DEF a, z
<1>6. SubSeq(rest, 1, n) = Slice(AllBytes, g, h)
  <2>1. Slice(Slice(AllBytes, g, z), 0, n) = Slice(AllBytes, g + 0, g + n)
    <3>1. 0 \in Nat /\ 0 <= n /\ n <= z - g /\ z <= Len(AllBytes)
      BY <1>0, <1>3, <1>4
    <3> QED BY <1>0, <1>1, <1>3, <1>4, <3>1, SliceOfSlice
  <2>2. g + 0 = g /\ 0 + 1 = 1
    BY <1>1
  <2> QED BY <1>5, <2>1, <2>2 DEF Slice
<1>7. Slice(AllBytes, a, g) \o Slice(AllBytes, g, h) = Slice(AllBytes, a, h)
  <2> HIDE DEF h
  <2>1. h <= Len(AllBytes)
    BY <1>3, <1>4
  <2> QED BY <1>1, <1>2, <1>3, <1>4, <2>1, SliceJoin, SMTT(60)
<1>8. Slice(Slice(AllBytes, g, z), n, d) = Slice(AllBytes, g + n, g + d)
  <2>1. n <= d /\ d <= z - g /\ z <= Len(AllBytes) /\ d \in Nat
    BY <1>0, <1>3, <1>4
  <2> HIDE DEF d
  <2> QED BY <1>0, <1>1, <1>3, <1>4, <2>1, SliceOfSlice
<1>9. SubSeq(rest, n + 1, Len(rest)) = Slice(AllBytes, h, z)
  <2> HIDE DEF d
  <2> QED BY <1>1, <1>4, <1>5, <1>8 DEF Slice
<1>10. n = Len(rest) <=> h = z
  BY <1>0, <1>1, <1>4
<1> QED BY <1>0, <1>4, <1>5, <1>6, <1>7, <1>9, <1>10, SMTT(60) DEF a, z

\* ... and so do the large objects.
LEMMA ChainLobs ==
  ASSUME NEW g, NEW r, NEW l, InFlight(g, r, l), NEW n \in 0 .. Len(rest),
         NEW m \in Nat, m <= Len(Owed(n))
  PROVE  LET q == (g + n) \div Parts IN
         /\ l + m <= Off(q) /\ Off(q) <= Off(NumRows)
         /\ pendingExt \o SubSeq(Owed(n), 1, m) = Slice(AllLobs, Off(r), l + m)
         /\ SubSeq(Owed(n), m + 1, Len(Owed(n))) = Slice(AllLobs, l + m, Off(q))
         /\ m = Len(Owed(n)) => l + m = Off(q)
<1> DEFINE p == g \div Parts
           q == (g + n) \div Parts
           x == Off(p)
           y == Off(q)
           o == Off(r)
           d == y - l
           k == l + m
           next == [i \in 1 .. n |-> IF rest[i].part = Parts THEN Values(rest[i].row) ELSE <<>>]
           coming == [i \in 1 .. n |-> IF AllBytes[g + i].part = Parts
                                       THEN Values(AllBytes[g + i].row) ELSE <<>>]
<1>0. NumRows \in Nat /\ Parts \in Nat /\ NumRows * Parts \in Nat
  BY StreamAssumption
<1>1. /\ g \in Nat /\ g <= NumRows * Parts /\ r \in 0 .. NumRows /\ p \in 0 .. NumRows /\ r <= p
      /\ o \in Nat /\ x \in Nat /\ Len(rest) = NumRows * Parts - g
  BY Sizes
<1>2. l \in Nat /\ o <= l /\ l <= x
  BY DEF InFlight
<1>3. g + n \in 0 .. NumRows * Parts /\ n \in Nat /\ g <= g + n /\ g \in 0 .. NumRows * Parts
  BY <1>0, <1>1
<1>4. q \in 0 .. NumRows /\ p <= q
  BY <1>3, Complete, CompleteGrows
<1>5. y \in Nat /\ x <= y /\ y <= Off(NumRows)
  BY <1>1, <1>4, OffGrows
<1>6. AllLobs \in Seq(Lob) /\ Len(AllLobs) = Off(NumRows)
  BY LobsPlaced
<1>7. next = coming
  <2> DEFINE z == NumRows * Parts
  <2>1. AllBytes \in Seq(Part) /\ z \in Nat /\ z <= Len(AllBytes) /\ g <= z
    BY <1>0, <1>1, BytesPlaced
  <2>2. rest = Slice(AllBytes, g, z)
    BY DEF InFlight
  <2>3. \A i \in 1 .. n : i \in 1 .. z - g
    BY <1>1
  <2> HIDE DEF z
  <2>4. \A i \in 1 .. n : rest[i] = AllBytes[g + i]
    BY <1>1, <2>1, <2>2, <2>3, SliceParts, ZenonT(60)
  <2> QED BY <2>4
<1>8. FlattenSeq(next) = Slice(AllLobs, x, y)
  <2>0. g \in Nat /\ n \in Nat /\ g + n <= NumRows * Parts
    BY <1>0, <1>1, <1>3
  <2>1. FlattenSeq(coming) = Slice(AllLobs, x, y)
    BY <2>0, OwedJoins, Zenon
  <2> HIDE DEF next, coming, x, y
  <2> QED BY <1>7, <2>1
<1>9. Owed(n) = owed \o FlattenSeq(next)
  BY DEF Owed
<1>10. owed = Slice(AllLobs, l, x) /\ pendingExt = Slice(AllLobs, o, l)
  BY DEF InFlight
<1> HIDE DEF p, q, x, y, o, next, coming
<1>11. Owed(n) = Slice(AllLobs, l, y)
  <2>1. x <= y /\ y <= Len(AllLobs) /\ y \in Nat /\ x \in Nat
    BY <1>1, <1>5, <1>6
  <2>2. Slice(AllLobs, l, x) \o Slice(AllLobs, x, y) = Slice(AllLobs, l, y)
    BY ONLY <2>1, <1>2, <1>6, SliceJoin
  <2> QED BY <1>8, <1>9, <1>10, <2>2
<1>12. d \in Nat /\ l <= y /\ y <= Len(AllLobs)
  BY <1>1, <1>2, <1>5, <1>6
<1>13. Owed(n) \in Seq(Lob) /\ Len(Owed(n)) = d
  <2>1. Slice(AllLobs, l, y) \in Seq(Lob) /\ Len(Slice(AllLobs, l, y)) = y - l
    BY ONLY <1>2, <1>5, <1>6, <1>12, SliceParts
  <2> QED BY <1>11, <2>1
<1>14. m <= d /\ k \in Nat /\ k <= y /\ l <= k /\ l + d = y /\ (m = d => k = y) /\ k <= Len(AllLobs)
  BY <1>1, <1>2, <1>5, <1>12, <1>13
<1>15. SubSeq(Owed(n), 1, m) = Slice(AllLobs, l, k)
  <2>1. 0 \in Nat /\ 0 <= m /\ m <= y - l
    BY <1>14
  <2>2. Slice(Slice(AllLobs, l, y), 0, m) = Slice(AllLobs, l + 0, l + m)
    BY <1>2, <1>5, <1>6, <1>12, <2>1, SliceOfSlice
  <2>3. l + 0 = l /\ 0 + 1 = 1
    BY <1>2
  <2> QED BY <1>11, <2>2, <2>3 DEF Slice
<1>16. SubSeq(Owed(n), m + 1, Len(Owed(n))) = Slice(AllLobs, k, y)
  <2>1. m <= d /\ d <= y - l /\ d \in Nat
    BY <1>14, <1>12
  <2>3. Len(Owed(n)) = d /\ l + d = y
    BY <1>13, <1>14
  <2> HIDE DEF d
  <2>2. Slice(Slice(AllLobs, l, y), m, d) = Slice(AllLobs, l + m, l + d)
    BY <1>2, <1>5, <1>6, <1>12, <2>1, SliceOfSlice
  <2> QED BY <1>11, <2>2, <2>3 DEF Slice
<1>17. Slice(AllLobs, o, l) \o Slice(AllLobs, l, k) = Slice(AllLobs, o, k)
  <2>1. o \in Nat /\ l \in Nat /\ k \in Nat /\ o <= l /\ l <= k /\ k <= Len(AllLobs)
    BY <1>1, <1>2, <1>14
  <2> HIDE DEF k
  <2> QED BY <1>6, <2>1, SliceJoin
<1>18. k <= y /\ y <= Off(NumRows) /\ (m = Len(Owed(n)) => k = y)
  BY <1>5, <1>13, <1>14
<1> QED BY <1>10, <1>15, <1>16, <1>17, <1>18 DEF q, y, o

\* A chain is taken: the three counts go up, and the new batch holds the rows of the
\* result between the last one released before and the last one released now.
Taken(g, r, l, n, m, k) ==
  /\ InFlight(g + n, r + k, l + m)' /\ r + k <= NumRows
  /\ data' = Slice(Result, r, r + k)
  /\ ended' => g + n = NumRows * Parts /\ r + k = NumRows

LEMMA ChainTaken ==
  ASSUME NEW g, NEW r, NEW l, InFlight(g, r, l), NEW n \in 0 .. Len(rest), NEW m \in Nat,
         NEW end \in BOOLEAN, Sends(n, m, end), Take(n, m, end)
  PROVE  \E k \in Nat : Taken(g, r, l, n, m, k)
<1> DEFINE p     == g \div Parts
           q     == (g + n) \div Parts
           h     == g + n
           i     == l + m
           bytes == tailBuf \o SubSeq(rest, 1, n)
           rows  == pendingRows \o Decoded(bytes)
           exts  == pendingExt \o SubSeq(Owed(n), 1, m)
           ready == Ready(rows, exts, ended')
           used  == Used(rows, exts, ready)
<1>0. NumRows \in Nat /\ Parts \in Nat /\ NumRows * Parts \in Nat
  BY StreamAssumption
<1>1. /\ m <= Len(Owed(n)) /\ (end => n = Len(rest) /\ m = Len(Owed(n)))
      /\ rest' = SubSeq(rest, n + 1, Len(rest))
      /\ owed' = SubSeq(Owed(n), m + 1, Len(Owed(n)))
  BY DEF Sends
<1>2. /\ ended' = end /\ data' = Stitched(rows, exts, ready)
      /\ tailBuf' = Unconsumed(bytes)
      /\ pendingRows' = SubSeq(rows, ready + 1, Len(rows))
      /\ pendingExt' = SubSeq(exts, used + 1, Len(exts))
  BY DEF Take, EndSeen
<1>3. /\ h \in 0 .. NumRows * Parts
      /\ bytes = Slice(AllBytes, p * Parts, h)
      /\ SubSeq(rest, n + 1, Len(rest)) = Slice(AllBytes, h, NumRows * Parts)
      /\ n = Len(rest) <=> h = NumRows * Parts
  BY ChainBytes
<1>4. /\ i <= Off(q) /\ Off(q) <= Off(NumRows)
      /\ exts = Slice(AllLobs, Off(r), i)
      /\ SubSeq(Owed(n), m + 1, Len(Owed(n))) = Slice(AllLobs, i, Off(q))
      /\ m = Len(Owed(n)) => i = Off(q)
  BY <1>1, ChainLobs
<1>5. /\ g \in 0 .. NumRows * Parts /\ g <= h /\ r \in 0 .. NumRows /\ p \in 0 .. NumRows
      /\ r <= p /\ Off(r) \in Nat /\ q = h \div Parts
  <2>1. /\ g \in Nat /\ g <= NumRows * Parts /\ r \in 0 .. NumRows /\ p \in 0 .. NumRows
        /\ r <= p /\ Off(r) \in Nat
    BY Sizes
  <2> QED BY <1>0, <2>1
<1>6. q \in 0 .. NumRows /\ p <= q /\ r <= q /\ (h = NumRows * Parts => q = NumRows)
  <2> HIDE DEF h
  <2>1. q \in 0 .. NumRows /\ p <= q /\ (h = NumRows * Parts => q = NumRows)
    BY <1>3, <1>5, Complete, CompleteGrows
  <2> HIDE DEF p, q
  <2> QED BY <1>0, <1>5, <2>1
<1>7. pendingRows = Slice(AllRows, r, p) /\ l \in Nat /\ Off(r) <= l
  BY DEF InFlight
<1>8. i \in Nat /\ Off(r) <= i
  BY <1>5, <1>7
<1>9. /\ AllRows \in Seq(Seq(Part)) /\ Len(AllRows) = NumRows
      /\ AllLobs \in Seq(Lob) /\ Len(AllLobs) = Off(NumRows)
      /\ Off(q) \in Nat
  BY <1>5, <1>6, RowsPlaced, LobsPlaced, OffSteps
<1>10. Decoded(bytes) = Slice(AllRows, p, q) /\ Unconsumed(bytes) = Slice(AllBytes, q * Parts, h)
  <2> HIDE DEF bytes, h
  <2> QED BY <1>3, <1>5, DecodedRows
<1> HIDE DEF p, q, h, i, bytes
<1>11. rows = Slice(AllRows, r, q)
  <2> DEFINE V == Seq(Part)
  <2>1. AllRows \in Seq(V) /\ r \in Nat /\ p \in Nat /\ q \in Nat /\ r <= p /\ p <= q /\ q <= Len(AllRows)
    BY <1>0, <1>5, <1>6, <1>9
  <2> HIDE DEF V
  <2>2. Slice(AllRows, r, p) \o Slice(AllRows, p, q) = Slice(AllRows, r, q)
    BY <2>1, SliceJoin, ZenonT(60)
  <2> QED BY <1>7, <1>10, <2>2
<1> DEFINE o == Off(r)
<1>12. Len(exts) = i - o /\ Len(exts) \in Nat /\ i <= Len(AllLobs)
  <2>1. o \in Nat /\ i \in Nat /\ o <= i /\ i <= Len(AllLobs) /\ AllLobs \in Seq(Lob)
    BY <1>4, <1>5, <1>8, <1>9
  <2> HIDE DEF o
  <2>2. Len(Slice(AllLobs, o, i)) = i - o
    BY <2>1, SliceParts
  <2>3. exts = Slice(AllLobs, o, i)
    BY <1>4 DEF o
  <2> HIDE DEF exts
  <2>4. Len(exts) = i - o /\ i - o \in Nat
    BY <2>1, <2>2, <2>3
  <2> QED BY <2>1, <2>4
<1> HIDE DEF exts, rows
<1>13. ended' \in BOOLEAN /\ (ended' => Off(q) - Off(r) <= Len(exts))
  <2>1. ended' => i = Off(q)
    BY <1>1, <1>2, <1>4
  <2> QED BY <1>2, <1>9, <1>5, <1>12, <2>1
<1>24. ready \in 0 .. q - r /\ Off(r + ready) - Off(r) <= Len(exts) /\ (ended' => ready = q - r)
  <2> DEFINE final == ended'
  <2>1. final \in BOOLEAN /\ (final => Off(q) - Off(r) <= Len(exts))
    BY <1>13
  <2> HIDE DEF final
  <2>2. LET j == Ready(Slice(AllRows, r, q), exts, final) IN
        /\ j \in 0 .. q - r /\ Off(r + j) - Off(r) <= Len(exts) /\ (final => j = q - r)
    BY <1>5, <1>6, <1>12, <2>1, ReadyRows
  <2> QED BY <1>11, <2>2 DEF final
<1> HIDE DEF ready
<1>25. PICK k \in 0 .. q - r : k = ready
  BY <1>24
<1>14. Off(r + k) - Off(r) <= Len(exts) /\ (ended' => k = q - r)
  BY <1>24, <1>25
<1> DEFINE b == r + k
<1>15. k \in Nat /\ b \in 0 .. NumRows /\ b <= q /\ r <= b /\ r \in Nat /\ q \in Nat
  BY <1>0, <1>5, <1>6, <1>14, SMTT(60)
<1>16. used = Off(b) - o /\ used \in Nat
  <2>1. Used(Slice(AllRows, r, q), exts, k) = Off(r + k) - Off(r) /\ Off(r + k) - Off(r) \in Nat
    BY <1>5, <1>6, <1>12, <1>14, UsedLobs
  <2> QED BY <1>11, <1>25, <2>1
<1>17. Off(b) \in Nat /\ Off(b) <= i /\ o <= Off(b)
  <2>1. Off(b) \in Nat /\ o <= Off(b)
    BY <1>5, <1>15, OffGrows
  <2>2. Off(b) - o <= i - o
    BY <1>12, <1>14
  <2> QED BY <1>5, <1>8, <2>1, <2>2
<1>18. data' = Slice(Result, r, b)
  <2>1. i <= Off(NumRows)
    BY <1>9, <1>12
  <2>2. Stitched(Slice(AllRows, r, q), Slice(AllLobs, Off(r), i), k) = Slice(Result, r, r + k)
    BY <1>5, <1>6, <1>8, <1>14, <1>17, <2>1, StitchedRows, SMTT(60)
  <2> QED BY <1>2, <1>4, <1>11, <1>25, <2>2
<1>19. pendingRows' = Slice(AllRows, b, q)
  <2> DEFINE V == Seq(Part)
             d == q - r
  <2>1. /\ AllRows \in Seq(V) /\ d \in Nat /\ k <= d /\ r <= q /\ q <= Len(AllRows)
        /\ r + d = q /\ d <= q - r
    BY <1>0, <1>6, <1>9, <1>14, <1>15
  <2>2. Len(rows) = d
    BY <1>5, <1>6, <1>11, RowsPlaced
  <2> HIDE DEF V, d
  <2>3. Slice(Slice(AllRows, r, q), k, d) = Slice(AllRows, r + k, r + d)
    BY <1>15, <2>1, SliceOfSlice
  <2> QED BY <1>2, <1>11, <1>25, <2>1, <2>2, <2>3 DEF Slice
<1>20. pendingExt' = Slice(AllLobs, Off(b), i)
  <2> DEFINE d == i - o
             u == Off(b) - o
  <2>1. /\ o \in Nat /\ i \in Nat /\ u \in Nat /\ d \in Nat /\ u <= d /\ o <= i /\ i <= Len(AllLobs)
        /\ d <= i - o /\ o + u = Off(b) /\ o + d = i
    BY <1>5, <1>8, <1>12, <1>17, SMTT(60)
  <2>2. Len(exts) = d /\ used = u /\ exts = Slice(AllLobs, o, i)
    BY <1>4, <1>12, <1>16
  <2> HIDE DEF o, d, u, used
  <2>3. Slice(Slice(AllLobs, o, i), u, d) = Slice(AllLobs, o + u, o + d)
    BY <1>9, <2>1, SliceOfSlice, SMTT(60)
  <2> QED BY <1>2, <2>1, <2>2, <2>3 DEF Slice
<1>21. InFlight(h, b, i)'
  <2>1. /\ h \in 0 .. NumRows * Parts /\ b \in 0 .. q /\ i \in Nat /\ Off(b) <= i /\ i <= Off(q)
    BY <1>3, <1>4, <1>8, <1>15, <1>17
  <2>2. /\ rest' = Slice(AllBytes, h, NumRows * Parts)
        /\ tailBuf' = Slice(AllBytes, q * Parts, h)
        /\ owed' = Slice(AllLobs, i, Off(q))
    BY <1>1, <1>2, <1>3, <1>4, <1>10
  <2>3. q = h \div Parts
    BY <1>5
  <2>4. pendingRows' = Slice(AllRows, b, q) /\ pendingExt' = Slice(AllLobs, Off(b), i)
    BY <1>19, <1>20
  <2> SUFFICES /\ h \in 0 .. NumRows * Parts /\ b \in 0 .. h \div Parts
               /\ i \in Nat /\ Off(b) <= i /\ i <= Off(h \div Parts)
               /\ rest' = Slice(AllBytes, h, NumRows * Parts)
               /\ tailBuf' = Slice(AllBytes, (h \div Parts) * Parts, h)
               /\ pendingRows' = Slice(AllRows, b, h \div Parts)
               /\ pendingExt' = Slice(AllLobs, Off(b), i)
               /\ owed' = Slice(AllLobs, i, Off(h \div Parts))
    BY DEF InFlight
  <2> HIDE DEF b
  <2> QED BY <2>1, <2>2, <2>3, <2>4
<1>22. b <= NumRows
  BY <1>0, <1>15
<1>23. ended' => h = NumRows * Parts /\ b = NumRows
  <2> SUFFICES ASSUME ended' PROVE h = NumRows * Parts /\ b = NumRows
    OBVIOUS
  <2>1. h = NumRows * Parts
    BY <1>1, <1>2, <1>3
  <2> QED BY <2>1, <1>6, <1>14, <1>15
<1> QED BY <1>15, <1>18, <1>21, <1>22, <1>23 DEF h, i, Taken

-----------------------------------------------------------------------------
\* What the client believes of the cursor is true: a query it takes for ended is,
\* one it reads from is open, and what it has committed has ended.
StreamInv ==
  /\ cursor \in {"none", "open", "closed"}
  /\ ended \in BOOLEAN /\ committed \in BOOLEAN
  /\ autoCommit \in BOOLEAN /\ broken \in BOOLEAN
  /\ at \in {"opening", "first", "held", "fetching", "refused", "failed", "eof", "closed"}
  /\ ended => cursor = "closed"
  /\ committed => ended
  /\ at = "opening" => ~ ended
  /\ at \in {"first", "held", "fetching"} /\ ~ ended /\ ~ broken => cursor = "open"
  /\ at = "closed" => ended \/ broken

-----------------------------------------------------------------------------
\* A chain is taken: the cursor, the end mark and the commit change together.
LEMMA ChainInv ==
  ASSUME StreamInv, NEW n, NEW m, NEW end \in BOOLEAN,
         Sends(n, m, end), Take(n, m, end), CommitsAtEnd, ~ ended, ~ broken,
         at' \in {"first", "held", "fetching"},
         UNCHANGED <<autoCommit, broken>>
  PROVE  StreamInv'
<1>1. cursor' = (IF end THEN "closed" ELSE "open") /\ ended' = end
  BY DEF Sends, Take, EndSeen
<1>2. ~ committed
  BY DEF StreamInv
<1>3. committed' \in BOOLEAN /\ (committed' => ended')
  BY <1>2 DEF CommitsAtEnd
<1> QED BY <1>1, <1>3 DEF StreamInv

LEMMA OpenInv ==
  ASSUME StreamInv, NEW n, NEW m, NEW end \in BOOLEAN, Open(n, m, end)
  PROVE  StreamInv'
<1>1. ~ ended
  BY DEF Open, StreamInv
<1> QED BY <1>1, ChainInv DEF Open

LEMMA FetchInv ==
  ASSUME StreamInv, NEW n, NEW m, NEW end \in BOOLEAN, Fetch(n, m, end)
  PROVE  StreamInv'
<1>1. at' \in {"first", "held", "fetching"}
  BY DEF Fetch
<1> QED BY <1>1, ChainInv DEF Fetch

\* The commit that was not made with the last chain is made at the end.
LEMMA FetchEndInv ==
  ASSUME StreamInv, FetchEnd
  PROVE  StreamInv'
<1>1. /\ at \in {"first", "fetching"} /\ ended
      /\ UNCHANGED <<cursor, ended, autoCommit, broken>>
      /\ at' \in {"held", "eof"}
  BY DEF FetchEnd, serverVars
<1>2. committed' \in BOOLEAN
  BY DEF FetchEnd, CommitsAtEnd, StreamInv
<1> QED BY <1>1, <1>2 DEF StreamInv

\* A request that fails leaves the stream to Close, or returns none.
LEMMA ErrorInv ==
  ASSUME StreamInv, NEW after \in {"none", "open", "closed"}, NEW noted \in BOOLEAN,
         ServerError(after, noted) \/ RequestFails
  PROVE  StreamInv'
<1>1. /\ at' \in {"failed", "refused"}
      /\ ~ ended /\ UNCHANGED <<committed, autoCommit, broken>>
  BY DEF ServerError, RequestFails, Fails
<1>2. \/ cursor' = after /\ ended' = noted /\ (noted => after = "closed")
      \/ UNCHANGED <<cursor, ended>>
  BY DEF ServerError, RequestFails, serverVars
<1> QED BY <1>1, <1>2 DEF StreamInv

\* Rows.Close ends the query, finds it ended, or leaves the session broken.
LEMMA CloseInv ==
  ASSUME StreamInv, NEW answered \in BOOLEAN, Close(answered)
  PROVE  StreamInv'
<1>1. at' = "closed" /\ UNCHANGED autoCommit
  BY DEF Close
<1>2. CASE ended \/ broken
  <2>1. /\ committed' = (committed \/ (autoCommit /\ ~ broken))
        /\ UNCHANGED <<cursor, ended, broken>>
    BY <1>2 DEF Close
  <2>2. committed' \in BOOLEAN /\ (committed' => ended')
    BY <1>2, <2>1 DEF StreamInv
  <2> QED BY <1>1, <1>2, <2>1, <2>2 DEF StreamInv
<1>3. CASE ~ (ended \/ broken)
  <2>0. CloseCursor(answered)
    BY <1>3 DEF Close
  <2>1. CASE answered
    <3>1. /\ cursor' = "closed" /\ ended' = TRUE /\ UNCHANGED broken
          /\ committed' = (committed \/ autoCommit)
      BY <2>0, <2>1 DEF CloseCursor
    <3>2. committed' \in BOOLEAN
      BY <3>1 DEF StreamInv
    <3> QED BY <1>1, <3>1, <3>2 DEF StreamInv
  <2>2. CASE ~ answered
    BY <1>1, <1>3, <2>0, <2>2 DEF CloseCursor, StreamInv
  <2> QED BY <2>1, <2>2
<1> QED BY <1>2, <1>3

\* What the application and the network do between two requests.
LEMMA BetweenInv ==
  ASSUME StreamInv, NextRow \/ NextBatch \/ SwitchMode \/ Break
  PROVE  StreamInv'
<1>1. UNCHANGED <<cursor, ended, committed>>
  BY DEF NextRow, NextBatch, SwitchMode, Break, serverVars
<1>2. CASE NextRow
  BY <1>1, <1>2 DEF NextRow, StreamInv
<1>3. CASE NextBatch
  BY <1>1, <1>3 DEF NextBatch, StreamInv
<1>4. CASE SwitchMode
  BY <1>1, <1>4 DEF SwitchMode, StreamInv
<1>5. CASE Break
  BY <1>1, <1>5 DEF Break, StreamInv
<1> QED BY <1>2, <1>3, <1>4, <1>5

LEMMA StreamStepInv ==
  ASSUME StreamInv, [StreamNext]_vars
  PROVE  StreamInv'
<1>1. CASE UNCHANGED vars
  BY <1>1 DEF StreamInv, vars, serverVars
<1>2. ASSUME NEW n \in 0 .. Len(rest), NEW m \in 0 .. Len(Owed(Len(rest))),
             NEW end \in BOOLEAN, Open(n, m, end) \/ Fetch(n, m, end)
      PROVE  StreamInv'
  BY <1>2, OpenInv, FetchInv
<1>3. ASSUME NEW after \in {"none", "open", "closed"}, NEW noted \in BOOLEAN,
             ServerError(after, noted)
      PROVE  StreamInv'
  BY <1>3, ErrorInv
<1>4. ASSUME NEW answered \in BOOLEAN, Close(answered)
      PROVE  StreamInv'
  BY <1>4, CloseInv
<1>5. CASE FetchEnd
  BY <1>5, FetchEndInv
<1>6. CASE RequestFails
  BY <1>6, ErrorInv
<1>7. CASE NextRow \/ NextBatch \/ SwitchMode \/ Break
  BY <1>7, BetweenInv
<1> QED BY <1>1, <1>2, <1>3, <1>4, <1>5, <1>6, <1>7 DEF StreamNext

-----------------------------------------------------------------------------
\* Of the r rows released, Rows works on those behind the first b; what it has
\* handed out are the first of the result.
HandedOver(r, b) ==
  /\ b \in 0 .. r /\ pos \in 0 .. r - b
  /\ data = Slice(Result, b, r) /\ delivered = Slice(Result, 0, b + pos)

\* A batch is used up when the next one is asked for, and nothing is on its way when
\* the query has ended and no error has cut it short.
Stage(g, r, b) ==
  /\ at \in {"opening", "first"} => b = r /\ pos = 0
  /\ at \in {"fetching", "eof"} => b + pos = r
  /\ at = "eof" => ended
  /\ ended /\ at \notin {"failed", "refused"} => g = NumRows * Parts /\ r = NumRows

Placed ==
  \E g \in Nat, r \in 0 .. NumRows, l \in Nat, b \in Nat :
    InFlight(g, r, l) /\ HandedOver(r, b) /\ Stage(g, r, b)

\* Until Rows is closed the rows lie between the server and the application without
\* a gap; then the buffers are empty.
PlaceInv ==
  /\ at # "closed" => Placed
  /\ at = "closed" => tailBuf = <<>> /\ pendingRows = <<>> /\ pendingExt = <<>>
  /\ pos \in 0 .. Len(data) /\ Len(delivered) <= NumRows

-----------------------------------------------------------------------------
LEMMA ResultIs == Result \in Seq(Row) /\ Len(Result) = NumRows
<1>1. 0 \in 0 .. NumRows /\ 0 \in 0 .. 0 - 0 /\ 0 <= 0 /\ 0 + 0 = 0 /\ NumRows \in Nat
  BY StreamAssumption
<1>2. Off(0) \in Nat /\ Off(0) <= Off(NumRows) /\ Off(0 + 0) <= Off(0)
  <2>1. 0 \in 0 .. NumRows /\ NumRows \in 0 .. NumRows /\ 0 <= NumRows
    BY <1>1
  <2> QED BY <1>1, <2>1, OffGrows
<1> QED BY <1>1, <1>2, StitchedRows

\* The rows released so far: a batch behind the first b, and those handed out.
Lots(r, b, p, batch, out) ==
  /\ r \in 0 .. NumRows /\ b \in 0 .. r /\ p \in 0 .. r - b
  /\ batch = Slice(Result, b, r) /\ out = Slice(Result, 0, b + p)

LEMMA LotsAre ==
  ASSUME NEW r, NEW b, NEW p, NEW batch, NEW out, Lots(r, b, p, batch, out)
  PROVE  /\ b \in Nat /\ r \in Nat /\ p \in Nat /\ r <= Len(Result)
         /\ Len(batch) = r - b /\ p \in 0 .. Len(batch)
         /\ \A i \in 1 .. Len(batch) : batch[i] = Result[b + i]
         /\ out \in Seq(Row) /\ Len(out) = b + p /\ Len(out) <= NumRows
<1> USE DEF Lots
<1> DEFINE n == b + p
<1>0. NumRows \in Nat
  BY StreamAssumption
<1>1. /\ b \in Nat /\ r \in Nat /\ b <= r /\ p \in Nat /\ n \in Nat /\ n <= r
      /\ 0 <= n /\ n - 0 = n /\ 0 \in Nat
  BY <1>0
<1>2. Result \in Seq(Row) /\ Len(Result) = NumRows
  BY ResultIs
<1>3. r <= Len(Result) /\ n <= Len(Result)
  BY <1>0, <1>1, <1>2
<1> HIDE DEF n
<1>5. Len(batch) = r - b /\ \A i \in 1 .. r - b : batch[i] = Result[b + i]
  BY ONLY batch = Slice(Result, b, r), <1>1, <1>2, <1>3, SliceParts
<1>6. out \in Seq(Row) /\ Len(out) = n
  <2>1. Slice(Result, 0, n) \in Seq(Row) /\ Len(Slice(Result, 0, n)) = n - 0
    BY ONLY <1>1, <1>2, <1>3, SliceParts
  <2>2. out = Slice(Result, 0, n)
    BY DEF n
  <2> QED BY <1>1, <2>1, <2>2
<1>7. n <= NumRows
  BY <1>2, <1>3
<1> QED BY <1>1, <1>3, <1>5, <1>6, <1>7 DEF n

LEMMA RowsAre ==
  ASSUME NEW r \in 0 .. NumRows, NEW b \in 0 .. r, NEW p \in 0 .. r - b,
         NEW batch, batch = Slice(Result, b, r), NEW out, out = Slice(Result, 0, b + p)
  PROVE  /\ b \in Nat /\ r \in Nat /\ p \in Nat /\ r <= Len(Result)
         /\ Len(batch) = r - b /\ p \in 0 .. Len(batch)
         /\ \A i \in 1 .. Len(batch) : batch[i] = Result[b + i]
         /\ out \in Seq(Row) /\ Len(out) = b + p /\ Len(out) <= NumRows
<1>1. Lots(r, b, p, batch, out)
  BY DEF Lots
<1> QED BY ONLY <1>1, LotsAre

\* What a new state must show.
LEMMA PlacedAgain ==
  ASSUME NEW g \in Nat, NEW r \in 0 .. NumRows, NEW l \in Nat, NEW b \in Nat,
         InFlight(g, r, l)', HandedOver(r, b)', Stage(g, r, b)', at' # "closed"
  PROVE  PlaceInv'
<1>1. Placed'
  BY DEF Placed
<1>2. /\ b \in 0 .. r /\ pos' \in 0 .. r - b
      /\ data' = Slice(Result, b, r) /\ delivered' = Slice(Result, 0, b + pos')
  BY DEF HandedOver
<1>3. pos' \in 0 .. Len(data') /\ Len(delivered') <= NumRows
  BY <1>2, RowsAre
<1> QED BY <1>1, <1>3 DEF PlaceInv

\* One more row is handed out: the next one of the result.
LEMMA HandOut ==
  ASSUME NEW r \in Nat, r < NumRows, NEW x, x = Result[r + 1]
  PROVE  Append(Slice(Result, 0, r), x) = Slice(Result, 0, r + 1)
<1>1. /\ Result \in Seq(Row) /\ 0 \in Nat /\ 0 <= r /\ r + 1 <= Len(Result)
  BY ResultIs, StreamAssumption
<1> QED BY <1>1, SliceAppend

\* A chain is taken by Open or Fetch, which find the last batch used up.
LEMMA ChainPlaced ==
  ASSUME StreamInv, Placed, NEW n \in 0 .. Len(rest), NEW m \in Nat, NEW end \in BOOLEAN,
         Sends(n, m, end), Take(n, m, end), at \in {"opening", "first", "fetching"},
         at' \in {"first", "held", "fetching"}, at' # "held" => data' = <<>> /\ pos' = 0,
         \/ pos' = 0 /\ UNCHANGED delivered
         \/ pos' = 1 /\ delivered' = Append(delivered, data'[1]) /\ data' # <<>>
  PROVE  /\ PlaceInv'
         /\ UNCHANGED delivered \/ ( /\ Len(delivered) < Len(Result)
                                     /\ delivered' = Append(delivered, Result[Len(delivered) + 1]))
<1>1. PICK g \in Nat, r \in 0 .. NumRows, l \in Nat, b \in Nat :
           InFlight(g, r, l) /\ HandedOver(r, b) /\ Stage(g, r, b)
  BY DEF Placed
<1>26. PICK k \in Nat : Taken(g, r, l, n, m, k)
  BY <1>1, ChainTaken
<1>2. /\ InFlight(g + n, r + k, l + m)' /\ r + k <= NumRows
      /\ data' = Slice(Result, r, r + k)
      /\ ended' => g + n = NumRows * Parts /\ r + k = NumRows
  BY <1>26 DEF Taken
<1> DEFINE c == r + k
           h == g + n
           i == l + m
<1>3. /\ b \in Nat /\ r \in Nat /\ pos \in Nat /\ b + pos = r /\ Len(delivered) = r
      /\ delivered = Slice(Result, 0, r)
  <2>1. b + pos = r
    <3>1. \/ b = r /\ pos = 0
          \/ b + pos = r
      BY <1>1 DEF Stage
    <3>2. r \in Nat
      BY StreamAssumption
    <3> QED BY <3>1, <3>2
  <2>2. /\ b \in 0 .. r /\ pos \in 0 .. r - b
        /\ data = Slice(Result, b, r) /\ delivered = Slice(Result, 0, b + pos)
    BY <1>1 DEF HandedOver
  <2>3. b \in Nat /\ r \in Nat /\ pos \in Nat /\ Len(delivered) = b + pos
    BY <2>2, RowsAre
  <2> QED BY <2>1, <2>2, <2>3
<1>4. /\ c \in 0 .. NumRows /\ r <= c /\ r \in 0 .. c /\ c - r = k /\ NumRows \in Nat /\ h \in Nat /\ i \in Nat
      /\ n \in Nat
  <2>1. n \in Nat
    OBVIOUS
  <2> QED BY <2>1, <1>2, <1>3, StreamAssumption
<1>5. Result \in Seq(Row) /\ Len(Result) = NumRows
  BY ResultIs
<1>6. Len(data') = k /\ \A j \in 1 .. k : data'[j] = Result[r + j]
  <2> DEFINE batch == data'
             out   == Slice(Result, 0, r + 0)
  <2>1. /\ r \in 0 .. c /\ 0 \in 0 .. c - r /\ c \in 0 .. NumRows
        /\ batch = Slice(Result, r, c) /\ out = Slice(Result, 0, r + 0)
    BY <1>2, <1>4
  <2> HIDE DEF batch, out, c
  <2>2. Len(batch) = c - r /\ \A j \in 1 .. Len(batch) : batch[j] = Result[r + j]
    BY <2>1, RowsAre
  <2> QED BY <1>4, <2>2 DEF batch
<1>7. data' = <<>> <=> k = 0
  <2>1. k = 0 => data' = <<>>
    <3> SUFFICES ASSUME k = 0 PROVE data' = <<>>
      OBVIOUS
    <3>1. data' = Slice(Result, r, r)
      BY <1>2, <1>3
    <3> QED BY <1>3, <1>5, <3>1, SliceEmpty
  <2>2. data' = <<>> => k = 0
    BY <1>6
  <2> QED BY <2>1, <2>2
<1> HIDE DEF c, h, i
<1>8. pos' \in 0 .. k /\ delivered' = Slice(Result, 0, r + pos')
      /\ (pos' = 1 => k >= 1 /\ data'[1] = Result[r + 1])
  <2>1. CASE pos' = 0 /\ UNCHANGED delivered
    BY <2>1, <1>2, <1>3
  <2>2. CASE pos' = 1 /\ delivered' = Append(delivered, data'[1]) /\ data' # <<>>
    <3>1. k >= 1 /\ data'[1] = Result[r + 1]
      BY <1>2, <1>6, <1>7, <2>2
    <3>2. r < NumRows
      BY <3>1, <1>3, <1>4
    <3>3. Append(Slice(Result, 0, r), data'[1]) = Slice(Result, 0, r + 1)
      BY <1>3, <3>1, <3>2, HandOut
    <3> QED BY <1>2, <1>3, <2>2, <3>1, <3>3
  <2> QED BY <2>1, <2>2
<1>9. HandedOver(c, r)'
  <2>1. data' = Slice(Result, r, c)
    BY <1>2 DEF c
  <2> QED BY <1>4, <1>8, <2>1 DEF HandedOver
<1>10. Stage(h, c, r)'
  <2>1. at' # "held" => c = r /\ pos' = 0 /\ r + pos' = c
    BY <1>2, <1>3, <1>4, <1>7
  <2>2. ended' => h = NumRows * Parts /\ c = NumRows
    BY <1>2 DEF c, h
  <2> QED BY <2>1, <2>2 DEF Stage
<1>11. InFlight(h, c, i)'
  BY <1>2 DEF h, c, i
<1>12. PlaceInv'
  BY <1>3, <1>4, <1>9, <1>10, <1>11, PlacedAgain
<1>13. pos' = 1 => Len(delivered) < Len(Result) /\ data'[1] = Result[Len(delivered) + 1]
  BY <1>3, <1>4, <1>5, <1>8
<1> QED BY <1>12, <1>13

-----------------------------------------------------------------------------
\* What the application sees of a step: its rows and whether it may ask for more.
Answer == CASE at \in {"eof", "closed"} -> at
            [] at \in {"failed", "refused"} -> "error"
            [] OTHER -> "rows"

Promised == [ResultCursorOf!Next]_(ResultCursorOf!cursorVars)

LEMMA AnswerIs ==
  /\ at \in {"opening", "first", "held", "fetching"} => Answer = "rows"
  /\ at \in {"failed", "refused"} => Answer = "error"
  /\ at \in {"eof", "closed"} => Answer = at
  /\ at' \in {"opening", "first", "held", "fetching"} => Answer' = "rows"
  /\ at' \in {"failed", "refused"} => Answer' = "error"
  /\ at' \in {"eof", "closed"} => Answer' = at'
<1>1. at \in {"opening", "first", "held", "fetching"} => Answer = "rows"
  BY DEF Answer
<1>2. at \in {"failed", "refused"} => Answer = "error"
  BY DEF Answer
<1>3. at \in {"eof", "closed"} => Answer = at
  BY DEF Answer
<1>4. at' \in {"opening", "first", "held", "fetching"} => Answer' = "rows"
  BY DEF Answer
<1>5. at' \in {"failed", "refused"} => Answer' = "error"
  BY DEF Answer
<1>6. at' \in {"eof", "closed"} => Answer' = at'
  BY DEF Answer
<1> QED BY <1>1, <1>2, <1>3, <1>4, <1>5, <1>6

\* The steps that the abstract cursor knows.
LEMMA Promise ==
  ASSUME \/ UNCHANGED <<delivered, Answer>>
         \/ /\ Answer = "rows" /\ Len(delivered) < Len(Result)
            /\ delivered' = Append(delivered, Result[Len(delivered) + 1])
            /\ UNCHANGED Answer
         \/ Answer = "rows" /\ delivered = Result /\ Answer' = "eof" /\ UNCHANGED delivered
         \/ Answer = "rows" /\ Answer' = "error" /\ UNCHANGED delivered
         \/ Answer' = "closed" /\ UNCHANGED delivered
  PROVE  Promised
BY DEF Promised, Answer, ResultCursorOf!Next, ResultCursorOf!Deliver, ResultCursorOf!End,
       ResultCursorOf!Fail, ResultCursorOf!Close, ResultCursorOf!cursorVars

-----------------------------------------------------------------------------
\* The first chain, and each that a fetch brings.
LEMMA OpenPlace ==
  ASSUME StreamInv, PlaceInv, NEW n \in 0 .. Len(rest), NEW m \in Nat, NEW end \in BOOLEAN,
         Open(n, m, end)
  PROVE  PlaceInv' /\ Promised
<1>1. /\ at = "opening" /\ Sends(n, m, end) /\ Take(n, m, end)
      /\ at' = (IF data' = <<>> /\ ~ ended' THEN "first" ELSE "held")
      /\ pos' = pos /\ UNCHANGED delivered
  BY DEF Open
<1>2. Placed
  BY <1>1 DEF PlaceInv
<1>3. pos = 0
  BY <1>1, <1>2 DEF Placed, Stage
<1>4. at' \in {"first", "held", "fetching"} /\ (at' # "held" => data' = <<>> /\ pos' = 0)
  BY <1>1, <1>3
<1>5. PlaceInv'
  BY <1>1, <1>2, <1>3, <1>4, ChainPlaced
<1>6. Answer = "rows" /\ Answer' = "rows"
  BY <1>1, <1>4, AnswerIs
<1> QED BY <1>1, <1>5, <1>6, Promise

LEMMA FetchPlace ==
  ASSUME StreamInv, PlaceInv, NEW n \in 0 .. Len(rest), NEW m \in Nat, NEW end \in BOOLEAN,
         Fetch(n, m, end)
  PROVE  PlaceInv' /\ Promised
<1>1. /\ at \in {"first", "fetching"} /\ Sends(n, m, end) /\ Take(n, m, end)
      /\ at' \in {at, "held"} /\ (at' # "held" => data' = <<>> /\ pos' = 0)
      /\ \/ pos' = 0 /\ UNCHANGED delivered
         \/ pos' = 1 /\ delivered' = Append(delivered, data'[1]) /\ data' # <<>>
  BY DEF Fetch
<1>2. Placed
  BY <1>1 DEF PlaceInv
<1>3. /\ PlaceInv'
      /\ UNCHANGED delivered \/ ( /\ Len(delivered) < Len(Result)
                                  /\ delivered' = Append(delivered, Result[Len(delivered) + 1]))
  BY <1>1, <1>2, ChainPlaced
<1>4. Answer = "rows" /\ Answer' = "rows"
  BY <1>1, AnswerIs
<1> QED BY <1>3, <1>4, Promise

\* Steps that leave the rows where they are.
LEMMA StillPlaced ==
  ASSUME NEW g \in Nat, NEW r \in 0 .. NumRows, NEW l \in Nat, NEW b \in Nat,
         InFlight(g, r, l), HandedOver(r, b), Stage(g, r, b)',
         UNCHANGED <<rest, owed, tailBuf, pendingRows, pendingExt, data, pos, delivered>>,
         at' # "closed"
  PROVE  PlaceInv'
<1>1. InFlight(g, r, l)'
  BY DEF InFlight
<1>2. HandedOver(r, b)'
  BY DEF HandedOver
<1> QED BY <1>1, <1>2, PlacedAgain

\* The end is told when every row of the result has been handed out.
LEMMA FetchEndPlace ==
  ASSUME StreamInv, PlaceInv, FetchEnd
  PROVE  PlaceInv' /\ Promised
<1>1. /\ at \in {"first", "fetching"} /\ ended
      /\ UNCHANGED <<rest, owed, cursor, ended, tailBuf, pendingRows, pendingExt, data, pos, delivered>>
      /\ at' = (IF at = "first" THEN "held" ELSE "eof")
  BY DEF FetchEnd, serverVars, bufferVars, rowsVars
<1>2. PICK g \in Nat, r \in 0 .. NumRows, l \in Nat, b \in Nat :
           InFlight(g, r, l) /\ HandedOver(r, b) /\ Stage(g, r, b)
  BY <1>1 DEF PlaceInv, Placed
<1>3. Stage(g, r, b)'
  BY <1>1, <1>2 DEF Stage
<1>4. PlaceInv'
  BY <1>1, <1>2, <1>3, StillPlaced
<1>5. CASE at = "first"
  <2>1. Answer = "rows" /\ Answer' = "rows"
    BY <1>1, <1>5, AnswerIs
  <2> QED BY <1>1, <1>4, <2>1, Promise
<1>6. CASE at = "fetching"
  <2>1. Answer = "rows" /\ Answer' = "eof"
    BY <1>1, <1>6, AnswerIs
  <2>2. r = NumRows /\ b + pos = r
    BY <1>1, <1>2, <1>6 DEF Stage
  <2>3. delivered = Slice(Result, 0, Len(Result))
    BY <1>2, <2>2, ResultIs DEF HandedOver
  <2>4. delivered = Result
    BY <2>3, ResultIs, SliceWhole
  <2> QED BY <1>1, <1>4, <2>1, <2>4, Promise
<1> QED BY <1>1, <1>5, <1>6

\* An error cuts the rows short and hands none out.
LEMMA ErrorPlace ==
  ASSUME StreamInv, PlaceInv, NEW after, NEW noted, ServerError(after, noted) \/ RequestFails
  PROVE  PlaceInv' /\ Promised
<1>1. /\ at \in {"opening", "first", "fetching"} /\ at' \in {"failed", "refused"}
      /\ UNCHANGED <<rest, owed, tailBuf, pendingRows, pendingExt, data, pos, delivered>>
  BY DEF ServerError, RequestFails, Fails, serverVars, bufferVars, rowsVars
<1>2. PICK g \in Nat, r \in 0 .. NumRows, l \in Nat, b \in Nat :
           InFlight(g, r, l) /\ HandedOver(r, b) /\ Stage(g, r, b)
  BY <1>1 DEF PlaceInv, Placed
<1>3. Stage(g, r, b)'
  BY <1>1 DEF Stage
<1>4. PlaceInv'
  BY <1>1, <1>2, <1>3, StillPlaced
<1>5. Answer = "rows" /\ Answer' = "error"
  BY <1>1, AnswerIs
<1> QED BY <1>1, <1>4, <1>5, Promise

LEMMA ClosePlace ==
  ASSUME StreamInv, PlaceInv, NEW answered, Close(answered)
  PROVE  PlaceInv' /\ Promised
<1>1. /\ at' = "closed" /\ tailBuf' = <<>> /\ pendingRows' = <<>> /\ pendingExt' = <<>>
      /\ UNCHANGED <<data, pos, delivered>>
  BY DEF Close, rowsVars
<1>2. PlaceInv'
  BY <1>1 DEF PlaceInv
<1>3. Answer' = "closed"
  BY <1>1, AnswerIs
<1> QED BY <1>1, <1>2, <1>3, Promise

\* Inside a batch the next row of the result is handed out.
LEMMA NextRowPlace ==
  ASSUME StreamInv, PlaceInv, NextRow
  PROVE  PlaceInv' /\ Promised
<1>1. /\ at = "held" /\ pos < Len(data) /\ pos' = pos + 1
      /\ delivered' = Append(delivered, data[pos'])
      /\ UNCHANGED <<rest, owed, ended, tailBuf, pendingRows, pendingExt, data, at>>
  BY DEF NextRow, serverVars, bufferVars
<1>2. PICK g \in Nat, r \in 0 .. NumRows, l \in Nat, b \in Nat :
           InFlight(g, r, l) /\ HandedOver(r, b) /\ Stage(g, r, b)
  BY <1>1 DEF PlaceInv, Placed
<1>3. /\ b \in 0 .. r /\ pos \in 0 .. r - b
      /\ data = Slice(Result, b, r) /\ delivered = Slice(Result, 0, b + pos)
  BY <1>2 DEF HandedOver
<1>4. /\ r \in Nat /\ Len(data) = r - b /\ Len(delivered) = b + pos
      /\ \A i \in 1 .. Len(data) : data[i] = Result[b + i]
  <2>1. Lots(r, b, pos, data, delivered)
    BY <1>3 DEF Lots
  <2> QED BY <2>1, LotsAre
<1> DEFINE n == b + pos
<1>5. /\ pos \in Nat /\ n \in Nat /\ n < NumRows /\ NumRows \in Nat /\ pos + 1 \in 0 .. r - b
      /\ pos + 1 \in 1 .. Len(data) /\ b + (pos + 1) = n + 1
  BY <1>1, <1>3, <1>4, StreamAssumption
<1>6. data[pos + 1] = Result[n + 1]
  BY <1>4, <1>5
<1>7. delivered' = Append(Slice(Result, 0, n), data[pos + 1])
  BY <1>1, <1>3
<1>8. Append(Slice(Result, 0, n), data[pos + 1]) = Slice(Result, 0, n + 1)
  <2> HIDE DEF n
  <2> QED BY <1>5, <1>6, HandOut
<1>9. HandedOver(r, b)'
  BY <1>1, <1>3, <1>5, <1>7, <1>8 DEF HandedOver
<1>10. InFlight(g, r, l)' /\ Stage(g, r, b)'
  BY <1>1, <1>2 DEF InFlight, Stage
<1>11. PlaceInv'
  BY <1>1, <1>2, <1>9, <1>10, PlacedAgain
<1>12. Answer = "rows" /\ Answer' = "rows"
  BY <1>1, AnswerIs
<1>13. Len(delivered) < Len(Result) /\ delivered' = Append(delivered, Result[Len(delivered) + 1])
  <2>1. Len(Result) = NumRows
    BY ResultIs
  <2> QED BY <1>1, <1>4, <1>5, <1>6, <2>1
<1> QED BY <1>11, <1>12, <1>13, Promise

\* Everything else leaves the rows and the application alone.
LEMMA IdlePlace ==
  ASSUME StreamInv, PlaceInv, NextBatch \/ SwitchMode \/ Break \/ UNCHANGED vars
  PROVE  PlaceInv' /\ Promised
<1>1. /\ UNCHANGED <<rest, owed, ended, tailBuf, pendingRows, pendingExt, data, pos, delivered>>
      /\ UNCHANGED at \/ (at = "held" /\ pos = Len(data) /\ at' = "fetching")
  BY DEF NextBatch, SwitchMode, Break, vars, serverVars, bufferVars, rowsVars
<1>2. UNCHANGED Answer
  <2>1. CASE UNCHANGED at
    BY <2>1 DEF Answer
  <2>2. CASE at = "held" /\ at' = "fetching"
    BY <2>2, AnswerIs
  <2> QED BY <1>1, <2>1, <2>2
<1>3. CASE at = "closed"
  BY <1>1, <1>2, <1>3, Promise DEF PlaceInv
<1>4. CASE at # "closed"
  <2>1. PICK g \in Nat, r \in 0 .. NumRows, l \in Nat, b \in Nat :
             InFlight(g, r, l) /\ HandedOver(r, b) /\ Stage(g, r, b)
    BY <1>4 DEF PlaceInv, Placed
  <2>2. Stage(g, r, b)'
    <3>1. CASE UNCHANGED at
      BY <1>1, <2>1, <3>1 DEF Stage
    <3>2. CASE at = "held" /\ pos = Len(data) /\ at' = "fetching"
      <4>1. /\ b \in 0 .. r /\ pos \in 0 .. r - b
            /\ data = Slice(Result, b, r) /\ delivered = Slice(Result, 0, b + pos)
        BY <2>1 DEF HandedOver
      <4>2. Len(data) = r - b /\ r \in Nat /\ b \in Nat
        BY <4>1, RowsAre
      <4>3. b + pos = r
        BY <3>2, <4>2
      <4> QED BY <1>1, <2>1, <3>2, <4>3 DEF Stage
    <3> QED BY <1>1, <3>1, <3>2
  <2>3. at' # "closed"
    BY <1>1, <1>4
  <2>4. PlaceInv'
    BY <1>1, <2>1, <2>2, <2>3, StillPlaced
  <2> QED BY <1>1, <1>2, <2>4, Promise
<1> QED BY <1>3, <1>4

LEMMA StreamStepPlace ==
  ASSUME StreamInv, PlaceInv, [StreamNext]_vars
  PROVE  PlaceInv' /\ Promised
<1>1. ASSUME NEW n \in 0 .. Len(rest), NEW m \in 0 .. Len(Owed(Len(rest))),
             NEW end \in BOOLEAN, Open(n, m, end) \/ Fetch(n, m, end)
      PROVE  PlaceInv' /\ Promised
  <2>1. m \in Nat
    OBVIOUS
  <2> QED BY <1>1, <2>1, OpenPlace, FetchPlace
<1>2. ASSUME NEW after \in {"none", "open", "closed"}, NEW noted \in BOOLEAN,
             ServerError(after, noted)
      PROVE  PlaceInv' /\ Promised
  BY <1>2, ErrorPlace
<1>3. ASSUME NEW answered \in BOOLEAN, Close(answered)
      PROVE  PlaceInv' /\ Promised
  BY <1>3, ClosePlace
<1>4. CASE FetchEnd
  BY <1>4, FetchEndPlace
<1>5. CASE RequestFails
  BY <1>5, ErrorPlace
<1>6. CASE NextRow
  BY <1>6, NextRowPlace
<1>7. CASE NextBatch \/ SwitchMode \/ Break \/ UNCHANGED vars
  BY <1>7, IdlePlace
<1> QED BY <1>1, <1>2, <1>3, <1>4, <1>5, <1>6, <1>7 DEF StreamNext

\* Before the first chain everything is still at the server.
LEMMA StreamStart == StreamInit => StreamInv /\ PlaceInv /\ ResultCursorOf!Init
<1> SUFFICES ASSUME StreamInit PROVE StreamInv /\ PlaceInv /\ ResultCursorOf!Init
  OBVIOUS
<1>0. NumRows \in Nat /\ Parts \in Nat \ {0} /\ NumRows * Parts \in Nat
  BY StreamAssumption
<1>1. StreamInv /\ ResultCursorOf!Init
  BY DEF StreamInit, StreamInv, ResultCursorOf!Init
<1>2. /\ AllBytes \in Seq(Part) /\ Len(AllBytes) = NumRows * Parts
      /\ AllLobs \in Seq(Lob) /\ AllRows \in Seq(Seq(Part)) /\ Result \in Seq(Row)
  <2>1. 0 \in 0 .. NumRows /\ 0 <= 0
    BY <1>0
  <2> QED BY <2>1, BytesPlaced, LobsPlaced, RowsPlaced, ResultIs
<1>3. 0 \div Parts = 0 /\ 0 * Parts = 0
  <2>1. 0 * Parts = 0 /\ 0 < 0 * Parts + Parts /\ 0 \in Nat
    BY <1>0
  <2> QED BY <1>0, <2>1, Quotient
<1>4. Off(0) = 0
  BY OffSteps
<1>5. /\ Slice(AllBytes, 0, 0) = <<>> /\ Slice(AllLobs, 0, 0) = <<>>
      /\ Slice(AllRows, 0, 0) = <<>> /\ Slice(Result, 0, 0) = <<>>
  <2> DEFINE V == Seq(Part)
  <2>1. 0 \in Nat /\ AllRows \in Seq(V)
    BY <1>2
  <2> HIDE DEF V
  <2> QED BY <1>2, <2>1, SliceEmpty
<1>6. Slice(AllBytes, 0, NumRows * Parts) = AllBytes
  BY <1>2, SliceWhole
<1>7. /\ rest = AllBytes /\ owed = <<>> /\ tailBuf = <<>> /\ pendingRows = <<>> /\ pendingExt = <<>>
      /\ data = <<>> /\ pos = 0 /\ delivered = <<>> /\ at = "opening" /\ ended = FALSE
  BY DEF StreamInit, AllBytes
<1>8. InFlight(0, 0, 0)
  BY <1>0, <1>3, <1>4, <1>5, <1>6, <1>7 DEF InFlight
<1>9. HandedOver(0, 0) /\ Stage(0, 0, 0)
  BY <1>5, <1>7 DEF HandedOver, Stage
<1>10. 0 \in Nat /\ 0 \in 0 .. NumRows
  BY <1>0
<1>11. Placed
  BY <1>8, <1>9, <1>10 DEF Placed
<1>12. PlaceInv
  BY <1>0, <1>7, <1>11 DEF PlaceInv
<1> QED BY <1>1, <1>12

-----------------------------------------------------------------------------
LEMMA StreamInductive == StreamSpec => [](StreamInv /\ PlaceInv)
BY StreamStart, StreamStepInv, StreamStepPlace, PTL DEF StreamSpec

LEMMA PlaceMeans == StreamInv /\ PlaceInv => StreamTypeOK
<1> SUFFICES ASSUME StreamInv, PlaceInv PROVE StreamTypeOK
  OBVIOUS
<1>0. Parts \in Nat \ {0} /\ NumRows \in Nat /\ NumRows * Parts \in Nat
  BY StreamAssumption
<1>1. CASE at = "closed"
  BY <1>0, <1>1 DEF StreamTypeOK, StreamInv, PlaceInv
<1>2. CASE at # "closed"
  <2>1. PICK g \in Nat, r \in 0 .. NumRows, l \in Nat, b \in Nat :
             InFlight(g, r, l) /\ HandedOver(r, b) /\ Stage(g, r, b)
    BY <1>2 DEF PlaceInv, Placed
  <2> DEFINE q == g \div Parts
             a == q * Parts
  <2>2. /\ Len(tailBuf) < Parts /\ Len(tailBuf) = g - a
        /\ Len(pendingRows) = q - r /\ Len(pendingExt) = l - Off(r)
        /\ Off(r) \in Nat /\ g \in 0 .. NumRows * Parts
    <3>1. /\ g <= NumRows * Parts /\ Off(r) \in Nat
          /\ Len(tailBuf) = g - (g \div Parts) * Parts /\ Len(tailBuf) < Parts
          /\ Len(pendingRows) = g \div Parts - r /\ Len(pendingExt) = l - Off(r)
      BY <2>1, Sizes
    <3>2. g \in 0 .. NumRows * Parts
      BY <1>0, <3>1
    <3> QED BY <3>1, <3>2
  <2>3. l \in Nat /\ Off(r) <= l /\ l <= Off(q) /\ r \in Nat
        /\ tailBuf = Slice(AllBytes, a, g) /\ pendingRows = Slice(AllRows, r, q)
        /\ pendingExt = Slice(AllLobs, Off(r), l)
    BY <1>0, <2>1 DEF InFlight
  <2>4. q \in 0 .. NumRows /\ (g = NumRows * Parts => q = NumRows)
    BY <2>2, Complete
  <2>5. pendingRows = <<>> => pendingExt = <<>>
    <3> SUFFICES ASSUME pendingRows = <<>> PROVE pendingExt = <<>>
      OBVIOUS
    <3> HIDE DEF q
    <3>1. Len(pendingRows) = 0
      OBVIOUS
    <3>2. q = r
      BY <2>2, <2>3, <2>4, <3>1
    <3>3. l = Off(r)
      BY <2>2, <2>3, <3>2
    <3>4. Slice(AllLobs, l, l) = <<>>
      BY <2>1, LobsPlaced, SliceEmpty
    <3> QED BY <2>3, <3>3, <3>4
  <2>6. ended /\ at \notin {"failed", "refused"} => tailBuf = <<>> /\ pendingRows = <<>>
    <3> SUFFICES ASSUME ended, at \notin {"failed", "refused"}
                 PROVE  tailBuf = <<>> /\ pendingRows = <<>>
      OBVIOUS
    <3>1. g = NumRows * Parts /\ r = NumRows
      BY <2>1 DEF Stage
    <3>2. q = NumRows
      BY <2>4, <3>1
    <3> HIDE DEF q
    <3>3. a = g
      BY <3>1, <3>2
    <3> HIDE DEF a
    <3>4. Slice(AllBytes, g, g) = <<>>
      BY BytesPlaced, SliceEmpty
    <3>5. Slice(AllRows, r, r) = <<>>
      <4> DEFINE V == Seq(Part)
      <4>1. AllRows \in Seq(V) /\ r \in Nat
        BY <2>3, RowsPlaced
      <4> HIDE DEF V
      <4> QED BY <4>1, SliceEmpty
    <3> QED BY <2>3, <3>1, <3>2, <3>3, <3>4, <3>5
  <2> QED BY <2>2, <2>5, <2>6 DEF StreamTypeOK, StreamInv, PlaceInv
<1> QED BY <1>1, <1>2

-----------------------------------------------------------------------------
\* The buffers have the shape the code relies on (decodeRowsPartial, stitchReadyRows):
\* less than a row in tailBuf, a large object only behind a row that waits for more,
\* nothing left when the query has ended; for every result, however it is cut up.
THEOREM StreamTyped == StreamSpec => []StreamTypeOK
BY StreamInductive, PlaceMeans, PTL

\* For every result and however the server cuts it up, the application gets its rows
\* in order, each with its own large objects, and is told of the end when it has got
\* them all and never before (QueryStream with Rows.Next and Rows.Close).
THEOREM StreamDelivers == StreamSpec => ImplementsResult
<1>1. StreamInit => ResultCursorOf!Init
  BY StreamStart
<1>2. StreamInv /\ PlaceInv /\ [StreamNext]_vars
        => [ResultCursorOf!Next]_(ResultCursorOf!cursorVars)
  BY StreamStepPlace DEF Promised
<1> QED BY <1>1, <1>2, StreamInductive, PTL DEF StreamSpec, ImplementsResult, ResultCursorOf!Spec

\* Whatever fails on the way, a fetch goes out only for an open cursor
\* (fetchNextBatchLocked), ...
THEOREM FetchesAreWanted == StreamSpec => []NoFetchAfterEnd
<1>1. StreamInv => NoFetchAfterEnd
  BY DEF StreamInv, NoFetchAfterEnd
<1> QED BY StreamInductive, <1>1, PTL

\* ... nothing is committed under one (finishQuery and Close of QueryStream), ...
THEOREM CommitsComeLast == StreamSpec => []CommitAfterEnd
<1>1. StreamInv => CommitAfterEnd
  BY DEF StreamInv, CommitAfterEnd
<1> QED BY StreamInductive, <1>1, PTL

\* ... and a closed Rows leaves none on a session that is still used.
THEOREM CursorsAreReleased == StreamSpec => []CursorReleased
<1>1. StreamInv => CursorReleased
  BY DEF StreamInv, CursorReleased
<1> QED BY StreamInductive, <1>1, PTL
=============================================================================
