----------------------------- MODULE DataProofs -----------------------------
(***************************************************************************)
(* What the proofs need to know of numbers, sequences and folds.  The      *)
(* induction theorems of the library take an operator; here a property is  *)
(* the set of the numbers that have it, which is first-order, and a fold   *)
(* is reached through the function that records its steps.                 *)
(***************************************************************************)
EXTENDS Integers, Sequences, SequencesExt, SequenceTheorems, WellFoundedInduction, TLAPS

\* The natural numbers are well-founded: a set of them has a least one ...
LEMMA LeastOf ==
  ASSUME NEW T, T \subseteq Nat, T # {}
  PROVE  \E x \in T : \A y \in T : x <= y
<1>1. PICK x \in T : \A y \in T : ~ (<<y, x>> \in OpToRel(<, Nat))
  BY NatLessThanWellFounded, WFMin
<1>2. \A y \in T : x \in Nat /\ y \in Nat /\ ~ (y < x)
  BY <1>1 DEF OpToRel
<1>3. \A y \in T : x <= y
  BY <1>2
<1> QED BY <1>3

\* ... and what holds of 0 and passes from each number to the next holds of all.
LEMMA Induction ==
  ASSUME NEW T, 0 \in T, \A n \in Nat : n \in T => n + 1 \in T
  PROVE  \A n \in Nat : n \in T
<1> SUFFICES ASSUME Nat \ T # {} PROVE FALSE
  OBVIOUS
<1>1. PICK x \in Nat \ T : \A y \in Nat \ T : x <= y
  BY LeastOf
<1>2. x # 0
  BY <1>1
<1>3. x - 1 \in Nat /\ x - 1 \notin Nat \ T
  BY <1>1, <1>2
<1> QED BY <1>1, <1>3

\* So does what passes on up to a bound only.
LEMMA InductionUpTo ==
  ASSUME NEW n \in Nat, NEW T, 0 \in T, \A k \in 1 .. n : k - 1 \in T => k \in T
  PROVE  \A k \in 0 .. n : k \in T
<1> DEFINE Upto == {k \in Nat : k <= n => k \in T}
<1>1. 0 \in Upto
  OBVIOUS
<1>2. ASSUME NEW k \in Nat, k \in Upto PROVE k + 1 \in Upto
  <2> SUFFICES ASSUME k + 1 <= n PROVE k + 1 \in T
    OBVIOUS
  <2>1. k \in T /\ k + 1 \in 1 .. n /\ (k + 1) - 1 = k
    BY <1>2
  <2> QED BY <2>1
<1>3. \A k \in Nat : k \in Upto
  <2> HIDE DEF Upto
  <2> QED BY <1>1, <1>2, Induction
<1> QED BY <1>3

\* A bounded set of them has a greatest one, which is the Max of the library.
LEMMA MaxOf ==
  ASSUME NEW n \in Nat, NEW T, T \subseteq 1 .. n, T # {}
  PROVE  Max(T) \in T /\ \A y \in T : Max(T) >= y
<1> DEFINE Mirror == {n - y : y \in T}
<1>1. PICK some \in T : TRUE
  OBVIOUS
<1>2. n - some \in Mirror
  OBVIOUS
<1>3. \A y \in T : n - y \in Nat
  OBVIOUS
<1>4. PICK m \in Mirror : \A y \in Mirror : m <= y
  <2>1. Mirror \subseteq Nat /\ Mirror # {}
    BY <1>2, <1>3
  <2> QED BY <2>1, LeastOf
<1>5. PICK x \in T : m = n - x
  OBVIOUS
<1>6. \A y \in T : x >= y
  <2> SUFFICES ASSUME NEW y \in T PROVE x >= y
    OBVIOUS
  <2>1. m <= n - y
    BY <1>4
  <2> QED BY <1>5, <2>1
<1> QED BY <1>6 DEF Max

\* The first n steps of a recursion.
Runs(base, step, V, n, f) ==
  /\ f \in [0 .. n -> V] /\ f[0] = base
  /\ \A i \in 0 .. n - 1 : f[i + 1] = step[i][f[i]]

LEMMA RunsExist ==
  ASSUME NEW V, NEW base \in V, NEW step \in [Nat -> [V -> V]]
  PROVE  \A n \in Nat : \E f : Runs(base, step, V, n, f)
<1> DEFINE Reached == {n \in Nat : \E f : Runs(base, step, V, n, f)}
<1>1. 0 \in Reached
  <2>1. Runs(base, step, V, 0, [i \in 0 .. 0 |-> base])
    BY DEF Runs
  <2> QED BY <2>1
<1>2. ASSUME NEW n \in Nat, n \in Reached
      PROVE  n + 1 \in Reached
  <2>1. PICK f : Runs(base, step, V, n, f)
    BY <1>2
  <2> DEFINE g == [i \in 0 .. n + 1 |-> IF i = n + 1 THEN step[n][f[n]] ELSE f[i]]
  <2>2. f[n] \in V /\ step[n][f[n]] \in V
    BY <2>1 DEF Runs
  <2>3. g \in [0 .. n + 1 -> V] /\ g[0] = base
    BY <2>1, <2>2 DEF Runs
  <2>4. ASSUME NEW i \in 0 .. n PROVE g[i + 1] = step[i][g[i]]
    <3>1. CASE i = n
      <4>1. n \in 0 .. n + 1 /\ n + 1 \in 0 .. n + 1 /\ n # n + 1
        OBVIOUS
      <4>2. g[n + 1] = step[n][f[n]] /\ g[n] = f[n]
        BY <4>1
      <4> QED BY <3>1, <4>2
    <3>2. CASE i # n
      <4>1. i \in 0 .. n - 1 /\ i \in 0 .. n + 1 /\ i + 1 \in 0 .. n + 1 /\ i + 1 # n + 1 /\ i # n + 1
        BY <3>2
      <4> QED BY <4>1, <2>1 DEF Runs
    <3> QED BY <3>1, <3>2
  <2> HIDE DEF g
  <2>5. Runs(base, step, V, n + 1, g)
    BY <2>3, <2>4 DEF Runs
  <2> QED BY <2>5
<1>3. \A n \in Nat : n \in Reached
  <2> HIDE DEF Reached
  <2> QED BY <1>1, <1>2, Induction
<1> QED BY <1>3

LEMMA RunsAgree ==
  ASSUME NEW V, NEW base, NEW step, NEW m \in Nat, NEW n \in Nat, NEW f, NEW g,
         Runs(base, step, V, m, f), Runs(base, step, V, n, g)
  PROVE  \A i \in Nat : i <= m /\ i <= n => f[i] = g[i]
<1> DEFINE Agree == {i \in Nat : i <= m /\ i <= n => f[i] = g[i]}
<1>1. 0 \in Agree
  BY DEF Runs
<1>2. ASSUME NEW i \in Nat, i \in Agree
      PROVE  i + 1 \in Agree
  <2> SUFFICES ASSUME i + 1 <= m, i + 1 <= n PROVE f[i + 1] = g[i + 1]
    OBVIOUS
  <2>1. i \in 0 .. m - 1 /\ i \in 0 .. n - 1 /\ f[i] = g[i]
    BY <1>2
  <2> QED BY <2>1 DEF Runs
<1>3. \A i \in Nat : i \in Agree
  <2> HIDE DEF Agree
  <2> QED BY <1>1, <1>2, Induction
<1> QED BY <1>3

\* A function of the natural numbers may be given by its value at 0 and a step.
Definable(base, step, V) ==
  \E f \in [Nat -> V] : f[0] = base /\ \A n \in Nat : f[n + 1] = step[n][f[n]]

LEMMA Recursion ==
  ASSUME NEW V, NEW base \in V, NEW step \in [Nat -> [V -> V]]
  PROVE  Definable(base, step, V)
<1> DEFINE F(n) == CHOOSE f : Runs(base, step, V, n, f)
           whole == [n \in Nat |-> F(n)[n]]
<1>1. \A n \in Nat : Runs(base, step, V, n, F(n))
  BY RunsExist
<1> HIDE DEF F
<1>2. whole \in [Nat -> V] /\ whole[0] = base
  BY <1>1 DEF Runs
<1>3. ASSUME NEW n \in Nat PROVE whole[n + 1] = step[n][whole[n]]
  <2>1. F(n + 1)[n] = F(n)[n]
    <3>1. Runs(base, step, V, n, F(n)) /\ Runs(base, step, V, n + 1, F(n + 1))
      BY <1>1
    <3>2. n \in Nat /\ n + 1 \in Nat /\ n <= n /\ n <= n + 1
      OBVIOUS
    <3>3. F(n)[n] = F(n + 1)[n]
      BY <3>1, <3>2, RunsAgree
    <3> QED BY <3>3
  <2>2. F(n + 1)[n + 1] = step[n][F(n + 1)[n]]
    BY <1>1 DEF Runs
  <2> QED BY <2>1, <2>2
<1> HIDE DEF whole
<1> QED BY <1>2, <1>3 DEF Definable

-----------------------------------------------------------------------------
\* FlattenSeq joins its parts one after the other ...
LEMMA FlattenRuns ==
  ASSUME NEW T, NEW seqs \in Seq(Seq(T))
  PROVE  \E run \in [0 .. Len(seqs) -> Seq(T)] :
           /\ run[0] = <<>>
           /\ \A i \in 1 .. Len(seqs) : run[i] = run[i - 1] \o seqs[i]
           /\ FlattenSeq(seqs) = run[Len(seqs)]
<1> DEFINE n == Len(seqs)
           step == [i \in Nat |-> [s \in Seq(T) |->
                      IF i + 1 \in 1 .. n THEN s \o seqs[i + 1] ELSE s]]
<1>0. n \in Nat /\ (\A i \in 1 .. n : seqs[i] \in Seq(T)) /\ <<>> \in Seq(T)
  OBVIOUS
<1>1. step \in [Nat -> [Seq(T) -> Seq(T)]]
  BY <1>0
<1>2. PICK f \in [Nat -> Seq(T)] :
        f[0] = <<>> /\ \A i \in Nat : f[i + 1] = step[i][f[i]]
  <2> HIDE DEF step
  <2>1. <<>> \in Seq(T)
    BY <1>0
  <2>2. Definable(<<>>, step, Seq(T))
    BY <2>1, <1>1, Recursion
  <2> QED BY <2>2 DEF Definable
<1>3. ASSUME NEW i \in 1 .. n PROVE f[i] = f[i - 1] \o seqs[i]
  <2>1. i - 1 \in Nat /\ (i - 1) + 1 = i /\ f[i - 1] \in Seq(T)
    BY <1>0
  <2>2. f[(i - 1) + 1] = step[i - 1][f[i - 1]]
    BY <1>2, <2>1
  <2>3. step[i - 1][f[i - 1]] = f[i - 1] \o seqs[i]
    BY <2>1
  <2> QED BY <2>1, <2>2, <2>3
<1>5. 1 \in 1 .. n => f[1] = seqs[1]
  <2> SUFFICES ASSUME 1 \in 1 .. n PROVE f[1] = seqs[1]
    OBVIOUS
  <2>1. f[1] = f[1 - 1] \o seqs[1]
    BY <1>3
  <2>2. f[1 - 1] = <<>> /\ seqs[1] \in Seq(T)
    BY <1>0, <1>2
  <2> QED BY <2>1, <2>2, ConcatEmptySeq
<1>4. FlattenSeq(seqs) = f[n]
  <2>1. CASE n = 0
    BY <2>1, <1>2 DEF FlattenSeq
  <2>2. CASE n # 0
    <3> DEFINE Def(g) == g = [i \in 1 .. n |-> IF i = 1 THEN seqs[i] ELSE g[i - 1] \o seqs[i]]
               joined == [i \in 1 .. n |-> f[i]]
               g == CHOOSE h : Def(h)
    <3>1. Def(joined)
      <4> SUFFICES ASSUME NEW i \in 1 .. n
                   PROVE  f[i] = IF i = 1 THEN seqs[i] ELSE joined[i - 1] \o seqs[i]
        OBVIOUS
      <4>1. CASE i = 1
        BY <1>5, <4>1
      <4>2. CASE i # 1
        <5>1. i - 1 \in 1 .. n
          BY <4>2, <1>0
        <5> QED BY <1>3, <4>2, <5>1
      <4> QED BY <4>1, <4>2
    <3>2. Def(g)
      <4> HIDE DEF joined, Def
      <4> QED BY <3>1
    <3>3. FlattenSeq(seqs) = g[n]
      BY <2>2 DEF FlattenSeq
    <3> HIDE DEF g
    <3>4. \A i \in 1 .. n : g[i] = IF i = 1 THEN seqs[i] ELSE g[i - 1] \o seqs[i]
      BY <3>2
    <3> DEFINE Agree == {i \in Nat : i + 1 \in 1 .. n => g[i + 1] = f[i + 1]}
    <3>5. 0 \in Agree
      BY <1>5, <3>4
    <3>9. ASSUME NEW k \in 1 .. n, k # 1, g[k - 1] = f[k - 1] PROVE g[k] = f[k]
      BY <1>3, <3>4, <3>9
    <3>6. ASSUME NEW i \in Nat, i \in Agree PROVE i + 1 \in Agree
      <4> SUFFICES ASSUME (i + 1) + 1 \in 1 .. n
                   PROVE  g[(i + 1) + 1] = f[(i + 1) + 1]
        OBVIOUS
      <4>1. i + 1 \in 1 .. n /\ (i + 1) + 1 # 1 /\ ((i + 1) + 1) - 1 = i + 1
        BY <1>0
      <4>2. g[i + 1] = f[i + 1]
        BY <3>6, <4>1
      <4> QED BY <3>9, <4>1, <4>2
    <3>7. n - 1 \in Agree
      <4>1. n - 1 \in Nat
        BY <2>2, <1>0
      <4> HIDE DEF Agree
      <4> QED BY <3>5, <3>6, <4>1, Induction
    <3>8. g[n] = f[n]
      BY <3>7, <2>2, <1>0
    <3> QED BY <3>3, <3>8
  <2> QED BY <2>1, <2>2
<1> DEFINE run == [i \in 0 .. n |-> f[i]]
<1>6. run \in [0 .. n -> Seq(T)] /\ run[0] = <<>> /\ run[n] = f[n]
  BY <1>0, <1>2
<1>7. ASSUME NEW i \in 1 .. n PROVE run[i] = run[i - 1] \o seqs[i]
  <2>1. i \in 0 .. n /\ i - 1 \in 0 .. n
    BY <1>0
  <2> QED BY <1>3, <2>1
<1> HIDE DEF run
<1> QED BY <1>4, <1>6, <1>7

\* ... so that with the place of each part known, each element is known.
LEMMA FlattenAt ==
  ASSUME NEW T, NEW seqs \in Seq(Seq(T)), NEW off,
         off[0] = 0,
         \A i \in 1 .. Len(seqs) : off[i] = off[i - 1] + Len(seqs[i])
  PROVE  /\ FlattenSeq(seqs) \in Seq(T) /\ Len(FlattenSeq(seqs)) = off[Len(seqs)]
         /\ \A i \in 1 .. Len(seqs) : \A k \in 1 .. Len(seqs[i]) :
              FlattenSeq(seqs)[off[i - 1] + k] = seqs[i][k]
<1>1. PICK run \in [0 .. Len(seqs) -> Seq(T)] :
           /\ run[0] = <<>>
           /\ \A i \in 1 .. Len(seqs) : run[i] = run[i - 1] \o seqs[i]
           /\ FlattenSeq(seqs) = run[Len(seqs)]
  BY FlattenRuns
<1>0. Len(seqs) \in Nat /\ \A i \in 1 .. Len(seqs) : seqs[i] \in Seq(T) /\ Len(seqs[i]) \in Nat
  OBVIOUS
<1> DEFINE Placed(n) == /\ Len(run[n]) = off[n]
                        /\ \A i \in 1 .. n : \A k \in 1 .. Len(seqs[i]) :
                             /\ off[i - 1] + k \in 1 .. Len(run[n])
                             /\ run[n][off[i - 1] + k] = seqs[i][k]
           Good == {n \in Nat : n <= Len(seqs) => Placed(n)}
<1>2. 0 \in Good
  BY <1>1
<1>3. ASSUME NEW n \in Nat, n \in Good PROVE n + 1 \in Good
  <2> SUFFICES ASSUME n + 1 <= Len(seqs) PROVE Placed(n + 1)
    BY SMTT(60)
  <2>1. /\ n + 1 \in 1 .. Len(seqs) /\ n \in 0 .. Len(seqs) /\ (n + 1) - 1 = n /\ n + 1 \in 0 .. Len(seqs)
        /\ Placed(n)
    BY <1>3, <1>0
  <2>2. run[n + 1] = run[n] \o seqs[n + 1] /\ run[n] \in Seq(T) /\ seqs[n + 1] \in Seq(T)
    BY <1>1, <1>0, <2>1
  <2> DEFINE before == run[n]
             part   == seqs[n + 1]
             after  == run[n + 1]
  <2>3. before \in Seq(T) /\ part \in Seq(T) /\ after = before \o part
    BY <2>2
  <2>4. Len(before) \in Nat /\ Len(part) \in Nat /\ Len(before) = off[n]
    BY <2>1, <2>2
  <2> HIDE DEF before, part, after
  <2>7. /\ Len(after) = Len(before) + Len(part)
        /\ \A j \in 1 .. Len(before) + Len(part) :
             after[j] = IF j <= Len(before) THEN before[j] ELSE part[j - Len(before)]
    BY <2>3, ConcatProperties
  <2>8. Len(after) = Len(before) + Len(part)
    BY <2>7
  <2>5. off[n + 1] = off[n] + Len(seqs[n + 1])
    BY <2>1
  <2>6. ASSUME NEW i \in 1 .. n + 1, NEW k \in 1 .. Len(seqs[i])
        PROVE  off[i - 1] + k \in 1 .. Len(after) /\ after[off[i - 1] + k] = seqs[i][k]
    <3>1. CASE i = n + 1
      <4>1. off[i - 1] = Len(before) /\ k \in 1 .. Len(part) /\ seqs[i] = part
        BY <3>1, <2>1, <2>4 DEF part
      <4>2. Len(before) + k \in 1 .. Len(after) /\ ~ (Len(before) + k <= Len(before))
        BY <4>1, <2>4, <2>8, SMTT(60)
      <4>3. after[Len(before) + k] = part[(Len(before) + k) - Len(before)]
        BY <4>2, <2>7
      <4> QED BY <4>1, <4>2, <4>3, <2>4
    <3>2. CASE i # n + 1
      <4>1. i \in 1 .. n
        BY <3>2
      <4>2. off[i - 1] + k \in 1 .. Len(before) /\ before[off[i - 1] + k] = seqs[i][k]
        BY <4>1, <2>1, <2>6 DEF before
      <4> DEFINE place == off[i - 1] + k
      <4>3. place \in 1 .. Len(before) /\ before[place] = seqs[i][k]
        BY <4>2
      <4> HIDE DEF place
      <4>4. place \in 1 .. Len(after) /\ place \in 1 .. Len(before) + Len(part) /\ place <= Len(before)
        BY <4>3, <2>4, <2>8
      <4>5. after[place] = before[place]
        BY <4>4, <2>7
      <4> QED BY <4>3, <4>4, <4>5 DEF place
    <3> QED BY <3>1, <3>2
  <2> QED BY <2>4, <2>5, <2>6, <2>7 DEF before, part, after
<1>4. Len(seqs) \in Good
  <2> HIDE DEF Good
  <2> QED BY <1>0, <1>2, <1>3, Induction
<1> QED BY <1>0, <1>1, <1>4, SMTT(60)

-----------------------------------------------------------------------------
\* A function of sets of numbers may be given by what the greatest one adds.
FoldsBy(iter, n, base, step) ==
  iter = [s \in SUBSET (1 .. n) |-> IF s = {} THEN base ELSE step[Max(s)][iter[s \ {Max(s)}]]]

LEMMA FoldsExist ==
  ASSUME NEW n \in Nat, NEW V, NEW base \in V, NEW step \in [1 .. n -> [V -> V]]
  PROVE  \E iter \in [SUBSET (1 .. n) -> V] : FoldsBy(iter, n, base, step)
<1> DEFINE W == [SUBSET (1 .. n) -> V]
           none == [s \in SUBSET (1 .. n) |-> base]
           next == [i \in Nat |-> [h \in W |->
                     [s \in SUBSET (1 .. n) |-> IF i + 1 \in s THEN step[i + 1][h[s]] ELSE h[s]]]]
<1>1. none \in W
  OBVIOUS
<1>2. next \in [Nat -> [W -> W]]
  <2> SUFFICES ASSUME NEW i \in Nat, NEW h \in W, NEW s \in SUBSET (1 .. n)
               PROVE  (IF i + 1 \in s THEN step[i + 1][h[s]] ELSE h[s]) \in V
    OBVIOUS
  <2>1. h[s] \in V
    OBVIOUS
  <2>2. i + 1 \in s => step[i + 1] \in [V -> V]
    OBVIOUS
  <2> QED BY <2>1, <2>2
<1>3. PICK g \in [Nat -> W] : g[0] = none /\ \A i \in Nat : g[i + 1] = next[i][g[i]]
  <2> HIDE DEF none, next, W
  <2>1. Definable(none, next, W)
    BY <1>1, <1>2, Recursion
  <2> QED BY <2>1 DEF Definable
<1>4. ASSUME NEW i \in Nat, NEW s \in SUBSET (1 .. n)
      PROVE  /\ g[i][s] \in V
             /\ g[i + 1][s] = IF i + 1 \in s THEN step[i + 1][g[i][s]] ELSE g[i][s]
  <2>1. g[i] \in W
    BY <1>3
  <2>2. g[i + 1] = next[i][g[i]]
    BY <1>3
  <2>3. next[i][g[i]] = [t \in SUBSET (1 .. n) |->
                           IF i + 1 \in t THEN step[i + 1][g[i][t]] ELSE g[i][t]]
    BY <2>1
  <2> QED BY <2>1, <2>2, <2>3
<1>5. \A s \in SUBSET (1 .. n) : g[0][s] = base
  BY <1>3
<1> HIDE DEF W, none, next
\* Above the greatest element of a set nothing changes any more.
<1>6. ASSUME NEW s \in SUBSET (1 .. n), NEW top \in Nat, \A x \in s : x <= top
      PROVE  \A i \in Nat : i >= top => g[i][s] = g[top][s]
  <2> DEFINE Same == {i \in Nat : i >= top => g[i][s] = g[top][s]}
  <2>1. 0 \in Same
    OBVIOUS
  <2>2. ASSUME NEW i \in Nat, i \in Same PROVE i + 1 \in Same
    <3> SUFFICES ASSUME i + 1 >= top PROVE g[i + 1][s] = g[top][s]
      OBVIOUS
    <3>1. CASE i + 1 = top
      BY <3>1
    <3>2. CASE i + 1 # top
      <4>1. i >= top /\ i + 1 \notin s
        BY <3>2, <1>6
      <4>2. g[i][s] = g[top][s]
        BY <2>2, <4>1
      <4> QED BY <4>1, <4>2, <1>4
    <3> QED BY <3>1, <3>2
  <2>3. \A i \in Nat : i \in Same
    <3> HIDE DEF Same
    <3> QED BY <2>1, <2>2, Induction
  <2> QED BY <2>3
\* Below it the set may be with it or without.
<1>7. ASSUME NEW s \in SUBSET (1 .. n), NEW x \in s
      PROVE  \A i \in Nat : i < x => g[i][s] = g[i][s \ {x}]
  <2> DEFINE Same == {i \in Nat : i < x => g[i][s] = g[i][s \ {x}]}
  <2>0. s \ {x} \in SUBSET (1 .. n) /\ x \in Nat
    OBVIOUS
  <2>1. 0 \in Same
    BY <1>5, <2>0
  <2>2. ASSUME NEW i \in Nat, i \in Same PROVE i + 1 \in Same
    <3> SUFFICES ASSUME i + 1 < x PROVE g[i + 1][s] = g[i + 1][s \ {x}]
      OBVIOUS
    <3>1. g[i][s] = g[i][s \ {x}]
      BY <2>2, <2>0
    <3>2. i + 1 \in s <=> i + 1 \in s \ {x}
      BY <2>0
    <3> QED BY <3>1, <3>2, <1>4, <2>0
  <2>3. \A i \in Nat : i \in Same
    <3> HIDE DEF Same
    <3> QED BY <2>1, <2>2, Induction
  <2> QED BY <2>3
<1>9. ASSUME NEW s \in SUBSET (1 .. n)
      PROVE  g[n][s] = IF s = {} THEN base ELSE step[Max(s)][g[n][s \ {Max(s)}]]
  <2>1. CASE s = {}
    <3>1. (\A x \in s : x <= 0) /\ 0 \in Nat /\ n >= 0
      BY <2>1
    <3>2. g[n][s] = g[0][s]
      BY <3>1, <1>6
    <3> QED BY <2>1, <3>2, <1>5
  <2>2. ASSUME NEW x \in s, \A y \in s : x >= y
        PROVE  g[n][s] = step[x][g[n][s \ {x}]]
    <3>1. x \in 1 .. n /\ x \in Nat /\ n >= x /\ x - 1 \in Nat /\ (x - 1) + 1 = x /\ n >= x - 1
      OBVIOUS
    <3>2. \A y \in s : y <= x
      BY <2>2, <3>1
    <3>3. g[n][s] = g[x][s]
      BY <3>1, <3>2, <1>6
    <3>4. g[x][s] = step[x][g[x - 1][s]]
      BY <3>1, <1>4
    <3>5. g[x - 1][s] = g[x - 1][s \ {x}]
      <4>1. \A i \in Nat : i < x => g[i][s] = g[i][s \ {x}]
        BY <1>7
      <4>2. x - 1 < x
        BY <3>1
      <4> QED BY <3>1, <4>1, <4>2
    <3> DEFINE t == s \ {x}
    <3>6. t \in SUBSET (1 .. n) /\ \A y \in t : y <= x - 1
      BY <3>1, <3>2
    <3>7. g[n][t] = g[x - 1][t]
      <4> HIDE DEF t
      <4> QED BY <3>1, <3>6, <1>6
    <3> QED BY <3>3, <3>4, <3>5, <3>7
  <2>3. CASE s # {}
    <3>1. Max(s) \in s /\ \A y \in s : Max(s) >= y
      BY <2>3, MaxOf
    <3> QED BY <2>2, <2>3, <3>1
  <2> QED BY <2>1, <2>3
<1> DEFINE iter == g[n]
<1>8. iter \in [SUBSET (1 .. n) -> V]
  BY <1>3 DEF W
<1>11. \A s \in SUBSET (1 .. n) :
         iter[s] = IF s = {} THEN base ELSE step[Max(s)][iter[s \ {Max(s)}]]
  BY <1>9
<1> HIDE DEF iter
<1>10. FoldsBy(iter, n, base, step)
  BY <1>8, <1>11 DEF FoldsBy
<1> QED BY <1>8, <1>10

\* The numbers up to k are those below k, and k above them.
LEMMA RangeFolds ==
  ASSUME NEW n \in Nat, NEW k \in 1 .. n
  PROVE  /\ 1 .. k \in SUBSET (1 .. n) /\ 1 .. k # {}
         /\ Max(1 .. k) = k /\ (1 .. k) \ {k} = 1 .. k - 1
<1>1. 1 \in 1 .. k /\ (1 .. k) \subseteq 1 .. k /\ k \in Nat /\ 1 .. k \in SUBSET (1 .. n)
  OBVIOUS
<1> DEFINE s == 1 .. k
<1>2. s # {} /\ s \subseteq 1 .. k
  BY <1>1
<1>3. Max(s) \in s /\ \A y \in s : Max(s) >= y
  <2> HIDE DEF s
  <2> QED BY <1>1, <1>2, MaxOf
<1>4. Max(s) = k
  BY <1>3
<1>5. (1 .. k) \ {k} = 1 .. k - 1
  OBVIOUS
<1> QED BY <1>1, <1>2, <1>4, <1>5

\* The sum of a sequence of numbers is its last partial sum ...
LEMMA SumRuns ==
  ASSUME NEW s \in Seq(Nat), NEW off, off[0] = 0,
         \A i \in 1 .. Len(s) : off[i] = off[i - 1] + s[i]
  PROVE  FoldLeft(+, 0, s) = off[Len(s)]
<1> DEFINE n    == Len(s)
           step == [i \in 1 .. n |-> [v \in Nat |-> v + s[i]]]
           Def(g) == g = [t \in SUBSET (1 .. n) |->
                            IF t = {} THEN 0 ELSE g[t \ {Max(t)}] + s[Max(t)]]
           iter == CHOOSE g : Def(g)
<1>1. n \in Nat /\ DOMAIN s = 1 .. n /\ \A i \in 1 .. n : s[i] \in Nat
  OBVIOUS
<1>2. FoldLeft(+, 0, s) = iter[1 .. n]
  BY <1>1 DEF FoldLeft, MapThenFoldSet
<1>3. step \in [1 .. n -> [Nat -> Nat]]
  BY <1>1
<1>4. PICK g \in [SUBSET (1 .. n) -> Nat] : FoldsBy(g, n, 0, step)
  <2> HIDE DEF step, n
  <2> QED BY <1>1, <1>3, FoldsExist
<1>5. Def(g)
  <2>1. ASSUME NEW t \in SUBSET (1 .. n), t # {}
        PROVE  step[Max(t)][g[t \ {Max(t)}]] = g[t \ {Max(t)}] + s[Max(t)]
    <3>1. Max(t) \in 1 .. n
      <4> HIDE DEF n
      <4> QED BY <1>1, <2>1, MaxOf
    <3>2. g[t \ {Max(t)}] \in Nat
      OBVIOUS
    <3> QED BY <3>1, <3>2
  <2> QED BY <2>1, <1>4 DEF FoldsBy
<1>6. Def(iter)
  <2> HIDE DEF Def
  <2> QED BY <1>5
<1> HIDE DEF iter
<1>7. iter[{}] = 0
  <2>1. {} \in SUBSET (1 .. n)
    OBVIOUS
  <2> QED BY <1>6, <2>1
<1>8. ASSUME NEW k \in 1 .. n PROVE iter[1 .. k] = iter[1 .. k - 1] + s[k]
  <2> DEFINE t == 1 .. k
  <2>1. t \in SUBSET (1 .. n) /\ t # {} /\ Max(t) = k /\ t \ {k} = 1 .. k - 1
    BY <1>1, RangeFolds
  <2> HIDE DEF t
  <2>2. iter[t] = iter[t \ {Max(t)}] + s[Max(t)]
    BY <1>6, <2>1
  <2> QED BY <2>1, <2>2 DEF t
<1> DEFINE Same == {k \in 0 .. n : iter[1 .. k] = off[k]}
<1>9. 0 \in Same
  <2>1. 1 .. 0 = {}
    OBVIOUS
  <2> QED BY <1>1, <1>7, <2>1
<1>10. ASSUME NEW k \in 1 .. n, k - 1 \in Same PROVE k \in Same
  <2>1. k \in 0 .. n /\ iter[1 .. k - 1] = off[k - 1]
    BY <1>10
  <2> QED BY <1>8, <2>1
<1>11. \A k \in 0 .. n : k \in Same
  <2> HIDE DEF Same, n
  <2> QED BY <1>1, <1>9, <1>10, InductionUpTo
<1>12. n \in 0 .. n
  BY <1>1
<1> QED BY <1>2, <1>11, <1>12

-----------------------------------------------------------------------------
\* The elements of a sequence behind the first a, up to the b-th.
Slice(s, a, b) == SubSeq(s, a + 1, b)

LEMMA SliceParts ==
  ASSUME NEW S, NEW s \in Seq(S), NEW a \in Nat, NEW b \in Nat, a <= b, b <= Len(s)
  PROVE  /\ Slice(s, a, b) \in Seq(S)
         /\ Len(Slice(s, a, b)) = b - a
         /\ \A i \in 1 .. b - a : Slice(s, a, b)[i] = s[a + i]
<1>1. \A i \in a + 1 .. b : s[i] \in S
  OBVIOUS
<1>2. a + 1 \in Int /\ b \in Int /\ b - (a + 1) + 1 = b - a
  OBVIOUS
<1> DEFINE t == SubSeq(s, a + 1, b)
<1>3. /\ t \in Seq(S)
      /\ Len(t) = IF a + 1 <= b THEN b - (a + 1) + 1 ELSE 0
      /\ \A i \in 1 .. b - (a + 1) + 1 : t[i] = s[(a + 1) + i - 1]
  BY <1>1, <1>2, SubSeqProperties
<1>4. \A i \in 1 .. b - a : (a + 1) + i - 1 = a + i
  OBVIOUS
<1> HIDE DEF t
<1>5. Len(t) = b - a
  BY <1>3
<1>6. \A i \in 1 .. b - a : t[i] = s[a + i]
  BY <1>2, <1>3, <1>4
<1> QED BY <1>3, <1>5, <1>6 DEF Slice, t

LEMMA SliceEqual ==
  ASSUME NEW S, NEW s \in Seq(S), NEW a \in Nat, NEW b \in Nat, a <= b, b <= Len(s),
         NEW t \in Seq(S), Len(t) = b - a, \A i \in 1 .. b - a : t[i] = s[a + i]
  PROVE  t = Slice(s, a, b)
<1> DEFINE u == Slice(s, a, b)
<1>1. u \in Seq(S) /\ Len(u) = b - a /\ \A i \in 1 .. b - a : u[i] = s[a + i]
  BY SliceParts
<1> HIDE DEF u
<1>2. Len(t) = Len(u) /\ \A i \in 1 .. Len(t) : t[i] = u[i]
  BY <1>1
<1>3. t = u
  BY <1>1, <1>2, SeqEqual
<1> QED BY <1>3 DEF u

\* A slice that ends where another begins continues it ...
LEMMA SliceJoin ==
  ASSUME NEW S, NEW s \in Seq(S), NEW a \in Nat, NEW b \in Nat, NEW c \in Nat,
         a <= b, b <= c, c <= Len(s)
  PROVE  Slice(s, a, b) \o Slice(s, b, c) = Slice(s, a, c)
<1> DEFINE t == Slice(s, a, b)
           u == Slice(s, b, c)
           v == t \o u
<1>1. b <= Len(s)
  OBVIOUS
<1>2. t \in Seq(S) /\ Len(t) = b - a /\ \A i \in 1 .. b - a : t[i] = s[a + i]
  BY <1>1, SliceParts
<1>3. u \in Seq(S) /\ Len(u) = c - b /\ \A i \in 1 .. c - b : u[i] = s[b + i]
  BY SliceParts
<1> HIDE DEF t, u
<1>4. /\ v \in Seq(S) /\ Len(v) = Len(t) + Len(u)
      /\ \A i \in 1 .. Len(t) + Len(u) : v[i] = IF i <= Len(t) THEN t[i] ELSE u[i - Len(t)]
  BY <1>2, <1>3, ConcatProperties
<1> HIDE DEF v
<1>5. Len(v) = c - a
  BY <1>2, <1>3, <1>4
<1>6. ASSUME NEW i \in 1 .. c - a PROVE v[i] = s[a + i]
  <2>1. i \in 1 .. Len(t) + Len(u)
    BY <1>2, <1>3
  <2>2. CASE i <= b - a
    BY <2>1, <2>2, <1>2, <1>4
  <2>3. CASE ~ (i <= b - a)
    <3>1. i - (b - a) \in 1 .. c - b /\ b + (i - (b - a)) = a + i
      BY <2>3
    <3>2. v[i] = u[i - (b - a)]
      BY <2>1, <2>3, <1>2, <1>4
    <3>3. u[i - (b - a)] = s[b + (i - (b - a))]
      BY <3>1, <1>3
    <3> QED BY <3>1, <3>2, <3>3
  <2> QED BY <2>2, <2>3
<1>7. a <= c
  OBVIOUS
<1>8. v = Slice(s, a, c)
  BY <1>4, <1>5, <1>6, <1>7, SliceEqual
<1> QED BY <1>8 DEF v, t, u

\* ... and one of a slice is one of the whole.
LEMMA SliceOfSlice ==
  ASSUME NEW S, NEW s \in Seq(S), NEW a \in Nat, NEW b \in Nat, NEW i \in Nat, NEW j \in Nat,
         a <= b, b <= Len(s), i <= j, j <= b - a
  PROVE  Slice(Slice(s, a, b), i, j) = Slice(s, a + i, a + j)
<1> DEFINE t == Slice(s, a, b)
           u == Slice(t, i, j)
<1>1. t \in Seq(S) /\ Len(t) = b - a /\ \A k \in 1 .. b - a : t[k] = s[a + k]
  BY SliceParts
<1> HIDE DEF t
<1>0. t \in Seq(S) /\ j <= Len(t)
  BY <1>1
<1>2. u \in Seq(S) /\ Len(u) = j - i /\ \A k \in 1 .. j - i : u[k] = t[i + k]
  BY <1>0, SliceParts
<1> HIDE DEF u
<1> DEFINE p == a + i
           q == a + j
<1>3. /\ p \in Nat /\ q \in Nat /\ p <= q /\ q <= Len(s)
      /\ q - p = j - i
  OBVIOUS
<1>4. ASSUME NEW k \in 1 .. j - i PROVE u[k] = s[p + k]
  <2>1. i + k \in 1 .. b - a /\ a + (i + k) = p + k
    OBVIOUS
  <2>2. t[i + k] = s[a + (i + k)]
    BY <1>1, <2>1
  <2> QED BY <1>2, <2>1, <2>2
<1> HIDE DEF p, q
<1>5. Len(u) = q - p /\ \A k \in 1 .. q - p : u[k] = s[p + k]
  BY <1>2, <1>3, <1>4
<1>6. u = Slice(s, p, q)
  BY <1>2, <1>3, <1>5, SliceEqual
<1> QED BY <1>6 DEF u, t, p, q

LEMMA SliceWhole ==
  ASSUME NEW S, NEW s \in Seq(S)
  PROVE  Slice(s, 0, Len(s)) = s
<1>1. 0 \in Nat /\ Len(s) \in Nat /\ 0 <= Len(s) /\ Len(s) <= Len(s) /\ Len(s) = Len(s) - 0
      /\ \A i \in 1 .. Len(s) - 0 : s[i] = s[0 + i]
  OBVIOUS
<1> QED BY <1>1, SliceEqual

LEMMA SliceEmpty ==
  ASSUME NEW S, NEW s \in Seq(S), NEW a \in Nat
  PROVE  Slice(s, a, a) = <<>>
<1>1. a \in Int /\ a + 1 \in Int /\ a < a + 1
  OBVIOUS
<1> QED BY <1>1, SubSeqEmpty DEF Slice

\* The parts of a joined sequence lie one behind the other ...
LEMMA FlattenSlices ==
  ASSUME NEW T, NEW seqs \in Seq(Seq(T)), NEW off, off[0] = 0,
         \A i \in 1 .. Len(seqs) : off[i] = off[i - 1] + Len(seqs[i])
  PROVE  /\ FlattenSeq(seqs) \in Seq(T) /\ Len(FlattenSeq(seqs)) = off[Len(seqs)]
         /\ \A i \in 0 .. Len(seqs) : off[i] \in Nat /\ off[i] <= off[Len(seqs)]
         /\ \A i \in 1 .. Len(seqs) : Slice(FlattenSeq(seqs), off[i - 1], off[i]) = seqs[i]
<1> DEFINE n   == Len(seqs)
           all == FlattenSeq(seqs)
<1>0. n \in Nat /\ \A i \in 1 .. n : seqs[i] \in Seq(T) /\ Len(seqs[i]) \in Nat
  OBVIOUS
<1>1. /\ all \in Seq(T) /\ Len(all) = off[n]
      /\ \A i \in 1 .. n : \A k \in 1 .. Len(seqs[i]) : all[off[i - 1] + k] = seqs[i][k]
  BY FlattenAt
<1> DEFINE Up == {j \in 0 .. n : off[j] \in Nat /\ \A i \in 0 .. j : off[i] \in Nat /\ off[i] <= off[j]}
<1>2. 0 \in Up
  BY <1>0
<1>3. ASSUME NEW j \in 1 .. n, j - 1 \in Up PROVE j \in Up
  <2>1. off[j - 1] \in Nat /\ (\A i \in 0 .. j - 1 : off[i] \in Nat /\ off[i] <= off[j - 1]) /\ j \in 0 .. n
    BY <1>3
  <2>2. off[j] = off[j - 1] + Len(seqs[j]) /\ Len(seqs[j]) \in Nat
    BY <1>0
  <2>3. off[j] \in Nat /\ off[j - 1] <= off[j]
    BY <2>1, <2>2
  <2>4. ASSUME NEW i \in 0 .. j PROVE off[i] \in Nat /\ off[i] <= off[j]
    <3>1. CASE i = j
      BY <3>1, <2>3
    <3>2. CASE i # j
      <4>1. i \in 0 .. j - 1
        BY <3>2
      <4>2. off[i] \in Nat /\ off[i] <= off[j - 1]
        BY <2>1, <4>1
      <4> QED BY <4>2, <2>1, <2>3
    <3> QED BY <3>1, <3>2
  <2> QED BY <2>1, <2>3, <2>4
<1>4. \A j \in 0 .. n : j \in Up
  <2> HIDE DEF Up, n
  <2> QED BY <1>0, <1>2, <1>3, InductionUpTo
<1>5. \A i \in 0 .. n : off[i] \in Nat /\ off[i] <= off[n]
  <2>1. n \in 0 .. n
    BY <1>0
  <2>2. n \in Up
    BY <2>1, <1>4
  <2> QED BY <2>2
<1>6. ASSUME NEW i \in 1 .. n PROVE Slice(all, off[i - 1], off[i]) = seqs[i]
  <2> DEFINE a == off[i - 1]
             b == off[i]
             t == seqs[i]
  <2>1. i \in 0 .. n /\ i - 1 \in 0 .. n
    BY <1>0
  <2>2. /\ a \in Nat /\ b \in Nat /\ b <= Len(all) /\ b = a + Len(t)
        /\ t \in Seq(T) /\ Len(t) \in Nat
    BY <1>0, <1>1, <1>5, <2>1
  <2>3. \A k \in 1 .. Len(t) : all[a + k] = t[k]
    BY <1>1
  <2>8. all \in Seq(T)
    BY <1>1
  <2> HIDE DEF a, b, t, all
  <2>4. a <= b /\ Len(t) = b - a
    BY <2>2
  <2>5. \A k \in 1 .. b - a : t[k] = all[a + k]
    BY <2>3, <2>4
  <2>6. a \in Nat /\ b \in Nat /\ b <= Len(all) /\ t \in Seq(T) /\ all \in Seq(T)
    BY <2>2, <2>8
  <2>7. t = Slice(all, a, b)
    BY ONLY <2>4, <2>5, <2>6, SliceEqual
  <2> QED BY <2>7 DEF t, a, b
<1> QED BY <1>1, <1>5, <1>6

\* ... and slices one behind the other join to the slice from the first to the last.
LEMMA JoinSlices ==
  ASSUME NEW T, NEW s \in Seq(T), NEW seqs \in Seq(Seq(T)), NEW off,
         \A i \in 0 .. Len(seqs) : off[i] \in Nat /\ off[i] <= Len(s) /\ off[0] <= off[i],
         \A i \in 1 .. Len(seqs) :
           off[i - 1] <= off[i] /\ seqs[i] = Slice(s, off[i - 1], off[i])
  PROVE  FlattenSeq(seqs) = Slice(s, off[0], off[Len(seqs)])
<1> DEFINE n == Len(seqs)
<1>0. n \in Nat /\ 0 \in 0 .. n
  OBVIOUS
<1>1. PICK run \in [0 .. n -> Seq(T)] :
           /\ run[0] = <<>>
           /\ \A i \in 1 .. n : run[i] = run[i - 1] \o seqs[i]
           /\ FlattenSeq(seqs) = run[n]
  BY FlattenRuns
<1> DEFINE Joined == {i \in 0 .. n : run[i] = Slice(s, off[0], off[i])}
<1>2. 0 \in Joined
  <2>1. off[0] \in Nat
    BY <1>0
  <2>2. Slice(s, off[0], off[0]) = <<>>
    BY <2>1, SliceEmpty
  <2> QED BY <1>0, <1>1, <2>2
<1>3. ASSUME NEW i \in 1 .. n, i - 1 \in Joined PROVE i \in Joined
  <2> DEFINE a == off[0]
             b == off[i - 1]
             c == off[i]
  <2>0. i \in 0 .. n /\ i - 1 \in 0 .. n
    BY <1>0
  <2>1. a \in Nat /\ b \in Nat /\ c \in Nat /\ a <= b /\ b <= c /\ c <= Len(s)
    BY <1>0, <2>0
  <2>2. run[i] = Slice(s, a, b) \o Slice(s, b, c)
    BY <1>1, <1>3
  <2> HIDE DEF a, b, c
  <2>3. run[i] = Slice(s, a, c)
    BY <2>1, <2>2, SliceJoin
  <2> QED BY <2>0, <2>3 DEF a, c
<1>4. \A i \in 0 .. n : i \in Joined
  <2> HIDE DEF Joined, n
  <2> QED BY <1>0, <1>2, <1>3, InductionUpTo
<1>5. n \in 0 .. n
  BY <1>0
<1> QED BY <1>1, <1>4, <1>5

LEMMA SliceAppend ==
  ASSUME NEW S, NEW s \in Seq(S), NEW a \in Nat, NEW b \in Nat, a <= b, b + 1 <= Len(s)
  PROVE  Append(Slice(s, a, b), s[b + 1]) = Slice(s, a, b + 1)
<1> DEFINE t == Slice(s, a, b)
           x == s[b + 1]
           u == Append(t, x)
           c == b + 1
<1>1. t \in Seq(S) /\ Len(t) = b - a /\ \A i \in 1 .. b - a : t[i] = s[a + i]
  <2>1. b <= Len(s)
    OBVIOUS
  <2> QED BY <2>1, SliceParts
<1>2. x \in S
  <2>1. b + 1 \in 1 .. Len(s)
    OBVIOUS
  <2> QED BY <2>1
<1>3. c \in Nat /\ a <= c /\ c <= Len(s) /\ c - a = (b - a) + 1 /\ s[c] = x
  OBVIOUS
<1> HIDE DEF t, x, c
<1>4. /\ u \in Seq(S) /\ Len(u) = (b - a) + 1 /\ u[(b - a) + 1] = x
      /\ \A i \in 1 .. b - a : u[i] = t[i]
  <2>1. u \in Seq(S) /\ Len(u) = Len(t) + 1 /\ u[Len(t) + 1] = x
        /\ \A i \in 1 .. Len(t) : u[i] = t[i]
    BY <1>1, <1>2, AppendProperties
  <2> HIDE DEF u
  <2> QED BY <1>1, <2>1
<1> HIDE DEF u
<1>5. ASSUME NEW i \in 1 .. c - a PROVE u[i] = s[a + i]
  <2>1. CASE i = (b - a) + 1
    <3>1. a + i = b + 1
      BY <2>1
    <3> QED BY <2>1, <3>1, <1>4 DEF x
  <2>2. CASE i # (b - a) + 1
    <3>1. i \in 1 .. b - a
      BY <2>2, <1>3
    <3> QED BY <3>1, <1>1, <1>4
  <2> QED BY <2>1, <2>2
<1>6. Len(u) = c - a
  BY <1>3, <1>4
<1>7. u = Slice(s, a, c)
  BY ONLY <1>3, <1>4, <1>5, <1>6, SliceEqual, s \in Seq(S), a \in Nat
<1> QED BY <1>7 DEF u, t, x, c

-----------------------------------------------------------------------------
\* A quotient is the number of whole divisors below.
LEMMA Quotient ==
  ASSUME NEW p \in Nat \ {0}, NEW a \in Nat
  PROVE  /\ a \div p \in Nat /\ (a \div p) * p \in Nat /\ (a \div p) * p <= a
         /\ a < (a \div p) * p + p
         /\ \A q \in Nat : q * p <= a /\ a < q * p + p => a \div p = q
<1>1. /\ a \div p \in Nat /\ (a \div p) * p \in Nat /\ (a \div p) * p <= a
      /\ a < (a \div p) * p + p
  OBVIOUS
<1>2. ASSUME NEW q \in Nat, q * p <= a, a < q * p + p PROVE a \div p = q
  <2> DEFINE d == a \div p
  <2>0. d \in Nat /\ d * p \in Nat /\ d * p <= a /\ a < d * p + p
    BY <1>1
  <2> HIDE DEF d
  <2>1. CASE d < q
    <3>1. PICK k \in Nat : q = d + k /\ k >= 1
      <4>1. q - d \in Nat /\ q = d + (q - d) /\ q - d >= 1
        BY <2>0, <2>1
      <4> QED BY <4>1
    <3>2. q * p = d * p + k * p /\ k * p >= p
      BY <3>1, <2>0
    <3> QED BY <3>2, <2>0, <1>2
  <2>2. CASE q < d
    <3>1. PICK k \in Nat : d = q + k /\ k >= 1
      <4>1. d - q \in Nat /\ d = q + (d - q) /\ d - q >= 1
        BY <2>0, <2>2
      <4> QED BY <4>1
    <3>2. d * p = q * p + k * p /\ k * p >= p
      BY <3>1, <2>0
    <3> QED BY <3>2, <2>0, <1>2
  <2> QED BY <2>0, <2>1, <2>2 DEF d
<1> QED BY <1>1, <1>2

LEMMA JoinsAssociate ==
  ASSUME NEW T
  PROVE  \A a, b, c \in Seq(T) : (a \o b) \o c = a \o (b \o c)
<1> SUFFICES ASSUME NEW a \in Seq(T), NEW b \in Seq(T), NEW c \in Seq(T)
             PROVE  (a \o b) \o c = a \o (b \o c)
  OBVIOUS
<1> QED BY ConcatAssociative

\* Sequences joined one after the other may be joined in two goes.
LEMMA FlattenJoin ==
  ASSUME NEW T, NEW s, NEW t, s \in Seq(Seq(T)), t \in Seq(Seq(T))
  PROVE  /\ FlattenSeq(s \o t) = FlattenSeq(s) \o FlattenSeq(t)
         /\ FlattenSeq(s) \in Seq(T) /\ FlattenSeq(t) \in Seq(T) /\ FlattenSeq(s \o t) \in Seq(T)
<1> DEFINE V == Seq(T)
           m == Len(s)
           n == Len(t)
           u == s \o t
<1>0. \A a, b, c \in Seq(T) : (a \o b) \o c = a \o (b \o c)
  BY ONLY JoinsAssociate
<1>1. m \in Nat /\ n \in Nat /\ u \in Seq(V) /\ Len(u) = m + n
  <2>1. s \in Seq(V) /\ t \in Seq(V)
    OBVIOUS
  <2> HIDE DEF V
  <2> QED BY <2>1, ConcatProperties
<1>2. /\ \A i \in 1 .. m : u[i] = s[i] /\ s[i] \in V
      /\ \A i \in 1 .. n : u[m + i] = t[i] /\ t[i] \in V
  <2>1. s \in Seq(V) /\ t \in Seq(V)
    OBVIOUS
  <2> HIDE DEF V
  <2>2. \A i \in 1 .. m + n : u[i] = IF i <= m THEN s[i] ELSE t[i - m]
    BY <2>1, ConcatProperties
  <2>3. \A i \in 1 .. m : u[i] = s[i] /\ s[i] \in V
    BY <1>1, <2>1, <2>2
  <2>4. ASSUME NEW i \in 1 .. n PROVE u[m + i] = t[i] /\ t[i] \in V
    <3>1. m + i \in 1 .. m + n /\ ~ (m + i <= m) /\ (m + i) - m = i
      BY <1>1
    <3> HIDE DEF u, m
    <3> QED BY <2>1, <2>2, <3>1
  <2> QED BY <2>3, <2>4
<1>3. PICK f \in [0 .. m -> V] :
         f[0] = <<>> /\ (\A i \in 1 .. m : f[i] = f[i - 1] \o s[i]) /\ FlattenSeq(s) = f[m]
  BY FlattenRuns
<1>4. PICK g \in [0 .. n -> V] :
         g[0] = <<>> /\ (\A i \in 1 .. n : g[i] = g[i - 1] \o t[i]) /\ FlattenSeq(t) = g[n]
  BY FlattenRuns
<1>a. PICK h \in [0 .. Len(u) -> Seq(T)] :
         h[0] = <<>> /\ (\A i \in 1 .. Len(u) : h[i] = h[i - 1] \o u[i]) /\ FlattenSeq(u) = h[Len(u)]
  <2> HIDE DEF u
  <2>1. u \in Seq(Seq(T))
    BY <1>1
  <2> QED BY <2>1, FlattenRuns
<1>5. /\ h \in [0 .. m + n -> V] /\ h[0] = <<>>
      /\ (\A i \in 1 .. m + n : h[i] = h[i - 1] \o u[i]) /\ FlattenSeq(u) = h[m + n]
  <2> HIDE DEF u, m, n
  <2> QED BY <1>a, <1>1
<1> DEFINE First == {i \in 0 .. m : h[i] = f[i]}
           Rest  == {i \in 0 .. n : h[m + i] = f[m] \o g[i]}
<1> HIDE DEF V, u, m, n
<1>6. \A i \in 0 .. m : i \in First
  <2>1. 0 \in First
    BY <1>1, <1>3, <1>5
  <2>2. ASSUME NEW i \in 1 .. m, i - 1 \in First PROVE i \in First
    <3>1. i \in 1 .. m + n /\ i \in 0 .. m
      BY <1>1
    <3>2. h[i] = h[i - 1] \o u[i] /\ f[i] = f[i - 1] \o s[i] /\ u[i] = s[i] /\ h[i - 1] = f[i - 1]
      BY <1>2, <1>3, <1>5, <2>2, <3>1
    <3> QED BY <3>1, <3>2
  <2> HIDE DEF First
  <2> QED BY <1>1, <2>1, <2>2, InductionUpTo
<1>7. f[m] \in V /\ h[m] = f[m]
  BY <1>1, <1>3, <1>6
<1>8. \A i \in 0 .. n : i \in Rest
  <2>1. 0 \in Rest
    <3>1. f[m] \o <<>> = f[m] /\ m + 0 = m /\ 0 \in 0 .. n
      BY <1>1, <1>7, ConcatEmptySeq DEF V
    <3> QED BY <1>4, <1>7, <3>1
  <2>2. ASSUME NEW i \in 1 .. n, i - 1 \in Rest PROVE i \in Rest
    <3>1. m + i \in 1 .. m + n /\ i \in 0 .. n /\ i - 1 \in 0 .. n /\ (m + i) - 1 = m + (i - 1)
      BY <1>1
    <3>2. h[m + i] = h[m + (i - 1)] \o t[i] /\ h[m + (i - 1)] = f[m] \o g[i - 1]
      BY <1>2, <1>5, <2>2, <3>1
    <3>3. g[i] = g[i - 1] \o t[i] /\ g[i - 1] \in V /\ t[i] \in V
      BY <1>2, <1>4, <3>1
    <3>4. (f[m] \o g[i - 1]) \o t[i] = f[m] \o (g[i - 1] \o t[i])
      <4>1. f[m] \in Seq(T) /\ g[i - 1] \in Seq(T) /\ t[i] \in Seq(T)
        BY <1>7, <3>3 DEF V
      <4> QED BY ONLY <4>1, <1>0
    <3> QED BY <3>1, <3>2, <3>3, <3>4
  <2> HIDE DEF Rest
  <2> QED BY <1>1, <2>1, <2>2, InductionUpTo
<1>9. n \in 0 .. n /\ m + n \in 0 .. m + n /\ m \in 0 .. m
  BY <1>1
<1>10. FlattenSeq(u) = FlattenSeq(s) \o FlattenSeq(t)
  BY <1>3, <1>4, <1>5, <1>8, <1>9
<1> QED BY <1>3, <1>4, <1>5, <1>9, <1>10 DEF u, V

\* One of them is itself, none is nothing.
LEMMA FlattenOne ==
  ASSUME NEW T, NEW x \in Seq(T)
  PROVE  FlattenSeq(<<x>>) = x /\ FlattenSeq(<<>>) = <<>>
<1> DEFINE V == Seq(T)
           s == <<x>>
<1>1. s \in Seq(V) /\ Len(s) = 1 /\ s[1] = x
  OBVIOUS
<1>2. PICK f \in [0 .. Len(s) -> Seq(T)] :
         f[0] = <<>> /\ (\A i \in 1 .. Len(s) : f[i] = f[i - 1] \o s[i]) /\ FlattenSeq(s) = f[Len(s)]
  <2>1. s \in Seq(Seq(T))
    OBVIOUS
  <2> HIDE DEF s
  <2> QED BY <2>1, FlattenRuns
<1>3. f[1] = <<>> \o x /\ FlattenSeq(s) = f[1]
  <2>1. 1 \in 1 .. Len(s) /\ 1 - 1 = 0
    BY <1>1
  <2>2. f[1] = f[1 - 1] \o s[1]
    BY <1>2, <2>1
  <2> HIDE DEF s
  <2> QED BY <1>1, <1>2, <2>1, <2>2
<1>4. <<>> \o x = x
  BY ConcatEmptySeq
<1>5. FlattenSeq(<<>>) = <<>>
  BY DEF FlattenSeq
<1> QED BY <1>2, <1>3, <1>4, <1>5
=============================================================================
