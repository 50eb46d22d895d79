-------------------------- MODULE StatementsProofs --------------------------
(***************************************************************************)
(* Theorems about prepared statements.  First about Statements and the     *)
(* section allocator under it (SectionManager), for every number of        *)
(* callers and statements, every size of the bitmap and every limit on the *)
(* sections.  Then about the calls of Parameters, for every text, every    *)
(* arguments, every type and every byte order: what rewriteBinaryParams    *)
(* leaves of a text, what the descriptor of the parameters says to its     *)
(* reader, and the states a call goes through.                             *)
(***************************************************************************)
EXTENDS Statements, Parameters, DataProofs, FiniteSetTheorems, TLAPS

\* Division with remainder by the word size, as a fact the arithmetic backend
\* can use.
LEMMA Division ==
  ASSUME NEW a \in Nat
  PROVE  /\ a \div WordBits \in Nat
         /\ a % WordBits \in 0 .. WordBits - 1
         /\ a = WordBits * (a \div WordBits) + (a % WordBits)
<1>1. WordBits \in Nat /\ WordBits > 0
  BY SectionAssumption
<1> QED BY <1>1

\* Two sections never share a bit of the bitmap.
LEMMA OneBitPerSection ==
  ASSUME NEW a \in Nat, NEW b \in Nat,
         a \div WordBits = b \div WordBits,
         a % WordBits = b % WordBits
  PROVE  a = b
<1>1. a = WordBits * (a \div WordBits) + (a % WordBits)
  BY Division
<1>2. b = WordBits * (b \div WordBits) + (b % WordBits)
  BY Division
<1> QED BY <1>1, <1>2

\* Every section up to maxSec has its bit inside the bitmap.
LEMMA BitInBitmap ==
  ASSUME NEW sec \in 0 .. maxSec
  PROVE  /\ sec \div WordBits \in 0 .. Words - 1
         /\ sec % WordBits \in 0 .. WordBits - 1
<1>1. sec \in Nat /\ sec <= MaxDrdaSections
  BY SectionAssumption DEF maxSec
<1>2. sec < Words * WordBits
  BY <1>1, SectionAssumption
<1> DEFINE w == sec \div WordBits
<1>3. /\ w \in Nat
      /\ sec % WordBits \in 0 .. WordBits - 1
      /\ sec = WordBits * w + (sec % WordBits)
  BY <1>1, Division
<1>4. w < Words
  <2>1. SUFFICES ASSUME w >= Words PROVE FALSE
    BY <1>3, SectionAssumption
  <2>2. WordBits * w >= WordBits * Words
    BY <2>1, <1>3, SectionAssumption
  <2> QED BY <2>2, <1>2, <1>3, SectionAssumption
<1> QED BY <1>3, <1>4, SectionAssumption

-----------------------------------------------------------------------------
\* Setting or clearing the bit of one section changes that section only.
LEMMA WithBitOccupies ==
  ASSUME SectionTypeOK, NEW sec \in 0 .. maxSec, bitmap' = WithBit(sec)
  PROVE  /\ bitmap' \in [0 .. Words - 1 -> SUBSET (0 .. WordBits - 1)]
         /\ \A s \in 0 .. maxSec : Occupied(s)' <=> (Occupied(s) \/ s = sec)
<1>1. /\ sec \div WordBits \in 0 .. Words - 1
      /\ sec % WordBits \in 0 .. WordBits - 1
  BY BitInBitmap
<1>2. bitmap' \in [0 .. Words - 1 -> SUBSET (0 .. WordBits - 1)]
  BY <1>1 DEF SectionTypeOK, WithBit
<1>3. ASSUME NEW s \in 0 .. maxSec
      PROVE  Occupied(s)' <=> (Occupied(s) \/ s = sec)
  <2>1. s \div WordBits \in 0 .. Words - 1
    BY BitInBitmap
  <2>2. CASE s \div WordBits = sec \div WordBits
    <3>1. (s % WordBits = sec % WordBits) <=> s = sec
      BY <2>2, OneBitPerSection, s \in Nat, sec \in Nat, SectionAssumption DEF maxSec
    <3> QED BY <1>1, <2>1, <2>2, <3>1 DEF SectionTypeOK, WithBit, Occupied
  <2>3. CASE s \div WordBits # sec \div WordBits
    BY <1>1, <2>1, <2>3 DEF SectionTypeOK, WithBit, Occupied
  <2> QED BY <2>2, <2>3
<1> QED BY <1>2, <1>3

LEMMA WithoutBitFrees ==
  ASSUME SectionTypeOK, NEW sec \in 0 .. maxSec, bitmap' = WithoutBit(sec)
  PROVE  /\ bitmap' \in [0 .. Words - 1 -> SUBSET (0 .. WordBits - 1)]
         /\ \A s \in 0 .. maxSec : Occupied(s)' <=> (Occupied(s) /\ s # sec)
<1>1. /\ sec \div WordBits \in 0 .. Words - 1
      /\ sec % WordBits \in 0 .. WordBits - 1
  BY BitInBitmap
<1>2. bitmap' \in [0 .. Words - 1 -> SUBSET (0 .. WordBits - 1)]
  BY <1>1 DEF SectionTypeOK, WithoutBit
<1>3. ASSUME NEW s \in 0 .. maxSec
      PROVE  Occupied(s)' <=> (Occupied(s) /\ s # sec)
  <2>1. s \div WordBits \in 0 .. Words - 1
    BY BitInBitmap
  <2>2. CASE s \div WordBits = sec \div WordBits
    <3>1. (s % WordBits = sec % WordBits) <=> s = sec
      BY <2>2, OneBitPerSection, s \in Nat, sec \in Nat, SectionAssumption DEF maxSec
    <3> QED BY <1>1, <2>1, <2>2, <3>1 DEF SectionTypeOK, WithoutBit, Occupied
  <2>3. CASE s \div WordBits # sec \div WordBits
    BY <1>1, <2>1, <2>3 DEF SectionTypeOK, WithoutBit, Occupied
  <2> QED BY <2>2, <2>3
<1> QED BY <1>2, <1>3

-----------------------------------------------------------------------------
\* The section after sec in the order of the scan.
After(sec) == IF sec = maxSec THEN 2 ELSE sec + 1

LEMMA MaxSecNat == maxSec \in Nat \ {0}
BY SectionAssumption DEF maxSec

\* The scan stays in the assignable range, going from one section to the next.
LEMMA ScanAssignable ==
  ASSUME SectionTypeOK, NEW i \in Scan
  PROVE  /\ Candidate(i) \in Assignable
         /\ Candidate(i + 1) \in Assignable
         /\ Candidate(i + 1) = After(Candidate(i))
<1>1. /\ maxSec \in Nat /\ maxSec >= 2
      /\ i \in Nat /\ i <= maxSec - 2
      /\ nextFree \in Nat /\ nextFree >= 2 /\ nextFree <= maxSec
  BY MaxSecNat DEF SectionTypeOK, Scan, Assignable
<1>2. Candidate(i) \in Assignable
  BY <1>1 DEF Candidate, Assignable
<1>3. Candidate(i + 1) = After(Candidate(i))
  BY <1>1 DEF Candidate, After
<1>4. After(Candidate(i)) \in Assignable
  BY <1>1, <1>2 DEF After, Assignable
<1> QED BY <1>2, <1>3, <1>4

\* The scan looks at every assignable section.
LEMMA ScanComplete ==
  ASSUME SectionTypeOK, NEW sec \in Assignable
  PROVE  \E i \in Scan : Candidate(i) = sec
<1>1. maxSec >= 2 /\ nextFree \in Assignable
  BY MaxSecNat DEF SectionTypeOK, Assignable
<1>2. CASE sec >= nextFree
  <2>1. sec - nextFree \in Scan /\ Candidate(sec - nextFree) = sec
    BY <1>1, <1>2, MaxSecNat DEF Scan, Candidate, Assignable
  <2> QED BY <2>1
<1>3. CASE sec < nextFree
  <2> DEFINE i == sec + (maxSec - 1) - nextFree
  <2>1. i \in Scan /\ Candidate(i) = sec
    BY <1>1, <1>3, MaxSecNat DEF Scan, Candidate, Assignable
  <2> QED BY <2>1
<1> QED BY <1>1, <1>2, <1>3, MaxSecNat DEF Assignable

-----------------------------------------------------------------------------
\* After a grant the scan starts right behind the section granted, whatever was
\* released or refused since.
ScanBehindGrant == acquired # NoSection => nextFree = After(acquired)

SectionInv == SectionTypeOK /\ ReservedHeld /\ ScanBehindGrant

LEMMA SectionInitInv == SectionInit => SectionInv
<1> SUFFICES ASSUME SectionInit PROVE SectionInv
  OBVIOUS
<1>1. 0 \div WordBits = 0 /\ 0 % WordBits = 0 /\ 1 \div WordBits = 0 /\ 1 % WordBits = 1
  BY SectionAssumption
<1>2. SectionTypeOK
  BY SectionAssumption DEF SectionInit, SectionTypeOK
<1>3. ReservedHeld
  BY <1>1, SectionAssumption DEF SectionInit, ReservedHeld, Occupied
<1> QED BY <1>2, <1>3 DEF SectionInv, SectionInit, ScanBehindGrant

\* What a grant does, in terms of the sections: it takes one nobody held.
LEMMA GrantEffect ==
  ASSUME SectionInv, NEW i \in Scan,
         ~ Occupied(Candidate(i)),
         bitmap' = WithBit(Candidate(i)),
         nextFree' = Candidate(i + 1),
         acquired' = Candidate(i)
  PROVE  /\ SectionInv'
         /\ Candidate(i) \in Assignable
         /\ \A s \in 0 .. maxSec : Occupied(s)' <=> (Occupied(s) \/ s = Candidate(i))
<1> DEFINE sec == Candidate(i)
<1>1. /\ sec \in Assignable
      /\ Candidate(i + 1) \in Assignable
      /\ Candidate(i + 1) = After(sec)
  BY ScanAssignable DEF SectionInv
<1>2. sec \in 0 .. maxSec /\ 0 \in 0 .. maxSec /\ 1 \in 0 .. maxSec
  BY <1>1, MaxSecNat DEF Assignable
<1>3. /\ bitmap' \in [0 .. Words - 1 -> SUBSET (0 .. WordBits - 1)]
      /\ \A s \in 0 .. maxSec : Occupied(s)' <=> (Occupied(s) \/ s = sec)
  BY <1>2, WithBitOccupies DEF SectionInv
<1>4. SectionTypeOK'
  BY <1>1, <1>3 DEF SectionTypeOK, Assignable
<1>5. ReservedHeld'
  <2>1. Occupied(0)' /\ Occupied(1)'
    BY <1>2, <1>3 DEF SectionInv, ReservedHeld
  <2> QED BY <2>1 DEF ReservedHeld
<1>6. ScanBehindGrant'
  BY <1>1 DEF ScanBehindGrant, After
<1> QED BY <1>1, <1>3, <1>4, <1>5, <1>6 DEF SectionInv

\* What a release of an assignable section does: it frees that section only.
LEMMA ReleaseEffect ==
  ASSUME SectionInv, NEW sec \in Assignable, Release(sec)
  PROVE  /\ SectionInv'
         /\ \A s \in 0 .. maxSec : Occupied(s)' <=> (Occupied(s) /\ s # sec)
<1>1. /\ sec \in 0 .. maxSec /\ sec # 0 /\ sec # 1
      /\ 0 \in 0 .. maxSec /\ 1 \in 0 .. maxSec
  BY MaxSecNat DEF Assignable
<1>2. bitmap' = WithoutBit(sec) /\ nextFree' = nextFree /\ acquired' = acquired
  BY MaxSecNat DEF Release, Assignable
<1>3. /\ bitmap' \in [0 .. Words - 1 -> SUBSET (0 .. WordBits - 1)]
      /\ \A s \in 0 .. maxSec : Occupied(s)' <=> (Occupied(s) /\ s # sec)
  BY <1>1, <1>2, WithoutBitFrees DEF SectionInv
<1>4. SectionTypeOK'
  BY <1>2, <1>3 DEF SectionInv, SectionTypeOK, Assignable
<1>5. ReservedHeld'
  <2>1. Occupied(0)' /\ Occupied(1)'
    BY <1>1, <1>3 DEF SectionInv, ReservedHeld
  <2> QED BY <2>1 DEF ReservedHeld
<1>6. ScanBehindGrant'
  BY <1>2 DEF SectionInv, ScanBehindGrant, After
<1> QED BY <1>3, <1>4, <1>5, <1>6 DEF SectionInv

\* A release out of the assignable range leaves the allocator as it is.
LEMMA ReleaseOutside ==
  ASSUME NEW sec \in 0 .. maxSec + 1, sec \notin Assignable, Release(sec)
  PROVE  UNCHANGED sectionVars
BY MaxSecNat DEF Release, Assignable, sectionVars

LEMMA SectionInvStutter ==
  ASSUME SectionInv, bitmap' = bitmap, nextFree' = nextFree,
         acquired' = acquired \/ acquired' = NoSection
  PROVE  SectionInv'
<1>1. SectionTypeOK'
  BY DEF SectionInv, SectionTypeOK, Assignable
<1>2. ReservedHeld'
  BY DEF SectionInv, ReservedHeld, Occupied
<1>3. ScanBehindGrant'
  BY DEF SectionInv, ScanBehindGrant, After
<1> QED BY <1>1, <1>2, <1>3 DEF SectionInv

LEMMA SectionNextInv == SectionInv /\ [SectionNext]_sectionVars => SectionInv'
<1> SUFFICES ASSUME SectionInv, [SectionNext]_sectionVars
             PROVE  SectionInv'
  OBVIOUS
<1>1. CASE AcquireFirst
  BY <1>1, GrantEffect DEF AcquireFirst
<1>2. CASE AcquireNone
  BY <1>2, SectionInvStutter DEF AcquireNone
<1>3. ASSUME NEW sec \in 0 .. maxSec + 1, Release(sec)
      PROVE  SectionInv'
  <2>1. CASE sec \in Assignable
    BY <1>3, <2>1, ReleaseEffect
  <2>2. CASE sec \notin Assignable
    BY <1>3, <2>2, ReleaseOutside, SectionInvStutter DEF sectionVars
  <2> QED BY <2>1, <2>2
<1>4. CASE UNCHANGED sectionVars
  BY <1>4, SectionInvStutter DEF sectionVars
<1> QED BY <1>1, <1>2, <1>3, <1>4 DEF SectionNext, Acquire

\* The allocator keeps its shape, its reserved sections and the position of its
\* scan for ever.
THEOREM SectionSafety == SectionSpec => [](SectionTypeOK /\ ReservedHeld)
<1>1. SectionInit => SectionInv
  BY SectionInitInv
<1>2. SectionInv /\ [SectionNext]_sectionVars => SectionInv'
  BY SectionNextInv
<1>3. SectionInv => SectionTypeOK /\ ReservedHeld
  BY DEF SectionInv
<1> QED BY <1>1, <1>2, <1>3, PTL DEF SectionSpec

-----------------------------------------------------------------------------
held == {sec \in Assignable : Occupied(sec)}

LEMMA PoolInit == SectionInit => SectionPoolOf!Init
<1> SUFFICES ASSUME SectionInit PROVE SectionPoolOf!Init
  OBVIOUS
<1>1. ASSUME NEW sec \in Assignable PROVE ~ Occupied(sec)
  <2>1. sec \in Nat /\ sec \in 0 .. maxSec /\ sec # 0 /\ sec # 1
    BY MaxSecNat DEF Assignable
  <2>2. sec \div WordBits \in 0 .. Words - 1
    BY <2>1, BitInBitmap
  <2>3. sec \div WordBits = 0 => sec % WordBits \notin {0, 1}
    <3>1. sec = WordBits * (sec \div WordBits) + (sec % WordBits)
      BY <2>1, Division
    <3> QED BY <2>1, <3>1, SectionAssumption
  <2> QED BY <2>2, <2>3 DEF SectionInit, Occupied
<1>2. held = {}
  BY <1>1 DEF held
<1> QED BY <1>2 DEF held, SectionInit, SectionPoolOf!Init, NoSection, SectionPoolOf!NoSection

LEMMA PoolStep ==
  SectionInv /\ [SectionNext]_sectionVars => [SectionPoolOf!Next]_(SectionPoolOf!poolVars)
<1> SUFFICES ASSUME SectionInv, [SectionNext]_sectionVars
             PROVE  [SectionPoolOf!Next]_(SectionPoolOf!poolVars)
  OBVIOUS
<1> USE DEF held
<1>1. CASE AcquireFirst
  <2>1. PICK i \in Scan :
          /\ ~ Occupied(Candidate(i))
          /\ bitmap' = WithBit(Candidate(i))
          /\ nextFree' = Candidate(i + 1)
          /\ acquired' = Candidate(i)
    BY <1>1 DEF AcquireFirst
  <2>2. /\ Candidate(i) \in Assignable
        /\ \A s \in 0 .. maxSec : Occupied(s)' <=> (Occupied(s) \/ s = Candidate(i))
    BY <2>1, GrantEffect
  <2>3. \A s \in Assignable : s \in 0 .. maxSec
    BY MaxSecNat DEF Assignable
  <2>4. Assignable' = Assignable
    BY DEF Assignable, maxSec
  <2>5. held' = held \cup {Candidate(i)}
    BY <2>2, <2>3, <2>4
  <2>6. SectionPoolOf!Grant(Candidate(i))
    BY <2>1, <2>2, <2>5 DEF SectionPoolOf!Grant
  <2> QED BY <2>2, <2>6 DEF SectionPoolOf!Next
<1>2. CASE AcquireNone
  <2>1. held = Assignable
    BY <1>2, ScanComplete DEF AcquireNone, SectionInv
  <2>2. held' = held
    BY <1>2 DEF AcquireNone, Occupied, Assignable, maxSec
  <2>3. SectionPoolOf!Refuse
    BY <1>2, <2>1, <2>2 DEF AcquireNone, SectionPoolOf!Refuse, NoSection,
                            SectionPoolOf!NoSection
  <2> QED BY <2>3 DEF SectionPoolOf!Next
<1>3. ASSUME NEW sec \in 0 .. maxSec + 1, Release(sec)
      PROVE  [SectionPoolOf!Next]_(SectionPoolOf!poolVars)
  <2>1. CASE sec \in Assignable
    <3>1. \A s \in 0 .. maxSec : Occupied(s)' <=> (Occupied(s) /\ s # sec)
      BY <1>3, <2>1, ReleaseEffect
    <3>2. \A s \in Assignable : s \in 0 .. maxSec
      BY MaxSecNat DEF Assignable
    <3>3. Assignable' = Assignable
      BY DEF Assignable, maxSec
    <3>4. held' = held \ {sec}
      BY <3>1, <3>2, <3>3
    <3>5. acquired' = acquired
      BY <1>3 DEF Release
    <3>6. CASE sec \in held
      BY <2>1, <3>4, <3>5, <3>6 DEF SectionPoolOf!Return, SectionPoolOf!Next
    <3>7. CASE sec \notin held
      BY <3>4, <3>5, <3>7 DEF SectionPoolOf!poolVars
    <3> QED BY <3>6, <3>7
  <2>2. CASE sec \notin Assignable
    <3>1. UNCHANGED sectionVars
      BY <1>3, <2>2, ReleaseOutside
    <3> QED BY <3>1 DEF sectionVars, SectionPoolOf!poolVars, Occupied, Assignable, maxSec
  <2> QED BY <2>1, <2>2
<1>4. CASE UNCHANGED sectionVars
  BY <1>4 DEF sectionVars, SectionPoolOf!poolVars, Occupied, Assignable, maxSec
<1> QED BY <1>1, <1>2, <1>3, <1>4 DEF SectionNext, Acquire

\* The bitmap and its scan implement the section pool: whoever Acquire gives a
\* section to is its only holder, and it fails only when all are held.
THEOREM SectionRefinement == SectionSpec => ImplementsPool
<1>1. SectionInit => SectionInv /\ SectionPoolOf!Init
  BY SectionInitInv, PoolInit
<1>2. SectionInv /\ [SectionNext]_sectionVars => SectionInv'
  BY SectionNextInv
<1>3. SectionInv /\ [SectionNext]_sectionVars
        => [SectionPoolOf!Next]_(SectionPoolOf!poolVars)
  BY PoolStep
<1> QED BY <1>1, <1>2, <1>3, PTL DEF SectionSpec, ImplementsPool, SectionPoolOf!Spec

-----------------------------------------------------------------------------
\* The section granted last is the last one the next scan looks at.
LEMMA GrantedIsLast ==
  ASSUME SectionInv, NEW i \in Scan, acquired # NoSection, Candidate(i) = acquired
  PROVE  i = maxSec - 2
<1>1. /\ maxSec \in Nat /\ maxSec >= 2
      /\ i \in Nat /\ i <= maxSec - 2
  BY MaxSecNat DEF Scan
<1>2. /\ acquired \in Nat /\ acquired >= 2 /\ acquired <= maxSec
      /\ nextFree = After(acquired)
  BY <1>1 DEF SectionInv, SectionTypeOK, ScanBehindGrant, Assignable
<1>3. CASE acquired = maxSec
  BY <1>1, <1>2, <1>3 DEF Candidate, After
<1>4. CASE acquired # maxSec
  BY <1>1, <1>2, <1>4 DEF Candidate, After
<1> QED BY <1>3, <1>4

\* A section granted twice in a row is granted the second time only because no
\* other section is free.
THEOREM SectionRotation == SectionSpec => RotatesAway
<1> DEFINE Rotates ==
      \A sec \in Assignable :
        (acquired = sec /\ ~ Occupied(sec) /\ Occupied(sec)')
          => \A other \in Assignable \ {sec} : Occupied(other)
<1>1. ASSUME SectionInv, [SectionNext]_sectionVars
      PROVE  Rotates \/ UNCHANGED sectionVars
  <2>1. CASE AcquireFirst
    <3>1. PICK i \in Scan :
            /\ ~ Occupied(Candidate(i))
            /\ \A j \in 0 .. i - 1 : Occupied(Candidate(j))
            /\ bitmap' = WithBit(Candidate(i))
            /\ nextFree' = Candidate(i + 1)
            /\ acquired' = Candidate(i)
      BY <2>1 DEF AcquireFirst
    <3>2. SUFFICES ASSUME NEW sec \in Assignable,
                          acquired = sec, ~ Occupied(sec), Occupied(sec)',
                          NEW other \in Assignable \ {sec}
                   PROVE  Occupied(other)
      OBVIOUS
    <3>3. sec \in 0 .. maxSec /\ sec # NoSection
      BY MaxSecNat DEF Assignable, NoSection
    <3>4. sec = Candidate(i)
      BY <1>1, <3>1, <3>2, <3>3, GrantEffect
    <3>5. i = maxSec - 2
      BY <1>1, <3>2, <3>3, <3>4, GrantedIsLast
    <3>6. PICK j \in Scan : Candidate(j) = other
      BY <1>1, ScanComplete DEF SectionInv
    <3>7. j \in 0 .. i - 1
      BY <3>4, <3>5, <3>6, MaxSecNat DEF Scan
    <3> QED BY <3>1, <3>6, <3>7
  <2>2. CASE AcquireNone
    BY <2>2 DEF AcquireNone, Occupied
  <2>3. ASSUME NEW sec \in 0 .. maxSec + 1, Release(sec)
        PROVE  Rotates \/ UNCHANGED sectionVars
    <3>1. CASE sec \in Assignable
      <4>1. \A s \in 0 .. maxSec : Occupied(s)' => Occupied(s)
        BY <1>1, <2>3, <3>1, ReleaseEffect
      <4>2. \A s \in Assignable : s \in 0 .. maxSec
        BY MaxSecNat DEF Assignable
      <4> QED BY <4>1, <4>2
    <3>2. CASE sec \notin Assignable
      BY <2>3, <3>2, ReleaseOutside
    <3> QED BY <3>1, <3>2
  <2>4. CASE UNCHANGED sectionVars
    BY <2>4
  <2> QED BY <1>1, <2>1, <2>2, <2>3, <2>4 DEF SectionNext, Acquire
<1>2. SectionInit => SectionInv
  BY SectionInitInv
<1>3. SectionInv /\ [SectionNext]_sectionVars => SectionInv'
  BY SectionNextInv
<1>4. SectionInv /\ [SectionNext]_sectionVars => [Rotates]_sectionVars
  BY <1>1
<1> QED BY <1>2, <1>3, <1>4, PTL DEF SectionSpec, RotatesAway

-----------------------------------------------------------------------------
\* The caller is past the wait and holds Conn.mu.
Working(c) == call[c].at \notin {"idle", "waiting"}

\* What a caller knows of its statement at each place of a call.
CallsMatch ==
  \A c \in Callers :
    /\ call[c].at = "idle" => call[c] = Idle
    /\ call[c].at # "idle" => call[c].of \in Slots
    /\ call[c].at = "preparing" => stmt[call[c].of].status = "preparing"
    /\ call[c].at \notin {"idle", "preparing"} => stmt[call[c].of].status \in {"open", "closed"}
    /\ call[c].at = "repreparing" => call[c].use \in {"blob", "exec"}
    /\ call[c].at = "repreparing" /\ call[c].use = "blob" => stmt[call[c].of].rewritten

\* While a call holds Conn.mu no other statement can get its section, even if its
\* own statement is closed under it.
SectionIsKept ==
  \A c \in Callers, s \in Live : Working(c) /\ stmt[s].sec = Section(c) => s = call[c].of

\* Whose texts the server has, and in which form.
TextsMatch ==
  /\ \A s \in Slots, sec \in Assignable :
       stmt[s].status \in {"none", "preparing"} => text[sec].of # s
  /\ \A s \in Slots :
       /\ stmt[s].status \in {"open", "closed"}
       /\ ~ stmt[s].rewritten
       /\ text[stmt[s].sec].of = s
       => text[stmt[s].sec].form = "original"
  /\ \A c \in Callers : call[c].at \in {"checked", "repreparing", "running"} =>
       text[Section(c)].of \in {call[c].of, Nobody}

StatementsInv ==
  /\ SectionInv
  /\ StatementsTypeOK
  /\ SectionsMatchStatements
  /\ CallsMatch
  /\ SectionIsKept
  /\ TextsMatch
  /\ RunsOwnText
  /\ ExecMatchesText

-----------------------------------------------------------------------------
(* What the allocator does, said of the assignable sections. *)

LEMMA Granted ==
  ASSUME SectionInv, AcquireFirst
  PROVE  /\ SectionInv'
         /\ acquired' \in Assignable
         /\ ~ Occupied(acquired')
         /\ \A sec \in Assignable : Occupied(sec)' <=> (Occupied(sec) \/ sec = acquired')
<1>1. PICK i \in Scan :
        /\ ~ Occupied(Candidate(i))
        /\ bitmap' = WithBit(Candidate(i))
        /\ nextFree' = Candidate(i + 1)
        /\ acquired' = Candidate(i)
  BY DEF AcquireFirst
<1>2. Assignable \subseteq 0 .. maxSec
  BY MaxSecNat DEF Assignable
<1> QED BY <1>1, <1>2, GrantEffect

LEMMA Released ==
  ASSUME SectionInv, NEW own \in Assignable, Release(own)
  PROVE  /\ SectionInv'
         /\ \A sec \in Assignable : Occupied(sec)' <=> (Occupied(sec) /\ sec # own)
<1>1. Assignable \subseteq 0 .. maxSec
  BY MaxSecNat DEF Assignable
<1> QED BY <1>1, ReleaseEffect

LEMMA LeftAlone ==
  ASSUME SectionInv, UNCHANGED <<bitmap, nextFree, acquired>>
  PROVE  /\ SectionInv'
         /\ \A sec \in Assignable : Occupied(sec)' <=> Occupied(sec)
BY SectionInvStutter DEF Occupied

\* The first look at a statement, before the wait.
LEMMA StartInv ==
  ASSUME StatementsInv, NEW c \in Callers, NEW s \in Slots, NEW use \in Uses,
           Start(c, s, use)
  PROVE  StatementsInv'
<1> USE StatementsAssumption DEF StatementsInv, GoOn, Idle, Unused, NoText, Uses, Forms
<1>1. SectionInv' /\ \A sec \in Assignable : Occupied(sec)' <=> Occupied(sec)
  BY LeftAlone DEF Start
<1>2. StatementsTypeOK'
  BY <1>1 DEF Start, SectionInv, StatementsTypeOK
<1>3. SectionsMatchStatements'
  BY <1>1 DEF Start, StatementsTypeOK, SectionsMatchStatements, Live
<1>4. CallsMatch'
  BY <1>1 DEF Start, StatementsTypeOK, CallsMatch
<1>5. SectionIsKept'
  BY <1>1 DEF Start, StatementsTypeOK, CallsMatch, SectionIsKept, SectionsMatchStatements,
     Working, Live, Section
<1>m. /\ \A d \in Callers : d # c => call'[d] = call[d]
      /\ call'[c].at = "waiting" /\ stmt' = stmt /\ text' = text
  BY DEF Start, StatementsTypeOK
<1>6. TextsMatch'
  BY <1>m DEF TextsMatch, Section
<1>7. RunsOwnText'
  BY <1>m DEF RunsOwnText, Section
<1>8. ExecMatchesText'
  BY <1>m DEF ExecMatchesText, Section
<1> QED BY <1>1, <1>2, <1>3, <1>4, <1>5, <1>6, <1>7, <1>8

\* The second look, under Conn.mu: who gets past it has an open statement.
LEMMA LockInv ==
  ASSUME StatementsInv, NEW c \in Callers, Lock(c)
  PROVE  StatementsInv'
<1> USE StatementsAssumption DEF StatementsInv, GoOn, Idle, Unused, NoText, Uses, Forms
<1>1. SectionInv' /\ \A sec \in Assignable : Occupied(sec)' <=> Occupied(sec)
  BY LeftAlone DEF Lock
<1> DEFINE own == call[c].of
<1>a. \A d \in Callers : call[d].at \in {"idle", "waiting"}
  BY DEF Lock, StatementsTypeOK
<1>b. own \in Slots /\ (stmt[own].status = "closed" \/ own \in Live)
  BY DEF Lock, CallsMatch, Live
<1>c. \A d \in Callers : 
        /\ call'[d].at \in {"idle", "waiting"} \/ (d = c /\ call'[d].at = "checked")
        /\ call'[d].at = "checked" => call'[d].of = own /\ own \in Live
  BY <1>a, <1>b DEF Lock, StatementsTypeOK
<1>2. StatementsTypeOK'
  <2>1. stmt' \in [Slots -> [status : {"none", "preparing", "open", "closed"},
                               sec : Assignable \cup {NoSection},
                               temp : BOOLEAN, rewritten : BOOLEAN]]
    BY <1>1, <1>a, <1>b, <1>c DEF Lock, StatementsTypeOK
  <2>2. \A t \in Slots : stmt'[t].status # "none" => stmt'[t].sec \in Assignable
    BY <1>1, <1>a, <1>b, <1>c DEF Lock, StatementsTypeOK
  <2>3. text' \in [Assignable -> [of : Slots \cup {Nobody}, form : Forms]]
    BY <1>1, <1>a, <1>b, <1>c DEF Lock, StatementsTypeOK
  <2>4. call' \in [Callers -> [at : {"idle", "waiting", "preparing", "checked",
                                       "repreparing", "running", "failed"},
                                 of : Slots \cup {Nobody}, use : Uses]]
    BY <1>1, <1>a, <1>b, <1>c DEF Lock, StatementsTypeOK
  <2>5. /\ lock' \in Callers \cup {Nobody}
        /\ \A d \in Callers : lock' = d <=> call'[d].at \notin {"idle", "waiting"}
    BY <1>1, <1>a, <1>b, <1>c DEF Lock, StatementsTypeOK
  <2> QED BY <1>1, <2>1, <2>2, <2>3, <2>4, <2>5 DEF StatementsTypeOK, SectionInv
<1>3. SectionsMatchStatements'
  BY <1>1, <1>a, <1>b, <1>c DEF Lock, StatementsTypeOK, SectionsMatchStatements, Live
<1>4. CallsMatch'
  BY <1>1, <1>a, <1>b, <1>c DEF Lock, StatementsTypeOK, CallsMatch
<1>m. /\ stmt' = stmt /\ text' = text /\ Live' = Live
      /\ own \in Live => stmt[own].status = "open"
  BY <1>b DEF Lock, CallsMatch, Live
<1>5. SectionIsKept'
  BY <1>b, <1>c, <1>m DEF SectionIsKept, SectionsMatchStatements, Working, Section
<1>6. TextsMatch'
  BY <1>b, <1>c, <1>m DEF TextsMatch, RunsOwnText, Section
<1>7. RunsOwnText'
  BY <1>c, <1>m DEF RunsOwnText, Section
<1>8. ExecMatchesText'
  BY <1>c DEF ExecMatchesText
<1> QED BY <1>1, <1>2, <1>3, <1>4, <1>5, <1>6, <1>7, <1>8

\* A plain execution of a rewritten statement.
LEMMA RestoreFirstInv ==
  ASSUME StatementsInv, NEW c \in Callers, RestoreFirst(c)
  PROVE  StatementsInv'
<1> USE StatementsAssumption DEF StatementsInv, GoOn, Idle, Unused, NoText, Uses, Forms
<1>1. SectionInv' /\ \A sec \in Assignable : Occupied(sec)' <=> Occupied(sec)
  BY LeftAlone DEF RestoreFirst
<1>2. StatementsTypeOK'
  BY <1>1 DEF RestoreFirst, SectionInv, StatementsTypeOK
<1>3. SectionsMatchStatements'
  BY <1>1 DEF RestoreFirst, StatementsTypeOK, SectionsMatchStatements, Live
<1>4. CallsMatch'
  BY <1>1 DEF RestoreFirst, StatementsTypeOK, CallsMatch
<1>5. SectionIsKept'
  BY <1>1 DEF RestoreFirst, StatementsTypeOK, CallsMatch, SectionIsKept,
     SectionsMatchStatements, Working, Live, Section
<1> DEFINE own == call[c].of
<1>m. /\ \A d \in Callers : d # c => call'[d] = call[d]
      /\ call[c].at = "checked" /\ call'[c].at = "repreparing"
      /\ call'[c].of = own /\ call'[c].use = call[c].use
      /\ call[c].use = "exec"
      /\ stmt' = stmt /\ text' = text
  BY DEF RestoreFirst, StatementsTypeOK
<1>n. own \in Slots /\ stmt[own].status \in {"open", "closed"} /\ stmt[own].sec \in Assignable
  BY <1>m DEF CallsMatch, StatementsTypeOK
<1>6. TextsMatch'
  BY <1>m DEF TextsMatch, Section
<1>7. RunsOwnText'
  BY <1>m DEF RunsOwnText, TextsMatch, Section
<1>8. ExecMatchesText'
  BY <1>m, <1>n DEF ExecMatchesText, TextsMatch, Section
<1> QED BY <1>1, <1>2, <1>3, <1>4, <1>5, <1>6, <1>7, <1>8

\* An execution that goes out as it is.
LEMMA StraightInv ==
  ASSUME StatementsInv, NEW c \in Callers, Straight(c)
  PROVE  StatementsInv'
<1> USE StatementsAssumption DEF StatementsInv, GoOn, Idle, Unused, NoText, Uses, Forms
<1>1. SectionInv' /\ \A sec \in Assignable : Occupied(sec)' <=> Occupied(sec)
  BY LeftAlone DEF Straight
<1>2. StatementsTypeOK'
  BY <1>1 DEF Straight, SectionInv, StatementsTypeOK
<1>3. SectionsMatchStatements'
  BY <1>1 DEF Straight, StatementsTypeOK, SectionsMatchStatements, Live
<1>4. CallsMatch'
  BY <1>1 DEF Straight, StatementsTypeOK, CallsMatch
<1>5. SectionIsKept'
  BY <1>1 DEF Straight, StatementsTypeOK, CallsMatch, SectionIsKept,
     SectionsMatchStatements, Working, Live, Section
<1> DEFINE own == call[c].of
<1>m. /\ \A d \in Callers : d # c => call'[d] = call[d]
      /\ call[c].at = "checked" /\ call'[c].at = "running"
      /\ call'[c].of = own /\ call'[c].use = call[c].use
      /\ call[c].use \in {"batch", "query"} \/ (call[c].use = "exec" /\ ~ stmt[own].rewritten)
      /\ stmt' = stmt /\ text' = text
  BY DEF Straight, StatementsTypeOK
<1>n. own \in Slots /\ stmt[own].status \in {"open", "closed"} /\ stmt[own].sec \in Assignable
  BY <1>m DEF CallsMatch, StatementsTypeOK
<1>6. TextsMatch'
  BY <1>m DEF TextsMatch, Section
<1>7. RunsOwnText'
  BY <1>m DEF RunsOwnText, TextsMatch, Section
<1>8. ExecMatchesText'
  BY <1>m, <1>n DEF ExecMatchesText, TextsMatch, Section
<1> QED BY <1>1, <1>2, <1>3, <1>4, <1>5, <1>6, <1>7, <1>8

\* An execution with short BLOBs.
LEMMA RewriteInv ==
  ASSUME StatementsInv, NEW c \in Callers, Rewrite(c)
  PROVE  StatementsInv'
<1> USE StatementsAssumption DEF StatementsInv, GoOn, Idle, Unused, NoText, Uses, Forms
<1>1. SectionInv' /\ \A sec \in Assignable : Occupied(sec)' <=> Occupied(sec)
  BY LeftAlone DEF Rewrite
<1> DEFINE own == call[c].of
<1>a. own \in Slots /\ stmt[own].status \in {"open", "closed"} /\ stmt[own].sec \in Assignable
  BY DEF Rewrite, CallsMatch, StatementsTypeOK
<1>b. PICK flag \in BOOLEAN : stmt' = [stmt EXCEPT ![own].rewritten = flag]
  BY DEF Rewrite
<1>2. StatementsTypeOK'
  <2>1. stmt' \in [Slots -> [status : {"none", "preparing", "open", "closed"},
                               sec : Assignable \cup {NoSection},
                               temp : BOOLEAN, rewritten : BOOLEAN]]
    BY <1>a, <1>b DEF StatementsTypeOK
  <2>2. \A t \in Slots : stmt'[t].status # "none" => stmt'[t].sec \in Assignable
    BY <1>1, <1>a, <1>b DEF Rewrite, StatementsTypeOK
  <2>3. text' \in [Assignable -> [of : Slots \cup {Nobody}, form : Forms]]
    BY <1>1, <1>a, <1>b DEF Rewrite, StatementsTypeOK
  <2>4. call' \in [Callers -> [at : {"idle", "waiting", "preparing", "checked",
                                       "repreparing", "running", "failed"},
                                 of : Slots \cup {Nobody}, use : Uses]]
    BY <1>1, <1>a, <1>b DEF Rewrite, StatementsTypeOK
  <2>5. /\ lock' \in Callers \cup {Nobody}
        /\ \A d \in Callers : lock' = d <=> call'[d].at \notin {"idle", "waiting"}
    BY <1>1, <1>a, <1>b DEF Rewrite, StatementsTypeOK
  <2> QED BY <1>1, <2>1, <2>2, <2>3, <2>4, <2>5 DEF StatementsTypeOK, SectionInv
<1>3. SectionsMatchStatements'
  BY <1>1, <1>a, <1>b DEF Rewrite, StatementsTypeOK, SectionsMatchStatements, Live
<1>4. CallsMatch'
  BY <1>1, <1>a, <1>b DEF Rewrite, StatementsTypeOK, CallsMatch
<1>m. /\ \A d \in Callers : d # c => call'[d] = call[d]
      /\ call[c].at = "checked" /\ call[c].use \in {"blob", "allblob"}
      /\ call'[c].at = IF call[c].use = "blob" THEN "repreparing" ELSE "running"
      /\ call'[c].of = own /\ call'[c].use = call[c].use
      /\ text' = text
  BY DEF Rewrite, StatementsTypeOK
<1>n. /\ \A t \in Slots : /\ stmt'[t].status = stmt[t].status /\ stmt'[t].sec = stmt[t].sec
                          /\ t # own => stmt'[t].rewritten = stmt[t].rewritten
      /\ Live' = Live /\ Live \subseteq Slots
  BY <1>a, <1>b DEF StatementsTypeOK, Live
<1>r. stmt'[own].rewritten
  <2>1. stmt' = [stmt EXCEPT ![own].rewritten = TRUE]
    BY DEF Rewrite
  <2>2. own \in DOMAIN stmt /\ "rewritten" \in DOMAIN stmt[own]
    BY <1>a DEF StatementsTypeOK
  <2> QED BY ONLY <2>1, <2>2
<1>o. \A d \in Callers : call[d].at # "idle" => call[d].of \in Slots
  BY DEF CallsMatch
<1>5. SectionIsKept'
  BY <1>m, <1>n, <1>o DEF SectionIsKept, Working, Section
<1>6. TextsMatch'
  BY <1>a, <1>m, <1>n, <1>o, <1>r DEF TextsMatch, Section
<1>k. text[stmt[own].sec].of \in {own, Nobody}
  BY <1>m DEF TextsMatch, Section
<1>7. RunsOwnText'
  BY <1>a, <1>k, <1>m, <1>n, <1>o DEF RunsOwnText, Section
<1>8. ExecMatchesText'
  BY <1>a, <1>m, <1>n, <1>o DEF ExecMatchesText, Section
<1> QED BY <1>1, <1>2, <1>3, <1>4, <1>5, <1>6, <1>7, <1>8

\* A PREPARE that succeeded: the section has the text of its statement.
LEMMA PreparedInv ==
  ASSUME StatementsInv, NEW c \in Callers, Prepared(c)
  PROVE  StatementsInv'
<1> USE StatementsAssumption DEF StatementsInv, GoOn, Idle, Unused, NoText, Uses, Forms
<1>1. SectionInv' /\ \A sec \in Assignable : Occupied(sec)' <=> Occupied(sec)
  BY LeftAlone DEF Prepared
<1> DEFINE own == call[c].of
<1>a. /\ own \in Slots /\ stmt[own].status = "preparing" /\ stmt[own].sec \in Assignable
      /\ lock = c /\ \A d \in Callers \ {c} : call[d].at \in {"idle", "waiting"}
  BY DEF Prepared, CallsMatch, StatementsTypeOK
<1>b. stmt' = [stmt EXCEPT ![own].status = "open"]
  BY DEF Prepared
<1>c. \A sec \in Assignable : 
        text'[sec] = IF sec = stmt[own].sec THEN [of |-> own, form |-> "original"] ELSE text[sec]
  BY <1>a DEF Prepared, Section, StatementsTypeOK
<1>d. Live' = Live /\ own \in Live /\ \A s \in Slots : stmt'[s].sec = stmt[s].sec
  BY <1>a, <1>b DEF Live, StatementsTypeOK
<1>e. \A d \in Callers : 
        /\ call'[d].at \in {"idle", "waiting"} \/ (d = c /\ call'[d].at = "checked")
        /\ call'[d].at = "checked" => call'[d].of = own
  BY <1>a DEF Prepared, StatementsTypeOK
<1>2. StatementsTypeOK'
  <2>1. stmt' \in [Slots -> [status : {"none", "preparing", "open", "closed"},
                               sec : Assignable \cup {NoSection},
                               temp : BOOLEAN, rewritten : BOOLEAN]]
    BY <1>1, <1>a, <1>b, <1>c, <1>d, <1>e DEF Prepared, StatementsTypeOK
  <2>2. \A t \in Slots : stmt'[t].status # "none" => stmt'[t].sec \in Assignable
    BY <1>1, <1>a, <1>b, <1>c, <1>d, <1>e DEF Prepared, StatementsTypeOK
  <2>3. text' \in [Assignable -> [of : Slots \cup {Nobody}, form : Forms]]
    BY <1>1, <1>a, <1>b, <1>c, <1>d, <1>e DEF Prepared, StatementsTypeOK
  <2>4. call' \in [Callers -> [at : {"idle", "waiting", "preparing", "checked",
                                       "repreparing", "running", "failed"},
                                 of : Slots \cup {Nobody}, use : Uses]]
    BY <1>1, <1>a, <1>b, <1>c, <1>d, <1>e DEF Prepared, StatementsTypeOK
  <2>5. /\ lock' \in Callers \cup {Nobody}
        /\ \A d \in Callers : lock' = d <=> call'[d].at \notin {"idle", "waiting"}
    BY <1>1, <1>a, <1>b, <1>c, <1>d, <1>e DEF Prepared, StatementsTypeOK
  <2> QED BY <1>1, <2>1, <2>2, <2>3, <2>4, <2>5 DEF StatementsTypeOK, SectionInv
<1>3. SectionsMatchStatements'
  BY <1>1, <1>a, <1>b, <1>c, <1>d, <1>e DEF Prepared, StatementsTypeOK,
     SectionsMatchStatements, Live
<1>4. CallsMatch'
  BY <1>1, <1>a, <1>b, <1>c, <1>d, <1>e DEF Prepared, StatementsTypeOK, CallsMatch
<1>f. \A s \in Slots : s # own => stmt'[s].status = stmt[s].status
  BY <1>b DEF StatementsTypeOK
<1>g. \A s \in Slots : stmt[s].status = "open" => s \in Live /\ stmt[s].sec \in Assignable
  BY DEF Live, StatementsTypeOK
<1>5. SectionIsKept'
  <2>1. Live \subseteq Slots
    BY DEF Live
  <2> QED BY <1>a, <1>d, <1>e, <2>1 DEF SectionIsKept, SectionsMatchStatements, Working, Section
<1>6. TextsMatch'
  <2>1. \A s \in Slots, sec \in Assignable :
          stmt'[s].status \in {"none", "preparing"} => text'[sec].of # s
    BY <1>1, <1>a, <1>b, <1>c DEF StatementsTypeOK, TextsMatch
  <2>2. \A s \in Slots :
          /\ stmt'[s].status \in {"open", "closed"} /\ ~ stmt'[s].rewritten
          /\ text'[stmt'[s].sec].of = s
          => text'[stmt'[s].sec].form = "original"
    BY <1>1, <1>a, <1>b, <1>c, <1>d DEF StatementsTypeOK, TextsMatch
  <2>3. ASSUME NEW d \in Callers, call'[d].at \in {"checked", "repreparing", "running"}
        PROVE  text'[stmt'[call'[d].of].sec].of \in {call'[d].of, Nobody}
    <3>1. d = c /\ call'[d].of = own
      BY <1>e, <2>3
    <3> QED BY <1>a, <1>c, <1>d, <3>1
  <2> QED BY <2>1, <2>2, <2>3 DEF TextsMatch, Section
<1>7. RunsOwnText'
  BY <1>a, <1>c, <1>d, <1>e, <1>f, <1>g DEF RunsOwnText, SectionsMatchStatements, Section
<1>8. ExecMatchesText'
  BY <1>e DEF ExecMatchesText
<1> QED BY <1>1, <1>2, <1>3, <1>4, <1>5, <1>6, <1>7, <1>8

\* A new statement and its section, which nobody held.
LEMMA PrepareInv ==
  ASSUME StatementsInv, NEW c \in Callers, NEW s \in Slots, NEW temp \in BOOLEAN,
           NEW use \in Uses, Prepare(c, s, temp, use)
  PROVE  StatementsInv'
<1> USE StatementsAssumption DEF StatementsInv, GoOn, Idle, Unused, NoText, Uses, Forms
<1>1. /\ SectionInv'
      /\ acquired' \in Assignable
      /\ ~ Occupied(acquired')
      /\ \A sec \in Assignable : Occupied(sec)' <=> (Occupied(sec) \/ sec = acquired')
  BY Granted DEF Prepare
<1>a. \A d \in Callers : call[d].at \in {"idle", "waiting"}
  BY DEF Prepare, StatementsTypeOK
<1>b. stmt[s].status = "none"
  BY DEF Prepare
<1> DEFINE new == [Unused EXCEPT !.status = "preparing", !.sec = acquired', !.temp = temp]
<1>c. /\ stmt' = [stmt EXCEPT ![s] = new]
      /\ new \in [status : {"none", "preparing", "open", "closed"},
                 sec : Assignable \cup {NoSection}, temp : BOOLEAN, rewritten : BOOLEAN]
      /\ new.status = "preparing" /\ new.sec = acquired' /\ ~ new.rewritten
  <2>1. stmt' = [stmt EXCEPT ![s] = new]
    BY DEF Prepare
  <2>2. new \in [status : {"none", "preparing", "open", "closed"},
                sec : Assignable \cup {NoSection}, temp : BOOLEAN, rewritten : BOOLEAN]
    BY <1>1
  <2>3. new.status = "preparing" /\ new.sec = acquired' /\ ~ new.rewritten
    OBVIOUS
  <2> QED BY <2>1, <2>2, <2>3
<1> HIDE DEF new
<1>d. Live' = Live \cup {s} /\ s \notin Live
  BY <1>b, <1>c DEF Live, StatementsTypeOK
<1>e. \A d \in Callers : call[d].at # "idle" => call[d].of # s
  BY <1>b DEF CallsMatch
<1>2. StatementsTypeOK'
  <2>1. stmt' \in [Slots -> [status : {"none", "preparing", "open", "closed"},
                               sec : Assignable \cup {NoSection},
                               temp : BOOLEAN, rewritten : BOOLEAN]]
    BY <1>c DEF StatementsTypeOK
  <2>2. \A t \in Slots : stmt'[t].status # "none" => stmt'[t].sec \in Assignable
    BY <1>1, <1>a, <1>b, <1>c, <1>d, <1>e DEF Prepare, StatementsTypeOK
  <2>3. text' \in [Assignable -> [of : Slots \cup {Nobody}, form : Forms]]
    BY <1>1, <1>a, <1>b, <1>c, <1>d, <1>e DEF Prepare, StatementsTypeOK
  <2>4. call' \in [Callers -> [at : {"idle", "waiting", "preparing", "checked",
                                       "repreparing", "running", "failed"},
                                 of : Slots \cup {Nobody}, use : Uses]]
    BY <1>1, <1>a, <1>b, <1>c, <1>d, <1>e DEF Prepare, StatementsTypeOK
  <2>5. /\ lock' \in Callers \cup {Nobody}
        /\ \A d \in Callers : lock' = d <=> call'[d].at \notin {"idle", "waiting"}
    BY <1>1, <1>a, <1>b, <1>c, <1>d, <1>e DEF Prepare, StatementsTypeOK
  <2> QED BY <1>1, <2>1, <2>2, <2>3, <2>4, <2>5 DEF StatementsTypeOK, SectionInv
<1>3. SectionsMatchStatements'
  BY <1>1, <1>a, <1>b, <1>c, <1>d, <1>e DEF Prepare, StatementsTypeOK,
     SectionsMatchStatements, Live
<1>4. CallsMatch'
  BY <1>1, <1>a, <1>b, <1>c, <1>d, <1>e DEF Prepare, StatementsTypeOK, CallsMatch
<1>f. /\ \A d \in Callers : d # c => call'[d].at \in {"idle", "waiting"}
      /\ call'[c].at = "preparing" /\ call'[c].of = s /\ text' = text
  BY <1>a DEF Prepare, StatementsTypeOK
<1>g. /\ \A t \in Slots : t # s => stmt'[t] = stmt[t]
      /\ stmt'[s] = new /\ Live \subseteq Slots
  BY <1>c DEF StatementsTypeOK, Live
<1>5. SectionIsKept'
  BY <1>1, <1>c, <1>d, <1>f, <1>g DEF SectionIsKept, SectionsMatchStatements, Working, Section
<1>6. TextsMatch'
  BY <1>b, <1>c, <1>f, <1>g DEF TextsMatch
<1>7. RunsOwnText'
  BY <1>c, <1>f, <1>g DEF RunsOwnText
<1>8. ExecMatchesText'
  BY <1>f DEF ExecMatchesText
<1> QED BY <1>1, <1>2, <1>3, <1>4, <1>5, <1>6, <1>7, <1>8

\* A refusal changes nothing but the result of Acquire.
LEMMA NoSectionLeftInv ==
  ASSUME StatementsInv, NEW c \in Callers, NoSectionLeft(c)
  PROVE  StatementsInv'
<1> USE StatementsAssumption DEF StatementsInv, GoOn, Idle, Unused, NoText, Uses, Forms
<1>1. SectionInv' /\ \A sec \in Assignable : Occupied(sec)' <=> Occupied(sec)
  BY SectionInvStutter DEF NoSectionLeft, AcquireNone, Occupied
<1>2. StatementsTypeOK'
  BY <1>1 DEF NoSectionLeft, SectionInv, StatementsTypeOK
<1>3. SectionsMatchStatements'
  BY <1>1 DEF NoSectionLeft, StatementsTypeOK, SectionsMatchStatements, Live
<1>4. CallsMatch'
  BY <1>1 DEF NoSectionLeft, StatementsTypeOK, CallsMatch
<1>m. UNCHANGED <<stmt, text, call>>
  BY DEF NoSectionLeft
<1>5. SectionIsKept'
  BY <1>m DEF SectionIsKept, Working, Live, Section
<1>6. TextsMatch'
  BY <1>m DEF TextsMatch, Section
<1>7. RunsOwnText'
  BY <1>m DEF RunsOwnText, Section
<1>8. ExecMatchesText'
  BY <1>m DEF ExecMatchesText, Section
<1> QED BY <1>1, <1>2, <1>3, <1>4, <1>5, <1>6, <1>7, <1>8

\* A PREPARE that failed gives the section back.
LEMMA PrepareFailedInv ==
  ASSUME StatementsInv, NEW c \in Callers, PrepareFailed(c)
  PROVE  StatementsInv'
<1> USE StatementsAssumption DEF StatementsInv, GoOn, Idle, Unused, NoText, Uses, Forms
<1> DEFINE own == call[c].of
<1>a. /\ own \in Slots /\ stmt[own].status = "preparing" /\ stmt[own].sec \in Assignable
      /\ lock = c /\ \A d \in Callers \ {c} : call[d].at \in {"idle", "waiting"}
  BY DEF PrepareFailed, CallsMatch, StatementsTypeOK
<1>1. /\ SectionInv'
      /\ \A sec \in Assignable : Occupied(sec)' <=> (Occupied(sec) /\ sec # stmt[own].sec)
  BY <1>a, Released DEF PrepareFailed, Section
<1>b. stmt' = [stmt EXCEPT ![own] = Unused]
  BY DEF PrepareFailed
<1>c. Live' = Live \ {own}
  BY <1>a, <1>b DEF Live, StatementsTypeOK
<1>d. text' = [text EXCEPT ![stmt[own].sec] = NoText]
  BY DEF PrepareFailed, Section
<1>2. StatementsTypeOK'
  <2>1. stmt' \in [Slots -> [status : {"none", "preparing", "open", "closed"},
                               sec : Assignable \cup {NoSection},
                               temp : BOOLEAN, rewritten : BOOLEAN]]
    BY <1>1, <1>a, <1>b, <1>c, <1>d DEF PrepareFailed, StatementsTypeOK
  <2>2. \A t \in Slots : stmt'[t].status # "none" => stmt'[t].sec \in Assignable
    BY <1>1, <1>a, <1>b, <1>c, <1>d DEF PrepareFailed, StatementsTypeOK
  <2>3. text' \in [Assignable -> [of : Slots \cup {Nobody}, form : Forms]]
    <3>1. NoText \in [of : Slots \cup {Nobody}, form : Forms]
      OBVIOUS
    <3> QED BY <1>a, <1>d, <3>1 DEF StatementsTypeOK
  <2>4. call' \in [Callers -> [at : {"idle", "waiting", "preparing", "checked",
                                       "repreparing", "running", "failed"},
                                 of : Slots \cup {Nobody}, use : Uses]]
    BY <1>1, <1>a, <1>b, <1>c, <1>d DEF PrepareFailed, StatementsTypeOK
  <2>5. /\ lock' \in Callers \cup {Nobody}
        /\ \A d \in Callers : lock' = d <=> call'[d].at \notin {"idle", "waiting"}
    BY <1>1, <1>a, <1>b, <1>c, <1>d DEF PrepareFailed, StatementsTypeOK
  <2> QED BY <1>1, <2>1, <2>2, <2>3, <2>4, <2>5 DEF StatementsTypeOK, SectionInv
<1>3. SectionsMatchStatements'
  BY <1>1, <1>a, <1>b, <1>c, <1>d DEF PrepareFailed, StatementsTypeOK,
     SectionsMatchStatements, Live
<1>4. CallsMatch'
  BY <1>1, <1>a, <1>b, <1>c, <1>d DEF PrepareFailed, StatementsTypeOK, CallsMatch
<1>m. \A d \in Callers : call'[d].at \in {"idle", "waiting"}
  BY <1>a DEF PrepareFailed, StatementsTypeOK
<1>n. /\ \A t \in Slots : t # own => stmt'[t] = stmt[t]
      /\ stmt'[own].status = "none"
      /\ \A sec \in Assignable :
           text'[sec] = IF sec = stmt[own].sec THEN NoText ELSE text[sec]
      /\ \A t \in Slots : stmt[t].status # "none" => stmt[t].sec \in Assignable
  BY <1>a, <1>b, <1>d DEF StatementsTypeOK
<1>5. SectionIsKept'
  BY <1>m DEF SectionIsKept, Working
<1>6. TextsMatch'
  BY <1>a, <1>m, <1>n DEF TextsMatch
<1>7. RunsOwnText'
  BY <1>a, <1>m, <1>n DEF RunsOwnText
<1>8. ExecMatchesText'
  BY <1>m DEF ExecMatchesText
<1> QED BY <1>1, <1>2, <1>3, <1>4, <1>5, <1>6, <1>7, <1>8

\* A second PREPARE: only the text of the section that the call keeps can change.
LEMMA ReprepareInv ==
  ASSUME StatementsInv, NEW c \in Callers, NEW ok \in BOOLEAN, Reprepare(c, ok)
  PROVE  StatementsInv'
<1> USE StatementsAssumption DEF StatementsInv, GoOn, Idle, Unused, NoText, Uses, Forms
<1>1. SectionInv' /\ \A sec \in Assignable : Occupied(sec)' <=> Occupied(sec)
  BY LeftAlone DEF Reprepare
<1> DEFINE own == call[c].of
<1>a. own \in Slots /\ stmt[own].status \in {"open", "closed"} /\ stmt[own].sec \in Assignable
  BY DEF Reprepare, CallsMatch, StatementsTypeOK
<1>b. PICK flag \in BOOLEAN : stmt' = [stmt EXCEPT ![own].rewritten = flag]
  BY <1>a DEF Reprepare, StatementsTypeOK
<1>0. PICK after \in IF ok
                     THEN {[of |-> own,
                            form |-> IF call[c].use = "blob" THEN "rewritten" ELSE "original"]}
                     ELSE {text[stmt[own].sec], NoText} :
        text' = [text EXCEPT ![stmt[own].sec] = after]
  BY DEF Reprepare, Section
<1>c. /\ after \in [of : Slots \cup {Nobody}, form : Forms]
      /\ text' = [text EXCEPT ![stmt[own].sec] = after]
  BY <1>0, <1>a DEF StatementsTypeOK
<1>2. StatementsTypeOK'
  <2>1. stmt' \in [Slots -> [status : {"none", "preparing", "open", "closed"},
                               sec : Assignable \cup {NoSection},
                               temp : BOOLEAN, rewritten : BOOLEAN]]
    BY <1>1, <1>a, <1>b, <1>c DEF Reprepare, StatementsTypeOK
  <2>2. \A t \in Slots : stmt'[t].status # "none" => stmt'[t].sec \in Assignable
    BY <1>1, <1>a, <1>b, <1>c DEF Reprepare, StatementsTypeOK
  <2>3. text' \in [Assignable -> [of : Slots \cup {Nobody}, form : Forms]]
    BY <1>1, <1>a, <1>b, <1>c DEF Reprepare, StatementsTypeOK
  <2>4. call' \in [Callers -> [at : {"idle", "waiting", "preparing", "checked",
                                       "repreparing", "running", "failed"},
                                 of : Slots \cup {Nobody}, use : Uses]]
    BY <1>1, <1>a, <1>b, <1>c DEF Reprepare, StatementsTypeOK
  <2>5. /\ lock' \in Callers \cup {Nobody}
        /\ \A d \in Callers : lock' = d <=> call'[d].at \notin {"idle", "waiting"}
    BY <1>1, <1>a, <1>b, <1>c DEF Reprepare, StatementsTypeOK
  <2> QED BY <1>1, <2>1, <2>2, <2>3, <2>4, <2>5 DEF StatementsTypeOK, SectionInv
<1>3. SectionsMatchStatements'
  BY <1>1, <1>a, <1>b, <1>c DEF Reprepare, StatementsTypeOK, SectionsMatchStatements, Live
<1>4. CallsMatch'
  BY <1>1, <1>a, <1>b, <1>c DEF Reprepare, StatementsTypeOK, CallsMatch
<1>m. /\ \A d \in Callers : d # c => call'[d] = call[d] /\ call[d].at \in {"idle", "waiting"}
      /\ call[c].at = "repreparing" /\ call[c].use \in {"blob", "exec"}
      /\ call'[c].at = (IF ok THEN "running" ELSE "failed")
      /\ call'[c].of = own /\ call'[c].use = call[c].use
  BY DEF Reprepare, CallsMatch, StatementsTypeOK
<1>n. /\ \A t \in Slots : /\ stmt'[t].status = stmt[t].status /\ stmt'[t].sec = stmt[t].sec
                          /\ t # own => stmt'[t].rewritten = stmt[t].rewritten
      /\ Live' = Live /\ Live \subseteq Slots
  BY <1>a, <1>b DEF StatementsTypeOK, Live
<1>o. /\ \A sec \in Assignable : text'[sec] = IF sec = stmt[own].sec THEN after ELSE text[sec]
      /\ \A t \in Slots : stmt[t].status # "none" => stmt[t].sec \in Assignable
  BY <1>a, <1>c DEF StatementsTypeOK
<1>p. /\ after.of \in {own, Nobody}
      /\ ok => after.form = IF call[c].use = "blob" THEN "rewritten" ELSE "original"
  <2>1. text[stmt[own].sec].of \in {own, Nobody}
    BY <1>m DEF RunsOwnText, Section
  <2> QED BY <1>0, <2>1
<1>q. ~ stmt'[own].rewritten /\ after.of = own => after.form = "original"
  <2>1. stmt'[own].rewritten = IF ok /\ call[c].use = "exec" THEN FALSE ELSE stmt[own].rewritten
    <3>1. stmt' = [stmt EXCEPT ![own].rewritten =
                     IF ok /\ call[c].use = "exec" THEN FALSE ELSE stmt[own].rewritten]
      BY DEF Reprepare
    <3>2. own \in DOMAIN stmt /\ "rewritten" \in DOMAIN stmt[own]
      BY <1>a DEF StatementsTypeOK
    <3> QED BY ONLY <3>1, <3>2
  <2>2. CASE ok
    <3>1. call[c].use = "blob" => stmt[own].rewritten
      BY <1>m DEF CallsMatch
    <3> QED BY <2>1, <2>2, <3>1, <1>m, <1>p
  <2>3. CASE ~ ok
    <3>1. ~ stmt[own].rewritten /\ text[stmt[own].sec].of = own
             => text[stmt[own].sec].form = "original"
      BY <1>a DEF TextsMatch
    <3> QED BY <2>1, <2>3, <3>1, <1>0, <1>a
  <2> QED BY <2>2, <2>3
<1>5. SectionIsKept'
  BY <1>a, <1>m, <1>n DEF SectionIsKept, Working, Section
<1>6. TextsMatch'
  BY <1>a, <1>m, <1>n, <1>o, <1>p, <1>q DEF TextsMatch, Section
<1>7. RunsOwnText'
  <2>1. \A t \in Slots : stmt[t].status = "open" /\ stmt[t].sec = stmt[own].sec => t = own
    BY <1>m DEF SectionIsKept, Working, Section, Live
  <2> QED BY <1>a, <1>m, <1>n, <1>o, <1>p, <2>1 DEF RunsOwnText, Section
<1>8. ExecMatchesText'
  BY <1>a, <1>m, <1>n, <1>o, <1>p DEF ExecMatchesText, Section
<1> QED BY <1>1, <1>2, <1>3, <1>4, <1>5, <1>6, <1>7, <1>8

\* Closing a statement, again or for the first time, frees what it owned and nothing
\* else.
LEMMA Closing ==
  ASSUME StatementsInv, NEW s \in Slots, stmt[s].status \in {"open", "closed"}, Close(s)
  PROVE  /\ SectionInv'
         /\ \A sec \in Assignable :
              Occupied(sec)' <=> Occupied(sec) /\ (s \in Live => sec # stmt[s].sec)
         /\ stmt' = [stmt EXCEPT ![s].status = "closed"]
<1> USE DEF StatementsInv
<1>1. s \in Live <=> stmt[s].status = "open"
  BY DEF Live
<1>2. CASE stmt[s].status = "open"
  <2>1. stmt[s].sec \in Assignable
    BY <1>2 DEF StatementsTypeOK
  <2>2. stmt' = [stmt EXCEPT ![s].status = "closed"] /\ Release(stmt[s].sec)
    BY <1>2 DEF Close
  <2> QED BY <1>1, <1>2, <2>1, <2>2, Released
<1>3. CASE stmt[s].status = "closed"
  <2>1. UNCHANGED <<bitmap, nextFree, acquired, stmt>>
    BY <1>3 DEF Close
  <2>2. stmt = [stmt EXCEPT ![s].status = "closed"]
    BY <1>3 DEF StatementsTypeOK
  <2> QED BY <1>1, <1>3, <2>1, <2>2, LeftAlone
<1> QED BY <1>2, <1>3

LEMMA CloseStmtInv ==
  ASSUME StatementsInv, NEW s \in Slots, CloseStmt(s)
  PROVE  StatementsInv'
<1> USE StatementsAssumption DEF StatementsInv, GoOn, Idle, Unused, NoText, Uses, Forms
<1>1. /\ SectionInv'
      /\ \A sec \in Assignable :
           Occupied(sec)' <=> Occupied(sec) /\ (s \in Live => sec # stmt[s].sec)
      /\ stmt' = [stmt EXCEPT ![s].status = "closed"]
  BY Closing DEF CloseStmt
<1>b. Live' = Live \ {s}
  BY <1>1 DEF Live, StatementsTypeOK
<1>2. StatementsTypeOK'
  <2>1. stmt' \in [Slots -> [status : {"none", "preparing", "open", "closed"},
                               sec : Assignable \cup {NoSection},
                               temp : BOOLEAN, rewritten : BOOLEAN]]
    BY <1>1, <1>b DEF CloseStmt, StatementsTypeOK
  <2>2. \A t \in Slots : stmt'[t].status # "none" => stmt'[t].sec \in Assignable
    BY <1>1, <1>b DEF CloseStmt, StatementsTypeOK
  <2>3. text' \in [Assignable -> [of : Slots \cup {Nobody}, form : Forms]]
    BY <1>1, <1>b DEF CloseStmt, StatementsTypeOK
  <2>4. call' \in [Callers -> [at : {"idle", "waiting", "preparing", "checked",
                                       "repreparing", "running", "failed"},
                                 of : Slots \cup {Nobody}, use : Uses]]
    BY <1>1, <1>b DEF CloseStmt, StatementsTypeOK
  <2>5. /\ lock' \in Callers \cup {Nobody}
        /\ \A d \in Callers : lock' = d <=> call'[d].at \notin {"idle", "waiting"}
    BY <1>1, <1>b DEF CloseStmt, StatementsTypeOK
  <2> QED BY <1>1, <2>1, <2>2, <2>3, <2>4, <2>5 DEF StatementsTypeOK, SectionInv
<1>3. SectionsMatchStatements'
  BY <1>1, <1>b DEF CloseStmt, StatementsTypeOK, SectionsMatchStatements, Live
<1>4. CallsMatch'
  BY <1>1, <1>b DEF CloseStmt, StatementsTypeOK, CallsMatch
<1>m. /\ \A t \in Slots : /\ t # s => stmt'[t].status = stmt[t].status
                          /\ stmt'[t].sec = stmt[t].sec /\ stmt'[t].rewritten = stmt[t].rewritten
      /\ stmt'[s].status = "closed" /\ stmt[s].status \in {"open", "closed"}
  BY <1>1 DEF CloseStmt, StatementsTypeOK

<1>n. /\ \A d \in Callers : call[d].at # "idle" => call[d].of \in Slots
      /\ call' = call /\ text' = text /\ Live \subseteq Slots
  BY DEF CloseStmt, CallsMatch, Live
<1>5. SectionIsKept'
  BY <1>b, <1>m, <1>n DEF SectionIsKept, Working, Section
<1>6. TextsMatch'
  BY <1>m, <1>n DEF TextsMatch, Section
<1>7. RunsOwnText'
  BY <1>m, <1>n DEF RunsOwnText, Section
<1>8. ExecMatchesText'
  BY <1>m, <1>n DEF ExecMatchesText, Section
<1> QED BY <1>1, <1>2, <1>3, <1>4, <1>5, <1>6, <1>7, <1>8

\* A handle that no call uses is dropped, with its text.
LEMMA ForgetInv ==
  ASSUME StatementsInv, NEW s \in Slots, Forget(s)
  PROVE  StatementsInv'
<1> USE StatementsAssumption DEF StatementsInv, GoOn, Idle, Unused, NoText, Uses, Forms
<1>1. SectionInv' /\ \A sec \in Assignable : Occupied(sec)' <=> Occupied(sec)
  BY LeftAlone DEF Forget
<1>a. /\ stmt' = [stmt EXCEPT ![s] = Unused]
      /\ \A c \in Callers : call[c].of # s
  BY DEF Forget, Busy
<1>b. \A sec \in Assignable : text'[sec] = IF text[sec].of = s THEN NoText ELSE text[sec]
  BY DEF Forget
<1>c. Live' = Live
  BY <1>a DEF Forget, Live, StatementsTypeOK
<1>2. StatementsTypeOK'
  <2>1. stmt' \in [Slots -> [status : {"none", "preparing", "open", "closed"},
                               sec : Assignable \cup {NoSection},
                               temp : BOOLEAN, rewritten : BOOLEAN]]
    BY <1>1, <1>a, <1>b, <1>c DEF Forget, StatementsTypeOK
  <2>2. \A t \in Slots : stmt'[t].status # "none" => stmt'[t].sec \in Assignable
    BY <1>1, <1>a, <1>b, <1>c DEF Forget, StatementsTypeOK
  <2>3. text' \in [Assignable -> [of : Slots \cup {Nobody}, form : Forms]]
    BY <1>1, <1>a, <1>b, <1>c DEF Forget, StatementsTypeOK
  <2>4. call' \in [Callers -> [at : {"idle", "waiting", "preparing", "checked",
                                       "repreparing", "running", "failed"},
                                 of : Slots \cup {Nobody}, use : Uses]]
    BY <1>1, <1>a, <1>b, <1>c DEF Forget, StatementsTypeOK
  <2>5. /\ lock' \in Callers \cup {Nobody}
        /\ \A d \in Callers : lock' = d <=> call'[d].at \notin {"idle", "waiting"}
    BY <1>1, <1>a, <1>b, <1>c DEF Forget, StatementsTypeOK
  <2> QED BY <1>1, <2>1, <2>2, <2>3, <2>4, <2>5 DEF StatementsTypeOK, SectionInv
<1>3. SectionsMatchStatements'
  BY <1>1, <1>a, <1>b, <1>c DEF Forget, StatementsTypeOK, SectionsMatchStatements, Live
<1>4. CallsMatch'
  BY <1>1, <1>a, <1>b, <1>c DEF Forget, StatementsTypeOK, CallsMatch
<1>m. /\ \A t \in Slots : t # s => stmt'[t] = stmt[t]
      /\ stmt'[s].status = "none"
      /\ \A t \in Slots : stmt[t].status # "none" => stmt[t].sec \in Assignable
  BY <1>a DEF StatementsTypeOK
<1>n. /\ \A d \in Callers : call[d].at # "idle" => call[d].of \in Slots \ {s}
      /\ call' = call /\ Live \subseteq Slots \ {s}
  BY <1>a DEF Forget, CallsMatch, Live
<1>o. \A d \in Callers : call[d].at \in {"checked", "repreparing", "running"} =>
        stmt[call[d].of].sec \in Assignable
  BY <1>n DEF CallsMatch, StatementsTypeOK
<1>5. SectionIsKept'
  BY <1>c, <1>m, <1>n DEF SectionIsKept, Working, Section
<1>6. TextsMatch'
  BY <1>b, <1>m, <1>n, <1>o DEF TextsMatch, Section
<1>7. RunsOwnText'
  BY <1>b, <1>m, <1>n, <1>o DEF RunsOwnText, Section
<1>8. ExecMatchesText'
  BY <1>b, <1>m, <1>n, <1>o DEF ExecMatchesText, Section
<1> QED BY <1>1, <1>2, <1>3, <1>4, <1>5, <1>6, <1>7, <1>8

\* The end of a call that closes its temporary statement.
LEMMA ReturnClosingInv ==
  ASSUME StatementsInv, NEW c \in Callers, call[c].at \in {"failed", "running"},
         call' = [call EXCEPT ![c] = Idle], lock' = Nobody, text' = text,
         Close(call[c].of)
  PROVE  StatementsInv'
<1> USE StatementsAssumption DEF StatementsInv, Idle, Uses
<1> DEFINE own == call[c].of
<1>a. /\ own \in Slots /\ stmt[own].status \in {"open", "closed"}
      /\ \A d \in Callers \ {c} : call[d].at \in {"idle", "waiting"}
      /\ \A d \in Callers : call'[d].at \in {"idle", "waiting"}
  BY DEF CallsMatch, StatementsTypeOK
<1>1. /\ SectionInv'
      /\ \A sec \in Assignable :
           Occupied(sec)' <=> Occupied(sec) /\ (own \in Live => sec # stmt[own].sec)
      /\ stmt' = [stmt EXCEPT ![own].status = "closed"]
  BY <1>a, Closing DEF StatementsInv
<1>b. Live' = Live \ {own}
  BY <1>1 DEF Live, StatementsTypeOK
<1>2. StatementsTypeOK'
  <2>1. stmt' \in [Slots -> [status : {"none", "preparing", "open", "closed"},
                               sec : Assignable \cup {NoSection},
                               temp : BOOLEAN, rewritten : BOOLEAN]]
    BY <1>1, <1>a, <1>b DEF StatementsTypeOK
  <2>2. \A t \in Slots : stmt'[t].status # "none" => stmt'[t].sec \in Assignable
    BY <1>1, <1>a, <1>b DEF StatementsTypeOK
  <2>3. text' \in [Assignable -> [of : Slots \cup {Nobody}, form : Forms]]
    BY <1>1, <1>a, <1>b DEF StatementsTypeOK
  <2>4. call' \in [Callers -> [at : {"idle", "waiting", "preparing", "checked",
                                       "repreparing", "running", "failed"},
                                 of : Slots \cup {Nobody}, use : Uses]]
    BY <1>1, <1>a, <1>b DEF StatementsTypeOK
  <2>5. /\ lock' \in Callers \cup {Nobody}
        /\ \A d \in Callers : lock' = d <=> call'[d].at \notin {"idle", "waiting"}
    BY <1>1, <1>a, <1>b DEF StatementsTypeOK
  <2> QED BY <1>1, <2>1, <2>2, <2>3, <2>4, <2>5 DEF StatementsTypeOK, SectionInv
<1>3. SectionsMatchStatements'
  BY <1>1, <1>a, <1>b DEF StatementsTypeOK, SectionsMatchStatements, Live
<1>4. CallsMatch'
  BY <1>1, <1>a, <1>b DEF StatementsTypeOK, CallsMatch
<1>m. /\ \A t \in Slots : /\ t # own => stmt'[t].status = stmt[t].status
                          /\ stmt'[t].sec = stmt[t].sec /\ stmt'[t].rewritten = stmt[t].rewritten
      /\ stmt'[own].status = "closed" /\ stmt[own].status \in {"open", "closed"}
  BY <1>1, <1>a DEF StatementsTypeOK

<1>5. SectionIsKept'
  BY <1>a DEF SectionIsKept, Working
<1>6. TextsMatch'
  BY <1>a, <1>m DEF TextsMatch
<1>7. RunsOwnText'
  BY <1>a, <1>m DEF RunsOwnText
<1>8. ExecMatchesText'
  BY <1>a DEF ExecMatchesText
<1> QED BY <1>1, <1>2, <1>3, <1>4, <1>5, <1>6, <1>7, <1>8

\* The end of a call whose statement stays.
LEMMA ReturnKeepingInv ==
  ASSUME StatementsInv, NEW c \in Callers, call[c].at \in {"failed", "running"},
         call' = [call EXCEPT ![c] = Idle], lock' = Nobody, text' = text,
         UNCHANGED <<bitmap, nextFree, acquired, stmt>>
  PROVE  StatementsInv'
<1> USE StatementsAssumption DEF StatementsInv, Idle, Uses
<1> DEFINE own == call[c].of
<1>a. /\ own \in Slots /\ stmt[own].status \in {"open", "closed"}
      /\ \A d \in Callers \ {c} : call[d].at \in {"idle", "waiting"}
      /\ \A d \in Callers : call'[d].at \in {"idle", "waiting"}
  BY DEF CallsMatch, StatementsTypeOK
<1>1. SectionInv' /\ \A sec \in Assignable : Occupied(sec)' <=> Occupied(sec)
  BY LeftAlone
<1>2. StatementsTypeOK'
  <2>1. stmt' \in [Slots -> [status : {"none", "preparing", "open", "closed"},
                               sec : Assignable \cup {NoSection},
                               temp : BOOLEAN, rewritten : BOOLEAN]]
    BY <1>1, <1>a DEF StatementsTypeOK
  <2>2. \A t \in Slots : stmt'[t].status # "none" => stmt'[t].sec \in Assignable
    BY <1>1, <1>a DEF StatementsTypeOK
  <2>3. text' \in [Assignable -> [of : Slots \cup {Nobody}, form : Forms]]
    BY <1>1, <1>a DEF StatementsTypeOK
  <2>4. call' \in [Callers -> [at : {"idle", "waiting", "preparing", "checked",
                                       "repreparing", "running", "failed"},
                                 of : Slots \cup {Nobody}, use : Uses]]
    BY <1>1, <1>a DEF StatementsTypeOK
  <2>5. /\ lock' \in Callers \cup {Nobody}
        /\ \A d \in Callers : lock' = d <=> call'[d].at \notin {"idle", "waiting"}
    BY <1>1, <1>a DEF StatementsTypeOK
  <2> QED BY <1>1, <2>1, <2>2, <2>3, <2>4, <2>5 DEF StatementsTypeOK, SectionInv
<1>3. SectionsMatchStatements'
  BY <1>1, <1>a DEF StatementsTypeOK, SectionsMatchStatements, Live
<1>4. CallsMatch'
  BY <1>1, <1>a DEF StatementsTypeOK, CallsMatch
<1>5. SectionIsKept'
  BY <1>a DEF SectionIsKept, Working
<1>6. TextsMatch'
  BY <1>a DEF TextsMatch
<1>7. RunsOwnText'
  BY <1>a DEF RunsOwnText
<1>8. ExecMatchesText'
  BY <1>a DEF ExecMatchesText
<1> QED BY <1>1, <1>2, <1>3, <1>4, <1>5, <1>6, <1>7, <1>8

LEMMA ReturnInv ==
  ASSUME StatementsInv, NEW c \in Callers, Return(c)
  PROVE  StatementsInv'
BY ReturnClosingInv, ReturnKeepingInv DEF Return

-----------------------------------------------------------------------------
LEMMA StatementsInitInv == StatementsInit => StatementsInv
<1> SUFFICES ASSUME StatementsInit PROVE StatementsInv
  OBVIOUS
<1> USE StatementsAssumption DEF StatementsInit, Unused, NoText, Idle, Uses, Forms
<1>1. SectionInv
  BY SectionInitInv
<1>2. \A sec \in Assignable : ~ Occupied(sec)
  <2> SUFFICES ASSUME NEW sec \in Assignable PROVE ~ Occupied(sec)
    OBVIOUS
  <2>1. sec \in 0 .. maxSec /\ 0 \in 0 .. maxSec /\ 1 \in 0 .. maxSec /\ sec # 0 /\ sec # 1
    BY MaxSecNat DEF Assignable
  <2>2. /\ sec \div WordBits \in 0 .. Words - 1
        /\ 0 \div WordBits = 0 /\ 0 % WordBits = 0 /\ 1 \div WordBits = 0 /\ 1 % WordBits = 1
    BY <2>1, BitInBitmap, SectionAssumption, SMTT(60)
  <2>3. sec \div WordBits = 0 => sec % WordBits # 0 /\ sec % WordBits # 1
    <3>1. sec \in Nat /\ 0 \in Nat /\ 1 \in Nat
      BY <2>1, MaxSecNat
    <3>2. sec \div WordBits = 0 /\ sec % WordBits = 0 => sec = 0
      BY <2>2, <3>1, OneBitPerSection
    <3>3. sec \div WordBits = 0 /\ sec % WordBits = 1 => sec = 1
      BY <2>2, <3>1, OneBitPerSection
    <3> QED BY <2>1, <3>2, <3>3
  <2> QED BY <2>2, <2>3 DEF SectionInit, Occupied
<1>3. Live = {}
  BY DEF Live
<1>4. StatementsTypeOK
  BY <1>1 DEF SectionInv, StatementsTypeOK
<1>5. SectionsMatchStatements
  BY <1>2, <1>3 DEF SectionsMatchStatements
<1>6. CallsMatch /\ SectionIsKept /\ TextsMatch
  BY <1>3 DEF CallsMatch, SectionIsKept, TextsMatch
<1>7. RunsOwnText /\ ExecMatchesText
  BY DEF RunsOwnText, ExecMatchesText
<1> QED BY <1>1, <1>4, <1>5, <1>6, <1>7 DEF StatementsInv

LEMMA StatementsNextInv ==
  StatementsInv /\ [StatementsNext]_statementVars => StatementsInv'
<1> SUFFICES ASSUME StatementsInv, [StatementsNext]_statementVars
             PROVE  StatementsInv'
  OBVIOUS
<1>1. ASSUME NEW s \in Slots, CloseStmt(s) \/ Forget(s)
      PROVE  StatementsInv'
  BY <1>1, CloseStmtInv, ForgetInv
<1>2. ASSUME NEW c \in Callers, NEW s \in Slots, NEW use \in Uses, NEW temp \in BOOLEAN,
             Prepare(c, s, temp, use)
      PROVE  StatementsInv'
  BY <1>2, PrepareInv
<1>3. ASSUME NEW c \in Callers, NEW s \in Slots, NEW use \in Uses, Start(c, s, use)
      PROVE  StatementsInv'
  BY <1>3, StartInv
<1>4. ASSUME NEW c \in Callers, NEW ok \in BOOLEAN, Reprepare(c, ok)
      PROVE  StatementsInv'
  BY <1>4, ReprepareInv
<1>5. ASSUME NEW c \in Callers, NoSectionLeft(c) \/ Prepared(c) \/ PrepareFailed(c) \/ Lock(c)
      PROVE  StatementsInv'
  BY <1>5, NoSectionLeftInv, PreparedInv, PrepareFailedInv, LockInv
<1>6. ASSUME NEW c \in Callers, Rewrite(c) \/ RestoreFirst(c) \/ Straight(c) \/ Return(c)
      PROVE  StatementsInv'
  BY <1>6, RewriteInv, RestoreFirstInv, StraightInv, ReturnInv
<1>7. CASE UNCHANGED statementVars
  <2> USE <1>7 DEF statementVars, StatementsInv
  <2>1. SectionInv' /\ \A sec \in Assignable : Occupied(sec)' <=> Occupied(sec)
    BY LeftAlone
  <2>2. StatementsTypeOK'
    BY <2>1 DEF StatementsTypeOK, SectionInv
  <2>3. SectionsMatchStatements'
    BY <2>1 DEF SectionsMatchStatements, Live
  <2>4. CallsMatch' /\ SectionIsKept' /\ TextsMatch'
    BY DEF CallsMatch, SectionIsKept, TextsMatch, Working, Live, Section
  <2>5. RunsOwnText' /\ ExecMatchesText'
    BY DEF RunsOwnText, ExecMatchesText, Section
  <2> QED BY <2>1, <2>2, <2>3, <2>4, <2>5
<1> QED BY <1>1, <1>2, <1>3, <1>4, <1>5, <1>6, <1>7 DEF StatementsNext

LEMMA StatementsInductive == StatementsSpec => []StatementsInv
BY StatementsInitInv, StatementsNextInv, PTL DEF StatementsSpec

\* Sections, slots, calls and texts stay within their types, for any number of
\* callers, statements and sections.
THEOREM StatementsTyped == StatementsSpec => []StatementsTypeOK
<1>1. StatementsInv => StatementsTypeOK  BY DEF StatementsInv
<1> QED BY <1>1, StatementsInductive, PTL

\* A section is held while a live statement has it, and no two live statements
\* have the same one, whatever is closed, forgotten or prepared again meanwhile.
THEOREM SectionsStayMatched == StatementsSpec => []SectionsMatchStatements
<1>1. StatementsInv => SectionsMatchStatements  BY DEF StatementsInv
<1> QED BY <1>1, StatementsInductive, PTL

\* No execution goes out on a section that holds the text of another statement.
THEOREM ExecutionsRunOwnText == StatementsSpec => []RunsOwnText
<1>1. StatementsInv => RunsOwnText  BY DEF StatementsInv
<1> QED BY <1>1, StatementsInductive, PTL

\* Plain and short-BLOB executions send the descriptors of the text on the server,
\* whichever of them rewrote it last.
THEOREM DescriptorsFitText == StatementsSpec => []ExecMatchesText
<1>1. StatementsInv => ExecMatchesText  BY DEF StatementsInv
<1> QED BY <1>1, StatementsInductive, PTL

\* A step of the statements is a step of the allocator or leaves it alone.
LEMMA StatementsSectionStep ==
  StatementsInv /\ [StatementsNext]_statementVars => [SectionNext]_sectionVars
<1> SUFFICES ASSUME StatementsInv, [StatementsNext]_statementVars
             PROVE  SectionNext \/ UNCHANGED sectionVars
  OBVIOUS
<1> USE DEF sectionVars
<1>1. \A sec \in Assignable : Release(sec) => SectionNext
  BY MaxSecNat DEF SectionNext, Assignable
<1>2. ASSUME NEW s \in Slots, stmt[s].status \in {"open", "closed"}, Close(s)
      PROVE  SectionNext \/ UNCHANGED sectionVars
  <2>1. stmt[s].sec \in Assignable
    BY <1>2 DEF StatementsInv, StatementsTypeOK
  <2> QED BY <1>1, <1>2, <2>1 DEF Close
<1>3. ASSUME NEW s \in Slots, CloseStmt(s) \/ Forget(s)
      PROVE  SectionNext \/ UNCHANGED sectionVars
  BY <1>2, <1>3 DEF CloseStmt, Forget
<1>4. ASSUME NEW c \in Callers, NEW s \in Slots, NEW use \in Uses, NEW temp \in BOOLEAN,
             Prepare(c, s, temp, use)
      PROVE  SectionNext
  BY <1>4 DEF Prepare, SectionNext, Acquire
<1>5. ASSUME NEW c \in Callers, NoSectionLeft(c)
      PROVE  SectionNext
  BY <1>5 DEF NoSectionLeft, SectionNext, Acquire
<1>6. ASSUME NEW c \in Callers, PrepareFailed(c)
      PROVE  SectionNext
  <2>1. call[c].of \in Slots /\ stmt[call[c].of].status = "preparing"
    BY <1>6 DEF PrepareFailed, StatementsInv, CallsMatch
  <2>2. Section(c) \in Assignable
    BY <2>1 DEF StatementsInv, StatementsTypeOK, Section
  <2> QED BY <1>1, <1>6, <2>2 DEF PrepareFailed
<1>7. ASSUME NEW c \in Callers, Return(c)
      PROVE  SectionNext \/ UNCHANGED sectionVars
  <2>1. call[c].of \in Slots /\ stmt[call[c].of].status \in {"open", "closed"}
    BY <1>7 DEF Return, StatementsInv, CallsMatch
  <2> QED BY <1>2, <1>7, <2>1 DEF Return
<1>8. ASSUME NEW c \in Callers,
             \/ \E s \in Slots, use \in Uses : Start(c, s, use)
             \/ \E ok \in BOOLEAN : Reprepare(c, ok)
             \/ Prepared(c) \/ Lock(c) \/ Rewrite(c) \/ RestoreFirst(c) \/ Straight(c)
      PROVE  UNCHANGED sectionVars
  BY <1>8 DEF Start, Reprepare, Prepared, Lock, Rewrite, RestoreFirst, Straight
<1>9. CASE UNCHANGED statementVars
  BY <1>9 DEF statementVars
<1> QED BY <1>3, <1>4, <1>5, <1>6, <1>7, <1>8, <1>9 DEF StatementsNext

\* The allocator behind the statements runs as its own specification says.
LEMMA StatementsUseAllocator == StatementsSpec => SectionSpec
<1>1. StatementsInit => StatementsInv /\ SectionInit
  BY StatementsInitInv DEF StatementsInit
<1>2. StatementsInv /\ [StatementsNext]_statementVars => StatementsInv'
  BY StatementsNextInv
<1>3. StatementsInv /\ [StatementsNext]_statementVars => [SectionNext]_sectionVars
  BY StatementsSectionStep
<1> QED BY <1>1, <1>2, <1>3, PTL DEF StatementsSpec, SectionSpec

\* Behind the statements the allocator grants only what is free and refuses only
\* when all is held: it implements the pool of sections there too.
THEOREM StatementsPool == StatementsSpec => ImplementsPool
BY StatementsUseAllocator, SectionRefinement, PTL

\* And a statement is not given the section that was granted last, and released
\* since, while another one is free (sectionManager.Acquire).
THEOREM StatementsRotation == StatementsSpec => RotatesAway
BY StatementsUseAllocator, SectionRotation, PTL

-----------------------------------------------------------------------------
\* A literal, the marks around tokens and the modes of the scanner are told apart.
LEMMA CharactersDiffer ==
  /\ Literal \notin Characters /\ Literal # "?" /\ Literal \notin Quotes
  /\ "?" \notin Quotes /\ "end" \notin Characters
  /\ "line" \notin Quotes /\ "block" \notin Quotes /\ "plain" \notin Quotes
BY DEF Characters, Quotes, Literal

-----------------------------------------------------------------------------
(* Tokens. *)

\* What a scan from left to right has found of the tokens so far.
Starting(txt, run) ==
  /\ run \in [0 .. Len(txt) -> SUBSET (1 .. Len(txt))]
  /\ run[0] = {}
  /\ \A i \in 1 .. Len(txt) :
       run[i] = IF run[i - 1] = {} \/ TokenEnd(txt, Max(run[i - 1])) = i - 1
                THEN run[i - 1] \cup {i} ELSE run[i - 1]

\* TokenStarts is where a scan over the text ends.
LEMMA StartsRun ==
  ASSUME NEW S, NEW txt \in Seq(S)
  PROVE  \E run : Starting(txt, run) /\ TokenStarts(txt) = run[Len(txt)]
<1> DEFINE n == Len(txt)
           V == SUBSET (1 .. n)
           all == [i \in DOMAIN txt |-> i]
           next(starts, i) ==
             IF starts = {} \/ TokenEnd(txt, Max(starts)) = i - 1 THEN starts \cup {i} ELSE starts
           step == [i \in 1 .. n |-> [v \in V |-> next(v, i)]]
           Def(g) == g = [t \in SUBSET DOMAIN all |->
                            IF t = {} THEN {} ELSE next(g[t \ {Max(t)}], all[Max(t)])]
           iter == CHOOSE g : Def(g)
           run == [k \in 0 .. n |-> iter[1 .. k]]
<1>1. n \in Nat /\ DOMAIN txt = 1 .. n /\ DOMAIN all = 1 .. n /\ \A i \in 1 .. n : all[i] = i
  OBVIOUS
<1>2. TokenStarts(txt) = iter[1 .. n]
  <2>1. TokenStarts(txt) = iter[DOMAIN all]
    BY DEF TokenStarts, FoldLeft, MapThenFoldSet
  <2> HIDE DEF iter, all, n
  <2> QED BY <2>1, <1>1
<1>3. ASSUME NEW v \in V, NEW i \in 1 .. n PROVE next(v, i) \in V
  OBVIOUS
<1> HIDE DEF next
<1>4. step \in [1 .. n -> [V -> V]]
  BY <1>3
<1> HIDE DEF all
<1>5. PICK g \in [SUBSET (1 .. n) -> V] : FoldsBy(g, n, {}, step)
  <2>1. {} \in V
    OBVIOUS
  <2> HIDE DEF step, n, V
  <2> QED BY <1>1, <1>4, <2>1, FoldsExist
<1> HIDE DEF V
<1>6. Def(g)
  <2>1. ASSUME NEW t \in SUBSET (1 .. n), t # {}
        PROVE  step[Max(t)][g[t \ {Max(t)}]] = next(g[t \ {Max(t)}], all[Max(t)])
    <3>1. Max(t) \in 1 .. n
      <4> HIDE DEF n
      <4> QED BY <1>1, <2>1, MaxOf
    <3>2. g[t \ {Max(t)}] \in V
      OBVIOUS
    <3> HIDE DEF n
    <3> QED BY <3>1, <3>2, <1>1
  <2> HIDE DEF step, n
  <2> QED BY <2>1, <1>1, <1>5 DEF FoldsBy
<1>7. Def(iter)
  <2> HIDE DEF Def
  <2> QED BY <1>6
<1> HIDE DEF iter, step
<1>8. /\ iter[{}] = {}
      /\ \A t \in SUBSET (1 .. n) : t # {} => iter[t] = next(iter[t \ {Max(t)}], all[Max(t)])
  <2> HIDE DEF n
  <2>1. {} \in SUBSET (1 .. n)
    OBVIOUS
  <2> QED BY <1>1, <1>7, <2>1
<1> HIDE DEF Def, n
<1>9. ASSUME NEW k \in 1 .. n PROVE iter[1 .. k] = next(iter[1 .. k - 1], k)
  <2> DEFINE t == 1 .. k
  <2>1. t \in SUBSET (1 .. n) /\ t # {} /\ Max(t) = k /\ t \ {k} = 1 .. k - 1
    BY <1>1, RangeFolds
  <2> HIDE DEF t
  <2>2. iter[t] = next(iter[t \ {Max(t)}], all[Max(t)])
    BY <1>8, <2>1
  <2> QED BY <2>1, <2>2, <1>1 DEF t
<1>10. 1 .. 0 = {} /\ {} \in V
  BY DEF V
<1> DEFINE Typed == {k \in 0 .. n : iter[1 .. k] \in V}
<1>11. \A k \in 0 .. n : k \in Typed
  <2>1. 0 \in Typed
    <3>1. iter[1 .. 0] \in V
      BY <1>8, <1>10
    <3> QED BY <1>1, <3>1
  <2>2. ASSUME NEW k \in 1 .. n, k - 1 \in Typed PROVE k \in Typed
    BY <2>2, <1>1, <1>3, <1>9
  <2> HIDE DEF Typed
  <2> QED BY <1>1, <2>1, <2>2, InductionUpTo
<1>12. run \in [0 .. n -> V] /\ run[0] = {} /\ run[n] = iter[1 .. n]
  BY <1>1, <1>8, <1>10, <1>11
<1>13. ASSUME NEW k \in 1 .. n PROVE run[k] = next(run[k - 1], k)
  <2>1. k \in 0 .. n /\ k - 1 \in 0 .. n
    BY <1>1
  <2> QED BY <2>1, <1>9
<1> HIDE DEF run
<1>14. Starting(txt, run)
  BY <1>12, <1>13 DEF Starting, n, V, next
<1> QED BY <1>2, <1>12, <1>14 DEF n

\* The least of some positions is one of them or the last of the text.
LEMMA FirstIs ==
  ASSUME NEW S, NEW txt \in Seq(S), Len(txt) > 0, NEW P, P \subseteq 1 .. Len(txt)
  PROVE  /\ FirstOf(P, txt) \in P \cup {Len(txt)}
         /\ \A p \in P : FirstOf(P, txt) <= p
<1> DEFINE T == P \cup {Len(txt)}
<1>1. T \subseteq Nat /\ T # {}
  <2>1. Len(txt) \in Nat /\ 1 .. Len(txt) \subseteq Nat
    OBVIOUS
  <2> QED BY ONLY <2>1, P \subseteq 1 .. Len(txt)
<1>2. PICK x \in T : \A y \in T : x <= y
  <2> HIDE DEF T
  <2> QED BY <1>1, LeastOf
<1>3. FirstOf(P, txt) = CHOOSE y \in T : \A z \in T : y <= z
  BY DEF FirstOf, Min
<1> QED BY <1>2, <1>3

Pair(txt, j, a, b) == j < Len(txt) /\ txt[j] = a /\ txt[j + 1] = b

\* The quotes of the token from i to j, and whether the one at j ends it.
QuotesTo(txt, i, j) == Quantify(i .. j, LAMBDA h : txt[h] = txt[i])

ClosesAt(txt, i, j) ==
  /\ txt[j] = txt[i]
  /\ QuotesTo(txt, i, j) % 2 = 0
  /\ ~ Pair(txt, j, txt[i], txt[i])

\* Where a token ends, by the characters it begins with.
EndsQuoted(txt, i, e) ==
  /\ e = Len(txt) \/ (e > i /\ ClosesAt(txt, i, e))
  /\ \A j \in i + 1 .. Len(txt) : ClosesAt(txt, i, j) => e <= j

EndsLine(txt, i, e) ==
  /\ e = Len(txt) \/ (e >= i + 2 /\ txt[e] = "newline")
  /\ \A j \in i + 2 .. Len(txt) : txt[j] = "newline" => e <= j

EndsBlock(txt, i, e) ==
  /\ e = Len(txt) \/ (e - 1 >= i + 2 /\ Pair(txt, e - 1, "*", "/"))
  /\ \A j \in i + 2 .. Len(txt) : Pair(txt, j, "*", "/") => e <= j + 1

\* Where a token ends, by what it begins with.
LEMMA TokenEnds ==
  ASSUME NEW S, NEW txt \in Seq(S), NEW i \in 1 .. Len(txt)
  PROVE  LET e == TokenEnd(txt, i)
         IN /\ e \in i .. Len(txt)
            /\ txt[i] \in Quotes => EndsQuoted(txt, i, e)
            /\ Pair(txt, i, "-", "-") => e > i /\ EndsLine(txt, i, e)
            /\ Pair(txt, i, "/", "*") => e > i /\ EndsBlock(txt, i, e)
            /\ txt[i] \notin Quotes /\ ~ Pair(txt, i, "-", "-") /\ ~ Pair(txt, i, "/", "*")
                => e = i
<1> DEFINE e == TokenEnd(txt, i)
           n == Len(txt)
           P1 == {j \in i + 1 .. n : ClosesAt(txt, i, j)}
           P2 == {j \in i + 2 .. n : txt[j] = "newline"}
           P3 == {j + 1 : j \in {h \in i + 2 .. n : Pair(txt, h, "*", "/")}}
<1>0. n \in Nat /\ n > 0 /\ i \in Nat /\ i <= n
  OBVIOUS
<1>1. e = CASE txt[i] \in Quotes -> FirstOf(P1, txt)
            [] Pair(txt, i, "-", "-") -> FirstOf(P2, txt)
            [] Pair(txt, i, "/", "*") -> FirstOf(P3, txt)
            [] OTHER -> i
  BY DEF TokenEnd, Pair, ClosesAt, QuotesTo
<1>2. P1 \subseteq 1 .. n /\ P2 \subseteq 1 .. n /\ P3 \subseteq 1 .. n
  BY DEF Pair
<1>3. FirstOf(P1, txt) \in P1 \cup {n} /\ \A p \in P1 : FirstOf(P1, txt) <= p
  <2> HIDE DEF P1
  <2> QED BY <1>0, <1>2, FirstIs
<1>4. FirstOf(P2, txt) \in P2 \cup {n} /\ \A p \in P2 : FirstOf(P2, txt) <= p
  <2> HIDE DEF P2
  <2> QED BY <1>0, <1>2, FirstIs
<1>5. FirstOf(P3, txt) \in P3 \cup {n} /\ \A p \in P3 : FirstOf(P3, txt) <= p
  <2> HIDE DEF P3
  <2> QED BY <1>0, <1>2, FirstIs
<1> HIDE DEF e
<1>6. CASE txt[i] \in Quotes
  <2>1. e = FirstOf(P1, txt) /\ ~ Pair(txt, i, "-", "-") /\ ~ Pair(txt, i, "/", "*")
    BY <1>1, <1>6 DEF Pair, Quotes
  <2>2. e \in i .. n /\ EndsQuoted(txt, i, e)
    BY <2>1, <1>0, <1>3 DEF EndsQuoted
  <2> QED BY <2>1, <2>2, <1>6 DEF e
<1>7. CASE Pair(txt, i, "-", "-")
  <2>1. e = FirstOf(P2, txt) /\ txt[i] \notin Quotes /\ ~ Pair(txt, i, "/", "*") /\ i < n
    BY <1>1, <1>7 DEF Pair, Quotes
  <2>2. e \in i .. n /\ e > i /\ EndsLine(txt, i, e)
    BY <2>1, <1>0, <1>4 DEF EndsLine
  <2> QED BY <2>1, <2>2, <1>7 DEF e
<1>8. CASE Pair(txt, i, "/", "*")
  <2>1. e = FirstOf(P3, txt) /\ txt[i] \notin Quotes /\ ~ Pair(txt, i, "-", "-") /\ i < n
    BY <1>1, <1>8 DEF Pair, Quotes
  <2>2. e = n \/ \E h \in i + 2 .. n : Pair(txt, h, "*", "/") /\ e = h + 1
    BY <2>1, <1>5
  <2>3. ASSUME NEW h \in i + 2 .. n, Pair(txt, h, "*", "/") PROVE e <= h + 1
    <3>1. h + 1 \in P3
      BY <2>3
    <3> QED BY <3>1, <2>1, <1>5
  <2> HIDE DEF P1, P2, P3
  <2>4. ASSUME NEW h \in i + 2 .. n, Pair(txt, h, "*", "/"), e = h + 1
        PROVE  e \in i .. n /\ e > i /\ e - 1 >= i + 2 /\ Pair(txt, e - 1, "*", "/")
    <3>1. h < n /\ h \in Nat /\ e - 1 = h
      BY <2>4, <1>0 DEF Pair
    <3> QED BY <2>4, <3>1, <1>0
  <2>5. e \in i .. n /\ e > i /\ EndsBlock(txt, i, e)
    <3>1. e = n => e \in i .. n /\ e > i
      BY <2>1, <1>0
    <3> QED BY <2>2, <2>3, <2>4, <3>1 DEF EndsBlock
  <2> QED BY <2>1, <2>5, <1>8 DEF e
<1>9. CASE txt[i] \notin Quotes /\ ~ Pair(txt, i, "-", "-") /\ ~ Pair(txt, i, "/", "*")
  BY <1>0, <1>1, <1>9 DEF e
<1> QED BY <1>6, <1>7, <1>8, <1>9

\* The tokens of a text: the first begins it, each other one begins behind the end
\* of one before, and none begins inside another.
LEMMA TokensCover ==
  ASSUME NEW S, NEW txt \in Seq(S)
  PROVE  LET T == TokenStarts(txt)
             n == Len(txt)
         IN /\ T \subseteq 1 .. n
            /\ n > 0 => 1 \in T
            /\ \A m \in T : TokenEnd(txt, m) < n => TokenEnd(txt, m) + 1 \in T
            /\ \A m \in T, j \in 1 .. n : m < j /\ j <= TokenEnd(txt, m) => j \notin T
<1> DEFINE n == Len(txt)
           T == TokenStarts(txt)
           E(i) == TokenEnd(txt, i)
<1>0. n \in Nat /\ \A i \in 1 .. n : E(i) \in i .. n
  BY TokenEnds
<1>1. PICK run : Starting(txt, run) /\ T = run[n]
  BY StartsRun
<1> HIDE DEF T
<1>2. /\ run[0] = {}
      /\ \A i \in 0 .. n : run[i] \in SUBSET (1 .. n)
      /\ \A i \in 1 .. n : run[i] = IF run[i - 1] = {} \/ E(Max(run[i - 1])) = i - 1
                                   THEN run[i - 1] \cup {i} ELSE run[i - 1]
  BY <1>1 DEF Starting
<1> HIDE DEF n, E
<1>11. ASSUME NEW k \in 1 .. n
       PROVE  /\ k \in Nat /\ k - 1 \in 0 .. n /\ k \in 0 .. n
              /\ run[k] = run[k - 1] \/ run[k] = run[k - 1] \cup {k}
              /\ run[k - 1] = {} => run[k] = run[k - 1] \cup {k}
              /\ E(Max(run[k - 1])) = k - 1 => run[k] = run[k - 1] \cup {k}
              /\ run[k - 1] # {} /\ E(Max(run[k - 1])) # k - 1 => run[k] = run[k - 1]
  <2>1. run[k] = IF run[k - 1] = {} \/ E(Max(run[k - 1])) = k - 1
                 THEN run[k - 1] \cup {k} ELSE run[k - 1]
    BY <1>2
  <2> HIDE DEF E
  <2> QED BY <1>0, <2>1
\* A position is taken in when the scan comes to it, or never.
<1> DEFINE Upto == {k \in 0 .. n : run[k] \subseteq 1 .. k}
<1>3. \A k \in 0 .. n : k \in Upto
  <2>1. 0 \in Upto
    BY <1>0, <1>2
  <2>2. ASSUME NEW k \in 1 .. n, k - 1 \in Upto PROVE k \in Upto
    <3>1. run[k - 1] \subseteq 1 .. k - 1 /\ 1 .. k - 1 \subseteq 1 .. k /\ k \in 1 .. k
      BY <2>2, <1>11
    <3> QED BY <3>1, <1>11
  <2> HIDE DEF Upto
  <2> QED BY <1>0, <2>1, <2>2, InductionUpTo
<1> DEFINE Keeps == {k \in 0 .. n : \A i \in 0 .. k : run[i] = run[k] \cap (1 .. i)}
<1>4. \A k \in 0 .. n : k \in Keeps
  <2>1. 0 \in Keeps
    BY <1>0, <1>2
  <2>2. ASSUME NEW k \in 1 .. n, k - 1 \in Keeps PROVE k \in Keeps
    <3>1. k \in Nat /\ k - 1 \in 0 .. n /\ k \in 0 .. n
      BY <1>0
    <3>2. ASSUME NEW i \in 0 .. k PROVE run[i] = run[k] \cap (1 .. i)
      <4>1. CASE i = k
        BY <4>1, <3>1, <1>3
      <4>2. CASE i # k
        <5>1. i \in 0 .. k - 1 /\ run[i] = run[k - 1] \cap (1 .. i)
          BY <4>2, <3>1, <2>2
        <5>2. run[k] \cap (1 .. i) = run[k - 1] \cap (1 .. i)
          <6>1. k \notin 1 .. i
            BY <5>1, <3>1
          <6> QED BY <6>1, <1>11
        <5> QED BY <5>1, <5>2
      <4> QED BY <4>1, <4>2
    <3> QED BY <3>1, <3>2
  <2> HIDE DEF Keeps
  <2> QED BY <1>0, <2>1, <2>2, InductionUpTo
<1>5. \A i \in 0 .. n : run[i] = T \cap (1 .. i)
  BY <1>0, <1>1, <1>4
<1>6. T \subseteq 1 .. n
  BY <1>0, <1>1, <1>3
<1> HIDE DEF Upto, Keeps
<1>7. n > 0 => 1 \in T
  <2> SUFFICES ASSUME n > 0 PROVE 1 \in T
    OBVIOUS
  <2>1. 1 \in 1 .. n /\ 1 \in 0 .. n
    BY <1>0
  <2>2. run[1] = run[0] \cup {1}
    <3>1. run[1 - 1] = {}
      BY <1>2
    <3> QED BY <2>1, <3>1, <1>11
  <2> QED BY <2>1, <2>2, <1>5
\* Inside a token nothing begins.
<1>8. ASSUME NEW m \in T
      PROVE  \A k \in 0 .. n : m <= k /\ k <= E(m) => (T \cap (1 .. k)) \ (1 .. m) = {}
  <2> DEFINE Empty == {k \in 0 .. n : m <= k /\ k <= E(m) => (T \cap (1 .. k)) \ (1 .. m) = {}}
  <2>0. m \in Nat /\ m \in 1 .. n /\ E(m) \in Nat /\ E(m) <= n
    BY <1>0, <1>6
  <2>1. 0 \in Empty
    BY <1>0
  <2>2. ASSUME NEW k \in 1 .. n, k - 1 \in Empty PROVE k \in Empty
    <3> SUFFICES ASSUME m <= k, k <= E(m) PROVE (T \cap (1 .. k)) \ (1 .. m) = {}
      BY <1>0
    <3>0. k \in Nat /\ k - 1 \in 0 .. n /\ k \in 0 .. n
      BY <1>0
    <3>1. CASE k = m
      BY <3>1, <3>0
    <3>2. CASE k # m
      <4>1. (T \cap (1 .. k - 1)) \ (1 .. m) = {} /\ m <= k - 1 /\ k - 1 < E(m)
        BY <3>2, <3>0, <2>0, <2>2
      <4>2. run[k - 1] = T \cap (1 .. k - 1) /\ run[k] = T \cap (1 .. k)
        BY <3>0, <1>5
      <4>3. run[k - 1] \subseteq 1 .. m /\ m \in run[k - 1]
        BY <4>1, <4>2, <2>0, <3>0
      <4>4. Max(run[k - 1]) = m
        <5>1. Max(run[k - 1]) \in run[k - 1] /\ \A y \in run[k - 1] : Max(run[k - 1]) >= y
          BY <1>0, <4>3, <1>2, <3>0, MaxOf
        <5> QED BY <5>1, <4>3, <2>0
      <4>5. run[k] = run[k - 1]
        <5>1. E(Max(run[k - 1])) # k - 1 /\ run[k - 1] # {}
          BY <4>1, <4>3, <4>4, <2>0, <3>0
        <5> QED BY <5>1, <1>11
      <4> QED BY <4>1, <4>2, <4>5
    <3> QED BY <3>1, <3>2
  <2> HIDE DEF Empty
  <2>3. \A k \in 0 .. n : k \in Empty
    BY <1>0, <2>1, <2>2, InductionUpTo
  <2> QED BY <2>3 DEF Empty
<1>9. ASSUME NEW m \in T, NEW j \in 1 .. n, m < j, j <= E(m) PROVE j \notin T
  <2>1. j \in 0 .. n /\ m <= j /\ m \in 1 .. n /\ j \in 1 .. j /\ j \notin 1 .. m
    BY <1>0, <1>6, <1>9
  <2>2. (T \cap (1 .. j)) \ (1 .. m) = {}
    BY <2>1, <1>8, <1>9
  <2> QED BY <2>1, <2>2
<1>10. ASSUME NEW m \in T, E(m) < n PROVE E(m) + 1 \in T
  <2> DEFINE e == E(m)
  <2>0. m \in 1 .. n /\ m \in Nat /\ e \in 0 .. n /\ m <= e /\ e + 1 \in 1 .. n /\ (e + 1) - 1 = e
        /\ e + 1 \in 0 .. n /\ e + 1 \in Nat
    BY <1>0, <1>6, <1>10
  <2>1. (T \cap (1 .. e)) \ (1 .. m) = {}
    BY <2>0, <1>8
  <2>2. run[e] = T \cap (1 .. e) /\ run[e + 1] = T \cap (1 .. e + 1)
    BY <2>0, <1>5
  <2>3. run[e] \subseteq 1 .. m /\ m \in run[e]
    BY <2>0, <2>1, <2>2
  <2>4. Max(run[e]) = m
    <3>1. Max(run[e]) \in run[e] /\ \A y \in run[e] : Max(run[e]) >= y
      BY <1>0, <2>3, <1>2, <2>0, MaxOf
    <3> QED BY <3>1, <2>3, <2>0
  <2>5. E(Max(run[e])) = e
    BY <2>4
  <2> HIDE DEF e
  <2>6. run[e + 1] = run[e] \cup {e + 1}
    BY <2>0, <2>5, <1>11
  <2> QED BY <2>2, <2>6 DEF e
<1> QED BY <1>6, <1>7, <1>9, <1>10 DEF n, T, E

ScanStates ==
  [mode : Modes, skip : BOOLEAN, out : Seq(Characters \cup {Literal}), param : Nat,
   kept : Seq(Nat), inlined : Seq(Nat)]

Goes(st, mode, skip) == st.mode = mode /\ (st.skip <=> skip)

Ready(st) == Goes(st, "plain", FALSE)

Copies(st, next, ch) ==
  /\ next.out = Append(st.out, ch)
  /\ next.param = st.param /\ next.kept = st.kept /\ next.inlined = st.inlined

Takes(st, next, ch, literal) ==
  /\ next.param = st.param + 1
  /\ IF literal THEN /\ next.out = Append(st.out, Literal)
                     /\ next.kept = st.kept /\ next.inlined = Append(st.inlined, st.param + 1)
     ELSE /\ next.out = Append(st.out, ch)
          /\ next.kept = Append(st.kept, st.param + 1) /\ next.inlined = st.inlined

\* One turn of the scanner, by where it is.
LEMMA ScanTurns ==
  ASSUME NEW txt \in Seq(Characters), NEW inline \in Seq(BOOLEAN),
         NEW st \in ScanStates, NEW j \in 1 .. Len(txt)
  PROVE  LET next == ScanStep(txt, inline, st, j)
             ch   == txt[j]
         IN /\ next \in ScanStates
            /\ st.skip => Goes(next, st.mode, FALSE)
            /\ Goes(st, "line", FALSE) =>
                 Goes(next, IF ch = "newline" THEN "plain" ELSE "line", FALSE)
            /\ Goes(st, "block", FALSE) =>
                 IF Pair(txt, j, "*", "/") THEN Goes(next, "plain", TRUE)
                 ELSE Goes(next, "block", FALSE)
            /\ \A q \in Quotes : Goes(st, q, FALSE) =>
                 IF Pair(txt, j, q, q) THEN Goes(next, q, TRUE)
                 ELSE Goes(next, IF ch = q THEN "plain" ELSE q, FALSE)
            /\ ~ Ready(st) => Copies(st, next, ch)
            /\ Ready(st) =>
                 /\ Pair(txt, j, "-", "-") => Goes(next, "line", TRUE)
                 /\ Pair(txt, j, "/", "*") => Goes(next, "block", TRUE)
                 /\ ch \in Quotes => Goes(next, ch, FALSE)
                 /\ ch \notin Quotes /\ ~ Pair(txt, j, "-", "-") /\ ~ Pair(txt, j, "/", "*")
                    => Ready(next)
                 /\ ch # "?" => Copies(st, next, ch)
                 /\ ch = "?" /\ st.param + 1 \in DOMAIN inline =>
                      Takes(st, next, ch, inline[st.param + 1])
<1> DEFINE ch    == txt[j]
           after == IF j < Len(txt) THEN txt[j + 1] ELSE "end"
           next  == ScanStep(txt, inline, st, j)
<1>1. ch \in Characters /\ j \in Nat /\ Len(txt) \in Nat /\ j <= Len(txt)
  OBVIOUS
<1>2. j < Len(txt) => txt[j + 1] \in Characters
  OBVIOUS
<1>3. st.mode \in Modes /\ st.skip \in BOOLEAN /\ st.out \in Seq(Characters \cup {Literal})
      /\ st.param \in Nat /\ st.kept \in Seq(Nat) /\ st.inlined \in Seq(Nat)
  BY DEF ScanStates
<1>4. Append(st.out, ch) \in Seq(Characters \cup {Literal})
      /\ Append(st.out, Literal) \in Seq(Characters \cup {Literal})
  <2> HIDE DEF ch
  <2> QED BY <1>1, <1>3
<1>5. Append(st.kept, st.param + 1) \in Seq(Nat) /\ Append(st.inlined, st.param + 1) \in Seq(Nat)
  BY <1>3
<1>6. ASSUME NEW m \in Modes, NEW b \in BOOLEAN
      PROVE  Copied(st, ch, m, b) \in ScanStates /\ Copies(st, Copied(st, ch, m, b), ch)
             /\ Goes(Copied(st, ch, m, b), m, b)
  <2> HIDE DEF ch
  <2> QED BY <1>3, <1>4 DEF ScanStates, Copies, Goes, Copied
<1>9. /\ "plain" \in Modes /\ "line" \in Modes /\ "block" \in Modes /\ Quotes \subseteq Modes
      /\ "line" \notin Quotes /\ "block" \notin Quotes /\ "plain" \notin Quotes
      /\ TRUE \in BOOLEAN /\ FALSE \in BOOLEAN
  BY DEF Modes, Quotes
<1>10. ASSUME NEW a, NEW b, b \in Characters
       PROVE  Pair(txt, j, a, b) <=> (ch = a /\ after = b)
  BY <1>10, <1>1, CharactersDiffer DEF Pair
<1>15. "-" \in Characters /\ "/" \in Characters /\ "*" \in Characters /\ Quotes \subseteq Characters
  BY DEF Characters
<1>16. next = IF st.skip THEN Copied(st, ch, st.mode, FALSE)
              ELSE CASE st.mode = "line" -> InLine(st, ch)
                     [] st.mode = "block" -> InBlock(st, ch, after)
                     [] st.mode \in Quotes -> InQuotes(st, ch, after)
                     [] OTHER -> Outside(st, ch, after, inline)
  BY DEF ScanStep
<1> HIDE DEF after, ch, next
<1>11. CASE st.skip
  <2>1. next = Copied(st, ch, st.mode, FALSE)
    BY <1>11, <1>16
  <2> QED BY <2>1, <1>3, <1>6, <1>11, <1>9 DEF Goes, Ready, ch, next
<1>12. CASE ~ st.skip /\ st.mode = "line"
  <2>1. next = InLine(st, ch)
    BY <1>12, <1>16, <1>9
  <2>2. /\ next \in ScanStates /\ Copies(st, next, ch)
        /\ Goes(next, IF ch = "newline" THEN "plain" ELSE "line", FALSE)
    BY <2>1, <1>6, <1>9 DEF InLine
  <2> QED BY <2>2, <1>9, <1>12 DEF Goes, Ready, ch, next
<1>13. CASE ~ st.skip /\ st.mode = "block"
  <2>1. next = InBlock(st, ch, after)
    BY <1>13, <1>16, <1>9
  <2>2. /\ next \in ScanStates /\ Copies(st, next, ch)
        /\ IF Pair(txt, j, "*", "/") THEN Goes(next, "plain", TRUE) ELSE Goes(next, "block", FALSE)
    BY <2>1, <1>6, <1>9, <1>10, <1>15 DEF InBlock
  <2> QED BY <2>2, <1>9, <1>13 DEF Goes, Ready, ch, next
<1>14. CASE ~ st.skip /\ st.mode \in Quotes
  <2>1. next = InQuotes(st, ch, after)
    BY <1>14, <1>16, <1>9
  <2> DEFINE q == st.mode
  <2>2. /\ q \in Quotes /\ q \in Characters /\ q \in Modes
        /\ Pair(txt, j, q, q) <=> (ch = q /\ after = q)
    BY <1>14, <1>9, <1>10, <1>15
  <2>3. /\ next \in ScanStates /\ Copies(st, next, ch)
        /\ IF Pair(txt, j, q, q) THEN Goes(next, q, TRUE)
           ELSE Goes(next, IF ch = q THEN "plain" ELSE q, FALSE)
    BY <2>1, <2>2, <1>6, <1>9 DEF InQuotes
  <2>4. q # "line" /\ q # "block" /\ q # "plain"
    BY <2>2, <1>9
  <2> HIDE DEF q
  <2>5. \A r : Goes(st, r, FALSE) => r = q
    BY DEF Goes, q
  <2> QED BY <2>3, <2>4, <2>5, <1>14 DEF Goes, Ready, ch, next, q
<1>17. CASE Ready(st)
  <2>0. ~ st.skip /\ st.mode = "plain"
    BY <1>17 DEF Ready, Goes
  <2>1. next = Outside(st, ch, after, inline)
    BY <2>0, <1>16, <1>9
  <2>2. /\ Pair(txt, j, "-", "-") <=> (ch = "-" /\ after = "-")
        /\ Pair(txt, j, "/", "*") <=> (ch = "/" /\ after = "*")
    BY <1>10, <1>15
  <2>3. "-" \notin Quotes /\ "/" \notin Quotes /\ "?" \notin Quotes
    BY DEF Quotes
  <2>4. ASSUME ch # "?"
        PROVE  /\ next \in ScanStates /\ Copies(st, next, ch)
               /\ Pair(txt, j, "-", "-") => Goes(next, "line", TRUE)
               /\ Pair(txt, j, "/", "*") => Goes(next, "block", TRUE)
               /\ ch \in Quotes => Goes(next, ch, FALSE)
               /\ ch \notin Quotes /\ ~ Pair(txt, j, "-", "-") /\ ~ Pair(txt, j, "/", "*")
                  => Ready(next)
    <3>1. CASE ch = "-" /\ after = "-"
      <4>1. next = Copied(st, ch, "line", TRUE)
        BY <3>1, <2>1, <2>3 DEF Outside
      <4> QED BY <4>1, <3>1, <2>2, <2>3, <1>6, <1>9
    <3>2. CASE ch = "/" /\ after = "*"
      <4>1. next = Copied(st, ch, "block", TRUE)
        BY <3>2, <2>1, <2>3 DEF Outside
      <4> QED BY <4>1, <3>2, <2>2, <2>3, <1>6, <1>9
    <3>3. CASE ch \in Quotes
      <4>1. next = Copied(st, ch, ch, FALSE)
        BY <3>3, <2>1, <2>3 DEF Outside
      <4> QED BY <4>1, <3>3, <2>2, <2>3, <1>6, <1>9
    <3>4. CASE ch \notin Quotes /\ ~ (ch = "-" /\ after = "-") /\ ~ (ch = "/" /\ after = "*")
      <4>1. next = Copied(st, ch, "plain", FALSE)
        BY <3>4, <2>1, <2>4 DEF Outside
      <4> QED BY <4>1, <3>4, <2>2, <2>3, <1>6, <1>9 DEF Ready
    <3> QED BY <3>1, <3>2, <3>3, <3>4
  <2>5. ASSUME ch = "?"
        PROVE  /\ next \in ScanStates /\ Ready(next)
               /\ st.param + 1 \in DOMAIN inline => Takes(st, next, ch, inline[st.param + 1])
    <3>1. next = AtMarker(st, inline)
      BY <2>1, <2>5, <2>3 DEF Outside
    <3>2. CASE st.param + 1 \notin DOMAIN inline
      <4>1. next = Copied(st, ch, "plain", FALSE)
        BY <3>1, <3>2, <2>5 DEF AtMarker
      <4> QED BY <4>1, <3>2, <1>6, <1>9 DEF Ready
    <3>3. CASE st.param + 1 \in DOMAIN inline /\ inline[st.param + 1]
      <4> DEFINE o == Append(st.out, Literal)
                 k == st.param + 1
                 l == Append(st.inlined, st.param + 1)
      <4>1. next = [st EXCEPT !.out = o, !.param = k, !.inlined = l]
        BY <3>1, <3>3 DEF AtMarker
      <4>2. o \in Seq(Characters \cup {Literal}) /\ k \in Nat /\ l \in Seq(Nat)
        BY <1>3, <1>4, <1>5
      <4> HIDE DEF o, k, l
      <4>3. next \in ScanStates /\ next.mode = st.mode /\ next.skip = st.skip /\ next.out = o
            /\ next.param = k /\ next.inlined = l /\ next.kept = st.kept
        BY <4>1, <4>2 DEF ScanStates
      <4>4. Ready(next) /\ Takes(st, next, ch, TRUE)
        BY <4>3, <2>0 DEF Ready, Goes, Takes, o, k, l
      <4> QED BY <4>3, <4>4, <3>3 DEF Takes
    <3>4. CASE st.param + 1 \in DOMAIN inline /\ ~ inline[st.param + 1]
      <4> DEFINE o == Append(st.out, "?")
                 k == st.param + 1
                 l == Append(st.kept, st.param + 1)
      <4>1. next = [st EXCEPT !.out = o, !.param = k, !.kept = l]
        BY <3>1, <3>4 DEF AtMarker
      <4>2. o \in Seq(Characters \cup {Literal}) /\ k \in Nat /\ l \in Seq(Nat)
        BY <1>3, <1>4, <1>5, <2>5
      <4> HIDE DEF o, k, l
      <4>3. next \in ScanStates /\ next.mode = st.mode /\ next.skip = st.skip /\ next.out = o
            /\ next.param = k /\ next.kept = l /\ next.inlined = st.inlined
        BY <4>1, <4>2 DEF ScanStates
      <4>4. Ready(next) /\ Takes(st, next, ch, FALSE)
        BY <4>3, <2>0, <2>5 DEF Ready, Goes, Takes, o, k, l
      <4> QED BY <4>3, <4>4, <3>4 DEF Takes
    <3> QED BY <3>2, <3>3, <3>4
  <2>6. next \in ScanStates
    BY <2>4, <2>5
  <2>7. ch = "?" => ~ Pair(txt, j, "-", "-") /\ ~ Pair(txt, j, "/", "*") /\ ch \notin Quotes
    BY <2>2, <2>3
  <2>8. ~ st.skip /\ \A q \in Quotes \cup {"line", "block"} : ~ Goes(st, q, FALSE)
    BY <2>0, <1>9 DEF Goes
  <2> QED BY <1>17, <2>4, <2>5, <2>6, <2>7, <2>8 DEF ch, next
<1>18. st.mode \in Quotes \/ st.mode = "plain" \/ st.mode = "line" \/ st.mode = "block"
  BY <1>3 DEF Modes
<1> QED BY <1>3, <1>11, <1>12, <1>13, <1>14, <1>17, <1>18 DEF Ready, Goes

\* Quotes counted one character further.
LEMMA QuotesCount ==
  ASSUME NEW S, NEW txt \in Seq(S), NEW m \in 1 .. Len(txt)
  PROVE  /\ QuotesTo(txt, m, m) = 1
         /\ \A i \in m .. Len(txt) - 1 :
              /\ QuotesTo(txt, m, i) \in Nat
              /\ QuotesTo(txt, m, i + 1) =
                   QuotesTo(txt, m, i) + (IF txt[i + 1] = txt[m] THEN 1 ELSE 0)
<1> DEFINE At(i) == {h \in m .. i : txt[h] = txt[m]}
<1>0. m \in Nat /\ Len(txt) \in Nat
  OBVIOUS
<1>1. \A i : QuotesTo(txt, m, i) = Cardinality(At(i))
  BY DEF QuotesTo, Quantify
<1>2. ASSUME NEW i \in Nat PROVE IsFiniteSet(At(i)) /\ Cardinality(At(i)) \in Nat
  <2>1. IsFiniteSet(m .. i)
    BY <1>0, FS_Interval
  <2>2. At(i) \in SUBSET (m .. i)
    OBVIOUS
  <2> HIDE DEF At
  <2> QED BY <2>1, <2>2, FS_Subset, FS_CardinalityType
<1>3. QuotesTo(txt, m, m) = 1
  <2>1. At(m) = {m}
    BY <1>0
  <2> HIDE DEF At
  <2> QED BY <1>1, <2>1, FS_Singleton
<1>4. ASSUME NEW i \in m .. Len(txt) - 1
      PROVE  /\ QuotesTo(txt, m, i) \in Nat
             /\ QuotesTo(txt, m, i + 1) =
                  QuotesTo(txt, m, i) + (IF txt[i + 1] = txt[m] THEN 1 ELSE 0)
  <2>0. i \in Nat /\ i + 1 \in Nat /\ m <= i
    BY <1>0
  <2>1. CASE txt[i + 1] = txt[m]
    <3>1. At(i + 1) = At(i) \cup {i + 1} /\ i + 1 \notin At(i)
      BY <2>0, <2>1, <1>0
    <3> HIDE DEF At
    <3>2. Cardinality(At(i) \cup {i + 1}) = Cardinality(At(i)) + 1
      BY <2>0, <3>1, <1>2, FS_AddElement
    <3> QED BY <2>0, <2>1, <3>1, <3>2, <1>1, <1>2
  <2>2. CASE txt[i + 1] # txt[m]
    <3>1. At(i + 1) = At(i)
      BY <2>0, <2>2, <1>0
    <3> HIDE DEF At
    <3> QED BY <2>0, <2>2, <3>1, <1>1, <1>2
  <2> QED BY <2>1, <2>2
<1> QED BY <1>3, <1>4

\* Where the scanner is inside the token that begins at m, after the i-th character.
Inside(txt, m, i, st) ==
  /\ txt[m] \in Quotes =>
       /\ Goes(st, txt[m], QuotesTo(txt, m, i) % 2 = 0)
       /\ st.skip => Pair(txt, i, txt[m], txt[m])
  /\ Pair(txt, m, "-", "-") => Goes(st, "line", i = m)
  /\ Pair(txt, m, "/", "*") =>
       IF i >= m + 2 /\ Pair(txt, i, "*", "/") THEN Goes(st, "plain", TRUE)
       ELSE Goes(st, "block", i = m)

\* A step between tokens: the scanner stays there, or is inside the token that begins.
LEMMA Opens ==
  ASSUME NEW txt \in Seq(Characters), NEW inline \in Seq(BOOLEAN),
         NEW st \in ScanStates, Ready(st), NEW j \in 1 .. Len(txt)
  PROVE  LET next == ScanStep(txt, inline, st, j)
             e    == TokenEnd(txt, j)
         IN /\ e = j /\ j < Len(txt) => Ready(next)
            /\ e > j => Inside(txt, j, j, next)
<1> DEFINE next == ScanStep(txt, inline, st, j)
           e    == TokenEnd(txt, j)
<1>0. j \in Nat /\ Len(txt) \in Nat /\ j <= Len(txt) /\ e \in j .. Len(txt) /\ e \in Nat
  BY TokenEnds
<1>1. /\ next \in ScanStates
      /\ Pair(txt, j, "-", "-") => Goes(next, "line", TRUE)
      /\ Pair(txt, j, "/", "*") => Goes(next, "block", TRUE)
      /\ txt[j] \in Quotes => Goes(next, txt[j], FALSE)
      /\ txt[j] \notin Quotes /\ ~ Pair(txt, j, "-", "-") /\ ~ Pair(txt, j, "/", "*")
          => Ready(next)
  BY ScanTurns
<1>2. /\ txt[j] \in Quotes => EndsQuoted(txt, j, e)
      /\ Pair(txt, j, "-", "-") => e > j
      /\ Pair(txt, j, "/", "*") => e > j
      /\ (txt[j] \notin Quotes /\ ~ Pair(txt, j, "-", "-") /\ ~ Pair(txt, j, "/", "*")) => e = j
  BY TokenEnds
<1> HIDE DEF next, e
<1>3. CASE txt[j] \in Quotes
  <2>1. ~ Pair(txt, j, "-", "-") /\ ~ Pair(txt, j, "/", "*")
    BY <1>3 DEF Pair, Quotes
  <2>2. e = Len(txt) \/ e > j
    BY <1>2, <1>3 DEF EndsQuoted
  <2>3. QuotesTo(txt, j, j) = 1
    BY QuotesCount
  <2>4. Inside(txt, j, j, next)
    BY <1>1, <1>3, <2>1, <2>3 DEF Inside, Goes
  <2> QED BY <2>2, <2>4, <1>0 DEF next, e
<1>4. CASE Pair(txt, j, "-", "-")
  <2>1. ~ Pair(txt, j, "/", "*") /\ txt[j] \notin Quotes
    BY <1>4 DEF Pair, Quotes
  <2>2. Inside(txt, j, j, next)
    BY <1>1, <1>4, <2>1 DEF Inside, Goes
  <2> QED BY <2>2, <1>0, <1>2, <1>4 DEF next, e
<1>5. CASE Pair(txt, j, "/", "*")
  <2>1. ~ Pair(txt, j, "-", "-") /\ txt[j] \notin Quotes
    BY <1>5 DEF Pair, Quotes
  <2>2. Inside(txt, j, j, next)
    BY <1>0, <1>1, <1>5, <2>1 DEF Inside, Goes
  <2> QED BY <2>2, <1>0, <1>2, <1>5 DEF next, e
<1>6. CASE txt[j] \notin Quotes /\ ~ Pair(txt, j, "-", "-") /\ ~ Pair(txt, j, "/", "*")
  BY <1>0, <1>1, <1>2, <1>6 DEF next, e
<1> QED BY <1>3, <1>4, <1>5, <1>6

\* A step inside a token copies the character and stays inside, or leaves at its end.
LEMMA Continues ==
  ASSUME NEW txt \in Seq(Characters), NEW inline \in Seq(BOOLEAN), NEW st \in ScanStates,
         NEW m \in 1 .. Len(txt), NEW i \in m .. Len(txt) - 1,
         i < TokenEnd(txt, m), Inside(txt, m, i, st)
  PROVE  LET next == ScanStep(txt, inline, st, i + 1)
             e    == TokenEnd(txt, m)
         IN /\ Copies(st, next, txt[i + 1])
            /\ i + 1 < e => Inside(txt, m, i + 1, next)
            /\ i + 1 = e /\ e < Len(txt) => Ready(next)
<1> DEFINE next == ScanStep(txt, inline, st, i + 1)
           e    == TokenEnd(txt, m)
           j    == i + 1
<1>0. /\ m \in Nat /\ i \in Nat /\ m <= i /\ Len(txt) \in Nat
      /\ j <= Len(txt) /\ j \in 1 .. Len(txt)
      /\ e \in m .. Len(txt) /\ e \in Nat /\ i < e
  BY TokenEnds
<1>1. /\ next \in ScanStates
      /\ st.skip => Goes(next, st.mode, FALSE)
      /\ Goes(st, "line", FALSE) =>
           Goes(next, IF txt[j] = "newline" THEN "plain" ELSE "line", FALSE)
      /\ Goes(st, "block", FALSE) =>
           IF Pair(txt, j, "*", "/") THEN Goes(next, "plain", TRUE) ELSE Goes(next, "block", FALSE)
      /\ \A q \in Quotes : Goes(st, q, FALSE) =>
           IF Pair(txt, j, q, q) THEN Goes(next, q, TRUE)
           ELSE Goes(next, IF txt[j] = q THEN "plain" ELSE q, FALSE)
      /\ ~ Ready(st) => Copies(st, next, txt[j])
  BY <1>0, ScanTurns
<1>2. /\ txt[m] \in Quotes => EndsQuoted(txt, m, e)
      /\ Pair(txt, m, "-", "-") => EndsLine(txt, m, e)
      /\ Pair(txt, m, "/", "*") => EndsBlock(txt, m, e)
      /\ (txt[m] \notin Quotes /\ ~ Pair(txt, m, "-", "-") /\ ~ Pair(txt, m, "/", "*")) => e = m
  BY TokenEnds
<1>3. st.skip \in BOOLEAN /\ "plain" \notin Quotes
  BY DEF ScanStates, Quotes
<1> HIDE DEF next, e
<1>4. CASE txt[m] \in Quotes
  <2> DEFINE q == txt[m]
             c == QuotesTo(txt, m, i)
             d == QuotesTo(txt, m, j)
  <2>1. ~ Pair(txt, m, "-", "-") /\ ~ Pair(txt, m, "/", "*")
    BY <1>4 DEF Pair, Quotes
  <2>2. c \in Nat /\ d = c + (IF txt[j] = q THEN 1 ELSE 0)
    BY QuotesCount
  <2>3. Goes(st, q, c % 2 = 0) /\ (st.skip => Pair(txt, i, q, q))
    BY <1>4 DEF Inside
  <2>4. e = Len(txt) \/ (e > m /\ ClosesAt(txt, m, e))
    BY <1>2, <1>4 DEF EndsQuoted
  <2>5. ClosesAt(txt, m, j) => e <= j
    BY <1>0, <1>2, <1>4 DEF EndsQuoted
  <2>6. ClosesAt(txt, m, j) <=> (txt[j] = q /\ d % 2 = 0 /\ ~ Pair(txt, j, q, q))
    BY DEF ClosesAt
  <2>7. q \in Quotes /\ q # "plain"
    BY <1>3, <1>4
  <2> HIDE DEF q, c, d
  <2>8. CASE st.skip
    <3>1. txt[j] = q /\ c % 2 = 0 /\ Goes(next, q, FALSE) /\ ~ Ready(st)
      BY <2>3, <2>7, <2>8, <1>1, <1>3 DEF Pair, Goes, Ready
    <3>2. d = c + 1 /\ d % 2 = 1
      BY <3>1, <2>2
    <3>3. Inside(txt, m, j, next)
      BY <1>3, <2>1, <3>1, <3>2 DEF Inside, Goes, q, d
    <3>4. i + 1 = e => e = Len(txt)
      BY <2>4, <2>6, <3>2, <1>0
    <3> HIDE DEF j
    <3> QED BY <3>1, <3>3, <3>4, <1>0, <1>1 DEF j, next, e
  <2>9. CASE ~ st.skip /\ txt[j] # q
    <3>1. Goes(st, q, FALSE) /\ c % 2 # 0 /\ ~ Ready(st)
      BY <1>3, <2>3, <2>7, <2>9 DEF Goes, Ready
    <3>2. ~ Pair(txt, j, q, q) /\ Goes(next, q, FALSE)
      BY <3>1, <2>7, <2>9, <1>1 DEF Pair
    <3>3. d % 2 # 0
      BY <2>2, <2>9, <3>1
    <3>4. Inside(txt, m, j, next)
      BY <1>3, <2>1, <3>2, <3>3 DEF Inside, Goes, q, d
    <3>5. i + 1 = e => e = Len(txt)
      BY <2>4, <2>6, <2>9, <1>0
    <3> QED BY <3>1, <3>4, <3>5, <1>0, <1>1 DEF next, e
  <2>10. CASE ~ st.skip /\ txt[j] = q
    <3>1. Goes(st, q, FALSE) /\ c % 2 # 0 /\ ~ Ready(st)
      BY <1>3, <2>3, <2>7, <2>10 DEF Goes, Ready
    <3>2. d % 2 = 0
      BY <2>2, <2>10, <3>1
    <3>3. CASE Pair(txt, j, q, q)
      <4>1. Goes(next, q, TRUE)
        BY <3>1, <3>3, <2>7, <1>1
      <4>2. Inside(txt, m, j, next)
        BY <1>3, <2>1, <3>2, <3>3, <4>1 DEF Inside, Goes, q, d
      <4>3. i + 1 = e => e = Len(txt)
        BY <2>4, <2>6, <3>3, <1>0
      <4> QED BY <3>1, <4>2, <4>3, <1>0, <1>1 DEF next, e
    <3>4. CASE ~ Pair(txt, j, q, q)
      <4>1. Ready(next)
        BY <3>1, <3>4, <2>7, <2>10, <1>1 DEF Ready
      <4>2. e <= j
        BY <2>5, <2>6, <2>10, <3>2, <3>4
      <4> QED BY <3>1, <4>1, <4>2, <1>0, <1>1 DEF next, e
    <3> QED BY <3>3, <3>4
  <2> QED BY <2>8, <2>9, <2>10, <1>3
<1>5. CASE Pair(txt, m, "-", "-")
  <2>1. txt[m] \notin Quotes /\ ~ Pair(txt, m, "/", "*") /\ "line" # "plain"
    BY <1>5 DEF Pair, Quotes
  <2>2. Goes(st, "line", i = m)
    BY <1>5 DEF Inside
  <2>3. EndsLine(txt, m, e)
    BY <1>2, <1>5
  <2>4. ~ Ready(st)
    BY <2>1, <2>2 DEF Ready, Goes
  <2>5. CASE i = m
    <3>1. Goes(next, "line", FALSE)
      BY <2>2, <2>5, <1>1 DEF Goes
    <3>2. Inside(txt, m, j, next)
      BY <3>1, <2>1, <2>5, <1>0 DEF Inside, Goes
    <3>3. i + 1 = e => e = Len(txt)
      BY <2>3, <2>5, <1>0 DEF EndsLine
    <3> QED BY <2>4, <3>2, <3>3, <1>0, <1>1 DEF next, e
  <2>6. CASE i # m
    <3>0. Goes(st, "line", FALSE) /\ j >= m + 2
      BY <2>2, <2>6, <1>0 DEF Goes
    <3>1. CASE txt[j] = "newline"
      <4>1. Ready(next)
        BY <3>0, <3>1, <1>1 DEF Ready
      <4>2. e <= j
        BY <3>0, <3>1, <2>3, <1>0 DEF EndsLine
      <4> QED BY <2>4, <4>1, <4>2, <1>0, <1>1 DEF next, e
    <3>2. CASE txt[j] # "newline"
      <4>1. Goes(next, "line", FALSE)
        BY <3>0, <3>2, <1>1
      <4>2. Inside(txt, m, j, next)
        BY <4>1, <2>1, <2>6, <1>0 DEF Inside, Goes
      <4>3. i + 1 = e => e = Len(txt)
        BY <2>3, <3>2 DEF EndsLine
      <4> QED BY <2>4, <4>2, <4>3, <1>0, <1>1 DEF next, e
    <3> QED BY <3>1, <3>2
  <2> QED BY <2>5, <2>6
<1>6. CASE Pair(txt, m, "/", "*")
  <2>1. txt[m] \notin Quotes /\ ~ Pair(txt, m, "-", "-") /\ "block" # "plain"
    BY <1>6 DEF Pair, Quotes
  <2>2. IF i >= m + 2 /\ Pair(txt, i, "*", "/") THEN Goes(st, "plain", TRUE)
        ELSE Goes(st, "block", i = m)
    BY <1>6 DEF Inside
  <2>3. EndsBlock(txt, m, e)
    BY <1>2, <1>6
  <2>4. ~ Ready(st)
    BY <2>1, <2>2 DEF Ready, Goes
  <2>5. CASE i >= m + 2 /\ Pair(txt, i, "*", "/")
    <3>1. Ready(next)
      BY <2>2, <2>5, <1>1 DEF Goes, Ready
    <3>2. e <= i + 1
      BY <2>3, <2>5, <1>0 DEF EndsBlock
    <3> QED BY <2>4, <3>1, <3>2, <1>0, <1>1 DEF next, e
  <2>6. CASE ~ (i >= m + 2 /\ Pair(txt, i, "*", "/"))
    <3>0. Goes(st, "block", i = m)
      BY <2>2, <2>6
    <3>1. i + 1 = e => e = Len(txt)
      <4>1. e - 1 = i => ~ (e - 1 >= m + 2 /\ Pair(txt, e - 1, "*", "/"))
        BY <2>6
      <4> QED BY <4>1, <2>3, <1>0 DEF EndsBlock
    <3>2. CASE i = m
      <4>1. Goes(next, "block", FALSE)
        BY <3>0, <3>2, <1>1 DEF Goes
      <4>2. ~ (j >= m + 2) /\ j # m
        BY <3>2, <1>0
      <4>3. Inside(txt, m, j, next)
        BY <4>1, <4>2, <2>1 DEF Inside, Goes
      <4> QED BY <2>4, <3>1, <4>3, <1>0, <1>1 DEF next, e
    <3>3. CASE i # m
      <4>0. Goes(st, "block", FALSE) /\ j >= m + 2 /\ j # m
        BY <3>0, <3>3, <1>0 DEF Goes
      <4>1. IF Pair(txt, j, "*", "/") THEN Goes(next, "plain", TRUE)
                                         ELSE Goes(next, "block", FALSE)
        BY <4>0, <1>1
      <4>2. Inside(txt, m, j, next)
        BY <4>0, <4>1, <2>1 DEF Inside, Goes
      <4> QED BY <2>4, <3>1, <4>2, <1>0, <1>1 DEF next, e
    <3> QED BY <3>2, <3>3
  <2> QED BY <2>5, <2>6
<1>7. CASE txt[m] \notin Quotes /\ ~ Pair(txt, m, "-", "-") /\ ~ Pair(txt, m, "/", "*")
  BY <1>0, <1>2, <1>7
<1> QED BY <1>4, <1>5, <1>6, <1>7

\* The scanner's states from the first character to the last.
Scanning(txt, inline, run) ==
  /\ run \in [0 .. Len(txt) -> ScanStates]
  /\ run[0] = Scanner
  /\ \A i \in 1 .. Len(txt) : run[i] = ScanStep(txt, inline, run[i - 1], i)

\* rewriteBinaryParams is what a run of ScanStep over the text ends with.
LEMMA ScanRun ==
  ASSUME NEW txt \in Seq(Characters), NEW inline \in Seq(BOOLEAN)
  PROVE  \E run : /\ Scanning(txt, inline, run)
                 /\ rewriteBinaryParams(txt, inline)
                      = [text |-> run[Len(txt)].out, kept |-> run[Len(txt)].kept,
                         inlined |-> run[Len(txt)].inlined]
<1> DEFINE n == Len(txt)
           V == ScanStates
           all == [i \in DOMAIN txt |-> i]
           next(st, i) == ScanStep(txt, inline, st, i)
           step == [i \in 1 .. n |-> [v \in V |-> next(v, i)]]
           Def(g) == g = [t \in SUBSET DOMAIN all |->
                            IF t = {} THEN Scanner ELSE next(g[t \ {Max(t)}], all[Max(t)])]
           iter == CHOOSE g : Def(g)
           run == [k \in 0 .. n |-> iter[1 .. k]]
<1>1. n \in Nat /\ DOMAIN txt = 1 .. n /\ DOMAIN all = 1 .. n /\ \A i \in 1 .. n : all[i] = i
  OBVIOUS
<1>2. rewriteBinaryParams(txt, inline)
        = [text |-> iter[1 .. n].out, kept |-> iter[1 .. n].kept, inlined |-> iter[1 .. n].inlined]
  <2>1. rewriteBinaryParams(txt, inline)
          = [text |-> iter[DOMAIN all].out, kept |-> iter[DOMAIN all].kept,
             inlined |-> iter[DOMAIN all].inlined]
    BY DEF rewriteBinaryParams, FoldLeft, MapThenFoldSet
  <2> HIDE DEF iter, all, n
  <2> QED BY <2>1, <1>1
<1>3. ASSUME NEW v \in V, NEW i \in 1 .. n PROVE next(v, i) \in V
  BY ScanTurns
<1> HIDE DEF next
<1>4. step \in [1 .. n -> [V -> V]]
  BY <1>3
<1> HIDE DEF all
<1>5. PICK g \in [SUBSET (1 .. n) -> V] : FoldsBy(g, n, Scanner, step)
  <2>1. Scanner \in V
    BY DEF Scanner, ScanStates, Modes
  <2> HIDE DEF step, n, V
  <2> QED BY <1>1, <1>4, <2>1, FoldsExist
<1> HIDE DEF V
<1>6. Def(g)
  <2>1. ASSUME NEW t \in SUBSET (1 .. n), t # {}
        PROVE  step[Max(t)][g[t \ {Max(t)}]] = next(g[t \ {Max(t)}], all[Max(t)])
    <3>1. Max(t) \in 1 .. n
      <4> HIDE DEF n
      <4> QED BY <1>1, <2>1, MaxOf
    <3>2. g[t \ {Max(t)}] \in V
      OBVIOUS
    <3> HIDE DEF n
    <3> QED BY <3>1, <3>2, <1>1
  <2> HIDE DEF step, n
  <2> QED BY <2>1, <1>1, <1>5 DEF FoldsBy
<1>7. Def(iter)
  <2> HIDE DEF Def
  <2> QED BY <1>6
<1> HIDE DEF iter, step
<1>8. /\ iter[{}] = Scanner
      /\ \A t \in SUBSET (1 .. n) : t # {} => iter[t] = next(iter[t \ {Max(t)}], all[Max(t)])
  <2> HIDE DEF n
  <2>1. {} \in SUBSET (1 .. n)
    OBVIOUS
  <2> QED BY <1>1, <1>7, <2>1
<1> HIDE DEF Def, n
<1>9. ASSUME NEW k \in 1 .. n PROVE iter[1 .. k] = next(iter[1 .. k - 1], k)
  <2> DEFINE t == 1 .. k
  <2>1. t \in SUBSET (1 .. n) /\ t # {} /\ Max(t) = k /\ t \ {k} = 1 .. k - 1
    BY <1>1, RangeFolds
  <2> HIDE DEF t
  <2>2. iter[t] = next(iter[t \ {Max(t)}], all[Max(t)])
    BY <1>8, <2>1
  <2> QED BY <2>1, <2>2, <1>1 DEF t
<1>10. 1 .. 0 = {} /\ Scanner \in V
  BY DEF V, Scanner, ScanStates, Modes
<1> DEFINE Typed == {k \in 0 .. n : iter[1 .. k] \in V}
<1>11. \A k \in 0 .. n : k \in Typed
  <2>1. 0 \in Typed
    <3>1. iter[1 .. 0] \in V
      BY <1>8, <1>10
    <3> QED BY <1>1, <3>1
  <2>2. ASSUME NEW k \in 1 .. n, k - 1 \in Typed PROVE k \in Typed
    BY <2>2, <1>1, <1>3, <1>9
  <2> HIDE DEF Typed
  <2> QED BY <1>1, <2>1, <2>2, InductionUpTo
<1>12. run \in [0 .. n -> V] /\ run[0] = Scanner /\ run[n] = iter[1 .. n]
  BY <1>1, <1>8, <1>10, <1>11
<1>13. ASSUME NEW k \in 1 .. n PROVE run[k] = next(run[k - 1], k)
  <2>1. k \in 0 .. n /\ k - 1 \in 0 .. n
    BY <1>1
  <2> QED BY <2>1, <1>9
<1> HIDE DEF run
<1>14. Scanning(txt, inline, run)
  BY <1>12, <1>13 DEF Scanning, n, V, next
<1> QED BY <1>2, <1>12, <1>14 DEF n

\* How many of some positions come up to p.
Rank(M, p) == Cardinality({j \in M : j <= p})

\* The number of markers up to a place, which tells markers apart.
LEMMA Ranks ==
  ASSUME NEW n \in Nat, NEW M, M \subseteq 1 .. n
  PROVE  /\ Rank(M, 0) = 0 /\ Rank(M, n) = Cardinality(M) /\ IsFiniteSet(M)
         /\ \A i \in 0 .. n : Rank(M, i) \in Nat
         /\ \A i \in 1 .. n : Rank(M, i) = Rank(M, i - 1) + (IF i \in M THEN 1 ELSE 0)
         /\ \A i \in 0 .. n, j \in 0 .. n : i <= j => Rank(M, i) <= Rank(M, j)
         /\ \A i \in M, j \in M : Rank(M, i) = Rank(M, j) => i = j
         /\ \A i \in M : Rank(M, i) \in 1 .. Cardinality(M)
         /\ \A k \in 1 .. Cardinality(M) : \E i \in M : Rank(M, i) = k
<1> DEFINE Upto(p) == {j \in M : j <= p}
           R(p) == Rank(M, p)
<1>0. \A j \in M : j \in Nat /\ 1 <= j /\ j <= n
  OBVIOUS
<1>1. IsFiniteSet(M)
  <2>1. IsFiniteSet(1 .. n)
    BY FS_Interval
  <2> QED BY <2>1, FS_Subset
<1>2. \A p : IsFiniteSet(Upto(p)) /\ Cardinality(Upto(p)) \in Nat /\ R(p) = Cardinality(Upto(p))
  <2> SUFFICES ASSUME NEW p
               PROVE  /\ IsFiniteSet(Upto(p)) /\ Cardinality(Upto(p)) \in Nat
                      /\ R(p) = Cardinality(Upto(p))
    OBVIOUS
  <2>1. Upto(p) \in SUBSET M /\ R(p) = Cardinality(Upto(p))
    BY DEF Rank
  <2> HIDE DEF Upto
  <2> QED BY <2>1, <1>1, FS_Subset, FS_CardinalityType
<1>3. R(0) = 0
  <2>1. Upto(0) = {}
    <3>1. \A j \in M : ~ (j <= 0)
      BY <1>0
    <3> QED BY <3>1
  <2> HIDE DEF Upto
  <2> QED BY <2>1, <1>2, FS_EmptySet
<1>4. R(n) = Cardinality(M)
  <2>1. Upto(n) = M
    BY <1>0
  <2> HIDE DEF Upto
  <2> QED BY <2>1, <1>2
<1>5. ASSUME NEW i \in 1 .. n PROVE R(i) = R(i - 1) + (IF i \in M THEN 1 ELSE 0)
  <2>1. CASE i \in M
    <3>1. Upto(i) = Upto(i - 1) \cup {i} /\ i \notin Upto(i - 1)
      <4>1. i \in Nat /\ \A j \in M : (j <= i - 1 <=> j <= i /\ j # i)
        BY <1>0
      <4>2. ~ (i <= i - 1) /\ i <= i
        BY <4>1
      <4> QED BY <2>1, <4>1, <4>2
    <3> HIDE DEF Upto
    <3>2. Cardinality(Upto(i - 1) \cup {i}) = Cardinality(Upto(i - 1)) + 1
      BY <3>1, <1>2, FS_AddElement
    <3> QED BY <2>1, <3>1, <3>2, <1>2
  <2>2. CASE i \notin M
    <3>1. Upto(i) = Upto(i - 1)
      <4>1. i \in Nat /\ \A j \in M : (j <= i - 1 <=> j <= i /\ j # i)
        BY <1>0
      <4> QED BY <2>2, <4>1
    <3> HIDE DEF Upto
    <3> QED BY <2>2, <3>1, <1>2
  <2> QED BY <2>1, <2>2
<1>6. \A i \in 0 .. n : R(i) \in Nat
  BY <1>2
<1> HIDE DEF Upto, R
<1> DEFINE Grows == {j \in 0 .. n : \A i \in 0 .. j : R(i) <= R(j)}
<1>7. \A j \in 0 .. n : j \in Grows
  <2>1. 0 \in Grows
    BY <1>6
  <2>2. ASSUME NEW k \in 1 .. n, k - 1 \in Grows PROVE k \in Grows
    <3>1. k \in 0 .. n /\ k - 1 \in 0 .. n /\ R(k) \in Nat /\ R(k - 1) \in Nat /\ R(k - 1) <= R(k)
      BY <1>5, <1>6
    <3>2. ASSUME NEW i \in 0 .. k PROVE R(i) <= R(k)
      <4>1. i = k \/ (i \in 0 .. k - 1 /\ R(i) <= R(k - 1) /\ R(i) \in Nat)
        BY <2>2, <3>1, <1>6
      <4> QED BY <4>1, <3>1
    <3> QED BY <3>1, <3>2
  <2> HIDE DEF Grows
  <2> QED BY <2>1, <2>2, InductionUpTo
<1>8. ASSUME NEW i \in 0 .. n, NEW j \in 0 .. n, i <= j PROVE R(i) <= R(j)
  BY <1>7, <1>8
<1> HIDE DEF Grows
<1>9. ASSUME NEW i \in M, NEW j \in M, i < j PROVE R(i) < R(j)
  <2>1. j \in 1 .. n /\ i \in 0 .. n /\ j - 1 \in 0 .. n /\ i <= j - 1
    BY <1>9
  <2>2. R(j) = R(j - 1) + 1 /\ R(i) <= R(j - 1) /\ R(i) \in Nat /\ R(j - 1) \in Nat
    BY <2>1, <1>5, <1>6, <1>8
  <2> QED BY <2>2
<1>10. ASSUME NEW i \in M, NEW j \in M, R(i) = R(j) PROVE i = j
  <2>1. i \in Nat /\ j \in Nat /\ R(i) \in Nat /\ R(j) \in Nat
    BY <1>6
  <2>2. ~ (i < j) /\ ~ (j < i)
    BY <1>9, <1>10, <2>1
  <2> QED BY <2>1, <2>2
<1>11. ASSUME NEW i \in M PROVE R(i) \in 1 .. Cardinality(M)
  <2>1. i \in 1 .. n /\ i - 1 \in 0 .. n /\ i \in 0 .. n /\ n \in 0 .. n /\ i <= n
    OBVIOUS
  <2>2. R(i) = R(i - 1) + 1 /\ R(i) <= R(n) /\ R(i) \in Nat /\ R(i - 1) \in Nat /\ R(n) \in Nat
    BY <2>1, <1>5, <1>6, <1>8
  <2> QED BY <2>2, <1>4
<1> DEFINE Reach == {j \in 0 .. n : \A k \in 1 .. R(j) : \E i \in M : R(i) = k}
<1>12. \A j \in 0 .. n : j \in Reach
  <2>1. 0 \in Reach
    BY <1>3
  <2>2. ASSUME NEW j \in 1 .. n, j - 1 \in Reach PROVE j \in Reach
    <3>1. j \in 0 .. n /\ j - 1 \in 0 .. n /\ R(j) \in Nat /\ R(j - 1) \in Nat
          /\ R(j) = R(j - 1) + (IF j \in M THEN 1 ELSE 0)
      BY <1>5, <1>6
    <3>2. ASSUME NEW k \in 1 .. R(j) PROVE \E i \in M : R(i) = k
      <4>1. CASE k \in 1 .. R(j - 1)
        BY <2>2, <4>1
      <4>2. CASE k \notin 1 .. R(j - 1)
        <5>1. j \in M /\ R(j) = k
          BY <4>2, <3>1
        <5> QED BY <5>1
      <4> QED BY <4>1, <4>2
    <3> QED BY <3>1, <3>2
  <2> HIDE DEF Reach
  <2> QED BY <2>1, <2>2, InductionUpTo
<1>13. \A k \in 1 .. Cardinality(M) : \E i \in M : R(i) = k
  BY <1>4, <1>12
<1> QED BY <1>1, <1>3, <1>4, <1>5, <1>6, <1>8, <1>10, <1>11, <1>13 DEF R

\* The k-th of some positions is the one of that rank.
LEMMA NthRank ==
  ASSUME NEW n \in Nat, NEW M, M \subseteq 1 .. n, NEW k \in 1 .. Cardinality(M)
  PROVE  /\ Nth(M, k) \in M /\ Rank(M, Nth(M, k)) = k
         /\ \A i \in M : Rank(M, i) = k => i = Nth(M, k)
<1>0. /\ \A j \in M : j \in Nat /\ j \in 1 .. n /\ j - 1 \in 0 .. n /\ Rank(M, j) \in Nat
      /\ \A i \in M, j \in M : Rank(M, i) = Rank(M, j) => i = j
      /\ \E i \in M : Rank(M, i) = k
  <2>1. \A j \in M : j \in Nat /\ j \in 1 .. n /\ j - 1 \in 0 .. n /\ j \in 0 .. n
    OBVIOUS
  <2>2. \A j \in M : Rank(M, j) \in Nat
    BY <2>1, Ranks
  <2>3. \A i \in M, j \in M : Rank(M, i) = Rank(M, j) => i = j
    BY Ranks
  <2>4. \A l \in 1 .. Cardinality(M) : \E i \in M : Rank(M, i) = l
    BY Ranks
  <2> QED BY <2>1, <2>2, <2>3, <2>4
<1>1. ASSUME NEW i \in M PROVE Cardinality({j \in M : j < i}) = Rank(M, i) - 1
  <2>1. {j \in M : j < i} = {j \in M : j <= i - 1} /\ i \in 1 .. n /\ i - 1 \in 0 .. n
    <3>1. \A j \in M : (j <= i - 1 <=> j < i)
      BY <1>0
    <3> QED BY <1>0, <3>1
  <2>2. Cardinality({j \in M : j < i}) = Rank(M, i - 1)
    BY <2>1 DEF Rank
  <2>3. Rank(M, i) = Rank(M, i - 1) + 1 /\ Rank(M, i - 1) \in Nat
    BY <2>1, Ranks
  <2> QED BY <2>2, <2>3
<1>2. PICK i \in M : Rank(M, i) = k
  BY <1>0
<1>4. Cardinality({j \in M : j < i}) = k - 1
  BY <1>1, <1>2
<1>5. Nth(M, k) \in M /\ Cardinality({j \in M : j < Nth(M, k)}) = k - 1
  BY <1>4 DEF Nth
<1>6. Rank(M, Nth(M, k)) = k
  <2>1. Rank(M, Nth(M, k)) \in Nat /\ Rank(M, Nth(M, k)) - 1 = k - 1 /\ k \in Nat
    <3>1. Cardinality(M) \in Nat
      BY Ranks, FS_CardinalityType
    <3> QED BY <3>1, <1>0, <1>1, <1>5
  <2> QED BY <2>1
<1>7. ASSUME NEW j \in M, Rank(M, j) = k PROVE j = Nth(M, k)
  BY <1>0, <1>5, <1>6, <1>7
<1> QED BY <1>5, <1>6, <1>7

\* A sequence that lists the numbers of a set in order.
ListsInOrder(s, K) ==
  /\ s \in Seq(Nat)
  /\ ToSet(s) = K
  /\ \A a \in DOMAIN s, b \in DOMAIN s : a < b => s[a] < s[b]

\* A later index at the end.
LEMMA ListsMore ==
  ASSUME NEW s, NEW K, ListsInOrder(s, K), NEW k \in Nat, \A x \in K : x < k
  PROVE  ListsInOrder(Append(s, k), K \cup {k})
<1> DEFINE t == Append(s, k)
           n == Len(s)
<1>1. s \in Seq(Nat) /\ n \in Nat /\ DOMAIN s = 1 .. n /\ t \in Seq(Nat) /\ DOMAIN t = 1 .. n + 1
      /\ t[n + 1] = k /\ \A i \in 1 .. n : t[i] = s[i]
  BY DEF ListsInOrder
<1>2. ToSet(s) = K /\ \A a \in 1 .. n, b \in 1 .. n : a < b => s[a] < s[b]
  BY <1>1 DEF ListsInOrder
<1> HIDE DEF t, n
<1>3. ToSet(t) = K \cup {k}
  <2>1. ASSUME NEW x \in ToSet(t) PROVE x \in K \cup {k}
    <3>1. PICK i \in 1 .. n + 1 : t[i] = x
      BY <1>1 DEF ToSet
    <3>2. i = n + 1 \/ i \in 1 .. n
      BY <1>1
    <3> QED BY <3>1, <3>2, <1>1, <1>2 DEF ToSet
  <2>2. ASSUME NEW x \in K PROVE x \in ToSet(t)
    <3>1. PICK i \in 1 .. n : s[i] = x
      BY <1>1, <1>2 DEF ToSet
    <3>2. i \in 1 .. n + 1 /\ t[i] = x
      BY <3>1, <1>1
    <3> QED BY <3>2, <1>1 DEF ToSet
  <2>3. k \in ToSet(t)
    <3>1. n + 1 \in 1 .. n + 1
      BY <1>1
    <3> QED BY <3>1, <1>1 DEF ToSet
  <2> QED BY <2>1, <2>2, <2>3
<1>4. ASSUME NEW a \in 1 .. n + 1, NEW b \in 1 .. n + 1, a < b PROVE t[a] < t[b]
  <2>1. a \in 1 .. n /\ t[a] = s[a] /\ s[a] \in K
    <3>1. a \in 1 .. n
      BY <1>1, <1>4
    <3> QED BY <3>1, <1>1, <1>2 DEF ToSet
  <2>2. CASE b = n + 1
    BY <2>1, <2>2, <1>1
  <2>3. CASE b # n + 1
    <3>1. b \in 1 .. n
      BY <2>3, <1>1
    <3> QED BY <3>1, <2>1, <1>1, <1>2, <1>4
  <2> QED BY <2>2, <2>3
<1> QED BY <1>1, <1>3, <1>4 DEF ListsInOrder, t

-----------------------------------------------------------------------------
\* The scanner after the i-th character: where it is,
Position(txt, i, st) ==
  i < Len(txt) =>
    IF i + 1 \in TokenStarts(txt) THEN Ready(st)
    ELSE \E m \in TokenStarts(txt) :
           m <= i /\ i < TokenEnd(txt, m) /\ Inside(txt, m, i, st)

\* and what it has written.
Written(txt, inline, i, st) ==
  LET M == Markers(txt)
  IN /\ st.param = Rank(M, i)
     /\ Len(st.out) = i
     /\ \A p \in 1 .. i :
          st.out[p] = IF p \in M /\ inline[Rank(M, p)] THEN Literal ELSE txt[p]
     /\ ListsInOrder(st.kept, {k \in 1 .. Rank(M, i) : ~ inline[k]})
     /\ ListsInOrder(st.inlined, {k \in 1 .. Rank(M, i) : inline[k]})

\* The scanner is between tokens exactly where a token begins, and copies elsewhere.
LEMMA PositionKept ==
  ASSUME NEW txt \in Seq(Characters), NEW inline \in Seq(BOOLEAN),
         NEW st \in ScanStates, NEW i \in 0 .. Len(txt) - 1, Position(txt, i, st)
  PROVE  LET next == ScanStep(txt, inline, st, i + 1)
         IN /\ Position(txt, i + 1, next)
            /\ i + 1 \in TokenStarts(txt) => Ready(st)
            /\ i + 1 \notin TokenStarts(txt) => Copies(st, next, txt[i + 1])
<1> DEFINE next == ScanStep(txt, inline, st, i + 1)
           T == TokenStarts(txt)
           n == Len(txt)
           j == i + 1
<1>0. n \in Nat /\ i \in Nat /\ j \in Nat /\ j \in 1 .. n /\ i < n /\ j <= n
  OBVIOUS
<1>1. /\ T \subseteq 1 .. n
      /\ \A m \in T : TokenEnd(txt, m) < n => TokenEnd(txt, m) + 1 \in T
      /\ \A m \in T, k \in 1 .. n : m < k /\ k <= TokenEnd(txt, m) => k \notin T
  BY TokensCover
<1>2. \A m \in 1 .. n : TokenEnd(txt, m) \in m .. n
  BY TokenEnds
<1>3. CASE j \in T
  <2> DEFINE e == TokenEnd(txt, j)
  <2>1. Ready(st)
    BY <1>0, <1>3 DEF Position
  <2>2. (e = j /\ j < n => Ready(next)) /\ (e > j => Inside(txt, j, j, next))
    BY <1>0, <2>1, Opens
  <2>3. e \in j .. n /\ e \in Nat
    BY <1>0, <1>2
  <2> HIDE DEF e, next
  <2>4. Position(txt, j, next)
    <3> SUFFICES ASSUME j < n
                 PROVE  IF j + 1 \in T THEN Ready(next)
                        ELSE \E m \in T :
                               m <= j /\ j < TokenEnd(txt, m) /\ Inside(txt, m, j, next)
      BY DEF Position
    <3>1. CASE e = j
      BY <3>1, <2>2, <1>1, <1>3 DEF e
    <3>2. CASE e # j
      <4>1. e > j /\ j + 1 \in 1 .. n /\ j + 1 <= e /\ j < j + 1
        BY <3>2, <2>3, <1>0
      <4>2. j + 1 \notin T
        BY <4>1, <1>1, <1>3 DEF e
      <4> QED BY <4>1, <4>2, <2>2, <1>0, <1>3 DEF e
    <3> QED BY <3>1, <3>2
  <2> QED BY <2>1, <2>4, <1>3 DEF next
<1>4. CASE j \notin T
  <2>1. PICK m \in T : m <= i /\ i < TokenEnd(txt, m) /\ Inside(txt, m, i, st)
    BY <1>0, <1>4 DEF Position
  <2> DEFINE e == TokenEnd(txt, m)
  <2>2. m \in 1 .. n /\ m \in Nat /\ i \in m .. n - 1 /\ e \in Nat /\ e <= n /\ i < e
    BY <1>0, <1>1, <1>2, <2>1
  <2>3. /\ Copies(st, next, txt[j])
        /\ j < e => Inside(txt, m, j, next)
        /\ j = e /\ e < n => Ready(next)
    BY <2>1, <2>2, Continues
  <2> HIDE DEF e, next
  <2>4. Position(txt, j, next)
    <3> SUFFICES ASSUME j < n
                 PROVE  IF j + 1 \in T THEN Ready(next)
                        ELSE \E k \in T :
                               k <= j /\ j < TokenEnd(txt, k) /\ Inside(txt, k, j, next)
      BY DEF Position
    <3>1. CASE e = j
      BY <3>1, <2>3, <1>1, <2>1 DEF e
    <3>2. CASE e # j
      <4>1. e > j /\ j + 1 \in 1 .. n /\ j + 1 <= e /\ m < j + 1 /\ m <= j
        BY <3>2, <2>2, <1>0
      <4>2. j + 1 \notin T
        BY <4>1, <1>1, <2>1 DEF e
      <4> QED BY <4>1, <4>2, <2>1, <2>3 DEF e
    <3> QED BY <3>1, <3>2
  <2> QED BY <2>3, <2>4, <1>4 DEF next
<1> QED BY <1>3, <1>4

\* The rank of the markers of a text.
LEMMA MarkerRanks ==
  ASSUME NEW S, NEW txt \in Seq(S)
  PROVE  LET M == Markers(txt)
             n == Len(txt)
         IN /\ M \subseteq 1 .. n
            /\ \A p \in 1 .. n : p \in M <=> (p \in TokenStarts(txt) /\ txt[p] = "?")
            /\ \A p \in 0 .. n : Rank(M, p) \in Nat /\ Rank(M, p) <= Cardinality(M)
            /\ \A p \in 1 .. n : Rank(M, p) = Rank(M, p - 1) + (IF p \in M THEN 1 ELSE 0)
<1> DEFINE M == Markers(txt)
           n == Len(txt)
<1>1. TokenStarts(txt) \subseteq 1 .. n /\ n \in Nat
  BY TokensCover
<1>2. M \subseteq 1 .. n /\ \A p \in 1 .. n : p \in M <=> (p \in TokenStarts(txt) /\ txt[p] = "?")
  BY <1>1 DEF Markers
<1> HIDE DEF M, n
<1>3. /\ \A p \in 0 .. n : Rank(M, p) \in Nat
      /\ \A p \in 1 .. n : Rank(M, p) = Rank(M, p - 1) + (IF p \in M THEN 1 ELSE 0)
      /\ Rank(M, n) = Cardinality(M)
      /\ \A i \in 0 .. n, j \in 0 .. n : i <= j => Rank(M, i) <= Rank(M, j)
  BY <1>1, <1>2, Ranks
<1>4. \A p \in 0 .. n : Rank(M, p) <= Rank(M, n)
  BY <1>1, <1>3
<1> QED BY <1>2, <1>3, <1>4 DEF M, n

\* Between tokens, a marker takes the next argument and all else is copied.
LEMMA ReadyTurns ==
  ASSUME NEW txt \in Seq(Characters), NEW inline \in Seq(BOOLEAN),
         NEW st \in ScanStates, NEW j \in 1 .. Len(txt), Ready(st)
  PROVE  /\ txt[j] # "?" => Copies(st, ScanStep(txt, inline, st, j), txt[j])
         /\ txt[j] = "?" /\ st.param + 1 \in DOMAIN inline =>
              Takes(st, ScanStep(txt, inline, st, j), txt[j], inline[st.param + 1])
<1> DEFINE next == ScanStep(txt, inline, st, j)
<1>1. Ready(st) =>
         /\ Pair(txt, j, "-", "-") => Goes(next, "line", TRUE)
         /\ Pair(txt, j, "/", "*") => Goes(next, "block", TRUE)
         /\ txt[j] \in Quotes => Goes(next, txt[j], FALSE)
         /\ (txt[j] \notin Quotes /\ ~ Pair(txt, j, "-", "-") /\ ~ Pair(txt, j, "/", "*"))
              => Ready(next)
         /\ txt[j] # "?" => Copies(st, next, txt[j])
         /\ txt[j] = "?" /\ st.param + 1 \in DOMAIN inline =>
              Takes(st, next, txt[j], inline[st.param + 1])
  BY ScanTurns
<1> HIDE DEF next
<1>2. /\ txt[j] # "?" => Copies(st, next, txt[j])
      /\ txt[j] = "?" /\ st.param + 1 \in DOMAIN inline =>
           Takes(st, next, txt[j], inline[st.param + 1])
  BY <1>1
<1> QED BY <1>2 DEF next

\* One character more is written: what the text, kept and inlined have up to there.
LEMMA WrittenKept ==
  ASSUME NEW txt \in Seq(Characters), NEW inline \in Seq(BOOLEAN),
         Cardinality(Markers(txt)) = Len(inline),
         NEW st \in ScanStates, NEW i \in 0 .. Len(txt) - 1,
         Position(txt, i, st), Written(txt, inline, i, st)
  PROVE  Written(txt, inline, i + 1, ScanStep(txt, inline, st, i + 1))
<1> DEFINE next == ScanStep(txt, inline, st, i + 1)
           M == Markers(txt)
           j == i + 1
           r == Rank(M, i)
           n == Len(txt)
           ch == txt[j]
<1>0. /\ n \in Nat /\ i \in Nat /\ i \in 0 .. n
      /\ j \in Nat /\ j \in 1 .. n /\ j \in 0 .. n /\ j - 1 = i
  OBVIOUS
<1>1. /\ M \subseteq 1 .. n
      /\ j \in M <=> (j \in TokenStarts(txt) /\ ch = "?")
      /\ r \in Nat /\ Rank(M, j) = r + (IF j \in M THEN 1 ELSE 0)
      /\ Rank(M, j) \in Nat /\ Rank(M, j) <= Len(inline)
  BY <1>0, MarkerRanks
<1>2. /\ st.param = r /\ Len(st.out) = i
      /\ \A p \in 1 .. i : st.out[p] = IF p \in M /\ inline[Rank(M, p)] THEN Literal ELSE txt[p]
      /\ ListsInOrder(st.kept, {k \in 1 .. r : ~ inline[k]})
      /\ ListsInOrder(st.inlined, {k \in 1 .. r : inline[k]})
  BY DEF Written
<1>3. st.out \in Seq(Characters \cup {Literal})
  BY DEF ScanStates
<1> DEFINE L == Characters \cup {Literal}
<1> HIDE DEF next, M, r, n, ch, L
\* One element more, and what it must be.
<1>4. ASSUME NEW x, next.out = Append(st.out, x),
             x = IF j \in M /\ inline[Rank(M, j)] THEN Literal ELSE ch
      PROVE  /\ Len(next.out) = j
             /\ \A p \in 1 .. j :
                  next.out[p] = IF p \in M /\ inline[Rank(M, p)] THEN Literal ELSE txt[p]
  <2> DEFINE o == st.out
             q == next.out
  <2>1. o \in Seq(L) /\ Len(o) = i /\ q = Append(o, x)
    BY <1>2, <1>3, <1>4 DEF L
  <2> HIDE DEF o, q
  <2>2. Len(q) = i + 1 /\ q[i + 1] = x /\ \A p \in 1 .. i : q[p] = o[p]
    BY <2>1
  <2>3. ASSUME NEW p \in 1 .. j
        PROVE  q[p] = IF p \in M /\ inline[Rank(M, p)] THEN Literal ELSE txt[p]
    <3>1. CASE p = j
      BY <3>1, <2>2, <1>4 DEF ch
    <3>2. CASE p # j
      <4>1. p \in 1 .. i
        BY <3>2, <1>0
      <4>2. o[p] = IF p \in M /\ inline[Rank(M, p)] THEN Literal ELSE txt[p]
        BY <4>1, <1>2 DEF o
      <4> QED BY <4>1, <4>2, <2>2
    <3> QED BY <3>1, <3>2
  <2> QED BY <2>2, <2>3 DEF q
<1>5. CASE j \notin M
  <2>1. Copies(st, next, ch)
    <3>1. CASE j \in TokenStarts(txt)
      <4>1. Ready(st) /\ ch # "?"
        BY <3>1, <1>0, <1>1, <1>5, PositionKept
      <4> QED BY <4>1, <1>0, ReadyTurns DEF next, ch
    <3>2. CASE j \notin TokenStarts(txt)
      BY <3>2, <1>0, PositionKept DEF next, ch
    <3> QED BY <3>1, <3>2
  <2>2. Rank(M, j) = r
    BY <1>1, <1>5
  <2>3. next.param = st.param /\ next.out = Append(st.out, ch) /\ next.kept = st.kept
        /\ next.inlined = st.inlined
    BY <2>1 DEF Copies
  <2>4. /\ Len(next.out) = j
        /\ \A p \in 1 .. j :
             next.out[p] = IF p \in M /\ inline[Rank(M, p)] THEN Literal ELSE txt[p]
    BY <2>3, <1>4, <1>5
  <2> QED BY <2>2, <2>3, <2>4, <1>2 DEF Written, M, next
<1>6. CASE j \in M
  <2>1. Ready(st) /\ ch = "?"
    BY <1>0, <1>1, <1>6, PositionKept
  <2>2. Rank(M, j) = r + 1 /\ r + 1 \in 1 .. Len(inline) /\ r + 1 \in DOMAIN inline
    BY <1>1, <1>6
  <2>3. Takes(st, next, ch, inline[st.param + 1])
    BY <2>1, <2>2, <1>0, <1>2, ReadyTurns, SMTT(60) DEF next, ch
  <2> DEFINE k == r + 1
             In(m) == {l \in 1 .. m : inline[l]}
             Off(m) == {l \in 1 .. m : ~ inline[l]}
  <2>4. /\ k \in Nat /\ st.param + 1 = k /\ inline[k] \in BOOLEAN
        /\ (\A l \in In(r) : l < k) /\ (\A l \in Off(r) : l < k)
    BY <1>1, <1>2, <2>2
  <2>5. CASE inline[k]
    <3>1. next.param = k /\ next.out = Append(st.out, Literal) /\ next.kept = st.kept
          /\ next.inlined = Append(st.inlined, k)
      BY <2>3, <2>4, <2>5 DEF Takes
    <3>2. In(k) = In(r) \cup {k} /\ Off(k) = Off(r)
      BY <2>5, <1>1
    <3>3. /\ Len(next.out) = j
          /\ \A p \in 1 .. j :
               next.out[p] = IF p \in M /\ inline[Rank(M, p)] THEN Literal ELSE txt[p]
      BY <3>1, <2>2, <2>5, <1>4, <1>6
    <3> HIDE DEF In, Off
    <3>4. ListsInOrder(st.inlined, In(r)) /\ ListsInOrder(st.kept, Off(r))
      BY <1>2 DEF In, Off
    <3>5. ListsInOrder(next.inlined, In(k))
      BY <3>1, <3>2, <3>4, <2>4, ListsMore, SMTT(60)
    <3>6. ListsInOrder(next.kept, Off(k))
      BY <3>1, <3>2, <3>4
    <3>7. Rank(M, j) = k
      BY <2>2
    <3> HIDE DEF k
    <3> QED BY <3>1, <3>3, <3>5, <3>6, <3>7 DEF Written, M, next, In, Off
  <2>6. CASE ~ inline[k]
    <3>1. next.param = k /\ next.out = Append(st.out, ch) /\ next.inlined = st.inlined
          /\ next.kept = Append(st.kept, k)
      BY <2>3, <2>4, <2>6 DEF Takes
    <3>2. Off(k) = Off(r) \cup {k} /\ In(k) = In(r)
      BY <2>6, <1>1
    <3>3. /\ Len(next.out) = j
          /\ \A p \in 1 .. j :
               next.out[p] = IF p \in M /\ inline[Rank(M, p)] THEN Literal ELSE txt[p]
      BY <3>1, <2>2, <2>6, <1>4, <1>6
    <3> HIDE DEF In, Off
    <3>4. ListsInOrder(st.inlined, In(r)) /\ ListsInOrder(st.kept, Off(r))
      BY <1>2 DEF In, Off
    <3>5. ListsInOrder(next.kept, Off(k))
      BY <3>1, <3>2, <3>4, <2>4, ListsMore, SMTT(60)
    <3>6. ListsInOrder(next.inlined, In(k))
      BY <3>1, <3>2, <3>4
    <3>7. Rank(M, j) = k
      BY <2>2
    <3> HIDE DEF k
    <3> QED BY <3>1, <3>3, <3>5, <3>6, <3>7 DEF Written, M, next, In, Off
  <2> QED BY <2>5, <2>6
<1> QED BY <1>5, <1>6

\* Whatever the text and wherever its strings, identifiers and comments begin and
\* end: exactly the markers of the chosen parameters become literals, the new text is
\* otherwise the old one, and the parameters are listed in the order of their markers.
THEOREM RewritingExact ==
  ASSUME NEW txt \in Seq(Characters), NEW inline \in Seq(BOOLEAN),
         Cardinality(Markers(txt)) = Len(inline)
  PROVE  LET new == rewriteBinaryParams(txt, inline)
             In  == {k \in 1 .. Len(inline) : inline[k]}
         IN /\ new.text = [p \in DOMAIN txt |->
                             IF p \in {MarkerAt(txt, k) : k \in In} THEN Literal ELSE txt[p]]
            /\ ListsInOrder(new.kept, (1 .. Len(inline)) \ In)
            /\ ListsInOrder(new.inlined, In)
<1> DEFINE n == Len(txt)
           M == Markers(txt)
           new == rewriteBinaryParams(txt, inline)
           In == {k \in 1 .. Len(inline) : inline[k]}
<1>0. /\ n \in Nat /\ Len(inline) \in Nat /\ DOMAIN txt = 1 .. n
      /\ \A k \in 1 .. Len(inline) : inline[k] \in BOOLEAN
  OBVIOUS
<1>1. PICK run : /\ Scanning(txt, inline, run)
                 /\ new = [text |-> run[n].out, kept |-> run[n].kept, inlined |-> run[n].inlined]
  BY ScanRun
<1> DEFINE Good == {i \in 0 .. n : Position(txt, i, run[i]) /\ Written(txt, inline, i, run[i])}
<1>2. 0 \in Good
  <2>1. run[0] = Scanner
    BY <1>1 DEF Scanning
  <2>2. Ready(Scanner)
    BY DEF Ready, Goes, Scanner
  <2>3. Position(txt, 0, Scanner)
    <3>1. n > 0 => 1 \in TokenStarts(txt)
      BY TokensCover
    <3> QED BY <3>1, <2>2, <1>0 DEF Position
  <2>4. M \subseteq 1 .. n
    BY MarkerRanks
  <2>5. Rank(M, 0) = 0
    BY <1>0, <2>4, Ranks
  <2>6. ListsInOrder(<<>>, {})
    BY DEF ListsInOrder, ToSet
  <2>7. Written(txt, inline, 0, Scanner)
    <3>1. {k \in 1 .. Rank(M, 0) : ~ inline[k]} = {} /\ {k \in 1 .. Rank(M, 0) : inline[k]} = {}
      BY <2>5
    <3>2. Scanner.param = 0 /\ Scanner.out = <<>> /\ Scanner.kept = <<>> /\ Scanner.inlined = <<>>
      BY DEF Scanner
    <3>3. Len(Scanner.out) = 0 /\ \A p \in 1 .. 0 : FALSE
      BY <3>2
    <3> HIDE DEF M
    <3> QED BY <2>5, <2>6, <3>1, <3>2, <3>3 DEF Written, M
  <2> QED BY <2>1, <2>3, <2>7, <1>0
<1>3. ASSUME NEW i \in 1 .. n, i - 1 \in Good PROVE i \in Good
  <2> DEFINE h == i - 1
             st == run[h]
  <2>1. h \in 0 .. n - 1 /\ h + 1 = i /\ i \in 0 .. n /\ h \in 0 .. n
    BY <1>0
  <2>2. st \in ScanStates /\ run[i] = ScanStep(txt, inline, st, i)
    BY <1>1, <2>1 DEF Scanning
  <2>3. Position(txt, h, st) /\ Written(txt, inline, h, st)
    BY <1>3
  <2> HIDE DEF h, st
  <2>4. Position(txt, h + 1, ScanStep(txt, inline, st, h + 1))
    BY <2>1, <2>2, <2>3, PositionKept
  <2>5. Written(txt, inline, h + 1, ScanStep(txt, inline, st, h + 1))
    BY <2>1, <2>2, <2>3, WrittenKept
  <2> QED BY <2>1, <2>2, <2>4, <2>5
<1>4. \A i \in 0 .. n : i \in Good
  <2> HIDE DEF Good, n
  <2> QED BY <1>0, <1>2, <1>3, InductionUpTo
<1>5. Written(txt, inline, n, run[n]) /\ run[n] \in ScanStates
  BY <1>0, <1>1, <1>4 DEF Scanning
<1>6. M \subseteq 1 .. n
  BY MarkerRanks
<1>7. Rank(M, n) = Len(inline)
  BY <1>0, <1>6, Ranks
<1> DEFINE Off == {k \in 1 .. Len(inline) : ~ inline[k]}
<1>8. /\ Len(new.text) = n /\ new.text \in Seq(Characters \cup {Literal})
      /\ \A p \in 1 .. n : new.text[p] = IF p \in M /\ inline[Rank(M, p)] THEN Literal ELSE txt[p]
      /\ ListsInOrder(new.kept, Off) /\ ListsInOrder(new.inlined, In)
  <2> DEFINE last == run[n]
  <2>1. /\ new.text = last.out /\ new.kept = last.kept /\ new.inlined = last.inlined
        /\ last \in ScanStates /\ Written(txt, inline, n, last)
    BY <1>1, <1>5
  <2> HIDE DEF M, n, last, new
  <2>2. last.out \in Seq(Characters \cup {Literal})
    BY <2>1 DEF ScanStates
  <2>3. /\ Len(last.out) = n
        /\ \A p \in 1 .. n :
              last.out[p] = IF p \in M /\ inline[Rank(M, p)] THEN Literal ELSE txt[p]
        /\ ListsInOrder(last.kept, {k \in 1 .. Rank(M, n) : ~ inline[k]})
        /\ ListsInOrder(last.inlined, {k \in 1 .. Rank(M, n) : inline[k]})
    BY <2>1 DEF Written, M
  <2> QED BY <2>1, <2>2, <2>3, <1>7
<1>9. Off = (1 .. Len(inline)) \ In
  BY <1>0
<1>10. ASSUME NEW p \in 1 .. n
       PROVE  (p \in M /\ inline[Rank(M, p)]) <=> p \in {MarkerAt(txt, k) : k \in In}
  <2>1. ASSUME p \in M, inline[Rank(M, p)] PROVE p \in {MarkerAt(txt, k) : k \in In}
    <3>1. Rank(M, p) \in 1 .. Cardinality(M)
      BY <2>1, <1>0, <1>6, Ranks
    <3>2. p = MarkerAt(txt, Rank(M, p))
      BY <3>1, <2>1, <1>0, <1>6, NthRank DEF MarkerAt
    <3> QED BY <2>1, <3>1, <3>2
  <2>2. ASSUME NEW k \in In, p = MarkerAt(txt, k) PROVE p \in M /\ inline[Rank(M, p)]
    <3>1. k \in 1 .. Cardinality(M) /\ inline[k]
      OBVIOUS
    <3>2. p \in M /\ Rank(M, p) = k
      BY <3>1, <2>2, <1>0, <1>6, NthRank DEF MarkerAt
    <3> QED BY <3>1, <3>2
  <2> QED BY <2>1, <2>2
<1>11. new.text = [p \in DOMAIN txt |->
                     IF p \in {MarkerAt(txt, k) : k \in In} THEN Literal ELSE txt[p]]
  <2> DEFINE t == new.text
             u == [p \in DOMAIN txt |->
                     IF p \in {MarkerAt(txt, k) : k \in In} THEN Literal ELSE txt[p]]
  <2>1. \A p \in 1 .. n : t[p] = u[p]
    BY <1>0, <1>8, <1>10
  <2>2. DOMAIN u = 1 .. n /\ u = [p \in 1 .. n |-> u[p]]
    BY <1>0
  <2>3. t \in Seq(Characters \cup {Literal}) /\ Len(t) = n
    BY <1>8
  <2> HIDE DEF t, u, n
  <2>4. t = [p \in 1 .. n |-> t[p]]
    BY <2>3
  <2> QED BY <2>1, <2>2, <2>4 DEF t, u
<1> QED BY <1>8, <1>9, <1>11

TextInv ==
  /\ statement \in Cases
  /\ ~ rewritten => prepared = statement.text
  /\ statement.kind # "exec" => ~ rewritten
  /\ {"text", "args", "kept"} \subseteq DOMAIN execution
  /\ TextKeepsItsTokens

\* A call whose arguments go as they are, on the text of the statement.
LEMMA PlainText ==
  ASSUME statement \in Cases, statement' = statement,
         DOMAIN execution'.args = DOMAIN execution'.kept, execution'.kept = All(execution'.args),
         execution'.text = statement.text, IntoText' = {}
  PROVE  TextKeepsItsTokens'
<1>1. statement.text \in Seq(Characters)
  BY CasesAssumption
<1>2. ToSet(execution'.kept) = DOMAIN execution'.args
  <2> DEFINE kept == execution'.kept
             D == DOMAIN execution'.args
  <2>1. kept = [i \in D |-> i]
    BY DEF All
  <2> HIDE DEF kept, D
  <2> QED BY <2>1 DEF ToSet, kept, D
<1>3. execution'.text = [p \in DOMAIN statement'.text |->
                           IF p \in {MarkerAt(statement'.text, i) : i \in {}} THEN Literal
                           ELSE statement'.text[p]]
  BY <1>1
<1> QED BY <1>2, <1>3 DEF TextKeepsItsTokens

\* A call that comes to no text.
LEMMA TextFree ==
  ASSUME execution'.text = <<>>
  PROVE  TextKeepsItsTokens'
BY DEF TextKeepsItsTokens

\* A step inside a call.
LEMMA SameCall ==
  ASSUME TextInv, UNCHANGED <<statement, rewritten, prepared>>,
         execution'.text = execution.text, execution'.args = execution.args,
         execution'.kept = execution.kept, DOMAIN execution' = DOMAIN execution
  PROVE  TextInv'
<1>1. BatchOnLiterals' <=> BatchOnLiterals
  BY DEF BatchOnLiterals
<1>2. IntoText' = IntoText
  BY DEF IntoText, hasBlobParams, Inlineable
<1>3. TextKeepsItsTokens'
  BY <1>1, <1>2 DEF TextInv, TextKeepsItsTokens
<1> QED BY <1>3 DEF TextInv

\* The arguments behind the sql.Out are as many, and the test of each is a Boolean.
LEMMA Inlining ==
  ASSUME statement \in Cases, NEW args \in statement.uses
  PROVE  /\ DOMAIN RawArgs(args) = DOMAIN args /\ DOMAIN args = 1 .. Len(args)
         /\ Len(args) \in Nat
         /\ Inlineable(RawArgs(args)) \in Seq(BOOLEAN)
         /\ Len(Inlineable(RawArgs(args))) = Len(args)
         /\ DOMAIN Inlineable(RawArgs(args)) = DOMAIN args
<1>1. args \in Seq(ToSet(args))
  BY CasesAssumption
<1>2. DOMAIN args = 1 .. Len(args) /\ Len(args) \in Nat
  BY <1>1
<1>3. DOMAIN RawArgs(args) = DOMAIN args
  BY DEF RawArgs
<1> DEFINE inline == Inlineable(RawArgs(args))
<1>4. inline \in [1 .. Len(args) -> BOOLEAN]
  BY <1>2, <1>3 DEF Inlineable
<1> HIDE DEF inline
<1>5. inline \in Seq(BOOLEAN) /\ Len(inline) = Len(args) /\ DOMAIN inline = 1 .. Len(args)
  BY <1>2, <1>4
<1> QED BY <1>2, <1>3, <1>5 DEF inline

\* A wrong number of arguments keeps the invariant.
LEMMA MiscountedKeeps ==
  ASSUME TextInv, NEW args \in statement.uses, CallMiscounted(args)
  PROVE  TextInv'
<1>1. execution'.text = <<>> /\ UNCHANGED <<statement, rewritten, prepared>>
  BY DEF CallMiscounted, Called, Returns, NoCall
<1>2. {"text", "args", "kept"} \subseteq DOMAIN execution'
  BY DEF CallMiscounted, Returns, NoCall
<1> QED BY <1>1, <1>2, TextFree DEF TextInv

\* A text that does not prepare keeps it.
LEMMA UnpreparedKeeps ==
  ASSUME TextInv, NEW args \in statement.uses, CallUnprepared(args)
  PROVE  TextInv'
<1>1. execution'.text = <<>> /\ statement' = statement /\ rewritten' /\ statement.kind = "exec"
  BY DEF CallUnprepared, Called, NoCall
<1>2. {"text", "args", "kept"} \subseteq DOMAIN execution'
  BY DEF CallUnprepared, NoCall
<1> QED BY <1>1, <1>2, TextFree DEF TextInv

\* A batch keeps it.
LEMMA BatchKeeps ==
  ASSUME TextInv, NEW args \in statement.uses, CallBatch(args)
  PROVE  TextInv'
<1> DEFINE raw == RawArgs(args)
<1>1. UNCHANGED <<statement, rewritten, prepared>> /\ BatchSize(raw) > 0 /\ statement \in Cases
  BY DEF CallBatch, Called, Returns, TextInv
<1>4. {"text", "args", "kept"} \subseteq DOMAIN execution'
  <2>1. \/ Returns(args, "error") \/ Returns(args, "panic")
        \/ Begins(args, "sending", <<>>, BatchSize(raw), prepared, All(args), <<>>)
    BY DEF CallBatch
  <2>2. ASSUME NEW result, Returns(args, result)
        PROVE  {"text", "args", "kept"} \subseteq DOMAIN execution'
    BY <2>2 DEF Returns, NoCall
  <2>3. ASSUME Begins(args, "sending", <<>>, BatchSize(raw), prepared, All(args), <<>>)
        PROVE  {"text", "args", "kept"} \subseteq DOMAIN execution'
    <3> HIDE DEF raw
    <3> QED BY <2>3 DEF Begins
  <2> QED BY <2>1, <2>2, <2>3
<1>2. CASE execution'.text = <<>>
  BY <1>1, <1>2, <1>4, TextFree DEF TextInv
<1>3. CASE Begins(args, "sending", <<>>, BatchSize(raw), prepared, All(args), <<>>)
  <2>1. execution'.args = raw /\ execution'.kept = All(args) /\ execution'.text = prepared
    BY <1>3 DEF Begins
  <2>2. DOMAIN raw = DOMAIN args
    BY <1>1, Inlining
  <2>3. CASE rewritten
    BY <2>3, <2>1, <1>1, <1>4 DEF TextInv, TextKeepsItsTokens, BatchOnLiterals
  <2>4. CASE ~ rewritten
    <3>1. IntoText' = {}
      BY <2>1, <1>1 DEF IntoText
    <3>2. execution'.text = statement.text
      BY <2>1, <2>4 DEF TextInv
    <3>3. DOMAIN execution'.args = DOMAIN execution'.kept /\ execution'.kept = All(execution'.args)
      BY <2>1, <2>2 DEF All
    <3>4. TextKeepsItsTokens'
      BY <3>1, <3>2, <3>3, <1>1, PlainText
    <3> QED BY <3>4, <1>1, <1>4 DEF TextInv
  <2> QED BY <2>3, <2>4
<1> QED BY <1>2, <1>3 DEF CallBatch, Returns, NoCall

\* A call without short BLOBs keeps it.
LEMMA PlainKeeps ==
  ASSUME TextInv, NEW args \in statement.uses, CallPlain(args)
  PROVE  TextInv'
<1> DEFINE raw == RawArgs(args)
<1>1. /\ statement' = statement /\ statement \in Cases
      /\ statement.kind # "exec" \/ ~ hasBlobParams(raw)
  BY DEF CallPlain, Called, TextInv
<1>2. prepared' = statement.text /\ ~ rewritten'
  BY DEF CallPlain, TextInv
<1>3. execution'.args = raw /\ execution'.kept = All(args) /\ execution'.text = statement.text
  BY <1>2 DEF CallPlain, Begins
<1>4. DOMAIN raw = DOMAIN args
  BY <1>1, Inlining
<1>5. hasBlobParams(execution.args)' <=> hasBlobParams(raw)
  BY <1>1, <1>3 DEF hasBlobParams, Inlineable
<1>6. IntoText' = {}
  BY <1>1, <1>5 DEF IntoText
<1>7. DOMAIN execution'.args = DOMAIN execution'.kept /\ execution'.kept = All(execution'.args)
  BY <1>3, <1>4 DEF All
<1>8. TextKeepsItsTokens'
  BY <1>1, <1>3, <1>6, <1>7, PlainText
<1>9. {"text", "args", "kept"} \subseteq DOMAIN execution'
  BY DEF CallPlain, Begins
<1> QED BY <1>1, <1>2, <1>8, <1>9 DEF TextInv

\* A call whose short BLOBs move into the text keeps it, by RewritingExact.
LEMMA RewrittenKeeps ==
  ASSUME TextInv, NEW args \in statement.uses, CallRewritten(args)
  PROVE  TextInv'
<1> DEFINE raw == RawArgs(args)
           inline == Inlineable(raw)
           txt == statement.text
           new == rewriteBinaryParams(txt, inline)
           In == {k \in 1 .. Len(inline) : inline[k]}
<1>1. /\ statement' = statement /\ statement \in Cases /\ statement.kind = "exec"
      /\ rewritten' /\ hasBlobParams(raw) /\ BatchSize(raw) = 0 /\ Len(args) = Len(statement.cols)
  BY DEF CallRewritten, Called, Single, TextInv
<1>2. /\ DOMAIN raw = DOMAIN args /\ DOMAIN args = 1 .. Len(args)
      /\ inline \in Seq(BOOLEAN) /\ Len(inline) = Len(args) /\ DOMAIN inline = DOMAIN args
  BY <1>1, Inlining
<1>3. txt \in Seq(Characters) /\ Cardinality(Markers(txt)) = Len(inline)
  BY <1>1, <1>2, CasesAssumption
<1>4. execution'.args = raw /\ execution'.text = new.text
      /\ execution'.kept = new.kept
  BY DEF CallRewritten, Begins
<1> HIDE DEF raw, inline, txt
<1>5. /\ new.text = [p \in DOMAIN txt |->
                       IF p \in {MarkerAt(txt, k) : k \in In} THEN Literal ELSE txt[p]]
      /\ ListsInOrder(new.kept, (1 .. Len(inline)) \ In)
  BY <1>2, <1>3, RewritingExact
<1>6. ToSet(new.kept) = (1 .. Len(inline)) \ In
  BY <1>5 DEF ListsInOrder
<1>7. /\ hasBlobParams(execution.args)' <=> hasBlobParams(raw)
      /\ Inlineable(execution.args)' = inline
  BY <1>1, <1>4 DEF hasBlobParams, Inlineable, inline
<1>8. IntoText' = In
  BY <1>1, <1>2, <1>4, <1>7 DEF IntoText
<1> HIDE DEF In, new
<1>9. TextKeepsItsTokens'
  BY <1>1, <1>2, <1>4, <1>5, <1>6, <1>8 DEF TextKeepsItsTokens, txt
<1>10. {"text", "args", "kept"} \subseteq DOMAIN execution'
  BY DEF CallRewritten, Begins
<1> QED BY <1>1, <1>9, <1>10 DEF TextInv

\* Every step keeps it.
LEMMA TextKept ==
  ASSUME TextInv, [ParametersNext]_vars
  PROVE  TextInv'
<1>1. CASE UNCHANGED vars
  BY <1>1, SameCall DEF vars
<1>2. ASSUME NEW args \in statement.uses, CallMiscounted(args) PROVE TextInv'
  BY <1>2, MiscountedKeeps
<1>3. ASSUME NEW args \in statement.uses, CallBatch(args) PROVE TextInv'
  BY <1>3, BatchKeeps
<1>4. ASSUME NEW args \in statement.uses, CallRewritten(args) PROVE TextInv'
  BY <1>4, RewrittenKeeps
<1>5. ASSUME NEW args \in statement.uses, CallPlain(args) PROVE TextInv'
  BY <1>5, PlainKeeps
<1>6. ASSUME NEW args \in statement.uses, CallUnprepared(args) PROVE TextInv'
  BY <1>6, UnpreparedKeeps
<1>7. ASSUME SendRow \/ ServerReads \/ ServerRejects \/ ServerFails \/ CallReturns PROVE TextInv'
  <2>1. UNCHANGED <<statement, rewritten, prepared>>
    BY <1>7 DEF SendRow, ServerReads, ServerRejects, ServerFails, CallReturns
  <2>2. {"text", "args", "kept"} \subseteq DOMAIN execution
    BY DEF TextInv
  <2> DEFINE Same == /\ execution'.text = execution.text /\ execution'.args = execution.args
                     /\ execution'.kept = execution.kept /\ DOMAIN execution' = DOMAIN execution
  <2>3. Same
    <3>1. ASSUME NEW result, Fails(result) PROVE Same
      BY <3>1, <2>2 DEF Fails
    <3>2. CASE SendRow
      BY <3>1, <3>2, <2>2 DEF SendRow
    <3>3. CASE ServerReads
      BY <3>3, <2>2 DEF ServerReads
    <3>4. CASE ServerRejects
      BY <3>1, <3>4 DEF ServerRejects
    <3>5. CASE ServerFails
      BY <3>1, <3>5 DEF ServerFails
    <3>6. CASE CallReturns
      <4>1. \E at, result : execution' = [execution EXCEPT !.at = at, !.result = result]
               \/ execution' = [execution EXCEPT !.at = "sending", !.row = execution.row + 1]
        BY <3>6 DEF CallReturns
      <4> QED BY <4>1, <2>2
    <3> QED BY <1>7, <3>2, <3>3, <3>4, <3>5, <3>6
  <2> QED BY <2>1, <2>3, SameCall
<1> QED BY <1>1, <1>2, <1>3, <1>4, <1>5, <1>6, <1>7 DEF ParametersNext

\* Whatever a statement's text and arguments, the text that goes to the server has the
\* statement's own tokens, with literals for some of its markers (rewriteBinaryParams,
\* statement.go:377-487, and its callers).
THEOREM TokensKept == ParametersSpec => []TextKeepsItsTokens
<1>1. ParametersInit => TextInv
  BY DEF ParametersInit, TextInv, TextKeepsItsTokens, NoCall
<1>2. TextInv /\ [ParametersNext]_vars => TextInv'
  BY TextKept
<1>3. TextInv => TextKeepsItsTokens
  BY DEF TextInv
<1> QED BY <1>1, <1>2, <1>3, PTL DEF ParametersSpec

\* The values of FieldsOf from each place of a descriptor on.
FieldsAt(dsc, f, pos) ==
  LET length == dsc[pos]
      n == length \div 3 - 1
  IN IF pos + 2 > Len(dsc) THEN <<>>
     ELSE IF length < 3 \/ pos + length - 1 > Len(dsc) THEN <<>>
     ELSE (IF dsc[pos + 1] = 118
           THEN [i \in 1 .. n |-> SubSeq(dsc, pos + 3 * i, pos + 3 * i + 2)]
           ELSE <<>>)
          \o f[pos + length]

\* The fields of every descriptor are defined, from each place on.
LEMMA FieldsExist ==
  ASSUME NEW dsc \in Seq(Nat)
  PROVE  \E f : f = [pos \in 1 .. Len(dsc) + 1 |-> FieldsAt(dsc, f, pos)]
<1> DEFINE L == Len(dsc)
           Upto(k) == L + 2 - k .. L + 1
           Defined == {k \in 0 .. L + 1 : \E f : f = [pos \in Upto(k) |-> FieldsAt(dsc, f, pos)]}
<1>0. L \in Nat /\ L + 1 \in Nat
  OBVIOUS
<1>1. 0 \in Defined
  <2> DEFINE f == [pos \in Upto(0) |-> 0]
  <2>1. Upto(0) = {}
    BY <1>0
  <2>2. f = [pos \in Upto(0) |-> FieldsAt(dsc, f, pos)]
    BY <2>1
  <2> QED BY <1>0, <2>2
<1>2. ASSUME NEW k \in 1 .. L + 1, k - 1 \in Defined PROVE k \in Defined
  <2> DEFINE at == L + 2 - k
  <2>1. PICK f : f = [pos \in Upto(k - 1) |-> FieldsAt(dsc, f, pos)]
    BY <1>2
  <2> DEFINE g == [pos \in Upto(k) |-> IF pos = at THEN FieldsAt(dsc, f, at) ELSE f[pos]]
  <2>2. at \in Nat /\ at \in 1 .. L + 1 /\ Upto(k) = {at} \cup Upto(k - 1) /\ at \notin Upto(k - 1)
        /\ \A pos \in Upto(k - 1) : pos > at /\ pos \in 1 .. L + 1
    BY <1>0
  <2>3. \A pos \in Upto(k - 1) : g[pos] = f[pos]
    BY <2>2
  <2>4. ASSUME NEW pos \in Upto(k) PROVE FieldsAt(dsc, g, pos) = FieldsAt(dsc, f, pos)
    <3>1. pos \in 1 .. L + 1 /\ pos >= at
      BY <2>2
    <3>2. CASE pos + 2 > L \/ dsc[pos] < 3 \/ pos + dsc[pos] - 1 > L
      BY <3>2 DEF FieldsAt
    <3>3. CASE ~ (pos + 2 > L \/ dsc[pos] < 3 \/ pos + dsc[pos] - 1 > L)
      <4>1. dsc[pos] \in Nat /\ dsc[pos] >= 3
        BY <3>1, <3>3, <1>0, SMTT(60)
      <4>2. pos + dsc[pos] \in Upto(k - 1)
        <5> DEFINE d == dsc[pos]
        <5>1. /\ d \in Nat /\ d >= 3 /\ pos + d <= L + 1
               /\ pos >= L + 2 - k /\ pos \in Nat /\ k \in Nat
          BY <3>1, <3>3, <4>1, <1>0
        <5> HIDE DEF d, L
        <5>2. pos + d \in L + 2 - (k - 1) .. L + 1
          BY <5>1, <1>0
        <5> QED BY <5>2 DEF d
      <4>3. g[pos + dsc[pos]] = f[pos + dsc[pos]]
        BY <4>2, <2>3
      <4> HIDE DEF g
      <4> QED BY <4>3 DEF FieldsAt
    <3> QED BY <3>2, <3>3
  <2>5. ASSUME NEW pos \in Upto(k) PROVE g[pos] = FieldsAt(dsc, f, pos)
    <3>1. CASE pos = at
      BY <3>1
    <3>2. CASE pos # at
      <4>1. pos \in Upto(k - 1)
        BY <3>2, <2>2
      <4>2. f[pos] = FieldsAt(dsc, f, pos)
        <5> HIDE DEF Upto
        <5> QED BY <4>1, <2>1
      <4> QED BY <4>1, <4>2, <2>3
    <3> QED BY <3>1, <3>2
  <2>6. \A pos \in Upto(k) : g[pos] = FieldsAt(dsc, g, pos)
    BY <2>4, <2>5
  <2>7. DOMAIN g = Upto(k) /\ g = [pos \in Upto(k) |-> g[pos]]
    OBVIOUS
  <2> HIDE DEF g
  <2>8. g = [pos \in Upto(k) |-> FieldsAt(dsc, g, pos)]
    BY <2>6, <2>7
  <2> QED BY <2>8
<1>3. \A k \in 0 .. L + 1 : k \in Defined
  <2> HIDE DEF Defined, L
  <2> QED BY <1>0, <1>1, <1>2, InductionUpTo
<1>4. Upto(L + 1) = 1 .. L + 1 /\ L + 1 \in 0 .. L + 1
  BY <1>0
<1> QED BY <1>3, <1>4

\* So FieldsOf reads one group and then what comes behind it.
LEMMA FieldsRun ==
  ASSUME NEW dsc \in Seq(Nat)
  PROVE  \E f : /\ FieldsOf(dsc) = f[1]
                /\ \A pos \in 1 .. Len(dsc) + 1 : f[pos] = FieldsAt(dsc, f, pos)
<1> DEFINE Given(f) == f = [pos \in 1 .. Len(dsc) + 1 |-> FieldsAt(dsc, f, pos)]
           from == CHOOSE f : Given(f)
<1>1. \E f : Given(f)
  BY FieldsExist
<1>2. Given(from)
  <2> HIDE DEF Given
  <2> QED BY <1>1
<1>3. FieldsOf(dsc) = from[1]
  BY DEF FieldsOf, FieldsAt
<1>4. \A pos \in 1 .. Len(dsc) + 1 : from[pos] = FieldsAt(dsc, from, pos)
  <2> HIDE DEF from
  <2> QED BY <1>2
<1> HIDE DEF from
<1> QED BY <1>3, <1>4

Triplets == {t \in Seq(Nat) : Len(t) = 3}

\* Triplets joined, and each of them found again.
LEMMA TripletsFlat ==
  ASSUME NEW ts \in Seq(Triplets)
  PROVE  /\ FlattenSeq(ts) \in Seq(Nat) /\ Len(FlattenSeq(ts)) = 3 * Len(ts)
         /\ \A i \in 1 .. Len(ts) : Slice(FlattenSeq(ts), 3 * (i - 1), 3 * i) = ts[i]
<1> DEFINE off == [i \in Nat |-> 3 * i]
<1>1. ts \in Seq(Seq(Nat)) /\ Len(ts) \in Nat
  BY DEF Triplets
<1>2. off[0] = 0 /\ \A i \in 1 .. Len(ts) : off[i] = off[i - 1] + Len(ts[i])
  <2>1. \A i \in 1 .. Len(ts) : Len(ts[i]) = 3
    BY DEF Triplets
  <2>2. ASSUME NEW i \in 1 .. Len(ts) PROVE off[i] = off[i - 1] + 3
    <3>1. i \in Nat /\ i - 1 \in Nat
      BY <1>1
    <3> QED BY <3>1
  <2>3. off[0] = 0
    OBVIOUS
  <2> HIDE DEF off
  <2> QED BY <2>1, <2>2, <2>3
<1>3. \A i \in 1 .. Len(ts) : off[i - 1] = 3 * (i - 1) /\ off[i] = 3 * i
  BY <1>1
<1>4. off[Len(ts)] = 3 * Len(ts)
  BY <1>1
<1> HIDE DEF off
<1>5. /\ FlattenSeq(ts) \in Seq(Nat) /\ Len(FlattenSeq(ts)) = off[Len(ts)]
      /\ \A i \in 1 .. Len(ts) : Slice(FlattenSeq(ts), off[i - 1], off[i]) = ts[i]
  BY <1>1, <1>2, FlattenSlices
<1> QED BY <1>3, <1>4, <1>5

\* What stands in the second of two joined sequences.
LEMMA JoinTail ==
  ASSUME NEW S, NEW u \in Seq(S), NEW v \in Seq(S)
  PROVE  /\ u \o v \in Seq(S) /\ Len(u \o v) = Len(u) + Len(v)
         /\ \A k \in 1 .. Len(v) : (u \o v)[Len(u) + k] = v[k]
OBVIOUS

\* A slice of the first and of the second.
LEMMA SliceFirst ==
  ASSUME NEW S, NEW u \in Seq(S), NEW v \in Seq(S),
         NEW i \in Nat, NEW j \in Nat, i <= j, j <= Len(u)
  PROVE  Slice(u \o v, i, j) = Slice(u, i, j)
<1> DEFINE w == u \o v
           t == Slice(u, i, j)
<1>1. w \in Seq(S) /\ Len(w) = Len(u) + Len(v) /\ \A k \in 1 .. Len(u) : w[k] = u[k]
  OBVIOUS
<1>2. t \in Seq(S) /\ Len(t) = j - i /\ \A k \in 1 .. j - i : t[k] = u[i + k]
  BY SliceParts
<1>3. \A k \in 1 .. j - i : i + k \in 1 .. Len(u)
  OBVIOUS
<1>4. j <= Len(w) /\ \A k \in 1 .. j - i : t[k] = w[i + k]
  <2> HIDE DEF w, t
  <2> QED BY <1>1, <1>2, <1>3
<1> HIDE DEF w, t
<1>5. t = Slice(w, i, j)
  BY <1>1, <1>2, <1>4, SliceEqual
<1> QED BY <1>5 DEF w, t

\* A slice of the second.
LEMMA SliceSecond ==
  ASSUME NEW S, NEW u \in Seq(S), NEW v \in Seq(S),
         NEW i \in Nat, NEW j \in Nat, i <= j, j <= Len(v)
  PROVE  Slice(u \o v, Len(u) + i, Len(u) + j) = Slice(v, i, j)
<1> DEFINE w == u \o v
           t == Slice(v, i, j)
           a == Len(u) + i
           b == Len(u) + j
<1>1. w \in Seq(S) /\ Len(w) = Len(u) + Len(v) /\ \A k \in 1 .. Len(v) : w[Len(u) + k] = v[k]
  OBVIOUS
<1>2. t \in Seq(S) /\ Len(t) = j - i /\ \A k \in 1 .. j - i : t[k] = v[i + k]
  BY SliceParts
<1>3. a \in Nat /\ b \in Nat /\ a <= b /\ b - a = j - i
  OBVIOUS
<1>4. \A k \in 1 .. j - i : i + k \in 1 .. Len(v) /\ a + k = Len(u) + (i + k)
  OBVIOUS
<1>5. b <= Len(w) /\ \A k \in 1 .. b - a : t[k] = w[a + k]
  <2>1. b <= Len(u) + Len(v)
    OBVIOUS
  <2> HIDE DEF w, t, a, b
  <2> QED BY <2>1, <1>1, <1>2, <1>3, <1>4
<1> HIDE DEF w, t, a, b
<1>6. Len(t) = b - a
  BY <1>2, <1>3
<1>7. t = Slice(w, a, b)
  BY ONLY <1>1, <1>2, <1>3, <1>5, <1>6, SliceEqual, ZenonT(60)
<1> QED BY <1>7 DEF w, t, a, b

\* The bytes of a group of descriptors: the length fits its byte.
GroupBytes(ts) == <<(3 * (1 + Len(ts))) % 256, 118, 208>> \o FlattenSeq(ts)

\* One group of descriptors: its length, its type and its triplets.
LEMMA GroupIs ==
  ASSUME NEW ts \in Seq(Triplets), Len(ts) \in 1 .. 84
  PROVE  LET x == GroupBytes(ts)
         IN /\ x \in Seq(Nat) /\ Len(x) = 3 + 3 * Len(ts)
            /\ x[1] = 3 + 3 * Len(ts) /\ x[2] = 118
            /\ \A i \in 1 .. Len(ts) : Slice(x, 3 * i, 3 * i + 3) = ts[i]
<1> DEFINE m == Len(ts)
           body == FlattenSeq(ts)
           length == (3 * (1 + m)) % 256
           head == <<length, 118, 208>>
           x == head \o body
<1>1. m \in Nat /\ length = 3 + 3 * m
  <2>1. m \in Nat /\ m \in 1 .. 84
    OBVIOUS
  <2> HIDE DEF m
  <2> DEFINE l == 3 * (1 + m)
  <2>2. l \in Nat /\ l < 256 /\ l = 3 + 3 * m
    BY <2>1
  <2> HIDE DEF l
  <2>3. l % 256 = l
    BY <2>2
  <2> QED BY <2>1, <2>2, <2>3 DEF l
<1>2. body \in Seq(Nat) /\ Len(body) = 3 * m
      /\ \A i \in 1 .. m : Slice(body, 3 * (i - 1), 3 * i) = ts[i]
  BY TripletsFlat
<1>3. head \in Seq(Nat) /\ Len(head) = 3 /\ head[1] = length /\ head[2] = 118
  BY <1>1
<1> HIDE DEF head, body
<1>4. /\ x \in Seq(Nat) /\ Len(x) = 3 + 3 * m
      /\ x[1] = head[1] /\ x[2] = head[2]
  <2>1. head \in Seq(Nat) /\ body \in Seq(Nat)
    BY <1>2, <1>3
  <2>2. /\ x \in Seq(Nat) /\ Len(x) = Len(head) + Len(body)
        /\ \A k \in 1 .. Len(head) : x[k] = head[k]
    BY ONLY <2>1
  <2> HIDE DEF x
  <2> QED BY <2>2, <1>1, <1>2, <1>3, SMTT(60)
<1>5. ASSUME NEW i \in 1 .. m PROVE Slice(x, 3 * i, 3 * i + 3) = ts[i]
  <2> DEFINE a == 3 * (i - 1)
             b == 3 * i
  <2>1. a \in Nat /\ b \in Nat /\ a <= b /\ b <= Len(body) /\ Len(head) + a = b
        /\ Len(head) + b = b + 3
    BY <1>1, <1>2, <1>3
  <2>2. head \in Seq(Nat) /\ body \in Seq(Nat)
    BY <1>2, <1>3
  <2>3. Slice(body, a, b) = ts[i]
    BY <1>2
  <2> HIDE DEF a, b
  <2>4. Slice(x, Len(head) + a, Len(head) + b) = Slice(body, a, b)
    BY ONLY <2>1, <2>2, SliceSecond
  <2>5. Slice(x, b, b + 3) = ts[i]
    BY <2>1, <2>3, <2>4
  <2> QED BY <2>5 DEF b
<1>6. x = GroupBytes(ts)
  BY DEF GroupBytes, head, body
<1> HIDE DEF x, length, m
<1>7. x[1] = 3 + 3 * m /\ x[2] = 118
  BY <1>1, <1>3, <1>4
<1> QED BY <1>4, <1>5, <1>6, <1>7 DEF m

\* Reading a group that lies at a, with something behind it.
LEMMA GroupRead ==
  ASSUME NEW dsc \in Seq(Nat), NEW ts \in Seq(Triplets), Len(ts) \in 1 .. 84, NEW a \in Nat,
         a + 3 + 3 * Len(ts) <= Len(dsc),
         Slice(dsc, a, a + 3 + 3 * Len(ts)) = GroupBytes(ts), NEW f
  PROVE  FieldsAt(dsc, f, a + 1) = ts \o f[a + 3 + 3 * Len(ts) + 1]
<1> DEFINE m == Len(ts)
           b == a + 3 + 3 * m
           x == GroupBytes(ts)
<1>0. m \in Nat /\ m \in 1 .. 84 /\ b \in Nat /\ a <= b /\ b <= Len(dsc) /\ b - a = 3 + 3 * m
  OBVIOUS
<1>1. /\ x \in Seq(Nat) /\ Len(x) = 3 + 3 * m /\ x[1] = 3 + 3 * m /\ x[2] = 118
      /\ \A i \in 1 .. m : Slice(x, 3 * i, 3 * i + 3) = ts[i]
  BY GroupIs
<1>2. x = Slice(dsc, a, b)
  OBVIOUS
<1> HIDE DEF x, b, m
<1>3. dsc[a + 1] = 3 + 3 * m /\ dsc[a + 2] = 118
  <2>1. \A k \in 1 .. b - a : x[k] = dsc[a + k]
    BY <1>0, <1>2, SliceParts, ZenonT(60)
  <2>2. 1 \in 1 .. b - a /\ 2 \in 1 .. b - a
    BY <1>0
  <2> QED BY <1>1, <2>1, <2>2
<1>4. ASSUME NEW i \in 1 .. m PROVE SubSeq(dsc, a + 1 + 3 * i, a + 1 + 3 * i + 2) = ts[i]
  <2>1. Slice(Slice(dsc, a, b), 3 * i, 3 * i + 3) = Slice(dsc, a + 3 * i, a + (3 * i + 3))
    <3>1. 3 * i \in Nat /\ 3 * i + 3 \in Nat /\ 3 * i <= 3 * i + 3 /\ 3 * i + 3 <= b - a
      BY <1>0
    <3> QED BY <3>1, <1>0, SliceOfSlice
  <2>2. Slice(dsc, a + 3 * i, a + (3 * i + 3)) = ts[i]
    BY <2>1, <1>1, <1>2
  <2>3. (a + 3 * i) + 1 = a + 1 + 3 * i /\ a + (3 * i + 3) = a + 1 + 3 * i + 2
    BY <1>0
  <2> QED BY <2>2, <2>3 DEF Slice
<1>5. [i \in 1 .. m |-> SubSeq(dsc, a + 1 + 3 * i, a + 1 + 3 * i + 2)] = ts
  <2>1. ts = [i \in 1 .. m |-> ts[i]]
    BY DEF m
  <2> QED BY <2>1, <1>4
<1>6. dsc[a + 1] \div 3 - 1 = m /\ ~ (a + 1 + 2 > Len(dsc)) /\ ~ (dsc[a + 1] < 3)
      /\ ~ (a + 1 + dsc[a + 1] - 1 > Len(dsc)) /\ dsc[a + 1 + 1] = 118
      /\ a + 1 + dsc[a + 1] = b + 1
  <2>1. (3 + 3 * m) \div 3 = m + 1
    BY <1>0
  <2>2. a + 1 + 1 = a + 2 /\ b = a + 3 + 3 * m
    BY DEF b
  <2> QED BY <2>1, <2>2, <1>0, <1>3
<1>7. FieldsAt(dsc, f, a + 1)
        = [i \in 1 .. m |-> SubSeq(dsc, a + 1 + 3 * i, a + 1 + 3 * i + 2)] \o f[b + 1]
  BY <1>6 DEF FieldsAt
<1> QED BY <1>5, <1>7 DEF b, m

Closer == <<6, 113, 228, 208, 0, 1>>

\* Reading what ends a descriptor.
LEMMA CloserRead ==
  ASSUME NEW dsc \in Seq(Nat), NEW a \in Nat, Len(dsc) = a + 6,
         \A k \in 1 .. 6 : dsc[a + k] = Closer[k], NEW f
  PROVE  /\ FieldsAt(dsc, f, a + 1) = <<>> \o f[a + 7]
         /\ FieldsAt(dsc, f, a + 7) = <<>>
<1>1. dsc[a + 1] = 6 /\ dsc[a + 2] = 113
  BY DEF Closer
<1>2. ~ (a + 1 + 2 > Len(dsc)) /\ ~ (dsc[a + 1] < 3) /\ ~ (a + 1 + dsc[a + 1] - 1 > Len(dsc))
      /\ dsc[a + 1 + 1] # 118 /\ a + 1 + dsc[a + 1] = a + 7
  BY <1>1
<1>3. a + 7 + 2 > Len(dsc)
  OBVIOUS
<1> QED BY <1>2, <1>3 DEF FieldsAt

\* The less of two numbers, as the library has it.
LEMMA MinOfTwo ==
  ASSUME NEW a \in Nat, NEW b \in Nat
  PROVE  Min({a, b}) = IF a <= b THEN a ELSE b
<1> DEFINE m == IF a <= b THEN a ELSE b
<1>1. m \in {a, b} /\ (\A y \in {a, b} : m <= y)
      /\ \A x \in {a, b} : (\A y \in {a, b} : x <= y) => x = m
  OBVIOUS
<1>2. (CHOOSE x \in {a, b} : \A y \in {a, b} : x <= y) = m
  <2> HIDE DEF m
  <2> QED BY <1>1
<1> QED BY <1>2 DEF Min

\* How far the first g groups of n descriptors go.
Told(n, g) == IF 84 * g <= n THEN 84 * g ELSE n

\* The groups are as many as it takes, and none is empty or has more than 84.
LEMMA GroupsCover ==
  ASSUME NEW n \in Nat
  PROVE  LET G == (n + 83) \div 84
         IN /\ G \in Nat /\ Told(n, 0) = 0 /\ Told(n, G) = n
            /\ \A g \in 1 .. G : /\ 84 * (g - 1) \in Nat /\ Told(n, g - 1) = 84 * (g - 1)
                                 /\ Told(n, g) \in Nat /\ Told(n, g) <= n
                                 /\ Told(n, g) - 84 * (g - 1) \in 1 .. 84
            /\ \A g \in 0 .. G : Told(n, g) \in Nat /\ Told(n, g) <= n
<1> DEFINE G == (n + 83) \div 84
<1>1. G \in Nat /\ G * 84 <= n + 83 /\ n + 83 < G * 84 + 84
  BY Quotient
<1> HIDE DEF G
<1>2. G \in Nat /\ 84 * G <= n + 83 /\ n <= 84 * G
  BY <1>1
<1>3. Told(n, 0) = 0 /\ Told(n, G) = n
  BY <1>2 DEF Told
<1>4. ASSUME NEW g \in 1 .. G
      PROVE  /\ 84 * (g - 1) \in Nat /\ Told(n, g - 1) = 84 * (g - 1)
             /\ Told(n, g) \in Nat /\ Told(n, g) <= n
             /\ Told(n, g) - 84 * (g - 1) \in 1 .. 84
  <2>1. g \in Nat /\ g >= 1 /\ 84 * (g - 1) \in Nat /\ 84 * (g - 1) + 84 = 84 * g
        /\ 84 * g <= 84 * G /\ 84 * (g - 1) < n
    BY <1>2
  <2> QED BY <2>1 DEF Told
<1>5. \A g \in 0 .. G : Told(n, g) \in Nat /\ Told(n, g) <= n
  BY <1>2 DEF Told
<1> QED BY <1>2, <1>3, <1>4, <1>5 DEF G

Portion(ds, g) == Slice(ds, 84 * (g - 1), Told(Len(ds), g))

\* The place of the g-th group ends at 3 bytes for each header and each descriptor.
Place(n, g) == 3 * g + 3 * Told(n, g)

\* The triplets of one group and where it begins.
LEMMA PortionIs ==
  ASSUME NEW ds \in Seq(Triplets), NEW g \in 1 .. (Len(ds) + 83) \div 84
  PROVE  /\ Portion(ds, g) \in Seq(Triplets) /\ Len(Portion(ds, g)) \in 1 .. 84
         /\ Place(Len(ds), g - 1) \in Nat
         /\ Place(Len(ds), g) = Place(Len(ds), g - 1) + 3 + 3 * Len(Portion(ds, g))
<1> DEFINE n == Len(ds)
           a == 84 * (g - 1)
           b == Told(n, g)
<1>1. n \in Nat /\ g \in Nat
  BY GroupsCover
<1>2. a \in Nat /\ b \in Nat /\ b <= n /\ b - a \in 1 .. 84 /\ Told(n, g - 1) = a
  BY <1>1, GroupsCover
<1> HIDE DEF n, a, b
<1>3. a <= b
  BY <1>2
<1>4. Slice(ds, a, b) \in Seq(Triplets) /\ Len(Slice(ds, a, b)) = b - a
  BY <1>2, <1>3, SliceParts DEF n
<1>5. Place(n, g - 1) = 3 * (g - 1) + 3 * a /\ Place(n, g) = 3 * g + 3 * b
  BY <1>2 DEF Place, b
<1>6. g >= 1
  BY <1>1
<1>7. Place(n, g - 1) \in Nat /\ Place(n, g) = Place(n, g - 1) + 3 + 3 * (b - a)
  BY <1>1, <1>2, <1>5, <1>6
<1>8. Portion(ds, g) = Slice(ds, a, b)
  BY DEF Portion, n, a, b
<1> QED BY <1>2, <1>4, <1>7, <1>8 DEF n

\* FDODSC is the groups, one behind the other, and the end.
LEMMA GroupsJoined ==
  ASSUME NEW ds \in Seq(Triplets)
  PROVE  LET n == Len(ds)
             G == (n + 83) \div 84
         IN /\ FDODSC(ds) \in Seq(Nat) /\ Len(FDODSC(ds)) = Place(n, G) + 6
            /\ Place(n, G) \in Nat
            /\ \A g \in 1 .. G : /\ Place(n, g) <= Place(n, G)
                                 /\ Slice(FDODSC(ds), Place(n, g - 1), Place(n, g))
                                      = GroupBytes(Portion(ds, g))
            /\ \A k \in 1 .. 6 : FDODSC(ds)[Place(n, G) + k] = Closer[k]
<1> DEFINE n == Len(ds)
           G == (n + 83) \div 84
           pieces == [g \in 1 .. G |-> GroupBytes(Portion(ds, g))]
           off == [g \in 0 .. G |-> Place(n, g)]
           F == FlattenSeq(pieces)
<1>1. n \in Nat /\ G \in Nat /\ Told(n, 0) = 0
  BY GroupsCover
<1>2. \A g \in 1 .. G : /\ Portion(ds, g) \in Seq(Triplets) /\ Len(Portion(ds, g)) \in 1 .. 84
                        /\ Place(n, g) = Place(n, g - 1) + 3 + 3 * Len(Portion(ds, g))
  BY PortionIs
<1> HIDE DEF n, G
<1>3. \A g \in 1 .. G : /\ GroupBytes(Portion(ds, g)) \in Seq(Nat)
                        /\ Len(GroupBytes(Portion(ds, g))) = 3 + 3 * Len(Portion(ds, g))
  BY <1>2, GroupIs
<1>4. /\ pieces \in Seq(Seq(Nat)) /\ Len(pieces) = G
      /\ \A g \in 1 .. G : pieces[g] = GroupBytes(Portion(ds, g))
  BY <1>1, <1>3
<1> HIDE DEF pieces
<1>5. off[0] = 0 /\ \A g \in 1 .. Len(pieces) : off[g] = off[g - 1] + Len(pieces[g])
  <2>1. off[0] = 0
    BY <1>1 DEF Place
  <2>2. ASSUME NEW g \in 1 .. G PROVE off[g] = off[g - 1] + Len(pieces[g])
    <3>1. g \in 0 .. G /\ g - 1 \in 0 .. G
      BY <1>1
    <3>2. off[g] = Place(n, g) /\ off[g - 1] = Place(n, g - 1)
      BY <3>1
    <3>3. Place(n, g - 1) \in Nat /\ Len(Portion(ds, g)) \in Nat
      BY PortionIs DEF n, G
    <3>4. Len(pieces[g]) = 3 + 3 * Len(Portion(ds, g))
      BY <1>3, <1>4
    <3>5. Place(n, g) = Place(n, g - 1) + 3 + 3 * Len(Portion(ds, g))
      BY <1>2
    <3> HIDE DEF off
    <3> QED BY <3>2, <3>3, <3>4, <3>5
  <2> QED BY <2>1, <2>2, <1>4
<1> HIDE DEF off, F
<1>6. /\ F \in Seq(Nat) /\ Len(F) = off[G]
      /\ \A i \in 0 .. G : off[i] \in Nat /\ off[i] <= off[G]
      /\ \A i \in 1 .. G : Slice(F, off[i - 1], off[i]) = pieces[i]
  <2>1. /\ F \in Seq(Nat) /\ Len(F) = off[Len(pieces)]
        /\ \A i \in 0 .. Len(pieces) : off[i] \in Nat /\ off[i] <= off[Len(pieces)]
        /\ \A i \in 1 .. Len(pieces) : Slice(F, off[i - 1], off[i]) = pieces[i]
    BY <1>4, <1>5, FlattenSlices, SMTT(60) DEF F
  <2> QED BY <2>1, <1>4
<1>7. FDODSC(ds) = F \o Closer
  <2>1. ASSUME NEW g \in 1 .. G
        PROVE  SubSeq(ds, 84 * (g - 1) + 1, Min({84 * g, Len(ds)})) = Portion(ds, g)
    <3>1. 84 * g \in Nat
      BY <1>1
    <3>2. Min({84 * g, n}) = Told(n, g)
      BY <3>1, <1>1, MinOfTwo DEF Told
    <3> QED BY <3>2 DEF Portion, Slice, n
  <2>2. pieces = [g \in 1 .. G |-> GroupBytes(SubSeq(ds, 84 * (g - 1) + 1, Min({84 * g, Len(ds)})))]
    BY <2>1 DEF pieces
  <2> QED BY <2>2 DEF FDODSC, F, GroupBytes, Closer, G, n
<1>8. \A g \in 0 .. G : off[g] = Place(n, g)
  BY DEF off
<1> DEFINE C == Closer
<1>9. C \in Seq(Nat) /\ Len(C) = 6
  BY DEF Closer
<1> HIDE DEF C
<1>10. FDODSC(ds) \in Seq(Nat) /\ Len(FDODSC(ds)) = Len(F) + 6
       /\ \A k \in 1 .. 6 : FDODSC(ds)[Len(F) + k] = C[k]
  <2>1. F \in Seq(Nat)
    BY <1>6
  <2>2. /\ F \o C \in Seq(Nat) /\ Len(F \o C) = Len(F) + 6
        /\ \A k \in 1 .. 6 : (F \o C)[Len(F) + k] = C[k]
    <3>1. /\ F \o C \in Seq(Nat) /\ Len(F \o C) = Len(F) + Len(C)
          /\ \A k \in 1 .. Len(C) : (F \o C)[Len(F) + k] = C[k]
      <4>1. C \in Seq(Nat)
        BY <1>9
      <4> QED BY ONLY <2>1, <4>1, JoinTail
    <3> QED BY <3>1, <1>9
  <2> QED BY <2>2, <1>7 DEF C
<1>11. ASSUME NEW g \in 1 .. G
       PROVE  /\ Place(n, g) <= Place(n, G)
              /\ Slice(FDODSC(ds), Place(n, g - 1), Place(n, g)) = GroupBytes(Portion(ds, g))
  <2>1. g \in 0 .. G /\ g - 1 \in 0 .. G /\ G \in 0 .. G
    BY <1>1
  <2> DEFINE a == off[g - 1]
             b == off[g]
  <2>2. a \in Nat /\ b \in Nat /\ b <= Len(F) /\ F \in Seq(Nat) /\ Slice(F, a, b) = pieces[g]
    BY <2>1, <1>6
  <2>3. a <= b
    <3>1. Len(pieces[g]) \in Nat /\ b = a + Len(pieces[g])
      BY <1>3, <1>4, <1>5
    <3> HIDE DEF a, b
    <3> QED BY <3>1, <2>2
  <2> HIDE DEF a, b
  <2>4. Slice(F \o C, a, b) = Slice(F, a, b)
    BY ONLY <2>2, <2>3, <1>9, SliceFirst
  <2> QED BY <2>1, <2>2, <2>4, <1>4, <1>6, <1>7, <1>8 DEF a, b, C
<1>12. Place(n, G) = Len(F) /\ Len(F) \in Nat
  BY <1>1, <1>6, <1>8
<1> QED BY <1>10, <1>11, <1>12 DEF n, G, C

\* However many parameters a statement has, the server reads from the descriptors what
\* the client has written into them: no length of a group overflows its byte, and none
\* of the groups of 84 loses or repeats a descriptor (BuildSQLDTA, codec/encoders.go).
THEOREM DescriptorsRead ==
  ASSUME NEW ds \in Seq(Triplets)
  PROVE  FieldsOf(FDODSC(ds)) = ds
<1> DEFINE n == Len(ds)
           G == (n + 83) \div 84
           dsc == FDODSC(ds)
           P(g) == Place(n, g)
           E(g) == Told(n, g)
<1>1. n \in Nat /\ G \in Nat /\ E(0) = 0 /\ E(G) = n /\ \A g \in 0 .. G : E(g) \in Nat /\ E(g) <= n
  BY GroupsCover
<1>2. /\ dsc \in Seq(Nat) /\ Len(dsc) = P(G) + 6 /\ P(G) \in Nat
      /\ \A g \in 1 .. G : /\ P(g) <= P(G)
                           /\ Slice(dsc, P(g - 1), P(g)) = GroupBytes(Portion(ds, g))
      /\ \A k \in 1 .. 6 : dsc[P(G) + k] = Closer[k]
  BY GroupsJoined
<1>3. PICK f : /\ FieldsOf(dsc) = f[1]
               /\ \A pos \in 1 .. Len(dsc) + 1 : f[pos] = FieldsAt(dsc, f, pos)
  BY <1>2, FieldsRun
<1> DEFINE Read == {k \in 0 .. G : f[P(G - k) + 1] = Slice(ds, E(G - k), n)}
<1>4. 0 \in Read
  <2> DEFINE a == P(G)
  <2>1. a \in Nat /\ Len(dsc) = a + 6 /\ \A k \in 1 .. 6 : dsc[a + k] = Closer[k]
    BY <1>2
  <2> HIDE DEF a, dsc, n
  <2>2. FieldsAt(dsc, f, a + 1) = <<>> \o f[a + 7] /\ FieldsAt(dsc, f, a + 7) = <<>>
    BY <2>1, <1>2, CloserRead
  <2>3. a + 1 \in 1 .. Len(dsc) + 1 /\ a + 7 \in 1 .. Len(dsc) + 1
    BY <2>1
  <2>4. f[a + 1] = <<>> \o <<>>
    BY <2>2, <2>3, <1>3
  <2>5. Slice(ds, n, n) = <<>>
    BY <1>1, SliceEmpty
  <2>6. f[a + 1] = <<>>
    BY <2>4
  <2>7. G - 0 = G
    BY <1>1
  <2> QED BY <2>5, <2>6, <2>7, <1>1 DEF a
<1>5. ASSUME NEW k \in 1 .. G, k - 1 \in Read PROVE k \in Read
  <2> DEFINE g == G - k + 1
             ts == Portion(ds, g)
             a == P(g - 1)
             b == P(g)
  <2>1. /\ g \in 1 .. G /\ g - 1 = G - k /\ G - (k - 1) = g
        /\ g - 1 \in 0 .. G /\ g \in 0 .. G /\ k \in 0 .. G
    BY <1>1
  <2>2. /\ ts \in Seq(Triplets) /\ Len(ts) \in 1 .. 84 /\ a \in Nat /\ b = a + 3 + 3 * Len(ts)
    BY <2>1, PortionIs
  <2>3. Slice(dsc, a, b) = GroupBytes(ts) /\ b <= P(G)
    BY <2>1, <1>2, ZenonT(60)
  <2> DEFINE s == 84 * (g - 1)
             e == E(g)
  <2>4. s \in Nat /\ E(g - 1) = s /\ e \in Nat /\ e <= n /\ e - s \in 1 .. 84
    <3> HIDE DEF g
    <3> QED BY <2>1, <1>1, GroupsCover
  <2>5. ts = Slice(ds, s, e)
    BY DEF Portion
  <2>6. f[b + 1] = Slice(ds, e, n)
    BY <1>5, <2>1
  <2> HIDE DEF g, ts, a, b, s, e, dsc, n
  <2>7. FieldsAt(dsc, f, a + 1) = ts \o f[b + 1]
    <3>1. a + 3 + 3 * Len(ts) <= Len(dsc)
      BY <2>2, <2>3, <1>2, SMTT(60)
    <3>2. Slice(dsc, a, a + 3 + 3 * Len(ts)) = GroupBytes(ts)
      BY <2>2, <2>3
    <3>3. FieldsAt(dsc, f, a + 1) = ts \o f[a + 3 + 3 * Len(ts) + 1]
      <4>1. dsc \in Seq(Nat)
        BY <1>2
      <4> QED BY ONLY <3>1, <3>2, <2>2, <4>1, GroupRead
    <3> QED BY <3>3, <2>2
  <2>8. a + 1 \in 1 .. Len(dsc) + 1
    <3>1. Len(ts) \in Nat
      BY <2>2
    <3> DEFINE l == Len(dsc)
               last == P(G)
    <3>2. l = last + 6 /\ last \in Nat /\ b <= last /\ b = a + 3 + 3 * Len(ts)
      BY <2>2, <2>3, <1>2
    <3> HIDE DEF l, last
    <3>3. a + 1 \in 1 .. l + 1
      BY <3>1, <3>2, <2>2
    <3> QED BY <3>3 DEF l
  <2>9. Slice(ds, s, e) \o Slice(ds, e, n) = Slice(ds, s, n)
    <3>1. s <= e
      BY <2>4
    <3>2. n <= Len(ds)
      BY <1>1 DEF n
    <3> QED BY <2>4, <3>1, <3>2, <1>1, SliceJoin
  <2>10. f[a + 1] = Slice(ds, s, n)
    BY <2>5, <2>6, <2>7, <2>8, <2>9, <1>3
  <2> QED BY <2>1, <2>4, <2>10 DEF a
<1>6. \A k \in 0 .. G : k \in Read
  <2> HIDE DEF Read, G
  <2> QED BY <1>1, <1>4, <1>5, InductionUpTo
<1>7. f[P(0) + 1] = Slice(ds, 0, n)
  <2>1. G \in 0 .. G /\ G - G = 0
    BY <1>1
  <2> HIDE DEF G, n
  <2> QED BY <2>1, <1>1, <1>6
<1>8. P(0) + 1 = 1
  BY <1>1 DEF Place
<1>9. Slice(ds, 0, n) = ds
  BY SliceWhole
<1> QED BY <1>3, <1>7, <1>8, <1>9

\* A text with literals for some of its markers.
Replaced(txt, K) == [p \in DOMAIN txt |-> IF p \in K THEN Literal ELSE txt[p]]

\* What a literal does not touch: where tokens begin and end.
LEMMA ReplacedAt ==
  ASSUME NEW txt \in Seq(Characters), NEW K \in SUBSET Markers(txt)
  PROVE  LET new == Replaced(txt, K)
         IN /\ new \in Seq(Characters \cup {Literal})
            /\ Len(new) = Len(txt) /\ DOMAIN new = DOMAIN txt
            /\ \A p \in 1 .. Len(txt) : \A ch \in Characters \ {"?"} : new[p] = ch <=> txt[p] = ch
            /\ \A p \in 1 .. Len(txt) : new[p] = IF p \in K THEN Literal ELSE txt[p]
<1> DEFINE new == Replaced(txt, K)
           n == Len(txt)
           L == Characters \cup {Literal}
<1>1. n \in Nat /\ DOMAIN txt = 1 .. n /\ \A p \in 1 .. n : txt[p] \in Characters
  OBVIOUS
<1>2. new = [p \in 1 .. n |-> IF p \in K THEN Literal ELSE txt[p]]
  BY <1>1 DEF Replaced
<1>3. \A p \in 1 .. n : new[p] \in L
  BY <1>1, <1>2
<1>4. new \in [1 .. n -> L]
  BY <1>2, <1>3
<1> HIDE DEF L
<1>5. new \in Seq(L) /\ Len(new) = n /\ DOMAIN new = 1 .. n
  BY <1>1, <1>4
<1>6. \A p \in K : txt[p] = "?"
  BY DEF Markers
<1>7. \A p \in 1 .. n : \A ch \in Characters \ {"?"} : new[p] = ch <=> txt[p] = ch
  BY <1>2, <1>6, CharactersDiffer
<1> HIDE DEF new
<1> QED BY <1>1, <1>2, <1>5, <1>7 DEF L, new

\* A token ends where it did before a literal came into the text.
LEMMA EndsSame ==
  ASSUME NEW txt \in Seq(Characters), NEW K \in SUBSET Markers(txt), NEW i \in 1 .. Len(txt)
  PROVE  TokenEnd(Replaced(txt, K), i) = TokenEnd(txt, i)
<1> DEFINE new == Replaced(txt, K)
           n == Len(txt)
           C == Characters \ {"?"}
<1>1. /\ Len(new) = n /\ n \in Nat
      /\ \A p \in 1 .. n : \A ch \in C : new[p] = ch <=> txt[p] = ch
  BY ReplacedAt
<1> HIDE DEF new, n
<1>2. Quotes \subseteq C /\ {"-", "/", "*", "newline"} \subseteq C
  BY DEF Quotes, Characters
<1> HIDE DEF C
<1>3. \A j \in 1 .. n, a \in C, b \in C : Pair(new, j, a, b) <=> Pair(txt, j, a, b)
  <2> TAKE j \in 1 .. n, a \in C, b \in C
  <2>1. j < n => j + 1 \in 1 .. n
    BY <1>1
  <2> QED BY <2>1, <1>1 DEF Pair, n
<1>4. (new[i] \in Quotes <=> txt[i] \in Quotes) /\ (txt[i] \in Quotes => new[i] = txt[i])
  <2>1. i \in 1 .. n
    BY DEF n
  <2> QED BY <2>1, <1>1, <1>2
<1>5. ASSUME txt[i] \in Quotes
      PROVE  \A j \in i + 1 .. n : ClosesAt(new, i, j) <=> ClosesAt(txt, i, j)
  <2> TAKE j \in i + 1 .. n
  <2>1. i \in 1 .. n /\ j \in 1 .. n /\ \A h \in i .. j : h \in 1 .. n
    BY <1>1 DEF n
  <2>2. new[i] = txt[i] /\ txt[i] \in C
    BY <1>4, <1>5, <1>2
  <2>3. \A h \in i .. j : new[h] = new[i] <=> txt[h] = txt[i]
    BY <2>1, <2>2, <1>1
  <2>4. QuotesTo(new, i, j) = QuotesTo(txt, i, j)
    <3>1. {h \in i .. j : new[h] = new[i]} = {h \in i .. j : txt[h] = txt[i]}
      BY <2>3
    <3> QED BY <3>1 DEF QuotesTo, Quantify
  <2>5. Pair(new, j, new[i], new[i]) <=> Pair(txt, j, txt[i], txt[i])
    BY <2>1, <2>2, <1>3
  <2>6. new[j] = new[i] <=> txt[j] = txt[i]
    <3>1. j \in i .. j
      BY <2>1
    <3> QED BY <3>1, <2>3
  <2> QED BY <2>4, <2>5, <2>6 DEF ClosesAt
<1> DEFINE P1(t) == {j \in i + 1 .. n : ClosesAt(t, i, j)}
           P2(t) == {j \in i + 2 .. n : t[j] = "newline"}
           P3(t) == {j + 1 : j \in {h \in i + 2 .. n : Pair(t, h, "*", "/")}}
           End(t) == CASE t[i] \in Quotes -> FirstOf(P1(t), t)
                       [] Pair(t, i, "-", "-") -> FirstOf(P2(t), t)
                       [] Pair(t, i, "/", "*") -> FirstOf(P3(t), t)
                       [] OTHER -> i
<1>6. TokenEnd(txt, i) = End(txt) /\ TokenEnd(new, i) = End(new)
  BY <1>1 DEF TokenEnd, Pair, ClosesAt, QuotesTo, n
<1>7. \A j \in i + 2 .. n : j \in 1 .. n
  BY <1>1 DEF n
<1>8. txt[i] \in Quotes => P1(new) = P1(txt)
  BY <1>5
<1>9. P2(new) = P2(txt)
  BY <1>1, <1>2, <1>7
<1>10. P3(new) = P3(txt)
  <2>1. {h \in i + 2 .. n : Pair(new, h, "*", "/")} = {h \in i + 2 .. n : Pair(txt, h, "*", "/")}
    BY <1>2, <1>3, <1>7
  <2> QED BY <2>1
<1>11. /\ Pair(new, i, "-", "-") <=> Pair(txt, i, "-", "-")
       /\ Pair(new, i, "/", "*") <=> Pair(txt, i, "/", "*")
  BY <1>2, <1>3 DEF n
<1>12. \A P : FirstOf(P, new) = FirstOf(P, txt)
  BY <1>1 DEF FirstOf, n
<1>13. Pair(txt, i, "-", "-") => txt[i] \notin Quotes /\ ~ Pair(txt, i, "/", "*")
  BY DEF Pair, Quotes
<1>14. Pair(txt, i, "/", "*") => txt[i] \notin Quotes
  BY DEF Pair, Quotes
<1> HIDE DEF P1, P2, P3
<1>15. End(new) = End(txt)
  <2>1. CASE txt[i] \in Quotes
    BY <2>1, <1>4, <1>8, <1>11, <1>12, <1>13, <1>14
  <2>2. CASE Pair(txt, i, "-", "-")
    BY <2>2, <1>4, <1>9, <1>11, <1>12, <1>13, <1>14
  <2>3. CASE Pair(txt, i, "/", "*")
    BY <2>3, <1>4, <1>10, <1>11, <1>12, <1>13, <1>14
  <2>4. CASE txt[i] \notin Quotes /\ ~ Pair(txt, i, "-", "-") /\ ~ Pair(txt, i, "/", "*")
    BY <2>4, <1>4, <1>11
  <2> QED BY <2>1, <2>2, <2>3, <2>4
<1> QED BY <1>6, <1>15 DEF new

\* The places where tokens begin follow from where they end.
LEMMA StartsUnique ==
  ASSUME NEW n \in Nat, NEW E, NEW T, NEW U, \A m \in 1 .. n : E[m] \in m .. n,
         T \subseteq 1 .. n, n > 0 => 1 \in T, \A m \in T : E[m] < n => E[m] + 1 \in T,
         \A m \in T, j \in 1 .. n : m < j /\ j <= E[m] => j \notin T,
         U \subseteq 1 .. n, n > 0 => 1 \in U, \A m \in U : E[m] < n => E[m] + 1 \in U,
         \A m \in U, j \in 1 .. n : m < j /\ j <= E[m] => j \notin U
  PROVE  T = U
<1> DEFINE Same == {k \in 0 .. n : T \cap (1 .. k) = U \cap (1 .. k)}
<1>1. 0 \in Same
  OBVIOUS
<1>2. ASSUME NEW k \in 1 .. n, k - 1 \in Same PROVE k \in Same
  <2> DEFINE V == T \cap (1 .. k - 1)
  <2>0. k \in Nat /\ k \in 0 .. n /\ V = U \cap (1 .. k - 1) /\ 1 .. k = (1 .. k - 1) \cup {k}
    BY <1>2
  <2>1. k \in T <=> k \in U
    <3>1. CASE k = 1
      BY <3>1
    <3>2. CASE k # 1
      <4>1. 1 \in V /\ k - 1 \in Nat /\ V \subseteq 1 .. k - 1 /\ V # {}
        BY <3>2, <2>0
      <4> DEFINE m == Max(V)
      <4>2. m \in V /\ \A y \in V : m >= y
        <5> HIDE DEF V
        <5> QED BY <4>1, MaxOf
      <4>3. m \in T /\ m \in U /\ m \in 1 .. n /\ m < k /\ E[m] \in m .. n
        BY <4>2, <2>0
      <4> HIDE DEF m
      <4>4. E[m] >= k - 1
        <5> SUFFICES ASSUME E[m] < k - 1 PROVE FALSE
          BY <4>3, <2>0
        <5>1. E[m] + 1 \in T /\ E[m] + 1 \in 1 .. k - 1
          BY <4>3, <2>0
        <5>2. E[m] + 1 \in V /\ ~ (m >= E[m] + 1)
          BY <5>1, <4>3
        <5> HIDE DEF V
        <5> QED BY <5>2, <4>2
      <4>5. CASE E[m] >= k
        BY <4>5, <4>3
      <4>6. CASE E[m] = k - 1
        <5>1. E[m] < n /\ E[m] + 1 = k
          BY <4>6, <2>0
        <5> QED BY <5>1, <4>3
      <4> QED BY <4>3, <4>4, <4>5, <4>6, <2>0
    <3> QED BY <3>1, <3>2
  <2>2. T \cap (1 .. k) = U \cap (1 .. k)
    BY <2>0, <2>1
  <2> QED BY <2>0, <2>2
<1>3. \A k \in 0 .. n : k \in Same
  <2> HIDE DEF Same
  <2> QED BY <1>1, <1>2, InductionUpTo
<1>4. T \cap (1 .. n) = U \cap (1 .. n)
  BY <1>3
<1> QED BY <1>4

\* The tokens of a text with literals begin where those of the text do.
LEMMA TokensSame ==
  ASSUME NEW txt \in Seq(Characters), NEW K \in SUBSET Markers(txt)
  PROVE  TokenStarts(Replaced(txt, K)) = TokenStarts(txt)
<1> DEFINE new == Replaced(txt, K)
           n == Len(txt)
           T == TokenStarts(txt)
           U == TokenStarts(new)
           E == [i \in 1 .. n |-> TokenEnd(txt, i)]
<1>1. new \in Seq(Characters \cup {Literal}) /\ Len(new) = n /\ n \in Nat
  BY ReplacedAt
<1>2. \A m \in 1 .. n : E[m] = TokenEnd(txt, m) /\ E[m] = TokenEnd(new, m) /\ E[m] \in m .. n
  BY EndsSame, TokenEnds
<1>3. /\ T \subseteq 1 .. n /\ (n > 0 => 1 \in T)
      /\ \A m \in T : TokenEnd(txt, m) < n => TokenEnd(txt, m) + 1 \in T
      /\ \A m \in T, j \in 1 .. n : m < j /\ j <= TokenEnd(txt, m) => j \notin T
  BY TokensCover
<1>4. /\ U \subseteq 1 .. Len(new) /\ (Len(new) > 0 => 1 \in U)
      /\ \A m \in U : TokenEnd(new, m) < Len(new) => TokenEnd(new, m) + 1 \in U
      /\ \A m \in U, j \in 1 .. Len(new) : m < j /\ j <= TokenEnd(new, m) => j \notin U
  <2> HIDE DEF new
  <2> QED BY <1>1, TokensCover
<1> HIDE DEF new, n, T, U, E
<1>5. /\ T \subseteq 1 .. n /\ (n > 0 => 1 \in T)
      /\ \A m \in T : E[m] < n => E[m] + 1 \in T
      /\ \A m \in T, j \in 1 .. n : m < j /\ j <= E[m] => j \notin T
  BY <1>2, <1>3
<1>6. /\ U \subseteq 1 .. n /\ (n > 0 => 1 \in U)
      /\ \A m \in U : E[m] < n => E[m] + 1 \in U
      /\ \A m \in U, j \in 1 .. n : m < j /\ j <= E[m] => j \notin U
  BY <1>1, <1>2, <1>4
<1>7. T = U
  BY <1>1, <1>2, <1>5, <1>6, StartsUnique
<1> QED BY <1>7 DEF T, U, new

\* The markers that are left, and the places that take a value.
LEMMA PlacesSame ==
  ASSUME NEW txt \in Seq(Characters), NEW K \in SUBSET Markers(txt)
  PROVE  LET new == Replaced(txt, K)
             M == Markers(txt)
         IN /\ M \subseteq 1 .. Len(txt)
            /\ Markers(new) = M \ K /\ ValuePlaces(new) = M
            /\ \A p \in M : new[p] = Literal <=> p \in K
<1> DEFINE new == Replaced(txt, K)
           M == Markers(txt)
           n == Len(txt)
           T == TokenStarts(txt)
<1>1. /\ \A p \in 1 .. n : new[p] = IF p \in K THEN Literal ELSE txt[p]
      /\ TokenStarts(new) = T
  BY ReplacedAt, TokensSame
<1>2. T \subseteq 1 .. n /\ M = {p \in T : txt[p] = "?"}
  BY TokensCover DEF Markers
<1>3. \A p \in 1 .. n : txt[p] \in Characters
  OBVIOUS
<1>4. \A p \in 1 .. n : txt[p] # Literal
  BY <1>3, CharactersDiffer
<1>5. K \subseteq M
  OBVIOUS
<1> HIDE DEF new, M, n, T
<1>6. Literal # "?"
  BY CharactersDiffer
<1>7. Markers(new) = M \ K
  <2>1. \A p \in T : new[p] = "?" <=> (p \in M /\ p \notin K)
    BY <1>1, <1>2, <1>6
  <2> QED BY <2>1, <1>1, <1>2 DEF Markers
<1>8. ValuePlaces(new) = M
  <2>1. \A p \in T : new[p] \in {"?", Literal} <=> p \in M
    BY <1>1, <1>2, <1>4, <1>5
  <2> QED BY <2>1, <1>1, <1>2 DEF ValuePlaces
<1>9. \A p \in M : new[p] = Literal <=> p \in K
  BY <1>1, <1>2, <1>4
<1> QED BY <1>2, <1>7, <1>8, <1>9 DEF new, M, n

\* Positions split in two are counted in two.
Splits(M, K, p) ==
  /\ Rank(M, p) = Rank(K, p) + Rank(M \ K, p)
  /\ Rank(K, p) \in Nat /\ Rank(M \ K, p) \in Nat
  /\ Cardinality(M) = Cardinality(K) + Cardinality(M \ K)
  /\ Cardinality(K) \in Nat /\ Cardinality(M \ K) \in Nat

\* Counting is additive over such a split.
LEMMA RanksSplit ==
  ASSUME NEW n \in Nat, NEW M, M \subseteq 1 .. n, NEW K, K \subseteq M, NEW p
  PROVE  Splits(M, K, p)
<1>1. IsFiniteSet(M)
  BY Ranks
<1>2. ASSUME NEW A \in SUBSET M, NEW B \in SUBSET M, A \cap B = {}
      PROVE  Cardinality(A \cup B) = Cardinality(A) + Cardinality(B)
             /\ Cardinality(A) \in Nat /\ Cardinality(B) \in Nat
  <2>1. IsFiniteSet(A) /\ IsFiniteSet(B)
    BY <1>1, FS_Subset
  <2>2. Cardinality(A) \in Nat /\ Cardinality(B) \in Nat
    BY <2>1, FS_CardinalityType
  <2>3. Cardinality({}) = 0
    BY FS_EmptySet
  <2>4. Cardinality(A \cup B) = Cardinality(A) + Cardinality(B) - Cardinality(A \cap B)
    BY <2>1, FS_Union
  <2>5. Cardinality(A \cap B) = 0
    BY <2>3, <1>2
  <2> DEFINE u == Cardinality(A \cup B)
             a == Cardinality(A)
             b == Cardinality(B)
  <2>6. u = a + b - 0 /\ a \in Nat /\ b \in Nat
    BY <2>2, <2>4, <2>5
  <2> HIDE DEF u, a, b
  <2>7. u = a + b
    BY ONLY <2>6
  <2> QED BY <2>6, <2>7 DEF u, a, b
<1> DEFINE A == {j \in K : j <= p}
           B == {j \in M \ K : j <= p}
<1>3. A \in SUBSET M /\ B \in SUBSET M /\ A \cap B = {} /\ A \cup B = {j \in M : j <= p}
  OBVIOUS
<1>4. K \in SUBSET M /\ M \ K \in SUBSET M /\ K \cap (M \ K) = {} /\ K \cup (M \ K) = M
  OBVIOUS
<1> HIDE DEF A, B
<1>5. Cardinality(A \cup B) = Cardinality(A) + Cardinality(B)
             /\ Cardinality(A) \in Nat /\ Cardinality(B) \in Nat
  BY <1>2, <1>3
<1>6. Cardinality(M) = Cardinality(K) + Cardinality(M \ K)
         /\ Cardinality(K) \in Nat /\ Cardinality(M \ K) \in Nat
  BY <1>2, <1>4
<1> QED BY <1>3, <1>5, <1>6 DEF A, B, Rank, Splits

\* A sequence of values, each of a known kind.
Kinded(s) == \E W : s \in Seq(W) /\ \A w \in W : w.kind \in Kinds

\* The row that the server binds: a value for each parameter.
LEMMA BoundWhole ==
  ASSUME NEW txt \in Seq(Characters), NEW K \in SUBSET Markers(txt),
         NEW literals, \A j \in 1 .. Cardinality(K) : literals[j].kind \in Kinds,
         NEW row, Kinded(row), Len(row) = MarkersLeft(Replaced(txt, K))
  PROVE  LET bound == Bound(Replaced(txt, K), literals, row)
         IN Kinded(bound) /\ Len(bound) = Cardinality(Markers(txt))
<1> DEFINE new == Replaced(txt, K)
           M == Markers(txt)
           n == Len(txt)
           c == Cardinality(M)
           bound == Bound(new, literals, row)
           Before(i) == Cardinality({j \in M : j <= i /\ new[j] = Literal})
           Taking(k, i) == IF new[i] = Literal THEN literals[Before(i)] ELSE row[k - Before(i)]
<1>1. /\ M \subseteq 1 .. n /\ n \in Nat /\ K \in SUBSET M
      /\ Markers(new) = M \ K /\ ValuePlaces(new) = M
      /\ \A p \in M : new[p] = Literal <=> p \in K
  BY PlacesSame
<1>2. bound = [k \in 1 .. c |-> Taking(k, Nth(M, k))]
  BY <1>1 DEF Bound
<1>3. Len(row) = Cardinality(M \ K)
  BY <1>1 DEF MarkersLeft
<1>4. PICK W : row \in Seq(W) /\ \A w \in W : w.kind \in Kinds
  BY DEF Kinded
<1> HIDE DEF M, n, bound, new
<1>5. c \in Nat /\ IsFiniteSet(M)
  BY <1>1, Ranks, FS_CardinalityType
<1>6. ASSUME NEW k \in 1 .. c PROVE Taking(k, Nth(M, k)).kind \in Kinds
  <2> DEFINE i == Nth(M, k)
  <2>1. i \in M /\ Rank(M, i) = k
    <3>1. M \subseteq 1 .. n /\ n \in Nat /\ k \in 1 .. Cardinality(M)
      BY <1>1
    <3> QED BY ONLY <3>1, NthRank
  <2>2. Before(i) = Rank(K, i)
    <3>1. \A j \in M : (j <= i /\ new[j] = Literal) <=> (j \in K /\ j <= i)
      BY <1>1
    <3>2. {j \in M : j <= i /\ new[j] = Literal} = {j \in K : j <= i}
      BY <3>1, <1>1
    <3> QED BY <3>2 DEF Rank
  <2>3. /\ k = Rank(K, i) + Rank(M \ K, i)
        /\ Rank(K, i) \in Nat /\ Rank(M \ K, i) \in Nat
    <3>1. M \subseteq 1 .. n /\ n \in Nat /\ K \subseteq M
      BY <1>1
    <3> HIDE DEF i
    <3>2. Splits(M, K, i)
      BY ONLY <3>1, RanksSplit
    <3>3. /\ Rank(M, i) = Rank(K, i) + Rank(M \ K, i)
          /\ Rank(K, i) \in Nat /\ Rank(M \ K, i) \in Nat
      BY <3>2 DEF Splits
    <3> QED BY <3>3, <2>1
  <2> HIDE DEF i, Before
  <2>4. CASE i \in K
    <3>1. K \subseteq 1 .. n
      BY <1>1
    <3>2. Rank(K, i) \in 1 .. Cardinality(K)
      BY <3>1, <2>4, <1>1, Ranks
    <3>3. new[i] = Literal
      BY <2>1, <2>4, <1>1
    <3> QED BY <3>2, <3>3, <2>2 DEF i
  <2>5. CASE i \notin K
    <3>1. M \ K \subseteq 1 .. n /\ i \in M \ K
      BY <1>1, <2>1, <2>5
    <3>2. Rank(M \ K, i) \in 1 .. Cardinality(M \ K)
      BY <3>1, <1>1, Ranks
    <3>3. new[i] # Literal
      BY <2>1, <2>5, <1>1
    <3>4. k - Before(i) = Rank(M \ K, i)
      BY <2>2, <2>3
    <3>5. row[k - Before(i)] \in W
      BY <3>2, <3>4, <1>3, <1>4
    <3> QED BY <3>3, <3>5, <1>4 DEF i
  <2> QED BY <2>4, <2>5
<1> DEFINE V == {bound[k] : k \in 1 .. c}
<1>7. bound \in [1 .. c -> V] /\ \A v \in V : v.kind \in Kinds
  <2> HIDE DEF Before
  <2> QED BY <1>2, <1>6
<1> HIDE DEF c, V
<1>8. bound \in Seq(V) /\ Len(bound) = c
  BY <1>5, <1>7
<1>9. Kinded(bound)
  BY <1>7, <1>8 DEF Kinded
<1> QED BY <1>8, <1>9 DEF c, bound, new, M

\* DecodeField makes values of known kinds only.
LEMMA ContentsKind ==
  ASSUME NEW type, NEW ps, NEW bytes
  PROVE  Contents(type, ps, bytes).kind \in Kinds
<1>1. \A k, d : Value(k, d).kind = k
  BY DEF Value
<1>2. {"int", "float", "string", "bytes", "bool", "time"} \subseteq Kinds
  BY DEF Kinds, Ints
<1>3. \A b : ParsedTime(b).kind \in {"time", "string"}
  <2> TAKE b
  <2> QED BY <1>1 DEF ParsedTime
<1>4. TimeContents(type, bytes).kind \in Kinds
  BY <1>1, <1>2, <1>3 DEF TimeContents
<1>5. type \in IntData \cup {6, 7} \cup FloatData \cup BooleanData
        => BinaryContents(type, bytes).kind \in Kinds
  BY <1>1, <1>2 DEF BinaryContents
<1> QED BY <1>1, <1>2, <1>4, <1>5, ZenonT(60) DEF Contents

\* So does every field that is read.
LEMMA FieldKind ==
  ASSUME NEW field, NEW data, DecodeField(field, data).ok
  PROVE  DecodeField(field, data).value.kind \in Kinds
<1>1. Null.kind \in Kinds
  BY DEF Null, Value, Kinds
<1>2. \A a, b : [ok |-> TRUE, value |-> a, rest |-> b].value = a
  OBVIOUS
<1>3. ~ Refused.ok
  BY DEF Refused
<1>4. \/ DecodeField(field, data) = Refused
      \/ \E b : DecodeField(field, data) = [ok |-> TRUE, value |-> Null, rest |-> b]
      \/ \E t, p, x, b :
            DecodeField(field, data) = [ok |-> TRUE, value |-> Contents(t, p, x), rest |-> b]
  BY ZenonT(60) DEF DecodeField
<1> QED BY <1>1, <1>2, <1>3, <1>4, ContentsKind

\* DecodeFields, one field after the other.
Decoding(data) == [ok |-> TRUE, values |-> <<>>, rest |-> data]

\* One field more.
DecodeTurn(read, field) ==
  LET one == DecodeField(field, read.rest)
  IN IF ~ read.ok \/ read.rest = <<>> THEN read
     ELSE IF ~ one.ok THEN [read EXCEPT !.ok = FALSE]
     ELSE [read EXCEPT !.values = Append(@, one.value), !.rest = one.rest]

\* The fold that DecodeFields is, over the indices of the fields.
DecodeFold(fields, data, it, s) ==
  IF s = {} THEN Decoding(data) ELSE DecodeTurn(it[s \ {Max(s)}], fields[Max(s)])

\* Assigned, one argument after the other.
AssignTurn(targets, values, st, i) ==
  LET new == assignOutParam(st.dests[targets[i]], values[i])
  IN IF ~ st.ok \/ i \notin DOMAIN targets \/ i > Len(values) THEN st
     ELSE IF new = Refused THEN [st EXCEPT !.ok = FALSE]
     ELSE [st EXCEPT !.dests[targets[i]] = new]

\* Both are folds over indices: a job says what a turn does.
Turn(job, st, i) ==
  IF job.reads THEN DecodeTurn(st, job.fields[i]) ELSE AssignTurn(job.targets, job.values, st, i)

\* The values of such a fold over sets of indices.
JobFold(job, it, s) ==
  IF s = {} THEN job.start ELSE Turn(job, it[s \ {Max(s)}], Max(s))

\* The fold of the library is defined for every job.
LEMMA JobExists ==
  ASSUME NEW n \in Nat, NEW job
  PROVE  \E it : it = [s \in SUBSET (1 .. n) |-> JobFold(job, it, s)]
<1> DEFINE Defined(k, it) == it = [s \in SUBSET (1 .. k) |-> JobFold(job, it, s)]
           Done == {k \in 0 .. n : \E it : Defined(k, it)}
<1>1. 0 \in Done
  <2> DEFINE it == [s \in SUBSET (1 .. 0) |-> job.start]
  <2>1. \A s \in SUBSET (1 .. 0) : s = {}
    OBVIOUS
  <2>2. Defined(0, it)
    BY <2>1 DEF JobFold
  <2>3. 0 \in 0 .. n
    OBVIOUS
  <2> HIDE DEF Defined, it
  <2> QED BY <2>2, <2>3
<1>2. ASSUME NEW k \in 1 .. n, k - 1 \in Done PROVE k \in Done
  <2>1. PICK it : Defined(k - 1, it)
    BY <1>2
  <2> DEFINE g == [s \in SUBSET (1 .. k) |-> JobFold(job, it, s)]
  <2>2. \A s \in SUBSET (1 .. k - 1) : s \in SUBSET (1 .. k) /\ g[s] = it[s]
    <3>1. \A s \in SUBSET (1 .. k - 1) : s \in SUBSET (1 .. k)
      OBVIOUS
    <3>2. \A s \in SUBSET (1 .. k - 1) : it[s] = JobFold(job, it, s)
      BY <2>1
    <3> QED BY <3>1, <3>2
  <2>3. ASSUME NEW s \in SUBSET (1 .. k), s # {} PROVE s \ {Max(s)} \in SUBSET (1 .. k - 1)
    <3> DEFINE m == Max(s)
    <3>1. m \in s /\ \A y \in s : m >= y
      <4>1. k \in Nat /\ s \subseteq 1 .. k /\ s # {}
        BY <2>3
      <4> QED BY ONLY <4>1, MaxOf
    <3> HIDE DEF m
    <3>2. \A y \in s \ {m} : y \in 1 .. k - 1
      BY <3>1
    <3> QED BY <3>2 DEF m
  <2>4. \A s \in SUBSET (1 .. k) : JobFold(job, g, s) = JobFold(job, it, s)
    <3> TAKE s \in SUBSET (1 .. k)
    <3>1. CASE s = {}
      BY <3>1 DEF JobFold
    <3>2. CASE s # {}
      <4>1. g[s \ {Max(s)}] = it[s \ {Max(s)}]
        BY <3>2, <2>2, <2>3
      <4> HIDE DEF g
      <4> QED BY <4>1, <3>2 DEF JobFold
    <3> QED BY <3>1, <3>2
  <2>5. Defined(k, g)
    <3>1. \A s \in SUBSET (1 .. k) : g[s] = JobFold(job, g, s)
      BY <2>4
    <3>2. g = [s \in SUBSET (1 .. k) |-> g[s]]
      OBVIOUS
    <3> HIDE DEF g
    <3> QED BY <3>1, <3>2
  <2>6. k \in 0 .. n
    OBVIOUS
  <2> HIDE DEF Defined, g
  <2> QED BY <2>5, <2>6
<1>3. \A k \in 0 .. n : k \in Done
  <2> HIDE DEF Done
  <2> QED BY <1>1, <1>2, InductionUpTo
<1>4. n \in Done
  <2> HIDE DEF Done
  <2> QED BY <1>3
<1>5. \E it : Defined(n, it)
  <2> HIDE DEF Defined
  <2> QED BY <1>4
<1> QED BY <1>5

\* DecodeFields field by field.
LEMMA DecodeRun ==
  ASSUME NEW n \in Nat, NEW fields, DOMAIN fields = 1 .. n, NEW data
  PROVE  \E run : /\ run[0] = Decoding(data)
                  /\ \A k \in 1 .. n : run[k] = DecodeTurn(run[k - 1], fields[k])
                  /\ DecodeFields(fields, data) = run[n]
<1> DEFINE Def(it) == it = [s \in SUBSET DOMAIN fields |-> DecodeFold(fields, data, it, s)]
           it == CHOOSE g : Def(g)
           run == [k \in 0 .. n |-> it[1 .. k]]
<1>1. DecodeFields(fields, data) = it[DOMAIN fields]
  BY DEF DecodeFields, FoldLeft, MapThenFoldSet, DecodeFold, DecodeTurn, Decoding
<1>2. Def(it)
  <2> DEFINE job == [reads |-> TRUE, fields |-> fields, start |-> Decoding(data)]
  <2>1. \A g, s : JobFold(job, g, s) = DecodeFold(fields, data, g, s)
    BY DEF JobFold, Turn, DecodeFold
  <2> HIDE DEF job
  <2>2. PICK g : g = [s \in SUBSET (1 .. n) |-> JobFold(job, g, s)]
    BY JobExists
  <2>3. Def(g)
    BY <2>1, <2>2
  <2> HIDE DEF Def
  <2> QED BY <2>3
<1> HIDE DEF it
<1>3. \A s \in SUBSET (1 .. n) : it[s] = DecodeFold(fields, data, it, s)
  BY <1>2
<1>4. it[1 .. 0] = Decoding(data)
  <2>1. 1 .. 0 = {} /\ 1 .. 0 \in SUBSET (1 .. n)
    OBVIOUS
  <2> QED BY <2>1, <1>3 DEF DecodeFold
<1>5. ASSUME NEW k \in 1 .. n PROVE it[1 .. k] = DecodeTurn(it[1 .. k - 1], fields[k])
  <2> DEFINE t == 1 .. k
  <2>1. t \in SUBSET (1 .. n) /\ t # {} /\ Max(t) = k /\ t \ {k} = 1 .. k - 1
    BY RangeFolds
  <2> HIDE DEF t
  <2> QED BY <2>1, <1>3 DEF DecodeFold, t
<1>6. run[0] = Decoding(data) /\ run[n] = it[1 .. n]
  BY <1>4
<1>7. ASSUME NEW k \in 1 .. n PROVE run[k] = DecodeTurn(run[k - 1], fields[k])
  <2>1. k \in 0 .. n /\ k - 1 \in 0 .. n
    OBVIOUS
  <2> QED BY <2>1, <1>5
<1> HIDE DEF run
<1> QED BY <1>1, <1>6, <1>7

\* Whatever the bytes, each value that is read has a kind.
LEMMA DecodedKinds ==
  ASSUME NEW n \in Nat, NEW fields, DOMAIN fields = 1 .. n, NEW data
  PROVE  Kinded(DecodeFields(fields, data).values)
<1> DEFINE Shaped(read) == DOMAIN read = {"ok", "values", "rest"} /\ Kinded(read.values)
<1>1. PICK run : /\ run[0] = Decoding(data)
                 /\ \A k \in 1 .. n : run[k] = DecodeTurn(run[k - 1], fields[k])
                 /\ DecodeFields(fields, data) = run[n]
  BY DecodeRun
<1>2. Shaped(Decoding(data))
  <2>1. <<>> \in Seq({}) /\ \A w \in {} : w.kind \in Kinds
    OBVIOUS
  <2>2. Kinded(<<>>)
    BY <2>1 DEF Kinded
  <2> QED BY <2>2 DEF Decoding
<1>3. ASSUME NEW read, Shaped(read), NEW field PROVE Shaped(DecodeTurn(read, field))
  <2> DEFINE one == DecodeField(field, read.rest)
  <2>1. one.ok => Kinded(Append(read.values, one.value))
    <3> HAVE one.ok
    <3>1. one.value.kind \in Kinds
      BY FieldKind
    <3>2. PICK W : read.values \in Seq(W) /\ \A w \in W : w.kind \in Kinds
      BY <1>3 DEF Kinded
    <3> DEFINE x == one.value
               U == W \cup {x}
    <3> HIDE DEF x, one
    <3>3. Append(read.values, x) \in Seq(U)
      <4> DEFINE s == read.values
      <4>1. s \in Seq(W) /\ W \subseteq U /\ x \in U
        BY <3>2
      <4> HIDE DEF s, U
      <4>2. s \in Seq(U)
        BY ONLY <4>1
      <4> QED BY <4>1, <4>2 DEF s
    <3>4. \A w \in U : w.kind \in Kinds
      BY <3>1, <3>2 DEF x
    <3> HIDE DEF U
    <3> QED BY <3>3, <3>4 DEF Kinded, x
  <2>2. DecodeTurn(read, field) =
          IF ~ read.ok \/ read.rest = <<>> THEN read
          ELSE IF ~ one.ok THEN [read EXCEPT !.ok = FALSE]
          ELSE [read EXCEPT !.values = Append(read.values, one.value), !.rest = one.rest]
    BY DEF DecodeTurn
  <2> DEFINE more == Append(read.values, one.value)
             left == one.rest
  <2> HIDE DEF one, more, left
  <2>3. Shaped([read EXCEPT !.ok = FALSE])
    BY <1>3
  <2>4. Kinded(more) => Shaped([read EXCEPT !.values = more, !.rest = left])
    BY <1>3
  <2> QED BY <1>3, <2>1, <2>2, <2>3, <2>4 DEF more, left
<1> DEFINE Good == {k \in 0 .. n : Shaped(run[k])}
<1>4. 0 \in Good
  BY <1>1, <1>2
<1>5. ASSUME NEW k \in 1 .. n, k - 1 \in Good PROVE k \in Good
  <2>1. Shaped(run[k - 1])
    BY <1>5
  <2> HIDE DEF Shaped
  <2> QED BY <2>1, <1>1, <1>3
<1>6. \A k \in 0 .. n : k \in Good
  <2> HIDE DEF Good
  <2> QED BY <1>4, <1>5, InductionUpTo
<1> QED BY <1>1, <1>6

\* What PREPARE has described of a parameter.
Columns == [type : ColumnTypes, len : Nat, prec : Nat, scale : Nat]

\* The descriptor of a parameter has three bytes.
LEMMA DescriptorTriplet ==
  ASSUME NEW c \in Columns, NEW v
  PROVE  Descriptor(c, v) \in Triplets
<1>1. \A a \in Nat, b \in Nat, d \in Nat : <<a, b, d>> \in Triplets
  BY DEF Triplets
<1>2. \A a \in Nat, n \in Nat : <<a>> \o Word16(n) \in Triplets
  <2> TAKE a \in Nat, n \in Nat
  <2>1. (n \div 256) % 256 \in Nat /\ n % 256 \in Nat
    OBVIOUS
  <2> DEFINE x == (n \div 256) % 256
             y == n % 256
  <2>2. <<a>> \o Word16(n) = <<a>> \o <<x, y>>
    BY DEF Word16
  <2> HIDE DEF x, y
  <2>3. x \in Nat /\ y \in Nat
    BY <2>1 DEF x, y
  <2>4. <<a>> \in Seq(Nat) /\ Len(<<a>>) = 1 /\ <<x, y>> \in Seq(Nat) /\ Len(<<x, y>>) = 2
    BY <2>3
  <2> DEFINE first == <<a>>
             others == <<x, y>>
  <2> HIDE DEF first, others
  <2>5. first \o others \in Seq(Nat) /\ Len(first \o others) = 3
    BY <2>4, JoinTail DEF first, others
  <2> QED BY <2>2, <2>5 DEF Triplets, first, others
<1>3. c.type \in ColumnTypes /\ c.len \in Nat /\ c.prec \in Nat /\ c.scale \in Nat
  BY DEF Columns
<1>4. /\ NVarGraph \in Triplets /\ <<207, 128, 4>> \in Triplets /\ <<201, 128, 4>> \in Triplets
      /\ <<5, 0, 2>> \in Triplets /\ <<3, 0, 4>> \in Triplets /\ <<23, 0, 8>> \in Triplets
      /\ <<13, 0, 4>> \in Triplets /\ <<11, 0, 8>> \in Triplets /\ <<191, 0, 1>> \in Triplets
      /\ <<33, 0, 10>> \in Triplets /\ <<35, 0, 8>> \in Triplets /\ <<37, 0, 32>> \in Triplets
  BY <1>1 DEF NVarGraph
<1>5. /\ <<55>> \o Word16(c.len) \in Triplets /\ <<39>> \o Word16(c.len) \in Triplets
      /\ <<15, c.prec, c.scale>> \in Triplets
      /\ <<187, 0, IF c.len = 16 THEN 16 ELSE 8>> \in Triplets
  BY <1>1, <1>2, <1>3
<1>6. \/ c.type \in {"VARCHAR", "VARGRAPHIC", "LOCATOR", "VARBINARY", "XML", "LONG"}
      \/ c.type \in ClobTypes \/ c.type = "BLOB" \/ c.type = "SMALLINT" \/ c.type = "INTEGER"
      \/ c.type = "BIGINT" \/ c.type = "FLOAT" \/ c.type = "BOOLEAN" \/ c.type = "DATE"
      \/ c.type = "TIME" \/ c.type = "TIMESTAMP" \/ c.type = "GRAPHIC" \/ c.type = "BINARY"
      \/ c.type = "DECIMAL" \/ c.type = "DECFLOAT"
  BY <1>3 DEF ColumnTypes, CharTypes, NumberTypes, TimeTypes
<1> QED BY <1>4, <1>5, <1>6, Zenon DEF Descriptor

\* A row that the server has read by its descriptors: a value of some kind for each.
LEMMA RowRead ==
  ASSUME NEW ds \in Seq(Triplets), NEW sqldta, sqldta.ok, sqldta.dsc = FDODSC(ds),
         NEW row \in Readings(sqldta)
  PROVE  Kinded(row) /\ Len(row) = Len(ds)
<1> DEFINE read == DecodeFields(ds, sqldta.dta)
           large == {i \in DOMAIN read.values : ds[i][1] \in Objects /\ read.values[i] # Null}
           Which(i) == Cardinality({j \in large : j <= i})
           Filled(i) == IF i \in large THEN Value("bytes", Tail(sqldta.ext[Which(i)]))
                        ELSE read.values[i]
<1>1. FieldsOf(sqldta.dsc) = ds
  BY DescriptorsRead
<1>2. row \in ReadRows(ds, read, sqldta.ext)
  BY <1>1 DEF Readings
<1>3. Len(read.values) = Len(ds) /\ row \in WithObjects(ds, read.values, sqldta.ext)
  BY <1>2 DEF ReadRows
<1>4. row = [i \in DOMAIN read.values |-> Filled(i)]
  BY <1>3 DEF WithObjects
<1>5. Kinded(read.values)
  <2>1. DOMAIN ds = 1 .. Len(ds) /\ Len(ds) \in Nat
    OBVIOUS
  <2> QED BY <2>1, DecodedKinds
<1> DEFINE values == read.values
<1> HIDE DEF read, large
<1>6. PICK W : values \in Seq(W) /\ \A w \in W : w.kind \in Kinds
  BY <1>5 DEF Kinded
<1>7. /\ Len(values) \in Nat /\ DOMAIN values = 1 .. Len(values)
      /\ \A i \in 1 .. Len(values) : values[i] \in W
  BY <1>6
<1>8. \A i \in DOMAIN values : Filled(i).kind \in Kinds
  <2> TAKE i \in DOMAIN values
  <2>1. \A d : Value("bytes", d).kind \in Kinds
    BY DEF Value, Kinds
  <2>2. values[i].kind \in Kinds
    BY <1>6, <1>7
  <2> QED BY <2>1, <2>2
<1> DEFINE U == {Filled(i) : i \in DOMAIN values}
           n == Len(values)
<1>9. row = [i \in 1 .. n |-> row[i]] /\ \A i \in 1 .. n : row[i] = Filled(i)
  BY <1>4, <1>7
<1> HIDE DEF values, Filled
<1>10. \A i \in 1 .. n : row[i] \in U
  BY <1>7, <1>9
<1>11. \A w \in U : w.kind \in Kinds
  BY <1>8
<1> HIDE DEF U, n
<1>12. n \in Nat
  BY <1>7 DEF n
<1>13. row \in Seq(U) /\ Len(row) = n
  BY <1>9, <1>10, <1>12
<1> QED BY <1>3, <1>11, <1>13 DEF Kinded, n, values

\* An assignment that is not refused keeps the type of the destination.
LEMMA KindKept ==
  ASSUME NEW dest, NEW v, assignOutParam(dest, v) # Refused
  PROVE  assignOutParam(dest, v).kind = dest.kind
<1>1. \A k, d : Value(k, d).kind = k
  BY DEF Value
<1> QED BY <1>1, Zenon DEF assignOutParam

\* Assigned argument by argument.
Assigning(n, targets, values, run) ==
  /\ run[0] = [ok |-> TRUE, dests |-> dests]
  /\ \A k \in 1 .. n : run[k] = AssignTurn(targets, values, run[k - 1], k)
  /\ Assigned(targets, values) = run[n]

\* It is such a run.
LEMMA AssignRun ==
  ASSUME NEW n \in Nat, DOMAIN execution.args = 1 .. n, NEW targets, NEW values
  PROVE  \E run : Assigning(n, targets, values, run)
<1> DEFINE all == All(execution.args)
           start == [ok |-> TRUE, dests |-> dests]
           Def(it) == it = [s \in SUBSET DOMAIN all |->
                              IF s = {} THEN start
                              ELSE AssignTurn(targets, values, it[s \ {Max(s)}], all[Max(s)])]
           it == CHOOSE g : Def(g)
           run == [k \in 0 .. n |-> it[1 .. k]]
<1>0. DOMAIN all = 1 .. n /\ \A i \in 1 .. n : all[i] = i
  BY DEF All
<1>1. Assigned(targets, values) = it[DOMAIN all]
  BY DEF Assigned, FoldLeft, MapThenFoldSet, AssignTurn
<1> HIDE DEF all
<1>2. Def(it)
  <2> DEFINE job == [reads |-> FALSE, targets |-> targets, values |-> values, start |-> start]
  <2>1. ASSUME NEW g, NEW s \in SUBSET (1 .. n)
        PROVE  JobFold(job, g, s) = IF s = {} THEN start
                                    ELSE AssignTurn(targets, values, g[s \ {Max(s)}], all[Max(s)])
    <3>1. CASE s = {}
      BY <3>1 DEF JobFold
    <3>2. CASE s # {}
      <4>1. Max(s) \in 1 .. n
        <5>1. s \subseteq 1 .. n /\ s # {}
          BY <3>2
        <5>2. Max(s) \in s
          BY ONLY <5>1, n \in Nat, MaxOf
        <5> QED BY <5>2
      <4>2. all[Max(s)] = Max(s)
        BY <4>1, <1>0
      <4> QED BY <3>2, <4>2 DEF JobFold, Turn
    <3> QED BY <3>1, <3>2
  <2> HIDE DEF job, start
  <2>2. PICK g : g = [s \in SUBSET (1 .. n) |-> JobFold(job, g, s)]
    BY JobExists
  <2>3. Def(g)
    BY <2>1, <2>2, <1>0
  <2> HIDE DEF Def
  <2> QED BY <2>3
<1> HIDE DEF it, start
<1>3. \A s \in SUBSET (1 .. n) :
        it[s] = IF s = {} THEN start
                ELSE AssignTurn(targets, values, it[s \ {Max(s)}], all[Max(s)])
  BY <1>0, <1>2
<1>4. it[1 .. 0] = start
  <2>1. 1 .. 0 = {} /\ 1 .. 0 \in SUBSET (1 .. n)
    OBVIOUS
  <2> QED BY <2>1, <1>3
<1>5. ASSUME NEW k \in 1 .. n PROVE it[1 .. k] = AssignTurn(targets, values, it[1 .. k - 1], k)
  <2> DEFINE t == 1 .. k
  <2>1. t \in SUBSET (1 .. n) /\ t # {} /\ Max(t) = k /\ t \ {k} = 1 .. k - 1
    BY RangeFolds
  <2> HIDE DEF t
  <2>2. all[k] = k
    BY <1>0
  <2> QED BY <2>1, <2>2, <1>3 DEF t
<1>6. run[0] = start /\ run[n] = it[1 .. n]
  BY <1>4
<1>7. ASSUME NEW k \in 1 .. n PROVE run[k] = AssignTurn(targets, values, run[k - 1], k)
  <2>1. k \in 0 .. n /\ k - 1 \in 0 .. n
    OBVIOUS
  <2> QED BY <2>1, <1>5
<1> HIDE DEF run
<1> QED BY <1>0, <1>1, <1>6, <1>7 DEF start, Assigning

\* Destinations with the types of others.
SameKinds(before, after) ==
  /\ DOMAIN after = DOMAIN before
  /\ \A d \in DOMAIN before : after[d].kind = before[d].kind

\* Whatever the server answers, each destination keeps its type.
LEMMA AssignedKinds ==
  ASSUME NEW n \in Nat, DOMAIN execution.args = 1 .. n, NEW targets, NEW values
  PROVE  SameKinds(dests, Assigned(targets, values).dests)
<1> DEFINE Shaped(st) == DOMAIN st = {"ok", "dests"} /\ SameKinds(dests, st.dests)
<1>0. PICK run : Assigning(n, targets, values, run)
  BY AssignRun
<1>1. /\ run[0] = [ok |-> TRUE, dests |-> dests]
      /\ \A k \in 1 .. n : run[k] = AssignTurn(targets, values, run[k - 1], k)
      /\ Assigned(targets, values) = run[n]
  BY <1>0 DEF Assigning
<1>2. Shaped([ok |-> TRUE, dests |-> dests])
  BY DEF SameKinds
<1>3. ASSUME NEW st, Shaped(st), NEW i PROVE Shaped(AssignTurn(targets, values, st, i))
  <2> DEFINE to == targets[i]
             new == assignOutParam(st.dests[to], values[i])
  <2>1. new # Refused => new.kind = st.dests[to].kind
    BY KindKept
  <2>2. \/ AssignTurn(targets, values, st, i) = st
        \/ AssignTurn(targets, values, st, i) = [st EXCEPT !.ok = FALSE]
        \/ new # Refused /\ AssignTurn(targets, values, st, i) = [st EXCEPT !.dests[to] = new]
    BY DEF AssignTurn
  <2> HIDE DEF to, new
  <2>3. Shaped([st EXCEPT !.ok = FALSE])
    BY <1>3
  <2>4. new # Refused => Shaped([st EXCEPT !.dests[to] = new])
    <3> HAVE new # Refused
    <3> DEFINE old == st.dests
               after == [old EXCEPT ![to] = new]
    <3>1. SameKinds(dests, old) /\ new.kind = old[to].kind
      BY <1>3, <2>1
    <3>2. [st EXCEPT !.dests[to] = new] = [st EXCEPT !.dests = after]
      OBVIOUS
    <3> HIDE DEF old
    <3>3. SameKinds(dests, after)
      BY <3>1 DEF SameKinds
    <3> HIDE DEF after
    <3> QED BY <1>3, <3>2, <3>3
  <2> QED BY <1>3, <2>2, <2>3, <2>4
<1> DEFINE Good == {k \in 0 .. n : Shaped(run[k])}
<1>4. 0 \in Good
  BY <1>1, <1>2
<1>5. ASSUME NEW k \in 1 .. n, k - 1 \in Good PROVE k \in Good
  <2>1. Shaped(run[k - 1])
    BY <1>5
  <2> HIDE DEF Shaped
  <2> QED BY <2>1, <1>1, <1>3
<1>6. \A k \in 0 .. n : k \in Good
  <2> HIDE DEF Good
  <2> QED BY <1>4, <1>5, InductionUpTo
<1> QED BY <1>1, <1>6

\* The texts a section may hold: the statement's, with literals for some markers.
Texts == {Replaced(statement.text, K) : K \in SUBSET Markers(statement.text)}

\* How the text, the literals and the parameters of a call fit: a value for each
\* marker of the statement.  A batch looks at no literals; it may meet a text with
\* some, or none at all, but then the server cannot read its rows.
Fitting ==
  \/ \E K \in SUBSET Markers(statement.text) :
       /\ execution.text = Replaced(statement.text, K)
       /\ \A j \in 1 .. Cardinality(K) : Literals[j].kind \in Kinds
  \/ /\ execution.text \in Texts \cup {<<>>}
     /\ Len(execution.kept) = Len(statement.cols) /\ Len(statement.cols) > 0

\* The shape of a call.
CallShape ==
  /\ DOMAIN execution = DOMAIN NoCall
  /\ execution.at \in {"idle", "sending", "sent", "answered"}
  /\ execution.result \in {"ok", "error", "panic", "rejected", "unassigned"}
  /\ execution.rows \in Nat /\ execution.row \in 0 .. execution.rows
  /\ \E n \in Nat : DOMAIN execution.args = 1 .. n

\* Inside a call each parameter sent is one of the statement's.
CallText ==
  execution.at # "idle" =>
    /\ execution.row >= 1
    /\ execution.kept \in Seq(1 .. Len(statement.cols))
    /\ Fitting

\* Descriptors on their way, one for each parameter.
CallWire ==
  execution.at = "sent" =>
    IF wire.ok THEN \E ds \in Seq(Triplets) : wire.dsc = FDODSC(ds) /\ Len(ds) = Len(execution.kept)
               ELSE execution.kept = <<>>

\* Rows of n values of known kinds.
Whole(rows, n) == \E W : rows \in Seq(W) /\ \A w \in W : Kinded(w) /\ Len(w) = n

\* The server has all rows before the one under way.
CallRows ==
  /\ Whole(received, Len(statement.cols))
  /\ execution.at \in {"sending", "sent"} => Len(received) = execution.row - 1
  /\ execution.at = "answered" => Len(received) = execution.row
  /\ execution.at = "idle" => Len(received) <= execution.rows

\* What the section holds.
SectionText == rewritten \in BOOLEAN /\ prepared \in Texts \cup {<<>>}

\* The inductive invariant.
CallInv ==
  /\ statement \in Cases /\ TextInv
  /\ SectionText /\ CallShape /\ CallText /\ CallWire /\ CallRows
  /\ SameKinds(statement.dests, dests)

\* No rows are whole.
LEMMA NoRows == ASSUME NEW n PROVE Whole(<<>>, n)
<1>1. <<>> \in Seq({}) /\ \A w \in {} : Kinded(w) /\ Len(w) = n
  OBVIOUS
<1> QED BY <1>1 DEF Whole

\* The statement's own text, without literals.
LEMMA OwnText ==
  ASSUME statement \in Cases
  PROVE  /\ {} \in SUBSET Markers(statement.text) /\ statement.text = Replaced(statement.text, {})
         /\ statement.text \in Texts /\ Cardinality({}) = 0
<1>1. statement.text \in Seq(Characters)
  BY CasesAssumption
<1>2. statement.text = Replaced(statement.text, {})
  BY <1>1 DEF Replaced
<1>3. {} \in SUBSET Markers(statement.text)
  OBVIOUS
<1>4. Cardinality({}) = 0
  BY FS_EmptySet
<1> QED BY <1>2, <1>3, <1>4 DEF Texts

\* The arguments of a call, and those behind the sql.Out, are sequences.
LEMMA ArgsOf ==
  ASSUME statement \in Cases, NEW args \in statement.uses
  PROVE  \E n \in Nat : DOMAIN RawArgs(args) = 1 .. n
BY Inlining

\* The rows that are counted for a batch.
LEMMA BatchRows ==
  ASSUME statement \in Cases, NEW args \in statement.uses
  PROVE  /\ BatchSize(RawArgs(args)) \in Nat
         /\ BatchSize(RawArgs(args)) > 0 => Len(args) > 0
<1> DEFINE raw == RawArgs(args)
           L == Leading(raw)
           i == CHOOSE j \in L : TRUE
<1>1. CASE L = {}
  BY <1>1 DEF BatchSize
<1>2. CASE L # {}
  <2>1. i \in L
    BY <1>2
  <2>2. i \in DOMAIN raw /\ Is("list", raw[i])
    BY <2>1 DEF Leading, Lists
  <2>3. DOMAIN raw = DOMAIN args /\ DOMAIN args = 1 .. Len(args) /\ Len(args) \in Nat
    BY Inlining
  <2>4. raw[i] = args[i]
    <3>1. raw[i] = IF Is("out", args[i]) THEN [scalar |-> OutValue(args[i].out)] ELSE args[i]
      BY <2>2, <2>3 DEF RawArgs
    <3>2. ~ Is("list", [scalar |-> OutValue(args[i].out)])
      BY DEF Is
    <3> QED BY <3>1, <3>2, <2>2
  <2>5. args[i].list \in Seq(ToSet(args[i].list))
    BY <2>2, <2>3, <2>4, CasesAssumption
  <2>6. BatchSize(raw) = Len(raw[i].list)
    BY <1>2 DEF BatchSize
  <2> HIDE DEF i, L, raw
  <2> QED BY <2>2, <2>3, <2>4, <2>5, <2>6 DEF raw
<1> QED BY <1>1, <1>2

\* A call that has returned before anything was sent.
LEMMA Returned ==
  ASSUME CallInv, TextInv', NEW args \in statement.uses, Called(args), SectionText',
         NEW result \in {"error", "panic"},
         execution' = [NoCall EXCEPT !.result = result, !.args = RawArgs(args)]
  PROVE  CallInv'
<1>1. statement' = statement /\ dests' = dests /\ received' = <<>> /\ statement \in Cases
  BY DEF Called, CallInv
<1>2. /\ DOMAIN execution' = DOMAIN NoCall /\ execution'.at = "idle" /\ execution'.rows = 0
      /\ execution'.row = 0 /\ execution'.args = RawArgs(args) /\ execution'.result = result
  BY DEF NoCall
<1>3. CallShape'
  BY <1>1, <1>2, ArgsOf DEF CallShape, NoCall
<1>4. CallText' /\ CallWire'
  BY <1>2 DEF CallText, CallWire
<1>5. CallRows'
  <2>1. Whole(<<>>, Len(statement.cols))
    BY NoRows
  <2> QED BY <2>1, <1>1, <1>2 DEF CallRows
<1>6. SameKinds(statement.dests, dests)'
  BY <1>1 DEF CallInv
<1> QED BY <1>1, <1>3, <1>4, <1>5, <1>6 DEF CallInv

\* A call that has begun.
LEMMA Begun ==
  ASSUME CallInv, TextInv', NEW args \in statement.uses, Called(args), SectionText',
         NEW at \in {"sending", "sent"}, NEW outs, NEW rows \in Nat, rows >= 1, NEW txt,
         NEW kept \in Seq(1 .. Len(statement.cols)), NEW inlined,
         Begins(args, at, outs, rows, txt, kept, inlined), at = "sent" => kept = <<>>, Fitting'
  PROVE  CallInv'
<1>1. /\ statement' = statement /\ dests' = dests /\ received' = <<>> /\ wire' = Nothing
      /\ statement \in Cases
  BY DEF Called, CallInv
<1>2. /\ DOMAIN execution' = DOMAIN NoCall /\ execution'.at = at /\ execution'.rows = rows
      /\ execution'.row = 1 /\ execution'.args = RawArgs(args) /\ execution'.result = "ok"
      /\ execution'.kept = kept
  BY DEF NoCall, Begins
<1>3. CallShape'
  BY <1>1, <1>2, ArgsOf DEF CallShape, NoCall
<1>4. CallText'
  BY <1>1, <1>2 DEF CallText
<1>5. CallWire'
  BY <1>1, <1>2 DEF CallWire, Nothing
<1>6. CallRows'
  <2>1. Whole(<<>>, Len(statement.cols)) /\ Len(<<>>) = 0
    BY NoRows
  <2> QED BY <2>1, <1>1, <1>2 DEF CallRows
<1>7. SameKinds(statement.dests, dests)'
  BY <1>1 DEF CallInv
<1> QED BY <1>1, <1>3, <1>4, <1>5, <1>6, <1>7 DEF CallInv

\* A wrong number of arguments.
LEMMA MiscountedTyped ==
  ASSUME CallInv, NEW args \in statement.uses, CallMiscounted(args)
  PROVE  CallInv'
<1>1. TextInv'
  BY MiscountedKeeps DEF CallInv
<1>2. Called(args) /\ Returns(args, "error") /\ statement' = statement
  BY DEF CallMiscounted, Called
<1>3. SectionText'
  BY <1>2 DEF CallInv, SectionText, Texts, Returns
<1> QED BY <1>1, <1>2, <1>3, Returned DEF Returns

\* A text that does not prepare.
LEMMA UnpreparedTyped ==
  ASSUME CallInv, NEW args \in statement.uses, CallUnprepared(args)
  PROVE  CallInv'
<1>1. TextInv'
  BY UnpreparedKeeps DEF CallInv
<1>2. /\ Called(args) /\ statement' = statement /\ rewritten' = TRUE
      /\ prepared' \in {prepared, <<>>}
      /\ execution' = [NoCall EXCEPT !.result = "error", !.args = RawArgs(args)]
  BY DEF CallUnprepared, Called
<1>3. SectionText'
  BY <1>2 DEF CallInv, SectionText, Texts
<1> QED BY <1>1, <1>2, <1>3, Returned

\* All parameters of a call.
LEMMA AllKept ==
  ASSUME statement \in Cases, NEW args \in statement.uses, Len(args) = Len(statement.cols)
  PROVE  /\ All(args) \in Seq(1 .. Len(statement.cols))
         /\ Len(All(args)) = Len(statement.cols)
<1>1. DOMAIN args = 1 .. Len(args) /\ Len(args) \in Nat
  BY Inlining
<1>2. All(args) = [i \in 1 .. Len(statement.cols) |-> i]
  BY <1>1 DEF All
<1> QED BY <1>1, <1>2

\* A batch.
LEMMA BatchTyped ==
  ASSUME CallInv, NEW args \in statement.uses, CallBatch(args)
  PROVE  CallInv'
<1> DEFINE raw == RawArgs(args)
<1>1. TextInv' /\ TextInv
  BY BatchKeeps DEF CallInv
<1>2. /\ Called(args) /\ statement' = statement /\ Len(args) = Len(statement.cols)
      /\ BatchSize(raw) > 0 /\ UNCHANGED <<rewritten, prepared>> /\ statement \in Cases
  BY DEF CallBatch, Called, Returns, CallInv
<1>3. SectionText'
  BY <1>2 DEF CallInv, SectionText, Texts
<1>4. \/ Returns(args, "error") \/ Returns(args, "panic")
      \/ Begins(args, "sending", <<>>, BatchSize(raw), prepared, All(args), <<>>)
  BY DEF CallBatch
<1>5. ASSUME NEW result \in {"error", "panic"}, Returns(args, result) PROVE CallInv'
  BY <1>1, <1>2, <1>3, <1>5, Returned DEF Returns
<1>6. CASE Begins(args, "sending", <<>>, BatchSize(raw), prepared, All(args), <<>>)
  <2>1. BatchSize(raw) \in Nat /\ Len(args) > 0
    BY <1>2, BatchRows
  <2>2. /\ All(args) \in Seq(1 .. Len(statement.cols))
        /\ Len(All(args)) = Len(statement.cols)
    BY <1>2, AllKept
  <2>3. execution'.kept = All(args) /\ execution'.text = prepared
    BY <1>6 DEF Begins
  <2>4. prepared \in Texts' \cup {<<>>}
    BY <1>2 DEF CallInv, SectionText, Texts
  <2>5. Fitting'
    BY <1>2, <2>1, <2>2, <2>3, <2>4 DEF Fitting
  <2> DEFINE rows == BatchSize(raw)
             all == All(args)
  <2>6. rows \in Nat /\ rows >= 1
    BY <1>2, <2>1
  <2>7. /\ Begins(args, "sending", <<>>, rows, prepared, all, <<>>)
        /\ all \in Seq(1 .. Len(statement.cols))
    BY <1>6, <2>2
  <2> HIDE DEF rows, all
  <2> QED BY <1>1, <1>2, <1>3, <2>5, <2>6, <2>7, Begun
<1> QED BY <1>4, <1>5, <1>6

\* A call without literals.
LEMMA PlainTyped ==
  ASSUME CallInv, NEW args \in statement.uses, CallPlain(args)
  PROVE  CallInv'
<1>1. TextInv' /\ TextInv
  BY PlainKeeps DEF CallInv
<1>2. /\ Called(args) /\ statement' = statement /\ Len(args) = Len(statement.cols)
      /\ statement \in Cases
      /\ Begins(args, "sending", OutTargets(args), 1, prepared', All(args), <<>>)
  BY DEF CallPlain, Called, Single, CallInv
<1>3. prepared' = statement.text /\ rewritten' \in BOOLEAN
  BY <1>1 DEF CallPlain, TextInv, CallInv, SectionText
<1>4. SectionText'
  BY <1>2, <1>3, OwnText DEF SectionText, Texts
<1>5. /\ All(args) \in Seq(1 .. Len(statement.cols))
      /\ Len(All(args)) = Len(statement.cols)
  BY <1>2, AllKept
<1>6. execution'.text = Replaced(statement'.text, {}) /\ {} \in SUBSET Markers(statement'.text)
  BY <1>2, <1>3, OwnText DEF Begins
<1>7. \A j \in 1 .. Cardinality({}) : Literals'[j].kind \in Kinds
  BY <1>2, OwnText
<1>8. Fitting'
  BY <1>6, <1>7 DEF Fitting
<1> DEFINE all == All(args)
           outs == OutTargets(args)
           txt == prepared'
<1>9. Begins(args, "sending", outs, 1, txt, all, <<>>) /\ all \in Seq(1 .. Len(statement.cols))
  BY <1>2, <1>5
<1> HIDE DEF all, outs, txt
<1> QED BY <1>1, <1>2, <1>4, <1>8, <1>9, Begun

\* Fewer markers become literals than parameters are in the list of them, or as many.
LEMMA FewerLiterals ==
  ASSUME NEW txt, NEW inlined \in Seq(Nat),
         NEW K, K = {MarkerAt(txt, k) : k \in ToSet(inlined)}
  PROVE  Cardinality(K) <= Len(inlined)
<1> DEFINE n == Len(inlined)
           f == [j \in 1 .. n |-> MarkerAt(txt, inlined[j])]
<1>1. n \in Nat /\ DOMAIN inlined = 1 .. n
  OBVIOUS
<1>2. \A k \in ToSet(inlined) : \E j \in 1 .. n : k = inlined[j]
  BY <1>1 DEF ToSet
<1>3. \A j \in 1 .. n : inlined[j] \in ToSet(inlined)
  BY <1>1 DEF ToSet
<1>4. \A j \in 1 .. n : f[j] \in K
  BY <1>3
<1>5. \A p \in K : \E j \in 1 .. n : f[j] = p
  BY <1>2
<1>6. f \in Surjection(1 .. n, K)
  <2>1. f \in [1 .. n -> K]
    BY <1>4
  <2> HIDE DEF f
  <2> QED BY <2>1, <1>5 DEF Surjection
<1>7. ExistsSurjection(1 .. n, K)
  BY <1>6 DEF ExistsSurjection
<1> HIDE DEF n
<1>8. Cardinality(K) <= n
  BY <1>1, <1>7, FS_SurjCardinalityBound
<1> QED BY <1>8 DEF n

\* Short BLOBs that move into the text.
LEMMA RewrittenTyped ==
  ASSUME CallInv, NEW args \in statement.uses, CallRewritten(args)
  PROVE  CallInv'
<1> DEFINE raw == RawArgs(args)
           inline == Inlineable(raw)
           txt == statement.text
           new == rewriteBinaryParams(txt, inline)
           In == {k \in 1 .. Len(inline) : inline[k]}
           K == {MarkerAt(txt, k) : k \in In}
           outs == OutTargets(args)
<1>1. TextInv' /\ TextInv
  BY RewrittenKeeps DEF CallInv
<1>2. /\ Called(args) /\ statement' = statement /\ Len(args) = Len(statement.cols)
      /\ statement \in Cases /\ rewritten' = TRUE
      /\ IF new.kept = <<>>
         THEN /\ Begins(args, "sent", <<>>, 1, new.text, <<>>, new.inlined)
              /\ prepared' = prepared
         ELSE /\ Begins(args, "sending", outs, 1, new.text, new.kept, new.inlined)
              /\ prepared' = new.text
  BY DEF CallRewritten, Called, Single, CallInv
<1>3. /\ DOMAIN raw = DOMAIN args /\ DOMAIN args = 1 .. Len(args) /\ Len(args) \in Nat
      /\ inline \in Seq(BOOLEAN) /\ Len(inline) = Len(args) /\ DOMAIN inline = DOMAIN args
  BY <1>2, Inlining
<1>4. txt \in Seq(Characters) /\ Cardinality(Markers(txt)) = Len(inline)
  BY <1>2, <1>3, CasesAssumption
<1>5. \A k \in In : raw[k].scalar.kind = "bytes"
  <2> TAKE k \in In
  <2>1. inline[k] /\ k \in DOMAIN raw
    BY <1>3
  <2> HIDE DEF raw
  <2> QED BY <2>1 DEF Inlineable
<1> HIDE DEF raw, inline, outs
<1>6. /\ new.text = [p \in DOMAIN txt |->
                       IF p \in {MarkerAt(txt, k) : k \in In} THEN Literal ELSE txt[p]]
      /\ ListsInOrder(new.kept, (1 .. Len(inline)) \ In)
      /\ ListsInOrder(new.inlined, In)
  <2> HIDE DEF txt
  <2> QED BY <1>3, <1>4, RewritingExact
<1>7. new.text = Replaced(txt, K)
  BY <1>6 DEF Replaced
<1>8. /\ new.kept \in Seq(Nat) /\ ToSet(new.kept) = (1 .. Len(inline)) \ In
      /\ new.inlined \in Seq(Nat) /\ ToSet(new.inlined) = In
  BY <1>6 DEF ListsInOrder
<1>9. K \in SUBSET Markers(txt)
  <2> DEFINE M == Markers(txt)
             n == Len(txt)
  <2>1. n \in Nat /\ M \subseteq 1 .. n /\ Cardinality(M) = Len(inline)
    BY <1>4, MarkerRanks
  <2>2. \A k \in In : k \in 1 .. Cardinality(M)
    BY <2>1
  <2> HIDE DEF M, n, In, txt
  <2>3. \A k \in In : Nth(M, k) \in M
    BY <2>1, <2>2, NthRank
  <2> QED BY <2>3 DEF M, MarkerAt
<1> HIDE DEF In
<1>10. Cardinality(K) <= Len(new.inlined)
  <2> DEFINE inlined == new.inlined
  <2>1. inlined \in Seq(Nat) /\ K = {MarkerAt(txt, k) : k \in ToSet(inlined)}
    BY <1>8
  <2> HIDE DEF inlined, K, txt
  <2>2. Cardinality(K) <= Len(inlined)
    BY <2>1, FewerLiterals
  <2> QED BY <2>2 DEF inlined
<1> HIDE DEF new
<1>11. new.kept \in Seq(1 .. Len(statement.cols))
  <2> DEFINE kept == new.kept
             n == Len(statement.cols)
  <2>1. kept \in Seq(Nat) /\ ToSet(kept) \subseteq 1 .. n
    BY <1>2, <1>3, <1>8
  <2> HIDE DEF kept, n
  <2>2. \A j \in 1 .. Len(kept) : kept[j] \in 1 .. n
    BY <2>1 DEF ToSet
  <2>3. kept \in Seq(1 .. n)
    <3> DEFINE m == Len(kept)
               R == 1 .. n
    <3>1. m \in Nat /\ kept = [j \in 1 .. m |-> kept[j]] /\ \A j \in 1 .. m : kept[j] \in R
      BY <2>1, <2>2
    <3> HIDE DEF m, R
    <3>2. kept \in [1 .. m -> R]
      BY <3>1
    <3> QED BY <3>1, <3>2 DEF R
  <2> QED BY <2>3 DEF kept, n
<1>12. Cardinality(K) \in Nat
  <2> DEFINE M == Markers(txt)
             n == Len(txt)
  <2>1. n \in Nat /\ M \subseteq 1 .. n /\ K \subseteq M
    BY <1>4, <1>9, MarkerRanks
  <2> HIDE DEF M, n, K
  <2> QED BY <2>1, RanksSplit DEF Splits
<1>13. ASSUME execution'.text = new.text, execution'.inlined = new.inlined, execution'.args = raw
       PROVE  Fitting'
  <2>1. \A j \in 1 .. Cardinality(K) : Literals'[j].kind \in Kinds
    <3> TAKE j \in 1 .. Cardinality(K)
    <3> DEFINE inlined == new.inlined
    <3>0. inlined \in Seq(Nat) /\ ToSet(inlined) = In /\ Cardinality(K) <= Len(inlined)
      BY <1>8, <1>10
    <3>1. j \in DOMAIN inlined /\ inlined[j] \in In
      <4> HIDE DEF inlined, K
      <4>1. j \in DOMAIN inlined
        BY <3>0, <1>12
      <4> QED BY <3>0, <4>1 DEF ToSet
    <3>2. Literals'[j] = raw[inlined[j]].scalar
      BY <3>1, <1>13 DEF Literals
    <3> QED BY <3>1, <3>2, <1>5 DEF Kinds
  <2>2. execution'.text = Replaced(statement'.text, K) /\ K \in SUBSET Markers(statement'.text)
    BY <1>2, <1>7, <1>9, <1>13
  <2> HIDE DEF K
  <2> QED BY <2>1, <2>2 DEF Fitting
<1>14. new.text \in Texts
  BY <1>7, <1>9 DEF Texts
<1>15. SectionText'
  BY <1>2, <1>14 DEF CallInv, SectionText, Texts
<1>16. CASE new.kept = <<>>
  <2>1. Begins(args, "sent", <<>>, 1, new.text, <<>>, new.inlined)
    BY <1>2, <1>16
  <2>2. Fitting'
    BY <2>1, <1>13 DEF Begins, raw
  <2>3. <<>> \in Seq(1 .. Len(statement.cols))
    BY <1>11, <1>16
  <2> DEFINE t == new.text
             b == new.inlined
             at == "sent"
             none == <<>>
             rows == 1
  <2>4. /\ Begins(args, at, none, rows, t, none, b) /\ none \in Seq(1 .. Len(statement.cols))
        /\ at \in {"sending", "sent"} /\ (at = "sent" => none = <<>>) /\ rows \in Nat /\ rows >= 1
    BY <2>1, <2>3
  <2> HIDE DEF t, b, at, none, rows
  <2> QED BY <1>1, <1>2, <1>15, <2>2, <2>4, Begun
<1>17. CASE new.kept # <<>>
  <2>1. Begins(args, "sending", outs, 1, new.text, new.kept, new.inlined)
    BY <1>2, <1>17
  <2>2. Fitting'
    BY <2>1, <1>13 DEF Begins, raw
  <2> DEFINE t == new.text
             b == new.inlined
             kept == new.kept
  <2>4. Begins(args, "sending", outs, 1, t, kept, b) /\ kept \in Seq(1 .. Len(statement.cols))
    BY <2>1, <1>11
  <2> HIDE DEF t, b, kept
  <2> QED BY <1>1, <1>2, <1>15, <2>2, <2>4, Begun
<1> QED BY <1>16, <1>17

\* What a step inside a call leaves alone.
SameTexts ==
  /\ UNCHANGED <<statement, rewritten, prepared>>
  /\ execution'.text = execution.text /\ execution'.args = execution.args
  /\ execution'.kept = execution.kept /\ execution'.inlined = execution.inlined
  /\ DOMAIN execution' = DOMAIN execution

\* Such a step keeps how text and parameters fit.
LEMMA SameFitting ==
  ASSUME CallInv, SameTexts
  PROVE  TextInv' /\ SectionText' /\ (Fitting => Fitting')
<1>1. TextInv'
  BY SameCall DEF SameTexts, CallInv
<1>2. SectionText'
  BY DEF SameTexts, CallInv, SectionText, Texts
<1>3. Literals' = Literals
  BY DEF SameTexts, Literals
<1>4. Fitting => Fitting'
  BY <1>3 DEF SameTexts, Fitting, Texts
<1> QED BY <1>1, <1>2, <1>4

\* A call that fails.
LEMMA FailsTyped ==
  ASSUME CallInv, NEW result \in {"error", "rejected"}, Fails(result),
         UNCHANGED <<statement, rewritten, prepared, dests>>
  PROVE  CallInv'
<1>1. /\ DOMAIN execution = DOMAIN NoCall /\ DOMAIN execution' = DOMAIN execution
      /\ execution'.at = "idle" /\ execution'.result = result /\ execution'.rows = execution.rows
      /\ execution'.row = execution.row /\ execution'.args = execution.args
      /\ execution'.text = execution.text /\ execution'.kept = execution.kept
      /\ execution'.inlined = execution.inlined
  BY DEF Fails, CallInv, CallShape, NoCall
<1>2. SameTexts
  BY <1>1 DEF SameTexts
<1>3. TextInv' /\ SectionText'
  BY <1>2, SameFitting
<1>4. CallShape'
  BY <1>1 DEF CallInv, CallShape, NoCall
<1>5. CallText' /\ CallWire'
  BY <1>1 DEF CallText, CallWire
<1>6. CallRows'
  <2>1. Whole(<<>>, Len(statement.cols)) /\ Len(<<>>) = 0
    BY NoRows
  <2>2. received' = <<>>
    BY DEF Fails
  <2> QED BY <2>1, <2>2, <1>1 DEF CallRows, CallInv, CallShape
<1> QED BY <1>3, <1>4, <1>5, <1>6 DEF CallInv

\* The descriptors of a row.
LEMMA RowDescriptors ==
  ASSUME CallInv, execution.at # "idle", BuildSQLDTA(RowColumns, RowValues).ok
  PROVE  \E ds \in Seq(Triplets) : /\ BuildSQLDTA(RowColumns, RowValues).dsc = FDODSC(ds)
                                   /\ Len(ds) = Len(execution.kept)
<1> DEFINE kept == execution.kept
           n == Len(kept)
           cols == RowColumns
           values == RowValues
           ds == [i \in DOMAIN values |-> Descriptor(cols[i], values[i])]
           fields == [i \in DOMAIN values |-> Field(cols[i], values[i])]
<1>1. kept \in Seq(1 .. Len(statement.cols)) /\ statement.cols \in Seq(Columns)
  BY CasesAssumption DEF CallInv, CallText, Columns
<1>2. n \in Nat /\ DOMAIN kept = 1 .. n /\ \A i \in 1 .. n : kept[i] \in 1 .. Len(statement.cols)
  BY <1>1
<1>3. DOMAIN values = 1 .. n
  BY <1>2 DEF RowValues
<1>4. \A i \in 1 .. n : cols[i] \in Columns
  BY <1>1, <1>2 DEF RowColumns
<1> HIDE DEF kept, n, cols, values
<1>5. ds \in [1 .. n -> Triplets]
  BY <1>3, <1>4, DescriptorTriplet
<1>6. BuildSQLDTA(cols, values)
        = IF Len(cols) # Len(values) THEN Refused ELSE Assembled(FDODSC(ds), fields)
  BY DEF BuildSQLDTA
<1> HIDE DEF ds, fields
<1>7. ds \in Seq(Triplets) /\ Len(ds) = n
  BY <1>2, <1>5
<1>8. ~ Refused.ok
  BY DEF Refused
<1>9. BuildSQLDTA(cols, values).ok
  BY DEF cols, values
<1>10. Assembled(FDODSC(ds), fields).ok /\ BuildSQLDTA(cols, values) = Assembled(FDODSC(ds), fields)
  BY <1>6, <1>8, <1>9
<1>11. Assembled(FDODSC(ds), fields).dsc = FDODSC(ds)
  <2> DEFINE d == FDODSC(ds)
  <2> HIDE DEF d
  <2>1. Assembled(d, fields).ok => Assembled(d, fields).dsc = d
    BY <1>8 DEF Assembled
  <2> QED BY <2>1, <1>10 DEF d
<1> QED BY <1>7, <1>10, <1>11 DEF cols, values, n, kept

\* A row goes out.
LEMMA SendTyped ==
  ASSUME CallInv, SendRow
  PROVE  CallInv'
<1> DEFINE sqldta == BuildSQLDTA(RowColumns, RowValues)
<1>1. /\ execution.at = "sending" /\ UNCHANGED <<statement, rewritten, prepared, dests>>
      /\ \/ /\ sqldta.ok /\ wire' = sqldta /\ received' = received
            /\ execution' = [execution EXCEPT !.at = "sent"]
         \/ Fails("error")
  BY DEF SendRow
<1>2. CASE Fails("error")
  BY <1>1, <1>2, FailsTyped
<1>3. CASE /\ sqldta.ok /\ wire' = sqldta /\ received' = received
           /\ execution' = [execution EXCEPT !.at = "sent"]
  <2>1. \E ds \in Seq(Triplets) : sqldta.dsc = FDODSC(ds) /\ Len(ds) = Len(execution.kept)
    <3>1. execution.at # "idle" /\ sqldta.ok
      BY <1>1, <1>3
    <3> QED BY <3>1, RowDescriptors
  <2> HIDE DEF sqldta
  <2>2. /\ DOMAIN execution = DOMAIN NoCall /\ DOMAIN execution' = DOMAIN execution
        /\ execution'.at = "sent" /\ execution'.result = execution.result
        /\ execution'.rows = execution.rows
        /\ execution'.row = execution.row /\ execution'.args = execution.args
        /\ execution'.text = execution.text /\ execution'.kept = execution.kept
        /\ execution'.inlined = execution.inlined
    BY <1>3 DEF CallInv, CallShape, NoCall
  <2>3. SameTexts
    BY <1>1, <2>2 DEF SameTexts
  <2>4. TextInv' /\ SectionText' /\ (Fitting => Fitting')
    BY <2>3, SameFitting
  <2>5. CallShape'
    BY <2>2 DEF CallInv, CallShape, NoCall
  <2>6. CallText'
    BY <1>1, <2>2, <2>4 DEF CallInv, CallText
  <2>7. CallWire'
    BY <1>3, <2>1, <2>2 DEF CallWire
  <2>8. CallRows'
    BY <1>1, <1>3, <2>2 DEF CallInv, CallRows
  <2> QED BY <1>1, <2>4, <2>5, <2>6, <2>7, <2>8 DEF CallInv
<1> QED BY <1>1, <1>2, <1>3

\* A row is read: it has a value for each parameter of the statement.
LEMMA RowWhole ==
  ASSUME CallInv, execution.at = "sent", NEW row \in Readings(wire),
         Len(row) = MarkersLeft(execution.text)
  PROVE  LET bound == Bound(execution.text, Literals, row)
         IN Kinded(bound) /\ Len(bound) = Len(statement.cols)
<1> DEFINE txt == statement.text
           M == Markers(txt)
           n == Len(statement.cols)
<1>1. txt \in Seq(Characters) /\ Cardinality(M) = n /\ n \in Nat /\ Fitting
  BY CasesAssumption DEF CallInv, CallText
<1>2. Kinded(row) /\ Len(row) = Len(execution.kept)
  <2>1. CASE wire.ok
    <3>1. PICK ds \in Seq(Triplets) : wire.dsc = FDODSC(ds) /\ Len(ds) = Len(execution.kept)
      BY <2>1 DEF CallInv, CallWire
    <3>2. Kinded(row) /\ Len(row) = Len(ds)
      BY <2>1, <3>1, RowRead
    <3> QED BY <3>1, <3>2
  <2>2. CASE ~ wire.ok
    <3>1. execution.kept = <<>> /\ row = <<>>
      BY <2>2 DEF CallInv, CallWire, Readings
    <3>2. <<>> \in Seq({}) /\ \A w \in {} : w.kind \in Kinds
      OBVIOUS
    <3>3. Kinded(<<>>)
      BY <3>2 DEF Kinded
    <3> QED BY <3>1, <3>3
  <2> QED BY <2>1, <2>2
<1>3. ASSUME NEW K \in SUBSET M, execution.text = Replaced(txt, K),
             \A j \in 1 .. Cardinality(K) : Literals[j].kind \in Kinds
      PROVE  LET bound == Bound(execution.text, Literals, row)
             IN Kinded(bound) /\ Len(bound) = n
  <2> DEFINE literals == Literals
  <2>1. Len(row) = MarkersLeft(Replaced(txt, K))
    BY <1>3
  <2>2. \A j \in 1 .. Cardinality(K) : literals[j].kind \in Kinds
    BY <1>3
  <2> HIDE DEF literals, txt, n
  <2>3. LET bound == Bound(Replaced(txt, K), literals, row)
        IN Kinded(bound) /\ Len(bound) = Cardinality(M)
    BY <1>1, <1>2, <2>1, <2>2, BoundWhole
  <2> QED BY <1>1, <1>3, <2>3 DEF literals
<1>4. CASE \E K \in SUBSET M : /\ execution.text = Replaced(txt, K)
                               /\ \A j \in 1 .. Cardinality(K) : Literals[j].kind \in Kinds
  <2> HIDE DEF txt, M, n
  <2> QED BY <1>3, <1>4 DEF n
<1>5. CASE execution.text \in Texts \cup {<<>>} /\ Len(execution.kept) = n /\ n > 0
  <2>1. execution.text # <<>>
    <3>1. SUFFICES ASSUME execution.text = <<>> PROVE FALSE
      OBVIOUS
    <3>2. Markers(<<>>) \subseteq 1 .. Len(<<>>)
      <4>1. <<>> \in Seq({})
        OBVIOUS
      <4> QED BY <4>1, MarkerRanks
    <3>3. Markers(<<>>) = {}
      BY <3>2
    <3>4. Len(row) = 0
      BY <3>1, <3>3, FS_EmptySet DEF MarkersLeft
    <3> QED BY <3>4, <1>2, <1>5
  <2>2. PICK K \in SUBSET M : execution.text = Replaced(txt, K)
    BY <1>5, <2>1 DEF Texts
  <2>3. M \subseteq 1 .. Len(txt) /\ Len(txt) \in Nat /\ Markers(Replaced(txt, K)) = M \ K
    <3> HIDE DEF txt
    <3>1. /\ M \subseteq 1 .. Len(txt) /\ Markers(Replaced(txt, K)) = M \ K
      BY <1>1, PlacesSame
    <3>2. Len(txt) \in Nat
      BY <1>1
    <3> QED BY <3>1, <3>2
  <2>4. Cardinality(M \ K) = n
    BY <1>2, <1>5, <2>2, <2>3 DEF MarkersLeft
  <2>5. Cardinality(M) = Cardinality(K) + Cardinality(M \ K) /\ Cardinality(K) \in Nat
    <3> DEFINE m == Len(txt)
    <3>1. m \in Nat /\ M \subseteq 1 .. m /\ K \subseteq M
      BY <2>3
    <3> HIDE DEF m, M
    <3> QED BY <3>1, RanksSplit DEF Splits
  <2>6. Cardinality(K) = 0
    BY <1>1, <2>4, <2>5
  <2>7. \A j \in 1 .. Cardinality(K) : Literals[j].kind \in Kinds
    BY <2>6
  <2> HIDE DEF txt, M, n
  <2> QED BY <1>3, <2>2, <2>7 DEF n
<1> QED BY <1>1, <1>4, <1>5 DEF Fitting

\* One row more.
LEMMA RowsMore ==
  ASSUME NEW rows, NEW n, Whole(rows, n), NEW row, Kinded(row), Len(row) = n
  PROVE  Whole(Append(rows, row), n) /\ Len(Append(rows, row)) = Len(rows) + 1
<1>1. PICK W : rows \in Seq(W) /\ \A w \in W : Kinded(w) /\ Len(w) = n
  BY DEF Whole
<1> DEFINE U == W \cup {row}
<1>2. rows \in Seq(U) /\ row \in U
  <2>1. W \subseteq U
    OBVIOUS
  <2> HIDE DEF U
  <2>2. rows \in Seq(U)
    BY ONLY <1>1, <2>1
  <2> QED BY <2>2 DEF U
<1>3. \A w \in U : Kinded(w) /\ Len(w) = n
  BY <1>1
<1> HIDE DEF U
<1>4. Append(rows, row) \in Seq(U) /\ Len(Append(rows, row)) = Len(rows) + 1
  BY <1>2
<1> QED BY <1>3, <1>4 DEF Whole

\* The server reads a row.
LEMMA ReadsTyped ==
  ASSUME CallInv, ServerReads
  PROVE  CallInv'
<1>1. /\ execution.at = "sent" /\ UNCHANGED <<statement, rewritten, prepared, dests, wire>>
      /\ execution' = [execution EXCEPT !.at = "answered"]
  BY DEF ServerReads
<1>2. PICK row \in Readings(wire) :
        /\ Len(row) = MarkersLeft(execution.text)
        /\ received' = Append(received, Bound(execution.text, Literals, row))
  BY DEF ServerReads
<1> DEFINE bound == Bound(execution.text, Literals, row)
<1>3. Kinded(bound) /\ Len(bound) = Len(statement.cols)
  BY <1>1, <1>2, RowWhole
<1>4. received' = Append(received, bound)
  BY <1>2
<1> HIDE DEF bound
<1>5. /\ Whole(received', Len(statement.cols)) /\ Len(received') = Len(received) + 1
      /\ Len(received) = execution.row - 1
  BY <1>1, <1>3, <1>4, RowsMore DEF CallInv, CallRows
<1>6. /\ DOMAIN execution = DOMAIN NoCall /\ DOMAIN execution' = DOMAIN execution
      /\ execution'.at = "answered" /\ execution'.result = execution.result
      /\ execution'.rows = execution.rows
      /\ execution'.row = execution.row /\ execution'.args = execution.args
      /\ execution'.text = execution.text /\ execution'.kept = execution.kept
      /\ execution'.inlined = execution.inlined
  BY <1>1 DEF CallInv, CallShape, NoCall
<1>7. SameTexts
  BY <1>1, <1>6 DEF SameTexts
<1>8. TextInv' /\ SectionText' /\ (Fitting => Fitting')
  BY <1>7, SameFitting
<1>9. CallShape'
  BY <1>6 DEF CallInv, CallShape, NoCall
<1>10. CallText' /\ CallWire'
  BY <1>1, <1>6, <1>8 DEF CallInv, CallText, CallWire
<1>11. CallRows'
  <2>1. execution.row \in Nat
    BY DEF CallInv, CallShape
  <2> QED BY <2>1, <1>1, <1>5, <1>6 DEF CallRows
<1> QED BY <1>1, <1>8, <1>9, <1>10, <1>11 DEF CallInv

\* The next row, or the end of the call.
LEMMA ReturnsTyped ==
  ASSUME CallInv, CallReturns
  PROVE  CallInv'
<1> DEFINE new == Assigned(execution.outs, OutValues(SQLDTARD(OutFields)))
<1>0. /\ execution.row \in Nat /\ execution.rows \in Nat /\ execution.row <= execution.rows
      /\ DOMAIN execution = DOMAIN NoCall /\ Len(received) = execution.row
      /\ Whole(received, Len(statement.cols)) /\ Fitting
      /\ execution.kept \in Seq(1 .. Len(statement.cols)) /\ statement \in Cases
  BY DEF CallInv, CallShape, CallRows, CallText, CallReturns
<1>1. /\ execution.at = "answered" /\ UNCHANGED <<statement, rewritten, prepared, received>>
      /\ \/ /\ execution.row < execution.rows /\ dests' = dests
            /\ execution' = [execution EXCEPT !.at = "sending", !.row = execution.row + 1]
         \/ \E result \in {"ok", "unassigned"} :
               /\ execution' = [execution EXCEPT !.at = "idle", !.result = result]
               /\ dests' = new.dests
  BY DEF CallReturns
<1>2. SameKinds(statement.dests, dests) /\ SameKinds(dests, new.dests)
  <2>1. PICK n \in Nat : DOMAIN execution.args = 1 .. n
    BY DEF CallInv, CallShape
  <2> DEFINE targets == execution.outs
             values == OutValues(SQLDTARD(OutFields))
  <2> HIDE DEF targets, values
  <2>2. SameKinds(dests, Assigned(targets, values).dests)
    BY <2>1, AssignedKinds
  <2> QED BY <2>2 DEF CallInv, targets, values
<1> HIDE DEF new
<1>3. SameKinds(statement.dests, dests)'
  BY <1>1, <1>2 DEF SameKinds
<1> DEFINE next == execution.row + 1
<1>4. CASE /\ execution.row < execution.rows
           /\ execution' = [execution EXCEPT !.at = "sending", !.row = next]
  <2>0. next \in 0 .. execution.rows /\ next >= 1 /\ execution.row = next - 1
    BY <1>0, <1>4
  <2> HIDE DEF next
  <2>1. /\ DOMAIN execution' = DOMAIN execution
        /\ execution'.at = "sending" /\ execution'.result = execution.result
        /\ execution'.rows = execution.rows
        /\ execution'.row = next /\ execution'.args = execution.args
        /\ execution'.text = execution.text /\ execution'.kept = execution.kept
        /\ execution'.inlined = execution.inlined
    BY <1>0, <1>4 DEF NoCall
  <2>2. SameTexts
    BY <1>1, <2>1 DEF SameTexts
  <2>3. TextInv' /\ SectionText' /\ (Fitting => Fitting')
    BY <2>2, SameFitting
  <2>4. CallShape'
    BY <2>0, <2>1 DEF CallInv, CallShape, NoCall
  <2>5. CallText' /\ CallWire'
    BY <1>0, <1>1, <2>0, <2>1, <2>3 DEF CallText, CallWire
  <2>6. CallRows'
    BY <1>0, <1>1, <2>0, <2>1 DEF CallRows
  <2> QED BY <1>0, <1>1, <1>3, <2>3, <2>4, <2>5, <2>6 DEF CallInv
<1>5. ASSUME NEW result \in {"ok", "unassigned"},
             execution' = [execution EXCEPT !.at = "idle", !.result = result]
      PROVE  CallInv'
  <2>1. /\ DOMAIN execution' = DOMAIN execution
        /\ execution'.at = "idle" /\ execution'.result = result
        /\ execution'.rows = execution.rows
        /\ execution'.row = execution.row /\ execution'.args = execution.args
        /\ execution'.text = execution.text /\ execution'.kept = execution.kept
        /\ execution'.inlined = execution.inlined
    BY <1>0, <1>5 DEF NoCall
  <2>2. SameTexts
    BY <1>1, <2>1 DEF SameTexts
  <2>3. TextInv' /\ SectionText'
    BY <2>2, SameFitting
  <2>4. CallShape'
    BY <2>1 DEF CallInv, CallShape, NoCall
  <2>5. CallText' /\ CallWire'
    BY <2>1 DEF CallText, CallWire
  <2>6. CallRows'
    BY <1>0, <1>1, <2>1 DEF CallRows
  <2> QED BY <1>0, <1>1, <1>3, <2>3, <2>4, <2>5, <2>6 DEF CallInv
<1> QED BY <1>1, <1>4, <1>5

\* Every step keeps the invariant.
LEMMA CallKept ==
  ASSUME CallInv, [ParametersNext]_vars
  PROVE  CallInv'
<1>1. CASE UNCHANGED vars
  <2>1. UNCHANGED <<statement, rewritten, prepared, execution, wire, received, dests>>
    BY <1>1 DEF vars
  <2>2. SameTexts
    BY <2>1 DEF SameTexts
  <2>3. TextInv' /\ SectionText' /\ (Fitting => Fitting')
    BY <2>2, SameFitting
  <2>4. CallShape' /\ CallText' /\ CallWire' /\ CallRows'
    BY <2>1, <2>3 DEF CallInv, CallShape, CallText, CallWire, CallRows, NoCall
  <2> QED BY <2>1, <2>3, <2>4 DEF CallInv
<1>2. ASSUME NEW args \in statement.uses,
             \/ CallMiscounted(args) \/ CallBatch(args) \/ CallRewritten(args)
             \/ CallPlain(args) \/ CallUnprepared(args)
      PROVE  CallInv'
  BY <1>2, MiscountedTyped, BatchTyped, RewrittenTyped, PlainTyped, UnpreparedTyped
<1>3. CASE ServerRejects \/ ServerFails
  BY <1>3, FailsTyped DEF ServerRejects, ServerFails
<1> QED BY <1>1, <1>2, <1>3, SendTyped, ReadsTyped, ReturnsTyped DEF ParametersNext

\* Whatever the arguments and the replies of the server: a row has a value of a known
\* kind for each parameter of the statement, however many of them went into the text,
\* and a destination keeps its Go type (assignOutParam, statement.go, and the rows of
\* ExecWithParams as the server reads them).
THEOREM ParametersTyped == ParametersSpec => []ParametersTypeOK
<1>1. ParametersInit => CallInv
  <2> SUFFICES ASSUME ParametersInit PROVE CallInv
    OBVIOUS
  <2>1. statement \in Cases /\ TextInv
    BY DEF ParametersInit, TextInv, TextKeepsItsTokens, NoCall
  <2>2. SectionText
    BY <2>1, OwnText DEF ParametersInit, SectionText
  <2>3. CallShape
    <3>1. DOMAIN <<>> = 1 .. 0 /\ 0 \in Nat
      OBVIOUS
    <3>2. execution = NoCall
      BY DEF ParametersInit
    <3> QED BY <3>1, <3>2 DEF CallShape, NoCall
  <2>4. CallText /\ CallWire
    BY DEF ParametersInit, CallText, CallWire, NoCall
  <2>5. CallRows
    BY NoRows DEF ParametersInit, CallRows, NoCall
  <2>6. SameKinds(statement.dests, dests)
    BY DEF ParametersInit, SameKinds
  <2> QED BY <2>1, <2>2, <2>3, <2>4, <2>5, <2>6 DEF CallInv
<1>2. CallInv /\ [ParametersNext]_vars => CallInv'
  BY CallKept
<1>3. CallInv => ParametersTypeOK
  <2> SUFFICES ASSUME CallInv PROVE ParametersTypeOK
    OBVIOUS
  <2>1. /\ statement.kind \in {"exec", "query", "call"}
        /\ statement.cols \in Seq([type : ColumnTypes, len : Nat, prec : Nat, scale : Nat])
    BY CasesAssumption DEF CallInv
  <2>2. \A i \in DOMAIN statement.cols : statement.cols[i].type \in ColumnTypes
    <3> DEFINE cols == statement.cols
    <3>1. cols \in Seq(Columns)
      BY <2>1 DEF Columns
    <3> HIDE DEF cols
    <3>2. \A i \in DOMAIN cols : cols[i] \in Columns
      BY <3>1
    <3>3. \A i \in DOMAIN cols : cols[i].type \in ColumnTypes
      BY <3>2 DEF Columns
    <3> QED BY <3>3 DEF cols
  <2>3. rewritten \in BOOLEAN /\ execution.row \in 0 .. execution.rows
        /\ execution.at \in {"idle", "sending", "sent", "answered"}
        /\ execution.result \in {"ok", "error", "panic", "rejected", "unassigned"}
    BY DEF CallInv, SectionText, CallShape
  <2>4. PICK W : received \in Seq(W) /\ \A w \in W : Kinded(w) /\ Len(w) = Len(statement.cols)
    BY DEF CallInv, CallRows, Whole
  <2>5. ASSUME NEW k \in DOMAIN received
        PROVE  /\ Len(received[k]) = Len(statement.cols)
               /\ \A i \in DOMAIN received[k] : received[k][i].kind \in Kinds
    <3> DEFINE w == received[k]
    <3>1. w \in W
      BY <2>4
    <3>2. Kinded(w) /\ Len(w) = Len(statement.cols)
      BY <2>4, <3>1
    <3> HIDE DEF w
    <3>3. PICK V : w \in Seq(V) /\ \A v \in V : v.kind \in Kinds
      BY <3>2 DEF Kinded
    <3>4. \A i \in DOMAIN w : w[i].kind \in Kinds
      BY <3>3
    <3> QED BY <3>2, <3>4 DEF w
  <2>6. Len(received) \in 0 .. execution.rows
    BY <2>3, <2>4 DEF CallInv, CallRows, CallShape
  <2>7. \A d \in DOMAIN statement.dests : dests[d].kind = statement.dests[d].kind
    BY DEF CallInv, SameKinds
  <2> QED BY <2>1, <2>2, <2>3, <2>5, <2>6, <2>7 DEF ParametersTypeOK
<1> QED BY <1>1, <1>2, <1>3, PTL DEF ParametersSpec

=============================================================================
