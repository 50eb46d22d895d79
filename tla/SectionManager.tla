--------------------------- MODULE SectionManager ---------------------------
(***************************************************************************)
(* The allocator of DRDA package sections of one connection                *)
(* (section_manager.go): a bitmap of occupied sections, kept in machine    *)
(* words, and the section where the next scan starts.  Each operation runs *)
(* under sectionManager.mu and is one step here.                           *)
(*                                                                         *)
(* Section numbers stay below Words * WordBits = 512, so the uint16        *)
(* arithmetic of the code never wraps.                                     *)
(***************************************************************************)
EXTENDS Integers

CONSTANTS MaxDrdaSections,  \* maxDrdaSections, 500 in the code
          WordBits,         \* bits of a bitmap word, 64 in the code
          Words,            \* words of the bitmap, 8 in the code
          MaxSections       \* the argument of newSectionManager

ASSUME SectionAssumption ==
  /\ MaxDrdaSections \in Nat \ {0}
  /\ WordBits \in Nat \ {0, 1}
  /\ Words \in Nat \ {0}
  /\ MaxDrdaSections < Words * WordBits
  /\ MaxSections \in Nat

VARIABLES bitmap,     \* word -> the set of its bits that are 1
          nextFree,   \* where the next scan starts
          acquired    \* what the latest Acquire returned; NoSection is its error

sectionVars == <<bitmap, nextFree, acquired>>

NoSection == 0

maxSec == IF MaxSections = 0 \/ MaxSections > MaxDrdaSections
          THEN MaxDrdaSections
          ELSE MaxSections

\* [2, maxSec]: section 0 is invalid and section 1 serves direct statements.
Assignable == 2 .. maxSec

\* The bit of a section is 1.
Occupied(sec) == sec % WordBits \in bitmap[sec \div WordBits]

WithBit(sec)    == [bitmap EXCEPT ![sec \div WordBits] = @ \cup {sec % WordBits}]
WithoutBit(sec) == [bitmap EXCEPT ![sec \div WordBits] = @ \ {sec % WordBits}]

-----------------------------------------------------------------------------
\* newSectionManager
SectionInit ==
  /\ bitmap = [w \in 0 .. Words - 1 |-> IF w = 0 THEN {0, 1} ELSE {}]
  /\ nextFree = 2
  /\ acquired = NoSection

\* The section the scan of Acquire looks at after i others; after the last
\* section it goes on at section 2.
Candidate(i) == IF nextFree + i > maxSec THEN nextFree + i - (maxSec - 1)
                                         ELSE nextFree + i

\* A scan that stops one candidate early.
ScanOneShort == 0 .. maxSec - 3

\* The scan looks at maxSec - 1 candidates.
Scan == 0 .. maxSec - 2

\* A scan that stays on the section it grants.
AcquireFirstStay ==
  \E i \in Scan :
    /\ ~ Occupied(Candidate(i))
    /\ \A j \in 0 .. i - 1 : Occupied(Candidate(j))
    /\ bitmap' = WithBit(Candidate(i))
    /\ nextFree' = Candidate(i)
    /\ acquired' = Candidate(i)

\* Acquire finds a free section: the first one of the scan.
AcquireFirst ==
  \E i \in Scan :
    /\ ~ Occupied(Candidate(i))
    /\ \A j \in 0 .. i - 1 : Occupied(Candidate(j))
    /\ bitmap' = WithBit(Candidate(i))
    /\ nextFree' = Candidate(i + 1)
    /\ acquired' = Candidate(i)

\* Acquire has looked at every candidate in vain.  The scan has then advanced
\* nextFree all the way round, to where it was.
AcquireNone ==
  /\ \A i \in Scan : Occupied(Candidate(i))
  /\ acquired' = NoSection
  /\ UNCHANGED <<bitmap, nextFree>>

Acquire == AcquireFirst \/ AcquireNone

\* Release of a section out of the assignable range does nothing; releasing a
\* free section clears a bit that is clear already.
Release(sec) ==
  /\ bitmap' = IF sec <= 1 \/ sec > maxSec THEN bitmap ELSE WithoutBit(sec)
  /\ UNCHANGED <<nextFree, acquired>>

\* isAllocated
isAllocated(sec) == sec <= maxSec /\ Occupied(sec)

SectionNext == Acquire \/ \E sec \in 0 .. maxSec + 1 : Release(sec)

SectionSpec == SectionInit /\ [][SectionNext]_sectionVars

-----------------------------------------------------------------------------
\* The state of sectionManager has the shape the code relies on, and the scan
\* always starts inside the assignable range.
SectionTypeOK ==
  /\ bitmap \in [0 .. Words - 1 -> SUBSET (0 .. WordBits - 1)]
  /\ nextFree = 2 \/ nextFree \in Assignable
  /\ acquired = NoSection \/ acquired \in Assignable

\* Sections 0 and 1 are occupied from the start and for ever: no statement is
\* ever given the section of direct statements, whatever is released.
ReservedHeld == Occupied(0) /\ Occupied(1)

\* The scan moves on past what it grants: the section the latest Acquire granted,
\* released in between, is granted by the next one only when no other section is
\* free.  Sections granted before it have no such promise: the next one may be a
\* section released just now, while others have been free for longer.
RotatesAway ==
  [][ \A sec \in Assignable :
        (acquired = sec /\ ~ Occupied(sec) /\ Occupied(sec)')
          => \A other \in Assignable \ {sec} : Occupied(other) ]_sectionVars

-----------------------------------------------------------------------------
\* The detailed allocator is a section pool: what is held is what the bitmap
\* says, a grant is always a section nobody held, and the error "maximum
\* concurrent prepared statements exceeded" means that all of them are held.
SectionPoolOf == INSTANCE SectionPool
                   WITH Pool    <- Assignable,
                        inUse   <- {sec \in Assignable : Occupied(sec)},
                        granted <- acquired

ImplementsPool == SectionPoolOf!Spec
=============================================================================
