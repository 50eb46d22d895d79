---------------------------- MODULE SectionPool ----------------------------
(***************************************************************************)
(* What a connection expects of its DRDA package sections: a pool from     *)
(* which a section is granted only while nobody holds it, and which turns  *)
(* a caller away only when every section is held.  The order of grants is  *)
(* left open.  SectionManager implements this with a bitmap and a rotating *)
(* scan.                                                                   *)
(***************************************************************************)
EXTENDS Naturals

CONSTANT Pool          \* the sections that may be granted

VARIABLES inUse,       \* the sections held
          granted      \* the answer to the latest request: a section, or NoSection

poolVars == <<inUse, granted>>

NoSection == 0

Init == inUse = {} /\ granted = NoSection

Grant(sec) ==
  /\ sec \in Pool \ inUse
  /\ inUse' = inUse \cup {sec}
  /\ granted' = sec

Refuse ==
  /\ inUse = Pool
  /\ granted' = NoSection
  /\ UNCHANGED inUse

Return(sec) ==
  /\ sec \in inUse
  /\ inUse' = inUse \ {sec}
  /\ UNCHANGED granted

Next == Refuse \/ \E sec \in Pool : Grant(sec) \/ Return(sec)

Spec == Init /\ [][Next]_poolVars
============================================================================
