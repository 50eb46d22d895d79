---------------------------- MODULE MCStatements ----------------------------
(* Instance of Statements for TLC: two callers, three statements and two     *)
(* assignable sections, so that the sections run out and are given again.    *)
EXTENDS Statements, TLC

\* acquired only reports to the step that reads it: for a property that does not
\* name it, states that differ in it alone are the same state.
Observed == <<bitmap, nextFree, lock, stmt, text, call>>

Symmetry == Permutations(Callers) \cup Permutations(Slots)
=============================================================================
