------------------------ MODULE TransactionsProofs ------------------------
(***************************************************************************)
(* Theorems about Transactions, for every number of writes and units and   *)
(* every length of a batch.                                                *)
(***************************************************************************)
EXTENDS Transactions, TLAPS

\* Operations are in the phases the code runs them in: a cleanup belongs to an open
\* Tx, a batch remembers whether it runs in one, and a connection out of the
\* application's hands does nothing.
PhasesMatch ==
  /\ doing = "cleanup" => tx # "none" /\ result # "ok"
  /\ IF doing \in {"batch", "undo"} THEN wasAutoCommit <=> tx = "none"
                                    ELSE row = 0 /\ wasAutoCommit
  /\ row <= issued
  /\ place # "held" => doing = "nothing" /\ tx = "none"

\* The unit of work in progress is the latest one, and what was asked for it fits.
UnitMatches ==
  /\ (tx # "none" \/ doing \in {"batch", "undo"}) => unit # NoUnit
  /\ (tx # "none" /\ doing # "cleanup") => asked[unit] = "begun"
  /\ (tx = "none" /\ doing \in {"batch", "undo"}) => asked[unit] = "batch"

\* Only what was issued has effects, and it was issued in a unit up to the latest.
WritesIssued ==
  /\ uow \cup durable \cup acked \subseteq 1 .. issued
  /\ \A w \in 1 .. issued : unitOf[w] \in 1 .. unit
  /\ \A w \in Writes : w > issued => unitOf[w] = NoUnit
  /\ doing = "batch" => \A w \in issued - row + 1 .. issued : unitOf[w] = unit

\* On a usable connection the server's unit of work is that of the application: it
\* holds writes of the latest unit only, and none once that is over.
UowIsOwn ==
  ~ broken =>
    /\ \A w \in uow : unitOf[w] = unit
    /\ ((tx = "none" /\ doing = "nothing") \/ doing = "cleanup") => uow = {}

\* Nothing of a unit in progress is durable ...
NotYetDurable ==
  ((tx # "none" /\ doing # "cleanup") \/ doing = "batch")
    => \A w \in durable : unitOf[w] # unit

\* ... and as long as the connection works all that has to become durable with it is
\* in the server's unit of work.
StillTogether ==
  (link /\ ~ broken) =>
    /\ (tx = "none" /\ doing = "batch")
         => \A w \in 1 .. issued : unitOf[w] = unit => w \in uow
    /\ doing = "batch" /\ unit \notin spoiled => issued - row + 1 .. issued \subseteq uow
    /\ (tx # "none" /\ doing # "cleanup" /\ unit \notin spoiled)
         => \A w \in acked : unitOf[w] = unit => w \in uow

\* A unit is spoiled only while or after it runs.
SpoiledKnown == spoiled \subseteq 1 .. unit

\* A write that is all or nothing with the others of its unit.
Counts(u, w) == unitOf[w] = u /\ (asked[u] = "batch" \/ w \in acked)

\* AllOrNothing without its sets of writes.
AtomicUnits ==
  \A u \in Units \ spoiled :
    \/ \A w \in Writes : Counts(u, w) => w \in durable
    \/ \A w \in Writes : Counts(u, w) => w \notin durable

TransactionsInv ==
  /\ TransactionsTypeOK
  /\ PhasesMatch /\ UnitMatches /\ WritesIssued /\ UowIsOwn
  /\ NotYetDurable /\ StillTogether /\ SpoiledKnown
  /\ AtomicUnits /\ NothingUnasked /\ IsolationTracked

-----------------------------------------------------------------------------
\* A statement on its own opens and ends a unit; one in a transaction joins its unit of work.
LEMMA ExecInv ==
  ASSUME TransactionsInv, NEW outcome \in {"done", "failed", "lost"}, Exec(outcome)
  PROVE  TransactionsInv'
<1> USE TransactionsAssumption DEF TransactionsInv, Writes, Units, NoUnit, connVars, serverVars, appVars,
      Exec, Idle, NewUnit, Issue, ExecEffect, Outcomes, Note, Kept, Committed, Undone, Refused
<1>1. TransactionsTypeOK'
  <2>1. /\ uow' \in SUBSET Writes /\ durable' \in SUBSET Writes
        /\ acked' \in SUBSET Writes /\ spoiled' \in SUBSET Units
    BY DEF TransactionsTypeOK
  <2>2. /\ issued' \in 0 .. MaxWrites /\ unitOf' \in [Writes -> Units \cup {NoUnit}]
        /\ unit' \in Units \cup {NoUnit}
    BY DEF TransactionsTypeOK
  <2>3. /\ asked' \in [Units -> {"nothing", "auto", "batch", "begun", "commit", "rollback"}]
        /\ told' \in [Units -> {"nothing", "committed", "undone", "failed"}]
    BY DEF TransactionsTypeOK
  <2>4. autoCommit' <=> tx' = "none" /\ doing' \notin {"batch", "undo"}
    BY DEF TransactionsTypeOK, PhasesMatch
  <2> QED BY <2>1, <2>2, <2>3, <2>4 DEF TransactionsTypeOK
<1>2. PhasesMatch'
  BY DEF PhasesMatch, TransactionsTypeOK
<1>3. UnitMatches'
  BY DEF UnitMatches, PhasesMatch, TransactionsTypeOK
<1>4. WritesIssued'
  <2>1. uow' \cup durable' \cup acked' \subseteq 1 .. issued'
    BY DEF WritesIssued, PhasesMatch, TransactionsTypeOK
  <2>2. \A w \in 1 .. issued' : unitOf'[w] \in 1 .. unit'
    BY DEF WritesIssued, UnitMatches, TransactionsTypeOK
  <2>3. \A w \in Writes : w > issued' => unitOf'[w] = NoUnit
    BY DEF WritesIssued, TransactionsTypeOK
  <2>4. doing' = "batch" => \A w \in issued' - row' + 1 .. issued' : unitOf'[w] = unit'
    BY DEF WritesIssued, PhasesMatch, TransactionsTypeOK
  <2> QED BY <2>1, <2>2, <2>3, <2>4 DEF WritesIssued
<1>5. UowIsOwn'
  BY DEF UowIsOwn, UnitMatches, PhasesMatch, WritesIssued, TransactionsTypeOK
<1>6. NotYetDurable'
  BY DEF NotYetDurable, UowIsOwn, UnitMatches, PhasesMatch, WritesIssued, TransactionsTypeOK
<1>7. StillTogether'
  BY DEF StillTogether, UowIsOwn, UnitMatches, PhasesMatch, WritesIssued, TransactionsTypeOK
<1>8. SpoiledKnown'
  BY DEF SpoiledKnown, UnitMatches, TransactionsTypeOK
<1>9. AtomicUnits'
  <2>1. issued' = issued + 1 /\ durable \subseteq 1 .. issued /\ acked \subseteq 1 .. issued
    BY DEF TransactionsTypeOK, WritesIssued
  <2>2. CASE tx = "none"
    <3>1. unit' = unit + 1 /\ asked'[unit'] = "auto" /\ unit' \in Units
      BY <2>2 DEF TransactionsTypeOK
    <3>2. ~ broken => autoCommit /\ uow = {}
      BY <2>2 DEF UowIsOwn, TransactionsTypeOK
    <3>3. durable' = durable \/ durable' = durable \cup {issued'}
      BY <3>2
    <3>4. issued' \in acked' => issued' \in durable'
      BY <2>1, <3>2 DEF TransactionsTypeOK
    <3>5. ASSUME NEW u \in Units \ spoiled, u # unit', NEW w \in Writes
          PROVE  /\ Counts(u, w)' <=> Counts(u, w)
                 /\ Counts(u, w) => (w \in durable' <=> w \in durable)
      BY <2>1, <3>1, <3>3, <3>5, SMTT(60) DEF Counts, WritesIssued, TransactionsTypeOK
    <3>6. ASSUME NEW u \in Units, u = unit', NEW w \in Writes
          PROVE  Counts(u, w)' => w \in durable'
      BY <2>1, <3>1, <3>6, <3>4 DEF Counts, WritesIssued, TransactionsTypeOK
    <3> QED BY <3>5, <3>6 DEF AtomicUnits
  <2>3. CASE tx # "none"
    <3>1. durable' = durable /\ unit' = unit /\ asked' = asked
      BY <2>3 DEF TransactionsTypeOK
    <3>2. ASSUME NEW u \in Units \ spoiled, u # unit
          PROVE  \A w \in Writes : Counts(u, w)' <=> Counts(u, w)
      BY <2>1, <3>1, <3>2 DEF Counts, WritesIssued, TransactionsTypeOK
    <3>3. \A w \in Writes : Counts(unit, w)' => w \notin durable'
      BY <2>1, <2>3, <3>1 DEF Counts, NotYetDurable, WritesIssued, TransactionsTypeOK
    <3> QED BY <3>1, <3>2, <3>3 DEF AtomicUnits
  <2> QED BY <2>2, <2>3
<1>10. NothingUnasked'
  BY SMTT(60) DEF NothingUnasked, NotYetDurable, UowIsOwn, UnitMatches, PhasesMatch, WritesIssued, TransactionsTypeOK
<1>11. IsolationTracked'
  BY DEF IsolationTracked, TransactionsTypeOK
<1> QED BY <1>1, <1>2, <1>3, <1>4, <1>5, <1>6, <1>7, <1>8, <1>9, <1>10, <1>11

\* A new unit starts with an empty unit of work on a usable connection.
LEMMA BeginInv ==
  ASSUME TransactionsInv, NEW outcome \in {"done", "failed", "lost"}, NEW iso \in {"CS", "UR"}, Begin(iso, outcome)
  PROVE  TransactionsInv'
<1> USE TransactionsAssumption DEF TransactionsInv, Writes, Units, NoUnit, connVars, serverVars, appVars,
      Begin, Idle, NewUnit, Outcomes, Note, Kept, Committed, Undone, Refused
<1>1. TransactionsTypeOK'
  <2>1. /\ uow' \in SUBSET Writes /\ durable' \in SUBSET Writes
        /\ acked' \in SUBSET Writes /\ spoiled' \in SUBSET Units
    BY DEF TransactionsTypeOK
  <2>2. /\ issued' \in 0 .. MaxWrites /\ unitOf' \in [Writes -> Units \cup {NoUnit}]
        /\ unit' \in Units \cup {NoUnit}
    BY DEF TransactionsTypeOK
  <2>3. /\ asked' \in [Units -> {"nothing", "auto", "batch", "begun", "commit", "rollback"}]
        /\ told' \in [Units -> {"nothing", "committed", "undone", "failed"}]
    BY DEF TransactionsTypeOK
  <2>4. autoCommit' <=> tx' = "none" /\ doing' \notin {"batch", "undo"}
    BY DEF TransactionsTypeOK, PhasesMatch
  <2> QED BY <2>1, <2>2, <2>3, <2>4, ZenonT(60) DEF TransactionsTypeOK
<1>2. PhasesMatch'
  BY DEF PhasesMatch, TransactionsTypeOK
<1>3. UnitMatches'
  BY DEF UnitMatches, PhasesMatch, TransactionsTypeOK
<1>4. WritesIssued'
  <2>1. uow' \cup durable' \cup acked' \subseteq 1 .. issued'
    BY DEF WritesIssued, PhasesMatch, TransactionsTypeOK
  <2>2. \A w \in 1 .. issued' : unitOf'[w] \in 1 .. unit'
    BY DEF WritesIssued, UnitMatches, TransactionsTypeOK
  <2>3. \A w \in Writes : w > issued' => unitOf'[w] = NoUnit
    BY DEF WritesIssued, TransactionsTypeOK
  <2>4. doing' = "batch" => \A w \in issued' - row' + 1 .. issued' : unitOf'[w] = unit'
    BY DEF WritesIssued, PhasesMatch, TransactionsTypeOK
  <2> QED BY <2>1, <2>2, <2>3, <2>4 DEF WritesIssued
<1>5. UowIsOwn'
  BY DEF UowIsOwn, UnitMatches, PhasesMatch, WritesIssued, TransactionsTypeOK
<1>6. NotYetDurable'
  <2>1. \A w \in durable' : w \in 1 .. issued /\ unitOf'[w] \in 1 .. unit
    BY DEF WritesIssued
  <2>2. unit' = unit + 1 /\ unit \in Nat
    BY DEF TransactionsTypeOK
  <2> QED BY <2>1, <2>2 DEF NotYetDurable
<1>7. StillTogether'
  BY DEF StillTogether, UowIsOwn, UnitMatches, PhasesMatch, WritesIssued, TransactionsTypeOK
<1>8. SpoiledKnown'
  BY DEF SpoiledKnown, UnitMatches, TransactionsTypeOK
<1>9. AtomicUnits'
  BY SMTT(60) DEF AtomicUnits, Counts, NotYetDurable, StillTogether, UowIsOwn, UnitMatches, PhasesMatch, WritesIssued, TransactionsTypeOK
<1>10. NothingUnasked'
  <2>1. \A w \in durable' : w \in 1 .. issued /\ unitOf'[w] \in 1 .. unit
    BY DEF WritesIssued
  <2>2. unit' = unit + 1 /\ unit \in Nat
    BY DEF TransactionsTypeOK
  <2>3. \A w \in durable' : w \in durable
    BY DEF UowIsOwn, PhasesMatch
  <2> QED BY <2>1, <2>2, <2>3 DEF NothingUnasked, TransactionsTypeOK
<1>11. IsolationTracked'
  BY DEF IsolationTracked, TransactionsTypeOK
<1> QED BY <1>1, <1>2, <1>3, <1>4, <1>5, <1>6, <1>7, <1>8, <1>9, <1>10, <1>11

\* A commit makes all of the unit durable or nothing; the server's unit of work is then empty.
LEMMA CommitInv ==
  ASSUME TransactionsInv, NEW outcome \in {"done", "failed", "lost"}, Commit(outcome)
  PROVE  TransactionsInv'
<1> USE TransactionsAssumption DEF TransactionsInv, Writes, Units, NoUnit, connVars, serverVars, appVars,
      Commit, Idle, CommitEffect, Outcomes, Note, Kept, Committed, Undone, Refused
<1>1. TransactionsTypeOK'
  BY DEF TransactionsTypeOK, PhasesMatch
<1>2. PhasesMatch'
  BY DEF PhasesMatch, TransactionsTypeOK
<1>3. UnitMatches'
  BY DEF UnitMatches, PhasesMatch, TransactionsTypeOK
<1>4. WritesIssued'
  BY DEF WritesIssued, PhasesMatch, TransactionsTypeOK
<1>5. UowIsOwn'
  BY DEF UowIsOwn, UnitMatches, PhasesMatch, WritesIssued, TransactionsTypeOK
<1>6. NotYetDurable'
  BY DEF NotYetDurable, UowIsOwn, UnitMatches, PhasesMatch, WritesIssued, TransactionsTypeOK
<1>7. StillTogether'
  BY DEF StillTogether, UowIsOwn, UnitMatches, PhasesMatch, WritesIssued, TransactionsTypeOK
<1>8. SpoiledKnown'
  BY DEF SpoiledKnown, UnitMatches, TransactionsTypeOK
<1>9. AtomicUnits'
  BY DEF AtomicUnits, Counts, NotYetDurable, StillTogether, UowIsOwn, UnitMatches, PhasesMatch, WritesIssued, TransactionsTypeOK
<1>10. NothingUnasked'
  BY SMTT(60) DEF NothingUnasked, NotYetDurable, UowIsOwn, UnitMatches, PhasesMatch, WritesIssued, TransactionsTypeOK
<1>11. IsolationTracked'
  BY DEF IsolationTracked, TransactionsTypeOK
<1> QED BY <1>1, <1>2, <1>3, <1>4, <1>5, <1>6, <1>7, <1>8, <1>9, <1>10, <1>11

\* A rollback leaves nothing of the unit durable.
LEMMA RollbackInv ==
  ASSUME TransactionsInv, NEW outcome \in {"done", "failed", "lost"}, Rollback(outcome)
  PROVE  TransactionsInv'
<1> USE TransactionsAssumption DEF TransactionsInv, Writes, Units, NoUnit, connVars, serverVars, appVars,
      Rollback, Idle, RollbackEffect, Outcomes, Note, Kept, Committed, Undone, Refused
<1>1. TransactionsTypeOK'
  BY DEF TransactionsTypeOK, PhasesMatch
<1>2. PhasesMatch' /\ UnitMatches' /\ WritesIssued' /\ SpoiledKnown'
  BY DEF PhasesMatch, UnitMatches, WritesIssued, SpoiledKnown, TransactionsTypeOK
<1>3. UowIsOwn' /\ NotYetDurable' /\ StillTogether'
  BY DEF UowIsOwn, NotYetDurable, StillTogether, UnitMatches, PhasesMatch, WritesIssued, TransactionsTypeOK
<1>4. AtomicUnits'
  BY DEF AtomicUnits, Counts, UowIsOwn, UnitMatches, PhasesMatch, WritesIssued, TransactionsTypeOK
<1>5. NothingUnasked'
  BY SMTT(60) DEF NothingUnasked, NotYetDurable, UowIsOwn, UnitMatches, PhasesMatch, WritesIssued, TransactionsTypeOK
<1>6. IsolationTracked'
  BY DEF IsolationTracked, PhasesMatch, TransactionsTypeOK
<1> QED BY <1>1, <1>2, <1>3, <1>4, <1>5, <1>6

\* The cleanup ends the transaction and forgets no isolation.
LEMMA CleanupInv ==
  ASSUME TransactionsInv, NEW outcome \in {"done", "failed", "lost"}, Cleanup(outcome)
  PROVE  TransactionsInv'
<1> USE TransactionsAssumption DEF TransactionsInv, Writes, Units, NoUnit, connVars, serverVars, appVars,
      Cleanup, Restored, Outcomes, Note
<1>1. TransactionsTypeOK'
  <2>1. /\ uow' \in SUBSET Writes /\ durable' \in SUBSET Writes
        /\ acked' \in SUBSET Writes /\ spoiled' \in SUBSET Units
    BY DEF TransactionsTypeOK
  <2>2. /\ issued' \in 0 .. MaxWrites /\ unitOf' \in [Writes -> Units \cup {NoUnit}]
        /\ unit' \in Units \cup {NoUnit}
    BY DEF TransactionsTypeOK
  <2>3. /\ asked' \in [Units -> {"nothing", "auto", "batch", "begun", "commit", "rollback"}]
        /\ told' \in [Units -> {"nothing", "committed", "undone", "failed"}]
    BY DEF TransactionsTypeOK, PhasesMatch
  <2>4. autoCommit' <=> tx' = "none" /\ doing' \notin {"batch", "undo"}
    BY DEF TransactionsTypeOK, PhasesMatch
  <2> QED BY <2>1, <2>2, <2>3, <2>4 DEF TransactionsTypeOK
<1>2. PhasesMatch' /\ UnitMatches' /\ WritesIssued' /\ SpoiledKnown'
  BY DEF PhasesMatch, UnitMatches, WritesIssued, SpoiledKnown, TransactionsTypeOK
<1>3. UowIsOwn' /\ NotYetDurable' /\ StillTogether'
  BY DEF UowIsOwn, NotYetDurable, StillTogether, UnitMatches, PhasesMatch, WritesIssued, TransactionsTypeOK
<1>4. AtomicUnits'
  BY DEF AtomicUnits, Counts, UowIsOwn, UnitMatches, PhasesMatch, WritesIssued, TransactionsTypeOK
<1>5. NothingUnasked'
  BY SMTT(60) DEF NothingUnasked, NotYetDurable, UowIsOwn, UnitMatches, PhasesMatch, WritesIssued, TransactionsTypeOK
<1>6. IsolationTracked'
  BY DEF IsolationTracked, PhasesMatch, TransactionsTypeOK
<1> QED BY <1>1, <1>2, <1>3, <1>4, <1>5, <1>6

\* A batch starts with none of its rows executed.
LEMMA BatchStartInv ==
  ASSUME TransactionsInv, BatchStart
  PROVE  TransactionsInv'
<1> USE TransactionsAssumption DEF TransactionsInv, Writes, Units, NoUnit, connVars, serverVars, appVars,
      BatchStart, Idle, NewUnit, SwitchOff
<1>1. TransactionsTypeOK'
  <2>1. /\ uow' \in SUBSET Writes /\ durable' \in SUBSET Writes
        /\ acked' \in SUBSET Writes /\ spoiled' \in SUBSET Units
    BY DEF TransactionsTypeOK
  <2>2. /\ issued' \in 0 .. MaxWrites /\ unitOf' \in [Writes -> Units \cup {NoUnit}]
        /\ unit' \in Units \cup {NoUnit}
    BY DEF TransactionsTypeOK
  <2>3. /\ asked' \in [Units -> {"nothing", "auto", "batch", "begun", "commit", "rollback"}]
        /\ told' \in [Units -> {"nothing", "committed", "undone", "failed"}]
    BY DEF TransactionsTypeOK
  <2>4. autoCommit' <=> tx' = "none" /\ doing' \notin {"batch", "undo"}
    BY DEF TransactionsTypeOK, PhasesMatch
  <2>5. /\ place' \in {"held", "pooled", "discarded"} /\ tx' \in {"none", "CS", "UR"}
        /\ doing' \in {"nothing", "cleanup", "batch", "undo"} /\ row' \in 0 .. BatchRows
        /\ result' \in {"ok", "committed", "undone", "failed"}
    BY DEF TransactionsTypeOK
  <2>6. /\ autoCommit' \in BOOLEAN /\ wasAutoCommit' \in BOOLEAN /\ hasCustomIso' \in BOOLEAN
        /\ broken' \in BOOLEAN /\ stream' \in BOOLEAN /\ link' \in BOOLEAN
        /\ isolation' \in {"CS", "UR"}
    BY DEF TransactionsTypeOK
  <2> QED BY <2>1, <2>2, <2>3, <2>4, <2>5, <2>6 DEF TransactionsTypeOK
<1>2. PhasesMatch' /\ UnitMatches' /\ WritesIssued' /\ SpoiledKnown'
  BY DEF PhasesMatch, UnitMatches, WritesIssued, SpoiledKnown, TransactionsTypeOK
<1>3. UowIsOwn' /\ NotYetDurable' /\ StillTogether'
  BY DEF UowIsOwn, NotYetDurable, StillTogether, UnitMatches, PhasesMatch, WritesIssued, TransactionsTypeOK
<1>4. AtomicUnits'
  BY DEF AtomicUnits, Counts, UowIsOwn, UnitMatches, PhasesMatch, WritesIssued, TransactionsTypeOK
<1>5. NothingUnasked'
  BY SMTT(60) DEF NothingUnasked, NotYetDurable, UowIsOwn, UnitMatches, PhasesMatch, WritesIssued, TransactionsTypeOK
<1>6. IsolationTracked'
  BY DEF IsolationTracked, PhasesMatch, TransactionsTypeOK
<1> QED BY <1>1, <1>2, <1>3, <1>4, <1>5, <1>6

\* A row joins the unit of work, for auto-commit is off.
LEMMA BatchRowInv ==
  ASSUME TransactionsInv, NEW outcome \in {"done", "failed", "lost"}, BatchRow(outcome)
  PROVE  TransactionsInv'
<1> USE TransactionsAssumption DEF TransactionsInv, Writes, Units, NoUnit, connVars, serverVars, appVars,
      BatchRow, Issue, ExecEffect, Outcomes, Note, Kept, Committed, Undone, Refused
<1>1. TransactionsTypeOK'
  BY DEF TransactionsTypeOK, PhasesMatch
<1>2. PhasesMatch'
  BY DEF PhasesMatch, TransactionsTypeOK
<1>3. UnitMatches'
  BY DEF UnitMatches, PhasesMatch, TransactionsTypeOK
<1>4. WritesIssued'
  <2>1. uow' \cup durable' \cup acked' \subseteq 1 .. issued'
    BY DEF WritesIssued, PhasesMatch, TransactionsTypeOK
  <2>2. \A w \in 1 .. issued' : unitOf'[w] \in 1 .. unit'
    BY DEF WritesIssued, UnitMatches, TransactionsTypeOK
  <2>3. \A w \in Writes : w > issued' => unitOf'[w] = NoUnit
    BY DEF WritesIssued, TransactionsTypeOK
  <2>4. doing' = "batch" => \A w \in issued' - row' + 1 .. issued' : unitOf'[w] = unit'
    BY DEF WritesIssued, PhasesMatch, TransactionsTypeOK
  <2> QED BY <2>1, <2>2, <2>3, <2>4 DEF WritesIssued
<1>5. UowIsOwn'
  BY DEF UowIsOwn, UnitMatches, PhasesMatch, WritesIssued, TransactionsTypeOK
<1>6. NotYetDurable'
  BY DEF NotYetDurable, UowIsOwn, UnitMatches, PhasesMatch, WritesIssued, TransactionsTypeOK
<1>7. StillTogether'
  <2> SUFFICES ASSUME link', ~ broken' PROVE StillTogether'
    BY DEF StillTogether
  <2>1. link /\ ~ broken /\ issued' = issued + 1 /\ ~ autoCommit
    BY DEF TransactionsTypeOK
  <2>2. CASE outcome = "done"
    <3>1. uow' = uow \cup {issued'} /\ row' = row + 1 /\ doing' = "batch"
      BY <2>1, <2>2
    <3>2. \A w \in 1 .. issued' : w \in 1 .. issued \/ w = issued'
      BY <2>1 DEF TransactionsTypeOK
    <3>3. \A w \in Writes : w # issued' => unitOf'[w] = unitOf[w]
      BY DEF TransactionsTypeOK
    <3>4. acked \subseteq 1 .. issued
      BY DEF WritesIssued
    <3>5. \A w \in issued' - row' + 1 .. issued' : w \in issued - row + 1 .. issued \/ w = issued'
      BY <2>1, <3>1 DEF TransactionsTypeOK
    <3> QED BY <2>1, <3>1, <3>2, <3>3, <3>4, <3>5 DEF StillTogether, TransactionsTypeOK
  <2>3. CASE outcome = "failed"
    <3>1. uow' = uow /\ doing' = "undo"
      BY <2>1, <2>3
    <3>2. \A w \in acked : w \in 1 .. issued /\ unitOf'[w] = unitOf[w]
      BY <2>1 DEF WritesIssued, TransactionsTypeOK
    <3> QED BY <2>1, <3>1, <3>2 DEF StillTogether
  <2> QED BY <2>2, <2>3
<1>8. SpoiledKnown'
  BY DEF SpoiledKnown, UnitMatches, TransactionsTypeOK
<1>9. AtomicUnits'
  <2>1. durable' = durable /\ issued' = issued + 1 /\ durable \subseteq 1 .. issued
    BY DEF TransactionsTypeOK, WritesIssued
  <2>2. ASSUME NEW u \in Units \ spoiled, u # unit
        PROVE  \A w \in Writes : Counts(u, w)' <=> Counts(u, w)
    BY <2>2, <2>1 DEF Counts, WritesIssued, TransactionsTypeOK
  <2>3. \A w \in Writes : Counts(unit, w)' => w \notin durable'
    BY <2>1 DEF Counts, NotYetDurable, WritesIssued, TransactionsTypeOK
  <2> QED BY <2>1, <2>2, <2>3 DEF AtomicUnits
<1>10. NothingUnasked'
  BY SMTT(60) DEF NothingUnasked, NotYetDurable, UowIsOwn, UnitMatches, PhasesMatch, WritesIssued, TransactionsTypeOK
<1>11. IsolationTracked'
  BY DEF IsolationTracked, TransactionsTypeOK
<1> QED BY <1>1, <1>2, <1>3, <1>4, <1>5, <1>6, <1>7, <1>8, <1>9, <1>10, <1>11

\* The rows become durable together, or wait for the commit of their transaction.
LEMMA BatchCommitInv ==
  ASSUME TransactionsInv, NEW outcome \in {"done", "failed", "lost"}, BatchCommit(outcome)
  PROVE  TransactionsInv'
<1> USE TransactionsAssumption DEF TransactionsInv, Writes, Units, NoUnit, connVars, serverVars, appVars,
      BatchCommit, BatchEnd, SwitchBack, CommitEffect, Outcomes, Note, Kept, Committed, Undone, Refused
<1>1. TransactionsTypeOK'
  <2>1. /\ uow' \in SUBSET Writes /\ durable' \in SUBSET Writes
        /\ acked' \in SUBSET Writes /\ spoiled' \in SUBSET Units
    BY DEF TransactionsTypeOK, PhasesMatch
  <2>2. /\ issued' \in 0 .. MaxWrites /\ unitOf' \in [Writes -> Units \cup {NoUnit}]
        /\ unit' \in Units \cup {NoUnit}
    BY DEF TransactionsTypeOK
  <2>3. /\ asked' \in [Units -> {"nothing", "auto", "batch", "begun", "commit", "rollback"}]
        /\ told' \in [Units -> {"nothing", "committed", "undone", "failed"}]
    BY DEF TransactionsTypeOK
  <2>4. autoCommit' <=> tx' = "none" /\ doing' \notin {"batch", "undo"}
    BY DEF TransactionsTypeOK, PhasesMatch
  <2>5. /\ place' \in {"held", "pooled", "discarded"} /\ tx' \in {"none", "CS", "UR"}
        /\ doing' \in {"nothing", "cleanup", "batch", "undo"} /\ row' \in 0 .. BatchRows
        /\ result' \in {"ok", "committed", "undone", "failed"}
    BY DEF TransactionsTypeOK
  <2>6. /\ autoCommit' \in BOOLEAN /\ wasAutoCommit' \in BOOLEAN /\ hasCustomIso' \in BOOLEAN
        /\ broken' \in BOOLEAN /\ stream' \in BOOLEAN /\ link' \in BOOLEAN
        /\ isolation' \in {"CS", "UR"}
    BY DEF TransactionsTypeOK
  <2> QED BY <2>1, <2>2, <2>3, <2>4, <2>5, <2>6 DEF TransactionsTypeOK
<1>2. PhasesMatch'
  BY DEF PhasesMatch, TransactionsTypeOK
<1>3. UnitMatches'
  BY DEF UnitMatches, PhasesMatch, TransactionsTypeOK
<1>4. WritesIssued'
  BY DEF WritesIssued, PhasesMatch, TransactionsTypeOK
<1>5. UowIsOwn'
  BY DEF UowIsOwn, UnitMatches, PhasesMatch, WritesIssued, TransactionsTypeOK
<1>6. NotYetDurable'
  BY DEF NotYetDurable, UowIsOwn, UnitMatches, PhasesMatch, WritesIssued, TransactionsTypeOK
<1>7. StillTogether'
  BY DEF StillTogether, UowIsOwn, UnitMatches, PhasesMatch, WritesIssued, TransactionsTypeOK
<1>8. SpoiledKnown'
  BY DEF SpoiledKnown, UnitMatches, TransactionsTypeOK
<1>9. AtomicUnits'
  BY SMTT(60) DEF AtomicUnits, Counts, NotYetDurable, StillTogether, UowIsOwn, UnitMatches, PhasesMatch, WritesIssued, TransactionsTypeOK
<1>10. NothingUnasked'
  BY SMTT(60) DEF NothingUnasked, NotYetDurable, UowIsOwn, UnitMatches, PhasesMatch, WritesIssued, TransactionsTypeOK
<1>11. IsolationTracked'
  BY DEF IsolationTracked, TransactionsTypeOK
<1> QED BY <1>1, <1>2, <1>3, <1>4, <1>5, <1>6, <1>7, <1>8, <1>9, <1>10, <1>11

\* A failed batch leaves none of its rows, outside a transaction.
LEMMA BatchUndoInv ==
  ASSUME TransactionsInv, NEW outcome \in {"done", "failed", "lost"}, BatchUndo(outcome)
  PROVE  TransactionsInv'
<1> USE TransactionsAssumption DEF TransactionsInv, Writes, Units, NoUnit, connVars, serverVars, appVars,
      BatchUndo, UndoRows, BatchEnd, SwitchBack, RollbackEffect, Outcomes, Note, Kept, Committed, Undone, Refused
<1>1. TransactionsTypeOK'
  <2>1. /\ uow' \in SUBSET Writes /\ durable' \in SUBSET Writes
        /\ acked' \in SUBSET Writes /\ spoiled' \in SUBSET Units
    BY DEF TransactionsTypeOK, UnitMatches
  <2>2. /\ issued' \in 0 .. MaxWrites /\ unitOf' \in [Writes -> Units \cup {NoUnit}]
        /\ unit' \in Units \cup {NoUnit}
    BY DEF TransactionsTypeOK
  <2>3. /\ asked' \in [Units -> {"nothing", "auto", "batch", "begun", "commit", "rollback"}]
        /\ told' \in [Units -> {"nothing", "committed", "undone", "failed"}]
    BY DEF TransactionsTypeOK
  <2>4. autoCommit' <=> tx' = "none" /\ doing' \notin {"batch", "undo"}
    BY DEF TransactionsTypeOK, PhasesMatch
  <2> QED BY <2>1, <2>2, <2>3, <2>4 DEF TransactionsTypeOK
<1>2. PhasesMatch'
  BY DEF PhasesMatch, TransactionsTypeOK
<1>3. UnitMatches'
  BY DEF UnitMatches, PhasesMatch, TransactionsTypeOK
<1>4. WritesIssued'
  BY DEF WritesIssued, PhasesMatch, TransactionsTypeOK
<1>5. UowIsOwn'
  BY DEF UowIsOwn, UnitMatches, PhasesMatch, WritesIssued, TransactionsTypeOK
<1>6. NotYetDurable'
  BY DEF NotYetDurable, UowIsOwn, UnitMatches, PhasesMatch, WritesIssued, TransactionsTypeOK
<1>7. StillTogether'
  BY DEF StillTogether, UowIsOwn, UnitMatches, PhasesMatch, WritesIssued, TransactionsTypeOK
<1>8. SpoiledKnown'
  BY DEF SpoiledKnown, UnitMatches, TransactionsTypeOK
<1>9. AtomicUnits'
  BY SMTT(60) DEF AtomicUnits, Counts, NotYetDurable, StillTogether, UowIsOwn, UnitMatches, PhasesMatch, WritesIssued, TransactionsTypeOK
<1>10. NothingUnasked'
  BY SMTT(60) DEF NothingUnasked, NotYetDurable, UowIsOwn, UnitMatches, PhasesMatch, WritesIssued, TransactionsTypeOK
<1>11. IsolationTracked'
  BY DEF IsolationTracked, TransactionsTypeOK
<1> QED BY <1>1, <1>2, <1>3, <1>4, <1>5, <1>6, <1>7, <1>8, <1>9, <1>10, <1>11

\* A ping finds nothing to commit in auto-commit mode and commits nothing otherwise.
LEMMA PingInv ==
  ASSUME TransactionsInv, NEW outcome \in {"done", "failed", "lost"}, Ping(outcome)
  PROVE  TransactionsInv'
<1> USE TransactionsAssumption DEF TransactionsInv, Writes, Units, NoUnit, connVars, serverVars, appVars,
      Ping, Idle, PingEffect, Outcomes, Note, Kept, Committed, Undone, Refused
<1>1. TransactionsTypeOK'
  BY ZenonT(60) DEF TransactionsTypeOK, PhasesMatch
<1>2. PhasesMatch' /\ UnitMatches' /\ WritesIssued' /\ SpoiledKnown'
  BY DEF PhasesMatch, UnitMatches, WritesIssued, SpoiledKnown, TransactionsTypeOK
<1>3. UowIsOwn' /\ NotYetDurable' /\ StillTogether'
  BY DEF UowIsOwn, NotYetDurable, StillTogether, UnitMatches, PhasesMatch, WritesIssued, TransactionsTypeOK
<1>4. AtomicUnits'
  BY DEF AtomicUnits, Counts, UowIsOwn, UnitMatches, PhasesMatch, WritesIssued, TransactionsTypeOK
<1>5. NothingUnasked'
  <2>1. durable' = durable
    BY DEF UowIsOwn, TransactionsTypeOK
  <2> QED BY <2>1 DEF NothingUnasked
<1>6. IsolationTracked'
  BY DEF IsolationTracked, PhasesMatch, TransactionsTypeOK
<1> QED BY <1>1, <1>2, <1>3, <1>4, <1>5, <1>6

\* Opening a stream changes no unit of work.
LEMMA OpenStreamInv ==
  ASSUME TransactionsInv, OpenStream
  PROVE  TransactionsInv'
<1> USE TransactionsAssumption DEF TransactionsInv, Writes, Units, NoUnit, connVars, serverVars, appVars,
      OpenStream, Idle
<1>1. TransactionsTypeOK'
  BY DEF TransactionsTypeOK, PhasesMatch
<1>2. PhasesMatch' /\ UnitMatches' /\ WritesIssued' /\ SpoiledKnown'
  BY DEF PhasesMatch, UnitMatches, WritesIssued, SpoiledKnown, TransactionsTypeOK
<1>3. UowIsOwn' /\ NotYetDurable' /\ StillTogether'
  BY DEF UowIsOwn, NotYetDurable, StillTogether, UnitMatches, PhasesMatch, WritesIssued, TransactionsTypeOK
<1>4. AtomicUnits'
  BY DEF AtomicUnits, Counts, UowIsOwn, UnitMatches, PhasesMatch, WritesIssued, TransactionsTypeOK
<1>5. NothingUnasked'
  BY SMTT(60) DEF NothingUnasked, NotYetDurable, UowIsOwn, UnitMatches, PhasesMatch, WritesIssued, TransactionsTypeOK
<1>6. IsolationTracked'
  BY DEF IsolationTracked, PhasesMatch, TransactionsTypeOK
<1> QED BY <1>1, <1>2, <1>3, <1>4, <1>5, <1>6

\* The commit of a stream finds nothing that waits for the application.
LEMMA EndStreamInv ==
  ASSUME TransactionsInv, NEW outcome \in {"done", "failed", "lost"}, EndStream(outcome)
  PROVE  TransactionsInv'
<1> USE TransactionsAssumption DEF TransactionsInv, Writes, Units, NoUnit, connVars, serverVars, appVars,
      EndStream, CommitEffect, Outcomes, Note, Kept, Committed, Undone, Refused
<1>1. TransactionsTypeOK'
  <2>1. /\ uow' \in SUBSET Writes /\ durable' \in SUBSET Writes
        /\ acked' \in SUBSET Writes /\ spoiled' \in SUBSET Units
    BY DEF TransactionsTypeOK
  <2>2. /\ issued' \in 0 .. MaxWrites /\ unitOf' \in [Writes -> Units \cup {NoUnit}]
        /\ unit' \in Units \cup {NoUnit}
    BY DEF TransactionsTypeOK
  <2>3. /\ asked' \in [Units -> {"nothing", "auto", "batch", "begun", "commit", "rollback"}]
        /\ told' \in [Units -> {"nothing", "committed", "undone", "failed"}]
    BY DEF TransactionsTypeOK
  <2>4. autoCommit' <=> tx' = "none" /\ doing' \notin {"batch", "undo"}
    BY DEF TransactionsTypeOK, PhasesMatch
  <2>5. /\ place' \in {"held", "pooled", "discarded"} /\ tx' \in {"none", "CS", "UR"}
        /\ doing' \in {"nothing", "cleanup", "batch", "undo"} /\ row' \in 0 .. BatchRows
        /\ result' \in {"ok", "committed", "undone", "failed"}
    BY DEF TransactionsTypeOK
  <2>6. /\ autoCommit' \in BOOLEAN /\ wasAutoCommit' \in BOOLEAN /\ hasCustomIso' \in BOOLEAN
        /\ broken' \in BOOLEAN /\ stream' \in BOOLEAN /\ link' \in BOOLEAN
        /\ isolation' \in {"CS", "UR"}
    BY DEF TransactionsTypeOK
  <2> QED BY <2>1, <2>2, <2>3, <2>4, <2>5, <2>6 DEF TransactionsTypeOK
<1>2. PhasesMatch' /\ UnitMatches' /\ WritesIssued' /\ SpoiledKnown'
  BY DEF PhasesMatch, UnitMatches, WritesIssued, SpoiledKnown, TransactionsTypeOK
<1>3. UowIsOwn' /\ NotYetDurable' /\ StillTogether'
  BY DEF UowIsOwn, NotYetDurable, StillTogether, UnitMatches, PhasesMatch, WritesIssued, TransactionsTypeOK
<1>4. AtomicUnits'
  BY DEF AtomicUnits, Counts, UowIsOwn, UnitMatches, PhasesMatch, WritesIssued, TransactionsTypeOK
<1>5. NothingUnasked'
  BY SMTT(60) DEF NothingUnasked, NotYetDurable, UowIsOwn, UnitMatches, PhasesMatch, WritesIssued, TransactionsTypeOK
<1>6. IsolationTracked'
  BY DEF IsolationTracked, PhasesMatch, TransactionsTypeOK
<1> QED BY <1>1, <1>2, <1>3, <1>4, <1>5, <1>6

\* A connection goes to the pool with nothing open, or is closed.
LEMMA PutBackInv ==
  ASSUME TransactionsInv, PutBack
  PROVE  TransactionsInv'
<1> USE TransactionsAssumption DEF TransactionsInv, Writes, Units, NoUnit, connVars, serverVars, appVars,
      PutBack, Idle, Discard, Kept, Undone
<1>1. TransactionsTypeOK'
  BY DEF TransactionsTypeOK, PhasesMatch
<1>2. PhasesMatch' /\ UnitMatches' /\ WritesIssued' /\ SpoiledKnown'
  BY DEF PhasesMatch, UnitMatches, WritesIssued, SpoiledKnown, TransactionsTypeOK
<1>3. UowIsOwn' /\ NotYetDurable' /\ StillTogether'
  BY DEF UowIsOwn, NotYetDurable, StillTogether, UnitMatches, PhasesMatch, WritesIssued, TransactionsTypeOK
<1>4. AtomicUnits'
  BY DEF AtomicUnits, Counts, UowIsOwn, UnitMatches, PhasesMatch, WritesIssued, TransactionsTypeOK
<1>5. NothingUnasked'
  BY ZenonT(60) DEF NothingUnasked, NotYetDurable, UowIsOwn, UnitMatches, PhasesMatch, WritesIssued, TransactionsTypeOK
<1>6. IsolationTracked'
  BY DEF IsolationTracked, PhasesMatch, TransactionsTypeOK
<1> QED BY <1>1, <1>2, <1>3, <1>4, <1>5, <1>6

\* A connection leaves the pool with its isolation restored, or is closed.
LEMMA CheckoutInv ==
  ASSUME TransactionsInv, NEW outcome \in {"done", "failed", "lost"}, Checkout(outcome)
  PROVE  TransactionsInv'
<1> USE TransactionsAssumption DEF TransactionsInv, Writes, Units, NoUnit, connVars, serverVars, appVars,
      Checkout, ResetIsolation, Discard, Outcomes, Note, Kept, Committed, Undone, Refused
<1>1. TransactionsTypeOK'
  BY DEF TransactionsTypeOK, PhasesMatch
<1>2. PhasesMatch' /\ UnitMatches' /\ WritesIssued' /\ SpoiledKnown'
  BY DEF PhasesMatch, UnitMatches, WritesIssued, SpoiledKnown, TransactionsTypeOK
<1>3. UowIsOwn' /\ NotYetDurable' /\ StillTogether'
  BY DEF UowIsOwn, NotYetDurable, StillTogether, UnitMatches, PhasesMatch, WritesIssued, TransactionsTypeOK
<1>4. AtomicUnits'
  BY DEF AtomicUnits, Counts, UowIsOwn, UnitMatches, PhasesMatch, WritesIssued, TransactionsTypeOK
<1>5. NothingUnasked'
  BY ZenonT(60) DEF NothingUnasked, NotYetDurable, UowIsOwn, UnitMatches, PhasesMatch, WritesIssued, TransactionsTypeOK
<1>6. IsolationTracked'
  BY DEF IsolationTracked, PhasesMatch, TransactionsTypeOK
<1> QED BY <1>1, <1>2, <1>3, <1>4, <1>5, <1>6

\* A lost connection takes its unit of work with it.
LEMMA LoseLinkInv ==
  ASSUME TransactionsInv, LoseLink
  PROVE  TransactionsInv'
<1> USE TransactionsAssumption DEF TransactionsInv, Writes, Units, NoUnit, connVars, serverVars, appVars,
      LoseLink, Undone
<1>1. TransactionsTypeOK'
  <2>1. /\ uow' \in SUBSET Writes /\ durable' \in SUBSET Writes
        /\ acked' \in SUBSET Writes /\ spoiled' \in SUBSET Units
    BY DEF TransactionsTypeOK
  <2>2. /\ issued' \in 0 .. MaxWrites /\ unitOf' \in [Writes -> Units \cup {NoUnit}]
        /\ unit' \in Units \cup {NoUnit}
    BY DEF TransactionsTypeOK
  <2>3. /\ asked' \in [Units -> {"nothing", "auto", "batch", "begun", "commit", "rollback"}]
        /\ told' \in [Units -> {"nothing", "committed", "undone", "failed"}]
    BY DEF TransactionsTypeOK
  <2>4. autoCommit' <=> tx' = "none" /\ doing' \notin {"batch", "undo"}
    BY DEF TransactionsTypeOK, PhasesMatch
  <2>5. /\ place' \in {"held", "pooled", "discarded"} /\ tx' \in {"none", "CS", "UR"}
        /\ doing' \in {"nothing", "cleanup", "batch", "undo"} /\ row' \in 0 .. BatchRows
        /\ result' \in {"ok", "committed", "undone", "failed"}
    BY DEF TransactionsTypeOK
  <2>6. /\ autoCommit' \in BOOLEAN /\ wasAutoCommit' \in BOOLEAN /\ hasCustomIso' \in BOOLEAN
        /\ broken' \in BOOLEAN /\ stream' \in BOOLEAN /\ link' \in BOOLEAN
        /\ isolation' \in {"CS", "UR"}
    BY DEF TransactionsTypeOK
  <2> QED BY <2>1, <2>2, <2>3, <2>4, <2>5, <2>6 DEF TransactionsTypeOK
<1>2. PhasesMatch' /\ UnitMatches' /\ WritesIssued' /\ SpoiledKnown'
  BY DEF PhasesMatch, UnitMatches, WritesIssued, SpoiledKnown, TransactionsTypeOK
<1>3. UowIsOwn' /\ NotYetDurable' /\ StillTogether'
  BY DEF UowIsOwn, NotYetDurable, StillTogether, UnitMatches, PhasesMatch, WritesIssued, TransactionsTypeOK
<1>4. AtomicUnits'
  BY DEF AtomicUnits, Counts, UowIsOwn, UnitMatches, PhasesMatch, WritesIssued, TransactionsTypeOK
<1>5. NothingUnasked'
  BY SMTT(60) DEF NothingUnasked, NotYetDurable, UowIsOwn, UnitMatches, PhasesMatch, WritesIssued, TransactionsTypeOK
<1>6. IsolationTracked'
  BY DEF IsolationTracked, PhasesMatch, TransactionsTypeOK
<1> QED BY <1>1, <1>2, <1>3, <1>4, <1>5, <1>6

-----------------------------------------------------------------------------
\* The invariant holds at the start, ...
LEMMA TransactionsInitInv == TransactionsInit => TransactionsInv
<1> SUFFICES ASSUME TransactionsInit PROVE TransactionsInv
  OBVIOUS
<1> USE TransactionsAssumption DEF TransactionsInit, Writes, Units, NoUnit
<1>1. TransactionsTypeOK
  <2>1. /\ unitOf \in [Writes -> Units \cup {NoUnit}]
        /\ asked \in [Units -> {"nothing", "auto", "batch", "begun", "commit", "rollback"}]
        /\ told \in [Units -> {"nothing", "committed", "undone", "failed"}]
    OBVIOUS
  <2>2. issued \in 0 .. MaxWrites /\ row \in 0 .. BatchRows
    OBVIOUS
  <2> QED BY <2>1, <2>2 DEF TransactionsTypeOK
<1>2. PhasesMatch /\ UnitMatches /\ WritesIssued /\ SpoiledKnown
  BY DEF PhasesMatch, UnitMatches, WritesIssued, SpoiledKnown
<1>3. UowIsOwn /\ NotYetDurable /\ StillTogether
  BY DEF UowIsOwn, NotYetDurable, StillTogether
<1>4. AtomicUnits /\ NothingUnasked /\ IsolationTracked
  BY DEF AtomicUnits, NothingUnasked, IsolationTracked
<1> QED BY <1>1, <1>2, <1>3, <1>4 DEF TransactionsInv

\* ... when nothing changes ...
LEMMA TransactionsStutter ==
  ASSUME TransactionsInv, UNCHANGED vars
  PROVE  TransactionsInv'
<1> USE DEF TransactionsInv, vars, connVars, serverVars, appVars
<1>1. TransactionsTypeOK'
  BY DEF TransactionsTypeOK
<1>2. PhasesMatch' /\ UnitMatches' /\ WritesIssued' /\ SpoiledKnown'
  BY DEF PhasesMatch, UnitMatches, WritesIssued, SpoiledKnown
<1>3. UowIsOwn' /\ NotYetDurable' /\ StillTogether'
  BY DEF UowIsOwn, NotYetDurable, StillTogether
<1>4. AtomicUnits' /\ NothingUnasked' /\ IsolationTracked'
  BY DEF AtomicUnits, Counts, NothingUnasked, IsolationTracked
<1> QED BY <1>1, <1>2, <1>3, <1>4

\* ... and through every step.
LEMMA TransactionsNextInv == TransactionsInv /\ [TransactionsNext]_vars => TransactionsInv'
<1> SUFFICES ASSUME TransactionsInv, [TransactionsNext]_vars PROVE TransactionsInv'
  OBVIOUS
<1>1. CASE UNCHANGED vars
  BY <1>1, TransactionsStutter
<1>2. CASE BatchStart \/ OpenStream \/ PutBack \/ LoseLink
  BY <1>2, BatchStartInv, OpenStreamInv, PutBackInv, LoseLinkInv
<1>3. ASSUME NEW outcome \in {"done", "failed", "lost"},
             \/ Exec(outcome) \/ \E iso \in {"CS", "UR"} : Begin(iso, outcome)
             \/ Commit(outcome) \/ Rollback(outcome) \/ Cleanup(outcome)
             \/ BatchRow(outcome) \/ BatchCommit(outcome) \/ BatchUndo(outcome)
             \/ Ping(outcome) \/ EndStream(outcome) \/ Checkout(outcome)
      PROVE  TransactionsInv'
  BY <1>3, ExecInv, BeginInv, CommitInv, RollbackInv, CleanupInv, BatchRowInv,
     BatchCommitInv, BatchUndoInv, PingInv, EndStreamInv, CheckoutInv
<1> QED BY <1>1, <1>2, <1>3 DEF TransactionsNext

-----------------------------------------------------------------------------
\* The invariant says what the runs check, in other words.
LEMMA InvariantMeans ==
  TransactionsInv => /\ TransactionsTypeOK /\ NothingUnasked /\ AllOrNothing
                     /\ NothingDangling /\ IsolationTracked
<1> SUFFICES ASSUME TransactionsInv PROVE AllOrNothing /\ NothingDangling
  BY DEF TransactionsInv
<1>1. AllOrNothing
  <2> SUFFICES ASSUME NEW u \in Units \ spoiled
               PROVE  LET written == {w \in Writes : unitOf[w] = u /\ (asked[u] = "batch" \/ w \in acked)}
                      IN  written \subseteq durable \/ written \cap durable = {}
    BY DEF AllOrNothing
  <2> QED BY DEF TransactionsInv, AtomicUnits, Counts
<1>2. NothingDangling
  BY DEF TransactionsInv, UowIsOwn, NothingDangling
<1> QED BY <1>1, <1>2

LEMMA TransactionsInductive == TransactionsSpec => []TransactionsInv
BY TransactionsInitInv, TransactionsNextInv, PTL DEF TransactionsSpec

\* The connection, the unit of work and the sets of writes stay within their types.
THEOREM TransactionsTyped == TransactionsSpec => []TransactionsTypeOK
<1>1. TransactionsInv => TransactionsTypeOK  BY InvariantMeans
<1> QED BY <1>1, TransactionsInductive, PTL

\* No write becomes durable that no commit of its own unit asked for.
THEOREM NothingCommitsUnasked == TransactionsSpec => []NothingUnasked
<1>1. TransactionsInv => NothingUnasked  BY InvariantMeans
<1> QED BY <1>1, TransactionsInductive, PTL

\* A transaction or a batch is durable as a whole or not at all, through failures,
\* lost replies and a connection that goes away.
THEOREM UnitsAreAtomic == TransactionsSpec => []AllOrNothing
<1>1. TransactionsInv => AllOrNothing  BY InvariantMeans
<1> QED BY <1>1, TransactionsInductive, PTL

\* Between calls the server holds no uncommitted write of a usable connection
\* outside a transaction.
THEOREM NothingStaysOpen == TransactionsSpec => []NothingDangling
<1>1. TransactionsInv => NothingDangling  BY InvariantMeans
<1> QED BY <1>1, TransactionsInductive, PTL

\* The connection knows of every change of isolation that the server has made.
THEOREM IsolationIsKnown == TransactionsSpec => []IsolationTracked
<1>1. TransactionsInv => IsolationTracked  BY InvariantMeans
<1> QED BY <1>1, TransactionsInductive, PTL

\* Whoever takes the connection from the pool finds it as a new one.
THEOREM TransactionsCheckout == TransactionsSpec => CheckoutIsFresh
<1> DEFINE Fresh == (place = "pooled" /\ place' = "held")
                      => isolation' = "CS" /\ autoCommit' /\ uow' = {}
<1>1. TransactionsInv /\ [TransactionsNext]_vars => [Fresh]_vars
  <2> SUFFICES ASSUME TransactionsInv, TransactionsNext, place = "pooled", place' = "held"
               PROVE  isolation' = "CS" /\ autoCommit' /\ uow' = {}
    OBVIOUS
  <2>1. \E outcome \in {"done", "failed", "lost"} : Checkout(outcome)
    BY DEF TransactionsNext, Exec, Begin, Commit, Rollback, Cleanup, BatchStart, BatchRow,
           BatchCommit, BatchUndo, Ping, OpenStream, EndStream, PutBack, LoseLink, Idle
  <2>2. PICK outcome \in {"done", "failed", "lost"} : Checkout(outcome)
    BY <2>1
  <2>3. outcome = "done" /\ ~ broken /\ autoCommit' /\ uow' = uow
    BY <2>2 DEF Checkout, Discard, Kept
  <2>4. uow = {}
    BY <2>3 DEF TransactionsInv, UowIsOwn, PhasesMatch
  <2>5. isolation' = "CS"
    BY <2>2, <2>3 DEF Checkout, ResetIsolation, TransactionsInv, IsolationTracked
  <2> QED BY <2>3, <2>4, <2>5
<1> QED BY TransactionsInitInv, TransactionsNextInv, <1>1, PTL
        DEF TransactionsSpec, CheckoutIsFresh
=============================================================================
