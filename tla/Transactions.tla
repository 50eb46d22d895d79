---------------------------- MODULE Transactions ----------------------------
(***************************************************************************)
(* Units of work of one pooled connection: Conn.BeginTx, Tx.Commit,        *)
(* Tx.Rollback and its cleanup (connection.go, transaction.go), and        *)
(* Session.autoCommit with everything that reads or switches it: direct    *)
(* executions, batches, Ping, the commit at the end of a result stream     *)
(* (internal/drda/session.go).                                             *)
(*                                                                         *)
(* A request is one step: it reaches the server or not, the server does    *)
(* its work, and the answer comes back or is lost.  Operations of several  *)
(* requests are several steps; between them Session.mu is free and the end *)
(* of a result stream may come.  Every lost exchange is an I/O error here, *)
(* after which no request of the connection gets through; replies that     *)
(* cannot be framed are in Exchange.                                       *)
(***************************************************************************)
EXTENDS Naturals

CONSTANTS MaxWrites,   \* bound: statements that write
          MaxUnits,    \* bound: units of work the application starts
          BatchRows    \* rows of a batch

ASSUME TransactionsAssumption ==
  /\ MaxWrites \in Nat \ {0} /\ MaxUnits \in Nat \ {0} /\ BatchRows \in Nat \ {0}

Writes == 1 .. MaxWrites
Units  == 1 .. MaxUnits
NoUnit == 0

VARIABLES place,        \* the connection: in the pool, checked out, discarded
          tx,           \* the open Tx: "none", "CS" or "UR", by its isolation
          doing,        \* an operation of several requests
          row,          \* rows a batch has executed
          wasAutoCommit,\* ... and the mode it switched off
          result,       \* what the cleanup of a Tx goes on to return
          autoCommit,   \* Session.autoCommit
          hasCustomIso, \* Conn.hasCustomIso
          broken,       \* Session.broken
          stream,       \* a result stream is open and has not committed
          link,         \* the server still has the connection
          uow,          \* server: writes of the open unit of work
          durable,      \* server: committed writes
          isolation,    \* server: CURRENT ISOLATION
          issued,       \* history: writes issued
          unitOf,       \* history: write -> the unit it was issued in
          unit,         \* history: the latest unit
          asked,        \* history: unit -> what the application asked for it
          told,         \* history: unit -> what it was told of it
          acked,        \* history: writes reported as done
          spoiled       \* history: transactions in which a batch failed

connVars   == <<tx, doing, row, wasAutoCommit, result, autoCommit, hasCustomIso>>
serverVars == <<uow, durable, isolation>>
appVars    == <<issued, unitOf, unit, asked, told, acked, spoiled>>
vars == <<place, connVars, broken, stream, link, serverVars, appVars>>

TransactionsInit ==
  /\ place = "held"
  /\ tx = "none" /\ doing = "nothing" /\ row = 0 /\ wasAutoCommit = TRUE
  /\ result = "ok" /\ autoCommit = TRUE /\ hasCustomIso = FALSE
  /\ broken = FALSE /\ stream = FALSE /\ link = TRUE
  /\ uow = {} /\ durable = {} /\ isolation = "CS"
  /\ issued = 0 /\ unitOf = [w \in Writes |-> NoUnit] /\ unit = NoUnit
  /\ asked = [u \in Units |-> "nothing"] /\ told = [u \in Units |-> "nothing"]
  /\ acked = {} /\ spoiled = {}

\* The application may call the connection.
Idle == place = "held" /\ doing = "nothing"

\* The answers a request may get.
Outcomes == IF link /\ ~ broken THEN {"done", "failed", "lost"} ELSE {"lost"}

\* A request whose exchange is lost marks the session broken.
Note(outcome) == broken' = (broken \/ outcome = "lost")

-----------------------------------------------------------------------------
\* The server (external).  It rolls back a unit of work it refuses to commit, and
\* refuses only one that wrote something.
Kept      == UNCHANGED <<uow, durable>>
Committed == durable' = durable \cup uow /\ uow' = {}
Undone    == uow' = {} /\ UNCHANGED durable
Refused   == uow # {} /\ Undone

\* What an RDBCMM may do: its reply is not looked at by Session.Commit, so for the
\* client "done" is both.
CommitEffect(outcome) ==
  CASE outcome = "done"   -> Committed \/ Refused
    [] outcome = "failed" -> FALSE
    [] OTHER              -> Kept \/ (link /\ ~ broken /\ Committed)

\* An RDBRLLBCK is not refused.
RollbackEffect(outcome) ==
  CASE outcome = "done"   -> Undone
    [] outcome = "failed" -> FALSE
    [] OTHER              -> Kept \/ (link /\ ~ broken /\ Undone)

\* Writes executed by one request, with the RDBCMM the client chains to it in
\* auto-commit mode.  Its replies are looked at: "failed" is a failure of either.
ExecEffect(w, outcome) ==
  CASE outcome = "done" ->
         IF autoCommit THEN durable' = durable \cup uow \cup {w} /\ uow' = {}
                       ELSE uow' = uow \cup {w} /\ UNCHANGED durable
    [] outcome = "failed" ->
         IF autoCommit THEN Committed \/ Undone ELSE Kept
    [] OTHER ->
         \/ Kept
         \/ /\ link /\ ~ broken
            /\ IF autoCommit THEN durable' = durable \cup uow \cup {w} /\ uow' = {}
                             ELSE uow' = uow \cup {w} /\ UNCHANGED durable

\* The server or the network drops the connection: its unit of work is undone.
LoseLink ==
  /\ link /\ place # "discarded"
  /\ link' = FALSE
  /\ Undone
  /\ UNCHANGED <<place, connVars, broken, stream, isolation, appVars>>

-----------------------------------------------------------------------------
\* A write of the open transaction, or of a unit of its own.
Issue(u) ==
  /\ issued < MaxWrites
  /\ issued' = issued + 1
  /\ unitOf' = [unitOf EXCEPT ![issued'] = u]

NewUnit(how) ==
  /\ unit < MaxUnits
  /\ unit' = unit + 1
  /\ asked' = [asked EXCEPT ![unit'] = how]

\* ExecContext of a statement that writes.
Exec(outcome) ==
  /\ Idle /\ outcome \in Outcomes
  /\ IF tx = "none" THEN NewUnit("auto") ELSE UNCHANGED <<unit, asked>>
  /\ Issue(unit')
  /\ ExecEffect(issued', outcome)
  /\ acked' = IF outcome = "done" THEN acked \cup {issued'} ELSE acked
  /\ Note(outcome)
  /\ UNCHANGED <<place, connVars, stream, link, isolation, told, spoiled>>

\* BeginTx: an isolation other than CS is set first, in auto-commit mode.
Begin(iso, outcome) ==
  /\ Idle /\ tx = "none" /\ NewUnit("begun")
  /\ IF iso = "CS"
     THEN /\ outcome = "done"
          /\ UNCHANGED <<broken, hasCustomIso, serverVars>>
     ELSE /\ outcome \in Outcomes
          /\ \/ outcome = "done" /\ Committed /\ isolation' = iso
             \/ outcome = "failed" /\ Committed /\ UNCHANGED isolation
             \/ outcome = "lost" /\ Kept
                  /\ isolation' \in IF link /\ ~ broken THEN {isolation, iso} ELSE {isolation}
          /\ hasCustomIso' = (hasCustomIso \/ outcome = "done")
          /\ Note(outcome)
  /\ IF outcome = "done" THEN autoCommit' = FALSE /\ tx' = iso
                         ELSE UNCHANGED <<autoCommit, tx>>
  /\ UNCHANGED <<place, doing, row, wasAutoCommit, result, stream, link,
                 issued, unitOf, told, acked, spoiled>>

\* Tx.Commit, then its cleanup.
Commit(outcome) ==
  /\ Idle /\ tx # "none" /\ outcome \in Outcomes \ {"failed"}
  /\ CommitEffect(outcome)
  /\ asked' = [asked EXCEPT ![unit] = "commit"]
  /\ doing' = "cleanup" /\ result' = IF outcome = "done" THEN "committed" ELSE "failed"
  /\ Note(outcome)
  /\ UNCHANGED <<place, tx, row, wasAutoCommit, autoCommit, hasCustomIso, stream, link,
                 isolation, issued, unitOf, unit, told, acked, spoiled>>

\* Tx.Rollback, by the application or by database/sql when the context of the
\* transaction is done, then its cleanup.
Rollback(outcome) ==
  /\ Idle /\ tx # "none" /\ outcome \in Outcomes \ {"failed"}
  /\ RollbackEffect(outcome)
  /\ asked' = [asked EXCEPT ![unit] = "rollback"]
  /\ doing' = "cleanup" /\ result' = "undone"
  /\ Note(outcome)
  /\ UNCHANGED <<place, tx, row, wasAutoCommit, autoCommit, hasCustomIso, stream, link,
                 isolation, issued, unitOf, unit, told, acked, spoiled>>

\* A cleanup that thinks the isolation restored whatever the server said.
RestoredAnyway(outcome) == hasCustomIso' = FALSE

\* The flag goes only when the server confirmed SET CURRENT ISOLATION = CS.
Restored(outcome) == hasCustomIso' = (hasCustomIso /\ outcome # "done")

\* cleanup: the isolation goes back to CS, still outside auto-commit mode, unless
\* the session is broken; auto-commit comes back whatever happened.
Cleanup(outcome) ==
  /\ doing = "cleanup"
  /\ IF tx = "CS" \/ broken
     THEN outcome = "done" /\ UNCHANGED <<isolation, hasCustomIso>>
     ELSE /\ outcome \in Outcomes
          /\ isolation' \in CASE outcome = "done"   -> {"CS"}
                              [] outcome = "failed" -> {isolation}
                              [] OTHER -> IF link THEN {isolation, "CS"} ELSE {isolation}
          /\ Restored(outcome)
  /\ Note(outcome)
  /\ told' = [told EXCEPT ![unit] = IF outcome = "done" THEN result ELSE "failed"]
  /\ autoCommit' = TRUE /\ tx' = "none" /\ doing' = "nothing" /\ result' = "ok"
  /\ UNCHANGED <<place, row, wasAutoCommit, stream, link, uow, durable,
                 issued, unitOf, unit, asked, acked, spoiled>>

-----------------------------------------------------------------------------
\* A batch that leaves the mode of the session alone.
SwitchOffNothing == wasAutoCommit' = autoCommit /\ UNCHANGED autoCommit

SwitchOff == wasAutoCommit' = autoCommit /\ autoCommit' = FALSE

\* ExecBatchWithParams: auto-commit is switched off for the time of the batch.
BatchStart ==
  /\ Idle
  /\ IF tx = "none" THEN NewUnit("batch") ELSE UNCHANGED <<unit, asked>>
  /\ issued + BatchRows <= MaxWrites
  /\ SwitchOff
  /\ doing' = "batch" /\ row' = 0
  /\ UNCHANGED <<place, tx, result, hasCustomIso, broken, stream, link, serverVars,
                 issued, unitOf, told, acked, spoiled>>

\* One row is executed; the first failure ends the loop.
BatchRow(outcome) ==
  /\ doing = "batch" /\ row < BatchRows /\ outcome \in Outcomes
  /\ Issue(unit)
  /\ ExecEffect(issued', outcome)
  /\ IF outcome = "done" THEN row' = row + 1 /\ UNCHANGED doing
                         ELSE doing' = "undo" /\ UNCHANGED row
  /\ Note(outcome)
  /\ UNCHANGED <<place, tx, wasAutoCommit, result, autoCommit, hasCustomIso, stream,
                 link, isolation, unit, asked, told, acked, spoiled>>

\* A batch that ends in auto-commit mode wherever it ran.
SwitchOn == autoCommit' = TRUE

\* The mode the batch switched off comes back.
SwitchBack == autoCommit' = (autoCommit \/ wasAutoCommit)

\* The call returns.
BatchEnd(ok) ==
  /\ doing' = "nothing" /\ row' = 0 /\ wasAutoCommit' = TRUE
  /\ SwitchBack
  /\ acked' = IF ok THEN acked \cup issued - BatchRows + 1 .. issued ELSE acked
  /\ told' = IF wasAutoCommit
             THEN [told EXCEPT ![unit] = IF ok THEN "committed" ELSE "failed"]
             ELSE told

\* All rows are done: they are committed, unless the batch runs in a transaction.
BatchCommit(outcome) ==
  /\ doing = "batch" /\ row = BatchRows
  /\ IF wasAutoCommit
     THEN outcome \in Outcomes \ {"failed"} /\ CommitEffect(outcome) /\ Note(outcome)
     ELSE outcome = "done" /\ UNCHANGED <<uow, durable, broken>>
  /\ IF outcome = "done"
     THEN BatchEnd(TRUE)
     ELSE doing' = "undo" /\ UNCHANGED <<row, wasAutoCommit, autoCommit, acked, told>>
  /\ UNCHANGED <<place, tx, result, hasCustomIso, stream, link, isolation,
                 issued, unitOf, unit, asked, spoiled>>

\* A failed batch that rolls back nothing.
UndoNothing(outcome) == outcome = "done" /\ Kept

UndoRows(outcome) == outcome \in Outcomes \ {"failed"} /\ RollbackEffect(outcome)

\* A failed batch rolls back the unit of work, the whole transaction when it runs in
\* one, and drops the error of the rollback.
BatchUndo(outcome) ==
  /\ doing = "undo"
  /\ UndoRows(outcome)
  /\ Note(outcome)
  /\ BatchEnd(FALSE)
  /\ spoiled' = IF tx = "none" THEN spoiled ELSE spoiled \cup {unit}
  /\ UNCHANGED <<place, tx, result, hasCustomIso, stream, link, isolation,
                 issued, unitOf, unit, asked>>

-----------------------------------------------------------------------------
\* A ping that is the same in and out of a transaction.
PingEffectAlways == Committed

\* In auto-commit mode Ping is an RDBCMM, in a transaction an EXCSAT.
PingEffect == IF autoCommit THEN Committed ELSE Kept

Ping(outcome) ==
  /\ Idle /\ outcome \in Outcomes \ {"failed"}
  /\ IF outcome = "done" THEN PingEffect ELSE Kept
  /\ Note(outcome)
  /\ UNCHANGED <<place, connVars, stream, link, isolation, appVars>>

\* A query that leaves a stream open.
OpenStream ==
  /\ Idle /\ link /\ ~ broken /\ ~ stream
  /\ stream' = TRUE
  /\ UNCHANGED <<place, connVars, broken, link, serverVars, appVars>>

\* The stream ends or is closed, between any two requests: in auto-commit mode it
\* commits, if it has not done so before and the session is not broken.
EndStream(outcome) ==
  /\ stream /\ outcome \in Outcomes \ {"failed"}
  /\ stream' = FALSE
  /\ IF autoCommit /\ ~ broken THEN CommitEffect(outcome) ELSE Kept
  /\ Note(outcome)
  /\ UNCHANGED <<place, connVars, link, isolation, appVars>>

\* Conn.Close: the server undoes what was not committed.
Discard == place' = "discarded" /\ Undone

\* database/sql returns the connection to the pool when its Tx and Rows are done.
PutBack ==
  /\ Idle /\ tx = "none" /\ ~ stream
  /\ IF broken THEN Discard ELSE place' = "pooled" /\ Kept
  /\ UNCHANGED <<connVars, broken, stream, link, isolation, appVars>>

\* A ResetSession that trusts the cleanup of the Tx.
ResetNothing(outcome) ==
  outcome = "done" /\ UNCHANGED <<isolation, hasCustomIso>>

ResetIsolation(outcome) ==
  IF broken \/ ~ hasCustomIso
  THEN outcome = "done" /\ UNCHANGED <<isolation, hasCustomIso>>
  ELSE /\ outcome \in Outcomes
       /\ isolation' = IF outcome = "done" THEN "CS" ELSE isolation
       /\ hasCustomIso' = (hasCustomIso /\ outcome # "done")

\* ResetSession on the next checkout: it restores the isolation that a failed
\* cleanup left, and auto-commit mode.
Checkout(outcome) ==
  /\ place = "pooled"
  /\ ResetIsolation(outcome)
  /\ Note(outcome)
  /\ IF broken \/ outcome # "done" THEN Discard /\ UNCHANGED autoCommit
                                   ELSE place' = "held" /\ Kept /\ autoCommit' = TRUE
  /\ UNCHANGED <<tx, doing, row, wasAutoCommit, result, stream, link, appVars>>

TransactionsNext ==
  \/ \E outcome \in {"done", "failed", "lost"} :
       \/ Exec(outcome) \/ \E iso \in {"CS", "UR"} : Begin(iso, outcome)
       \/ Commit(outcome) \/ Rollback(outcome) \/ Cleanup(outcome)
       \/ BatchRow(outcome) \/ BatchCommit(outcome) \/ BatchUndo(outcome)
       \/ Ping(outcome) \/ EndStream(outcome) \/ Checkout(outcome)
  \/ BatchStart \/ OpenStream \/ PutBack \/ LoseLink

TransactionsSpec == TransactionsInit /\ [][TransactionsNext]_vars

-----------------------------------------------------------------------------
\* The fields of Conn, Tx and Session have the shape the code relies on, and the
\* session is out of auto-commit mode exactly in a transaction or a batch.
TransactionsTypeOK ==
  /\ place \in {"held", "pooled", "discarded"}
  /\ tx \in {"none", "CS", "UR"}
  /\ doing \in {"nothing", "cleanup", "batch", "undo"} /\ row \in 0 .. BatchRows
  /\ result \in {"ok", "committed", "undone", "failed"}
  /\ autoCommit \in BOOLEAN /\ wasAutoCommit \in BOOLEAN /\ hasCustomIso \in BOOLEAN
  /\ broken \in BOOLEAN /\ stream \in BOOLEAN /\ link \in BOOLEAN
  /\ uow \in SUBSET Writes /\ durable \in SUBSET Writes /\ isolation \in {"CS", "UR"}
  /\ issued \in 0 .. MaxWrites /\ unitOf \in [Writes -> Units \cup {NoUnit}]
  /\ unit \in Units \cup {NoUnit}
  /\ asked \in [Units -> {"nothing", "auto", "batch", "begun", "commit", "rollback"}]
  /\ told \in [Units -> {"nothing", "committed", "undone", "failed"}]
  /\ acked \in SUBSET Writes /\ spoiled \in SUBSET Units
  /\ autoCommit <=> tx = "none" /\ doing \notin {"batch", "undo"}

\* No write becomes durable that the application did not ask to commit: neither a
\* ping ("uncommitted user transaction changes are never inadvertently committed",
\* session.go), nor the end of a stream opened before the transaction, nor a batch
\* in it, nor the restored isolation, nor the next user of the connection.
NothingUnasked ==
  \A w \in durable : asked[unitOf[w]] \in {"auto", "batch", "commit"}

\* Whatever is lost on the way, all of the following are durable or none is: the
\* rows of a batch outside a transaction ("atomically", session.go), the writes of
\* a transaction that were reported as done.  Transactions in which a batch failed
\* are left out: there the batch has undone what came before it.
AllOrNothing ==
  \A u \in Units \ spoiled :
    LET written == {w \in Writes : unitOf[w] = u /\ (asked[u] = "batch" \/ w \in acked)}
    IN  written \subseteq durable \/ written \cap durable = {}

\* Between two calls outside a transaction the server holds no uncommitted write of
\* a usable connection, so that none can be committed on behalf of somebody else.
NothingDangling ==
  (doing = "nothing" /\ tx = "none" /\ ~ broken) => uow = {}

\* An isolation that was changed is not forgotten while the connection is usable.
IsolationTracked == isolation # "CS" => hasCustomIso \/ broken

\* Whoever takes the connection from the pool finds isolation CS, auto-commit mode
\* and no open unit of work, whatever the one before him went through.
CheckoutIsFresh ==
  [][ (place = "pooled" /\ place' = "held")
        => isolation' = "CS" /\ autoCommit' /\ uow' = {} ]_vars

\* README: "explicit transactions with ACID isolation".  When Commit has returned
\* nil, every write of the transaction that was reported as done is durable.
CommitDurable ==
  \A w \in acked : told[unitOf[w]] = "committed" => w \in durable
=============================================================================
