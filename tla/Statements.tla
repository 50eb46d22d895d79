----------------------------- MODULE Statements -----------------------------
(***************************************************************************)
(* Prepared statements that share a connection: Conn.PrepareContext, the   *)
(* temporary statements of Conn.ExecContext and Conn.QueryContext, and     *)
(* Stmt with its executions and its Close (connection.go, statement.go).   *)
(*                                                                         *)
(* A statement owns a section from PREPARE to Close, and the server keeps  *)
(* one statement text per section.  Stmt rewrites its text when an         *)
(* argument is a short BLOB, the value inlined as a literal, and prepares  *)
(* the original again before the next plain execution.  Calls run under    *)
(* Conn.mu; Close takes only the mutex of its statement, so it may come    *)
(* between any two steps of another call.                                  *)
(***************************************************************************)
EXTENDS SectionManager

CONSTANTS Callers,   \* goroutines that use the connection
          Slots,     \* the statements that exist at a time
          Nobody     \* the owner of a free lock, the statement of an idle caller

ASSUME StatementsAssumption == Nobody \notin Callers \cup Slots

VARIABLES lock,      \* holder of Conn.mu
          stmt,      \* the Stmt values
          text,      \* server: section -> the statement text prepared under it
          call       \* caller -> the call it is in

statementVars == <<bitmap, nextFree, acquired, lock, stmt, text, call>>

\* What a call asks of a statement: an execution with plain arguments, with some
\* or with only short BLOBs, with slices (a batch; a CALL takes the same steps),
\* an opened query.
Uses == {"exec", "blob", "allblob", "batch", "query"}

\* The forms of a statement's text, and of the parameter descriptors that fit it.
Forms == {"original", "rewritten"}

\* A section with no usable text: never prepared, or a PREPARE failed on it.
NoText == [of |-> Nobody, form |-> "original"]

Unused == [status |-> "none", sec |-> NoSection, temp |-> FALSE, rewritten |-> FALSE]

Idle == [at |-> "idle", of |-> Nobody, use |-> "exec"]

\* The statements that own a section.
Live == {s \in Slots : stmt[s].status \in {"preparing", "open"}}

\* Some call works on the statement.
Busy(s) == \E c \in Callers : call[c].of = s

\* The section of the statement of a call.
Section(c) == stmt[call[c].of].sec

GoOn(c, at) == call' = [call EXCEPT ![c].at = at]

StatementsInit ==
  /\ SectionInit
  /\ lock = Nobody
  /\ stmt = [s \in Slots |-> Unused]
  /\ text = [sec \in Assignable |-> NoText]
  /\ call = [c \in Callers |-> Idle]

-----------------------------------------------------------------------------
\* Stmt.Close: once only, and under Stmt.mu alone, so the two writes are one
\* step for everybody else.
Close(s) ==
  IF stmt[s].status = "closed"
  THEN UNCHANGED <<bitmap, nextFree, acquired, stmt>>
  ELSE /\ stmt' = [stmt EXCEPT ![s].status = "closed"]
       /\ Release(stmt[s].sec)

\* The application closes a statement, or the Rows of a temporary one, whose call
\* has then returned; the handle stays usable for further calls of Close.
CloseStmt(s) ==
  /\ stmt[s].status \in {"open", "closed"}
  /\ stmt[s].temp => ~ Busy(s)
  /\ Close(s)
  /\ UNCHANGED <<lock, text, call>>

\* The application drops a closed handle; its text stays on the server, nobody's.
Forget(s) ==
  /\ stmt[s].status = "closed"
  /\ ~ Busy(s)
  /\ stmt' = [stmt EXCEPT ![s] = Unused]
  /\ text' = [sec \in Assignable |-> IF text[sec].of = s THEN NoText ELSE text[sec]]
  /\ UNCHANGED <<bitmap, nextFree, acquired, lock, call>>

-----------------------------------------------------------------------------
\* PrepareContext, and ExecContext or QueryContext with arguments, take Conn.mu
\* and a section.
Prepare(c, s, temp, use) ==
  /\ temp \/ use = Idle.use      \* PrepareContext asks for no execution yet
  /\ lock = Nobody
  /\ call[c] = Idle
  /\ stmt[s] = Unused
  /\ AcquireFirst
  /\ lock' = c
  /\ stmt' = [stmt EXCEPT ![s] = [Unused EXCEPT !.status = "preparing",
                                                !.sec = acquired',
                                                !.temp = temp]]
  /\ call' = [call EXCEPT ![c] = [at |-> "preparing", of |-> s, use |-> use]]
  /\ UNCHANGED text

\* Every section is taken: the call returns the error of Acquire.
NoSectionLeft(c) ==
  /\ lock = Nobody
  /\ call[c] = Idle
  /\ AcquireNone
  /\ UNCHANGED <<lock, stmt, text, call>>

\* PRPSQLSTT succeeded.  A prepared statement goes back to the application; a
\* temporary one runs at once, under the same hold of the lock.
Prepared(c) ==
  /\ call[c].at = "preparing"
  /\ text' = [text EXCEPT ![Section(c)] = [of |-> call[c].of, form |-> "original"]]
  /\ stmt' = [stmt EXCEPT ![call[c].of].status = "open"]
  /\ IF stmt[call[c].of].temp
     THEN GoOn(c, "checked") /\ UNCHANGED lock
     ELSE call' = [call EXCEPT ![c] = Idle] /\ lock' = Nobody
  /\ UNCHANGED <<bitmap, nextFree, acquired>>

\* An error path that forgets the section.
PrepareFailedLeak(c) ==
  /\ call[c].at = "preparing"
  /\ text' = [text EXCEPT ![Section(c)] = NoText]
  /\ stmt' = [stmt EXCEPT ![call[c].of] = Unused]
  /\ call' = [call EXCEPT ![c] = Idle]
  /\ lock' = Nobody
  /\ UNCHANGED <<bitmap, nextFree, acquired>>

\* PRPSQLSTT failed: the section is released before the error is returned.
PrepareFailed(c) ==
  /\ call[c].at = "preparing"
  /\ text' = [text EXCEPT ![Section(c)] = NoText]
  /\ Release(Section(c))
  /\ stmt' = [stmt EXCEPT ![call[c].of] = Unused]
  /\ call' = [call EXCEPT ![c] = Idle]
  /\ lock' = Nobody

-----------------------------------------------------------------------------
\* Stmt.ExecContext and Stmt.QueryContext: the first look at closed, then the
\* wait for Conn.mu.  A closed statement returns its error without a step.
Start(c, s, use) ==
  /\ call[c] = Idle
  /\ stmt[s].status = "open" /\ ~ stmt[s].temp
  /\ call' = [call EXCEPT ![c] = [at |-> "waiting", of |-> s, use |-> use]]
  /\ UNCHANGED <<bitmap, nextFree, acquired, lock, stmt, text>>

\* A caller that relies on the look it had before it waited.
LockUnchecked(c) ==
  /\ call[c].at = "waiting"
  /\ lock = Nobody
  /\ GoOn(c, "checked") /\ lock' = c
  /\ UNCHANGED <<bitmap, nextFree, acquired, stmt, text>>

\* A caller that returns the error of a closed statement and keeps the lock.
LockKept(c) ==
  /\ call[c].at = "waiting"
  /\ lock = Nobody
  /\ IF stmt[call[c].of].status = "closed"
     THEN call' = [call EXCEPT ![c] = Idle]
     ELSE GoOn(c, "checked")
  /\ lock' = c
  /\ UNCHANGED <<bitmap, nextFree, acquired, stmt, text>>

\* Under Conn.mu the statement is looked at again: it may have been closed, and
\* its section given away, while the caller waited.
Lock(c) ==
  /\ call[c].at = "waiting"
  /\ lock = Nobody
  /\ IF stmt[call[c].of].status = "closed"
     THEN call' = [call EXCEPT ![c] = Idle] /\ UNCHANGED lock
     ELSE GoOn(c, "checked") /\ lock' = c
  /\ UNCHANGED <<bitmap, nextFree, acquired, stmt, text>>

\* A short BLOB among the arguments: the text is rewritten and prepared again,
\* or, when no parameter is left, executed directly and not prepared.
Rewrite(c) ==
  /\ call[c].at = "checked" /\ call[c].use \in {"blob", "allblob"}
  /\ stmt' = [stmt EXCEPT ![call[c].of].rewritten = TRUE]
  /\ GoOn(c, IF call[c].use = "blob" THEN "repreparing" ELSE "running")
  /\ UNCHANGED <<bitmap, nextFree, acquired, lock, text>>

\* A plain execution of a statement that was rewritten.
RestoreFirst(c) ==
  /\ call[c].at = "checked" /\ call[c].use = "exec"
  /\ stmt[call[c].of].rewritten
  /\ GoOn(c, "repreparing")
  /\ UNCHANGED <<bitmap, nextFree, acquired, lock, stmt, text>>

\* Batches, queries and CALLs go out without a look at rewrittenOnServer.
Straight(c) ==
  /\ call[c].at = "checked"
  /\ \/ call[c].use \in {"batch", "query"}
     \/ call[c].use = "exec" /\ ~ stmt[call[c].of].rewritten
  /\ GoOn(c, "running")
  /\ UNCHANGED <<bitmap, nextFree, acquired, lock, stmt, text>>

\* A restore that notes its success before the server answers.
ReprepareEarly(c, ok) ==
  /\ call[c].at = "repreparing"
  /\ text' = [text EXCEPT ![Section(c)] =
                IF ok THEN [of |-> call[c].of,
                            form |-> IF call[c].use = "blob" THEN "rewritten"
                                                             ELSE "original"]
                      ELSE @]
  /\ stmt' = [stmt EXCEPT ![call[c].of].rewritten = call[c].use = "blob"]
  /\ GoOn(c, IF ok THEN "running" ELSE "failed")
  /\ UNCHANGED <<bitmap, nextFree, acquired, lock>>

\* The second PRPSQLSTT of a statement.  When it fails the server may keep the
\* text it had or drop it, and the flag stays as it is.
Reprepare(c, ok) ==
  /\ call[c].at = "repreparing"
  /\ \E after \in IF ok
                  THEN {[of |-> call[c].of,
                         form |-> IF call[c].use = "blob" THEN "rewritten"
                                                          ELSE "original"]}
                  ELSE {text[Section(c)], NoText} :
       text' = [text EXCEPT ![Section(c)] = after]
  /\ stmt' = [stmt EXCEPT ![call[c].of].rewritten =
                IF ok /\ call[c].use = "exec" THEN FALSE ELSE @]
  /\ GoOn(c, IF ok THEN "running" ELSE "failed")
  /\ UNCHANGED <<bitmap, nextFree, acquired, lock>>

\* The execution has been answered (or its preparation failed) and the call
\* returns.  A temporary statement is closed, unless a query left Rows open: they
\* close it.
Return(c) ==
  /\ call[c].at \in {"failed", "running"}
  /\ \/ /\ stmt[call[c].of].temp
        /\ Close(call[c].of)
     \/ /\ stmt[call[c].of].temp => call[c].at = "running" /\ call[c].use = "query"
        /\ UNCHANGED <<bitmap, nextFree, acquired, stmt>>
  /\ call' = [call EXCEPT ![c] = Idle]
  /\ lock' = Nobody
  /\ UNCHANGED text

StatementsNext ==
  \/ \E s \in Slots : CloseStmt(s) \/ Forget(s)
  \/ \E c \in Callers :
       \/ \E s \in Slots, use \in Uses, temp \in BOOLEAN : Prepare(c, s, temp, use)
       \/ \E s \in Slots, use \in Uses : Start(c, s, use)
       \/ \E ok \in BOOLEAN : Reprepare(c, ok)
       \/ NoSectionLeft(c) \/ Prepared(c) \/ PrepareFailed(c) \/ Lock(c)
       \/ Rewrite(c) \/ RestoreFirst(c) \/ Straight(c) \/ Return(c)

StatementsSpec == StatementsInit /\ [][StatementsNext]_statementVars

-----------------------------------------------------------------------------
\* The allocator and the statements have the shape the code relies on; whoever is
\* past the wait holds Conn.mu, alone.
StatementsTypeOK ==
  /\ SectionTypeOK
  /\ lock \in Callers \cup {Nobody}
  /\ stmt \in [Slots -> [status : {"none", "preparing", "open", "closed"},
                         sec : Assignable \cup {NoSection},
                         temp : BOOLEAN, rewritten : BOOLEAN]]
  /\ \A s \in Slots : stmt[s].status # "none" => stmt[s].sec \in Assignable
  /\ text \in [Assignable -> [of : Slots \cup {Nobody}, form : Forms]]
  /\ call \in [Callers -> [at : {"idle", "waiting", "preparing", "checked",
                                 "repreparing", "running", "failed"},
                           of : Slots \cup {Nobody}, use : Uses]]
  /\ \A c \in Callers : lock = c <=> call[c].at \notin {"idle", "waiting"}

\* The allocator and the statements agree: an assignable section is occupied
\* exactly when one statement, and no second one, owns it.  No error path leaks
\* a section and no close frees the section of another statement.
SectionsMatchStatements ==
  /\ \A sec \in Assignable :
       Occupied(sec) <=> \E s \in Live : stmt[s].sec = sec
  /\ \A s, t \in Live : stmt[s].sec = stmt[t].sec => s = t

\* Whatever closes, prepares or fails meanwhile, an execution that goes out under
\* a section meets there no text of another statement, and a statement left
\* alone keeps its text on the server ("statements prepared on the same
\* connection obtain distinct DRDA sections", statement_isolation_test.go).
RunsOwnText ==
  /\ \A c \in Callers : call[c].at \in {"repreparing", "running"} =>
       text[Section(c)].of \in {call[c].of, Nobody}
  /\ \A s \in Slots : stmt[s].status = "open" =>
       text[stmt[s].sec].of \in {s, Nobody}

\* The parameter descriptors sent with an execution are those of the text the
\* server has: the rewritten ones for short BLOBs, the original ones for a plain
\* execution, even when an earlier restore has failed half way.
ExecMatchesText ==
  \A c \in Callers :
    (call[c].at = "running" /\ text[Section(c)].of # Nobody) =>
      /\ call[c].use = "blob" => text[Section(c)].form = "rewritten"
      /\ call[c].use = "exec" => text[Section(c)].form = "original"

\* What session.go says of a batch: it runs "against the currently prepared
\* statement", so the original descriptors it sends describe that statement.
BatchMatchesText ==
  \A c \in Callers :
    (call[c].at = "running" /\ call[c].use = "batch"
       /\ text[Section(c)].of # Nobody) => text[Section(c)].form = "original"
=============================================================================
