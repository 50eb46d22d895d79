# A TLA+ model of go-db2

go-db2 is a pure Go `database/sql` driver for IBM Db2 that speaks DRDA over TCP.
This directory holds TLA+ modules translated from its source, TLC configurations
that check them on small instances, and proofs for TLAPS. Lines are those of the
sources under `src/`; `PROJECT.json` maps every definition to the lines it models.

## 1. Inventory

The driver is a stack: `database/sql` (external) owns a pool and calls `Conn`,
`Stmt`, `Tx` and `Rows` (`connection.go`, `statement.go`, `transaction.go`,
`rows.go`); these drive one `Session` (`internal/drda/session.go`), which packs
commands (`ddm.go`, `codepoint.go`), frames them (`dss.go`) and converts values
(`internal/codec`); the Db2 server (external) answers with reply chains.

| component | state it keeps | operations | hard behaviour | what makes it correct |
|---|---|---|---|---|
| section allocator (`section_manager.go`) | bitmap, `nextFree` | `Acquire`, `Release`, `isAllocated` | the scan wraps; releases out of range or repeated | one owner per section; an error only when all are held; 0 and 1 never granted; the scan moves on past what it grants |
| prepared statements (`statement.go`, `connection.go:72-305`) | `pkgsn`, `closed`, `rewrittenOnServer`; on the server a text per section | prepare, execute, batch, query, temporary statements, `Close` | `Close` runs beside a call that waits for `Conn.mu`; error paths; texts rewritten on the server | sections and statements agree; an execution meets its own text, in the form its descriptors describe |
| exchange (`session.go:100-180`, `554-576`, the request methods; `dss.go`) | the socket, `broken`, `interruptedBy`, the deadline | write a request, read a reply chain, a second chain, cancel | a callback that `stop()` no longer prevents; replies known by their place only; framing errors | no reply reaches another request; success means a complete answer or a session marked broken; a cancelled caller returns |
| transactions (`transaction.go`, `connection.go:328-424`, `session.go:578-721`, `1003-1033`) | `inTransaction`, `hasCustomIso`, `autoCommit`; on the server the unit of work and the isolation | `BeginTx`, `Commit`, `Rollback`, direct executions, batches, `Ping`, the commit of a stream, `ResetSession` | lost answers; several requests per call; streams that outlive a mode; a server that refuses | nothing committed unasked; atomic; the pool hands out a fresh connection |
| client registers and user (`session.go:240-271`, `2104-2391`) | the copy in `cfg`, `currentUser`; on the server the registers and the session user | `SetClientInfo`, `ResetClientInfo`, `SwitchUser`, `Connect`, `ResetSession` | registers set one by one and remembered at the end; three ways to switch | what the session believes is what the server has; the next user of the pool starts from the configuration |
| streamed queries (`session.go:1390-1842`, `rows.go`) | `tailBuf`, `pendingRows`, `pendingExt`, `ended`, `committed`; the batch in `Rows` | open, fetch, stitch, close, `Rows.Next`, `Rows.Close` | rows split over blocks; large objects that come later; end marks in several places; errors and closes half way | all rows, in order, each with its objects; the cursor released; commit at the end only |
| replies of requests (`session.go:725-1390`, `1843-2105`, `2242-2391`) | none between requests | take errors, row counts, OUT values, descriptors, result sets and rows from reply chains | each method looks at other replies; descriptors and sets are told by their place; results are spread over blocks and over two chains | a failure is reported, wherever it is said; the result is what the server said, in full |
| connection life cycle (`connector.go`, `driver.go`, `session.go:182-552`) | `conn`, `closed`, `broken`, `secTkn` | dial, TLS, EXCSAT and ACCSEC, SECCHK and ACCRDB, post-connect variables, client registers, `Close` | refusals and losses at each step | a session is used only if the server has let it in; no socket is left behind |
| DSS framing, DDM objects (`dss.go`, `ddm.go`) | none; a running correlation identifier in each method | segmentation, extended lengths, chaining of requests | boundaries of 32767 bytes; chains of commands, texts, parameters and large objects | reading undoes writing; both sides agree where a chain ends |
| parameters of statements (`statement.go:94-217`, `264-605`) | the arguments of a call; `paramCols`, `query`, `rewrittenOnServer` | take slices, readers and `sql.Out` apart, extract a batch, inline short BLOBs into the text, assign OUT values | slices of unequal lengths; markers inside strings and comments; several OUT values of which one does not fit; a panic | each row carries what the application passed; the text keeps its tokens; OUT values reach their own destinations |
| value codecs (`internal/codec`) | none | SQLDTA with descriptors, values and large objects; `DecodeField`, `ParseSQLDTARD`; decimals, DECFLOAT, EBCDIC, UTF-16 | rounding, nulls, lengths, groups of descriptors, padding; descriptor and value come from two switches | decoding undoes encoding; a value is read from its own bytes |
| authentication, TLS, DSN, administration, results, errors | none, or values | | | |

Three locks order all this: `Stmt.mu` (held by `Close` alone), `Conn.mu` (a call
of the driver), `Session.mu` (one request, or several where a method issues them
under one hold). `Stmt.Close` takes no `Conn.mu`; `Rows.Next` and `Rows.Close`
take only `Session.mu`; the callback of a cancelled context takes none.

## 2. The modules

| module | models | extends |
|---|---|---|
| `SectionPool` | the promise of the allocator: grant what is free, refuse when all is held | |
| `SectionManager` | the bitmap, the scan, releases; implements `SectionPool` | |
| `Statements` | statements over the sections of a connection; its steps are built from the allocator's | `SectionManager` |
| `StatementsProofs` | theorems about `SectionManager`, `Statements`, `Rewriting` and `Parameters` | `Statements`, `Parameters`, `DataProofs` |
| `Exchange` | requests, replies, cancellation, the pool's view of a broken session | |
| `ExchangeProofs` | theorems about `Exchange` | `Exchange` |
| `Transactions` | units of work, auto-commit, isolation, pool | |
| `TransactionsProofs` | theorems about `Transactions` | `Transactions` |
| `ClientRegisters` | identity of a pooled connection | |
| `ClientRegistersProofs` | theorems about `ClientRegisters` | `ClientRegisters` |
| `ResultCursor` | what an application expects of the rows of a query | |
| `QueryStream` | blocks, large objects, end, close; implements `ResultCursor` | |
| `QueryStreamProofs` | theorems about `QueryStream` | `QueryStream`, `DataProofs` |
| `Framing` | bytes of DDM objects and DSS segments, as operators | |
| `RequestChains` | all request chains, written and read byte by byte, and reply chains cut up freely | `Framing` |
| `WireProofs` | theorems about `RequestChains` and `Decimals` | `RequestChains`, `Decimals`, `DataProofs` |
| `Replies` | what each method takes from a reply chain, as operators | |
| `Session` | handshake, requests with all their answers, close | `Replies` |
| `SessionProofs` | theorems about `Session`: the handshake, and what methods take from replies | `Session`, `DataProofs` |
| `Decimals` | packed decimals, densely packed decimal, the combination field, DECFLOAT, as operators | |
| `ParameterData` | SQLDTA as the driver builds it, byte by byte, as operators | `Decimals` |
| `FieldData` | values read back from bytes by type: `DecodeField`, and the server's reading of SQLDTA | `ParameterData` |
| `Rewriting` | the scan of `rewriteBinaryParams` over the tokens of a text | |
| `Parameters` | a call with arguments, batches, literals and OUT values; its rows go through the codec | `FieldData`, `Rewriting` |
| `DataProofs` | lemmas about numbers, sequences and folds that the proofs use | |
| `MC...` | the instances TLC checks, with their `.cfg` | the module named |

How state and actions correspond to the code:

**SectionManager.** `bitmap` maps a word to the set of its 1 bits; `nextFree` is
the field; `acquired` is the last result of `Acquire`, 0 for its error. `Acquire`
is one step (it holds `sectionManager.mu`) that picks the first free candidate of
the scan; `Release` carries the range guard of line 58.

**Statements.** `stmt` is the `Stmt` values, `text` what the server has prepared
under each section, `lock` is `Conn.mu`, `call` the program counter of each
caller. A call takes several steps: `Start` (the unlocked look at `closed`),
`Lock` (wait, and the second look), `Rewrite` / `RestoreFirst` / `Straight`
(what kind of execution it is), `Reprepare` (a second PREPARE, with its failure)
and `Return`. `CloseStmt` comes between any two of them, as in the code.
`Straight` covers plain executions, batches, CALL and queries, none of which
look at `rewrittenOnServer` but the plain one.

**Exchange.** `wire` is the byte stream cut into reply frames, `serving` what the
server still owes. `Send`, `ReadFrame`, `ReadBadFrame`, `ReadFails` are the
request methods with `brokenOnErrorConn`; `Interrupt`, `MarkBroken`, `Expire`
are the three writes of the callback in `watch`, each a step of its own that may
come after the request has returned. `Stopped` is what `stop()` leaves. `got`,
`firstRequest`, `misframed` are history variables for the properties.

**Transactions.** A request is one step with an outcome: "done", "failed" (the
server refused), "lost" (no answer; the server may have done it). `doing` is the
operation of several requests in progress: the cleanup of a Tx, a batch, its
rollback. `EndStream` comes between any two of them, because `Rows` takes only
`Session.mu`. The server's unit of work is a set of writes; `uow` and `durable`
are its state, `asked`, `told`, `acked` history.

**ClientRegisters.** `server` and `shadow` are the registers and the session's
copy. `SkipRegister`/`SetRegister`/`ResetDone` are the loop of
`ResetClientInfo`, `AttemptSwitch` one of the three ways of `SwitchUser`, the
places "connecting" and "resetting" are `Connect` and `ResetSession` with their
calls of these. The three spellings of a SET are one attempt. A SET is done, refused
by a card ("failed", which ends the call), refused by a message, to which `ExecSQLSet`
does not listen ("unheard": the call goes on and remembers the value), or lost.
`unsure` is history: the registers whose SET was refused unheard or stood in a call
that failed (`SetInVain`), until a later SET of them gets through.

**QueryStream.** The result is cut into parts and large objects; the server
chooses how many of each a chain carries (`Sends`). `Take` is
`decodeRowsPartial` and `stitchReadyRows` on the buffers; `Open`, `Fetch`,
`FetchEnd`, `Close` are the methods, `NextRow`/`NextBatch` those of `Rows`;
`Break` is a session broken from elsewhere and `SwitchMode` a transaction that
begins or ends meanwhile.

**Framing and RequestChains.** `PackDDMObject` and the header operators produce
the bytes of `dss.go` and `ddm.go`; `ObjectData` takes an object apart again. Each
method of `Session` has an operator for the calls of `WriteRequestDSS` it makes;
`chain` is what is left of them. `WriteFirst` and `WriteContinuation` are the
segments `WriteRequestDSS` writes, `ReadHeader`, `ReadContinuation`, `ReadBody` and
`ReadEOF` the places where `ReadDSS` waits for bytes. `stage` and `turn` say which
chains a session may write: those of the handshake in their order, then any.
`ServeFirst` and `ServeContinuation` are an external server that cuts segments and
chooses the form of lengths as it likes. `Cut` ends the connection after any byte,
`Discard` gives the session up.

**Replies and Session.** A reply is a record with its codepoint and what the
methods look at. The operators `Read...` of `Replies` are the loops over a reply
chain. In `Session` a request is one step: an answer of the server is chosen with
its `truth`, the first or the second chain is lost or none, and `call` holds what
the method returns beside that truth. The handshake has a step for each chain
(`Dial`, `StartTLS`, `AccSec`, `SecChk`, `PostConnect`, `SetRegisters`), with the
way out of each. A query of `fetchQuery` takes a step per block
(`OpenQuery`, `ContinueQuery`, `QueryBreaks`); its server cuts rows and large
objects into blocks anywhere and ends in each way the code knows.

**Decimals, ParameterData, FieldData.** Bytes are numbers, byte strings
sequences of them. A value is a record of a kind (one for each Go type the code
tells apart) and its data; the text of a number is a record of its digits
(`Number`), since the code looks at nothing else in it. `EncodePacked` and
`EncodeDFP` place digits as `encoders.go` and `decfloat.go` do, `Descriptor` is
the entry of a column, `FDODTA` its value, `BuildSQLDTA` the object with its groups
of 84 descriptors (`FDODSC`), its byte of padding and the large objects behind it.
`FieldData` reads results (`DecodeField`, `ParseSQLDTARD`), and the parameters as a
server does that knows the descriptors alone. Nothing is the identity: an `int64` becomes two, four or eight
bytes or a text, a character its UTF-8 or UTF-16, a time the bytes of its column.

**Rewriting and Parameters.** A text is a sequence of tokens: the quotes, comment
signs and markers the scan looks at, one token for anything else. A call is
`CallMiscounted`, `CallBatch`, `CallRewritten`, `CallPlain` or `CallUnprepared` up
to its first row, then a `SendRow` for each row (parameters and large objects), the
server's `ServerReads`, `ServerRejects` or `ServerFails`, `Assigned` with the OUT
values, and `CallReturns`. The scan has an operator for each place it can be in (`InLine`,
`InBlock`, `InQuotes`, `Outside`). `received` holds the rows as the server has read them,
`dests` the variables behind `sql.Out`. A call ends "ok", "error", "rejected"
(the server cannot read the parameters), "unassigned" (executed, and then an OUT
value did not fit) or in a "panic".

## 3. What the runs check

| run | question | states | result |
|---|---|---|---|
| `statements` | sections, texts and descriptors under concurrent calls and closes; does the allocator behind them implement the pool, and move on past the section granted last? | 1.30 M | holds |
| `exchange` | replies, cancellation and the pool | 0.26 M | holds, with liveness |
| `transactions` | commit, atomicity, isolation, pool | 0.43 M | holds |
| `client_registers` | identity of a pooled connection, over refusals heard and unheard | 2.12 M | holds |
| `query_stream` | rows, cursor and commit of a streamed query | 1,837 | holds |
| `request_chains` | do both sides of a connection agree on frames and ends of chains? | 0.90 M | holds |
| `session` | who is let in, what is left behind, what methods make of replies | 66,240 | holds |
| `parameters` | do arguments, literals and OUT values arrive, whatever their types, lengths and neighbours? | 20,549 | holds |
| `stmt_batch`, `exchange_stale`, `tx_commit`, `registers_foreign` | promises of comments and documentation | | violated, see 6 |

Bounds, and why they are enough:

- `statements`: two callers are the smallest number that waits; three statements
  over two sections are the smallest that runs out and gives a closed
  statement's section to another one while its old caller still waits. The
  sections lie in two words of two bits, the second ended inside, and the scan
  starts at each of them; the theorems take the bounds of the allocator away. Symmetry permutes callers and statements, of which the specification names
  none. (`stmt_batch` leaves `acquired` out of its states by a view: its property
  does not look at it, and each step reads it only in the next state.)
- `exchange`: two requests in one checkout or two are what a reply can be
  confused between; chains of two frames have a first and a last one. Each
  request may be cancelled, so a late callback can meet the next.
- `transactions`: two units, four writes and batches of two rows: a batch can
  run in a transaction with a write before it and one after it, and what a unit
  leaves can reach the next.
- `client_registers`: three registers give a call a first, a middle and a last
  one, one configured and one the workstation's; two values besides the empty
  one tell two users apart.
- `query_stream`: four rows of two parts with 1, 0, 2 and 1 large objects: a
  row that waits for nothing behind one that waits, a row that needs two
  objects, and every cut of bytes and objects into chains.
- `request_chains`: segments of 15 bytes, where the code has 32767: bodies of 5
  and 6, 11 and 12, 14 and 15 bytes lie on both sides of a boundary (a payload
  that fills the first segment, an object whose length becomes extended), 28 needs
  three segments and 33 exceeds what a reader takes. Every chain occurs with every
  size; two large objects have one that is followed and a last one. The writer
  waits while more than eight bytes are unread, which keeps the interleavings few
  and still lets a header, a length or nothing at all be ahead of the reader.
- `session`: a password in clear, an encrypted one and Kerberos are the
  mechanisms the code tells apart; two result sets have a first and a next one,
  two rows in four pieces can be cut inside and between rows.
- `parameters`: each type has integers at the ends of every width, texts of
  characters of one to four bytes of UTF-8 and with surrogates, decimals with too
  many digits on either side; every two of sixteen sample columns stand side by
  side, with a NULL in either place. Where the code counts to a large number the
  module has a constant: LOBs longer than `InlineUnits` = 4 go out of line (16383),
  streams up to `MaxInline` = 8 fit a VARCHAR (65535) and up to `MaxStream` = 12
  any object (2 GiB), and BLOBs of up to `ShortBlob` = 4 bytes trigger the
  rewriting (16383), so that values lie on both sides of each. 83, 84, 85, 168 and
  169 parameters are one group less one, a full one, one more, two, and one more.
  Batches have slices of 0 to 3 elements in every combination of two.

Each property has a fault that breaks it in these runs: an operator that nothing
in the specification uses and that stands just before the one it differs from, say
`ParametersAlone` before `Parameters`. Put in its place, it shows that the
property is about the code.

Deadlock is checked where something can always go on (`statements`:
no two callers ever wait for each other; `request_chains`: driver and server never
both wait for bytes; `parameters`: whatever a call meets, the next one can begin;
`session`). In the others the
behaviour really ends: a discarded connection, a closed stream, the bound on
requests or units.

Fairness is assumed in `Exchange` alone: a blocked reader that can read (a frame
or an expired deadline) goes on, and a callback the runtime has started goes on,
which is what the Go scheduler and netpoller give. The server, the network and
the application owe nothing, so `CancelledReturns` holds for a silent server.

## 4. What is proved

Each property of a run that a theorem states has a theorem of its own; the modules
hold the inductive invariants behind them.

`StatementsProofs`, for every size of words, bitmap and range of the allocator:

- `SectionSafety`: the allocator keeps its shape and sections 0 and 1 stay taken.
- `SectionRefinement`: it implements `SectionPool`; each `Acquire` maps to a
  grant or to a refusal with all sections held, each `Release` to a return or a
  stutter. The scan lemmas show that the candidates are assignable and that
  every assignable section is one of them.
- `SectionRotation`: `RotatesAway`, which is about the section granted last and no
  other: after grants of 2 and 3, released as 3 and 2, the next grant is 2, although
  3 has been free for longer. This needs more than the type invariant:
  `ScanBehindGrant` says that the scan starts just behind the section granted
  last, so that this section is the last candidate. `SectionInv` is the
  conjunction of the three and is inductive.

The assumption is `SectionAssumption` (the bitmap has a bit for each section),
which the code's constants 500, 64 and 8 satisfy. `SectionSafety` (with
`ReservedHeld`) has no run of its own: `statements` checks the steps through
`SectionManager` with the refinement. On these rest, for every number of callers and
statements:

- `StatementsTyped`, `SectionsStayMatched` (`SectionsMatchStatements`),
  `ExecutionsRunOwnText` (`RunsOwnText`) and `DescriptorsFitText` (`ExecMatchesText`).
- `StatementsPool` and `StatementsRotation`: each step of the statements is a step of
  `SectionManager` or leaves it alone, so `ImplementsPool` and `RotatesAway` hold behind
  the statements.

`StatementsInv` adds what a caller knows of its statement at each place of a call
(`CallsMatch`), that the section of a statement closed under a running call cannot
be given away before the call ends, since a grant needs `Conn.mu` (`SectionIsKept`),
and that the flag `rewritten` tells when the server may have another form of the
text, with no text left of a handle that is free for reuse (`TextsMatch`). Each action
has a lemma, `Close` one for its two outcomes. `StatementsAssumption` says that
the owner of a free lock is no caller.

The same module, for every set of statements and arguments (`CasesAssumption`: the
server describes each marker of a text; arguments and slices are sequences):

- `TokensKept` (`TextKeepsItsTokens`) and `ParametersTyped` (`ParametersTypeOK`).
- `RewritingExact`: the scan of `rewriteBinaryParams` makes literals of the markers of
  the chosen parameters, leaves every other character alone and lists the parameters
  in the order of their markers, for every text.
- `DescriptorsRead`: for every number of parameters, `FDODSC` in its groups of 84 is
  read back as the same descriptors.

The scan of the code goes through a text character by character with four flags; the
model of the server says where tokens begin and end without a scanner. `Position`
relates the two: the state of the scan (`Scanning`, a function that records its turns)
is that of the token it is in (`Inside`), and it is ready for any character exactly
where a token begins. `ClosesAt` has the hard case, doubled quotes: the quotes up to a
place pair up and no other follows. `Written` says what is out by then. For a call,
`TextInv` is inductive and holds `TextKeepsItsTokens`.

`ParametersTypeOK` asks for a value for each parameter in each row the server has read,
which depends on the whole way of a row. `CallInv` adds that the text of the section is
the statement's own with literals for some of its markers, or unknown (`SectionText`),
that a call has a literal for each place replaced in its text, unless it is a batch,
which looks at no literals (`Fitting`), and at each point of a call how many rows are out and what is on the wire (`CallShape`,
`CallText`, `CallWire`, `CallRows`). The number of places that take a value is kept by
the rewriting: a literal is a token by itself (`Splits`). The values of OUT parameters go
through three folds and leave each destination its Go type (`SameKinds`), as
`assignOutParam` does for every destination and value.

`ExchangeProofs`, for every number of requests and frames of a chain:

- `ExchangeTyped`, `PoolIsQuiet` (`PooledIsQuiet`), `RepliesAreOwn` (`OwnReplies`) and
  `OkAnswersAreComplete` (`OkIsComplete`).

The driver compares no identifiers, so what makes a reply one's own is its place
in the stream. `Aligned` says it of the frames on the socket and the server's
queue together: all of them answer the request in flight, the frame that ends the
answer is the last one and nothing is served behind it, at most one SQLDARD
announces a second chain, and the server answers with that exactly when it has
been announced. This holds until a frame cannot be parsed or the deadline has
passed (`InStep`), and both mean that the session is marked broken, since a
callback marks it before it sets the deadline (`PlacesMatch`). From then on only
`OfCheckout` is left: what is under way belongs to the checkout, because a
checkout of a usable connection finds nothing on the socket. The assumption is
`ExchangeAssumption`. Three lemmas say what reading, appending and replacing the
head do to a sequence.

`QueryStreamProofs`, for every number of rows, of parts of a row and of large objects
of each row, and however they are spread over blocks:

- `StreamDelivers`: the stream implements `ResultCursor` (`ImplementsResult`): what
  `Rows` hands out are the rows of the result, in order, each with its own bytes and
  large objects, and the end is told only behind the last one.
- `FetchesAreWanted` (`NoFetchAfterEnd`), `CommitsComeLast` (`CommitAfterEnd`),
  `CursorsAreReleased` (`CursorReleased`) and `StreamTyped`.

`StreamInv` says that the client's belief of the cursor is true: a query taken for
ended is, one that is read from is open, a committed one has ended. `PlaceInv` says
where the data is, in three numbers: of the `g` parts sent by now those of complete
rows are in `pendingRows` behind the `r` rows released, the others in `tailBuf`, the
rest with the server; the large objects of the rows released end where those in
`pendingExt` begin, and these end at the `l` that are sent, where `owed` begins
(`InFlight`). `HandedOver` says the same of the batch in `Rows`, `Stage` which of these
places coincide at each point of a query. Every buffer is a slice of one of three
sequences (`AllBytes`, `AllRows`, `AllLobs`), and `ChainTaken` shows that a chain moves
the numbers and stitches the rows between them: `DecodedRows` cuts whole rows from the
bytes, `ReadyRows` finds how many of them have their objects, `StitchedRows` gives each
its own. `StreamAssumption` says that rows have at least one part.

These folds need induction over the data. `DataProofs` has it without an operator as
parameter: a property of numbers is the set of the numbers that have it, the least one
outside of which `WFMin` gives (`Induction`), and a fold is met by a function that
records its steps (`FoldsExist`, `FlattenRuns`), whose values a second induction tells.

`SessionProofs`, for every set of mechanisms and every configuration:

- `NoSocketLeaks` (`NothingLeftBehind`) and `OnlyAcceptedSessions` (`AcceptedByServer`).

`SessionInv` adds what each step of `Connect` says of the connection (`LifeCycle`)
and what the handshake has found by then (`Granted`); `RefusalsAreSeen` shows that
each refusal of the server is taken for one.

The same module, for every number of rows, of result sets and of their large objects:

- `FailuresAreReported` (`ErrorsReported`), `AnswersArrive` (`AnswersAreRead`),
  `QueriesAreWhole` (`QueryIsWhole`) and `SessionTyped` (`SessionTypeOK`).

`DataInv` says of the last request that its result is truthful (`Kept`, `Truthful`),
and of a query being fetched that its data and its objects are the first ones of the
cursor, as many as the server has sent (`Fetching`, `Sofar`). The work is in the
answers of the server, method by method (`DirectTells` to `CallTells`). They are
joined from parts, so what is said of a chain must survive joining: a chain is what
it ranges over (`IsChain`), a success is one card among replies that neither fail nor
count (`Succeeds`), a failure is in a chain wherever it is (`FailsBy`), and
`OneCounts` adds the rows up. For a CALL, `Folds` relates what has been read before and
after a chain; it composes over joined chains (`FoldsJoin`) and is what the loop of
`parseCallResultSets` computes (`FoldsRead`). `OneSet` takes it through one set:
`Ready` says that the set before is complete and goes out when the next one opens, so
that a set keeps its own names; `SetsRead` goes over all of them, by induction. For a
query, `DeliversJoin` splits the rows and objects of a chain over its parts and
`Carries` says which ones a block has. The assumption is `SessionAssumption`.

`TransactionsProofs`, for every number of writes, units and rows of a batch:

- `TransactionsTyped`, `NothingCommitsUnasked` (`NothingUnasked`), `UnitsAreAtomic`
  (`AllOrNothing`), `NothingStaysOpen` (`NothingDangling`) and `IsolationIsKnown`
  (`IsolationTracked`).
- `TransactionsCheckout`: `CheckoutIsFresh`.

None of these is inductive alone. `TransactionsInv` adds how far an operation has
come (`PhasesMatch`, `UnitMatches`), that only issued writes have effects
(`WritesIssued`), that on a usable connection the server's unit of work holds
writes of the latest unit only and none once that is over (`UowIsOwn`), that
nothing of a unit in progress is durable (`NotYetDurable`), and that as long as the
connection works everything that has to become durable with it is in the server's
unit of work (`StillTogether`): a commit then takes all of it or, refused or lost,
nothing. `AtomicUnits` is `AllOrNothing` without its sets. Each action has a lemma.

`ClientRegistersProofs`, for every number of registers, every set of values and
users and every configuration:

- `RegistersTyped`, `UserStaysKnown` (`UserKnown`) and `RegistersStayKnown`
  (`RegistersKnown`).
- `CheckoutRestores`: `CheckoutIsBase`.

The two about registers are stated for each register outside `unsure`, so a refusal of
one takes nothing away from the others. What they leave out the code does get wrong (6).
`RegistersInv` adds what holds in the middle: the registers a `ResetClientInfo` has
passed have their targets and the others what the copy says
(`RegistersTracked`), and a `ResetSession` gets past the user only with the
configured one on a usable session (`ResetProgress`). The theorems cover
configurations the run does not have, such as a configured workstation name.

`WireProofs`, for every length of a segment and of payloads, all sizes of bodies and
of pieces, and every form of the lengths in replies:

- `FramesArrive` (`ReadsWhatWasWritten`), `TurnsEnd` (`TurnsAlternate`),
  `ObjectsAnnounced` (`ObjectsFollowTheirCommand`) and `ChainsTyped` (`ChainsTypeOK`).

`ChainsInv` relates the bytes between the two sides to frames. A place is a frame, an
offset in its payload and whether its header has been written. Some bytes are a
`Stream` from one place to another if they are segments, each with the header its frame
calls for, that lead there; between places of one payload they may be cut anywhere.
`FlowInv` says that the bytes on the wire, with those behind them that a broken
connection has lost, are what the reader expects (`Expects`): the rest of the segment
it is in and a stream from there to the writer's place (`WriterAt`). A writer that adds
a segment extends the stream at its end, a reader that takes one shortens it in front.
The payload of a frame is any of the forms of a DDM object that reads back as its
body (`IsPayload`), since servers choose the form of lengths. The lemmas below it are
about bytes: words with and without their flag, headers and objects read back as what
they were made of. `ChainInv` has the chains: what is left of a request is a
part of some method's chain (`Part`), ends with an unchained frame and keeps its
identifiers below a bound; `ObjectsInv` says what the last frame has announced,
`OrderInv` that every frame but the last is chained. The assumptions are
`FramingAssumption` (segments of 15 to 32767 bytes, the code has 32767, and at most
2^30 bytes in a payload, the code has 2^27) and `ChainsAssumption`.

The same module, for all digits and bits:

- `DpdRoundTrip`: the declets of densely packed decimal give back their three
  digits; `DpdDigits`: any ten bits are read as three digits.
- `CombinationRoundTrip`: the five bits of the combination field give back the
  leading digit and the high bits of the exponent and never say infinity or NaN.
- `PackedPlaces`: the digits of a packed decimal of any precision have places of
  their own inside the field, apart from the sign.

TLC has checked all parts of the inductive invariants on the instances of the runs
before they were proved (those of `CallInv` with the replaced markers and the kinds of
values read off the state), but for the quantified `FlowInv`, whose witnesses are no state
of the model.

Only model-checked: the liveness property `CancelledReturns` (liveness under
fairness is out of the prover's reach) and two properties of `Parameters`. For
`RowsArrive` decoding must undo encoding for every type, with values that carry no type
of their own in the model; `DpdRoundTrip`, `PackedPlaces` and `DescriptorsRead` are
parts of this. `OutputsReachTheirs` also needs that the values of an OUT parameter fit
its column.

## 5. Assumptions about the environment

- `database/sql` calls a connection from one transaction or statement at a
  time, calls no `Next` after an error, closes `Rows`, calls `ResetSession`
  before it gives a pooled connection out and `IsValid` before it takes it back.
  `Statements` assumes less: it lets calls of one `Conn` overlap.
- The server answers requests in order, ends each chain with an unchained
  frame, sends large objects in the order of their rows and closes the cursor
  with ENDQRYRM. It may refuse a commit only by rolling back. It may stop, drop
  the connection or send what cannot be parsed.
- The server describes the OUT parameters of a CALL and its sets or neither; the
  descriptor of the output has an SQLCA of its own, that of the parameters a null
  one; a second chain follows an SQLDARD where the method expects one; the sets of
  a CALL end in their first block.
- A server reads parameters by their descriptors and tells the byte of padding in
  front of them from a null indicator. `wire.front` says whether it is there,
  because the bytes do not always: INTEGER 0, VARCHAR "a" and a DECIMAL NULL are
  the same ones with and without it.
- Floats have no fraction and times the layouts of their columns; a
  `driver.Valuer` has been asked for its value. An application passes a reader
  once. A statement of `Parameters` is used through one of `ExecContext` and
  `QueryContext`, by one goroutine: what mixing them does to the text of a section
  is the subject of `Statements`.
- A SET whose reply carries a failing card has changed no register and no user: the
  commit behind it does not fail for reasons of its own.
- A request whose exchange fails has marked the session broken, as
  `brokenOnErrorConn` does; no later request gets through.

## 6. Findings

- `stmt_batch`: a batch after an execution with a short BLOB is sent with the
  original descriptors while the server holds the rewritten text
  (`statement.go:154`; `session.go:1003` says "against the currently prepared
  statement").
- `exchange_stale`: requests look at `closed` and not at `broken`
  (`session.go:728`), so after a framing error the next request of the same
  checkout reads the bytes left, which `session.go:119-121` rules out. The pool
  is safe: `OwnReplies` and `PooledIsQuiet` hold.
- `tx_commit`: the reply to RDBCMM is dropped (`session.go:697`), and
  `Tx.Commit` returns nil for a commit the server refused.
- `registers_foreign`: a `SetClientInfo` that is refused half way leaves
  registers on the server that `ClientInfoMatches` does not see; the next user
  of the pool keeps them. A SET refused by an SQLERRRM (`session.go:2277-2289`) does
  it too: `ResetClientInfo` writes its copy as if the server had taken the value, and
  when that was the reset itself, the registers of the user before stay.

Limits of the code that no run states: `QueryStream.Close` and `Rows.Next` read
without a cancellable context; the configured `timeout` bounds the dial only; `Interrupt`
waits for the lock of the request it should interrupt; a first fetch that fails
leaves its cursor to the server (packages of SYSSH200 hold cursors over
commits); a batch that fails in a transaction rolls all of it back, after which
`Commit` returns nil; after a failed restore of the isolation a `BeginTx` with
the default isolation in the same checkout runs at the old one.

What requests and replies leave untold (the models follow the code in these, and
their properties name or exclude the case): the RDBCMM behind parameters is
written with identifier 1 again (`session.go:943`), whatever the flag of the DSS
before it said, so `ObjectsFollowTheirCommand` does not ask that identifiers of
commands differ; `ExecSQLSet` hears cards and no messages (`Hears`), a commit
hears nothing, a ping hears messages only; the replies to the post-connect
variables are not looked at; a database that is not found is recognised in the
answer to ACCSEC only (`AcceptedByServer` lets "notfound" pass); a second chain
that is lost is not reported (`ErrorsReported`); `QueryCallDirect` reads a second
chain in auto-commit mode only; result sets of a CALL without rows are dropped and
those with more than one block are not fetched to their end, though
`session.go:1850` says that all dynamic result sets are decoded; the descriptor of
the OUT parameters may name the columns of a set that has no names of its own.

What parameters leave untold, with the operator that follows the code or names the
exception:

- An empty slice in front of a longer one passes the check of lengths, because a
  size of 0 stands for "not seen" (`statement.go:583`), and the extraction
  panics (`TooShort`); slices that are all empty are executed once, with the text
  `[]` for a value (`SliceText`, `Excluded`). A reader in a batch is empty from the
  second row on (`drained`, `Excluded`). OUT destinations of a batch are not
  assigned.
- Of a rewritten statement the OUT values are looked up by the original arguments
  (`statement.go:181`): with a literal in front of an OUT parameter its value goes
  astray or is dropped (`OutputsReachTheirs` excludes these).
- An OUT value that does not fit its destination fails the call after its effect
  (`statement.go:209`), and the ones behind it are not assigned. An `int64` given
  to a string destination becomes the character of that number, since
  `ConvertibleTo` comes before the fallback to `fmt.Sprint`; narrower integers wrap
  (`Delivered` does not ask for these). OUT large objects are empty placeholders;
  an SQLDTARD that cannot be parsed is ignored (`session.go:982-985`), and one that
  begins with 0xFF is taken for a header (`decoders.go:628-635`).
- VARBINARY, XML, types the switches do not know and `[]byte` for character columns
  are described as strings of two-byte characters and written with a length in
  bytes; GRAPHIC without a length is described by 0 (`Misdescribed`). An XML
  value's length wraps at 65536.
- BINARY and GRAPHIC cut what is too long, even inside a surrogate pair; a packed
  decimal drops integer digits beyond its precision and cuts its fraction, and
  reads "1E5" as 105; a FLOAT column takes an `int32` or a text as 0, a BOOLEAN an
  unknown text as false (`Lossy`). A DECFLOAT mantissa is cut, not rounded, a zero
  has no exponent, and "-", "." and "" are zeros.
- A batch behind a call with a short BLOB meets a text with literals (`stmt_batch`
  above): `RowsArrive` and `TextKeepsItsTokens` exclude it (`BatchOnLiterals`).
- Once one short BLOB triggers the rewriting, longer ones go into the text as well.
  Block comments do not nest.

## 7. Plan

Done, in this order: the allocator with its proofs, `Statements`, `Exchange`,
`Transactions`, `ClientRegisters`, `QueryStream`, `RequestChains`, `Session`,
`Decimals`, `Parameters`, `StatementsProofs`, `ExchangeProofs`, `SessionProofs`,
`DataProofs` and `QueryStreamProofs` with the refinement, `WireProofs`, the proofs about
`Parameters`. To come:

1. Round trips of the types of `Parameters`, from bytes to `RowsArrive`.
2. `Cursors`: `Statements` composed with `QueryStream`: streams that live on a
   section while it is re-prepared (section 1 of direct queries), a stream that
   outlives its statement, `Session.Close` under open `Rows`.

## 8. Not modelled

Of the codecs: code page 500 and the choice between it and UTF-8 (tables), floats
with a fraction, layouts of times other than the columns' own, the names of types.
`CheckNamedValue`, which turns scalars into the driver's types. The parameters
inside single commands, authentication and TLS (cryptography; `Session` has their
outcomes), DSN parsing and configuration (string processing), the administrative
helpers (CREATE and DROP DATABASE over a connection of their own), results, errors
and context keys (values). `Rows` over the result sets of a CALL, which are all in
memory by then. Formatting and logging are left out throughout.
