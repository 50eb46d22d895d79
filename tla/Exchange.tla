------------------------------ MODULE Exchange ------------------------------
(***************************************************************************)
(* Request and reply over the socket of a pooled session                   *)
(* (internal/drda/session.go: watch, brokenOnErrorConn, readReplyChain;    *)
(* connection.go: IsValid, ResetSession).                                  *)
(*                                                                         *)
(* A request holds Session.mu from its first byte to its return, so        *)
(* requests follow each other.  What runs beside them is the server, the   *)
(* network, and for each request the callback that its context starts when *)
(* it is cancelled: stop() prevents a callback that has not begun and does *)
(* not wait for one that has, so its three writes may come at any later    *)
(* time.  The client checks no identifier in a reply: replies are told     *)
(* apart by their place in the byte stream alone.                          *)
(***************************************************************************)
EXTENDS Naturals, Sequences

CONSTANTS MaxRequests,   \* bound: requests sent in a behaviour
          MaxFrames      \* bound: reply frames of one chain

ASSUME ExchangeAssumption == MaxRequests \in Nat \ {0} /\ MaxFrames \in Nat \ {0}

Requests == 1 .. MaxRequests
NoRequest == 0

VARIABLES place,         \* the connection: in the pool, checked out, discarded
          request,       \* the latest request
          reading,       \* the reply chain it reads: "none", "first", "second"
          answer,        \* what its caller has got
          callback,      \* request -> the callback of its context
          interruptedBy, \* brokenOnErrorConn.interruptedBy
          broken,        \* Session.broken
          expired,       \* the socket deadline lies in the past
          wire,          \* reply frames sent and unread
          serving,       \* requests the server has not finished to answer
          got,           \* history: whose reply frames the latest request has read
          firstRequest,  \* history: the first request of the checkout
          misframed      \* history: a reply of the checkout could not be framed

clientVars  == <<place, request, reading, answer>>
cancelVars  == <<callback, interruptedBy, expired>>
peerVars    == <<wire, serving>>
historyVars == <<got, firstRequest, misframed>>
vars == <<clientVars, cancelVars, broken, peerVars, historyVars>>

InFlight == reading # "none"

\* A reply frame: the request it answers, whether another frame of the chain
\* follows, whether the chain it ends asks for a second one by its SQLDARD,
\* whether it can be parsed.
Frame == [of : Requests, chained : BOOLEAN, dard : BOOLEAN, good : BOOLEAN]

\* A server entry: the request, the chain it answers and that chain's frames sent.
Served == [of : Requests, chain : {"first", "second"}, sent : 0 .. MaxFrames]

ExchangeInit ==
  /\ place = "pooled" /\ request = NoRequest
  /\ reading = "none" /\ answer = "none"
  /\ callback = [r \in Requests |-> "off"]
  /\ interruptedBy = NoRequest
  /\ broken = FALSE /\ expired = FALSE
  /\ wire = <<>> /\ serving = <<>>
  /\ got = {} /\ firstRequest = 1 /\ misframed = FALSE

-----------------------------------------------------------------------------
\* database/sql takes the connection: ResetSession refuses a broken session.
Checkout ==
  /\ place = "pooled"
  /\ IF broken THEN place' = "discarded" /\ UNCHANGED firstRequest
               ELSE place' = "held" /\ firstRequest' = request + 1
  /\ UNCHANGED <<request, reading, answer, cancelVars, broken, peerVars, got, misframed>>

\* database/sql puts it back: IsValid is false for a broken session.
PutBack ==
  /\ place = "held" /\ ~ InFlight
  /\ place' = IF broken THEN "discarded" ELSE "pooled"
  /\ UNCHANGED <<request, reading, answer, cancelVars, broken, peerVars, historyVars>>

-----------------------------------------------------------------------------
\* What stop() leaves of a callback: one that has not begun is taken back.
Stopped(state) == CASE state = "armed"     -> {"off"}
                    [] state = "cancelled" -> {"off", "cancelled"}
                    [] OTHER               -> {state}

\* The request returns to its caller, and its deferred stop() runs.
Finish(result) ==
  /\ answer' = result
  /\ reading' = "none"
  /\ \E state \in Stopped(callback[request]) :
       callback' = [callback EXCEPT ![request] = state]

\* A failed write whose error is dropped.
WriteFailedUnreported ==
  /\ broken' = TRUE /\ answer' = "awaited"
  /\ UNCHANGED <<reading, callback, serving>>

\* brokenOnErrorConn.Write fails: the session is broken and the request returns.
WriteFailed ==
  /\ broken' = TRUE /\ answer' = "failed"
  /\ UNCHANGED <<reading, callback, serving>>

\* A request locks the session, registers its callback and is written.  It looks
\* at closed and not at broken; a write fails once the deadline is past.
Send ==
  /\ place = "held" /\ ~ InFlight /\ request < MaxRequests
  /\ request' = request + 1
  /\ got' = {}
  /\ IF expired
     THEN WriteFailed
     ELSE /\ answer' = "awaited" /\ reading' = "first"
          /\ callback' = [callback EXCEPT ![request'] = "armed"]
          /\ serving' = Append(serving, [of |-> request', chain |-> "first", sent |-> 0])
          /\ UNCHANGED broken
  /\ UNCHANGED <<place, interruptedBy, expired, wire, firstRequest, misframed>>

\* A reader that takes the first frame for the whole chain.
ReadOneFrame ==
  /\ InFlight /\ ~ expired /\ wire # <<>> /\ Head(wire).good
  /\ got' = got \cup {Head(wire).of}
  /\ wire' = Tail(wire)
  /\ Finish("ok")
  /\ UNCHANGED <<place, request, interruptedBy, expired, broken, serving,
                 firstRequest, misframed>>

\* readReplyChain reads a frame.  The chain ends with the frame whose header is
\* not chained; an SQLDARD in the first chain asks for a second one.
ReadFrame ==
  /\ InFlight /\ ~ expired /\ wire # <<>> /\ Head(wire).good
  /\ got' = got \cup {Head(wire).of}
  /\ wire' = Tail(wire)
  /\ CASE Head(wire).chained -> UNCHANGED <<reading, answer, callback>>
       [] ~ Head(wire).chained /\ Head(wire).dard /\ reading = "first" ->
            reading' = "second" /\ UNCHANGED <<answer, callback>>
       [] OTHER -> Finish("ok")
  /\ UNCHANGED <<place, request, interruptedBy, expired, broken, serving,
                 firstRequest, misframed>>

\* A chain that failed returns its error, but for the second chain of an
\* execution or a CALL: there the error is dropped and the first chain is the answer.
ResultOfFailure == IF reading = "first" THEN "failed" ELSE "ok"

\* A framing error that leaves the session usable.
ReadBadFrameUnmarked ==
  /\ InFlight /\ ~ expired /\ wire # <<>> /\ ~ Head(wire).good
  /\ misframed' = TRUE
  /\ wire' \in {wire, Tail(wire)}
  /\ Finish(ResultOfFailure)
  /\ UNCHANGED <<place, request, interruptedBy, expired, broken, serving, got, firstRequest>>

\* ReadDSS or readDDMObject rejects the frame: it may be consumed or not, and
\* what follows it is left on the socket.
ReadBadFrame ==
  /\ InFlight /\ ~ expired /\ wire # <<>> /\ ~ Head(wire).good
  /\ broken' = TRUE /\ misframed' = TRUE
  /\ wire' \in {wire, Tail(wire)}
  /\ Finish(ResultOfFailure)
  /\ UNCHANGED <<place, request, interruptedBy, expired, serving, got, firstRequest>>

\* The read fails on the expired deadline, whatever is on the socket.
ReadFails ==
  /\ InFlight /\ expired
  /\ broken' = TRUE
  /\ Finish(ResultOfFailure)
  /\ UNCHANGED <<place, request, interruptedBy, expired, peerVars, historyVars>>

-----------------------------------------------------------------------------
\* The application cancels the context of the request in flight.
Cancel ==
  /\ InFlight /\ callback[request] = "armed"
  /\ callback' = [callback EXCEPT ![request] = "cancelled"]
  /\ UNCHANGED <<clientVars, interruptedBy, expired, broken, peerVars, historyVars>>

\* The callback begins with interruptedBy.Store ...
Interrupt(r) ==
  /\ callback[r] = "cancelled"
  /\ callback' = [callback EXCEPT ![r] = "stored"]
  /\ interruptedBy' = r
  /\ UNCHANGED <<clientVars, expired, broken, peerVars, historyVars>>

\* ... goes on with broken.Store ...
MarkBroken(r) ==
  /\ callback[r] = "stored"
  /\ callback' = [callback EXCEPT ![r] = "marked"]
  /\ broken' = TRUE
  /\ UNCHANGED <<clientVars, interruptedBy, expired, peerVars, historyVars>>

\* A callback that leaves the socket alone.
ExpireNothing(r) ==
  /\ callback[r] = "marked"
  /\ callback' = [callback EXCEPT ![r] = "off"]
  /\ UNCHANGED <<clientVars, interruptedBy, expired, broken, peerVars, historyVars>>

\* ... and ends with SetDeadline(now), which nothing takes back.
Expire(r) ==
  /\ callback[r] = "marked"
  /\ callback' = [callback EXCEPT ![r] = "off"]
  /\ expired' = TRUE
  /\ UNCHANGED <<clientVars, interruptedBy, broken, peerVars, historyVars>>

-----------------------------------------------------------------------------
\* The server (external) answers in the order of the requests, at its own pace, a
\* first chain of frames and, when it announced one with an SQLDARD, a second.
\* A frame may be one the client cannot parse.
Serve(chained, dard, good) ==
  /\ serving # <<>>
  /\ LET s == Head(serving) IN
     /\ chained => s.sent + 1 < MaxFrames
     /\ dard    => s.chain = "first" /\ ~ chained
     /\ wire' = Append(wire, [of |-> s.of, chained |-> chained,
                              dard |-> dard, good |-> good])
     /\ serving' =
          CASE chained -> <<[s EXCEPT !.sent = @ + 1]>> \o Tail(serving)
            [] dard    -> <<[s EXCEPT !.chain = "second", !.sent = 0]>> \o Tail(serving)
            [] OTHER   -> Tail(serving)
  /\ UNCHANGED <<clientVars, cancelVars, broken, historyVars>>

ClientRead == ReadFrame \/ ReadBadFrame \/ ReadFails

CallbackStep(r) == Interrupt(r) \/ MarkBroken(r) \/ Expire(r)

ExchangeNext ==
  \/ Checkout \/ PutBack
  \/ Send \/ ClientRead \/ Cancel
  \/ \E r \in Requests : CallbackStep(r)
  \/ \E chained, dard, good \in BOOLEAN : Serve(chained, dard, good)

\* A blocked reader that has something to read goes on, and so does a callback the
\* runtime has started.  The server, the network and the application owe nothing.
ExchangeSpec ==
  /\ ExchangeInit /\ [][ExchangeNext]_vars
  /\ WF_vars(ClientRead)
  /\ \A r \in Requests : WF_vars(CallbackStep(r))

-----------------------------------------------------------------------------
\* The session's fields have the shape the code relies on.
ExchangeTypeOK ==
  /\ place \in {"pooled", "held", "discarded"}
  /\ request \in 0 .. MaxRequests
  /\ reading \in {"none", "first", "second"}
  /\ answer \in {"none", "awaited", "ok", "failed"}
  /\ answer = "awaited" <=> InFlight
  /\ callback \in [Requests -> {"off", "armed", "cancelled", "stored", "marked"}]
  /\ interruptedBy \in Requests \cup {NoRequest}
  /\ broken \in BOOLEAN /\ expired \in BOOLEAN
  /\ wire \in Seq(Frame) /\ serving \in Seq(Served)
  /\ got \in SUBSET Requests /\ firstRequest \in 1 .. MaxRequests + 1
  /\ misframed \in BOOLEAN

\* A connection in the pool has no reply outstanding, on the socket or at the
\* server, unless it is marked broken and the next checkout discards it.
PooledIsQuiet ==
  place = "pooled" => broken \/ (wire = <<>> /\ serving = <<>>)

\* Cancellations, late callbacks and reused connections notwithstanding, a request
\* reads no reply to a request of another checkout; and as long as every reply of
\* its own checkout could be framed, it reads no reply but its own.
OwnReplies ==
  /\ request >= firstRequest => \A q \in got : q >= firstRequest
  /\ misframed \/ got \subseteq {request}

\* A request that returns without an error has read a complete answer of its own,
\* or has left the session marked broken: what it lost (the second chain of an
\* execution or a CALL, whose error is dropped) is met by no user of the pool.
OkIsComplete ==
  answer = "ok" => \/ broken
                   \/ got = {request} /\ wire = <<>> /\ serving = <<>>

\* Cancelling a context frees the caller of its request, even from a server that
\* never answers (context_cancel_test.go).
CancelledReturns ==
  \A r \in Requests :
    (request = r /\ InFlight /\ callback[r] # "armed") ~> ~ (request = r /\ InFlight)

\* session.go on Session.broken: "Unread bytes may be left on the socket, so no
\* further request may use it."  So no request ever reads what another one left.
NobodysReplies == got \subseteq {request}
=============================================================================
