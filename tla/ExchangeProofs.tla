--------------------------- MODULE ExchangeProofs ---------------------------
(***************************************************************************)
(* Theorems about Exchange, for every number of requests and every length  *)
(* of a reply chain.                                                       *)
(***************************************************************************)
EXTENDS Exchange, SequenceTheorems, TLAPS

\* What each place of the connection and of its callbacks says of the session.
PlacesMatch ==
  /\ InFlight => place = "held" /\ request \in Requests
  /\ \A r \in Requests : callback[r] = "marked" => broken
  /\ misframed \/ expired => broken

\* What is on its way belongs to the checkout.
OfCheckout ==
  /\ firstRequest <= request + 1
  /\ \A i \in DOMAIN wire : wire[i].of >= firstRequest
  /\ \A i \in DOMAIN serving : serving[i].of >= firstRequest

\* The frame that ends the answer to a request.
Final(f) == ~ f.chained /\ ~ f.dard

\* Nothing has been lost or left: what the server has still to send and what is
\* on the socket is the rest of the answer to the request in flight.
Aligned ==
  /\ ~ InFlight => wire = <<>> /\ serving = <<>>
  /\ InFlight =>
       /\ \A i \in DOMAIN wire :
            /\ wire[i].of = request
            /\ wire[i].dard => ~ wire[i].chained /\ reading = "first"
            /\ Final(wire[i]) => i = Len(wire) /\ serving = <<>>
       /\ \A i, j \in DOMAIN wire : wire[i].dard /\ wire[j].dard => i = j
       /\ serving = <<>> => wire # <<>> /\ Final(wire[Len(wire)])
       /\ serving # <<>> =>
            /\ Len(serving) = 1 /\ serving[1].of = request
            /\ serving[1].chain = "second" <=>
                 reading = "second" \/ \E i \in DOMAIN wire : wire[i].dard

InStep == misframed \/ expired \/ Aligned

AnsweredByOwn == answer = "ok" => broken \/ got # {}

ExchangeInv ==
  /\ ExchangeTypeOK
  /\ PlacesMatch
  /\ OfCheckout
  /\ InStep
  /\ OwnReplies
  /\ AnsweredByOwn

-----------------------------------------------------------------------------
(* The socket and the server's queue, as sequences. *)

\* Reading a frame leaves those behind it.
LEMMA TailStep ==
  ASSUME NEW S, NEW q \in Seq(S), q # <<>>
  PROVE  /\ Len(q) \in Nat \ {0}
         /\ Head(q) = q[1] /\ Head(q) \in S
         /\ Tail(q) \in Seq(S)
         /\ Len(Tail(q)) = Len(q) - 1
         /\ DOMAIN q = 1 .. Len(q)
         /\ DOMAIN Tail(q) = 1 .. (Len(q) - 1)
         /\ \A i \in 1 .. (Len(q) - 1) : Tail(q)[i] = q[i + 1]
         /\ Tail(q) = <<>> <=> Len(q) = 1
<1>1. Len(q) \in Nat \ {0}
  BY EmptySeq
<1>2. Head(q) = q[1]
  OBVIOUS
<1>3. /\ Head(q) \in S
      /\ Tail(q) \in Seq(S)
      /\ Len(Tail(q)) = Len(q) - 1
      /\ \A i \in 1 .. Len(Tail(q)) : Tail(q)[i] = q[i + 1]
  BY HeadTailProperties
<1>4. DOMAIN q = 1 .. Len(q) /\ DOMAIN Tail(q) = 1 .. Len(Tail(q))
  BY <1>3, LenProperties
<1>5. Tail(q) = <<>> <=> Len(Tail(q)) = 0
  BY <1>3, EmptySeq
<1> QED BY <1>1, <1>2, <1>3, <1>4, <1>5

\* The server sends behind what it has sent, and requests queue up.
LEMMA AppendStep ==
  ASSUME NEW S, NEW q \in Seq(S), NEW e \in S
  PROVE  /\ Len(q) \in Nat
         /\ Append(q, e) \in Seq(S) /\ Append(q, e) # <<>>
         /\ Len(Append(q, e)) = Len(q) + 1
         /\ DOMAIN q = 1 .. Len(q)
         /\ DOMAIN Append(q, e) = 1 .. (Len(q) + 1)
         /\ \A i \in 1 .. Len(q) : Append(q, e)[i] = q[i]
         /\ Append(q, e)[Len(q) + 1] = e
<1>1. Append(q, e) \in Seq(S)
  BY AppendProperties
<1> QED BY <1>1, AppendProperties, LenProperties

\* The server goes on with the request at the head of its queue.
LEMMA ReplaceHead ==
  ASSUME NEW S, NEW q \in Seq(S), q # <<>>, NEW e \in S
  PROVE  /\ <<e>> \o Tail(q) \in Seq(S)
         /\ <<e>> \o Tail(q) # <<>>
         /\ Len(<<e>> \o Tail(q)) = Len(q)
         /\ DOMAIN (<<e>> \o Tail(q)) = 1 .. Len(q)
         /\ (<<e>> \o Tail(q))[1] = e
         /\ \A i \in 2 .. Len(q) : (<<e>> \o Tail(q))[i] = q[i]
<1> DEFINE r == <<e>> \o Tail(q)
<1>1. <<e>> \in Seq(S) /\ Len(<<e>>) = 1 /\ <<e>>[1] = e
  OBVIOUS
<1>2. /\ Tail(q) \in Seq(S) /\ Len(Tail(q)) = Len(q) - 1 /\ Len(q) \in Nat \ {0}
      /\ \A i \in 1 .. (Len(q) - 1) : Tail(q)[i] = q[i + 1]
  BY TailStep
<1>3. /\ r \in Seq(S)
      /\ Len(r) = Len(q)
      /\ \A i \in 1 .. Len(q) : r[i] = IF i <= 1 THEN <<e>>[i] ELSE Tail(q)[i - 1]
  BY <1>1, <1>2, ConcatProperties
<1>4. DOMAIN r = 1 .. Len(q)
  BY <1>3, LenProperties
<1>5. r # <<>>
  BY <1>2, <1>3, EmptySeq
<1>6. r[1] = e
  BY <1>1, <1>2, <1>3
<1>7. \A i \in 2 .. Len(q) : r[i] = q[i]
  BY <1>2, <1>3
<1> QED BY <1>3, <1>4, <1>5, <1>6, <1>7
-----------------------------------------------------------------------------
(* Each action keeps the invariant. *)

LEMMA CheckoutInv ==
  ASSUME ExchangeInv, Checkout
  PROVE  ExchangeInv'
<1> USE ExchangeAssumption DEF ExchangeInv, Checkout, clientVars, cancelVars, peerVars, historyVars
<1>a. /\ UNCHANGED <<request, reading, answer, callback, interruptedBy, expired, broken,
                     wire, serving, got, misframed>>
      /\ ~ InFlight
  BY DEF PlacesMatch
<1>b. \/ firstRequest' = firstRequest
      \/ (wire = <<>> /\ serving = <<>> /\ firstRequest' = request + 1)
  BY <1>a DEF InStep, Aligned, PlacesMatch, ExchangeTypeOK
<1>c. firstRequest' \in 1 .. MaxRequests + 1 /\ place' \in {"pooled", "held", "discarded"}
  BY DEF ExchangeTypeOK
<1>1. ExchangeTypeOK'
  BY <1>a, <1>c DEF ExchangeTypeOK, InFlight
<1>2. PlacesMatch'
  BY <1>a DEF PlacesMatch, InFlight
<1>3. OfCheckout'
  BY <1>a, <1>b DEF OfCheckout, ExchangeTypeOK
<1>4. InStep'
  BY <1>a DEF InStep, Aligned, InFlight
<1>5. OwnReplies'
  BY <1>a, <1>b, <1>c DEF OwnReplies, ExchangeTypeOK
<1>6. AnsweredByOwn'
  BY <1>a DEF AnsweredByOwn
<1> QED BY <1>1, <1>2, <1>3, <1>4, <1>5, <1>6

LEMMA PutBackInv ==
  ASSUME ExchangeInv, PutBack
  PROVE  ExchangeInv'
<1> USE ExchangeAssumption DEF ExchangeInv, PutBack, clientVars, cancelVars, peerVars, historyVars
<1>1. ExchangeTypeOK'
  BY DEF ExchangeTypeOK, InFlight
<1>2. PlacesMatch'
  BY DEF PlacesMatch, InFlight
<1>3. OfCheckout'
  BY DEF OfCheckout
<1>4. InStep'
  BY DEF InStep, Aligned, InFlight
<1>5. OwnReplies'
  BY DEF OwnReplies
<1>6. AnsweredByOwn'
  BY DEF AnsweredByOwn
<1> QED BY <1>1, <1>2, <1>3, <1>4, <1>5, <1>6

\* A request is written to a socket that is clean, or fails.
LEMMA SendInv ==
  ASSUME ExchangeInv, Send
  PROVE  ExchangeInv'
<1> USE ExchangeAssumption DEF ExchangeInv
<1> DEFINE entry == [of |-> request', chain |-> "first", sent |-> 0]
<1>a. /\ request' = request + 1 /\ request' \in Requests /\ got' = {}
      /\ place = "held" /\ ~ InFlight
      /\ UNCHANGED <<place, interruptedBy, expired, wire, firstRequest, misframed>>
  BY DEF Send, ExchangeTypeOK, Requests
<1>b. entry \in Served
  BY <1>a DEF Served
<1>c. serving \in Seq(Served) /\ wire \in Seq(Frame)
  BY DEF ExchangeTypeOK
<1>1. CASE expired
  <2>a. /\ broken' = TRUE /\ answer' = "failed"
        /\ UNCHANGED <<reading, callback, serving>>
    BY <1>1 DEF Send, WriteFailed
  <2>1. ExchangeTypeOK'
    BY <1>a, <2>a DEF ExchangeTypeOK, InFlight, Requests
  <2>2. PlacesMatch'
    BY <1>a, <2>a DEF PlacesMatch, InFlight
  <2>3. OfCheckout'
    BY <1>a, <2>a DEF OfCheckout, ExchangeTypeOK
  <2>4. InStep'
    BY <1>a, <1>1 DEF InStep
  <2>5. OwnReplies'
    BY <1>a DEF OwnReplies
  <2>6. AnsweredByOwn'
    BY <2>a DEF AnsweredByOwn
  <2> QED BY <2>1, <2>2, <2>3, <2>4, <2>5, <2>6
<1>2. CASE ~ expired
  <2>a. /\ answer' = "awaited" /\ reading' = "first" /\ broken' = broken
        /\ callback' = [callback EXCEPT ![request'] = "armed"]
        /\ serving' = Append(serving, entry)
    BY <1>2 DEF Send
  <2>b. /\ Len(serving) \in Nat
        /\ serving' \in Seq(Served) /\ serving' # <<>>
        /\ Len(serving') = Len(serving) + 1
        /\ DOMAIN serving = 1 .. Len(serving)
        /\ DOMAIN serving' = 1 .. (Len(serving) + 1)
        /\ \A i \in 1 .. Len(serving) : serving'[i] = serving[i]
        /\ serving'[Len(serving) + 1] = entry
    BY <1>b, <1>c, <2>a, AppendStep
  <2>c. InFlight'
    BY <2>a DEF InFlight
  <2>d. request' >= firstRequest
    BY <1>a DEF OfCheckout
  <2>1. ExchangeTypeOK'
    BY <1>a, <2>a, <2>b, <2>c DEF ExchangeTypeOK, Requests
  <2>2. PlacesMatch'
    BY <1>a, <2>a, <2>c DEF PlacesMatch, ExchangeTypeOK
  <2>3. OfCheckout'
    <3>1. entry.of >= firstRequest
      BY <2>d
    <3>2. \A i \in DOMAIN serving' : serving'[i].of >= firstRequest
      BY <2>b, <3>1 DEF OfCheckout
    <3> QED BY <1>a, <2>d, <3>2 DEF OfCheckout, ExchangeTypeOK
  <2>4. InStep'
    <3>1. CASE misframed
      BY <1>a, <3>1 DEF InStep
    <3>2. CASE ~ misframed
      <4>1. wire = <<>> /\ serving = <<>> /\ Len(serving) = 0 /\ DOMAIN wire = {}
        BY <1>a, <1>2, <3>2 DEF InStep, Aligned
      <4>2. wire' = <<>> /\ DOMAIN wire' = {}
        BY <1>a, <4>1
      <4>3. Len(serving') = 1 /\ serving'[1] = entry
        BY <2>b, <4>1
      <4>4. serving'[1].of = request' /\ serving'[1].chain = "first"
        BY <4>3
      <4>5. Aligned'
        BY <1>a, <2>a, <2>b, <2>c, <4>2, <4>3, <4>4 DEF Aligned
      <4> QED BY <4>5 DEF InStep
    <3> QED BY <3>1, <3>2
  <2>5. OwnReplies'
    BY <1>a DEF OwnReplies
  <2>6. AnsweredByOwn'
    BY <2>a DEF AnsweredByOwn
  <2> QED BY <2>1, <2>2, <2>3, <2>4, <2>5, <2>6
<1> QED BY <1>1, <1>2

\* What a request leaves of its callback when it returns.
LEMMA FinishEffect ==
  ASSUME ExchangeInv, InFlight, NEW result, Finish(result)
  PROVE  /\ answer' = result /\ reading' = "none" /\ ~ InFlight'
         /\ callback' \in [Requests -> {"off", "armed", "cancelled", "stored", "marked"}]
         /\ \A r \in Requests : callback'[r] = "marked" => callback[r] = "marked"
<1>1. request \in Requests /\
      callback \in [Requests -> {"off", "armed", "cancelled", "stored", "marked"}]
  BY DEF ExchangeInv, PlacesMatch, ExchangeTypeOK
<1>2. PICK state \in Stopped(callback[request]) :
        callback' = [callback EXCEPT ![request] = state]
  BY DEF Finish
<1>3. state \in {"off", "cancelled", callback[request]}
  BY <1>2 DEF Stopped
<1> QED BY <1>1, <1>2, <1>3 DEF Finish, InFlight

\* A frame is read: of the request in flight, unless the stream is out of step.
LEMMA ReadFrameInv ==
  ASSUME ExchangeInv, ReadFrame
  PROVE  ExchangeInv'
<1> USE ExchangeAssumption DEF ExchangeInv
<1> DEFINE f == wire[1]
<1>a. /\ InFlight /\ ~ expired /\ wire # <<>>
      /\ UNCHANGED <<place, request, interruptedBy, expired, broken, serving,
                     firstRequest, misframed>>
      /\ wire' = Tail(wire)
  BY DEF ReadFrame
<1>b. wire \in Seq(Frame) /\ serving \in Seq(Served)
  BY DEF ExchangeTypeOK
<1>c. /\ Len(wire) \in Nat \ {0}
      /\ Head(wire) = f /\ f \in Frame
      /\ wire' \in Seq(Frame)
      /\ Len(wire') = Len(wire) - 1
      /\ DOMAIN wire = 1 .. Len(wire)
      /\ DOMAIN wire' = 1 .. (Len(wire) - 1)
      /\ \A i \in 1 .. (Len(wire) - 1) : wire'[i] = wire[i + 1]
      /\ wire' = <<>> <=> Len(wire) = 1
  BY <1>a, <1>b, TailStep
<1>d. got' = got \cup {f.of} /\ f.of \in Requests /\ f.of >= firstRequest
  BY <1>c DEF ReadFrame, Frame, OfCheckout
<1>e. \/ f.chained /\ UNCHANGED <<reading, answer, callback>>
      \/ /\ ~ f.chained /\ f.dard /\ reading = "first"
         /\ reading' = "second" /\ UNCHANGED <<answer, callback>>
      \/ ~ f.chained /\ ~ (f.dard /\ reading = "first") /\ Finish("ok")
  BY <1>c DEF ReadFrame
<1>f. request \in Requests /\ place = "held"
  BY <1>a DEF PlacesMatch
<1>g. /\ reading' \in {"none", "first", "second"}
      /\ answer' \in {"none", "awaited", "ok", "failed"}
      /\ answer' = "awaited" <=> InFlight'
      /\ callback' \in [Requests -> {"off", "armed", "cancelled", "stored", "marked"}]
      /\ \A r \in Requests : callback'[r] = "marked" => callback[r] = "marked"
  <2>1. CASE Finish("ok")
    BY <1>a, <2>1, FinishEffect DEF Finish
  <2>2. CASE UNCHANGED callback /\ UNCHANGED answer /\ reading' \in {"first", "second"}
    BY <1>a, <2>2 DEF ExchangeTypeOK, InFlight
  <2> QED BY <1>a, <1>e, <2>1, <2>2 DEF ExchangeTypeOK, InFlight
<1>1. ExchangeTypeOK'
  BY <1>a, <1>c, <1>d, <1>g DEF ExchangeTypeOK
<1>2. PlacesMatch'
  BY <1>a, <1>f, <1>g DEF PlacesMatch
<1>3. OfCheckout'
  BY <1>a, <1>c, SMTT(60) DEF OfCheckout
<1>4. InStep'
  <2> SUFFICES ASSUME ~ misframed PROVE Aligned'
    BY <1>a DEF InStep
  <2>a. Aligned
    BY <1>a, ZenonT(60) DEF InStep
  <2>b. /\ \A i \in 1 .. Len(wire) :
             /\ wire[i].of = request
             /\ wire[i].dard => ~ wire[i].chained /\ reading = "first"
             /\ ~ wire[i].chained /\ ~ wire[i].dard => i = Len(wire) /\ serving = <<>>
        /\ \A i, j \in 1 .. Len(wire) : wire[i].dard /\ wire[j].dard => i = j
        /\ serving = <<>> => ~ wire[Len(wire)].chained /\ ~ wire[Len(wire)].dard
        /\ serving # <<>> =>
             /\ Len(serving) = 1 /\ serving[1].of = request
             /\ serving[1].chain = "second" <=>
                  reading = "second" \/ \E i \in 1 .. Len(wire) : wire[i].dard
    BY <1>a, <1>c, <2>a DEF Aligned, Final
  <2>c. \A i \in 1 .. (Len(wire) - 1) :
          /\ i + 1 \in 1 .. Len(wire) /\ wire'[i] = wire[i + 1]
          /\ wire'[i].of = request
          /\ wire'[i].dard => ~ wire'[i].chained /\ reading = "first" /\ ~ f.dard
          /\ ~ wire'[i].chained /\ ~ wire'[i].dard => i = Len(wire') /\ serving = <<>>
    <3> SUFFICES ASSUME NEW i \in 1 .. (Len(wire) - 1)
                 PROVE  /\ i + 1 \in 1 .. Len(wire) /\ wire'[i] = wire[i + 1]
                        /\ wire'[i].of = request
                        /\ wire'[i].dard => ~ wire'[i].chained /\ reading = "first" /\ ~ f.dard
                        /\ ~ wire'[i].chained /\ ~ wire'[i].dard =>
                             i = Len(wire') /\ serving = <<>>
      OBVIOUS
    <3>1. i + 1 \in 1 .. Len(wire) /\ 1 \in 1 .. Len(wire) /\ i + 1 # 1 /\ wire'[i] = wire[i + 1]
      BY <1>c
    <3>2. wire[i + 1].dard => ~ f.dard
      BY <2>b, <3>1
    <3>3. i + 1 = Len(wire) => i = Len(wire')
      BY <1>c
    <3> QED BY <2>b, <3>1, <3>2, <3>3
  <2>d. \A i, j \in 1 .. (Len(wire) - 1) : wire'[i].dard /\ wire'[j].dard => i = j
    <3> SUFFICES ASSUME NEW i \in 1 .. (Len(wire) - 1), NEW j \in 1 .. (Len(wire) - 1),
                        wire'[i].dard, wire'[j].dard
                 PROVE  i = j
      OBVIOUS
    <3>1. i + 1 = j + 1
      BY <2>b, <2>c
    <3> QED BY <1>c, <3>1
  <2>e. serving = <<>> /\ wire' # <<>> =>
          ~ wire'[Len(wire')].chained /\ ~ wire'[Len(wire')].dard
    <3> HAVE serving = <<>> /\ wire' # <<>>
    <3>1. Len(wire') \in 1 .. (Len(wire) - 1) /\ Len(wire') + 1 = Len(wire)
      BY <1>c
    <3>2. wire'[Len(wire')] = wire[Len(wire)]
      BY <1>c, <3>1
    <3> QED BY <2>b, <3>2
  <2>f. (\E i \in 1 .. Len(wire) : wire[i].dard) <=>
          f.dard \/ \E i \in 1 .. (Len(wire) - 1) : wire'[i].dard
    <3>1. ASSUME NEW i \in 1 .. Len(wire), wire[i].dard, ~ f.dard
          PROVE  \E j \in 1 .. (Len(wire) - 1) : wire'[j].dard
      <4>1. i # 1
        BY <3>1
      <4>2. i - 1 \in 1 .. (Len(wire) - 1) /\ (i - 1) + 1 = i
        BY <1>c, <4>1
      <4>3. wire'[i - 1] = wire[i]
        BY <2>c, <4>2
      <4> QED BY <3>1, <4>2, <4>3
    <3>2. 1 \in 1 .. Len(wire)
      BY <1>c
    <3> QED BY <2>c, <3>1, <3>2
  <2>1. CASE f.chained /\ UNCHANGED <<reading, answer, callback>>
    <3>1. InFlight'
      BY <1>a, <2>1 DEF InFlight
    <3>3. 1 \in 1 .. Len(wire) /\ ~ f.dard
      BY <1>c, <2>1, <2>b
    <3>2. serving = <<>> => wire' # <<>>
      BY <1>c, <2>1, <2>b
    <3> QED BY <1>a, <1>c, <2>b, <2>c, <2>d, <2>e, <2>f, <2>1, <3>3, <3>1, <3>2, ZenonT(60)
            DEF Aligned, Final
  <2>2. CASE ~ f.chained /\ f.dard /\ reading = "first" /\ reading' = "second"
    <3>1. InFlight'
      BY <2>2 DEF InFlight
    <3>2. serving = <<>> => wire' # <<>>
      BY <1>c, <2>2, <2>b
    <3>3. \A i \in 1 .. (Len(wire) - 1) : ~ wire'[i].dard
      BY <2>2, <2>c
    <3>4. serving # <<>> => serving[1].chain = "second"
      BY <2>2, <2>b, <2>f
    <3> QED BY <1>a, <1>c, <2>b, <2>c, <2>d, <2>e, <2>2, <3>1, <3>2, <3>3, <3>4, ZenonT(60)
            DEF Aligned, Final
  <2>3. CASE ~ f.chained /\ ~ (f.dard /\ reading = "first") /\ Finish("ok")
    <3>1. 1 \in 1 .. Len(wire) /\ ~ f.dard
      BY <1>c, <2>3, <2>b
    <3>2. Len(wire) = 1 /\ serving = <<>>
      BY <2>3, <2>b, <3>1
    <3>3. wire' = <<>> /\ serving' = <<>>
      BY <1>a, <1>c, <3>2
    <3>4. ~ InFlight'
      BY <1>a, <2>3, FinishEffect
    <3> QED BY <3>3, <3>4 DEF Aligned
  <2> QED BY <1>e, <2>1, <2>2, <2>3
<1>5. OwnReplies'
  <2>1. request >= firstRequest => \A q \in got' : q >= firstRequest
    BY <1>d DEF OwnReplies
  <2>2. misframed \/ f.of = request
    BY <1>a, <1>c DEF InStep, Aligned
  <2>3. misframed \/ got' \subseteq {request}
    BY <1>d, <2>2 DEF OwnReplies
  <2> QED BY <1>a, <2>1, <2>3 DEF OwnReplies
<1>6. AnsweredByOwn'
  BY <1>d DEF AnsweredByOwn
<1> QED BY <1>1, <1>2, <1>3, <1>4, <1>5, <1>6

\* A frame that cannot be parsed: the session is broken from here on.
LEMMA ReadBadFrameInv ==
  ASSUME ExchangeInv, ReadBadFrame
  PROVE  ExchangeInv'
<1> USE ExchangeAssumption DEF ExchangeInv
<1>a. /\ InFlight /\ wire # <<>>
      /\ broken' = TRUE /\ misframed' = TRUE
      /\ wire' \in {wire, Tail(wire)}
      /\ UNCHANGED <<place, request, interruptedBy, expired, serving, got, firstRequest>>
  BY DEF ReadBadFrame
<1>b. /\ answer' \in {"failed", "ok"} /\ reading' = "none" /\ ~ InFlight'
      /\ callback' \in [Requests -> {"off", "armed", "cancelled", "stored", "marked"}]
  BY <1>a, FinishEffect DEF ReadBadFrame, ResultOfFailure
<1>c. wire' \in Seq(Frame) /\ \A i \in DOMAIN wire' : wire'[i].of >= firstRequest
  <2>1. wire \in Seq(Frame)
    BY DEF ExchangeTypeOK
  <2>2. CASE wire' = wire
    BY <2>1, <2>2 DEF OfCheckout
  <2>3. CASE wire' = Tail(wire)
    <3>1. /\ Len(wire) \in Nat \ {0}
          /\ wire' \in Seq(Frame)
          /\ DOMAIN wire = 1 .. Len(wire)
          /\ DOMAIN wire' = 1 .. (Len(wire) - 1)
          /\ \A i \in 1 .. (Len(wire) - 1) : wire'[i] = wire[i + 1]
      BY <1>a, <2>1, <2>3, TailStep
    <3> QED BY <3>1 DEF OfCheckout
  <2> QED BY <1>a, <2>2, <2>3
<1>1. ExchangeTypeOK'
  BY <1>a, <1>b, <1>c DEF ExchangeTypeOK
<1>2. PlacesMatch'
  BY <1>a, <1>b DEF PlacesMatch
<1>3. OfCheckout'
  BY <1>a, <1>c DEF OfCheckout
<1>4. InStep'
  BY <1>a DEF InStep
<1>5. OwnReplies'
  BY <1>a DEF OwnReplies
<1>6. AnsweredByOwn'
  BY <1>a DEF AnsweredByOwn
<1> QED BY <1>1, <1>2, <1>3, <1>4, <1>5, <1>6

\* The read fails on the deadline a callback has set.
LEMMA ReadFailsInv ==
  ASSUME ExchangeInv, ReadFails
  PROVE  ExchangeInv'
<1> USE ExchangeAssumption DEF ExchangeInv
<1>a. /\ InFlight /\ expired /\ broken' = TRUE
      /\ UNCHANGED <<place, request, interruptedBy, expired, wire, serving, got,
                     firstRequest, misframed>>
  BY DEF ReadFails, peerVars, historyVars
<1>b. /\ answer' \in {"failed", "ok"} /\ reading' = "none" /\ ~ InFlight'
      /\ callback' \in [Requests -> {"off", "armed", "cancelled", "stored", "marked"}]
  BY <1>a, FinishEffect DEF ReadFails, ResultOfFailure
<1>1. ExchangeTypeOK'
  BY <1>a, <1>b DEF ExchangeTypeOK
<1>2. PlacesMatch'
  BY <1>a, <1>b DEF PlacesMatch
<1>3. OfCheckout'
  BY <1>a DEF OfCheckout
<1>4. InStep'
  BY <1>a DEF InStep
<1>5. OwnReplies'
  BY <1>a DEF OwnReplies
<1>6. AnsweredByOwn'
  BY <1>a DEF AnsweredByOwn
<1> QED BY <1>1, <1>2, <1>3, <1>4, <1>5, <1>6

\* A context is cancelled, and its callback runs at any later time.
LEMMA CallbackInv ==
  ASSUME ExchangeInv, Cancel \/ \E r \in Requests : CallbackStep(r)
  PROVE  ExchangeInv'
<1> USE ExchangeAssumption DEF ExchangeInv
<1>a. UNCHANGED <<place, request, reading, answer, wire, serving, got, firstRequest, misframed>>
  BY DEF Cancel, CallbackStep, Interrupt, MarkBroken, Expire,
         clientVars, cancelVars, peerVars, historyVars
<1>b. /\ callback' \in [Requests -> {"off", "armed", "cancelled", "stored", "marked"}]
      /\ interruptedBy' \in Requests \cup {NoRequest}
      /\ broken' \in BOOLEAN /\ expired' \in BOOLEAN
  BY DEF ExchangeTypeOK, PlacesMatch, Cancel, CallbackStep, Interrupt, MarkBroken, Expire
<1>c. /\ \A r \in Requests : callback'[r] = "marked" => broken'
      /\ (broken => broken') /\ (expired => expired') /\ (expired' => broken')
  BY DEF ExchangeTypeOK, PlacesMatch, Cancel, CallbackStep, Interrupt, MarkBroken, Expire
<1>1. ExchangeTypeOK'
  BY <1>a, <1>b DEF ExchangeTypeOK, InFlight
<1>2. PlacesMatch'
  BY <1>a, <1>c DEF PlacesMatch, InFlight
<1>3. OfCheckout'
  BY <1>a DEF OfCheckout
<1>4. InStep'
  BY <1>a, <1>c DEF InStep, Aligned, InFlight
<1>5. OwnReplies'
  BY <1>a DEF OwnReplies
<1>6. AnsweredByOwn'
  BY <1>a, <1>c DEF AnsweredByOwn
<1> QED BY <1>1, <1>2, <1>3, <1>4, <1>5, <1>6

\* A request whose first chain has announced a second one.
LEMMA SecondChain ==
  ASSUME NEW s \in Served
  PROVE  LET second == [s EXCEPT !.chain = "second", !.sent = 0]
         IN  second \in Served /\ second.of = s.of /\ second.chain = "second"
<1>1. 0 \in 0 .. MaxFrames
  BY ExchangeAssumption
<1>2. [s EXCEPT !.chain = "second"] \in Served
  BY DEF Served
<1> DEFINE t == [s EXCEPT !.chain = "second"]
<1>3. t \in Served /\ t.of = s.of /\ t.chain = "second"
  BY <1>2 DEF Served
<1>4. ASSUME NEW u \in Served
      PROVE  LET v == [u EXCEPT !.sent = 0]
             IN  v \in Served /\ v.of = u.of /\ v.chain = u.chain
  BY <1>1 DEF Served
<1>5. [s EXCEPT !.chain = "second", !.sent = 0] = [t EXCEPT !.sent = 0]
  OBVIOUS
<1> QED BY <1>3, <1>4, <1>5

\* A served entry after one more frame: only the count of frames changes.
LEMMA SentIs ==
  ASSUME NEW s \in Served, NEW x
  PROVE  [s EXCEPT !.sent = x] = [of |-> s.of, chain |-> s.chain, sent |-> x]
BY SMTT(60) DEF Served

\* The server sends a frame of the answer it owes.
LEMMA ServeInv ==
  ASSUME ExchangeInv, NEW chained \in BOOLEAN, NEW dard \in BOOLEAN, NEW good \in BOOLEAN,
         Serve(chained, dard, good)
  PROVE  ExchangeInv'
<1> USE ExchangeAssumption DEF ExchangeInv
<1> DEFINE s == serving[1]
           f == [of |-> s.of, chained |-> chained, dard |-> dard, good |-> good]
           goesOn == [s EXCEPT !.sent = @ + 1]
           second == [s EXCEPT !.chain = "second", !.sent = 0]
<1>a. /\ serving # <<>>
      /\ UNCHANGED <<place, request, reading, answer, callback, interruptedBy, expired,
                     broken, got, firstRequest, misframed>>
  BY DEF Serve, clientVars, cancelVars, historyVars
<1>b. wire \in Seq(Frame) /\ serving \in Seq(Served)
  BY DEF ExchangeTypeOK
<1>c. /\ Len(serving) \in Nat \ {0} /\ Head(serving) = s /\ s \in Served
      /\ DOMAIN serving = 1 .. Len(serving)
      /\ Tail(serving) \in Seq(Served)
      /\ DOMAIN Tail(serving) = 1 .. (Len(serving) - 1)
      /\ \A i \in 1 .. (Len(serving) - 1) : Tail(serving)[i] = serving[i + 1]
      /\ Tail(serving) = <<>> <=> Len(serving) = 1
  <2>1. serving # <<>>
    BY <1>a, Zenon
  <2> QED BY ONLY <2>1, <1>b, TailStep, ZenonT(60) DEF s
<1>d. /\ chained => s.sent + 1 < MaxFrames
      /\ dard => s.chain = "first" /\ ~ chained
      /\ wire' = Append(wire, f)
      /\ \/ chained /\ serving' = <<goesOn>> \o Tail(serving)
         \/ ~ chained /\ dard /\ serving' = <<second>> \o Tail(serving)
         \/ ~ chained /\ ~ dard /\ serving' = Tail(serving)
  BY <1>c, ZenonT(60) DEF Serve
<1>e. f \in Frame
  BY <1>c DEF Frame, Served
<1>f. /\ Len(wire) \in Nat
      /\ wire' \in Seq(Frame) /\ wire' # <<>>
      /\ Len(wire') = Len(wire) + 1
      /\ DOMAIN wire = 1 .. Len(wire)
      /\ DOMAIN wire' = 1 .. (Len(wire) + 1)
      /\ \A i \in 1 .. Len(wire) : wire'[i] = wire[i]
      /\ wire'[Len(wire) + 1] = f
  BY <1>b, <1>d, <1>e, AppendStep, SMTT(60)
\* The entry at the head of the queue, when the server goes on with it.
<1>g. \/ /\ ~ chained /\ ~ dard /\ serving' = Tail(serving)
      \/ \E e \in Served :
           /\ chained \/ dard
           /\ e.of = s.of /\ e.chain = IF chained THEN s.chain ELSE "second"
           /\ serving' \in Seq(Served) /\ serving' # <<>>
           /\ Len(serving') = Len(serving)
           /\ DOMAIN serving' = 1 .. Len(serving)
           /\ serving'[1] = e
           /\ \A i \in 2 .. Len(serving) : serving'[i] = serving[i]
  <2>1. CASE chained
    <3>1. goesOn = [of |-> s.of, chain |-> s.chain, sent |-> s.sent + 1]
      BY <1>c, SentIs
    <3>3. s.sent + 1 \in 0 .. MaxFrames
      BY <1>c, <1>d, <2>1, SMTT(60) DEF Served
    <3>4. goesOn \in Served /\ goesOn.of = s.of /\ goesOn.chain = s.chain
      BY <1>c, <3>1, <3>3 DEF Served
    <3>2. serving' = <<goesOn>> \o Tail(serving)
      BY <1>d, <2>1
    <3> HIDE DEF goesOn
    <3> QED BY <1>a, <1>b, <2>1, <3>2, <3>4, ReplaceHead
  <2>2. CASE ~ chained /\ dard
    <3>1. second \in Served /\ second.of = s.of /\ second.chain = "second"
      BY <1>c, SecondChain
    <3>2. serving' = <<second>> \o Tail(serving)
      BY <1>d, <2>2
    <3> HIDE DEF second
    <3> QED BY <1>a, <1>b, <2>2, <3>1, <3>2, ReplaceHead
  <2> QED BY <1>d, <2>1, <2>2
<1>h. /\ serving' \in Seq(Served)
      /\ \A i \in DOMAIN serving' : serving'[i].of >= firstRequest
  <2>1. \A i \in 1 .. Len(serving) : serving[i].of >= firstRequest
    BY <1>c DEF OfCheckout
  <2>2. CASE serving' = Tail(serving)
    BY <1>c, <2>1, <2>2
  <2>3. ASSUME NEW e \in Served, e.of = s.of, serving' \in Seq(Served),
               DOMAIN serving' = 1 .. Len(serving), serving'[1] = e,
               \A i \in 2 .. Len(serving) : serving'[i] = serving[i]
        PROVE  \A i \in DOMAIN serving' : serving'[i].of >= firstRequest
    BY <1>c, <2>1, <2>3
  <2> QED BY <1>g, <2>2, <2>3
<1>1. ExchangeTypeOK'
  BY <1>a, <1>f, <1>h DEF ExchangeTypeOK, InFlight
<1>2. PlacesMatch'
  BY <1>a DEF PlacesMatch, InFlight
<1>3. OfCheckout'
  <2>1. f.of >= firstRequest
    BY <1>c DEF OfCheckout
  <2>2. \A i \in DOMAIN wire' : wire'[i].of >= firstRequest
    BY <1>f, <2>1 DEF OfCheckout
  <2> QED BY <1>a, <1>h, <2>2 DEF OfCheckout
<1>4. InStep'
  <2> SUFFICES ASSUME ~ misframed, ~ expired PROVE Aligned'
    BY <1>a DEF InStep
  <2>a. InFlight /\ InFlight'
    BY <1>a DEF InStep, Aligned, InFlight
  <2>b. /\ \A i \in 1 .. Len(wire) :
             /\ wire[i].of = request
             /\ wire[i].dard => ~ wire[i].chained /\ reading = "first"
             /\ wire[i].chained \/ wire[i].dard
        /\ \A i, j \in 1 .. Len(wire) : wire[i].dard /\ wire[j].dard => i = j
        /\ Len(serving) = 1 /\ s.of = request
        /\ s.chain = "second" <=>
             reading = "second" \/ \E i \in 1 .. Len(wire) : wire[i].dard
    BY <1>a, <1>f, <2>a DEF InStep, Aligned, Final
  <2>c. dard => s.chain = "first" /\ ~ chained /\ reading = "first"
                /\ \A i \in 1 .. Len(wire) : ~ wire[i].dard
    BY <1>a, <1>d, <2>a, <2>b DEF ExchangeTypeOK, InFlight
  <2>d. \A i \in 1 .. (Len(wire) + 1) : i \in 1 .. Len(wire) \/ i = Len(wire) + 1
    BY <1>f
  <2>e. \A i \in 1 .. (Len(wire) + 1) :
          /\ wire'[i].of = request
          /\ wire'[i].dard => ~ wire'[i].chained /\ reading = "first"
          /\ ~ wire'[i].chained /\ ~ wire'[i].dard => i = Len(wire') /\ ~ chained /\ ~ dard
    <3>1. f.of = request /\ f.dard = dard /\ f.chained = chained
      BY <2>b
    <3> HIDE DEF f
    <3> QED BY <1>f, <2>b, <2>c, <2>d, <3>1
  <2>f. \A i, j \in 1 .. (Len(wire) + 1) : wire'[i].dard /\ wire'[j].dard => i = j
    <3>1. f.dard = dard
      OBVIOUS
    <3> HIDE DEF f
    <3> QED BY <1>f, <2>b, <2>c, <2>d, <3>1
  <2>g. (\E i \in 1 .. (Len(wire) + 1) : wire'[i].dard) <=>
          dard \/ \E i \in 1 .. Len(wire) : wire[i].dard
    <3>1. f.dard = dard
      OBVIOUS
    <3>2. Len(wire) + 1 \in 1 .. (Len(wire) + 1)
          /\ \A i \in 1 .. Len(wire) : i \in 1 .. (Len(wire) + 1)
      BY <1>f
    <3> HIDE DEF f
    <3> QED BY <1>f, <2>d, <3>1, <3>2
  <2>1. CASE ~ chained /\ ~ dard /\ serving' = Tail(serving)
    <3>1. serving' = <<>>
      BY <1>c, <2>1, <2>b
    <3>2. ~ wire'[Len(wire')].chained /\ ~ wire'[Len(wire')].dard
      BY <1>f, <2>1
    <3> QED BY <1>a, <1>f, <2>a, <2>e, <2>f, <3>1, <3>2 DEF Aligned, Final
  <2>2. ASSUME NEW e \in Served, chained \/ dard,
               e.of = s.of, e.chain = IF chained THEN s.chain ELSE "second",
               serving' # <<>>, Len(serving') = Len(serving), serving'[1] = e
        PROVE  Aligned'
    <3>1. Len(serving') = 1 /\ serving'[1].of = request'
      BY <1>a, <2>b, <2>2
    <3>2. serving'[1].chain = "second" <=>
            reading = "second" \/ \E i \in 1 .. (Len(wire) + 1) : wire'[i].dard
      BY <2>b, <2>c, <2>g, <2>2
    <3> QED BY <1>a, <1>f, <2>a, <2>e, <2>f, <2>2, <3>1, <3>2 DEF Aligned, Final
  <2> QED BY <1>g, <2>1, <2>2
<1>5. OwnReplies'
  BY <1>a DEF OwnReplies
<1>6. AnsweredByOwn'
  BY <1>a DEF AnsweredByOwn
<1> QED BY <1>1, <1>2, <1>3, <1>4, <1>5, <1>6

-----------------------------------------------------------------------------
LEMMA ExchangeInitInv ==
  ASSUME ExchangeInit
  PROVE  ExchangeInv
<1> USE ExchangeAssumption DEF ExchangeInit
<1>1. ExchangeTypeOK
  <2>1. <<>> \in Seq(Frame) /\ <<>> \in Seq(Served)
    OBVIOUS
  <2>2. callback \in [Requests -> {"off", "armed", "cancelled", "stored", "marked"}]
    OBVIOUS
  <2>3. request \in 0 .. MaxRequests /\ firstRequest \in 1 .. MaxRequests + 1
    BY DEF NoRequest
  <2>4. /\ interruptedBy \in Requests \cup {NoRequest} /\ got \in SUBSET Requests
        /\ answer = "awaited" <=> InFlight
    BY DEF InFlight
  <2> QED BY <2>1, <2>2, <2>3, <2>4 DEF ExchangeTypeOK
<1>2. PlacesMatch
  BY DEF PlacesMatch, InFlight
<1>3. OfCheckout
  BY DEF OfCheckout, NoRequest
<1>4. InStep
  BY DEF InStep, Aligned, InFlight
<1>5. OwnReplies /\ AnsweredByOwn
  BY DEF OwnReplies, AnsweredByOwn
<1> QED BY <1>1, <1>2, <1>3, <1>4, <1>5 DEF ExchangeInv

LEMMA ExchangeStepInv ==
  ASSUME ExchangeInv, [ExchangeNext]_vars
  PROVE  ExchangeInv'
<1>1. CASE UNCHANGED vars
  BY <1>1 DEF ExchangeInv, ExchangeTypeOK, PlacesMatch, OfCheckout, InStep, Aligned,
     OwnReplies, AnsweredByOwn, InFlight, vars, clientVars, cancelVars, peerVars, historyVars
<1>2. CASE Checkout
  BY <1>2, CheckoutInv
<1>3. CASE PutBack
  BY <1>3, PutBackInv
<1>4. CASE Send
  BY <1>4, SendInv
<1>5. CASE ClientRead
  BY <1>5, ReadFrameInv, ReadBadFrameInv, ReadFailsInv DEF ClientRead
<1>6. CASE Cancel \/ \E r \in Requests : CallbackStep(r)
  BY <1>6, CallbackInv
<1>7. CASE \E chained, dard, good \in BOOLEAN : Serve(chained, dard, good)
  BY <1>7, ServeInv
<1> QED BY <1>1, <1>2, <1>3, <1>4, <1>5, <1>6, <1>7 DEF ExchangeNext

LEMMA InvGivesPooledIsQuiet ==
  ASSUME ExchangeInv
  PROVE  PooledIsQuiet
BY DEF ExchangeInv, PlacesMatch, InStep, Aligned, PooledIsQuiet

LEMMA InvGivesOkIsComplete ==
  ASSUME ExchangeInv
  PROVE  OkIsComplete
BY DEF ExchangeInv, ExchangeTypeOK, PlacesMatch, InStep, Aligned, OwnReplies, AnsweredByOwn,
   OkIsComplete

-----------------------------------------------------------------------------
LEMMA ExchangeInductive == ExchangeSpec => []ExchangeInv
BY ExchangeInitInv, ExchangeStepInv, PTL DEF ExchangeSpec

\* The types of the session, the wire and the requests, for any number of requests
\* and frames.
THEOREM ExchangeTyped == ExchangeSpec => []ExchangeTypeOK
<1>1. ExchangeInv => ExchangeTypeOK
  BY DEF ExchangeInv
<1> QED BY ExchangeInductive, <1>1, PTL

\* Whatever is cancelled and however late a callback runs, a connection that waits
\* in the pool has nothing in flight and no deadline, or is marked broken and goes
\* with the next checkout (readReplyChain, watch, IsValid and ResetSession).
THEOREM PoolIsQuiet == ExchangeSpec => []PooledIsQuiet
<1>1. ExchangeInv => PooledIsQuiet
  BY InvGivesPooledIsQuiet
<1> QED BY ExchangeInductive, <1>1, PTL

\* No request reads a reply to another one of its checkout before a framing error,
\* nor one of another checkout at all (readReplyChain: the first error that leaves
\* the stream in doubt marks the session broken).
THEOREM RepliesAreOwn == ExchangeSpec => []OwnReplies
<1>1. ExchangeInv => OwnReplies
  BY DEF ExchangeInv
<1> QED BY ExchangeInductive, <1>1, PTL

\* What returns without an error has read its own answer to the end, or has left
\* the session broken.
THEOREM OkAnswersAreComplete == ExchangeSpec => []OkIsComplete
<1>1. ExchangeInv => OkIsComplete
  BY InvGivesOkIsComplete
<1> QED BY ExchangeInductive, <1>1, PTL
=============================================================================
