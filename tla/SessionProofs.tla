---------------------------- MODULE SessionProofs ----------------------------
(***************************************************************************)
(* Theorems about Session, for every set of mechanisms and every           *)
(* configuration: first the life of the socket and the handshake, then     *)
(* what the methods take from their replies, for every number of rows and  *)
(* result sets.                                                            *)
(***************************************************************************)
EXTENDS Session, DataProofs

\* What each step of Connect says of the connection.
LifeCycle ==
  /\ conn \in BOOLEAN /\ closed \in BOOLEAN
  /\ step \in Steps
  /\ step = "new" => socket = "none" /\ ~ conn /\ ~ closed
  /\ step = "tls" => socket = "open" /\ ~ conn /\ ~ closed
  /\ step \in {"accsec", "secchk", "post", "registers"} => conn /\ ~ closed
  /\ step = "connected" => conn
  /\ step = "failed" => ~ conn
  /\ step = "left" => closed

\* What each step of the handshake has found.
Granted ==
  /\ step \notin {"new", "failed"} => ~ PlaintextRefused
  /\ step \in {"secchk", "post", "registers", "connected"} =>
       offered \in {0, cfg.mechanism} /\ (cfg.mechanism = Encrypted => token)
  /\ step \in {"post", "registers", "connected"} => verdict \in {"granted", "notfound"}

SessionInv == LifeCycle /\ Granted /\ NothingLeftBehind

-----------------------------------------------------------------------------
\* The answers that refuse access are taken for refusals.
LEMMA RefusalsAreSeen ==
  ASSUME NEW kind \in DOMAIN Access, NEW replies \in Access[kind], ReadAccess(replies).ok
  PROVE  kind \in {"granted", "notfound"}
<1>1. DOMAIN Access = {"granted", "refused", "notfound"}
  BY DEF Access
<1>2. ASSUME kind = "refused" PROVE FALSE
  <2>1. PICK i \in DOMAIN replies : Refuses(replies[i])
    <3>1. \/ replies = <<SECCHKRM(15)>>
          \/ replies = <<SECCHKRM(15), Message("RDBNACRM")>>
          \/ \E cp \in {"RDBAFLRM", "RDBATHRM", "SQLERRRM"} :
               replies = <<SECCHKRM(0), Message(cp)>>
      BY <1>2 DEF Access
    <3>2. Refuses(SECCHKRM(15))
      BY DEF Refuses, SECCHKRM
    <3>3. \A cp \in {"RDBAFLRM", "RDBATHRM", "SQLERRRM"} : Refuses(Message(cp))
      BY DEF Refuses, Message
    <3>4. CASE replies[1] = SECCHKRM(15) /\ 1 \in DOMAIN replies
      BY <3>2, <3>4
    <3>5. ASSUME NEW cp \in {"RDBAFLRM", "RDBATHRM", "SQLERRRM"},
                 replies = <<SECCHKRM(0), Message(cp)>>
          PROVE  \E i \in DOMAIN replies : Refuses(replies[i])
      <4>1. replies[2] = Message(cp) /\ 2 \in DOMAIN replies
        BY <3>5
      <4> QED BY <3>3, <4>1
    <3> QED BY <3>1, <3>4, <3>5
  <2>2. AnyOf(replies, Refuses)
    BY <2>1 DEF AnyOf
  <2> QED BY <2>2 DEF ReadAccess
<1> QED BY <1>1, <1>2

-----------------------------------------------------------------------------
\* The ways of a handshake or of its set-up to fail are all of this kind.
LEMMA ClosedInv ==
  ASSUME SessionInv, step' = "failed", socket' = "closed", conn' = FALSE, closed' = TRUE
  PROVE  SessionInv'
BY DEF SessionInv, LifeCycle, Granted, NothingLeftBehind, Steps

\* From the dial to a connection.
LEMMA DialInv ==
  ASSUME SessionInv, Dial \/ StartTLS
  PROVE  SessionInv'
<1>1. CASE FailBefore /\ step \in {"new", "tls"}
  BY <1>1 DEF FailBefore, SessionInv, LifeCycle, Granted, NothingLeftBehind, Steps
<1>2. CASE Dial /\ ~ FailBefore
  <2>1. /\ step = "new" /\ ~ PlaintextRefused /\ socket' = "open" /\ cfg' = cfg
        /\ \/ step' = "tls" /\ UNCHANGED <<conn, closed>>
           \/ step' = "accsec" /\ conn' = TRUE /\ closed' = FALSE
    BY <1>2 DEF Dial, Established
  <2>a. conn = FALSE /\ closed = FALSE
    BY <2>1 DEF SessionInv, LifeCycle
  <2>2. LifeCycle'
    <3>1. CASE step' = "tls" /\ UNCHANGED <<conn, closed>>
      BY <2>1, <2>a, <3>1 DEF LifeCycle, Steps
    <3>2. CASE step' = "accsec" /\ conn' = TRUE /\ closed' = FALSE
      BY <2>1, <3>2 DEF LifeCycle, Steps
    <3> QED BY <2>1, <3>1, <3>2
  <2>3. Granted'
    BY <2>1 DEF Granted, PlaintextRefused
  <2>4. NothingLeftBehind'
    BY <2>1 DEF SessionInv, LifeCycle, NothingLeftBehind
  <2> QED BY <2>2, <2>3, <2>4 DEF SessionInv
<1>3. CASE StartTLS /\ ~ FailBefore
  <2>1. /\ step = "tls" /\ UNCHANGED <<cfg, socket>>
        /\ step' = "accsec" /\ conn' = TRUE /\ closed' = FALSE
    BY <1>3 DEF StartTLS, Established
  <2>2. LifeCycle'
    BY <2>1 DEF SessionInv, LifeCycle, Steps
  <2>3. Granted'
    BY <2>1 DEF SessionInv, Granted, PlaintextRefused
  <2>4. NothingLeftBehind'
    BY <2>1 DEF SessionInv, LifeCycle, NothingLeftBehind
  <2> QED BY <2>2, <2>3, <2>4 DEF SessionInv
<1> QED BY <1>1, <1>2, <1>3 DEF Dial, StartTLS

\* ACCSEC: the connection stays only when both sides agree.
LEMMA AccSecInv ==
  ASSUME SessionInv, NEW replies, AccSec(replies)
  PROVE  SessionInv'
<1> DEFINE read == Negotiated(replies)
<1>1. CASE Agrees(read)
  <2>1. /\ step = "accsec" /\ step' = "secchk"
        /\ offered' = read.mechanism /\ token' = read.token
        /\ UNCHANGED <<cfg, conn, closed, socket>>
    BY <1>1 DEF AccSec
  <2>2. offered' \in {0, cfg.mechanism} /\ (cfg.mechanism = Encrypted => token')
    BY <1>1, <2>1 DEF Agrees
  <2>3. LifeCycle'
    BY <2>1 DEF SessionInv, LifeCycle, Steps
  <2>4. Granted'
    BY <2>1, <2>2 DEF SessionInv, Granted, PlaintextRefused
  <2>5. NothingLeftBehind'
    BY <2>1 DEF SessionInv, LifeCycle, NothingLeftBehind
  <2> QED BY <2>3, <2>4, <2>5 DEF SessionInv
<1>2. CASE ~ Agrees(read)
  BY <1>2, ClosedInv DEF AccSec, HandshakeFails
<1> QED BY <1>1, <1>2

\* SECCHK and ACCRDB: it stays only when neither refuses.
LEMMA SecChkInv ==
  ASSUME SessionInv, NEW kind \in DOMAIN Access, NEW replies \in Access[kind],
         SecChk(kind, replies)
  PROVE  SessionInv'
<1>1. CASE ReadAccess(replies).ok
  <2>1. /\ step = "secchk" /\ step' = "post" /\ verdict' = kind
        /\ UNCHANGED <<cfg, conn, closed, token, socket, offered>>
    BY <1>1 DEF SecChk
  <2>2. kind \in {"granted", "notfound"}
    BY <1>1, RefusalsAreSeen
  <2>3. LifeCycle'
    BY <2>1 DEF SessionInv, LifeCycle, Steps
  <2>4. Granted'
    BY <2>1, <2>2 DEF SessionInv, Granted, PlaintextRefused
  <2>5. NothingLeftBehind'
    BY <2>1 DEF SessionInv, LifeCycle, NothingLeftBehind
  <2> QED BY <2>3, <2>4, <2>5 DEF SessionInv
<1>2. CASE ~ ReadAccess(replies).ok
  BY <1>2, ClosedInv DEF SecChk, HandshakeFails
<1> QED BY <1>1, <1>2

\* The set-up of a session that has been let in.
LEMMA SetUpInv ==
  ASSUME SessionInv, NEW ok \in BOOLEAN, NEW lost \in BOOLEAN,
         PostConnect \/ HandshakeLost \/ SetRegisters(ok, lost)
  PROVE  SessionInv'
<1>1. CASE step' = "failed" /\ socket' = "closed" /\ conn' = FALSE /\ closed' = TRUE
  BY <1>1, ClosedInv
<1>2. CASE /\ step \in {"post", "registers"} /\ step' \in {"registers", "connected"}
           /\ UNCHANGED <<cfg, conn, closed, token, socket, offered, verdict>>
  <2>1. LifeCycle'
    BY <1>2 DEF SessionInv, LifeCycle, Steps
  <2>2. Granted'
    BY <1>2 DEF SessionInv, Granted, PlaintextRefused
  <2>3. NothingLeftBehind'
    BY <1>2 DEF SessionInv, LifeCycle, NothingLeftBehind
  <2> QED BY <2>1, <2>2, <2>3 DEF SessionInv
<1> QED BY <1>1, <1>2 DEF PostConnect, HandshakeLost, HandshakeFails, SetRegisters

\* Close, of a session that a ping may have closed before, and a new session.
LEMMA CloseOrNewInv ==
  ASSUME SessionInv, CloseSession \/ \E config \in Configs : NewSession(config)
  PROVE  SessionInv'
<1>1. CASE CloseSession
  <2>1. /\ step = "connected" /\ step' = "left" /\ closed' = TRUE /\ UNCHANGED cfg
        /\ \/ closed /\ UNCHANGED <<conn, socket>>
           \/ ~ closed /\ conn' = FALSE /\ socket' = IF conn THEN "closed" ELSE socket
    BY <1>1 DEF CloseSession
  <2>2. socket' = "closed" /\ conn' \in BOOLEAN
    BY <2>1 DEF SessionInv, LifeCycle, NothingLeftBehind
  <2>3. LifeCycle'
    BY <2>1, <2>2 DEF LifeCycle, Steps
  <2>4. Granted'
    BY <2>1 DEF SessionInv, Granted, PlaintextRefused
  <2>5. NothingLeftBehind'
    BY <2>1, <2>2 DEF NothingLeftBehind
  <2> QED BY <2>3, <2>4, <2>5 DEF SessionInv
<1>2. CASE \E config \in Configs : NewSession(config)
  <2>1. step' = "new" /\ conn' = FALSE /\ closed' = FALSE /\ socket' = "none"
    BY <1>2 DEF NewSession
  <2> QED BY <2>1 DEF SessionInv, LifeCycle, Granted, NothingLeftBehind, Steps
<1> QED BY <1>1, <1>2

\* A request leaves all this alone, but for a ping that closes the session.
LEMMA RequestInv ==
  ASSUME SessionInv, RequestNext
  PROVE  SessionInv'
<1>1. CASE UNCHANGED <<handshakeVars, conn, closed>>
  BY <1>1 DEF SessionInv, LifeCycle, Granted, NothingLeftBehind, PlaintextRefused, handshakeVars
<1>2. CASE /\ step = "connected" /\ closed' = TRUE /\ socket' = "closed"
           /\ UNCHANGED <<cfg, step, conn, token, offered, verdict>>
  <2>1. LifeCycle'
    BY <1>2 DEF SessionInv, LifeCycle
  <2>2. Granted'
    BY <1>2 DEF SessionInv, Granted, PlaintextRefused
  <2>3. NothingLeftBehind'
    BY <1>2 DEF NothingLeftBehind
  <2> QED BY <2>1, <2>2, <2>3 DEF SessionInv
<1>3. ASSUME NEW auto \in BOOLEAN, Ping(auto)
      PROVE  SessionInv'
  BY <1>1, <1>2, <1>3 DEF Ping, Usable, PingCloses
<1>4. ASSUME NEW method, NEW answer, Read(method, answer)
      PROVE  UNCHANGED <<handshakeVars, conn, closed>>
  BY <1>4 DEF Read
<1>5. ASSUME NEW auto \in BOOLEAN,
             ExecDirect(auto) \/ ExecWithParams(auto) \/ QueryCallDirect(auto)
      PROVE  UNCHANGED <<handshakeVars, conn, closed>>
  BY <1>4, <1>5 DEF ExecDirect, ExecWithParams, QueryCallDirect
<1>6. CASE PrepareAndDescribe \/ QueryCallWithParams \/ ExecSQLSet \/ CommitOrRollback
           \/ SwitchUser
  <2>1. UNCHANGED <<handshakeVars, conn, closed>>
    BY <1>4, <1>6 DEF PrepareAndDescribe, QueryCallWithParams, ExecSQLSet, CommitOrRollback,
       SwitchUser
  <2> QED BY <1>1, <2>1
<1>7. ASSUME NEW rows, OpenQuery(rows)
      PROVE  UNCHANGED <<handshakeVars, conn, closed>>
  BY <1>7 DEF OpenQuery
<1>8. CASE ContinueQuery \/ Return
  BY <1>1, <1>8 DEF ContinueQuery, Return
<1>9. ASSUME NEW how, QueryBreaks(how)
      PROVE  UNCHANGED <<handshakeVars, conn, closed>>
  BY <1>9 DEF QueryBreaks
<1> QED BY <1>1, <1>3, <1>5, <1>6, <1>7, <1>8, <1>9 DEF RequestNext

\* Every step keeps the life cycle.
LEMMA SessionStepInv ==
  ASSUME SessionInv, [SessionNext]_vars
  PROVE  SessionInv'
<1>1. CASE UNCHANGED vars
  BY <1>1 DEF SessionInv, LifeCycle, Granted, NothingLeftBehind, PlaintextRefused, vars
<1>2. CASE HandshakeNext
  <2>1. ASSUME NEW replies, AccSec(replies) PROVE SessionInv'
    BY <2>1, AccSecInv
  <2>2. ASSUME NEW kind \in DOMAIN Access, NEW replies \in Access[kind], SecChk(kind, replies)
        PROVE  SessionInv'
    BY <2>2, SecChkInv
  <2>3. CASE PostConnect \/ HandshakeLost \/ \E ok, lost \in BOOLEAN : SetRegisters(ok, lost)
    BY <2>3, SetUpInv
  <2>4. CASE Dial \/ StartTLS
    BY <2>4, DialInv
  <2>5. CASE CloseSession \/ \E config \in Configs : NewSession(config)
    BY <2>5, CloseOrNewInv
  <2> QED BY <1>2, <2>1, <2>2, <2>3, <2>4, <2>5 DEF HandshakeNext
<1>3. CASE RequestNext
  BY <1>3, RequestInv
<1> QED BY <1>1, <1>2, <1>3 DEF SessionNext

-----------------------------------------------------------------------------
\* The life cycle is an invariant of every run.
LEMMA SessionInductive == SessionSpec => []SessionInv
<1>1. SessionInit => SessionInv
  BY DEF SessionInit, SessionInv, LifeCycle, Granted, NothingLeftBehind, Steps
<1> QED BY <1>1, SessionStepInv, PTL DEF SessionSpec

\* Whatever fails between the dial and the close, no socket is left open that
\* nobody closes (connectRaw, Ping and Close).
THEOREM NoSocketLeaks == SessionSpec => []NothingLeftBehind
<1>1. SessionInv => NothingLeftBehind
  BY DEF SessionInv
<1> QED BY SessionInductive, <1>1, PTL

\* Requests may use only a session the server has let in, under the mechanism the
\* driver asked for and not with a password in clear it must not send (handshake),
\* for every configuration.
THEOREM OnlyAcceptedSessions == SessionSpec => []AcceptedByServer
<1>1. SessionInv => AcceptedByServer
  BY DEF SessionInv, LifeCycle, Granted, AcceptedByServer, Steps
<1> QED BY SessionInductive, <1>1, PTL

-----------------------------------------------------------------------------
\* A reply chain is a sequence of whatever is in it.
IsChain(s) == s \in Seq(Range(s))

\* A chain holds what it ranges over, and nothing else.
LEMMA ChainIs ==
  ASSUME NEW s, IsChain(s)
  PROVE  /\ Len(s) \in Nat /\ DOMAIN s = 1 .. Len(s) /\ s \in Seq(Range(s))
         /\ \A i \in 1 .. Len(s) : s[i] \in Range(s)
         /\ \A r \in Range(s) : \E i \in 1 .. Len(s) : s[i] = r
<1>1. s \in Seq(Range(s))
  BY DEF IsChain
<1>2. Len(s) \in Nat /\ DOMAIN s = 1 .. Len(s)
  BY <1>1, LenProperties
<1> QED BY <1>1, <1>2 DEF Range

\* A sequence over any set is a chain.
LEMMA ChainOf ==
  ASSUME NEW S, NEW s, s \in Seq(S)
  PROVE  IsChain(s) /\ Range(s) \subseteq S
<1>1. Len(s) \in Nat /\ DOMAIN s = 1 .. Len(s) /\ \A i \in 1 .. Len(s) : s[i] \in S
  BY LenProperties
<1>2. s = [i \in 1 .. Len(s) |-> s[i]]
  OBVIOUS
<1>3. \A i \in 1 .. Len(s) : s[i] \in Range(s)
  BY <1>1 DEF Range
<1>4. s \in Seq(Range(s))
  BY <1>1, <1>2, <1>3
<1> QED BY <1>1, <1>4 DEF IsChain, Range

\* No reply at all, and one, two or three.
LEMMA ChainNone == IsChain(<<>>) /\ Range(<<>>) = {} /\ Len(<<>>) = 0
BY DEF IsChain, Range

LEMMA ChainOne ==
  ASSUME NEW a
  PROVE  IsChain(<<a>>) /\ Range(<<a>>) = {a} /\ Len(<<a>>) = 1
<1>1. <<a>> \in Seq({a}) /\ Len(<<a>>) = 1 /\ <<a>>[1] = a
  OBVIOUS
<1>2. IsChain(<<a>>)
  BY <1>1, ChainOf
<1> QED BY <1>1, <1>2, ChainIs

LEMMA ChainTwo ==
  ASSUME NEW a, NEW b
  PROVE  IsChain(<<a, b>>) /\ Range(<<a, b>>) = {a, b} /\ Len(<<a, b>>) = 2
<1> DEFINE s == <<a, b>>
<1>1. s \in Seq({a, b}) /\ Len(s) = 2 /\ s[1] = a /\ s[2] = b
  OBVIOUS
<1>2. IsChain(s)
  BY <1>1, ChainOf
<1>3. 1 \in 1 .. Len(s) /\ 2 \in 1 .. Len(s) /\ \A i \in 1 .. Len(s) : i = 1 \/ i = 2
  BY <1>1
<1> HIDE DEF s
<1>a. /\ DOMAIN s = 1 .. Len(s) /\ (\A i \in 1 .. Len(s) : s[i] \in Range(s))
      /\ \A r \in Range(s) : \E i \in 1 .. Len(s) : s[i] = r
  BY <1>2, ChainIs
<1>4. Range(s) = {a, b}
  <2>1. {a, b} \subseteq Range(s)
    BY <1>1, <1>3, <1>a
  <2>2. ASSUME NEW r \in Range(s) PROVE r \in {a, b}
    BY <1>1, <1>3, <1>a
  <2> QED BY <2>1, <2>2
<1> QED BY <1>1, <1>2, <1>4 DEF s

LEMMA ChainThree ==
  ASSUME NEW a, NEW b, NEW c
  PROVE  IsChain(<<a, b, c>>) /\ Range(<<a, b, c>>) = {a, b, c}
<1> DEFINE s == <<a, b, c>>
<1>1. s \in Seq({a, b, c}) /\ Len(s) = 3 /\ s[1] = a /\ s[2] = b /\ s[3] = c
  OBVIOUS
<1>2. IsChain(s)
  BY <1>1, ChainOf
<1>3. /\ 1 \in 1 .. Len(s) /\ 2 \in 1 .. Len(s) /\ 3 \in 1 .. Len(s)
      /\ \A i \in 1 .. Len(s) : i = 1 \/ i = 2 \/ i = 3
  BY <1>1
<1> HIDE DEF s
<1>a. /\ DOMAIN s = 1 .. Len(s) /\ (\A i \in 1 .. Len(s) : s[i] \in Range(s))
      /\ \A r \in Range(s) : \E i \in 1 .. Len(s) : s[i] = r
  BY <1>2, ChainIs
<1>4. Range(s) = {a, b, c}
  <2>1. {a, b, c} \subseteq Range(s)
    BY <1>1, <1>3, <1>a
  <2>2. ASSUME NEW r \in Range(s) PROVE r \in {a, b, c}
    BY <1>1, <1>3, <1>a
  <2> QED BY <2>1, <2>2
<1> QED BY <1>1, <1>2, <1>4 DEF s

\* Two chains, one behind the other.
LEMMA ChainJoin ==
  ASSUME NEW s, NEW t, IsChain(s), IsChain(t)
  PROVE  /\ IsChain(s \o t) /\ Range(s \o t) = Range(s) \cup Range(t)
         /\ Len(s \o t) = Len(s) + Len(t)
         /\ \A i \in 1 .. Len(s) : (s \o t)[i] = s[i]
         /\ \A i \in 1 .. Len(t) : (s \o t)[Len(s) + i] = t[i]
<1> DEFINE S == Range(s) \cup Range(t)
           m == Len(s)
           n == Len(t)
           u == s \o t
<1>0. /\ m \in Nat /\ s \in Seq(Range(s)) /\ (\A i \in 1 .. m : s[i] \in Range(s))
      /\ \A r \in Range(s) : \E i \in 1 .. m : s[i] = r
  BY ChainIs
<1>00. /\ n \in Nat /\ t \in Seq(Range(t)) /\ (\A i \in 1 .. n : t[i] \in Range(t))
       /\ \A r \in Range(t) : \E i \in 1 .. n : t[i] = r
  BY ChainIs
<1>1. Range(s) \subseteq S /\ Range(t) \subseteq S
  OBVIOUS
<1> HIDE DEF S
<1>2. s \in Seq(S)
  BY ONLY <1>0, <1>1, SeqMonotonic
<1>3. t \in Seq(S)
  BY ONLY <1>00, <1>1, SeqMonotonic
<1>4. u \in Seq(S) /\ Len(u) = m + n /\ \A i \in 1 .. m + n : u[i] = IF i <= m THEN s[i] ELSE t[i - m]
  BY <1>2, <1>3, ConcatProperties
<1> HIDE DEF u, m, n
<1>5. \A i \in 1 .. m : i \in 1 .. m + n /\ u[i] = s[i]
  BY <1>0, <1>00, <1>4
<1>6. ASSUME NEW i \in 1 .. n PROVE m + i \in 1 .. m + n /\ u[m + i] = t[i]
  <2>1. m + i \in 1 .. m + n /\ ~ (m + i <= m) /\ (m + i) - m = i
    BY <1>0, <1>00
  <2> QED BY <1>4, <2>1
<1>7. IsChain(u) /\ Range(u) \subseteq S
  BY <1>4, ChainOf
<1>8. \A i \in 1 .. Len(u) : u[i] \in Range(u)
  BY <1>7, ChainIs
<1>9. Range(s) \subseteq Range(u)
  BY <1>0, <1>4, <1>5, <1>8
<1>10. Range(t) \subseteq Range(u)
  BY <1>00, <1>4, <1>6, <1>8
<1>11. Range(u) = Range(s) \cup Range(t)
  BY <1>7, <1>9, <1>10 DEF S
<1> QED BY <1>4, <1>5, <1>6, <1>7, <1>11 DEF u, m, n

\* It does not matter which of three are joined first.
LEMMA ChainRegroup ==
  ASSUME NEW s, NEW t, NEW u, IsChain(s), IsChain(t), IsChain(u)
  PROVE  (s \o t) \o u = s \o (t \o u)
<1> DEFINE S == Range(s) \cup Range(t) \cup Range(u)
<1>0. s \in Seq(Range(s)) /\ t \in Seq(Range(t)) /\ u \in Seq(Range(u))
  BY DEF IsChain
<1>1. Range(s) \subseteq S /\ Range(t) \subseteq S /\ Range(u) \subseteq S
  OBVIOUS
<1> HIDE DEF S
<1>2. s \in Seq(S) /\ t \in Seq(S) /\ u \in Seq(S)
  BY ONLY <1>0, <1>1, SeqMonotonic
<1> QED BY ONLY <1>2, JoinsAssociate

\* A chain with nothing in front or behind.
LEMMA ChainAlone ==
  ASSUME NEW s, IsChain(s)
  PROVE  s \o <<>> = s /\ <<>> \o s = s
BY ConcatEmptySeq DEF IsChain

-----------------------------------------------------------------------------
\* What is said of any reply of a chain does not depend on its place.
LEMMA AnyIn ==
  ASSUME NEW s, IsChain(s)
  PROVE  /\ AnyOf(s, ReplyFails) <=> \E r \in Range(s) : ReplyFails(r)
         /\ AnyOf(s, CardFails) <=> \E r \in Range(s) : CardFails(r)
         /\ AnyOf(s, DescriptorFails) <=> \E r \in Range(s) : DescriptorFails(r)
         /\ AnyOf(s, Refuses) <=> \E r \in Range(s) : Refuses(r)
         /\ AnyOf(s, Ends) <=> \E r \in Range(s) : Ends(r)
         /\ \A cp : Has(s, cp) <=> \E r \in Range(s) : r.cp = cp
<1>1. Range(s) = {s[i] : i \in DOMAIN s}
  BY DEF Range
<1> QED BY <1>1 DEF AnyOf, Has

\* The last reply of a kind is one of the kind.
LEMMA LastIn ==
  ASSUME NEW s, IsChain(s), NEW K, K \subseteq DOMAIN s, K # {}
  PROVE  Max(K) \in K
<1>1. Len(s) \in Nat /\ K \subseteq 1 .. Len(s)
  BY ChainIs
<1> QED BY <1>1, MaxOf

\* The OUT values of a chain in which all values are the same.
LEMMA OutIs ==
  ASSUME NEW s, IsChain(s), NEW out,
         \A r \in Range(s) : HasValues(r) => r.values = out,
         (\E r \in Range(s) : HasValues(r)) \/ out = <<>>
  PROVE  OutValues(s) = out
<1> DEFINE K == {i \in DOMAIN s : HasValues(s[i])}
<1>1. CASE K = {}
  <2>1. OutValues(s) = SQLDTARD(<<>>).values
    BY <1>1 DEF OutValues, LastOf
  <2>2. ~ \E r \in Range(s) : HasValues(r)
    BY <1>1 DEF Range
  <2> QED BY <2>1, <2>2 DEF SQLDTARD
<1>2. CASE K # {}
  <2>1. OutValues(s) = s[Max(K)].values
    BY <1>2 DEF OutValues, LastOf
  <2>2. Max(K) \in K
    BY <1>2, LastIn
  <2>3. s[Max(K)] \in Range(s) /\ HasValues(s[Max(K)])
    <3> DEFINE k == Max(K)
    <3>1. k \in K
      BY <2>2
    <3> HIDE DEF k
    <3> QED BY <3>1 DEF Range, k
  <2> QED BY <2>1, <2>3
<1> QED BY <1>1, <1>2

\* The columns of a chain that describes one output, and the parameters.
LEMMA DescribesOutput ==
  ASSUME NEW s, IsChain(s), NEW columns, \E r \in Range(s) : IsOutput(r),
         \A r \in Range(s) : IsOutput(r) => r.columns = columns
  PROVE  LastOf(s, IsOutput, SQLDARD(<<>>, "ok")).columns = columns
<1> DEFINE K == {i \in DOMAIN s : IsOutput(s[i])}
<1>1. K # {}
  BY DEF Range
<1>2. Max(K) \in K
  BY <1>1, LastIn
<1>3. LastOf(s, IsOutput, SQLDARD(<<>>, "ok")) = s[Max(K)]
  BY <1>1 DEF LastOf
<1> DEFINE k == Max(K)
<1>4. k \in K
  BY <1>2
<1> HIDE DEF k
<1> QED BY <1>3, <1>4 DEF Range, k

LEMMA DescribesParams ==
  ASSUME NEW s, IsChain(s), NEW columns, \E r \in Range(s) : IsParams(r),
         \A r \in Range(s) : IsParams(r) => r.columns = columns
  PROVE  LastOf(s, IsParams, SQLDARD(<<>>, "null")).columns = columns
<1> DEFINE K == {i \in DOMAIN s : IsParams(s[i])}
<1>1. K # {}
  BY DEF Range
<1>2. Max(K) \in K
  BY <1>1, LastIn
<1>3. LastOf(s, IsParams, SQLDARD(<<>>, "null")) = s[Max(K)]
  BY <1>1 DEF LastOf
<1> DEFINE k == Max(K)
<1>4. k \in K
  BY <1>2
<1> HIDE DEF k
<1> QED BY <1>3, <1>4 DEF Range, k

\* The rows of a chain in which one card alone counts any.
LEMMA OneCounts ==
  ASSUME NEW s, NEW t, NEW c, IsChain(s), IsChain(t), IsCard(c), RowsOf(c) \in Nat,
         \A r \in Range(s) \cup Range(t) : IsCard(r) => RowsOf(r) = 0
  PROVE  AffectedRows((s \o <<c>>) \o t) = RowsOf(c)
<1> DEFINE u     == s \o <<c>>
           all   == u \o t
           k     == Len(s) + 1
           each  == [i \in DOMAIN all |-> IF IsCard(all[i]) THEN RowsOf(all[i]) ELSE 0]
           off   == [i \in 0 .. Len(all) |-> IF i >= k THEN RowsOf(c) ELSE 0]
<1>1. IsChain(<<c>>) /\ Len(<<c>>) = 1 /\ <<c>>[1] = c
  BY ChainOne
<1>2. /\ IsChain(u) /\ Len(u) = Len(s) + 1 /\ u[Len(s) + 1] = c
      /\ \A i \in 1 .. Len(s) : u[i] = s[i]
  BY <1>1, ChainJoin
<1> HIDE DEF u
<1>3. /\ IsChain(all) /\ Len(all) = Len(u) + Len(t)
      /\ \A i \in 1 .. Len(u) : all[i] = u[i]
      /\ \A i \in 1 .. Len(t) : all[Len(u) + i] = t[i]
  BY <1>2, ChainJoin
<1> HIDE DEF all
<1>4. /\ Len(s) \in Nat /\ Len(t) \in Nat /\ k \in Nat /\ Len(u) = k
      /\ Len(all) = k + Len(t) /\ DOMAIN all = 1 .. Len(all)
  BY <1>2, <1>3, ChainIs
<1>5. \A i \in 1 .. Len(s) : each[i] = 0
  <2> SUFFICES ASSUME NEW i \in 1 .. Len(s) PROVE each[i] = 0
    OBVIOUS
  <2>1. i \in 1 .. Len(u) /\ i \in 1 .. Len(all)
    BY <1>4
  <2>2. all[i] = s[i] /\ s[i] \in Range(s)
    BY <1>2, <1>3, <2>1, ChainIs
  <2> QED BY <1>4, <2>1, <2>2
<1>6. each[k] = RowsOf(c)
  <2>1. k \in 1 .. Len(u) /\ k \in 1 .. Len(all)
    BY <1>4
  <2>2. all[k] = c
    BY <1>2, <1>3, <2>1
  <2> QED BY <1>4, <2>1, <2>2
<1>7. \A i \in 1 .. Len(t) : each[k + i] = 0
  <2> SUFFICES ASSUME NEW i \in 1 .. Len(t) PROVE each[k + i] = 0
    OBVIOUS
  <2>1. k + i \in 1 .. Len(all)
    BY <1>4
  <2>2. all[k + i] = t[i] /\ t[i] \in Range(t)
    BY <1>3, <1>4, ChainIs
  <2> QED BY <1>4, <2>1, <2>2
<1>8. \A i \in 1 .. Len(all) : each[i] = IF i = k THEN RowsOf(c) ELSE 0
  <2> SUFFICES ASSUME NEW i \in 1 .. Len(all) PROVE each[i] = IF i = k THEN RowsOf(c) ELSE 0
    OBVIOUS
  <2> HIDE DEF each
  <2>1. CASE i < k
    BY <2>1, <1>4, <1>5
  <2>2. CASE i = k
    BY <2>2, <1>6
  <2>3. CASE i > k
    <3>1. i - k \in 1 .. Len(t) /\ k + (i - k) = i
      BY <2>3, <1>4
    <3>2. each[k + (i - k)] = 0
      BY <3>1, <1>7
    <3> QED BY <2>3, <3>1, <3>2
  <2> QED BY <2>1, <2>2, <2>3, <1>4
<1>9. each \in Seq(Nat) /\ Len(each) = Len(all)
  <2>1. each = [i \in 1 .. Len(all) |-> each[i]] /\ \A i \in 1 .. Len(all) : each[i] \in Nat
    BY <1>4, <1>8
  <2>2. Len(all) \in Nat
    BY <1>4
  <2> HIDE DEF each
  <2> QED BY <2>1, <2>2
<1> HIDE DEF each
<1>10. off[0] = 0 /\ \A i \in 1 .. Len(each) : off[i] = off[i - 1] + each[i]
  <2>1. off[0] = 0
    BY <1>4
  <2>2. ASSUME NEW i \in 1 .. Len(each) PROVE off[i] = off[i - 1] + each[i]
    <3>1. i \in 0 .. Len(all) /\ i - 1 \in 0 .. Len(all)
      BY <1>4, <1>9
    <3>2. /\ off[i] = IF i >= k THEN RowsOf(c) ELSE 0
          /\ off[i - 1] = IF i - 1 >= k THEN RowsOf(c) ELSE 0
      BY <3>1
    <3>3. each[i] = IF i = k THEN RowsOf(c) ELSE 0
      BY <1>8, <1>9
    <3> HIDE DEF off, k
    <3> QED BY <3>1, <3>2, <3>3, <1>4
  <2> QED BY <2>1, <2>2
<1> HIDE DEF off
<1>11. FoldLeft(+, 0, each) = off[Len(each)]
  BY <1>9, <1>10, SumRuns
<1>12. off[Len(each)] = RowsOf(c)
  BY <1>4, <1>9 DEF off
<1>13. AffectedRows(all) = FoldLeft(+, 0, each)
  BY DEF AffectedRows, each
<1> QED BY <1>11, <1>12, <1>13 DEF u, all

-----------------------------------------------------------------------------
\* A success as a chain: the card of the statement, the OUT values in front of it.
Succeeds(all, effect, out) ==
  \E s, t :
    /\ IsChain(s) /\ IsChain(t) /\ all = (s \o <<effect.reply>>) \o t
    /\ Range(s) \subseteq {SQLDARD(<<"p">>, "ok"), SQLDTARD(out)}
    /\ out # <<>> => SQLDTARD(out) \in Range(s)
    /\ Range(t) \subseteq {Message("ENDUOWRM"), NullCard}

\* A failure as a chain: the fault is somewhere in it.
FailsBy(all, how) ==
  IsChain(all) /\ how \in DOMAIN Faults /\ \E fault \in Faults[how] : fault \in Range(all)

\* What closes a statement says nothing of its success.
LEMMA EndingIs ==
  ASSUME NEW auto
  PROVE  IsChain(Ending(auto)) /\ Range(Ending(auto)) \subseteq {Message("ENDUOWRM"), NullCard}
BY ChainNone, ChainTwo DEF Ending

\* The answers of the server to a statement, as a success and as a failure.
LEMMA ExecSucceeds ==
  ASSUME NEW auto, NEW outs, NEW answer \in ExecDone(auto, outs)
  PROVE  \E effect \in Effects, out \in outs :
           /\ answer.truth = Done(effect, out)
           /\ Succeeds(answer.first \o answer.second, effect, out)
<1>1. PICK effect \in Effects, out \in outs : \E split \in {out # <<>>, FALSE} :
         LET told == (IF out = <<>> THEN <<>> ELSE <<SQLDTARD(out)>>)
                       \o <<effect.reply>> \o Ending(auto)
         IN  answer = IF split THEN Answer(<<SQLDARD(<<"p">>, "ok")>>, told, Done(effect, out))
                      ELSE Answer(told, <<>>, Done(effect, out))
  BY DEF ExecDone
<1> DEFINE v    == IF out = <<>> THEN <<>> ELSE <<SQLDTARD(out)>>
           d    == <<SQLDARD(<<"p">>, "ok")>>
           e    == <<effect.reply>>
           t    == Ending(auto)
           told == (v \o e) \o t
<1>2. answer.truth = Done(effect, out)
  BY <1>1 DEF Answer
<1>3. IsChain(v) /\ Range(v) \subseteq {SQLDTARD(out)} /\ (out # <<>> => SQLDTARD(out) \in Range(v))
  BY ChainNone, ChainOne
<1>4. IsChain(d) /\ Range(d) = {SQLDARD(<<"p">>, "ok")} /\ IsChain(e)
  BY ChainOne
<1>5. IsChain(t) /\ Range(t) \subseteq {Message("ENDUOWRM"), NullCard}
  BY EndingIs
<1>6. \/ answer.first = d /\ answer.second = told
      \/ answer.first = told /\ answer.second = <<>>
  BY <1>1 DEF Answer
<1> HIDE DEF v, d, e, t
<1>7. IsChain(v \o e) /\ IsChain(told)
  BY <1>3, <1>4, <1>5, ChainJoin
<1>8. CASE answer.first = d /\ answer.second = told
  <2>1. d \o told = (d \o (v \o e)) \o t
    BY <1>4, <1>5, <1>7, ChainRegroup, SMTT(60)
  <2>2. d \o (v \o e) = (d \o v) \o e
    BY <1>3, <1>4, ChainRegroup
  <2>3. IsChain(d \o v) /\ Range(d \o v) = Range(d) \cup Range(v)
    BY <1>3, <1>4, ChainJoin
  <2>4. answer.first \o answer.second = ((d \o v) \o e) \o t
    BY <1>8, <2>1, <2>2
  <2>5. Succeeds(answer.first \o answer.second, effect, out)
    BY <1>3, <1>4, <1>5, <2>3, <2>4 DEF Succeeds, e
  <2> QED BY <1>2, <2>5
<1>9. CASE answer.first = told /\ answer.second = <<>>
  <2>1. answer.first \o answer.second = (v \o e) \o t
    BY <1>7, <1>9, ChainAlone
  <2>2. Succeeds(answer.first \o answer.second, effect, out)
    BY <1>3, <1>5, <2>1 DEF Succeeds, e
  <2> QED BY <1>2, <2>2
<1> QED BY <1>6, <1>8, <1>9

LEMMA ExecFails ==
  ASSUME NEW auto, NEW outs, NEW answer \in ExecFailed(auto, outs)
  PROVE  /\ answer.truth.failed \in DOMAIN Faults
         /\ FailsBy(answer.first \o answer.second, answer.truth.failed)
<1>1. PICK how \in DOMAIN Faults : \E fault \in Faults[how] :
         \/ answer = Failing(<<fault>> \o Ending(auto), <<>>, how)
         \/ answer = Failing(<<SQLCARD(0, 1), Message("ENDUOWRM"), fault>>, <<>>, how)
         \/ answer = Failing(<<SQLDARD(<<"p">>, "ok")>>, <<fault>> \o Ending(auto), how)
  BY DEF ExecFailed
<1>a. PICK fault \in Faults[how] :
         \/ answer = Failing(<<fault>> \o Ending(auto), <<>>, how)
         \/ answer = Failing(<<SQLCARD(0, 1), Message("ENDUOWRM"), fault>>, <<>>, how)
         \/ answer = Failing(<<SQLDARD(<<"p">>, "ok")>>, <<fault>> \o Ending(auto), how)
  BY <1>1
<1> DEFINE f == <<fault>>
           t == Ending(auto)
           c == <<SQLCARD(0, 1), Message("ENDUOWRM"), fault>>
           d == <<SQLDARD(<<"p">>, "ok")>>
<1>2. IsChain(f) /\ fault \in Range(f) /\ IsChain(t) /\ IsChain(c) /\ fault \in Range(c) /\ IsChain(d)
  BY ChainOne, ChainThree, EndingIs
<1>3. /\ answer.truth.failed = how
      /\ \/ answer.first = f \o t /\ answer.second = <<>>
         \/ answer.first = c /\ answer.second = <<>>
         \/ answer.first = d /\ answer.second = f \o t
  BY <1>a DEF Failing, Answer
<1> HIDE DEF f, t, c, d
<1>4. IsChain(f \o t) /\ fault \in Range(f \o t)
  BY <1>2, ChainJoin
<1>5. IsChain(d \o (f \o t)) /\ fault \in Range(d \o (f \o t))
  BY <1>2, <1>4, ChainJoin
<1>6. (f \o t) \o <<>> = f \o t /\ c \o <<>> = c
  BY <1>2, <1>4, ChainAlone
<1>7. IsChain(answer.first \o answer.second) /\ fault \in Range(answer.first \o answer.second)
  BY <1>2, <1>3, <1>4, <1>5, <1>6
<1> QED BY <1>3, <1>7 DEF FailsBy

\* A card says the rows of its effect.
LEMMA EffectCounts ==
  ASSUME NEW effect \in Effects
  PROVE  /\ IsCard(effect.reply) /\ ~ ReplyFails(effect.reply) /\ ~ HasValues(effect.reply)
         /\ RowsOf(effect.reply) \in effect.rows /\ RowsOf(effect.reply) \in Nat
<1>1. CASE \E n \in 1 .. MaxRows : effect = [reply |-> SQLCARD(0, n), rows |-> {n}]
  BY <1>1, SessionAssumption DEF IsCard, ReplyFails, CardFails, HasValues, RowsOf, SQLCARD, Unreadable
<1>2. CASE effect = [reply |-> SQLCARD(100, 0), rows |-> {0}]
  BY <1>2 DEF IsCard, ReplyFails, CardFails, HasValues, RowsOf, SQLCARD, Unreadable
<1>3. CASE effect = [reply |-> SQLCARD(0, 0), rows |-> {0, 1}]
  BY <1>3 DEF IsCard, ReplyFails, CardFails, HasValues, RowsOf, SQLCARD, Unreadable
<1>4. CASE effect = [reply |-> NullCard, rows |-> {0}]
  BY <1>4 DEF IsCard, ReplyFails, CardFails, HasValues, RowsOf, SQLCARD, NullCard, Unreadable
<1> QED BY <1>1, <1>2, <1>3, <1>4 DEF Effects

\* What a success and a failure tell a method that reads every card.
LEMMA SuccessIsRead ==
  ASSUME NEW all, NEW effect \in Effects, NEW out, Succeeds(all, effect, out)
  PROVE  /\ ~ AnyOf(all, ReplyFails)
         /\ AffectedRows(all) \in effect.rows /\ OutValues(all) = out
<1>1. PICK s, t :
        /\ IsChain(s) /\ IsChain(t) /\ all = (s \o <<effect.reply>>) \o t
        /\ Range(s) \subseteq {SQLDARD(<<"p">>, "ok"), SQLDTARD(out)}
        /\ out # <<>> => SQLDTARD(out) \in Range(s)
        /\ Range(t) \subseteq {Message("ENDUOWRM"), NullCard}
  BY DEF Succeeds
<1> DEFINE c == effect.reply
           d == SQLDARD(<<"p">>, "ok")
           v == SQLDTARD(out)
           u == Message("ENDUOWRM")
<1>2. /\ IsCard(c) /\ ~ ReplyFails(c) /\ ~ HasValues(c)
      /\ RowsOf(c) \in effect.rows /\ RowsOf(c) \in Nat
  BY EffectCounts
<1>3. /\ ~ ReplyFails(d) /\ ~ HasValues(d) /\ ~ IsCard(d)
      /\ ~ ReplyFails(v) /\ (HasValues(v) => v.values = out) /\ (out # <<>> => HasValues(v)) /\ ~ IsCard(v)
      /\ ~ ReplyFails(u) /\ ~ HasValues(u) /\ ~ IsCard(u)
      /\ ~ ReplyFails(NullCard) /\ ~ HasValues(NullCard) /\ RowsOf(NullCard) = 0
  BY DEF ReplyFails, CardFails, HasValues, IsCard, RowsOf, SQLDARD, SQLDTARD, Message, NullCard,
     SQLCARD, Unreadable
<1> HIDE DEF c, d, v, u
<1>4. IsChain(<<c>>) /\ Range(<<c>>) = {c}
  BY ChainOne
<1>5. IsChain(s \o <<c>>) /\ Range(s \o <<c>>) = Range(s) \cup {c}
  BY <1>1, <1>4, ChainJoin
<1>6. all = (s \o <<c>>) \o t
  BY <1>1 DEF c
<1>7. IsChain(all) /\ Range(all) = Range(s) \cup {c} \cup Range(t)
  BY <1>1, <1>5, <1>6, ChainJoin
<1>8. Range(s) \subseteq {d, v} /\ (out # <<>> => v \in Range(s)) /\ Range(t) \subseteq {u, NullCard}
  BY <1>1 DEF d, v, u
<1>9. ~ AnyOf(all, ReplyFails)
  <2>1. \A r \in Range(all) : ~ ReplyFails(r)
    BY <1>2, <1>3, <1>7, <1>8
  <2> QED BY <1>7, <2>1, AnyIn
<1>10. OutValues(all) = out
  <2>1. \A r \in Range(all) : HasValues(r) => r.values = out
    BY <1>2, <1>3, <1>7, <1>8
  <2>2. (\E r \in Range(all) : HasValues(r)) \/ out = <<>>
    BY <1>3, <1>7, <1>8
  <2> QED BY <1>7, <2>1, <2>2, OutIs
<1>11. AffectedRows(all) = RowsOf(c)
  <2>1. \A r \in Range(s) \cup Range(t) : IsCard(r) => RowsOf(r) = 0
    BY <1>3, <1>8
  <2> QED BY <1>1, <1>2, <1>6, <2>1, OneCounts
<1> QED BY <1>2, <1>9, <1>10, <1>11

LEMMA FailureIsRead ==
  ASSUME NEW all, NEW how, FailsBy(all, how)
  PROVE  /\ AnyOf(all, ReplyFails)
         /\ how = "card" => AnyOf(all, CardFails)
         /\ how = "message" => Has(all, "SQLERRRM") /\ AnyOf(all, Refuses)
<1>1. PICK fault \in Faults[how] : IsChain(all) /\ how \in {"card", "message"} /\ fault \in Range(all)
  BY DEF FailsBy, Faults
<1>2. CASE how = "card"
  <2>1. CardFails(fault) /\ ReplyFails(fault)
    BY <1>1, <1>2 DEF Faults, CardFails, ReplyFails, SQLCARD, UnreadableCard, Unreadable
  <2> QED BY <1>1, <1>2, <2>1, AnyIn
<1>3. CASE how = "message"
  <2>1. ReplyFails(fault) /\ Refuses(fault) /\ fault.cp = "SQLERRRM"
    BY <1>1, <1>3 DEF Faults, ReplyFails, Refuses, SQLERRRM, Message
  <2> QED BY <1>1, <1>3, <2>1, AnyIn
<1> QED BY <1>1, <1>2, <1>3

-----------------------------------------------------------------------------
\* What the last request has returned, beside the truth of its answer.
Truthful(method, truth, result) ==
  /\ truth.failed \in Hears[method] => ~ result.ok
  /\ truth.failed = "no" =>
       /\ result.ok
       /\ method \in {"direct", "exec"} => result.rows \in truth.rows
       /\ method \in {"exec", "call"} => "out" \in DOMAIN result /\ result.out = truth.out
       /\ method = "describe" => result.output = truth.output /\ result.params = truth.params
       /\ method = "call" => result.sets = truth.sets

\* The faults each method listens to.
LEMMA HearsOf ==
  /\ \A m \in {"direct", "exec", "describe", "call", "query"} : Hears[m] = {"card", "message"}
  /\ Hears["set"] = {"card"} /\ Hears["ping"] = {"message"} /\ Hears["switch"] = {"message"}
  /\ Hears["commit"] = {}
BY DEF Hears, Methods

\* A failure is told by an error, a success by none.
LEMMA FailureTold ==
  ASSUME NEW method, NEW truth, NEW result, truth.failed # "no", ~ result.ok
  PROVE  Truthful(method, truth, result)
BY DEF Truthful

\* No method hears a fault in a success.
LEMMA Unheard ==
  ASSUME NEW method \in {"direct", "exec", "describe", "call", "query", "set", "ping", "switch", "commit"}
  PROVE  "no" \notin Hears[method]
BY HearsOf

\* What a success has to tell, method by method.
LEMMA DirectTold ==
  ASSUME NEW truth, NEW result, truth.failed = "no", result.ok, result.rows \in truth.rows
  PROVE  Truthful("direct", truth, result)
<1>1. "no" \notin Hears["direct"]
  BY Unheard
<1> QED BY <1>1 DEF Truthful

LEMMA ExecTold ==
  ASSUME NEW truth, NEW result, truth.failed = "no", result.ok, result.rows \in truth.rows,
         "out" \in DOMAIN result, result.out = truth.out
  PROVE  Truthful("exec", truth, result)
<1>1. "no" \notin Hears["exec"]
  BY Unheard
<1> QED BY <1>1 DEF Truthful

LEMMA DescribeTold ==
  ASSUME NEW truth, NEW result, truth.failed = "no", result.ok,
         result.output = truth.output, result.params = truth.params
  PROVE  Truthful("describe", truth, result)
<1>1. "no" \notin Hears["describe"]
  BY Unheard
<1> QED BY <1>1 DEF Truthful

LEMMA CallTold ==
  ASSUME NEW truth, NEW result, truth.failed = "no", result.ok,
         "out" \in DOMAIN result, result.out = truth.out, result.sets = truth.sets
  PROVE  Truthful("call", truth, result)
<1>1. "no" \notin Hears["call"]
  BY Unheard
<1> QED BY <1>1 DEF Truthful

LEMMA PlainTold ==
  ASSUME NEW method \in {"set", "switch", "ping"}, NEW truth, NEW result, truth.failed = "no", result.ok
  PROVE  Truthful(method, truth, result)
<1>1. "no" \notin Hears[method]
  BY Unheard
<1> QED BY <1>1 DEF Truthful

\* The ways of the server to fail.
LEMMA FaultsAre == DOMAIN Faults = {"card", "message"} /\ "no" \notin DOMAIN Faults
BY DEF Faults

\* The methods one by one: what they return is what the server did.
LEMMA DirectTells ==
  ASSUME NEW auto, NEW answer \in ExecAnswers(auto, {<<>>})
  PROVE  Truthful("direct", answer.truth, ResultOf("direct", answer.first \o answer.second))
<1> DEFINE all == answer.first \o answer.second
<1>1. ResultOf("direct", all) = [ok |-> ~ AnyOf(all, ReplyFails), rows |-> AffectedRows(all)]
  BY DEF ResultOf, ReadDirect
<1>2. CASE answer \in ExecDone(auto, {<<>>})
  <2>1. PICK effect \in Effects, out \in {<<>>} :
          answer.truth = Done(effect, out) /\ Succeeds(all, effect, out)
    BY <1>2, ExecSucceeds
  <2> HIDE DEF all
  <2>2. ~ AnyOf(all, ReplyFails) /\ AffectedRows(all) \in effect.rows
    BY <2>1, SuccessIsRead
  <2> DEFINE result == ResultOf("direct", all)
  <2>3. result.ok /\ result.rows = AffectedRows(all)
    <3> HIDE DEF result
    <3>1. result = [ok |-> ~ AnyOf(all, ReplyFails), rows |-> AffectedRows(all)]
      BY <1>1 DEF result
    <3>2. result.ok = ~ AnyOf(all, ReplyFails) /\ result.rows = AffectedRows(all)
      BY ONLY <3>1
    <3> QED BY <2>2, <3>2
  <2>4. answer.truth.failed = "no" /\ answer.truth.rows = effect.rows
    BY <2>1 DEF Done
  <2> HIDE DEF result
  <2>5. Truthful("direct", answer.truth, result)
    BY <2>2, <2>3, <2>4, DirectTold
  <2> QED BY <2>5 DEF result, all
<1>3. CASE answer \in ExecFailed(auto, {<<>>})
  <2>1. answer.truth.failed \in {"card", "message"} /\ FailsBy(all, answer.truth.failed)
    BY <1>3, ExecFails, FaultsAre
  <2> HIDE DEF all
  <2>2. AnyOf(all, ReplyFails)
    BY <2>1, FailureIsRead
  <2> QED BY <1>1, <2>1, <2>2, FailureTold DEF all
<1> QED BY <1>2, <1>3 DEF ExecAnswers

LEMMA ExecTells ==
  ASSUME NEW auto, NEW outs, NEW answer \in ExecAnswers(auto, outs)
  PROVE  Truthful("exec", answer.truth, ResultOf("exec", answer.first \o answer.second))
<1> DEFINE all == answer.first \o answer.second
<1>1. ResultOf("exec", all) =
        [ok |-> ~ AnyOf(all, ReplyFails), rows |-> AffectedRows(all), out |-> OutValues(all)]
  BY DEF ResultOf, ReadExec
<1>2. CASE answer \in ExecDone(auto, outs)
  <2>1. PICK effect \in Effects, out \in outs :
          answer.truth = Done(effect, out) /\ Succeeds(all, effect, out)
    BY <1>2, ExecSucceeds
  <2> HIDE DEF all
  <2>2. ~ AnyOf(all, ReplyFails) /\ AffectedRows(all) \in effect.rows /\ OutValues(all) = out
    BY <2>1, SuccessIsRead
  <2> DEFINE result == ResultOf("exec", all)
  <2>3. result.ok /\ result.rows = AffectedRows(all) /\ "out" \in DOMAIN result /\ result.out = OutValues(all)
    <3> HIDE DEF result
    <3>1. result = [ok |-> ~ AnyOf(all, ReplyFails), rows |-> AffectedRows(all), out |-> OutValues(all)]
      BY <1>1 DEF result
    <3>2. /\ result.ok = ~ AnyOf(all, ReplyFails) /\ result.rows = AffectedRows(all)
          /\ result.out = OutValues(all) /\ "out" \in DOMAIN result
      BY ONLY <3>1
    <3> QED BY <2>2, <3>2
  <2>4. answer.truth.failed = "no" /\ answer.truth.rows = effect.rows /\ answer.truth.out = out
    BY <2>1 DEF Done
  <2> HIDE DEF result
  <2>5. Truthful("exec", answer.truth, result)
    BY <2>2, <2>3, <2>4, ExecTold
  <2> QED BY <2>5 DEF result, all
<1>3. CASE answer \in ExecFailed(auto, outs)
  <2>1. answer.truth.failed \in {"card", "message"} /\ FailsBy(all, answer.truth.failed)
    BY <1>3, ExecFails, FaultsAre
  <2> HIDE DEF all
  <2>2. AnyOf(all, ReplyFails)
    BY <2>1, FailureIsRead
  <2> QED BY <1>1, <2>1, <2>2, FailureTold DEF all
<1> QED BY <1>2, <1>3 DEF ExecAnswers

LEMMA DescribeTells ==
  ASSUME NEW answer \in DescribeAnswers
  PROVE  Truthful("describe", answer.truth, ResultOf("describe", answer.first \o answer.second))
<1> DEFINE all == answer.first \o answer.second
<1>1. ResultOf("describe", all) =
        [ok |-> ~ AnyOf(all, ReplyFails) /\ ~ AnyOf(all, DescriptorFails),
         output |-> LastOf(all, IsOutput, SQLDARD(<<>>, "ok")).columns,
         params |-> LastOf(all, IsParams, SQLDARD(<<>>, "null")).columns]
  BY DEF ResultOf, ReadDescribe
<1>2. CASE \E output \in {<<>>, <<"c">>}, params \in {<<>>, <<"p">>} :
             answer = Answer(<<SQLDARD(output, "ok"), SQLDARD(params, "null")>>, <<>>,
                             [failed |-> "no", output |-> output, params |-> params])
  <2>1. PICK output \in {<<>>, <<"c">>}, params \in {<<>>, <<"p">>} :
             answer = Answer(<<SQLDARD(output, "ok"), SQLDARD(params, "null")>>, <<>>,
                             [failed |-> "no", output |-> output, params |-> params])
    BY <1>2
  <2> DEFINE o == SQLDARD(output, "ok")
             p == SQLDARD(params, "null")
  <2>2. IsChain(<<o, p>>) /\ Range(<<o, p>>) = {o, p}
    BY ChainTwo
  <2>3. answer.first = <<o, p>> /\ answer.second = <<>>
        /\ answer.truth = [failed |-> "no", output |-> output, params |-> params]
    BY <2>1 DEF Answer
  <2>4. /\ ~ ReplyFails(o) /\ ~ DescriptorFails(o) /\ IsOutput(o) /\ ~ IsParams(o) /\ o.columns = output
        /\ ~ ReplyFails(p) /\ ~ DescriptorFails(p) /\ IsParams(p) /\ ~ IsOutput(p) /\ p.columns = params
    BY DEF SQLDARD, ReplyFails, CardFails, DescriptorFails, IsOutput, IsParams
  <2> HIDE DEF o, p
  <2>5. all = <<o, p>>
    BY <2>2, <2>3, ChainAlone
  <2> HIDE DEF all
  <2>6. IsChain(all) /\ Range(all) = {o, p}
    BY <2>2, <2>5
  <2>7. ~ AnyOf(all, ReplyFails) /\ ~ AnyOf(all, DescriptorFails)
    BY <2>4, <2>6, AnyIn
  <2>8. LastOf(all, IsOutput, SQLDARD(<<>>, "ok")).columns = output
    BY <2>4, <2>6, DescribesOutput
  <2>9. LastOf(all, IsParams, SQLDARD(<<>>, "null")).columns = params
    <3>1. (\E r \in Range(all) : IsParams(r)) /\ \A r \in Range(all) : IsParams(r) => r.columns = params
      BY <2>4, <2>6
    <3> QED BY <2>6, <3>1, DescribesParams
  <2> DEFINE result == ResultOf("describe", all)
  <2>10. result.ok /\ result.output = output /\ result.params = params
    <3> DEFINE o1 == LastOf(all, IsOutput, SQLDARD(<<>>, "ok")).columns
               p1 == LastOf(all, IsParams, SQLDARD(<<>>, "null")).columns
    <3> HIDE DEF result
    <3>1. result = [ok |-> ~ AnyOf(all, ReplyFails) /\ ~ AnyOf(all, DescriptorFails),
                    output |-> o1, params |-> p1]
      BY <1>1 DEF result
    <3> HIDE DEF o1, p1
    <3>2. /\ result.ok = (~ AnyOf(all, ReplyFails) /\ ~ AnyOf(all, DescriptorFails))
          /\ result.output = o1 /\ result.params = p1
      BY ONLY <3>1
    <3> QED BY <2>7, <2>8, <2>9, <3>2 DEF o1, p1
  <2>11. answer.truth.failed = "no" /\ answer.truth.output = output /\ answer.truth.params = params
    BY <2>3
  <2> HIDE DEF result
  <2>12. Truthful("describe", answer.truth, result)
    BY <2>10, <2>11, DescribeTold
  <2> QED BY <2>12 DEF result, all
<1>3. CASE answer = Failing(<<SQLDARD(<<>>, "error")>>, <<>>, "card")
  <2> DEFINE d == SQLDARD(<<>>, "error")
  <2>1. answer.first = <<d>> /\ answer.second = <<>> /\ answer.truth.failed = "card"
    BY <1>3 DEF Failing, Answer
  <2>2. IsChain(<<d>>) /\ Range(<<d>>) = {d}
    BY ChainOne
  <2>3. all = <<d>>
    BY <2>1, <2>2, ChainAlone
  <2>4. DescriptorFails(d)
    BY DEF DescriptorFails, SQLDARD
  <2> HIDE DEF all, d
  <2>5. AnyOf(all, DescriptorFails)
    BY <2>2, <2>3, <2>4, AnyIn
  <2> QED BY <1>1, <2>1, <2>5, FailureTold DEF all
<1>4. ASSUME NEW how \in DOMAIN Faults, NEW fault \in Faults[how],
             \/ answer = Failing(<<fault>>, <<>>, how)
             \/ answer = Failing(<<SQLDARD(<<"c">>, "ok"), fault>>, <<>>, how)
      PROVE  Truthful("describe", answer.truth, ResultOf("describe", all))
  <2>1. /\ answer.first = <<fault>> \/ answer.first = <<SQLDARD(<<"c">>, "ok"), fault>>
        /\ answer.second = <<>> /\ answer.truth.failed = how
    BY <1>4 DEF Failing, Answer
  <2>2. IsChain(answer.first) /\ fault \in Range(answer.first)
    <3>1. IsChain(<<fault>>) /\ Range(<<fault>>) = {fault}
      BY ChainOne
    <3> DEFINE d == SQLDARD(<<"c">>, "ok")
    <3>2. IsChain(<<d, fault>>) /\ Range(<<d, fault>>) = {d, fault}
      BY ChainTwo
    <3> QED BY <2>1, <3>1, <3>2
  <2>3. all = answer.first
    BY <2>1, <2>2, ChainAlone
  <2> HIDE DEF all
  <2>4. FailsBy(all, how)
    BY <2>2, <2>3 DEF FailsBy
  <2>5. AnyOf(all, ReplyFails)
    BY <2>4, FailureIsRead
  <2> QED BY <1>1, <2>1, <2>5, FailureTold, FaultsAre DEF all
<1> HIDE DEF all
<1>5. \/ answer = Failing(<<SQLDARD(<<>>, "error")>>, <<>>, "card")
      \/ \E output \in {<<>>, <<"c">>}, params \in {<<>>, <<"p">>} :
           answer = Answer(<<SQLDARD(output, "ok"), SQLDARD(params, "null")>>, <<>>,
                           [failed |-> "no", output |-> output, params |-> params])
      \/ \E how \in DOMAIN Faults : \E fault \in Faults[how] :
           \/ answer = Failing(<<fault>>, <<>>, how)
           \/ answer = Failing(<<SQLDARD(<<"c">>, "ok"), fault>>, <<>>, how)
  BY DEF DescribeAnswers
<1> QED BY <1>2, <1>3, <1>4, <1>5 DEF all

\* SET, commit and rollback are read from one chain.
LEMMA PlainIs ==
  ASSUME NEW done, NEW answer \in PlainAnswers(done)
  PROVE  /\ answer.first \o answer.second = answer.first
         /\ \/ answer.first = <<done>> /\ answer.truth = [failed |-> "no"]
            \/ /\ answer.truth.failed \in {"card", "message"}
               /\ FailsBy(answer.first, answer.truth.failed)
               /\ Head(answer.first) \in Faults[answer.truth.failed]
<1>1. \/ answer = Answer(<<done>>, <<>>, [failed |-> "no"])
      \/ \E how \in DOMAIN Faults : \E fault \in Faults[how] : answer = Failing(<<fault>>, <<>>, how)
  BY DEF PlainAnswers
<1>2. CASE answer = Answer(<<done>>, <<>>, [failed |-> "no"])
  <2>1. answer.first = <<done>> /\ answer.second = <<>> /\ answer.truth = [failed |-> "no"]
    BY <1>2 DEF Answer
  <2>2. <<done>> \o <<>> = <<done>>
    BY ChainOne, ChainAlone
  <2> QED BY <2>1, <2>2
<1>3. ASSUME NEW how \in DOMAIN Faults, NEW fault \in Faults[how], answer = Failing(<<fault>>, <<>>, how)
      PROVE  /\ answer.first \o answer.second = answer.first
             /\ answer.truth.failed \in {"card", "message"}
             /\ FailsBy(answer.first, answer.truth.failed)
             /\ Head(answer.first) \in Faults[answer.truth.failed]
  <2>1. answer.first = <<fault>> /\ answer.second = <<>> /\ answer.truth.failed = how
    BY <1>3 DEF Failing, Answer
  <2>2. IsChain(<<fault>>) /\ Range(<<fault>>) = {fault} /\ Head(<<fault>>) = fault
    BY ChainOne
  <2>3. <<fault>> \o <<>> = <<fault>>
    BY <2>2, ChainAlone
  <2>4. FailsBy(<<fault>>, how)
    BY <2>2 DEF FailsBy
  <2> QED BY <2>1, <2>2, <2>3, <2>4, FaultsAre
<1> QED BY <1>1, <1>2, <1>3

LEMMA SetTells ==
  ASSUME NEW answer \in PlainAnswers(NullCard)
  PROVE  Truthful("set", answer.truth, ResultOf("set", answer.first \o answer.second))
<1> DEFINE all == answer.first \o answer.second
<1>1. ResultOf("set", all) = [ok |-> ~ AnyOf(all, CardFails)]
  BY DEF ResultOf, ReadSet
<1>2. all = answer.first
  BY PlainIs
<1> HIDE DEF all
<1>3. CASE answer.first = <<NullCard>> /\ answer.truth = [failed |-> "no"]
  <2>1. IsChain(all) /\ Range(all) = {NullCard}
    BY <1>2, <1>3, ChainOne
  <2>2. ~ CardFails(NullCard)
    BY DEF CardFails, NullCard, SQLCARD, Unreadable
  <2>3. ~ AnyOf(all, CardFails)
    BY <2>1, <2>2, AnyIn
  <2> DEFINE result == ResultOf("set", all)
  <2>4. result.ok /\ answer.truth.failed = "no"
    <3>1. answer.truth.failed = "no"
      BY <1>3
    <3> HIDE DEF result
    <3>2. result = [ok |-> ~ AnyOf(all, CardFails)]
      BY <1>1 DEF result
    <3>3. result.ok = ~ AnyOf(all, CardFails)
      BY ONLY <3>2
    <3> QED BY <2>3, <3>1, <3>3
  <2> HIDE DEF result
  <2>5. Truthful("set", answer.truth, result)
    BY <2>4, PlainTold
  <2> QED BY <2>5 DEF result, all
<1>4. CASE answer.truth.failed \in {"card", "message"} /\ FailsBy(answer.first, answer.truth.failed)
  <2>1. answer.truth.failed = "card" => AnyOf(all, CardFails)
    BY <1>2, <1>4, FailureIsRead
  <2>2. Hears["set"] = {"card"}
    BY HearsOf
  <2> DEFINE result == ResultOf("set", all)
  <2>3. answer.truth.failed \in Hears["set"] => ~ result.ok
    <3> HIDE DEF result
    <3>2. result = [ok |-> ~ AnyOf(all, CardFails)]
      BY <1>1 DEF result
    <3>3. result.ok = ~ AnyOf(all, CardFails)
      BY ONLY <3>2
    <3> QED BY <2>1, <2>2, <3>3
  <2>4. answer.truth.failed # "no"
    BY <1>4
  <2> HIDE DEF result
  <2>5. Truthful("set", answer.truth, result)
    BY <2>3, <2>4 DEF Truthful
  <2> QED BY <2>5 DEF result, all
<1> QED BY <1>3, <1>4, PlainIs

LEMMA CommitTells ==
  ASSUME NEW answer
  PROVE  Truthful("commit", answer.truth, ResultOf("commit", answer.first \o answer.second))
BY HearsOf DEF Truthful, ResultOf, ReadCommit

LEMMA SwitchTells ==
  ASSUME NEW answer \in SwitchAnswers
  PROVE  Truthful("switch", answer.truth, ResultOf("switch", answer.first \o answer.second))
<1> DEFINE all == answer.first \o answer.second
<1>1. ResultOf("switch", all) = [ok |-> ~ AnyOf(all, Refuses) /\ Has(all, "SECCHKRM")]
  BY DEF ResultOf, ReadSwitch
<1>2. CASE answer = Answer(<<SECCHKRM(0)>>, <<>>, [failed |-> "no"])
  <2>1. answer.first = <<SECCHKRM(0)>> /\ answer.second = <<>> /\ answer.truth = [failed |-> "no"]
    BY <1>2 DEF Answer
  <2>2. IsChain(<<SECCHKRM(0)>>) /\ Range(<<SECCHKRM(0)>>) = {SECCHKRM(0)}
    BY ChainOne
  <2>3. IsChain(all) /\ Range(all) = {SECCHKRM(0)}
    BY <2>1, <2>2, ChainAlone
  <2>4. ~ Refuses(SECCHKRM(0)) /\ SECCHKRM(0).cp = "SECCHKRM"
    BY DEF Refuses, SECCHKRM
  <2> HIDE DEF all
  <2>5. ~ AnyOf(all, Refuses) /\ Has(all, "SECCHKRM")
    BY <2>3, <2>4, AnyIn
  <2> DEFINE result == ResultOf("switch", all)
  <2>6. result.ok /\ answer.truth.failed = "no"
    <3>1. answer.truth.failed = "no"
      BY <2>1
    <3> HIDE DEF result
    <3>2. result = [ok |-> ~ AnyOf(all, Refuses) /\ Has(all, "SECCHKRM")]
      BY <1>1 DEF result
    <3>3. result.ok = (~ AnyOf(all, Refuses) /\ Has(all, "SECCHKRM"))
      BY ONLY <3>2
    <3> QED BY <2>5, <3>1, <3>3
  <2> HIDE DEF result
  <2>7. Truthful("switch", answer.truth, result)
    BY <2>6, PlainTold
  <2> QED BY <2>7 DEF result, all
<1>3. ASSUME NEW reply \in {SECCHKRM(15), SQLERRRM, Message("RDBAFLRM"), Message("RDBATHRM"),
                            Message("ACCRDBRM")},
             answer = Failing(<<reply>>, <<>>, "message")
      PROVE  Truthful("switch", answer.truth, ResultOf("switch", all))
  <2>1. answer.first = <<reply>> /\ answer.second = <<>> /\ answer.truth.failed = "message"
    BY <1>3 DEF Failing, Answer
  <2>2. IsChain(<<reply>>) /\ Range(<<reply>>) = {reply}
    BY ChainOne
  <2>3. IsChain(all) /\ Range(all) = {reply}
    BY <2>1, <2>2, ChainAlone
  <2>4. Refuses(reply) \/ reply.cp # "SECCHKRM"
    BY DEF Refuses, SECCHKRM, SQLERRRM, Message
  <2> HIDE DEF all
  <2>5. AnyOf(all, Refuses) \/ ~ Has(all, "SECCHKRM")
    BY <2>3, <2>4, AnyIn
  <2> QED BY <1>1, <2>1, <2>5, FailureTold DEF all
<1> QED BY <1>2, <1>3 DEF SwitchAnswers

LEMMA PingTells ==
  ASSUME NEW auto \in BOOLEAN,
         NEW answer \in PlainAnswers(Message(IF auto THEN "ENDUOWRM" ELSE "EXCSATRD"))
  PROVE  Truthful("ping", answer.truth, ReadPing(auto, answer.first))
<1> DEFINE done == Message(IF auto THEN "ENDUOWRM" ELSE "EXCSATRD")
<1>1. CASE answer.first = <<done>> /\ answer.truth = [failed |-> "no"]
  <2>1. IsChain(<<done>>) /\ Range(<<done>>) = {done} /\ Head(<<done>>) = done
    BY ChainOne
  <2>2. done.cp = IF auto THEN "ENDUOWRM" ELSE "EXCSATRD"
    BY DEF Message
  <2> HIDE DEF done
  <2>3. auto => ~ Has(<<done>>, "SQLERRRM")
    <3>1. Has(<<done>>, "SQLERRRM") <=> \E r \in {done} : r.cp = "SQLERRRM"
      BY <2>1, AnyIn
    <3> QED BY <2>2, <3>1
  <2>4. ReadPing(auto, answer.first).ok
    BY <1>1, <2>1, <2>2, <2>3 DEF ReadPing
  <2>5. answer.truth.failed = "no"
    BY <1>1
  <2> QED BY <2>4, <2>5, PlainTold
<1>2. CASE /\ answer.truth.failed \in {"card", "message"}
           /\ FailsBy(answer.first, answer.truth.failed)
           /\ Head(answer.first) \in Faults[answer.truth.failed]
  <2>1. answer.truth.failed = "message" =>
          Has(answer.first, "SQLERRRM") /\ Head(answer.first) = SQLERRRM
    BY <1>2, FailureIsRead DEF Faults
  <2>2. SQLERRRM.cp = "SQLERRRM"
    BY DEF SQLERRRM, Message
  <2>3. answer.truth.failed = "message" => ~ ReadPing(auto, answer.first).ok
    BY <2>1, <2>2 DEF ReadPing
  <2> QED BY <1>2, <2>3, HearsOf DEF Truthful
<1> QED BY <1>1, <1>2, PlainIs

-----------------------------------------------------------------------------
\* What has been read of a CALL, taken apart.
Reading(sets, columns, fields, data, extdta) ==
  [sets |-> sets, set |-> [columns |-> columns, fields |-> fields, data |-> data, extdta |-> extdta]]

Texts == Seq({"p", "field", "column"} \cup Nat)
Pairs == Seq(Nat \X Nat)
SetRecords == [columns : Texts, fields : Texts, data : Pairs, extdta : Pairs]
Readings   == [sets : Seq(SetRecords), set : SetRecords]

\* What has been read of a CALL is made of its parts.
LEMMA ReadingIs ==
  /\ \A sets \in Seq(SetRecords) : \A columns, fields \in Texts : \A data, extdta \in Pairs :
       Reading(sets, columns, fields, data, extdta) \in Readings
  /\ \A given \in Readings :
       /\ given.sets \in Seq(SetRecords) /\ given.set.columns \in Texts /\ given.set.fields \in Texts
       /\ given.set.data \in Pairs /\ given.set.extdta \in Pairs
       /\ given = Reading(given.sets, given.set.columns, given.set.fields, given.set.data, given.set.extdta)
<1>1. ASSUME NEW sets \in Seq(SetRecords), NEW columns \in Texts, NEW fields \in Texts,
             NEW data \in Pairs, NEW extdta \in Pairs
      PROVE  Reading(sets, columns, fields, data, extdta) \in Readings
  <2> HIDE DEF Texts, Pairs
  <2>1. [columns |-> columns, fields |-> fields, data |-> data, extdta |-> extdta] \in SetRecords
    BY DEF SetRecords
  <2> HIDE DEF SetRecords
  <2> QED BY <2>1 DEF Reading, Readings
<1>2. ASSUME NEW given \in Readings
      PROVE /\ given.sets \in Seq(SetRecords) /\ given.set.columns \in Texts /\ given.set.fields \in Texts
            /\ given.set.data \in Pairs /\ given.set.extdta \in Pairs
            /\ given = Reading(given.sets, given.set.columns, given.set.fields, given.set.data, given.set.extdta)
  <2> HIDE DEF Texts, Pairs
  <2>1. given.sets \in Seq(SetRecords) /\ given.set \in SetRecords /\ given = [sets |-> given.sets, set |-> given.set]
    <3> HIDE DEF SetRecords
    <3> QED BY DEF Readings
  <2> DEFINE set == given.set
  <2>2. set \in SetRecords
    BY <2>1
  <2> HIDE DEF set
  <2>3. /\ set.columns \in Texts /\ set.fields \in Texts /\ set.data \in Pairs /\ set.extdta \in Pairs
        /\ set = [columns |-> set.columns, fields |-> set.fields, data |-> set.data, extdta |-> set.extdta]
    BY <2>2 DEF SetRecords
  <2> HIDE DEF SetRecords
  <2> QED BY <2>1, <2>3 DEF Reading, set
<1> QED BY <1>1, <1>2

\* What the parts are built from.
LEMMA TextsAndPairs ==
  /\ <<>> \in Texts /\ <<>> \in Pairs
  /\ \A i \in Nat : <<"field", i>> \in Texts /\ <<"column", i>> \in Texts
  /\ \A d, e \in Pairs : d \o e \in Pairs
  /\ \A d \in Pairs : \A x \in Nat \X Nat : Append(d, x) \in Pairs
<1>1. <<>> \in Texts /\ <<>> \in Pairs
  BY DEF Texts, Pairs
<1>2. ASSUME NEW i \in Nat PROVE <<"field", i>> \in Texts /\ <<"column", i>> \in Texts
  <2> DEFINE S == {"p", "field", "column"} \cup Nat
  <2>1. "field" \in S /\ "column" \in S /\ i \in S
    OBVIOUS
  <2> HIDE DEF S
  <2>2. <<"field", i>> \in Seq(S) /\ <<"column", i>> \in Seq(S)
    BY <2>1
  <2> QED BY <2>2 DEF Texts, S
<1>3. ASSUME NEW d \in Pairs, NEW e \in Pairs PROVE d \o e \in Pairs
  BY ConcatProperties DEF Pairs
<1>4. ASSUME NEW d \in Pairs, NEW x \in Nat \X Nat PROVE Append(d, x) \in Pairs
  BY AppendProperties DEF Pairs
<1> QED BY <1>1, <1>2, <1>3, <1>4

\* The open set is told when it has fields and rows.
LEMMA FlushIs ==
  ASSUME NEW sets, NEW columns, NEW fields, NEW data, NEW extdta
  PROVE  LET given == Reading(sets, columns, fields, data, extdta)
         IN  Flush(given.sets, given.set) =
               IF fields = <<>> \/ data = <<>> THEN sets
               ELSE Append(sets, [columns |-> IF columns = <<>> THEN fields ELSE columns,
                                  fields |-> fields, data |-> data, extdta |-> extdta])
BY DEF Reading, Flush, Named

\* Each reply by itself.
LEMMA StepIs ==
  ASSUME NEW sets, NEW columns, NEW fields, NEW data, NEW extdta, NEW r
  PROVE  LET given == Reading(sets, columns, fields, data, extdta)
             done == IF fields # <<>> THEN Flush(given.sets, given.set) ELSE sets
         IN  /\ r.cp \notin {"SQLDARD", "QRYDSC", "QRYDTA", "EXTDTA"} => CallStep(given, r) = given
             /\ r.cp = "QRYDTA" =>
                  CallStep(given, r) = Reading(sets, columns, fields, data \o r.data, extdta)
             /\ r.cp = "EXTDTA" =>
                  CallStep(given, r) = Reading(sets, columns, fields, data, Append(extdta, r.object))
             /\ r.cp = "QRYDSC" =>
                  CallStep(given, r) = IF fields # <<>> THEN Reading(done, <<>>, r.fields, <<>>, <<>>)
                                      ELSE Reading(done, columns, r.fields, data, extdta)
             /\ r.cp = "SQLDARD" /\ r.columns = <<>> => CallStep(given, r) = given
             /\ r.cp = "SQLDARD" /\ r.columns # <<>> =>
                  CallStep(given, r) = IF fields # <<>> THEN Reading(done, r.columns, <<>>, <<>>, <<>>)
                                      ELSE Reading(done, r.columns, fields, data, extdta)
<1> DEFINE given == Reading(sets, columns, fields, data, extdta)
<1>0. given.sets = sets /\ given.set.fields = fields
  BY DEF Reading
<1>1. CASE r.cp \notin {"SQLDARD", "QRYDSC", "QRYDTA", "EXTDTA"}
  BY <1>1 DEF CallStep
<1>2. CASE r.cp = "QRYDTA"
  BY <1>2 DEF CallStep, Reading
<1>3. CASE r.cp = "EXTDTA"
  BY <1>3 DEF CallStep, Reading
<1>4. CASE r.cp = "QRYDSC"
  BY <1>4, <1>0 DEF CallStep, Reading, NoSet
<1>5. CASE r.cp = "SQLDARD"
  BY <1>5, <1>0 DEF CallStep, Reading, NoSet
<1> QED BY <1>1, <1>2, <1>3, <1>4, <1>5

-----------------------------------------------------------------------------
\* What reading the replies of a chain, one after the other, makes of given.
Folds(given, s, out) ==
  \E g : /\ g[0] = given /\ out = g[Len(s)]
         /\ \A i \in 1 .. Len(s) : g[i] = CallStep(g[i - 1], s[i])

\* The replies read one after the other: none, one, two chains.
LEMMA FoldsNone ==
  ASSUME NEW given
  PROVE  Folds(given, <<>>, given)
<1> DEFINE g == [i \in {0} |-> given]
<1>1. g[0] = given /\ Len(<<>>) = 0 /\ \A i \in 1 .. 0 : g[i] = CallStep(g[i - 1], <<>>[i])
  OBVIOUS
<1> HIDE DEF g
<1> QED BY <1>1 DEF Folds

LEMMA FoldsOne ==
  ASSUME NEW given, NEW r
  PROVE  Folds(given, <<r>>, CallStep(given, r))
<1> DEFINE g == [i \in 0 .. 1 |-> IF i = 0 THEN given ELSE CallStep(given, r)]
<1>1. g[0] = given /\ g[1] = CallStep(given, r)
  OBVIOUS
<1>2. Len(<<r>>) = 1 /\ <<r>>[1] = r
  OBVIOUS
<1> HIDE DEF g
<1>3. \A i \in 1 .. 1 : g[i] = CallStep(g[i - 1], <<r>>[i])
  <2>1. \A i \in 1 .. 1 : i = 1 /\ i - 1 = 0
    OBVIOUS
  <2> QED BY <1>1, <1>2, <2>1
<1> QED BY <1>1, <1>2, <1>3 DEF Folds

LEMMA FoldsJoin ==
  ASSUME NEW s, NEW t, IsChain(s), IsChain(t), NEW a, NEW b, NEW c, Folds(a, s, b), Folds(b, t, c)
  PROVE  Folds(a, s \o t, c)
<1> DEFINE m == Len(s)
           n == Len(t)
           u == s \o t
<1>1. PICK f : f[0] = a /\ b = f[m] /\ \A i \in 1 .. m : f[i] = CallStep(f[i - 1], s[i])
  BY DEF Folds
<1>2. PICK g : g[0] = b /\ c = g[n] /\ \A i \in 1 .. n : g[i] = CallStep(g[i - 1], t[i])
  BY DEF Folds
<1>3. m \in Nat /\ n \in Nat /\ Len(u) = m + n
  BY ChainIs, ChainJoin
<1>4. (\A i \in 1 .. m : u[i] = s[i]) /\ \A i \in 1 .. n : u[m + i] = t[i]
  BY ChainJoin
<1> HIDE DEF u, m, n
<1> DEFINE h == [i \in 0 .. m + n |-> IF i <= m THEN f[i] ELSE g[i - m]]
<1>5. \A i \in 0 .. m : h[i] = f[i]
  BY <1>3
<1>6. \A i \in 0 .. n : h[m + i] = g[i]
  <2> SUFFICES ASSUME NEW i \in 0 .. n PROVE h[m + i] = g[i]
    OBVIOUS
  <2>1. m + i \in 0 .. m + n /\ (m + i) - m = i /\ (m + i <= m => i = 0 /\ m + i = m)
    BY <1>3
  <2>2. CASE i = 0
    BY <1>1, <1>2, <1>3, <1>5, <2>1, <2>2
  <2>3. CASE i # 0
    BY <2>1, <2>3
  <2> QED BY <2>2, <2>3
<1> HIDE DEF h
<1>7. ASSUME NEW i \in 1 .. m + n PROVE h[i] = CallStep(h[i - 1], u[i])
  <2>1. CASE i <= m
    <3>1. i \in 1 .. m /\ i \in 0 .. m /\ i - 1 \in 0 .. m
      BY <1>3, <2>1
    <3> QED BY <1>1, <1>4, <1>5, <3>1
  <2>2. CASE ~ (i <= m)
    <3> DEFINE k == i - m
    <3>1. k \in 1 .. n /\ k \in 0 .. n /\ k - 1 \in 0 .. n /\ m + k = i /\ m + (k - 1) = i - 1
      BY <1>3, <2>2
    <3> HIDE DEF k
    <3>2. h[m + k] = g[k] /\ h[m + (k - 1)] = g[k - 1] /\ u[m + k] = t[k]
      BY <1>4, <1>6, <3>1
    <3>3. g[k] = CallStep(g[k - 1], t[k])
      BY <1>2, <3>1
    <3> QED BY <3>1, <3>2, <3>3
  <2> QED BY <2>1, <2>2
<1>8. h[0] = a /\ h[m + n] = c
  BY <1>1, <1>2, <1>3, <1>5, <1>6
<1> QED BY <1>3, <1>7, <1>8 DEF Folds, u

\* The replies a driver can read, and what they leave of it.
Readable(r) ==
  /\ r.cp = "SQLDARD" => r.columns \in Texts
  /\ r.cp = "QRYDSC" => r.fields \in Texts
  /\ r.cp = "QRYDTA" => r.data \in Pairs
  /\ r.cp = "EXTDTA" => r.object \in Nat \X Nat

\* A reply leaves what has been read within its type.
LEMMA StaysReading ==
  ASSUME NEW given \in Readings, NEW r, Readable(r)
  PROVE  CallStep(given, r) \in Readings
<1> DEFINE sets == given.sets
           columns == given.set.columns
           fields == given.set.fields
           data == given.set.data
           extdta == given.set.extdta
           done == IF fields # <<>> THEN Flush(given.sets, given.set) ELSE sets
<1>1. /\ sets \in Seq(SetRecords) /\ columns \in Texts /\ fields \in Texts
      /\ data \in Pairs /\ extdta \in Pairs /\ given = Reading(sets, columns, fields, data, extdta)
  BY ReadingIs
<1>2. done \in Seq(SetRecords)
  <2> DEFINE c == IF columns = <<>> THEN fields ELSE columns
             set == [columns |-> c, fields |-> fields, data |-> data, extdta |-> extdta]
  <2>1. Flush(given.sets, given.set) = IF fields = <<>> \/ data = <<>> THEN sets ELSE Append(sets, set)
    <3> HIDE DEF sets, columns, fields, data, extdta
    <3> QED BY <1>1, FlushIs
  <2>2. set \in SetRecords
    <3>1. c \in Texts
      BY <1>1
    <3> HIDE DEF c, fields, data, extdta, Texts, Pairs
    <3> QED BY <1>1, <3>1 DEF SetRecords
  <2> HIDE DEF set
  <2> QED BY <1>1, <2>1, <2>2, AppendProperties
<1> HIDE DEF sets, columns, fields, data, extdta, done
<1>3. /\ r.cp \notin {"SQLDARD", "QRYDSC", "QRYDTA", "EXTDTA"} => CallStep(given, r) = given
      /\ r.cp = "QRYDTA" =>
           CallStep(given, r) = Reading(sets, columns, fields, data \o r.data, extdta)
      /\ r.cp = "EXTDTA" =>
           CallStep(given, r) = Reading(sets, columns, fields, data, Append(extdta, r.object))
      /\ r.cp = "QRYDSC" =>
           CallStep(given, r) = IF fields # <<>> THEN Reading(done, <<>>, r.fields, <<>>, <<>>)
                               ELSE Reading(done, columns, r.fields, data, extdta)
      /\ r.cp = "SQLDARD" /\ r.columns = <<>> => CallStep(given, r) = given
      /\ r.cp = "SQLDARD" /\ r.columns # <<>> =>
           CallStep(given, r) = IF fields # <<>> THEN Reading(done, r.columns, <<>>, <<>>, <<>>)
                               ELSE Reading(done, r.columns, fields, data, extdta)
  BY <1>1, StepIs DEF done, sets
<1>4. \A x \in Seq(SetRecords) : \A c, f \in Texts : \A d, e \in Pairs : Reading(x, c, f, d, e) \in Readings
  BY ReadingIs
<1>5. CASE r.cp \notin {"SQLDARD", "QRYDSC", "QRYDTA", "EXTDTA"}
  BY <1>3, <1>5
<1>6. CASE r.cp = "QRYDTA"
  <2>1. data \o r.data \in Pairs
    BY <1>1, <1>6, TextsAndPairs DEF Readable
  <2> QED BY <1>1, <1>3, <1>4, <1>6, <2>1
<1>7. CASE r.cp = "EXTDTA"
  <2>1. Append(extdta, r.object) \in Pairs
    BY <1>1, <1>7, TextsAndPairs DEF Readable
  <2> QED BY <1>1, <1>3, <1>4, <1>7, <2>1
<1>8. CASE r.cp = "QRYDSC"
  <2>1. r.fields \in Texts
    BY <1>8 DEF Readable
  <2> QED BY <1>1, <1>2, <1>3, <1>4, <1>8, <2>1, TextsAndPairs
<1>9. CASE r.cp = "SQLDARD"
  <2>1. r.columns \in Texts
    BY <1>9 DEF Readable
  <2> QED BY <1>1, <1>2, <1>3, <1>4, <1>9, <2>1, TextsAndPairs
<1> QED BY <1>5, <1>6, <1>7, <1>8, <1>9

\* That is what the loop of parseCallResultSets makes of the chain.
LEMMA FoldsRead ==
  ASSUME NEW given \in Readings, NEW s, IsChain(s), \A r \in Range(s) : Readable(r),
         NEW out, Folds(given, s, out)
  PROVE  FoldLeft(CallStep, given, s) = out
<1> DEFINE n    == Len(s)
           each == [i \in 1 .. n |-> [v \in Readings |-> CallStep(v, s[i])]]
           Def(g) == g = [t \in SUBSET (1 .. n) |->
                            IF t = {} THEN given ELSE CallStep(g[t \ {Max(t)}], s[Max(t)])]
           iter == CHOOSE g : Def(g)
<1>0. PICK off : /\ off[0] = given /\ out = off[n]
                 /\ \A i \in 1 .. n : off[i] = CallStep(off[i - 1], s[i])
  BY DEF Folds
<1>1. n \in Nat /\ DOMAIN s = 1 .. n /\ \A i \in 1 .. n : Readable(s[i])
  BY ChainIs
<1>2. FoldLeft(CallStep, given, s) = iter[1 .. n]
  BY <1>1 DEF FoldLeft, MapThenFoldSet
<1>3. each \in [1 .. n -> [Readings -> Readings]]
  <2> HIDE DEF n
  <2> QED BY <1>1, StaysReading
<1>4. PICK g \in [SUBSET (1 .. n) -> Readings] : FoldsBy(g, n, given, each)
  <2> HIDE DEF each, n
  <2> QED BY <1>1, <1>3, FoldsExist
<1>5. Def(g)
  <2>1. ASSUME NEW t \in SUBSET (1 .. n), t # {}
        PROVE  each[Max(t)][g[t \ {Max(t)}]] = CallStep(g[t \ {Max(t)}], s[Max(t)])
    <3>1. Max(t) \in 1 .. n
      <4> HIDE DEF n
      <4> QED BY <1>1, <2>1, MaxOf
    <3>2. g[t \ {Max(t)}] \in Readings
      OBVIOUS
    <3> QED BY <3>1, <3>2
  <2> QED BY <2>1, <1>4 DEF FoldsBy
<1>6. Def(iter)
  <2> HIDE DEF Def
  <2> QED BY <1>5
<1> HIDE DEF iter
<1>7. iter[{}] = given
  <2>1. {} \in SUBSET (1 .. n)
    OBVIOUS
  <2> QED BY <1>6, <2>1
<1>8. ASSUME NEW k \in 1 .. n PROVE iter[1 .. k] = CallStep(iter[1 .. k - 1], s[k])
  <2> DEFINE t == 1 .. k
  <2>1. t \in SUBSET (1 .. n) /\ t # {} /\ Max(t) = k /\ t \ {k} = 1 .. k - 1
    BY <1>1, RangeFolds
  <2> HIDE DEF t
  <2>2. iter[t] = CallStep(iter[t \ {Max(t)}], s[Max(t)])
    BY <1>6, <2>1
  <2> QED BY <2>1, <2>2 DEF t
<1> DEFINE Same == {k \in 0 .. n : iter[1 .. k] = off[k]}
<1>9. 0 \in Same
  <2>1. 1 .. 0 = {}
    OBVIOUS
  <2> QED BY <1>0, <1>1, <1>7, <2>1
<1>10. ASSUME NEW k \in 1 .. n, k - 1 \in Same PROVE k \in Same
  <2>1. k \in 0 .. n /\ iter[1 .. k - 1] = off[k - 1]
    BY <1>10
  <2> QED BY <1>0, <1>8, <2>1
<1>11. \A k \in 0 .. n : k \in Same
  <2> HIDE DEF Same, n
  <2> QED BY <1>1, <1>9, <1>10, InductionUpTo
<1>12. n \in 0 .. n
  BY <1>1
<1> QED BY <1>0, <1>2, <1>11, <1>12

-----------------------------------------------------------------------------
\* The rows of a set, one after the other, and its large objects.
LEMMA FoldsRows ==
  ASSUME NEW sets, NEW columns, NEW fields, NEW extdta, NEW i, NEW n \in Nat
  PROVE  Folds(Reading(sets, columns, fields, <<>>, extdta), [k \in 1 .. n |-> QRYDTA(<<<<i, k>>>>)],
               Reading(sets, columns, fields, [k \in 1 .. n |-> <<i, k>>], extdta))
<1> DEFINE s      == [k \in 1 .. n |-> QRYDTA(<<<<i, k>>>>)]
           upto(j) == [k \in 1 .. j |-> <<i, k>>]
           g      == [j \in 0 .. n |-> Reading(sets, columns, fields, upto(j), extdta)]
<1>1. Len(s) = n
  OBVIOUS
<1>2. upto(0) = <<>>
  OBVIOUS
<1>3. ASSUME NEW j \in 1 .. n PROVE g[j] = CallStep(g[j - 1], s[j])
  <2>1. /\ g[j] = Reading(sets, columns, fields, upto(j), extdta)
        /\ g[j - 1] = Reading(sets, columns, fields, upto(j - 1), extdta)
    OBVIOUS
  <2>2. s[j].cp = "QRYDTA" /\ s[j].data = <<<<i, j>>>>
    BY DEF QRYDTA
  <2>3. upto(j) = upto(j - 1) \o <<<<i, j>>>>
    OBVIOUS
  <2> HIDE DEF g, s, upto
  <2>4. CallStep(g[j - 1], s[j]) = Reading(sets, columns, fields, upto(j - 1) \o s[j].data, extdta)
    BY <2>1, <2>2, StepIs
  <2> QED BY <2>1, <2>2, <2>3, <2>4
<1>4. g[0] = Reading(sets, columns, fields, upto(0), extdta) /\ g[n] = Reading(sets, columns, fields, upto(n), extdta)
  OBVIOUS
<1> HIDE DEF g, s
<1>5. Folds(Reading(sets, columns, fields, upto(0), extdta), s, Reading(sets, columns, fields, upto(n), extdta))
  <2> HIDE DEF upto
  <2> QED BY <1>1, <1>3, <1>4 DEF Folds
<1> QED BY <1>2, <1>5 DEF s

\* The large objects of a set, one after the other.
LEMMA FoldsObjects ==
  ASSUME NEW sets, NEW columns, NEW fields, NEW data, NEW i, NEW n \in Nat
  PROVE  Folds(Reading(sets, columns, fields, data, <<>>), [k \in 1 .. n |-> EXTDTA(<<i, k>>)],
               Reading(sets, columns, fields, data, [k \in 1 .. n |-> <<i, k>>]))
<1> DEFINE s      == [k \in 1 .. n |-> EXTDTA(<<i, k>>)]
           upto(j) == [k \in 1 .. j |-> <<i, k>>]
           g      == [j \in 0 .. n |-> Reading(sets, columns, fields, data, upto(j))]
<1>1. Len(s) = n
  OBVIOUS
<1>2. upto(0) = <<>>
  OBVIOUS
<1>3. ASSUME NEW j \in 1 .. n PROVE g[j] = CallStep(g[j - 1], s[j])
  <2>1. /\ g[j] = Reading(sets, columns, fields, data, upto(j))
        /\ g[j - 1] = Reading(sets, columns, fields, data, upto(j - 1))
    OBVIOUS
  <2>2. s[j].cp = "EXTDTA" /\ s[j].object = <<i, j>>
    BY DEF EXTDTA
  <2>3. upto(j) = Append(upto(j - 1), <<i, j>>)
    OBVIOUS
  <2> HIDE DEF g, s, upto
  <2>4. CallStep(g[j - 1], s[j]) = Reading(sets, columns, fields, data, Append(upto(j - 1), s[j].object))
    BY <2>1, <2>2, StepIs
  <2> QED BY <2>1, <2>2, <2>3, <2>4
<1>4. g[0] = Reading(sets, columns, fields, data, upto(0)) /\ g[n] = Reading(sets, columns, fields, data, upto(n))
  OBVIOUS
<1> HIDE DEF g, s
<1>5. Folds(Reading(sets, columns, fields, data, upto(0)), s, Reading(sets, columns, fields, data, upto(n)))
  <2> HIDE DEF upto
  <2> QED BY <1>1, <1>3, <1>4 DEF Folds
<1> QED BY <1>2, <1>5 DEF s

\* The replies of result sets.
SetReply ==
  {Message("OPNQRYRM")}
    \cup {SQLDARD(<<"column", i>>, "ok") : i \in Nat} \cup {QRYDSC(<<"field", i>>) : i \in Nat}
    \cup {QRYDTA(<<pair>>) : pair \in Nat \X Nat} \cup {EXTDTA(pair) : pair \in Nat \X Nat}

\* What a result set may be told with, and that it tells of no failure.
LEMMA SetRepliesHas ==
  ASSUME NEW i \in Nat, NEW k \in Nat
  PROVE  QRYDTA(<<<<i, k>>>>) \in SetReply /\ EXTDTA(<<i, k>>) \in SetReply
<1> DEFINE pair == <<i, k>>
<1>1. pair \in Nat \X Nat
  OBVIOUS
<1> HIDE DEF pair
<1>2. QRYDTA(<<pair>>) \in SetReply /\ EXTDTA(pair) \in SetReply
  BY <1>1 DEF SetReply
<1> QED BY <1>2 DEF pair

LEMMA SetRepliesAre ==
  ASSUME NEW r \in SetReply
  PROVE  Readable(r) /\ ~ ReplyFails(r) /\ ~ DescriptorFails(r) /\ ~ HasValues(r)
<1>1. CASE r = Message("OPNQRYRM")
  BY <1>1 DEF Message, Readable, ReplyFails, CardFails, DescriptorFails, HasValues
<1>2. ASSUME NEW i \in Nat, r = SQLDARD(<<"column", i>>, "ok")
      PROVE  Readable(r) /\ ~ ReplyFails(r) /\ ~ DescriptorFails(r) /\ ~ HasValues(r)
  <2>1. <<"column", i>> \in Texts
    BY TextsAndPairs
  <2>2. r.cp = "SQLDARD" /\ r.sqlca = "ok" /\ r.columns \in Texts
    BY <1>2, <2>1 DEF SQLDARD
  <2> QED BY <2>2 DEF Readable, ReplyFails, CardFails, DescriptorFails, HasValues
<1>3. ASSUME NEW i \in Nat, r = QRYDSC(<<"field", i>>)
      PROVE  Readable(r) /\ ~ ReplyFails(r) /\ ~ DescriptorFails(r) /\ ~ HasValues(r)
  <2>1. <<"field", i>> \in Texts
    BY TextsAndPairs
  <2>2. r.cp = "QRYDSC" /\ r.fields \in Texts
    BY <1>3, <2>1 DEF QRYDSC
  <2> QED BY <2>2 DEF Readable, ReplyFails, CardFails, DescriptorFails, HasValues
<1> DEFINE P == Nat \X Nat
<1>4. ASSUME NEW pair \in P, r = QRYDTA(<<pair>>)
      PROVE  Readable(r) /\ ~ ReplyFails(r) /\ ~ DescriptorFails(r) /\ ~ HasValues(r)
  <2> HIDE DEF P
  <2>1. <<pair>> \in Seq(P)
    OBVIOUS
  <2>2. r.cp = "QRYDTA" /\ r.data \in Pairs
    BY <1>4, <2>1 DEF QRYDTA, Pairs, P
  <2> QED BY <2>2 DEF Readable, ReplyFails, CardFails, DescriptorFails, HasValues
<1>5. ASSUME NEW pair \in P, r = EXTDTA(pair)
      PROVE  Readable(r) /\ ~ ReplyFails(r) /\ ~ DescriptorFails(r) /\ ~ HasValues(r)
  <2> HIDE DEF P
  <2>1. r.cp = "EXTDTA" /\ r.object \in P
    BY <1>5 DEF EXTDTA
  <2>2. ~ ReplyFails(r) /\ ~ DescriptorFails(r) /\ ~ HasValues(r)
    BY <2>1 DEF ReplyFails, CardFails, DescriptorFails, HasValues
  <2>3. Readable(r)
    BY <2>1 DEF Readable, P
  <2> QED BY <2>2, <2>3
<1> QED BY <1>1, <1>2, <1>3, <1>4, <1>5 DEF SetReply

\* What has been read is all that was told so far, once the open set is flushed.
Ready(given, told, described) ==
  /\ given \in Readings /\ Flush(given.sets, given.set) = told
  /\ given.set.fields = <<>> =>
       /\ given.sets = told /\ given.set.data = <<>> /\ given.set.extdta = <<>>
       /\ described \/ given.set.columns = <<>>

\* The parts of the replies of a set.
Opening(i, described) ==
  <<Message("OPNQRYRM")>> \o (IF described THEN <<SQLDARD(<<"column", i>>, "ok")>> ELSE <<>>)
    \o <<QRYDSC(<<"field", i>>)>>

\* The opening of a set flushes the one before.
LEMMA FoldsOpening ==
  ASSUME NEW i \in Nat, NEW described \in BOOLEAN, NEW told, NEW given, Ready(given, told, described)
  PROVE  /\ IsChain(Opening(i, described)) /\ Range(Opening(i, described)) \subseteq SetReply
         /\ Folds(given, Opening(i, described),
                  Reading(told, IF described THEN <<"column", i>> ELSE <<>>, <<"field", i>>, <<>>, <<>>))
<1> DEFINE a == Message("OPNQRYRM")
           d == SQLDARD(<<"column", i>>, "ok")
           q == QRYDSC(<<"field", i>>)
           sets == given.sets
           columns == given.set.columns
           fields == given.set.fields
           data == given.set.data
           extdta == given.set.extdta
<1>1. /\ a.cp = "OPNQRYRM" /\ d.cp = "SQLDARD" /\ d.columns = <<"column", i>> /\ d.columns # <<>>
      /\ q.cp = "QRYDSC" /\ q.fields = <<"field", i>> /\ q.fields # <<>>
  BY DEF Message, SQLDARD, QRYDSC
<1>2. a \in SetReply /\ d \in SetReply /\ q \in SetReply
  BY DEF SetReply
<1>3. /\ given = Reading(sets, columns, fields, data, extdta)
      /\ Flush(given.sets, given.set) = told
      /\ fields = <<>> => sets = told /\ data = <<>> /\ extdta = <<>> /\ (described \/ columns = <<>>)
  BY ReadingIs DEF Ready
<1> HIDE DEF a, d, q, sets, columns, fields, data, extdta
<1> DEFINE done == IF fields # <<>> THEN Flush(given.sets, given.set) ELSE sets
<1>4. done = told
  BY <1>3
<1> HIDE DEF done
<1>5. CallStep(given, a) = given
  BY <1>1, <1>3, StepIs
<1>6. CallStep(given, d) = Reading(told, <<"column", i>>, <<>>, <<>>, <<>>)
  <2>1. CallStep(given, d) = IF fields # <<>> THEN Reading(done, d.columns, <<>>, <<>>, <<>>)
                            ELSE Reading(done, d.columns, fields, data, extdta)
    BY <1>1, <1>3, StepIs DEF done
  <2> QED BY <1>1, <1>3, <1>4, <2>1
<1>7. CallStep(Reading(told, <<"column", i>>, <<>>, <<>>, <<>>), q)
        = Reading(told, <<"column", i>>, <<"field", i>>, <<>>, <<>>)
  BY <1>1, StepIs
<1>8. ~ described => CallStep(given, q) = Reading(told, <<>>, <<"field", i>>, <<>>, <<>>)
  <2>1. CallStep(given, q) = IF fields # <<>> THEN Reading(done, <<>>, q.fields, <<>>, <<>>)
                            ELSE Reading(done, columns, q.fields, data, extdta)
    BY <1>1, <1>3, StepIs DEF done
  <2> QED BY <1>1, <1>3, <1>4, <2>1
<1> DEFINE out == Reading(told, IF described THEN <<"column", i>> ELSE <<>>, <<"field", i>>, <<>>, <<>>)
           middle == IF described THEN <<d>> ELSE <<>>
           all == (<<a>> \o middle) \o <<q>>
           between == IF described THEN CallStep(given, d) ELSE given
<1>9. /\ IsChain(<<a>>) /\ IsChain(middle) /\ IsChain(<<q>>)
      /\ Range(<<a>>) = {a} /\ Range(middle) \subseteq {d} /\ Range(<<q>>) = {q}
  BY ChainNone, ChainOne
<1>10. Folds(given, <<a>>, given)
  BY <1>5, FoldsOne
<1>11. Folds(given, middle, between)
  BY FoldsNone, FoldsOne
<1>12. CallStep(between, q) = out
  BY <1>6, <1>7, <1>8
<1>13. Folds(between, <<q>>, out)
  <2> HIDE DEF between, out
  <2> QED BY <1>12, FoldsOne
<1> HIDE DEF middle, between, out
<1>14. IsChain(<<a>> \o middle) /\ Range(<<a>> \o middle) = {a} \cup Range(middle)
  BY <1>9, ChainJoin
<1>15. IsChain(all) /\ Range(all) \subseteq SetReply
  BY <1>2, <1>9, <1>14, ChainJoin
<1>16. Folds(given, <<a>> \o middle, between)
  BY <1>9, <1>10, <1>11, FoldsJoin
<1>17. Folds(given, all, out)
  BY <1>9, <1>13, <1>14, <1>16, FoldsJoin
<1>18. all = Opening(i, described)
  BY DEF Opening, all, middle, a, d, q
<1> HIDE DEF all
<1> QED BY <1>15, <1>17, <1>18 DEF out

\* A result set of any size.
AnySet == [rows : Nat, objects : Nat]

\* A whole set, behind those told before.
LEMMA OneSet ==
  ASSUME NEW i \in Nat, NEW set \in AnySet, NEW described \in BOOLEAN,
         NEW told \in Seq(SetRecords), NEW given, Ready(given, told, described)
  PROVE  /\ SetTold(i, set, described) \in SetRecords
         /\ IsChain(SetReplies(i, set, described)) /\ Range(SetReplies(i, set, described)) \subseteq SetReply
         /\ \E out : /\ Folds(given, SetReplies(i, set, described), out)
                     /\ Ready(out, told \o (IF set.rows = 0 THEN <<>> ELSE <<SetTold(i, set, described)>>),
                              described)
<1> DEFINE n == set.rows
           m == IF n = 0 THEN 0 ELSE set.objects
           columns == IF described THEN <<"column", i>> ELSE <<>>
           fields == <<"field", i>>
           data == [k \in 1 .. n |-> <<i, k>>]
           extdta == [k \in 1 .. m |-> <<i, k>>]
           rows == [k \in 1 .. n |-> QRYDTA(<<<<i, k>>>>)]
           objects == [k \in 1 .. m |-> EXTDTA(<<i, k>>)]
           out == Reading(told, columns, fields, data, extdta)
           all == SetReplies(i, set, described)
<1>1. n \in Nat /\ m \in Nat /\ set.objects \in Nat
  BY DEF AnySet
<1>2. all = (Opening(i, described) \o rows) \o objects
  BY DEF SetReplies, Opening
<1>3. IsChain(rows) /\ Range(rows) \subseteq SetReply
  <2>1. rows \in Seq(SetReply)
    <3>1. \A k \in 1 .. n : QRYDTA(<<<<i, k>>>>) \in SetReply
      BY <1>1, SetRepliesHas
    <3> HIDE DEF n
    <3> QED BY <1>1, <3>1
  <2> HIDE DEF rows
  <2> QED BY <2>1, ChainOf
<1>4. IsChain(objects) /\ Range(objects) \subseteq SetReply
  <2>1. objects \in Seq(SetReply)
    <3>1. \A k \in 1 .. m : EXTDTA(<<i, k>>) \in SetReply
      <4> HIDE DEF m
      <4> SUFFICES ASSUME NEW k \in 1 .. m PROVE EXTDTA(<<i, k>>) \in SetReply
        OBVIOUS
      <4>1. k \in Nat
        BY <1>1
      <4> QED BY <4>1, SetRepliesHas
    <3> HIDE DEF m
    <3> QED BY <1>1, <3>1
  <2> HIDE DEF objects
  <2> QED BY <2>1, ChainOf
<1>5. data \in Pairs /\ extdta \in Pairs /\ [k \in 1 .. set.objects |-> <<i, k>>] \in Pairs
  <2>1. \A x \in Nat : [k \in 1 .. x |-> <<i, k>>] \in Pairs
    BY DEF Pairs
  <2> QED BY <1>1, <2>1
<1>6. columns \in Texts /\ fields \in Texts /\ (IF described THEN <<"column", i>> ELSE <<"field", i>>) \in Texts
  BY TextsAndPairs
<1>7. SetTold(i, set, described) \in SetRecords
  <2> DEFINE c == IF described THEN <<"column", i>> ELSE <<"field", i>>
             x == [k \in 1 .. set.objects |-> <<i, k>>]
  <2>1. SetTold(i, set, described) = [columns |-> c, fields |-> fields, data |-> data, extdta |-> x]
    BY DEF SetTold
  <2> HIDE DEF c, x, fields, data, Texts, Pairs
  <2> QED BY <1>5, <1>6, <2>1 DEF SetRecords, c, x
<1> HIDE DEF all, rows, objects
<1> DEFINE start == Reading(told, columns, fields, <<>>, <<>>)
           middle == Reading(told, columns, fields, data, <<>>)
<1>8. /\ IsChain(Opening(i, described)) /\ Range(Opening(i, described)) \subseteq SetReply
      /\ Folds(given, Opening(i, described), start)
  BY FoldsOpening
<1>9. Folds(start, rows, middle)
  BY <1>1, FoldsRows DEF rows
<1>10. Folds(middle, objects, out)
  <2> HIDE DEF data, columns, fields, m
  <2> QED BY <1>1, FoldsObjects DEF objects
<1>11. Ready(out, told \o (IF n = 0 THEN <<>> ELSE <<SetTold(i, set, described)>>), described)
  <2>1. out \in Readings
    <3> HIDE DEF data, columns, fields, extdta
    <3> QED BY <1>5, <1>6, ReadingIs
  <2>2. fields # <<>> /\ (data = <<>> <=> n = 0)
    BY <1>1
  <2>3. out.set.fields = fields /\ out.sets = told
    BY DEF Reading
  <2>4. Flush(out.sets, out.set) =
          IF data = <<>> THEN told
          ELSE Append(told, [columns |-> IF columns = <<>> THEN fields ELSE columns,
                             fields |-> fields, data |-> data, extdta |-> extdta])
    <3> HIDE DEF columns, fields, data, extdta
    <3> QED BY <2>2, FlushIs
  <2>5. n # 0 => SetTold(i, set, described) = [columns |-> IF columns = <<>> THEN fields ELSE columns,
                                               fields |-> fields, data |-> data, extdta |-> extdta]
    BY DEF SetTold
  <2> HIDE DEF out, columns, fields, data, extdta
  <2>6. CASE n = 0
    <3>1. told \o <<>> = told
      BY ConcatEmptySeq
    <3> HIDE DEF n
    <3> QED BY <2>1, <2>2, <2>3, <2>4, <2>6, <3>1 DEF Ready
  <2>7. CASE n # 0
    <3> DEFINE x == SetTold(i, set, described)
    <3>1. x \in SetRecords
      BY <1>7
    <3> HIDE DEF x, n, SetRecords
    <3>2. told \o <<x>> = Append(told, x)
      BY <3>1, AppendIsConcat
    <3>3. Flush(out.sets, out.set) = Append(told, x)
      BY <2>2, <2>4, <2>5, <2>7 DEF x
    <3> QED BY <2>1, <2>2, <2>3, <2>7, <3>2, <3>3 DEF Ready, x
  <2> QED BY <2>6, <2>7
<1> HIDE DEF start, middle, out
<1>12. /\ IsChain(Opening(i, described) \o rows)
       /\ Range(Opening(i, described) \o rows) \subseteq SetReply
       /\ Folds(given, Opening(i, described) \o rows, middle)
  BY <1>3, <1>8, <1>9, ChainJoin, FoldsJoin
<1>13. IsChain(all) /\ Range(all) \subseteq SetReply /\ Folds(given, all, out)
  BY <1>2, <1>4, <1>10, <1>12, ChainJoin, FoldsJoin
<1> QED BY <1>7, <1>11, <1>13 DEF all

\* All sets, by the prefixes they are told in.
LEMMA SetsRead ==
  ASSUME NEW n \in Nat, NEW sets \in [1 .. n -> AnySet], NEW described \in BOOLEAN,
         NEW given, Ready(given, <<>>, described)
  PROVE  LET result == FlattenSeq([i \in DOMAIN sets |-> SetReplies(i, sets[i], described)])
         IN  /\ IsChain(result) /\ Range(result) \subseteq SetReply
             /\ \E out : Folds(given, result, out) /\ Ready(out, Told(sets, described), described)
<1> DEFINE S        == SetReply
           V        == SetRecords
           Piece(i) == SetReplies(i, sets[i], described)
           Part(i)  == IF sets[i].rows = 0 THEN <<>> ELSE <<SetTold(i, sets[i], described)>>
           pieces   == [i \in DOMAIN sets |-> Piece(i)]
           parts    == [i \in DOMAIN sets |-> Part(i)]
<1>0. DOMAIN sets = 1 .. n /\ \A i \in 1 .. n : i \in Nat /\ sets[i] \in AnySet
  OBVIOUS
<1>1. ASSUME NEW i \in 1 .. n
      PROVE  Piece(i) \in Seq(S) /\ IsChain(Piece(i)) /\ Part(i) \in Seq(V)
  <2>1. i \in Nat /\ sets[i] \in AnySet
    BY <1>0
  <2>2. <<>> \in Seq(SetRecords)
    OBVIOUS
  <2>3. /\ SetTold(i, sets[i], described) \in SetRecords
        /\ IsChain(Piece(i)) /\ Range(Piece(i)) \subseteq S
    BY <2>1, <2>2, OneSet
  <2> DEFINE x == SetTold(i, sets[i], described)
             p == Piece(i)
  <2> HIDE DEF x, p, S, V
  <2>4. p \in Seq(S)
    <3>1. p \in Seq(Range(p))
      BY <2>3 DEF IsChain, p
    <3> QED BY <2>3, <3>1, SeqMonotonic DEF p
  <2>5. x \in V
    BY <2>3 DEF x, V
  <2>6. <<>> \in Seq(V) /\ <<x>> \in Seq(V)
    BY <2>5
  <2> QED BY <2>3, <2>4, <2>6 DEF x, p
<1> HIDE DEF Piece, Part, S, V
<1>2. pieces \in Seq(Seq(S)) /\ Len(pieces) = n /\ \A i \in 1 .. n : pieces[i] = Piece(i)
  BY <1>0, <1>1
<1>3. parts \in Seq(Seq(V)) /\ Len(parts) = n /\ \A i \in 1 .. n : parts[i] = Part(i)
  BY <1>0, <1>1
<1> HIDE DEF pieces, parts
<1>4. PICK run \in [0 .. Len(pieces) -> Seq(S)] :
         /\ run[0] = <<>> /\ (\A i \in 1 .. Len(pieces) : run[i] = run[i - 1] \o pieces[i])
         /\ FlattenSeq(pieces) = run[Len(pieces)]
  BY <1>2, FlattenRuns
<1>5. PICK told \in [0 .. Len(parts) -> Seq(V)] :
         /\ told[0] = <<>> /\ (\A i \in 1 .. Len(parts) : told[i] = told[i - 1] \o parts[i])
         /\ FlattenSeq(parts) = told[Len(parts)]
  BY <1>3, FlattenRuns
<1> DEFINE Good == {i \in 0 .. n : \E out : Folds(given, run[i], out) /\ Ready(out, told[i], described)}
<1>6. 0 \in Good
  <2>1. Folds(given, <<>>, given)
    BY FoldsNone
  <2> QED BY <1>4, <1>5, <2>1
<1>7. ASSUME NEW i \in 1 .. n, i - 1 \in Good PROVE i \in Good
  <2>1. PICK out : Folds(given, run[i - 1], out) /\ Ready(out, told[i - 1], described)
    BY <1>7
  <2>2. i - 1 \in 0 .. n /\ i \in 0 .. n /\ i \in Nat
    OBVIOUS
  <2>3. run[i] = run[i - 1] \o Piece(i) /\ run[i - 1] \in Seq(S)
    BY <1>2, <1>4, <2>2
  <2>4. told[i] = told[i - 1] \o Part(i) /\ told[i - 1] \in Seq(V)
    BY <1>3, <1>5, <2>2
  <2>5. PICK after : Folds(out, Piece(i), after) /\ Ready(after, told[i - 1] \o Part(i), described)
    <3>1. told[i - 1] \in Seq(SetRecords) /\ sets[i] \in AnySet
      BY <1>0, <2>4 DEF V
    <3> QED BY <2>1, <2>2, <3>1, OneSet DEF Piece, Part
  <2>6. IsChain(run[i - 1]) /\ IsChain(Piece(i))
    <3> DEFINE r == run[i - 1]
    <3>1. r \in Seq(S)
      BY <2>3
    <3> HIDE DEF r
    <3>2. IsChain(r)
      BY <3>1, ChainOf
    <3> QED BY <1>1, <3>2 DEF r
  <2>7. Folds(given, run[i], after)
    BY <2>1, <2>3, <2>5, <2>6, FoldsJoin
  <2>8. Ready(after, told[i], described)
    BY <2>4, <2>5
  <2> QED BY <2>2, <2>7, <2>8
<1>8. n \in Good
  <2> HIDE DEF Good
  <2>1. n \in 0 .. n
    OBVIOUS
  <2> QED BY <1>6, <1>7, <2>1, InductionUpTo
<1> DEFINE all == FlattenSeq(pieces)
<1>9. all \in Seq(S) /\ all = run[n] /\ Told(sets, described) = told[n]
  <2>1. n \in 0 .. n
    OBVIOUS
  <2> QED BY <1>2, <1>3, <1>4, <1>5, <2>1 DEF Told, parts, Part
<1>10. IsChain(all) /\ Range(all) \subseteq S
  <2> HIDE DEF all
  <2> QED BY <1>9, ChainOf
<1>11. PICK out : Folds(given, all, out) /\ Ready(out, Told(sets, described), described)
  BY <1>8, <1>9
<1> QED BY <1>10, <1>11 DEF pieces, Piece, S

\* Nothing has been read yet.
LEMMA StartIsReady ==
  ASSUME NEW described \in BOOLEAN
  PROVE  Ready(Reading(<<>>, <<>>, <<>>, <<>>, <<>>), <<>>, described)
<1> DEFINE start == Reading(<<>>, <<>>, <<>>, <<>>, <<>>)
<1>1. start \in Readings
  <2>1. <<>> \in Seq(SetRecords) /\ <<>> \in Texts /\ <<>> \in Pairs
    BY TextsAndPairs
  <2>2. \A x \in Seq(SetRecords) : \A c, f \in Texts : \A d, e \in Pairs : Reading(x, c, f, d, e) \in Readings
    BY ReadingIs
  <2> QED BY <2>1, <2>2
<1>2. Flush(start.sets, start.set) = <<>>
  BY DEF Reading, Flush
<1>3. start.sets = <<>> /\ start.set.data = <<>> /\ start.set.extdta = <<>> /\ start.set.columns = <<>>
  BY DEF Reading
<1> HIDE DEF start
<1>4. Ready(start, <<>>, described)
  BY <1>1, <1>2, <1>3 DEF Ready
<1> QED BY <1>4 DEF start

\* A CALL that is done, as a chain: the descriptor of its parameters if there is
\* one, its values, its sets and the last card.
Called(sets, described, out, pre) ==
  LET result == FlattenSeq([i \in DOMAIN sets |-> SetReplies(i, sets[i], described)])
      values == IF out = <<>> THEN <<>> ELSE <<SQLDTARD(out)>>
  IN  ((pre \o values) \o result) \o <<NullCard>>

\* What is read of it, first by the loop and then of its OUT values.
LEMMA CalledIsRead ==
  ASSUME NEW n \in Nat, NEW sets \in [1 .. n -> AnySet], NEW described \in BOOLEAN, NEW out,
         NEW pre, pre = <<>> \/ (described /\ pre = <<SQLDARD(<<"p">>, "ok")>>)
  PROVE  /\ ~ AnyOf(Called(sets, described, out, pre), ReplyFails)
         /\ ~ AnyOf(Called(sets, described, out, pre), DescriptorFails)
         /\ OutValues(Called(sets, described, out, pre)) = out
         /\ LET read == FoldLeft(CallStep, [sets |-> <<>>, set |-> NoSet],
                                 Called(sets, described, out, pre))
            IN  Flush(read.sets, read.set) = Told(sets, described)
<1> DEFINE p      == SQLDARD(<<"p">>, "ok")
           v      == SQLDTARD(out)
           values == IF out = <<>> THEN <<>> ELSE <<v>>
           result == FlattenSeq([i \in DOMAIN sets |-> SetReplies(i, sets[i], described)])
           last   == <<NullCard>>
           all    == ((pre \o values) \o result) \o last
           start  == Reading(<<>>, <<>>, <<>>, <<>>, <<>>)
           named  == Reading(<<>>, <<"p">>, <<>>, <<>>, <<>>)
           begun  == IF pre = <<>> THEN start ELSE named
<1>1. start = [sets |-> <<>>, set |-> NoSet]
  BY DEF Reading, NoSet
<1>2. p.cp = "SQLDARD" /\ p.columns = <<"p">> /\ p.sqlca = "ok" /\ <<"p">> # <<>> /\ <<"p">> \in Texts
  BY DEF SQLDARD, Texts
<1>3. v.cp = "SQLDTARD" /\ v.values = out /\ NullCard.cp = "SQLCARD" /\ NullCard.code = 0
  BY DEF SQLDTARD, NullCard, SQLCARD
<1>4. /\ Readable(p) /\ ~ ReplyFails(p) /\ ~ DescriptorFails(p) /\ ~ HasValues(p)
      /\ Readable(v) /\ ~ ReplyFails(v) /\ ~ DescriptorFails(v) /\ (HasValues(v) <=> out # <<>>)
      /\ Readable(NullCard) /\ ~ ReplyFails(NullCard) /\ ~ DescriptorFails(NullCard) /\ ~ HasValues(NullCard)
  <2> HIDE DEF p, v
  <2> QED BY <1>2, <1>3 DEF Readable, ReplyFails, CardFails, Unreadable, DescriptorFails, HasValues
<1> HIDE DEF p, v
<1>5. start \in Readings /\ named \in Readings
  <2>1. <<>> \in Seq(SetRecords) /\ <<>> \in Texts /\ <<>> \in Pairs
    BY TextsAndPairs
  <2>2. \A x \in Seq(SetRecords) : \A c, f \in Texts : \A d, e \in Pairs : Reading(x, c, f, d, e) \in Readings
    BY ReadingIs
  <2> QED BY <1>2, <2>1, <2>2
<1>6. Ready(start, <<>>, described) /\ (described => Ready(named, <<>>, described))
  <2>1. Flush(start.sets, start.set) = <<>> /\ Flush(named.sets, named.set) = <<>>
    BY DEF Reading, Flush
  <2>2. /\ start.sets = <<>> /\ start.set.data = <<>> /\ start.set.extdta = <<>> /\ start.set.columns = <<>>
        /\ named.sets = <<>> /\ named.set.data = <<>> /\ named.set.extdta = <<>>
    BY DEF Reading
  <2> HIDE DEF start, named
  <2> QED BY <1>5, <2>1, <2>2 DEF Ready
<1>7. CallStep(start, p) = named
  BY <1>2, StepIs
<1>8. IsChain(pre) /\ Range(pre) \subseteq {p} /\ Folds(start, pre, begun)
  <2>1. CASE pre = <<>>
    <3>1. Folds(start, <<>>, start)
      BY FoldsNone
    <3> QED BY <2>1, <3>1, ChainNone
  <2>2. CASE pre = <<p>> /\ pre # <<>>
    <3>1. Folds(start, <<p>>, CallStep(start, p))
      BY FoldsOne
    <3>2. IsChain(<<p>>) /\ Range(<<p>>) = {p}
      BY ChainOne
    <3> QED BY <1>7, <2>2, <3>1, <3>2
  <2>3. <<p>> # <<>>
    OBVIOUS
  <2> QED BY <2>1, <2>2, <2>3 DEF p
<1>9. Ready(begun, <<>>, described)
  BY <1>6
<1>10. ASSUME NEW c \in Readings PROVE CallStep(c, v) = c /\ CallStep(c, NullCard) = c
  <2>1. c = Reading(c.sets, c.set.columns, c.set.fields, c.set.data, c.set.extdta)
    BY ReadingIs
  <2> QED BY <1>3, <2>1, StepIs
<1>11. IsChain(values) /\ Range(values) \subseteq {v} /\ (out # <<>> => v \in Range(values)) /\ Folds(begun, values, begun)
  <2>1. Folds(begun, <<>>, begun)
    BY FoldsNone
  <2>2. Folds(begun, <<v>>, CallStep(begun, v))
    BY FoldsOne
  <2>3. IsChain(<<v>>) /\ Range(<<v>>) = {v}
    BY ChainOne
  <2>4. CallStep(begun, v) = begun
    BY <1>5, <1>10
  <2> QED BY <2>1, <2>2, <2>3, <2>4, ChainNone
<1> HIDE DEF begun
<1>12. PICK read : /\ IsChain(result) /\ Range(result) \subseteq SetReply
                   /\ Folds(begun, result, read) /\ Ready(read, Told(sets, described), described)
  BY <1>9, SetsRead
<1>13. IsChain(last) /\ Range(last) = {NullCard} /\ Folds(read, last, read)
  <2>1. CallStep(read, NullCard) = read
    BY <1>10, <1>12 DEF Ready
  <2>2. Folds(read, last, CallStep(read, NullCard))
    BY FoldsOne
  <2> QED BY <2>1, <2>2, ChainOne
<1> HIDE DEF values, result, last, start
<1>14. /\ IsChain(pre \o values) /\ Range(pre \o values) = Range(pre) \cup Range(values)
       /\ Folds(start, pre \o values, begun)
  BY <1>8, <1>11, ChainJoin, FoldsJoin
<1>15. /\ IsChain((pre \o values) \o result)
       /\ Range((pre \o values) \o result) = Range(pre) \cup Range(values) \cup Range(result)
       /\ Folds(start, (pre \o values) \o result, read)
  BY <1>12, <1>14, ChainJoin, FoldsJoin
<1>16. /\ IsChain(all) /\ Range(all) = Range(pre) \cup Range(values) \cup Range(result) \cup Range(last)
       /\ Folds(start, all, read)
  BY <1>13, <1>15, ChainJoin, FoldsJoin
<1>17. all = Called(sets, described, out, pre)
  BY DEF Called, values, result, last, v
<1> HIDE DEF all
<1>18. \A r \in Range(all) : r \in SetReply \/ r = p \/ r = v \/ r = NullCard
  BY <1>8, <1>11, <1>12, <1>13, <1>16
<1>19. \A r \in Range(all) : Readable(r) /\ ~ ReplyFails(r) /\ ~ DescriptorFails(r)
  BY <1>4, <1>18, SetRepliesAre
<1>20. ~ AnyOf(all, ReplyFails) /\ ~ AnyOf(all, DescriptorFails)
  BY <1>16, <1>19, AnyIn
<1>21. OutValues(all) = out
  <2>1. \A r \in Range(all) : HasValues(r) => r.values = out
    BY <1>3, <1>4, <1>18, SetRepliesAre
  <2>2. (\E r \in Range(all) : HasValues(r)) \/ out = <<>>
    BY <1>4, <1>11, <1>16
  <2> QED BY <1>16, <2>1, <2>2, OutIs
<1>22. FoldLeft(CallStep, start, all) = read
  BY <1>5, <1>16, <1>19, FoldsRead DEF start
<1>23. Flush(read.sets, read.set) = Told(sets, described)
  BY <1>12 DEF Ready
<1> QED BY <1>1, <1>17, <1>20, <1>21, <1>22, <1>23

\* A CALL returns the sets and the OUT values the server sent.
LEMMA CallTells ==
  ASSUME NEW twice, NEW outs, NEW answer \in CallAnswers(twice, outs)
  PROVE  Truthful("call", answer.truth, ResultOf("call", answer.first \o answer.second))
<1> DEFINE all    == answer.first \o answer.second
           fold   == FoldLeft(CallStep, [sets |-> <<>>, set |-> NoSet], all)
           result == ResultOf("call", all)
<1>1. result = [ok |-> ~ AnyOf(all, ReplyFails) /\ ~ AnyOf(all, DescriptorFails),
                sets |-> Flush(fold.sets, fold.set), out |-> OutValues(all)]
  BY DEF ResultOf, ReadCall
<1> HIDE DEF result, fold, all
<1>2. /\ result.ok = (~ AnyOf(all, ReplyFails) /\ ~ AnyOf(all, DescriptorFails))
      /\ result.sets = Flush(fold.sets, fold.set) /\ result.out = OutValues(all)
      /\ "out" \in DOMAIN result
  BY ONLY <1>1
<1>3. ASSUME NEW n \in Nat, NEW sets \in [1 .. n -> AnySet], NEW described \in BOOLEAN, NEW out,
             answer = CallDone(sets, described, out, twice)
      PROVE  Truthful("call", answer.truth, result)
  <2> DEFINE flat   == FlattenSeq([i \in DOMAIN sets |-> SetReplies(i, sets[i], described)])
             values == IF out = <<>> THEN <<>> ELSE <<SQLDTARD(out)>>
             pre    == IF described /\ twice THEN <<SQLDARD(<<"p">>, "ok")>> ELSE <<>>
             rest   == (values \o flat) \o <<NullCard>>
  <2>1. answer.truth = [failed |-> "no", sets |-> Told(sets, described), out |-> out]
    BY <1>3 DEF CallDone, Answer
  <2>2. \/ answer.first = pre /\ answer.second = rest
        \/ answer.first = rest /\ answer.second = <<>> /\ pre = <<>>
    BY <1>3 DEF CallDone, Answer
  <2>3. IsChain(pre) /\ IsChain(values) /\ IsChain(<<NullCard>>)
    BY ChainNone, ChainOne
  <2>4. IsChain(flat)
    <3> DEFINE start == Reading(<<>>, <<>>, <<>>, <<>>, <<>>)
    <3>1. Ready(start, <<>>, described)
      BY StartIsReady
    <3> HIDE DEF start, flat
    <3> QED BY <3>1, SetsRead DEF flat
  <2>5. pre = <<>> \/ (described /\ pre = <<SQLDARD(<<"p">>, "ok")>>)
    OBVIOUS
  <2>6. Called(sets, described, out, pre) = ((pre \o values) \o flat) \o <<NullCard>>
    BY DEF Called
  <2> HIDE DEF flat, values, pre
  <2>7. IsChain(values \o flat) /\ IsChain(rest) /\ IsChain(pre \o values)
    BY <2>3, <2>4, ChainJoin
  <2>8. pre \o rest = Called(sets, described, out, pre)
    <3>1. pre \o rest = (pre \o (values \o flat)) \o <<NullCard>>
      BY <2>3, <2>7, ChainRegroup, SMTT(60)
    <3>2. pre \o (values \o flat) = (pre \o values) \o flat
      BY <2>3, <2>4, ChainRegroup, SMTT(60)
    <3> QED BY <2>6, <3>1, <3>2
  <2>9. all = Called(sets, described, out, pre)
    <3>1. <<>> \o rest = rest /\ rest \o <<>> = rest
      BY <2>7, ChainAlone
    <3> QED BY <2>2, <2>8, <3>1 DEF all
  <2>10. /\ ~ AnyOf(all, ReplyFails) /\ ~ AnyOf(all, DescriptorFails)
         /\ OutValues(all) = out /\ Flush(fold.sets, fold.set) = Told(sets, described)
    BY <2>5, <2>9, CalledIsRead DEF fold
  <2>11. answer.truth.failed = "no" /\ answer.truth.sets = Told(sets, described) /\ answer.truth.out = out
    BY <2>1
  <2>12. result.ok
    BY <1>2, <2>10
  <2> QED BY <1>2, <2>10, <2>11, <2>12, CallTold
<1>4. ASSUME NEW how \in DOMAIN Faults, NEW fault \in Faults[how], NEW s, IsChain(s),
             answer = Failing(s \o <<fault>>, <<>>, how)
      PROVE  Truthful("call", answer.truth, result)
  <2>1. answer.first = s \o <<fault>> /\ answer.second = <<>> /\ answer.truth.failed = how
    BY <1>4 DEF Failing, Answer
  <2>2. IsChain(<<fault>>) /\ Range(<<fault>>) = {fault}
    BY ChainOne
  <2>3. IsChain(s \o <<fault>>) /\ fault \in Range(s \o <<fault>>)
    BY <1>4, <2>2, ChainJoin
  <2>4. all = s \o <<fault>>
    BY <2>1, <2>3, ChainAlone DEF all
  <2>5. FailsBy(all, how)
    BY <2>3, <2>4 DEF FailsBy
  <2>6. AnyOf(all, ReplyFails)
    BY <2>5, FailureIsRead
  <2>7. ~ result.ok
    BY <1>2, <2>6
  <2> QED BY <2>1, <2>7, FailureTold, FaultsAre
<1> DEFINE s == SetReplies(1, [rows |-> 1, objects |-> 0], FALSE)
<1>5. IsChain(s)
  <2> DEFINE set == [rows |-> 1, objects |-> 0]
  <2>1. set \in AnySet
    BY DEF AnySet
  <2>2. Ready(Reading(<<>>, <<>>, <<>>, <<>>, <<>>), <<>>, FALSE)
    BY StartIsReady
  <2>3. <<>> \in Seq(SetRecords)
    OBVIOUS
  <2> HIDE DEF set
  <2> QED BY <2>1, <2>2, <2>3, OneSet DEF set
<1>6. \/ \E n \in 0 .. MaxSets : \E sets \in [1 .. n -> ResultSets] : \E described \in BOOLEAN : \E out \in outs :
           answer = CallDone(sets, described, out, twice)
      \/ \E how \in DOMAIN Faults : \E fault \in Faults[how] :
           answer = Failing(<<fault>>, <<>>, how) \/ answer = Failing(s \o <<fault>>, <<>>, how)
  <2> DEFINE Sets == UNION {[1 .. n -> ResultSets] : n \in 0 .. MaxSets}
             done == {CallDone(sets, described, out, twice) : sets \in Sets, described \in BOOLEAN, out \in outs}
             failed(how) == UNION {{Failing(<<fault>>, <<>>, how), Failing(s \o <<fault>>, <<>>, how)} :
                                     fault \in Faults[how]}
  <2>1. answer \in done \/ \E how \in DOMAIN Faults : answer \in failed(how)
    <3>1. CallAnswers(twice, outs) = done \cup UNION {failed(how) : how \in DOMAIN Faults}
      BY SMT DEF CallAnswers
    <3> HIDE DEF done, failed
    <3> QED BY <3>1
  <2>2. ASSUME answer \in done
        PROVE  \E n \in 0 .. MaxSets : \E sets \in [1 .. n -> ResultSets] : \E described \in BOOLEAN :
                 \E out \in outs : answer = CallDone(sets, described, out, twice)
    <3> HIDE DEF Sets
    <3>1. PICK sets \in Sets, described \in BOOLEAN, out \in outs : answer = CallDone(sets, described, out, twice)
      BY <2>2
    <3>2. PICK n \in 0 .. MaxSets : sets \in [1 .. n -> ResultSets]
      BY <3>1 DEF Sets
    <3> QED BY <3>1, <3>2
  <2>3. ASSUME NEW how \in DOMAIN Faults, answer \in failed(how)
        PROVE  \E fault \in Faults[how] :
                 answer = Failing(<<fault>>, <<>>, how) \/ answer = Failing(s \o <<fault>>, <<>>, how)
    <3> HIDE DEF s
    <3>1. PICK fault \in Faults[how] : answer \in {Failing(<<fault>>, <<>>, how), Failing(s \o <<fault>>, <<>>, how)}
      BY <2>3, Zenon
    <3>2. answer = Failing(<<fault>>, <<>>, how) \/ answer = Failing(s \o <<fault>>, <<>>, how)
      BY <3>1, Zenon
    <3> QED BY <3>2, Zenon
  <2> HIDE DEF s, Sets, done, failed
  <2>4. CASE answer \in done
    BY <2>2, <2>4
  <2>5. ASSUME NEW how \in DOMAIN Faults, answer \in failed(how)
        PROVE  \E h \in DOMAIN Faults : \E fault \in Faults[h] :
                 answer = Failing(<<fault>>, <<>>, h) \/ answer = Failing(s \o <<fault>>, <<>>, h)
    BY <2>3, <2>5, Zenon
  <2> QED BY <2>1, <2>4, <2>5
<1> HIDE DEF s
<1>7. CASE \E n \in 0 .. MaxSets : \E sets \in [1 .. n -> ResultSets] : \E described \in BOOLEAN : \E out \in outs :
             answer = CallDone(sets, described, out, twice)
  <2>1. PICK n \in 0 .. MaxSets : \E sets \in [1 .. n -> ResultSets] : \E described \in BOOLEAN : \E out \in outs :
             answer = CallDone(sets, described, out, twice)
    BY <1>7
  <2>2. n \in Nat /\ [1 .. n -> ResultSets] \subseteq [1 .. n -> AnySet]
    <3>1. ResultSets \subseteq AnySet
      BY SessionAssumption DEF ResultSets, AnySet
    <3> QED BY <3>1, SessionAssumption
  <2> QED BY <1>3, <2>1, <2>2 DEF result, all
<1>8. CASE \E how \in DOMAIN Faults : \E fault \in Faults[how] :
             answer = Failing(<<fault>>, <<>>, how) \/ answer = Failing(s \o <<fault>>, <<>>, how)
  <2>1. PICK how \in DOMAIN Faults : \E fault \in Faults[how] :
             answer = Failing(<<fault>>, <<>>, how) \/ answer = Failing(s \o <<fault>>, <<>>, how)
    BY <1>8
  <2>2. PICK fault \in Faults[how] :
             answer = Failing(<<fault>>, <<>>, how) \/ answer = Failing(s \o <<fault>>, <<>>, how)
    BY <2>1
  <2>3. <<>> \o <<fault>> = <<fault>> /\ IsChain(<<>>)
    BY ChainOne, ChainNone, ChainAlone
  <2> QED BY <1>4, <1>5, <2>2, <2>3 DEF result, all
<1> QED BY <1>6, <1>7, <1>8 DEF result, all

-----------------------------------------------------------------------------
\* Replies with rows and objects of a query.
Sent(r) == (r.cp = "QRYDTA" => r.data \in Pairs) /\ (r.cp = "EXTDTA" => r.object \in Nat)
RowsIn(r)    == IF r.cp = "QRYDTA" THEN r.data ELSE <<>>
ObjectsIn(r) == IF r.cp = "EXTDTA" THEN <<r.object>> ELSE <<>>
Delivers(s)  == IsChain(s) /\ \A r \in Range(s) : Sent(r)

\* What one reply brings.
LEMMA InOne ==
  ASSUME NEW r, Sent(r)
  PROVE  RowsIn(r) \in Pairs /\ ObjectsIn(r) \in Seq(Nat)
<1>1. <<>> \in Pairs /\ <<>> \in Seq(Nat)
  BY TextsAndPairs
<1> QED BY <1>1 DEF Sent, RowsIn, ObjectsIn

\* The parts of a chain are those of its replies.
LEMMA PartsOf ==
  ASSUME NEW s, Delivers(s)
  PROVE  /\ [i \in DOMAIN s |-> RowsIn(s[i])] \in Seq(Pairs) /\ [i \in DOMAIN s |-> ObjectsIn(s[i])] \in Seq(Seq(Nat))
         /\ Rows(s) = FlattenSeq([i \in DOMAIN s |-> RowsIn(s[i])])
         /\ Objects(s) = FlattenSeq([i \in DOMAIN s |-> ObjectsIn(s[i])])
         /\ Rows(s) \in Pairs /\ Objects(s) \in Seq(Nat)
<1> DEFINE p == [i \in DOMAIN s |-> RowsIn(s[i])]
           q == [i \in DOMAIN s |-> ObjectsIn(s[i])]
           V == Seq(Nat)
<1>1. Len(s) \in Nat /\ DOMAIN s = 1 .. Len(s) /\ \A i \in 1 .. Len(s) : Sent(s[i])
  BY ChainIs DEF Delivers
<1>2. \A i \in 1 .. Len(s) : RowsIn(s[i]) \in Pairs /\ ObjectsIn(s[i]) \in V
  BY <1>1, InOne
<1>3. p \in Seq(Pairs) /\ q \in Seq(V)
  <2> HIDE DEF V
  <2> QED BY <1>1, <1>2
<1>4. Rows(s) = FlattenSeq(p) /\ Objects(s) = FlattenSeq(q)
  BY DEF Rows, Objects, RowsIn, ObjectsIn
<1> HIDE DEF p, q
<1>5. FlattenSeq(p) \in Pairs /\ FlattenSeq(q) \in Seq(Nat)
  <2> DEFINE T == Nat \X Nat
  <2>1. p \in Seq(Seq(T)) /\ q \in Seq(Seq(Nat)) /\ <<>> \in Seq(Seq(T)) /\ <<>> \in Seq(Seq(Nat))
    BY <1>3 DEF Pairs
  <2> HIDE DEF T
  <2>2. FlattenSeq(p) \in Seq(T)
    BY <2>1, FlattenJoin
  <2>3. FlattenSeq(q) \in Seq(Nat)
    BY <2>1, FlattenJoin
  <2> QED BY <2>2, <2>3 DEF T, Pairs
<1> QED BY <1>3, <1>4, <1>5 DEF p, q

LEMMA DeliversJoin ==
  ASSUME NEW s, NEW t, Delivers(s), Delivers(t)
  PROVE  /\ Delivers(s \o t)
         /\ Rows(s \o t) = Rows(s) \o Rows(t) /\ Objects(s \o t) = Objects(s) \o Objects(t)
<1> DEFINE u  == s \o t
           m  == Len(s)
           n  == Len(t)
           ps == [i \in DOMAIN s |-> RowsIn(s[i])]
           pt == [i \in DOMAIN t |-> RowsIn(t[i])]
           pu == [i \in DOMAIN u |-> RowsIn(u[i])]
           qs == [i \in DOMAIN s |-> ObjectsIn(s[i])]
           qt == [i \in DOMAIN t |-> ObjectsIn(t[i])]
           qu == [i \in DOMAIN u |-> ObjectsIn(u[i])]
<1>1. /\ m \in Nat /\ DOMAIN s = 1 .. m /\ n \in Nat /\ DOMAIN t = 1 .. n
      /\ IsChain(s) /\ IsChain(t)
  BY ChainIs DEF Delivers
<1>2. /\ IsChain(u) /\ Range(u) = Range(s) \cup Range(t) /\ Len(u) = m + n
      /\ (\A i \in 1 .. m : u[i] = s[i]) /\ \A i \in 1 .. n : u[m + i] = t[i]
  BY <1>1, ChainJoin
<1>3. Delivers(u) /\ DOMAIN u = 1 .. m + n
  <2>1. DOMAIN u = 1 .. Len(u)
    BY <1>2, ChainIs
  <2> QED BY <1>2, <2>1 DEF Delivers
<1>4. /\ ps \in Seq(Pairs) /\ qs \in Seq(Seq(Nat)) /\ Rows(s) = FlattenSeq(ps) /\ Objects(s) = FlattenSeq(qs)
  BY PartsOf
<1>5. /\ pt \in Seq(Pairs) /\ qt \in Seq(Seq(Nat)) /\ Rows(t) = FlattenSeq(pt) /\ Objects(t) = FlattenSeq(qt)
  BY PartsOf
<1> HIDE DEF u
<1>6. /\ pu \in Seq(Pairs) /\ qu \in Seq(Seq(Nat)) /\ Rows(u) = FlattenSeq(pu) /\ Objects(u) = FlattenSeq(qu)
  BY <1>3, PartsOf
<1> HIDE DEF m, n
<1>7. \A i \in 1 .. m + n : u[i] = IF i <= m THEN s[i] ELSE t[i - m]
  <2> SUFFICES ASSUME NEW i \in 1 .. m + n PROVE u[i] = IF i <= m THEN s[i] ELSE t[i - m]
    OBVIOUS
  <2>1. CASE i <= m
    <3>1. i \in 1 .. m
      BY <1>1, <2>1
    <3> QED BY <1>2, <2>1, <3>1
  <2>2. CASE ~ (i <= m)
    <3> DEFINE k == i - m
    <3>1. k \in 1 .. n /\ m + k = i
      BY <1>1, <2>2
    <3> HIDE DEF k
    <3>2. u[m + k] = t[k]
      BY <1>2, <3>1
    <3> QED BY <2>2, <3>1, <3>2 DEF k
  <2> QED BY <2>1, <2>2
<1>8. pu = ps \o pt /\ qu = qs \o qt
  <2>1. /\ Len(ps) = m /\ Len(pt) = n /\ Len(qs) = m /\ Len(qt) = n
        /\ (\A i \in 1 .. m : ps[i] = RowsIn(s[i]) /\ qs[i] = ObjectsIn(s[i]))
        /\ (\A i \in 1 .. n : pt[i] = RowsIn(t[i]) /\ qt[i] = ObjectsIn(t[i]))
    BY <1>1
  <2>2. /\ Len(pu) = m + n /\ Len(qu) = m + n
        /\ \A i \in 1 .. m + n : pu[i] = RowsIn(u[i]) /\ qu[i] = ObjectsIn(u[i])
    BY <1>1, <1>3
  <2> DEFINE W == Seq(Nat)
  <2> HIDE DEF ps, pt, qs, qt, pu, qu, W
  <2>3. /\ ps \o pt \in Seq(Pairs) /\ Len(ps \o pt) = m + n
        /\ \A i \in 1 .. m + n : (ps \o pt)[i] = IF i <= m THEN ps[i] ELSE pt[i - m]
    BY <1>4, <1>5, <2>1, ConcatProperties
  <2>5. /\ qs \o qt \in Seq(W) /\ Len(qs \o qt) = m + n
        /\ \A i \in 1 .. m + n : (qs \o qt)[i] = IF i <= m THEN qs[i] ELSE qt[i - m]
    <3>1. qs \in Seq(W) /\ qt \in Seq(W)
      BY <1>4, <1>5 DEF W
    <3> QED BY <2>1, <3>1, ConcatProperties
  <2>4. \A i \in 1 .. m + n : /\ RowsIn(u[i]) = IF i <= m THEN ps[i] ELSE pt[i - m]
                              /\ ObjectsIn(u[i]) = IF i <= m THEN qs[i] ELSE qt[i - m]
    <3> SUFFICES ASSUME NEW i \in 1 .. m + n
                 PROVE  /\ RowsIn(u[i]) = IF i <= m THEN ps[i] ELSE pt[i - m]
                        /\ ObjectsIn(u[i]) = IF i <= m THEN qs[i] ELSE qt[i - m]
      OBVIOUS
    <3>1. CASE i <= m
      <4>1. i \in 1 .. m
        BY <1>1, <3>1
      <4> QED BY <1>7, <2>1, <3>1, <4>1
    <3>2. CASE ~ (i <= m)
      <4>1. i - m \in 1 .. n
        BY <1>1, <3>2
      <4> QED BY <1>7, <2>1, <3>2, <4>1
    <3> QED BY <3>1, <3>2
  <2>6. pu = ps \o pt
    <3> DEFINE v == ps \o pt
    <3> SUFFICES pu = v
      OBVIOUS
    <3>1. v \in Seq(Pairs) /\ pu \in Seq(Pairs) /\ Len(pu) = Len(v) /\ \A i \in 1 .. Len(pu) : pu[i] = v[i]
      BY <1>6, <2>2, <2>3, <2>4
    <3> HIDE DEF v
    <3> QED BY <3>1, SeqEqual
  <2>7. qu = qs \o qt
    <3> DEFINE v == qs \o qt
    <3> SUFFICES qu = v
      OBVIOUS
    <3>1. v \in Seq(W) /\ qu \in Seq(W) /\ Len(qu) = Len(v) /\ \A i \in 1 .. Len(qu) : qu[i] = v[i]
      BY <1>6, <2>2, <2>4, <2>5 DEF W
    <3> HIDE DEF v
    <3> QED BY <3>1, SeqEqual
  <2> QED BY <2>6, <2>7
<1> HIDE DEF ps, pt, pu, qs, qt, qu
<1>9. FlattenSeq(ps \o pt) = FlattenSeq(ps) \o FlattenSeq(pt) /\ FlattenSeq(qs \o qt) = FlattenSeq(qs) \o FlattenSeq(qt)
  <2> DEFINE T == Nat \X Nat
  <2>1. ps \in Seq(Seq(T)) /\ pt \in Seq(Seq(T)) /\ qs \in Seq(Seq(Nat)) /\ qt \in Seq(Seq(Nat))
    BY <1>4, <1>5 DEF Pairs
  <2> HIDE DEF T
  <2>2. FlattenSeq(ps \o pt) = FlattenSeq(ps) \o FlattenSeq(pt)
    BY <2>1, FlattenJoin
  <2>3. FlattenSeq(qs \o qt) = FlattenSeq(qs) \o FlattenSeq(qt)
    BY <2>1, FlattenJoin
  <2> QED BY <2>2, <2>3
<1> QED BY <1>3, <1>4, <1>5, <1>6, <1>8, <1>9 DEF u

LEMMA DeliversOne ==
  ASSUME NEW r, Sent(r)
  PROVE  Delivers(<<r>>) /\ Rows(<<r>>) = RowsIn(r) /\ Objects(<<r>>) = ObjectsIn(r)
<1> DEFINE s == <<r>>
           p == [i \in DOMAIN s |-> RowsIn(s[i])]
           q == [i \in DOMAIN s |-> ObjectsIn(s[i])]
<1>1. Delivers(s)
  BY ChainOne DEF Delivers
<1>2. p = <<RowsIn(r)>> /\ q = <<ObjectsIn(r)>>
  OBVIOUS
<1>3. Rows(s) = FlattenSeq(p) /\ Objects(s) = FlattenSeq(q)
  <2> HIDE DEF s
  <2> QED BY <1>1, PartsOf
<1>4. FlattenSeq(<<RowsIn(r)>>) = RowsIn(r) /\ FlattenSeq(<<ObjectsIn(r)>>) = ObjectsIn(r)
  <2> DEFINE T == Nat \X Nat
             a == RowsIn(r)
             b == ObjectsIn(r)
  <2>1. a \in Seq(T) /\ b \in Seq(Nat)
    BY InOne DEF Pairs
  <2> HIDE DEF T, a, b
  <2>2. FlattenSeq(<<a>>) = a
    BY <2>1, FlattenOne
  <2>3. FlattenSeq(<<b>>) = b
    BY <2>1, FlattenOne
  <2> QED BY <2>2, <2>3 DEF a, b
<1> QED BY <1>1, <1>2, <1>3, <1>4

\* A chain without either delivers nothing.
LEMMA DeliversNothing ==
  ASSUME NEW s, IsChain(s), \A r \in Range(s) : r.cp # "QRYDTA" /\ r.cp # "EXTDTA"
  PROVE  Delivers(s) /\ Rows(s) = <<>> /\ Objects(s) = <<>>
<1> DEFINE E == Seq({})
           p == [i \in DOMAIN s |-> IF s[i].cp = "QRYDTA" THEN s[i].data ELSE <<>>]
           q == [i \in DOMAIN s |-> IF s[i].cp = "EXTDTA" THEN <<s[i].object>> ELSE <<>>]
<1>1. Len(s) \in Nat /\ DOMAIN s = 1 .. Len(s) /\ \A i \in 1 .. Len(s) : s[i].cp # "QRYDTA" /\ s[i].cp # "EXTDTA"
  BY ChainIs
<1>2. <<>> \in E /\ \A e \in E : e = <<>>
  OBVIOUS
<1>3. p \in Seq(E) /\ q \in Seq(E)
  <2> HIDE DEF E
  <2> QED BY <1>1, <1>2
<1>4. FlattenSeq(p) \in E /\ FlattenSeq(q) \in E
  <2>1. p \in Seq(Seq({})) /\ q \in Seq(Seq({})) /\ <<>> \in Seq(Seq({}))
    BY <1>3
  <2> HIDE DEF p, q
  <2>2. FlattenSeq(p) \in Seq({})
    BY <2>1, FlattenJoin
  <2>3. FlattenSeq(q) \in Seq({})
    BY <2>1, FlattenJoin
  <2> QED BY <2>2, <2>3
<1>5. Rows(s) = FlattenSeq(p) /\ Objects(s) = FlattenSeq(q)
  BY DEF Rows, Objects
<1> HIDE DEF p, q, E
<1>6. Rows(s) = <<>> /\ Objects(s) = <<>>
  BY <1>2, <1>4, <1>5
<1>7. Delivers(s)
  BY DEF Delivers, Sent
<1> QED BY <1>6, <1>7

\* Large objects, one in each reply.
LEMMA DeliversObjects ==
  ASSUME NEW a \in Nat, NEW n \in Nat
  PROVE  LET s == [i \in 1 .. n |-> EXTDTA(a + i)]
         IN  /\ Delivers(s) /\ Rows(s) = <<>> /\ Objects(s) = [i \in 1 .. n |-> a + i]
             /\ \A r \in Range(s) : r.cp = "EXTDTA"
<1> DEFINE s == [i \in 1 .. n |-> EXTDTA(a + i)]
           q == [i \in DOMAIN s |-> ObjectsIn(s[i])]
           p == [i \in DOMAIN s |-> IF s[i].cp = "QRYDTA" THEN s[i].data ELSE <<>>]
           S == {EXTDTA(x) : x \in Nat}
           off == [i \in 0 .. n |-> i]
           t == [i \in 1 .. n |-> a + i]
<1>1. s \in Seq(S)
  OBVIOUS
<1>2. DOMAIN s = 1 .. n /\ Len(s) = n /\ \A i \in 1 .. n : s[i].cp = "EXTDTA" /\ s[i].object = a + i
  BY DEF EXTDTA
<1> HIDE DEF s
<1>3. IsChain(s) /\ Range(s) \subseteq S
  <2> HIDE DEF S
  <2> QED BY <1>1, ChainOf
<1>4. \A r \in S : r.cp = "EXTDTA" /\ Sent(r)
  BY DEF EXTDTA, Sent
<1>5. Delivers(s)
  BY <1>3, <1>4 DEF Delivers
<1>6. \A i \in 1 .. n : q[i] = <<a + i>> /\ Len(q[i]) = 1 /\ q[i][1] = a + i
  BY <1>2 DEF ObjectsIn
<1>7. q \in Seq(Seq(Nat)) /\ Objects(s) = FlattenSeq(q) /\ Len(q) = n
  <2>1. q \in Seq(Seq(Nat)) /\ Objects(s) = FlattenSeq(q)
    BY <1>5, PartsOf
  <2> QED BY <1>2, <2>1
<1>8. off[0] = 0 /\ off[n] = n /\ \A i \in 1 .. n : off[i] = off[i - 1] + Len(q[i]) /\ off[i - 1] = i - 1
  <2>1. off[0] = 0 /\ off[n] = n /\ \A i \in 1 .. n : off[i] = (i - 1) + 1 /\ off[i - 1] = i - 1
    OBVIOUS
  <2> HIDE DEF q, off
  <2> QED BY <1>6, <2>1
<1> HIDE DEF q, off
<1>9. /\ FlattenSeq(q) \in Seq(Nat) /\ Len(FlattenSeq(q)) = off[Len(q)]
      /\ \A i \in 1 .. Len(q) : \A k \in 1 .. Len(q[i]) : FlattenSeq(q)[off[i - 1] + k] = q[i][k]
  BY <1>7, <1>8, FlattenAt, ZenonT(60)
<1> DEFINE all == FlattenSeq(q)
<1> HIDE DEF all
<1>10. all \in Seq(Nat) /\ Len(all) = n /\ \A i \in 1 .. n : all[i] = a + i
  <2>1. all \in Seq(Nat) /\ Len(all) = n
    BY <1>7, <1>8, <1>9 DEF all
  <2>2. ASSUME NEW i \in 1 .. n PROVE all[i] = a + i
    <3>1. 1 \in 1 .. Len(q[i]) /\ off[i - 1] + 1 = i
      BY <1>6, <1>8
    <3>2. all[off[i - 1] + 1] = q[i][1]
      BY <1>7, <1>9, <3>1 DEF all
    <3> QED BY <1>6, <3>1, <3>2
  <2> QED BY <2>1, <2>2
<1>11. all = t
  <2>1. t \in Seq(Nat) /\ Len(t) = n /\ \A i \in 1 .. n : t[i] = a + i
    OBVIOUS
  <2> HIDE DEF t
  <2> QED BY <1>10, <2>1
<1>12. Rows(s) = <<>>
  <2>1. \A r \in Range(s) : r.cp # "QRYDTA"
    BY <1>3, <1>4
  <2>2. Rows(s) = FlattenSeq(p)
    BY DEF Rows
  <2>3. p \in Seq(Seq({})) /\ <<>> \in Seq(Seq({}))
    <3>1. \A i \in 1 .. n : p[i] = <<>>
      BY <1>2
    <3>2. <<>> \in Seq({}) /\ p = [i \in 1 .. n |-> p[i]]
      BY <1>2
    <3> DEFINE E == Seq({})
    <3> HIDE DEF E, p
    <3>4. <<>> \in E
      BY <3>2 DEF E
    <3>3. p \in Seq(E)
      BY <3>1, <3>2, <3>4
    <3> QED BY <3>3 DEF E
  <2> HIDE DEF p
  <2>4. FlattenSeq(p) \in Seq({})
    BY <2>3, FlattenJoin
  <2>5. \A e \in Seq({}) : e = <<>>
    OBVIOUS
  <2> QED BY <2>2, <2>4, <2>5
<1> QED BY <1>3, <1>4, <1>5, <1>7, <1>11, <1>12 DEF s, all

-----------------------------------------------------------------------------
\* The rows of a query, and the large objects of its rows.
LEMMA PiecesAre ==
  ASSUME NEW rows \in Nat
  PROVE  /\ PiecesOf(rows) \in Pairs /\ Len(PiecesOf(rows)) = 2 * rows
         /\ ObjectsOf(rows) \in Seq(Nat) /\ Len(ObjectsOf(rows)) = rows
         /\ \A i \in 1 .. rows : ObjectsOf(rows)[i] = i
<1>1. ASSUME NEW i \in 1 .. 2 * rows PROVE <<(i + 1) \div 2, 2 - (i % 2)>> \in Nat \X Nat
  <2> DEFINE a == (i + 1) \div 2
             b == 2 - (i % 2)
  <2>1. i \in Nat /\ 2 * rows \in Nat
    OBVIOUS
  <2>2. a \in Nat /\ b \in Nat
    BY <2>1
  <2> HIDE DEF a, b
  <2>3. <<a, b>> \in Nat \X Nat
    BY <2>2
  <2> QED BY <2>3 DEF a, b
<1>2. 2 * rows \in Nat
  OBVIOUS
<1> DEFINE P == Nat \X Nat
           piece(i) == <<(i + 1) \div 2, 2 - (i % 2)>>
           all == [i \in 1 .. 2 * rows |-> piece(i)]
<1>3. all \in Seq(P) /\ Len(all) = 2 * rows
  <2>1. \A i \in 1 .. 2 * rows : piece(i) \in P
    BY <1>1
  <2> HIDE DEF P, piece
  <2> QED BY <1>2, <2>1
<1>4. PiecesOf(rows) = all
  BY DEF PiecesOf
<1>5. ObjectsOf(rows) \in Seq(Nat) /\ Len(ObjectsOf(rows)) = rows /\ \A i \in 1 .. rows : ObjectsOf(rows)[i] = i
  BY DEF ObjectsOf
<1> HIDE DEF all
<1> QED BY <1>3, <1>4, <1>5 DEF Pairs

\* What a block of a query carries on with.
Carries(replies, rows, pieces, objects, p, o) ==
  /\ p \in pieces .. 2 * rows /\ o \in objects .. rows
  /\ Delivers(replies)
  /\ Rows(replies) = Slice(PiecesOf(rows), pieces, p)
  /\ Objects(replies) = Slice(ObjectsOf(rows), objects, o)
  /\ AnyOf(replies, Ends) => p = 2 * rows /\ o = rows

\* A block the server may send carries the next pieces and objects.
LEMMA BlockIs ==
  ASSUME NEW rows \in Nat, NEW pieces \in 0 .. 2 * rows, NEW objects \in 0 .. rows,
         NEW block \in PossibleBlocks(rows, pieces, objects)
  PROVE  Carries(block.replies, rows, pieces, objects, block.pieces, block.objects)
<1> DEFINE P == PiecesOf(rows)
           O == ObjectsOf(rows)
<1>1. PICK p \in 0 .. 2 * rows - pieces, o \in 0 .. rows - objects, last \in EndReplies \cup {<<>>} :
        block = [replies |-> (IF p = 0 THEN <<>> ELSE <<QRYDTA(SubSeq(P, pieces + 1, pieces + p))>>)
                               \o [i \in 1 .. o |-> EXTDTA(objects + i)] \o last,
                 pieces |-> pieces + p, objects |-> objects + o, ended |-> last # <<>>]
  <2> DEFINE f(p, o, last) ==
               [replies |-> (IF p = 0 THEN <<>> ELSE <<QRYDTA(SubSeq(P, pieces + 1, pieces + p))>>)
                               \o [i \in 1 .. o |-> EXTDTA(objects + i)] \o last,
                pieces |-> pieces + p, objects |-> objects + o, ended |-> last # <<>>]
  <2>1. block \in Blocks(rows, pieces, objects)
    BY DEF PossibleBlocks
  <2>2. Blocks(rows, pieces, objects) =
          {f(p, o, last) : p \in 0 .. 2 * rows - pieces, o \in 0 .. rows - objects,
                           last \in EndReplies \cup {<<>>}}
    BY DEF Blocks
  <2> HIDE DEF f
  <2>3. \E p \in 0 .. 2 * rows - pieces, o \in 0 .. rows - objects, last \in EndReplies \cup {<<>>} :
          block = f(p, o, last)
    BY <2>1, <2>2
  <2> QED BY <2>3 DEF f
<1>2. block.ended => block.pieces = 2 * rows /\ block.objects = rows
  BY DEF PossibleBlocks
<1> DEFINE part == Slice(P, pieces, pieces + p)
           d == QRYDTA(part)
           s == IF p = 0 THEN <<>> ELSE <<d>>
           t == [i \in 1 .. o |-> EXTDTA(objects + i)]
           all == (s \o t) \o last
<1>3. /\ block.replies = all /\ block.pieces = pieces + p /\ block.objects = objects + o
      /\ block.ended = (last # <<>>)
  <2> HIDE DEF P
  <2> QED BY ONLY <1>1 DEF Slice
<1>4. /\ p \in Nat /\ o \in Nat /\ pieces \in Nat /\ objects \in Nat /\ 2 * rows \in Nat
      /\ pieces + p <= 2 * rows /\ objects + o <= rows
      /\ pieces + p \in pieces .. 2 * rows /\ objects + o \in objects .. rows
  OBVIOUS
<1>5. P \in Pairs /\ Len(P) = 2 * rows /\ O \in Seq(Nat) /\ Len(O) = rows /\ \A i \in 1 .. rows : O[i] = i
  BY PiecesAre
<1> HIDE DEF P, O
<1>6. part \in Pairs /\ (p = 0 => part = <<>>)
  <2> DEFINE T == Nat \X Nat
  <2>1. P \in Seq(T)
    BY <1>5 DEF Pairs
  <2> HIDE DEF T
  <2>2. part \in Seq(T)
    <3> DEFINE b == pieces + p
    <3>1. pieces \in Nat /\ b \in Nat /\ pieces <= b /\ b <= Len(P)
      BY <1>4, <1>5
    <3> HIDE DEF b
    <3>2. Slice(P, pieces, b) \in Seq(T)
      BY ONLY <2>1, <3>1, SliceParts
    <3> QED BY <3>2 DEF b
  <2>3. p = 0 => pieces + p = pieces
    BY <1>4
  <2>4. Slice(P, pieces, pieces) = <<>>
    BY <1>4, <2>1, SliceEmpty
  <2> QED BY <2>2, <2>3, <2>4 DEF T, Pairs
<1> HIDE DEF part
<1>7. d.cp = "QRYDTA" /\ d.data = part
  BY DEF QRYDTA
<1> HIDE DEF d
<1>8. /\ Delivers(s) /\ Rows(s) = part /\ Objects(s) = <<>> /\ \A r \in Range(s) : r.cp = "QRYDTA"
  <2>1. Sent(d) /\ RowsIn(d) = part /\ ObjectsIn(d) = <<>>
    BY <1>6, <1>7 DEF Sent, RowsIn, ObjectsIn
  <2>2. Delivers(<<d>>) /\ Rows(<<d>>) = part /\ Objects(<<d>>) = <<>> /\ Range(<<d>>) = {d}
    BY <2>1, DeliversOne, ChainOne
  <2>3. Delivers(<<>>) /\ Rows(<<>>) = <<>> /\ Objects(<<>>) = <<>> /\ Range(<<>>) = {}
    BY ChainNone, DeliversNothing
  <2> QED BY <1>6, <1>7, <2>2, <2>3
<1>9. /\ Delivers(t) /\ Rows(t) = <<>> /\ Objects(t) = [i \in 1 .. o |-> objects + i]
      /\ \A r \in Range(t) : r.cp = "EXTDTA"
  BY <1>4, DeliversObjects
<1>10. Objects(t) = Slice(O, objects, objects + o)
  <2> DEFINE x == [i \in 1 .. o |-> objects + i]
             b == objects + o
  <2>1. x \in Seq(Nat) /\ Len(x) = o
    BY <1>4
  <2>2. \A i \in 1 .. o : x[i] = O[objects + i]
    BY <1>4, <1>5
  <2>3. b \in Nat /\ b - objects = o /\ objects <= b /\ b <= Len(O)
    BY <1>4, <1>5
  <2>4. Objects(t) = x
    BY <1>9
  <2> HIDE DEF x, b
  <2>5. x = Slice(O, objects, b)
    <3>1. Len(x) = b - objects /\ \A i \in 1 .. b - objects : x[i] = O[objects + i]
      BY <2>1, <2>2, <2>3
    <3>2. objects \in Nat /\ b \in Nat /\ objects <= b /\ b <= Len(O) /\ O \in Seq(Nat) /\ x \in Seq(Nat)
      BY <1>4, <1>5, <2>1, <2>3
    <3> QED BY ONLY <3>1, <3>2, SliceEqual
  <2> QED BY <2>4, <2>5 DEF b
<1>11. /\ Delivers(last) /\ Rows(last) = <<>> /\ Objects(last) = <<>>
       /\ AnyOf(last, Ends) => last # <<>>
  <2> DEFINE E == Message("ENDQRYRM")
             C == SQLCARD(100, 0)
  <2>1. E.cp = "ENDQRYRM" /\ C.cp = "SQLCARD"
    BY DEF Message, SQLCARD
  <2>2. last = <<E>> \/ last = <<C>> \/ last = <<E, C>> \/ last = <<>>
    BY DEF EndReplies
  <2> HIDE DEF E, C
  <2>3. IsChain(last) /\ Range(last) \subseteq {E, C}
    BY <2>2, ChainNone, ChainOne, ChainTwo
  <2>4. AnyOf(last, Ends) => last # <<>>
    BY DEF AnyOf
  <2> QED BY <2>1, <2>3, <2>4, DeliversNothing
<1> HIDE DEF s, t
<1>12. /\ Delivers(s \o t) /\ Rows(s \o t) = Rows(s) \o Rows(t) /\ Objects(s \o t) = Objects(s) \o Objects(t)
  BY <1>8, <1>9, DeliversJoin
<1>13. /\ Delivers(all) /\ Rows(all) = Rows(s \o t) \o Rows(last)
       /\ Objects(all) = Objects(s \o t) \o Objects(last)
  BY <1>11, <1>12, DeliversJoin
<1>14. Rows(all) = part
  <2>1. part \o <<>> = part
    BY <1>6, ConcatEmptySeq DEF Pairs
  <2> QED BY <1>8, <1>9, <1>11, <1>12, <1>13, <2>1
<1>15. Objects(all) = Slice(O, objects, objects + o)
  <2>1. Objects(t) \in Seq(Nat)
    BY <1>9, PartsOf
  <2>2. <<>> \o Objects(t) = Objects(t) /\ Objects(t) \o <<>> = Objects(t)
    BY <2>1, ConcatEmptySeq
  <2> QED BY <1>8, <1>10, <1>11, <1>12, <1>13, <2>2
<1>16. AnyOf(all, Ends) => last # <<>>
  <2> SUFFICES ASSUME AnyOf(all, Ends) PROVE last # <<>>
    OBVIOUS
  <2>1. IsChain(s) /\ IsChain(t) /\ IsChain(last) /\ IsChain(s \o t) /\ IsChain(all)
    BY <1>8, <1>9, <1>11, <1>12, <1>13 DEF Delivers
  <2>2. Range(all) = Range(s) \cup Range(t) \cup Range(last)
    BY <2>1, ChainJoin
  <2>3. PICK r \in Range(all) : Ends(r)
    BY <2>1, AnyIn
  <2>4. r \notin Range(s) /\ r \notin Range(t)
    BY <1>8, <1>9, <2>3 DEF Ends
  <2>5. AnyOf(last, Ends)
    BY <2>1, <2>2, <2>3, <2>4, AnyIn
  <2> QED BY <1>11, <2>5
<1>17. AnyOf(all, Ends) => pieces + p = 2 * rows /\ objects + o = rows
  BY <1>2, <1>3, <1>16
<1> HIDE DEF all
<1>18. Carries(all, rows, pieces, objects, pieces + p, objects + o)
  BY <1>4, <1>13, <1>14, <1>15, <1>17 DEF Carries, part, P, O
<1> QED BY <1>3, <1>18

-----------------------------------------------------------------------------
\* What has come of a query so far.
Sofar(result, rows, pieces, objects) ==
  /\ result.data = Slice(PiecesOf(rows), 0, pieces)
  /\ result.extdta = Slice(ObjectsOf(rows), 0, objects)
  /\ result.ended => pieces = 2 * rows /\ objects = rows

\* What a query takes from a chain.
LEMMA ConsumeIs ==
  ASSUME NEW q, NEW s
  PROVE  /\ Consume(q, s).data = q.data \o Rows(s)
         /\ Consume(q, s).extdta = q.extdta \o Objects(s)
         /\ Consume(q, s).open = (q.open \/ Has(s, "OPNQRYRM"))
         /\ Consume(q, s).ended = (q.ended \/ AnyOf(s, Ends))
BY DEF Consume

\* A query whose cursor is open goes on unless it has everything.
LEMMA SofarGoesOn ==
  ASSUME NEW rows \in Nat, NEW pieces \in 0 .. 2 * rows, NEW objects \in 0 .. rows, NEW q, NEW s,
         NEW p, NEW o, Sofar(q, rows, pieces, objects), Carries(s, rows, pieces, objects, p, o)
  PROVE  Sofar(Consume(q, s), rows, p, o)
<1> DEFINE P == PiecesOf(rows)
           O == ObjectsOf(rows)
           c == Consume(q, s)
<1>1. /\ P \in Pairs /\ Len(P) = 2 * rows /\ O \in Seq(Nat) /\ Len(O) = rows
  BY PiecesAre
<1>2. /\ q.data = Slice(P, 0, pieces) /\ q.extdta = Slice(O, 0, objects)
      /\ q.ended => pieces = 2 * rows /\ objects = rows
  BY DEF Sofar
<1>3. /\ Rows(s) = Slice(P, pieces, p) /\ Objects(s) = Slice(O, objects, o)
      /\ p \in pieces .. 2 * rows /\ o \in objects .. rows
      /\ AnyOf(s, Ends) => p = 2 * rows /\ o = rows
  BY DEF Carries
<1>4. c.data = q.data \o Rows(s) /\ c.extdta = q.extdta \o Objects(s) /\ c.ended = (q.ended \/ AnyOf(s, Ends))
  BY ConsumeIs
<1> HIDE DEF P, O, c
<1>5. /\ 0 \in Nat /\ pieces \in Nat /\ p \in Nat /\ 0 <= pieces /\ pieces <= p /\ p <= Len(P)
      /\ objects \in Nat /\ o \in Nat /\ 0 <= objects /\ objects <= o /\ o <= Len(O)
  BY <1>1, <1>3
<1>6. Slice(P, 0, pieces) \o Slice(P, pieces, p) = Slice(P, 0, p)
  <2> DEFINE T == Nat \X Nat
  <2>1. P \in Seq(T)
    BY <1>1 DEF Pairs
  <2> HIDE DEF T
  <2> QED BY <1>5, <2>1, SliceJoin
<1>7. Slice(O, 0, objects) \o Slice(O, objects, o) = Slice(O, 0, o)
  BY <1>1, <1>5, SliceJoin
<1>8. c.ended => p = 2 * rows /\ o = rows
  <2>1. CASE AnyOf(s, Ends)
    BY <1>3, <2>1
  <2>2. CASE ~ AnyOf(s, Ends) /\ c.ended
    <3>1. q.ended
      BY <1>4, <2>2
    <3> QED BY <1>2, <1>3, <3>1
  <2> QED BY <2>1, <2>2
<1> QED BY <1>2, <1>3, <1>4, <1>6, <1>7, <1>8 DEF Sofar, P, O, c

\* A query with all of its pieces and objects is whole.
LEMMA SofarWhole ==
  ASSUME NEW rows \in Nat, NEW q, Sofar(q, rows, 2 * rows, rows)
  PROVE  q.data = PiecesOf(rows) /\ q.extdta = ObjectsOf(rows) /\ Decodable(q)
<1> DEFINE P == PiecesOf(rows)
           O == ObjectsOf(rows)
           T == Nat \X Nat
<1>1. P \in Seq(T) /\ Len(P) = 2 * rows /\ O \in Seq(Nat) /\ Len(O) = rows
  BY PiecesAre DEF Pairs
<1>2. q.data = Slice(P, 0, 2 * rows) /\ q.extdta = Slice(O, 0, rows)
  BY DEF Sofar
<1> HIDE DEF P, O, T
<1>3. Slice(P, 0, Len(P)) = P
  BY <1>1, SliceWhole
<1>4. Slice(O, 0, Len(O)) = O
  BY <1>1, SliceWhole
<1>5. (2 * rows) % 2 = 0
  OBVIOUS
<1> QED BY <1>1, <1>2, <1>3, <1>4, <1>5 DEF Decodable, P, O

-----------------------------------------------------------------------------
\* A query being fetched, and what the last request has returned.
Fetching(q) ==
  /\ q.on \in BOOLEAN
  /\ q.on => /\ q.rows \in Nat /\ q.pieces \in 0 .. 2 * q.rows /\ q.objects \in 0 .. q.rows
             /\ Sofar(q.result, q.rows, q.pieces, q.objects)
             /\ q.result.open /\ ~ q.result.ended

QueryTold(truth, result) ==
  IF result.ok THEN truth.failed = "no" /\ result.data = truth.data /\ result.extdta = truth.extdta
  ELSE truth.failed # "no"

Kept(c) ==
  /\ c.method \in Methods
  /\ c.method \notin {"none", "query"} =>
       /\ c.lost = "first" => ~ c.result.ok
       /\ c.lost = "none" => Truthful(c.method, c.truth, c.result)
  /\ c.method = "query" => c.lost = "none" /\ QueryTold(c.truth, c.result)

TypesInv ==
  /\ cfg \in Configs /\ broken \in BOOLEAN /\ token \in BOOLEAN
  /\ socket \in {"none", "open", "closed"}
  /\ offered \in Mechanisms \cup {0}
  /\ verdict \in {"none"} \cup DOMAIN Access

RepliesInv == Kept(call) /\ Fetching(query) /\ (query.on => step = "connected")

DataInv == TypesInv /\ RepliesInv

-----------------------------------------------------------------------------
\* A query that is over has everything, or a reason.
LEMMA QueryDoneWhole ==
  ASSUME NEW rows \in Nat, NEW result, NEW commitLost \in BOOLEAN,
         Sofar(result, rows, 2 * rows, rows), QueryDone(rows, result, TRUE, "no", commitLost)
  PROVE  Kept(call') /\ Fetching(query') /\ broken' \in BOOLEAN /\ query'.on = FALSE
<1> DEFINE truth == [failed |-> "no", data |-> PiecesOf(rows), extdta |-> ObjectsOf(rows)]
           good  == [ok |-> TRUE, data |-> result.data, extdta |-> result.extdta]
           c     == [method |-> "query", truth |-> truth, result |-> good, lost |-> "none"]
<1>1. result.data = PiecesOf(rows) /\ result.extdta = ObjectsOf(rows) /\ Decodable(result)
  BY SofarWhole
<1>2. call' = c /\ query' = NoQuery /\ broken' \in BOOLEAN
  BY <1>1 DEF QueryDone
<1>3. QueryTold(truth, good)
  BY <1>1 DEF QueryTold
<1>4. c.method = "query" /\ c.truth = truth /\ c.result = good /\ c.lost = "none"
  OBVIOUS
<1> HIDE DEF truth, good, c
<1>5. Kept(c)
  BY <1>3, <1>4 DEF Kept, Methods
<1>6. Fetching(query') /\ query'.on = FALSE
  BY <1>2 DEF Fetching, NoQuery
<1> QED BY <1>2, <1>5, <1>6

\* A query that fails says so.
LEMMA QueryDoneFails ==
  ASSUME NEW rows, NEW result, NEW ok, NEW lost, NEW commitLost \in BOOLEAN,
         ~ ok, lost # "no", QueryDone(rows, result, ok, lost, commitLost)
  PROVE  Kept(call') /\ Fetching(query') /\ broken' \in BOOLEAN /\ query'.on = FALSE
<1> DEFINE truth == [failed |-> lost, data |-> PiecesOf(rows), extdta |-> ObjectsOf(rows)]
           c     == [method |-> "query", truth |-> truth, result |-> Failure, lost |-> "none"]
<1>2. call' = c /\ query' = NoQuery /\ broken' \in BOOLEAN
  BY DEF QueryDone
<1>3. QueryTold(truth, Failure)
  BY DEF QueryTold, Failure
<1>4. c.method = "query" /\ c.truth = truth /\ c.result = Failure /\ c.lost = "none"
  OBVIOUS
<1> HIDE DEF truth, c
<1>5. Kept(c)
  BY <1>3, <1>4 DEF Kept, Methods
<1>6. Fetching(query') /\ query'.on = FALSE
  BY <1>2 DEF Fetching, NoQuery
<1> QED BY <1>2, <1>5, <1>6

\* A chain fetched goes on, ends the query or fails it.
LEMMA FetchedKeeps ==
  ASSUME NEW rows \in Nat, NEW result, NEW block, NEW replies, Fetched(rows, result, block, replies),
         Kept(call), broken \in BOOLEAN,
         block.pieces \in 0 .. 2 * rows, block.objects \in 0 .. rows,
         Sofar(result, rows, block.pieces, block.objects), result.open
  PROVE  Kept(call') /\ Fetching(query') /\ broken' \in BOOLEAN
<1>1. CASE GoesOn(result, replies)
  <2> DEFINE q == [on |-> TRUE, rows |-> rows, result |-> result,
                   pieces |-> block.pieces, objects |-> block.objects]
  <2>1. query' = q /\ UNCHANGED <<broken, call>>
    BY <1>1 DEF Fetched
  <2>2. ~ result.ended
    BY <1>1 DEF GoesOn
  <2>3. /\ q.on = TRUE /\ q.rows = rows /\ q.result = result
        /\ q.pieces = block.pieces /\ q.objects = block.objects
    OBVIOUS
  <2> HIDE DEF q
  <2>4. Fetching(q)
    BY <2>2, <2>3 DEF Fetching
  <2> QED BY <2>1, <2>4
<1>2. CASE ~ GoesOn(result, replies)
  <2>1. PICK commitLost \in BOOLEAN : QueryDone(rows, result, TRUE, "no", commitLost)
    BY <1>2 DEF Fetched
  <2>2. result.ended
    BY <1>2 DEF GoesOn
  <2>3. Sofar(result, rows, 2 * rows, rows)
    <3>1. block.pieces = 2 * rows /\ block.objects = rows
      BY <2>2 DEF Sofar
    <3> QED BY <3>1
  <2> QED BY <2>1, <2>3, QueryDoneWhole
<1> QED BY <1>1, <1>2

\* The steps of a query: the opening, the further fetches, the failures.
LEMMA OpenKeeps ==
  ASSUME DataInv, NEW rows \in 0 .. MaxRows, OpenQuery(rows)
  PROVE  Kept(call') /\ Fetching(query') /\ broken' \in BOOLEAN
<1>0. rows \in Nat /\ 0 \in 0 .. 2 * rows /\ 0 \in 0 .. rows
  BY SessionAssumption
<1> DEFINE a == Message("OPNQRYRM")
           d == QRYDSC(<<"field">>)
           head == <<a, d>>
<1>1. PICK block \in PossibleBlocks(rows, 0, 0) :
        Fetched(rows, Consume(NoResult, head \o block.replies), block, head \o block.replies)
  BY DEF OpenQuery
<1>2. a.cp = "OPNQRYRM" /\ d.cp = "QRYDSC"
  BY DEF Message, QRYDSC
<1> HIDE DEF a, d
<1>3. IsChain(head) /\ Range(head) = {a, d}
  BY ChainTwo
<1>4. Delivers(head) /\ Rows(head) = <<>> /\ Objects(head) = <<>> /\ ~ AnyOf(head, Ends)
  <2>1. ~ Ends(a) /\ ~ Ends(d)
    BY <1>2 DEF Ends
  <2>2. ~ AnyOf(head, Ends)
    BY <1>3, <2>1, AnyIn
  <2> HIDE DEF head
  <2> QED BY <1>2, <1>3, <2>2, DeliversNothing
<1>5. a \in Range(head) /\ a.cp = "OPNQRYRM"
  BY <1>2, <1>3
<1> HIDE DEF head
<1> DEFINE s == block.replies
           all == head \o s
<1>6. Carries(s, rows, 0, 0, block.pieces, block.objects)
  BY <1>0, BlockIs
<1>7. Delivers(s) /\ Rows(s) \in Pairs /\ Objects(s) \in Seq(Nat)
  BY <1>6, PartsOf DEF Carries
<1>8. /\ Delivers(all) /\ Rows(all) = Rows(head) \o Rows(s) /\ Objects(all) = Objects(head) \o Objects(s)
  BY <1>4, <1>7, DeliversJoin
<1>9. Rows(all) = Rows(s) /\ Objects(all) = Objects(s)
  BY <1>4, <1>7, <1>8, ConcatEmptySeq DEF Pairs
<1>10. IsChain(s) /\ IsChain(all) /\ Range(all) = Range(head) \cup Range(s)
  BY <1>3, <1>7, <1>8, ChainJoin DEF Delivers
<1>11. Has(all, "OPNQRYRM") /\ (AnyOf(all, Ends) => AnyOf(s, Ends))
  <2>1. Has(all, "OPNQRYRM")
    BY <1>5, <1>10, AnyIn
  <2>2. ASSUME AnyOf(all, Ends) PROVE AnyOf(s, Ends)
    <3>1. PICK r \in Range(all) : Ends(r)
      BY <1>10, <2>2, AnyIn
    <3>2. r \notin Range(head)
      BY <1>3, <1>4, <3>1, AnyIn
    <3> QED BY <1>10, <3>1, <3>2, AnyIn
  <2> QED BY <2>1, <2>2
<1> HIDE DEF s, all
<1>12. Carries(all, rows, 0, 0, block.pieces, block.objects)
  BY <1>6, <1>8, <1>9, <1>11 DEF Carries
<1>13. Sofar(NoResult, rows, 0, 0)
  <2> DEFINE P == PiecesOf(rows)
             O == ObjectsOf(rows)
             T == Nat \X Nat
  <2>1. P \in Seq(T) /\ O \in Seq(Nat)
    BY <1>0, PiecesAre DEF Pairs
  <2> HIDE DEF P, O, T
  <2>2. Slice(P, 0, 0) = <<>>
    BY <2>1, SliceEmpty
  <2>3. Slice(O, 0, 0) = <<>>
    BY <2>1, SliceEmpty
  <2>4. NoResult.data = <<>> /\ NoResult.extdta = <<>> /\ ~ NoResult.ended
    BY DEF NoResult
  <2> QED BY <2>2, <2>3, <2>4 DEF Sofar, P, O
<1> DEFINE result == Consume(NoResult, all)
<1>14. Sofar(result, rows, block.pieces, block.objects)
  <2> HIDE DEF result
  <2> QED BY <1>0, <1>12, <1>13, SofarGoesOn DEF result
<1>15. result.open
  <2>1. result.open = (NoResult.open \/ Has(all, "OPNQRYRM"))
    BY ConsumeIs
  <2> HIDE DEF result
  <2> QED BY <1>11, <2>1
<1>16. Fetched(rows, result, block, all)
  BY <1>1 DEF s, all
<1> HIDE DEF result
<1>17. block.pieces \in 0 .. 2 * rows /\ block.objects \in 0 .. rows
  BY <1>0, <1>6 DEF Carries
<1>18. Kept(call) /\ broken \in BOOLEAN
  BY DEF DataInv, TypesInv, RepliesInv
<1> QED BY <1>0, <1>14, <1>15, <1>16, <1>17, <1>18, FetchedKeeps

LEMMA ContinueKeeps ==
  ASSUME DataInv, ContinueQuery
  PROVE  Kept(call') /\ Fetching(query') /\ broken' \in BOOLEAN
<1> DEFINE rows == query.rows
           pieces == query.pieces
           objects == query.objects
<1>1. PICK block \in PossibleBlocks(rows, pieces, objects) :
        IF Progress(block.replies) \/ Consume(query.result, block.replies).ended
        THEN Fetched(rows, Consume(query.result, block.replies), block, block.replies)
        ELSE QueryDone(rows, Consume(query.result, block.replies), FALSE, "silent", FALSE)
  BY DEF ContinueQuery
<1>2. /\ rows \in Nat /\ pieces \in 0 .. 2 * rows /\ objects \in 0 .. rows
      /\ Sofar(query.result, rows, pieces, objects) /\ query.result.open
  BY DEF ContinueQuery, DataInv, RepliesInv, Fetching
<1> HIDE DEF rows, pieces, objects
<1>3. Carries(block.replies, rows, pieces, objects, block.pieces, block.objects)
  BY <1>2, BlockIs
<1> DEFINE result == Consume(query.result, block.replies)
<1>4. Sofar(result, rows, block.pieces, block.objects)
  BY <1>2, <1>3, SofarGoesOn
<1>5. result.open
  <2>1. result.open = (query.result.open \/ Has(block.replies, "OPNQRYRM"))
    BY ConsumeIs
  <2> HIDE DEF result
  <2> QED BY <1>2, <2>1
<1>6. block.pieces \in 0 .. 2 * rows /\ block.objects \in 0 .. rows
  BY <1>2, <1>3 DEF Carries
<1>7. Kept(call) /\ broken \in BOOLEAN
  BY DEF DataInv, TypesInv, RepliesInv
<1> HIDE DEF result
<1>8. CASE Fetched(rows, result, block, block.replies)
  BY <1>2, <1>4, <1>5, <1>6, <1>7, <1>8, FetchedKeeps
<1>9. CASE QueryDone(rows, result, FALSE, "silent", FALSE)
  <2>1. FALSE \in BOOLEAN /\ "silent" # "no" /\ ~ FALSE
    OBVIOUS
  <2> QED BY <1>9, <2>1, QueryDoneFails
<1> QED BY <1>1, <1>8, <1>9 DEF result

LEMMA BreaksKeeps ==
  ASSUME DataInv, NEW how \in {"lost", "card", "message"}, QueryBreaks(how)
  PROVE  Kept(call') /\ Fetching(query') /\ broken' \in BOOLEAN
<1> DEFINE rows == IF query.on THEN query.rows ELSE 1
           sofar == IF query.on THEN query.result ELSE NoResult
<1>1. CASE how = "lost"
  <2>1. QueryDone(rows, sofar, FALSE, "lost", FALSE)
    BY <1>1 DEF QueryBreaks
  <2>2. FALSE \in BOOLEAN /\ "lost" # "no" /\ ~ FALSE
    OBVIOUS
  <2> HIDE DEF rows, sofar
  <2> QED BY <2>1, <2>2, QueryDoneFails
<1>2. CASE how # "lost"
  <2>1. PICK fault \in Faults[how] : \E some \in {<<>>, <<QRYDTA(<<>>)>>} :
          QueryDone(rows, Consume(sofar, some), ~ QueryFails(Append(some, fault)), how, FALSE)
    BY <1>2 DEF QueryBreaks
  <2>2. PICK some \in {<<>>, <<QRYDTA(<<>>)>>} :
          QueryDone(rows, Consume(sofar, some), ~ QueryFails(Append(some, fault)), how, FALSE)
    BY <2>1
  <2> HIDE DEF rows, sofar
  <2> DEFINE d == QRYDTA(<<>>)
             all == Append(some, fault)
  <2>3. IsChain(some) /\ IsChain(<<fault>>) /\ Range(<<fault>>) = {fault}
    BY <2>2, ChainNone, ChainOne
  <2>c. all = some \o <<fault>>
    <3> DEFINE S == {d, fault}
    <3>1. some \in Seq(S) /\ fault \in S
      <4>1. some = <<>> \/ some = <<d>>
        BY <2>2
      <4>2. d \in S /\ fault \in S
        OBVIOUS
      <4> HIDE DEF d, S
      <4>3. <<>> \in Seq(S) /\ <<d>> \in Seq(S)
        BY <4>2
      <4> QED BY <4>1, <4>2, <4>3
    <3> HIDE DEF S
    <3> QED BY <3>1, AppendIsConcat
  <2> HIDE DEF all
  <2>4. IsChain(all) /\ fault \in Range(all)
    BY <2>3, <2>c, ChainJoin
  <2>5. FailsBy(all, how)
    BY <1>2, <2>4, FaultsAre DEF FailsBy
  <2>6. QueryFails(all)
    BY <2>5, FailureIsRead DEF QueryFails
  <2> DEFINE result == Consume(sofar, some)
  <2>a. QueryDone(rows, result, ~ QueryFails(all), how, FALSE)
    BY <2>2 DEF all
  <2>b. (~ QueryFails(all)) = FALSE
    BY <2>6
  <2> HIDE DEF result
  <2>7. QueryDone(rows, result, FALSE, how, FALSE)
    BY <2>a, <2>b
  <2>8. ~ FALSE /\ how # "no" /\ FALSE \in BOOLEAN
    OBVIOUS
  <2> QED BY <2>7, <2>8, QueryDoneFails
<1> QED BY <1>1, <1>2

-----------------------------------------------------------------------------
\* The other requests.
LEMMA OutcomeKeeps ==
  ASSUME NEW method \in Methods \ {"none", "query"}, NEW answer, NEW result, NEW lost,
         lost = "first" => ~ result.ok,
         lost = "none" => Truthful(method, answer.truth, result)
  PROVE  Kept(Outcome(method, answer, result, lost))
<1> DEFINE c == Outcome(method, answer, result, lost)
<1>1. c.method = method /\ c.truth = answer.truth /\ c.result = result /\ c.lost = lost
  BY DEF Outcome
<1> HIDE DEF c
<1>2. Kept(c)
  BY <1>1 DEF Kept
<1> QED BY <1>2 DEF c

\* A request read from its replies, and the ping, which may close the session.
LEMMA ReadKeeps ==
  ASSUME DataInv, NEW method \in Methods \ {"none", "query"}, NEW answer, Read(method, answer),
         Truthful(method, answer.truth, ResultOf(method, answer.first \o answer.second))
  PROVE  Kept(call') /\ broken' \in BOOLEAN /\ UNCHANGED <<handshakeVars, query>>
<1>1. broken' \in BOOLEAN /\ UNCHANGED <<handshakeVars, query>>
  BY DEF Read, DataInv, TypesInv
<1>2. CASE call' = Outcome(method, answer, ResultOf(method, answer.first \o answer.second), "none")
  BY <1>1, <1>2, OutcomeKeeps
<1>3. CASE call' = Outcome(method, answer, Failure, "first")
  <2>1. ~ Failure.ok
    BY DEF Failure
  <2> QED BY <1>1, <1>3, <2>1, OutcomeKeeps
<1>4. CASE call' = Outcome(method, answer, ResultOf(method, answer.first), "second")
  BY <1>1, <1>4, OutcomeKeeps
<1> QED BY <1>2, <1>3, <1>4 DEF Read

LEMMA PingKeeps ==
  ASSUME DataInv, NEW auto \in BOOLEAN, Ping(auto)
  PROVE  /\ Kept(call') /\ broken' \in BOOLEAN /\ UNCHANGED <<cfg, step, token, offered, verdict, query>>
         /\ socket' \in {"none", "open", "closed"}
<1>1. PICK answer \in PlainAnswers(Message(IF auto THEN "ENDUOWRM" ELSE "EXCSATRD")) :
        \/ PingCloses(answer, Failure, "first")
        \/ IF auto \/ ReadPing(auto, answer.first).ok
           THEN /\ call' = Outcome("ping", answer, ReadPing(auto, answer.first), "none")
                /\ UNCHANGED <<handshakeVars, conn, closed, broken, query>>
           ELSE PingCloses(answer, ReadPing(auto, answer.first), "none")
  BY DEF Ping
<1> DEFINE result == ReadPing(auto, answer.first)
<1>2. Truthful("ping", answer.truth, result)
  BY PingTells
<1>3. "ping" \in Methods \ {"none", "query"} /\ ~ Failure.ok
  BY DEF Methods, Failure
<1> HIDE DEF result
<1>4. Kept(Outcome("ping", answer, Failure, "first")) /\ Kept(Outcome("ping", answer, result, "none"))
  BY <1>2, <1>3, OutcomeKeeps
<1>5. \/ call' = Outcome("ping", answer, Failure, "first")
      \/ call' = Outcome("ping", answer, result, "none")
  BY <1>1 DEF PingCloses, result
<1>6. /\ broken' \in BOOLEAN /\ UNCHANGED <<cfg, step, token, offered, verdict, query>>
      /\ socket' \in {"none", "open", "closed"}
  BY <1>1 DEF PingCloses, DataInv, TypesInv, handshakeVars
<1> QED BY <1>4, <1>5, <1>6

-----------------------------------------------------------------------------
\* Every request keeps what is known.
LEMMA RequestKeeps ==
  ASSUME DataInv, RequestNext
  PROVE  DataInv'
<1>1. CASE /\ Kept(call') /\ Fetching(query') /\ broken' \in BOOLEAN
           /\ UNCHANGED <<cfg, step, token, offered, verdict>>
           /\ socket' \in {"none", "open", "closed"} /\ (query'.on => step = "connected")
  BY <1>1 DEF DataInv, TypesInv, RepliesInv, Kept, Fetching
<1>2. ASSUME NEW method \in Methods \ {"none", "query"}, NEW answer, Read(method, answer),
             Truthful(method, answer.truth, ResultOf(method, answer.first \o answer.second))
      PROVE  DataInv'
  <2>1. Kept(call') /\ broken' \in BOOLEAN /\ UNCHANGED <<handshakeVars, query>>
    BY <1>2, ReadKeeps
  <2>2. Fetching(query') /\ (query'.on => step = "connected") /\ socket' \in {"none", "open", "closed"}
    BY <2>1 DEF DataInv, RepliesInv, TypesInv, handshakeVars
  <2> QED BY <1>1, <2>1, <2>2 DEF handshakeVars
<1>3. {"direct", "exec", "describe", "call", "set", "commit", "switch", "ping"} \subseteq Methods \ {"none", "query"}
  BY DEF Methods
<1>4. ASSUME NEW auto \in BOOLEAN, ExecDirect(auto) PROVE DataInv'
  BY <1>2, <1>3, <1>4, DirectTells DEF ExecDirect
<1>5. ASSUME NEW auto \in BOOLEAN, ExecWithParams(auto) PROVE DataInv'
  BY <1>2, <1>3, <1>5, ExecTells DEF ExecWithParams
<1>6. ASSUME NEW auto \in BOOLEAN, QueryCallDirect(auto) PROVE DataInv'
  BY <1>2, <1>3, <1>6, CallTells DEF QueryCallDirect
<1>7. ASSUME NEW auto \in BOOLEAN, Ping(auto) PROVE DataInv'
  <2>1. /\ Kept(call') /\ broken' \in BOOLEAN /\ UNCHANGED <<cfg, step, token, offered, verdict, query>>
        /\ socket' \in {"none", "open", "closed"}
    BY <1>7, PingKeeps
  <2>2. Fetching(query') /\ (query'.on => step = "connected")
    BY <2>1 DEF DataInv, RepliesInv
  <2> QED BY <1>1, <2>1, <2>2
<1>8. CASE PrepareAndDescribe
  BY <1>2, <1>3, <1>8, DescribeTells DEF PrepareAndDescribe
<1>9. CASE QueryCallWithParams
  BY <1>2, <1>3, <1>9, CallTells DEF QueryCallWithParams
<1>10. CASE ExecSQLSet
  BY <1>2, <1>3, <1>10, SetTells DEF ExecSQLSet
<1>11. CASE CommitOrRollback
  BY <1>2, <1>3, <1>11, CommitTells DEF CommitOrRollback
<1>12. CASE SwitchUser
  BY <1>2, <1>3, <1>12, SwitchTells DEF SwitchUser
<1>13. ASSUME Kept(call'), Fetching(query'), broken' \in BOOLEAN, UNCHANGED <<handshakeVars, conn, closed>>,
              query.on \/ Usable
       PROVE  DataInv'
  <2>1. step = "connected"
    BY <1>13 DEF Usable, DataInv, RepliesInv
  <2> QED BY <1>1, <1>13, <2>1 DEF handshakeVars, DataInv, TypesInv
<1>14. ASSUME NEW rows \in 0 .. MaxRows, OpenQuery(rows) PROVE DataInv'
  <2>1. UNCHANGED <<handshakeVars, conn, closed>> /\ Usable
    BY <1>14 DEF OpenQuery
  <2> QED BY <1>13, <1>14, <2>1, OpenKeeps
<1>15. CASE ContinueQuery
  <2>1. UNCHANGED <<handshakeVars, conn, closed>> /\ query.on
    BY <1>15 DEF ContinueQuery
  <2> QED BY <1>13, <1>15, <2>1, ContinueKeeps
<1>16. ASSUME NEW how \in {"lost", "card", "message"}, QueryBreaks(how) PROVE DataInv'
  <2>1. UNCHANGED <<handshakeVars, conn, closed>> /\ (query.on \/ Usable)
    BY <1>16 DEF QueryBreaks
  <2> QED BY <1>13, <1>16, <2>1, BreaksKeeps
<1>17. CASE Return
  <2>1. call' = NoCall /\ UNCHANGED <<handshakeVars, broken, query>>
    BY <1>17 DEF Return
  <2>2. Kept(NoCall)
    BY DEF Kept, NoCall, Methods
  <2> QED BY <1>1, <2>1, <2>2 DEF handshakeVars, DataInv, TypesInv, RepliesInv
<1> QED BY <1>4, <1>5, <1>6, <1>7, <1>8, <1>9, <1>10, <1>11, <1>12, <1>14, <1>15, <1>16, <1>17
     DEF RequestNext

\* What the server may state in its answer to ACCSEC.
LEMMA NegotiatedIs ==
  ASSUME NEW replies \in AccessSecurity
  PROVE  Negotiated(replies).mechanism \in Mechanisms \cup {0} /\ Negotiated(replies).token \in BOOLEAN
<1> DEFINE none == ACCSECRD(0, FALSE)
           K == {i \in DOMAIN replies : replies[i].cp = "ACCSECRD"}
           read == IF K = {} THEN none ELSE replies[Max(K)]
           Good(r) == r.mechanism \in Mechanisms \cup {0} /\ r.token \in BOOLEAN
<1>1. Negotiated(replies).mechanism = read.mechanism /\ Negotiated(replies).token = read.token
  BY DEF Negotiated, LastOf
<1>2. Good(none)
  BY DEF ACCSECRD
<1>3. \E a, b : /\ replies = <<a, b>> /\ (a.cp = "ACCSECRD" => Good(a))
                /\ (b.cp = "ACCSECRD" => Good(b))
  <2> DEFINE a == Message("EXCSATRD")
  <2>1. a.cp # "ACCSECRD"
    BY DEF Message
  <2>2. CASE replies = <<a, Message("RDBNFNRM")>>
    <3>1. Message("RDBNFNRM").cp # "ACCSECRD"
      BY DEF Message
    <3> HIDE DEF Good, a
    <3> QED BY <2>1, <2>2, <3>1
  <2>3. ASSUME NEW mechanism \in Mechanisms \cup {0}, NEW long \in BOOLEAN,
               replies = <<a, ACCSECRD(mechanism, long)>>
        PROVE  \E x, b : /\ replies = <<x, b>> /\ (x.cp = "ACCSECRD" => Good(x))
                         /\ (b.cp = "ACCSECRD" => Good(b))
    <3> DEFINE b == ACCSECRD(mechanism, long)
    <3>1. Good(b)
      BY DEF ACCSECRD
    <3> HIDE DEF Good, a, b
    <3> QED BY <2>1, <2>3, <3>1 DEF b
  <2> QED BY <2>2, <2>3 DEF AccessSecurity
<1>4. K # {} => Good(replies[Max(K)])
  <2> SUFFICES ASSUME K # {} PROVE Good(replies[Max(K)])
    OBVIOUS
  <2>1. PICK a, b : /\ replies = <<a, b>> /\ (a.cp = "ACCSECRD" => Good(a)) /\ (b.cp = "ACCSECRD" => Good(b))
    BY <1>3
  <2> HIDE DEF Good
  <2>2. IsChain(replies)
    BY <2>1, ChainTwo
  <2>3. Max(K) \in K
    BY <2>2, LastIn
  <2> DEFINE k == Max(K)
  <2>4. k \in DOMAIN replies /\ replies[k].cp = "ACCSECRD"
    BY <2>3
  <2> HIDE DEF k
  <2>5. replies[k] = a \/ replies[k] = b
    BY <2>1, <2>4
  <2> QED BY <2>1, <2>4, <2>5 DEF k
<1> HIDE DEF K
<1>5. Good(read)
  BY <1>2, <1>4
<1> QED BY <1>1, <1>5

\* The handshake starts with no request and keeps it so.
LEMMA HandshakeKeeps ==
  ASSUME DataInv, HandshakeNext
  PROVE  DataInv'
<1>1. CASE \E config \in Configs : NewSession(config)
  <2>1. /\ cfg' \in Configs /\ broken' = FALSE /\ token' = FALSE /\ socket' = "none" /\ offered' = 0
        /\ verdict' = "none" /\ call' = NoCall /\ query' = NoQuery
    BY <1>1 DEF NewSession
  <2>2. Kept(NoCall) /\ Fetching(NoQuery) /\ NoQuery.on = FALSE
    BY DEF Kept, NoCall, Methods, Fetching, NoQuery
  <2>3. RepliesInv'
    BY <2>1, <2>2 DEF RepliesInv, Kept, Fetching
  <2>4. TypesInv'
    BY <2>1 DEF TypesInv
  <2> QED BY <2>3, <2>4 DEF DataInv
<1>2. ASSUME UNCHANGED <<call, query>>, ~ query.on PROVE RepliesInv'
  BY <1>2 DEF DataInv, RepliesInv, Kept, Fetching
<1>3. step # "connected" => ~ query.on
  BY DEF DataInv, RepliesInv, Fetching
<1>4. ASSUME Dial \/ StartTLS \/ PostConnect \/ HandshakeLost \/ CloseSession
             \/ \E ok, lost \in BOOLEAN : SetRegisters(ok, lost)
      PROVE  DataInv'
  <2>1. UNCHANGED <<call, query>> /\ ~ query.on
    BY <1>3, <1>4 DEF Dial, StartTLS, PostConnect, HandshakeLost, CloseSession, SetRegisters,
       FailBefore, HandshakeFails, Usable
  <2>2. TypesInv'
    BY <1>4 DEF DataInv, TypesInv, Dial, StartTLS, PostConnect, HandshakeLost, CloseSession, SetRegisters,
       FailBefore, HandshakeFails
  <2> QED BY <1>2, <2>1, <2>2 DEF DataInv
<1>5. ASSUME NEW replies \in AccessSecurity, AccSec(replies) PROVE DataInv'
  <2>1. UNCHANGED <<call, query>> /\ ~ query.on
    BY <1>3, <1>5 DEF AccSec, HandshakeFails
  <2> DEFINE read == Negotiated(replies)
  <2>2. read.mechanism \in Mechanisms \cup {0} /\ read.token \in BOOLEAN
    BY NegotiatedIs
  <2>3. /\ offered' = read.mechanism /\ token' \in {token, read.token} /\ broken' \in {broken, broken \/ FALSE}
        /\ socket' \in {socket, "closed"} /\ UNCHANGED <<cfg, verdict>>
    BY <1>5 DEF AccSec, HandshakeFails
  <2> HIDE DEF read
  <2>4. TypesInv'
    BY <2>2, <2>3 DEF DataInv, TypesInv
  <2> QED BY <1>2, <2>1, <2>4 DEF DataInv
<1>6. ASSUME NEW kind \in DOMAIN Access, NEW replies \in Access[kind], SecChk(kind, replies) PROVE DataInv'
  <2>1. UNCHANGED <<call, query>> /\ ~ query.on
    BY <1>3, <1>6 DEF SecChk, HandshakeFails
  <2>3. /\ verdict' = kind /\ broken' \in {broken, broken \/ FALSE}
        /\ socket' \in {socket, "closed"} /\ UNCHANGED <<cfg, token, offered>>
    BY <1>6 DEF SecChk, HandshakeFails
  <2>4. TypesInv'
    BY <2>3 DEF DataInv, TypesInv
  <2> QED BY <1>2, <2>1, <2>4 DEF DataInv
<1> QED BY <1>1, <1>4, <1>5, <1>6 DEF HandshakeNext

\* Every step keeps what is known of the replies.
LEMMA DataStep ==
  ASSUME DataInv, [SessionNext]_vars
  PROVE  DataInv'
<1>1. CASE UNCHANGED vars
  BY <1>1 DEF vars, DataInv, TypesInv, RepliesInv, Kept, Fetching
<1> QED BY <1>1, HandshakeKeeps, RequestKeeps DEF SessionNext

\* What is known of the replies is an invariant of every run.
LEMMA DataInductive == SessionSpec => []DataInv
<1>1. SessionInit => DataInv
  <2> SUFFICES ASSUME SessionInit PROVE DataInv
    OBVIOUS
  <2>1. TypesInv
    BY DEF SessionInit, TypesInv
  <2>2. RepliesInv
    BY DEF SessionInit, RepliesInv, Kept, NoCall, Methods, Fetching, NoQuery
  <2> QED BY <2>1, <2>2 DEF DataInv
<1> QED BY <1>1, DataStep, PTL DEF SessionSpec

\* A request that its server failed, or that was lost before its first answer, is
\* reported as failed by every method that hears of it, one that was done never is.
THEOREM FailuresAreReported == SessionSpec => []ErrorsReported
<1>1. DataInv => ErrorsReported
  <2> SUFFICES ASSUME Kept(call) PROVE ErrorsReported
    BY DEF DataInv, RepliesInv
  <2>1. CASE call.method = "query"
    <3>1. call.lost = "none" /\ QueryTold(call.truth, call.result) /\ "no" \notin Hears["query"]
      BY <2>1, Unheard DEF Kept
    <3> QED BY <2>1, <3>1 DEF ErrorsReported, QueryTold
  <2>2. CASE call.method \notin {"none", "query"}
    BY <2>2 DEF Kept, Truthful, ErrorsReported
  <2> QED BY <2>1, <2>2 DEF ErrorsReported
<1> QED BY DataInductive, <1>1, PTL

\* What the server said is what the method returns (ReadDirect to ReadCall), for any
\* number of result sets.
THEOREM AnswersArrive == SessionSpec => []AnswersAreRead
<1>1. DataInv => AnswersAreRead
  <2> SUFFICES ASSUME Kept(call) PROVE AnswersAreRead
    BY DEF DataInv, RepliesInv
  <2>1. ASSUME NEW m \in {"direct", "exec", "describe", "call"}, Heard(m)
        PROVE  Truthful(m, call.truth, call.result) /\ call.truth.failed = "no"
    BY <2>1 DEF Kept, Heard
  <2> QED BY <2>1 DEF AnswersAreRead, Truthful
<1> QED BY DataInductive, <1>1, PTL

\* A query returns the rows and large objects of its cursor, all of them and in
\* order, wherever the server cut its blocks; or it has a reason not to.
THEOREM QueriesAreWhole == SessionSpec => []QueryIsWhole
<1>1. DataInv => QueryIsWhole
  BY DEF DataInv, RepliesInv, Kept, QueryTold, QueryIsWhole
<1> QED BY DataInductive, <1>1, PTL

\* The types of a session, and a query only on a session in use, from an open cursor.
THEOREM SessionTyped == SessionSpec => []SessionTypeOK
<1>1. DataInv /\ SessionInv => SessionTypeOK
  BY DEF DataInv, TypesInv, RepliesInv, Kept, Fetching, SessionInv, LifeCycle, SessionTypeOK
<1> QED BY DataInductive, SessionInductive, <1>1, PTL
=============================================================================
