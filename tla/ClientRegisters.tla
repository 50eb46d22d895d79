--------------------------- MODULE ClientRegisters ---------------------------
(***************************************************************************)
(* The identity a pooled connection works under: the session user and the  *)
(* client registers (SET CLIENT ...), which a caller changes through its   *)
(* context or by SwitchUser and SetClientInfo and ResetSession puts back   *)
(* before the next user of the pool (connection.go,                        *)
(* internal/drda/session.go).                                              *)
(*                                                                         *)
(* The server holds the registers; the session keeps a copy of them in its *)
(* configuration and decides by the copy what it needs to send.  The copy  *)
(* is written once, after the last SET of a call.                          *)
(***************************************************************************)
EXTENDS Naturals

CONSTANTS NumRegisters,  \* client registers, in the order they are set; 5 in the code
          Wrkstn,        \* the one that connecting sets to the host name
          Values,        \* values of a register
          Empty,         \* the empty string
          Hostname,      \* the name of the client's host
          Base,          \* the registers configured in the DSN
          Users,
          BaseUser       \* the configured user

Registers == 1 .. NumRegisters

ASSUME RegistersAssumption ==
  /\ NumRegisters \in Nat \ {0} /\ Wrkstn \in Registers
  /\ Empty \in Values /\ Hostname \notin Values
  /\ Base \in [Registers -> Values]
  /\ BaseUser \in Users

VARIABLES place,       \* "connecting", "held", "pooled", "resetting", "discarded"
          server,      \* server: the client registers
          shadow,      \* the session's copy
          target,      \* what a ResetClientInfo in progress sets
          next,        \* the register it is at; 0 when none is in progress
          serverUser,  \* server: the session user
          shadowUser,  \* the session's copy
          switchTo,    \* the user a SwitchUser in progress switches to
          attempt,     \* the way it tries: "none", "authorization", "session_user", "secchk"
          broken,      \* Session.broken
          unsure       \* history: the registers the copy may be wrong about

registerVars == <<server, shadow, target, next>>
userVars     == <<serverUser, shadowUser, switchTo, attempt>>
vars == <<place, registerVars, userVars, broken, unsure>>

\* The value a register has when the configuration says v.
Configured(r, v) == IF r = Wrkstn /\ v = Empty THEN {Empty, Hostname} ELSE {v}

Idle == next = 0 /\ attempt = "none"

\* The answers a request may get.
Outcomes == IF broken THEN {"lost"} ELSE {"done", "failed", "lost"}

Note(outcome) == broken' = (broken \/ outcome = "lost")

\* A SET may also be refused by a message (SQLERRRM), to which ExecSQLSet does not
\* listen: it looks at cards only.
SetOutcomes == Outcomes \cup (IF broken THEN {} ELSE {"unheard"})

\* handshake has run: the workstation name is on the server, unless the server has
\* refused it, for the reply is not looked at.  Connect then clears the copy and
\* applies the configured registers, if there are any.
RegistersInit ==
  /\ \E name \in {Empty, IF Base[Wrkstn] # Empty THEN Base[Wrkstn] ELSE Hostname} :
       server = [r \in Registers |-> IF r = Wrkstn THEN name ELSE Empty]
  /\ shadow = [r \in Registers |-> Empty]
  /\ target = Base
  /\ IF \E r \in Registers : Base[r] # Empty
     THEN place = "connecting" /\ next = 1
     ELSE place = "held" /\ next = 0
  /\ serverUser = BaseUser /\ shadowUser = BaseUser /\ switchTo = BaseUser
  /\ attempt = "none"
  /\ broken = FALSE /\ unsure = {}

-----------------------------------------------------------------------------
\* SetClientInfo: the fields that are given, the copy for the others.
SetClientInfo(info) ==
  /\ place = "held" /\ Idle
  /\ \E r \in Registers : info[r] # Empty
  /\ target' = [r \in Registers |-> IF info[r] # Empty THEN info[r] ELSE shadow[r]]
  /\ next' = 1
  /\ UNCHANGED <<place, server, shadow, userVars, broken, unsure>>

\* ResetClientInfo sends nothing for a register whose copy has the value already.
SkipRegister ==
  /\ next \in Registers /\ target[next] = shadow[next]
  /\ next' = next + 1
  /\ UNCHANGED <<place, server, shadow, target, userVars, broken, unsure>>

\* What a failed ResetClientInfo leads to: Connect closes the session, ResetSession
\* has it discarded, a caller gets the error and goes on.
AfterFailure == IF place = "held" THEN place ELSE "discarded"

\* The registers a call that fails at register next has set and does not remember.
SetInVain == {r \in Registers : r < next /\ target[r] # shadow[r]}

\* ExecSQLSet, with its spellings tried one after the other.  The first register
\* that fails ends the call; those set before it stay set, and the copy is as before.
\* A refusal that is not heard counts as a register set.
SetRegister(outcome) ==
  /\ next \in Registers /\ target[next] # shadow[next]
  /\ outcome \in SetOutcomes
  /\ server' \in CASE outcome = "done" -> {[server EXCEPT ![next] = target[next]]}
                   [] outcome \in {"failed", "unheard"} -> {server}
                   [] OTHER -> IF broken THEN {server}
                               ELSE {server, [server EXCEPT ![next] = target[next]]}
  /\ Note(outcome)
  /\ unsure' = CASE outcome = "done"    -> unsure \ {next}
                 [] outcome = "unheard" -> unsure \cup {next}
                 [] OTHER               -> unsure \cup SetInVain
  /\ IF outcome \in {"done", "unheard"} THEN next' = next + 1 /\ UNCHANGED place
                                        ELSE next' = 0 /\ place' = AfterFailure
  /\ UNCHANGED <<shadow, target, userVars>>

\* A write-back that forgets the last register.
RememberedButLast ==
  shadow' = [r \in Registers |-> IF r = NumRegisters THEN shadow[r] ELSE target[r]]

Remembered == shadow' = target

\* Every register is set: the copy is written and the call returns.
ResetDone ==
  /\ next = NumRegisters + 1
  /\ Remembered
  /\ next' = 0
  /\ place' = "held"
  /\ UNCHANGED <<server, target, userVars, broken, unsure>>

-----------------------------------------------------------------------------
\* SwitchUser: without a password by SQL first, with one by SECCHK alone.  (A context
\* that names the user of the session asks for no switch; Conn.SwitchUser asks always.)
SwitchUser(u, password) ==
  /\ place = "held" /\ Idle
  /\ switchTo' = u
  /\ attempt' = IF password THEN "secchk" ELSE "authorization"
  /\ UNCHANGED <<place, registerVars, serverUser, shadowUser, broken, unsure>>

\* The next way to try after one that failed.
Fallback == CASE attempt = "authorization" -> "session_user"
              [] attempt = "session_user"  -> "secchk"
              [] OTHER -> "none"

\* A switch that notes the new user although the attempt failed.
BelievedUser(outcome) == switchTo

\* The copy of the user is written after a confirmed switch only.
KnownUser(outcome) == IF outcome = "done" THEN switchTo ELSE shadowUser

\* A reset that gives the connection up after the first attempt and goes on trying.
GivesUpAtOnce(outcome) == outcome # "done"

\* The last attempt has failed.
GivesUp(outcome) == outcome # "done" /\ Fallback = "none"

\* One attempt.  A lost one is tried on too, in vain: the session is broken.  When
\* the last has failed the caller gets the error, ResetSession gives up.
AttemptSwitch(outcome) ==
  /\ attempt # "none"
  /\ outcome \in Outcomes
  /\ serverUser' \in CASE outcome = "done"   -> {switchTo}
                       [] outcome = "failed" -> {serverUser}
                       [] OTHER -> IF broken THEN {serverUser} ELSE {serverUser, switchTo}
  /\ shadowUser' = KnownUser(outcome)
  /\ Note(outcome)
  /\ attempt' = IF outcome = "done" THEN "none" ELSE Fallback
  /\ place' = IF GivesUp(outcome) THEN AfterFailure ELSE place
  /\ UNCHANGED <<registerVars, switchTo, unsure>>

-----------------------------------------------------------------------------
\* database/sql puts the connection back, or discards it when IsValid is false.
PutBack ==
  /\ place = "held" /\ Idle
  /\ place' = IF broken THEN "discarded" ELSE "pooled"
  /\ UNCHANGED <<registerVars, userVars, broken, unsure>>

\* ResetSession: the user first, if the copy says it is another one.
Checkout ==
  /\ place = "pooled"
  /\ IF broken THEN place' = "discarded" /\ UNCHANGED <<switchTo, attempt>>
     ELSE /\ place' = "resetting"
          /\ IF shadowUser # BaseUser
             THEN switchTo' = BaseUser /\ attempt' = "authorization"
             ELSE UNCHANGED <<switchTo, attempt>>
  /\ UNCHANGED <<registerVars, serverUser, shadowUser, broken, unsure>>

\* A comparison that stops at the first register.
FirstMatches == shadow[1] = Base[1]

\* ClientInfoMatches looks at the copy.
ClientInfoMatches == shadow = Base

\* ... then the registers, if the copy differs from the configuration.
ResetRegisters ==
  /\ place = "resetting" /\ Idle
  /\ IF ClientInfoMatches
     THEN place' = "held" /\ UNCHANGED <<target, next>>
     ELSE target' = Base /\ next' = 1 /\ UNCHANGED place
  /\ UNCHANGED <<server, shadow, userVars, broken, unsure>>

RegistersNext ==
  \/ \E info \in [Registers -> Values] : SetClientInfo(info)
  \/ \E u \in Users, password \in BOOLEAN : SwitchUser(u, password)
  \/ \E outcome \in {"done", "failed", "unheard", "lost"} : SetRegister(outcome)
  \/ \E outcome \in {"done", "failed", "lost"} : AttemptSwitch(outcome)
  \/ SkipRegister \/ ResetDone \/ PutBack \/ Checkout \/ ResetRegisters

RegistersSpec == RegistersInit /\ [][RegistersNext]_vars

-----------------------------------------------------------------------------
\* The identity of a session has the shape the code relies on; at most one of its
\* changes is in progress, in a connection that is not in the pool.
RegistersTypeOK ==
  /\ place \in {"connecting", "held", "pooled", "resetting", "discarded"}
  /\ server \in [Registers -> Values \cup {Hostname}]
  /\ shadow \in [Registers -> Values] /\ target \in [Registers -> Values]
  /\ next \in 0 .. NumRegisters + 1
  /\ serverUser \in Users /\ shadowUser \in Users /\ switchTo \in Users
  /\ attempt \in {"none", "authorization", "session_user", "secchk"}
  /\ broken \in BOOLEAN /\ unsure \subseteq Registers
  /\ next = 0 \/ attempt = "none"
  /\ place \in {"pooled", "discarded"} => Idle

\* While no switch is in progress, the user the session believes it works as is the
\* user of the server, through failed attempts, fallbacks and lost answers, until
\* the session is broken.
UserKnown == attempt = "none" => serverUser = shadowUser \/ broken

\* Until the session is broken, the copy of a register is what the server has, over
\* calls that skip what the copy has already and calls that fail at some register.
\* Left out is a register whose SET was refused unheard (ExecSQLSet) or was followed
\* by a failure in the same call (ResetClientInfo), until a SET of it gets through
\* and is remembered.
RegistersKnown ==
  (next = 0 /\ place # "discarded") =>
     \/ broken
     \/ \A r \in Registers \ unsure : server[r] \in Configured(r, shadow[r])

\* Whoever takes the connection from the pool works as the configured user and with
\* the configured registers: with each that no refused SET, of this reset or of an
\* earlier call, has made the copy unsure of.
CheckoutIsBase ==
  [][ (place = "resetting" /\ place' = "held") =>
        /\ serverUser' = BaseUser
        /\ \A r \in Registers \ unsure' : server'[r] \in Configured(r, Base[r]) ]_vars

\* README: registers "are automatically synchronized"; connection.go: "to ensure
\* proper multi-tenant identity isolation and auditability".  So no user of the
\* pool works with a register that another user set: it has the configured value,
\* or none because the server never took one.
NoForeignRegisters ==
  [][ (place = "resetting" /\ place' = "held") =>
        \A r \in Registers : server'[r] \in Configured(r, Base[r]) \cup {Empty} ]_vars
=============================================================================
