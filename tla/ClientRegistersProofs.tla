----------------------- MODULE ClientRegistersProofs -----------------------
(***************************************************************************)
(* Theorems about ClientRegisters, for every number of registers, every    *)
(* set of values and users and every configuration.                        *)
(***************************************************************************)
EXTENDS ClientRegisters, TLAPS

\* The user the session believes in is the server's, in the middle of a switch too.
UserTracked == serverUser = shadowUser \/ broken

\* A ResetClientInfo in progress has brought the registers it has passed to their
\* targets, whether it sent them or skipped them, and has left the others alone, but
\* for those the copy is unsure of.  Connecting may find a workstation name on the
\* server; it is then sent again.
RegistersTracked ==
  place # "discarded" =>
     \/ broken
     \/ \A r \in Registers \ unsure :
          IF r < next THEN server[r] \in Configured(r, target[r])
          ELSE \/ server[r] \in Configured(r, shadow[r])
               \/ place = "connecting" /\ target[r] # shadow[r]

\* How far a ResetSession has come: the user is switched back first, and a session
\* that broke meanwhile never gets past that.
ResetProgress ==
  /\ place = "connecting" => next # 0
  /\ place = "resetting" =>
       /\ IF attempt = "none" THEN shadowUser = BaseUser /\ ~ broken
                              ELSE switchTo = BaseUser
       /\ next # 0 => target = Base

RegistersInv == RegistersTypeOK /\ UserTracked /\ RegistersTracked /\ ResetProgress

\* A register that has the configured value is configured.
LEMMA ConfiguredItself == \A r, v : v \in Configured(r, v)
BY DEF Configured

LEMMA RegistersInitInv == RegistersInit => RegistersInv
<1> SUFFICES ASSUME RegistersInit PROVE RegistersInv
  OBVIOUS
<1> USE RegistersAssumption DEF RegistersInit, Registers
<1>1. RegistersTypeOK
  <2>1. server \in [Registers -> Values \cup {Hostname}]
    OBVIOUS
  <2>2. shadow \in [Registers -> Values] /\ target \in [Registers -> Values]
    OBVIOUS
  <2>3. /\ place \in {"connecting", "held"} /\ next \in 0 .. NumRegisters + 1
        /\ serverUser \in Users /\ shadowUser \in Users /\ switchTo \in Users
        /\ attempt = "none" /\ broken = FALSE /\ unsure = {}
    OBVIOUS
  <2> QED BY <2>1, <2>2, <2>3 DEF RegistersTypeOK, Registers
<1>2. UserTracked
  BY DEF UserTracked
<1>3. RegistersTracked
  BY DEF RegistersTracked, Configured
<1>4. ResetProgress
  BY DEF ResetProgress
<1> QED BY <1>1, <1>2, <1>3, <1>4 DEF RegistersInv

LEMMA RegistersNextInv == RegistersInv /\ [RegistersNext]_vars => RegistersInv'
<1> SUFFICES ASSUME RegistersInv, [RegistersNext]_vars PROVE RegistersInv'
  OBVIOUS
<1> USE RegistersAssumption
<1> USE DEF RegistersInv, Registers, registerVars, userVars
<1>1. ASSUME NEW info \in [Registers -> Values], SetClientInfo(info)
      PROVE  RegistersInv'
  <2> USE <1>1 DEF SetClientInfo, Idle
  <2>1. RegistersTypeOK'
    BY DEF RegistersTypeOK
  <2>2. UserTracked'
    BY DEF UserTracked
  <2>3. RegistersTracked'
    BY DEF RegistersTracked, Configured, RegistersTypeOK
  <2>4. ResetProgress'
    BY DEF ResetProgress
  <2> QED BY <2>1, <2>2, <2>3, <2>4
<1>2. CASE SkipRegister
  <2> USE <1>2 DEF SkipRegister
  <2>1. RegistersTypeOK'
    BY DEF RegistersTypeOK, Idle
  <2>2. UserTracked'
    BY DEF UserTracked
  <2>3. RegistersTracked'
    BY DEF RegistersTracked, Configured, RegistersTypeOK
  <2>4. ResetProgress'
    BY DEF ResetProgress, RegistersTypeOK
  <2> QED BY <2>1, <2>2, <2>3, <2>4
<1>3. ASSUME NEW outcome \in {"done", "failed", "unheard", "lost"}, SetRegister(outcome)
      PROVE  RegistersInv'
  <2> USE <1>3 DEF SetRegister, Note, AfterFailure, Outcomes, SetOutcomes, SetInVain
  <2>1. RegistersTypeOK'
    <3>1. server' \in [Registers -> Values \cup {Hostname}]
      BY DEF RegistersTypeOK
    <3>2. unsure' \subseteq Registers
      BY DEF RegistersTypeOK
    <3>3. next' \in 0 .. NumRegisters + 1 /\ (next' = 0 \/ attempt' = "none")
      BY DEF RegistersTypeOK
    <3>4. /\ place' \in {"connecting", "held", "pooled", "resetting", "discarded"}
          /\ place' \in {"pooled", "discarded"} => Idle'
      BY DEF RegistersTypeOK, Idle
    <3>5. broken' \in BOOLEAN
      BY DEF RegistersTypeOK
    <3>6. UNCHANGED <<shadow, target, serverUser, shadowUser, switchTo, attempt>>
      OBVIOUS
    <3> HIDE DEF SetRegister
    <3> QED BY <3>1, <3>2, <3>3, <3>4, <3>5, <3>6 DEF RegistersTypeOK
  <2>2. UserTracked'
    BY DEF UserTracked
  <2>3. RegistersTracked'
    <3>1. CASE outcome = "done"
      BY <3>1, ConfiguredItself DEF RegistersTracked, RegistersTypeOK
    <3>2. CASE outcome = "failed"
      BY <3>2 DEF RegistersTracked, RegistersTypeOK
    <3>3. CASE outcome = "unheard"
      BY <3>3 DEF RegistersTracked, RegistersTypeOK
    <3>4. CASE outcome = "lost"
      BY <3>4 DEF RegistersTracked, RegistersTypeOK
    <3> QED BY <3>1, <3>2, <3>3, <3>4
  <2>4. ResetProgress'
    BY DEF ResetProgress, RegistersTypeOK
  <2> QED BY <2>1, <2>2, <2>3, <2>4
<1>4. CASE ResetDone
  <2> USE <1>4 DEF ResetDone, Remembered
  <2>1. RegistersTypeOK'
    BY DEF RegistersTypeOK, Idle
  <2>2. UserTracked'
    BY DEF UserTracked
  <2>3. RegistersTracked'
    BY DEF RegistersTracked, RegistersTypeOK, Idle
  <2>4. ResetProgress'
    BY DEF ResetProgress
  <2> QED BY <2>1, <2>2, <2>3, <2>4
<1>5. ASSUME NEW u \in Users, NEW password \in BOOLEAN, SwitchUser(u, password)
      PROVE  RegistersInv'
  <2> USE <1>5 DEF SwitchUser, Idle
  <2>1. RegistersTypeOK'
    BY DEF RegistersTypeOK
  <2>2. UserTracked' /\ RegistersTracked'
    BY DEF UserTracked, RegistersTracked, Configured
  <2>3. ResetProgress'
    BY DEF ResetProgress
  <2> QED BY <2>1, <2>2, <2>3
<1>6. ASSUME NEW outcome \in {"done", "failed", "lost"}, AttemptSwitch(outcome)
      PROVE  RegistersInv'
  <2> USE <1>6 DEF AttemptSwitch, Note, AfterFailure, Outcomes, KnownUser, GivesUp, Fallback
  <2>1. RegistersTypeOK'
    BY DEF RegistersTypeOK, Idle
  <2>2. UserTracked'
    BY DEF UserTracked
  <2>3. RegistersTracked'
    BY DEF RegistersTracked, Configured, RegistersTypeOK
  <2>4. ResetProgress'
    BY DEF ResetProgress, RegistersTypeOK
  <2> QED BY <2>1, <2>2, <2>3, <2>4
<1>7. CASE PutBack
  <2> USE <1>7 DEF PutBack, Idle
  <2>1. RegistersTypeOK'
    BY DEF RegistersTypeOK
  <2>2. UserTracked' /\ RegistersTracked' /\ ResetProgress'
    BY DEF UserTracked, RegistersTracked, Configured, ResetProgress
  <2> QED BY <2>1, <2>2
<1>8. CASE Checkout
  <2> USE <1>8 DEF Checkout
  <2>1. RegistersTypeOK'
    BY DEF RegistersTypeOK, Idle
  <2>2. UserTracked' /\ RegistersTracked'
    BY DEF UserTracked, RegistersTracked, Configured
  <2>3. ResetProgress'
    BY DEF ResetProgress, RegistersTypeOK, Idle
  <2> QED BY <2>1, <2>2, <2>3
<1>9. CASE ResetRegisters
  <2> USE <1>9 DEF ResetRegisters, Idle, ClientInfoMatches
  <2>1. RegistersTypeOK'
    BY DEF RegistersTypeOK
  <2>2. UserTracked'
    BY DEF UserTracked
  <2>3. RegistersTracked'
    BY DEF RegistersTracked, Configured, RegistersTypeOK
  <2>4. ResetProgress'
    BY DEF ResetProgress
  <2> QED BY <2>1, <2>2, <2>3, <2>4
<1>10. CASE UNCHANGED vars
  BY <1>10 DEF vars, registerVars, userVars, RegistersTypeOK, UserTracked,
               RegistersTracked, Configured, ResetProgress, Idle
<1> QED BY <1>1, <1>2, <1>3, <1>4, <1>5, <1>6, <1>7, <1>8, <1>9, <1>10 DEF RegistersNext

-----------------------------------------------------------------------------
LEMMA RegistersInductive == RegistersSpec => []RegistersInv
BY RegistersInitInv, RegistersNextInv, PTL DEF RegistersSpec

\* The types of the registers, the users and the progress of a reset.
THEOREM RegistersTyped == RegistersSpec => []RegistersTypeOK
<1>1. RegistersInv => RegistersTypeOK
  BY DEF RegistersInv
<1> QED BY RegistersInductive, <1>1, PTL

\* The session knows which user the server works for, whatever is refused or lost
\* on the way, until it is broken (SwitchUser, resetUser).
THEOREM UserStaysKnown == RegistersSpec => []UserKnown
<1>1. RegistersInv => UserKnown
  BY DEF RegistersInv, UserTracked, UserKnown
<1> QED BY RegistersInductive, <1>1, PTL

\* Until it is broken the session knows each register of the server but those whose
\* SET was refused unheard or stood in a call that failed, for any number of them
\* (ResetClientInfo, ExecSQLSet).
THEOREM RegistersStayKnown == RegistersSpec => []RegistersKnown
<1>1. RegistersInv => RegistersKnown
  BY DEF RegistersInv, RegistersTracked, RegistersKnown, RegistersTypeOK, ResetProgress,
         Registers
<1> QED BY RegistersInductive, <1>1, PTL

\* ResetSession gives the next user of the pool the configured user and each
\* configured register that no SET refused unheard, now or before, and no failed call
\* has made the copy unsure of.
THEOREM CheckoutRestores == RegistersSpec => CheckoutIsBase
<1> DEFINE Restores ==
      (place = "resetting" /\ place' = "held") =>
        /\ serverUser' = BaseUser
        /\ \A r \in Registers \ unsure' : server'[r] \in Configured(r, Base[r])
<1>1. RegistersInv /\ [RegistersNext]_vars => [Restores]_vars
  <2> SUFFICES ASSUME RegistersInv, RegistersNext, place = "resetting", place' = "held"
               PROVE  /\ serverUser' = BaseUser
                      /\ \A r \in Registers \ unsure' : server'[r] \in Configured(r, Base[r])
    OBVIOUS
  <2>1. ResetDone \/ (ResetRegisters /\ ClientInfoMatches)
    BY DEF RegistersNext, SetClientInfo, SwitchUser, SkipRegister, SetRegister,
           AfterFailure, AttemptSwitch, PutBack, Checkout, ResetRegisters
  <2>2. attempt = "none"
    BY <2>1, RegistersAssumption
    DEF RegistersInv, RegistersTypeOK, ResetDone, ResetRegisters, Idle
  <2>3. ~ broken /\ serverUser = BaseUser
    BY <2>2 DEF RegistersInv, ResetProgress, UserTracked
  <2>4. serverUser' = serverUser /\ server' = server /\ unsure' = unsure
    BY <2>1 DEF ResetDone, ResetRegisters, userVars
  <2>5. CASE ResetDone
    <3>1. target = Base /\ next = NumRegisters + 1
      BY <2>5, RegistersAssumption DEF ResetDone, RegistersInv, ResetProgress
    <3>2. \A r \in Registers \ unsure : server[r] \in Configured(r, target[r])
      BY <3>1, <2>3, RegistersAssumption DEF RegistersInv, RegistersTracked, Registers
    <3> QED BY <3>1, <3>2, <2>3, <2>4
  <2>6. CASE ResetRegisters /\ ClientInfoMatches
    <3>1. shadow = Base /\ next = 0
      BY <2>6 DEF ResetRegisters, ClientInfoMatches, Idle
    <3>2. \A r \in Registers \ unsure : server[r] \in Configured(r, shadow[r])
      BY <3>1, <2>3, RegistersAssumption DEF RegistersInv, RegistersTracked, Registers
    <3> QED BY <3>1, <3>2, <2>3, <2>4
  <2> QED BY <2>1, <2>5, <2>6
<1> QED BY RegistersInitInv, RegistersNextInv, <1>1, PTL DEF RegistersSpec, CheckoutIsBase
=============================================================================
