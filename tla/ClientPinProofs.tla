--------------------------- MODULE ClientPinProofs ---------------------------
(***************************************************************************)
(* Theorems about ClientPin for any platforms, PINs, counter maximum and   *)
(* mismatch limit.  Inv is inductive: the typing, the four invariants the  *)
(* run checks, and Undisturbed, which ties a platform's handshake to the   *)
(* register it was made in and is what OnlyOvertakenMismatch rests on.     *)
(***************************************************************************)
EXTENDS ClientPin, TLAPS

\* A platform between its handshake and its token request still owns the
\* register it agreed in unless another platform overtook it.
Undisturbed ==
    \A c \in Clients :
        /\ session[c].stage \in {"agreed", "ready"}
        /\ c \notin overtaken
        => register[session[c].proto].holder = c

Inv ==
    /\ TypeOK
    /\ GuessBudget
    /\ LatchFollowsStreak
    /\ TokenBelongsToHolder
    /\ Undisturbed

-----------------------------------------------------------------------------
(* What an admitted request may assume.                                    *)

\* Every screen that admits a request says something about the token's state.
LEMMA AdmittedOpen ==
    ASSUME NEW r, Admitted(r)
    PROVE  /\ armed
           /\ pin # NoPin
           /\ retries # 0
           /\ ~latched
           /\ register[r.proto].holder # NoClient
<1>1. \A i \in 1..8 : ~Screens(r)[i].stops
  BY DEF Admitted
<1>2. /\ ~Screens(r)[1].stops /\ ~Screens(r)[3].stops /\ ~Screens(r)[4].stops
      /\ ~Screens(r)[5].stops /\ ~Screens(r)[7].stops
  BY <1>1
<1>3. QED BY <1>2 DEF Screens

\* A platform's token request is a request.
LEMMA TokenRequestType ==
    ASSUME TypeOK, NEW c \in Clients
    PROVE  TokenRequest(c) \in Request
BY DEF TypeOK, Session, TokenRequest, Request

-----------------------------------------------------------------------------
(* One exchange preserves each part of the invariant.                      *)

LEMMA ExchangeType ==
    ASSUME Inv, NEW r \in Request, NEW status, Exchange(r, status)
    PROVE  /\ retries' \in 0..MaxRetries
           /\ mismatches' \in 0..MismatchLimit
           /\ latched' \in BOOLEAN
           /\ register' \in [Protocols -> Agreement]
           /\ guesses' \in Nat
           /\ UNCHANGED <<armed, pin>>
<1> USE ClientPinAssumption DEF Inv, TypeOK
<1>1. CASE Refused(r, status)
  BY <1>1 DEF Refused, device
<1>2. CASE Wasted(r, status)
  BY <1>2, AdmittedOpen DEF Wasted
<1>3. CASE Mismatched(r, status)
  <2>1. retries # 0 /\ ~latched
    BY <1>3, AdmittedOpen DEF Mismatched
  <2>2. mismatches # MismatchLimit
    BY <2>1 DEF LatchFollowsStreak
  <2>3. QED BY <1>3, <2>1, <2>2 DEF Mismatched
<1>4. CASE Granted(r, status)
  <2>1. r.proto \in Protocols /\ r.from \in Clients \cup {NoClient}
    BY DEF Request
  <2>2. register' \in [Protocols -> Agreement]
    BY <1>4, <2>1 DEF Granted, Agreement
  <2>3. QED BY <1>4, <2>2 DEF Granted
<1>5. QED BY <1>1, <1>2, <1>3, <1>4 DEF Exchange

LEMMA ExchangeCounters ==
    ASSUME Inv, NEW r \in Request, NEW status, Exchange(r, status)
    PROVE  GuessBudget' /\ LatchFollowsStreak'
<1> USE ClientPinAssumption DEF Inv, TypeOK, GuessBudget, LatchFollowsStreak
<1>1. CASE Refused(r, status)
  BY <1>1 DEF Refused, device
<1>2. CASE Wasted(r, status)
  BY <1>2, AdmittedOpen DEF Wasted
<1>3. CASE Mismatched(r, status)
  <2>1. retries # 0 /\ ~latched /\ mismatches # MismatchLimit
    BY <1>3, AdmittedOpen DEF Mismatched
  <2>2. GuessBudget'
    BY <1>3, <2>1 DEF Mismatched
  <2>3. CASE mismatches + 1 >= MismatchLimit
    <3>1. latched' /\ mismatches' = mismatches + 1
      BY <1>3, <2>3 DEF Mismatched
    <3>2. mismatches' = MismatchLimit
      BY <2>1, <2>3, <3>1
    <3>3. QED BY <2>2, <3>1, <3>2
  <2>4. CASE ~(mismatches + 1 >= MismatchLimit)
    <3>1. ~latched' /\ mismatches' = mismatches + 1
      BY <1>3, <2>1, <2>4 DEF Mismatched
    <3>2. mismatches' # MismatchLimit
      BY <2>4, <3>1
    <3>3. QED BY <2>2, <3>1, <3>2
  <2>5. QED BY <2>3, <2>4
<1>4. CASE Granted(r, status)
  <2>1. ~latched
    BY <1>4, AdmittedOpen DEF Granted
  <2>2. QED BY <1>4, <2>1 DEF Granted
<1>5. QED BY <1>1, <1>2, <1>3, <1>4 DEF Exchange

\* An exchange writes tokens but no holders, and only the holder's token.
LEMMA ExchangeRegisters ==
    ASSUME Inv, NEW r \in Request, NEW status, Exchange(r, status)
    PROVE  /\ TokenBelongsToHolder'
           /\ \A p \in Protocols : register'[p].holder = register[p].holder
<1> USE DEF Inv, TypeOK, TokenBelongsToHolder
<1>1. CASE Granted(r, status)
  <2>1. r.proto \in Protocols
    BY DEF Request
  <2>2. register[r.proto].holder = r.from
    BY <1>1 DEF Granted, Matches
  <2>3. QED BY <1>1, <2>1, <2>2 DEF Granted, Agreement
<1>2. CASE Refused(r, status) \/ Wasted(r, status) \/ Mismatched(r, status)
  BY <1>2 DEF Refused, Wasted, Mismatched, device
<1>3. QED BY <1>1, <1>2 DEF Exchange

-----------------------------------------------------------------------------
(* The invariant.                                                          *)

LEMMA InvInit == Init => Inv
<1> SUFFICES ASSUME Init PROVE Inv
  OBVIOUS
<1> USE ClientPinAssumption DEF Init
<1>1. TypeOK
  <2>1. register \in [Protocols -> Agreement]
    BY DEF NoAgreement, Agreement
  <2>2. session \in [Clients -> Session]
    BY DEF Idle, Session, Stages, Protocols
  <2>3. knobs \in AllKnobs
    BY DEF AllKnobs
  <2>4. retries \in 0..MaxRetries /\ mismatches \in 0..MismatchLimit
    OBVIOUS
  <2>5. QED BY <2>1, <2>2, <2>3, <2>4 DEF TypeOK
<1>2. GuessBudget /\ LatchFollowsStreak
  BY DEF GuessBudget, LatchFollowsStreak
<1>3. TokenBelongsToHolder
  BY DEF TokenBelongsToHolder, NoAgreement
<1>4. Undisturbed
  BY DEF Undisturbed, Idle
<1>5. QED BY <1>1, <1>2, <1>3, <1>4 DEF Inv

\* Ending an acquisition disturbs no other.
LEMMA FinishSession ==
    ASSUME Inv, NEW c \in Clients, Finish(c),
           \A p \in Protocols : register'[p].holder = register[p].holder
    PROVE  /\ session' \in [Clients -> Session]
           /\ overtaken' \in SUBSET Clients
           /\ Undisturbed'
<1> USE DEF Inv, TypeOK
<1>1. session' \in [Clients -> Session] /\ overtaken' \in SUBSET Clients
  BY DEF Finish, Idle, Session, Stages, Protocols
<1>2. ASSUME NEW d \in Clients,
             session'[d].stage \in {"agreed", "ready"}, d \notin overtaken'
      PROVE  register'[session'[d].proto].holder = d
  <2>1. d # c
    BY <1>2 DEF Finish, Idle
  <2>2. session'[d] = session[d] /\ d \notin overtaken
    BY <1>2, <2>1 DEF Finish
  <2>3. session[d].proto \in Protocols
    BY DEF Session
  <2>4. QED BY <1>2, <2>2, <2>3 DEF Undisturbed
<1>3. QED BY <1>1, <1>2 DEF Undisturbed

\* Steps that leave the token's counters, registers and sessions alone.
LEMMA Untouched ==
    ASSUME Inv, UNCHANGED <<device, session, guesses, overtaken>>
    PROVE  /\ GuessBudget' /\ LatchFollowsStreak'
           /\ TokenBelongsToHolder' /\ Undisturbed'
BY DEF Inv, device, GuessBudget, LatchFollowsStreak, TokenBelongsToHolder, Undisturbed

LEMMA InvNext == Inv /\ [Next]_vars => Inv'
<1> SUFFICES ASSUME Inv, [Next]_vars PROVE Inv'
  OBVIOUS
<1> USE ClientPinAssumption
<1>1. ASSUME NEW p \in Pins, SetPin(p) PROVE Inv'
  <2>1. TypeOK'
    BY <1>1 DEF Inv, TypeOK, SetPin, harness
  <2>2. GuessBudget' /\ LatchFollowsStreak'
    BY <1>1 DEF Inv, TypeOK, SetPin, GuessBudget, LatchFollowsStreak
  <2>3. TokenBelongsToHolder' /\ Undisturbed'
    BY <1>1 DEF Inv, SetPin, TokenBelongsToHolder, Undisturbed
  <2>4. QED BY <2>1, <2>2, <2>3 DEF Inv
<1>2. ASSUME ClearPin PROVE Inv'
  <2>1. TypeOK'
    BY <1>2 DEF Inv, TypeOK, ClearPin, harness
  <2>2. GuessBudget' /\ LatchFollowsStreak'
    BY <1>2 DEF Inv, TypeOK, ClearPin, GuessBudget, LatchFollowsStreak
  <2>3. TokenBelongsToHolder' /\ Undisturbed'
    BY <1>2 DEF Inv, ClearPin, TokenBelongsToHolder, Undisturbed
  <2>4. QED BY <2>1, <2>2, <2>3 DEF Inv
<1>3. ASSUME PowerCycle PROVE Inv'
  <2>1. TypeOK'
    <3>1. latched' \in BOOLEAN
      BY <1>3 DEF PowerCycle
    <3>2. QED BY <1>3, <3>1 DEF Inv, TypeOK, PowerCycle, harness
  <2>2. GuessBudget' /\ LatchFollowsStreak'
    BY <1>3 DEF Inv, TypeOK, PowerCycle, GuessBudget, LatchFollowsStreak
  <2>3. TokenBelongsToHolder' /\ Undisturbed'
    BY <1>3 DEF Inv, PowerCycle, TokenBelongsToHolder, Undisturbed
  <2>4. QED BY <2>1, <2>2, <2>3 DEF Inv
<1>4. ASSUME NEW list \in Adverts, SetPinProtocols(list) PROVE Inv'
  <2>1. TypeOK'
    BY <1>4 DEF Inv, TypeOK, SetPinProtocols, device
  <2>2. QED BY <1>4, <2>1, Untouched DEF SetPinProtocols, Inv
<1>5. ASSUME NEW k \in KnobSettings, SetClientPinKnobs(k) PROVE Inv'
  <2>1. TypeOK'
    BY <1>5 DEF Inv, TypeOK, SetClientPinKnobs, device
  <2>2. QED BY <1>5, <2>1, Untouched DEF SetClientPinKnobs, Inv
<1>6. ASSUME NEW mode \in {"none", "once", "persistent"}, InjectStatus(mode) PROVE Inv'
  <2>1. injected' \in {"none", "once", "persistent"}
    BY <1>6 DEF InjectStatus
  <2>2. TypeOK'
    BY <1>6, <2>1 DEF Inv, TypeOK, InjectStatus, device, harness
  <2>3. QED BY <1>6, <2>2, Untouched DEF InjectStatus, Inv
<1>7. ASSUME NEW c \in Clients, NEW p \in Protocols, Probe(c, p) PROVE Inv'
  <2>1. session' \in [Clients -> Session]
    <3>1. session[c] \in Session
      BY DEF Inv, TypeOK
    <3>2. [session[c] EXCEPT !.stage = "probed", !.proto = p] \in Session
      BY <3>1 DEF Session, Stages
    <3>3. QED BY <1>7, <3>2 DEF Inv, TypeOK, Probe
  <2>2. TypeOK'
    BY <1>7, <2>1 DEF Inv, TypeOK, Probe, device, harness
  <2>3. GuessBudget' /\ LatchFollowsStreak' /\ TokenBelongsToHolder'
    BY <1>7 DEF Inv, Probe, device, GuessBudget, LatchFollowsStreak, TokenBelongsToHolder
  <2>4. Undisturbed'
    BY <1>7 DEF Inv, TypeOK, Probe, device, Undisturbed, Session
  <2>5. QED BY <2>2, <2>3, <2>4 DEF Inv
<1>8. ASSUME NEW c \in Clients, Agree(c) PROVE Inv'
  <2> DEFINE p == session[c].proto
  <2>1. p \in Protocols /\ session[c] \in Session
    BY DEF Inv, TypeOK, Session
  <2>2. register' \in [Protocols -> Agreement]
    BY <1>8, <2>1 DEF Inv, TypeOK, Agree, Regenerate, Agreement, Protocols
  <2>3. session' \in [Clients -> Session] /\ overtaken' \in SUBSET Clients
    BY <1>8, <2>1 DEF Inv, TypeOK, Agree, Session, Stages
  <2>4. TypeOK'
    BY <1>8, <2>2, <2>3 DEF Inv, TypeOK, Agree, harness, lock
  <2>5. GuessBudget' /\ LatchFollowsStreak'
    BY <1>8 DEF Inv, Agree, lock, GuessBudget, LatchFollowsStreak
  <2>6. TokenBelongsToHolder'
    BY <1>8, <2>1 DEF Inv, TypeOK, Agree, Regenerate, TokenBelongsToHolder
  <2>7. ASSUME NEW d \in Clients,
               session'[d].stage \in {"agreed", "ready"}, d \notin overtaken'
        PROVE  register'[session'[d].proto].holder = d
    <3>1. CASE d = c
      <4>1. session'[d].proto = p
        BY <1>8, <3>1 DEF Agree, Inv, TypeOK
      <4>2. register'[p].holder = c
        BY <1>8, <2>1 DEF Agree, Regenerate, Inv, TypeOK
      <4>3. QED BY <3>1, <4>1, <4>2
    <3>2. CASE d # c
      <4>1. session'[d] = session[d] /\ session[d].proto \in Protocols
        BY <1>8, <3>2 DEF Agree, Inv, TypeOK, Session
      <4>2. d \notin overtaken /\ session[d].proto # p
        BY <1>8, <2>7, <3>2, <4>1 DEF Agree
      <4>3. register'[session[d].proto] = register[session[d].proto]
        BY <1>8, <4>1, <4>2 DEF Agree, Regenerate, Inv, TypeOK
      <4>4. QED BY <2>7, <4>1, <4>2, <4>3 DEF Inv, Undisturbed
    <3>3. QED BY <3>1, <3>2
  <2>8. Undisturbed'
    BY <2>7 DEF Undisturbed
  <2>9. QED BY <2>4, <2>5, <2>6, <2>8 DEF Inv
<1>9. ASSUME NEW c \in Clients,
             (\E s \in Statuses : AgreeRefused(c, s)) \/ MeetInjection(c) \/ Abandon(c)
      PROVE  Inv'
  <2>1. Finish(c) /\ UNCHANGED <<device, harness, guesses>>
    BY <1>9 DEF AgreeRefused, MeetInjection, Abandon
  <2>2. injected' \in {"none", "once", "persistent"}
    BY <1>9 DEF AgreeRefused, MeetInjection, Abandon, Inv, TypeOK
  <2>3. \A p \in Protocols : register'[p].holder = register[p].holder
    BY <2>1 DEF device
  <2>4. session' \in [Clients -> Session] /\ overtaken' \in SUBSET Clients /\ Undisturbed'
    BY <2>1, <2>3, FinishSession
  <2>5. TypeOK'
    BY <2>1, <2>2, <2>4 DEF Inv, TypeOK, device, harness
  <2>6. GuessBudget' /\ LatchFollowsStreak' /\ TokenBelongsToHolder'
    BY <2>1 DEF Inv, device, GuessBudget, LatchFollowsStreak, TokenBelongsToHolder
  <2>7. QED BY <2>4, <2>5, <2>6 DEF Inv
<1>10. ASSUME NEW c \in Clients, NEW p \in Pins, CollectPin(c, p) PROVE Inv'
  <2>1. session' \in [Clients -> Session]
    <3>1. session[c] \in Session
      BY DEF Inv, TypeOK
    <3>2. [session[c] EXCEPT !.stage = "ready", !.guess = p] \in Session
      BY <3>1 DEF Session, Stages
    <3>3. QED BY <1>10, <3>2 DEF Inv, TypeOK, CollectPin
  <2>2. TypeOK'
    BY <1>10, <2>1 DEF Inv, TypeOK, CollectPin, device, harness
  <2>3. GuessBudget' /\ LatchFollowsStreak' /\ TokenBelongsToHolder'
    BY <1>10 DEF Inv, CollectPin, device, GuessBudget, LatchFollowsStreak,
                 TokenBelongsToHolder
  <2>4. Undisturbed'
    BY <1>10 DEF Inv, TypeOK, CollectPin, device, Undisturbed, Session
  <2>5. QED BY <2>2, <2>3, <2>4 DEF Inv
<1>11. ASSUME NEW c \in Clients, NEW status \in Statuses, RequestToken(c, status) PROVE Inv'
  <2>1. TokenRequest(c) \in Request
    BY TokenRequestType DEF Inv
  <2>2. Exchange(TokenRequest(c), status) /\ Finish(c) /\ UNCHANGED <<harness, injected>>
    BY <1>11 DEF RequestToken
  <2>3. \A p \in Protocols : register'[p].holder = register[p].holder
    BY <2>1, <2>2, ExchangeRegisters
  <2>4. session' \in [Clients -> Session] /\ overtaken' \in SUBSET Clients /\ Undisturbed'
    BY <2>2, <2>3, FinishSession
  <2>5. TypeOK'
    BY <2>1, <2>2, <2>4, ExchangeType DEF Inv, TypeOK, harness
  <2>6. GuessBudget' /\ LatchFollowsStreak' /\ TokenBelongsToHolder'
    BY <2>1, <2>2, ExchangeCounters, ExchangeRegisters
  <2>7. QED BY <2>4, <2>5, <2>6 DEF Inv
<1>12. ASSUME NEW r \in DamagedRequests, Damaged(r) PROVE Inv'
  <2>1. r \in Request
    BY DEF DamagedRequests
  <2>2. PICK status \in Statuses : Exchange(r, status)
    BY <1>12 DEF Damaged
  <2>3. UNCHANGED <<harness, injected, session, overtaken>>
    BY <1>12 DEF Damaged
  <2>4. \A p \in Protocols : register'[p].holder = register[p].holder
    BY <2>1, <2>2, ExchangeRegisters
  <2>5. TypeOK'
    BY <2>1, <2>2, <2>3, ExchangeType DEF Inv, TypeOK, harness
  <2>6. Undisturbed'
    BY <2>3, <2>4 DEF Inv, TypeOK, Undisturbed, Session
  <2>7. GuessBudget' /\ LatchFollowsStreak' /\ TokenBelongsToHolder'
    BY <2>1, <2>2, ExchangeCounters, ExchangeRegisters
  <2>8. QED BY <2>5, <2>6, <2>7 DEF Inv
<1>13. CASE UNCHANGED vars
  <2>1. TypeOK'
    BY <1>13 DEF Inv, TypeOK, vars
  <2>2. QED BY <1>13, <2>1, Untouched DEF vars, device, Inv
<1>14. QED
  BY <1>1, <1>2, <1>3, <1>4, <1>5, <1>6, <1>7, <1>8, <1>9, <1>10, <1>11, <1>12, <1>13
     DEF Next

\* Every state the token and its platforms can reach satisfies Inv.
THEOREM Invariance == Spec => []Inv
<1>1. QED BY InvInit, InvNext, PTL DEF Spec

\* The variables keep their types (client_pin_exchange, set_pin and the rest).
THEOREM TypeCorrectness == Spec => []TypeOK
<1>1. Inv => TypeOK
  BY DEF Inv
<1>2. QED BY <1>1, Invariance, PTL

\* Between two resets the token compares at most MaxRetries wrong PINs, for any
\* number of platforms and any interleaving of their requests.
THEOREM BoundedGuessing == Spec => []GuessBudget
<1>1. Inv => GuessBudget
  BY DEF Inv
<1>2. QED BY <1>1, Invariance, PTL

\* The latch follows the streak of mismatches it counts.
THEOREM LatchSoundness == Spec => []LatchFollowsStreak
<1>1. Inv => LatchFollowsStreak
  BY DEF Inv
<1>2. QED BY <1>1, Invariance, PTL

\* No key agreement leaves another platform's token in its register.
THEOREM TokenOwnership == Spec => []TokenBelongsToHolder
<1>1. Inv => TokenBelongsToHolder
  BY DEF Inv
<1>2. QED BY <1>1, Invariance, PTL

-----------------------------------------------------------------------------
(* Action properties.                                                      *)

\* No early return answers with what only a comparison can tell.
LEMMA RefusalSaysNothing ==
    ASSUME NEW r, NEW status, Refused(r, status)
    PROVE  status \notin Telling
<1>1. PICK i \in 1..8 : Screens(r)[i].status = status
  BY DEF Refused
<1>2. i \in {1, 2, 3, 4, 5, 6, 7, 8}
  BY <1>1
<1>3. QED BY <1>1, <1>2 DEF Screens, Telling

\* An exchange with a locked token is a refusal.
LEMMA LockedRefuses ==
    ASSUME Locked, NEW r, NEW status, Exchange(r, status)
    PROVE  Refused(r, status)
BY AdmittedOpen DEF Locked, Exchange, Wasted, Mismatched, Granted

\* A locked token answers nothing that depends on the PIN and charges nobody,
\* whatever the requests and however they interleave.
THEOREM LockIsSilent == Spec => LockedIsSilent
<1>1. ASSUME Inv, [Next]_vars, Locked
      PROVE  /\ \A c \in Clients, s \in Telling : ~RequestToken(c, s)
             /\ retries' >= retries
  <2> USE ClientPinAssumption
  <2>1. retries \in 0..MaxRetries
    BY <1>1 DEF Inv, TypeOK
  <2>2. \A c \in Clients, s \in Telling : ~RequestToken(c, s)
    BY <1>1, LockedRefuses, RefusalSaysNothing DEF RequestToken
  <2>3. ASSUME NEW r, NEW s, Exchange(r, s) PROVE retries' = retries
    BY <1>1, <2>3, LockedRefuses DEF Refused, device
  <2>4. retries' \in {retries, MaxRetries}
    <3>1. CASE (\E p \in Pins : SetPin(p)) \/ ClearPin
      BY <3>1 DEF SetPin, ClearPin
    <3>2. CASE PowerCycle
      BY <3>2 DEF PowerCycle
    <3>3. CASE (\E list \in Adverts : SetPinProtocols(list))
                 \/ (\E k \in KnobSettings : SetClientPinKnobs(k))
                 \/ (\E mode \in {"none", "once", "persistent"} : InjectStatus(mode))
      BY <3>3 DEF SetPinProtocols, SetClientPinKnobs, InjectStatus, device
    <3>4. CASE \E c \in Clients : \/ \E p \in Protocols : Probe(c, p)
                                  \/ Agree(c)
                                  \/ \E s \in Statuses : AgreeRefused(c, s)
                                  \/ \E p \in Pins : CollectPin(c, p)
                                  \/ MeetInjection(c)
                                  \/ Abandon(c)
      BY <3>4 DEF Probe, Agree, AgreeRefused, CollectPin, MeetInjection, Abandon,
                  device, lock
    <3>5. CASE \E c \in Clients, s \in Statuses : RequestToken(c, s)
      BY <2>3, <3>5 DEF RequestToken
    <3>6. CASE \E r \in DamagedRequests : Damaged(r)
      BY <2>3, <3>6 DEF Damaged
    <3>7. CASE UNCHANGED vars
      BY <3>7 DEF vars
    <3>8. QED BY <1>1, <3>1, <3>2, <3>3, <3>4, <3>5, <3>6, <3>7 DEF Next
  <2>5. QED BY <2>1, <2>2, <2>4
<1>2. Inv /\ [Next]_vars =>
        [Locked => /\ \A c \in Clients, s \in Telling : ~RequestToken(c, s)
                   /\ retries' >= retries]_vars
  BY <1>1
<1>3. QED BY <1>2, Invariance, PTL DEF Spec, LockedIsSilent

\* The right PIN is called wrong only if another platform's handshake came
\* between this platform's handshake and its token request.
THEOREM RightPinIsBelieved == Spec => OnlyOvertakenMismatch
<1>1. ASSUME Inv, NEW c \in Clients, RequestToken(c, "PinInvalid"),
             session[c].guess = pin
      PROVE  c \in overtaken
  <2> DEFINE r == TokenRequest(c)
  <2>1. session[c].stage = "ready" /\ Exchange(r, "PinInvalid")
    BY <1>1 DEF RequestToken
  <2>2. ~Refused(r, "PinInvalid")
    BY RefusalSaysNothing DEF Telling
  <2>3. ~Matches(r)
    BY <2>1, <2>2 DEF Exchange, Wasted, Mismatched, Granted
  <2>4. register[session[c].proto].holder # c
    BY <1>1, <2>3 DEF Matches, TokenRequest
  <2>5. QED BY <1>1, <2>1, <2>4 DEF Inv, Undisturbed
<1>2. Inv => [\A c \in Clients :
                RequestToken(c, "PinInvalid") /\ session[c].guess = pin
                => c \in overtaken]_vars
  BY <1>1
<1>3. QED BY <1>2, Invariance, PTL DEF OnlyOvertakenMismatch

-----------------------------------------------------------------------------
(* The token's lock implements PinLockout.                                 *)

\* One exchange is one step of the abstract lock, or none.
LEMMA ExchangeRefines ==
    ASSUME Inv, NEW r \in Request, NEW status, Exchange(r, status)
    PROVE  [Lockout!Next]_(Lockout!vars)
<1> USE ClientPinAssumption DEF Inv, TypeOK, Lockout!Next, Lockout!vars, Lockout!Unlocked
<1>1. CASE Refused(r, status)
  BY <1>1 DEF Refused, device
<1>2. CASE Wasted(r, status)
  <2>1. retries # 0 /\ ~latched /\ mismatches # MismatchLimit
    BY <1>2, AdmittedOpen DEF Wasted, LatchFollowsStreak
  <2>2. Lockout!Waste
    BY <1>2, <2>1 DEF Wasted, Lockout!Waste
  <2>3. QED BY <2>2
<1>3. CASE Mismatched(r, status)
  <2>1. retries # 0 /\ ~latched /\ mismatches # MismatchLimit
    BY <1>3, AdmittedOpen DEF Mismatched, LatchFollowsStreak
  <2>2. CASE mismatches + 1 >= MismatchLimit
    <3>1. latched' /\ retries' = retries - 1
      BY <1>3, <2>2 DEF Mismatched
    <3>2. mismatches + 1 = MismatchLimit
      BY <2>1, <2>2
    <3>3. Lockout!WrongGuess
      BY <2>1, <3>1, <3>2 DEF Lockout!WrongGuess
    <3>4. QED BY <3>3
  <2>3. CASE ~(mismatches + 1 >= MismatchLimit)
    <3>1. ~latched' /\ retries' = retries - 1 /\ mismatches' = mismatches + 1
      BY <1>3, <2>1, <2>3 DEF Mismatched
    <3>2. Lockout!WrongGuess
      BY <2>1, <3>1 DEF Lockout!WrongGuess
    <3>3. QED BY <3>2
  <2>4. QED BY <2>2, <2>3
<1>4. CASE Granted(r, status)
  <2>1. retries # 0 /\ ~latched /\ mismatches # MismatchLimit
    BY <1>4, AdmittedOpen DEF Granted, LatchFollowsStreak
  <2>2. Lockout!RightGuess
    BY <1>4, <2>1 DEF Granted, Lockout!RightGuess
  <2>3. QED BY <2>2
<1>5. QED BY <1>1, <1>2, <1>3, <1>4 DEF Exchange

LEMMA StepRefines ==
    ASSUME Inv, [Next]_vars
    PROVE  [Lockout!Next]_(Lockout!vars)
<1> USE ClientPinAssumption
<1>1. CASE (\E p \in Pins : SetPin(p)) \/ ClearPin
  <2>1. retries' = MaxRetries /\ mismatches' = 0 /\ latched' = latched
    BY <1>1 DEF SetPin, ClearPin
  <2>2. mismatches = MismatchLimit => latched
    BY DEF Inv, LatchFollowsStreak
  <2>3. Lockout!NewPin
    BY <2>1, <2>2 DEF Lockout!NewPin, Inv, TypeOK
  <2>4. QED BY <2>3 DEF Lockout!Next
<1>2. CASE PowerCycle
  <2>1. retries' = retries /\ mismatches' = 0 /\ ~latched'
    BY <1>2 DEF PowerCycle
  <2>2. Lockout!PowerCycle
    BY <2>1 DEF Lockout!PowerCycle
  <2>3. QED BY <2>2 DEF Lockout!Next
<1>3. CASE UNCHANGED lock
  BY <1>3 DEF lock, Lockout!vars
<1>4. CASE \E c \in Clients, s \in Statuses : RequestToken(c, s)
  BY <1>4, ExchangeRefines, TokenRequestType DEF RequestToken, Inv
<1>5. CASE \E r \in DamagedRequests : Damaged(r)
  BY <1>5, ExchangeRefines DEF Damaged, DamagedRequests
<1>6. CASE (\E list \in Adverts : SetPinProtocols(list))
             \/ (\E k \in KnobSettings : SetClientPinKnobs(k))
             \/ (\E mode \in {"none", "once", "persistent"} : InjectStatus(mode))
  BY <1>3, <1>6 DEF SetPinProtocols, SetClientPinKnobs, InjectStatus, device, lock
<1>7. CASE \E c \in Clients : \/ \E p \in Protocols : Probe(c, p)
                              \/ Agree(c)
                              \/ \E s \in Statuses : AgreeRefused(c, s)
                              \/ \E p \in Pins : CollectPin(c, p)
                              \/ MeetInjection(c)
                              \/ Abandon(c)
  BY <1>3, <1>7 DEF Probe, Agree, AgreeRefused, CollectPin, MeetInjection, Abandon,
                    device, lock
<1>8. CASE UNCHANGED vars
  BY <1>3, <1>8 DEF vars, lock
<1>9. QED BY <1>1, <1>2, <1>4, <1>5, <1>6, <1>7, <1>8 DEF Next

\* The clientPIN state machine, with all its protocols, knobs and platforms, is
\* an implementation of the abstract lock.
THEOREM Refinement == Spec => ImplementsLockout
<1>1. Init => Lockout!Init
  BY ClientPinAssumption DEF Init, Lockout!Init
<1>2. Inv /\ [Next]_vars => [Lockout!Next]_(Lockout!vars)
  BY StepRefines
<1>3. QED BY <1>1, <1>2, Invariance, PTL DEF Spec, ImplementsLockout, Lockout!Spec
=============================================================================
