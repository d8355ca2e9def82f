------------------------------ MODULE Ceremony ------------------------------
(***************************************************************************)
(* One getAssertion ceremony of fidoh-core, from discovery to the last     *)
(* drained assertion (GetAssertionCeremony::run), or from the probe when   *)
(* the caller hands over a connected device (GetAssertionExchange::run).   *)
(*                                                                         *)
(* `left' is what Deadline still holds, `elapsed' what a clock would say.  *)
(* Transports and device are the environment: at every await they answer,  *)
(* refuse, fail or outlast the budget.                                     *)
(***************************************************************************)
EXTENDS Naturals, Sequences

CONSTANTS Transports,     \* how many transports are configured
          Devices,        \* what they may list
          Listings,       \* the enumerations a transport may return
          Creds,          \* credential ids
          Inputs,         \* ceremony inputs
          Infos,          \* getInfo answers
          Budget,         \* the ceremony deadline
          MaxElapsed,     \* bound on the clock
          MaxAssertions,  \* bound on numberOfCredentials
          Metered,        \* devices charge Deadline for the time they take
          KeepaliveGap,   \* least time between two keepalives
          IdleTimes,      \* times a PIN prompt or a drain hook may take
          None

Implemented == {"One", "Two"}             \* pinUvAuth protocols of the library
Protocols == Implemented \cup {"Other"}

Input == [entry : {"full", "exchange"},
          selection : {"First", "Select", "Fail"},
          policy : {"Discouraged", "Preferred"},
          held : Protocols \cup {None},   \* caller-held pinUvAuth material
          provider : BOOLEAN,             \* a PIN provider was supplied
          pinned : Protocols \cup {None}, \* the caller's choice of protocol
          entropy : BOOLEAN,              \* an entropy source was injected
          allow : SUBSET Creds,           \* allow list, {} for none or empty
          drain : BOOLEAN]                \* a drain hook was supplied

Info == [uv : BOOLEAN, clientPin : BOOLEAN, protocols : Seq(Protocols)]

Phases == {"Enumeration", "Connect", "ChannelOpen", "CommandExchange", "UserPresence",
           "GetAssertion", "GetInfo", "GetNextAssertion", "ClientPin"}

ASSUME CeremonyAssumption ==
    /\ Transports \in Nat
    /\ Budget \in Nat /\ MaxElapsed \in Nat
    /\ MaxAssertions \in Nat
    /\ KeepaliveGap \in Nat
    /\ IdleTimes \subseteq Nat
    /\ Metered \in BOOLEAN
    /\ Listings \subseteq Seq(Devices)
    /\ Inputs \subseteq Input
    /\ Infos \subseteq Info
    /\ None \notin Devices \cup Protocols \cup Phases

VARIABLES input,
          stage,        \* where the ceremony awaits or computes next
          left,         \* Deadline::remaining
          elapsed,      \* wall clock
          scanned,      \* transports enumerated so far
          offered,      \* history: what each transport listed
          candidates,   \* the pool: <<device, owning transport>>
          connected,    \* <<device, transport>> of connect, or <<>>
          info,         \* the probe's answer
          proto,        \* protocol of the acquisition
          prompts,      \* history: PIN prompts
          acquired,     \* a token was acquired in this ceremony
          request,      \* the wire request
          seen,         \* seen_keepalive
          assertions,   \* credentials asserted, in order
          promised,     \* number_of_credentials of the first one
          outcome,
          expired,      \* the phase a timeout names
          reported      \* uv_effective of the outcome

discovery == <<scanned, offered, candidates, connected>>
acquisition == <<proto, prompts, acquired>>
answers == <<seen, assertions, promised>>
clock == <<left, elapsed>>
verdict == <<outcome, expired, reported>>
vars == <<input, stage, left, elapsed, scanned, offered, candidates, connected,
          info, proto, prompts, acquired, request, seen, assertions, promised,
          outcome, expired, reported>>

\* Stages that await a transport, the device, or the drain hook.
HopStages == {"discover", "connect", "probe", "agree", "token", "exchange", "drain"}
LocalStages == {"select", "resolve", "prompt", "build"}
Stages == HopStages \cup LocalStages \cup {"done"}

NoInfo == [uv |-> FALSE, clientPin |-> FALSE, protocols |-> <<>>]
NoRequest == [param |-> None, uv |-> FALSE, allow |-> {}]

\* CeremonyError::from_status, one status per variant it maps to.
StatusError ==
    [NoCredentials     |-> "NoCredentials",
     UserActionTimeout |-> "UserActionTimeout",
     KeepaliveCancel   |-> "UserCancelled",
     PinInvalid        |-> "IncorrectPin",
     PinBlocked        |-> "PinBlocked",
     PinAuthBlocked    |-> "PinAuthBlocked",
     PinNotSet         |-> "PinNotSet",
     OperationDenied   |-> "UpRejected",
     NotAllowed        |-> "Ctap"]

Errors == {StatusError[s] : s \in DOMAIN StatusError} \cup
          {"Timeout", "Transport", "NoDevice", "AmbiguousDevice", "PinRequired",
           "PinProviderFailed", "PinTooLong", "CredentialMismatch"}

Outcomes == Errors \cup {"running", "Ok", "cancelled", "panic"}

UvEffective == {"NotRequested", "PinUvAuth", "UvOption", "PinUvAuthToken"}

TypeOK ==
    /\ input \in Inputs
    /\ stage \in Stages
    /\ left \in 0..Budget
    /\ elapsed \in Nat
    /\ scanned \in 0..Transports
    /\ offered \in [1..Transports -> Listings \cup {<<>>}]
    /\ candidates \in Seq(Devices \X (1..Transports))
    /\ connected \in (Devices \X (1..Transports)) \cup {<<>>}
    /\ info \in Infos \cup {NoInfo}
    /\ proto \in Protocols \cup {None}
    /\ prompts \in Nat
    /\ acquired \in BOOLEAN
    /\ request \in [param : Protocols \cup {None}, uv : BOOLEAN, allow : SUBSET Creds]
    /\ seen \in BOOLEAN
    /\ assertions \in Seq(Creds)
    /\ promised \in 0..MaxAssertions
    /\ outcome \in Outcomes
    /\ expired \in Phases \cup {None}
    /\ reported \in UvEffective \cup {None}
    /\ outcome = "running" <=> stage # "done"
    /\ outcome = "Timeout" <=> expired # None

Init ==
    /\ input \in Inputs
    /\ stage = IF input.entry = "full" THEN "discover" ELSE "probe"
    /\ left = Budget
    /\ elapsed = 0
    /\ scanned = 0
    /\ offered = [i \in 1..Transports |-> <<>>]
    /\ candidates = <<>>
    /\ connected = <<>>
    /\ info = NoInfo
    /\ proto = None
    /\ prompts = 0
    /\ acquired = FALSE
    /\ request = NoRequest
    /\ seen = FALSE
    /\ assertions = <<>>
    /\ promised = 0
    /\ outcome = "running"
    /\ expired = None
    /\ reported = None

-----------------------------------------------------------------------------
(* Time and termination.                                                   *)

\* A hop that answers within the budget.  Deadline::wait itself consumes
\* nothing: only what the transport or device charges leaves the budget.
Spend(t) ==
    /\ left > 0
    /\ t <= left
    /\ elapsed + t <= MaxElapsed
    /\ elapsed' = elapsed + t
    /\ left' \in {left - c : c \in IF Metered THEN {t} ELSE 0..t}

\* A prompt or a drain hook runs outside Deadline altogether.
Idle(t) ==
    /\ elapsed + t <= MaxElapsed
    /\ elapsed' = elapsed + t
    /\ UNCHANGED left

\* The ceremony returns this error.
Fail(error) ==
    /\ stage' = "done"
    /\ outcome' = error
    /\ UNCHANGED <<expired, reported>>

\* Variant: the expired phase is not recorded.
TimeOutUnnamed(phase) ==
    /\ stage' = "done"
    /\ outcome' = "Timeout"
    /\ UNCHANGED <<expired, reported>>

TimeOut(phase) ==
    /\ stage' = "done"
    /\ outcome' = "Timeout"
    /\ expired' = phase
    /\ UNCHANGED reported

\* The phase this hop names when the budget beats it.
HopPhase ==
    CASE stage = "discover"           -> "Enumeration"
      [] stage = "connect"            -> "Connect"
      [] stage = "probe"              -> "GetInfo"
      [] stage \in {"agree", "token"} -> "ClientPin"
      [] stage = "exchange"           -> IF seen THEN "UserPresence" ELSE "GetAssertion"
      [] OTHER                        -> "GetNextAssertion"

\* A hop is awaited here: discovery is over once every transport has answered.
Awaiting == stage \in HopStages /\ (stage = "discover" => scanned < Transports)

\* Deadline::wait: the budget is out before the hop starts, or its timer fires
\* first.  A drain hook is not raced, so only an empty budget stops it.
HopExpires ==
    /\ Awaiting
    /\ stage = "drain" => left = 0
    /\ elapsed + left <= MaxElapsed
    /\ elapsed' = elapsed + left
    /\ left' = IF Metered THEN 0 ELSE left
    /\ TimeOut(HopPhase)
    /\ UNCHANGED <<input, discovery, info, acquisition, request, answers>>

\* Variant: the device's name is always kept.
HopTimesOutRaw(phase) ==
    /\ Awaiting
    /\ left > 0
    /\ TimeOut(phase)
    /\ left' \in 0..left
    /\ elapsed' = elapsed + (left - left')
    /\ UNCHANGED <<input, discovery, info, acquisition, request, answers>>

\* The device's own budget check answers Timeout(phase): its name is kept,
\* except that after a keepalive the wait is for user presence.
HopTimesOut(phase) ==
    /\ Awaiting
    /\ left > 0
    /\ TimeOut(IF stage = "exchange" /\ seen THEN "UserPresence" ELSE phase)
    /\ left' \in 0..left
    /\ elapsed' = elapsed + (left - left')
    /\ UNCHANGED <<input, discovery, info, acquisition, request, answers>>

\* Variant: a connect that breaks starts discovery over.
HopBreaksRestart ==
    /\ Awaiting
    /\ stage # "discover"
    /\ left > 0
    /\ IF stage = "connect"
       THEN /\ stage' = "discover"
            /\ scanned' = 0
            /\ offered' = [i \in 1..Transports |-> <<>>]
            /\ candidates' = <<>>
            /\ connected' = <<>>
            /\ UNCHANGED verdict
       ELSE Fail("Transport") /\ UNCHANGED discovery
    /\ UNCHANGED <<clock, input, info, acquisition, request, answers>>

\* The hop breaks: device gone, channel closed, a keepalive where a response
\* is due, a body that does not decode.
HopBreaks ==
    /\ Awaiting
    /\ stage # "discover"
    /\ left > 0
    /\ Fail("Transport")
    /\ UNCHANGED <<clock, input, discovery, info, acquisition, request, answers>>

\* The device answers an error status.
HopRefused(status) ==
    /\ stage \in {"probe", "agree", "token", "exchange", "drain"}
    /\ left > 0
    /\ Fail(StatusError[status])
    /\ UNCHANGED <<clock, input, discovery, info, acquisition, request, answers>>

\* The caller drops the future.
Cancel ==
    /\ Awaiting
    /\ Fail("cancelled")
    /\ UNCHANGED <<clock, input, discovery, info, acquisition, request, answers>>

-----------------------------------------------------------------------------
(* Discovery, selection, connect.                                          *)

\* A transport lists its devices, in order, at the end of the pool.
Enumerate(t, list) ==
    /\ stage = "discover"
    /\ scanned < Transports
    /\ Spend(t)
    /\ scanned' = scanned + 1
    /\ offered' = [offered EXCEPT ![scanned + 1] = list]
    /\ candidates' = candidates \o [i \in 1..Len(list) |-> <<list[i], scanned + 1>>]
    /\ UNCHANGED <<input, stage, connected, info, acquisition, request, answers, verdict>>

\* Variant: a failing transport takes the pool with it.
EnumerateFailsHiding(t) ==
    /\ stage = "discover"
    /\ scanned < Transports
    /\ Spend(t)
    /\ scanned' = scanned + 1
    /\ candidates' = <<>>
    /\ UNCHANGED <<input, stage, offered, connected, info, acquisition,
                   request, answers, verdict>>

\* A transport fails: a diagnostic, and discovery goes on.
EnumerateFails(t) ==
    /\ stage = "discover"
    /\ scanned < Transports
    /\ Spend(t)
    /\ scanned' = scanned + 1
    /\ UNCHANGED <<input, stage, offered, candidates, connected, info, acquisition,
                   request, answers, verdict>>

Discovered ==
    /\ stage = "discover"
    /\ scanned = Transports
    /\ IF candidates = <<>>
       THEN Fail("NoDevice")
       ELSE stage' = "select" /\ UNCHANGED verdict
    /\ UNCHANGED <<clock, input, discovery, info, acquisition, request, answers>>

Pool == {candidates[i][1] : i \in 1..Len(candidates)}

\* The transport that owns a descriptor: the first candidate equal to it.
Owner(d) ==
    LET first == CHOOSE i \in 1..Len(candidates) :
                     /\ candidates[i][1] = d
                     /\ \A j \in 1..(i - 1) : candidates[j][1] # d
    IN  candidates[first][2]

\* apply_selection picks d.  A Select predicate may name any device at all.
Picks(d) ==
    \/ input.selection = "First"  /\ d = candidates[1][1]
    \/ input.selection = "Fail"   /\ Len(candidates) = 1 /\ d = candidates[1][1]
    \/ input.selection = "Select" /\ d \in Pool

Select(d) ==
    /\ stage = "select"
    /\ Picks(d)
    /\ stage' = "connect"
    /\ connected' = <<d, Owner(d)>>
    /\ UNCHANGED <<clock, input, scanned, offered, candidates, info, acquisition,
                   request, answers, verdict>>

\* Several candidates under Fail; a predicate that declines, or that names a
\* device outside the pool.
SelectFails(error) ==
    /\ stage = "select"
    /\ \/ /\ input.selection = "Fail" /\ Len(candidates) > 1
          /\ error = "AmbiguousDevice"
       \/ input.selection = "Select" /\ error \in {"NoDevice", "Transport"}
    /\ Fail(error)
    /\ UNCHANGED <<clock, input, discovery, info, acquisition, request, answers>>

\* The pool is not read again.
Connect(t) ==
    /\ stage = "connect"
    /\ Spend(t)
    /\ stage' = "probe"
    /\ candidates' = <<>>
    /\ offered' = [i \in 1..Transports |-> <<>>]
    /\ UNCHANGED <<input, scanned, connected, info, acquisition, request, answers, verdict>>

-----------------------------------------------------------------------------
(* Probe and pinUvAuthToken acquisition.                                   *)

Probe(t, answer) ==
    /\ stage = "probe"
    /\ Spend(t)
    /\ info' = answer
    /\ stage' = "resolve"
    /\ UNCHANGED <<input, discovery, acquisition, request, answers, verdict>>

Advertised == {info.protocols[i] : i \in 1..Len(info.protocols)}

\* Variant: a token is acquired whatever the policy says.
NeedsTokenAlways ==
    /\ input.held = None
    /\ info.clientPin
    /\ info.protocols # <<>>

\* Phase 4a is entered: no caller-held material, verification preferred, and
\* a PIN-capable device that advertises protocols.
NeedsToken ==
    /\ input.held = None
    /\ input.policy = "Preferred"
    /\ info.clientPin
    /\ info.protocols # <<>>

\* The pinned protocol, even one the library does not know (its KDF treats it
\* as Two), or the first advertised one that it implements.
Selectable(p) ==
    IF input.pinned # None
    THEN p = input.pinned /\ p \in Advertised
    ELSE \E i \in 1..Len(info.protocols) :
             /\ p = info.protocols[i]
             /\ p \in Implemented
             /\ \A j \in 1..(i - 1) : info.protocols[j] \notin Implemented

SkipAcquisition ==
    /\ stage = "resolve"
    /\ ~NeedsToken
    /\ stage' = "build"
    /\ UNCHANGED <<clock, input, discovery, info, acquisition, request, answers, verdict>>

\* Steps 1 and 2 before the first hop: key generation draws entropy.
Acquire(p) ==
    /\ stage = "resolve"
    /\ NeedsToken /\ input.provider /\ input.entropy
    /\ Selectable(p)
    /\ proto' = p
    /\ stage' = "agree"
    /\ UNCHANGED <<clock, input, discovery, info, prompts, acquired, request, answers,
                   verdict>>

\* No provider is PinRequired, then no entropy panics, then no protocol fails.
AcquireFails ==
    /\ stage = "resolve"
    /\ NeedsToken
    /\ \/ ~input.provider /\ Fail("PinRequired")
       \/ input.provider /\ ~input.entropy /\ Fail("panic")
       \/ /\ input.provider /\ input.entropy
          /\ ~\E p \in Protocols : Selectable(p)
          /\ Fail("Transport")
    /\ UNCHANGED <<clock, input, discovery, info, acquisition, request, answers>>

AgreeKey(t) ==
    /\ stage = "agree"
    /\ Spend(t)
    /\ stage' = "prompt"
    /\ UNCHANGED <<input, discovery, info, acquisition, request, answers, verdict>>

\* The provider blocks the ceremony for as long as the owner takes.
ProvidePin(t) ==
    /\ stage = "prompt"
    /\ Idle(t)
    /\ prompts' = prompts + 1
    /\ stage' = "token"
    /\ UNCHANGED <<input, discovery, info, proto, acquired, request, answers, verdict>>

ProvidePinFails(t, error) ==
    /\ stage = "prompt"
    /\ Idle(t)
    /\ prompts' = prompts + 1
    /\ Fail(error)
    /\ UNCHANGED <<input, discovery, info, proto, acquired, request, answers>>

\* The token answers, and its parameter joins the input.
AcquireToken(t) ==
    /\ stage = "token"
    /\ Spend(t)
    /\ acquired' = TRUE
    /\ stage' = "build"
    /\ UNCHANGED <<input, discovery, info, proto, prompts, request, answers, verdict>>

-----------------------------------------------------------------------------
(* Request construction, exchange, drain.                                  *)

\* The pinUvAuthParam's protocol: acquired, caller-held, or none.
Param == IF acquired THEN proto ELSE input.held

\* Variant: the posture ignores the token.
UvShapedAlways == input.policy = "Preferred" /\ info.uv

\* uv_posture_without_token.
UvShaped == Param = None /\ input.policy = "Preferred" /\ info.uv

Build ==
    /\ stage = "build"
    /\ IF Param # None /\ Param \notin Advertised
       THEN Fail("Transport") /\ UNCHANGED request
       ELSE IF Param = None /\ input.policy = "Preferred" /\ ~info.uv /\ info.clientPin
       THEN Fail("PinRequired") /\ UNCHANGED request
       ELSE /\ request' = [param |-> Param, uv |-> UvShaped, allow |-> input.allow]
            /\ stage' = "exchange"
            /\ UNCHANGED verdict
    /\ UNCHANGED <<clock, input, discovery, info, acquisition, answers>>

\* keepalive_loop re-issues the command; the deadline is never reset.
Keepalive(t) ==
    /\ stage = "exchange"
    /\ t >= KeepaliveGap
    /\ Spend(t)
    /\ seen' = TRUE
    /\ UNCHANGED <<input, stage, discovery, info, acquisition, request, assertions,
                   promised, verdict>>

\* The posture the outcome reports.
Effective ==
    IF acquired THEN "PinUvAuthToken"
    ELSE IF request.param # None THEN "PinUvAuth"
    ELSE IF request.uv THEN "UvOption" ELSE "NotRequested"

Succeed ==
    /\ stage' = "done"
    /\ outcome' = "Ok"
    /\ reported' = Effective
    /\ UNCHANGED expired

\* The 6.2 response: allow-list check, then the drain decision.
Assert(t, cred, n) ==
    /\ stage = "exchange"
    /\ Spend(t)
    /\ IF request.allow # {} /\ cred \notin request.allow
       THEN Fail("CredentialMismatch") /\ UNCHANGED <<assertions, promised>>
       ELSE /\ assertions' = <<cred>>
            /\ promised' = n
            /\ IF n <= 1 THEN Succeed
               ELSE IF ~input.drain THEN Fail("Transport")
               ELSE stage' = "drain" /\ UNCHANGED verdict
    /\ UNCHANGED <<input, discovery, info, acquisition, request, seen>>

\* Variants: one hop too many; no look at the budget.
DrainOneMore(t, cred) ==
    /\ stage = "drain"
    /\ left > 0
    /\ Idle(t)
    /\ assertions' = Append(assertions, cred)
    /\ IF Len(assertions) = promised THEN Succeed ELSE UNCHANGED <<stage, verdict>>
    /\ UNCHANGED <<input, discovery, info, acquisition, request, seen, promised>>

DrainUnbounded(t, cred) ==
    /\ stage = "drain"
    /\ Idle(t)
    /\ assertions' = Append(assertions, cred)
    /\ IF Len(assertions) + 1 = promised THEN Succeed ELSE UNCHANGED <<stage, verdict>>
    /\ UNCHANGED <<input, discovery, info, acquisition, request, seen, promised>>

\* drain_hop: checked against an empty budget, then the hook runs unraced.
Drain(t, cred) ==
    /\ stage = "drain"
    /\ left > 0
    /\ Idle(t)
    /\ assertions' = Append(assertions, cred)
    /\ IF Len(assertions) + 1 = promised
       THEN Succeed
       ELSE UNCHANGED <<stage, verdict>>
    /\ UNCHANGED <<input, discovery, info, acquisition, request, seen, promised>>

-----------------------------------------------------------------------------
Progress ==
    \/ HopExpires
    \/ \E phase \in Phases : HopTimesOut(phase)
    \/ HopBreaks
    \/ \E status \in DOMAIN StatusError : HopRefused(status)
    \/ \E t \in 0..left :
          \/ \E list \in Listings : Enumerate(t, list)
          \/ EnumerateFails(t)
          \/ Connect(t)
          \/ \E answer \in Infos : Probe(t, answer)
          \/ AgreeKey(t)
          \/ AcquireToken(t)
          \/ Keepalive(t)
          \/ \E cred \in Creds, n \in 0..MaxAssertions : Assert(t, cred, n)
    \/ Discovered
    \/ \E d \in Devices : Select(d)
    \/ \E error \in Errors : SelectFails(error)
    \/ SkipAcquisition
    \/ \E p \in Protocols : Acquire(p)
    \/ AcquireFails
    \/ \E t \in IdleTimes :
          \/ ProvidePin(t)
          \/ \E error \in {"PinProviderFailed", "PinTooLong"} : ProvidePinFails(t, error)
          \/ \E cred \in Creds : Drain(t, cred)
    \/ Build

Next == Progress \/ Cancel

Spec == Init /\ [][Next]_vars

\* The executor polls the ceremony and timers fire; nobody need cancel it.
FairSpec == Spec /\ WF_vars(Progress)

-----------------------------------------------------------------------------
(* Properties.                                                             *)

\* The device the ceremony connects to was listed by the transport it connects
\* through, every transport was heard first, and the policy was obeyed: First
\* passes over no earlier transport that listed a device, and Fail connects
\* only to the one device there is.  The ceremony gives up with NoDevice only
\* when no transport listed one, however many failed, or the caller's Select
\* said so (run, discover, apply_selection).
ConnectIsDeliberate ==
    /\ stage = "connect" =>
           LET owner == connected[2]
           IN  /\ scanned = Transports
               /\ \E i \in 1..Len(offered[owner]) : offered[owner][i] = connected[1]
               /\ input.selection = "First" =>
                      \A i \in 1..(owner - 1) : offered[i] = <<>>
               /\ input.selection = "Fail" =>
                      \A i \in 1..Transports :
                          Len(offered[i]) = IF i = owner THEN 1 ELSE 0
    /\ outcome = "NoDevice" /\ input.selection # "Select" =>
           \A i \in 1..Transports : offered[i] = <<>>

\* A PIN is asked for at most once, and only in a ceremony that prefers user
\* verification, holds no token, and talks to a PIN-capable device under a
\* protocol the device advertised: the caller's choice if there is one, else
\* one the library implements.  No token is acquired without it.
PromptDiscipline ==
    /\ prompts > 0 => /\ input.policy = "Preferred" /\ input.held = None
                      /\ info.clientPin
                      /\ proto \in Advertised
                      /\ IF input.pinned = None
                         THEN proto \in Implemented
                         ELSE proto = input.pinned
    /\ prompts <= 1
    /\ acquired => prompts = 1

\* Once sent, the request never asks for verification twice, names only what
\* the device advertised, and is not weaker than the caller preferred on a
\* device that could verify: no silent downgrade.
RequestIsSound ==
    stage \in {"exchange", "drain"} \/ outcome = "Ok" =>
        /\ request.param # None => ~request.uv /\ request.param \in Advertised
        /\ request.uv => info.uv
        /\ input.policy = "Preferred" /\ (info.uv \/ info.clientPin) =>
               request.param # None \/ request.uv

\* A ceremony that succeeds returns as many assertions as the device promised,
\* the first from the caller's list, and reports the posture it really had.
OutcomeIsComplete ==
    outcome = "Ok" =>
        /\ Len(assertions) = (IF promised = 0 THEN 1 ELSE promised)
        /\ input.allow # {} => assertions[1] \in input.allow
        /\ reported = "PinUvAuthToken" <=> prompts = 1
        /\ reported \in {"PinUvAuth", "PinUvAuthToken"} <=> request.param # None
        /\ reported = "UvOption" <=> request.uv

\* After a keepalive, and until the first assertion arrives, a timeout is one of
\* user presence, whoever noticed it: the ceremony's own race or the device.
TimeoutNamesPresence ==
    seen /\ expired # None /\ assertions = <<>> => expired = "UserPresence"

\* Nothing is sent on an exhausted budget: a ceremony awaiting a hop with
\* nothing left can only end.
ExpiryEndsCeremony ==
    [][left = 0 /\ Awaiting =>
         stage' = "done" /\ outcome' \in {"Timeout", "cancelled"}]_vars

\* Every ceremony ends, however often the device says that it is still alive.
Termination == <>(stage = "done")

-----------------------------------------------------------------------------
(* What the documents say and the code does not do.                        *)

\* Whenever the ceremony awaits a hop, the hop is granted no more than what
\* remains of the ceremony's single budget (Deadline::wait races it against
\* remaining()).
RemainderIsWhatIsLeft == Awaiting => elapsed + left <= Budget
=============================================================================
