--------------------------- MODULE CeremonyProofs ---------------------------
(***************************************************************************)
(* Theorems about Ceremony for any number of transports and devices, any   *)
(* inputs and answers, any budget and metering.  Inv is inductive: beside   *)
(* the invariants the run checks it says what the pool of candidates holds  *)
(* while it grows, which protocol a token is being acquired under, what the *)
(* request was built from, and how far the drain has come.                  *)
(***************************************************************************)
EXTENDS Ceremony, DataLemmas

\* The pool lists what each transport heard so far offered, earlier transports
\* first, and leaves no transport out that offered something.
Pooled ==
    stage \in {"discover", "select"} =>
        /\ \A k \in 1..Len(candidates) :
              /\ candidates[k][2] \in 1..scanned
              /\ \E i \in 1..Len(offered[candidates[k][2]]) :
                    offered[candidates[k][2]][i] = candidates[k][1]
        /\ \A j, k \in 1..Len(candidates) : j <= k => candidates[j][2] <= candidates[k][2]
        /\ \A t \in 1..Transports :
              /\ Len(offered[t]) <= Len(candidates)
              /\ offered[t] # <<>> => \E k \in 1..Len(candidates) : candidates[k][2] = t
              /\ t > scanned => offered[t] = <<>>

\* A device is selected from a full pool, after all transports were heard.
Heard == stage = "select" => candidates # <<>> /\ scanned = Transports

\* What a ceremony that acquires a token may count on.
Agreed ==
    /\ input.policy = "Preferred" /\ input.held = None
    /\ info.clientPin
    /\ proto \in Advertised
    /\ IF input.pinned = None THEN proto \in Implemented ELSE proto = input.pinned

\* The PIN is asked for between key agreement and token request, and only then.
Acquiring ==
    /\ stage \in {"discover", "select", "connect", "probe", "resolve", "agree", "prompt"} =>
           prompts = 0 /\ ~acquired
    /\ stage = "token" => prompts = 1 /\ ~acquired
    /\ stage \in {"build", "exchange", "drain"} \/ outcome = "Ok" =>
           (acquired <=> prompts = 1)
    /\ stage \in {"agree", "prompt"} \/ prompts > 0 => Agreed
    /\ prompts <= 1
    /\ acquired => prompts = 1

\* The request on the wire is the one Build made, and Build was content.
Built ==
    stage \in {"exchange", "drain"} \/ outcome = "Ok" =>
        /\ request = [param |-> Param, uv |-> UvShaped, allow |-> input.allow]
        /\ Param # None => Param \in Advertised
        /\ Param = None /\ input.policy = "Preferred" /\ info.clientPin => info.uv

\* A drain has at least the first assertion and always one to go.
Drained ==
    /\ stage \notin {"drain", "done"} => assertions = <<>>
    /\ stage = "drain" => Len(assertions) \in 1..(promised - 1)
    /\ assertions # <<>> /\ input.allow # {} => assertions[1] \in input.allow
    /\ outcome = "Ok" => /\ Len(assertions) = IF promised = 0 THEN 1 ELSE promised
                         /\ reported = Effective

\* Keepalives are heard in the exchange.
Alive == seen => stage \in {"exchange", "drain", "done"}

Inv ==
    /\ TypeOK
    /\ Pooled
    /\ Heard
    /\ ConnectIsDeliberate
    /\ Acquiring
    /\ Built
    /\ Drained
    /\ Alive
    /\ TimeoutNamesPresence

-----------------------------------------------------------------------------
(* Types.                                                                  *)

\* No error status of a device reads as a success, a timeout or an empty pool.
LEMMA StatusErrors ==
    \A s \in DOMAIN StatusError :
        StatusError[s] \in Errors \ {"Timeout", "NoDevice", "running", "Ok"}
BY DEF StatusError, Errors

\* A hop that runs out of budget names one of the phases of the taxonomy.
LEMMA Phased == HopPhase \in Phases
BY DEF HopPhase, Phases

\* What TypeOK says of the verdict.
Verdicts ==
    /\ outcome \in Outcomes
    /\ expired \in Phases \cup {None}
    /\ reported \in UvEffective \cup {None}
    /\ outcome = "running" <=> stage # "done"
    /\ outcome = "Timeout" <=> expired # None

\* Every ceremony starts well typed.
LEMMA TypeInit == Init => TypeOK
<1> SUFFICES ASSUME Init PROVE TypeOK OBVIOUS
<1> USE CeremonyAssumption DEF Init
<1>1. stage \in Stages BY DEF Stages, HopStages, LocalStages
<1>2. request \in [param : Protocols \cup {None}, uv : BOOLEAN, allow : SUBSET Creds]
  BY DEF NoRequest
<1>3. offered \in [1..Transports -> Listings \cup {<<>>}]
  OBVIOUS
<1>4. candidates \in Seq(Devices \X (1..Transports)) /\ assertions \in Seq(Creds)
  OBVIOUS
<1>5. /\ left \in 0..Budget
      /\ elapsed \in Nat
      /\ scanned \in 0..Transports
      /\ promised \in 0..MaxAssertions
  OBVIOUS
<1>6. outcome \in Outcomes
  BY DEF Outcomes
<1>7. outcome = "running" <=> stage # "done"
  OBVIOUS
<1>8. outcome = "Timeout" <=> expired # None
  OBVIOUS
<1>9. QED BY ONLY <1>1, <1>2, <1>3, <1>4, <1>5, <1>6, <1>7, <1>8 , Init DEF TypeOK, Init

\* Time spent on a hop comes out of the budget.
LEMMA SpendType ==
    ASSUME TypeOK, NEW t \in 0..left, Spend(t)
    PROVE  left' \in 0..Budget /\ elapsed' \in Nat
BY CeremonyAssumption DEF TypeOK, Spend

\* What is left and what was spent add up.
LEMMA SpentType ==
    ASSUME NEW budget \in Nat, NEW rest \in 0..budget, NEW time \in Nat
    PROVE  time + (budget - rest) \in Nat
OBVIOUS

\* A device that times out by itself leaves some of the budget.
LEMMA RestType ==
    ASSUME TypeOK, left' \in 0..left, elapsed' = elapsed + (left - left')
    PROVE  left' \in 0..Budget /\ elapsed' \in Nat
<1>1. left \in 0..Budget /\ elapsed \in Nat /\ Budget \in Nat /\ left \in Nat
  BY CeremonyAssumption DEF TypeOK
<1>2. left' \in 0..Budget
  BY <1>1
<1>3. elapsed' \in Nat
  BY <1>1, SpentType
<1>4. QED BY <1>2, <1>3

\* Time spent on the owner or the drain hook only moves the clock.
LEMMA IdleType ==
    ASSUME TypeOK, NEW t \in IdleTimes, Idle(t)
    PROVE  left' \in 0..Budget /\ elapsed' \in Nat
BY CeremonyAssumption DEF TypeOK, Idle

\* Owner is the transport of a candidate that is this device.
LEMMA OwnerLists ==
    ASSUME TypeOK, NEW i \in 1..Len(candidates), NEW d, candidates[i][1] = d
    PROVE  /\ Owner(d) \in 1..Transports
           /\ \E k \in 1..i : candidates[k] = <<d, Owner(d)>>
<1> DEFINE IsFirst(k) == /\ candidates[k][1] = d
                         /\ \A j \in 1..(k - 1) : candidates[j][1] # d
           Lists == {k \in 1..Len(candidates) : candidates[k][1] = d}
<1>1. candidates \in Seq(Devices \X (1..Transports)) /\ Len(candidates) \in Nat
  BY DEF TypeOK
<1>2. PICK k \in Lists : \A j \in Lists : k <= j
  <2>1. Lists \in SUBSET Nat /\ Lists # {}
    BY <1>1
  <2>2. QED BY <2>1, LeastNatural
<1>3. IsFirst(k) /\ k \in 1..Len(candidates)
  BY <1>1, <1>2
<1>4. \A m \in 1..Len(candidates) : IsFirst(m) => m = k
  BY <1>1, <1>2, <1>3
<1>5. (CHOOSE m \in 1..Len(candidates) : IsFirst(m)) = k
  <2> HIDE DEF IsFirst
  <2> QED BY <1>3, <1>4
<1>6. Owner(d) = candidates[k][2]
  BY <1>5 DEF Owner
<1>7. candidates[k] \in Devices \X (1..Transports)
  BY <1>1, <1>3
<1>8. k \in 1..i
  BY <1>1, <1>2
<1>9. QED BY <1>3, <1>6, <1>7, <1>8

\* Every step keeps the types; Select needs a pool that is not empty.
LEMMA TypeStep == TypeOK /\ Heard /\ [Next]_vars => TypeOK'
<1> SUFFICES ASSUME TypeOK, Heard, [Next]_vars PROVE TypeOK' OBVIOUS
<1> USE CeremonyAssumption DEF TypeOK
<1>1. CASE HopExpires
  BY <1>1, Phased DEF HopExpires, TimeOut, Stages, Outcomes, Errors, discovery,
     acquisition, answers
<1>2. ASSUME NEW phase \in Phases, HopTimesOut(phase) PROVE TypeOK'
  <2>1. "UserPresence" \in Phases
    BY DEF Phases
  <2>2. expired' \in Phases
    BY <1>2, <2>1 DEF HopTimesOut, TimeOut
  <2>3. left' \in 0..Budget /\ elapsed' \in Nat
    <3>1. left' \in 0..left /\ elapsed' = elapsed + (left - left')
      BY <1>2, Zenon DEF HopTimesOut
    <3>2. QED BY <3>1, RestType
  <2>4. outcome' = "Timeout" /\ stage' = "done" /\ UNCHANGED reported
    BY <1>2 DEF HopTimesOut, TimeOut
  <2>5. "Timeout" \in Outcomes /\ "done" \in Stages
    BY DEF Outcomes, Errors, Stages
  <2>6. QED BY <1>2, <2>2, <2>3, <2>4, <2>5 DEF HopTimesOut, discovery, acquisition,
     answers
<1>3. CASE HopBreaks
  BY <1>3 DEF HopBreaks, Awaiting, HopStages, Fail, Stages, Outcomes, Errors, discovery,
     acquisition, answers, clock
<1>4. ASSUME NEW s \in DOMAIN StatusError, HopRefused(s) PROVE TypeOK'
  <2>1. /\ StatusError[s] \in Outcomes \ {"Timeout", "running"}
        /\ stage # "done"
    BY <1>4, StatusErrors DEF HopRefused, Outcomes
  <2>2. outcome' = StatusError[s] /\ stage' = "done"
    BY <1>4 DEF HopRefused, Fail
  <2>3. QED BY <1>4, <2>1, <2>2 DEF HopRefused, Fail, Stages, discovery, acquisition,
     answers, clock
<1>5. ASSUME NEW t \in 0..left, NEW list \in Listings, Enumerate(t, list) PROVE TypeOK'
  BY <1>5, SpendType DEF Enumerate, acquisition, answers, verdict
<1>6. ASSUME NEW t \in 0..left, EnumerateFails(t) PROVE TypeOK'
  BY <1>6, SpendType DEF EnumerateFails, acquisition, answers, verdict
<1>7. ASSUME NEW t \in 0..left, Connect(t) PROVE TypeOK'
  BY <1>7, SpendType DEF Connect, acquisition, answers, verdict, Stages, HopStages
<1>8. ASSUME NEW t \in 0..left, NEW answer \in Infos, Probe(t, answer) PROVE TypeOK'
  BY <1>8, SpendType DEF Probe, acquisition, answers, verdict, Stages, LocalStages,
     discovery
<1>9. ASSUME NEW t \in 0..left, AgreeKey(t) PROVE TypeOK'
  BY <1>9, SpendType DEF AgreeKey, acquisition, answers, verdict, Stages, LocalStages,
     discovery
<1>10. ASSUME NEW t \in 0..left, AcquireToken(t) PROVE TypeOK'
  BY <1>10, SpendType DEF AcquireToken, acquisition, answers, verdict, Stages,
     LocalStages, discovery
<1>11. ASSUME NEW t \in 0..left, Keepalive(t) PROVE TypeOK'
  BY <1>11, SpendType DEF Keepalive, acquisition, verdict, discovery
<1>12. ASSUME NEW t \in 0..left, NEW cred \in Creds, NEW n \in 0..MaxAssertions,
              Assert(t, cred, n)
       PROVE  TypeOK'
  <2>1. left' \in 0..Budget /\ elapsed' \in Nat
    BY <1>12, SpendType DEF Assert
  <2>2. assertions' \in Seq(Creds) /\ promised' \in 0..MaxAssertions
    <3>1. \/ UNCHANGED <<assertions, promised>>
          \/ assertions' = <<cred>> /\ promised' = n
      <4>1. CASE request.allow # {} /\ cred \notin request.allow
        BY <1>12, <4>1 DEF Assert
      <4>2. CASE ~(request.allow # {} /\ cred \notin request.allow)
        BY <1>12, <4>2, Zenon DEF Assert
      <4>3. QED BY <4>1, <4>2
    <3>2. <<cred>> \in Seq(Creds)
      OBVIOUS
    <3>3. QED BY <3>1, <3>2
  <2>3. Verdicts' /\ stage' \in Stages
    <3>1. \/ Fail("CredentialMismatch") \/ Fail("Transport") \/ Succeed
          \/ stage' = "drain" /\ UNCHANGED verdict
      <4>1. CASE request.allow # {} /\ cred \notin request.allow
        BY <1>12, <4>1 DEF Assert
      <4>2. CASE ~(request.allow # {} /\ cred \notin request.allow)
        <5>1. IF n <= 1 THEN Succeed ELSE IF ~input.drain THEN Fail("Transport")
              ELSE stage' = "drain" /\ UNCHANGED verdict
          BY <1>12, <4>2 DEF Assert
        <5>2. QED BY <5>1
      <4>3. QED BY <4>1, <4>2
    <3>2. outcome = "running" /\ expired = None
      BY <1>12 DEF Assert
    <3>3. /\ {"CredentialMismatch", "Transport", "Ok", "running"} \subseteq Outcomes
          /\ {"done", "drain"} \subseteq Stages
      BY DEF Outcomes, Errors, Stages, HopStages
    <3>4. Effective \in UvEffective
      BY DEF Effective, UvEffective
    <3>5. QED BY <3>1, <3>2, <3>3, <3>4 DEF Verdicts, verdict, Succeed, Fail
  <2>4. QED BY <1>12, <2>1, <2>2, <2>3 DEF Assert, acquisition, discovery, Verdicts
<1>13. CASE Discovered
  BY <1>13 DEF Discovered, acquisition, verdict, discovery, Stages, LocalStages, Outcomes,
     Errors, Fail, clock, answers
<1>14. ASSUME NEW d \in Devices, Select(d) PROVE TypeOK'
  <2>1. PICK i \in 1..Len(candidates) : candidates[i][1] = d
    <3>1. candidates # <<>> /\ (d = candidates[1][1] \/ d \in Pool)
      BY <1>14 DEF Select, Picks, Heard
    <3>2. 1 \in 1..Len(candidates)
      BY <3>1
    <3>3. QED BY <3>1, <3>2 DEF Pool
  <2>2. Owner(d) \in 1..Transports
    BY <2>1, OwnerLists
  <2>3. connected' \in Devices \X (1..Transports)
    BY <1>14, <2>2 DEF Select
  <2>4. QED BY <1>14, <2>3 DEF Select, acquisition, verdict, Stages, HopStages, clock,
     answers
<1>15. ASSUME NEW error \in Errors, SelectFails(error) PROVE TypeOK'
  BY <1>15 DEF SelectFails, acquisition, Fail, Stages, Outcomes, Errors, clock, answers,
     discovery
<1>16. CASE SkipAcquisition
  BY <1>16 DEF SkipAcquisition, acquisition, verdict, Stages, LocalStages, clock, answers,
     discovery
<1>17. ASSUME NEW p \in Protocols, Acquire(p) PROVE TypeOK'
  BY <1>17 DEF Acquire,  verdict, Stages, HopStages, clock, answers, discovery
<1>18. CASE AcquireFails
  BY <1>18 DEF AcquireFails,  Fail, Stages, Outcomes, Errors, clock, answers, discovery,
     acquisition
<1>19. ASSUME NEW t \in IdleTimes, ProvidePin(t) PROVE TypeOK'
  BY <1>19, IdleType DEF ProvidePin,  verdict, Stages, HopStages, answers, discovery
<1>20. ASSUME NEW t \in IdleTimes, NEW error \in {"PinProviderFailed", "PinTooLong"},
              ProvidePinFails(t, error)
       PROVE  TypeOK'
  BY <1>20, IdleType DEF ProvidePinFails, Fail, Stages, Outcomes, Errors,  answers,
     discovery
<1>21. ASSUME NEW t \in IdleTimes, NEW cred \in Creds, Drain(t, cred) PROVE TypeOK'
  BY <1>21, IdleType DEF Drain, Succeed, Effective, UvEffective, Stages, Outcomes, Errors,
     verdict, acquisition, discovery
<1>22. CASE Build
  <2>1. request' \in [param : Protocols \cup {None}, uv : BOOLEAN, allow : SUBSET Creds]
    <3>1. input.held \in Protocols \cup {None} /\ input.allow \in SUBSET Creds
      BY DEF Input
    <3>2. Param \in Protocols \cup {None} /\ UvShaped \in BOOLEAN
      BY <3>1 DEF Param, UvShaped
    <3>3. QED BY <1>22, <3>1, <3>2 DEF Build
  <2>2. Verdicts' /\ stage' \in Stages
    BY <1>22 DEF Build, Fail, Verdicts, verdict, Stages, HopStages, Outcomes, Errors
  <2>3. QED BY <1>22, <2>1, <2>2 DEF Build, Verdicts, acquisition, discovery, clock,
     answers
<1>23. CASE Cancel
  BY <1>23 DEF Cancel, Awaiting, HopStages, Fail, Stages, Outcomes, acquisition,
     discovery, clock, answers
<1>24. CASE UNCHANGED vars
  BY <1>24 DEF vars
<1>25. QED
  BY <1>1, <1>2, <1>3, <1>4, <1>5, <1>6, <1>7, <1>8, <1>9, <1>10, <1>11, <1>12, <1>13,
     <1>14, <1>15, <1>16, <1>17, <1>18, <1>19, <1>20, <1>21, <1>22, <1>23, <1>24
  DEF Next, Progress

-----------------------------------------------------------------------------
(* Discovery and selection.                                                *)

\* A step that neither builds the pool nor reads it.
Elsewhere ==
    /\ UNCHANGED <<input, scanned, offered, candidates, connected>>
    /\ UNCHANGED stage \/ stage' \notin {"discover", "select", "connect"}
    /\ UNCHANGED outcome \/ outcome' # "NoDevice"

\* The steps told apart by what they do to the pool.
LEMMA DiscoveryCases ==
    ASSUME [Next]_vars
    PROVE  \/ \E t \in 0..left : \/ \E list \in Listings : Enumerate(t, list)
                                \/ EnumerateFails(t)
                                \/ Connect(t)
           \/ Discovered
           \/ \E d \in Devices : Select(d)
           \/ \E error \in Errors : SelectFails(error)
           \/ Elsewhere
<1> USE DEF Elsewhere, discovery, verdict, Fail
<1>1. ASSUME HopExpires \/ \E phase \in Phases : HopTimesOut(phase) PROVE Elsewhere
  BY <1>1 DEF HopExpires, HopTimesOut, TimeOut
<1>2. ASSUME HopBreaks \/ Cancel \/ AcquireFails PROVE Elsewhere
  BY <1>2 DEF HopBreaks, Cancel, AcquireFails
<1>3. ASSUME NEW s \in DOMAIN StatusError, HopRefused(s) PROVE Elsewhere
  BY <1>3, StatusErrors DEF HopRefused
<1>4. ASSUME NEW t \in 0..left, NEW answer \in Infos, Probe(t, answer) PROVE Elsewhere
  BY <1>4 DEF Probe
<1>5. ASSUME NEW t \in 0..left, AgreeKey(t) \/ AcquireToken(t) \/ Keepalive(t)
      PROVE Elsewhere
  BY <1>5 DEF AgreeKey, AcquireToken, Keepalive
<1>6. ASSUME NEW t \in 0..left, NEW cred \in Creds, NEW n \in 0..MaxAssertions,
             Assert(t, cred, n)
      PROVE  Elsewhere
  BY <1>6 DEF Assert, Succeed
<1>7. ASSUME SkipAcquisition \/ \E p \in Protocols : Acquire(p) PROVE Elsewhere
  BY <1>7 DEF SkipAcquisition, Acquire
<1>8. ASSUME NEW t \in IdleTimes, ProvidePin(t) PROVE Elsewhere
  BY <1>8 DEF ProvidePin
<1>9. ASSUME NEW t \in IdleTimes, NEW error \in {"PinProviderFailed", "PinTooLong"},
             ProvidePinFails(t, error)
      PROVE  Elsewhere
  BY <1>9 DEF ProvidePinFails
<1>10. ASSUME NEW t \in IdleTimes, NEW cred \in Creds, Drain(t, cred) PROVE Elsewhere
  BY <1>10 DEF Drain, Succeed
<1>11. ASSUME Build PROVE Elsewhere
  BY <1>11 DEF Build
<1>12. ASSUME UNCHANGED vars PROVE Elsewhere
  BY <1>12 DEF vars
<1> HIDE DEF Elsewhere
<1>13. QED
  BY <1>1, <1>2, <1>3, <1>4, <1>5, <1>6, <1>7, <1>8, <1>9, <1>10, <1>11, <1>12
  DEF Next, Progress

\* A device is selected only from a full pool.
LEMMA HeardStep == TypeOK /\ Heard /\ [Next]_vars => Heard'
<1> SUFFICES ASSUME TypeOK, Heard, [Next]_vars PROVE Heard' OBVIOUS
<1> USE DEF Heard
<1>1. ASSUME NEW t \in 0..left, NEW list \in Listings, Enumerate(t, list) PROVE Heard'
  BY <1>1 DEF Enumerate
<1>2. ASSUME NEW t \in 0..left, EnumerateFails(t) \/ Connect(t) PROVE Heard'
  BY <1>2 DEF EnumerateFails, Connect
<1>3. CASE Discovered
  BY <1>3 DEF Discovered, discovery, Fail
<1>4. ASSUME NEW d \in Devices, Select(d) PROVE Heard'
  BY <1>4 DEF Select
<1>5. ASSUME NEW error \in Errors, SelectFails(error) PROVE Heard'
  BY <1>5 DEF SelectFails, Fail
<1>6. CASE Elsewhere
  BY <1>6 DEF Elsewhere
<1>7. QED BY <1>1, <1>2, <1>3, <1>4, <1>5, <1>6, DiscoveryCases

\* Enumerate appends a transport's list, tagged with the transport, and nothing else
\* touches the pool before a device is selected from it.
LEMMA PooledStep == TypeOK /\ Pooled /\ [Next]_vars => Pooled'
<1> SUFFICES ASSUME TypeOK, Pooled, [Next]_vars PROVE Pooled' OBVIOUS
<1>1. ASSUME NEW t \in 0..left, NEW list \in Listings, Enumerate(t, list) PROVE Pooled'
  <2> DEFINE owner == scanned + 1
             new == [i \in 1..Len(list) |-> <<list[i], owner>>]
  <2>1. /\ list \in Seq(Devices) /\ Len(list) \in Nat
        /\ owner \in 1..Transports /\ scanned \in Nat
        /\ stage = "discover" /\ scanned' = owner
        /\ offered' = [offered EXCEPT ![owner] = list]
        /\ candidates' = candidates \o new
    BY <1>1, CeremonyAssumption DEF Enumerate, TypeOK
  <2>2. new \in Seq(Devices \X (1..Transports)) /\ Len(new) = Len(list)
    <3>1. \A i \in 1..Len(list) : <<list[i], owner>> \in Devices \X (1..Transports)
      BY <2>1
    <3>2. QED BY <2>1, <3>1
  <2>3. candidates \in Seq(Devices \X (1..Transports)) /\ Len(candidates) \in Nat
    BY DEF TypeOK
  <2> HIDE DEF new
  <2>4. /\ Len(candidates') = Len(candidates) + Len(list)
        /\ \A k \in 1..Len(candidates) : candidates'[k] = candidates[k]
        /\ \A k \in Len(candidates)+1..Len(candidates) + Len(list) :
              candidates'[k] = new[k - Len(candidates)]
    <3> DEFINE S == Devices \X (1..Transports)
    <3>1. candidates \in Seq(S) /\ new \in Seq(S)
      BY <2>2, <2>3
    <3> HIDE DEF S
    <3>2. QED BY <2>1, <2>2, <3>1, ConcatElements
  <2>5. \A k \in Len(candidates)+1..Len(candidates) + Len(list) :
           /\ k - Len(candidates) \in 1..Len(list)
           /\ candidates'[k] = <<list[k - Len(candidates)], owner>>
    BY <2>1, <2>3, <2>4 DEF new
  <2>6. /\ offered \in [1..Transports -> Listings \cup {<<>>}]
        /\ offered'[owner] = list
        /\ \A i \in 1..Transports : i # owner => offered'[i] = offered[i]
    BY <2>1 DEF TypeOK
  <2>7. \A k \in 1..Len(candidates) :
           /\ candidates[k][2] \in 1..scanned
           /\ \E i \in 1..Len(offered[candidates[k][2]]) :
                 offered[candidates[k][2]][i] = candidates[k][1]
    BY <2>1 DEF Pooled
  <2>8. \A k \in 1..Len(candidates') :
           /\ candidates'[k][2] \in 1..owner
           /\ \E i \in 1..Len(offered'[candidates'[k][2]]) :
                 offered'[candidates'[k][2]][i] = candidates'[k][1]
    <3> SUFFICES ASSUME NEW k \in 1..Len(candidates')
                 PROVE  /\ candidates'[k][2] \in 1..owner
                        /\ \E i \in 1..Len(offered'[candidates'[k][2]]) :
                              offered'[candidates'[k][2]][i] = candidates'[k][1]
      OBVIOUS
    <3>1. CASE k \in 1..Len(candidates)
      <4>1. candidates[k][2] \in 1..scanned
        BY <2>7, <3>1
      <4>2. offered'[candidates[k][2]] = offered[candidates[k][2]]
        BY <2>1, <2>6, <4>1
      <4>3. QED BY <2>1, <2>4, <2>7, <3>1, <4>1, <4>2
    <3>2. CASE k \in Len(candidates)+1..Len(candidates) + Len(list)
      <4>1. /\ k - Len(candidates) \in 1..Len(list)
            /\ candidates'[k] = <<list[k - Len(candidates)], owner>>
        BY <2>5, <3>2
      <4>2. owner \in 1..owner /\ candidates'[k][2] = owner
        BY <2>1, <4>1
      <4>3. offered'[owner][k - Len(candidates)] = candidates'[k][1]
        BY <2>6, <4>1
      <4>4. QED BY <2>6, <4>1, <4>2, <4>3
    <3>3. k \in 1..Len(candidates) \/ k \in Len(candidates)+1..Len(candidates) + Len(list)
      BY <2>1, <2>3, <2>4
    <3>4. QED BY <3>1, <3>2, <3>3
  <2>9. \A j, k \in 1..Len(candidates') : j <= k => candidates'[j][2] <= candidates'[k][2]
    <3> SUFFICES ASSUME NEW j \in 1..Len(candidates'), NEW k \in 1..Len(candidates'), j <= k
                 PROVE  candidates'[j][2] <= candidates'[k][2]
      OBVIOUS
    <3>1. CASE k \in 1..Len(candidates)
      <4>1. j \in 1..Len(candidates)
        BY <2>3, <3>1
      <4>2. candidates[j][2] <= candidates[k][2]
        BY <2>1, <3>1, <4>1 DEF Pooled
      <4>3. QED BY <2>4, <3>1, <4>1, <4>2
    <3>2. CASE k \in Len(candidates)+1..Len(candidates) + Len(list)
      <4>1. candidates'[k][2] = owner
        BY <2>5, <3>2
      <4>2. candidates'[j][2] \in 1..owner
        BY <2>8
      <4>3. QED BY <2>1, <4>1, <4>2
    <3>3. k \in 1..Len(candidates) \/ k \in Len(candidates)+1..Len(candidates) + Len(list)
      BY <2>1, <2>3, <2>4
    <3>4. QED BY <3>1, <3>2, <3>3
  <2>10. ASSUME NEW i \in 1..Transports
         PROVE  /\ Len(offered'[i]) <= Len(candidates')
                /\ offered'[i] # <<>> => \E k \in 1..Len(candidates') : candidates'[k][2] = i
                /\ i > owner => offered'[i] = <<>>
    <3>1. CASE i = owner
      <4>1. Len(offered'[i]) <= Len(candidates')
        BY <2>1, <2>3, <2>4, <2>6, <3>1
      <4>2. ASSUME list # <<>>
            PROVE  \E k \in 1..Len(candidates') : candidates'[k][2] = i
        <5>1. Len(candidates) + 1 \in 1..Len(candidates')
          BY <2>1, <2>3, <2>4, <4>2
        <5>2. candidates'[Len(candidates) + 1][2] = owner
          <6>1. Len(candidates) + 1 \in Len(candidates)+1..Len(candidates) + Len(list)
            BY <2>1, <2>3, <4>2
          <6>2. QED BY <2>5, <6>1
        <5>3. QED BY <3>1, <5>1, <5>2
      <4>3. QED BY <2>1, <2>6, <3>1, <4>1, <4>2
    <3>2. CASE i # owner
      <4>1. /\ offered'[i] = offered[i]
            /\ Len(offered[i]) <= Len(candidates)
            /\ offered[i] # <<>> => \E k \in 1..Len(candidates) : candidates[k][2] = i
            /\ i > scanned => offered[i] = <<>>
        BY <2>1, <2>6, <3>2 DEF Pooled
      <4>2. Len(offered[i]) \in Nat
        BY <2>6, CeremonyAssumption
      <4>3. QED BY <2>1, <2>3, <2>4, <4>1, <4>2
    <3>3. QED BY <3>1, <3>2
  <2>11. QED BY <2>1, <2>8, <2>9, <2>10 DEF Pooled
<1>2. ASSUME NEW t \in 0..left, EnumerateFails(t) PROVE Pooled'
  <2>1. /\ UNCHANGED <<offered, candidates>>
        /\ scanned \in Nat /\ scanned' = scanned + 1 /\ stage = "discover"
    BY <1>2 DEF EnumerateFails, TypeOK
  <2>2. candidates \in Seq(Devices \X (1..Transports)) /\ Transports \in Nat
    BY CeremonyAssumption DEF TypeOK
  <2>3. 1..scanned \subseteq 1..(scanned + 1)
    BY <2>1
  <2>4. \A i \in 1..Transports : i > scanned + 1 => i > scanned
    BY <2>1, <2>2
  <2>5. QED BY <2>1, <2>3, <2>4 DEF Pooled
<1>3. CASE Discovered
  BY <1>3 DEF Discovered, discovery, Fail, Pooled
<1>4. ASSUME NEW t \in 0..left, Connect(t) PROVE Pooled'
  BY <1>4 DEF Connect, Pooled
<1>5. ASSUME NEW d \in Devices, Select(d) PROVE Pooled'
  BY <1>5 DEF Select, Pooled
<1>6. ASSUME NEW error \in Errors, SelectFails(error) PROVE Pooled'
  BY <1>6 DEF SelectFails, Fail, Pooled
<1>7. CASE Elsewhere
  BY <1>7 DEF Elsewhere, Pooled
<1>8. QED BY <1>1, <1>2, <1>3, <1>4, <1>5, <1>6, <1>7, DiscoveryCases

\* What was offered are lists of devices.
LEMMA OfferedTypes ==
    ASSUME TypeOK, NEW t \in 1..Transports
    PROVE  offered[t] \in Seq(Devices) /\ Len(offered[t]) \in Nat
<1>1. /\ offered \in [1..Transports -> Listings \cup {<<>>}]
      /\ Listings \subseteq Seq(Devices)
  BY CeremonyAssumption DEF TypeOK
<1>2. <<>> \in Seq(Devices)
  OBVIOUS
<1>3. offered[t] \in Seq(Devices)
  BY <1>1, <1>2
<1>4. QED BY <1>3

\* The pool bounds what was heard when the selection reads it.
LEMMA Chosen ==
    ASSUME TypeOK, Pooled, Heard, NEW d \in Devices, Select(d)
    PROVE  ConnectIsDeliberate'
<1> DEFINE n == Len(candidates)
<1>1. /\ candidates \in Seq(Devices \X (1..Transports)) /\ n \in Nat \ {0}
      /\ stage = "select" /\ scanned = Transports
      /\ stage' = "connect" /\ connected' = <<d, Owner(d)>>
      /\ UNCHANGED <<offered, scanned, input>>
  BY DEF TypeOK, Heard, Select
<1>2. outcome' # "NoDevice"
  BY DEF Select, verdict, TypeOK
<1>3. PICK i \in 1..n : /\ candidates[i][1] = d
                        /\ input.selection \in {"First", "Fail"} => i = 1
                        /\ input.selection = "Fail" => n = 1
  <2>1. 1 \in 1..n
    BY <1>1
  <2>2. CASE input.selection \in {"First", "Fail"}
    BY <2>1, <2>2 DEF Select, Picks
  <2>3. CASE input.selection = "Select"
    BY <2>3 DEF Select, Picks, Pool
  <2>4. QED BY <2>2, <2>3 DEF Select, Picks
<1>4. PICK k \in 1..i : candidates[k] = <<d, Owner(d)>>
  BY <1>3, OwnerLists
<1>5. k \in 1..n /\ candidates[k][2] = Owner(d) /\ candidates[k][1] = d
  BY <1>1, <1>3, <1>4
<1>6. /\ Owner(d) \in 1..Transports
      /\ \E j \in 1..Len(offered[Owner(d)]) : offered[Owner(d)][j] = d
  BY <1>1, <1>5 DEF Pooled
<1>7. ASSUME input.selection = "First", NEW t \in 1..(Owner(d) - 1)
      PROVE  offered[t] = <<>>
  <2>1. k = 1 /\ t \in 1..Transports /\ t < Owner(d)
    BY <1>1, <1>3, <1>6, <1>7, CeremonyAssumption
  <2>2. \A j \in 1..n : Owner(d) <= candidates[j][2]
    <3>1. \A j \in 1..n : 1 <= j /\ 1 \in 1..n
      BY <1>1
    <3>2. QED BY <1>1, <1>5, <2>1, <3>1 DEF Pooled
  <2>3. \A j \in 1..n : candidates[j][2] # t
    <3>1. \A j \in 1..n : candidates[j][2] \in 1..Transports
      BY <1>1 DEF Pooled
    <3>2. QED BY <2>1, <2>2, <3>1, <1>6, CeremonyAssumption
  <2>4. QED BY <1>1, <2>1, <2>3 DEF Pooled
<1>8. ASSUME input.selection = "Fail", NEW t \in 1..Transports
      PROVE  Len(offered[t]) = IF t = Owner(d) THEN 1 ELSE 0
  <2>1. n = 1 /\ k = 1
    BY <1>1, <1>3, <1>8
  <2>2. offered[t] \in Seq(Devices) /\ Len(offered[t]) \in Nat
    BY OfferedTypes
  <2>3. CASE t = Owner(d)
    BY <1>1, <1>6, <2>1, <2>2, <2>3 DEF Pooled
  <2>4. CASE t # Owner(d)
    <3>1. \A j \in 1..n : candidates[j][2] # t
      BY <1>5, <2>1, <2>4
    <3>2. offered[t] = <<>>
      BY <1>1, <3>1 DEF Pooled
    <3>3. QED BY <2>4, <3>2
  <2>5. QED BY <2>3, <2>4
<1>9. QED BY <1>1, <1>2, <1>6, <1>7, <1>8 DEF ConnectIsDeliberate

\* The ceremony connects, or gives up, on what all transports said.
LEMMA DeliberateStep ==
    TypeOK /\ Pooled /\ Heard /\ ConnectIsDeliberate /\ [Next]_vars => ConnectIsDeliberate'
<1> SUFFICES ASSUME TypeOK, Pooled, Heard, ConnectIsDeliberate, [Next]_vars
             PROVE  ConnectIsDeliberate'
  OBVIOUS
<1>1. ASSUME NEW t \in 0..left,
             \/ \E list \in Listings : Enumerate(t, list)
             \/ EnumerateFails(t)
             \/ Connect(t)
      PROVE  ConnectIsDeliberate'
  <2>1. outcome = "running" /\ outcome' = outcome /\ stage' # "connect"
    BY <1>1 DEF Enumerate, EnumerateFails, Connect, verdict, TypeOK
  <2>2. QED BY <2>1 DEF ConnectIsDeliberate
<1>2. CASE Discovered
  <2>1. /\ stage = "discover" /\ stage' # "connect" /\ UNCHANGED <<offered, candidates>>
        /\ outcome' = "NoDevice" => candidates = <<>>
    BY <1>2 DEF Discovered, Fail, discovery, verdict, TypeOK
  <2>2. ASSUME candidates = <<>>, NEW t \in 1..Transports PROVE offered[t] = <<>>
    <3>1. offered[t] \in Seq(Devices) /\ Len(offered[t]) \in Nat
      BY OfferedTypes
    <3>2. ~\E k \in 1..Len(candidates) : candidates[k][2] = t
      BY <2>2
    <3>3. QED BY <2>1, <3>2 DEF Pooled
  <2>3. QED BY <2>1, <2>2 DEF ConnectIsDeliberate
<1>3. ASSUME NEW d \in Devices, Select(d) PROVE ConnectIsDeliberate'
  BY <1>3, Chosen
<1>4. ASSUME NEW error \in Errors, SelectFails(error) PROVE ConnectIsDeliberate'
  <2>1. /\ stage' # "connect" /\ UNCHANGED input
        /\ outcome' = "NoDevice" => input.selection = "Select"
    BY <1>4 DEF SelectFails, Fail
  <2>2. QED BY <2>1 DEF ConnectIsDeliberate
<1>5. CASE Elsewhere
  BY <1>5 DEF Elsewhere, ConnectIsDeliberate
<1>6. QED BY <1>1, <1>2, <1>3, <1>4, <1>5, DiscoveryCases

-----------------------------------------------------------------------------
(* The PIN, the request and the drain.                                     *)

\* What Acquiring is about.
AcquisitionVars == <<input, info, proto, prompts, acquired>>

\* Only Acquire enters the acquisition, only ProvidePin counts a prompt, and only
\* AcquireToken leaves with a token.
LEMMA AcquiringStep == TypeOK /\ Acquiring /\ [Next]_vars => Acquiring'
<1> SUFFICES ASSUME TypeOK, Acquiring, [Next]_vars PROVE Acquiring' OBVIOUS
<1>1. ASSUME UNCHANGED AcquisitionVars,
             stage' = "done", outcome' # "Ok"
      PROVE  Acquiring'
  BY <1>1 DEF Acquiring, Agreed, Advertised, AcquisitionVars
<1>2. ASSUME HopExpires \/ \E phase \in Phases : HopTimesOut(phase) PROVE Acquiring'
  BY <1>1, <1>2 DEF HopExpires, HopTimesOut, TimeOut, AcquisitionVars, acquisition
<1>3. ASSUME HopBreaks \/ Cancel \/ AcquireFails PROVE Acquiring'
  BY <1>1, <1>3 DEF HopBreaks, Cancel, AcquireFails, Fail, AcquisitionVars, acquisition
<1>4. ASSUME NEW s \in DOMAIN StatusError, HopRefused(s) PROVE Acquiring'
  BY <1>1, <1>4, StatusErrors DEF HopRefused, Fail, AcquisitionVars, acquisition
<1>5. ASSUME NEW t \in 0..left,
             \/ \E list \in Listings : Enumerate(t, list)
             \/ EnumerateFails(t)
             \/ Connect(t)
             \/ Keepalive(t)
             \/ AgreeKey(t)
      PROVE  Acquiring'
  BY <1>5 DEF Enumerate, EnumerateFails, Connect, Keepalive, AgreeKey, acquisition,
     verdict,
     Acquiring, Agreed, Advertised, TypeOK
<1>6. ASSUME NEW t \in 0..left, NEW answer \in Infos, Probe(t, answer) PROVE Acquiring'
  BY <1>6 DEF Probe, acquisition, verdict, Acquiring, TypeOK
<1>7. ASSUME NEW t \in 0..left, AcquireToken(t) PROVE Acquiring'
  BY <1>7 DEF AcquireToken, verdict, Acquiring, Agreed, Advertised, TypeOK
<1>8. ASSUME NEW t \in 0..left, NEW cred \in Creds, NEW n \in 0..MaxAssertions,
             Assert(t, cred, n)
      PROVE  Acquiring'
  BY <1>8 DEF Assert, acquisition, verdict, Succeed, Fail, Acquiring, Agreed, Advertised,
     TypeOK
<1>9. ASSUME \/ Discovered
             \/ \E d \in Devices : Select(d)
             \/ \E error \in Errors : SelectFails(error)
      PROVE  Acquiring'
  BY <1>9 DEF Discovered, Select, SelectFails, Fail, acquisition, verdict, Acquiring,
     Agreed,
     Advertised, TypeOK
<1>10. ASSUME SkipAcquisition \/ Build PROVE Acquiring'
  BY <1>10 DEF SkipAcquisition, Build, Fail, acquisition, verdict, Acquiring, Agreed,
     Advertised, TypeOK
<1>11. ASSUME NEW p \in Protocols, Acquire(p) PROVE Acquiring'
  BY <1>11 DEF Acquire, NeedsToken, Selectable, verdict, Acquiring, Agreed, Advertised,
     TypeOK
<1>12. ASSUME NEW t \in IdleTimes, ProvidePin(t) PROVE Acquiring'
  BY <1>12 DEF ProvidePin, verdict, Acquiring, Agreed, Advertised, TypeOK
<1>13. ASSUME NEW t \in IdleTimes, NEW error \in {"PinProviderFailed", "PinTooLong"},
              ProvidePinFails(t, error)
       PROVE  Acquiring'
  BY <1>13 DEF ProvidePinFails, Fail, Acquiring, Agreed, Advertised, TypeOK
<1>14. ASSUME NEW t \in IdleTimes, NEW cred \in Creds, Drain(t, cred) PROVE Acquiring'
  BY <1>14 DEF Drain, Succeed, acquisition, verdict, Acquiring, Agreed, Advertised, TypeOK
<1>15. ASSUME UNCHANGED vars PROVE Acquiring'
  BY <1>15 DEF vars, Acquiring, Agreed, Advertised
<1>16. QED
  BY <1>2, <1>3, <1>4, <1>5, <1>6, <1>7, <1>8, <1>9, <1>10, <1>11, <1>12, <1>13, <1>14,
     <1>15
  DEF Next, Progress

\* A step that ends the ceremony without success.
Ends ==
    /\ stage' = "done" /\ outcome' # "Ok"
    /\ UNCHANGED <<input, info, proto, acquired, request, seen, assertions, promised>>
    /\ \/ UNCHANGED expired
       \/ /\ stage # "done"
          /\ stage = "exchange" /\ seen => expired' = "UserPresence"

\* A step of a ceremony that has not sent its request.
Prepares ==
    /\ stage \in Stages \ {"exchange", "drain", "done"}
    /\ stage' \notin {"exchange", "drain", "done"}
    /\ outcome' = "running"
    /\ UNCHANGED <<input, seen, assertions, expired>>

\* The steps told apart by what they do to the request and its answers.
LEMMA ExchangeCases ==
    ASSUME TypeOK, [Next]_vars
    PROVE  \/ Build
           \/ \E t \in 0..left :
                 \/ Keepalive(t)
                 \/ \E cred \in Creds, n \in 0..MaxAssertions : Assert(t, cred, n)
           \/ \E t \in IdleTimes, cred \in Creds : Drain(t, cred)
           \/ Ends
           \/ Prepares
           \/ UNCHANGED vars
<1>1. ASSUME HopExpires \/ \E phase \in Phases : HopTimesOut(phase) PROVE Ends
  BY <1>1 DEF Ends, HopExpires, HopTimesOut, TimeOut, HopPhase, Awaiting, HopStages,
     acquisition, answers
<1>2. ASSUME HopBreaks \/ Cancel \/ AcquireFails PROVE Ends
  BY <1>2 DEF Ends, HopBreaks, Cancel, AcquireFails, Fail, acquisition, answers
<1>3. ASSUME NEW s \in DOMAIN StatusError, HopRefused(s) PROVE Ends
  BY <1>3, StatusErrors DEF Ends, HopRefused, Fail, acquisition, answers
<1>4. ASSUME NEW t \in 0..left,
             \/ \E list \in Listings : Enumerate(t, list)
             \/ EnumerateFails(t)
             \/ Connect(t)
             \/ \E answer \in Infos : Probe(t, answer)
             \/ AgreeKey(t)
             \/ AcquireToken(t)
      PROVE  Prepares
  BY <1>4 DEF Prepares, Enumerate, EnumerateFails, Connect, Probe, AgreeKey, AcquireToken,
     answers, verdict, TypeOK
<1>5. ASSUME NEW error \in Errors, SelectFails(error) PROVE Ends
  BY <1>5 DEF Ends, SelectFails, Fail, acquisition, answers, Errors, StatusError
<1>6. CASE Discovered
  BY <1>6 DEF Ends, Prepares, Discovered, Fail, acquisition, answers, verdict, TypeOK
<1>7. ASSUME SkipAcquisition \/ \E d \in Devices : Select(d) PROVE Prepares
  BY <1>7 DEF Prepares, SkipAcquisition, Select, answers, verdict, TypeOK
<1>8. ASSUME NEW p \in Protocols, Acquire(p) PROVE Prepares
  BY <1>8 DEF Prepares, Acquire, answers, verdict, TypeOK
<1>9. ASSUME NEW t \in IdleTimes, ProvidePin(t) PROVE Prepares
  BY <1>9 DEF Prepares, ProvidePin, answers, verdict, TypeOK
<1>10. ASSUME NEW t \in IdleTimes, NEW error \in {"PinProviderFailed", "PinTooLong"},
              ProvidePinFails(t, error)
       PROVE  Ends
  BY <1>10 DEF Ends, ProvidePinFails, Fail, answers
<1> HIDE DEF Ends, Prepares
<1>11. QED
  BY <1>1, <1>2, <1>3, <1>4, <1>5, <1>6, <1>7, <1>8, <1>9, <1>10 DEF Next, Progress

\* Build is content with a request that Built describes.
LEMMA BuildStep == ASSUME TypeOK, Build PROVE Built'
<1>1. Param' = Param /\ UvShaped' = UvShaped /\ Advertised' = Advertised
  BY DEF Build, Param, UvShaped, Advertised, acquisition
<1>2. /\ UNCHANGED <<input, info>>
      /\ \/ stage' = "done" /\ outcome' # "Ok"
         \/ /\ request' = [param |-> Param, uv |-> UvShaped, allow |-> input.allow]
            /\ Param # None => Param \in Advertised
            /\ Param = None /\ input.policy = "Preferred" /\ info.clientPin => info.uv
  BY DEF Build, Fail
<1>3. QED BY <1>1, <1>2 DEF Built

\* Once built the request stays as it is.
LEMMA BuiltStep == TypeOK /\ Built /\ [Next]_vars => Built'
<1> SUFFICES ASSUME TypeOK, Built, [Next]_vars PROVE Built' OBVIOUS
<1>1. CASE Build
  BY <1>1, BuildStep
<1>2. ASSUME UNCHANGED <<input, info, acquired, proto, request>>,
             stage' \in {"exchange", "drain"} \/ outcome' = "Ok" =>
                 stage \in {"exchange", "drain"} \/ outcome = "Ok"
      PROVE  Built'
  <2>1. Param' = Param /\ UvShaped' = UvShaped /\ Advertised' = Advertised
    BY <1>2 DEF Param, UvShaped, Advertised
  <2>2. QED BY <1>2, <2>1 DEF Built
<1>3. ASSUME NEW t \in 0..left, Keepalive(t) PROVE Built'
  BY <1>2, <1>3 DEF Keepalive, acquisition
<1>4. ASSUME NEW t \in 0..left, NEW cred \in Creds, NEW n \in 0..MaxAssertions,
             Assert(t, cred, n)
      PROVE  Built'
  BY <1>2, <1>4 DEF Assert, acquisition
<1>5. ASSUME NEW t \in IdleTimes, NEW cred \in Creds, Drain(t, cred) PROVE Built'
  BY <1>2, <1>5 DEF Drain, acquisition
<1>6. CASE Ends
  BY <1>6 DEF Ends, Built
<1>7. CASE Prepares
  BY <1>7 DEF Prepares, Built
<1>8. CASE UNCHANGED vars
  BY <1>2, <1>8 DEF vars
<1>9. QED BY <1>1, <1>3, <1>4, <1>5, <1>6, <1>7, <1>8, ExchangeCases

\* The first assertion fixes how many are owed, and each hop pays one.
LEMMA DrainedStep == TypeOK /\ Built /\ Drained /\ [Next]_vars => Drained'
<1> SUFFICES ASSUME TypeOK, Built, Drained, [Next]_vars PROVE Drained' OBVIOUS
<1>1. CASE Build
  BY <1>1 DEF Build, Fail, Drained, answers, verdict, TypeOK
<1>2. ASSUME NEW t \in 0..left, Keepalive(t) PROVE Drained'
  BY <1>2 DEF Keepalive, Drained, verdict, TypeOK
<1>3. ASSUME NEW t \in 0..left, NEW cred \in Creds, NEW n \in 0..MaxAssertions,
             Assert(t, cred, n)
      PROVE  Drained'
  <2>1. /\ stage = "exchange" /\ assertions = <<>> /\ request.allow = input.allow
        /\ outcome = "running" /\ n \in Nat
    BY <1>3 DEF Assert, Built, Drained, TypeOK
  <2>2. CASE request.allow # {} /\ cred \notin request.allow
    BY <1>3, <2>1, <2>2 DEF Assert, Fail, Drained
  <2>3. CASE ~(request.allow # {} /\ cred \notin request.allow)
    <3>1. /\ /\ assertions' = <<cred>>
          /\ promised' = n
          /\ UNCHANGED <<input, acquired, request>>
          /\ IF n <= 1 THEN Succeed
             ELSE IF ~input.drain THEN Fail("Transport")
             ELSE stage' = "drain" /\ UNCHANGED verdict
      BY <1>3, <2>3, Zenon DEF Assert, acquisition
    <3>2. Len(assertions') = 1 /\ assertions'[1] = cred
      BY <3>1
    <3>3. Effective' = Effective
      BY <3>1 DEF Effective
    <3>4. QED BY <2>1, <2>3, <3>1, <3>2, <3>3 DEF Succeed, Fail, verdict, Drained
  <2>4. QED BY <2>2, <2>3
<1>4. ASSUME NEW t \in IdleTimes, NEW cred \in Creds, Drain(t, cred) PROVE Drained'
  <2>1. /\ stage = "drain" /\ outcome = "running"
        /\ Len(assertions) \in 1..(promised - 1) /\ promised \in Nat
        /\ assertions \in Seq(Creds)
        /\ input.allow # {} => assertions[1] \in input.allow
    BY <1>4, CeremonyAssumption DEF Drain, Drained, TypeOK
  <2>2. /\ assertions' = Append(assertions, cred)
        /\ UNCHANGED <<input, acquired, request, promised>>
        /\ IF Len(assertions) + 1 = promised THEN Succeed ELSE UNCHANGED <<stage, verdict>>
    BY <1>4, Zenon DEF Drain, acquisition
  <2>3. /\ Len(assertions') = Len(assertions) + 1
        /\ assertions'[1] = assertions[1]
    BY <2>1, <2>2
  <2>4. Effective' = Effective
    BY <2>2 DEF Effective
  <2>5. CASE Len(assertions) + 1 = promised
    BY <2>1, <2>2, <2>3, <2>4, <2>5 DEF Succeed, Drained
  <2>6. CASE Len(assertions) + 1 # promised
    BY <2>1, <2>2, <2>3, <2>6 DEF verdict, Drained
  <2>7. QED BY <2>5, <2>6
<1>5. CASE Ends
  BY <1>5 DEF Ends, Drained
<1>6. CASE Prepares
  BY <1>6 DEF Prepares, Drained
<1>7. CASE UNCHANGED vars
  BY <1>7 DEF vars, Drained, Effective
<1>8. QED BY <1>1, <1>2, <1>3, <1>4, <1>5, <1>6, <1>7, ExchangeCases

\* Keepalives are heard in the exchange, and what they change is what a
\* timeout of it is called.
LEMMA AliveStep ==
    TypeOK /\ Drained /\ Alive /\ TimeoutNamesPresence /\ [Next]_vars
        => Alive' /\ TimeoutNamesPresence'
<1> SUFFICES ASSUME TypeOK, Drained, Alive, TimeoutNamesPresence, [Next]_vars
             PROVE  Alive' /\ TimeoutNamesPresence'
  OBVIOUS
<1>1. CASE Build
  BY <1>1 DEF Build, Fail, answers, verdict, Alive, TimeoutNamesPresence
<1>2. ASSUME NEW t \in 0..left, Keepalive(t) PROVE Alive' /\ TimeoutNamesPresence'
  BY <1>2 DEF Keepalive, verdict, Alive, TimeoutNamesPresence, TypeOK
<1>3. ASSUME NEW t \in 0..left, NEW cred \in Creds, NEW n \in 0..MaxAssertions,
             Assert(t, cred, n)
      PROVE  Alive' /\ TimeoutNamesPresence'
  BY <1>3 DEF Assert, Fail, Succeed, verdict, Alive, TimeoutNamesPresence, TypeOK
<1>4. ASSUME NEW t \in IdleTimes, NEW cred \in Creds, Drain(t, cred)
      PROVE  Alive' /\ TimeoutNamesPresence'
  BY <1>4 DEF Drain, Succeed, verdict, Alive, TimeoutNamesPresence, TypeOK
<1>5. CASE Ends
  <2>1. stage = "drain" => assertions # <<>>
    BY DEF Drained
  <2>2. QED BY <1>5, <2>1 DEF Ends, Alive, TimeoutNamesPresence, TypeOK
<1>6. CASE Prepares
  BY <1>6 DEF Prepares, Alive, TimeoutNamesPresence
<1>7. CASE UNCHANGED vars
  BY <1>7 DEF vars, Alive, TimeoutNamesPresence
<1>8. QED BY <1>1, <1>2, <1>3, <1>4, <1>5, <1>6, <1>7, ExchangeCases

-----------------------------------------------------------------------------
(* The inductive invariant and what it implies.                            *)

\* The invariant holds at the start, is kept by every step, and so holds throughout.
LEMMA InvInit == Init => Inv
<1> SUFFICES ASSUME Init PROVE Inv OBVIOUS
<1>1. TypeOK
  BY TypeInit
<1>2. Pooled /\ Heard /\ ConnectIsDeliberate
  BY CeremonyAssumption DEF Init, Pooled, Heard, ConnectIsDeliberate
<1>3. Acquiring /\ Built /\ Drained /\ Alive /\ TimeoutNamesPresence
  BY DEF Init, Acquiring, Built, Drained, Alive, TimeoutNamesPresence
<1>4. QED BY <1>1, <1>2, <1>3 DEF Inv

LEMMA InvStep == Inv /\ [Next]_vars => Inv'
BY TypeStep, PooledStep, HeardStep, DeliberateStep, AcquiringStep, BuiltStep, DrainedStep,
   AliveStep DEF Inv

LEMMA Inductive == Spec => []Inv
BY InvInit, InvStep, PTL DEF Spec

\* Every variable keeps its type, for any number of transports, any budget and
\* any answers of transports and devices.
THEOREM TypeCorrect == Spec => []TypeOK
<1>1. Inv => TypeOK
  BY DEF Inv
<1>2. QED BY <1>1, Inductive, PTL

\* The selection policy is obeyed whatever the transports listed, and in
\* whatever order they failed: run, discover and apply_selection connect only
\* to a device its own transport listed, and give up only on an empty pool.
THEOREM ConnectsDeliberately == Spec => []ConnectIsDeliberate
<1>1. Inv => ConnectIsDeliberate
  BY DEF Inv
<1>2. QED BY <1>1, Inductive, PTL

\* acquire_token never prompts twice, and prompts only under the conditions of
\* phase 4a and for a protocol that the device advertised.
THEOREM PromptsAreDisciplined == Spec => []PromptDiscipline
<1>1. Inv => PromptDiscipline
  BY DEF Inv, Acquiring, Agreed, PromptDiscipline
<1>2. QED BY <1>1, Inductive, PTL

\* The request built from the probe and the acquisition stays sound as long as
\* it is exchanged, and no answer turns it into a silent downgrade.
THEOREM RequestsAreSound == Spec => []RequestIsSound
<1>1. ASSUME Inv, stage \in {"exchange", "drain"} \/ outcome = "Ok"
      PROVE  /\ request.param # None => ~request.uv /\ request.param \in Advertised
             /\ request.uv => info.uv
             /\ input.policy = "Preferred" /\ (info.uv \/ info.clientPin) =>
                    request.param # None \/ request.uv
  <2>1. /\ request.param = Param /\ request.uv = UvShaped
        /\ Param # None => Param \in Advertised
        /\ Param = None /\ input.policy = "Preferred" /\ info.clientPin => info.uv
    BY <1>1 DEF Inv, Built
  <2>2. UvShaped <=> Param = None /\ input.policy = "Preferred" /\ info.uv
    BY DEF UvShaped
  <2>3. QED BY <2>1, <2>2
<1>2. Inv => RequestIsSound
  BY <1>1 DEF RequestIsSound
<1>3. QED BY <1>2, Inductive, PTL

\* A successful run has drained exactly what the first answer promised, began
\* with an allowed credential and reports the posture it really had.
THEOREM OutcomesAreComplete == Spec => []OutcomeIsComplete
<1>1. ASSUME Inv, outcome = "Ok"
      PROVE  /\ Len(assertions) = (IF promised = 0 THEN 1 ELSE promised)
             /\ input.allow # {} => assertions[1] \in input.allow
             /\ reported = "PinUvAuthToken" <=> prompts = 1
             /\ reported \in {"PinUvAuth", "PinUvAuthToken"} <=> request.param # None
             /\ reported = "UvOption" <=> request.uv
  <2>1. /\ Len(assertions) = (IF promised = 0 THEN 1 ELSE promised)
        /\ reported = Effective
    BY <1>1 DEF Inv, Drained
  <2>2. assertions # <<>>
    <3>1. Len(assertions) # 0
      BY <2>1
    <3>2. QED BY <3>1
  <2>3. input.allow # {} => assertions[1] \in input.allow
    BY <1>1, <2>2 DEF Inv, Drained
  <2>4. /\ acquired <=> prompts = 1
        /\ acquired => proto # None
    <3>1. None \notin Protocols /\ Protocols # {}
      BY CeremonyAssumption DEF Protocols
    <3>2. acquired => proto \in Advertised
      BY <1>1 DEF Inv, Acquiring, Agreed
    <3>3. Advertised \subseteq Protocols
      <4>1. info \in Info \cup {NoInfo}
        BY <1>1, CeremonyAssumption DEF Inv, TypeOK
      <4>2. info.protocols \in Seq(Protocols)
        <5>1. CASE info = NoInfo
          BY <5>1 DEF NoInfo
        <5>2. CASE info \in Info
          BY <5>2 DEF Info
        <5>3. QED BY <4>1, <5>1, <5>2
      <4>3. QED BY <4>2 DEF Advertised
    <3>4. QED BY <1>1, <3>1, <3>2, <3>3 DEF Inv, Acquiring
  <2>5. /\ request.param = Param
        /\ request.uv <=> Param = None /\ input.policy = "Preferred" /\ info.uv
    <3>1. request.param = Param /\ request.uv = UvShaped
      BY <1>1 DEF Inv, Built
    <3>2. QED BY <3>1 DEF UvShaped
  <2>6. /\ acquired => Param # None
        /\ request.uv => Param = None
    BY <2>4, <2>5 DEF Param
  <2>7. QED BY <2>1, <2>3, <2>4, <2>5, <2>6 DEF Effective
<1>2. Inv => OutcomeIsComplete
  BY <1>1 DEF OutcomeIsComplete
<1>3. QED BY <1>2, Inductive, PTL

\* However the exchange times out after a keepalive, by the ceremony's own
\* deadline or the device's, the error names user presence.
THEOREM TimeoutsNamePresence == Spec => []TimeoutNamesPresence
<1>1. Inv => TimeoutNamesPresence
  BY DEF Inv
<1>2. QED BY <1>1, Inductive, PTL

\* Deadline::wait refuses to start a hop on an empty budget: whatever happens
\* to a ceremony that awaits one with nothing left ends it, without another
\* message to the device.
THEOREM ExpiryEnds == Spec => ExpiryEndsCeremony
<1>1. ASSUME TypeOK, [Next]_vars, left = 0, Awaiting
      PROVE  UNCHANGED vars \/ (stage' = "done" /\ outcome' \in {"Timeout", "cancelled"})
  <2>1. /\ HopExpires => stage' = "done" /\ outcome' = "Timeout"
        /\ Cancel => stage' = "done" /\ outcome' = "cancelled"
    BY DEF HopExpires, Cancel, TimeOut, Fail
  <2>2. /\ ~\E phase \in Phases : HopTimesOut(phase)
        /\ ~HopBreaks
        /\ ~\E status \in DOMAIN StatusError : HopRefused(status)
    BY <1>1 DEF HopTimesOut, HopBreaks, HopRefused
  <2>3. \A t : ~Spend(t)
    BY <1>1 DEF Spend
  <2>4. /\ stage \in HopStages
        /\ stage = "discover" => scanned # Transports
    BY <1>1, CeremonyAssumption DEF Awaiting, TypeOK
  <2>5. QED
    BY <1>1, <2>1, <2>2, <2>3, <2>4
    DEF Next, Progress, HopStages, Enumerate, EnumerateFails, Connect, Probe, AgreeKey,
        AcquireToken, Keepalive, Assert, Discovered, Select, SelectFails, SkipAcquisition,
        Acquire, AcquireFails, ProvidePin, ProvidePinFails, Drain, Build
<1>2. TypeOK /\ [Next]_vars =>
         [left = 0 /\ Awaiting =>
             stage' = "done" /\ outcome' \in {"Timeout", "cancelled"}]_vars
  BY <1>1
<1>3. QED BY <1>2, TypeCorrect, PTL DEF Spec, ExpiryEndsCeremony
=============================================================================
