----------------------------- MODULE SoftDevice -----------------------------
(***************************************************************************)
(* The software authenticator behind the Device trait                      *)
(* (fidoh-transport-soft): one SoftAuthenticator under a lock, the          *)
(* SoftDevices connected to it, and the harness that mints credentials,     *)
(* pokes, arms knobs and imports snapshots.  What clientPIN does with its   *)
(* registers is ClientPin's; here it only draws from the shared stream.     *)
(*                                                                         *)
(* A send takes the lock several times, and other threads may take it in   *)
(* between: each section is a step, `at' says which one comes next.  Two    *)
(* sections are one step where the order cannot be told: see Presence.      *)
(*                                                                         *)
(* A credential's id and key are the two draws of its minting; the position *)
(* of the stream stands for both.  Time is counted in poll slices.          *)
(***************************************************************************)
EXTENDS Naturals, Sequences, FiniteSets, SequencesExt, FiniteSetsExt

CONSTANTS Handles,      \* callers, one connection each at a time
          Rps,
          Commands,     \* what callers send
          Fixtures,     \* credentials minted before anyone connects
          Settings,     \* knobs the harness arms
          Starts,       \* initial_sign_count
          Postures,     \* up_mode and uv_mode to begin with
          Budgets,      \* a command's deadline, in slices
          Snapshots,    \* what is imported
          MaxQueue,     \* MAX_ASSERTION_QUEUE
          Width,        \* bound: values of the signature counter, 2^32
          MaxAsks,      \* bound: commands in all
          MaxRecords,   \* bound: credentials stored
          MaxCalls,     \* bound: calls of the harness
          MaxDraws,     \* bound: draws from the stream
          None

Requirements == {"UP", "UV"}
Modes == {"AutoApprove", "AlwaysFail", "RequireExplicitPoke"}
Statuses == {"UP_PROCESSING", "UP_NEEDED"}

Command == [kind : {"GetInfo", "ClientPin"}] \cup
           [kind : {"GetAssertion"}, rp : Rps, allow : {None} \cup SUBSET Nat]

\* Knobs; of the delay, whether it is armed and how many slices it costs.
Knobs == [status : BOOLEAN,
          keepalives : Seq([status : Statuses, spacing : Nat]),
          delay : {None} \cup Nat,
          wrongId : BOOLEAN,
          persistent : BOOLEAN]

Record == [id : Nat, rp : Rps, resident : BOOLEAN]

\* version: supported; sound: the record's fields decode to a P-256 scalar.
Snapshot == [version : BOOLEAN, count : Nat,
             credentials : Seq([record : Record, sound : BOOLEAN])]

ASSUME SoftAssumption ==
    /\ Commands \subseteq Command
    /\ IsFiniteSet(Handles)
    /\ Fixtures \subseteq Seq([rp : Rps, resident : BOOLEAN])
    /\ \A f \in Fixtures : Len(f) <= MaxRecords /\ 2 * Len(f) <= MaxDraws
    /\ Settings \subseteq Knobs
    /\ Width \in Nat \ {0} /\ MaxQueue \in Nat
    /\ Snapshots \subseteq Snapshot /\ \A s \in Snapshots : s.count < Width
    /\ Starts \subseteq 0..Width - 1
    /\ Postures \subseteq [Requirements -> Modes]
    /\ {MaxAsks, MaxRecords, MaxCalls, MaxDraws} \cup Budgets \subseteq Nat

VARIABLES store,      \* credentials
          drawn,      \* the stream's position
          counter,    \* sign_count
          mode,       \* up_mode, uv_mode
          poked,      \* up_poked, uv_poked
          queue,      \* assertion_queue: indices into store
          knobs,
          at,         \* where each caller's send is
          asked,      \* the command under way and its ordinal
          left,       \* the caller's Deadline
          device,     \* events, pending_response, pending_overshoot
          last,       \* what the caller's last send returned
          claims,     \* history: the multi-assertion answer a caller may drain
          ledger,     \* history: see NewLedger
          calls       \* harness calls so far

core == <<store, drawn, counter, mode, poked, queue, knobs>>
vars == <<store, drawn, counter, mode, poked, queue, knobs, at, asked, left, device,
          last, claims, ledger, calls>>

\* "asking": the command has begun and no send is in progress.
Sections == {"status", "keepalives", "UP", "UV", "delay", "assert"}
Stages == {"away", "ready", "asking"} \cup Sections

Kinds == {"none", "keepalive", "pending", "processing", "timeout", "status",
          "info", "pin", "denied", "noCredentials", "assertion", "next", "notAllowed"}

\* What a send returns; "next" is what get_next_assertion does.  Of an assertion: the command it was computed for, the
\* credential that signed, the one its descriptor names, numberOfCredentials.
NoEvent == [kind |-> "none", ask |-> 0, signer |-> 0, echoed |-> 0, number |-> 0]
Of(kind, ask) == [NoEvent EXCEPT !.kind = kind, !.ask = ask]

NewDevice == [events |-> <<>>, held |-> NoEvent, overshoot |-> FALSE]
NewKnobs == [status |-> FALSE, keepalives |-> <<>>, delay |-> None,
             wrongId |-> FALSE, persistent |-> FALSE]

NoClaim == [live |-> FALSE, command |-> [kind |-> "GetInfo"], number |-> 0,
            handed |-> <<>>]

\* start: the counter at the beginning; issued: signatures handed out or
\* dropped; given and paid: pokes of the harness and presences they paid for;
\* imported; tidy: callers who drove every command of their connection to its
\* answer.
NewLedger(start) ==
    [start |-> start, issued |-> 0,
     given |-> [r \in Requirements |-> 0], paid |-> [r \in Requirements |-> 0],
     imported |-> FALSE, tidy |-> Handles]

Ledger == [start : Nat, issued : Nat,
           given : [Requirements -> Nat], paid : [Requirements -> Nat],
           imported : BOOLEAN, tidy : SUBSET Handles]

Questions == Commands \cup {NoClaim.command}
Event == [kind : Kinds, ask : Nat, signer : {0} \cup DOMAIN store,
          echoed : {0} \cup DOMAIN store, number : Nat]
Device == [events : Seq(Statuses), held : Event, overshoot : BOOLEAN]
Claim == [live : BOOLEAN, command : Questions, number : Nat, handed : Seq(Nat)]

AuthenticatorOK ==
    /\ store \in Seq(Record) /\ Len(store) <= MaxRecords
    /\ drawn \in 0..MaxDraws
    /\ counter \in 0..Width - 1
    /\ mode \in [Requirements -> Modes]
    /\ poked \in [Requirements -> BOOLEAN]
    /\ queue \in Seq(DOMAIN store) /\ Len(queue) <= MaxQueue
    /\ knobs \in Knobs
    /\ calls \in 0..MaxCalls

CallersOK ==
    /\ at \in [Handles -> Stages]
    /\ asked \in [Handles -> [serial : Nat, command : Questions]]
    /\ left \in [Handles -> Nat]
    /\ device \in [Handles -> Device]
    /\ last \in [Handles -> Event]
    /\ claims \in [Handles -> Claim]
    /\ \A h \in Handles :
          /\ \E b \in Budgets \cup {0} : left[h] <= b
          /\ device[h].overshoot => device[h].held # NoEvent \/ at[h] = "assert"

TypeOK == AuthenticatorOK /\ CallersOK /\ ledger \in Ledger

-----------------------------------------------------------------------------
(* The authenticator.                                                      *)

\* The id and key a minting draws.  Minted(fixture, n): the n-th of a fixture.
Minted(credential, position) ==
    [id |-> position, rp |-> credential.rp, resident |-> credential.resident]

\* A finite set of numbers as a sequence, the smallest first.
Ascending(S) ==
    [n \in 1..Cardinality(S) |-> CHOOSE i \in S : Cardinality({j \in S : j <= i}) = n]

\* Variant: a list with nothing in it counts as no list.
MatchingEmptyIsNone(records, command) ==
    LET listed == command.allow # None /\ command.allow # {}
        fits(record) == /\ record.rp = command.rp
                        /\ IF listed THEN record.id \in command.allow ELSE record.resident
    IN  Ascending({i \in DOMAIN records : fits(records[i])})

\* select_credentials: the indices of what the allow list names, or of the
\* discoverable credentials when there is no list.
Matching(records, command) ==
    LET fits(record) == /\ record.rp = command.rp
                        /\ IF command.allow = None
                           THEN record.resident
                           ELSE record.id \in command.allow
    IN  Ascending({i \in DOMAIN records : fits(records[i])})

\* wrong_credential_id: the first credential with another id, if there is one.
Echoed(signer, wrong) ==
    LET others == {i \in DOMAIN store : store[i].id # store[signer].id}
    IN  IF wrong /\ others # {} THEN CHOOSE i \in others : \A j \in others : i <= j
        ELSE signer

\* Variant: the counter saturates instead of wrapping.
NextCountStuck(count) == IF count = Width - 1 THEN count ELSE count + 1

\* sign_count.wrapping_add(1).
NextCount(count) == (count + 1) % Width

\* Variant: the stream that stands in for the core's during a clientPIN exchange
\* is left there.
DrawLosesStream(n) == drawn' = IF n = 1 THEN 0 ELSE drawn + n

\* DeterministicRng::fill: the stream goes on by what is drawn; other sources
\* are external.
Draw(n) ==
    /\ drawn + n <= MaxDraws
    /\ drawn' = drawn + n

\* A knob fires once unless the knobs are persistent.
Reset(fields) == IF knobs.persistent THEN knobs ELSE fields

-----------------------------------------------------------------------------
(* The harness.                                                            *)

Harness == calls < MaxCalls /\ calls' = calls + 1

\* make_credential: two draws, one signature, no presence asked.
MakeCredential(rp, resident) ==
    /\ Harness
    /\ Len(store) < MaxRecords
    /\ Draw(2)
    /\ counter' = NextCount(counter)
    /\ store' = Append(store, Minted([rp |-> rp, resident |-> resident], drawn + 2))
    /\ ledger' = [ledger EXCEPT !.issued = @ + 1]
    /\ UNCHANGED <<mode, poked, queue, knobs, at, asked, left, device, last, claims>>

\* poke_user_presence, poke_user_verification.
Poke(r) ==
    /\ Harness
    /\ poked' = [poked EXCEPT ![r] = TRUE]
    /\ ledger' = [ledger EXCEPT !.given[r] = @ + 1]
    /\ UNCHANGED <<store, drawn, counter, mode, queue, knobs, at, asked, left, device,
                   last, claims>>

\* set_up_mode, set_uv_mode.
SetMode(r, m) ==
    /\ Harness
    /\ m # mode[r]
    /\ mode' = [mode EXCEPT ![r] = m]
    /\ UNCHANGED <<store, drawn, counter, poked, queue, knobs, at, asked, left, device,
                   last, claims, ledger>>

\* knobs_mut.
Arm(k) ==
    /\ Harness
    /\ knobs' = k
    /\ UNCHANGED <<store, drawn, counter, mode, poked, queue, at, asked, left, device,
                   last, claims, ledger>>

\* snapshot::import into (records, count): the records are pushed one at a time
\* until one is unsound, and the counter is set when none is.
Imported(records, count, snapshot) ==
    LET entries == snapshot.credentials
        broken == {i \in DOMAIN entries : ~entries[i].sound}
        pushed == IF ~snapshot.version THEN 0
                  ELSE IF broken = {} THEN Len(entries)
                  ELSE (CHOOSE i \in broken : \A j \in broken : i <= j) - 1
    IN  [records |-> records \o [i \in 1..pushed |-> entries[i].record],
         count |-> IF snapshot.version /\ broken = {} THEN snapshot.count ELSE count]

Import(snapshot) ==
    /\ Harness
    /\ LET outcome == Imported(store, counter, snapshot)
       IN  /\ Len(outcome.records) <= MaxRecords
           /\ store' = outcome.records
           /\ counter' = outcome.count
    /\ ledger' = [ledger EXCEPT !.imported = TRUE]
    /\ UNCHANGED <<drawn, mode, poked, queue, knobs, at, asked, left, device, last, claims>>

-----------------------------------------------------------------------------
(* Callers.                                                                *)

Goes(h, to) == at' = [at EXCEPT ![h] = to]

\* SoftTransport::connect; the device is then opened or not, which it does not
\* notice.
Connect(h) ==
    /\ at[h] = "away"
    /\ Goes(h, "ready")
    /\ device' = [device EXCEPT ![h] = NewDevice]
    /\ last' = [last EXCEPT ![h] = NoEvent]
    /\ ledger' = [ledger EXCEPT !.tidy = @ \cup {h}]
    /\ UNCHANGED <<core, asked, left, claims, calls>>

\* SoftDevice::close, or the device is dropped: what it staged goes with it.
Close(h) ==
    /\ at[h] \in {"ready", "asking"}
    /\ Goes(h, "away")
    /\ device' = [device EXCEPT ![h] = NewDevice]
    /\ last' = [last EXCEPT ![h] = NoEvent]
    /\ claims' = [claims EXCEPT ![h] = NoClaim]
    /\ ledger' = [ledger EXCEPT !.issued = IF device[h].held = NoEvent THEN @ ELSE @ + 1]
    /\ UNCHANGED <<core, asked, left, calls>>

\* The caller starts a command with a deadline of its own.
Begin(h, command, budget) ==
    /\ at[h] = "ready"
    /\ MapThenSumSet(LAMBDA c : asked[c].serial, Handles) < MaxAsks
    /\ asked' = [asked EXCEPT ![h] = [serial |-> @.serial + 1, command |-> command]]
    /\ left' = [left EXCEPT ![h] = budget]
    /\ last' = [last EXCEPT ![h] = NoEvent]
    /\ claims' = [claims EXCEPT ![h] = NoClaim]
    /\ Goes(h, "asking")
    /\ UNCHANGED <<core, device, ledger, calls>>

\* The caller drops its command.
GiveUp(h) ==
    /\ at[h] = "asking"
    /\ last[h] # NoEvent
    /\ Goes(h, "ready")
    /\ last' = [last EXCEPT ![h] = NoEvent]
    /\ ledger' = [ledger EXCEPT !.tidy = @ \ {h}]
    /\ UNCHANGED <<core, asked, left, device, claims, calls>>

\* A send returns progress: the caller asks again.
Progress(h, kind) ==
    /\ last' = [last EXCEPT ![h] = Of(kind, asked[h].serial)]
    /\ Goes(h, "asking")

\* A send returns an answer, and the command is over.
Answer(h, event) ==
    /\ last' = [last EXCEPT ![h] = event]
    /\ Goes(h, "ready")

\* Error::Timeout ends the command without an answer.
Expire(h) ==
    /\ last' = [last EXCEPT ![h] = Of("timeout", asked[h].serial)]
    /\ Goes(h, "ready")
    /\ ledger' = [ledger EXCEPT !.tidy = @ \ {h}]

Signatures == {"assertion", "next"}

Issued(l, event) == [l EXCEPT !.issued = IF event.kind \in Signatures THEN @ + 1 ELSE @]

-----------------------------------------------------------------------------
(* SoftDevice::send.                                                       *)

NextEvent(h, to) ==
    /\ device' = [device EXCEPT ![h].events = Tail(@)]
    /\ Progress(h, to)
    /\ UNCHANGED ledger

\* What is staged is handed out first, whatever the command; a held response
\* with its overshoot shows as progress once.
Send(h) ==
    /\ at[h] = "asking"
    /\ LET d == device[h] IN
       CASE left[h] = 0 ->
               Expire(h) /\ UNCHANGED device
         [] left[h] # 0 /\ d.events # <<>> ->
               NextEvent(h, "keepalive")
         [] left[h] # 0 /\ d.events = <<>> /\ d.overshoot ->
               /\ device' = [device EXCEPT ![h].overshoot = FALSE]
               /\ Progress(h, "processing")
               /\ UNCHANGED ledger
         [] left[h] # 0 /\ d.events = <<>> /\ ~d.overshoot /\ d.held # NoEvent ->
               /\ device' = [device EXCEPT ![h].held = NoEvent]
               /\ Answer(h, d.held)
               /\ ledger' = Issued(ledger, d.held)
         [] OTHER ->
               Goes(h, "status") /\ UNCHANGED <<device, last, ledger>>
    /\ UNCHANGED <<core, asked, left, claims, calls>>

\* take_injected_status, and in the same section all of a getInfo or clientPIN
\* exchange: clientPIN may draw entropy, from the stream credentials come from.
Status(h) ==
    /\ at[h] = "status"
    /\ LET kind == asked[h].command.kind IN
       \/ /\ knobs.status
          /\ knobs' = Reset([knobs EXCEPT !.status = FALSE])
          /\ Answer(h, Of("status", asked[h].serial))
          /\ UNCHANGED drawn
       \/ /\ ~knobs.status /\ kind = "GetInfo"
          /\ Answer(h, Of("info", asked[h].serial))
          /\ UNCHANGED <<knobs, drawn>>
       \/ /\ ~knobs.status /\ kind = "ClientPin"
          /\ Answer(h, Of("pin", asked[h].serial))
          /\ \E n \in {0, 1} : Draw(n)
          /\ UNCHANGED knobs
       \/ /\ ~knobs.status /\ kind = "GetAssertion"
          /\ Goes(h, "keepalives")
          /\ UNCHANGED <<knobs, drawn, last>>
    /\ UNCHANGED <<store, counter, mode, poked, queue, asked, left, device, claims,
                   ledger, calls>>

\* Variant: waiting costs nothing.
ChargeNothing(h, d) == left' = [left EXCEPT ![h] = @]

\* consume_budget_slice: what is not left is not charged, and expires.
Affords(h, d) == d \in 0..left[h]
Charge(h, d) == left' = [left EXCEPT ![h] = IF Affords(h, d) THEN @ - d ELSE 0]

\* The spacings of the first n keepalives.
Spacings(sequence, n) == FoldLeft(LAMBDA sum, k : sum + k.spacing, 0, SubSeq(sequence, 1, n))

\* keepalive_sequence: staged one at a time as the budget affords it; what is
\* staged when the budget ends stays.  The first goes out at once.
Keepalives(h) ==
    /\ at[h] = "keepalives"
    /\ LET sequence == knobs.keepalives
           afforded == {0} \cup {n \in 1..Len(sequence) : Affords(h, Spacings(sequence, n))}
           n == CHOOSE n \in afforded : \A m \in afforded : m <= n
           events == device[h].events \o [i \in 1..n |-> sequence[i].status]
       IN  /\ knobs' = Reset([knobs EXCEPT !.keepalives = <<>>])
           /\ IF n < Len(sequence)
              THEN /\ left' = [left EXCEPT ![h] = 0]
                   /\ device' = [device EXCEPT ![h].events = events]
                   /\ Expire(h)
              ELSE /\ Charge(h, Spacings(sequence, n))
                   /\ UNCHANGED ledger
                   /\ IF events = <<>>
                      THEN Goes(h, "UP") /\ UNCHANGED <<device, last>>
                      ELSE /\ device' = [device EXCEPT ![h].events = Tail(events)]
                           /\ Progress(h, "keepalive")
    /\ UNCHANGED <<store, drawn, counter, mode, poked, queue, asked, claims, calls>>

\* Variant: the latch is looked at and left set.
ReleasedStays(r) == poked[r] /\ UNCHANGED poked

\* take_up_poke, take_uv_poke.
Released(r) == poked[r] /\ poked' = [poked EXCEPT ![r] = FALSE]

\* await_up_uv.  A poke is taken as soon as its own requirement is looked at,
\* and is gone if the other requirement still pends.  Without one a slice is
\* paid, and the command is asked again from its beginning.  The code lets go
\* of the lock between reading the mode and taking the poke; nothing that sets
\* a mode looks at a poke, or the other way round, so one step stands for both.
Presence(h, r, next) ==
    /\ at[h] = r
    /\ \/ /\ mode[r] = "AutoApprove"
          /\ Goes(h, next)
          /\ UNCHANGED <<poked, left, last, ledger>>
       \/ /\ mode[r] = "AlwaysFail"
          /\ Answer(h, Of("denied", asked[h].serial))
          /\ UNCHANGED <<poked, left, ledger>>
       \/ /\ mode[r] = "RequireExplicitPoke"
          /\ Released(r)
          /\ Goes(h, next)
          /\ ledger' = [ledger EXCEPT !.paid[r] = @ + 1]
          /\ UNCHANGED <<left, last>>
       \/ /\ mode[r] = "RequireExplicitPoke"
          /\ ~poked[r]
          /\ Charge(h, 1)
          /\ IF Affords(h, 1)
             THEN Progress(h, "pending") /\ UNCHANGED ledger
             ELSE Expire(h)
          /\ UNCHANGED poked
    /\ UNCHANGED <<store, drawn, counter, mode, queue, knobs, asked, device, claims, calls>>

\* delay_beyond_deadline, charged up to the hard cap; its failure is ignored.
Delay(h) ==
    /\ at[h] = "delay"
    /\ knobs' = Reset([knobs EXCEPT !.delay = None])
    /\ IF knobs.delay = None THEN UNCHANGED left ELSE Charge(h, knobs.delay)
    /\ device' = [device EXCEPT ![h].overshoot = knobs.delay # None]
    /\ Goes(h, "assert")
    /\ UNCHANGED <<store, drawn, counter, mode, poked, queue, asked, last, claims,
                   ledger, calls>>

\* Variant: the maximum is forgotten.
ParkedUncut(matching) == IF Len(matching) > 1 THEN Tail(matching) ELSE queue

\* Variant: the rest is parked as a stack.
ParkedBackwards(matching) ==
    IF Len(matching) > 1
    THEN Reverse(SubSeq(Tail(matching), 1, IF Len(matching) - 1 <= MaxQueue
                                           THEN Len(matching) - 1 ELSE MaxQueue))
    ELSE queue

\* The rest of several matches, up to the maximum; a single match leaves the
\* queue as it was.
Parked(matching) ==
    IF Len(matching) > 1
    THEN SubSeq(Tail(matching), 1, IF Len(matching) - 1 <= MaxQueue THEN Len(matching) - 1
                                   ELSE MaxQueue)
    ELSE queue

\* The command itself, in one section: select, sign, park the rest, and answer
\* or hold the answer back.
GetAssertion(h) ==
    /\ at[h] = "assert"
    /\ LET matching == Matching(store, asked[h].command)
           number == Len(matching)
           answer == [kind |-> "assertion", ask |-> asked[h].serial,
                      signer |-> matching[1],
                      echoed |-> Echoed(matching[1], knobs.wrongId),
                      number |-> IF number > 1 THEN number ELSE 0]
       IN  IF number = 0
           THEN /\ Answer(h, Of("noCredentials", asked[h].serial))
                /\ device' = [device EXCEPT ![h].overshoot = FALSE]
                /\ UNCHANGED <<counter, queue, knobs, claims, ledger>>
           ELSE /\ knobs' = Reset([knobs EXCEPT !.wrongId = FALSE])
                /\ counter' = NextCount(counter)
                /\ queue' = Parked(matching)
                /\ claims' =
                     [c \in Handles |->
                        IF c = h
                        THEN [live |-> number > 1, command |-> asked[h].command,
                              number |-> number, handed |-> <<>>]
                        ELSE IF number > 1 THEN [claims[c] EXCEPT !.live = FALSE]
                        ELSE claims[c]]
                /\ IF device[h].overshoot
                   THEN /\ device' = [device EXCEPT ![h].held = answer]
                        /\ Progress(h, "processing")
                        /\ UNCHANGED ledger
                   ELSE /\ Answer(h, answer)
                        /\ ledger' = Issued(ledger, answer)
                        /\ UNCHANGED device
    /\ UNCHANGED <<store, drawn, mode, poked, asked, left, calls>>

\* get_next_assertion: any caller takes the head of the one queue, whatever it
\* asked for.
GetNextAssertion(h) ==
    /\ at[h] = "ready"
    /\ IF queue = <<>>
       THEN /\ Answer(h, Of("notAllowed", asked[h].serial))
            /\ UNCHANGED <<counter, queue, claims, ledger>>
       ELSE LET answer == [kind |-> "next", ask |-> asked[h].serial,
                           signer |-> Head(queue), echoed |-> Head(queue), number |-> 0]
            IN  /\ queue' = Tail(queue)
                /\ counter' = NextCount(counter)
                /\ Answer(h, answer)
                /\ ledger' = Issued(ledger, answer)
                /\ claims' = [c \in Handles |->
                                IF c = h /\ claims[c].live
                                THEN [claims[c] EXCEPT !.handed = Append(@, Head(queue))]
                                ELSE [claims[c] EXCEPT !.live = FALSE]]
    /\ UNCHANGED <<store, drawn, mode, poked, knobs, asked, left, device, calls>>

-----------------------------------------------------------------------------
Init ==
    /\ \E minted \in Fixtures, start \in Starts :
          /\ store = [i \in DOMAIN minted |-> Minted(minted[i], 2 * i)]
          /\ drawn = 2 * Len(minted)
          /\ counter = (start + Len(minted)) % Width
          /\ ledger = [NewLedger(start) EXCEPT !.issued = Len(minted)]
    /\ mode \in Postures
    /\ poked = [r \in Requirements |-> FALSE]
    /\ queue = <<>>
    /\ knobs = NewKnobs
    /\ at = [h \in Handles |-> "away"]
    /\ asked = [h \in Handles |-> [serial |-> 0, command |-> NoClaim.command]]
    /\ left = [h \in Handles |-> 0]
    /\ device = [h \in Handles |-> NewDevice]
    /\ last = [h \in Handles |-> NoEvent]
    /\ claims = [h \in Handles |-> NoClaim]
    /\ calls = 0

\* What a caller that keeps asking does.
Runs(h) ==
    \/ Send(h)
    \/ Status(h)
    \/ Keepalives(h)
    \/ Presence(h, "UP", "UV")
    \/ Presence(h, "UV", "delay")
    \/ Delay(h)
    \/ GetAssertion(h)

Next ==
    \/ \E h \in Handles :
          \/ Runs(h)
          \/ Connect(h)
          \/ \E command \in Commands, budget \in Budgets : Begin(h, command, budget)
          \/ GetNextAssertion(h)
          \/ GiveUp(h)
          \/ Close(h)
    \/ \E rp \in Rps, resident \in BOOLEAN : MakeCredential(rp, resident)
    \/ \E r \in Requirements : Poke(r) \/ \E m \in Modes : SetMode(r, m)
    \/ \E k \in Settings : Arm(k)
    \/ \E snapshot \in Snapshots : Import(snapshot)

Spec == Init /\ [][Next]_vars

\* A caller whose command is under way keeps sending it.
FairSpec == Spec /\ \A h \in Handles : WF_vars(Runs(h))

-----------------------------------------------------------------------------
(* Properties.                                                             *)

\* The signature counter moves once for every credential minted and every
\* assertion signed, wherever the assertion is (handed out, held back by the
\* delay knob or dropped with its device), and for nothing else: not for a
\* denial, an expiry, an injected status or an empty queue (sign_assertion,
\* make_credential; importing a snapshot sets it).
OneCountPerAssertion ==
    LET held == {h \in Handles : device[h].held # NoEvent}
    IN  ~ledger.imported =>
            counter = (ledger.start + ledger.issued + Cardinality(held)) % Width

\* While callers see their commands through, what a send returns answers the
\* caller's own command, and an assertion, of one match or of several, is signed
\* by a credential of its relying party the command asks for, although it may
\* have been computed some sends earlier, and other callers use the
\* authenticator between the sections of a send (exchange_get_assertion,
\* pending_response).  What get_next_assertion returns is DrainIsTheRest's.
AnswersOwnCommand ==
    \A h \in ledger.tidy :
        LET command == asked[h].command
            event == last[h]
        IN  /\ event # NoEvent => event.ask = asked[h].serial
            /\ event.kind = "info" => command.kind = "GetInfo"
            /\ event.kind = "assertion" =>
                   /\ command.kind = "GetAssertion"
                   /\ store[event.signer].rp = command.rp
                   /\ IF command.allow = None THEN store[event.signer].resident
                      ELSE store[event.signer].id \in command.allow

\* Until another caller drains or parks a queue of its own, what a caller got
\* from getNextAssertion and what still is parked are the second to the last of
\* its command's matches, each once and in order, cut at the maximum; so it
\* sees NotAllowed only after that (assertion_queue).
DrainIsTheRest ==
    \A h \in Handles :
        LET claim == claims[h]
            promised == IF claim.number <= MaxQueue + 1 THEN claim.number
                        ELSE MaxQueue + 1
        IN  claim.live =>
                claim.handed \o queue = SubSeq(Matching(store, claim.command), 2, promised)

\* One poke pays for one presence: whichever callers wait, and whatever becomes
\* of the command it released, no two presences come from one poke, and a poke
\* not spent is still there for the next (take_up_poke, take_uv_poke).
PokesPayOnce ==
    \A r \in Requirements :
        ledger.paid[r] + (IF poked[r] THEN 1 ELSE 0) <= ledger.given[r]

\* Minting never repeats a credential id, with clientPIN exchanges drawing from
\* the stream in between, unless a snapshot brought in ids of its own
\* (exchange_client_pin puts the stream back, make_credential draws from it).
IdsAreDistinct ==
    ~ledger.imported =>
        \A i, j \in DOMAIN store : store[i].id = store[j].id => i = j

\* Keepalives that come again with every send and cost no time: knobs the
\* harness may set, and consume_budget_slice charges nothing for a zero spacing.
Endless ==
    /\ knobs.persistent
    /\ knobs.keepalives # <<>>
    /\ Spacings(knobs.keepalives, Len(knobs.keepalives)) = 0

\* A caller that keeps sending its command gets an answer or a timeout: staged
\* keepalives, a held response and a poke that never comes only last as long as
\* its deadline (send, consume_budget_slice).  The one exception is Endless: such
\* knobs, while they stay armed, keep a caller sending for ever.
Answered ==
    \A h \in Handles :
        at[h] \in {"asking"} \cup Sections ~> (at[h] \in {"ready", "away"} \/ []Endless)
=============================================================================
