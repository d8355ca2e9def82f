# fidoh: a TLA+ verification project

fidoh is a FIDO2 client library: it finds authenticators over USB HID and
PC/SC, runs one `authenticatorGetAssertion` ceremony on the one selected,
acquires a pinUvAuthToken when the ceremony needs one, and ships a software
authenticator that plays the other side. The modules here model the parts of
it whose correctness depends on order, time and other parties. Paths are
relative to the repository, `fidoh-core` stands for `crates/fidoh-core/src`,
and so on.

## Inventory

| component | code | state it keeps | operations | what is hard |
|---|---|---|---|---|
| clientPIN of the software authenticator | `fidoh-transport-soft/auth.rs`, `config.rs` | PIN hash, retry counter, streak of mismatches, power-cycle latch, a key agreement register per protocol, failure knobs | `set_pin`, `clear_pin`, `power_cycle`, `set_pin_protocols`, knobs, `client_pin_exchange` | several clients share the registers; the counter is charged before the compare and restored after it |
| PIN token acquisition | `fidoh-core/ceremony.rs`, `pin.rs` | local: protocol, key, PIN | probe, agree, collect the PIN, ask for the token | four round trips another client can interleave with |
| getAssertion ceremony | `fidoh-core/ceremony.rs` | candidates, device, info, request, assertions | discover, select, connect, probe, acquire, shape, exchange, drain, cancel by race | one budget over all hops, a keepalive stream, partial failures of discovery |
| Deadline and phases | `fidoh-core/time.rs`, `policy.rs`, `future.rs` | remaining budget | `wait`, `consume_slice`, `select` | who charges the budget, what an expiry is called |
| HID channel | `fidoh-transport-hid/fsm.rs`, `device.rs`, `fd_wait.rs`, `packet.rs` | channel, nonce counter, assembler | connect, allocate, resync, transaction, cancel, close | every report reaches every open node; late, lost and foreign reports; busy retries; dropped futures |
| HID enumeration | `fidoh-transport-hid/sysfs*.rs`, `descriptor.rs`, `fd.rs` | none between calls; a scan keeps globals and a stack | walk, `find_fido_usage` | nodes come and go while the walk reads them; nested Push and Pop |
| PC/SC transport | `fidoh-transport-pcsc` | card handles, connection, chain | connect with retry, SELECT, exchange, field polls, close | contention, chaining, calls that block inside a poll, a card shared with other software |
| software authenticator, the rest | `fidoh-transport-soft/device.rs`, `auth.rs`, `snapshot.rs`, `rng.rs`, `wire.rs` | credentials, signature counter, presence latches, knobs, random stream, assertion queue; per connection staged events and a held response | connect, `send`, `get_next_assertion`, close, `make_credential`, pokes, modes, knobs, import, export | one send takes the lock several times; queue and latches shared by connections; events staged for a command that is gone |
| codecs | `fidoh-core/cbor.rs`, `get_info.rs`, `get_assertion.rs`, `cose.rs` | none | encode, strict and tolerant decode, typed messages | canonical forms at their boundaries, duplicate keys, defaults |
| command line | `fidoh-cli-ui` | parsed arguments, candidates, diagnostics, prompt, output buffer | list, info, assert, help | hardware that changes during discovery, several reasons to find nothing, output at the end |
| cryptography, tokio adapter | `fidoh-core/crypto.rs`, `fidoh-tokio` | none | ECDH, AES, HMAC; sleep, spawn_blocking | a blocking call goes on after its future is dropped |

They interact as follows. The caller runs a ceremony with a list of transports, a
`Deadline` and a `Sleep`. The ceremony enumerates each transport, connects to
one device and sends it commands; every hop is a future the ceremony races
against a timer of the remaining budget, and dropping a hop is how it is
cancelled. The HID device turns a command into a CTAPHID transaction on its
channel; the soft device hands it to the shared authenticator under a lock.
Within one `client_pin_exchange` nothing interleaves; between two of them
anything does, and a getAssertion lets go of the lock between its sections.
The command line enumerates and connects by itself and runs the exchange part
of a ceremony on the device it got.

What makes each correct: the authenticator never gives more guesses than the
allowance and hands a token only to who proved the PIN (ClientPin); the
ceremony connects to one device it was told to, prompts at most when needed,
sends a request CTAP allows, returns as many assertions as reported, and ends
(Ceremony); a response is the answer to the request it is returned for and a
connection leaves no transaction behind (HidChannel); an exchange puts together
the card's answer to its own command in a bounded number of APDUs and every
card handle is given back (PcscExchange); the software authenticator answers a
caller's own command, drains each match once, counts each signature once and
lets one poke pay for one presence (SoftDevice); a canonical text and only it is
strictly decoded (Codecs); a report descriptor is matched as it declares, and a
message means the same written and read (Formats, Codecs); a run
of the client lists what is there and says why it found nothing (Cli).
`PROJECT.json` lists the hazards behind these at their lines.

## Modules

| module | what it is |
|---|---|
| `PinLockout` | abstract specification: a lifetime allowance of guesses and a window between power cycles |
| `ClientPin` | the authenticator's clientPIN state machine and the clients that acquire tokens from it |
| `ClientPinProofs` | its inductive invariant and theorems |
| `Ceremony` | one getAssertion ceremony with its budget, transports, device, prompt and drain hook |
| `CeremonyProofs` | its inductive invariant and theorems |
| `HidChannel` | CTAPHID connections to a token other software uses |
| `HidChannelProofs` | its theorems, for any connections whose connects do not overlap |
| `PcscExchange` | callers of the PC/SC transport and other software on one card |
| `PcscExchangeProofs` | its inductive invariant and theorems |
| `SoftDevice` | callers of one software authenticator and the harness around it |
| `SoftDeviceProofs` | its inductive invariants and theorems |
| `HidDescriptor` | the scan of a report descriptor, and what it should find |
| `Cbor` | encoder and decoders, byte by byte |
| `Messages` | the typed messages over decoded maps |
| `Codecs` | `Formats`, or a text that grows byte by byte, where the CBOR decoders are compared with the encoder |
| `Formats` | a descriptor or a message grows; the scan is compared with the declaration, the typed decoders with the encoders |
| `FormatProofs` | its theorems, for descriptors and messages of any length |
| `Cli` | one run of the command line client; uses `HidDescriptor` to say which nodes are keys |
| `CliProofs` | its inductive invariant and theorems |
| `DataLemmas` | facts about numbers, remainders, sequences and sets that the proofs share |
| `MCClientPin`, `MCCeremony`, `MCHidChannel`, `MCPcscExchange`, `MCSoftDevice`, `MCCodecs`, `MCCli` | values of the constants for TLC |

Definitions whose comment starts with "Variant" are plausible bugs of the
definition that follows them; the specifications never use them. They are
substituted one at a time to see that a property notices.

### ClientPin

`pin`, `retries`, `mismatches`, `latched` and `register` are the fields of
`ClientPinState`; `armed`, the protocols and the knobs those of the
authenticator. `Exchange(r, status)` is the whole of `client_pin_exchange` for
a getPinToken request: `Screens` is the ordered list of its early returns,
`Refused` the exits before the counter moves, `Wasted` those after the charge
and before the compare, `Mismatched` and `Granted` the two outcomes of the
compare. `Regenerate` is getKeyAgreement. A client's session walks through
`acquire_pin_uv_auth_token` (`Probe`, `Agree`, `CollectPin`, `RequestToken`),
one step per round trip, and other clients, the owner (`SetPin`, `ClearPin`,
`PowerCycle`) and the test harness (`SetPinProtocols`, knobs, injected
statuses) act between any two. Cryptography is symbolic: a register remembers
whose handshake its key pair is from, and a ciphertext opens only when that
is still the sender's. `guesses` and `overtaken` are history variables for the
properties. Entropy may fail wherever it is drawn: before a register is written
(`AgreeRefused`), and after the counters are reset, before the token or at the IV
that encrypts it (`Granted` with `KeyStoreFull`).

`PinLockout` promises only what the code and its comments agree on. They disagree
twice (below, under clientPIN): whether a new PIN clears an exhausted window, and
whether a request that fails to decrypt costs a try. Both readings are behaviours of
`PinLockout`, so `ImplementsLockout` decides neither; `ClientPin` does what the code
does.

### Ceremony

One action per hop and per local decision, in the order of `run` and
`exchange_pipeline`. Every hop may answer, break, be refused with a status,
find the budget exhausted or be dropped by `Cancel`. `left` is the `Deadline`;
`elapsed` is the time that really passed. The constant `Metered` says whether
hops consume slices of the budget as they wait (the HID transport does) or
only race the timer (PC/SC and a bare `wait`).

### HidChannel

Each host is a connection: closed, open (node opened, nothing written),
opening or resyncing (in `init_handshake`), idle, waiting (in `receive_loop`)
or in backoff (the busy delay of `transaction`). A report popped from the
host's kernel queue is one step of the receive loop, classified in the order
of `Fsm::step`. An expiry is `consume_slice` granting nothing;
`GiveUp` is the error path of `exchange`, which cancels. Every report may fail to be
written: the first or a later one of a request (`SendUnwritten`), of its reissue after a
busy refusal (`ReissueUnwritten`), a resync's INIT (`ResyncUnwritten`), a connect's, which
loses the node (`Close` of an open node), and the cancel, whose failure the code swallows
(`Abandons`): nobody learns of it, and the history records that end as "lost". A token is
assumed to forget what it got of a message that was not written to its end. The token has one
transaction at a time, answers BUSY to others, and sends keepalives, an
answer of up to three packets or an error. Another client allocates channels,
sends requests and cancels them. All of these are external, marked so in the
map. Reports carry the request they answer as a label the code cannot see;
`serves`, `serial`, `runs`, `end` and `dirty` are history variables. `dirty`
is set by a dropped or failed transaction and by starting a resync, and
cleared by a successful handshake: the guarantees hold for connections whose
caller resyncs after a failure, which the code leaves to the caller.

### PcscExchange

A caller is a thread that drives one `PcscDevice` at a time: `conn` is the
device's token, `open` the handles the resource manager has open (the keys of
the library's map), `stale` those whose card went. `Connect` enters the retry
loop and `Attempt` is one turn of it; `SelectApplet` is the SELECT with each way
it can end, and `Release` what `close`, `Drop` and a declined SELECT share.
`Send` starts an exchange, `Transmit` is one `transmit` followed by
`Exchange::step` on what came back (`Step`, with `Hop` for the two arms that go
through `guard_hop`, `WrongLe` and `Completed` for theirs), `TransmitFails` a
failed call. `WaitForField` and `PollField` are the presence loop.

The library's methods are synchronous and `select` polls them before the
timer, so the call always answers first: an APDU is one step, and a budget
stops a call only by being empty when the call is made. `left` therefore moves
only in `PollField`, which consumes slices. A future of this transport completes
within one poll and cannot be dropped half way.

External: the card, which has one applet selected and one response to hand out,
and may be busy first, refuse the Le of any APDU, hand out no data with a 61xx
or answer any other status word; its removal and return; and the rival, which
connects in either mode where the resource manager admits it and selects
another applet or leaves a response pending. Response data are chunks labelled
with who was answered and which run of the request produced them, labels the
code cannot see. `apdus`, `runs` and `disturbed` in an exchange are history.
`turn` flips on every contended turn, so that a loop that changes nothing is
still seen to run.

### SoftDevice

`store`, `counter`, `mode`, `poked`, `queue`, `knobs` and the position of the
random stream `drawn` are the fields of `SoftAuthenticator`; `device` those of each
connected `SoftDevice`. A caller sends a command again until it is answered, and
`at` is where its `send` stands. `Send` is the part before the lock: the empty
budget, staged events, the held response. `Status`, `Keepalives`, `Presence` (for
user presence, then verification), `Delay` and `GetAssertion` are the sections of
`exchange_get_assertion` between which the lock is free; `Status` is also all of a
getInfo or clientPIN exchange, which hold the lock throughout. A `Presence` stands for
two sections, the one that reads the mode and the one that takes the poke
(`device.rs:459`, `470`): whatever another thread does between them could as well come
before or after both, since a mode's setters look at no poke and the pokes at no mode.
A command waits for its two requirements in two steps. `GetNextAssertion`
is the drain hook's entry. The harness mints, pokes, changes modes, arms knobs and
imports snapshots at any moment. A credential is named by the position of the
stream it was drawn at, so a stream that is put back wrongly shows as an id that
repeats. `claims` and `ledger` are history: what a caller may drain, signatures
issued, pokes given and paid, and `tidy`, the callers who never dropped or
outlived a command of their connection, since what those leave staged is handed to
the next send.

### HidDescriptor, Cbor, Messages, Codecs, Formats

Pure algorithms with a state machine that builds their input. `FindFidoUsage` runs
`Scan` over the items of a descriptor; `Declares` says the same by pairing each Pop
with its Push. `Cbor` is the codec over bytes, an argument being its digits in base
256 so that 64 bits need no wide arithmetic; `Value`, `Items` and `Entries` are the
recursive decoder with its two loops, `Argument` and `NonMinimal` the five forms of
an argument and when one is too wide. `Messages` takes the CBOR for granted and
keeps the entries of a map in the order they came: `WellFormed` is the loop of every
`from_cbor` (an ill-typed known key fails even if a later one replaces it, an unknown
one is skipped), `Members` what it ends up with, `Written` what an encoder pushes.
`Formats` adds an item or a member at a time and `Codecs` a byte, and both compare; `Codecs`
includes `Formats`, one input at a time, and a theorem of `FormatsSpec` is one of its `Spec`.

### Cli

`Taken` runs `TakeToken` over the arguments and `Complete` adds what is checked
afterwards. `scan` holds the positions of the nodes or readers still to be read, the
lowest being next. `ReadDir` and `ReadNode` are the walk of sysfs, `Establish`,
`ReadReader` and `EndReaders` the PC/SC side, `Select`, `Connect` (or `Demo`),
`KeepAlive` and `Finish` the rest of info and assert; `Fail` and `Exit` produce the
lines and the exit code, and only `Exit` moves lines to the `screen`, as `main` does.
`Change` plugs and pulls keys, readers and cards and starts and stops the service
(external) at any moment, so a node can be gone or be another device between two
steps. `steady`, `ever` and `unread` are history: candidates all through discovery,
candidates at some time during it, and nodes whose read failed. A class directory that cannot
be read is an empty enumeration, and a node that cannot be is skipped; either way the
diagnostic is dropped, as those of torn descriptors are, and the listing is promised only what could be
read. `KeepAlive` is a key that waits for a touch: no transport of the binary hands a
keepalive to the client, HID and PC/SC because they wait on inside `send`, the demo
because its default configuration sends none, so the prompt is never recorded. A line is what it is about, not its words.

## Runs

| run | shows | bounds |
|---|---|---|
| `clientpin` | `GuessBudget`, `LatchFollowsStreak`, `TokenBelongsToHolder`, `LockedIsSilent`, `OnlyOvertakenMismatch`, `ImplementsLockout` | two clients, two PINs (one right, one wrong, and a change), three guesses, a latch at two: the terminal block, the latch and a refill between them all happen. About 185 000 states. Clients and PINs are symmetric |
| `ceremony` | `ConnectIsDeliberate`, `PromptDiscipline`, `RequestIsSound`, `OutcomeIsComplete`, `TimeoutNamesPresence`, `ExpiryEndsCeremony`, `Termination` | two transports, two devices listed alone, together or twice, budget four, up to three assertions, all combinations of policy, held token, provider, pinned protocol and entropy that differ. About 221 000 states |
| `hid` | `AnswersMatch`, `QuietChannel`, `RunsOnce`, `Released`, `Termination` | one connection, one other client, two requests, three handshakes, three-packet responses, a queue of three reports: a full queue loses reports, a whole abandoned response can be queued, an abandoned INIT response meets a later resync, and any write may fail. About 1 526 000 states |
| `pcsc` | `HandlesMatch`, `AnswersMatch`, `RunsAgainOnlyOnLe`, `SendIsBounded` | two callers and a rival, shared and exclusive, two connections in all, two-chunk responses, a guard of two hops: a chain can be completed, cut by the guard, or interrupted by a wrong Le or another user. About 720 000 states |
| `soft` | `OneCountPerAssertion`, `AnswersOwnCommand`, `DrainIsTheRest`, `PokesPayOnce`, `IdsAreDistinct`, `Answered` | two callers, five credentials of which four match one relying party and one the other, so that of three remaining matches the queue holds two, an allow list of one and an empty one, a counter of six values that starts at its last, two commands with a budget of two, one call of the harness: a queue is cut, replaced and drained in its order or by the other caller, the counter wraps, an armed knob fires for either, keepalives come again for ever, at a cost and at none. About 506 000 states |
| `codecs` | `StrictIsCanonical`, `TolerantKeepsMeaning`, `MatchIsDeclared`, `MessagesSurvive` | texts of up to six bytes out of fourteen: every major type, arguments in the head and in one and two bytes, both sides of 24 and of 2^8, nesting to the limit and past it; and texts that a seed begins, with heads of four and eight bytes on both sides of 2^16 and 2^32, of a positive and a negative number, alone and in a list; descriptors of up to five items; five drafts of messages with up to two members added, each with good, bad and repeated values, kept maps that repeat a key among them. About 486 000 states |
| `cli` | `ListingIsComplete`, `FailuresAreExplained` | two nodes and two readers in every initial condition, fifteen argument vectors (each failure of the parser, each command), two changes of the hardware: a node can vanish and another device take its name; any read of sysfs may fail. About 3 770 000 states |
| `ceremony_budget`, `hid_nonce`, `pcsc_connect`, `codecs_duplicates`, `cli_prompt` | what a document or comment says and the code does not do, see below | as the passing runs; `hid_nonce` has two connections, `pcsc_connect` one hop, chunk and connection |

`CHECK_DEADLOCK` is off where runs end: for the ceremony and the client, which do;
for HID, PC/SC and the software authenticator, whose requests, handshakes,
connections and commands the model bounds; and for the codecs, whose inputs are
finished.

Bounds that stand for nothing in the code: `MaxElapsed`, `MaxAssertions`,
`MaxRequests`, `MaxHandshakes`, `MaxChannels`, `MaxRival`, `MaxTokens`,
`MaxChunks`, `MaxAsks`, `MaxRecords`, `MaxCalls`, `MaxDraws`, `MaxItems`,
`MaxMembers`, `MaxEvents`, and `Capacity`, which the kernel has but larger.
`MaxLength` is longer than any text of the run and is where lengths stop being told
apart: a string or list that needs more than one byte to count itself is never complete
here. `Seeds` are where a text begins; `MaxProtocol` is the greatest protocol number, a
u32 in the code, and only compared. `MaxHops`
is 64 in the code; two let a chain both end and run out. `MaxQueue` is 8; with
two, a remainder of three is cut and what is left has an order. `Width` is 2^32; it must
only exceed the number of steps between two wraps that a property compares, and six
reach the wrap. `FidoPage` and
`Base` are 0xF1D0 and 2^16; what the scan does with them is equality, quotient and
remainder. `MinBlobArray` and `MinCredBlob` are 1024 and 32, compared only. In the
HID run `InitSeq` (6 in the code) is 1 so that a three-packet answer reaches it.

### Fairness

`Termination` of a ceremony assumes weak fairness of its own steps: an
executor polls a woken future and a timer fires. It assumes nothing of the
device: hops time out. With `Metered = TRUE` a keepalive stream costs budget
(`KeepaliveGap`) because the transport waits in slices; without it the stream
would be unbounded, which is one face of the budget finding. In `HidChannel`
each connection's `Runs` is weakly fair and neither the token nor the caller
is; keepalives come at most once per tick, a tick being 5 ms and the cadence
100 ms (`consts.rs`), so they cannot starve the deadline. The loop that drains
queued reports is charged nothing, so this rests on the bounded queue and on that
cadence. `ConnectEnds` is refuted under weak fairness of each caller's progress,
with nothing asked of the rival: a reader may stay held for as long as its holder
likes. That a PC/SC send ends is stated as a bound (`SendIsBounded`) and needs no
fairness. `Answered` assumes of a caller of the software authenticator that it
goes on with the send it began and sends a pending command again, which is the
loop the ceremony runs (`ceremony.rs`, the keepalive loop), and nothing of the
harness: the poke may never come. It has one exception, `Endless`: persistent knobs whose
keepalives have no spacing (`config.rs:60`) are staged again by every send
(`device.rs:296`) and charge nothing (`device.rs:603`), so its caller goes on for as long
as they stay armed; the run arms such knobs, and without the exception `Answered` fails. The client and the codecs have safety
properties only.

## What the documents say and the code does not do

- `RemainderIsWhatIsLeft`: what a hop used is not charged by `Deadline::wait`. The
  property is about hops that are awaited; the run has a ceremony await its second with
  a grant of more than what is left.
- `OwnChannel`: every connection's first nonce is the same, so two that
  allocate together can take one channel.
- `ConnectEnds`: a contended connect is meant to be driven by budget
  consumption, and nothing in the loop consumes any.
- `DuplicatesAreRejected`: the decoder looks for duplicate keys among raw bytes,
  so in tolerant mode a key that comes twice in two widths passes.
- `PromptedWhileWaiting`: the client prints whatever it has to say when the command is
  over, and no transport ever hands it the keepalive it waits for. The property asks only
  that anything at all is on the screen while a key waits for a touch.

Seen while modelling and not run:

- Ceremony. A key with built-in verification and a PIN is refused with
  `PinRequired` when the caller has no provider (`ceremony.rs:443`), though the
  specification keeps `options.uv` for it. A provider without an entropy source
  panics (`ceremony.rs:454`). Drained assertions skip the allow list
  (`ceremony.rs:525`). `userSelected` together with an allow list is checked by
  no caller, although `get_assertion.rs:531` leaves it to them.
- HID. A failed transaction is not followed by a resync, so the next one may be
  answered by what the first left behind (`device.rs:226`). A cancel that cannot be
  written is ignored, and the token goes on waiting for a touch. `connect` opens
  whatever node now has the path.
- PC/SC. The design keeps shared connections because the resource manager
  serializes transactions; none is ever begun, so another user's APDU between 61xx
  and GET RESPONSE puts its data into the answer (`engine.rs:409`). `granted`'s
  timer cannot win against a synchronous call; `wait_for_field` uses up its slices
  without waiting them out; `framed_chained`, the fallback for readers without
  extended length, is never called.
- clientPIN. The comment on `power_cycle_locked` (`auth.rs:728`) names `set_pin` as the
  power cycle, and `set_pin` (`auth.rs:453`) leaves the latch on. The comment at the
  decrypt failure (`auth.rs:672`) says that no retry counter is implicated; the counter
  was decremented before, as the transport-soft requirement has it
  (`add-client-pin`, `transport-soft/spec.md:60`), and is not restored. Neither is a run of its own:
  `PinLockout` admits both readings of both, and no property depends on which is meant.
  A success resets the counters before
  the token's entropy is drawn. `Config.pin_uv_auth_protocols` is not used by
  `SoftAuthenticator::new`, and a configured list that is empty or repeats a
  protocol makes the authenticator's own getInfo one the client rejects.
- Software authenticator. A delay shorter than what is left of the budget is
  delivered, though `device.rs:351` says the deadline always fires first. Persistent
  knobs with keepalives never reach a response, and if the keepalives have no spacing
  the caller never times out either (`Endless`). A poke of presence is consumed
  while verification still pends and has to be given again. A single match leaves
  an earlier queue in place. An import that fails half way keeps what it pushed,
  accepts ids the store has, and does not ask for a fresh authenticator.
- Messages. Maps kept as they came (certifications, extensions) may hold a key
  twice after a tolerant decode, or be nested too deep to stand in a message, and then
  cannot be encoded: `Unwritable`, the exception of `MessagesSurvive`.
- Client. `list` drops the failure of one transport when another has candidates, and
  the diagnostics of nodes always, an unreadable class directory among them, though `discover.rs:112` says the walker is run
  directly for them; a successful assert, and an info that selects, drop them too.
  A flag that needs a value takes the next flag for it (`--device --budget`).

## Proofs

A theorem `Spec => []P` is proved from the named assumption of its module and from
nothing else: the sets a configuration makes small are arbitrary, and so are the
bounds. Each module has an inductive invariant whose parts are named; TLC checked
each of them as an invariant of the module's run before it was proved. The proof that
a step keeps it has a lemma per action, or per group of actions that leave the same
part of the state alone.

**`ClientPinProofs`**: every property of the `clientpin` run, for any sets of clients
and PINs and any limits a byte holds.

    Inv == TypeOK /\ GuessBudget /\ LatchFollowsStreak
                  /\ TokenBelongsToHolder /\ Undisturbed

`GuessBudget` bounds the decrement, which needs the typing of the counter; the
compare may only happen with a guess left and the latch off (`AdmittedOpen`,
read off `Screens`), which is what keeps `mismatches` below the limit and
makes `LatchFollowsStreak` inductive. `Undisturbed` says that a client between
its handshake and its token request still owns the register it agreed in
unless another overtook it. No checked property implies it, and without it
`OnlyOvertakenMismatch` does not follow: a mismatch of the right PIN is
possible only when the ciphertext opens under the wrong key.
Lemmas about `Exchange` (typing, counters, registers) are stated once and used
by both actions that call it. `RightPinIsBelieved` and `LockIsSilent` are
action properties from the same invariant; `Refinement` maps the counters and
the latch to the abstract lock and shows each step to be one of its steps or a
stutter, of a lock that is neutral on the two moves the source disagrees on.

**`CeremonyProofs`**: every property of the `ceremony` run but `Termination`, for any
number of transports, any devices, listings, inputs and infos, any budget and either
metering.

    Inv == TypeOK /\ Pooled /\ Heard /\ ConnectIsDeliberate /\ Acquiring
                  /\ Built /\ Drained /\ Alive /\ TimeoutNamesPresence

`Pooled` says that the growing pool lists what each transport heard so far offered, in
the transports' order, and leaves none out that offered something; with `Heard` (a
selection waits for all of them) it gives `ConnectIsDeliberate`. `Acquiring` ties the
one prompt to the stages between key agreement and token request, `Built` keeps the
request that was shaped, and `Drained` how many assertions a drain may hold while one
is to come: `PromptDiscipline`, `RequestIsSound` and `OutcomeIsComplete` are read off
them. `ExpiryEnds` is an action property that only needs the types.

**`PcscExchangeProofs`**: every property of the `pcsc` run, for any callers and budgets,
any guard on hops and any length of a response.

    Inv == TypeOK /\ HandlesMatch /\ Sole /\ CardShaped /\ Proceeding

`Sole` is what sharing mode buys: an exclusive reader has one handle and no rival.
`Proceeding` accounts for each exchange: the APDUs spent are the hops used plus one for
the Le retry (`SendIsBounded`), the request ran no more often than that retry explains
(`RunsAgainOnlyOnLe`), and what was collected by an exchange nobody disturbed is exactly
what the card has sent of its response (`Collects`), which is what makes the final 9000
the end of the whole answer (`AnswersMatch`). `Effect` sums up a turn of the exchange
over every reply, so that the cases of `Step` are gone through once.

**`HidChannelProofs`**: `TypeCorrect` needs no hypothesis. The four safety properties of
the `hid` run, and `OwnChannel`, are proved for any number of connections beside any other
software, with any budget, queue, response size, channels, requests and handshakes, under
`[]ConnectsApart`: while a connection asks for its channel, no other has its node open and
no channel yet. Connections that have their channels may do whatever they like meanwhile.
Without the hypothesis the properties are false, not just unproved: the nonces coincide and
two connections can share a channel (`OwnChannel`, above), and TLC finds each of the four
violated with two connections and two requests. So the hypothesis is what a caller has to
see to, within a process and between processes. One connection alone satisfies it
(`AloneIsApart`), which is the instance the run checks.

    Inv == Typed /\ (\A h \in Hosts : Sound(h)) /\ Distinct

`Released` says nothing of a transaction whose cancel could not be written.

`Distinct`, no channel and no request being two connections', is what keeps connections out
of each other's way: `Minds` says what a step of one does to the others (a report of its own
channel or of the broadcast channel in their queues, a transaction of its own in the token),
and `OthersAreSound` that this is nothing to a sound connection.

`Sound` says that nothing is in use before it is allocated (`Below`), that an offered
channel is nobody's and a node whose connect is still to come has no offer queued
(`Offered`), that a resync has made the token forget the channel and
queued its INIT response last (`Purged`), and, the core, what the queue of a clean
connection that waits may hold (`Expecting`): nothing but keepalives while the token
works (`Asked`), one refusal after them (`TurnedDown`), or packets of the one response
in the order sent, less what the kernel dropped (`Answering`). The order matters: it is
why an assembler that has begun sees only continuations of its own response, so that
`AnswersMatch` holds although reports may be lost at any point. A busy refusal implies
that the request has not run, hence `RunsOnce` across the retries.

**`SoftDeviceProofs`**: every safety property of the `soft` run,
for any callers, commands, knobs, snapshots and bounds. `StepCases` sorts every
step by what it does to the latches and to what was counted of them: it leaves
both alone, sets a latch and counts a poke, or takes a latch and counts a
presence. With the ledger typed (`PokeInv`), `PokesPayOnce` is then inductive.
`IdInv` strengthens `IdsAreDistinct` by what makes a new id new: no id in the
store lies beyond the stream's position, so two draws later is past them all. It
holds while no snapshot was imported, and `StepCases` says that this never
becomes true again.

    AnswerInv == TypeOK /\ PokeInv /\ AllRest

`AllRest` says that a response is held back only between two sends of the command it
answers, and that what a tidy caller's device holds, and what it was last answered,
serves the command it asked; `AnswersOwnCommand` is its last conjunct. `Drained` says
that what was handed over followed by what is queued is the second to the promised
match, and that no more was promised than matched: without the latter a store that
grows could extend the drain. `CountInv` counts the responses held back beside those
issued, which needs the set of callers finite (`SoftAssumption`); the lemmas on
remainders are in `DataLemmas`.

**`CliProofs`**: every property of the `cli` run, for any nodes, readers, descriptors,
argument vectors and typed errors (`CliAssumption`).

    Inv == Understood /\ Silent /\ Shaped /\ Reported /\ Tracked
                      /\ Walked /\ Chosen /\ ListingIsComplete

`Walked` is what `ListingIsComplete` needs: what was there all along, but for a node the
walk could not read, is found or has still to be read, and what has still to be read is not found yet, whatever the walk
found missing meanwhile. `Reported` states of the lines that go out what
`FailuresAreExplained` asks (`Explains`), so that each exit shows it of its own lines.
`Understood` says what a command that goes on was given, and rests on `TokensTaken`:
what the loop over the tokens has made of an invocation after any number of them.

`SetInduction` makes that last step possible. The library's induction theorems take an
operator as a parameter, which the provers cannot instantiate; stated of the set of
numbers a claim holds of, induction is an ordinary fact, and it is used to show that the
loop's recursive function exists and what its values are.

**`FormatProofs`**: `MatchIsDeclared` and `MessagesSurvive`, of `FormatsSpec`: for descriptors
of any items and length, messages of any members and number of them, and any protocol
lists (`FormatsAssumption`). The inputs' types are the whole inductive invariant (`Inputs`);
what takes proving is what the algorithms make of an input.

`MatchedIsDeclared` compares a scan that keeps a stack with brackets that `Closes` counts.
`Depth` is the link: pushes less pops so far. A Pop closes the Push at which the depth
was last what it is after the Pop (`ClosesIsDepth`), and the page in effect past a Pop is
the one at its Push (`PopBringsBack`). `Found` is kept from item to item (`FoundByStep`):
the globals are those `PageAt` says, each element of the stack holds those of one open
Push in order (`Open`, `Held`), a Pop that finds the stack empty closes nothing, and the
usage was found exactly if an item so far `Claims` it. `SetInduction` carries it over
the items.

For messages, `Says` states what the map an encoder writes holds, in whatever order it
puts the members (`OrderSays`), and `Fits` that a member is written as a value of its kind
which is read as that member. Each decoder keeps members that fit (`InfoFits`,
`RequestMemberFits`, `ResponseMemberFits`), each map of members that fit is read back
(`InfoReadBack` and so on), and the members of the software authenticator's own messages
fit. A message that `Unwritable` excepts is shown to be refused by its encoder. That the client refuses exactly a PIN with no protocol or a repeated one is
`SoftInfoValid`. What the CBOR decoder may hand over is assumed of the values tried
(`Decoded`): arrays and maps are sequences, as deep as the typed decoders look.

Only model-checked: `Termination`, `Answered` and the refutation of `ConnectEnds`,
because liveness under fairness and ENABLED are out of the prover's reach; and
`StrictIsCanonical` and `TolerantKeepsMeaning`, because what `Cbor` computes for every
text needs an induction over nested data and it is written with RECURSIVE operators, as
the decoder is.

## Not modelled

Cryptographic functions, out of a model checker's reach: `ClientPin` keeps what the
protocol relies on. The byte layout of the clientPIN request and response (`pin.rs`),
which repeats the forms `Messages` has for the others. The tokio adapter, a timer
and a `spawn_blocking` no transport calls. Text: Display strings, the words of the
client's lines, snapshot JSON. APDU bytes of PC/SC; its lock of the map of handles.
A HID report that cannot be read: the code takes it for an unplugged device
(`fd_wait.rs:51`), and a connection whose token is unplugged just goes (`Close`). Fuzz targets and vectors. Texts of more than one byte per character, so the only
thing checked of UTF-8 is that bytes above 127 fail.

## Plan

1. `PcscExchange` with the lock of the handle map as a step, so that callers
   waiting behind a blocking transmit are seen, and with the tokio adapter once a
   transport uses it.
2. An abstract specification of a transport (a request is answered once, by its
   own answer, or fails typed) that `HidChannel` implements while its caller
   resyncs and `SoftDevice` while its caller is tidy, and that `Ceremony` may
   assume.
3. Proofs: the refinements of item 2, step by step; and the properties of
   item 1's lock from `Sole` and `HandlesMatch`.
