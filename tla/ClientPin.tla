------------------------------ MODULE ClientPin ------------------------------
(***************************************************************************)
(* authenticatorClientPIN of the soft token (fidoh-transport-soft), driven *)
(* by several platforms that each run fidoh-core's token acquisition.      *)
(*                                                                         *)
(* The token's state is one ClientPinState behind a mutex; every clone of *)
(* the SoftTransport shares it, so the requests of different platforms     *)
(* interleave between, but never inside, two exchanges.  A platform's      *)
(* acquisition is four steps with an await between any two of them: probe, *)
(* getKeyAgreement, collect the PIN from its owner, request the token.     *)
(*                                                                         *)
(* Cryptography is abstracted to who shares a secret with whom: a key-     *)
(* agreement register names the platform whose handshake generated it.     *)
(***************************************************************************)
EXTENDS Naturals

CONSTANTS Clients,        \* platforms that acquire tokens
          Pins,           \* PINs, right or wrong
          NoClient,       \* nobody: an empty register, a request from outside
          NoPin,          \* no PIN stored, or none collected yet
          MaxRetries,     \* MAX_PIN_RETRIES
          MismatchLimit,  \* consecutive mismatches that engage the latch
          Adverts,        \* the pinUvAuthProtocols lists the harness installs
          KnobSettings    \* the clientPIN knobs the harness installs

Protocols == {"One", "Two"}
OtherProtocol(p) == IF p = "One" THEN "Two" ELSE "One"

AllKnobs == [wrongEcho : BOOLEAN, echoDecrypt : BOOLEAN]

ASSUME ClientPinAssumption ==
    /\ NoClient \notin Clients
    /\ NoPin \notin Pins
    /\ MaxRetries \in 1..255          \* the counter is a u8
    /\ MismatchLimit \in 1..255
    /\ Adverts \subseteq SUBSET Protocols
    /\ KnobSettings \subseteq AllKnobs

VARIABLES armed,       \* client_pin is Some
          pin,         \* pin_hash
          retries,     \* retries
          mismatches,  \* consecutive_mismatches
          latched,     \* power_cycle_locked
          register,    \* key_agreement: one PinAgreement per protocol
          advertised,  \* configured_pin_protocols
          knobs,       \* client_pin_knobs
          injected,    \* Knobs.inject_status and Knobs.persistent
          session,     \* each platform's acquisition
          guesses,     \* history: wrong PINs compared since the last reset
          overtaken    \* history: platforms whose handshake another replaced

lock == <<retries, mismatches, latched>>
harness == <<advertised, knobs>>
device == <<armed, pin, retries, mismatches, latched, register>>
vars == <<armed, pin, retries, mismatches, latched, register, advertised,
          knobs, injected, session, guesses, overtaken>>

Stages == {"idle", "probed", "agreed", "ready"}

Statuses == {"Ok", "InvalidCommand", "InvalidParameter", "MissingParameter",
             "PinNotSet", "PinInvalid", "PinBlocked", "PinAuthInvalid",
             "PinAuthBlocked", "KeyStoreFull"}

Agreement == [holder : Clients \cup {NoClient},   \* whose handshake made the secret
              selector : Protocols,               \* the protocol its KDF will use
              token : Clients \cup {NoClient}]    \* whose request minted its token

Session == [stage : Stages,
            proto : Protocols,
            guess : Pins \cup {NoPin}]

NoAgreement(p) == [holder |-> NoClient, selector |-> p, token |-> NoClient]
Idle == [stage |-> "idle", proto |-> "Two", guess |-> NoPin]

TypeOK ==
    /\ armed \in BOOLEAN
    /\ pin \in Pins \cup {NoPin}
    /\ retries \in 0..MaxRetries
    /\ mismatches \in 0..MismatchLimit
    /\ latched \in BOOLEAN
    /\ register \in [Protocols -> Agreement]
    /\ advertised \in SUBSET Protocols
    /\ knobs \in AllKnobs
    /\ injected \in {"none", "once", "persistent"}
    /\ session \in [Clients -> Session]
    /\ guesses \in Nat
    /\ overtaken \in SUBSET Clients

Init ==
    /\ armed = FALSE
    /\ pin = NoPin
    /\ retries = MaxRetries
    /\ mismatches = 0
    /\ latched = FALSE
    /\ register = [p \in Protocols |-> NoAgreement(p)]
    /\ advertised = Protocols                     \* DEFAULT_PIN_PROTOCOLS
    /\ knobs = [wrongEcho |-> FALSE, echoDecrypt |-> FALSE]
    /\ injected = "none"
    /\ session = [c \in Clients |-> Idle]
    /\ guesses = 0
    /\ overtaken = {}

-----------------------------------------------------------------------------
(* The harness side: the token's owner and its error-injection knobs.      *)

\* Variant: a new PIN resets the retries and forgets the streak.
SetPinKeepingStreak(p) ==
    /\ armed' = TRUE
    /\ pin' = p
    /\ retries' = MaxRetries
    /\ guesses' = 0
    /\ UNCHANGED <<mismatches, latched, register, harness, injected, session, overtaken>>

\* set_pin arms the feature or replaces the PIN.  Only a first arming creates
\* registers and a latch; a replacement keeps both as they are, although the
\* comment on power_cycle_locked names set_pin as what clears it.
SetPin(p) ==
    /\ armed' = TRUE
    /\ pin' = p
    /\ retries' = MaxRetries
    /\ mismatches' = 0
    /\ guesses' = 0
    /\ UNCHANGED <<latched, register, harness, injected, session, overtaken>>

\* clear_pin: the feature stays armed without a PIN.
ClearPin ==
    /\ armed
    /\ pin' = NoPin
    /\ retries' = MaxRetries
    /\ mismatches' = 0
    /\ guesses' = 0
    /\ UNCHANGED <<armed, latched, register, harness, injected, session, overtaken>>

\* power_cycle clears the latch; PIN, retries, registers and tokens survive.
PowerCycle ==
    /\ armed
    /\ latched' = FALSE
    /\ mismatches' = 0
    /\ UNCHANGED <<armed, pin, retries, register, harness, injected, session,
                   guesses, overtaken>>

SetPinProtocols(list) ==
    /\ advertised' = list
    /\ UNCHANGED <<device, knobs, injected, session, guesses, overtaken>>

SetClientPinKnobs(k) ==
    /\ knobs' = k
    /\ UNCHANGED <<device, advertised, injected, session, guesses, overtaken>>

\* Status injection, one-shot or persistent, or switched off again.
InjectStatus(mode) ==
    /\ injected' = mode
    /\ UNCHANGED <<device, harness, session, guesses, overtaken>>

-----------------------------------------------------------------------------
(* The authenticator side: client_pin_exchange.                            *)
(*                                                                         *)
(* A request names its protocol and sender; key, param and enc tell what   *)
(* its keyAgreement, pinUvAuthParam and pinHashEnc members are worth.      *)

Request == [from : Clients \cup {NoClient},
            proto : Protocols,
            key : {"absent", "malformed", "valid"},
            param : {"absent", "wrong"},
            enc : {"absent", "corrupt", "sealed"},
            guess : Pins \cup {NoPin}]

\* The early returns that cost nothing, in the order the code takes them.
Screens(r) ==
    << [stops |-> ~armed,                           status |-> "InvalidCommand"],
       [stops |-> r.proto \notin advertised,        status |-> "InvalidParameter"],
       [stops |-> pin = NoPin,                      status |-> "PinNotSet"],
       [stops |-> retries = 0,                      status |-> "PinBlocked"],
       [stops |-> latched,                          status |-> "PinAuthBlocked"],
       [stops |-> r.key = "absent",                 status |-> "MissingParameter"],
       [stops |-> \/ r.key = "malformed"
                  \/ register[r.proto].holder = NoClient,
                                                    status |-> "InvalidParameter"],
       [stops |-> r.param = "wrong",                status |-> "PinAuthInvalid"] >>

\* Variants: the zero-retries check, or the latch check, is forgotten.
AdmittedAtZero(r) == \A i \in (1..8) \ {4} : ~Screens(r)[i].stops
AdmittedLatched(r) == \A i \in (1..8) \ {5} : ~Screens(r)[i].stops

Admitted(r) == \A i \in 1..8 : ~Screens(r)[i].stops

\* The protocol whose KDF the token applies to the shared point.
DeriveProtocol(r) ==
    IF knobs.echoDecrypt THEN OtherProtocol(r.proto) ELSE register[r.proto].selector

\* A pinHashEnc the token can decrypt at all.  Sealed under protocol One it is
\* a single block, which protocol Two takes for a bare IV and rejects.
Legible(r) ==
    /\ r.enc = "sealed"
    /\ ~knobs.echoDecrypt
    /\ DeriveProtocol(r) = r.proto

\* Both sides hold the same secret and the hashes agree.  With another
\* platform's secret the plaintext is noise, and noise is never the hash.
Matches(r) == register[r.proto].holder = r.from /\ r.guess = pin

Refused(r, status) ==
    /\ \E i \in 1..8 : /\ Screens(r)[i].status = status
                       /\ Screens(r)[i].stops
                       /\ \A j \in 1..(i - 1) : ~Screens(r)[j].stops
    /\ UNCHANGED <<device, guesses>>

\* Charged, but the PIN is never compared.  The comment on the decrypt failure
\* says no retry counter is implicated; by then the code has spent the retry.
Wasted(r, status) ==
    /\ status = IF r.enc = "absent" THEN "MissingParameter" ELSE "PinAuthInvalid"
    /\ Admitted(r)
    /\ ~Legible(r)
    /\ retries' = retries - 1
    /\ UNCHANGED <<armed, pin, mismatches, latched, register, guesses>>

\* Variants: only a success touches the retry counter; the latch engages one
\* mismatch late.
MismatchedFree(r, status) ==
    /\ status = "PinInvalid"
    /\ Admitted(r)
    /\ Legible(r)
    /\ ~Matches(r)
    /\ mismatches' = mismatches + 1
    /\ latched' = (latched \/ mismatches + 1 >= MismatchLimit)
    /\ guesses' = guesses + 1
    /\ UNCHANGED <<armed, pin, retries, register>>

MismatchedLate(r, status) ==
    /\ status = "PinInvalid"
    /\ Admitted(r)
    /\ Legible(r)
    /\ ~Matches(r)
    /\ retries' = retries - 1
    /\ mismatches' = mismatches + 1
    /\ latched' = (latched \/ mismatches + 1 > MismatchLimit)
    /\ guesses' = guesses + 1
    /\ UNCHANGED <<armed, pin, register>>

Mismatched(r, status) ==
    /\ status = "PinInvalid"
    /\ Admitted(r)
    /\ Legible(r)
    /\ ~Matches(r)
    /\ retries' = retries - 1
    /\ mismatches' = mismatches + 1
    /\ latched' = (latched \/ mismatches + 1 >= MismatchLimit)
    /\ guesses' = guesses + 1
    /\ UNCHANGED <<armed, pin, register>>

\* Success resets the counters and mints a token in the request's register.
\* The resets stand when the token's entropy then fails: before the token is
\* drawn, or at the IV that protocol Two needs to encrypt a token already minted.
Granted(r, status) ==
    /\ Admitted(r)
    /\ Legible(r)
    /\ Matches(r)
    /\ retries' = MaxRetries
    /\ mismatches' = 0
    /\ guesses' = 0
    /\ \/ /\ status = "KeyStoreFull"
          /\ UNCHANGED register
       \/ /\ \/ status = "Ok"
             \/ status = "KeyStoreFull" /\ DeriveProtocol(r) = "Two"
          /\ register' = [register EXCEPT ![r.proto].token = r.from]
    /\ UNCHANGED <<armed, pin, latched>>

Exchange(r, status) ==
    \/ Refused(r, status)
    \/ Wasted(r, status)
    \/ Mismatched(r, status)
    \/ Granted(r, status)

\* Variants: the old token is left in the register; one register serves both
\* protocols.
RegenerateKeepingToken(c, p) ==
    register' = [register EXCEPT ![p] = [@ EXCEPT !.holder = c, !.selector = p]]

RegenerateShared(c, p) ==
    register' = [q \in Protocols |-> [holder |-> c, selector |-> q, token |-> NoClient]]

\* getKeyAgreement: a fresh key pair, so no token, under a recorded selector
\* that the wrong_protocol_echo knob turns from One into Two.
Regenerate(c, p) ==
    register' = [register EXCEPT ![p] =
        [holder |-> c,
         selector |-> IF knobs.wrongEcho /\ p = "One" THEN "Two" ELSE p,
         token |-> NoClient]]

-----------------------------------------------------------------------------
(* The platform side: acquire_pin_uv_auth_token of fidoh-core.             *)

\* The acquisition ends, with a token or with a typed error.
Finish(c) ==
    /\ session' = [session EXCEPT ![c] = Idle]
    /\ overtaken' = overtaken \ {c}

\* The mandatory getInfo probe, and step 1: a protocol among the advertised,
\* the first of the list or the one the caller pinned.
Probe(c, p) ==
    /\ session[c].stage = "idle"
    /\ injected = "none"
    /\ armed
    /\ p \in advertised
    /\ session' = [session EXCEPT ![c] = [@ EXCEPT !.stage = "probed", !.proto = p]]
    /\ UNCHANGED <<device, harness, injected, guesses, overtaken>>

\* Step 2: getKeyAgreement.  The advertisement may have changed since the probe.
Agree(c) ==
    LET p == session[c].proto
        rivals == {d \in Clients \ {c} : session[d].stage \in {"agreed", "ready"}
                                            /\ session[d].proto = p}
    IN  /\ session[c].stage = "probed"
        /\ injected = "none"
        /\ p \in advertised
        /\ Regenerate(c, p)
        /\ session' = [session EXCEPT ![c].stage = "agreed"]
        /\ overtaken' = (overtaken \ {c}) \cup rivals
        /\ UNCHANGED <<armed, pin, lock, harness, injected, guesses>>

\* Step 2 fails: the protocol is no longer advertised, or the token's entropy
\* fails before the register is written.
AgreeRefused(c, status) ==
    /\ session[c].stage = "probed"
    /\ injected = "none"
    /\ status = IF session[c].proto \in advertised THEN "KeyStoreFull"
                                                 ELSE "InvalidParameter"
    /\ Finish(c)
    /\ UNCHANGED <<device, harness, injected, guesses>>

\* Step 3: the owner types a PIN, after the handshake and before its use.
CollectPin(c, p) ==
    /\ session[c].stage = "agreed"
    /\ session' = [session EXCEPT ![c] = [@ EXCEPT !.stage = "ready", !.guess = p]]
    /\ UNCHANGED <<device, harness, injected, guesses, overtaken>>

\* Step 4: the token request, getPinToken or its permissions variant.
TokenRequest(c) == [from |-> c, proto |-> session[c].proto, key |-> "valid",
                    param |-> "absent", enc |-> "sealed", guess |-> session[c].guess]

RequestToken(c, status) ==
    /\ session[c].stage = "ready"
    /\ injected = "none"
    /\ Exchange(TokenRequest(c), status)
    /\ Finish(c)
    /\ UNCHANGED <<harness, injected>>

\* Any hop may meet an injected status before the command is looked at.
MeetInjection(c) ==
    /\ session[c].stage \in {"idle", "probed", "ready"}
    /\ injected # "none"
    /\ Finish(c)
    /\ injected' = IF injected = "persistent" THEN "persistent" ELSE "none"
    /\ UNCHANGED <<device, harness, guesses>>

\* The platform drops its future at an await, its budget expires, its PIN
\* provider fails or the PIN is too long: the token is told nothing.
Abandon(c) ==
    /\ session[c].stage # "idle"
    /\ Finish(c)
    /\ UNCHANGED <<device, harness, injected, guesses>>

\* Token requests no fidoh platform builds: one member missing or damaged.
DamagedRequests ==
    {r \in Request : /\ r.from = NoClient
                     /\ r.guess = NoPin
                     /\ \/ r.key # "valid" /\ r.param = "absent" /\ r.enc = "corrupt"
                        \/ r.key = "valid" /\ r.param = "wrong" /\ r.enc = "corrupt"
                        \/ r.key = "valid" /\ r.param = "absent" /\ r.enc # "sealed"}

Damaged(r) ==
    /\ injected = "none"
    /\ \E status \in Statuses : Exchange(r, status)
    /\ UNCHANGED <<harness, injected, session, overtaken>>

-----------------------------------------------------------------------------
Next ==
    \/ \E p \in Pins : SetPin(p)
    \/ ClearPin
    \/ PowerCycle
    \/ \E list \in Adverts : SetPinProtocols(list)
    \/ \E k \in KnobSettings : SetClientPinKnobs(k)
    \/ \E mode \in {"none", "once", "persistent"} : InjectStatus(mode)
    \/ \E c \in Clients :
          \/ \E p \in Protocols : Probe(c, p)
          \/ Agree(c)
          \/ \E status \in Statuses : AgreeRefused(c, status)
          \/ \E p \in Pins : CollectPin(c, p)
          \/ \E status \in Statuses : RequestToken(c, status)
          \/ MeetInjection(c)
          \/ Abandon(c)
    \/ \E r \in DamagedRequests : Damaged(r)

Spec == Init /\ [][Next]_vars

-----------------------------------------------------------------------------
(* Properties.                                                             *)

Locked == retries = 0 \/ latched

\* However the platforms interleave and however their requests fail, no more
\* than MaxRetries wrong PINs are compared between two resets of the counter,
\* and a latch or a streak of mismatches always has its price in retries
\* (client_pin_exchange decrements before it compares).
GuessBudget ==
    /\ guesses + retries <= MaxRetries
    /\ mismatches <= guesses

\* The latch is engaged as soon as the streak reaches the limit, and power
\* cycling or a new PIN never leaves a half-counted streak behind it.
LatchFollowsStreak ==
    /\ mismatches = MismatchLimit => latched
    /\ latched => mismatches \in {0, MismatchLimit}

\* A pinUvAuthToken never outlives the key agreement it was asked under: the
\* token in a register was minted for the platform whose handshake is in it.
TokenBelongsToHolder ==
    \A p \in Protocols : register[p].token \in {NoClient, register[p].holder}

\* A locked token is no oracle: until its owner intervenes it answers no token
\* request with anything that depends on the PIN, a failure after the comparison
\* included, and moves no counter.
Telling == {"Ok", "PinInvalid", "KeyStoreFull"}

LockedIsSilent ==
    [][Locked => /\ \A c \in Clients, s \in Telling : ~RequestToken(c, s)
                 /\ retries' >= retries]_vars

\* A platform that collected the PIN now stored is told PinInvalid only when
\* another platform replaced its handshake meanwhile.
OnlyOvertakenMismatch ==
    [][\A c \in Clients :
         RequestToken(c, "PinInvalid") /\ session[c].guess = pin => c \in overtaken]_vars

\* The detailed lock implements the abstract one.
Lockout == INSTANCE PinLockout
    WITH MaxTries <- MaxRetries,
         MaxWindow <- MismatchLimit,
         tries <- retries,
         window <- IF latched THEN 0 ELSE MismatchLimit - mismatches

\* Whatever the protocols, knobs and interleavings, the counters move only as
\* PinLockout lets them.  PinLockout leaves open the two moves on which the
\* code's comments and the code disagree, so this decides neither.
ImplementsLockout == Lockout!Spec
=============================================================================
