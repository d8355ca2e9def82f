---------------------------- MODULE PcscExchange ----------------------------
(***************************************************************************)
(* The PC/SC transport (fidoh-transport-pcsc): callers on threads of their *)
(* own connect to one card through one Library, select the FIDO applet and *)
(* exchange CTAP messages, each a chain of APDUs.  Other software (the     *)
(* rival) uses the same card through the resource manager.                 *)
(*                                                                         *)
(* A Library method is a blocking call made inside one poll, and select    *)
(* polls it before the timer: the call always answers first.  So an APDU   *)
(* is one step, a budget stops a call only by being empty when the call is *)
(* made, and only presence polls consume it.                               *)
(*                                                                         *)
(* A response is a sequence of chunks; a chunk names who was answered, the *)
(* how-manieth run of that caller's request produced it, its place, and    *)
(* whether it is the last.                                                 *)
(***************************************************************************)
EXTENDS Naturals, Sequences, FiniteSets

CONSTANTS Callers,      \* callers of one transport
          Rival,        \* the other software on the card
          Nobody,
          Modes,        \* ShareMode, as the transport is built
          Budget,       \* initial budgets are 0..Budget presence slices
          MaxHops,      \* MAX_HOPS of framing.rs
          MaxChunks,    \* bound: chunks of one response
          MaxTokens     \* bound: connections opened in all

ASSUME PcscAssumption ==
    /\ Rival \notin Callers /\ Nobody \notin Callers \cup {Rival}
    /\ Modes \subseteq {"Shared", "Exclusive"}
    /\ Budget \in Nat /\ MaxHops \in Nat /\ MaxChunks \in Nat /\ MaxTokens \in Nat

VARIABLES mode,         \* PcscTransport::share
          present,      \* external: the card is in the reader or field
          card,         \* external: its selected applet and pending response
          rival,        \* external: how the rival is connected
          open,         \* the resource manager's open handles
          stale,        \* those whose card was removed since
          tokens,       \* connections opened so far
          stage,        \* what each caller's future is doing
          conn,         \* PcscDevice::conn, 0 for None
          left,         \* the caller's Deadline, in presence slices
          exchange,     \* the caller's Exchange
          turn          \* parity of connect's contended turns

handles == <<open, stale, tokens>>
vars == <<mode, present, card, rival, open, stale, tokens, stage, conn, left,
          exchange, turn>>

\* answered: the device is open and the body of the last send is kept.
Stages == {"idle", "connecting", "selecting", "open", "exchange", "answered", "field"}

Users == Callers \cup {Rival, Nobody}

Chunk == [of : Users, run : 0..2, index : 1..MaxChunks, last : BOOLEAN]

\* The card's one response: sent of length chunks are out; busy while it still
\* waits for its user.
Job == [of : Users, run : 0..2, sent : 0..MaxChunks, length : 0..MaxChunks,
        busy : BOOLEAN]
NoJob == [of |-> Nobody, run |-> 0, sent |-> 0, length |-> 0, busy |-> FALSE]
Off == [applet |-> "none", job |-> NoJob]

\* The APDU to send next and the fields of Exchange; as history, the APDUs the
\* card answered, the times it ran the request and whether someone else used
\* it meanwhile.
Exchange == [next : {"command", "GET_RESPONSE", "GETRESPONSE"},
             collected : Seq(Chunk),
             hops : 0..MaxHops,
             leRetried : BOOLEAN,
             apdus : Nat,
             runs : 0..2,
             disturbed : BOOLEAN]
NewExchange == [next |-> "command", collected |-> <<>>, hops |-> MaxHops,
                leRetried |-> FALSE, apdus |-> 0, runs |-> 0, disturbed |-> FALSE]

TypeOK ==
    /\ mode \in Modes
    /\ present \in BOOLEAN
    /\ card \in [applet : {"none", "fido", "other"}, job : Job]
    /\ rival \in {"away", "Shared", "Exclusive"}
    /\ tokens \in 0..MaxTokens
    /\ open \subseteq 1..tokens
    /\ stale \subseteq open
    /\ stage \in [Callers -> Stages]
    /\ conn \in [Callers -> 0..tokens]
    /\ left \in [Callers -> 0..Budget]
    /\ exchange \in [Callers -> Exchange]
    /\ turn \in BOOLEAN

Init ==
    /\ mode \in Modes
    /\ present = TRUE
    /\ card = Off
    /\ rival = "away"
    /\ open = {}
    /\ stale = {}
    /\ tokens = 0
    /\ stage = [c \in Callers |-> "idle"]
    /\ conn = [c \in Callers |-> 0]
    /\ left \in [Callers -> 0..Budget]
    /\ exchange = [c \in Callers |-> NewExchange]
    /\ turn = FALSE

-----------------------------------------------------------------------------
(* The card and the software it is shared with (external).                 *)

\* The caller's APDU reaches the card of its own connection.
Reaches(c) == present /\ conn[c] \in open \ stale

\* A user's APDU touches the card: exchanges of the others under way see it.
Disturbed(user) ==
    [c \in Callers |->
        IF c # user /\ stage[c] = "exchange"
        THEN [exchange[c] EXCEPT !.disturbed = TRUE]
        ELSE exchange[c]]

Reply(sw, data, job) == [sw |-> sw, data |-> data, job |-> job]

NextChunk(job) == [of |-> job.of, run |-> job.run, index |-> job.sent + 1,
                   last |-> job.sent + 1 = job.length]

\* A response is delivered a chunk at a time, or for once not at all.
Deliveries(job) ==
    IF job.length = 0
    THEN {Reply("Ok", <<>>, NoJob)}
    ELSE {Reply("MoreData", <<>>, job),
          IF job.sent + 1 = job.length
          THEN Reply("Ok", <<NextChunk(job)>>, NoJob)
          ELSE Reply("MoreData", <<NextChunk(job)>>, [job EXCEPT !.sent = @ + 1])}

\* The card works on a request: it is still busy, or has a response.
Works(job) ==
    {Reply("StatusUpdate", <<>>, [job EXCEPT !.busy = TRUE])} \cup
    UNION {Deliveries([job EXCEPT !.busy = FALSE, !.length = n]) : n \in 0..MaxChunks}

\* Every answer of the card to c's next APDU.
Replies(c) ==
    LET job == card.job
        apdu == exchange[c].next
        fresh == [NoJob EXCEPT !.of = c, !.run = exchange[c].runs + 1]
    IN  {Reply("Other", <<>>, NoJob), Reply("WrongLe", <<>>, job)} \cup
        (IF card.applet # "fido" THEN {}
         ELSE CASE apdu = "command"                 -> Works(fresh)
                [] apdu = "GETRESPONSE" /\ job.busy -> Works(job)
                [] apdu = "GET_RESPONSE" /\ job.of # Nobody /\ ~job.busy
                                                    -> Deliveries(job)
                [] OTHER                            -> {})

CardLeaves ==
    /\ present
    /\ present' = FALSE
    /\ card' = Off
    /\ stale' = open
    /\ UNCHANGED <<mode, rival, open, tokens, stage, conn, left, exchange, turn>>

\* A library may take up again a handle whose card came back, or not.
CardReturns ==
    /\ ~present
    /\ present' = TRUE
    /\ stale' \in {stale, {}}
    /\ UNCHANGED <<mode, card, rival, open, tokens, stage, conn, left, exchange, turn>>

\* The resource manager admits the rival beside shared connections only.
RivalConnects(share) ==
    /\ rival = "away"
    /\ open # {} => share = "Shared" /\ mode = "Shared"
    /\ rival' = share
    /\ UNCHANGED <<mode, present, card, handles, stage, conn, left, exchange, turn>>

RivalLeaves ==
    /\ rival # "away"
    /\ rival' = "away"
    /\ UNCHANGED <<mode, present, card, handles, stage, conn, left, exchange, turn>>

\* It selects an applet of its own, or leaves a response of its own pending.
RivalUses ==
    /\ rival # "away" /\ present
    /\ \/ card' = [applet |-> "other", job |-> NoJob]
       \/ card' = [applet |-> "fido",
                   job |-> [NoJob EXCEPT !.of = Rival, !.length = MaxChunks]]
    /\ exchange' = Disturbed(Rival)
    /\ UNCHANGED <<mode, present, rival, handles, stage, conn, left, turn>>

-----------------------------------------------------------------------------
(* Connections.                                                            *)

Goes(c, to) == stage' = [stage EXCEPT ![c] = to]

\* Variant: the device goes without its handle being disconnected.
ReleaseLeaking(c) ==
    /\ conn' = [conn EXCEPT ![c] = 0]
    /\ UNCHANGED handles

\* PcscDevice::release, by close, by Drop and when SELECT declines.  LeaveCard:
\* the card keeps what it has selected and pending.
Release(c) ==
    /\ conn' = [conn EXCEPT ![c] = 0]
    /\ open' = open \ {conn[c]}
    /\ stale' = stale \ {conn[c]}
    /\ UNCHANGED tokens

Connect(c) ==
    /\ stage[c] = "idle"
    /\ tokens < MaxTokens
    /\ Goes(c, "connecting")
    /\ UNCHANGED <<mode, present, card, rival, handles, conn, left, exchange, turn>>

\* SCARD_E_SHARING_VIOLATION: the reader is held against this mode (external).
\* is_sharing_violation: the one failure of SCardConnect that is retried.
Contended ==
    \/ rival = "Exclusive"
    \/ mode = "Exclusive" /\ (rival # "away" \/ open # {})

\* One turn of the retry loop.  A contended turn goes round at once: there is
\* no backoff, and granted takes nothing from the budget.
Attempt(c) ==
    /\ stage[c] = "connecting"
    /\ IF left[c] = 0
       THEN Goes(c, "idle") /\ turn' = FALSE /\ UNCHANGED <<handles, conn>>
       ELSE \/ /\ Contended
               /\ turn' = ~turn
               /\ UNCHANGED <<handles, conn, stage>>
            \/ /\ ~Contended
               /\ present /\ tokens < MaxTokens
               /\ tokens' = tokens + 1
               /\ open' = open \cup {tokens + 1}
               /\ conn' = [conn EXCEPT ![c] = tokens + 1]
               /\ Goes(c, "selecting")
               /\ turn' = FALSE
               /\ UNCHANGED stale
            \/ /\ ~Contended
               /\ Goes(c, "idle")
               /\ turn' = FALSE
               /\ UNCHANGED <<handles, conn>>
    /\ UNCHANGED <<mode, present, card, rival, left, exchange>>

\* select_applet: only 9000 keeps the device.  A skip, another status word or
\* a failed call ends the connect with the handle released.
SelectApplet(c) ==
    /\ stage[c] = "selecting"
    /\ \/ /\ Reaches(c)
          /\ exchange' = Disturbed(c)
          /\ \/ /\ card' = [applet |-> "fido", job |-> NoJob]
                /\ Goes(c, "open")
                /\ UNCHANGED <<handles, conn>>
             \/ /\ card' = Off
                /\ Goes(c, "idle")
                /\ Release(c)
       \/ /\ Goes(c, "idle")
          /\ Release(c)
          /\ UNCHANGED <<card, exchange>>
    /\ UNCHANGED <<mode, present, rival, left, turn>>

\* close, or the device is dropped.
Close(c) ==
    /\ stage[c] \in {"open", "answered"}
    /\ Goes(c, "idle")
    /\ Release(c)
    /\ exchange' = [exchange EXCEPT ![c] = NewExchange]
    /\ UNCHANGED <<mode, present, card, rival, left, turn>>

-----------------------------------------------------------------------------
(* The exchange: Exchange::step yields where the send goes and its state.  *)

Failed == [to |-> "open", x |-> NewExchange]
Sends(x) == [to |-> "exchange", x |-> x]

\* Variant: the guard is checked and never charged.
HopFree(x, apdu, data) ==
    IF x.hops = 0
    THEN Failed
    ELSE Sends([x EXCEPT !.next = apdu, !.collected = @ \o data])

\* Variant: the guard is charged and never checked.
HopUnchecked(x, apdu, data) ==
    Sends([x EXCEPT !.next = apdu, !.collected = @ \o data, !.hops = @ - 1])

\* Variant: data that comes with 61xx is forgotten.
HopForgets(x, apdu, data) ==
    IF x.hops = 0 THEN Failed ELSE Sends([x EXCEPT !.next = apdu, !.hops = @ - 1])

\* guard_hop, then what came is kept and another APDU sent.
Hop(x, apdu, data) ==
    IF x.hops = 0
    THEN Failed
    ELSE Sends([x EXCEPT !.next = apdu, !.collected = @ \o data, !.hops = @ - 1])

\* 9000: what was collected and what came; without a status byte, an error.
Completed(x, data) ==
    LET body == x.collected \o data
    IN  IF body = <<>>
        THEN Failed
        ELSE [to |-> "answered",
              x |-> [NewExchange EXCEPT !.collected = body, !.runs = x.runs,
                                        !.disturbed = x.disturbed]]

\* Variant: the retry is not remembered.
WrongLeAgain(x) == Sends([x EXCEPT !.next = "command"])

\* 6Cxx: one retry, and it sends the command again, whichever APDU the card
\* refused; what was collected stays.
WrongLe(x) ==
    IF x.leRetried
    THEN Failed
    ELSE Sends([x EXCEPT !.next = "command", !.leRetried = TRUE])

Step(x, reply) ==
    CASE reply.sw = "Ok"           -> Completed(x, reply.data)
      [] reply.sw = "MoreData"     -> Hop(x, "GET_RESPONSE", reply.data)
      [] reply.sw = "StatusUpdate" -> Hop(x, "GETRESPONSE", <<>>)
      [] reply.sw = "WrongLe"      -> WrongLe(x)
      [] OTHER                     -> Failed

\* PcscDevice::send; with the budget out, Timeout at once.
Send(c) ==
    /\ stage[c] \in {"open", "answered"}
    /\ Goes(c, IF left[c] = 0 THEN "open" ELSE "exchange")
    /\ exchange' = [exchange EXCEPT ![c] = NewExchange]
    /\ UNCHANGED <<mode, present, card, rival, handles, conn, left, turn>>

\* The history of an exchange whose APDU got this reply.
Counted(x, reply) ==
    LET ran == x.next = "command" /\ reply.sw \in {"Ok", "MoreData", "StatusUpdate"}
    IN  [x EXCEPT !.apdus = @ + 1, !.runs = IF ran THEN @ + 1 ELSE @]

\* An APDU the card answers, and the step on what it answers.
Transmit(c) ==
    /\ stage[c] = "exchange"
    /\ Reaches(c)
    /\ \E reply \in Replies(c) :
          LET after == Step(Counted(exchange[c], reply), reply)
          IN  /\ card' = [card EXCEPT !.job = reply.job]
              /\ Goes(c, after.to)
              /\ exchange' = [Disturbed(c) EXCEPT ![c] = after.x]
    /\ UNCHANGED <<mode, present, rival, handles, conn, left, turn>>

\* The call fails: the card is gone, or the resource manager says so.
TransmitFails(c) ==
    /\ stage[c] = "exchange"
    /\ Goes(c, "open")
    /\ exchange' = [exchange EXCEPT ![c] = NewExchange]
    /\ UNCHANGED <<mode, present, card, rival, handles, conn, left, turn>>

-----------------------------------------------------------------------------
(* The field.                                                              *)

WaitForField(c) ==
    /\ stage[c] \in {"open", "answered"}
    /\ Goes(c, "field")
    /\ exchange' = [exchange EXCEPT ![c] = NewExchange]
    /\ UNCHANGED <<mode, present, card, rival, handles, conn, left, turn>>

\* nfc_field_poll_slice and presence, once round wait_for_field: the slice is
\* consumed before the call, and the call answers without waiting for it.
PollField(c) ==
    /\ stage[c] = "field"
    /\ IF left[c] = 0
       THEN Goes(c, "open") /\ UNCHANGED left
       ELSE /\ left' = [left EXCEPT ![c] = @ - 1]
            /\ \/ Goes(c, "open")
               \/ ~Reaches(c) /\ UNCHANGED stage
    /\ UNCHANGED <<mode, present, card, rival, handles, conn, exchange, turn>>

-----------------------------------------------------------------------------
\* What a caller's future does once polled, to the end of its call.
Progress(c) ==
    Attempt(c) \/ SelectApplet(c) \/ Transmit(c) \/ TransmitFails(c) \/ PollField(c)

Next ==
    \/ \E c \in Callers :
          \/ Progress(c)
          \/ Connect(c)
          \/ Send(c)
          \/ WaitForField(c)
          \/ Close(c)
    \/ CardLeaves
    \/ CardReturns
    \/ \E share \in {"Shared", "Exclusive"} : RivalConnects(share)
    \/ RivalLeaves
    \/ RivalUses

Spec == Init /\ [][Next]_vars

\* Callers' threads run.  Nothing is asked of the card or the rival.
FairSpec == Spec /\ \A c \in Callers : WF_vars(Progress(c))

-----------------------------------------------------------------------------
(* Properties.                                                             *)

\* The resource manager's open handles are exactly those live devices own, one
\* each: whichever step of connect fails, and however a device ends, its handle
\* is disconnected, and nobody else's is (select_applet, release, Drop).
HandlesMatch ==
    /\ open = {conn[c] : c \in Callers} \ {0}
    /\ \A c, d \in Callers : conn[c] = conn[d] /\ c # d => conn[c] = 0
    /\ \A c \in Callers : conn[c] = 0 <=> stage[c] \in {"idle", "connecting"}

\* A completed exchange returns every chunk of the card's answer to this very
\* request, once and in order, as long as the card ran it once and nobody
\* used the card in between; and nobody can when the connection is exclusive
\* (Exchange::step over GET RESPONSE and status updates).
AnswersMatch ==
    \A c \in Callers :
        LET x == exchange[c]
        IN  stage[c] = "answered" /\ x.runs = 1
            /\ (mode = "Exclusive" \/ ~x.disturbed) =>
                \A i \in 1..Len(x.collected) :
                    x.collected[i] = [of |-> c, run |-> 1, index |-> i,
                                      last |-> i = Len(x.collected)]

\* The card runs a request again only on the one Le retry: a card that refuses
\* the Le of a poll, its work begun, is sent the whole command a second time
\* (the WrongLe arm of Exchange::step), but never a third.
RunsAgainOnlyOnLe ==
    \A c \in Callers :
        stage[c] = "exchange" =>
            exchange[c].runs <= IF exchange[c].leRetried THEN 2 ELSE 1

\* A send comes to an end whatever the card answers: after the command there
\* are at most the guard's hops and one Le retry (guard_hop, le_retried).
SendIsBounded ==
    \A c \in Callers : stage[c] = "exchange" => exchange[c].apdus <= MaxHops + 1

\* What connect's comment says: a contended connect retries within the budget,
\* driven by its consumption alone, so it ends even if the reader stays held.
ConnectEnds ==
    \A c \in Callers : stage[c] = "connecting" ~> stage[c] # "connecting"
=============================================================================
