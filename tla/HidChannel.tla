----------------------------- MODULE HidChannel -----------------------------
(***************************************************************************)
(* CTAPHID over hidraw (fidoh-transport-hid): connections of fidoh to one  *)
(* token that other software uses too.                                     *)
(*                                                                         *)
(* The kernel hands every report of the token to every open node, so a     *)
(* connection tells its own frames by channel, command, nonce and sequence *)
(* number alone.  The token, the kernel's queue and the other software are *)
(* external; they do what CTAP and hidraw let them do.                     *)
(***************************************************************************)
EXTENDS Naturals, Sequences

CONSTANTS Hosts,         \* fidoh's connections, of one process or of several
          Budget,        \* ticks of the deadline of each operation
          InitSeq,       \* the SEQ byte that reads as CMD_INIT (6)
          MaxConts,      \* bound on continuation packets of a response
          Capacity,      \* reports the kernel keeps for one open node
          MaxChannels,   \* bound on channels the token allocates
          MaxRequests,   \* bound on requests of all hosts together
          MaxHandshakes, \* bound on the handshakes of one connection
          MaxRival       \* bound on what the other software does

ASSUME HidAssumption ==
    /\ Budget \in Nat \ {0}
    /\ InitSeq \in Nat
    /\ MaxConts \in 0..128
    /\ Capacity \in Nat \ {0}
    /\ MaxChannels \in Nat \ {0}
    /\ MaxRequests \in Nat
    /\ MaxHandshakes \in Nat \ {0}
    /\ MaxRival \in Nat

NoChannel == 0                    \* reserved
RivalChannel == 1                 \* the other software's
Channels == 1..MaxChannels
Broadcast == MaxChannels + 1

\* A wink is a ping: neither is kept alive or cancelled.
Commands == {"CBOR", "PING"}

\* A report: its channel and command, and of the rest what that command has.
Report == [cid : Channels \cup {Broadcast},
           cmd : Commands \cup {"INIT", "CONT", "KEEPALIVE", "BUSY", "ERROR"},
           seq : 0..MaxConts,            \* of a continuation
           conts : 0..MaxConts,          \* BCNT, in continuation packets
           serial : 0..MaxRequests,      \* the request it answers, 0 for the rival's
           nonce : 0..MaxHandshakes,     \* of an INIT response, 0 for the rival's
           chan : {NoChannel} \cup Channels]

Blank == [cid |-> Broadcast, cmd |-> "INIT", seq |-> 0, conts |-> 0, serial |-> 0,
          nonce |-> 0, chan |-> NoChannel]

VARIABLES state,     \* what each connection awaits
          cid,       \* Fsm.cid
          nonce,     \* NonceSource.counter
          cmd,       \* command of the transaction
          asm,       \* Assembler
          left,      \* Deadline of the operation
          inbox,     \* reports queued at the node
          end,       \* history: how the last operation ended
          serial,    \* history: the last request
          serves,    \* history: the requests whose packets made up the last response
          dirty,     \* history: an operation failed since the last handshake
          task,      \* the token's transaction
          top,       \* the last channel the token allocated
          beat,      \* time passed since the last keepalive
          requests,  \* requests written so far
          runs,      \* history: how often the token took each request
          rival      \* what the other software did so far

connection == <<state, cid, nonce, cmd, asm, left, end, serial, serves, dirty>>
token == <<task, top, beat, runs>>
bounds == <<requests, rival>>
vars == <<state, cid, nonce, cmd, asm, left, inbox, end, serial, serves, dirty,
          task, top, beat, runs, requests, rival>>

Awaiting == {"opening", "resyncing", "waiting", "backoff"}
States == Awaiting \cup {"closed", "open", "idle"}
\* "lost": it failed, and the report that should tell the token was not written.
Ends == {"none", "ok", "response", "refused", "timeout", "failed", "lost", "dropped"}

Assembler == [active : BOOLEAN, next : 0..(MaxConts + 1), need : 0..MaxConts,
              from : SUBSET (0..MaxRequests)]
NoMessage == [active |-> FALSE, next |-> 0, need |-> 0, from |-> {}]

Task == [cid : {NoChannel} \cup Channels, cmd : Commands, serial : 0..MaxRequests,
         conts : 0..MaxConts, sent : 0..MaxConts, cancelled : BOOLEAN]
Free == [cid |-> NoChannel, cmd |-> "CBOR", serial |-> 0, conts |-> 0, sent |-> 0,
         cancelled |-> FALSE]

TypeOK ==
    /\ state \in [Hosts -> States]
    /\ cid \in [Hosts -> {NoChannel} \cup Channels]
    /\ nonce \in [Hosts -> 0..MaxHandshakes]
    /\ cmd \in [Hosts -> Commands]
    /\ asm \in [Hosts -> Assembler]
    /\ left \in [Hosts -> 0..Budget]
    /\ \A h \in Hosts : inbox[h] \in Seq(Report) /\ Len(inbox[h]) <= Capacity
    /\ end \in [Hosts -> Ends]
    /\ serial \in [Hosts -> 0..MaxRequests]
    /\ serves \in [Hosts -> SUBSET (0..MaxRequests)]
    /\ dirty \in [Hosts -> BOOLEAN]
    /\ task \in Task
    /\ top \in Channels
    /\ beat \in BOOLEAN
    /\ requests \in 0..MaxRequests
    /\ runs \in [1..MaxRequests -> 0..2]
    /\ rival \in 0..MaxRival

Init ==
    /\ state = [h \in Hosts |-> "closed"]
    /\ cid = [h \in Hosts |-> NoChannel]
    /\ nonce = [h \in Hosts |-> 0]
    /\ cmd = [h \in Hosts |-> "CBOR"]
    /\ asm = [h \in Hosts |-> NoMessage]
    /\ left = [h \in Hosts |-> 0]
    /\ inbox = [h \in Hosts |-> <<>>]
    /\ end = [h \in Hosts |-> "none"]
    /\ serial = [h \in Hosts |-> 0]
    /\ serves = [h \in Hosts |-> {}]
    /\ dirty = [h \in Hosts |-> FALSE]
    /\ task = Free
    /\ top = RivalChannel
    /\ beat = TRUE
    /\ requests = 0
    /\ runs = [s \in 1..MaxRequests |-> 0]
    /\ rival = 0

-----------------------------------------------------------------------------
(* The token and the kernel.  A write reaches the token at once; whatever  *)
(* it may emit before it looks at the write, it may as well emit before    *)
(* the write happens.  A write may also fail: the token then forgets what  *)
(* it has got of the message, if anything.                                 *)

\* Every open node gets the report, unless its queue is full.
Heard(r) == [h \in Hosts |->
    IF state[h] # "closed" /\ Len(inbox[h]) < Capacity
    THEN Append(inbox[h], r) ELSE inbox[h]]

\* A request is taken, or refused while another transaction is pending.
TokenTakes(c, k, s) ==
    IF task = Free
    THEN /\ task' = [Free EXCEPT !.cid = c, !.cmd = k, !.serial = s]
         /\ runs' = [t \in 1..MaxRequests |->
                     IF t = s /\ runs[t] < 2 THEN runs[t] + 1 ELSE runs[t]]
         /\ UNCHANGED inbox
    ELSE /\ inbox' = Heard([Blank EXCEPT !.cid = c, !.cmd = "BUSY"])
         /\ UNCHANGED <<task, runs>>

\* CANCEL reaches a CBOR transaction of its own channel or nothing.
Cancelled(c) ==
    IF task.cid = c /\ task.cmd = "CBOR" THEN [task EXCEPT !.cancelled = TRUE] ELSE task

\* Keepalives come at most once a tick (every 100 ms, a tick being 5).
TokenKeepsAlive ==
    /\ task # Free /\ task.cmd = "CBOR" /\ task.sent = 0 /\ ~task.cancelled
    /\ beat
    /\ beat' = FALSE
    /\ inbox' = Heard([Blank EXCEPT !.cid = task.cid, !.cmd = "KEEPALIVE"])
    /\ UNCHANGED <<connection, task, top, runs, bounds>>

\* The first packet of the response; a cancelled one is a bare status.
TokenAnswers(n) ==
    /\ task # Free /\ task.sent = 0
    /\ task.cancelled \/ task.cmd # "CBOR" => n = 0
    /\ inbox' = Heard([Blank EXCEPT !.cid = task.cid, !.cmd = task.cmd,
                                    !.conts = n, !.serial = task.serial])
    /\ task' = IF n = 0 THEN Free ELSE [task EXCEPT !.conts = n, !.sent = 1]
    /\ UNCHANGED <<connection, top, beat, runs, bounds>>

TokenContinues ==
    /\ task # Free /\ task.sent > 0
    /\ inbox' = Heard([Blank EXCEPT !.cid = task.cid, !.cmd = "CONT",
                                    !.seq = task.sent - 1, !.serial = task.serial])
    /\ task' = IF task.sent = task.conts THEN Free ELSE [task EXCEPT !.sent = @ + 1]
    /\ UNCHANGED <<connection, top, beat, runs, bounds>>

\* CTAPHID_ERROR, any code but busy.
TokenRefuses ==
    /\ task # Free /\ task.sent = 0
    /\ inbox' = Heard([Blank EXCEPT !.cid = task.cid, !.cmd = "ERROR"])
    /\ task' = Free
    /\ UNCHANGED <<connection, top, beat, runs, bounds>>

\* The other software asks for a channel with a nonce of its own, uses the
\* one it has, or cancels.
RivalInit ==
    /\ rival < MaxRival /\ top < MaxChannels
    /\ rival' = rival + 1
    /\ top' = top + 1
    /\ inbox' = Heard([Blank EXCEPT !.chan = top'])
    /\ UNCHANGED <<connection, task, beat, runs, requests>>

RivalRequest ==
    /\ rival < MaxRival
    /\ rival' = rival + 1
    /\ TokenTakes(RivalChannel, "CBOR", 0)
    /\ UNCHANGED <<connection, top, beat, requests>>

RivalCancels ==
    /\ task.cid = RivalChannel /\ ~task.cancelled
    /\ task' = Cancelled(RivalChannel)
    /\ UNCHANGED <<connection, inbox, top, beat, runs, bounds>>

-----------------------------------------------------------------------------
(* Handshakes.                                                             *)

Enter(h, s) == state' = [state EXCEPT ![h] = s]

\* An operation starts, with a deadline of its own, for request n (0: none).
Starts(h, s, n) ==
    /\ Enter(h, s)
    /\ end' = [end EXCEPT ![h] = "none"]
    /\ left' = [left EXCEPT ![h] = Budget]
    /\ serial' = [serial EXCEPT ![h] = n]
    /\ serves' = [serves EXCEPT ![h] = {}]

\* An operation ends; its deadline and its assembler go with it.
Leaves(h, s, why) ==
    /\ Enter(h, s)
    /\ end' = [end EXCEPT ![h] = why]
    /\ left' = [left EXCEPT ![h] = 0]
    /\ asm' = [asm EXCEPT ![h] = NoMessage]

\* The node is dropped, and the Fsm with it.
Gone(h) ==
    /\ Leaves(h, "closed", "none")
    /\ cid' = [cid EXCEPT ![h] = NoChannel]
    /\ nonce' = [nonce EXCEPT ![h] = 0]
    /\ cmd' = [cmd EXCEPT ![h] = "CBOR"]
    /\ inbox' = [inbox EXCEPT ![h] = <<>>]
    /\ serial' = [serial EXCEPT ![h] = 0]
    /\ serves' = [serves EXCEPT ![h] = {}]
    /\ dirty' = [dirty EXCEPT ![h] = FALSE]

Pop(h) == inbox' = [inbox EXCEPT ![h] = Tail(@)]
Mail(h) == inbox[h] # <<>>
Report1(h) == Head(inbox[h])

\* Every connect opens the node anew: a fresh Fsm, a NonceSource at zero, an
\* empty queue, which fills from now on.
Open(h) ==
    /\ state[h] = "closed"
    /\ Starts(h, "open", 0)
    /\ UNCHANGED <<cid, nonce, cmd, asm, inbox, dirty, token, bounds>>

\* allocate: INIT on the broadcast channel.  The token allocates a channel,
\* answers something unusable (a reserved channel, no CTAP2: NoChannel), or
\* nothing at all.
Connect(h) ==
    /\ state[h] = "open"
    /\ Enter(h, "opening")
    /\ nonce' = [nonce EXCEPT ![h] = @ + 1]
    /\ \E chan \in {NoChannel, top + 1} \ {MaxChannels + 1} :
          /\ inbox' = Heard([Blank EXCEPT !.nonce = nonce'[h], !.chan = chan])
          /\ top' = IF chan = NoChannel THEN top ELSE chan
       \/ UNCHANGED <<inbox, top>>
    /\ UNCHANGED <<cid, cmd, asm, left, end, serial, serves, dirty, task, beat, runs,
                   bounds>>

\* open_channel, or resync after an error: INIT on the allocated channel, which
\* makes the token forget the channel's transaction.
Resync(h) ==
    /\ state[h] = "idle"
    /\ nonce[h] < MaxHandshakes
    /\ Starts(h, "resyncing", 0)
    /\ nonce' = [nonce EXCEPT ![h] = @ + 1]
    /\ dirty' = [dirty EXCEPT ![h] = TRUE]
    /\ task' = IF task.cid = cid[h] THEN Free ELSE task
    /\ \/ inbox' = Heard([Blank EXCEPT !.cid = cid[h], !.nonce = nonce'[h],
                                       !.chan = cid[h]])
       \/ UNCHANGED inbox
    /\ UNCHANGED <<cid, cmd, asm, top, beat, runs, bounds>>

\* The INIT is not written: its nonce is spent, and the token forgets nothing.
ResyncUnwritten(h) ==
    /\ state[h] = "idle"
    /\ nonce[h] < MaxHandshakes
    /\ Leaves(h, "idle", "lost")
    /\ nonce' = [nonce EXCEPT ![h] = @ + 1]
    /\ dirty' = [dirty EXCEPT ![h] = TRUE]
    /\ serial' = [serial EXCEPT ![h] = 0]
    /\ serves' = [serves EXCEPT ![h] = {}]
    /\ UNCHANGED <<cid, cmd, inbox, token, bounds>>

Handshaking(h) == state[h] \in {"opening", "resyncing"}

\* What init_handshake takes for an INIT response: it never asks whether the
\* report is a continuation, whose SEQ is where the command would be.
LooksInit(h) ==
    LET r == Report1(h)
    IN  /\ r.cid = IF state[h] = "opening" THEN Broadcast ELSE cid[h]
        /\ r.cmd = "INIT" \/ (r.cmd = "CONT" /\ r.seq = InitSeq)

\* Variant: any INIT response will do.
NonceMatchesAny(h) == Report1(h).cmd = "INIT"

NonceMatches(h) == Report1(h).cmd = "INIT" /\ Report1(h).nonce = nonce[h]

HandshakeSkips(h) ==
    /\ Handshaking(h) /\ Mail(h)
    /\ ~LooksInit(h)
    /\ Pop(h)
    /\ UNCHANGED <<connection, token, bounds>>

\* NonceMismatch, or an unusable response.
Mismatched(h) ==
    /\ Mail(h) /\ LooksInit(h)
    /\ ~NonceMatches(h) \/ Report1(h).chan = NoChannel

\* A connect that fails drops the node, and leaves a channel allocated for
\* nobody; a resync that fails leaves all as it was.
ConnectFails(h) ==
    /\ state[h] = "opening"
    /\ Mismatched(h) \/ (inbox[h] = <<>> /\ left[h] = 0)
    /\ Gone(h)
    /\ UNCHANGED <<token, bounds>>

ResyncFails(h) ==
    /\ state[h] = "resyncing"
    /\ Mismatched(h)
    /\ Leaves(h, "idle", "failed")
    /\ Pop(h)
    /\ UNCHANGED <<cid, nonce, cmd, serial, serves, dirty, token, bounds>>

Allocate(h) ==
    /\ state[h] = "opening" /\ Mail(h)
    /\ LooksInit(h) /\ NonceMatches(h)
    /\ Report1(h).chan # NoChannel
    /\ Leaves(h, "idle", "ok")
    /\ cid' = [cid EXCEPT ![h] = Report1(h).chan]
    /\ Pop(h)
    /\ UNCHANGED <<nonce, cmd, serial, serves, dirty, token, bounds>>

Resynced(h) ==
    /\ state[h] = "resyncing" /\ Mail(h)
    /\ LooksInit(h) /\ NonceMatches(h)
    /\ Leaves(h, "idle", "ok")
    /\ dirty' = [dirty EXCEPT ![h] = FALSE]
    /\ Pop(h)
    /\ UNCHANGED <<cid, nonce, cmd, serial, serves, token, bounds>>

-----------------------------------------------------------------------------
(* Transactions.                                                           *)

\* send, ping or wink: the whole request goes out.  (A wink the token does not
\* advertise is refused before; connect refuses a token without CTAP2.)
Send(h, k) ==
    /\ state[h] = "idle"
    /\ requests < MaxRequests
    /\ requests' = requests + 1
    /\ Starts(h, "waiting", requests + 1)
    /\ cmd' = [cmd EXCEPT ![h] = k]
    /\ TokenTakes(cid[h], k, requests + 1)
    /\ UNCHANGED <<cid, nonce, asm, dirty, top, beat, rival>>

\* exchange cancels a CBOR transaction that ends in an error, whatever the
\* error; ping and wink do not.  Nobody learns of a cancel that is not written.
Abandons(h, k, why) ==
    \E lost \in BOOLEAN :
        /\ lost => k = "CBOR"
        /\ Leaves(h, "idle", IF lost THEN "lost" ELSE why)
        /\ task' = IF k = "CBOR" /\ ~lost THEN Cancelled(cid[h]) ELSE task

GiveUp(h, k, why) ==
    /\ Abandons(h, k, why)
    /\ dirty' = [dirty EXCEPT ![h] = TRUE]

\* A report of the request cannot be written, the first or a later one.
SendUnwritten(h, k) ==
    /\ state[h] = "idle"
    /\ cmd' = [cmd EXCEPT ![h] = k]
    /\ GiveUp(h, k, "failed")
    /\ serves' = [serves EXCEPT ![h] = {}]
    /\ serial' = [serial EXCEPT ![h] = 0]
    /\ UNCHANGED <<cid, nonce, inbox, top, beat, runs, bounds>>

\* A message beyond MAX_MESSAGE_SIZE is not written at all, but cancelled.
SendTooLong(h) ==
    /\ state[h] = "idle"
    /\ cmd' = [cmd EXCEPT ![h] = "CBOR"]
    /\ Abandons(h, "CBOR", "failed")
    /\ serves' = [serves EXCEPT ![h] = {}]
    /\ serial' = [serial EXCEPT ![h] = 0]
    /\ UNCHANGED <<cid, nonce, inbox, dirty,
                   top, beat, runs, bounds>>

\* Variant: reports of other channels are taken for the connection's own.
OwnAny(h) == Mail(h)

Own(h) == Mail(h) /\ Report1(h).cid = cid[h]

\* Foreign traffic, and continuations of no message.
Skips(h) ==
    /\ state[h] = "waiting" /\ Mail(h)
    /\ \/ ~Own(h)
       \/ Report1(h).cmd = "CONT" /\ ~asm[h].active
    /\ Pop(h)
    /\ UNCHANGED <<connection, token, bounds>>

KeptAlive(h) ==
    /\ state[h] = "waiting" /\ Own(h)
    /\ Report1(h).cmd = "KEEPALIVE"
    /\ Pop(h)
    /\ UNCHANGED <<state, cid, nonce, cmd, asm, left, end, serial, serves, dirty, token, bounds>>

\* Assembler: an initialization packet begins, a continuation in sequence adds.
Extended(h) ==
    LET r == Report1(h)
    IN  IF r.cmd = "CONT"
        THEN [asm[h] EXCEPT !.next = @ + 1, !.from = @ \cup {r.serial}]
        ELSE [active |-> TRUE, next |-> 0, need |-> r.conts, from |-> {r.serial}]

InSequence(h) ==
    LET r == Report1(h)
    IN  r.cmd = cmd[h] \/ (r.cmd = "CONT" /\ asm[h].active /\ r.seq = asm[h].next)

Assembles(h) ==
    /\ state[h] = "waiting" /\ Own(h)
    /\ InSequence(h)
    /\ LET a == Extended(h)
       IN  IF a.next < a.need
           THEN /\ asm' = [asm EXCEPT ![h] = a]
                /\ UNCHANGED <<state, end, left, serves>>
           ELSE /\ Leaves(h, "idle", "response")
                /\ serves' = [serves EXCEPT ![h] = a.from]
    /\ Pop(h)
    /\ UNCHANGED <<cid, nonce, cmd, serial, dirty, token, bounds>>

\* InvalidSeq or UnexpectedCommand.
Violates(h) ==
    /\ state[h] = "waiting" /\ Own(h)
    /\ ~InSequence(h)
    /\ \/ Report1(h).cmd = "CONT" /\ asm[h].active
       \/ Report1(h).cmd \in Commands \cup {"INIT"}
    /\ GiveUp(h, cmd[h], "failed")
    /\ Pop(h)
    /\ UNCHANGED <<cid, nonce, cmd, serial, serves, top, beat, runs, bounds>>

\* Variant: every CTAPHID_ERROR is retried.
RetryableAny(h) == Report1(h).cmd \in {"BUSY", "ERROR"}

Retryable(h) == Report1(h).cmd = "BUSY"

IsRefused(h) ==
    /\ state[h] = "waiting" /\ Own(h)
    /\ Report1(h).cmd = "ERROR" /\ ~Retryable(h)
    /\ Leaves(h, "idle", "refused")
    /\ Pop(h)
    /\ UNCHANGED <<cid, nonce, cmd, serial, serves, dirty, token, bounds>>

BacksOff(h) ==
    /\ state[h] = "waiting" /\ Own(h)
    /\ Retryable(h)
    /\ Enter(h, "backoff")
    /\ Pop(h)
    /\ UNCHANGED <<cid, nonce, cmd, asm, left, end, serial, serves, dirty, token, bounds>>

\* Variants: the delay is not charged; it is not checked against what is left.
ReissuesFree(h) ==
    /\ state[h] = "backoff"
    /\ left[h] > 0
    /\ Enter(h, "waiting")
    /\ asm' = [asm EXCEPT ![h] = NoMessage]
    /\ beat' = TRUE
    /\ TokenTakes(cid[h], cmd[h], serial[h])
    /\ UNCHANGED <<cid, nonce, cmd, left, end, serial, serves, dirty, top, bounds>>

ReissuesUnchecked(h) ==
    /\ state[h] = "backoff"
    /\ left' = [left EXCEPT ![h] = IF @ = 0 THEN Budget + 1 ELSE @ - 1]
    /\ Enter(h, "waiting")
    /\ asm' = [asm EXCEPT ![h] = NoMessage]
    /\ beat' = TRUE
    /\ TokenTakes(cid[h], cmd[h], serial[h])
    /\ UNCHANGED <<cid, nonce, cmd, end, serial, serves, dirty, top, bounds>>

\* After a delay the whole request goes out again.
Reissues(h) ==
    /\ state[h] = "backoff"
    /\ left[h] > 0
    /\ left' = [left EXCEPT ![h] = @ - 1]
    /\ Enter(h, "waiting")
    /\ asm' = [asm EXCEPT ![h] = NoMessage]
    /\ beat' = TRUE
    /\ TokenTakes(cid[h], cmd[h], serial[h])
    /\ UNCHANGED <<cid, nonce, cmd, end, serial, serves, dirty, top, bounds>>

\* A report of it cannot be written.
ReissueUnwritten(h) ==
    /\ state[h] = "backoff"
    /\ left[h] > 0
    /\ GiveUp(h, cmd[h], "failed")
    /\ beat' = TRUE
    /\ UNCHANGED <<cid, nonce, cmd, inbox, serial, serves, top, runs, bounds>>

-----------------------------------------------------------------------------
(* Time, and the ways out.                                                 *)

Polling(h) == state[h] \in {"opening", "resyncing", "waiting"} /\ inbox[h] = <<>>

\* read_report_bounded: nothing queued, one quantum is charged and slept.
Tick(h) ==
    /\ Polling(h)
    /\ left[h] > 0
    /\ left' = [left EXCEPT ![h] = @ - 1]
    /\ beat' = TRUE
    /\ UNCHANGED <<state, cid, nonce, cmd, asm, inbox, end, serial, serves, dirty,
                   task, top, runs, bounds>>

\* The deadline is exhausted: consume_slice grants nothing.
Exhausted(h) == left[h] = 0 /\ (Polling(h) \/ state[h] = "backoff")

\* Variant: nobody cancels a transaction that timed out.
ExpiresSilently(h) ==
    /\ Exhausted(h) /\ state[h] \in {"waiting", "backoff"}
    /\ Leaves(h, "idle", "timeout")
    /\ dirty' = [dirty EXCEPT ![h] = TRUE]
    /\ UNCHANGED <<cid, nonce, cmd, inbox, serial, serves, token, bounds>>

Expires(h) ==
    /\ Exhausted(h) /\ state[h] \in {"waiting", "backoff"}
    /\ GiveUp(h, cmd[h], "timeout")
    /\ UNCHANGED <<cid, nonce, cmd, inbox, serial, serves, top, beat, runs, bounds>>

ResyncExpires(h) ==
    /\ Exhausted(h) /\ state[h] = "resyncing"
    /\ Leaves(h, "idle", "timeout")
    /\ UNCHANGED <<cid, nonce, cmd, inbox, serial, serves, dirty, token, bounds>>

\* The caller, or the timer Deadline::wait races against the hop, drops the
\* future: nothing is written.
Drop(h) ==
    /\ state[h] \in Awaiting \ {"opening"}
    /\ Leaves(h, "idle", "dropped")
    /\ dirty' = [dirty EXCEPT ![h] = TRUE]
    /\ UNCHANGED <<cid, nonce, cmd, inbox, serial, serves, token, bounds>>

\* close cancels whatever is pending.  A connection that is merely dropped (a
\* connect by its caller, or as its INIT is not written, say), whose cancel is not
\* written, or whose token is unplugged, just goes.
Close(h, politely) ==
    /\ state[h] \in Awaiting \cup {"open", "idle"}
    /\ politely => state[h] = "idle"
    /\ task' = IF politely THEN Cancelled(cid[h]) ELSE task
    /\ Gone(h)
    /\ UNCHANGED <<top, beat, runs, bounds>>

-----------------------------------------------------------------------------
\* What the executor runs once it polls the connection's operation.
Runs(h) ==
    \/ HandshakeSkips(h) \/ ConnectFails(h) \/ Allocate(h)
    \/ ResyncFails(h) \/ Resynced(h) \/ ResyncExpires(h)
    \/ Skips(h) \/ KeptAlive(h) \/ Assembles(h) \/ Violates(h)
    \/ IsRefused(h) \/ BacksOff(h) \/ Reissues(h) \/ ReissueUnwritten(h)
    \/ Tick(h) \/ Expires(h)

Token ==
    \/ TokenKeepsAlive
    \/ \E n \in 0..MaxConts : TokenAnswers(n)
    \/ TokenContinues
    \/ TokenRefuses
    \/ RivalInit \/ RivalRequest \/ RivalCancels

Next ==
    \/ \E h \in Hosts :
          \/ Runs(h)
          \/ Open(h) \/ Connect(h)
          \/ Resync(h) \/ ResyncUnwritten(h)
          \/ \E k \in Commands : Send(h, k) \/ SendUnwritten(h, k)
          \/ SendTooLong(h)
          \/ Drop(h)
          \/ \E politely \in BOOLEAN : Close(h, politely)
    \/ Token

Spec == Init /\ [][Next]_vars

\* The executor polls every operation; token and caller owe nothing.
FairSpec == Spec /\ \A h \in Hosts : WF_vars(Runs(h))

-----------------------------------------------------------------------------
(* Properties.                                                             *)

\* On a connection none of whose transactions failed since its last handshake,
\* a response is the one the token gave to this very request, and every packet
\* of it is (receive_loop, Assembler).
AnswersMatch ==
    \A h \in Hosts :
        end[h] = "response" /\ ~dirty[h] => serves[h] = {serial[h]}

\* A successful resync, or a connect, leaves nothing behind: an idle connection
\* that is not dirty has no report of its channel queued and no transaction
\* pending in the token, so that the next command meets a quiet channel.
QuietChannel ==
    \A h \in Hosts :
        state[h] = "idle" /\ ~dirty[h] =>
            /\ task.cid # cid[h]
            /\ \A i \in 1..Len(inbox[h]) : inbox[h][i].cid # cid[h]

\* A busy retry sends the whole request again, but never one that the token
\* already took.
RunsOnce ==
    \A h \in Hosts : ~dirty[h] /\ serial[h] # 0 => runs[serial[h]] <= 1

\* A CBOR exchange that ends in an error of the transport does not leave the
\* token waiting for a touch, unless its cancel could not be written.
Released ==
    \A h \in Hosts :
        /\ state[h] = "idle" /\ cmd[h] = "CBOR" /\ end[h] \in {"timeout", "failed"}
        /\ task.cid = cid[h] /\ task.cmd = "CBOR" /\ task.sent = 0
        => task.cancelled

\* Every operation ends, whatever the token, the other software and the busy
\* retries do.
Termination ==
    \A h \in Hosts : state[h] \in Awaiting ~> state[h] \notin Awaiting

-----------------------------------------------------------------------------
(* What the documents say and the code does not do.                        *)

\* The nonce matches the response to its request, also when two hosts allocate
\* concurrently, so a channel belongs to one connection (NonceSource).
OwnChannel ==
    \A g, h \in Hosts :
        g # h /\ cid[g] # NoChannel => cid[g] # cid[h]
=============================================================================
