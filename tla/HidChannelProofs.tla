-------------------------- MODULE HidChannelProofs --------------------------
(***************************************************************************)
(* Theorems about HidChannel, for any number of connections of any         *)
(* processes beside any other software.  Budgets, queue length, response   *)
(* size and the number of channels, requests and handshakes are arbitrary. *)
(*                                                                         *)
(* The types need nothing.  The rest holds for as long as no two           *)
(* connections ask for their channel at the same time (ConnectsApart):     *)
(* both use the same nonce, so that each may take the other's channel, and *)
(* OwnChannel does not hold.  One connection alone is always apart.        *)
(*                                                                         *)
(* Inv is inductive under ConnectsApart.  Its core is Expecting: what the  *)
(* queue of a clean connection that waits for a response may hold,         *)
(* whatever reports the kernel dropped, and how far the token has come     *)
(* with it; and Distinct, by which nothing that another connection does is *)
(* of this one's channel or request.                                       *)
(***************************************************************************)
EXTENDS HidChannel, DataLemmas

Joined == {"idle", "resyncing", "waiting", "backoff"}

\* Connections have a channel once they are allocated one, and handshakes are
\* numbered from one.
Connected ==
    \A h \in Hosts :
        /\ cid[h] # NoChannel <=> state[h] \in Joined
        /\ state[h] \in {"closed", "open"} => nonce[h] = 0
        /\ state[h] \notin {"closed", "open"} => nonce[h] > 0

\* The token's transaction, if it has one, is of some channel, and no more of its
\* response is out than there is.
Tasked ==
    /\ task = Free \/ task.cid # NoChannel
    /\ task.sent <= task.conts

Connections ==
    /\ state \in [Hosts -> States]
    /\ cid \in [Hosts -> {NoChannel} \cup Channels]
    /\ nonce \in [Hosts -> 0..MaxHandshakes]
    /\ cmd \in [Hosts -> Commands]
    /\ asm \in [Hosts -> Assembler]
    /\ left \in [Hosts -> 0..Budget]
    /\ end \in [Hosts -> Ends]
    /\ serial \in [Hosts -> 0..MaxRequests]
    /\ serves \in [Hosts -> SUBSET (0..MaxRequests)]
    /\ dirty \in [Hosts -> BOOLEAN]

Queues ==
    /\ inbox \in [Hosts -> Seq(Report)]
    /\ \A h \in Hosts : Len(inbox[h]) <= Capacity

Device ==
    /\ task \in Task
    /\ top \in Channels
    /\ beat \in BOOLEAN
    /\ requests \in 0..MaxRequests
    /\ runs \in [1..MaxRequests -> 0..2]
    /\ rival \in 0..MaxRival

Typed == Connections /\ Queues /\ Device /\ Connected /\ Tasked

\* From the moment its node is open until it has a channel, a connection that
\* connects has no other that asks for one.
ConnectsApart ==
    \A g, h \in Hosts :
        g # h /\ state[g] = "opening" => state[h] \notin {"open", "opening"}

-----------------------------------------------------------------------------
(* What a queue may hold of a channel.                                     *)

NoneOf(q, c) == \A i \in 1..Len(q) : q[i].cid # c

\* The token has not answered yet.
OnlyAlive(q, c) == \A i \in 1..Len(q) : q[i].cid = c => q[i].cmd = "KEEPALIVE"

\* It declined, as one of the errors, and that is all it said.
Declined(q, c, errors) ==
    \E i \in 1..Len(q) :
        /\ q[i].cid = c /\ q[i].cmd \in errors
        /\ \A j \in 1..Len(q) : q[j].cid = c /\ j # i => j < i /\ q[j].cmd = "KEEPALIVE"

\* Packets of one response to request s: at most `sent' of 1 + n.
IsPacket(r, k, s, n, sent) ==
    \/ r.cmd = "KEEPALIVE"
    \/ r.cmd = k /\ r.serial = s /\ r.conts = n
    \/ r.cmd = "CONT" /\ r.serial = s /\ r.seq < n /\ r.seq + 1 < sent

Follows(r, q) ==
    \/ r.cmd = "KEEPALIVE"
    \/ r.cmd \in Commands /\ q.cmd = "CONT"
    \/ r.cmd = "CONT" /\ q.cmd = "CONT" /\ r.seq < q.seq

Packets(q, c, k, s, n, sent) ==
    /\ \A i \in 1..Len(q) : q[i].cid = c => IsPacket(q[i], k, s, n, sent)
    /\ \A i, j \in 1..Len(q) : q[i].cid = c /\ q[j].cid = c /\ i < j => Follows(q[i], q[j])

\* Only continuations are left.
OnlyConts(q, c) == \A i \in 1..Len(q) : q[i].cid = c => q[i].cmd = "CONT"

\* Whatever follows the INIT response of the handshake is of other channels.
LastOfAll(q, c, number) ==
    \A i, j \in 1..Len(q) :
        q[i].cid = c /\ q[i].cmd = "INIT" /\ q[i].nonce = number /\ i < j => q[j].cid # c

-----------------------------------------------------------------------------
(* The invariant.                                                          *)

Quiet(h) == task.cid # cid[h] /\ NoneOf(inbox[h], cid[h])

\* No channel is in use before it is allocated, and no nonce before it is drawn.
Below(h) ==
    /\ task.cid <= top /\ cid[h] <= top
    /\ \A i \in 1..Len(inbox[h]) :
          /\ inbox[h][i].cid <= top \/ inbox[h][i].cid = Broadcast
          /\ inbox[h][i].cid = cid[h] => inbox[h][i].nonce <= nonce[h]

\* A channel that the token offers to this connection is nobody's.
Offered(h) ==
    /\ state[h] \in Joined => cid[h] # RivalChannel
    /\ state[h] = "open" =>
           \A i \in 1..Len(inbox[h]) : inbox[h][i].cid = Broadcast => inbox[h][i].nonce = 0
    /\ state[h] = "opening" =>
           \A i \in 1..Len(inbox[h]) :
               LET r == inbox[h][i]
               IN  r.cid = Broadcast /\ r.nonce = nonce[h] /\ r.chan # NoChannel =>
                       /\ r.chan # RivalChannel /\ r.chan <= top
                       /\ task.cid # r.chan /\ NoneOf(inbox[h], r.chan)
                       /\ \A g \in Hosts : cid[g] # r.chan

\* A resync has made the token forget the channel.
Purged(h) ==
    state[h] = "resyncing" =>
        /\ dirty[h] /\ serial[h] = 0
        /\ task.cid # cid[h]
        /\ LastOfAll(inbox[h], cid[h], nonce[h])

Resting(h) ==
    /\ state[h] = "closed" => inbox[h] = <<>>
    /\ state[h] \notin {"waiting", "backoff"} => asm[h] = NoMessage
    /\ state[h] \in {"closed", "open", "opening"} => serial[h] = 0 /\ ~dirty[h]
    /\ serial[h] <= requests
    /\ \A t \in 1..MaxRequests : t > requests => runs[t] = 0
    /\ state[h] \in {"waiting", "backoff"} => serial[h] # 0

\* The request is being worked on.
Asked(h) ==
    /\ task.cid = cid[h] /\ task.serial = serial[h] /\ task.cmd = cmd[h] /\ task.sent = 0
    /\ ~asm[h].active
    /\ OnlyAlive(inbox[h], cid[h])

TurnedDown(h) ==
    /\ task.cid # cid[h]
    /\ ~asm[h].active
    /\ \/ Declined(inbox[h], cid[h], {"ERROR"})
       \/ Declined(inbox[h], cid[h], {"BUSY"}) /\ runs[serial[h]] = 0

\* Its response is under way, or what the kernel kept of it.
Answering(h) ==
    \E n \in 0..MaxConts :
        /\ \/ task.cid # cid[h]
           \/ /\ task.cid = cid[h] /\ task.serial = serial[h]
              /\ task.sent > 0 /\ task.conts = n
        /\ Packets(inbox[h], cid[h], cmd[h], serial[h], n,
                   IF task.cid = cid[h] THEN task.sent ELSE n + 1)
        /\ asm[h].active =>
               /\ asm[h].need = n /\ asm[h].from = {serial[h]}
               /\ OnlyConts(inbox[h], cid[h])

Expecting(h) ==
    /\ state[h] = "waiting" /\ ~dirty[h] =>
           Asked(h) \/ TurnedDown(h) \/ Answering(h)
    /\ state[h] = "backoff" /\ ~dirty[h] =>
           Quiet(h) /\ ~asm[h].active /\ runs[serial[h]] = 0

\* The four properties, of one connection.
Settled(h) == state[h] = "idle" /\ ~dirty[h] => Quiet(h)
Matched(h) == end[h] = "response" /\ ~dirty[h] => serves[h] = {serial[h]}
Once(h) == ~dirty[h] /\ serial[h] # 0 => runs[serial[h]] <= 1
Relieved(h) ==
    /\ state[h] = "idle" /\ cmd[h] = "CBOR" /\ end[h] \in {"timeout", "failed"}
    /\ task.cid = cid[h] /\ task.cmd = "CBOR" /\ task.sent = 0
    => task.cancelled

Sound(h) ==
    /\ Below(h) /\ Offered(h) /\ Purged(h) /\ Resting(h) /\ Expecting(h)
    /\ Settled(h) /\ Matched(h) /\ Once(h) /\ Relieved(h)

\* A channel is one connection's, and so is a request.
Distinct ==
    \A g, h \in Hosts :
        g # h => /\ cid[g] # NoChannel => cid[g] # cid[h]
                 /\ serial[g] # 0 => serial[g] # serial[h]

Inv == Typed /\ (\A h \in Hosts : Sound(h)) /\ Distinct

-----------------------------------------------------------------------------
(* Types.                                                                  *)

LEMMA ChannelsAreNumbers ==
    /\ NoChannel \notin Channels /\ Broadcast \notin Channels
    /\ Broadcast \in Nat /\ Broadcast # NoChannel
    /\ RivalChannel \in Channels
    /\ Channels \subseteq Nat
    /\ Broadcast > MaxChannels
BY HidAssumption DEF Channels, Broadcast, NoChannel, RivalChannel

LEMMA NothingIsTyped == NoMessage \in Assembler /\ Free \in Task /\ Blank \in Report
BY HidAssumption DEF NoMessage, Assembler, Free, Task, Commands, Blank, Report, Broadcast

\* The reports that the token writes.
LEMMA ErrorsAreReports ==
    ASSUME NEW c \in Channels, NEW k \in {"BUSY", "ERROR", "KEEPALIVE"}
    PROVE  [Blank EXCEPT !.cid = c, !.cmd = k] \in Report
BY NothingIsTyped DEF Report

LEMMA AnswersAreReports ==
    ASSUME NEW c \in Channels, NEW k \in Commands, NEW n \in 0..MaxConts,
           NEW s \in 0..MaxRequests
    PROVE  /\ [Blank EXCEPT !.cid = c, !.cmd = k, !.conts = n, !.serial = s] \in Report
           /\ [Blank EXCEPT !.cid = c, !.cmd = "CONT", !.seq = n, !.serial = s] \in Report
BY NothingIsTyped DEF Report

LEMMA HandshakesAreReports ==
    ASSUME NEW c \in Channels, NEW n \in 0..MaxHandshakes, NEW a \in {NoChannel} \cup Channels
    PROVE  /\ [Blank EXCEPT !.chan = a] \in Report
           /\ [Blank EXCEPT !.nonce = n, !.chan = a] \in Report
           /\ [Blank EXCEPT !.cid = c, !.nonce = n, !.chan = a] \in Report
BY NothingIsTyped DEF Report

LEMMA HeardIsTyped ==
    ASSUME Queues, NEW r \in Report, inbox' = Heard(r)
    PROVE  Queues'
<1>1. Capacity \in Nat
  BY HidAssumption
<1>2. ASSUME NEW h \in Hosts
      PROVE  Heard(r)[h] \in Seq(Report) /\ Len(Heard(r)[h]) <= Capacity
  <2>1. inbox[h] \in Seq(Report) /\ Len(inbox[h]) <= Capacity
    BY DEF Queues
  <2>2. Append(inbox[h], r) \in Seq(Report) /\ Len(Append(inbox[h], r)) = Len(inbox[h]) + 1
    BY <2>1
  <2>3. Len(inbox[h]) \in Nat
    BY <2>1
  <2> QED
    BY <1>1, <2>1, <2>2, <2>3 DEF Heard
<1>3. Heard(r) \in [Hosts -> Seq(Report)]
  BY <1>2 DEF Heard
<1> QED
  BY <1>2, <1>3 DEF Queues

LEMMA PopIsTyped ==
    ASSUME Queues, NEW h \in Hosts, Mail(h), Pop(h)
    PROVE  Queues' /\ Report1(h) \in Report
<1>1. inbox[h] \in Seq(Report) /\ inbox[h] # <<>> /\ Len(inbox[h]) <= Capacity
  BY DEF Queues, Mail
<1>2. /\ Tail(inbox[h]) \in Seq(Report) /\ Head(inbox[h]) \in Report
      /\ Len(Tail(inbox[h])) = Len(inbox[h]) - 1 /\ Len(inbox[h]) \in Nat
  BY <1>1
<1>3. Len(Tail(inbox[h])) <= Capacity
  BY <1>1, <1>2, HidAssumption
<1> QED
  BY <1>2, <1>3 DEF Queues, Pop, Report1

LEMMA StartsIsTyped ==
    ASSUME Connections, NEW h \in Hosts, NEW s \in States, NEW n \in 0..MaxRequests,
           Starts(h, s, n)
    PROVE  /\ state' \in [Hosts -> States]
           /\ end' \in [Hosts -> Ends]
           /\ left' \in [Hosts -> 0..Budget]
           /\ serial' \in [Hosts -> 0..MaxRequests]
           /\ serves' \in [Hosts -> SUBSET (0..MaxRequests)]
BY HidAssumption DEF Connections, Starts, Enter, Ends

LEMMA LeavesIsTyped ==
    ASSUME Connections, NEW h \in Hosts, NEW s \in States, NEW why \in Ends,
           Leaves(h, s, why)
    PROVE  /\ state' \in [Hosts -> States]
           /\ end' \in [Hosts -> Ends]
           /\ left' \in [Hosts -> 0..Budget]
           /\ asm' \in [Hosts -> Assembler]
BY HidAssumption, NothingIsTyped DEF Connections, Leaves, Enter

LEMMA GoneIsTyped ==
    ASSUME Connections, Queues, NEW h \in Hosts, Gone(h)
    PROVE  Connections' /\ Queues'
<1>1. "closed" \in States /\ "none" \in Ends
  BY DEF States, Ends
<1>2. Leaves(h, "closed", "none")
  BY DEF Gone
<1>3. Connections'
  BY <1>1, <1>2, LeavesIsTyped, HidAssumption DEF Connections, Gone, Commands
<1>4. /\ <<>> \in Seq(Report) /\ Len(<<>>) <= Capacity
  BY HidAssumption
<1> QED
  BY <1>3, <1>4 DEF Queues, Gone

\* What a request does to the token.
LEMMA TakesIsTyped ==
    ASSUME Queues, Device, Tasked, NEW c \in Channels, NEW k \in Commands,
           NEW s \in 0..MaxRequests, TokenTakes(c, k, s)
    PROVE  /\ Queues' /\ Tasked'
           /\ task' \in Task /\ runs' \in [1..MaxRequests -> 0..2]
<1>1. CASE task = Free
  <2>1. task' = [Free EXCEPT !.cid = c, !.cmd = k, !.serial = s]
    BY <1>1 DEF TokenTakes
  <2>2. task' \in Task
    BY <2>1, NothingIsTyped DEF Task
  <2>4. Tasked'
    <3>1. task'.cid = c /\ task'.sent = 0 /\ task'.conts = 0
      BY <2>1 DEF Free
    <3> QED
      BY <3>1, ChannelsAreNumbers DEF Tasked
  <2>3. runs' \in [1..MaxRequests -> 0..2]
    BY <1>1, HidAssumption DEF TokenTakes, Device
  <2> QED
    BY <1>1, <2>2, <2>3, <2>4 DEF TokenTakes, Queues
<1>2. CASE task # Free
  <2>1. UNCHANGED <<task, runs>> /\ inbox' = Heard([Blank EXCEPT !.cid = c, !.cmd = "BUSY"])
    BY <1>2 DEF TokenTakes
  <2>2. [Blank EXCEPT !.cid = c, !.cmd = "BUSY"] \in Report
    BY ErrorsAreReports
  <2> QED
    BY <2>1, <2>2, HeardIsTyped DEF Device, Tasked
<1> QED
  BY <1>1, <1>2

LEMMA CancelledIsTyped ==
    ASSUME Device, Tasked, NEW c \in Channels
    PROVE  /\ Cancelled(c) \in Task
           /\ Cancelled(c) = Free \/ Cancelled(c).cid # NoChannel
           /\ Cancelled(c).sent <= Cancelled(c).conts
<1>1. task \in Task
  BY DEF Device
<1>2. [task EXCEPT !.cancelled = TRUE] \in Task
  BY <1>1 DEF Task
<1>3. /\ [task EXCEPT !.cancelled = TRUE].cid = task.cid
      /\ [task EXCEPT !.cancelled = TRUE].sent = task.sent
      /\ [task EXCEPT !.cancelled = TRUE].conts = task.conts
  BY <1>1 DEF Task
<1>4. CASE task.cid = c /\ task.cmd = "CBOR"
  BY <1>2, <1>3, <1>4, ChannelsAreNumbers DEF Cancelled, Tasked
<1>5. CASE ~(task.cid = c /\ task.cmd = "CBOR")
  BY <1>1, <1>5 DEF Cancelled, Tasked
<1> QED
  BY <1>4, <1>5

-----------------------------------------------------------------------------
(* Every step preserves Typed: first the token's.                          *)

\* The token goes on with the transaction t, having written r.
LEMMA TokenIsTyped ==
    ASSUME Typed, NEW r \in Report, inbox' = Heard(r),
           task' \in Task, task' = Free \/ task'.cid # NoChannel, task'.sent <= task'.conts,
           UNCHANGED <<connection, top, runs, bounds>>, beat' \in BOOLEAN
    PROVE  Typed'
<1>1. Queues'
  BY HeardIsTyped DEF Typed
<1> QED
  BY <1>1 DEF Typed, Connections, Device, Connected, Tasked, connection, bounds

LEMMA PendingTask ==
    ASSUME Typed, task # Free
    PROVE  /\ task \in Task /\ task.cid \in Channels /\ task.cmd \in Commands
           /\ task.serial \in 0..MaxRequests
           /\ task.conts \in 0..MaxConts /\ task.sent \in 0..MaxConts
           /\ task.sent <= task.conts
BY DEF Typed, Device, Tasked, Task

LEMMA FreeIsTasked ==
    Free \in Task /\ Free.sent <= Free.conts
BY NothingIsTyped DEF Free

LEMMA TokenStepIsTyped ==
    ASSUME Typed, Token
    PROVE  Typed'
<1>1. CASE TokenKeepsAlive
  <2>1. [Blank EXCEPT !.cid = task.cid, !.cmd = "KEEPALIVE"] \in Report
    BY <1>1, PendingTask, ErrorsAreReports DEF TokenKeepsAlive
  <2>2. task' \in Task /\ (task' = Free \/ task'.cid # NoChannel) /\ task'.sent <= task'.conts
    BY <1>1 DEF TokenKeepsAlive, Typed, Tasked, Device
  <2> QED
    BY <1>1, <2>1, <2>2, TokenIsTyped DEF TokenKeepsAlive
<1>2. ASSUME NEW n \in 0..MaxConts, TokenAnswers(n)
      PROVE  Typed'
  <2> DEFINE r == [Blank EXCEPT !.cid = task.cid, !.cmd = task.cmd,
                                !.conts = n, !.serial = task.serial]
             t == [task EXCEPT !.conts = n, !.sent = 1]
  <2>1. r \in Report
    BY <1>2, PendingTask, AnswersAreReports DEF TokenAnswers
  <2>2. ASSUME n # 0
        PROVE  t \in Task /\ t.cid # NoChannel /\ t.sent <= t.conts
    <3>1. 1 \in 0..MaxConts /\ 1 <= n
      BY <2>2, HidAssumption
    <3>2. task \in Task /\ task.cid # NoChannel
      BY <1>2, PendingTask, ChannelsAreNumbers DEF TokenAnswers
    <3>3. t \in Task
      BY <3>1, <3>2 DEF Task
    <3>4. t.cid = task.cid /\ t.sent = 1 /\ t.conts = n
      BY <3>2 DEF Task
    <3> QED
      BY <3>1, <3>2, <3>3, <3>4
  <2>3. task' = IF n = 0 THEN Free ELSE t
    BY <1>2 DEF TokenAnswers
  <2>4. task' \in Task /\ (task' = Free \/ task'.cid # NoChannel) /\ task'.sent <= task'.conts
    BY <2>2, <2>3, FreeIsTasked
  <2>5. inbox' = Heard(r) /\ UNCHANGED <<connection, top, beat, runs, bounds>>
    BY <1>2 DEF TokenAnswers
  <2>6. beat' \in BOOLEAN
    BY <2>5 DEF Typed, Device
  <2> HIDE DEF r, t
  <2> QED
    BY <2>1, <2>4, <2>5, <2>6, TokenIsTyped
<1>3. CASE TokenContinues
  <2> DEFINE r == [Blank EXCEPT !.cid = task.cid, !.cmd = "CONT",
                                !.seq = task.sent - 1, !.serial = task.serial]
             t == [task EXCEPT !.sent = @ + 1]
  <2>1. task \in Task /\ task.cid \in Channels /\ task.serial \in 0..MaxRequests
        /\ task.conts \in 0..MaxConts /\ task.sent \in 1..MaxConts /\ task.sent <= task.conts
    BY <1>3, PendingTask DEF TokenContinues
  <2>2. task.sent - 1 \in 0..MaxConts
    BY <2>1, HidAssumption
  <2>3. r \in Report
    BY <2>1, <2>2, AnswersAreReports DEF Commands
  <2>4. ASSUME task.sent # task.conts
        PROVE  t \in Task /\ t.cid # NoChannel /\ t.sent <= t.conts
    <3>1. task.sent + 1 \in 0..MaxConts /\ task.sent + 1 <= task.conts
      BY <2>1, <2>4, HidAssumption
    <3>2. t \in Task
      BY <2>1, <3>1 DEF Task
    <3>3. t.cid = task.cid /\ t.sent = task.sent + 1 /\ t.conts = task.conts
      BY <2>1 DEF Task
    <3> QED
      BY <2>1, <3>1, <3>2, <3>3, ChannelsAreNumbers
  <2>5. task' = IF task.sent = task.conts THEN Free ELSE t
    BY <1>3 DEF TokenContinues
  <2>6. task' \in Task /\ (task' = Free \/ task'.cid # NoChannel) /\ task'.sent <= task'.conts
    BY <2>4, <2>5, FreeIsTasked
  <2>7. inbox' = Heard(r) /\ UNCHANGED <<connection, top, beat, runs, bounds>>
    BY <1>3 DEF TokenContinues
  <2>8. beat' \in BOOLEAN
    BY <2>7 DEF Typed, Device
  <2> HIDE DEF r, t
  <2> QED
    BY <2>3, <2>6, <2>7, <2>8, TokenIsTyped
<1>4. CASE TokenRefuses
  <2>1. [Blank EXCEPT !.cid = task.cid, !.cmd = "ERROR"] \in Report
    BY <1>4, PendingTask, ErrorsAreReports DEF TokenRefuses
  <2>2. beat' \in BOOLEAN
    BY <1>4 DEF TokenRefuses, Typed, Device
  <2> QED
    BY <1>4, <2>1, <2>2, FreeIsTasked, TokenIsTyped DEF TokenRefuses
<1>5. CASE RivalInit
  <2>1. top' \in Channels /\ rival' \in 0..MaxRival
    BY <1>5, HidAssumption DEF RivalInit, Typed, Device, Channels
  <2>2. [Blank EXCEPT !.chan = top'] \in Report
    <3>1. 0 \in 0..MaxHandshakes
      BY HidAssumption
    <3> QED
      BY <2>1, <3>1, ChannelsAreNumbers, HandshakesAreReports
  <2>3. Queues'
    BY <1>5, <2>2, HeardIsTyped DEF RivalInit, Typed
  <2> QED
    BY <1>5, <2>1, <2>3
    DEF RivalInit, Typed, Connections, Device, Connected, Tasked, connection
<1>6. CASE RivalRequest
  <2>1. /\ Queues' /\ Tasked'
        /\ task' \in Task /\ runs' \in [1..MaxRequests -> 0..2]
    BY <1>6, TakesIsTyped, ChannelsAreNumbers, HidAssumption DEF RivalRequest, Typed, Commands
  <2>2. rival' \in 0..MaxRival
    BY <1>6, HidAssumption DEF RivalRequest, Typed, Device
  <2> QED
    BY <1>6, <2>1, <2>2 DEF RivalRequest, Typed, Connections, Device, Connected, connection
<1>7. CASE RivalCancels
  <2>1. /\ Cancelled(RivalChannel) \in Task
        /\ Cancelled(RivalChannel) = Free \/ Cancelled(RivalChannel).cid # NoChannel
        /\ Cancelled(RivalChannel).sent <= Cancelled(RivalChannel).conts
    BY CancelledIsTyped, ChannelsAreNumbers DEF Typed
  <2> QED
    BY <1>7, <2>1
    DEF RivalCancels, Typed, Connections, Device, Connected, Tasked, Queues, connection, bounds
<1> QED
  BY <1>1, <1>2, <1>3, <1>4, <1>5, <1>6, <1>7 DEF Token

LEMMA StatesAreDistinct ==
    /\ Joined \subseteq States /\ {"closed", "open", "opening", "idle"} \subseteq States
    /\ Joined = (Awaiting \ {"opening"}) \cup {"idle"}
    /\ Joined \cap {"closed", "open", "opening"} = {}
BY DEF Joined, States, Awaiting

\* A connection that has a channel.
LEMMA JoinedChannel ==
    ASSUME Typed, NEW h \in Hosts, state[h] \in Joined
    PROVE  /\ cid[h] \in Channels /\ nonce[h] > 0
BY StatesAreDistinct DEF Typed, Connections, Connected

\* A connection that stays joined, or stays opening, keeps channel and nonces.
LEMMA EntersConnected ==
    ASSUME Typed, NEW h \in Hosts, NEW s \in States, state' = [state EXCEPT ![h] = s],
           UNCHANGED <<cid, nonce>>, state[h] \in Joined <=> s \in Joined,
           s \notin {"closed", "open"}, state[h] \notin {"closed", "open"}
    PROVE  Connected'
BY DEF Typed, Connections, Connected

\* An operation ends, one report of the queue consumed or none.
LEMMA LeavesTyped ==
    ASSUME Typed, NEW h \in Hosts, state[h] \in Joined, NEW why \in Ends,
           Leaves(h, "idle", why), UNCHANGED <<cid, nonce, top, runs, bounds>>,
           beat' \in BOOLEAN, cmd' \in [Hosts -> Commands],
           serial' \in [Hosts -> 0..MaxRequests], serves' \in [Hosts -> SUBSET (0..MaxRequests)],
           dirty' \in [Hosts -> BOOLEAN],
           Queues', task' \in Task, task' = Free \/ task'.cid # NoChannel,
           task'.sent <= task'.conts
    PROVE  Typed'
<1>1. "idle" \in States /\ "idle" \in Joined
  BY DEF States, Joined
<1>2. Connections'
  BY <1>1, LeavesIsTyped DEF Typed, Connections
<1>3. Connected'
  BY <1>1, EntersConnected DEF Leaves, Enter, Joined
<1>4. Device' /\ Tasked'
  BY DEF Typed, Device, Tasked, bounds
<1> QED
  BY <1>2, <1>3, <1>4 DEF Typed

LEMMA HandshakeStepIsTyped ==
    ASSUME Typed, NEW h \in Hosts,
           \/ Open(h) \/ Connect(h) \/ Resync(h) \/ HandshakeSkips(h) \/ ConnectFails(h)
           \/ ResyncFails(h) \/ Allocate(h) \/ Resynced(h) \/ ResyncExpires(h)
    PROVE  Typed'
<1> USE StatesAreDistinct
<1>1. CASE Open(h)
  <2>1. "open" \in States /\ 0 \in 0..MaxRequests
    BY HidAssumption DEF States
  <2>2. Connections'
    BY <1>1, <2>1, StartsIsTyped DEF Open, Typed, Connections
  <2>3. Connected'
    BY <1>1 DEF Open, Starts, Enter, Typed, Connections, Connected
  <2> QED
    BY <1>1, <2>2, <2>3 DEF Open, Typed, Queues, Device, Tasked, token, bounds
<1>2. CASE Connect(h)
  <2>1. state' = [state EXCEPT ![h] = "opening"] /\ nonce' = [nonce EXCEPT ![h] = @ + 1]
        /\ UNCHANGED <<cid, cmd, asm, left, end, serial, serves, dirty, task, beat, runs,
                       bounds>>
    BY <1>2 DEF Connect, Enter
  <2>2. nonce[h] + 1 = 1 /\ 1 \in 0..MaxHandshakes
    <3>1. state[h] = "open"
      BY <1>2 DEF Connect
    <3>2. nonce[h] = 0
      BY <3>1 DEF Typed, Connected
    <3> QED
      BY <3>2, HidAssumption
  <2>3. nonce' \in [Hosts -> 0..MaxHandshakes] /\ nonce'[h] = 1
    BY <2>1, <2>2 DEF Typed, Connections
  <2>4. Connections'
    <3>1. "opening" \in States
      BY DEF States, Awaiting
    <3> QED
      BY <2>1, <2>3, <3>1 DEF Typed, Connections
  <2>5. Connected'
    <3>1. state[h] = "open"
      BY <1>2 DEF Connect
    <3>2. nonce'[h] > 0
      BY <2>3
    <3> QED
      BY <2>1, <2>3, <3>1, <3>2 DEF Typed, Connections, Connected, Joined
  <2>6. Queues' /\ top' \in Channels
    <3>1. CASE UNCHANGED <<inbox, top>>
      BY <3>1 DEF Typed, Queues, Device
    <3>2. ASSUME NEW chan \in {NoChannel, top + 1} \ {MaxChannels + 1},
                 inbox' = Heard([Blank EXCEPT !.nonce = nonce'[h], !.chan = chan]),
                 top' = IF chan = NoChannel THEN top ELSE chan
          PROVE  Queues' /\ top' \in Channels
      <4>1. chan \in {NoChannel} \cup Channels
        BY HidAssumption DEF Typed, Device, Channels, NoChannel
      <4>2. [Blank EXCEPT !.nonce = nonce'[h], !.chan = chan] \in Report
        BY <2>2, <2>3, <4>1, ChannelsAreNumbers, HandshakesAreReports
      <4> QED
        BY <3>2, <4>1, <4>2, HeardIsTyped DEF Typed, Device
    <3> QED
      BY <1>2, <3>1, <3>2 DEF Connect
  <2> QED
    BY <2>1, <2>4, <2>5, <2>6 DEF Typed, Device, Tasked, bounds
<1>3. CASE Resync(h)
  <2>1. cid[h] \in Channels /\ nonce[h] > 0
    BY <1>3, JoinedChannel DEF Resync, Joined
  <2>2. nonce' = [nonce EXCEPT ![h] = @ + 1] /\ nonce[h] < MaxHandshakes
        /\ UNCHANGED <<cid, cmd, asm, top, beat, runs, bounds>>
    BY <1>3 DEF Resync
  <2>3. nonce[h] + 1 \in 0..MaxHandshakes /\ nonce[h] + 1 > 0
    BY <2>1, <2>2, HidAssumption DEF Typed, Connections
  <2>4. nonce' \in [Hosts -> 0..MaxHandshakes] /\ nonce'[h] = nonce[h] + 1
    BY <2>2, <2>3 DEF Typed, Connections
  <2>5. "resyncing" \in States /\ 0 \in 0..MaxRequests /\ "resyncing" \in Joined
    BY HidAssumption DEF States, Awaiting, Joined
  <2>6. dirty' \in [Hosts -> BOOLEAN]
    BY <1>3 DEF Resync, Typed, Connections
  <2>7. Connections'
    BY <1>3, <2>2, <2>4, <2>5, <2>6, StartsIsTyped DEF Resync, Typed, Connections
  <2>8. Connected'
    BY <1>3, <2>2, <2>3, <2>4, <2>5 DEF Resync, Starts, Enter, Typed, Connections, Connected, Joined
  <2>9. task' \in Task /\ Tasked'
    BY <1>3, FreeIsTasked DEF Resync, Typed, Device, Tasked
  <2>10. Queues'
    <3>1. CASE UNCHANGED inbox
      BY <3>1 DEF Typed, Queues
    <3>2. CASE inbox' = Heard([Blank EXCEPT !.cid = cid[h], !.nonce = nonce'[h],
                                            !.chan = cid[h]])
      BY <2>1, <2>3, <2>4, <3>2, HandshakesAreReports, HeardIsTyped DEF Typed
    <3> QED
      BY <1>3, <3>1, <3>2 DEF Resync
  <2> QED
    BY <2>2, <2>7, <2>8, <2>9, <2>10 DEF Typed, Device, bounds
<1>4. CASE HandshakeSkips(h)
  <2>1. Queues'
    BY <1>4, PopIsTyped DEF HandshakeSkips, Typed
  <2> QED
    BY <1>4, <2>1 DEF HandshakeSkips, Typed, Connections, Connected, Device, Tasked, connection,
                      token, bounds
<1>5. CASE ConnectFails(h)
  <2>1. Connections' /\ Queues'
    BY <1>5, GoneIsTyped DEF ConnectFails, Typed
  <2>2. Connected'
    BY <1>5 DEF ConnectFails, Gone, Leaves, Enter, Typed, Connections, Connected
  <2> QED
    BY <1>5, <2>1, <2>2 DEF ConnectFails, Typed, Device, Tasked, token, bounds
<1>6. CASE ResyncFails(h)
  <2>1. Queues' /\ "failed" \in Ends /\ state[h] \in Joined
    BY <1>6, PopIsTyped DEF ResyncFails, Mismatched, Typed, Ends, Joined
  <2>2. task' = task /\ task \in Task /\ (task = Free \/ task.cid # NoChannel)
        /\ task.sent <= task.conts
    BY <1>6 DEF ResyncFails, token, Typed, Device, Tasked
  <2> QED
    BY <1>6, <2>1, <2>2, LeavesTyped DEF ResyncFails, token, Typed, Device, Connections
<1>7. CASE Allocate(h)
  <2>1. Queues' /\ Report1(h) \in Report
    BY <1>7, PopIsTyped DEF Allocate, Typed
  <2>2. Report1(h).chan \in Channels
    BY <1>7, <2>1 DEF Allocate, Report
  <2>3. "ok" \in Ends /\ "idle" \in States
    BY DEF Ends, States
  <2>4. Connections'
    BY <1>7, <2>2, <2>3, LeavesIsTyped DEF Allocate, Typed, Connections
  <2>5. Connected'
    BY <1>7, <2>2, ChannelsAreNumbers
    DEF Allocate, Leaves, Enter, Typed, Connections, Connected, Joined
  <2> QED
    BY <1>7, <2>1, <2>4, <2>5 DEF Allocate, Typed, Device, Tasked, token, bounds
<1>8. CASE Resynced(h)
  <2>1. Queues' /\ "ok" \in Ends /\ state[h] \in Joined /\ dirty' \in [Hosts -> BOOLEAN]
    BY <1>8, PopIsTyped DEF Resynced, Typed, Ends, Joined, Connections
  <2>2. task' = task /\ task \in Task /\ (task = Free \/ task.cid # NoChannel)
        /\ task.sent <= task.conts
    BY <1>8 DEF Resynced, token, Typed, Device, Tasked
  <2> QED
    BY <1>8, <2>1, <2>2, LeavesTyped DEF Resynced, token, Typed, Device, Connections
<1>9. CASE ResyncExpires(h)
  <2>1. Queues' /\ "timeout" \in Ends /\ state[h] \in Joined
    BY <1>9 DEF ResyncExpires, Typed, Queues, Ends, Joined
  <2>2. task' = task /\ task \in Task /\ (task = Free \/ task.cid # NoChannel)
        /\ task.sent <= task.conts
    BY <1>9 DEF ResyncExpires, token, Typed, Device, Tasked
  <2> QED
    BY <1>9, <2>1, <2>2, LeavesTyped DEF ResyncExpires, token, Typed, Device, Connections
<1> QED
  BY <1>1, <1>2, <1>3, <1>4, <1>5, <1>6, <1>7, <1>8, <1>9

LEMMA ExtendedIsTyped ==
    ASSUME Typed, NEW h \in Hosts, Own(h), InSequence(h)
    PROVE  Extended(h) \in Assembler
<1>1. asm[h] \in Assembler
  BY DEF Typed, Connections
<1>2. Report1(h) \in Report
  <2>1. inbox[h] \in Seq(Report) /\ inbox[h] # <<>>
    BY DEF Typed, Queues, Own, Mail
  <2> QED
    BY <2>1 DEF Report1
<1>3. /\ Report1(h).serial \in 0..MaxRequests /\ Report1(h).conts \in 0..MaxConts
      /\ Report1(h).seq \in 0..MaxConts
  BY <1>2 DEF Report
<1>4. CASE Report1(h).cmd = "CONT"
  <2>1. cmd[h] # "CONT"
    BY DEF Typed, Connections, Commands
  <2>2. asm[h].next = Report1(h).seq
    BY <1>4, <2>1 DEF InSequence
  <2>3. asm[h].next + 1 \in 0..(MaxConts + 1)
    BY <1>3, <2>2, HidAssumption
  <2>4. asm[h].from \cup {Report1(h).serial} \in SUBSET (0..MaxRequests)
    BY <1>1, <1>3 DEF Assembler
  <2>5. [asm[h] EXCEPT !.next = asm[h].next + 1,
                       !.from = asm[h].from \cup {Report1(h).serial}] \in Assembler
    BY <1>1, <2>3, <2>4 DEF Assembler
  <2> QED
    BY <1>4, <2>5 DEF Extended
<1>5. CASE Report1(h).cmd # "CONT"
  <2>1. 0 \in 0..(MaxConts + 1)
    BY HidAssumption
  <2>2. [active |-> TRUE, next |-> 0, need |-> Report1(h).conts,
         from |-> {Report1(h).serial}] \in Assembler
    BY <1>3, <2>1 DEF Assembler
  <2> QED
    BY <1>5, <2>2 DEF Extended
<1> QED
  BY <1>4, <1>5

\* The task of the token when a connection gives up, by whatever way.
LEMMA TaskStaysTyped ==
    ASSUME Typed, NEW c \in Channels, task' = task \/ task' = Cancelled(c)
    PROVE  /\ task' \in Task /\ Tasked'
           /\ task' = Free \/ task'.cid # NoChannel
           /\ task'.sent <= task'.conts
<1>1. task' \in Task /\ (task' = Free \/ task'.cid # NoChannel) /\ task'.sent <= task'.conts
  BY CancelledIsTyped DEF Typed, Device, Tasked
<1> QED
  BY <1>1 DEF Tasked

\* A connection that waits goes on waiting, or backs off, or the other way round.
LEMMA WaitsTyped ==
    ASSUME Typed, NEW h \in Hosts, state[h] \in {"waiting", "backoff"},
           NEW s \in {"waiting", "backoff"}, state' = [state EXCEPT ![h] = s],
           asm' \in [Hosts -> Assembler], left' \in [Hosts -> 0..Budget],
           UNCHANGED <<cid, nonce, cmd, end, serial, serves, dirty, top, requests, rival>>,
           Queues', task' \in Task, Tasked', beat' \in BOOLEAN,
           runs' \in [1..MaxRequests -> 0..2]
    PROVE  Typed'
<1>1. s \in States
  BY DEF States, Awaiting
<1>2. Connections'
  BY <1>1 DEF Typed, Connections
<1>3. Connected'
  BY <1>1, EntersConnected DEF Joined
<1> QED
  BY <1>2, <1>3 DEF Typed, Device

\* An operation is given up: a cancel is written, or nothing.
LEMMA AbandonsAs ==
    ASSUME NEW h \in Hosts, NEW k, NEW why, Abandons(h, k, why)
    PROVE  \E w \in {why, "lost"} :
               /\ Leaves(h, "idle", w)
               /\ task' = task \/ task' = Cancelled(cid[h])
               /\ k = "CBOR" /\ w # "lost" => task' = Cancelled(cid[h])
BY DEF Abandons

LEMMA AbandonsIsTyped ==
    ASSUME Typed, NEW h \in Hosts, state[h] \in Joined, NEW k, NEW why \in Ends,
           Abandons(h, k, why), UNCHANGED <<cid, nonce, top, runs, bounds>>,
           beat' \in BOOLEAN, cmd' \in [Hosts -> Commands],
           serial' \in [Hosts -> 0..MaxRequests], serves' \in [Hosts -> SUBSET (0..MaxRequests)],
           dirty' \in [Hosts -> BOOLEAN], Queues'
    PROVE  Typed'
<1>1. PICK w \in {why, "lost"} :
          Leaves(h, "idle", w) /\ (task' = task \/ task' = Cancelled(cid[h]))
  BY AbandonsAs
<1>2. w \in Ends
  BY DEF Ends
<1>3. task' \in Task /\ (task' = Free \/ task'.cid # NoChannel) /\ task'.sent <= task'.conts
  BY <1>1, JoinedChannel, TaskStaysTyped
<1> QED
  BY <1>1, <1>2, <1>3, LeavesTyped

LEMMA ReceiveStepIsTyped ==
    ASSUME Typed, NEW h \in Hosts,
           \/ Skips(h) \/ KeptAlive(h) \/ Assembles(h) \/ Violates(h)
           \/ IsRefused(h) \/ BacksOff(h) \/ Reissues(h)
    PROVE  Typed'
<1>1. state[h] \in {"waiting", "backoff"} /\ state[h] \in Joined
  BY DEF Skips, KeptAlive, Assembles, Violates, IsRefused, BacksOff, Reissues, Joined
<1>2. cid[h] \in Channels
  BY <1>1, JoinedChannel
<1>3. {"response", "refused", "failed"} \subseteq Ends
  BY DEF Ends
<1>4. CASE Skips(h) \/ KeptAlive(h)
  <2>1. Queues'
    BY <1>4, PopIsTyped DEF Skips, KeptAlive, Own, Typed
  <2>2. UNCHANGED <<connection, token, bounds>>
    BY <1>4 DEF Skips, KeptAlive, connection
  <2> QED
    BY <2>1, <2>2 DEF Typed, Connections, Connected, Device, Tasked, connection, token, bounds
<1>5. CASE Assembles(h)
  <2>1. Queues'
    BY <1>5, PopIsTyped DEF Assembles, Own, Typed
  <2>2. Extended(h) \in Assembler
    BY <1>5, ExtendedIsTyped DEF Assembles
  <2>3. UNCHANGED <<cid, nonce, cmd, serial, dirty, token, bounds>>
    BY <1>5 DEF Assembles
  <2>4. CASE Extended(h).next < Extended(h).need
    <3>1. asm' = [asm EXCEPT ![h] = Extended(h)] /\ UNCHANGED <<state, end, left, serves>>
      BY <1>5, <2>4 DEF Assembles
    <3> QED
      BY <2>1, <2>2, <2>3, <3>1
      DEF Typed, Connections, Connected, Device, Tasked, token, bounds
  <2>5. CASE ~(Extended(h).next < Extended(h).need)
    <3>1. Leaves(h, "idle", "response") /\ serves' = [serves EXCEPT ![h] = Extended(h).from]
      BY <1>5, <2>5 DEF Assembles
    <3>2. serves' \in [Hosts -> SUBSET (0..MaxRequests)]
      BY <2>2, <3>1 DEF Typed, Connections, Assembler
    <3>3. task' \in Task /\ (task' = Free \/ task'.cid # NoChannel) /\ task'.sent <= task'.conts
      BY <1>2, <2>3, TaskStaysTyped DEF token
    <3> QED
      BY <1>1, <1>3, <2>1, <2>3, <3>1, <3>2, <3>3, LeavesTyped
      DEF Typed, Device, Connections, token
  <2> QED
    BY <2>4, <2>5
<1>6. CASE Violates(h)
  <2>1. Queues'
    BY <1>6, PopIsTyped DEF Violates, Own, Typed
  <2>2. dirty' \in [Hosts -> BOOLEAN]
    BY <1>6 DEF Violates, GiveUp, Typed, Connections
  <2> QED
    BY <1>1, <1>3, <1>6, <2>1, <2>2, AbandonsIsTyped
    DEF Violates, GiveUp, Typed, Connections, Device
<1>7. CASE IsRefused(h)
  <2>1. Queues'
    BY <1>7, PopIsTyped DEF IsRefused, Own, Typed
  <2>2. task' = task
    BY <1>7 DEF IsRefused, token
  <2> QED
    BY <1>1, <1>2, <1>3, <1>7, <2>1, <2>2, TaskStaysTyped, LeavesTyped
    DEF IsRefused, token, Typed, Device, Connections
<1>8. CASE BacksOff(h)
  <2>1. Queues'
    BY <1>8, PopIsTyped DEF BacksOff, Own, Typed
  <2> QED
    BY <1>1, <1>8, <2>1, WaitsTyped
    DEF BacksOff, Enter, token, bounds, Typed, Connections, Device, Tasked
<1>9. CASE Reissues(h)
  <2>1. Queues' /\ Tasked' /\ task' \in Task /\ runs' \in [1..MaxRequests -> 0..2]
    BY <1>2, <1>9, TakesIsTyped DEF Reissues, Typed, Connections
  <2>2. asm' \in [Hosts -> Assembler]
    BY <1>9, NothingIsTyped DEF Reissues, Typed, Connections
  <2>3. left' \in [Hosts -> 0..Budget]
    BY <1>9, HidAssumption DEF Reissues, Typed, Connections
  <2> QED
    BY <1>1, <1>9, <2>1, <2>2, <2>3, WaitsTyped DEF Reissues, Enter, bounds
<1> QED
  BY <1>4, <1>5, <1>6, <1>7, <1>8, <1>9

LEMMA CallStepIsTyped ==
    ASSUME Typed, NEW h \in Hosts,
           \/ \E k \in Commands : Send(h, k)
           \/ SendTooLong(h) \/ Tick(h) \/ Expires(h) \/ Drop(h)
           \/ \E politely \in BOOLEAN : Close(h, politely)
    PROVE  Typed'
<1>1. {"response", "refused", "failed", "timeout", "dropped"} \subseteq Ends
  BY DEF Ends
<1>2. ASSUME NEW k \in Commands, Send(h, k)
      PROVE  Typed'
  <2>1. state[h] = "idle" /\ "idle" \in Joined /\ "waiting" \in Joined /\ "waiting" \in States
    BY <1>2 DEF Send, Joined, States, Awaiting
  <2>2. cid[h] \in Channels
    BY <2>1, JoinedChannel
  <2>3. requests + 1 \in 0..MaxRequests
    BY <1>2, HidAssumption DEF Send, Typed, Device
  <2>4. /\ Queues' /\ Tasked'
        /\ task' \in Task /\ runs' \in [1..MaxRequests -> 0..2]
    BY <1>2, <2>2, <2>3, TakesIsTyped DEF Send, Typed
  <2>5. Connections'
    BY <1>2, <2>1, <2>3, StartsIsTyped DEF Send, Typed, Connections
  <2>6. Connected'
    BY <1>2, <2>1, EntersConnected DEF Send, Starts, Enter
  <2> QED
    BY <1>2, <2>3, <2>4, <2>5, <2>6 DEF Send, Typed, Device
<1>3. CASE SendTooLong(h)
  <2>1. state[h] \in Joined
    BY <1>3 DEF SendTooLong, Joined
  <2>2. beat' \in BOOLEAN
    BY <1>3 DEF SendTooLong, Typed, Device
  <2>3. /\ cmd' \in [Hosts -> Commands] /\ dirty' \in [Hosts -> BOOLEAN]
        /\ serial' \in [Hosts -> 0..MaxRequests]
        /\ serves' \in [Hosts -> SUBSET (0..MaxRequests)]
    BY <1>3, HidAssumption DEF SendTooLong, Typed, Connections, Commands
  <2>4. Queues'
    BY <1>3 DEF SendTooLong, Typed, Queues
  <2> QED
    BY <1>1, <1>3, <2>1, <2>2, <2>3, <2>4, AbandonsIsTyped DEF SendTooLong
<1>4. CASE Tick(h)
  <2>1. left' \in [Hosts -> 0..Budget]
    BY <1>4, HidAssumption DEF Tick, Typed, Connections
  <2> QED
    BY <1>4, <2>1 DEF Tick, Typed, Connections, Queues, Device, Connected, Tasked, bounds
<1>5. CASE Expires(h)
  <2>1. state[h] \in Joined
    BY <1>5 DEF Expires, Joined
  <2>2. Queues' /\ dirty' \in [Hosts -> BOOLEAN]
    BY <1>5 DEF Expires, GiveUp, Typed, Queues, Connections
  <2> QED
    BY <1>1, <1>5, <2>1, <2>2, AbandonsIsTyped
    DEF Expires, GiveUp, Typed, Connections, Device
<1>6. CASE Drop(h)
  <2>1. state[h] \in Joined
    BY <1>6, StatesAreDistinct DEF Drop
  <2>2. task' \in Task /\ (task' = Free \/ task'.cid # NoChannel) /\ task'.sent <= task'.conts
    BY <1>6, <2>1, JoinedChannel, TaskStaysTyped DEF Drop, token
  <2>3. Queues' /\ dirty' \in [Hosts -> BOOLEAN]
    BY <1>6 DEF Drop, Typed, Queues, Connections
  <2> QED
    BY <1>1, <1>6, <2>1, <2>2, <2>3, LeavesTyped DEF Drop, token, Typed, Device, Connections
<1>7. ASSUME NEW politely \in BOOLEAN, Close(h, politely)
      PROVE  Typed'
  <2>1. Connections' /\ Queues'
    BY <1>7, GoneIsTyped DEF Close, Typed
  <2>2. Connected'
    BY <1>7 DEF Close, Gone, Leaves, Enter, Typed, Connections, Connected, Joined
  <2>3. task' \in Task /\ Tasked'
    <3>1. CASE politely
      BY <1>7, <3>1, JoinedChannel, TaskStaysTyped DEF Close, Joined
    <3>2. CASE ~politely
      BY <1>7, <3>2 DEF Close, Typed, Device, Tasked
    <3> QED
      BY <3>1, <3>2
  <2> QED
    BY <1>7, <2>1, <2>2, <2>3 DEF Close, Typed, Device, bounds
<1> QED
  BY <1>2, <1>3, <1>4, <1>5, <1>6, <1>7

\* A report that the connection has to write is not written.
Unwritten(h) ==
    \/ ResyncUnwritten(h) \/ ReissueUnwritten(h)
    \/ \E k \in Commands : SendUnwritten(h, k)

LEMMA UnwrittenIsTyped ==
    ASSUME Typed, NEW h \in Hosts, Unwritten(h)
    PROVE  Typed'
<1>1. {"failed", "lost"} \subseteq Ends /\ "idle" \in States /\ {"idle", "backoff"} \subseteq Joined
  BY DEF Ends, States, Joined
<1>2. CASE ResyncUnwritten(h)
  <2>1. /\ state[h] = "idle" /\ nonce[h] < MaxHandshakes
        /\ Leaves(h, "idle", "lost") /\ nonce' = [nonce EXCEPT ![h] = @ + 1]
        /\ dirty' = [dirty EXCEPT ![h] = TRUE] /\ serial' = [serial EXCEPT ![h] = 0]
        /\ serves' = [serves EXCEPT ![h] = {}]
        /\ UNCHANGED <<cid, cmd, inbox, task, top, beat, runs, requests, rival>>
    BY <1>2 DEF ResyncUnwritten, token, bounds
  <2>2. nonce[h] \in Nat /\ nonce[h] > 0
    BY <1>1, <2>1, HidAssumption, JoinedChannel DEF Typed, Connections
  <2>3. nonce[h] + 1 \in 0..MaxHandshakes /\ nonce[h] + 1 > 0
    BY <2>1, <2>2, HidAssumption
  <2>4. nonce' \in [Hosts -> 0..MaxHandshakes] /\ nonce'[h] > 0
    BY <2>1, <2>3 DEF Typed, Connections
  <2>5. /\ dirty' \in [Hosts -> BOOLEAN] /\ serial' \in [Hosts -> 0..MaxRequests]
        /\ serves' \in [Hosts -> SUBSET (0..MaxRequests)]
    BY <2>1, HidAssumption DEF Typed, Connections
  <2>6. Connections'
    BY <1>1, <2>1, <2>4, <2>5, LeavesIsTyped DEF Typed, Connections
  <2>7. Connected'
    BY <1>1, <2>1, <2>4 DEF Leaves, Enter, Typed, Connections, Connected
  <2> QED
    BY <2>1, <2>6, <2>7 DEF Typed, Queues, Device, Tasked
<1>3. CASE ReissueUnwritten(h)
  <2>1. dirty' \in [Hosts -> BOOLEAN]
    BY <1>3 DEF ReissueUnwritten, GiveUp, Typed, Connections
  <2> QED
    BY <1>1, <1>3, <2>1, AbandonsIsTyped
    DEF ReissueUnwritten, GiveUp, Typed, Connections, Queues
<1>4. ASSUME NEW k \in Commands, SendUnwritten(h, k)
      PROVE  Typed'
  <2>1. /\ cmd' \in [Hosts -> Commands] /\ dirty' \in [Hosts -> BOOLEAN]
        /\ serial' \in [Hosts -> 0..MaxRequests]
        /\ serves' \in [Hosts -> SUBSET (0..MaxRequests)]
    BY <1>4, HidAssumption DEF SendUnwritten, GiveUp, Typed, Connections
  <2> QED
    BY <1>1, <1>4, <2>1, AbandonsIsTyped DEF SendUnwritten, GiveUp, Typed, Queues, Device
<1> QED
  BY <1>2, <1>3, <1>4 DEF Unwritten

LEMMA StepIsTyped ==
    ASSUME Typed, [Next]_vars
    PROVE  Typed'
<1>1. CASE Token
  BY <1>1, TokenStepIsTyped
<1>2. ASSUME NEW h \in Hosts,
             \/ Runs(h)
             \/ Open(h) \/ Connect(h)
             \/ Resync(h) \/ ResyncUnwritten(h)
             \/ \E k \in Commands : Send(h, k) \/ SendUnwritten(h, k)
             \/ SendTooLong(h)
             \/ Drop(h)
             \/ \E politely \in BOOLEAN : Close(h, politely)
      PROVE  Typed'
  BY <1>2, HandshakeStepIsTyped, ReceiveStepIsTyped, CallStepIsTyped, UnwrittenIsTyped
  DEF Runs, Unwritten
<1>3. CASE UNCHANGED vars
  BY <1>3 DEF vars, Typed, Connections, Queues, Device, Connected, Tasked
<1> QED
  BY <1>1, <1>2, <1>3 DEF Next

LEMMA InitIsTyped ==
    ASSUME Init
    PROVE  Typed
<1>1. Connections
  BY HidAssumption, NothingIsTyped DEF Init, Connections, States, Ends, Commands
<1>2. Queues
  BY HidAssumption DEF Init, Queues
<1>3. Device
  BY HidAssumption, NothingIsTyped, ChannelsAreNumbers DEF Init, Device
<1>4. Connected /\ Tasked
  BY HidAssumption DEF Init, Connected, Tasked, Joined, NoChannel, Free
<1> QED
  BY <1>1, <1>2, <1>3, <1>4 DEF Typed

\* Every variable has its type, queues stay within what the kernel keeps, and no
\* packet beyond the announced ones is ever written or assembled (Assembler).
THEOREM TypeCorrect == Spec => []TypeOK
<1>1. Spec => []Typed
  BY InitIsTyped, StepIsTyped, PTL DEF Spec
<1>2. Typed => TypeOK
  BY DEF Typed, TypeOK, Connections, Queues, Device
<1> QED
  BY <1>1, <1>2, PTL

-----------------------------------------------------------------------------
(* Queues: a report of another channel, one of this channel, and the first *)
(* one gone.                                                               *)

LEMMA AppendAt ==
    ASSUME NEW q \in Seq(Report), NEW r \in Report
    PROVE  /\ Len(Append(q, r)) = Len(q) + 1 /\ Len(q) \in Nat
           /\ \A i \in 1..Len(q) : Append(q, r)[i] = q[i]
           /\ Append(q, r)[Len(q) + 1] = r
           /\ 1..Len(Append(q, r)) = (1..Len(q)) \cup {Len(q) + 1}
OBVIOUS

LEMMA TailAt ==
    ASSUME NEW q \in Seq(Report), q # <<>>
    PROVE  /\ Len(Tail(q)) = Len(q) - 1 /\ Len(q) \in Nat \ {0}
           /\ \A i \in 1..Len(Tail(q)) : Tail(q)[i] = q[i + 1] /\ i + 1 \in 2..Len(q)
           /\ \A i \in 2..Len(q) : i - 1 \in 1..Len(Tail(q)) /\ q[i] = Tail(q)[i - 1]
           /\ 1 \in 1..Len(q) /\ Head(q) = q[1] /\ Tail(q) \in Seq(Report)
OBVIOUS

\* What is known of a channel stays true when a report of another one arrives.
LEMMA ForeignArrives ==
    ASSUME NEW q \in Seq(Report), NEW r \in Report, NEW c, r.cid # c
    PROVE  /\ NoneOf(q, c) => NoneOf(Append(q, r), c)
           /\ OnlyAlive(q, c) => OnlyAlive(Append(q, r), c)
           /\ OnlyConts(q, c) => OnlyConts(Append(q, r), c)
           /\ \A errors : Declined(q, c, errors) => Declined(Append(q, r), c, errors)
           /\ \A number : LastOfAll(q, c, number) => LastOfAll(Append(q, r), c, number)
           /\ \A k, s, n, sent :
                  Packets(q, c, k, s, n, sent) => Packets(Append(q, r), c, k, s, n, sent)
<1> DEFINE p == Append(q, r)
<1>1. /\ Len(p) = Len(q) + 1 /\ Len(q) \in Nat
      /\ \A i \in 1..Len(q) : p[i] = q[i]
      /\ p[Len(q) + 1] = r
      /\ 1..Len(p) = (1..Len(q)) \cup {Len(q) + 1}
  BY AppendAt
<1>2. \A i \in 1..Len(p) : p[i].cid = c => i \in 1..Len(q) /\ p[i] = q[i]
  BY <1>1
<1>3. \A i \in 1..Len(q) : i \in 1..Len(p) /\ p[i] = q[i]
  BY <1>1
<1> HIDE DEF p
<1>4. NoneOf(q, c) => NoneOf(p, c)
  BY <1>2, <1>3 DEF NoneOf
<1>5. OnlyAlive(q, c) => OnlyAlive(p, c)
  BY <1>2, <1>3 DEF OnlyAlive
<1>6. OnlyConts(q, c) => OnlyConts(p, c)
  BY <1>2, <1>3 DEF OnlyConts
<1>7. \A errors : Declined(q, c, errors) => Declined(p, c, errors)
  BY <1>2, <1>3 DEF Declined
<1>8. \A number : LastOfAll(q, c, number) => LastOfAll(p, c, number)
  BY <1>2, <1>3 DEF LastOfAll
<1>9. \A k, s, n, sent : Packets(q, c, k, s, n, sent) => Packets(p, c, k, s, n, sent)
  BY <1>2, <1>3 DEF Packets
<1> QED
  BY <1>4, <1>5, <1>6, <1>7, <1>8, <1>9 DEF p

\* It also stays true when the first report is taken, unless it is the very one
\* that was awaited.
LEMMA FirstGoes ==
    ASSUME NEW q \in Seq(Report), q # <<>>, NEW c
    PROVE  /\ NoneOf(q, c) => NoneOf(Tail(q), c)
           /\ OnlyAlive(q, c) => OnlyAlive(Tail(q), c)
           /\ OnlyConts(q, c) => OnlyConts(Tail(q), c)
           /\ \A errors : Declined(q, c, errors)
                          /\ ~(Head(q).cid = c /\ Head(q).cmd \in errors)
                          => Declined(Tail(q), c, errors)
           /\ \A number : LastOfAll(q, c, number) => LastOfAll(Tail(q), c, number)
           /\ \A k, s, n, sent :
                  Packets(q, c, k, s, n, sent) => Packets(Tail(q), c, k, s, n, sent)
<1> DEFINE p == Tail(q)
<1>1. /\ Len(p) = Len(q) - 1 /\ Len(q) \in Nat \ {0}
      /\ \A i \in 1..Len(p) : p[i] = q[i + 1] /\ i + 1 \in 2..Len(q)
      /\ \A i \in 2..Len(q) : i - 1 \in 1..Len(p) /\ q[i] = p[i - 1]
      /\ 1 \in 1..Len(q) /\ Head(q) = q[1]
  BY TailAt
<1> HIDE DEF p
<1>2. \A i \in 1..Len(p) : i + 1 \in 1..Len(q)
  BY <1>1
<1>3. NoneOf(q, c) => NoneOf(p, c)
  BY <1>1, <1>2 DEF NoneOf
<1>4. OnlyAlive(q, c) => OnlyAlive(p, c)
  BY <1>1, <1>2 DEF OnlyAlive
<1>5. OnlyConts(q, c) => OnlyConts(p, c)
  BY <1>1, <1>2 DEF OnlyConts
<1>6. ASSUME NEW errors, Declined(q, c, errors), ~(Head(q).cid = c /\ Head(q).cmd \in errors)
      PROVE  Declined(p, c, errors)
  <2>1. PICK i \in 1..Len(q) :
            /\ q[i].cid = c /\ q[i].cmd \in errors
            /\ \A j \in 1..Len(q) : q[j].cid = c /\ j # i => j < i /\ q[j].cmd = "KEEPALIVE"
    BY <1>6 DEF Declined
  <2>2. i \in 2..Len(q)
    BY <1>1, <1>6, <2>1
  <2>3. i - 1 \in 1..Len(p) /\ p[i - 1].cid = c /\ p[i - 1].cmd \in errors
    BY <1>1, <2>1, <2>2
  <2>4. ASSUME NEW j \in 1..Len(p), p[j].cid = c, j # i - 1
        PROVE  j < i - 1 /\ p[j].cmd = "KEEPALIVE"
    BY <1>1, <1>2, <2>1, <2>4
  <2> QED
    BY <2>3, <2>4 DEF Declined
<1>7. ASSUME NEW number, LastOfAll(q, c, number)
      PROVE  LastOfAll(p, c, number)
  <2>1. ASSUME NEW i \in 1..Len(p), NEW j \in 1..Len(p),
               p[i].cid = c, p[i].cmd = "INIT", p[i].nonce = number, i < j
        PROVE  p[j].cid # c
    <3>1. i + 1 \in 1..Len(q) /\ j + 1 \in 1..Len(q) /\ i + 1 < j + 1
          /\ p[i] = q[i + 1] /\ p[j] = q[j + 1]
      BY <1>1, <1>2, <2>1
    <3> QED
      BY <1>7, <2>1, <3>1 DEF LastOfAll
  <2> QED
    BY <2>1 DEF LastOfAll
<1>8. ASSUME NEW k, NEW s, NEW n, NEW sent, Packets(q, c, k, s, n, sent)
      PROVE  Packets(p, c, k, s, n, sent)
  <2>1. \A i \in 1..Len(p) : p[i].cid = c => IsPacket(p[i], k, s, n, sent)
    BY <1>1, <1>2, <1>8 DEF Packets
  <2>2. ASSUME NEW i \in 1..Len(p), NEW j \in 1..Len(p), p[i].cid = c, p[j].cid = c, i < j
        PROVE  Follows(p[i], p[j])
    <3>1. i + 1 \in 1..Len(q) /\ j + 1 \in 1..Len(q) /\ i + 1 < j + 1
          /\ p[i] = q[i + 1] /\ p[j] = q[j + 1]
      BY <1>1, <1>2, <2>2
    <3> QED
      BY <1>8, <2>2, <3>1 DEF Packets
  <2> QED
    BY <2>1, <2>2 DEF Packets
<1> QED
  BY <1>3, <1>4, <1>5, <1>6, <1>7, <1>8 DEF p

LEMMA HeardAt ==
    ASSUME NEW h \in Hosts, NEW r, inbox' = Heard(r)
    PROVE  /\ inbox'[h] = inbox[h] \/ inbox'[h] = Append(inbox[h], r)
           /\ state[h] = "closed" => inbox'[h] = inbox[h]
BY DEF Heard

\* Reports of the channel itself arrive.
LEMMA OwnArrives ==
    ASSUME NEW q \in Seq(Report), NEW r \in Report, NEW c, r.cid = c, OnlyAlive(q, c)
    PROVE  /\ r.cmd = "KEEPALIVE" => OnlyAlive(Append(q, r), c)
           /\ \A errors : r.cmd \in errors => Declined(Append(q, r), c, errors)
           /\ \A sent : Packets(Append(q, r), c, r.cmd, r.serial, r.conts, sent)
<1> DEFINE p == Append(q, r)
<1>1. /\ Len(p) = Len(q) + 1 /\ Len(q) \in Nat
      /\ \A i \in 1..Len(q) : p[i] = q[i]
      /\ p[Len(q) + 1] = r
      /\ 1..Len(p) = (1..Len(q)) \cup {Len(q) + 1}
  BY AppendAt
<1> HIDE DEF p
<1>2. \A i \in 1..Len(p) : i # Len(q) + 1 /\ p[i].cid = c
          => p[i].cmd = "KEEPALIVE" /\ i < Len(q) + 1
  BY <1>1 DEF OnlyAlive
<1>3. Len(q) + 1 \in 1..Len(p)
  BY <1>1
<1>4. r.cmd = "KEEPALIVE" => OnlyAlive(p, c)
  BY <1>1, <1>2 DEF OnlyAlive
<1>5. ASSUME NEW errors, r.cmd \in errors
      PROVE  Declined(p, c, errors)
  BY <1>1, <1>2, <1>3, <1>5 DEF Declined
<1>6. ASSUME NEW sent
      PROVE  Packets(p, c, r.cmd, r.serial, r.conts, sent)
  <2>1. \A i \in 1..Len(p) : p[i].cid = c => IsPacket(p[i], r.cmd, r.serial, r.conts, sent)
    BY <1>1, <1>2 DEF IsPacket
  <2>2. ASSUME NEW i \in 1..Len(p), NEW j \in 1..Len(p), p[i].cid = c, p[j].cid = c, i < j
        PROVE  Follows(p[i], p[j])
    <3>1. i # Len(q) + 1
      BY <1>1, <2>2
    <3> QED
      BY <1>2, <2>2, <3>1 DEF Follows
  <2> QED
    BY <2>1, <2>2 DEF Packets
<1> QED
  BY <1>4, <1>5, <1>6 DEF p

LEMMA AliveArePackets ==
    ASSUME NEW q, NEW c, OnlyAlive(q, c), NEW k, NEW s, NEW n, NEW sent
    PROVE  Packets(q, c, k, s, n, sent)
BY DEF OnlyAlive, Packets, IsPacket, Follows

LEMMA NoneAreAlive ==
    ASSUME NEW q, NEW c, NoneOf(q, c)
    PROVE  OnlyAlive(q, c)
BY DEF OnlyAlive, NoneOf

LEMMA SequenceNumbers ==
    ASSUME NEW q \in Seq(Report)
    PROVE  \A i \in 1..Len(q) : q[i] \in Report /\ q[i].seq \in Nat
<1>1. \A i \in 1..Len(q) : q[i] \in Report
  OBVIOUS
<1>2. \A r \in Report : r.seq \in Nat
  BY HidAssumption DEF Report
<1> QED
  BY <1>1, <1>2

\* The next packet goes out, to arrive or to be lost.
LEMMA MoreIsSent ==
    ASSUME NEW q \in Seq(Report), NEW c, NEW k, NEW s, NEW n \in Nat, NEW sent \in Nat,
           Packets(q, c, k, s, n, sent)
    PROVE  Packets(q, c, k, s, n, sent + 1)
<1>1. ASSUME NEW i \in 1..Len(q), IsPacket(q[i], k, s, n, sent)
      PROVE  IsPacket(q[i], k, s, n, sent + 1)
  <2>1. q[i].seq \in Nat
    BY SequenceNumbers
  <2> QED
    BY <1>1, <2>1 DEF IsPacket
<1> QED
  BY <1>1 DEF Packets

LEMMA PacketArrives ==
    ASSUME NEW q \in Seq(Report), NEW r \in Report, NEW c, NEW k \in Commands, NEW s,
           NEW n \in Nat, NEW sent \in Nat \ {0}, sent <= n, Packets(q, c, k, s, n, sent),
           r.cid = c, r.cmd = "CONT", r.seq = sent - 1, r.serial = s
    PROVE  /\ Packets(Append(q, r), c, k, s, n, sent + 1)
           /\ OnlyConts(q, c) => OnlyConts(Append(q, r), c)
<1> DEFINE p == Append(q, r)
<1>1. /\ Len(p) = Len(q) + 1 /\ Len(q) \in Nat
      /\ \A i \in 1..Len(q) : p[i] = q[i]
      /\ p[Len(q) + 1] = r
      /\ 1..Len(p) = (1..Len(q)) \cup {Len(q) + 1}
  BY AppendAt
<1>2. Packets(q, c, k, s, n, sent + 1)
  BY MoreIsSent
<1>3. \A i \in 1..Len(q) : q[i].seq \in Nat
  BY SequenceNumbers
<1> HIDE DEF p
<1>4. IsPacket(r, k, s, n, sent + 1)
  BY DEF IsPacket
<1>5. \A i \in 1..Len(p) : p[i].cid = c => IsPacket(p[i], k, s, n, sent + 1)
  BY <1>1, <1>2, <1>4 DEF Packets
<1>6. ASSUME NEW i \in 1..Len(p), NEW j \in 1..Len(p), p[i].cid = c, p[j].cid = c, i < j
      PROVE  Follows(p[i], p[j])
  <2>1. i \in 1..Len(q) /\ p[i] = q[i]
    BY <1>1, <1>6
  <2>2. CASE j \in 1..Len(q)
    BY <1>1, <1>2, <1>6, <2>1, <2>2 DEF Packets
  <2>3. CASE j = Len(q) + 1
    <3>1. IsPacket(q[i], k, s, n, sent) /\ q[i].seq \in Nat
      BY <1>3, <1>6, <2>1 DEF Packets
    <3>2. q[i].cmd = "KEEPALIVE" \/ q[i].cmd \in Commands
          \/ (q[i].cmd = "CONT" /\ q[i].seq < sent - 1)
      BY <3>1 DEF IsPacket
    <3>3. p[j] = r
      BY <1>1, <2>3
    <3> QED
      BY <2>1, <3>2, <3>3 DEF Follows
  <2> QED
    BY <1>1, <2>2, <2>3
<1>7. OnlyConts(q, c) => OnlyConts(p, c)
  BY <1>1 DEF OnlyConts
<1> QED
  BY <1>5, <1>6, <1>7 DEF p, Packets

\* A report of the channel itself is taken: the error that was awaited, the first
\* packet of a response, a later one, the response to the handshake.
LEMMA ErrorTaken ==
    ASSUME NEW q \in Seq(Report), q # <<>>, NEW c, NEW errors, Declined(q, c, errors),
           Head(q).cid = c, Head(q).cmd # "KEEPALIVE"
    PROVE  Head(q).cmd \in errors /\ NoneOf(Tail(q), c)
<1> DEFINE p == Tail(q)
<1>1. /\ \A i \in 1..Len(p) : p[i] = q[i + 1] /\ i + 1 \in 2..Len(q)
      /\ 1 \in 1..Len(q) /\ Head(q) = q[1] /\ Len(q) \in Nat
  BY TailAt
<1> HIDE DEF p
<1>2. PICK i \in 1..Len(q) :
          /\ q[i].cid = c /\ q[i].cmd \in errors
          /\ \A j \in 1..Len(q) : q[j].cid = c /\ j # i => j < i /\ q[j].cmd = "KEEPALIVE"
  BY DEF Declined
<1>3. i = 1
  BY <1>1, <1>2
<1>4. \A j \in 1..Len(p) : p[j].cid # c
  BY <1>1, <1>2, <1>3
<1> QED
  BY <1>1, <1>2, <1>3, <1>4 DEF NoneOf, p

LEMMA AnswerTaken ==
    ASSUME NEW q \in Seq(Report), q # <<>>, NEW s, NEW n \in Nat, NEW sent,
           Head(q).cmd \in Commands, Packets(q, Head(q).cid, Head(q).cmd, s, n, sent)
    PROVE  /\ Head(q).conts = n /\ Head(q).serial = s
           /\ OnlyConts(Tail(q), Head(q).cid)
           /\ n = 0 => NoneOf(Tail(q), Head(q).cid)
<1> DEFINE p == Tail(q)
           c == Head(q).cid
           k == Head(q).cmd
<1>1. /\ \A i \in 1..Len(p) : p[i] = q[i + 1] /\ i + 1 \in 2..Len(q)
      /\ 1 \in 1..Len(q) /\ Head(q) = q[1] /\ Len(q) \in Nat
  BY TailAt
<1>2. q[1].cid = c /\ q[1].cmd = k
  BY <1>1
<1>3. p \in Seq(Report)
  BY TailAt
<1>4. \A i \in 1..Len(p) : p[i].seq \in Nat
  BY <1>3, SequenceNumbers
<1> HIDE DEF p
<1>5. k # "CONT" /\ k # "KEEPALIVE" /\ Packets(q, c, k, s, n, sent)
  BY DEF Commands
<1> HIDE DEF c, k
<1>6. Head(q).conts = n /\ Head(q).serial = s
  BY <1>2, <1>1, <1>5 DEF Packets, IsPacket
<1>7. ASSUME NEW i \in 1..Len(p), p[i].cid = c
      PROVE  p[i].cmd = "CONT" /\ n # 0
  <2>1. p[i] = q[i + 1] /\ i + 1 \in 1..Len(q) /\ 1 < i + 1
    BY <1>1
  <2>2. Follows(q[1], p[i])
    BY <1>2, <1>1, <1>5, <1>7, <2>1 DEF Packets
  <2>3. IsPacket(p[i], k, s, n, sent)
    BY <1>5, <1>7, <2>1 DEF Packets
  <2>4. p[i].cmd = "CONT"
    BY <1>2, <1>5, <2>2 DEF Follows, Commands
  <2>5. p[i].seq < n
    BY <1>5, <2>3, <2>4 DEF IsPacket
  <2> QED
    BY <1>4, <2>4, <2>5
<1> QED
  BY <1>6, <1>7 DEF OnlyConts, NoneOf, p, c

LEMMA PacketTaken ==
    ASSUME NEW q \in Seq(Report), q # <<>>, NEW c, NEW k \in Commands, NEW s, NEW n \in Nat,
           NEW sent \in Nat, Packets(q, c, k, s, n, sent), Head(q).cid = c,
           Head(q).cmd = "CONT"
    PROVE  /\ Head(q).serial = s /\ Head(q).seq < n /\ Head(q).seq + 1 < sent
           /\ OnlyConts(q, c) /\ Head(q).seq + 1 >= n => NoneOf(Tail(q), c)
<1> DEFINE p == Tail(q)
<1>1. /\ \A i \in 1..Len(p) : p[i] = q[i + 1] /\ i + 1 \in 2..Len(q)
      /\ 1 \in 1..Len(q) /\ Head(q) = q[1] /\ Len(q) \in Nat
  BY TailAt
<1>2. \A i \in 1..Len(q) : q[i].seq \in Nat
  BY SequenceNumbers
<1> HIDE DEF p
<1>3. k # "CONT"
  BY DEF Commands
<1>4. Head(q).serial = s /\ Head(q).seq < n /\ Head(q).seq + 1 < sent
  BY <1>1, <1>3 DEF Packets, IsPacket
<1>5. ASSUME OnlyConts(q, c), Head(q).seq + 1 >= n, NEW i \in 1..Len(p)
      PROVE  p[i].cid # c
  <2>1. p[i] = q[i + 1] /\ i + 1 \in 1..Len(q) /\ 1 < i + 1
    BY <1>1
  <2>2. SUFFICES ASSUME p[i].cid = c
                 PROVE  FALSE
    OBVIOUS
  <2>3. Follows(q[1], q[i + 1]) /\ IsPacket(q[i + 1], k, s, n, sent) /\ q[i + 1].cmd = "CONT"
    BY <1>1, <1>5, <2>1, <2>2 DEF Packets, OnlyConts
  <2>4. q[1].seq < q[i + 1].seq
    BY <1>1, <2>3 DEF Follows, Commands
  <2>5. q[i + 1].seq < n
    BY <1>3, <2>3 DEF IsPacket
  <2>6. q[1].seq \in Nat /\ q[i + 1].seq \in Nat /\ q[1].seq + 1 >= n
    BY <1>1, <1>2, <1>5, <2>1
  <2> QED
    BY <2>4, <2>5, <2>6
<1> QED
  BY <1>4, <1>5 DEF NoneOf, p

LEMMA ResponseTaken ==
    ASSUME NEW q \in Seq(Report), q # <<>>, NEW c, NEW number, LastOfAll(q, c, number),
           Head(q).cid = c, Head(q).cmd = "INIT", Head(q).nonce = number
    PROVE  NoneOf(Tail(q), c)
<1> DEFINE p == Tail(q)
<1>1. /\ \A i \in 1..Len(p) : p[i] = q[i + 1] /\ i + 1 \in 2..Len(q)
      /\ 1 \in 1..Len(q) /\ Head(q) = q[1] /\ Len(q) \in Nat
  BY TailAt
<1> HIDE DEF p
<1>2. \A i \in 1..Len(p) : p[i] = q[i + 1] /\ i + 1 \in 1..Len(q) /\ 1 < i + 1
  BY <1>1
<1>3. \A i \in 1..Len(p) : p[i].cid # c
  BY <1>1, <1>2 DEF LastOfAll
<1> QED
  BY <1>3 DEF NoneOf, p

-----------------------------------------------------------------------------
(* Steps that leave a connection and its channel alone.                    *)

Kept(q, p, c) ==
    /\ NoneOf(q, c) => NoneOf(p, c)
    /\ OnlyAlive(q, c) => OnlyAlive(p, c)
    /\ OnlyConts(q, c) => OnlyConts(p, c)
    /\ \A number : LastOfAll(q, c, number) => LastOfAll(p, c, number)
    /\ \A k, s, n, sent : Packets(q, c, k, s, n, sent) => Packets(p, c, k, s, n, sent)

StillDeclined(q, p, c) ==
    \A errors \in {{"BUSY"}, {"ERROR"}} : Declined(q, c, errors) => Declined(p, c, errors)

\* Nothing but r is new in the queue.
Newest(h, r) ==
    \A i \in 1..Len(inbox'[h]) :
        inbox'[h][i] = r \/ \E j \in 1..Len(inbox[h]) : inbox'[h][i] = inbox[h][j]

LEMMA ForeignKeeps ==
    ASSUME NEW q \in Seq(Report), NEW r \in Report, NEW c, r.cid # c,
           NEW p, p = q \/ p = Append(q, r)
    PROVE  Kept(q, p, c) /\ StillDeclined(q, p, c)
<1>1. CASE p = q
  BY <1>1 DEF Kept, StillDeclined
<1>2. CASE p = Append(q, r)
  BY <1>2, ForeignArrives DEF Kept, StillDeclined
<1> QED
  BY <1>1, <1>2

LEMMA TailKeeps ==
    ASSUME NEW q \in Seq(Report), q # <<>>, NEW c
    PROVE  /\ Kept(q, Tail(q), c)
           /\ ~(Head(q).cid = c /\ Head(q).cmd \in {"BUSY", "ERROR"})
                  => StillDeclined(q, Tail(q), c)
BY FirstGoes DEF Kept, StillDeclined

LEMMA NewestReports ==
    ASSUME Typed, NEW h \in Hosts, NEW r \in Report,
           \/ inbox'[h] = inbox[h] \/ inbox'[h] = Append(inbox[h], r)
           \/ inbox[h] # <<>> /\ inbox'[h] = Tail(inbox[h])
    PROVE  Newest(h, r)
<1>1. inbox[h] \in Seq(Report)
  BY DEF Typed, Queues
<1>2. CASE inbox'[h] = inbox[h]
  BY <1>2 DEF Newest
<1>3. CASE inbox'[h] = Append(inbox[h], r)
  BY <1>1, <1>3, AppendAt DEF Newest
<1>4. CASE inbox[h] # <<>> /\ inbox'[h] = Tail(inbox[h])
  <2>1. \A i \in 1..Len(inbox'[h]) : inbox'[h][i] = inbox[h][i + 1] /\ i + 1 \in 1..Len(inbox[h])
    BY <1>1, <1>4, TailAt
  <2> QED
    BY <2>1 DEF Newest
<1> QED
  BY <1>2, <1>3, <1>4

LEMMA Numbers ==
    ASSUME Typed, NEW h \in Hosts
    PROVE  /\ top \in Channels /\ top \in Nat /\ top <= MaxChannels
           /\ task.cid \in Nat /\ cid[h] \in Nat /\ nonce[h] \in Nat
           /\ inbox[h] \in Seq(Report)
           /\ \A i \in 1..Len(inbox[h]) :
                  /\ inbox[h][i] \in Report
                  /\ inbox[h][i].cid \in Nat /\ inbox[h][i].nonce \in Nat
                  /\ inbox[h][i].chan \in {NoChannel} \cup Channels
<1>1. top \in Channels /\ task \in Task /\ cid[h] \in {NoChannel} \cup Channels
      /\ nonce[h] \in 0..MaxHandshakes /\ inbox[h] \in Seq(Report)
  BY DEF Typed, Device, Connections, Queues
<1>2. top \in Nat /\ top <= MaxChannels
  BY <1>1, HidAssumption DEF Channels
<1>3. task.cid \in Nat /\ cid[h] \in Nat /\ nonce[h] \in Nat
  <2>1. task.cid \in {NoChannel} \cup Channels
    BY <1>1 DEF Task
  <2>2. \A c \in {NoChannel} \cup Channels : c \in Nat
    BY ChannelsAreNumbers DEF NoChannel
  <2> QED
    BY <1>1, <2>1, <2>2, HidAssumption
<1>4. ASSUME NEW r \in Report
      PROVE  r.cid \in Nat /\ r.nonce \in Nat /\ r.chan \in {NoChannel} \cup Channels
  <2>1. r.cid \in Channels \cup {Broadcast} /\ r.nonce \in 0..MaxHandshakes
        /\ r.chan \in {NoChannel} \cup Channels
    BY DEF Report
  <2>2. \A c \in Channels \cup {Broadcast} : c \in Nat
    BY ChannelsAreNumbers
  <2>3. \A n \in 0..MaxHandshakes : n \in Nat
    BY HidAssumption
  <2> QED
    BY <2>1, <2>2, <2>3
<1>5. \A i \in 1..Len(inbox[h]) : inbox[h][i] \in Report
  BY <1>1
<1> QED
  BY <1>1, <1>2, <1>3, <1>4, <1>5

\* No step uses a channel or a nonce before its time.
LEMMA BelowStep ==
    ASSUME Typed, NEW h \in Hosts, Below(h), NEW r \in Report, Newest(h, r),
           top' \in Nat, top <= top', nonce'[h] \in Nat, nonce[h] <= nonce'[h],
           task'.cid <= top' \/ task'.cid = task.cid, cid'[h] <= top' \/ cid'[h] = cid[h],
           r.cid <= top' \/ r.cid = Broadcast, r.cid = cid'[h] => r.nonce <= nonce'[h],
           cid'[h] = cid[h] \/ NoneOf(inbox[h], cid'[h])
    PROVE  Below(h)'
<1>1. task'.cid <= top' /\ cid'[h] <= top'
  BY Numbers DEF Below
<1>2. ASSUME NEW i \in 1..Len(inbox'[h])
      PROVE  /\ inbox'[h][i].cid <= top' \/ inbox'[h][i].cid = Broadcast
             /\ inbox'[h][i].cid = cid'[h] => inbox'[h][i].nonce <= nonce'[h]
  <2>1. CASE inbox'[h][i] = r
    BY <2>1
  <2>2. ASSUME NEW j \in 1..Len(inbox[h]), inbox'[h][i] = inbox[h][j]
        PROVE  /\ inbox'[h][i].cid <= top' \/ inbox'[h][i].cid = Broadcast
               /\ inbox'[h][i].cid = cid'[h] => inbox'[h][i].nonce <= nonce'[h]
    <3>1. inbox[h][j].cid <= top \/ inbox[h][j].cid = Broadcast
      BY DEF Below
    <3>2. /\ inbox[h][j].cid = cid[h] => inbox[h][j].nonce <= nonce[h]
          /\ inbox[h][j].cid \in Nat /\ inbox[h][j].nonce \in Nat
          /\ nonce[h] \in Nat /\ top \in Nat
      BY Numbers DEF Below
    <3>3. inbox[h][j].cid = cid'[h] => cid'[h] = cid[h]
      BY DEF NoneOf
    <3> QED
      BY <2>2, <3>1, <3>2, <3>3
  <2> QED
    BY <2>1, <2>2 DEF Newest
<1> QED
  BY <1>1, <1>2 DEF Below

\* A step leaves the connection's own state alone.
Same(h) ==
    /\ state'[h] = state[h] /\ cid'[h] = cid[h] /\ nonce'[h] = nonce[h] /\ cmd'[h] = cmd[h]
    /\ asm'[h] = asm[h] /\ end'[h] = end[h] /\ serial'[h] = serial[h]
    /\ serves'[h] = serves[h] /\ dirty'[h] = dirty[h]

\* A channel that is offered stays nobody's while the connection waits for its
\* first handshake.
LEMMA OfferStands ==
    ASSUME Typed, NEW h \in Hosts, Offered(h), Same(h), NEW r \in Report, Newest(h, r),
           state[h] \in {"open", "opening"} => r.cid # Broadcast \/ r.nonce = 0,
           state[h] = "opening" => \A g \in Hosts : cid'[g] \in {cid[g], NoChannel},
           r.cid \in {Broadcast, RivalChannel, task.cid} \/ \E g \in Hosts : r.cid = cid[g],
           \/ task'.cid \in {NoChannel, RivalChannel, task.cid}
           \/ \E g \in Hosts : task'.cid = cid[g],
           top' \in Nat, top <= top'
    PROVE  Offered(h)'
<1>1. ASSUME state[h] = "opening", NEW i \in 1..Len(inbox'[h]), inbox'[h][i].cid = Broadcast,
             inbox'[h][i].nonce = nonce'[h], inbox'[h][i].chan # NoChannel
      PROVE  /\ inbox'[h][i].chan # RivalChannel /\ inbox'[h][i].chan <= top'
             /\ task'.cid # inbox'[h][i].chan /\ NoneOf(inbox'[h], inbox'[h][i].chan)
             /\ \A g \in Hosts : cid'[g] # inbox'[h][i].chan
  <2>0. nonce'[h] = nonce[h] /\ nonce[h] > 0
    BY <1>1 DEF Same, Typed, Connected
  <2>1. PICK j \in 1..Len(inbox[h]) : inbox'[h][i] = inbox[h][j]
    BY <1>1, <2>0 DEF Newest
  <2> DEFINE c == inbox[h][j].chan
  <2>2. /\ c # RivalChannel /\ c <= top /\ task.cid # c /\ NoneOf(inbox[h], c) /\ c # NoChannel
        /\ \A g \in Hosts : cid[g] # c
    BY <1>1, <2>0, <2>1 DEF Offered
  <2>3. c \in Channels /\ c \in Nat /\ top \in Nat
    BY <2>2, Numbers, ChannelsAreNumbers
  <2>4. c <= top'
    BY <2>2, <2>3
  <2>5. r.cid # c
    BY <2>2, <2>3, ChannelsAreNumbers
  <2>6. NoneOf(inbox'[h], c)
    BY <2>2, <2>5 DEF NoneOf, Newest
  <2> HIDE DEF c
  <2>7. task'.cid # c /\ \A g \in Hosts : cid'[g] # c
    BY <1>1, <2>2
  <2> QED
    BY <2>1, <2>2, <2>4, <2>6, <2>7 DEF c
<1>2. ASSUME state[h] = "open", NEW i \in 1..Len(inbox'[h]), inbox'[h][i].cid = Broadcast
      PROVE  inbox'[h][i].nonce = 0
  BY <1>2 DEF Offered, Newest
<1>3. state[h] \in Joined => cid[h] # RivalChannel
  BY DEF Offered
<1> QED
  BY <1>1, <1>2, <1>3 DEF Same, Offered

LEMMA Elsewhere ==
    ASSUME Typed, Typed', NEW h \in Hosts, Sound(h), Same(h), Offered(h)',
           top <= top', requests <= requests',
           NEW r \in Report, Newest(h, r), r.cid <= top' \/ r.cid = Broadcast,
           r.cid = cid[h] => r.nonce <= nonce[h],
           task'.cid <= top' \/ task'.cid = task.cid,
           task' = task
               \/ (state[h] \in Joined => task.cid # cid[h] /\ task'.cid # cid[h]),
           \A t \in 1..MaxRequests : t = serial[h] \/ t > requests' => runs'[t] = runs[t],
           state[h] = "closed" => inbox'[h] = inbox[h],
           state[h] \in Joined => Kept(inbox[h], inbox'[h], cid[h]),
           state[h] = "waiting" => StillDeclined(inbox[h], inbox'[h], cid[h])
    PROVE  Sound(h)'
<1>1. top \in Nat /\ top' \in Nat /\ nonce[h] \in Nat /\ requests \in Nat /\ requests' \in Nat
      /\ serial[h] \in 0..MaxRequests
  BY Numbers, HidAssumption DEF Typed, Device, Connections, Channels
<1>2. Below(h)'
  BY <1>1, BelowStep DEF Sound, Same
<1>3. serial[h] # 0 => runs'[serial[h]] = runs[serial[h]]
  BY <1>1
<1>4. Purged(h)'
  BY DEF Same, Sound, Purged, Kept, Joined
<1>5. Resting(h)'
  <2>1. \A t \in 1..MaxRequests : t > requests' => t > requests
    BY <1>1, HidAssumption
  <2>2. \A t \in 1..MaxRequests : t > requests' => runs'[t] = 0
    BY <2>1 DEF Sound, Resting
  <2>3. serial[h] <= requests'
    BY <1>1, HidAssumption DEF Sound, Resting
  <2> QED
    BY <2>2, <2>3 DEF Same, Sound, Resting
<1>6. Expecting(h)'
  <2>0. state[h] \in {"waiting", "backoff"} => runs'[serial'[h]] = runs[serial[h]]
    BY <1>3 DEF Same, Sound, Resting
  <2>1. ASSUME state[h] = "waiting", ~dirty[h]
        PROVE  Asked(h)' \/ TurnedDown(h)' \/ Answering(h)'
    <3>1. Kept(inbox[h], inbox'[h], cid[h]) /\ StillDeclined(inbox[h], inbox'[h], cid[h])
      BY <2>1 DEF Joined
    <3>2. task' = task \/ (task.cid # cid[h] /\ task'.cid # cid[h])
      BY <2>1 DEF Joined
    <3>3. CASE Asked(h)
      <4>1. task' = task
        BY <3>2, <3>3 DEF Asked
      <4>2. Asked(h)'
        BY <3>1, <3>3, <4>1 DEF Same, Asked, Kept
      <4> QED
        BY <4>2
    <3>4. CASE TurnedDown(h)
      BY <2>0, <2>1, <3>1, <3>2, <3>4 DEF Same, TurnedDown, StillDeclined
    <3>5. CASE Answering(h)
      <4>1. PICK n \in 0..MaxConts :
                /\ \/ task.cid # cid[h]
                   \/ /\ task.cid = cid[h] /\ task.serial = serial[h]
                      /\ task.sent > 0 /\ task.conts = n
                /\ Packets(inbox[h], cid[h], cmd[h], serial[h], n,
                           IF task.cid = cid[h] THEN task.sent ELSE n + 1)
                /\ asm[h].active =>
                       /\ asm[h].need = n /\ asm[h].from = {serial[h]}
                       /\ OnlyConts(inbox[h], cid[h])
        BY <3>5 DEF Answering
      <4>2. Packets(inbox'[h], cid[h], cmd[h], serial[h], n,
                    IF task'.cid = cid[h] THEN task'.sent ELSE n + 1)
        BY <3>1, <3>2, <4>1 DEF Kept
      <4>3. OnlyConts(inbox[h], cid[h]) => OnlyConts(inbox'[h], cid[h])
        BY <3>1 DEF Kept
      <4> QED
        BY <3>2, <4>1, <4>2, <4>3 DEF Same, Answering
    <3> QED
      BY <2>1, <3>3, <3>4, <3>5 DEF Sound, Expecting
  <2>2. ASSUME state[h] = "backoff", ~dirty[h]
        PROVE  Quiet(h)' /\ ~asm'[h].active /\ runs'[serial'[h]] = 0
    <3>1. Quiet(h) /\ ~asm[h].active /\ runs[serial[h]] = 0
      BY <2>2 DEF Sound, Expecting
    <3> QED
      BY <2>0, <2>2, <3>1 DEF Same, Quiet, Joined, Kept
  <2> QED
    BY <2>1, <2>2 DEF Same, Expecting
<1>7. Settled(h)'
  BY DEF Same, Sound, Settled, Quiet, Joined, Kept
<1>8. Matched(h)' /\ Once(h)'
  BY <1>3 DEF Same, Sound, Matched, Once
<1>9. Relieved(h)'
  BY DEF Same, Sound, Relieved, Joined
<1> QED
  BY <1>2, <1>4, <1>5, <1>6, <1>7, <1>8, <1>9 DEF Sound

-----------------------------------------------------------------------------
(* Steps of the token for the connection's own transaction.                *)

\* What is left to show of such a step, and all that it writes or forgets.
LEMMA OwnStep ==
    ASSUME Typed, Typed', NEW h \in Hosts, Sound(h),
           UNCHANGED <<connection, requests, runs, top>>,
           state[h] \in Joined, task.cid = cid[h],
           NEW r \in Report, inbox'[h] = inbox[h] \/ inbox'[h] = Append(inbox[h], r),
           r.cid = cid[h], r.nonce = 0,
           task'.cid \in {NoChannel, cid[h]},
           task'.cid = cid[h] /\ task'.sent = 0 => task' = task,
           Asked(h) \/ Answering(h) => Asked(h)' \/ TurnedDown(h)' \/ Answering(h)'
    PROVE  Sound(h)'
<1>0. UNCHANGED <<state, cid, nonce, cmd, asm, end, serial, serves, dirty, requests, runs>>
  BY DEF connection
<1>1. top \in Nat /\ top' \in Nat /\ nonce[h] \in Nat
  BY Numbers
<1>2. Below(h)'
  <2>1. Newest(h, r)
    BY NewestReports
  <2>2. r.cid <= top'
    BY DEF Sound, Below
  <2>3. task'.cid <= top' \/ task'.cid = task.cid
    BY <1>1 DEF NoChannel
  <2> QED
    BY <1>0, <1>1, <2>1, <2>2, <2>3, BelowStep DEF Sound
<1>3. Offered(h)'
  BY <1>0 DEF Sound, Offered, Joined
<1>4. state[h] # "resyncing" /\ (~dirty[h] => state[h] = "waiting")
  BY DEF Sound, Purged, Settled, Expecting, Quiet, Joined
<1>5. Purged(h)' /\ Settled(h)'
  BY <1>0, <1>4 DEF Purged, Settled
<1>6. Resting(h)' /\ Matched(h)' /\ Once(h)'
  BY <1>0 DEF Sound, Resting, Matched, Once, Joined
<1>7. Expecting(h)'
  <2>1. ASSUME state[h] = "waiting", ~dirty[h]
        PROVE  Asked(h)' \/ TurnedDown(h)' \/ Answering(h)'
    BY <2>1 DEF Sound, Expecting, TurnedDown
  <2> QED
    BY <1>0, <1>4, <2>1 DEF Expecting
<1>8. Relieved(h)'
  BY <1>0 DEF Sound, Relieved
<1> QED
  BY <1>2, <1>3, <1>5, <1>6, <1>7, <1>8 DEF Sound

LEMMA KeepsAliveOwn ==
    ASSUME Typed, Typed', NEW h \in Hosts, Sound(h), state[h] \in Joined,
           task.cid = cid[h], TokenKeepsAlive
    PROVE  Sound(h)'
<1> DEFINE r == [Blank EXCEPT !.cid = task.cid, !.cmd = "KEEPALIVE"]
<1>1. r \in Report
  BY PendingTask, ErrorsAreReports DEF TokenKeepsAlive
<1>2. r.cid = cid[h] /\ r.nonce = 0 /\ r.cmd = "KEEPALIVE"
  BY DEF Blank
<1>3. /\ inbox' = Heard(r) /\ task' = task /\ UNCHANGED <<connection, requests, runs, top>>
      /\ task.sent = 0
  BY DEF TokenKeepsAlive, bounds
<1> HIDE DEF r
<1>4. inbox'[h] = inbox[h] \/ inbox'[h] = Append(inbox[h], r)
  BY <1>3, HeardAt
<1>5. inbox[h] \in Seq(Report)
  BY Numbers
<1>6. Asked(h) => Asked(h)'
  BY <1>1, <1>2, <1>3, <1>4, <1>5, OwnArrives DEF Asked, connection
<1>7. ~Answering(h)
  BY <1>3 DEF Answering
<1> QED
  BY <1>1, <1>2, <1>3, <1>4, <1>6, <1>7, OwnStep

\* The first packet, or the whole of the answer.
LEMMA AnswersOwn ==
    ASSUME Typed, Typed', NEW h \in Hosts, Sound(h), state[h] \in Joined,
           task.cid = cid[h], NEW n \in 0..MaxConts, TokenAnswers(n)
    PROVE  Sound(h)'
<1> DEFINE r == [Blank EXCEPT !.cid = task.cid, !.cmd = task.cmd,
                              !.conts = n, !.serial = task.serial]
<1>1. task # Free /\ task.sent = 0 /\ inbox' = Heard(r)
      /\ task' = (IF n = 0 THEN Free ELSE [task EXCEPT !.conts = n, !.sent = 1])
      /\ UNCHANGED <<connection, top, requests, runs>>
  BY DEF TokenAnswers, bounds
<1>2. r \in Report
  BY <1>1, PendingTask, AnswersAreReports
<1>3. /\ r.cid = task.cid /\ r.nonce = 0 /\ r.cmd = task.cmd /\ r.conts = n
      /\ r.serial = task.serial
  BY DEF Blank
<1> HIDE DEF r
<1>4. inbox'[h] = inbox[h] \/ inbox'[h] = Append(inbox[h], r)
  BY <1>1, HeardAt
<1>5. inbox[h] \in Seq(Report) /\ cid[h] # NoChannel
  BY Numbers, JoinedChannel, ChannelsAreNumbers
<1>6. /\ n = 0 => task'.cid = NoChannel
      /\ n # 0 => /\ task'.cid = task.cid /\ task'.sent = 1 /\ task'.conts = n
                  /\ task'.serial = task.serial
  <2>1. task \in Task
    BY <1>1, PendingTask
  <2> QED
    BY <1>1, <2>1 DEF Free, Task
<1>7. ASSUME Asked(h)
      PROVE  Answering(h)'
  <2>1. UNCHANGED <<cid, cmd, asm, serial>>
    BY <1>1 DEF connection
  <2>2. task.serial = serial[h] /\ task.cmd = cmd[h] /\ ~asm[h].active
        /\ OnlyAlive(inbox[h], cid[h])
    BY <1>7 DEF Asked
  <2>3. \A sent : Packets(inbox'[h], cid[h], cmd[h], serial[h], n, sent)
    BY <1>2, <1>3, <1>4, <1>5, <2>2, OwnArrives, AliveArePackets
  <2>4. \/ task'.cid # cid'[h]
        \/ /\ task'.cid = cid'[h] /\ task'.serial = serial'[h]
           /\ task'.sent > 0 /\ task'.conts = n
    BY <1>5, <1>6, <2>1, <2>2
  <2> QED
    BY <2>1, <2>2, <2>3, <2>4 DEF Answering
<1>8. ~Answering(h)
  BY <1>1 DEF Answering
<1>9. task'.cid \in {NoChannel, cid[h]} /\ ~(task'.cid = cid[h] /\ task'.sent = 0)
  BY <1>5, <1>6
<1> QED
  BY <1>1, <1>2, <1>3, <1>4, <1>7, <1>8, <1>9, OwnStep

LEMMA ContinuesOwn ==
    ASSUME Typed, Typed', NEW h \in Hosts, Sound(h), state[h] \in Joined,
           task.cid = cid[h], TokenContinues
    PROVE  Sound(h)'
<1> DEFINE r == [Blank EXCEPT !.cid = task.cid, !.cmd = "CONT",
                              !.seq = task.sent - 1, !.serial = task.serial]
<1>1. task # Free /\ task.sent > 0 /\ inbox' = Heard(r)
      /\ task' = (IF task.sent = task.conts THEN Free ELSE [task EXCEPT !.sent = @ + 1])
      /\ UNCHANGED <<connection, top, requests, runs>>
  BY DEF TokenContinues, bounds
<1>2. task \in Task /\ task.cid \in Channels /\ task.serial \in 0..MaxRequests
      /\ task.conts \in 0..MaxConts /\ task.sent \in 1..MaxConts /\ task.sent <= task.conts
  BY <1>1, PendingTask
<1>3. r \in Report
  <2>1. task.sent - 1 \in 0..MaxConts /\ "CBOR" \in Commands
    BY <1>2, HidAssumption DEF Commands
  <2> QED
    BY <1>2, <2>1, AnswersAreReports
<1>4. /\ r.cid = cid[h] /\ r.nonce = 0 /\ r.cmd = "CONT" /\ r.seq = task.sent - 1
      /\ r.serial = task.serial
  BY DEF Blank
<1> HIDE DEF r
<1>5. inbox'[h] = inbox[h] \/ inbox'[h] = Append(inbox[h], r)
  BY <1>1, HeardAt
<1>6. inbox[h] \in Seq(Report) /\ cid[h] # NoChannel
  BY Numbers, JoinedChannel, ChannelsAreNumbers
<1>7. /\ task.sent = task.conts => task'.cid = NoChannel
      /\ task.sent # task.conts => /\ task'.cid = task.cid /\ task'.sent = task.sent + 1
                                   /\ task'.conts = task.conts /\ task'.serial = task.serial
  BY <1>1, <1>2 DEF Free, Task
<1>8. ASSUME Answering(h)
      PROVE  Answering(h)'
  <2>1. UNCHANGED <<cid, cmd, asm, serial>>
    BY <1>1 DEF connection
  <2>2. PICK n \in 0..MaxConts :
            /\ \/ task.cid # cid[h]
               \/ /\ task.cid = cid[h] /\ task.serial = serial[h]
                  /\ task.sent > 0 /\ task.conts = n
            /\ Packets(inbox[h], cid[h], cmd[h], serial[h], n,
                       IF task.cid = cid[h] THEN task.sent ELSE n + 1)
            /\ asm[h].active =>
                   /\ asm[h].need = n /\ asm[h].from = {serial[h]}
                   /\ OnlyConts(inbox[h], cid[h])
    BY <1>8 DEF Answering
  <2>3. n \in Nat /\ task.sent \in Nat \ {0} /\ task.sent <= n /\ cmd[h] \in Commands
    BY <1>2, <2>2, HidAssumption DEF Typed, Connections
  <2>4. Packets(inbox[h], cid[h], cmd[h], serial[h], n, task.sent) /\ task.serial = serial[h]
        /\ task.conts = n
    BY <2>2
  <2>5. /\ Packets(Append(inbox[h], r), cid[h], cmd[h], serial[h], n, task.sent + 1)
        /\ OnlyConts(inbox[h], cid[h]) => OnlyConts(Append(inbox[h], r), cid[h])
    <3>1. r.serial = serial[h]
      BY <1>4, <2>4
    <3> QED
      BY <1>3, <1>4, <1>6, <2>3, <2>4, <3>1, PacketArrives
  <2>6. /\ Packets(inbox'[h], cid[h], cmd[h], serial[h], n, task.sent + 1)
        /\ OnlyConts(inbox[h], cid[h]) => OnlyConts(inbox'[h], cid[h])
    BY <1>5, <1>6, <2>3, <2>4, <2>5, MoreIsSent
  <2>7. /\ \/ task'.cid # cid'[h]
           \/ /\ task'.cid = cid'[h] /\ task'.serial = serial'[h]
              /\ task'.sent > 0 /\ task'.conts = n
        /\ (IF task'.cid = cid'[h] THEN task'.sent ELSE n + 1) = task.sent + 1
    BY <1>6, <1>7, <2>1, <2>3, <2>4
  <2> QED
    BY <2>1, <2>2, <2>6, <2>7 DEF Answering
<1>9. ~Asked(h)
  BY <1>1 DEF Asked
<1>10. task'.cid \in {NoChannel, cid[h]} /\ ~(task'.cid = cid[h] /\ task'.sent = 0)
  BY <1>2, <1>6, <1>7
<1> QED
  BY <1>1, <1>3, <1>4, <1>5, <1>8, <1>9, <1>10, OwnStep

LEMMA RefusesOwn ==
    ASSUME Typed, Typed', NEW h \in Hosts, Sound(h), state[h] \in Joined,
           task.cid = cid[h], TokenRefuses
    PROVE  Sound(h)'
<1> DEFINE r == [Blank EXCEPT !.cid = task.cid, !.cmd = "ERROR"]
<1>1. r \in Report
  BY PendingTask, ErrorsAreReports DEF TokenRefuses
<1>2. r.cid = cid[h] /\ r.nonce = 0 /\ r.cmd = "ERROR"
  BY DEF Blank
<1>3. /\ inbox' = Heard(r) /\ task' = Free /\ UNCHANGED <<connection, requests, runs, top>>
      /\ task.sent = 0
  BY DEF TokenRefuses, bounds
<1> HIDE DEF r
<1>4. inbox'[h] = inbox[h] \/ inbox'[h] = Append(inbox[h], r)
  BY <1>3, HeardAt
<1>5. inbox[h] \in Seq(Report) /\ cid[h] # NoChannel /\ task'.cid = NoChannel
  BY <1>3, Numbers, JoinedChannel, ChannelsAreNumbers DEF Free
<1>6. ASSUME Asked(h)
      PROVE  TurnedDown(h)' \/ Answering(h)'
  <2>1. UNCHANGED <<cid, cmd, asm, serial>>
    BY <1>3 DEF connection
  <2>2. ~asm[h].active /\ OnlyAlive(inbox[h], cid[h])
    BY <1>6 DEF Asked
  <2>3. CASE inbox'[h] = inbox[h]
    <3>1. 0 \in 0..MaxConts
      BY HidAssumption
    <3>2. \A sent : Packets(inbox'[h], cid[h], cmd[h], serial[h], 0, sent)
      BY <2>2, <2>3, AliveArePackets
    <3> QED
      BY <1>5, <2>1, <2>2, <3>1, <3>2 DEF Answering
  <2>4. CASE inbox'[h] = Append(inbox[h], r)
    <3>1. Declined(inbox'[h], cid[h], {"ERROR"})
      BY <1>1, <1>2, <1>5, <2>2, <2>4, OwnArrives
    <3> QED
      BY <1>5, <2>1, <2>2, <3>1 DEF TurnedDown
  <2> QED
    BY <1>4, <2>3, <2>4
<1>7. ~Answering(h)
  BY <1>3 DEF Answering
<1> QED
  BY <1>1, <1>2, <1>3, <1>4, <1>5, <1>6, <1>7, OwnStep

\* The token or the other software does something that is not of the channel.
LEMMA ForeignReport ==
    ASSUME Typed, Typed', NEW h \in Hosts, Sound(h),
           UNCHANGED <<connection, requests, runs>>, top <= top',
           NEW r \in Report, r.nonce = 0, r.cid # cid[h],
           inbox'[h] = inbox[h] \/ inbox'[h] = Append(inbox[h], r),
           state[h] = "closed" => inbox'[h] = inbox[h],
           r.cid \in {Broadcast, RivalChannel, task.cid},
           task'.cid \in {NoChannel, RivalChannel, task.cid},
           task' = task
               \/ (state[h] \in Joined => task.cid # cid[h] /\ task'.cid # cid[h])
    PROVE  Sound(h)'
<1>1. inbox[h] \in Seq(Report) /\ top \in Nat /\ top >= 1 /\ top' \in Nat /\ task.cid \in Nat
      /\ requests <= requests'
  BY Numbers, HidAssumption DEF Typed, Device, Channels
<1>2. Kept(inbox[h], inbox'[h], cid[h]) /\ StillDeclined(inbox[h], inbox'[h], cid[h])
  BY <1>1, ForeignKeeps
<1>3. Newest(h, r)
  BY NewestReports
<1>4. Same(h) /\ UNCHANGED <<cid, runs>>
  BY DEF Same, connection
<1>5. Offered(h)'
  BY <1>1, <1>3, <1>4, OfferStands DEF Sound
<1>6. task.cid <= top
  BY DEF Sound, Below
<1>7. r.cid <= top' \/ r.cid = Broadcast
  BY <1>1, <1>6 DEF RivalChannel
<1>8. task'.cid <= top' \/ task'.cid = task.cid
  BY <1>1 DEF NoChannel, RivalChannel
<1> QED
  BY <1>1, <1>2, <1>3, <1>4, <1>5, <1>7, <1>8, Elsewhere

LEMMA TokenStepIsSound ==
    ASSUME Typed, Typed', NEW h \in Hosts, Sound(h), Token
    PROVE  Sound(h)'
<1>1. cid[h] \in {NoChannel} \cup Channels /\ cid[h] # Broadcast /\ top <= top
      /\ (state[h] \in Joined => cid[h] # RivalChannel /\ cid[h] # NoChannel)
  <2>1. cid[h] \in {NoChannel} \cup Channels /\ top \in Nat
    BY Numbers DEF Typed, Connections
  <2> QED
    BY <2>1, ChannelsAreNumbers DEF Sound, Offered, Typed, Connected
<1>2. CASE TokenKeepsAlive
  <2> DEFINE r == [Blank EXCEPT !.cid = task.cid, !.cmd = "KEEPALIVE"]
  <2>1. r \in Report /\ task.cid \in Channels
    BY <1>2, PendingTask, ErrorsAreReports DEF TokenKeepsAlive
  <2>2. r.cid = task.cid /\ r.nonce = 0
    BY DEF Blank
  <2>3. inbox' = Heard(r) /\ task' = task /\ UNCHANGED <<connection, requests, runs, top>>
    BY <1>2 DEF TokenKeepsAlive, bounds
  <2> HIDE DEF r
  <2>4. CASE task.cid = cid[h]
    <3>1. state[h] \in Joined
      BY <2>1, <2>4, ChannelsAreNumbers DEF Typed, Connected
    <3> QED
      BY <1>2, <2>4, <3>1, KeepsAliveOwn
  <2>5. CASE task.cid # cid[h]
    BY <1>1, <2>1, <2>2, <2>3, <2>5, HeardAt, ForeignReport
  <2> QED
    BY <2>4, <2>5
<1>3. ASSUME NEW n \in 0..MaxConts, TokenAnswers(n)
      PROVE  Sound(h)'
  <2> DEFINE r == [Blank EXCEPT !.cid = task.cid, !.cmd = task.cmd,
                                !.conts = n, !.serial = task.serial]
  <2>1. r \in Report /\ task.cid \in Channels /\ task \in Task
    BY <1>3, PendingTask, AnswersAreReports DEF TokenAnswers
  <2>2. r.cid = task.cid /\ r.nonce = 0
    BY DEF Blank
  <2>3. inbox' = Heard(r) /\ UNCHANGED <<connection, requests, runs, top>>
    BY <1>3 DEF TokenAnswers, bounds
  <2>4. task'.cid \in {NoChannel, task.cid}
    BY <1>3, <2>1 DEF TokenAnswers, Free, Task
  <2> HIDE DEF r
  <2>5. CASE task.cid = cid[h]
    <3>1. state[h] \in Joined
      BY <2>1, <2>5, ChannelsAreNumbers DEF Typed, Connected
    <3> QED
      BY <1>3, <2>5, <3>1, AnswersOwn
  <2>6. CASE task.cid # cid[h]
    BY <1>1, <2>1, <2>2, <2>3, <2>4, <2>6, HeardAt, ForeignReport
  <2> QED
    BY <2>5, <2>6
<1>4. CASE TokenContinues
  <2> DEFINE r == [Blank EXCEPT !.cid = task.cid, !.cmd = "CONT",
                                !.seq = task.sent - 1, !.serial = task.serial]
  <2>1. task.cid \in Channels /\ task \in Task /\ task.serial \in 0..MaxRequests
        /\ task.conts \in 0..MaxConts /\ task.sent \in 1..MaxConts
    BY <1>4, PendingTask DEF TokenContinues
  <2>2. r \in Report
    <3>1. task.sent - 1 \in 0..MaxConts /\ "CBOR" \in Commands
      BY <2>1, HidAssumption DEF Commands
    <3> QED
      BY <2>1, <3>1, AnswersAreReports
  <2>3. r.cid = task.cid /\ r.nonce = 0
    BY DEF Blank
  <2>4. inbox' = Heard(r) /\ UNCHANGED <<connection, requests, runs, top>>
    BY <1>4 DEF TokenContinues, bounds
  <2>5. task'.cid \in {NoChannel, task.cid}
    BY <1>4, <2>1 DEF TokenContinues, Free, Task
  <2> HIDE DEF r
  <2>6. CASE task.cid = cid[h]
    <3>1. state[h] \in Joined
      BY <2>1, <2>6, ChannelsAreNumbers DEF Typed, Connected
    <3> QED
      BY <1>4, <2>6, <3>1, ContinuesOwn
  <2>7. CASE task.cid # cid[h]
    BY <1>1, <2>2, <2>3, <2>4, <2>5, <2>7, HeardAt, ForeignReport
  <2> QED
    BY <2>6, <2>7
<1>5. CASE TokenRefuses
  <2> DEFINE r == [Blank EXCEPT !.cid = task.cid, !.cmd = "ERROR"]
  <2>1. r \in Report /\ task.cid \in Channels
    BY <1>5, PendingTask, ErrorsAreReports DEF TokenRefuses
  <2>2. r.cid = task.cid /\ r.nonce = 0
    BY DEF Blank
  <2>3. inbox' = Heard(r) /\ task' = Free /\ UNCHANGED <<connection, requests, runs, top>>
    BY <1>5 DEF TokenRefuses, bounds
  <2>4. task'.cid = NoChannel
    BY <2>3 DEF Free
  <2> HIDE DEF r
  <2>5. CASE task.cid = cid[h]
    <3>1. state[h] \in Joined
      BY <2>1, <2>5, ChannelsAreNumbers DEF Typed, Connected
    <3> QED
      BY <1>5, <2>5, <3>1, RefusesOwn
  <2>6. CASE task.cid # cid[h]
    BY <1>1, <2>1, <2>2, <2>3, <2>4, <2>6, HeardAt, ForeignReport
  <2> QED
    BY <2>5, <2>6
<1>6. CASE RivalInit
  <2> DEFINE r == [Blank EXCEPT !.chan = top']
  <2>1. r \in Report
    <3>1. 0 \in 0..MaxHandshakes /\ top' \in Channels
      BY HidAssumption DEF Typed, Device
    <3> QED
      BY <3>1, ChannelsAreNumbers, HandshakesAreReports
  <2>2. r.cid = Broadcast /\ r.nonce = 0
    BY DEF Blank
  <2>3. inbox' = Heard(r) /\ task' = task /\ UNCHANGED <<connection, requests, runs>>
        /\ top' = top + 1
    BY <1>6 DEF RivalInit
  <2>4. top <= top'
    BY <2>3, Numbers
  <2> HIDE DEF r
  <2> QED
    BY <1>1, <2>1, <2>2, <2>3, <2>4, HeardAt, ForeignReport
<1>7. CASE RivalRequest
  <2>1. TokenTakes(RivalChannel, "CBOR", 0) /\ UNCHANGED <<connection, top, requests>>
    BY <1>7 DEF RivalRequest
  <2>2. CASE task = Free
    <3>1. inbox' = inbox /\ task'.cid = RivalChannel /\ runs' = runs
      <4>1. \A t \in 1..MaxRequests : t # 0
        BY HidAssumption
      <4>2. runs \in [1..MaxRequests -> 0..2]
        BY DEF Typed, Device
      <4>3. runs' = [t \in 1..MaxRequests |->
                     IF t = 0 /\ runs[t] < 2 THEN runs[t] + 1 ELSE runs[t]]
        BY <2>1, <2>2 DEF TokenTakes
      <4>4. runs' = [t \in 1..MaxRequests |-> runs[t]]
        BY <4>1, <4>3
      <4> QED
        BY <2>1, <2>2, <4>2, <4>4 DEF TokenTakes, Free
    <3>2. Blank \in Report /\ Blank.cid = Broadcast /\ Blank.nonce = 0 /\ Free.cid = NoChannel
      BY NothingIsTyped DEF Blank, Free
    <3> QED
      BY <1>1, <2>1, <2>2, <3>1, <3>2, ForeignReport
  <2>3. CASE task # Free
    <3> DEFINE r == [Blank EXCEPT !.cid = RivalChannel, !.cmd = "BUSY"]
    <3>1. inbox' = Heard(r) /\ UNCHANGED <<task, runs>>
      BY <2>1, <2>3 DEF TokenTakes
    <3>2. r \in Report /\ r.cid = RivalChannel /\ r.nonce = 0
      BY ChannelsAreNumbers, ErrorsAreReports DEF Blank
    <3> HIDE DEF r
    <3>3. CASE cid[h] # RivalChannel
      BY <1>1, <2>1, <3>1, <3>2, <3>3, HeardAt, ForeignReport
    <3>4. CASE cid[h] = RivalChannel
      BY <1>1, <3>4, ChannelsAreNumbers DEF Typed, Connected
    <3> QED
      BY <3>3, <3>4
  <2> QED
    BY <2>2, <2>3
<1>8. CASE RivalCancels
  <2>1. task'.cid = RivalChannel /\ task.cid = RivalChannel
        /\ UNCHANGED <<connection, inbox, top, requests, runs>>
    <3>1. task \in Task
      BY DEF Typed, Device
    <3> QED
      BY <1>8, <3>1 DEF RivalCancels, Cancelled, Task, bounds
  <2>2. Blank \in Report /\ Blank.cid = Broadcast /\ Blank.nonce = 0
    BY NothingIsTyped DEF Blank
  <2> QED
    BY <1>1, <2>1, <2>2, ForeignReport
<1> QED
  BY <1>2, <1>3, <1>4, <1>5, <1>6, <1>7, <1>8 DEF Token

-----------------------------------------------------------------------------
(* Steps of the connection: reports it takes without a consequence, and    *)
(* operations that fail.                                                   *)

LEMMA BlankReport ==
    Blank \in Report /\ Blank.cid = Broadcast /\ Blank.nonce = 0 /\ Free.cid = NoChannel
BY NothingIsTyped DEF Blank, Free

LEMMA PopAt ==
    ASSUME Typed, NEW h \in Hosts, Mail(h), Pop(h)
    PROVE  inbox[h] # <<>> /\ inbox'[h] = Tail(inbox[h]) /\ Report1(h) = Head(inbox[h])
BY DEF Typed, Queues, Mail, Pop, Report1

LEMMA LeavesAt ==
    ASSUME Typed, NEW h \in Hosts, NEW s, NEW why, Leaves(h, s, why)
    PROVE  state'[h] = s /\ end'[h] = why /\ asm'[h] = NoMessage
BY DEF Typed, Connections, Leaves, Enter

LEMMA SkipStep ==
    ASSUME Typed, Typed', NEW h \in Hosts, Sound(h), Mail(h), Pop(h),
           UNCHANGED <<connection, token, bounds>>,
           state[h] = "waiting" =>
               ~(Report1(h).cid = cid[h] /\ Report1(h).cmd \in {"BUSY", "ERROR"})
    PROVE  Sound(h)'
<1>1. inbox[h] # <<>> /\ inbox'[h] = Tail(inbox[h]) /\ Report1(h) = Head(inbox[h])
  BY PopAt
<1>2. inbox[h] \in Seq(Report) /\ top <= top /\ top \in Nat /\ cid[h] # Broadcast
      /\ requests <= requests /\ cid[h] \in Nat
  BY Numbers, ChannelsAreNumbers, HidAssumption DEF Typed, Device, Connections
<1>3. /\ Kept(inbox[h], inbox'[h], cid[h])
      /\ state[h] = "waiting" => StillDeclined(inbox[h], inbox'[h], cid[h])
  BY <1>1, <1>2, TailKeeps
<1>4. Newest(h, Blank)
  BY <1>1, BlankReport, NewestReports
<1>5. Same(h) /\ UNCHANGED <<cid, task, top, runs, requests>> /\ state[h] # "closed"
  BY <1>1 DEF Same, connection, token, bounds, Sound, Resting
<1>6. Offered(h)'
  BY <1>2, <1>4, <1>5, BlankReport, OfferStands DEF Sound
<1> QED
  BY <1>2, <1>3, <1>4, <1>5, <1>6, BlankReport, Elsewhere

\* Nothing is written.
LEMMA SilentBelow ==
    ASSUME Typed, Typed', NEW h \in Hosts, Below(h),
           inbox'[h] = inbox[h] \/ (inbox[h] # <<>> /\ inbox'[h] = Tail(inbox[h])),
           UNCHANGED <<nonce, top>>, task'.cid \in {task.cid, NoChannel},
           cid'[h] = cid[h] \/ (cid'[h] <= top /\ NoneOf(inbox[h], cid'[h]))
    PROVE  Below(h)'
<1>1. Newest(h, Blank)
  BY BlankReport, NewestReports
<1>2. top \in Nat /\ nonce[h] \in Nat /\ 0 <= nonce[h]
  BY Numbers
<1>3. task'.cid = task.cid \/ task'.cid <= top
  BY <1>2 DEF NoChannel
<1> QED
  BY <1>1, <1>2, <1>3, BlankReport, BelowStep

\* An operation fails; the connection may have reports queued from now on.
LEMMA FailStep ==
    ASSUME Typed, Typed', NEW h \in Hosts, Sound(h), state[h] \in Joined,
           NEW why, why # "response", Leaves(h, "idle", why), dirty'[h],
           serial'[h] \in {serial[h], 0}, UNCHANGED <<cid, nonce, top, runs, requests>>,
           inbox'[h] = inbox[h] \/ (inbox[h] # <<>> /\ inbox'[h] = Tail(inbox[h])),
           task'.cid = task.cid,
           Relieved(h)'
    PROVE  Sound(h)'
<1>1. state'[h] = "idle" /\ end'[h] = why /\ asm'[h] = NoMessage
  BY LeavesAt
<1>2. Below(h)'
  BY SilentBelow DEF Sound
<1>3. Offered(h)'
  BY <1>1 DEF Sound, Offered
<1>4. Resting(h)'
  <2>1. 0 <= requests
    BY HidAssumption DEF Typed, Device
  <2> QED
    BY <1>1, <2>1 DEF Sound, Resting
<1>5. Purged(h)' /\ Expecting(h)' /\ Settled(h)' /\ Matched(h)' /\ Once(h)'
  BY <1>1 DEF Purged, Expecting, Settled, Matched, Once
<1> QED
  BY <1>2, <1>3, <1>4, <1>5 DEF Sound

LEMMA CancelledAt ==
    ASSUME Typed, NEW c, task' = task \/ task' = Cancelled(c)
    PROVE  /\ task'.cid = task.cid /\ task'.cmd = task.cmd /\ task'.sent = task.sent
           /\ task' = Cancelled(c) /\ task.cid = c /\ task.cmd = "CBOR" => task'.cancelled
<1>1. task \in Task
  BY DEF Typed, Device
<1> QED
  BY <1>1 DEF Cancelled, Task

\* exchange cancels a CBOR transaction whatever the error.
LEMMA GiveUpStep ==
    ASSUME Typed, Typed', NEW h \in Hosts, Sound(h), state[h] \in Joined,
           NEW k, NEW why, why # "response", GiveUp(h, k, why), cmd'[h] = k,
           serial'[h] \in {serial[h], 0}, UNCHANGED <<cid, nonce, top, runs, requests>>,
           inbox'[h] = inbox[h] \/ (inbox[h] # <<>> /\ inbox'[h] = Tail(inbox[h]))
    PROVE  Sound(h)'
<1>1. PICK w \in {why, "lost"} :
          /\ Leaves(h, "idle", w)
          /\ task' = task \/ task' = Cancelled(cid[h])
          /\ k = "CBOR" /\ w # "lost" => task' = Cancelled(cid[h])
  BY AbandonsAs DEF GiveUp
<1>2. dirty'[h] /\ end'[h] = w /\ w # "response"
  BY <1>1, LeavesAt DEF GiveUp, Typed, Connections
<1>3. /\ task'.cid = task.cid /\ task'.cmd = task.cmd /\ task'.sent = task.sent
      /\ task' = Cancelled(cid[h]) /\ task.cid = cid[h] /\ task.cmd = "CBOR" => task'.cancelled
  BY <1>1, CancelledAt
<1>4. Relieved(h)'
  BY <1>1, <1>2, <1>3 DEF Relieved
<1> QED
  BY <1>1, <1>2, <1>3, <1>4, FailStep

\* The node is dropped.
LEMMA GoneStep ==
    ASSUME Typed, Typed', NEW h \in Hosts, Sound(h), Gone(h),
           task'.cid = task.cid, UNCHANGED <<top, runs, requests>>
    PROVE  Sound(h)'
<1>1. /\ state'[h] = "closed" /\ end'[h] = "none" /\ asm'[h] = NoMessage
      /\ cid'[h] = NoChannel /\ serial'[h] = 0 /\ ~dirty'[h] /\ inbox'[h] = <<>>
  <2>1. state'[h] = "closed" /\ end'[h] = "none" /\ asm'[h] = NoMessage
    BY LeavesAt DEF Gone
  <2> QED
    BY <2>1 DEF Gone, Typed, Connections, Queues
<1>2. Below(h)'
  <2>1. top \in Nat /\ requests \in Nat
    BY Numbers, HidAssumption DEF Typed, Device
  <2> QED
    BY <1>1, <2>1 DEF Sound, Below, NoChannel
<1>3. Offered(h)' /\ Purged(h)' /\ Expecting(h)' /\ Settled(h)' /\ Matched(h)' /\ Once(h)'
      /\ Relieved(h)'
  BY <1>1 DEF Offered, Joined, Purged, Expecting, Settled, Matched, Once, Relieved
<1>4. Resting(h)'
  <2>1. 0 <= requests
    BY HidAssumption DEF Typed, Device
  <2> QED
    BY <1>1, <2>1 DEF Sound, Resting
<1> QED
  BY <1>2, <1>3, <1>4 DEF Sound

-----------------------------------------------------------------------------
(* Handshakes.                                                             *)

LEMMA ConnectIsSound ==
    ASSUME Typed, Typed', NEW h \in Hosts, Sound(h), \A g \in Hosts : cid[g] <= top,
           Connect(h)
    PROVE  Sound(h)'
<1>1. /\ state[h] = "open" /\ state' = [state EXCEPT ![h] = "opening"]
      /\ nonce' = [nonce EXCEPT ![h] = @ + 1]
      /\ UNCHANGED <<cid, cmd, asm, left, end, serial, serves, dirty, task, runs, requests>>
  BY DEF Connect, Enter, bounds
<1>2. state'[h] = "opening" /\ nonce[h] = 0 /\ nonce'[h] = 1 /\ cid[h] = NoChannel
  BY <1>1 DEF Typed, Connections, Connected, Joined
<1>3. /\ top \in Nat /\ top >= 1 /\ top <= MaxChannels /\ inbox[h] \in Seq(Report)
      /\ task.cid \in Nat
  BY Numbers, HidAssumption DEF Channels
<1>4. Resting(h)'
  BY <1>1, <1>2 DEF Sound, Resting
<1>5. Purged(h)' /\ Expecting(h)' /\ Settled(h)' /\ Matched(h)' /\ Once(h)' /\ Relieved(h)'
  BY <1>1, <1>2 DEF Sound, Resting, Purged, Expecting, Settled, Matched, Once, Relieved
<1>6. \A i \in 1..Len(inbox[h]) : inbox[h][i].cid = Broadcast => inbox[h][i].nonce # 1
  BY <1>1 DEF Sound, Offered
<1>7. CASE UNCHANGED <<inbox, top>>
  <2>1. Newest(h, Blank) /\ 0 <= 1
    BY <1>7, BlankReport, NewestReports
  <2>2. Below(h)'
    BY <1>1, <1>2, <1>3, <1>7, <2>1, BlankReport, BelowStep DEF Sound
  <2>3. Offered(h)'
    BY <1>2, <1>6, <1>7 DEF Offered, Joined
  <2> QED
    BY <1>4, <1>5, <2>2, <2>3 DEF Sound
<1>8. ASSUME NEW chan \in {NoChannel, top + 1} \ {MaxChannels + 1},
             inbox' = Heard([Blank EXCEPT !.nonce = nonce'[h], !.chan = chan]),
             top' = IF chan = NoChannel THEN top ELSE chan
      PROVE  Sound(h)'
  <2> DEFINE r == [Blank EXCEPT !.nonce = nonce'[h], !.chan = chan]
  <2>1. chan \in {NoChannel} \cup Channels
    BY <1>3, HidAssumption DEF Channels
  <2>2. r \in Report
    <3>1. nonce'[h] \in 0..MaxHandshakes
      BY DEF Typed, Connections
    <3> QED
      BY <2>1, <3>1, ChannelsAreNumbers, HandshakesAreReports
  <2>3. r.cid = Broadcast /\ r.nonce = 1 /\ r.chan = chan
    BY <1>2 DEF Blank
  <2>4. inbox'[h] = inbox[h] \/ inbox'[h] = Append(inbox[h], r)
    BY <1>8, HeardAt
  <2> HIDE DEF r
  <2>5. Newest(h, r)
    BY <2>2, <2>4, NewestReports
  <2>6. top' \in Nat /\ top <= top'
    BY <1>3, <1>8 DEF NoChannel
  <2>7. Below(h)'
    BY <1>1, <1>2, <2>2, <2>3, <2>5, <2>6, BelowStep DEF Sound
  <2>8. ASSUME NEW i \in 1..Len(inbox'[h]), inbox'[h][i].cid = Broadcast,
               inbox'[h][i].nonce = nonce'[h], inbox'[h][i].chan # NoChannel
        PROVE  /\ inbox'[h][i].chan # RivalChannel /\ inbox'[h][i].chan <= top'
               /\ task'.cid # inbox'[h][i].chan /\ NoneOf(inbox'[h], inbox'[h][i].chan)
               /\ \A g \in Hosts : cid'[g] # inbox'[h][i].chan
    <3>1. inbox'[h][i] = r
      BY <1>2, <1>6, <2>5, <2>8 DEF Newest
    <3>2. chan = top + 1 /\ top' = chan
      BY <1>8, <2>3, <2>8, <3>1
    <3>3. task.cid < chan /\ chan # Broadcast /\ chan # RivalChannel
      <4>1. task.cid <= top /\ chan # MaxChannels + 1
        BY <1>8 DEF Sound, Below
      <4> QED
        BY <1>3, <3>2, <4>1 DEF RivalChannel, Broadcast
    <3>4. \A j \in 1..Len(inbox[h]) : inbox[h][j].cid # chan
      <4>1. \A j \in 1..Len(inbox[h]) : inbox[h][j].cid <= top \/ inbox[h][j].cid = Broadcast
        BY DEF Sound, Below
      <4>2. \A j \in 1..Len(inbox[h]) : inbox[h][j].cid \in Nat
        BY Numbers
      <4> QED
        BY <1>3, <3>2, <3>3, <4>1, <4>2
    <3>5. NoneOf(inbox'[h], chan)
      BY <2>3, <2>5, <3>3, <3>4 DEF NoneOf, Newest
    <3>6. \A g \in Hosts : cid'[g] # chan
      <4>1. \A g \in Hosts : cid[g] \in Nat /\ cid[g] <= top
        BY Numbers
      <4> QED
        BY <1>1, <1>3, <3>2, <4>1
    <3> QED
      BY <1>1, <1>3, <2>3, <3>1, <3>2, <3>3, <3>5, <3>6
  <2>9. Offered(h)'
    BY <1>2, <2>8 DEF Offered, Joined
  <2> QED
    BY <1>4, <1>5, <2>7, <2>9 DEF Sound
<1> QED
  BY <1>7, <1>8 DEF Connect

LEMMA ResyncIsSound ==
    ASSUME Typed, Typed', NEW h \in Hosts, Sound(h), Resync(h)
    PROVE  Sound(h)'
<1>1. /\ state[h] = "idle" /\ state' = [state EXCEPT ![h] = "resyncing"]
      /\ end' = [end EXCEPT ![h] = "none"] /\ serial' = [serial EXCEPT ![h] = 0]
      /\ nonce' = [nonce EXCEPT ![h] = @ + 1] /\ dirty' = [dirty EXCEPT ![h] = TRUE]
      /\ task' = (IF task.cid = cid[h] THEN Free ELSE task)
      /\ UNCHANGED <<cid, cmd, asm, top, runs, requests>>
  BY DEF Resync, Starts, Enter, bounds
<1>2. /\ state'[h] = "resyncing" /\ end'[h] = "none" /\ serial'[h] = 0 /\ dirty'[h]
      /\ nonce'[h] = nonce[h] + 1
  BY <1>1 DEF Typed, Connections
<1>3. cid[h] \in Channels /\ cid[h] # NoChannel /\ cid[h] # Broadcast
  BY <1>1, JoinedChannel, ChannelsAreNumbers DEF Joined
<1>4. top \in Nat /\ nonce[h] \in Nat /\ inbox[h] \in Seq(Report) /\ requests \in Nat
  BY Numbers, HidAssumption DEF Typed, Device
<1> DEFINE r == [Blank EXCEPT !.cid = cid[h], !.nonce = nonce'[h], !.chan = cid[h]]
<1>5. r \in Report
  <2>1. nonce'[h] \in 0..MaxHandshakes
    BY DEF Typed, Connections
  <2> QED
    BY <1>3, <2>1, HandshakesAreReports
<1>6. r.cid = cid[h] /\ r.nonce = nonce'[h]
  BY DEF Blank
<1>7. inbox'[h] = inbox[h] \/ inbox'[h] = Append(inbox[h], r)
  <2>1. inbox' = Heard(r) \/ inbox' = inbox
    BY DEF Resync
  <2> QED
    BY <2>1, HeardAt
<1> HIDE DEF r
<1>8. Below(h)'
  <2>1. Newest(h, r)
    BY <1>5, <1>7, NewestReports
  <2>2. task'.cid <= top' \/ task'.cid = task.cid
    BY <1>1, <1>4, BlankReport DEF NoChannel
  <2>3. r.cid <= top
    BY <1>6 DEF Sound, Below
  <2> QED
    BY <1>1, <1>2, <1>4, <1>5, <1>6, <2>1, <2>2, <2>3, BelowStep DEF Sound
<1>9. Offered(h)'
  BY <1>1, <1>2 DEF Sound, Offered, Joined
<1>10. Purged(h)'
  <2>1. task'.cid # cid[h]
    BY <1>1, <1>3, BlankReport
  <2>2. \A i \in 1..Len(inbox[h]) : inbox[h][i].cid = cid[h] => inbox[h][i].nonce # nonce'[h]
    BY <1>2, <1>4, Numbers DEF Sound, Below
  <2>3. LastOfAll(inbox'[h], cid[h], nonce'[h])
    <3>1. CASE inbox'[h] = inbox[h]
      BY <2>2, <3>1 DEF LastOfAll
    <3>2. CASE inbox'[h] = Append(inbox[h], r)
      <4> DEFINE p == Append(inbox[h], r)
      <4>1. /\ Len(p) = Len(inbox[h]) + 1 /\ Len(inbox[h]) \in Nat
            /\ \A i \in 1..Len(inbox[h]) : p[i] = inbox[h][i]
            /\ 1..Len(p) = (1..Len(inbox[h])) \cup {Len(inbox[h]) + 1}
        BY <1>4, <1>5, AppendAt
      <4> HIDE DEF p
      <4>2. \A i, j \in 1..Len(p) : p[i].cid = cid[h] /\ p[i].nonce = nonce'[h] => ~(i < j)
        BY <2>2, <4>1
      <4> QED
        BY <3>2, <4>2 DEF LastOfAll, p
    <3> QED
      BY <1>7, <3>1, <3>2
  <2> QED
    BY <1>1, <1>2, <2>1, <2>3 DEF Purged
<1>11. Resting(h)'
  BY <1>1, <1>2, <1>4 DEF Sound, Resting
<1>12. Expecting(h)' /\ Settled(h)' /\ Matched(h)' /\ Once(h)' /\ Relieved(h)'
  BY <1>2 DEF Expecting, Settled, Matched, Once, Relieved
<1> QED
  BY <1>8, <1>9, <1>10, <1>11, <1>12 DEF Sound

\* The offered channel is free of everything when it is taken.
LEMMA AllocateIsSound ==
    ASSUME Typed, Typed', NEW h \in Hosts, Sound(h), Allocate(h)
    PROVE  Sound(h)'
<1> DEFINE c == Report1(h).chan
<1>1. /\ state[h] = "opening" /\ Mail(h) /\ Pop(h) /\ NonceMatches(h) /\ LooksInit(h)
      /\ c # NoChannel /\ Leaves(h, "idle", "ok") /\ cid' = [cid EXCEPT ![h] = c]
      /\ UNCHANGED <<nonce, cmd, serial, serves, dirty, task, top, runs, requests>>
  BY DEF Allocate, token, bounds
<1>2. inbox[h] # <<>> /\ inbox'[h] = Tail(inbox[h]) /\ Report1(h) = Head(inbox[h])
  BY <1>1, PopAt
<1>3. inbox[h] \in Seq(Report) /\ top \in Nat
  BY Numbers
<1>4. 1 \in 1..Len(inbox[h]) /\ Report1(h) = inbox[h][1]
  BY <1>2, <1>3, TailAt
<1>5. c # RivalChannel /\ c <= top /\ task.cid # c /\ NoneOf(inbox[h], c)
  BY <1>1, <1>4 DEF LooksInit, NonceMatches, Sound, Offered
<1>6. state'[h] = "idle" /\ end'[h] = "ok" /\ asm'[h] = NoMessage
  BY <1>1, LeavesAt
<1>7. cid'[h] = c
  BY <1>1 DEF Typed, Connections
<1> HIDE DEF c
<1>8. serial[h] = 0
  BY <1>1 DEF Sound, Resting
<1>9. Below(h)'
  BY <1>1, <1>2, <1>5, <1>7, SilentBelow DEF Sound
<1>10. Offered(h)' /\ Purged(h)' /\ Expecting(h)' /\ Matched(h)' /\ Once(h)' /\ Relieved(h)'
  BY <1>1, <1>5, <1>6, <1>7, <1>8 DEF Offered, Purged, Expecting, Matched, Once, Relieved
<1>11. Resting(h)'
  BY <1>1, <1>6 DEF Sound, Resting
<1>12. Settled(h)'
  BY <1>1, <1>2, <1>3, <1>5, <1>7, FirstGoes DEF Settled, Quiet
<1> QED
  BY <1>9, <1>10, <1>11, <1>12 DEF Sound

\* Nothing of the channel is behind the response to a resync.
LEMMA ResyncedIsSound ==
    ASSUME Typed, Typed', NEW h \in Hosts, Sound(h), Resynced(h)
    PROVE  Sound(h)'
<1>1. /\ state[h] = "resyncing" /\ Mail(h) /\ Pop(h) /\ NonceMatches(h) /\ LooksInit(h)
      /\ Leaves(h, "idle", "ok")
      /\ UNCHANGED <<cid, nonce, cmd, serial, serves, task, top, runs, requests>>
  BY DEF Resynced, token, bounds
<1>2. inbox[h] # <<>> /\ inbox'[h] = Tail(inbox[h]) /\ Report1(h) = Head(inbox[h])
  BY <1>1, PopAt
<1>3. inbox[h] \in Seq(Report)
  BY Numbers
<1>4. Head(inbox[h]).cid = cid[h] /\ Head(inbox[h]).cmd = "INIT"
      /\ Head(inbox[h]).nonce = nonce[h]
  BY <1>1, <1>2 DEF LooksInit, NonceMatches
<1>5. task.cid # cid[h] /\ LastOfAll(inbox[h], cid[h], nonce[h]) /\ serial[h] = 0
  BY <1>1 DEF Sound, Purged
<1>6. state'[h] = "idle" /\ end'[h] = "ok" /\ asm'[h] = NoMessage
  BY <1>1, LeavesAt
<1>7. Below(h)'
  BY <1>1, <1>2, SilentBelow DEF Sound
<1>8. Offered(h)'
  BY <1>1, <1>6 DEF Sound, Offered, Joined
<1>9. Purged(h)' /\ Expecting(h)' /\ Matched(h)' /\ Once(h)' /\ Relieved(h)'
  BY <1>1, <1>5, <1>6 DEF Purged, Expecting, Matched, Once, Relieved
<1>10. Resting(h)'
  BY <1>1, <1>6 DEF Sound, Resting
<1>11. Settled(h)'
  BY <1>1, <1>2, <1>3, <1>4, <1>5, ResponseTaken DEF Settled, Quiet
<1> QED
  BY <1>7, <1>8, <1>9, <1>10, <1>11 DEF Sound

LEMMA HandshakeStepIsSound ==
    ASSUME Typed, Typed', NEW h \in Hosts, Sound(h), \A g \in Hosts : cid[g] <= top,
           \/ Open(h) \/ Connect(h) \/ Resync(h) \/ HandshakeSkips(h) \/ ConnectFails(h)
           \/ ResyncFails(h) \/ Allocate(h) \/ Resynced(h) \/ ResyncExpires(h)
    PROVE  Sound(h)'
<1>1. CASE Open(h)
  <2>1. /\ state[h] = "closed" /\ state' = [state EXCEPT ![h] = "open"]
        /\ end' = [end EXCEPT ![h] = "none"] /\ serial' = [serial EXCEPT ![h] = 0]
        /\ UNCHANGED <<cid, nonce, cmd, asm, inbox, dirty, task, top, runs, requests>>
    BY <1>1 DEF Open, Starts, Enter, token, bounds
  <2>2. state'[h] = "open" /\ end'[h] = "none" /\ serial'[h] = 0
    BY <2>1 DEF Typed, Connections
  <2>3. Below(h)'
    BY <2>1, SilentBelow DEF Sound
  <2>4. Purged(h)' /\ Expecting(h)' /\ Settled(h)' /\ Matched(h)' /\ Once(h)' /\ Relieved(h)'
    BY <2>2 DEF Purged, Expecting, Settled, Matched, Once, Relieved
  <2>6. Offered(h)'
    <3>1. inbox'[h] = <<>>
      BY <2>1 DEF Sound, Resting
    <3> QED
      BY <2>2, <3>1 DEF Offered, Joined
  <2>5. Resting(h)'
    <3>1. 0 <= requests
      BY HidAssumption DEF Typed, Device
    <3> QED
      BY <2>1, <2>2, <3>1 DEF Sound, Resting
  <2> QED
    BY <2>3, <2>4, <2>5, <2>6 DEF Sound
<1>2. CASE HandshakeSkips(h)
  <2>1. state[h] # "waiting"
    BY <1>2 DEF HandshakeSkips, Handshaking
  <2> QED
    BY <1>2, <2>1, SkipStep DEF HandshakeSkips
<1>3. CASE ConnectFails(h)
  BY <1>3, GoneStep DEF ConnectFails, token, bounds
<1>4. CASE ResyncFails(h)
  <2>1. /\ state[h] = "resyncing" /\ Mail(h) /\ Pop(h) /\ Leaves(h, "idle", "failed")
        /\ UNCHANGED <<cid, nonce, serial, dirty, task, top, runs, requests>>
    BY <1>4 DEF ResyncFails, Mismatched, token, bounds
  <2>2. task.cid # cid[h] /\ dirty[h] /\ state[h] \in Joined
    BY <2>1 DEF Sound, Purged, Joined
  <2>3. Relieved(h)'
    BY <2>1, <2>2 DEF Relieved
  <2> QED
    BY <2>1, <2>2, <2>3, PopAt, FailStep
<1>5. CASE ResyncExpires(h)
  <2>1. /\ state[h] = "resyncing" /\ Leaves(h, "idle", "timeout")
        /\ UNCHANGED <<cid, nonce, serial, dirty, inbox, task, top, runs, requests>>
    BY <1>5 DEF ResyncExpires, token, bounds
  <2>2. task.cid # cid[h] /\ dirty[h] /\ state[h] \in Joined
    BY <2>1 DEF Sound, Purged, Joined
  <2>3. Relieved(h)'
    BY <2>1, <2>2 DEF Relieved
  <2> QED
    BY <2>1, <2>2, <2>3, FailStep
<1> QED
  BY <1>1, <1>2, <1>3, <1>4, <1>5, ConnectIsSound, ResyncIsSound, AllocateIsSound,
     ResyncedIsSound

-----------------------------------------------------------------------------
(* Transactions.                                                           *)

\* The request s is written, for the first time or after a busy answer.
LEMMA TakesAt ==
    ASSUME Typed, Typed', NEW h \in Hosts, cid[h] \in Channels, NEW k \in Commands,
           NEW s \in 1..MaxRequests, TokenTakes(cid[h], k, s)
    PROVE  /\ \A t \in 1..MaxRequests : t # s => runs'[t] = runs[t]
           /\ runs'[s] <= runs[s] + 1 /\ runs[s] \in 0..2
           /\ \/ /\ task = Free /\ task'.cid = cid[h] /\ task'.cmd = k /\ task'.serial = s
                 /\ task'.sent = 0 /\ inbox' = inbox
              \/ /\ task' = task /\ runs' = runs
                 /\ \E r \in Report :
                        /\ r.cid = cid[h] /\ r.cmd = "BUSY" /\ r.nonce = 0
                        /\ inbox' = Heard(r)
<1>1. runs \in [1..MaxRequests -> 0..2]
  BY DEF Typed, Device
<1>2. CASE task = Free
  <2>1. /\ task' = [Free EXCEPT !.cid = cid[h], !.cmd = k, !.serial = s] /\ inbox' = inbox
        /\ runs' = [t \in 1..MaxRequests |->
                    IF t = s /\ runs[t] < 2 THEN runs[t] + 1 ELSE runs[t]]
    BY <1>2 DEF TokenTakes
  <2>2. task'.cid = cid[h] /\ task'.cmd = k /\ task'.serial = s /\ task'.sent = 0
    BY <2>1 DEF Free
  <2>3. runs[s] \in 0..2 /\ runs'[s] = (IF runs[s] < 2 THEN runs[s] + 1 ELSE runs[s])
    BY <1>1, <2>1
  <2>4. \A t \in 1..MaxRequests : t # s => runs'[t] = runs[t]
    BY <2>1
  <2> QED
    BY <1>2, <2>1, <2>2, <2>3, <2>4
<1>3. CASE task # Free
  <2> DEFINE r == [Blank EXCEPT !.cid = cid[h], !.cmd = "BUSY"]
  <2>1. inbox' = Heard(r) /\ task' = task /\ runs' = runs
    BY <1>3 DEF TokenTakes
  <2>2. r \in Report /\ r.cid = cid[h] /\ r.cmd = "BUSY" /\ r.nonce = 0
    BY ErrorsAreReports DEF Blank
  <2>3. runs[s] \in 0..2
    BY <1>1
  <2> HIDE DEF r
  <2> QED
    BY <2>1, <2>2, <2>3
<1> QED
  BY <1>2, <1>3

\* On a clean connection it meets a quiet channel.
LEMMA AskedQuietly ==
    ASSUME Typed, Typed', NEW h \in Hosts, cid[h] \in Channels,
           NEW s \in 1..MaxRequests, TokenTakes(cid[h], cmd'[h], s), cid'[h] = cid[h],
           serial'[h] = s, ~asm'[h].active, Quiet(h), runs[s] = 0
    PROVE  Asked(h)' \/ TurnedDown(h)' \/ Answering(h)'
<1>1. cmd'[h] \in Commands /\ inbox[h] \in Seq(Report) /\ OnlyAlive(inbox[h], cid[h])
  BY Numbers, NoneAreAlive DEF Typed, Connections, Quiet
<1>2. CASE /\ task = Free /\ task'.cid = cid[h] /\ task'.cmd = cmd'[h] /\ task'.serial = s
           /\ task'.sent = 0 /\ inbox' = inbox
  BY <1>1, <1>2 DEF Asked
<1>3. ASSUME task' = task, runs' = runs, NEW r \in Report, r.cid = cid[h], r.cmd = "BUSY",
             inbox' = Heard(r)
      PROVE  TurnedDown(h)' \/ Answering(h)'
  <2>1. inbox'[h] = inbox[h] \/ inbox'[h] = Append(inbox[h], r)
    BY <1>3, HeardAt
  <2>2. CASE inbox'[h] = inbox[h]
    <3>1. 0 \in 0..MaxConts
      BY HidAssumption
    <3>2. \A sent : Packets(inbox'[h], cid[h], cmd'[h], s, 0, sent)
      BY <1>1, <2>2, AliveArePackets
    <3> QED
      BY <1>3, <3>1, <3>2 DEF Answering, Quiet
  <2>3. CASE inbox'[h] = Append(inbox[h], r)
    <3>1. Declined(inbox'[h], cid[h], {"BUSY"})
      BY <1>1, <1>3, <2>3, OwnArrives
    <3> QED
      BY <1>3, <3>1 DEF TurnedDown, Quiet
  <2> QED
    BY <2>1, <2>2, <2>3
<1>4. \/ /\ task = Free /\ task'.cid = cid[h] /\ task'.cmd = cmd'[h] /\ task'.serial = s
         /\ task'.sent = 0 /\ inbox' = inbox
      \/ /\ task' = task /\ runs' = runs
         /\ \E r \in Report :
                /\ r.cid = cid[h] /\ r.cmd = "BUSY" /\ r.nonce = 0
                /\ inbox' = Heard(r)
  BY <1>1, TakesAt
<1> QED
  BY <1>2, <1>3, <1>4

\* Whatever the channel is like, the request is written on it alone.
LEMMA TakesBelow ==
    ASSUME Typed, Typed', NEW h \in Hosts, Below(h), cid[h] \in Channels, NEW k \in Commands,
           NEW s \in 1..MaxRequests, TokenTakes(cid[h], k, s), UNCHANGED <<cid, nonce, top>>
    PROVE  Below(h)'
<1>1. top \in Nat /\ nonce[h] \in Nat /\ 0 <= nonce[h] /\ cid[h] <= top /\ top <= top
      /\ nonce[h] <= nonce[h]
  BY Numbers DEF Below
<1>2. CASE task = Free /\ task'.cid = cid[h] /\ inbox' = inbox
  <2>1. Newest(h, Blank)
    BY <1>2, BlankReport, NewestReports
  <2> QED
    BY <1>1, <1>2, <2>1, BlankReport, BelowStep
<1>3. ASSUME task' = task, NEW r \in Report, r.cid = cid[h], r.nonce = 0, inbox' = Heard(r)
      PROVE  Below(h)'
  <2>1. Newest(h, r)
    BY <1>3, HeardAt, NewestReports
  <2> QED
    BY <1>1, <1>3, <2>1, BelowStep
<1> QED
  BY <1>2, <1>3, TakesAt

LEMMA SendIsSound ==
    ASSUME Typed, Typed', NEW h \in Hosts, Sound(h), NEW k \in Commands, Send(h, k)
    PROVE  Sound(h)'
<1> DEFINE s == requests + 1
<1>1. /\ state[h] = "idle" /\ requests < MaxRequests /\ requests' = s
      /\ state' = [state EXCEPT ![h] = "waiting"] /\ end' = [end EXCEPT ![h] = "none"]
      /\ serial' = [serial EXCEPT ![h] = s] /\ cmd' = [cmd EXCEPT ![h] = k]
      /\ TokenTakes(cid[h], k, s) /\ UNCHANGED <<cid, nonce, asm, dirty, top>>
  BY DEF Send, Starts, Enter
<1>2. state'[h] = "waiting" /\ end'[h] = "none" /\ serial'[h] = s /\ cmd'[h] = k
  BY <1>1 DEF Typed, Connections
<1>3. s \in 1..MaxRequests /\ requests \in Nat /\ s # 0 /\ s > requests
  BY <1>1, HidAssumption DEF Typed, Device
<1>4. cid[h] \in Channels
  BY <1>1, JoinedChannel DEF Joined
<1>5. runs[s] = 0 /\ asm[h] = NoMessage
  BY <1>1, <1>3 DEF Sound, Resting
<1>6. (\A t \in 1..MaxRequests : t # s => runs'[t] = runs[t]) /\ runs'[s] <= 1
  BY <1>1, <1>3, <1>4, <1>5, TakesAt
<1> HIDE DEF s
<1>7. Below(h)'
  BY <1>1, <1>3, <1>4, TakesBelow DEF Sound
<1>8. Offered(h)'
  BY <1>1, <1>2 DEF Sound, Offered, Joined
<1>9. Purged(h)' /\ Settled(h)' /\ Matched(h)' /\ Once(h)' /\ Relieved(h)'
  BY <1>2, <1>6 DEF Purged, Settled, Matched, Once, Relieved
<1>10. Resting(h)'
  <2>1. s <= s
    BY <1>3
  <2>2. \A t \in 1..MaxRequests : t > s => t # s /\ t > requests
    BY <1>3
  <2>3. \A t \in 1..MaxRequests : t > s => runs'[t] = 0
    BY <1>6, <2>2 DEF Sound, Resting
  <2> QED
    BY <1>1, <1>2, <1>3, <2>1, <2>3 DEF Resting
<1>11. Expecting(h)'
  <2>1. ASSUME ~dirty[h]
        PROVE  Asked(h)' \/ TurnedDown(h)' \/ Answering(h)'
    <3>1. Quiet(h) /\ ~asm'[h].active
      BY <1>1, <1>5, <2>1 DEF Sound, Settled, NoMessage
    <3> QED
      BY <1>1, <1>2, <1>3, <1>4, <1>5, <3>1, AskedQuietly
  <2> QED
    BY <1>1, <1>2, <2>1 DEF Expecting
<1> QED
  BY <1>7, <1>8, <1>9, <1>10, <1>11 DEF Sound

\* The request goes out again only when the token never took it.
LEMMA ReissueIsSound ==
    ASSUME Typed, Typed', NEW h \in Hosts, Sound(h), Reissues(h)
    PROVE  Sound(h)'
<1> DEFINE s == serial[h]
<1>1. /\ state[h] = "backoff" /\ state' = [state EXCEPT ![h] = "waiting"]
      /\ asm' = [asm EXCEPT ![h] = NoMessage]
      /\ TokenTakes(cid[h], cmd[h], s)
      /\ UNCHANGED <<cid, nonce, cmd, end, serial, serves, dirty, top, requests>>
  BY DEF Reissues, Enter, bounds
<1>2. state'[h] = "waiting" /\ asm'[h] = NoMessage /\ serial'[h] = s
  BY <1>1 DEF Typed, Connections
<1>3. s \in 1..MaxRequests /\ s <= requests /\ requests \in Nat /\ cmd[h] \in Commands
  <2>1. s # 0 /\ s <= requests
    BY <1>1 DEF Sound, Resting
  <2> QED
    BY <2>1, HidAssumption DEF Typed, Connections, Device
<1>4. cid[h] \in Channels
  BY <1>1, JoinedChannel DEF Joined
<1>5. /\ \A t \in 1..MaxRequests : t # s => runs'[t] = runs[t]
      /\ runs'[s] <= runs[s] + 1
  BY <1>1, <1>3, <1>4, TakesAt
<1> HIDE DEF s
<1>6. ~dirty[h] => Quiet(h) /\ runs[s] = 0
  BY <1>1 DEF Sound, Expecting, s
<1>7. Below(h)'
  BY <1>1, <1>3, <1>4, TakesBelow DEF Sound
<1>8. Offered(h)'
  BY <1>1, <1>2 DEF Sound, Offered, Joined
<1>9. Purged(h)' /\ Settled(h)' /\ Relieved(h)'
  BY <1>2 DEF Purged, Settled, Relieved
<1>10. Matched(h)'
  BY <1>1 DEF Sound, Matched
<1>11. Once(h)'
  BY <1>1, <1>2, <1>5, <1>6 DEF Once
<1>12. Resting(h)'
  <2>1. \A t \in 1..MaxRequests : t > requests => t # s
    BY <1>3
  <2>2. \A t \in 1..MaxRequests : t > requests => runs'[t] = 0
    BY <1>5, <2>1 DEF Sound, Resting
  <2> QED
    BY <1>1, <1>2, <1>3, <2>2 DEF Resting
<1>13. Expecting(h)'
  <2>1. ASSUME ~dirty[h]
        PROVE  Asked(h)' \/ TurnedDown(h)' \/ Answering(h)'
    <3>1. ~asm'[h].active /\ TokenTakes(cid[h], cmd'[h], s)
      BY <1>1, <1>2 DEF NoMessage
    <3> QED
      BY <1>1, <1>2, <1>3, <1>4, <1>6, <2>1, <3>1, AskedQuietly
  <2> QED
    BY <1>1, <1>2, <2>1 DEF Expecting
<1> QED
  BY <1>7, <1>8, <1>9, <1>10, <1>11, <1>12, <1>13 DEF Sound

\* The one thing that the token said was that it declines.
LEMMA DeclinedIsTaken ==
    ASSUME Typed, NEW h \in Hosts, Sound(h), state[h] = "waiting", ~dirty[h], Own(h),
           Report1(h).cmd \in {"BUSY", "ERROR"}
    PROVE  /\ NoneOf(Tail(inbox[h]), cid[h]) /\ task.cid # cid[h] /\ ~asm[h].active
           /\ Report1(h).cmd = "BUSY" => runs[serial[h]] = 0
<1>1. inbox[h] \in Seq(Report) /\ inbox[h] # <<>> /\ Report1(h) = Head(inbox[h])
      /\ Head(inbox[h]).cid = cid[h] /\ Head(inbox[h]) = inbox[h][1]
      /\ 1 \in 1..Len(inbox[h])
  <2>1. inbox[h] \in Seq(Report) /\ inbox[h] # <<>>
    BY Numbers DEF Own, Mail
  <2> QED
    BY <2>1, TailAt DEF Own, Report1
<1>2. Report1(h).cmd \notin {"KEEPALIVE", "CONT"} \cup Commands
  BY DEF Commands
<1>3. ~Asked(h)
  BY <1>1, <1>2 DEF Asked, OnlyAlive
<1>4. ~Answering(h)
  <2>1. ASSUME NEW n, NEW sent, Packets(inbox[h], cid[h], cmd[h], serial[h], n, sent)
        PROVE  FALSE
    <3>1. IsPacket(Report1(h), cmd[h], serial[h], n, sent) /\ cmd[h] \in Commands
      BY <1>1, <2>1 DEF Packets, Typed, Connections
    <3> QED
      BY <1>2, <3>1 DEF IsPacket
  <2> QED
    BY <2>1 DEF Answering
<1>5. TurnedDown(h)
  BY <1>3, <1>4 DEF Sound, Expecting
<1>6. \/ Declined(inbox[h], cid[h], {"ERROR"})
      \/ Declined(inbox[h], cid[h], {"BUSY"}) /\ runs[serial[h]] = 0
  BY <1>5 DEF TurnedDown
<1>7. CASE Declined(inbox[h], cid[h], {"ERROR"})
  <2>1. Head(inbox[h]).cmd \in {"ERROR"} /\ NoneOf(Tail(inbox[h]), cid[h])
    BY <1>1, <1>2, <1>7, ErrorTaken
  <2> QED
    BY <1>1, <1>5, <2>1 DEF TurnedDown
<1>8. CASE Declined(inbox[h], cid[h], {"BUSY"}) /\ runs[serial[h]] = 0
  <2>1. NoneOf(Tail(inbox[h]), cid[h])
    BY <1>1, <1>2, <1>8, ErrorTaken
  <2> QED
    BY <1>5, <1>8, <2>1 DEF TurnedDown
<1> QED
  BY <1>6, <1>7, <1>8

LEMMA RefusedIsSound ==
    ASSUME Typed, Typed', NEW h \in Hosts, Sound(h), IsRefused(h)
    PROVE  Sound(h)'
<1>1. /\ state[h] = "waiting" /\ Own(h) /\ Report1(h).cmd = "ERROR"
      /\ Leaves(h, "idle", "refused") /\ Pop(h)
      /\ UNCHANGED <<cid, nonce, cmd, serial, serves, dirty, task, top, runs, requests>>
  BY DEF IsRefused, token, bounds
<1>2. inbox[h] # <<>> /\ inbox'[h] = Tail(inbox[h])
  BY <1>1, PopAt DEF Own
<1>3. state'[h] = "idle" /\ end'[h] = "refused" /\ asm'[h] = NoMessage
  BY <1>1, LeavesAt
<1>4. Below(h)'
  BY <1>1, <1>2, SilentBelow DEF Sound
<1>5. Offered(h)' /\ Resting(h)' /\ Once(h)'
  BY <1>1, <1>3 DEF Sound, Offered, Joined, Resting, Once
<1>6. Purged(h)' /\ Expecting(h)' /\ Matched(h)' /\ Relieved(h)'
  BY <1>3 DEF Purged, Expecting, Matched, Relieved
<1>7. Settled(h)'
  BY <1>1, <1>2, DeclinedIsTaken DEF Settled, Quiet
<1> QED
  BY <1>4, <1>5, <1>6, <1>7 DEF Sound

LEMMA BackoffIsSound ==
    ASSUME Typed, Typed', NEW h \in Hosts, Sound(h), BacksOff(h)
    PROVE  Sound(h)'
<1>1. /\ state[h] = "waiting" /\ Own(h) /\ Report1(h).cmd = "BUSY" /\ Pop(h)
      /\ state' = [state EXCEPT ![h] = "backoff"]
      /\ UNCHANGED <<cid, nonce, cmd, asm, end, serial, serves, dirty, task, top, runs, requests>>
  BY DEF BacksOff, Retryable, Enter, token, bounds
<1>2. inbox[h] # <<>> /\ inbox'[h] = Tail(inbox[h])
  BY <1>1, PopAt DEF Own
<1>3. state'[h] = "backoff"
  BY <1>1 DEF Typed, Connections
<1>4. Below(h)'
  BY <1>1, <1>2, SilentBelow DEF Sound
<1>5. Offered(h)' /\ Resting(h)' /\ Once(h)' /\ Matched(h)'
  BY <1>1, <1>3 DEF Sound, Offered, Joined, Resting, Once, Matched
<1>6. Purged(h)' /\ Settled(h)' /\ Relieved(h)'
  BY <1>3 DEF Purged, Settled, Relieved
<1>7. Expecting(h)'
  BY <1>1, <1>2, <1>3, DeclinedIsTaken DEF Expecting, Quiet
<1> QED
  BY <1>4, <1>5, <1>6, <1>7 DEF Sound

\* Every packet that a clean connection assembles is of its own response, and the
\* last one leaves nothing behind.
LEMMA PacketIsTaken ==
    ASSUME Typed, NEW h \in Hosts, Sound(h), state[h] = "waiting", ~dirty[h], Own(h),
           InSequence(h)
    PROVE  \E n \in 0..MaxConts :
               /\ \/ task.cid # cid[h]
                  \/ /\ task.cid = cid[h] /\ task.serial = serial[h]
                     /\ task.sent > 0 /\ task.conts = n
               /\ Packets(Tail(inbox[h]), cid[h], cmd[h], serial[h], n,
                          IF task.cid = cid[h] THEN task.sent ELSE n + 1)
               /\ Extended(h).need = n /\ Extended(h).from = {serial[h]}
               /\ OnlyConts(Tail(inbox[h]), cid[h])
               /\ ~(Extended(h).next < n) =>
                      task.cid # cid[h] /\ NoneOf(Tail(inbox[h]), cid[h])
<1> DEFINE q == inbox[h]
           r == Report1(h)
<1>1. q \in Seq(Report) /\ q # <<>> /\ r = Head(q) /\ Head(q) \in Report
      /\ Head(q).cid = cid[h] /\ Head(q) = q[1] /\ 1 \in 1..Len(q)
  <2>1. q \in Seq(Report) /\ q # <<>>
    BY Numbers DEF Own, Mail
  <2> QED
    BY <2>1, TailAt DEF Own, Report1
<1>2. cmd[h] \in Commands /\ asm[h] \in Assembler
  BY DEF Typed, Connections
<1>3. r.cmd = cmd[h] \/ (r.cmd = "CONT" /\ asm[h].active /\ r.seq = asm[h].next)
  BY DEF InSequence
<1>4. r.cmd \notin {"KEEPALIVE", "BUSY", "ERROR"}
  BY <1>2, <1>3 DEF Commands
<1>5. ~Asked(h)
  BY <1>1, <1>4 DEF Asked, OnlyAlive
<1>6. ~TurnedDown(h)
  <2>1. ASSUME NEW errors \in {{"BUSY"}, {"ERROR"}}, Declined(q, cid[h], errors)
        PROVE  FALSE
    <3>1. Head(q).cmd \in errors
      BY <1>1, <1>4, <2>1, ErrorTaken
    <3> QED
      BY <1>1, <1>4, <3>1
  <2> QED
    BY <2>1 DEF TurnedDown
<1>7. PICK n \in 0..MaxConts :
          /\ \/ task.cid # cid[h]
             \/ /\ task.cid = cid[h] /\ task.serial = serial[h]
                /\ task.sent > 0 /\ task.conts = n
          /\ Packets(inbox[h], cid[h], cmd[h], serial[h], n,
                     IF task.cid = cid[h] THEN task.sent ELSE n + 1)
          /\ asm[h].active =>
                 /\ asm[h].need = n /\ asm[h].from = {serial[h]}
                 /\ OnlyConts(inbox[h], cid[h])
  BY <1>5, <1>6 DEF Sound, Expecting, Answering
<1> DEFINE sent == IF task.cid = cid[h] THEN task.sent ELSE n + 1
<1>8. n \in Nat /\ task.sent \in Nat /\ task.conts \in Nat /\ task.sent <= task.conts
  BY <1>7, HidAssumption DEF Typed, Device, Tasked, Task
<1>9. sent \in Nat /\ (task.cid = cid[h] => sent <= n /\ sent > 0)
  BY <1>7, <1>8
<1>10. Packets(q, cid[h], cmd[h], serial[h], n, sent)
  BY <1>7
<1> HIDE DEF q, r, sent
<1>11. Packets(Tail(q), cid[h], cmd[h], serial[h], n, sent)
  BY <1>1, <1>10, FirstGoes
<1>12. CASE r.cmd = cmd[h]
  <2>1. r.cmd # "CONT"
    BY <1>2, <1>12 DEF Commands
  <2>2. /\ Extended(h).next = 0 /\ Extended(h).need = r.conts
        /\ Extended(h).from = {r.serial}
    BY <2>1 DEF Extended, r
  <2>3. /\ r.conts = n /\ r.serial = serial[h] /\ OnlyConts(Tail(q), cid[h])
        /\ n = 0 => NoneOf(Tail(q), cid[h])
    <3>1. /\ q \in Seq(Report) /\ q # <<>> /\ Head(q).cid = cid[h]
          /\ Head(q).cmd \in Commands /\ n \in Nat
          /\ Packets(q, Head(q).cid, Head(q).cmd, serial[h], n, sent)
      BY <1>1, <1>2, <1>8, <1>10, <1>12
    <3>2. /\ Head(q).conts = n /\ Head(q).serial = serial[h] /\ OnlyConts(Tail(q), cid[h])
          /\ n = 0 => NoneOf(Tail(q), cid[h])
      BY <3>1, AnswerTaken
    <3> QED
      BY <1>1, <3>2
  <2>4. ~(0 < n) => n = 0 /\ task.cid # cid[h]
    BY <1>8, <1>9
  <2> QED
    BY <1>7, <1>11, <2>2, <2>3, <2>4 DEF q, sent
<1>13. CASE r.cmd = "CONT" /\ asm[h].active /\ r.seq = asm[h].next
  <2>1. /\ Extended(h).next = asm[h].next + 1 /\ Extended(h).need = asm[h].need
        /\ Extended(h).from = asm[h].from \cup {r.serial}
    <3>1. Extended(h) = [asm[h] EXCEPT !.next = @ + 1, !.from = @ \cup {r.serial}]
      BY <1>13 DEF Extended, r
    <3> QED
      BY <1>2, <3>1 DEF Assembler
  <2>2. asm[h].need = n /\ asm[h].from = {serial[h]} /\ OnlyConts(q, cid[h])
    BY <1>7, <1>13 DEF q
  <2>3. /\ r.serial = serial[h] /\ r.seq < n /\ r.seq + 1 < sent
        /\ r.seq + 1 >= n => NoneOf(Tail(q), cid[h])
    BY <1>1, <1>2, <1>8, <1>9, <1>10, <1>13, <2>2, PacketTaken
  <2>4. OnlyConts(Tail(q), cid[h])
    BY <1>1, <2>2, FirstGoes
  <2>5. r.seq \in Nat
    BY <1>1, SequenceNumbers
  <2>6. ~(asm[h].next + 1 < n) => r.seq + 1 >= n /\ task.cid # cid[h]
    BY <1>8, <1>9, <1>13, <2>3, <2>5
  <2>7. Extended(h).from = {serial[h]}
    BY <2>1, <2>2, <2>3
  <2> QED
    BY <1>7, <1>11, <2>1, <2>2, <2>3, <2>4, <2>6, <2>7 DEF q, sent
<1> QED
  BY <1>3, <1>12, <1>13

LEMMA AssemblesIsSound ==
    ASSUME Typed, Typed', NEW h \in Hosts, Sound(h), Assembles(h)
    PROVE  Sound(h)'
<1> DEFINE a == Extended(h)
<1>1. /\ state[h] = "waiting" /\ Own(h) /\ InSequence(h) /\ Pop(h) /\ state[h] \in Joined
      /\ UNCHANGED <<cid, nonce, cmd, serial, dirty, task, top, runs, requests>>
  BY DEF Assembles, Joined, token, bounds
<1>2. inbox[h] # <<>> /\ inbox'[h] = Tail(inbox[h])
  BY <1>1, PopAt DEF Own
<1>3. Below(h)'
  BY <1>1, <1>2, SilentBelow DEF Sound
<1>4. Once(h)'
  BY <1>1 DEF Sound, Once
<1>5. CASE a.next < a.need
  <2>1. asm' = [asm EXCEPT ![h] = a] /\ UNCHANGED <<state, end, left, serves>>
    BY <1>5 DEF Assembles
  <2>2. asm'[h] = a
    BY <2>1 DEF Typed, Connections
  <2> HIDE DEF a
  <2>3. Offered(h)' /\ Resting(h)' /\ Matched(h)'
    BY <1>1, <2>1 DEF Sound, Offered, Joined, Resting, Matched
  <2>4. Purged(h)' /\ Settled(h)' /\ Relieved(h)'
    BY <1>1, <2>1 DEF Purged, Settled, Relieved
  <2>5. ASSUME ~dirty[h]
        PROVE  Answering(h)'
    <3>1. PICK n \in 0..MaxConts :
               /\ \/ task.cid # cid[h]
                  \/ /\ task.cid = cid[h] /\ task.serial = serial[h]
                     /\ task.sent > 0 /\ task.conts = n
               /\ Packets(Tail(inbox[h]), cid[h], cmd[h], serial[h], n,
                          IF task.cid = cid[h] THEN task.sent ELSE n + 1)
               /\ a.need = n /\ a.from = {serial[h]}
               /\ OnlyConts(Tail(inbox[h]), cid[h])
      BY <1>1, <2>5, PacketIsTaken DEF a
    <3> QED
      BY <1>1, <1>2, <2>2, <3>1 DEF Answering
  <2>6. Expecting(h)'
    BY <1>1, <2>1, <2>5 DEF Expecting
  <2> QED
    BY <1>3, <1>4, <2>3, <2>4, <2>6 DEF Sound
<1>6. CASE ~(a.next < a.need)
  <2>1. Leaves(h, "idle", "response") /\ serves' = [serves EXCEPT ![h] = a.from]
    BY <1>6 DEF Assembles
  <2>2. state'[h] = "idle" /\ end'[h] = "response" /\ asm'[h] = NoMessage
    BY <2>1, LeavesAt
  <2>3. serves'[h] = a.from
    BY <2>1 DEF Typed, Connections
  <2> HIDE DEF a
  <2>4. Offered(h)' /\ Resting(h)'
    BY <1>1, <2>2 DEF Sound, Offered, Joined, Resting
  <2>5. Purged(h)' /\ Expecting(h)' /\ Relieved(h)'
    BY <2>2 DEF Purged, Expecting, Relieved
  <2>6. ASSUME ~dirty[h]
        PROVE  a.from = {serial[h]} /\ task.cid # cid[h] /\ NoneOf(inbox'[h], cid[h])
    BY <1>1, <1>2, <1>6, <2>6, PacketIsTaken DEF a
  <2>7. Settled(h)' /\ Matched(h)'
    BY <1>1, <2>3, <2>6 DEF Settled, Quiet, Matched
  <2> QED
    BY <1>3, <1>4, <2>4, <2>5, <2>7 DEF Sound
<1> QED
  BY <1>5, <1>6

LEMMA ReceiveStepIsSound ==
    ASSUME Typed, Typed', NEW h \in Hosts, Sound(h),
           \/ Skips(h) \/ KeptAlive(h) \/ Assembles(h) \/ Violates(h)
           \/ IsRefused(h) \/ BacksOff(h) \/ Reissues(h)
    PROVE  Sound(h)'
<1>1. CASE Skips(h)
  <2>1. ~(Report1(h).cid = cid[h] /\ Report1(h).cmd \in {"BUSY", "ERROR"})
    BY <1>1 DEF Skips, Own
  <2> QED
    BY <1>1, <2>1, SkipStep DEF Skips
<1>2. CASE KeptAlive(h)
  <2>1. Report1(h).cmd \notin {"BUSY", "ERROR"} /\ UNCHANGED connection
    BY <1>2 DEF KeptAlive, connection
  <2> QED
    BY <1>2, <2>1, SkipStep DEF KeptAlive, Own
<1>3. CASE Violates(h)
  <2>1. /\ state[h] \in Joined /\ Mail(h) /\ Pop(h) /\ GiveUp(h, cmd[h], "failed")
        /\ UNCHANGED <<cid, nonce, cmd, serial, top, runs, requests>>
    BY <1>3 DEF Violates, Own, Joined, bounds
  <2> QED
    BY <2>1, PopAt, GiveUpStep
<1> QED
  BY <1>1, <1>2, <1>3, AssemblesIsSound, RefusedIsSound, BackoffIsSound, ReissueIsSound

LEMMA CallStepIsSound ==
    ASSUME Typed, Typed', NEW h \in Hosts, Sound(h),
           \/ \E k \in Commands : Send(h, k)
           \/ SendTooLong(h) \/ Tick(h) \/ Expires(h) \/ Drop(h)
           \/ \E politely \in BOOLEAN : Close(h, politely)
    PROVE  Sound(h)'
<1>1. CASE \E k \in Commands : Send(h, k)
  BY <1>1, SendIsSound
<1>2. CASE SendTooLong(h)
  <2>1. /\ state[h] = "idle" /\ Abandons(h, "CBOR", "failed")
        /\ serial' = [serial EXCEPT ![h] = 0]
        /\ UNCHANGED <<cid, nonce, inbox, dirty, top, runs, requests>>
    BY <1>2 DEF SendTooLong, bounds
  <2> PICK w \in {"failed", "lost"} :
          /\ Leaves(h, "idle", w)
          /\ task' = task \/ task' = Cancelled(cid[h])
          /\ w # "lost" => task' = Cancelled(cid[h])
    BY <2>1, AbandonsAs
  <2>2. state'[h] = "idle" /\ end'[h] = w /\ asm'[h] = NoMessage /\ serial'[h] = 0
    <3>1. state'[h] = "idle" /\ end'[h] = w /\ asm'[h] = NoMessage
      BY LeavesAt
    <3> QED
      BY <2>1, <3>1 DEF Typed, Connections
  <2>3. /\ task'.cid = task.cid /\ task'.cmd = task.cmd /\ task'.sent = task.sent
        /\ w # "lost" /\ task.cid = cid[h] /\ task.cmd = "CBOR" => task'.cancelled
    BY CancelledAt
  <2>4. Below(h)'
    BY <2>1, <2>3, SilentBelow DEF Sound
  <2>5. Offered(h)' /\ Purged(h)' /\ Expecting(h)' /\ Matched(h)' /\ Once(h)' /\ Relieved(h)'
    BY <2>1, <2>2, <2>3
    DEF Sound, Offered, Joined, Purged, Expecting, Matched, Once, Relieved
  <2>6. Resting(h)'
    <3>1. 0 <= requests
      BY HidAssumption DEF Typed, Device
    <3> QED
      BY <2>1, <2>2, <3>1 DEF Sound, Resting
  <2>7. Settled(h)'
    BY <2>1, <2>3 DEF Sound, Settled, Quiet
  <2> QED
    BY <2>4, <2>5, <2>6, <2>7 DEF Sound
<1>3. CASE Tick(h)
  <2>1. UNCHANGED <<state, cid, nonce, cmd, asm, inbox, end, serial, serves, dirty,
                    task, top, runs, requests>>
    BY <1>3 DEF Tick, bounds
  <2>2. Below(h)'
    BY <2>1, SilentBelow DEF Sound
  <2>3. Offered(h)' /\ Purged(h)' /\ Resting(h)' /\ Settled(h)' /\ Matched(h)' /\ Once(h)'
        /\ Relieved(h)'
    BY <2>1 DEF Sound, Offered, Purged, Resting, Settled, Matched, Once, Relieved, Quiet
  <2>4. Expecting(h)'
    BY <2>1 DEF Sound, Expecting, Asked, TurnedDown, Answering, Quiet
  <2> QED
    BY <2>2, <2>3, <2>4 DEF Sound
<1>4. CASE Expires(h)
  <2>1. /\ state[h] \in Joined /\ GiveUp(h, cmd[h], "timeout")
        /\ UNCHANGED <<cid, nonce, cmd, inbox, serial, top, runs, requests>>
    BY <1>4 DEF Expires, Joined, bounds
  <2> QED
    BY <2>1, GiveUpStep
<1>5. CASE Drop(h)
  <2>1. /\ state[h] \in Joined /\ Leaves(h, "idle", "dropped")
        /\ dirty' = [dirty EXCEPT ![h] = TRUE]
        /\ UNCHANGED <<cid, nonce, inbox, serial, task, top, runs, requests>>
    BY <1>5, StatesAreDistinct DEF Drop, token, bounds
  <2>2. dirty'[h] /\ end'[h] = "dropped"
    BY <2>1, LeavesAt DEF Typed, Connections
  <2>3. Relieved(h)'
    BY <2>2 DEF Relieved
  <2> QED
    BY <2>1, <2>2, <2>3, FailStep
<1>6. ASSUME NEW politely \in BOOLEAN, Close(h, politely)
      PROVE  Sound(h)'
  <2>1. Gone(h) /\ UNCHANGED <<top, runs, requests>> /\ (task' = task \/ task' = Cancelled(cid[h]))
    BY <1>6 DEF Close, bounds
  <2>2. task'.cid = task.cid
    BY <2>1, CancelledAt
  <2> QED
    BY <2>1, <2>2, GoneStep
<1> QED
  BY <1>1, <1>2, <1>3, <1>4, <1>5, <1>6

LEMMA UnwrittenIsSound ==
    ASSUME Typed, Typed', NEW h \in Hosts, Sound(h), Unwritten(h)
    PROVE  Sound(h)'
<1>1. CASE ResyncUnwritten(h)
  <2>1. /\ state[h] = "idle" /\ Leaves(h, "idle", "lost")
        /\ nonce' = [nonce EXCEPT ![h] = @ + 1] /\ dirty' = [dirty EXCEPT ![h] = TRUE]
        /\ serial' = [serial EXCEPT ![h] = 0]
        /\ UNCHANGED <<cid, cmd, inbox, task, top, runs, requests>>
    BY <1>1 DEF ResyncUnwritten, token, bounds
  <2>2. /\ state'[h] = "idle" /\ end'[h] = "lost" /\ asm'[h] = NoMessage
        /\ nonce'[h] = nonce[h] + 1 /\ dirty'[h] /\ serial'[h] = 0
    BY <2>1, LeavesAt DEF Typed, Connections
  <2>3. Below(h)'
    BY <2>1, <2>2, Numbers DEF Sound, Below
  <2>4. Offered(h)' /\ Purged(h)' /\ Expecting(h)' /\ Settled(h)' /\ Matched(h)' /\ Once(h)'
        /\ Relieved(h)'
    BY <2>1, <2>2
    DEF Sound, Offered, Joined, Purged, Expecting, Settled, Matched, Once, Relieved
  <2>5. Resting(h)'
    <3>1. 0 <= requests
      BY HidAssumption DEF Typed, Device
    <3> QED
      BY <2>1, <2>2, <3>1 DEF Sound, Resting
  <2> QED
    BY <2>3, <2>4, <2>5 DEF Sound
<1>2. CASE ReissueUnwritten(h)
  <2>1. /\ state[h] \in Joined /\ GiveUp(h, cmd[h], "failed")
        /\ UNCHANGED <<cid, nonce, cmd, inbox, serial, top, runs, requests>>
    BY <1>2 DEF ReissueUnwritten, Joined, bounds
  <2> QED
    BY <2>1, GiveUpStep
<1>3. ASSUME NEW k \in Commands, SendUnwritten(h, k)
      PROVE  Sound(h)'
  <2>1. /\ state[h] \in Joined /\ GiveUp(h, k, "failed")
        /\ cmd' = [cmd EXCEPT ![h] = k] /\ serial' = [serial EXCEPT ![h] = 0]
        /\ UNCHANGED <<cid, nonce, inbox, top, runs, requests>>
    BY <1>3 DEF SendUnwritten, Joined, bounds
  <2>2. cmd'[h] = k /\ serial'[h] = 0
    BY <2>1 DEF Typed, Connections
  <2> QED
    BY <2>1, <2>2, GiveUpStep
<1> QED
  BY <1>1, <1>2, <1>3 DEF Unwritten

LEMMA InitIsSound ==
    ASSUME Init, NEW h \in Hosts
    PROVE  Sound(h)
<1>1. Below(h)
  BY ChannelsAreNumbers, HidAssumption DEF Init, Below, Free, NoChannel, RivalChannel, Channels
<1>2. Offered(h) /\ Purged(h) /\ Expecting(h) /\ Settled(h) /\ Matched(h) /\ Once(h)
      /\ Relieved(h)
  BY DEF Init, Offered, Joined, Purged, Expecting, Settled, Matched, Once, Relieved
<1>3. Resting(h)
  BY DEF Init, Resting
<1> QED
  BY <1>1, <1>2, <1>3 DEF Sound

-----------------------------------------------------------------------------
(* Steps of the other connections.                                         *)

\* All that a step of connection g does to connection h: it may put a report of
\* g's channel or of the broadcast channel in its queue, and touches a
\* transaction of the token, and runs of a request, only if they are g's own.
Disturbs(g, h) ==
    /\ Same(h)
    /\ \E r \in Report :
          /\ inbox'[h] = inbox[h] \/ inbox'[h] = Append(inbox[h], r)
          /\ r.cid = cid[g] \/ r.cid = Broadcast
          /\ r.cid = Broadcast /\ r.nonce # 0 => state[g] = "open" /\ state'[g] = "opening"
    /\ state[h] = "closed" => inbox'[h] = inbox[h]
    /\ \/ task' = task
       \/ task.cid \in {NoChannel, cid[g]} /\ task'.cid \in {NoChannel, cid[g]}
    /\ state[g] # "opening" => \A f \in Hosts : cid'[f] \in {cid[f], NoChannel}
    /\ top <= top' /\ requests <= requests'
    /\ \A t \in 1..MaxRequests :
          runs'[t] # runs[t] => t = serial[g] \/ (requests < t /\ t <= requests')

\* As long as connects are apart, that is nothing to a sound connection.
LEMMA OthersAreSound ==
    ASSUME Typed, Typed', NEW h \in Hosts, NEW g \in Hosts, g # h, Sound(h), Sound(g),
           Distinct, ConnectsApart, ConnectsApart', Disturbs(g, h)
    PROVE  Sound(h)'
<1>1. PICK r \in Report :
          /\ inbox'[h] = inbox[h] \/ inbox'[h] = Append(inbox[h], r)
          /\ r.cid = cid[g] \/ r.cid = Broadcast
          /\ r.cid = Broadcast /\ r.nonce # 0 => state[g] = "open" /\ state'[g] = "opening"
  BY DEF Disturbs
<1>2. Same(h) /\ top <= top' /\ requests <= requests'
      /\ (state[h] = "closed" => inbox'[h] = inbox[h])
  BY DEF Disturbs
<1>3. /\ top \in Nat /\ top' \in Nat /\ task.cid \in Nat /\ inbox[h] \in Seq(Report)
      /\ cid[g] \in Nat /\ cid[g] <= top /\ task.cid <= top
      /\ cid[h] \in {NoChannel} \cup Channels /\ r.cid \in Channels \cup {Broadcast}
  <2>1. top \in Nat /\ task.cid \in Nat /\ inbox[h] \in Seq(Report) /\ cid[g] \in Nat
    BY Numbers
  <2>2. top' \in Nat
    BY ChannelsAreNumbers DEF Typed, Device
  <2>3. cid[g] <= top /\ task.cid <= top
    BY DEF Sound, Below
  <2>4. cid[h] \in {NoChannel} \cup Channels
    BY DEF Typed, Connections
  <2>5. r.cid \in Channels \cup {Broadcast}
    BY DEF Report
  <2> QED
    BY <2>1, <2>2, <2>3, <2>4, <2>5
<1>4. r.cid # cid[h]
  <2>1. cid[h] # NoChannel => cid[h] # cid[g]
    BY DEF Distinct
  <2> QED
    BY <1>1, <1>3, <2>1, ChannelsAreNumbers
<1>5. Newest(h, r) /\ Kept(inbox[h], inbox'[h], cid[h])
      /\ StillDeclined(inbox[h], inbox'[h], cid[h])
  BY <1>1, <1>3, <1>4, NewestReports, ForeignKeeps
<1>6. r.cid <= top' \/ r.cid = Broadcast
  BY <1>1, <1>2, <1>3
<1>7. \/ task' = task
      \/ task.cid \in {NoChannel, cid[g]} /\ task'.cid \in {NoChannel, cid[g]}
  BY DEF Disturbs
<1>8. task'.cid <= top' \/ task'.cid = task.cid
  BY <1>2, <1>3, <1>7 DEF NoChannel
<1>9. task' = task \/ (state[h] \in Joined => task.cid # cid[h] /\ task'.cid # cid[h])
  <2>1. state[h] \in Joined => cid[h] # NoChannel /\ cid[h] # cid[g]
    BY DEF Distinct, Typed, Connected
  <2> QED
    BY <1>7, <2>1
<1>10. ASSUME NEW t \in 1..MaxRequests, t = serial[h] \/ t > requests'
       PROVE  runs'[t] = runs[t]
  <2>1. /\ requests \in Nat /\ requests' \in Nat /\ t \in Nat \ {0}
        /\ serial[h] \in Nat /\ serial[g] \in Nat
        /\ serial[h] <= requests /\ serial[g] <= requests
    BY HidAssumption DEF Typed, Device, Connections, Sound, Resting
  <2>2. t # serial[g]
    BY <1>2, <1>10, <2>1 DEF Distinct
  <2>3. ~(requests < t /\ t <= requests')
    BY <1>10, <2>1
  <2> QED
    BY <2>2, <2>3 DEF Disturbs
<1>11. Offered(h)'
  <2>1. state[h] \in {"open", "opening"} => r.cid # Broadcast \/ r.nonce = 0
    BY <1>1, <1>2 DEF ConnectsApart, Same
  <2>2. state[h] = "opening" => \A f \in Hosts : cid'[f] \in {cid[f], NoChannel}
    BY DEF ConnectsApart, Disturbs
  <2>3. r.cid \in {Broadcast, RivalChannel, task.cid} \/ \E f \in Hosts : r.cid = cid[f]
    BY <1>1
  <2>4. \/ task'.cid \in {NoChannel, RivalChannel, task.cid}
        \/ \E f \in Hosts : task'.cid = cid[f]
    BY <1>7
  <2> QED
    BY <1>2, <1>3, <1>5, <2>1, <2>2, <2>3, <2>4, OfferStands DEF Sound
<1> QED
  BY <1>2, <1>4, <1>5, <1>6, <1>8, <1>9, <1>10, <1>11, Elsewhere

\* A step of g changes no other connection, takes no other channel than the one it
\* is offered and no number but the next.
Minds(g) ==
    /\ \A h \in Hosts : h # g => Disturbs(g, h)
    /\ cid'[g] \in {cid[g], NoChannel} \/ Allocate(g)
    /\ serial'[g] \in {serial[g], 0, requests + 1}

\* Channels and requests stay distinct.
LEMMA StaysDistinct ==
    ASSUME Typed, NEW g \in Hosts, \A h \in Hosts : Sound(h), Distinct, Minds(g)
    PROVE  Distinct'
<1>1. \A h \in Hosts : h # g => cid'[h] = cid[h] /\ serial'[h] = serial[h]
  BY DEF Minds, Disturbs, Same
<1>2. ASSUME NEW h \in Hosts, h # g
      PROVE  cid'[g] # NoChannel => cid'[g] # cid[h]
  <2>1. CASE cid'[g] \in {cid[g], NoChannel}
    BY <1>2, <2>1 DEF Distinct
  <2>2. CASE Allocate(g)
    <3>1. /\ state[g] = "opening" /\ Mail(g) /\ LooksInit(g) /\ NonceMatches(g)
          /\ Report1(g).chan # NoChannel
          /\ cid' = [cid EXCEPT ![g] = Report1(g).chan]
      BY <2>2 DEF Allocate
    <3>2. inbox[g] \in Seq(Report) /\ inbox[g] # <<>>
      BY <3>1, Numbers DEF Mail
    <3>3. 1 \in 1..Len(inbox[g]) /\ Report1(g) = inbox[g][1]
      BY <3>2, TailAt DEF Report1
    <3>4. Report1(g).cid = Broadcast /\ Report1(g).nonce = nonce[g]
      BY <3>1 DEF LooksInit, NonceMatches
    <3>5. \A f \in Hosts : cid[f] # Report1(g).chan
      BY <3>1, <3>3, <3>4 DEF Sound, Offered
    <3>6. cid'[g] = Report1(g).chan
      BY <3>1 DEF Typed, Connections
    <3> QED
      BY <3>5, <3>6
  <2> QED
    BY <2>1, <2>2 DEF Minds
<1>3. ASSUME NEW h \in Hosts, h # g
      PROVE  serial'[g] # 0 => serial'[g] # serial[h]
  <2>1. serial[h] <= requests /\ serial[h] \in Nat /\ requests \in Nat
    BY HidAssumption DEF Sound, Resting, Typed, Connections, Device
  <2> QED
    BY <1>3, <2>1 DEF Minds, Distinct
<1>4. ASSUME NEW f \in Hosts, NEW h \in Hosts, f # h
      PROVE  /\ cid'[f] # NoChannel => cid'[f] # cid'[h]
             /\ serial'[f] # 0 => serial'[f] # serial'[h]
  BY <1>1, <1>2, <1>3, <1>4 DEF Distinct
<1> QED
  BY <1>4 DEF Distinct

\* Nothing is written, or a CANCEL.
LEMMA QuietlyMinds ==
    ASSUME Typed, NEW g \in Hosts,
           \A h \in Hosts : h # g => Same(h) /\ inbox'[h] = inbox[h],
           task' = task \/ task' = Cancelled(cid[g]), UNCHANGED <<top, runs, requests>>,
           cid'[g] \in {cid[g], NoChannel} \/ Allocate(g), serial'[g] \in {serial[g], 0}
    PROVE  Minds(g)
<1>1. task' = task \/ (task.cid = cid[g] /\ task'.cid = cid[g])
  <2>1. task'.cid = task.cid
    BY CancelledAt
  <2> QED
    BY <2>1 DEF Cancelled
<1>2. top <= top' /\ requests <= requests'
  BY Numbers, HidAssumption DEF Typed, Device
<1>3. state[g] # "opening" => \A f \in Hosts : cid'[f] \in {cid[f], NoChannel}
  BY DEF Same, Allocate
<1>4. ASSUME NEW h \in Hosts, h # g
      PROVE  Disturbs(g, h)
  <2>1. Same(h) /\ inbox'[h] = inbox[h]
    BY <1>4
  <2>2. \E r \in Report : r.cid = Broadcast /\ r.nonce = 0
    BY BlankReport
  <2> QED
    BY <1>1, <1>2, <1>3, <2>1, <2>2 DEF Disturbs
<1> QED
  BY <1>4 DEF Minds

LEMMA HandshakeMinds ==
    ASSUME Typed, NEW g \in Hosts,
           \/ Open(g) \/ HandshakeSkips(g) \/ ConnectFails(g) \/ ResyncFails(g)
           \/ Allocate(g) \/ Resynced(g) \/ ResyncExpires(g)
    PROVE  Minds(g)
<1>1. CASE Open(g)
  <2>1. \A h \in Hosts : h # g => Same(h) /\ inbox'[h] = inbox[h]
    BY <1>1 DEF Open, Starts, Enter, Same, Typed, Connections
  <2>2. cid'[g] = cid[g] /\ serial'[g] = 0 /\ UNCHANGED <<task, top, runs, requests>>
    BY <1>1 DEF Open, Starts, Typed, Connections, token, bounds
  <2> QED
    BY <2>1, <2>2, QuietlyMinds
<1>2. CASE HandshakeSkips(g)
  <2>1. \A h \in Hosts : h # g => Same(h) /\ inbox'[h] = inbox[h]
    BY <1>2 DEF HandshakeSkips, Pop, Same, connection, Typed, Queues
  <2>2. UNCHANGED <<cid, serial, task, top, runs, requests>>
    BY <1>2 DEF HandshakeSkips, connection, token, bounds
  <2> QED
    BY <2>1, <2>2, QuietlyMinds
<1>3. CASE ConnectFails(g)
  <2>1. \A h \in Hosts : h # g => Same(h) /\ inbox'[h] = inbox[h]
    BY <1>3 DEF ConnectFails, Gone, Leaves, Enter, Same, Typed, Connections, Queues
  <2>2. cid'[g] = NoChannel /\ serial'[g] = 0 /\ UNCHANGED <<task, top, runs, requests>>
    BY <1>3 DEF ConnectFails, Gone, Typed, Connections, token, bounds
  <2> QED
    BY <2>1, <2>2, QuietlyMinds
<1>4. CASE ResyncFails(g)
  <2>1. \A h \in Hosts : h # g => Same(h) /\ inbox'[h] = inbox[h]
    BY <1>4 DEF ResyncFails, Leaves, Enter, Pop, Same, Typed, Connections, Queues
  <2>2. UNCHANGED <<cid, serial, task, top, runs, requests>>
    BY <1>4 DEF ResyncFails, token, bounds
  <2> QED
    BY <2>1, <2>2, QuietlyMinds
<1>5. CASE Allocate(g)
  <2>1. \A h \in Hosts : h # g => Same(h) /\ inbox'[h] = inbox[h]
    BY <1>5 DEF Allocate, Leaves, Enter, Pop, Same, Typed, Connections, Queues
  <2>2. UNCHANGED <<serial, task, top, runs, requests>>
    BY <1>5 DEF Allocate, token, bounds
  <2> QED
    BY <1>5, <2>1, <2>2, QuietlyMinds
<1>6. CASE Resynced(g)
  <2>1. \A h \in Hosts : h # g => Same(h) /\ inbox'[h] = inbox[h]
    BY <1>6 DEF Resynced, Leaves, Enter, Pop, Same, Typed, Connections, Queues
  <2>2. UNCHANGED <<cid, serial, task, top, runs, requests>>
    BY <1>6 DEF Resynced, token, bounds
  <2> QED
    BY <2>1, <2>2, QuietlyMinds
<1>7. CASE ResyncExpires(g)
  <2>1. \A h \in Hosts : h # g => Same(h) /\ inbox'[h] = inbox[h]
    BY <1>7 DEF ResyncExpires, Leaves, Enter, Same, Typed, Connections
  <2>2. UNCHANGED <<cid, serial, task, top, runs, requests>>
    BY <1>7 DEF ResyncExpires, token, bounds
  <2> QED
    BY <2>1, <2>2, QuietlyMinds
<1> QED
  BY <1>1, <1>2, <1>3, <1>4, <1>5, <1>6, <1>7

LEMMA ReceiveMinds ==
    ASSUME Typed, NEW g \in Hosts,
           \/ Skips(g) \/ KeptAlive(g) \/ Assembles(g) \/ Violates(g)
           \/ IsRefused(g) \/ BacksOff(g)
    PROVE  Minds(g)
<1>1. CASE Skips(g)
  <2>1. \A h \in Hosts : h # g => Same(h) /\ inbox'[h] = inbox[h]
    BY <1>1 DEF Skips, Pop, Same, connection, Typed, Queues
  <2>2. UNCHANGED <<cid, serial, task, top, runs, requests>>
    BY <1>1 DEF Skips, connection, token, bounds
  <2> QED
    BY <2>1, <2>2, QuietlyMinds
<1>2. CASE KeptAlive(g)
  <2>1. \A h \in Hosts : h # g => Same(h) /\ inbox'[h] = inbox[h]
    BY <1>2 DEF KeptAlive, Pop, Same, Typed, Queues
  <2>2. UNCHANGED <<cid, serial, task, top, runs, requests>>
    BY <1>2 DEF KeptAlive, token, bounds
  <2> QED
    BY <2>1, <2>2, QuietlyMinds
<1>3. CASE Assembles(g)
  <2> DEFINE a == Extended(g)
  <2>1. \A h \in Hosts : h # g => /\ state'[h] = state[h] /\ end'[h] = end[h]
                                  /\ asm'[h] = asm[h] /\ serves'[h] = serves[h]
    <3>1. \/ asm' = [asm EXCEPT ![g] = a] /\ UNCHANGED <<state, end, serves>>
          \/ Leaves(g, "idle", "response") /\ serves' = [serves EXCEPT ![g] = a.from]
      BY <1>3 DEF Assembles
    <3> HIDE DEF a
    <3> QED
      BY <3>1 DEF Leaves, Enter, Typed, Connections
  <2>2. \A h \in Hosts : h # g => Same(h) /\ inbox'[h] = inbox[h]
    BY <1>3, <2>1 DEF Assembles, Pop, Same, Typed, Queues
  <2>3. UNCHANGED <<cid, serial, task, top, runs, requests>>
    BY <1>3 DEF Assembles, token, bounds
  <2> QED
    BY <2>2, <2>3, QuietlyMinds
<1>4. CASE Violates(g)
  <2>1. \A h \in Hosts : h # g => Same(h) /\ inbox'[h] = inbox[h]
    BY <1>4 DEF Violates, GiveUp, Abandons, Leaves, Enter, Pop, Same, Typed, Connections, Queues
  <2>2. UNCHANGED <<cid, serial, top, runs, requests>>
        /\ (task' = task \/ task' = Cancelled(cid[g]))
    BY <1>4, AbandonsAs DEF Violates, GiveUp, bounds
  <2> QED
    BY <2>1, <2>2, QuietlyMinds
<1>5. CASE IsRefused(g)
  <2>1. \A h \in Hosts : h # g => Same(h) /\ inbox'[h] = inbox[h]
    BY <1>5 DEF IsRefused, Leaves, Enter, Pop, Same, Typed, Connections, Queues
  <2>2. UNCHANGED <<cid, serial, task, top, runs, requests>>
    BY <1>5 DEF IsRefused, token, bounds
  <2> QED
    BY <2>1, <2>2, QuietlyMinds
<1>6. CASE BacksOff(g)
  <2>1. \A h \in Hosts : h # g => Same(h) /\ inbox'[h] = inbox[h]
    BY <1>6 DEF BacksOff, Enter, Pop, Same, Typed, Connections, Queues
  <2>2. UNCHANGED <<cid, serial, task, top, runs, requests>>
    BY <1>6 DEF BacksOff, token, bounds
  <2> QED
    BY <2>1, <2>2, QuietlyMinds
<1> QED
  BY <1>1, <1>2, <1>3, <1>4, <1>5, <1>6

LEMMA CallMinds ==
    ASSUME Typed, NEW g \in Hosts,
           \/ SendTooLong(g) \/ Tick(g) \/ Expires(g) \/ Drop(g)
           \/ \E politely \in BOOLEAN : Close(g, politely)
    PROVE  Minds(g)
<1>1. CASE SendTooLong(g)
  <2>1. \A h \in Hosts : h # g => Same(h) /\ inbox'[h] = inbox[h]
    BY <1>1 DEF SendTooLong, Abandons, Leaves, Enter, Same, Typed, Connections
  <2>2. UNCHANGED <<cid, top, runs, requests>> /\ serial'[g] = 0
        /\ (task' = task \/ task' = Cancelled(cid[g]))
    BY <1>1, AbandonsAs DEF SendTooLong, Typed, Connections, bounds
  <2> QED
    BY <2>1, <2>2, QuietlyMinds
<1>2. CASE Tick(g)
  <2>1. \A h \in Hosts : h # g => Same(h) /\ inbox'[h] = inbox[h]
    BY <1>2 DEF Tick, Same
  <2>2. UNCHANGED <<cid, serial, task, top, runs, requests>>
    BY <1>2 DEF Tick, bounds
  <2> QED
    BY <2>1, <2>2, QuietlyMinds
<1>3. CASE Expires(g)
  <2>1. \A h \in Hosts : h # g => Same(h) /\ inbox'[h] = inbox[h]
    BY <1>3 DEF Expires, GiveUp, Abandons, Leaves, Enter, Same, Typed, Connections
  <2>2. UNCHANGED <<cid, serial, top, runs, requests>>
        /\ (task' = task \/ task' = Cancelled(cid[g]))
    BY <1>3, AbandonsAs DEF Expires, GiveUp, bounds
  <2> QED
    BY <2>1, <2>2, QuietlyMinds
<1>4. CASE Drop(g)
  <2>1. \A h \in Hosts : h # g => Same(h) /\ inbox'[h] = inbox[h]
    BY <1>4 DEF Drop, Leaves, Enter, Same, Typed, Connections
  <2>2. UNCHANGED <<cid, serial, task, top, runs, requests>>
    BY <1>4 DEF Drop, token, bounds
  <2> QED
    BY <2>1, <2>2, QuietlyMinds
<1>5. ASSUME NEW politely \in BOOLEAN, Close(g, politely)
      PROVE  Minds(g)
  <2>1. \A h \in Hosts : h # g => Same(h) /\ inbox'[h] = inbox[h]
    BY <1>5 DEF Close, Gone, Leaves, Enter, Same, Typed, Connections, Queues
  <2>2. UNCHANGED <<top, runs, requests>> /\ cid'[g] = NoChannel /\ serial'[g] = 0
        /\ (task' = task \/ task' = Cancelled(cid[g]))
    BY <1>5 DEF Close, Gone, Typed, Connections, bounds
  <2> QED
    BY <2>1, <2>2, QuietlyMinds
<1> QED
  BY <1>1, <1>2, <1>3, <1>4, <1>5

LEMMA UnwrittenMinds ==
    ASSUME Typed, NEW g \in Hosts, Unwritten(g)
    PROVE  Minds(g)
<1>1. CASE ResyncUnwritten(g)
  <2>1. \A h \in Hosts : h # g => Same(h) /\ inbox'[h] = inbox[h]
    BY <1>1 DEF ResyncUnwritten, Leaves, Enter, Same, Typed, Connections
  <2>2. UNCHANGED <<cid, task, top, runs, requests>> /\ serial'[g] = 0
    BY <1>1 DEF ResyncUnwritten, Typed, Connections, token, bounds
  <2> QED
    BY <2>1, <2>2, QuietlyMinds
<1>2. CASE ReissueUnwritten(g)
  <2>1. \A h \in Hosts : h # g => Same(h) /\ inbox'[h] = inbox[h]
    BY <1>2 DEF ReissueUnwritten, GiveUp, Abandons, Leaves, Enter, Same, Typed, Connections
  <2>2. UNCHANGED <<cid, serial, top, runs, requests>>
        /\ (task' = task \/ task' = Cancelled(cid[g]))
    BY <1>2, AbandonsAs DEF ReissueUnwritten, GiveUp, bounds
  <2> QED
    BY <2>1, <2>2, QuietlyMinds
<1>3. ASSUME NEW k \in Commands, SendUnwritten(g, k)
      PROVE  Minds(g)
  <2>1. \A h \in Hosts : h # g => Same(h) /\ inbox'[h] = inbox[h]
    BY <1>3 DEF SendUnwritten, GiveUp, Abandons, Leaves, Enter, Same, Typed, Connections
  <2>2. UNCHANGED <<cid, top, runs, requests>> /\ serial'[g] = 0
        /\ (task' = task \/ task' = Cancelled(cid[g]))
    BY <1>3, AbandonsAs DEF SendUnwritten, GiveUp, Typed, Connections, bounds
  <2> QED
    BY <2>1, <2>2, QuietlyMinds
<1> QED
  BY <1>1, <1>2, <1>3 DEF Unwritten

LEMMA ConnectMinds ==
    ASSUME Typed, Typed', NEW g \in Hosts, Connect(g)
    PROVE  Minds(g)
<1>1. /\ state[g] = "open" /\ state' = [state EXCEPT ![g] = "opening"]
      /\ nonce' = [nonce EXCEPT ![g] = @ + 1]
      /\ UNCHANGED <<cid, cmd, asm, end, serial, serves, dirty, task, runs, requests>>
  BY DEF Connect, Enter, bounds
<1>2. state'[g] = "opening" /\ \A h \in Hosts : h # g => Same(h)
  BY <1>1 DEF Same, Typed, Connections
<1>3. top \in Nat /\ requests \in Nat /\ requests <= requests' /\ top <= top'
  <2>1. top \in Nat /\ requests \in Nat
    BY Numbers, HidAssumption DEF Typed, Device
  <2>2. top' \in {top, top + 1}
    BY DEF Connect
  <2> QED
    BY <1>1, <2>1, <2>2
<1>4. ASSUME NEW h \in Hosts, h # g
      PROVE  /\ \E r \in Report : r.cid = Broadcast
                    /\ (inbox'[h] = inbox[h] \/ inbox'[h] = Append(inbox[h], r))
             /\ state[h] = "closed" => inbox'[h] = inbox[h]
  <2>1. CASE UNCHANGED inbox
    BY <2>1, BlankReport
  <2>2. ASSUME NEW chan \in {NoChannel, top + 1} \ {MaxChannels + 1},
               inbox' = Heard([Blank EXCEPT !.nonce = nonce'[g], !.chan = chan])
        PROVE  /\ \E r \in Report : r.cid = Broadcast
                      /\ (inbox'[h] = inbox[h] \/ inbox'[h] = Append(inbox[h], r))
               /\ state[h] = "closed" => inbox'[h] = inbox[h]
    <3> DEFINE r == [Blank EXCEPT !.nonce = nonce'[g], !.chan = chan]
    <3>1. r \in Report
      <4>1. chan \in {NoChannel} \cup Channels
        BY Numbers, HidAssumption DEF Channels
      <4>2. nonce'[g] \in 0..MaxHandshakes
        BY DEF Typed, Connections
      <4> QED
        BY <4>1, <4>2, ChannelsAreNumbers, HandshakesAreReports
    <3>2. r.cid = Broadcast
      BY DEF Blank
    <3> HIDE DEF r
    <3>3. inbox' = Heard(r)
      BY <2>2 DEF r
    <3> QED
      BY <3>1, <3>2, <3>3, HeardAt
  <2> QED
    BY <2>1, <2>2 DEF Connect
<1>5. ASSUME NEW h \in Hosts, h # g
      PROVE  Disturbs(g, h)
  BY <1>1, <1>2, <1>3, <1>4, <1>5 DEF Disturbs
<1> QED
  BY <1>1, <1>5 DEF Minds

LEMMA ResyncMinds ==
    ASSUME Typed, Typed', NEW g \in Hosts, Resync(g)
    PROVE  Minds(g)
<1>1. /\ state[g] = "idle" /\ state' = [state EXCEPT ![g] = "resyncing"]
      /\ end' = [end EXCEPT ![g] = "none"] /\ serial' = [serial EXCEPT ![g] = 0]
      /\ serves' = [serves EXCEPT ![g] = {}]
      /\ nonce' = [nonce EXCEPT ![g] = @ + 1] /\ dirty' = [dirty EXCEPT ![g] = TRUE]
      /\ task' = (IF task.cid = cid[g] THEN Free ELSE task)
      /\ UNCHANGED <<cid, cmd, asm, top, runs, requests>>
  BY DEF Resync, Starts, Enter, bounds
<1>2. serial'[g] = 0 /\ \A h \in Hosts : h # g => Same(h)
  BY <1>1 DEF Same, Typed, Connections
<1>3. requests <= requests' /\ top <= top'
  BY <1>1, Numbers, HidAssumption DEF Typed, Device
<1>4. cid[g] \in Channels /\ cid[g] # Broadcast
  BY <1>1, JoinedChannel, ChannelsAreNumbers DEF Joined
<1> DEFINE r == [Blank EXCEPT !.cid = cid[g], !.nonce = nonce'[g], !.chan = cid[g]]
<1>5. r \in Report /\ r.cid = cid[g]
  <2>1. nonce'[g] \in 0..MaxHandshakes
    BY DEF Typed, Connections
  <2> QED
    BY <1>4, <2>1, HandshakesAreReports DEF Blank
<1>6. inbox' = Heard(r) \/ inbox' = inbox
  BY DEF Resync
<1> HIDE DEF r
<1>7. task' = task \/ (task.cid = cid[g] /\ task'.cid = NoChannel)
  BY <1>1, BlankReport
<1>8. ASSUME NEW h \in Hosts, h # g
      PROVE  Disturbs(g, h)
  <2>1. /\ inbox'[h] = inbox[h] \/ inbox'[h] = Append(inbox[h], r)
        /\ state[h] = "closed" => inbox'[h] = inbox[h]
    BY <1>6, HeardAt
  <2> QED
    BY <1>1, <1>2, <1>3, <1>4, <1>5, <1>7, <1>8, <2>1 DEF Disturbs
<1> QED
  BY <1>1, <1>2, <1>8 DEF Minds

\* A request is written, for the first time or again.
LEMMA WriteMinds ==
    ASSUME Typed, Typed', NEW g \in Hosts, cid[g] \in Channels, state[g] # "opening",
           NEW k \in Commands, NEW s \in 1..MaxRequests, TokenTakes(cid[g], k, s),
           s = serial[g] \/ (requests < s /\ s <= requests'),
           \A h \in Hosts : h # g => Same(h), UNCHANGED <<cid, top>>,
           requests <= requests', serial'[g] \in {serial[g], requests + 1}
    PROVE  Minds(g)
<1>1. \A t \in 1..MaxRequests : t # s => runs'[t] = runs[t]
  BY TakesAt
<1>2. cid[g] # Broadcast /\ top <= top'
  BY Numbers, ChannelsAreNumbers
<1>3. ASSUME NEW h \in Hosts, h # g
      PROVE  /\ \E r \in Report : r.cid = cid[g]
                    /\ (inbox'[h] = inbox[h] \/ inbox'[h] = Append(inbox[h], r))
             /\ state[h] = "closed" => inbox'[h] = inbox[h]
             /\ \/ task' = task
                \/ task.cid \in {NoChannel, cid[g]} /\ task'.cid \in {NoChannel, cid[g]}
  <2>1. CASE task = Free /\ task'.cid = cid[g] /\ inbox' = inbox
    <3>1. \E r \in Report : r.cid = cid[g]
      BY ErrorsAreReports DEF Blank
    <3> QED
      BY <2>1, <3>1, BlankReport
  <2>2. ASSUME task' = task, NEW r \in Report, r.cid = cid[g], inbox' = Heard(r)
        PROVE  /\ \E q \in Report : q.cid = cid[g]
                      /\ (inbox'[h] = inbox[h] \/ inbox'[h] = Append(inbox[h], q))
               /\ state[h] = "closed" => inbox'[h] = inbox[h]
    BY <2>2, HeardAt
  <2> QED
    BY <2>1, <2>2, TakesAt
<1>4. ASSUME NEW h \in Hosts, h # g
      PROVE  Disturbs(g, h)
  BY <1>1, <1>2, <1>3, <1>4 DEF Disturbs
<1> QED
  BY <1>4 DEF Minds

LEMMA SendMinds ==
    ASSUME Typed, Typed', NEW g \in Hosts, Sound(g),
           Reissues(g) \/ \E k \in Commands : Send(g, k)
    PROVE  Minds(g)
<1>1. requests \in Nat /\ MaxRequests \in Nat
  BY HidAssumption DEF Typed, Device
<1>2. CASE Reissues(g)
  <2>1. /\ state[g] = "backoff" /\ state' = [state EXCEPT ![g] = "waiting"]
        /\ asm' = [asm EXCEPT ![g] = NoMessage]
        /\ TokenTakes(cid[g], cmd[g], serial[g])
        /\ UNCHANGED <<cid, nonce, cmd, end, serial, serves, dirty, top, requests>>
    BY <1>2 DEF Reissues, Enter, bounds
  <2>2. serial[g] \in 1..MaxRequests /\ cmd[g] \in Commands
    <3>1. serial[g] # 0
      BY <2>1 DEF Sound, Resting
    <3> QED
      BY <3>1, HidAssumption DEF Typed, Connections
  <2>3. cid[g] \in Channels
    BY <2>1, JoinedChannel DEF Joined
  <2>4. \A h \in Hosts : h # g => Same(h)
    BY <2>1 DEF Same, Typed, Connections
  <2> QED
    BY <1>1, <2>1, <2>2, <2>3, <2>4, WriteMinds
<1>3. ASSUME NEW k \in Commands, Send(g, k)
      PROVE  Minds(g)
  <2>1. /\ state[g] = "idle" /\ requests < MaxRequests /\ requests' = requests + 1
        /\ state' = [state EXCEPT ![g] = "waiting"] /\ end' = [end EXCEPT ![g] = "none"]
        /\ serial' = [serial EXCEPT ![g] = requests + 1] /\ cmd' = [cmd EXCEPT ![g] = k]
        /\ serves' = [serves EXCEPT ![g] = {}]
        /\ TokenTakes(cid[g], k, requests + 1) /\ UNCHANGED <<cid, nonce, asm, dirty, top>>
    BY <1>3 DEF Send, Starts, Enter
  <2>2. requests + 1 \in 1..MaxRequests /\ requests < requests + 1 /\ requests + 1 <= requests'
        /\ requests <= requests'
    BY <1>1, <2>1
  <2>3. cid[g] \in Channels
    BY <2>1, JoinedChannel DEF Joined
  <2>4. serial'[g] = requests + 1 /\ \A h \in Hosts : h # g => Same(h)
    BY <2>1 DEF Same, Typed, Connections
  <2> QED
    BY <2>1, <2>2, <2>3, <2>4, WriteMinds
<1> QED
  BY <1>2, <1>3

-----------------------------------------------------------------------------
(* The invariant, and what follows from it.                                *)

\* A step of one of the connections.
Steps(g) ==
    \/ Runs(g)
    \/ Open(g) \/ Connect(g)
    \/ Resync(g) \/ ResyncUnwritten(g)
    \/ \E k \in Commands : Send(g, k) \/ SendUnwritten(g, k)
    \/ SendTooLong(g)
    \/ Drop(g)
    \/ \E politely \in BOOLEAN : Close(g, politely)

LEMMA StepMinds ==
    ASSUME Typed, Typed', NEW g \in Hosts, Sound(g), Steps(g)
    PROVE  Minds(g)
BY HandshakeMinds, ReceiveMinds, CallMinds, ConnectMinds, ResyncMinds, SendMinds, UnwrittenMinds
DEF Steps, Runs, Unwritten

LEMMA IdleIsSound ==
    ASSUME Typed, Typed', NEW h \in Hosts, Sound(h), UNCHANGED vars
    PROVE  Sound(h)'
<1>1. UNCHANGED <<state, cid, nonce, cmd, asm, inbox, end, serial, serves, dirty,
                  task, top, runs, requests>>
  BY DEF vars
<1>2. Below(h)'
  BY <1>1, SilentBelow DEF Sound
<1>3. Offered(h)' /\ Purged(h)' /\ Resting(h)' /\ Settled(h)' /\ Matched(h)' /\ Once(h)'
      /\ Relieved(h)'
  BY <1>1 DEF Sound, Offered, Purged, Resting, Settled, Matched, Once, Relieved, Quiet
<1>4. Expecting(h)'
  BY <1>1 DEF Sound, Expecting, Asked, TurnedDown, Answering, Quiet
<1> QED
  BY <1>2, <1>3, <1>4 DEF Sound

LEMMA StepIsSound ==
    ASSUME Inv, ConnectsApart, ConnectsApart', [Next]_vars
    PROVE  Inv'
<1>1. Typed /\ Typed' /\ Distinct /\ \A h \in Hosts : Sound(h)
  BY StepIsTyped DEF Inv
<1>2. CASE Token
  <2>1. \A h \in Hosts : Sound(h)'
    BY <1>1, <1>2, TokenStepIsSound
  <2>2. UNCHANGED <<cid, serial>>
    BY <1>2 DEF Token, TokenKeepsAlive, TokenAnswers, TokenContinues, TokenRefuses, RivalInit,
                RivalRequest, RivalCancels, connection
  <2> QED
    BY <1>1, <2>1, <2>2 DEF Inv, Distinct
<1>3. ASSUME NEW g \in Hosts, Steps(g)
      PROVE  Inv'
  <2>1. Minds(g)
    BY <1>1, <1>3, StepMinds
  <2>2. \A f \in Hosts : cid[f] <= top
    BY <1>1 DEF Sound, Below
  <2>3. Sound(g)'
    BY <1>1, <1>3, <2>2, HandshakeStepIsSound, ReceiveStepIsSound, CallStepIsSound,
       UnwrittenIsSound
    DEF Steps, Runs, Unwritten
  <2>4. \A h \in Hosts : h # g => Sound(h)'
    BY <1>1, <2>1, OthersAreSound DEF Minds
  <2>5. Distinct'
    BY <1>1, <2>1, StaysDistinct
  <2> QED
    BY <1>1, <2>3, <2>4, <2>5 DEF Inv
<1>4. CASE UNCHANGED vars
  <2>1. UNCHANGED <<cid, serial>>
    BY <1>4 DEF vars
  <2> QED
    BY <1>1, <1>4, <2>1, IdleIsSound DEF Inv, Distinct
<1> QED
  BY <1>2, <1>3, <1>4 DEF Next, Steps

LEMMA ApartIsSound == Spec /\ []ConnectsApart => []Inv
<1>1. Init => Inv
  BY InitIsTyped, InitIsSound DEF Inv, Distinct, Init
<1>2. Inv /\ ConnectsApart /\ ConnectsApart' /\ [Next]_vars => Inv'
  BY StepIsSound
<1> QED
  BY <1>1, <1>2, PTL DEF Spec

\* While no transaction of a connection has failed since its last handshake, the
\* response that receive_loop hands back is made of packets of the answer to this
\* very request, whatever other connections and other software do and the kernel's
\* queue drops, if connects are apart.
THEOREM AnswersAreOwn == Spec /\ []ConnectsApart => []AnswersMatch
<1>1. Inv => AnswersMatch
  BY DEF Inv, Sound, Matched, AnswersMatch
<1> QED
  BY <1>1, ApartIsSound, PTL

\* After connect or a resync that succeeded, the channel is quiet if connects are
\* apart: nothing of it is queued and the token works on nothing of it when the next
\* command is written.
THEOREM ResyncQuiets == Spec /\ []ConnectsApart => []QuietChannel
<1>1. Inv => QuietChannel
  BY DEF Inv, Sound, Settled, Quiet, NoneOf, QuietChannel
<1> QED
  BY <1>1, ApartIsSound, PTL

\* The busy retry of exchange never makes the token run a request twice, if connects
\* are apart.
THEOREM RetriesAreSafe == Spec /\ []ConnectsApart => []RunsOnce
<1>1. Inv => RunsOnce
  BY DEF Inv, Sound, Once, RunsOnce
<1> QED
  BY <1>1, ApartIsSound, PTL

\* After a CBOR exchange that timed out or failed, the token does not go on waiting
\* for a touch (the CANCEL of exchange), unless the cancel could not be written, if
\* connects are apart.
THEOREM FailureReleases == Spec /\ []ConnectsApart => []Released
<1>1. Inv => Released
  BY DEF Inv, Sound, Relieved, Released
<1> QED
  BY <1>1, ApartIsSound, PTL

\* What the nonce of NonceSource is there for holds if connects are apart: no two
\* connections share a channel.
THEOREM ApartIsOwn == Spec /\ []ConnectsApart => []OwnChannel
<1>1. Inv => OwnChannel
  BY DEF Inv, Distinct, OwnChannel
<1> QED
  BY <1>1, ApartIsSound, PTL

\* One connection alone, as the run of HidChannel has it, is apart, so that all of
\* the above holds of it.
THEOREM AloneIsApart ==
    ASSUME NEW h, Hosts = {h}
    PROVE  Spec => [](AnswersMatch /\ QuietChannel /\ RunsOnce /\ Released)
<1>1. ConnectsApart
  BY DEF ConnectsApart
<1>2. []ConnectsApart
  BY <1>1, PTL
<1> QED
  BY <1>2, AnswersAreOwn, ResyncQuiets, RetriesAreSafe, FailureReleases, PTL

=============================================================================
