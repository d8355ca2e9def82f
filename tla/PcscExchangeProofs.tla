------------------------- MODULE PcscExchangeProofs -------------------------
(***************************************************************************)
(* Theorems about PcscExchange for any callers and budgets, any guard on   *)
(* hops, any length of a response and any number of connections.  Inv is   *)
(* inductive: beside the invariants the run checks it says that an         *)
(* exclusive reader has one user, what shape the card's response has, what *)
(* an exchange has spent, and that the chunks collected so far are the     *)
(* ones the card has sent.                                                 *)
(***************************************************************************)
EXTENDS PcscExchange, DataLemmas

\* The resource manager keeps an exclusive reader to one connection.
Sole ==
    mode = "Exclusive" =>
        /\ \A h, k \in open : h = k
        /\ open # {} => rival = "away"

\* A response that has begun has chunks to go; a busy card has sent none.
Shaped(job) ==
    /\ job.sent = 0 \/ job.sent < job.length
    /\ job.busy => job.sent = 0

\* The card's own.
CardShaped == Shaped(card.job)

\* What an exchange under way has spent, and how often its request ran: once it
\* has, the command goes out again only on the one Le retry.
Accounted(x) ==
    /\ x.apdus = (MaxHops - x.hops) + (IF x.leRetried THEN 1 ELSE 0)
    /\ x.runs <= IF x.leRetried THEN 2 ELSE 1
    /\ x.next = "command" => x.runs <= IF x.leRetried THEN 1 ELSE 0
    /\ x.next # "command" => x.runs # 0
    /\ x.runs = 0 => x.collected = <<>>

\* A chunk, written by its parts.
Piece(of, run, index, last) == [of |-> of, run |-> run, index |-> index, last |-> last]

\* An exchange of a request that ran once and that nobody disturbed.
Calm(c) ==
    exchange[c].runs = 1 /\ (mode = "Exclusive" \/ ~exchange[c].disturbed)

\* The first pieces of the response to c, none of them its last.
Pieces(c, collected, sent) ==
    /\ Len(collected) = sent
    /\ \A i \in 1..Len(collected) : collected[i] = Piece(c, 1, i, FALSE)

\* The whole of it.
Whole(c, collected) ==
    \A i \in 1..Len(collected) : collected[i] = Piece(c, 1, i, i = Len(collected))

\* While such an exchange polls, the card's response is its own and what it has
\* collected is what the card has sent.
Collects(c) ==
    /\ stage[c] = "exchange" /\ Calm(c)
    /\ exchange[c].next # "command" /\ card.applet = "fido"
    => /\ card.job.of = c /\ card.job.run = 1
       /\ Pieces(c, exchange[c].collected, card.job.sent)

\* And what it returns is the whole response.
Returns(c) == stage[c] = "answered" /\ Calm(c) => Whole(c, exchange[c].collected)

\* What holds of a caller's exchange at any time.
Proceeds(c) ==
    /\ stage[c] = "exchange" => Accounted(exchange[c])
    /\ Collects(c)
    /\ Returns(c)

\* All of them.
Proceeding == \A c \in Callers : Proceeds(c)

Inv ==
    /\ TypeOK
    /\ HandlesMatch
    /\ Sole
    /\ CardShaped
    /\ Proceeding

-----------------------------------------------------------------------------
(* What the card may answer.                                               *)

\* A reply from work on a response of which `sent' chunks are out: at most the
\* next chunk, the last one if the reply is 9000; and 9000 without a chunk only
\* when there never was one.
Answers(of, run, sent, reply) ==
    /\ reply.job \in Job /\ Shaped(reply.job)
    /\ reply.data \in Seq(Chunk)
    /\ reply.sw \in {"Ok", "MoreData", "StatusUpdate"}
    /\ \/ reply.data = <<>>
       \/ reply.data = <<Piece(of, run, sent + 1, reply.sw = "Ok")>>
    /\ reply.sw = "Ok" /\ reply.data = <<>> => sent = 0
    /\ reply.sw = "StatusUpdate" => reply.data = <<>>
    /\ reply.sw # "Ok" => /\ reply.job.of = of /\ reply.job.run = run
                          /\ reply.job.sent = sent + Len(reply.data)

\* No response at all has the shape of one.
LEMMA NoJobType == NoJob \in Job /\ Shaped(NoJob)
BY PcscAssumption DEF NoJob, Job, Users, Shaped

\* A reply is what it was made of.
LEMMA ReplyFields ==
    ASSUME NEW sw, NEW data, NEW job, NEW reply, reply = Reply(sw, data, job)
    PROVE  reply.sw = sw /\ reply.data = data /\ reply.job = job
BY DEF Reply

\* What one reply carries.
LEMMA ChunkLists ==
    /\ <<>> \in Seq(Chunk) /\ Len(<<>>) = 0
    /\ \A piece \in Chunk : <<piece>> \in Seq(Chunk) /\ Len(<<piece>>) = 1
OBVIOUS

\* A response that is not waiting for its user is delivered chunk by chunk.
LEMMA DeliveryAnswers ==
    ASSUME NEW job \in Job, Shaped(job), ~job.busy, NEW reply \in Deliveries(job)
    PROVE  Answers(job.of, job.run, job.sent, reply)
<1> USE PcscAssumption
<1>1. /\ job.sent \in Nat /\ job.length \in Nat /\ job.length <= MaxChunks
      /\ job.of \in Users /\ job.run \in 0..2
  BY DEF Job
<1>2. CASE job.length = 0
  <2>1. reply = Reply("Ok", <<>>, NoJob) /\ job.sent = 0
    BY <1>1, <1>2 DEF Deliveries, Shaped
  <2>2. reply.sw = "Ok" /\ reply.data = <<>> /\ reply.job = NoJob
    BY <2>1, ReplyFields
  <2>3. QED BY <2>1, <2>2, NoJobType, ChunkLists DEF Answers
<1>3. CASE job.length # 0
  <2>1. job.sent < job.length /\ job.sent + 1 \in 1..MaxChunks
    BY <1>1, <1>3 DEF Shaped
  <2>2. \A last \in BOOLEAN : Piece(job.of, job.run, job.sent + 1, last) \in Chunk
    BY <1>1, <2>1 DEF Piece, Chunk
  <2>3. CASE reply = Reply("MoreData", <<>>, job)
    <3>1. reply.sw = "MoreData" /\ reply.data = <<>> /\ reply.job = job
      BY <2>3, ReplyFields
    <3>2. QED BY <1>1, <3>1, ChunkLists DEF Answers
  <2>4. CASE reply # Reply("MoreData", <<>>, job) /\ job.sent + 1 = job.length
    <3> DEFINE piece == Piece(job.of, job.run, job.sent + 1, TRUE)
    <3>1. reply = Reply("Ok", <<piece>>, NoJob)
      BY <1>3, <2>4 DEF Deliveries, NextChunk, Piece
    <3>3. piece \in Chunk
      BY <2>2
    <3> HIDE DEF piece
    <3>2. reply.sw = "Ok" /\ reply.data = <<piece>> /\ reply.job = NoJob
      BY <3>1, ReplyFields
    <3>4. <<piece>> \in Seq(Chunk) /\ <<piece>> # <<>>
      BY <3>3, ChunkLists
    <3>5. QED BY <3>2, <3>4, NoJobType DEF Answers, piece
  <2>5. CASE reply # Reply("MoreData", <<>>, job) /\ job.sent + 1 # job.length
    <3> DEFINE after == [job EXCEPT !.sent = @ + 1]
    <3> DEFINE piece == Piece(job.of, job.run, job.sent + 1, FALSE)
    <3>1. reply = Reply("MoreData", <<piece>>, after)
      BY <1>3, <2>5 DEF Deliveries, NextChunk, Piece
    <3>2. /\ after \in Job /\ after.of = job.of /\ after.run = job.run
          /\ after.sent = job.sent + 1 /\ after.length = job.length /\ after.busy = job.busy
      BY <1>1, <2>1 DEF Job
    <3>3. Shaped(after)
      BY <1>1, <2>1, <2>5, <3>2 DEF Shaped
    <3>4. piece \in Chunk
      BY <2>2
    <3> HIDE DEF after, piece
    <3>5. reply.sw = "MoreData" /\ reply.data = <<piece>> /\ reply.job = after
      BY <3>1, ReplyFields
    <3>7. <<piece>> \in Seq(Chunk) /\ Len(<<piece>>) = 1
      BY <3>4, ChunkLists
    <3>6. QED BY <3>2, <3>3, <3>5, <3>7 DEF Answers, piece
  <2>6. QED BY <2>3, <2>4, <2>5
<1>4. QED BY <1>2, <1>3

\* A request begun or still worked on has sent nothing yet.
LEMMA WorkAnswers ==
    ASSUME NEW job \in Job, job.sent = 0, NEW reply \in Works(job)
    PROVE  Answers(job.of, job.run, 0, reply)
<1>1. CASE reply = Reply("StatusUpdate", <<>>, [job EXCEPT !.busy = TRUE])
  <2> DEFINE j == [job EXCEPT !.busy = TRUE]
  <2>1. /\ j \in Job /\ Shaped(j)
        /\ j.of = job.of /\ j.run = job.run /\ j.sent = 0
    BY DEF Job, Shaped
  <2> HIDE DEF j
  <2>2. reply.sw = "StatusUpdate" /\ reply.data = <<>> /\ reply.job = j
    BY <1>1, ReplyFields DEF j
  <2>3. QED BY <2>1, <2>2, ChunkLists DEF Answers
<1>2. ASSUME NEW n \in 0..MaxChunks,
             reply \in Deliveries([job EXCEPT !.busy = FALSE, !.length = n])
      PROVE  Answers(job.of, job.run, 0, reply)
  <2> DEFINE j == [job EXCEPT !.busy = FALSE, !.length = n]
  <2>1. /\ j \in Job /\ ~j.busy /\ Shaped(j)
        /\ j.of = job.of /\ j.run = job.run /\ j.sent = 0
    BY DEF Job, Shaped
  <2> HIDE DEF j
  <2>2. Answers(j.of, j.run, j.sent, reply)
    BY <1>2, <2>1, DeliveryAnswers DEF j
  <2>3. QED BY <2>1, <2>2
<1>3. QED BY <1>1, <1>2 DEF Works

\* The reply to an APDU: a refusal, a wrong Le, or work on the response the
\* APDU asks for.
LEMMA CardReplies ==
    ASSUME TypeOK, CardShaped, NEW c \in Callers, Accounted(exchange[c]),
           NEW reply \in Replies(c)
    PROVE  LET x == exchange[c]
           IN  \/ reply = Reply("Other", <<>>, NoJob)
               \/ reply = Reply("WrongLe", <<>>, card.job)
               \/ /\ card.applet = "fido" /\ x.next = "command" /\ x.runs + 1 \in 1..2
                  /\ Answers(c, x.runs + 1, 0, reply)
               \/ /\ card.applet = "fido" /\ x.next # "command"
                  /\ Answers(card.job.of, card.job.run, card.job.sent, reply)
<1> DEFINE x == exchange[c]
           fresh == [NoJob EXCEPT !.of = c, !.run = x.runs + 1]
<1>1. card.job \in Job /\ x \in Exchange
  BY DEF TypeOK
<1>2. CASE card.applet = "fido" /\ x.next = "command" /\ reply \in Works(fresh)
  <2>1. x.runs + 1 \in 1..2
    BY <1>1, <1>2 DEF Accounted, Exchange
  <2>2. fresh \in Job /\ fresh.of = c /\ fresh.run = x.runs + 1 /\ fresh.sent = 0
    <3>1. c \in Users /\ x.runs + 1 \in 0..2
      BY <2>1 DEF Users
    <3>2. NoJob \in Job /\ NoJob.sent = 0
      BY NoJobType DEF NoJob
    <3> HIDE DEF x
    <3>3. QED BY <3>1, <3>2 DEF Job
  <2> HIDE DEF fresh
  <2>3. QED BY <1>2, <2>1, <2>2, WorkAnswers
<1>3. CASE /\ card.applet = "fido" /\ x.next # "command"
           /\ card.job.busy /\ reply \in Works(card.job)
  BY <1>1, <1>3, WorkAnswers DEF CardShaped, Shaped
<1>4. CASE /\ card.applet = "fido" /\ x.next # "command"
           /\ ~card.job.busy /\ reply \in Deliveries(card.job)
  BY <1>1, <1>4, DeliveryAnswers DEF CardShaped
<1>5. \/ reply = Reply("Other", <<>>, NoJob)
      \/ reply = Reply("WrongLe", <<>>, card.job)
      \/ card.applet = "fido" /\ x.next = "command" /\ reply \in Works(fresh)
      \/ /\ card.applet = "fido" /\ x.next # "command"
         /\ card.job.busy /\ reply \in Works(card.job)
      \/ /\ card.applet = "fido" /\ x.next # "command"
         /\ ~card.job.busy /\ reply \in Deliveries(card.job)
  <2> DEFINE refusals == {Reply("Other", <<>>, NoJob), Reply("WrongLe", <<>>, card.job)}
  <2>1. CASE card.applet # "fido"
    <3>1. reply \in refusals \cup {}
      BY <2>1, Zenon DEF Replies
    <3>2. QED BY <3>1
  <2>2. CASE card.applet = "fido" /\ x.next = "command"
    <3>1. reply \in refusals \cup Works(fresh)
      BY <2>2, Zenon DEF Replies
    <3>2. QED BY <2>2, <3>1
  <2>3. CASE card.applet = "fido" /\ x.next = "GETRESPONSE"
    <3>1. reply \in refusals \cup (IF card.job.busy THEN Works(card.job) ELSE {})
      BY <2>3 DEF Replies
    <3>2. QED BY <2>3, <3>1
  <2>4. CASE card.applet = "fido" /\ x.next = "GET_RESPONSE"
    <3>1. reply \in refusals \cup
             (IF card.job.of # Nobody /\ ~card.job.busy THEN Deliveries(card.job) ELSE {})
      BY <2>4 DEF Replies
    <3>2. QED BY <2>4, <3>1
  <2>5. QED BY <1>1, <2>1, <2>2, <2>3, <2>4 DEF Exchange
<1>6. QED BY <1>2, <1>3, <1>4, <1>5

-----------------------------------------------------------------------------
(* What Exchange::step makes of a reply.                                   *)

\* An exchange starts with nothing spent.
LEMMA NewExchangeType == NewExchange \in Exchange /\ Accounted(NewExchange)
BY PcscAssumption DEF NewExchange, Exchange, Accounted

\* Counting an APDU keeps the type: a command that may run has run at most once.
LEMMA CountedType ==
    ASSUME NEW x \in Exchange, NEW reply,
           x.next = "command" => x.runs + 1 \in 1..2
    PROVE  Counted(x, reply) \in Exchange
<1> DEFINE runs == IF x.next = "command" /\ reply.sw \in {"Ok", "MoreData", "StatusUpdate"}
                  THEN x.runs + 1 ELSE x.runs
<1>1. runs \in 0..2 /\ x.apdus + 1 \in Nat
  BY DEF Exchange
<1>2. Counted(x, reply) = [x EXCEPT !.apdus = x.apdus + 1, !.runs = runs]
  BY DEF Counted, Exchange
<1> HIDE DEF runs
<1>3. QED BY <1>1, <1>2 DEF Exchange

\* A step pays a hop, or the Le retry, for every APDU it sends on.
LEMMA StepAccounts ==
    ASSUME NEW x \in Exchange, Accounted(x),
           NEW reply, reply.data \in Seq(Chunk),
           x.next = "command" => x.runs + 1 \in 1..2,
           NEW y, y = Step(Counted(x, reply), reply)
    PROVE  /\ y.to \in {"open", "exchange", "answered"}
           /\ y.x \in Exchange
           /\ y.to = "exchange" => Accounted(y.x)
<1> DEFINE n == Counted(x, reply)
<1>0. /\ x.apdus \in Nat /\ x.hops \in 0..MaxHops /\ MaxHops \in Nat /\ x.runs \in 0..2
      /\ x.collected \in Seq(Chunk) /\ x.leRetried \in BOOLEAN /\ x.disturbed \in BOOLEAN
  BY PcscAssumption DEF Exchange
<1>1. /\ n.next = x.next /\ n.collected = x.collected /\ n.hops = x.hops
      /\ n.leRetried = x.leRetried /\ n.apdus = x.apdus + 1 /\ n.disturbed = x.disturbed
      /\ n.runs = IF x.next = "command" /\ reply.sw \in {"Ok", "MoreData", "StatusUpdate"}
                  THEN x.runs + 1 ELSE x.runs
  BY DEF Counted, Exchange
<1>2. n \in Exchange
  BY CountedType
<1> HIDE DEF n
<1>3. y = Step(n, reply)
  BY DEF n
<1>4. Failed.to = "open" /\ Failed.x = NewExchange
  BY DEF Failed
<1>5. CASE reply.sw = "Ok"
  <2>1. y = Completed(n, reply.data)
    BY <1>3, <1>5 DEF Step
  <2>2. n.collected \o reply.data \in Seq(Chunk)
    BY <1>0, <1>1
  <2>3. y = Failed \/ (y.to = "answered" /\ y.x \in Exchange)
    <3> DEFINE body == n.collected \o reply.data
               z == [NewExchange EXCEPT !.collected = body, !.runs = n.runs,
                                        !.disturbed = n.disturbed]
    <3>1. n.runs \in 0..2 /\ n.disturbed \in BOOLEAN /\ body \in Seq(Chunk)
      BY <1>2, <2>2 DEF Exchange
    <3>2. y = Failed \/ (y.to = "answered" /\ y.x = z)
      BY <2>1 DEF Completed
    <3> HIDE DEF body
    <3>3. z \in Exchange
      BY <3>1, NewExchangeType DEF Exchange
    <3>4. QED BY <3>2, <3>3
  <2>4. QED BY <1>4, <2>3, NewExchangeType
<1>6. ASSUME NEW apdu \in {"GET_RESPONSE", "GETRESPONSE"}, NEW data \in Seq(Chunk),
             y = Hop(n, apdu, data), reply.sw \in {"MoreData", "StatusUpdate"}
      PROVE  /\ y.to \in {"open", "exchange"} /\ y.x \in Exchange
             /\ y.to = "exchange" => Accounted(y.x)
  <2>1. CASE n.hops = 0
    BY <1>4, <1>6, <2>1, NewExchangeType DEF Hop
  <2>2. CASE n.hops # 0
    <3> DEFINE z == [n EXCEPT !.next = apdu, !.collected = @ \o data, !.hops = @ - 1]
    <3>1. y.to = "exchange" /\ y.x = z
      BY <1>6, <2>2 DEF Hop, Sends
    <3>2. /\ z.next = apdu /\ z.hops = n.hops - 1 /\ z.leRetried = n.leRetried
          /\ z.apdus = n.apdus /\ z.runs = n.runs /\ z.disturbed = n.disturbed
          /\ z.collected = n.collected \o data
      BY <1>2 DEF Exchange
    <3>3. z \in Exchange
      <4>1. n.collected \o data \in Seq(Chunk) /\ n.hops - 1 \in 0..MaxHops
        BY <1>0, <1>1, <2>2
      <4>2. QED BY <1>2, <4>1 DEF Exchange
    <3> HIDE DEF z
    <3>4. z.runs # 0 /\ z.runs <= IF z.leRetried THEN 2 ELSE 1
      BY <1>0, <1>1, <1>6, <3>2 DEF Accounted
    <3>5. z.apdus = (MaxHops - z.hops) + (IF z.leRetried THEN 1 ELSE 0)
      BY <1>0, <1>1, <3>2 DEF Accounted
    <3>6. QED BY <3>1, <3>2, <3>3, <3>4, <3>5 DEF Accounted
  <2>3. QED BY <2>1, <2>2
<1>7. CASE reply.sw \in {"MoreData", "StatusUpdate"}
  <2>1. <<>> \in Seq(Chunk)
    OBVIOUS
  <2>2. QED BY <1>3, <1>6, <1>7, <2>1 DEF Step
<1>8. CASE reply.sw = "WrongLe"
  <2>1. y = WrongLe(n)
    BY <1>3, <1>8 DEF Step
  <2>2. CASE n.leRetried
    BY <1>4, <2>1, <2>2, NewExchangeType DEF WrongLe
  <2>3. CASE ~n.leRetried
    <3> DEFINE z == [n EXCEPT !.next = "command", !.leRetried = TRUE]
    <3>1. y.to = "exchange" /\ y.x = z
      BY <2>1, <2>3 DEF WrongLe, Sends
    <3>2. /\ z \in Exchange
          /\ z.next = "command" /\ z.hops = n.hops /\ z.leRetried
          /\ z.apdus = n.apdus /\ z.runs = n.runs /\ z.collected = n.collected
      BY <1>2 DEF Exchange
    <3> HIDE DEF z
    <3>3. QED BY <1>0, <1>1, <1>8, <2>3, <3>1, <3>2 DEF Accounted
  <2>4. QED BY <2>2, <2>3
<1>9. CASE reply.sw \notin {"Ok", "MoreData", "StatusUpdate", "WrongLe"}
  BY <1>3, <1>4, <1>9, NewExchangeType DEF Step
<1>10. QED BY <1>5, <1>7, <1>8, <1>9

\* What a step does with what was collected and with the history.
Effect(n, reply, y) ==
    \/ y.to = "open" /\ y.x = NewExchange
    \/ /\ y.to \in {"exchange", "answered"}
       /\ y.x.runs = n.runs /\ y.x.disturbed = n.disturbed
       /\ \/ /\ y.to = "exchange" /\ reply.sw = "WrongLe" /\ y.x.next = "command"
          \/ /\ y.to = "exchange" /\ reply.sw = "MoreData"
             /\ y.x.collected = n.collected \o reply.data
          \/ /\ y.to = "exchange" /\ reply.sw = "StatusUpdate"
             /\ y.x.collected = n.collected
          \/ /\ y.to = "answered" /\ reply.sw = "Ok"
             /\ y.x.collected = n.collected \o reply.data /\ y.x.collected # <<>>

\* Every step has such an effect.
LEMMA StepEffect ==
    ASSUME NEW n \in Exchange, NEW reply, reply.data \in Seq(Chunk),
           NEW y, y = Step(n, reply)
    PROVE  Effect(n, reply, y)
<1> USE DEF Effect
<1>1. CASE reply.sw = "Ok"
  BY <1>1 DEF Step, Completed, Failed, NewExchange
<1>2. CASE reply.sw = "MoreData"
  BY <1>2 DEF Step, Hop, Sends, Failed, Exchange
<1>3. CASE reply.sw = "StatusUpdate"
  <2>1. n.collected \o <<>> = n.collected
    BY DEF Exchange
  <2>2. QED BY <1>3, <2>1 DEF Step, Hop, Sends, Failed, Exchange
<1>4. CASE reply.sw = "WrongLe"
  BY <1>4 DEF Step, WrongLe, Sends, Failed, Exchange
<1>5. CASE reply.sw \notin {"Ok", "MoreData", "StatusUpdate", "WrongLe"}
  BY <1>5 DEF Step, Failed
<1>6. QED BY <1>1, <1>2, <1>3, <1>4, <1>5

\* Pieces and the next one are pieces, or the whole if it was the last.
LEMMA PiecesGrow ==
    ASSUME NEW c, NEW collected \in Seq(Chunk), NEW sent, Pieces(c, collected, sent),
           NEW data \in Seq(Chunk), NEW last \in BOOLEAN,
           data = <<Piece(c, 1, sent + 1, last)>>
    PROVE  IF last THEN Whole(c, collected \o data)
           ELSE Pieces(c, collected \o data, sent + Len(data))
<1> DEFINE body == collected \o data
           piece == Piece(c, 1, sent + 1, last)
<1>1. /\ Len(collected) = sent /\ sent \in Nat
      /\ \A i \in 1..sent : collected[i] = Piece(c, 1, i, FALSE)
  <2>1. /\ Len(collected) = sent
        /\ \A i \in 1..Len(collected) : collected[i] = Piece(c, 1, i, FALSE)
    BY Zenon DEF Pieces
  <2>2. Len(collected) \in Nat
    OBVIOUS
  <2>3. QED BY <2>1, <2>2, Zenon
<1> HIDE DEF piece
<1>2. /\ Len(data) = 1 /\ Len(body) = sent + 1
      /\ \A i \in 1..sent : body[i] = collected[i]
      /\ body[sent + 1] = piece
  <2>1. Len(data) = 1 /\ data[1] = piece
    BY DEF piece
  <2>2. /\ Len(body) = sent + 1
        /\ \A i \in 1..sent : body[i] = collected[i]
        /\ body[sent + 1] = data[sent + 1 - sent]
    <3>1. /\ Len(body) = Len(collected) + Len(data)
          /\ \A k \in 1..Len(collected) : body[k] = collected[k]
          /\ \A k \in Len(collected)+1..Len(collected)+Len(data) :
                body[k] = data[k - Len(collected)]
      BY ConcatElements
    <3>2. sent + 1 \in sent+1..sent+1
      BY <1>1
    <3> HIDE DEF body
    <3>3. QED BY <1>1, <2>1, <3>1, <3>2
  <2>3. QED BY <1>1, <2>1, <2>2
<1> HIDE DEF body
<1>3. CASE last
  <2>1. ASSUME NEW i \in 1..(sent + 1) PROVE body[i] = Piece(c, 1, i, i = sent + 1)
    <3>1. CASE i = sent + 1
      BY <1>2, <1>3, <3>1 DEF piece, Piece
    <3>2. CASE i # sent + 1
      <4>1. i \in 1..sent /\ (i = sent + 1) = FALSE
        BY <1>1, <3>2
      <4>2. QED BY <1>1, <1>2, <4>1
    <3>3. QED BY <3>1, <3>2
  <2>2. Whole(c, body)
    BY <1>2, <2>1 DEF Whole
  <2>3. QED BY <1>3, <2>2 DEF body
<1>4. CASE ~last
  <2>1. ASSUME NEW i \in 1..(sent + 1) PROVE body[i] = Piece(c, 1, i, FALSE)
    <3>1. CASE i = sent + 1
      BY <1>2, <1>4, <3>1 DEF piece, Piece
    <3>2. CASE i # sent + 1
      <4>1. i \in 1..sent
        BY <1>1, <3>2
      <4>2. QED BY <1>1, <1>2, <4>1
    <3>3. QED BY <3>1, <3>2
  <2>2. Pieces(c, body, sent + Len(data))
    BY <1>1, <1>2, <2>1 DEF Pieces
  <2>3. QED BY <1>4, <2>2 DEF body
<1>5. QED BY <1>3, <1>4

\* A step on a reply to the request that ran once keeps the exchange in step
\* with the card.
LEMMA StepCollects ==
    ASSUME NEW c, NEW n \in Exchange, NEW sent, Pieces(c, n.collected, sent),
           NEW reply, Answers(c, 1, sent, reply),
           NEW y, y = Step(n, reply)
    PROVE  /\ y.to = "exchange" =>
                 /\ reply.job.of = c /\ reply.job.run = 1
                 /\ Pieces(c, y.x.collected, reply.job.sent)
           /\ y.to = "answered" => Whole(c, y.x.collected)
<1>1. /\ n.collected \in Seq(Chunk) /\ reply.data \in Seq(Chunk)
      /\ reply.sw \in {"Ok", "MoreData", "StatusUpdate"}
      /\ Len(n.collected) = sent /\ sent \in Nat
  BY DEF Exchange, Answers, Pieces
<1>2. CASE reply.data = <<>>
  <2>1. n.collected \o reply.data = n.collected /\ Len(reply.data) = 0
    BY <1>1, <1>2
  <2>2. reply.sw = "Ok" => n.collected = <<>>
    BY <1>1, <1>2 DEF Answers
  <2>3. reply.sw # "Ok" =>
           reply.job.of = c /\ reply.job.run = 1 /\ reply.job.sent = sent
    BY <1>1, <2>1 DEF Answers
  <2>4. CASE reply.sw = "Ok"
    <3>1. Effect(n, reply, y)
      BY <1>1, StepEffect
    <3>2. y.to = "open"
      BY <2>1, <2>2, <2>4, <3>1 DEF Effect
    <3>3. QED BY <3>2
  <2>5. CASE reply.sw # "Ok"
    <3>1. Effect(n, reply, y)
      BY <1>1, StepEffect
    <3>2. \/ y.to = "open"
          \/ y.to = "exchange" /\ y.x.collected = n.collected
      BY <1>1, <2>1, <2>5, <3>1 DEF Effect
    <3>3. QED BY <2>3, <2>5, <3>2
  <2>6. QED BY <2>4, <2>5
<1>3. CASE reply.data # <<>>
  <2> DEFINE last == reply.sw = "Ok"
  <2>1. reply.data = <<Piece(c, 1, sent + 1, last)>> /\ last \in BOOLEAN
    BY <1>3 DEF Answers
  <2>2. IF last THEN Whole(c, n.collected \o reply.data)
        ELSE Pieces(c, n.collected \o reply.data, sent + Len(reply.data))
    <3> HIDE DEF last
    <3> QED BY <1>1, <2>1, PiecesGrow
  <2>3. ~last => /\ reply.job.of = c /\ reply.job.run = 1
                 /\ reply.job.sent = sent + Len(reply.data)
    BY DEF Answers
  <2>4. reply.sw # "StatusUpdate"
    BY <1>3 DEF Answers
  <2>5. Effect(n, reply, y)
    BY <1>1, StepEffect
  <2>6. QED BY <1>1, <2>2, <2>3, <2>4, <2>5 DEF Effect
<1>4. QED BY <1>2, <1>3

-----------------------------------------------------------------------------
(* Handles.                                                                *)

\* The types of handles and stages.
HandleType ==
    /\ tokens \in 0..MaxTokens
    /\ open \subseteq 1..tokens /\ stale \subseteq open
    /\ conn \in [Callers -> 0..tokens]
    /\ stage \in [Callers -> Stages]

\* The stages without a connection.
Unconnected == {"idle", "connecting"}

\* A caller gives its handle back and is idle.
LEMMA ReleaseStep ==
    ASSUME TypeOK, HandlesMatch, Sole, NEW c \in Callers, stage[c] \notin Unconnected,
           Goes(c, "idle"), Release(c), UNCHANGED <<mode, rival>>
    PROVE  /\ HandlesMatch' /\ Sole'
           /\ HandleType'
<1>1. /\ tokens' = tokens /\ open' = open \ {conn[c]} /\ stale' = stale \ {conn[c]}
      /\ conn' = [conn EXCEPT ![c] = 0] /\ stage' = [stage EXCEPT ![c] = "idle"]
      /\ conn[c] # 0 /\ tokens \in Nat
  BY PcscAssumption DEF Release, Goes, HandlesMatch, Unconnected, TypeOK
<1>2. HandleType'
  <2>1. 0 \in 0..tokens
    BY <1>1
  <2>2. tokens' \in 0..MaxTokens /\ open' \subseteq 1..tokens' /\ stale' \subseteq open'
    BY <1>1 DEF TypeOK
  <2>3. conn' \in [Callers -> 0..tokens']
    BY <1>1, <2>1 DEF TypeOK
  <2>4. stage' \in [Callers -> Stages]
    BY <1>1 DEF TypeOK, Stages
  <2>5. QED BY <2>2, <2>3, <2>4 DEF HandleType
<1>3. \A d \in Callers : conn'[d] = IF d = c THEN 0 ELSE conn[d]
  BY <1>1 DEF TypeOK
<1>4. open' = {conn'[d] : d \in Callers} \ {0}
  <2>1. open = {conn[d] : d \in Callers} \ {0}
    BY DEF HandlesMatch
  <2>2. \A d \in Callers : d # c => conn[d] # conn[c]
    BY <1>1 DEF HandlesMatch
  <2>3. ASSUME NEW h PROVE h \in open' <=> h \in {conn'[d] : d \in Callers} \ {0}
    BY <1>1, <1>3, <2>1, <2>2
  <2>4. QED BY <2>3
<1>5. \A d, e \in Callers : conn'[d] = conn'[e] /\ d # e => conn'[d] = 0
  BY <1>3 DEF HandlesMatch
<1>6. \A d \in Callers : conn'[d] = 0 <=> stage'[d] \in {"idle", "connecting"}
  BY <1>1, <1>3 DEF HandlesMatch, TypeOK
<1>7. Sole'
  BY <1>1 DEF Sole
<1>8. QED BY <1>2, <1>4, <1>5, <1>6, <1>7 DEF HandlesMatch

\* The resource manager grants a connection that nothing stands against.
LEMMA GrantStep ==
    ASSUME TypeOK, HandlesMatch, Sole, NEW c \in Callers, stage[c] = "connecting",
           ~Contended, tokens < MaxTokens,
           tokens' = tokens + 1, open' = open \cup {tokens + 1}, stale' = stale,
           conn' = [conn EXCEPT ![c] = tokens + 1], Goes(c, "selecting"),
           UNCHANGED <<mode, rival>>
    PROVE  /\ HandlesMatch' /\ Sole'
           /\ HandleType'
<1>1. /\ tokens \in Nat /\ MaxTokens \in Nat /\ stage' = [stage EXCEPT ![c] = "selecting"]
      /\ conn[c] = 0 /\ open \subseteq 1..tokens /\ conn \in [Callers -> 0..tokens]
  BY PcscAssumption DEF Goes, HandlesMatch, TypeOK
<1>2. HandleType'
  <2>1. 0..tokens \subseteq 0..(tokens + 1) /\ 1..tokens \subseteq 1..(tokens + 1)
    BY <1>1
  <2>2. tokens + 1 \in 0..MaxTokens /\ tokens + 1 \in 1..(tokens + 1)
    BY <1>1
  <2>3. QED BY <1>1, <2>1, <2>2 DEF HandleType, TypeOK, Stages
<1>3. \A d \in Callers : conn'[d] = IF d = c THEN tokens + 1 ELSE conn[d]
  BY <1>1
<1>4. \A d \in Callers : conn[d] # tokens + 1
  BY <1>1
<1>5. open' = {conn'[d] : d \in Callers} \ {0}
  <2>1. tokens + 1 # 0
    BY <1>1
  <2>2. open = {conn[d] : d \in Callers} \ {0}
    BY DEF HandlesMatch
  <2>3. QED BY <1>1, <1>3, <2>1, <2>2
<1>6. \A d, e \in Callers : conn'[d] = conn'[e] /\ d # e => conn'[d] = 0
  BY <1>3, <1>4 DEF HandlesMatch
<1>7. \A d \in Callers : conn'[d] = 0 <=> stage'[d] \in {"idle", "connecting"}
  BY <1>1, <1>3 DEF HandlesMatch, TypeOK
<1>8. Sole'
  BY DEF Sole, Contended
<1>9. QED BY <1>2, <1>5, <1>6, <1>7, <1>8 DEF HandlesMatch

\* A step that opens and releases nothing.
Holds ==
    /\ UNCHANGED <<mode, open, tokens, conn>>
    /\ stage' \in [Callers -> Stages]
    /\ \A c \in Callers : stage'[c] \in Unconnected <=> stage[c] \in Unconnected
    /\ stale' \subseteq open
    /\ mode = "Exclusive" /\ open # {} => rival' = rival \/ rival' = "away"

\* Such a step keeps the handles as they are.
LEMMA HoldsStep ==
    ASSUME TypeOK, HandlesMatch, Sole, Holds
    PROVE  /\ HandlesMatch' /\ Sole'
           /\ HandleType'
<1>1. HandlesMatch'
  BY DEF Holds, HandlesMatch, Unconnected
<1>2. Sole'
  BY DEF Holds, Sole
<1>3. QED BY <1>1, <1>2 DEF Holds, HandleType, TypeOK

\* On an exclusive reader nobody else reaches the card of an exchange.
LEMMA Alone ==
    ASSUME TypeOK, HandlesMatch, Sole, mode = "Exclusive",
           NEW c \in Callers, stage[c] = "exchange"
    PROVE  /\ rival = "away"
           /\ \A d \in Callers \ {c} : ~Reaches(d)
<1>1. conn[c] # 0 /\ conn[c] \in open
  BY DEF HandlesMatch
<1>2. rival = "away"
  BY <1>1 DEF Sole
<1>3. ASSUME NEW d \in Callers \ {c}, Reaches(d) PROVE FALSE
  <2>1. conn[d] \in open
    BY <1>3 DEF Reaches
  <2>2. conn[d] = conn[c]
    BY <1>1, <2>1 DEF Sole
  <2>3. QED BY <1>1, <2>2 DEF HandlesMatch
<1>4. QED BY <1>2, <1>3

-----------------------------------------------------------------------------
(* Exchanges.                                                              *)

\* What a step may do to the exchange of a caller that it is not about: leave it
\* alone, disturb it, or start it afresh.
Spared(c) ==
    /\ exchange'[c] = exchange[c]
    /\ stage'[c] \in {"exchange", "answered"} => stage'[c] = stage[c]
    /\ card' = card \/ card'.applet # "fido" \/ stage[c] # "exchange"

Hindered(c) ==
    /\ mode # "Exclusive"
    /\ stage[c] = "exchange" /\ stage'[c] = "exchange"
    /\ exchange'[c] = [exchange[c] EXCEPT !.disturbed = TRUE]

Renewed(c) == exchange'[c] = NewExchange /\ stage'[c] # "answered"

\* An exchange that a step is not about stays sound.
LEMMA OthersProceed ==
    ASSUME TypeOK, NEW c \in Callers, Proceeds(c), UNCHANGED mode,
           Spared(c) \/ Hindered(c) \/ Renewed(c)
    PROVE  Proceeds(c)' /\ exchange'[c] \in Exchange
<1>1. exchange[c] \in Exchange
  BY DEF TypeOK
<1>2. CASE Spared(c)
  BY <1>1, <1>2 DEF Spared, Proceeds, Collects, Returns, Calm
<1>3. CASE Hindered(c)
  <2> DEFINE x == [exchange[c] EXCEPT !.disturbed = TRUE]
  <2>1. /\ x \in Exchange /\ x.disturbed
        /\ x.apdus = exchange[c].apdus /\ x.hops = exchange[c].hops
        /\ x.leRetried = exchange[c].leRetried /\ x.runs = exchange[c].runs
        /\ x.next = exchange[c].next /\ x.collected = exchange[c].collected
    BY <1>1 DEF Exchange
  <2> HIDE DEF x
  <2>2. Accounted(x)
    BY <1>3, <2>1 DEF Hindered, Proceeds, Accounted
  <2>3. exchange'[c] = x /\ mode' # "Exclusive" /\ stage'[c] = "exchange"
    BY <1>3 DEF Hindered, x
  <2>4. ~Calm(c)'
    BY <2>1, <2>3 DEF Calm
  <2>5. QED BY <2>1, <2>2, <2>3, <2>4 DEF Proceeds, Collects, Returns
<1>4. CASE Renewed(c)
  <2>1. NewExchange.runs = 0
    BY DEF NewExchange
  <2>2. QED BY <1>4, <2>1, NewExchangeType DEF Renewed, Proceeds, Collects, Returns, Calm
<1>5. QED BY <1>2, <1>3, <1>4

\* A user's APDU disturbs the exchanges of the others, who have none on an
\* exclusive reader.
LEMMA DisturbedOthers ==
    ASSUME TypeOK, HandlesMatch, Sole, NEW user, NEW c \in Callers \ {user},
           \/ user = Rival /\ rival # "away"
           \/ user \in Callers /\ Reaches(user),
           exchange'[c] = Disturbed(user)[c],
           stage'[c] = stage[c]
    PROVE  Spared(c) \/ Hindered(c)
<1>1. CASE stage[c] = "exchange"
  <2>1. mode # "Exclusive"
    BY <1>1, Alone
  <2>2. QED BY <1>1, <2>1 DEF Hindered, Disturbed
<1>2. CASE stage[c] # "exchange"
  BY <1>2 DEF Spared, Disturbed
<1>3. QED BY <1>1, <1>2

\* The caller's own exchange after an APDU the card answered.
LEMMA TransmitProceeds ==
    ASSUME TypeOK, HandlesMatch, Sole, CardShaped, Proceeding,
           NEW c \in Callers, Transmit(c)
    PROVE  /\ card' \in [applet : {"none", "fido", "other"}, job : Job] /\ CardShaped'
           /\ exchange' \in [Callers -> Exchange] /\ Proceeding'
           /\ Holds
<1> DEFINE x == exchange[c]
<1>1. /\ stage[c] = "exchange" /\ Reaches(c) /\ UNCHANGED <<mode, rival, handles, conn>>
      /\ stage \in [Callers -> Stages] /\ exchange \in [Callers -> Exchange]
      /\ x \in Exchange /\ Accounted(x) /\ Collects(c)
  BY DEF Transmit, TypeOK, Proceeding, Proceeds
<1>2. PICK reply \in Replies(c) :
         LET after == Step(Counted(exchange[c], reply), reply)
         IN  /\ card' = [card EXCEPT !.job = reply.job]
             /\ Goes(c, after.to)
             /\ exchange' = [Disturbed(c) EXCEPT ![c] = after.x]
  BY DEF Transmit
<1> DEFINE n == Counted(x, reply)
           y == Step(n, reply)
<1>3. /\ card' = [card EXCEPT !.job = reply.job]
      /\ stage' = [stage EXCEPT ![c] = y.to]
      /\ exchange' = [Disturbed(c) EXCEPT ![c] = y.x]
  BY <1>2, Zenon DEF Goes
<1> HIDE DEF x
<1>4. \/ reply = Reply("Other", <<>>, NoJob)
      \/ reply = Reply("WrongLe", <<>>, card.job)
      \/ /\ card.applet = "fido" /\ x.next = "command" /\ x.runs + 1 \in 1..2
         /\ Answers(c, x.runs + 1, 0, reply)
      \/ /\ card.applet = "fido" /\ x.next # "command"
         /\ Answers(card.job.of, card.job.run, card.job.sent, reply)
  BY <1>1, CardReplies DEF x
<1>5. card.job \in Job /\ Shaped(card.job)
  BY DEF TypeOK, CardShaped
<1>6. /\ reply.job \in Job /\ Shaped(reply.job) /\ reply.data \in Seq(Chunk)
  <2>1. CASE reply = Reply("Other", <<>>, NoJob)
    <3>1. reply.job = NoJob /\ reply.data = <<>>
      BY <2>1, ReplyFields
    <3>2. QED BY <3>1, NoJobType, ChunkLists
  <2>2. CASE reply = Reply("WrongLe", <<>>, card.job)
    <3>1. reply.job = card.job /\ reply.data = <<>>
      BY <2>2, ReplyFields
    <3>2. QED BY <1>5, <3>1, ChunkLists
  <2>3. QED BY <1>4, <2>1, <2>2 DEF Answers
<1>7. /\ n.next = x.next /\ n.collected = x.collected /\ n.disturbed = x.disturbed
      /\ n.runs = IF x.next = "command" /\ reply.sw \in {"Ok", "MoreData", "StatusUpdate"}
                  THEN x.runs + 1 ELSE x.runs
  BY <1>1 DEF Counted, Exchange
<1>8. x.next = "command" => x.runs + 1 \in 1..2
  BY <1>1 DEF Accounted, Exchange
<1>9. n \in Exchange
  BY <1>1, <1>8, CountedType
<1>10. /\ y.to \in {"open", "exchange", "answered"} /\ y.x \in Exchange
       /\ y.to = "exchange" => Accounted(y.x)
  BY <1>1, <1>6, <1>8, StepAccounts
<1>11. Effect(n, reply, y)
  BY <1>6, <1>9, StepEffect
<1>12. ASSUME y.to # "open", y.x.runs = 1, mode = "Exclusive" \/ ~y.x.disturbed,
              y.to = "exchange" => y.x.next # "command"
       PROVE  /\ y.to = "exchange" =>
                    /\ reply.job.of = c /\ reply.job.run = 1
                    /\ Pieces(c, y.x.collected, reply.job.sent)
              /\ y.to = "answered" => Whole(c, y.x.collected)
  <2>1. /\ n.runs = 1 /\ n.disturbed = y.x.disturbed
        /\ reply.sw \in {"Ok", "MoreData", "StatusUpdate"}
    BY <1>11, <1>12 DEF Effect
  <2>2. CASE Answers(c, x.runs + 1, 0, reply) /\ x.next = "command"
    <3>1. x.runs = 0 /\ x.collected = <<>>
      BY <1>1, <1>7, <2>1, <2>2 DEF Exchange, Accounted
    <3>2. Pieces(c, n.collected, 0)
      BY <1>7, <3>1 DEF Pieces
    <3>3. Answers(c, 1, 0, reply)
      BY <2>2, <3>1
    <3> HIDE DEF n
    <3>4. QED BY <1>9, <3>2, <3>3, StepCollects
  <2>3. CASE /\ card.applet = "fido" /\ x.next # "command"
             /\ Answers(card.job.of, card.job.run, card.job.sent, reply)
    <3>1. x.runs = 1 /\ (mode = "Exclusive" \/ ~x.disturbed)
      BY <1>7, <1>12, <2>1, <2>3
    <3>2. /\ card.job.of = c /\ card.job.run = 1
          /\ Pieces(c, n.collected, card.job.sent)
      BY <1>1, <1>7, <2>3, <3>1 DEF Collects, Calm, x
    <3> HIDE DEF n
    <3>3. QED BY <1>9, <2>3, <3>2, StepCollects
  <2>4. reply.sw \notin {"Other", "WrongLe"}
    BY <2>1
  <2>5. reply # Reply("Other", <<>>, NoJob) /\ reply # Reply("WrongLe", <<>>, card.job)
    BY <2>4, ReplyFields
  <2>6. QED BY <1>4, <2>2, <2>3, <2>5
<1> HIDE DEF n, y
<1>13. /\ card'.job = reply.job /\ card'.applet = card.applet
       /\ card' \in [applet : {"none", "fido", "other"}, job : Job] /\ CardShaped'
  <2>1. card \in [applet : {"none", "fido", "other"}, job : Job]
    BY DEF TypeOK
  <2>2. /\ card'.job = reply.job /\ card'.applet = card.applet
        /\ card' \in [applet : {"none", "fido", "other"}, job : Job]
    BY <1>3, <1>6, <2>1
  <2>3. QED BY <1>6, <2>2 DEF CardShaped
<1>14. /\ stage'[c] = y.to /\ exchange'[c] = y.x
       /\ \A d \in Callers \ {c} : stage'[d] = stage[d] /\ exchange'[d] = Disturbed(c)[d]
  BY <1>1, <1>3 DEF Disturbed
<1>15. Proceeds(c)'
  <2>1. stage'[c] = "exchange" => Accounted(exchange'[c])
    BY <1>10, <1>14
  <2>2. Collects(c)'
    BY <1>1, <1>12, <1>13, <1>14 DEF Collects, Calm
  <2>3. Returns(c)'
    BY <1>1, <1>12, <1>14 DEF Returns, Calm
  <2>4. QED BY <2>1, <2>2, <2>3 DEF Proceeds
<1>16. ASSUME NEW d \in Callers \ {c} PROVE Proceeds(d)' /\ exchange'[d] \in Exchange
  <2>1. Spared(d) \/ Hindered(d)
    BY <1>1, <1>14, DisturbedOthers
  <2>2. QED BY <1>1, <2>1, OthersProceed DEF Proceeding
<1>17. exchange' \in [Callers -> Exchange] /\ Proceeding'
  <2>1. exchange' \in [Callers -> Exchange]
    <3>1. DOMAIN exchange' = Callers /\ exchange' = [d \in Callers |-> exchange'[d]]
      BY <1>3 DEF Disturbed
    <3>2. \A d \in Callers : exchange'[d] \in Exchange
      BY <1>10, <1>14, <1>16
    <3>3. QED BY <3>1, <3>2
  <2>2. QED BY <1>15, <1>16, <2>1 DEF Proceeding
<1>18. Holds
  BY <1>1, <1>3, <1>10 DEF Holds, handles, TypeOK, Stages, Unconnected
<1>19. QED BY <1>13, <1>17, <1>18

-----------------------------------------------------------------------------
(* The inductive invariant.                                                *)

\* What no exchange and no handle depends on.
OthersType ==
    /\ mode \in Modes /\ present \in BOOLEAN /\ rival \in {"away", "Shared", "Exclusive"}
    /\ left \in [Callers -> 0..Budget] /\ turn \in BOOLEAN

\* Every step keeps these types.
LEMMA OthersStep == TypeOK /\ [Next]_vars => OthersType'
<1> SUFFICES ASSUME TypeOK, [Next]_vars PROVE OthersType' OBVIOUS
<1> USE DEF TypeOK, OthersType
<1>1. ASSUME NEW c \in Callers, Attempt(c) PROVE OthersType'
  BY <1>1 DEF Attempt
<1>2. ASSUME NEW c \in Callers, SelectApplet(c) \/ Transmit(c) \/ TransmitFails(c)
      PROVE  OthersType'
  BY <1>2 DEF SelectApplet, Transmit, TransmitFails
<1>3. ASSUME NEW c \in Callers, PollField(c) PROVE OthersType'
  <2>1. UNCHANGED left \/ (left[c] # 0 /\ left' = [left EXCEPT ![c] = @ - 1])
    BY <1>3 DEF PollField
  <2>2. left' \in [Callers -> 0..Budget]
    BY <2>1, PcscAssumption
  <2>3. QED BY <1>3, <2>2 DEF PollField
<1>4. ASSUME NEW c \in Callers, Connect(c) \/ Send(c) \/ WaitForField(c) \/ Close(c)
      PROVE  OthersType'
  BY <1>4 DEF Connect, Send, WaitForField, Close
<1>5. ASSUME CardLeaves \/ CardReturns \/ RivalLeaves \/ RivalUses PROVE OthersType'
  BY <1>5 DEF CardLeaves, CardReturns, RivalLeaves, RivalUses
<1>6. ASSUME NEW share \in {"Shared", "Exclusive"}, RivalConnects(share) PROVE OthersType'
  BY <1>6 DEF RivalConnects
<1>7. CASE UNCHANGED vars
  BY <1>7 DEF vars
<1>8. QED BY <1>1, <1>2, <1>3, <1>4, <1>5, <1>6, <1>7 DEF Next, Progress

\* The type of the card, its response in shape.
CardType == card \in [applet : {"none", "fido", "other"}, job : Job] /\ CardShaped

\* A card without power has the type of one.
LEMMA OffType == Off \in [applet : {"none", "fido", "other"}, job : Job] /\ Shaped(Off.job)
BY NoJobType DEF Off

\* Every step keeps the handles owned, one each.
LEMMA HandleStep ==
    ASSUME Inv, [Next]_vars
    PROVE  /\ HandlesMatch' /\ Sole'
           /\ HandleType'
<1> DEFINE Goal == /\ HandlesMatch' /\ Sole'
                   /\ HandleType'
<1> USE DEF Inv
<1>1. Holds => Goal
  BY HoldsStep
<1>2. ASSUME NEW c \in Callers, stage[c] \notin Unconnected, Goes(c, "idle"), Release(c),
             UNCHANGED <<mode, rival>>
      PROVE  Goal
  BY <1>2, ReleaseStep
<1> HIDE DEF Goal
<1>3. ASSUME NEW c \in Callers, Attempt(c) PROVE Goal
  <2>1. CASE /\ stage[c] = "connecting" /\ ~Contended /\ tokens < MaxTokens
             /\ tokens' = tokens + 1 /\ open' = open \cup {tokens + 1} /\ stale' = stale
             /\ conn' = [conn EXCEPT ![c] = tokens + 1] /\ Goes(c, "selecting")
             /\ UNCHANGED <<mode, rival>>
    BY <2>1, GrantStep DEF Goal
  <2>2. CASE /\ stage[c] = "connecting" /\ UNCHANGED <<mode, rival, handles, conn>>
             /\ UNCHANGED stage \/ Goes(c, "idle")
    <3>1. Holds
      BY <2>2 DEF Holds, handles, Goes, TypeOK, Stages, Unconnected
    <3>2. QED BY <1>1, <3>1
  <2>3. QED BY <1>3, <2>1, <2>2 DEF Attempt
<1>4. ASSUME NEW c \in Callers, SelectApplet(c) PROVE Goal
  <2>1. CASE Goes(c, "idle") /\ Release(c)
    BY <1>2, <1>4, <2>1 DEF SelectApplet, Unconnected
  <2>2. CASE Goes(c, "open") /\ UNCHANGED <<handles, conn>>
    <3>1. Holds
      BY <1>4, <2>2 DEF SelectApplet, Holds, handles, Goes, TypeOK, Stages, Unconnected
    <3>2. QED BY <1>1, <3>1
  <2>3. QED BY <1>4, <2>1, <2>2 DEF SelectApplet
<1>5. ASSUME NEW c \in Callers, Transmit(c) PROVE Goal
  BY <1>1, <1>5, TransmitProceeds
<1>6. ASSUME NEW c \in Callers,
             TransmitFails(c) \/ PollField(c) \/ WaitForField(c) \/ Send(c)
      PROVE  Goal
  <2>1. Holds
    BY <1>6
    DEF TransmitFails, PollField, WaitForField, Send, Holds, handles, Goes, TypeOK, Stages,
        Unconnected
  <2>2. QED BY <1>1, <2>1
<1>7. ASSUME NEW c \in Callers, Connect(c) PROVE Goal
  <2>1. Holds
    BY <1>7 DEF Connect, Holds, handles, Goes, TypeOK, Stages, Unconnected
  <2>2. QED BY <1>1, <2>1
<1>8. ASSUME NEW c \in Callers, Close(c) PROVE Goal
  BY <1>2, <1>8 DEF Close, Unconnected
<1>9. ASSUME CardLeaves \/ CardReturns \/ RivalLeaves \/ RivalUses \/ UNCHANGED vars
      PROVE  Goal
  <2>1. Holds
    BY <1>9
    DEF CardLeaves, CardReturns, RivalLeaves, RivalUses, vars, Holds, handles, TypeOK
  <2>2. QED BY <1>1, <2>1
<1>10. ASSUME NEW share \in {"Shared", "Exclusive"}, RivalConnects(share) PROVE Goal
  <2>1. Holds
    BY <1>10 DEF RivalConnects, Holds, handles, TypeOK
  <2>2. QED BY <1>1, <2>1
<1>11. Goal
  BY <1>3, <1>4, <1>5, <1>6, <1>7, <1>8, <1>9, <1>10 DEF Next, Progress
<1>12. QED BY <1>11 DEF Goal

\* Every step keeps all exchanges sound and the card in shape.
LEMMA ExchangeStep ==
    ASSUME Inv, [Next]_vars
    PROVE  CardType' /\ exchange' \in [Callers -> Exchange] /\ Proceeding'
<1> DEFINE Goal == CardType' /\ exchange' \in [Callers -> Exchange] /\ Proceeding'
<1> USE DEF Inv
<1>1. ASSUME UNCHANGED mode, CardType',
             DOMAIN exchange' = Callers /\ exchange' = [c \in Callers |-> exchange'[c]],
             \A c \in Callers : Spared(c) \/ Hindered(c) \/ Renewed(c)
      PROVE  Goal
  <2>1. \A c \in Callers : Proceeds(c)' /\ exchange'[c] \in Exchange
    BY <1>1, OthersProceed DEF Proceeding
  <2>2. QED BY <1>1, <2>1 DEF Proceeding
<1>2. CardType
  BY DEF CardType, TypeOK
<1>3. exchange \in [Callers -> Exchange] /\ stage \in [Callers -> Stages]
  BY DEF TypeOK
<1> HIDE DEF Goal
<1>4. ASSUME NEW c \in Callers, Transmit(c) PROVE Goal
  BY <1>4, TransmitProceeds DEF CardType, Goal
<1>5. ASSUME UNCHANGED <<mode, exchange>>, CardType',
             card' = card \/ card'.applet # "fido",
             \A c \in Callers :
                 stage'[c] \in {"exchange", "answered"} => stage'[c] = stage[c]
      PROVE  Goal
  <2>1. \A c \in Callers : Spared(c)
    BY <1>5 DEF Spared
  <2>2. QED BY <1>1, <1>3, <1>5, <2>1
<1>6. ASSUME NEW c \in Callers, NEW to \in Stages \ {"answered"}, Goes(c, to),
             UNCHANGED <<mode, card>>,
             exchange' = [exchange EXCEPT ![c] = NewExchange]
      PROVE  Goal
  <2>1. Renewed(c) /\ \A d \in Callers \ {c} : Spared(d)
    BY <1>3, <1>6 DEF Renewed, Spared, Goes
  <2>2. CardType'
    BY <1>2, <1>6 DEF CardType, CardShaped
  <2>3. DOMAIN exchange' = Callers /\ exchange' = [d \in Callers |-> exchange'[d]]
    BY <1>3, <1>6
  <2>4. QED BY <1>1, <1>6, <2>1, <2>2, <2>3
<1>7. ASSUME NEW c \in Callers, Attempt(c) \/ Connect(c) \/ PollField(c) PROVE Goal
  <2>1. UNCHANGED <<mode, card, exchange>>
    BY <1>7 DEF Attempt, Connect, PollField
  <2>2. \A d \in Callers : stage'[d] \in {"exchange", "answered"} => stage'[d] = stage[d]
    BY <1>3, <1>7 DEF Attempt, Connect, PollField, Goes
  <2>3. CardType'
    BY <1>2, <2>1 DEF CardType, CardShaped
  <2>4. QED BY <1>5, <2>1, <2>2, <2>3
<1>8. ASSUME NEW c \in Callers, SelectApplet(c) PROVE Goal
  <2>1. /\ UNCHANGED mode /\ stage[c] = "selecting"
        /\ Goes(c, "open") \/ Goes(c, "idle")
        /\ \/ Reaches(c) /\ exchange' = Disturbed(c)
              /\ (card' = [applet |-> "fido", job |-> NoJob] \/ card' = Off)
           \/ UNCHANGED <<card, exchange>>
    BY <1>8 DEF SelectApplet
  <2>2. CASE UNCHANGED <<card, exchange>>
    <3>1. \A d \in Callers : stage'[d] \in {"exchange", "answered"} => stage'[d] = stage[d]
      BY <1>3, <2>1 DEF Goes
    <3>2. CardType'
      BY <1>2, <2>2 DEF CardType, CardShaped
    <3>3. QED BY <1>5, <2>1, <2>2, <3>1, <3>2
  <2>3. CASE /\ Reaches(c) /\ exchange' = Disturbed(c)
             /\ (card' = [applet |-> "fido", job |-> NoJob] \/ card' = Off)
    <3>1. CardType'
      BY <2>3, NoJobType, OffType DEF CardType, CardShaped
    <3>2. \A d \in Callers \ {c} : stage'[d] = stage[d]
      BY <1>3, <2>1 DEF Goes
    <3>3. \A d \in Callers \ {c} : Spared(d) \/ Hindered(d)
      BY <2>3, <3>2, DisturbedOthers
    <3>4. Spared(c)
      BY <1>3, <2>1, <2>3 DEF Spared, Goes, Disturbed
    <3>5. DOMAIN exchange' = Callers /\ exchange' = [d \in Callers |-> exchange'[d]]
      BY <2>3 DEF Disturbed
    <3>6. QED BY <1>1, <2>1, <3>1, <3>3, <3>4, <3>5
  <2>4. QED BY <2>1, <2>2, <2>3
<1>9. ASSUME NEW c \in Callers, TransmitFails(c) \/ WaitForField(c) \/ Send(c) \/ Close(c)
      PROVE  Goal
  <2>1. PICK to \in {"open", "field", "exchange", "idle"} : Goes(c, to)
    BY <1>9 DEF TransmitFails, WaitForField, Send, Close
  <2>2. UNCHANGED <<mode, card>> /\ exchange' = [exchange EXCEPT ![c] = NewExchange]
    BY <1>9 DEF TransmitFails, WaitForField, Send, Close
  <2>3. QED BY <1>6, <2>1, <2>2 DEF Stages
<1>10. ASSUME CardLeaves PROVE Goal
  <2>1. UNCHANGED <<mode, stage, exchange>> /\ card' = Off
    BY <1>10 DEF CardLeaves
  <2>2. CardType' /\ card'.applet # "fido"
    BY <2>1, OffType DEF CardType, CardShaped, Off
  <2>3. QED BY <1>5, <2>1, <2>2
<1>11. ASSUME \/ CardReturns \/ RivalLeaves \/ UNCHANGED vars
              \/ \E share \in {"Shared", "Exclusive"} : RivalConnects(share)
       PROVE  Goal
  <2>1. UNCHANGED <<mode, stage, exchange, card>>
    BY <1>11 DEF CardReturns, RivalLeaves, RivalConnects, vars
  <2>2. CardType'
    BY <1>2, <2>1 DEF CardType, CardShaped
  <2>3. QED BY <1>5, <2>1, <2>2
<1>12. ASSUME RivalUses PROVE Goal
  <2>1. /\ rival # "away" /\ UNCHANGED <<mode, stage>> /\ exchange' = Disturbed(Rival)
        /\ \/ card' = [applet |-> "other", job |-> NoJob]
           \/ card' = [applet |-> "fido",
                       job |-> [NoJob EXCEPT !.of = Rival, !.length = MaxChunks]]
    BY <1>12 DEF RivalUses
  <2>2. CardType'
    <3> DEFINE job == [NoJob EXCEPT !.of = Rival, !.length = MaxChunks]
    <3>1. job \in Job /\ Shaped(job)
      <4>1. Rival \in Users /\ MaxChunks \in 0..MaxChunks
        BY PcscAssumption DEF Users
      <4>2. NoJob.sent = 0 /\ NoJob \in Job
        BY NoJobType DEF NoJob
      <4>3. job \in Job /\ job.sent = 0
        BY <4>1, <4>2 DEF Job
      <4>4. QED BY <4>3 DEF Shaped
    <3> HIDE DEF job
    <3>2. QED BY <2>1, <3>1, NoJobType DEF CardType, CardShaped, job
  <2>3. \A c \in Callers : c # Rival /\ (Spared(c) \/ Hindered(c))
    BY <2>1, DisturbedOthers, PcscAssumption
  <2>4. DOMAIN exchange' = Callers /\ exchange' = [d \in Callers |-> exchange'[d]]
    BY <2>1 DEF Disturbed
  <2>5. QED BY <1>1, <2>1, <2>2, <2>3, <2>4
<1>13. Goal
  BY <1>4, <1>7, <1>8, <1>9, <1>10, <1>11, <1>12 DEF Next, Progress
<1>14. QED BY <1>13 DEF Goal

\* The invariant holds at the start, is kept by every step, and so holds throughout.
LEMMA InvInit == Init => Inv
<1> SUFFICES ASSUME Init PROVE Inv OBVIOUS
<1> USE PcscAssumption DEF Init
<1>1. TypeOK
  <2>1. card \in [applet : {"none", "fido", "other"}, job : Job]
    BY OffType
  <2>2. exchange \in [Callers -> Exchange]
    BY NewExchangeType
  <2>3. /\ conn \in [Callers -> 0..tokens] /\ open \subseteq 1..tokens /\ stale \subseteq open
        /\ tokens \in 0..MaxTokens
    OBVIOUS
  <2>4. stage \in [Callers -> Stages]
    BY DEF Stages
  <2>5. QED BY <2>1, <2>2, <2>3, <2>4 DEF TypeOK
<1>2. HandlesMatch /\ Sole
  BY DEF HandlesMatch, Sole
<1>3. CardShaped
  BY OffType DEF CardShaped
<1>4. Proceeding
  BY DEF Proceeding, Proceeds, Collects, Returns
<1>5. QED BY <1>1, <1>2, <1>3, <1>4 DEF Inv

LEMMA InvStep == Inv /\ [Next]_vars => Inv'
<1> SUFFICES ASSUME Inv, [Next]_vars PROVE Inv' OBVIOUS
<1>1. /\ HandlesMatch' /\ Sole'
      /\ HandleType'
  BY HandleStep
<1>2. CardType' /\ exchange' \in [Callers -> Exchange] /\ Proceeding'
  BY ExchangeStep
<1>3. OthersType'
  BY OthersStep DEF Inv
<1>4. QED BY <1>1, <1>2, <1>3 DEF Inv, TypeOK, HandleType, CardType, OthersType

LEMMA Inductive == Spec => []Inv
BY InvInit, InvStep, PTL DEF Spec

\* Every variable keeps its type, for any number of callers, any guard and any
\* length of a response: the guard on hops never goes below zero, and the card
\* never runs one request a third time.
THEOREM TypeCorrect == Spec => []TypeOK
<1>1. Inv => TypeOK
  BY DEF Inv
<1>2. QED BY <1>1, Inductive, PTL

\* No step of connect, close or drop leaks a handle or disconnects another's.
THEOREM HandlesAreOwned == Spec => []HandlesMatch
<1>1. Inv => HandlesMatch
  BY DEF Inv
<1>2. QED BY <1>1, Inductive, PTL

\* However a response is chained, polled for and asked for again, an exchange
\* that completes without another user in between returns it whole, in order
\* and once.
THEOREM AnswersAreWhole == Spec => []AnswersMatch
<1>1. ASSUME Inv PROVE AnswersMatch
  <2>1. \A c \in Callers : Returns(c)
    BY <1>1 DEF Inv, Proceeding, Proceeds
  <2>2. QED BY <2>1 DEF AnswersMatch, Returns, Calm, Whole, Piece
<1>2. QED BY <1>1, Inductive, PTL

\* Exchange::step sends the command again on the one Le retry only, so the card
\* runs a request at most twice.
THEOREM RerunsAreRetries == Spec => []RunsAgainOnlyOnLe
<1>1. Inv => RunsAgainOnlyOnLe
  BY DEF Inv, Proceeding, Proceeds, Accounted, RunsAgainOnlyOnLe
<1>2. QED BY <1>1, Inductive, PTL

\* Whatever the card answers, a send is over after MAX_HOPS + 1 APDUs that got
\* an answer: guard_hop and le_retried pay for each but the last.
THEOREM SendsAreBounded == Spec => []SendIsBounded
<1>1. ASSUME Inv, NEW c \in Callers, stage[c] = "exchange"
      PROVE  exchange[c].apdus <= MaxHops + 1
  <2>1. /\ exchange[c].apdus = (MaxHops - exchange[c].hops)
                               + (IF exchange[c].leRetried THEN 1 ELSE 0)
        /\ exchange[c] \in Exchange
    BY <1>1 DEF Inv, TypeOK, Proceeding, Proceeds, Accounted
  <2>2. exchange[c].hops \in 0..MaxHops /\ MaxHops \in Nat
    BY <2>1, PcscAssumption DEF Exchange
  <2>3. QED BY <2>1, <2>2
<1>2. Inv => SendIsBounded
  BY <1>1 DEF SendIsBounded
<1>3. QED BY <1>2, Inductive, PTL
=============================================================================
