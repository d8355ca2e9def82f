-------------------------------- MODULE Cli --------------------------------
(***************************************************************************)
(* One run of the fidoh binary (fidoh-cli-ui) over the hardware transports: *)
(* its arguments, discovery while devices come and go (the walk of sysfs,   *)
(* the PC/SC service and its readers), selection, connect, the exchange     *)
(* with its touch prompt, and what it prints.  What an exchange does is     *)
(* Ceremony's; here it ends one way or another.                             *)
(***************************************************************************)
EXTENDS HidDescriptor

CONSTANTS Nodes,         \* hidraw nodes, a sequence by their numbers
          Readers,       \* PC/SC readers, a sequence in the service's order
          Contents,      \* what a node can be: name -> its report descriptor
          Argvs,         \* argument vectors tried
          HexTokens,     \* tokens decode_hex accepts
          BudgetTokens,  \* tokens parse_budget accepts
          ExchangeErrors,\* typed errors of the connect and the exchange
          MaxEvents,     \* bound: things plugged, unplugged, started, stopped
          None

\* FlagReason
Misuses == {"MissingCommand", "UnknownCommand", "UnknownFlag", "MissingValue", "BadBudget",
            "BadHex", "MissingRp"}

ASSUME CliAssumption ==
    /\ Nodes \in Seq(STRING) /\ IsInjective(Nodes)
    /\ Readers \in Seq(STRING) /\ IsInjective(Readers)
    /\ None \notin DOMAIN Contents \cup STRING \cup Misuses \cup Nat
    /\ None \notin [kind : {"hid", "pcsc"}, name : STRING]
    /\ Argvs \subseteq Seq(STRING)
    /\ ExchangeErrors \subseteq STRING \ {"NoDevice", "AmbiguousDevice"}
    /\ \A content \in DOMAIN Contents : \A i \in DOMAIN Contents[content] :
          Contents[content][i].tag \in Tags

VARIABLES pc,           \* where run_list, run_info or run_assert stand
          invocation,   \* the parsed arguments
          bus,          \* [node, service, reader]: what is attached
          scan,         \* what the walk or list_readers has still to read, by
                        \* position: the lowest is next
          found,        \* candidates, per transport
          failed,       \* whether a whole transport failed
          selected,     \* the device connected, or None
          asked,        \* the key has asked for a touch in this exchange
          lines,        \* Out: what will be printed
          screen,       \* what has been
          code,         \* the exit code
          events,       \* events of the environment so far
          steady,       \* candidates all through discovery
          ever,         \* candidates at some time during it
          unread        \* nodes whose read failed under the walk (no variable of the
                        \* code: their diagnostics are dropped)

vars == <<pc, invocation, bus, scan, found, failed, selected, unread, asked, lines, screen,
          code, events, steady, ever>>

Hid(node) == [kind |-> "hid", name |-> node]
Pcsc(reader) == [kind |-> "pcsc", name |-> reader]
Soft == [kind |-> "soft", name |-> "soft-0"]
ReaderStates == {"gone", "empty", "card", "mute"}

Candidates(b) ==
    {Hid(n) : n \in {n \in ToSet(Nodes) :
                          b.node[n] # None /\ IsFido(FindFidoUsage(Contents[b.node[n]]))}}
    \cup {Pcsc(r) : r \in {r \in ToSet(Readers) : b.reader[r] = "card"}}

-----------------------------------------------------------------------------
(* Arguments.                                                              *)

ValueFlags == [info |-> {"--device", "--budget"}, assert |-> {"--rp", "--allow", "--budget"}]
BareFlags == [info |-> {}, assert |-> {"--first", "--demo"}]

NewInvocation(command) ==
    [command |-> command, want |-> None, failed |-> None, device |-> None, rp |-> None,
     allow |-> {}, first |-> FALSE, demo |-> FALSE]

\* A value for the flag that waits for one.
TakeValue(parsed, token) ==
    LET taken == [parsed EXCEPT !.want = None] IN
    CASE parsed.want = "--device" -> [taken EXCEPT !.device = token]
      [] parsed.want = "--rp" -> [taken EXCEPT !.rp = token]
      [] parsed.want = "--budget" ->
            IF token \in BudgetTokens THEN taken ELSE [taken EXCEPT !.failed = "BadBudget"]
      [] parsed.want = "--allow" ->
            IF token \in HexTokens THEN [taken EXCEPT !.allow = @ \cup {token}]
            ELSE [taken EXCEPT !.failed = "BadHex"]

\* The loops of parse_info and parse_assert, a token at a time.
TakeToken(parsed, token) ==
    CASE parsed.failed # None -> parsed
      [] parsed.failed = None /\ parsed.want # None -> TakeValue(parsed, token)
      [] parsed.failed = None /\ parsed.want = None
            /\ token \in ValueFlags[parsed.command] -> [parsed EXCEPT !.want = token]
      [] parsed.failed = None /\ parsed.want = None
            /\ token \in BareFlags[parsed.command] ->
            IF token = "--first" THEN [parsed EXCEPT !.first = TRUE]
            ELSE [parsed EXCEPT !.demo = TRUE]
      [] OTHER -> [parsed EXCEPT !.failed = "UnknownFlag"]

Taken(command, tokens) ==
    LET after[k \in 0..Len(tokens)] ==
            IF k = 0 THEN NewInvocation(command) ELSE TakeToken(after[k - 1], tokens[k])
    IN  after[Len(tokens)]

\* Variant: assert goes on without a relying party.
CompleteWithoutRp(parsed) ==
    IF parsed.failed = None /\ parsed.want # None
    THEN [parsed EXCEPT !.failed = "MissingValue"] ELSE parsed

\* After the loop: a flag still without its value, an assert without --rp.
Complete(parsed) ==
    CASE parsed.failed = None /\ parsed.want # None ->
            [parsed EXCEPT !.failed = "MissingValue"]
      [] parsed.failed = None /\ parsed.want = None
            /\ parsed.command = "assert" /\ parsed.rp = None ->
            [parsed EXCEPT !.failed = "MissingRp"]
      [] OTHER -> parsed

\* parse
Parse(argv) ==
    IF argv = <<>> THEN [NewInvocation("none") EXCEPT !.failed = "MissingCommand"]
    ELSE LET command == Head(argv)
             parsed == Taken(command, Tail(argv))
         IN  CASE command \in {"help", "--help", "-h"} -> NewInvocation("help")
               [] command = "list" ->
                     IF Tail(argv) = <<>> THEN NewInvocation("list")
                     ELSE [NewInvocation("list") EXCEPT !.failed = "UnknownFlag"]
               [] command \in DOMAIN ValueFlags -> Complete(parsed)
               [] OTHER -> [NewInvocation("none") EXCEPT !.failed = "UnknownCommand"]

-----------------------------------------------------------------------------
(* Output.                                                                 *)

Out(says) == [to |-> "out", says |-> says, about |-> None]
Err(says) == [to |-> "err", says |-> says, about |-> None]
About(line, about) == [line EXCEPT !.about = about]

\* Variant: the diagnostics are dropped.
NoCauses(kinds) == <<>>

\* A line for each; their order, which no property is about, is left open.
Each(says, things) ==
    [i \in 1..Cardinality(things) |-> About(Err(says), SetToSeq(things)[i])]

\* The causes of the transports that failed.
Causes(kinds) == Each("cause", kinds)

\* error_lines: the variant, what it carries, and a hint but for Ctap.
ErrorLines(error) ==
    <<About(Err("error"), error.variant)>>
    \o (CASE error.variant = "NoDevice" -> Causes(error.causes)
          [] error.variant = "AmbiguousDevice" -> Each("candidate", error.candidates)
          [] OTHER -> <<>>)
    \o IF error.variant = "Ctap" THEN <<>> ELSE <<Err("hint")>>

NoDevice(causes) == [variant |-> "NoDevice", causes |-> causes]
Ambiguous(candidates) == [variant |-> "AmbiguousDevice", candidates |-> candidates]
Typed(variant) == [variant |-> variant]

\* main: the lines go out when everything is over.
Exit(more, status) ==
    /\ lines' = lines \o more
    /\ screen' = lines'
    /\ code' = status
    /\ pc' = "exit"

\* The error path of run_assert_body: the diagnostics, then the error.  What it
\* puts before them, the lines TouchPrompt kept, is empty: see KeepAlive.
FailAssert(error) == Exit(Causes(failed) \o ErrorLines(error), 1)

Fail(error) ==
    IF invocation.command = "assert" THEN FailAssert(error) ELSE Exit(ErrorLines(error), 1)

-----------------------------------------------------------------------------
(* Discovery.                                                              *)

Init ==
    /\ pc = "start"
    /\ invocation = NewInvocation("none")
    /\ bus \in [node : [ToSet(Nodes) -> DOMAIN Contents \cup {None}], service : BOOLEAN,
                reader : [ToSet(Readers) -> ReaderStates]]
    /\ scan = {}
    /\ found = [hid |-> <<>>, pcsc |-> <<>>]
    /\ failed = {}
    /\ selected = None
    /\ unread = {}
    /\ asked = FALSE
    /\ lines = <<>> /\ screen = <<>> /\ code = None
    /\ events = 0
    /\ steady = Candidates(bus) /\ ever = Candidates(bus)

\* dispatch, up to the first thing the command does.
Dispatch(argv) ==
    /\ pc = "start"
    /\ invocation' = Parse(argv)
    /\ \/ /\ invocation'.failed # None
          /\ Exit(<<About(Err("usage"), invocation'.failed)>>, 2)
       \/ /\ invocation'.failed = None /\ invocation'.command = "help"
          /\ Exit(<<Out("usage")>>, 0)
       \/ /\ invocation'.failed = None /\ invocation'.command # "help"
          /\ pc' = IF invocation'.demo THEN "demo" ELSE "readdir"
          /\ UNCHANGED <<lines, screen, code>>
    /\ UNCHANGED <<bus, scan, found, failed, selected, unread, asked, events, steady, ever>>

\* The walk lists the class directory, sorted by number; an error of that read is
\* an empty enumeration and leaves no diagnostic.
ReadDir ==
    /\ pc = "readdir"
    /\ \/ /\ scan' = {i \in DOMAIN Nodes : bus.node[Nodes[i]] # None}
          /\ UNCHANGED unread
       \/ scan' = {} /\ unread' = {Hid(n) : n \in ToSet(Nodes)}
    /\ pc' = "node"
    /\ UNCHANGED <<invocation, bus, found, failed, selected, asked, lines, screen, code, events,
                   steady, ever>>

\* Variant: the walk gives up at the first node it cannot read.
RestAborting(i) == IF bus.node[Nodes[i]] = None THEN {} ELSE scan \ {i}

\* What is left of the walk after a node.
Rest(i) == scan \ {i}

\* It reads a node: one that is gone or cannot be read, or whose descriptor is cut
\* off, becomes a diagnostic enumerate drops, and the walk goes on.
ReadNode ==
    /\ pc = "node" /\ scan # {}
    /\ LET id == Hid(Nodes[Min(scan)]) IN
       \/ /\ found' = IF id \in Candidates(bus)
                      THEN [found EXCEPT !.hid = Append(@, id)] ELSE found
          /\ UNCHANGED unread
       \/ bus.node[id.name] # None /\ unread' = unread \cup {id} /\ UNCHANGED found
    /\ scan' = Rest(Min(scan))
    /\ UNCHANGED <<pc, invocation, bus, failed, selected, asked, lines, screen, code, events,
                   steady, ever>>

\* pcsc_transport and list_readers' names; without a service the transport fails.
Establish ==
    /\ pc = "node" /\ scan = {}
    /\ IF bus.service
       THEN /\ scan' = {i \in DOMAIN Readers : bus.reader[Readers[i]] # "gone"}
            /\ pc' = "reader" /\ UNCHANGED failed
       ELSE /\ failed' = failed \cup {"pcsc"} /\ pc' = "select" /\ UNCHANGED scan
    /\ UNCHANGED <<invocation, bus, found, selected, unread, asked, lines, screen, code,
                   events, steady, ever>>

\* get_status_change of the next reader; an error of one loses all.
ReadReader ==
    /\ pc = "reader" /\ scan # {}
    /\ LET reader == Readers[Min(scan)] IN
       IF bus.service /\ bus.reader[reader] # "gone"
       THEN /\ found' = IF bus.reader[reader] = "card"
                        THEN [found EXCEPT !.pcsc = Append(@, Pcsc(reader))] ELSE found
            /\ scan' = scan \ {Min(scan)}
            /\ UNCHANGED <<failed, pc>>
       ELSE /\ found' = [found EXCEPT !.pcsc = <<>>]
            /\ scan' = {} /\ failed' = failed \cup {"pcsc"} /\ pc' = "select"
    /\ UNCHANGED <<invocation, bus, selected, unread, asked, lines, screen, code, events,
                   steady, ever>>

EndReaders ==
    /\ pc = "reader" /\ scan = {}
    /\ pc' = "select"
    /\ UNCHANGED <<invocation, bus, scan, found, failed, selected, unread, asked, lines,
                   screen, code, events, steady, ever>>

All == found.hid \o found.pcsc

\* list_exit
List ==
    /\ pc = "select" /\ invocation.command = "list"
    /\ IF All # <<>>
       THEN Exit([i \in DOMAIN All |-> About(Out("candidate"), All[i])], 0)
       ELSE IF failed = {} THEN Exit(<<Out("nothing")>>, 0)
       ELSE Exit(ErrorLines(NoDevice(failed)), 1)
    /\ UNCHANGED <<invocation, bus, scan, found, failed, selected, unread, asked, events,
                   steady, ever>>

\* What info and assert select from; --device names one.
Eligible ==
    {i \in DOMAIN All : invocation.device # None => All[i].name = invocation.device}

\* select_device; info explains an empty list by what failed, assert prints the
\* same before the error.
Select ==
    /\ pc = "select" /\ invocation.command # "list"
    /\ CASE Eligible = {} ->
              /\ Fail(NoDevice(IF invocation.command = "info" THEN failed ELSE {}))
              /\ UNCHANGED selected
         [] Cardinality(Eligible) > 1 /\ ~invocation.first ->
              /\ Fail(Ambiguous({All[i] : i \in Eligible}))
              /\ UNCHANGED selected
         [] OTHER ->
              /\ selected' = All[Min(Eligible)]
              /\ pc' = "connect" /\ UNCHANGED <<lines, screen, code>>
    /\ UNCHANGED <<invocation, bus, scan, found, failed, unread, asked, events, steady, ever>>

-----------------------------------------------------------------------------
(* The device.                                                             *)

\* connect opens whatever is there now: nothing, no key at all, or a key.
Present(id) == id \in Candidates(bus) /\ (id.kind = "pcsc" => bus.service)
Connect ==
    /\ pc = "connect"
    /\ \/ /\ Present(selected)
          /\ pc' = "exchange" /\ UNCHANGED <<lines, screen, code>>
       \/ \E error \in ExchangeErrors : Fail(Typed(error))
    /\ UNCHANGED <<invocation, bus, scan, found, failed, selected, unread, asked, events,
                   steady, ever>>

\* connect_demo: the software token, in a build that has it.
Demo ==
    /\ pc = "demo"
    /\ \/ /\ selected' = Soft
          /\ pc' = "exchange" /\ UNCHANGED <<lines, screen, code>>
       \/ FailAssert(Typed("Transport")) /\ UNCHANGED selected
    /\ UNCHANGED <<invocation, bus, scan, found, failed, unread, asked, events, steady, ever>>

\* A key waits for a touch.  The hardware transports wait on inside send and hand
\* no keepalive back, and the demo's token, with its default configuration, sends
\* none, so TouchPrompt::on_keepalive is never called; its line would in any case
\* go out with the others, in Exit.
KeepAlive ==
    /\ pc = "exchange" /\ invocation.command = "assert" /\ selected # Soft
    /\ asked' = TRUE
    /\ UNCHANGED <<pc, invocation, bus, scan, found, failed, selected, unread, lines, screen,
                   code, events, steady, ever>>

\* The probe of info or the ceremony of assert ends.
Finish ==
    /\ pc = "exchange"
    /\ \/ Exit(<<Out(invocation.command)>>, 0)
       \/ \E error \in ExchangeErrors : Fail(Typed(error))
    /\ UNCHANGED <<invocation, bus, scan, found, failed, selected, unread, asked, events,
                   steady, ever>>

Discovering == {"start", "readdir", "node", "reader"}

\* Devices come and go, the service starts and stops.
Change ==
    /\ pc # "exit" /\ events < MaxEvents /\ events' = events + 1
    /\ \/ \E n \in ToSet(Nodes), content \in DOMAIN Contents \cup {None} :
             bus.node[n] # content /\ bus' = [bus EXCEPT !.node[n] = content]
       \/ bus' = [bus EXCEPT !.service = ~@]
       \/ \E r \in ToSet(Readers), state \in ReaderStates :
             bus.reader[r] # state /\ bus' = [bus EXCEPT !.reader[r] = state]
    /\ IF pc \in Discovering
       THEN /\ steady' = steady \cap Candidates(bus')
            /\ ever' = ever \cup Candidates(bus')
       ELSE UNCHANGED <<steady, ever>>
    /\ UNCHANGED <<pc, invocation, scan, found, failed, selected, unread, asked, lines, screen,
                   code>>

Next ==
    \/ \E argv \in Argvs : Dispatch(argv)
    \/ ReadDir \/ ReadNode \/ Establish \/ ReadReader \/ EndReaders
    \/ List \/ Select \/ Connect \/ Demo \/ Finish
    \/ KeepAlive \/ Change

Spec == Init /\ [][Next]_vars
-----------------------------------------------------------------------------
(* Properties                                                              *)

Ids == {Hid(n) : n \in ToSet(Nodes)} \cup {Pcsc(r) : r \in ToSet(Readers)}
Errors == ExchangeErrors \cup {"NoDevice", "AmbiguousDevice", "Transport"}

TypeOK ==
    /\ pc \in {"start", "readdir", "node", "reader", "select", "connect", "demo", "exchange",
               "exit"}
    /\ ToSet(found.hid) \cup ToSet(found.pcsc) \subseteq Ids
    /\ IsInjective(found.hid) /\ IsInjective(found.pcsc)
    /\ scan \subseteq IF pc = "reader" THEN DOMAIN Readers ELSE DOMAIN Nodes
    /\ failed \subseteq {"hid", "pcsc"}
    /\ selected \in Ids \cup {Soft, None}
    /\ unread \subseteq {Hid(n) : n \in ToSet(Nodes)}
    /\ code \in {None, 0, 1, 2}
    /\ (pc = "exit") = (code # None)
    /\ pc \notin {"start", "exit"} =>
          invocation.failed = None /\ (invocation.command = "assert" => invocation.rp # None)
    /\ \A line \in ToSet(lines) :
          line.says = "error" => line.about \in Errors \cup {"Ctap"} /\ code = 1

\* Discovery misses no key and invents none, whatever else is plugged, pulled or
\* unreadable meanwhile: when list ends well on a bus where a transport did not
\* fail, it has printed every candidate of that transport that was there all
\* along, but for one the walk could not read, and nothing that never was one; and
\* without --first or --device a connection is made only where no second such
\* candidate was there to choose.
ListingIsComplete ==
    LET sound == {id \in steady \ unread : id.kind \notin failed}
        listed == {line.about : line \in {l \in ToSet(lines) : l.says = "candidate"}}
    IN  /\ pc = "exit" /\ invocation.command = "list" /\ code = 0 =>
              sound \subseteq listed /\ listed \subseteq ever
        /\ selected \in Ids => selected \in ever
        /\ selected \in Ids /\ ~invocation.first /\ invocation.device = None =>
              sound \subseteq {selected}

\* A run that finds nothing says why: every error exit of assert, and an exit of
\* list or info for want of a device, prints the cause of each transport that
\* failed; and list says that there are no devices only if none failed.  A class
\* directory or a node that cannot be read is not such a failure: the code drops
\* it, and then finds nothing without a word.
FailuresAreExplained ==
    LET causes == {line.about : line \in {l \in ToSet(screen) : l.says = "cause"}}
        says(what) == \E line \in ToSet(screen) : line.says = what
        noDevice == \E line \in ToSet(screen) :
                       line.says = "error" /\ line.about = "NoDevice"
    IN  pc = "exit" =>
        /\ code = 1 => says("error")
        /\ code = 1 /\ (invocation.command = "assert" \/ noDevice) => failed \subseteq causes
        /\ says("nothing") => failed = {}

\* What the CLI's specification asks of assert: while the key waits for a touch
\* the prompt is on the screen.  It is enough to ask that anything is there.
PromptedWhileWaiting == pc = "exchange" /\ asked => screen # <<>>
=============================================================================
