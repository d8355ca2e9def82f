------------------------------ MODULE Formats ------------------------------
(***************************************************************************)
(* Report descriptors and messages: one input grows, a descriptor item by   *)
(* item or a message member by member, and what the scan and the typed      *)
(* decoders make of it is compared with what it says and with what the      *)
(* encoders write.                                                          *)
(***************************************************************************)
EXTENDS HidDescriptor, Messages

CONSTANTS ItemKinds,      \* the descriptor items tried
          Drafts,         \* messages to start from: [kind, entries]
          MembersOf,      \* for each kind, the entries tried
          MaxItems,       \* bound: items of a descriptor
          MaxMembers,     \* bound: members added to a draft
          Protocols       \* the protocol lists the software authenticator may have

\* The values there are: what the CBOR decoder hands over holds its arrays and
\* maps in order, to the depth the typed decoders look into.
IsSequence(s) == s \in Seq(ToSet(s))
Shallow(value) == value.type = "table" => IsSequence(value.entries)
Decoded(value) ==
    /\ Shallow(value)
    /\ value.type = "list" => IsSequence(value.items)
                              /\ \A item \in ToSet(value.items) : Shallow(item)

Kinds == {"info", "request", "response", "key"}

ASSUME FormatsAssumption ==
    /\ DOMAIN MembersOf \subseteq Kinds
    /\ \A item \in ItemKinds : item.tag \in Tags /\ item.value \in 0..Base * Base - 1
    /\ \A draft \in Drafts :
          /\ draft.kind \in DOMAIN MembersOf
          /\ IsSequence(draft.entries)
          /\ \A entry \in ToSet(draft.entries) : Decoded(entry.val)
    /\ \A kind \in DOMAIN MembersOf : \A entry \in MembersOf[kind] : Decoded(entry.val)
    /\ Protocols \subseteq Seq(0..MaxProtocol)

VARIABLES descriptor,   \* the items of the report descriptor so far
          message       \* [kind, entries, added] of the message so far

formats == <<descriptor, message>>

NoMessage == [kind |-> "none", entries |-> <<>>, added |-> 0]

FormatsInit == descriptor = <<>> /\ message = NoMessage

Describe(item) ==
    /\ message = NoMessage
    /\ Len(descriptor) < MaxItems
    /\ descriptor' = Append(descriptor, item)
    /\ UNCHANGED message

StartMessage(draft) ==
    /\ descriptor = <<>> /\ message = NoMessage
    /\ message' = [kind |-> draft.kind, entries |-> draft.entries, added |-> 0]
    /\ UNCHANGED descriptor

AddMember(entry) ==
    /\ message.added < MaxMembers
    /\ message' = [message EXCEPT !.entries = Append(@, entry), !.added = @ + 1]
    /\ UNCHANGED descriptor

FormatsNext ==
    \/ \E item \in ItemKinds : Describe(item)
    \/ \E draft \in Drafts : StartMessage(draft)
    \/ message # NoMessage /\ \E entry \in MembersOf[message.kind] : AddMember(entry)

FormatsSpec == FormatsInit /\ [][FormatsNext]_formats

-----------------------------------------------------------------------------
(* Properties                                                              *)

\* A node is taken for a FIDO device exactly when its descriptor declares the
\* CTAPHID usage under the FIDO page, through any nesting of Push and Pop and
\* with the page in effect or embedded.
MatchIsDeclared ==
    LET match == FindFidoUsage(descriptor)
    IN  ~match.cut => (IsFido(match) <=> Declares(descriptor))

\* What a decoder accepts and the encoder refuses: a request that asks for
\* built-in verification and proves a PIN at once, and certifications or
\* extensions, which are kept as they came, with a key in them that comes twice
\* or nested too deep to stand in a message.
Unwritable(kind, read) ==
    \/ kind = "request" /\ ~RequestValid(read)
    \/ kind = "request" /\ Num(4) \in DOMAIN read /\ ~Encodes(read[Num(4)])
    \/ kind = "info" /\ Num(19) \in DOMAIN read /\ ~Encodes(read[Num(19)])

\* A message a decoder accepts is written and read back as the same message; the
\* exceptions are the ones above, and those are never written.  And what the
\* software authenticator says of itself and answers is accepted by the client as
\* it was meant, as long as its protocol list is one the client allows.
MessagesSurvive ==
    /\ message # NoMessage =>
          LET read == Read(message.kind, Table(message.entries))
              written == Write(message.kind, read)
          IN  read # Rejected =>
                 IF Unwritable(message.kind, read)
                 THEN written = Rejected
                 ELSE written # Rejected /\ Read(message.kind, written) = read
    /\ message.kind = "info" /\ message.added = 0 =>
          \A uv, pin, advertise \in BOOLEAN, protocols \in Protocols :
             LET info == SoftInfo(uv, pin, protocols, advertise)
                 read == ReadInfo(WriteInfo(info))
             IN  IF pin /\ (protocols = <<>> \/ ~IsInjective(protocols))
                 THEN read = Rejected
                 ELSE /\ read = info
                      /\ Option(read, "clientPin") = pin
                      /\ Option(read, "uv") = uv
    /\ message.kind = "response" /\ message.added = 0 =>
          \A user \in BOOLEAN, number \in 0..2 :
             LET response == SoftResponse(user, number)
             IN  /\ ReadResponse(WriteResponse(response)) = response
                 /\ NumberOfCredentials(response) = Max({number, 1})
=============================================================================
