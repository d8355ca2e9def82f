------------------------------ MODULE Messages ------------------------------
(***************************************************************************)
(* The typed messages over decoded CBOR (fidoh-core, get_info.rs,           *)
(* get_assertion.rs, cose.rs; the authenticator's own in wire.rs): which    *)
(* maps each accepts and what it writes.  Byte strings are told apart by    *)
(* their lengths only.  A map is the sequence of its entries as they came,  *)
(* a key possibly twice: the decoders keep the last.                        *)
(***************************************************************************)
EXTENDS Integers, Sequences, FiniteSets, SequencesExt, FiniteSetsExt, Functions

CONSTANTS MinBlobArray, MinCredBlob,  \* bounds: stand for 1024 and 32
          MaxProtocol                 \* bound: stands for the greatest u32

ASSUME MessagesAssumption ==
    MinBlobArray \in Nat \ {0} /\ MinCredBlob \in Nat \ {0} /\ MaxProtocol \in Nat

Num(n) == [type |-> "int", int |-> n]
Text(name) == [type |-> "text", text |-> name]
Blob(size) == [type |-> "bytes", size |-> size]
Flag(value) == [type |-> "bool", bool |-> value]
List(items) == [type |-> "list", items |-> items]
Table(entries) == [type |-> "table", entries |-> entries]
Entry(key, val) == [key |-> key, val |-> val]
Rejected == [type |-> "rejected"]

Nums(numbers) == {Num(n) : n \in numbers}
Texts(names) == {Text(name) : name \in names}
Pairs(value) == IF value.type = "table" THEN value.entries ELSE <<>>

\* The value an entry loop ends up with: of several of one key, the last.
LastOf(value, key) ==
    LET at == {i \in DOMAIN Pairs(value) : Pairs(value)[i].key = key}
    IN  Pairs(value)[Max(at)].val
Keys(value) == {entry.key : entry \in ToSet(Pairs(value))}

\* uint_member, text_array, uint_array.
IsUint(value) == value.type = "int" /\ value.int >= 0
IsListOf(value, Kind(_)) == value.type = "list" /\ \A v \in ToSet(value.items) : Kind(v)
IsText(value) == value.type = "text"

\* PinUvAuthProtocol::from_u32, after u32::try_from.
IsProtocol(value) == IsUint(value) /\ value.int <= MaxProtocol

\* The loop of a from_cbor: an ill-typed value of a known key is an error even
\* where a later one replaces it, an unknown key is none, a required key must
\* have come.
WellFormed(value, known, required, Kind(_, _)) ==
    /\ value.type = "table"
    /\ required \subseteq Keys(value)
    /\ \A entry \in ToSet(value.entries) :
          entry.key \in known => Kind(entry.key, entry.val)
Members(value, known, Datum(_, _)) ==
    [key \in Keys(value) \cap known |-> Datum(key, LastOf(value, key))]

\* The entries an encoder pushes for the members that are present.
Written(members, Wire(_, _)) ==
    LET keys == SetToSeq(DOMAIN members)
    IN  Table([i \in DOMAIN keys |-> Entry(keys[i], Wire(keys[i], members[keys[i]]))])

Same(key, value) == value

\* The values a value holds, keys included.
Parts(value) ==
    CASE value.type = "list" -> ToSet(value.items)
      [] value.type = "table" -> Keys(value) \cup {entry.val : entry \in ToSet(value.entries)}
      [] OTHER -> {}

\* encode_value of a value whose parts encode: a map in which a key comes twice is
\* an error (keys are compared whole: one that is a map itself is not modelled).
EncodesOver(value, PartEncodes(_)) ==
    /\ value.type = "table" => IsInjective([i \in DOMAIN value.entries |-> value.entries[i].key])
    /\ \A part \in Parts(value) : PartEncodes(part)

\* A value that a message keeps as it came stands one level below the message,
\* and there are four levels.
Encodes(value) ==
    EncodesOver(value, LAMBDA v : EncodesOver(v, LAMBDA w : EncodesOver(w, LAMBDA x :
        x.type \notin {"list", "table"})))

-----------------------------------------------------------------------------
(* authenticatorGetInfo.                                                   *)

InfoKeys == Nums(1..21)
OptionIds == {"up", "uv", "rk", "clientPin"}     \* the ones told apart here

\* algorithms_member: of each parameter its type and algorithm.
IsParameter(value) ==
    WellFormed(value, Texts({"type", "alg"}), Texts({"type", "alg"}),
               LAMBDA key, v : IF key = Text("type") THEN v = Text("public-key")
                               ELSE v.type = "int")

\* AuthenticatorOptions::from_cbor: any id is kept.
IsOptions(value) ==
    value.type = "table" /\ \A entry \in ToSet(value.entries) :
                               IsText(entry.key) /\ entry.val.type = "bool"

InfoKind(key, value) ==
    CASE key \in Nums({1, 2, 9}) -> IsListOf(value, IsText)
      [] key = Num(3) -> value.type = "bytes"
      [] key = Num(4) -> IsOptions(value)
      [] key = Num(6) -> IsListOf(value, IsProtocol)
      [] key = Num(21) -> IsListOf(value, IsUint)
      [] key = Num(10) -> IsListOf(value, IsParameter)
      [] key = Num(12) -> value.type = "bool"
      [] key = Num(19) -> value.type = "table"
      [] OTHER -> IsUint(value)

InfoDatum(key, value) ==
    CASE key = Num(4) -> [id \in Keys(value) |-> LastOf(value, id)]
      [] key = Num(10) ->
            [i \in DOMAIN value.items |-> LastOf(value.items[i], Text("alg"))]
      [] OTHER -> value

InfoWire(key, datum) ==
    CASE key = Num(4) -> Written(datum, Same)
      [] key = Num(10) ->
            List([i \in DOMAIN datum |->
                    Table(<<Entry(Text("type"), Text("public-key")),
                            Entry(Text("alg"), datum[i])>>)])
      [] OTHER -> datum

\* GetInfoResponse::validate, after the required members.
Valid(info) ==
    LET has(n) == Num(n) \in DOMAIN info
        list(n) == IF n = 10 THEN info[Num(n)] ELSE info[Num(n)].items
        atLeast(n, bound) == has(n) => info[Num(n)].int >= bound
    IN  /\ info[Num(3)].size = 16
        /\ \A n \in {6, 9, 10} : has(n) => list(n) # <<>> /\ IsInjective(list(n))
        /\ \A n \in {7, 8, 17} : atLeast(n, 1)
        /\ atLeast(11, MinBlobArray) /\ atLeast(15, MinCredBlob)

\* GetInfoResponse::from_cbor
ReadInfo(value) ==
    LET info == Members(value, InfoKeys, InfoDatum)
    IN  IF WellFormed(value, InfoKeys, Nums({1, 3}), InfoKind) /\ Valid(info)
        THEN info ELSE Rejected

\* to_wire_cbor, which encodes: the certifications are kept as they came.
WriteInfo(info) ==
    IF Num(19) \in DOMAIN info => Encodes(info[Num(19)])
    THEN Written(info, InfoWire) ELSE Rejected

\* GetInfoResponse::option: absent means unsupported, but for user presence.
Option(info, id) ==
    IF Num(4) \in DOMAIN info /\ Text(id) \in DOMAIN info[Num(4)]
    THEN info[Num(4)][Text(id)].bool ELSE id = "up"

\* get_info_response_with_protocols: what the software authenticator says.
SoftInfo(uv, pin, protocols, advertise) ==
    LET ids == {"rk", "up", "uv"} \cup (IF pin THEN {"clientPin"} ELSE {})
               \cup (IF pin /\ advertise THEN {"pinUvAuthToken"} ELSE {})
    IN  [key \in Nums({1, 3, 4} \cup IF pin THEN {6} ELSE {}) |->
            CASE key = Num(1) -> List(<<Text("FIDO_2_0"), Text("FIDO_2_1")>>)
              [] key = Num(3) -> Blob(16)
              [] key = Num(4) -> [id \in Texts(ids) |-> Flag(id = Text("uv") => uv)]
              [] key = Num(6) -> List([i \in DOMAIN protocols |-> Num(protocols[i])])]

-----------------------------------------------------------------------------
(* authenticatorGetAssertion.                                              *)

\* PublicKeyCredentialDescriptor::from_cbor
DescriptorNames == Texts({"type", "id", "transports"})
IsDescriptor(value) ==
    WellFormed(value, DescriptorNames, Texts({"type", "id"}),
               LAMBDA key, v : CASE key = Text("type") -> v = Text("public-key")
                                 [] key = Text("id") -> v.type = "bytes"
                                 [] OTHER -> IsListOf(v, IsText))
Descriptor(value) == Members(value, DescriptorNames, Same)

\* PublicKeyCredentialUserEntity::from_cbor
EntityNames == Texts({"id", "name", "displayName"})
IsEntity(value) ==
    WellFormed(value, EntityNames, Texts({"id"}),
               LAMBDA key, v : IF key = Text("id") THEN v.type = "bytes" ELSE IsText(v))
Entity(value) == Members(value, EntityNames, Same)

RequestOptions == Texts({"up", "uv"})

RequestKind(key, value) ==
    CASE key = Num(1) -> IsText(value)
      [] key \in Nums({2, 6}) -> value.type = "bytes"
      [] key = Num(3) -> IsListOf(value, IsDescriptor)
      [] key = Num(5) ->
            WellFormed(value, RequestOptions, {}, LAMBDA k, v : v.type = "bool")
      [] key = Num(7) -> IsProtocol(value)
      [] OTHER -> TRUE

RequestDatum(key, value) ==
    CASE key = Num(3) -> [i \in DOMAIN value.items |-> Descriptor(value.items[i])]
      [] key = Num(5) -> Members(value, RequestOptions, Same)
      [] OTHER -> value

RequestWire(key, datum) ==
    CASE key = Num(3) -> List([i \in DOMAIN datum |-> Written(datum[i], Same)])
      [] key = Num(5) -> Written(datum, Same)
      [] OTHER -> datum

\* with_allow_list: no list is sent for an empty one.
WithAllowList(request) ==
    Restrict(request, {key \in DOMAIN request : key = Num(3) => request[key] # <<>>})

\* GetAssertionRequest::from_cbor
ReadRequest(value) ==
    IF WellFormed(value, Nums(1..7), Nums({1, 2}), RequestKind)
    THEN WithAllowList(Members(value, Nums(1..7), RequestDatum)) ELSE Rejected

\* GetAssertionRequest::validate
RequestValid(request) ==
    ~(Num(6) \in DOMAIN request /\ Num(5) \in DOMAIN request
      /\ Text("uv") \in DOMAIN request[Num(5)])

\* GetAssertionRequest::encode: the extensions are kept as they came.
WriteRequest(request) ==
    IF /\ RequestValid(request)
       /\ Num(3) \in DOMAIN request => request[Num(3)] # <<>>
       /\ Num(4) \in DOMAIN request => Encodes(request[Num(4)])
    THEN Written(request, RequestWire) ELSE Rejected

ResponseKind(key, value) ==
    CASE key = Num(1) -> IsDescriptor(value)
      [] key \in Nums({2, 3, 7}) -> value.type = "bytes"
      [] key = Num(4) -> IsEntity(value)
      [] key = Num(5) -> IsUint(value)
      [] key = Num(6) -> value.type = "bool"
ResponseDatum(key, value) ==
    CASE key = Num(1) -> Descriptor(value)
      [] key = Num(4) -> Entity(value)
      [] OTHER -> value
ResponseWire(key, datum) ==
    IF key \in Nums({1, 4}) THEN Written(datum, Same) ELSE datum

\* The defaults of the two optional members.
NumberOfCredentials(response) ==
    IF Num(5) \in DOMAIN response THEN response[Num(5)].int ELSE 1
UserSelected(response) == Num(6) \in DOMAIN response /\ response[Num(6)].bool

\* GetAssertionResponse::from_cbor
ReadResponse(value) ==
    LET response == Members(value, Nums(1..7), ResponseDatum)
    IN  IF /\ WellFormed(value, Nums(1..7), Nums(1..3), ResponseKind)
           /\ ~(Num(6) \in DOMAIN response /\ NumberOfCredentials(response) > 1)
        THEN response ELSE Rejected

\* Variant: a userSelected that says the default is not written.
WriteResponseBare(response) ==
    Written(Restrict(response, {key \in DOMAIN response :
                                   key = Num(6) => UserSelected(response)}), ResponseWire)

\* GetAssertionResponse::encode
WriteResponse(response) == Written(response, ResponseWire)

\* encode_response: what the software authenticator answers.
SoftResponse(user, number) ==
    [key \in Nums(1..3 \cup (IF user THEN {4} ELSE {}) \cup (IF number = 0 THEN {} ELSE {5})) |->
        CASE key = Num(1) -> [name \in Texts({"type", "id"}) |->
                                IF name = Text("id") THEN Blob(16) ELSE Text("public-key")]
          [] key = Num(2) -> Blob(37)
          [] key = Num(3) -> Blob(70)
          [] key = Num(4) -> [name \in Texts({"id"}) |-> Blob(8)]
          [] key = Num(5) -> Num(number)]

-----------------------------------------------------------------------------
(* A COSE key of the only algorithm there is.                              *)

KeyLabels == Nums({1, 3, -1, -2, -3})
Es256 == [label \in Nums({1, 3, -1}) |->
            CASE label = Num(1) -> Num(2) [] label = Num(3) -> Num(-7) [] label = Num(-1) -> Num(1)]

\* CoseEs256Key::from_cbor: the algorithm may be absent.
ReadKey(value) ==
    LET key == Members(value, KeyLabels, Same)
    IN  IF /\ WellFormed(value, KeyLabels, KeyLabels \ {Num(3)},
                         LAMBDA label, v : v.type = IF label \in Nums({-2, -3})
                                                    THEN "bytes" ELSE "int")
           /\ \A label \in DOMAIN Es256 \cap DOMAIN key : key[label] = Es256[label]
        THEN Restrict(key, Nums({-2, -3})) ELSE Rejected

\* CoseEs256Key::to_cbor
WriteKey(key) ==
    Written([label \in KeyLabels |-> IF label \in DOMAIN Es256 THEN Es256[label] ELSE key[label]],
            Same)

Read(kind, value) ==
    CASE kind = "info" -> ReadInfo(value) [] kind = "request" -> ReadRequest(value)
      [] kind = "response" -> ReadResponse(value) [] kind = "key" -> ReadKey(value)
Write(kind, message) ==
    CASE kind = "info" -> WriteInfo(message) [] kind = "request" -> WriteRequest(message)
      [] kind = "response" -> WriteResponse(message) [] kind = "key" -> WriteKey(message)
=============================================================================
