------------------------------ MODULE MCCodecs ------------------------------
EXTENDS Codecs

\* Heads of every major type, with arguments on both sides of the one that fits in
\* the head.
MCAlphabet == {0, 1, 24, 25, 32, 65, 97, 129, 161, 162, 159, 193, 244, 249}

\* Texts from their first byte, and texts about to tell whether an argument of two,
\* four or eight bytes fits in the width below, alone and in a list.
MCSeeds ==
    {[bytes |-> <<>>, more |-> 6]}
    \cup {[bytes |-> start \o head, more |-> 3] :
             start \in {<<>>, <<129>>},
             head \in {<<26, 0>>, <<58, 0>>, <<27, 0, 0, 0, 0, 255>>, <<27, 0, 0, 0, 1, 0>>,
                      <<59, 0, 0, 0, 0, 255>>, <<59, 0, 0, 0, 1, 0>>}}

Item(tag, value) == [tag |-> tag, value |-> value]
MCItemKinds ==
    {Item("page", FidoPage), Item("page", 1), Item("push", 0), Item("pop", 0),
     Item("usage", CtapHidUsage), Item("usage", FidoPage * Base + CtapHidUsage),
     Item("cut", 0)}

Credential == Table(<<Entry(Text("type"), Text("public-key")), Entry(Text("id"), Blob(16))>>)
Parameter(alg) ==
    Table(<<Entry(Text("type"), Text("public-key")), Entry(Text("alg"), Num(alg))>>)

MCDrafts ==
    {[kind |-> "info", entries |-> <<Entry(Num(1), List(<<Text("FIDO_2_0")>>))>>],
     [kind |-> "info", entries |-> <<Entry(Num(3), Blob(16)), Entry(Num(1), List(<<>>))>>],
     [kind |-> "request", entries |-> <<Entry(Num(1), Text("rp")), Entry(Num(2), Blob(32))>>],
     [kind |-> "response", entries |-> <<Entry(Num(1), Credential), Entry(Num(2), Blob(37)),
                                         Entry(Num(3), Blob(70))>>],
     [kind |-> "key", entries |-> <<Entry(Num(1), Num(2)), Entry(Num(-1), Num(1)),
                                    Entry(Num(-2), Blob(32)), Entry(Num(-3), Blob(32))>>]}

Entries2(numbers, values) == {Entry(Num(n), v) : n \in numbers, v \in values}
Options(name, value) == Table(<<Entry(Text(name), value)>>)

\* A kept map in which a key comes twice, and one as deep as a message can hold.
Twice == Table(<<Entry(Text("x"), Num(1)), Entry(Text("x"), Num(2))>>)
Nested == Options("a", List(<<Options("b", Num(1))>>))

InfoMembers ==
    Entries2({5, 7, 8, 11, 13, 14, 15, 16, 17, 18, 20}, {Num(0), Num(2), Num(-1), Flag(TRUE)})
    \cup Entries2({1, 2, 9}, {List(<<>>), List(<<Text("usb")>>),
                              List(<<Text("usb"), Text("usb")>>), List(<<Num(1)>>)})
    \cup Entries2({3}, {Blob(16), Blob(15)})
    \cup Entries2({4}, {Table(<<>>), Options("up", Flag(FALSE)), Options("uv", Num(1)),
                        Table(<<Entry(Text("uv"), Flag(TRUE)), Entry(Text("uv"), Flag(FALSE))>>)})
    \cup Entries2({6, 21}, {List(<<>>), List(<<Num(2), Num(1)>>), List(<<Num(1), Num(1)>>),
                            List(<<Num(-1)>>), List(<<Num(MaxProtocol + 1)>>)})
    \cup Entries2({10}, {List(<<>>), List(<<Parameter(-7)>>), List(<<Parameter(-7), Parameter(-7)>>),
                         List(<<Parameter(-7), Parameter(-8)>>), List(<<Table(<<>>)>>)})
    \cup Entries2({12}, {Flag(TRUE), Num(0)})
    \cup Entries2({19}, {Table(<<>>), List(<<>>), Twice, Options("nested", Twice), Nested})
    \cup Entries2({22, -1}, {Flag(TRUE)}) \cup {Entry(Text("x"), Num(0))}

RequestMembers ==
    Entries2({1, 2}, {Text("rp2"), Blob(16)})
    \cup Entries2({3}, {List(<<>>), List(<<Credential>>), List(<<Table(<<>>)>>), Num(1)})
    \cup Entries2({4}, {Table(<<>>), Num(1), List(<<Twice>>), Nested})
    \cup Entries2({5}, {Table(<<>>), Options("up", Flag(FALSE)), Options("uv", Flag(TRUE)),
                        Options("uv", Num(1)), Options("rk", Flag(TRUE))})
    \cup Entries2({6}, {Blob(16), Num(1)})
    \cup Entries2({7}, {Num(1), Num(2), Num(-1), Num(MaxProtocol + 1)})
    \cup {Entry(Num(8), Num(0))}

ResponseMembers ==
    Entries2({1, 2, 3, 7}, {Credential, Blob(8)})
    \cup Entries2({4}, {Table(<<>>), Options("id", Blob(8)), Options("name", Text("n"))})
    \cup {Entry(Num(4), Table(<<Entry(Text("id"), Blob(8)), Entry(Text("name"), Text("n"))>>))}
    \cup Entries2({5}, {Num(0), Num(1), Num(2), Flag(TRUE)})
    \cup Entries2({6}, {Flag(TRUE), Flag(FALSE), Num(1)}) \cup {Entry(Num(8), Num(0))}

KeyMembers ==
    Entries2({1, 3, -1}, {Num(1), Num(2), Num(-7), Num(6), Blob(1)})
    \cup Entries2({-2, -3}, {Blob(32), Blob(31), Num(1)}) \cup {Entry(Num(4), Num(0))}

MCMembersOf == [kind \in {"info", "request", "response", "key"} |->
    CASE kind = "info" -> InfoMembers [] kind = "request" -> RequestMembers
      [] kind = "response" -> ResponseMembers [] kind = "key" -> KeyMembers]

MCProtocols == {<<>>, <<1>>, <<2, 1>>, <<1, 1>>}
=============================================================================
