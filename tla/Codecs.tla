------------------------------- MODULE Codecs -------------------------------
(***************************************************************************)
(* Every input a key can hand the decoders: a report descriptor or a        *)
(* message (Formats), or a text that grows byte by byte, where what the     *)
(* strict and the tolerant CBOR decoder make of it is compared with what    *)
(* the encoder writes.                                                      *)
(***************************************************************************)
EXTENDS Cbor, Formats

CONSTANTS Alphabet,     \* the bytes tried
          Seeds         \* beginnings of texts: [bytes, more], more bounding the
                        \* bytes tried after it

ASSUME CodecsAssumption ==
    /\ Alphabet \subseteq 0..255
    /\ \A seed \in Seeds : /\ seed.bytes \in Seq(0..255) /\ seed.more \in Nat
                           /\ Len(seed.bytes) + seed.more < MaxLength

VARIABLE input          \* the bytes received so far

Init == input \in {seed.bytes : seed \in Seeds} /\ FormatsInit

\* Another byte, while the text so far is a prefix of some item.
Receive(byte) ==
    /\ descriptor = <<>> /\ message = NoMessage
    /\ \E seed \in Seeds :
          IsPrefix(seed.bytes, input) /\ Len(input) < Len(seed.bytes) + seed.more
    /\ LET read == Decode(input, FALSE) IN ~read.ok /\ read.error = "eof"
    /\ input' = Append(input, byte)
    /\ UNCHANGED formats

\* Decoders share nothing: one input is followed at a time.
Next ==
    \/ \E byte \in Alphabet : Receive(byte)
    \/ input = <<>> /\ FormatsNext /\ UNCHANGED input

Spec == Init /\ [][Next]_<<input, formats>>

-----------------------------------------------------------------------------
(* Properties                                                              *)

\* The strict decoder accepts exactly the canonical texts: whatever it accepts,
\* the encoder writes again byte for byte, so no two texts mean the same.
StrictIsCanonical ==
    LET read == Decode(input, TRUE)
    IN  read.ok => LET written == Encode(read.value)
                   IN  written.ok /\ written.bytes = input

\* The tolerant decoder agrees with the strict one on canonical texts, and what
\* it makes of any other text keeps its meaning when it is written canonically
\* and read back strictly.  Maps that name a key twice are left out: of them
\* the decoder makes no promise.
TolerantKeepsMeaning ==
    LET read == Decode(input, FALSE)
        strict == Decode(input, TRUE)
    IN  /\ strict.ok => read = strict
        /\ read.ok /\ ~Ambiguous(read.value) =>
              LET written == Encode(read.value)
                  again == Decode(written.bytes, TRUE)
              IN  written.ok /\ again.ok /\ Meaning(again.value) = Meaning(read.value)

\* What the core model's specification says of both decoders: a map with a
\* duplicate key is an error.
DuplicatesAreRejected ==
    LET read == Decode(input, FALSE) IN read.ok => ~Ambiguous(read.value)
=============================================================================
