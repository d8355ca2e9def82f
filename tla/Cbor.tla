-------------------------------- MODULE Cbor --------------------------------
(***************************************************************************)
(* The canonical CBOR layer (fidoh-core, cbor.rs), byte by byte: what the   *)
(* encoder emits and what the strict and the tolerant decoder accept.       *)
(*                                                                         *)
(* An integer is its big-endian digits in base 256 without leading zeros,   *)
(* so that 64 bit arguments need no arithmetic.                             *)
(***************************************************************************)
EXTENDS Naturals, Sequences, FiniteSets, SequencesExt

CONSTANT MaxLength    \* bound: more than any input holds bytes

MaxDepth == 4

Number(negative, digits) == [type |-> "int", negative |-> negative, digits |-> digits]
String(major, bytes) == [type |-> "string", major |-> major, bytes |-> bytes]
Array(items) == [type |-> "array", items |-> items]
Map(entries) == [type |-> "map", entries |-> entries]
Simple(info) == [type |-> "simple", info |-> info]

Ok(value, pos) == [ok |-> TRUE, value |-> value, pos |-> pos]
Err(error) == [ok |-> FALSE, error |-> error]

Digits(n) == IF n = 0 THEN <<>> ELSE <<n>>
Stripped(bytes) ==
    LET zeros == {n \in 0..Len(bytes) : \A i \in 1..n : bytes[i] = 0}
    IN  SubSeq(bytes, 1 + CHOOSE n \in zeros : \A m \in zeros : m <= n, Len(bytes))
Padded(digits, width) == [i \in 1..width - Len(digits) |-> 0] \o digits

\* A length, counted no further than MaxLength.
Length(digits) ==
    FoldLeft(LAMBDA n, d : IF n * 256 + d >= MaxLength THEN MaxLength ELSE n * 256 + d,
             0, digits)

-----------------------------------------------------------------------------
(* Encoding.                                                               *)

Immediate(digits) == digits = <<>> \/ (Len(digits) = 1 /\ digits[1] < 24)

\* Variant: 24 is taken for an immediate argument.
WriteHeadShort(major, digits) ==
    IF digits = <<>> \/ (Len(digits) = 1 /\ digits[1] <= 24)
    THEN <<major * 32 + IF digits = <<>> THEN 0 ELSE digits[1]>>
    ELSE <<major * 32 + 24>> \o digits

\* write_head: the smallest form of an argument.
WriteHead(major, digits) ==
    LET forms == <<1, 2, 4, 8>>
        form == CHOOSE f \in 1..4 :
                   /\ Len(digits) <= forms[f]
                   /\ f > 1 => Len(digits) > forms[f - 1]
    IN  IF Immediate(digits)
        THEN <<major * 32 + IF digits = <<>> THEN 0 ELSE digits[1]>>
        ELSE <<major * 32 + 23 + form>> \o Padded(digits, forms[form])

\* canonical_key_cmp: the shorter first, then byte by byte.
KeyLess(a, b) ==
    \/ Len(a) < Len(b)
    \/ /\ Len(a) = Len(b)
       /\ \E i \in DOMAIN a : a[i] < b[i] /\ \A j \in 1..i - 1 : a[j] = b[j]

Bytes(pieces) == [ok |-> TRUE, bytes |-> FlattenSeq(pieces)]

\* encode_value; -1 - n of a negative n is what its digits hold.
RECURSIVE EncodeValue(_, _)
EncodeValue(value, depth) ==
    LET inner(v) == EncodeValue(v, depth + 1) IN
    CASE value.type \in {"array", "map"} /\ depth >= MaxDepth ->
            Err("depth")
      [] value.type = "int" ->
            Bytes(<<WriteHead(IF value.negative THEN 1 ELSE 0, value.digits)>>)
      [] value.type = "string" ->
            Bytes(<<WriteHead(value.major, Digits(Len(value.bytes))), value.bytes>>)
      [] value.type = "array" /\ depth < MaxDepth ->
            LET items == [i \in DOMAIN value.items |-> inner(value.items[i])]
                bad == {i \in DOMAIN items : ~items[i].ok}
            IN  IF bad # {} THEN items[CHOOSE i \in bad : \A j \in bad : i <= j]
                ELSE Bytes(<<WriteHead(4, Digits(Len(items)))>>
                           \o [i \in DOMAIN items |-> items[i].bytes])
      [] value.type = "map" /\ depth < MaxDepth ->
            LET pairs == [i \in DOMAIN value.entries |->
                             [key |-> inner(value.entries[i].key),
                              val |-> inner(value.entries[i].val)]]
                sorted == SortSeq(pairs, LAMBDA a, b : KeyLess(a.key.bytes, b.key.bytes))
            IN  IF \E i \in DOMAIN pairs : ~pairs[i].key.ok THEN Err("depth")
                ELSE IF \E i \in 1..Len(pairs) - 1 : sorted[i].key = sorted[i + 1].key
                THEN Err("duplicate")
                ELSE IF \E i \in DOMAIN pairs : ~pairs[i].val.ok THEN Err("depth")
                ELSE Bytes(<<WriteHead(5, Digits(Len(pairs)))>>
                           \o [i \in DOMAIN pairs |->
                                  sorted[i].key.bytes \o sorted[i].val.bytes])
      [] value.type = "simple" -> Bytes(<< <<224 + value.info>> >>)

Encode(value) == EncodeValue(value, 0)

-----------------------------------------------------------------------------
(* Decoding.                                                               *)

\* Variant: an eight byte argument may hold what fits in four bytes.
NonMinimalWide(info, digits) ==
    CASE info = 24 -> Immediate(digits)
      [] info = 25 -> Len(digits) <= 1
      [] info = 26 -> Len(digits) <= 2
      [] info = 27 -> Len(digits) <= 3
      [] OTHER -> FALSE

\* The argument did not need the form it has.
NonMinimal(info, digits) ==
    CASE info = 24 -> Immediate(digits)
      [] info = 25 -> Len(digits) <= 1
      [] info = 26 -> Len(digits) <= 2
      [] info = 27 -> Len(digits) <= 4
      [] OTHER -> FALSE

\* argument_impl, from the byte after the head.
Argument(bytes, pos, info, strict) ==
    LET width == CASE info = 24 -> 1 [] info = 25 -> 2 [] info = 26 -> 4 [] info = 27 -> 8
                   [] OTHER -> 0
        digits == Stripped(SubSeq(bytes, pos, pos + width - 1))
    IN  CASE info < 24 -> Ok(Digits(info), pos)
          [] info > 27 -> Err("structure")
          [] info \in 24..27 /\ pos + width - 1 > Len(bytes) -> Err("eof")
          [] OTHER -> IF strict /\ NonMinimal(info, digits) THEN Err("noncanonical")
                      ELSE Ok(digits, pos + width)

LengthArgument(bytes, pos, info, strict) ==
    IF info = 31 THEN Err("indefinite") ELSE Argument(bytes, pos, info, strict)

\* from_utf8, of texts of one byte.
IsUtf8(bytes) == \A i \in DOMAIN bytes : bytes[i] < 128

\* simple: false, true and null; floats and the rest are errors.
SimpleValue(info, pos) ==
    CASE info \in 20..22 -> Ok(Simple(info), pos)
      [] info \in 25..27 -> Err("float")
      [] OTHER -> Err("structure")

\* What follows a string's head.
StringValue(bytes, head, major) ==
    LET end == head.pos + Length(head.value) - 1
        body == SubSeq(bytes, head.pos, end)
    IN  CASE end > Len(bytes) -> Err("eof")
          [] end <= Len(bytes) /\ major = 3 /\ ~IsUtf8(body) -> Err("structure")
          [] OTHER -> Ok(String(major, body), end + 1)

\* Decoder::value and its loops over items and entries.  Keys are compared as
\* the bytes they came in.
RECURSIVE Value(_, _, _, _), Items(_, _, _, _, _, _), Entries(_, _, _, _, _, _, _)
Value(bytes, pos, depth, strict) ==
    IF pos > Len(bytes) THEN Err("eof")
    ELSE LET major == bytes[pos] \div 32
             info == bytes[pos] % 32
             arg == Argument(bytes, pos + 1, info, strict)
             len == LengthArgument(bytes, pos + 1, info, strict)
         IN  CASE major \in {0, 1} ->
                    IF arg.ok THEN Ok(Number(major = 1, arg.value), arg.pos) ELSE arg
               [] major \in {2, 3} ->
                    IF len.ok THEN StringValue(bytes, len, major) ELSE len
               [] major \in {4, 5} /\ depth >= MaxDepth -> Err("depth")
               [] major = 4 /\ depth < MaxDepth ->
                    IF len.ok
                    THEN Items(bytes, len.pos, Length(len.value), depth, strict, <<>>)
                    ELSE len
               [] major = 5 /\ depth < MaxDepth ->
                    IF len.ok
                    THEN Entries(bytes, len.pos, Length(len.value), depth, strict, <<>>, <<>>)
                    ELSE len
               [] major = 6 ->
                    LET tag == Argument(bytes, pos + 1, info, FALSE)
                    IN  IF tag.ok THEN Err("tag") ELSE tag
               [] major = 7 -> SimpleValue(info, pos + 1)

Items(bytes, pos, n, depth, strict, items) ==
    IF n = 0 THEN Ok(Array(items), pos)
    ELSE LET item == Value(bytes, pos, depth + 1, strict)
         IN  IF item.ok
             THEN Items(bytes, item.pos, n - 1, depth, strict, Append(items, item.value))
             ELSE item

Entries(bytes, pos, n, depth, strict, entries, keys) ==
    IF n = 0 THEN Ok(Map(entries), pos)
    ELSE LET key == Value(bytes, pos, depth + 1, strict)
             raw == SubSeq(bytes, pos, key.pos - 1)
             val == Value(bytes, key.pos, depth + 1, strict)
         IN  CASE ~key.ok -> key
               [] key.ok /\ raw \in ToSet(keys) -> Err("duplicate")
               [] key.ok /\ raw \notin ToSet(keys) /\ strict /\ keys # <<>>
                     /\ ~KeyLess(Last(keys), raw) -> Err("unsorted")
               [] OTHER ->
                     IF val.ok
                     THEN Entries(bytes, val.pos, n - 1, depth, strict,
                                  Append(entries, [key |-> key.value, val |-> val.value]),
                                  Append(keys, raw))
                     ELSE val

\* CborValue::decode: one item and nothing after it.
Decode(bytes, strict) ==
    LET item == Value(bytes, 1, 0, strict)
    IN  IF item.ok /\ item.pos # Len(bytes) + 1 THEN Err("trailing") ELSE item

-----------------------------------------------------------------------------
\* What a value says, however it was written: maps have no order.
RECURSIVE Meaning(_)
Meaning(value) ==
    CASE value.type = "array" ->
            [type |-> "array", items |-> [i \in DOMAIN value.items |-> Meaning(value.items[i])]]
      [] value.type = "map" ->
            [type |-> "map",
             entries |-> {[key |-> Meaning(e.key), val |-> Meaning(e.val)] :
                             e \in ToSet(value.entries)}]
      [] OTHER -> value

\* Two keys of one of its maps say the same.
RECURSIVE Ambiguous(_)
Ambiguous(value) ==
    CASE value.type = "array" -> \E i \in DOMAIN value.items : Ambiguous(value.items[i])
      [] value.type = "map" ->
            LET entries == value.entries IN
            \/ \E i, j \in DOMAIN entries :
                  i # j /\ Meaning(entries[i].key) = Meaning(entries[j].key)
            \/ \E i \in DOMAIN entries :
                  Ambiguous(entries[i].key) \/ Ambiguous(entries[i].val)
      [] OTHER -> FALSE
=============================================================================
