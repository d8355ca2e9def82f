--------------------------- MODULE HidDescriptor ---------------------------
(***************************************************************************)
(* Which hidraw nodes are FIDO devices: the usage scan of a HID report      *)
(* descriptor (fidoh-transport-hid, descriptor.rs).  A descriptor is the    *)
(* sequence of its items; the last may be cut off in the middle.            *)
(***************************************************************************)
EXTENDS Naturals, Sequences, SequencesExt, FiniteSetsExt

CONSTANTS FidoPage,   \* FIDO_USAGE_PAGE
          Base        \* bound: what a 16 bit half of a payload counts, 2^16

ASSUME DescriptorAssumption == Base \in Nat \ {0, 1} /\ FidoPage \in 1..Base - 1

CtapHidUsage == 1

\* Items of no name here (Input, Collection, long items...) are "other".
Tags == {"page", "push", "pop", "size", "count", "usage", "output", "other", "cut"}

\* What the scan keeps: the globals in effect, those pushed, and its findings.
Globals == [page |-> 0, size |-> 0, count |-> 0]
NewScan == [globals |-> Globals, stack |-> <<>>, page |-> FALSE, usage |-> FALSE,
            output |-> {}, cut |-> FALSE]

\* split_usage: a payload with high bits carries its page, another is of the
\* page in effect.
SplitUsage(value, page) ==
    IF value >= Base THEN [page |-> value \div Base, usage |-> value % Base]
    ELSE [page |-> page, usage |-> value]

FidoUsage(pair) == pair.page = FidoPage /\ pair.usage = CtapHidUsage

\* Variant: Pop forgets to restore.
PopNothing(scan) == [scan EXCEPT !.stack = IF @ = <<>> THEN @ ELSE Front(@)]

\* Pop of an empty stack is ignored.
Pop(scan) ==
    IF scan.stack = <<>> THEN scan
    ELSE [scan EXCEPT !.globals = Last(scan.stack), !.stack = Front(@)]

\* One item of the loop of find_fido_usage.
Scan(scan, item) ==
    LET g == scan.globals IN
    CASE scan.cut -> scan
      [] ~scan.cut /\ item.tag = "cut" -> [scan EXCEPT !.cut = TRUE]
      [] ~scan.cut /\ item.tag = "page" ->
            [scan EXCEPT !.globals.page = item.value,
                         !.page = @ \/ item.value = FidoPage]
      [] ~scan.cut /\ item.tag = "push" -> [scan EXCEPT !.stack = Append(@, g)]
      [] ~scan.cut /\ item.tag = "pop" -> Pop(scan)
      [] ~scan.cut /\ item.tag \in {"size", "count"} ->
            [scan EXCEPT !.globals[item.tag] = item.value]
      [] ~scan.cut /\ item.tag = "usage" ->
            LET fido == FidoUsage(SplitUsage(item.value, g.page))
            IN  [scan EXCEPT !.usage = @ \/ fido, !.page = @ \/ fido]
      [] ~scan.cut /\ item.tag = "output" ->
            [scan EXCEPT !.output = IF @ = {} /\ g.size > 0 /\ g.count > 0
                                    THEN {(g.size * g.count) \div 8} ELSE @]
      [] OTHER -> scan

\* find_fido_usage: a typed error for a descriptor cut off, or the match.
FindFidoUsage(items) ==
    LET after[k \in 0..Len(items)] ==
            IF k = 0 THEN NewScan ELSE Scan(after[k - 1], items[k])
    IN  after[Len(items)]
IsFido(match) == ~match.cut /\ match.page /\ match.usage

-----------------------------------------------------------------------------
(* The same, said without a scan.                                          *)

CountOf(items, tag) == Cardinality({i \in DOMAIN items : items[i].tag = tag})

\* The Pop at k closes the Push at p.
Closes(items, k, p) ==
    LET upTo(m) == SubSeq(items, p + 1, m) IN
    /\ p < k /\ items[p].tag = "push" /\ items[k].tag = "pop"
    /\ \A m \in p..k - 1 : CountOf(upTo(m), "pop") <= CountOf(upTo(m), "push")
    /\ CountOf(upTo(k - 1), "pop") = CountOf(upTo(k - 1), "push")

\* The page in effect at i: the last one declared before it, those between a
\* Push and its Pop left out once the Pop is past.
PageAt(items, i) ==
    LET visible == {j \in 1..i - 1 :
                      /\ items[j].tag = "page"
                      /\ ~\E p \in 1..j - 1, k \in j + 1..i - 1 : Closes(items, k, p)}
    IN  IF visible = {} THEN 0 ELSE items[Max(visible)].value

Declares(items) ==
    \E i \in DOMAIN items :
        /\ items[i].tag = "usage"
        /\ \/ items[i].value = FidoPage * Base + CtapHidUsage
           \/ items[i].value = CtapHidUsage /\ PageAt(items, i) = FidoPage
=============================================================================
