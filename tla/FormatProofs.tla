---------------------------- MODULE FormatProofs ----------------------------
(***************************************************************************)
(* Proofs about report descriptors and messages of any length: the scan of  *)
(* a descriptor finds what it declares, and every message that is accepted  *)
(* is written and read as the same message.                                 *)
(*                                                                          *)
(* The scan is one pass with a stack, what a descriptor declares is said    *)
(* with brackets of Push and Pop.  Between the two stands the depth of the  *)
(* nesting: a Pop closes the Push at which the depth was last what it is    *)
(* after the Pop, and the globals on the stack at a height are those in     *)
(* effect where that Push was met.                                          *)
(*                                                                          *)
(* A message goes through its members: Says states what the map an encoder  *)
(* writes holds, whatever order it writes in, and a member Fits if it is    *)
(* written as a value of its kind that is read as that member.              *)
(***************************************************************************)
EXTENDS Formats, DataLemmas, SequenceTheorems

-----------------------------------------------------------------------------
(* Report descriptors.                                                     *)

Descriptors == Seq(ItemKinds)

\* What an item of a descriptor is.
LEMMA ItemsOf ==
    ASSUME NEW items \in Descriptors, NEW k \in 1..Len(items)
    PROVE  items[k].tag \in Tags /\ items[k].value \in Nat
<1>1. items[k] \in ItemKinds
  BY DEF Descriptors
<1>2. Base * Base - 1 \in Int
  BY DescriptorAssumption
<1>3. QED BY <1>1, <1>2, FormatsAssumption

\* Counting on by one item, and from nothing.
LEMMA CountGrows ==
    ASSUME NEW items \in Descriptors, NEW p \in 0..Len(items), NEW m \in p..Len(items), NEW tag
    PROVE  /\ CountOf(SubSeq(items, p + 1, m), tag) \in Nat
           /\ m = p => CountOf(SubSeq(items, p + 1, m), tag) = 0
           /\ m < Len(items) => CountOf(SubSeq(items, p + 1, m + 1), tag)
                                = CountOf(SubSeq(items, p + 1, m), tag)
                                  + IF items[m + 1].tag = tag THEN 1 ELSE 0
<1> DEFINE part(i) == SubSeq(items, p + 1, i)
           at(i) == {j \in DOMAIN part(i) : part(i)[j].tag = tag}
<1>1. ASSUME NEW i \in p..Len(items)
      PROVE  /\ part(i) \in Descriptors /\ Len(part(i)) = i - p
             /\ DOMAIN part(i) = 1..i - p
             /\ \A j \in 1..i - p : part(i)[j] = items[p + j]
  <2>1. items \in Seq(ItemKinds) /\ Len(items) \in Nat /\ p \in Nat /\ i \in Nat
        /\ p <= i /\ i <= Len(items)
    BY <1>1 DEF Descriptors
  <2>2. part(i) \in Seq(ItemKinds) /\ Len(part(i)) = i - p
    BY <2>1
  <2>3. DOMAIN part(i) = 1..i - p
    BY <2>1, <2>2
  <2>4. ASSUME NEW j \in 1..i - p PROVE part(i)[j] = items[p + j]
    <3>1. j \in Nat /\ (p + 1) + j - 1 = p + j
      BY <2>1
    <3>2. p + 1 \in Int /\ \A l \in p + 1..i : items[l] \in ItemKinds
      BY <2>1
    <3>3. \A l \in 1..i - (p + 1) + 1 : part(i)[l] = items[(p + 1) + l - 1]
      BY <2>1, <3>2, SubSeqProperties
    <3>4. j \in 1..i - (p + 1) + 1
      BY <2>1
    <3>5. QED BY <3>1, <3>3, <3>4
  <2>5. QED BY <2>2, <2>3, <2>4 DEF Descriptors
<1>2. IsFiniteSet(at(m)) /\ Cardinality(at(m)) \in Nat
  <2>1. m \in Int /\ p \in Int /\ DOMAIN part(m) = 1..m - p
    BY <1>1 DEF Descriptors
  <2> HIDE DEF part
  <2>2. IsFiniteSet(1..m - p) /\ at(m) \subseteq 1..m - p
    BY <2>1, FS_Interval
  <2>3. QED BY <2>2, FS_Subset, FS_CardinalityType
<1>3. ASSUME m = p PROVE at(m) = {}
  BY <1>1, <1>3
<1>4. ASSUME m < Len(items)
      PROVE  at(m + 1) = at(m) \cup IF items[m + 1].tag = tag THEN {m + 1 - p} ELSE {}
  <2>1. m + 1 \in p..Len(items) /\ m \in p..Len(items) /\ p \in Nat /\ m \in Nat
    BY <1>4 DEF Descriptors
  <2>2. 1..m + 1 - p = (1..m - p) \cup {m + 1 - p}
    BY <2>1
  <2>3. \A j \in 1..m - p : part(m + 1)[j] = part(m)[j]
    BY <1>1, <2>1
  <2>4. part(m + 1)[m + 1 - p] = items[m + 1]
    BY <1>1, <2>1
  <2>5. DOMAIN part(m + 1) = 1..m + 1 - p /\ DOMAIN part(m) = 1..m - p
    BY <1>1, <2>1
  <2> HIDE DEF part
  <2>6. QED BY <2>2, <2>3, <2>4, <2>5
<1>5. m + 1 - p \notin at(m)
  BY <1>1 DEF Descriptors
<1> HIDE DEF part
<1>6. ASSUME m < Len(items)
      PROVE  Cardinality(at(m + 1))
             = Cardinality(at(m)) + IF items[m + 1].tag = tag THEN 1 ELSE 0
  <2>1. CASE items[m + 1].tag = tag
    <3>1. at(m + 1) = at(m) \cup {m + 1 - p}
      BY <1>4, <1>6, <2>1
    <3> HIDE DEF at
    <3>2. QED BY <1>2, <1>5, <2>1, <3>1, FS_AddElement
  <2>2. CASE items[m + 1].tag # tag
    <3>1. at(m + 1) = at(m)
      BY <1>4, <1>6, <2>2
    <3> HIDE DEF at
    <3>2. QED BY <1>2, <2>2, <3>1
  <2>3. QED BY <2>1, <2>2
<1>7. \A i : CountOf(part(i), tag) = Cardinality(at(i))
  BY DEF CountOf
<1>8. m = p => Cardinality(at(m)) = 0
  BY <1>3, FS_EmptySet
<1> HIDE DEF at
<1>9. QED BY <1>2, <1>6, <1>7, <1>8 DEF part

\* What there is up to m is what there is up to p and what comes after it.
LEMMA CountBetween ==
    ASSUME NEW items \in Descriptors, NEW p \in 0..Len(items), NEW m \in p..Len(items), NEW tag
    PROVE  CountOf(SubSeq(items, 1, m), tag)
           = CountOf(SubSeq(items, 1, p), tag) + CountOf(SubSeq(items, p + 1, m), tag)
<1> DEFINE whole(i) == CountOf(SubSeq(items, 1, i), tag)
           part(i) == CountOf(SubSeq(items, p + 1, i), tag)
           Held == {i \in Nat : p + i <= Len(items) => whole(p + i) = whole(p) + part(p + i)}
<1>1. Len(items) \in Nat /\ p \in Nat /\ m \in Nat /\ 0 + 1 = 1 /\ 0 \in 0..Len(items)
  BY DEF Descriptors
<1>2. ASSUME NEW i \in p..Len(items)
      PROVE  /\ whole(i) \in Nat /\ part(i) \in Nat /\ part(p) = 0
             /\ i < Len(items) =>
                  \E one \in {0, 1} : whole(i + 1) = whole(i) + one /\ part(i + 1) = part(i) + one
  <2>1. i \in 0..Len(items) /\ p \in p..Len(items)
    BY <1>1, <1>2
  <2>2. /\ part(i) \in Nat /\ part(p) = 0
        /\ i < Len(items) => part(i + 1) = part(i) + IF items[i + 1].tag = tag THEN 1 ELSE 0
    BY <2>1, CountGrows
  <2>3. /\ whole(i) \in Nat
        /\ i < Len(items) => whole(i + 1) = whole(i) + IF items[i + 1].tag = tag THEN 1 ELSE 0
    <3> HIDE DEF part
    <3>1. /\ CountOf(SubSeq(items, 0 + 1, i), tag) \in Nat
          /\ i < Len(items) => CountOf(SubSeq(items, 0 + 1, i + 1), tag)
                = CountOf(SubSeq(items, 0 + 1, i), tag) + IF items[i + 1].tag = tag THEN 1 ELSE 0
      BY <1>1, <2>1, CountGrows
    <3>2. QED BY <1>1, <3>1
  <2> HIDE DEF part, whole
  <2>4. QED BY <2>2, <2>3
<1> HIDE DEF part, whole
<1>3. 0 \in Held
  BY <1>1, <1>2
<1>4. ASSUME NEW i \in Nat, i \in Held PROVE i + 1 \in Held
  <2>1. SUFFICES ASSUME p + (i + 1) <= Len(items)
                 PROVE  whole(p + (i + 1)) = whole(p) + part(p + (i + 1))
    OBVIOUS
  <2>2. p + i \in p..Len(items) /\ p + i < Len(items) /\ p + (i + 1) = (p + i) + 1
        /\ p \in p..Len(items)
    BY <1>1, <2>1
  <2>3. whole(p + i) = whole(p) + part(p + i)
    BY <1>4, <2>2
  <2>4. whole(p) \in Nat /\ part(p + i) \in Nat /\ whole(p + i) \in Nat
    BY <1>2, <2>2
  <2>5. PICK one \in {0, 1} : whole((p + i) + 1) = whole(p + i) + one
                             /\ part((p + i) + 1) = part(p + i) + one
    BY <1>2, <2>2
  <2>6. QED BY <2>2, <2>3, <2>4, <2>5
<1>5. m - p \in Held
  <2> HIDE DEF Held
  <2>1. m - p \in Nat
    BY <1>1
  <2>2. QED BY <1>3, <1>4, <2>1, SetInduction
<1>6. m = p + (m - p) /\ m <= Len(items)
  BY <1>1
<1>7. whole(m) = whole(p) + part(m)
  BY <1>5, <1>6
<1>8. QED BY <1>7 DEF whole, part

\* Pushes past their Pops, after the first m items.
Depth(items, m) ==
    CountOf(SubSeq(items, 1, m), "push") - CountOf(SubSeq(items, 1, m), "pop")

\* An item changes the depth by at most one, and only a Push or a Pop does.
LEMMA DepthSteps ==
    ASSUME NEW items \in Descriptors, NEW m \in 0..Len(items)
    PROVE  /\ Depth(items, m) \in Int
           /\ m < Len(items) => Depth(items, m + 1) =
                 CASE items[m + 1].tag = "push" -> Depth(items, m) + 1
                   [] items[m + 1].tag = "pop" -> Depth(items, m) - 1
                   [] OTHER -> Depth(items, m)
<1>1. 0 \in 0..Len(items) /\ m \in 0..Len(items) /\ 0 + 1 = 1
  BY DEF Descriptors
<1>2. ASSUME NEW tag
      PROVE  /\ CountOf(SubSeq(items, 0 + 1, m), tag) \in Nat
             /\ m < Len(items) => CountOf(SubSeq(items, 0 + 1, m + 1), tag)
                   = CountOf(SubSeq(items, 0 + 1, m), tag) + IF items[m + 1].tag = tag THEN 1 ELSE 0
  BY <1>1, CountGrows
<1> DEFINE count(i, tag) == CountOf(SubSeq(items, 1, i), tag)
<1>3. ASSUME NEW tag
      PROVE  /\ count(m, tag) \in Nat
             /\ m < Len(items) => count(m + 1, tag)
                   = count(m, tag) + IF items[m + 1].tag = tag THEN 1 ELSE 0
  BY <1>1, <1>2
<1>4. \A i : Depth(items, i) = count(i, "push") - count(i, "pop")
  BY DEF Depth
<1> HIDE DEF count
<1>5. count(m, "push") \in Nat /\ count(m, "pop") \in Nat
  BY <1>3
<1>6. ASSUME m < Len(items)
      PROVE  Depth(items, m + 1) =
                 CASE items[m + 1].tag = "push" -> Depth(items, m) + 1
                   [] items[m + 1].tag = "pop" -> Depth(items, m) - 1
                   [] OTHER -> Depth(items, m)
  <2>1. count(m + 1, "push") = count(m, "push") + IF items[m + 1].tag = "push" THEN 1 ELSE 0
    BY <1>3, <1>6
  <2>2. count(m + 1, "pop") = count(m, "pop") + IF items[m + 1].tag = "pop" THEN 1 ELSE 0
    BY <1>3, <1>6
  <2>3. QED BY <1>4, <1>5, <2>1, <2>2
<1>7. QED BY <1>4, <1>5, <1>6

\* A Pop closes a Push when it is the first item to go below its depth.
LEMMA ClosesIsDepth ==
    ASSUME NEW items \in Descriptors, NEW p \in 1..Len(items), NEW k \in 1..Len(items)
    PROVE  Closes(items, k, p) <=>
              /\ p < k /\ items[p].tag = "push" /\ items[k].tag = "pop"
              /\ \A m \in p..k - 1 : Depth(items, m) >= Depth(items, p)
              /\ Depth(items, k - 1) = Depth(items, p)
<1> DEFINE part(m, tag) == CountOf(SubSeq(items, p + 1, m), tag)
<1>1. ASSUME NEW m \in p..Len(items)
      PROVE  /\ part(m, "push") \in Nat /\ part(m, "pop") \in Nat
             /\ Depth(items, m) \in Int /\ Depth(items, p) \in Int
             /\ Depth(items, m) = Depth(items, p) + (part(m, "push") - part(m, "pop"))
  <2> DEFINE whole(i, tag) == CountOf(SubSeq(items, 1, i), tag)
  <2>1. p \in 0..Len(items) /\ m \in p..Len(items) /\ 0 \in 0..Len(items) /\ 0 + 1 = 1
        /\ m \in 0..Len(items)
    BY <1>1 DEF Descriptors
  <2>2. ASSUME NEW tag
        PROVE  part(m, tag) \in Nat /\ whole(m, tag) = whole(p, tag) + part(m, tag)
    BY <2>1, CountGrows, CountBetween
  <2>3. ASSUME NEW tag PROVE whole(p, tag) \in Nat
    <3>1. CountOf(SubSeq(items, 0 + 1, p), tag) \in Nat
      BY <2>1, CountGrows
    <3>2. QED BY <2>1, <3>1
  <2>4. \A i : Depth(items, i) = whole(i, "push") - whole(i, "pop")
    BY DEF Depth
  <2>5. Depth(items, m) \in Int /\ Depth(items, p) \in Int
    BY <2>1, DepthSteps
  <2> HIDE DEF part, whole
  <2>6. QED BY <2>2, <2>3, <2>4, <2>5
<1>2. Closes(items, k, p) <=>
        /\ p < k /\ items[p].tag = "push" /\ items[k].tag = "pop"
        /\ \A m \in p..k - 1 : part(m, "pop") <= part(m, "push")
        /\ part(k - 1, "pop") = part(k - 1, "push")
  BY DEF Closes
<1>3. p < k => k - 1 \in p..Len(items) /\ \A m \in p..k - 1 : m \in p..Len(items)
  BY DEF Descriptors
<1> HIDE DEF part
<1>4. ASSUME NEW m \in p..Len(items)
      PROVE  /\ part(m, "pop") <= part(m, "push") <=> Depth(items, m) >= Depth(items, p)
             /\ part(m, "pop") = part(m, "push") <=> Depth(items, m) = Depth(items, p)
  <2>1. ASSUME NEW a \in Nat, NEW b \in Nat, NEW x \in Int, NEW y \in Int, x = y + (a - b)
        PROVE  (b <= a <=> x >= y) /\ (b = a <=> x = y)
    BY <2>1
  <2>2. /\ part(m, "push") \in Nat /\ part(m, "pop") \in Nat
        /\ Depth(items, m) \in Int /\ Depth(items, p) \in Int
        /\ Depth(items, m) = Depth(items, p) + (part(m, "push") - part(m, "pop"))
    BY <1>1
  <2>3. QED BY <2>1, <2>2
<1>5. ASSUME p < k
      PROVE  /\ part(k - 1, "pop") = part(k - 1, "push") <=> Depth(items, k - 1) = Depth(items, p)
             /\ \A m \in p..k - 1 : part(m, "pop") <= part(m, "push")
                                    <=> Depth(items, m) >= Depth(items, p)
  BY <1>3, <1>4, <1>5
<1>6. CASE p < k
  BY <1>2, <1>5, <1>6
<1>7. CASE ~(p < k)
  BY <1>2, <1>7
<1>8. QED BY <1>6, <1>7

\* The page declarations in effect at item i.
Shown(items, i) ==
    {j \in 1..i - 1 : /\ items[j].tag = "page"
                      /\ ~\E p \in 1..j - 1, k \in j + 1..i - 1 : Closes(items, k, p)}

\* The page in effect, from the last declaration that shows.
LEMMA PageIs ==
    ASSUME NEW items, NEW i
    PROVE  PageAt(items, i) = IF Shown(items, i) = {} THEN 0 ELSE items[Max(Shown(items, i))].value
BY DEF PageAt, Shown

\* The greatest of the declarations is the one last made.
LEMMA LatestShown ==
    ASSUME NEW T, NEW k \in T, \A j \in T : j <= k, T \subseteq Nat
    PROVE  Max(T) = k
<1>1. Max(T) \in T /\ \A j \in T : Max(T) >= j
  BY DEF Max
<1>2. Max(T) >= k /\ Max(T) <= k /\ Max(T) \in Nat /\ k \in Nat
  BY <1>1
<1>3. QED BY <1>2

\* What one more item does to the page in effect.
LEMMA PagePasses ==
    ASSUME NEW items \in Descriptors, NEW k \in 1..Len(items)
    PROVE  /\ items[k].tag \notin {"page", "pop"} => PageAt(items, k + 1) = PageAt(items, k)
           /\ items[k].tag = "page" => PageAt(items, k + 1) = items[k].value
           /\ items[k].tag = "pop" /\ (\A p \in 1..k - 1 : ~Closes(items, k, p)) =>
                 PageAt(items, k + 1) = PageAt(items, k)
<1>1. k \in Nat /\ k >= 1
  BY DEF Descriptors
<1>2. ASSUME \A p \in 1..k - 1 : ~Closes(items, k, p)
      PROVE  Shown(items, k + 1) = Shown(items, k) \cup IF items[k].tag = "page" THEN {k} ELSE {}
  <2>1. ASSUME NEW j \in 1..k - 1
        PROVE  j \in Shown(items, k + 1) <=> j \in Shown(items, k)
    <3>1. j \in 1..(k + 1) - 1 /\ j \in Nat /\ j < k
      BY <1>1
    <3>2. \A p \in 1..j - 1 : ~Closes(items, k, p)
      BY <1>1, <1>2
    <3>3. j + 1..(k + 1) - 1 = (j + 1..k - 1) \cup {k}
      BY <1>1, <3>1
    <3>4. (\E p \in 1..j - 1, c \in j + 1..(k + 1) - 1 : Closes(items, c, p))
          <=> (\E p \in 1..j - 1, c \in j + 1..k - 1 : Closes(items, c, p))
      BY <3>2, <3>3
    <3>5. QED BY <3>1, <3>4 DEF Shown
  <2>2. k \in Shown(items, k + 1) <=> items[k].tag = "page"
    <3>1. k \in 1..(k + 1) - 1 /\ k + 1..(k + 1) - 1 = {}
      BY <1>1
    <3>2. QED BY <3>1 DEF Shown
  <2>3. /\ Shown(items, k + 1) \subseteq (1..k - 1) \cup {k}
        /\ Shown(items, k) \subseteq 1..k - 1
    BY <1>1 DEF Shown
  <2>4. QED BY <2>1, <2>2, <2>3
<1>3. ASSUME items[k].tag # "pop", NEW p PROVE ~Closes(items, k, p)
  BY <1>3 DEF Closes
<1>4. ASSUME items[k].tag = "page" PROVE PageAt(items, k + 1) = items[k].value
  <2>1. Shown(items, k + 1) = Shown(items, k) \cup {k}
    BY <1>2, <1>3, <1>4
  <2>2. Shown(items, k) \subseteq 1..k - 1
    BY DEF Shown
  <2>3. Max(Shown(items, k + 1)) = k
    <3>1. /\ k \in Shown(items, k + 1) /\ Shown(items, k + 1) \subseteq Nat
          /\ \A j \in Shown(items, k + 1) : j <= k
      BY <1>1, <2>1, <2>2
    <3>2. QED BY <3>1, LatestShown
  <2>4. QED BY <2>1, <2>3, PageIs
<1>5. ASSUME items[k].tag # "page", \A p \in 1..k - 1 : ~Closes(items, k, p)
      PROVE  PageAt(items, k + 1) = PageAt(items, k)
  <2>1. Shown(items, k + 1) = Shown(items, k)
    BY <1>2, <1>5
  <2>2. QED BY <2>1, PageIs
<1>6. QED BY <1>3, <1>4, <1>5

\* A Pop brings back the page that was in effect at its Push: what was declared
\* between the two is gone, and no pair that closes in between or with the Pop
\* hides what was declared before the Push.
LEMMA PopBringsBack ==
    ASSUME NEW items \in Descriptors, NEW k \in 1..Len(items), NEW p \in 1..k - 1,
           Closes(items, k, p)
    PROVE  PageAt(items, k + 1) = PageAt(items, p)
<1>1. k \in Nat /\ p \in Nat /\ 1 <= p /\ p < k /\ k <= Len(items)
      /\ k \in 1..Len(items) /\ p \in 1..Len(items) /\ Len(items) \in Nat
  BY DEF Descriptors
<1>2. ASSUME NEW m \in 0..Len(items)
      PROVE  /\ Depth(items, m) \in Int
             /\ m < Len(items) => Depth(items, m + 1) =
                   CASE items[m + 1].tag = "push" -> Depth(items, m) + 1
                     [] items[m + 1].tag = "pop" -> Depth(items, m) - 1
                     [] OTHER -> Depth(items, m)
  BY DepthSteps
<1>3. /\ items[p].tag = "push" /\ items[k].tag = "pop"
      /\ \A m \in p..k - 1 : Depth(items, m) >= Depth(items, p)
      /\ Depth(items, k - 1) = Depth(items, p)
  BY <1>1, ClosesIsDepth
<1>4. Depth(items, p) = Depth(items, p - 1) + 1 /\ Depth(items, p - 1) \in Int
      /\ Depth(items, p) \in Int
  <2>1. p - 1 \in 0..Len(items) /\ p - 1 < Len(items) /\ (p - 1) + 1 = p /\ p \in 0..Len(items)
    BY <1>1
  <2>2. QED BY <1>2, <1>3, <2>1
<1>5. Depth(items, k) = Depth(items, p) - 1
  <2>1. k - 1 \in 0..Len(items) /\ k - 1 < Len(items) /\ (k - 1) + 1 = k
    BY <1>1
  <2>2. QED BY <1>2, <1>3, <2>1
<1>6. ASSUME NEW q \in 1..p - 1, NEW c \in p..k, Closes(items, c, q) PROVE FALSE
  <2>1. q \in 1..Len(items) /\ c \in 1..Len(items) /\ q \in Nat /\ c \in Nat /\ q < p
        /\ c - 1 \in 0..Len(items) /\ c - 1 < Len(items) /\ (c - 1) + 1 = c /\ q \in 0..Len(items)
    BY <1>1
  <2>2. /\ items[c].tag = "pop"
        /\ \A m \in q..c - 1 : Depth(items, m) >= Depth(items, q)
        /\ Depth(items, c - 1) = Depth(items, q)
    BY <1>6, <2>1, ClosesIsDepth
  <2>3. c # p
    BY <1>3, <2>2
  <2>4. p - 1 \in q..c - 1
    BY <1>1, <2>1
  <2>5. Depth(items, p - 1) >= Depth(items, q) /\ Depth(items, q) \in Int
    BY <1>2, <2>1, <2>2, <2>4
  <2>6. Depth(items, c) = Depth(items, q) - 1
    BY <1>2, <2>1, <2>2
  <2>7. CASE c = k
    BY <1>4, <1>5, <2>5, <2>6, <2>7
  <2>8. CASE c < k
    <3>1. c \in p..k - 1
      BY <1>1, <2>1, <2>8
    <3>2. Depth(items, c) >= Depth(items, p)
      BY <1>3, <3>1
    <3>3. QED BY <1>4, <2>5, <2>6, <3>2
  <2>9. QED BY <1>1, <2>7, <2>8
<1>7. ASSUME NEW j \in 1..p - 1 PROVE j \in Shown(items, k + 1) <=> j \in Shown(items, p)
  <2>1. j \in 1..(k + 1) - 1 /\ j \in Nat /\ j < p
    BY <1>1
  <2>2. j + 1..(k + 1) - 1 = (j + 1..p - 1) \cup (p..k)
    BY <1>1, <2>1
  <2>3. \A q \in 1..j - 1 : q \in 1..p - 1
    BY <1>1, <2>1
  <2>4. (\E q \in 1..j - 1, c \in j + 1..(k + 1) - 1 : Closes(items, c, q))
        <=> (\E q \in 1..j - 1, c \in j + 1..p - 1 : Closes(items, c, q))
    BY <1>6, <2>2, <2>3
  <2>5. QED BY <2>1, <2>4 DEF Shown
<1>8. ASSUME NEW j \in Shown(items, k + 1), j >= p PROVE FALSE
  <2>1. /\ j \in 1..(k + 1) - 1 /\ items[j].tag = "page"
        /\ ~\E q \in 1..j - 1, c \in j + 1..(k + 1) - 1 : Closes(items, c, q)
    BY <1>8 DEF Shown
  <2>2. j # p /\ j # k
    BY <1>3, <2>1
  <2>3. p \in 1..j - 1 /\ k \in j + 1..(k + 1) - 1
    BY <1>1, <1>8, <2>1, <2>2
  <2>4. QED BY <2>1, <2>3
<1>9. Shown(items, k + 1) = Shown(items, p)
  <2>1. Shown(items, k + 1) \subseteq 1..k /\ Shown(items, p) \subseteq 1..p - 1
    BY <1>1 DEF Shown
  <2>2. \A j \in Shown(items, k + 1) : j \in 1..p - 1
    BY <1>1, <1>8, <2>1
  <2>3. QED BY <1>7, <2>1, <2>2
<1>10. QED BY <1>9, PageIs

-----------------------------------------------------------------------------
(* The scan.                                                               *)

GlobalItems == [page : Nat, size : Nat, count : Nat]
Scans == [globals : GlobalItems, stack : Seq(GlobalItems), page : BOOLEAN, usage : BOOLEAN,
          output : SUBSET Nat, cut : BOOLEAN]

\* An item after which the globals and the stack are as they were.
Passing == {"size", "count", "usage", "output", "other"}

\* What one item does to the scan, by its tag.
LEMMA ScanIsTyped ==
    ASSUME NEW scan \in Scans, NEW item, item.tag \in Tags, item.value \in Nat
    PROVE  Scan(scan, item) \in Scans
<1>1. scan.globals \in GlobalItems /\ scan.stack \in Seq(GlobalItems)
  BY DEF Scans
<1>2. CASE scan.cut
  BY <1>2 DEF Scan
<1>3. CASE ~scan.cut /\ item.tag = "cut"
  BY <1>3 DEF Scan, Scans
<1>4. CASE ~scan.cut /\ item.tag = "page"
  BY <1>4 DEF Scan, Scans, GlobalItems
<1>5. CASE ~scan.cut /\ item.tag = "push"
  <2>1. Append(scan.stack, scan.globals) \in Seq(GlobalItems)
    BY <1>1
  <2>2. Scan(scan, item) = [scan EXCEPT !.stack = Append(@, scan.globals)]
    BY <1>5 DEF Scan, Scans
  <2>3. QED BY <2>1, <2>2 DEF Scans
<1>6. CASE ~scan.cut /\ item.tag = "pop"
  <2>1. CASE scan.stack = <<>>
    BY <1>6, <2>1 DEF Scan, Pop
  <2>2. CASE scan.stack # <<>>
    <3>1. Last(scan.stack) \in GlobalItems /\ Front(scan.stack) \in Seq(GlobalItems)
      BY <1>1, <2>2 DEF Last, Front
    <3>2. Scan(scan, item) = [scan EXCEPT !.globals = Last(scan.stack), !.stack = Front(@)]
      BY <1>6, <2>2 DEF Scan, Pop
    <3>3. QED BY <3>1, <3>2 DEF Scans
  <2>3. QED BY <2>1, <2>2
<1>7. CASE ~scan.cut /\ item.tag \in {"size", "count"}
  <2>1. [scan.globals EXCEPT ![item.tag] = item.value] \in GlobalItems
    BY <1>1, <1>7 DEF GlobalItems
  <2>2. Scan(scan, item) = [scan EXCEPT !.globals = [scan.globals EXCEPT ![item.tag] = item.value]]
    BY <1>7 DEF Scan, Scans
  <2>3. QED BY <2>1, <2>2 DEF Scans
<1>8. CASE ~scan.cut /\ item.tag = "usage"
  <2>1. FidoUsage(SplitUsage(item.value, scan.globals.page)) \in BOOLEAN
    BY DEF FidoUsage
  <2>2. QED BY <1>8, <2>1 DEF Scan, Scans
<1>9. CASE ~scan.cut /\ item.tag = "output"
  <2>1. scan.globals.size * scan.globals.count \in Nat
    BY <1>1 DEF GlobalItems
  <2>2. (scan.globals.size * scan.globals.count) \div 8 \in Nat
    BY <2>1
  <2> DEFINE found == (scan.globals.size * scan.globals.count) \div 8
             some == scan.output = {} /\ scan.globals.size > 0 /\ scan.globals.count > 0
  <2>3. Scan(scan, item) = [scan EXCEPT !.output = IF some THEN {found} ELSE @]
    BY <1>9 DEF Scan, Scans
  <2> HIDE DEF found
  <2>4. QED BY <2>2, <2>3 DEF Scans, found
<1>10. CASE ~scan.cut /\ item.tag = "other"
  BY <1>10 DEF Scan
<1>11. QED
  BY <1>2, <1>3, <1>4, <1>5, <1>6, <1>7, <1>8, <1>9, <1>10 DEF Tags, Scans

\* A scan that goes on, item by item.
LEMMA ScanGoesOn ==
    ASSUME NEW scan \in Scans, NEW item, item.tag \in Tags, item.value \in Nat,
           ~Scan(scan, item).cut
    PROVE  LET next == Scan(scan, item) IN
           /\ ~scan.cut /\ item.tag # "cut"
           /\ item.tag = "push" => next.globals = scan.globals
                                   /\ next.stack = Append(scan.stack, scan.globals)
           /\ item.tag = "pop" =>
                 IF scan.stack = <<>> THEN next.globals = scan.globals /\ next.stack = <<>>
                 ELSE next.globals = Last(scan.stack) /\ next.stack = Front(scan.stack)
           /\ item.tag \notin {"push", "pop"} => next.stack = scan.stack
           /\ item.tag = "page" => next.globals.page = item.value
           /\ item.tag \in Passing => next.globals.page = scan.globals.page
           /\ next.usage <=> scan.usage \/ /\ item.tag = "usage"
                                           /\ FidoUsage(SplitUsage(item.value, scan.globals.page))
           /\ (scan.usage => scan.page) => (next.usage => next.page)
<1>1. scan.globals \in GlobalItems /\ scan.stack \in Seq(GlobalItems)
  BY DEF Scans
<1> DEFINE next == Scan(scan, item)
<1>2. ~scan.cut /\ item.tag # "cut"
  BY DEF Scan, Scans
<1>4. CASE item.tag = "page"
  BY <1>1, <1>2, <1>4 DEF Scan, Scans, GlobalItems, Passing
<1>5. CASE item.tag = "push"
  BY <1>2, <1>5 DEF Scan, Scans, Passing
<1>6. CASE item.tag = "pop"
  <2>1. CASE scan.stack = <<>>
    BY <1>2, <1>6, <2>1 DEF Scan, Pop, Passing
  <2>2. CASE scan.stack # <<>>
    <3>1. next = [scan EXCEPT !.globals = Last(scan.stack), !.stack = Front(@)]
      BY <1>2, <1>6, <2>2 DEF Scan, Pop
    <3>2. /\ next.globals = Last(scan.stack) /\ next.stack = Front(scan.stack)
          /\ next.usage = scan.usage /\ next.page = scan.page
      BY <3>1 DEF Scans
    <3> HIDE DEF next
    <3>3. QED BY <1>2, <1>6, <2>2, <3>2 DEF Passing, next
  <2>3. QED BY <2>1, <2>2
<1>7. CASE item.tag \in {"size", "count"}
  <2>1. next = [scan EXCEPT !.globals = [scan.globals EXCEPT ![item.tag] = item.value]]
    BY <1>2, <1>7 DEF Scan, Scans
  <2>2. [scan.globals EXCEPT ![item.tag] = item.value].page = scan.globals.page
    BY <1>1, <1>7 DEF GlobalItems
  <2>3. next.stack = scan.stack /\ next.usage = scan.usage /\ next.page = scan.page
        /\ next.globals.page = scan.globals.page
    BY <2>1, <2>2 DEF Scans
  <2> HIDE DEF next
  <2>4. QED BY <1>2, <1>7, <2>3 DEF next
<1>8. CASE item.tag = "usage"
  <2> DEFINE fido == FidoUsage(SplitUsage(item.value, scan.globals.page))
  <2>1. next = [scan EXCEPT !.usage = @ \/ fido, !.page = @ \/ fido]
    BY <1>2, <1>8 DEF Scan, Scans
  <2>2. fido \in BOOLEAN
    BY DEF FidoUsage
  <2> HIDE DEF fido
  <2>3. /\ next.globals = scan.globals /\ next.stack = scan.stack
        /\ next.usage = (scan.usage \/ fido) /\ next.page = (scan.page \/ fido)
    BY <2>1, <2>2 DEF Scans
  <2> HIDE DEF next
  <2>4. QED BY <1>2, <1>8, <2>3 DEF next, fido
<1>9. CASE item.tag = "output"
  <2> DEFINE found == IF scan.output = {} /\ scan.globals.size > 0 /\ scan.globals.count > 0
                      THEN {(scan.globals.size * scan.globals.count) \div 8} ELSE scan.output
  <2>1. next = [scan EXCEPT !.output = found]
    BY <1>2, <1>9 DEF Scan, Scans
  <2> HIDE DEF found
  <2>2. /\ next.globals = scan.globals /\ next.stack = scan.stack
        /\ next.usage = scan.usage /\ next.page = scan.page
    BY <2>1 DEF Scans
  <2> HIDE DEF next
  <2>3. QED BY <1>2, <1>9, <2>2 DEF next
<1>10. CASE item.tag = "other"
  BY <1>2, <1>10 DEF Scan
<1>11. QED
  BY <1>2, <1>4, <1>5, <1>6, <1>7, <1>8, <1>9, <1>10 DEF Tags

\* After k items the stack holds the open Pushes, each at its depth and with the
\* page that was in effect at it, and no other Push is open.
Open(items, k, stack, at) ==
    /\ at \in [1..Len(stack) -> 1..k]
    /\ \A d \in 1..Len(stack) :
          /\ items[at[d]].tag = "push"
          /\ stack[d].page = PageAt(items, at[d])
          /\ Depth(items, k) - Depth(items, at[d]) = Len(stack) - d
          /\ \A m \in at[d]..k : Depth(items, m) >= Depth(items, at[d])
    /\ \A q \in 1..k : items[q].tag = "push" /\ (\A d \in 1..Len(stack) : at[d] # q) =>
          \E m \in q..k : Depth(items, m) < Depth(items, q)
Held(items, k, scan) ==
    /\ scan.globals.page = PageAt(items, k + 1)
    /\ \E at : Open(items, k, scan.stack, at)

\* The depths there are.
LEMMA DepthAfter ==
    ASSUME NEW items \in Descriptors, NEW k \in 0..Len(items) - 1
    PROVE  /\ k \in Nat /\ k + 1 \in 1..Len(items) /\ Len(items) \in Nat
           /\ \A m \in 0..k + 1 : Depth(items, m) \in Int
           /\ Depth(items, k + 1) = CASE items[k + 1].tag = "push" -> Depth(items, k) + 1
                                      [] items[k + 1].tag = "pop" -> Depth(items, k) - 1
                                      [] OTHER -> Depth(items, k)
<1>1. k \in Nat /\ k + 1 \in 1..Len(items) /\ Len(items) \in Nat
  BY DEF Descriptors
<1>2. ASSUME NEW m \in 0..k + 1 PROVE Depth(items, m) \in Int
  <2>1. m \in 0..Len(items)
    BY <1>1
  <2>2. QED BY <2>1, DepthSteps
<1>3. QED BY <1>1, <1>2, DepthSteps

\* An item that is neither leaves them open.
LEMMA OpenKeeps ==
    ASSUME NEW items \in Descriptors, NEW k \in 0..Len(items) - 1, NEW stack, NEW at,
           Len(stack) \in Nat, Open(items, k, stack, at), items[k + 1].tag \notin {"push", "pop"}
    PROVE  Open(items, k + 1, stack, at)
<1>1. k \in Nat /\ Depth(items, k + 1) = Depth(items, k) /\ Depth(items, k) \in Int
  BY DepthAfter
<1>2. at \in [1..Len(stack) -> 1..k + 1] /\ at \in [1..Len(stack) -> 1..k]
  BY <1>1 DEF Open
<1>3. ASSUME NEW d \in 1..Len(stack)
      PROVE  /\ items[at[d]].tag = "push" /\ stack[d].page = PageAt(items, at[d])
             /\ Depth(items, k + 1) - Depth(items, at[d]) = Len(stack) - d
             /\ \A m \in at[d]..k + 1 : Depth(items, m) >= Depth(items, at[d])
  <2>1. /\ items[at[d]].tag = "push" /\ stack[d].page = PageAt(items, at[d])
        /\ Depth(items, k) - Depth(items, at[d]) = Len(stack) - d
        /\ \A m \in at[d]..k : Depth(items, m) >= Depth(items, at[d])
    BY DEF Open
  <2>2. at[d] \in 1..k
    BY <1>2
  <2>3. at[d]..k + 1 = (at[d]..k) \cup {k + 1} /\ k \in at[d]..k
    BY <1>1, <2>2
  <2>4. QED BY <1>1, <2>1, <2>3
<1>4. ASSUME NEW q \in 1..k + 1, items[q].tag = "push", \A d \in 1..Len(stack) : at[d] # q
      PROVE  \E m \in q..k + 1 : Depth(items, m) < Depth(items, q)
  <2>1. q # k + 1
    BY <1>4
  <2>2. q \in 1..k
    BY <1>1, <2>1
  <2>3. PICK m \in q..k : Depth(items, m) < Depth(items, q)
    BY <1>4, <2>2 DEF Open
  <2>4. m \in q..k + 1
    BY <1>1, <2>2
  <2>5. QED BY <2>3, <2>4
<1>5. QED BY <1>2, <1>3, <1>4 DEF Open

\* A Push is the innermost.
LEMMA PushOpens ==
    ASSUME NEW items \in Descriptors, NEW k \in 0..Len(items) - 1,
           NEW stack \in Seq(GlobalItems), NEW at, NEW g \in GlobalItems,
           Open(items, k, stack, at), items[k + 1].tag = "push", g.page = PageAt(items, k + 1)
    PROVE  \E new : Open(items, k + 1, Append(stack, g), new)
<1> DEFINE next == Append(stack, g)
           n == Len(stack)
           new == [d \in 1..n + 1 |-> IF d = n + 1 THEN k + 1 ELSE at[d]]
<1>1. k \in Nat /\ Depth(items, k + 1) = Depth(items, k) + 1 /\ Depth(items, k) \in Int
      /\ Depth(items, k + 1) \in Int
  BY DepthAfter
<1>2. /\ Len(next) = n + 1 /\ next[n + 1] = g /\ n \in Nat
      /\ \A d \in 1..n : next[d] = stack[d]
  OBVIOUS
<1>3. at \in [1..n -> 1..k]
  BY DEF Open
<1>4. /\ new[n + 1] = k + 1 /\ \A d \in 1..n : new[d] = at[d]
      /\ new \in [1..Len(next) -> 1..k + 1]
  BY <1>1, <1>2, <1>3
<1> HIDE DEF new, next
<1>5. ASSUME NEW d \in 1..Len(next)
      PROVE  /\ items[new[d]].tag = "push" /\ next[d].page = PageAt(items, new[d])
             /\ Depth(items, k + 1) - Depth(items, new[d]) = Len(next) - d
             /\ \A m \in new[d]..k + 1 : Depth(items, m) >= Depth(items, new[d])
  <2>1. CASE d = n + 1
    <3>1. k + 1..k + 1 = {k + 1}
      BY <1>1
    <3>2. QED BY <1>1, <1>2, <1>4, <2>1, <3>1
  <2>2. CASE d \in 1..n
    <3>1. /\ items[at[d]].tag = "push" /\ stack[d].page = PageAt(items, at[d])
          /\ Depth(items, k) - Depth(items, at[d]) = n - d
          /\ \A m \in at[d]..k : Depth(items, m) >= Depth(items, at[d])
      BY <2>2 DEF Open
    <3>2. at[d] \in 1..k /\ new[d] = at[d] /\ next[d] = stack[d] /\ at[d] \in 0..k + 1
      <4>1. at[d] \in 1..k
        BY <1>3, <2>2
      <4>2. at[d] \in 0..k + 1
        BY <1>1, <4>1
      <4>3. QED BY <1>2, <1>4, <2>2, <4>1, <4>2
    <3>3. at[d]..k + 1 = (at[d]..k) \cup {k + 1} /\ k \in at[d]..k
      BY <1>1, <3>2
    <3>4. Depth(items, at[d]) \in Int
      BY <3>2, DepthAfter
    <3>5. Depth(items, k + 1) - Depth(items, at[d]) = (n + 1) - d
      <4> HIDE DEF n
      <4>1. d \in Int /\ n \in Int
        BY <1>2, <2>2
      <4>2. Depth(items, k) - Depth(items, at[d]) = n - d
        BY <3>1
      <4>3. QED BY <1>1, <3>4, <4>1, <4>2
    <3>6. Depth(items, k + 1) >= Depth(items, at[d])
      BY <1>1, <3>1, <3>3, <3>4
    <3>7. QED BY <1>2, <3>1, <3>2, <3>3, <3>5, <3>6
  <2>3. QED BY <1>2, <2>1, <2>2
<1>6. ASSUME NEW q \in 1..k + 1, items[q].tag = "push", \A d \in 1..Len(next) : new[d] # q
      PROVE  \E m \in q..k + 1 : Depth(items, m) < Depth(items, q)
  <2>1. q # k + 1
    BY <1>2, <1>4, <1>6
  <2>2. q \in 1..k /\ \A d \in 1..n : at[d] # q
    BY <1>1, <1>2, <1>4, <1>6, <2>1
  <2>3. PICK m \in q..k : Depth(items, m) < Depth(items, q)
    BY <1>6, <2>2 DEF Open
  <2>4. m \in q..k + 1
    BY <1>1, <2>2
  <2>5. QED BY <2>3, <2>4
<1>7. Open(items, k + 1, next, new)
  BY <1>4, <1>5, <1>6 DEF Open
<1>8. QED BY <1>7 DEF next

\* A Pop closes the innermost open Push.
LEMMA PopCloses ==
    ASSUME NEW items \in Descriptors, NEW k \in 0..Len(items) - 1,
           NEW stack \in Seq(GlobalItems), stack # <<>>, NEW at,
           Open(items, k, stack, at), items[k + 1].tag = "pop"
    PROVE  /\ Last(stack).page = PageAt(items, k + 2)
           /\ \E new : Open(items, k + 1, Front(stack), new)
<1> DEFINE next == Front(stack)
           n == Len(stack)
           p == at[n]
           new == [d \in 1..n - 1 |-> at[d]]
<1>1. k \in Nat /\ Depth(items, k + 1) = Depth(items, k) - 1 /\ Depth(items, k) \in Int
      /\ k + 1 \in 1..Len(items) /\ Depth(items, k + 1) \in Int /\ Len(items) \in Nat
  BY DepthAfter
<1>2. /\ n \in Nat /\ n >= 1 /\ n \in 1..n /\ Len(next) = n - 1 /\ Last(stack) = stack[n]
      /\ \A d \in 1..n - 1 : next[d] = stack[d]
  <2>1. n \in Nat /\ n # 0
    OBVIOUS
  <2>2. n >= 1 /\ n \in 1..n /\ n - 1 \in Nat
    BY <2>1
  <2>3. Last(stack) = stack[n]
    BY DEF Last
  <2>4. Front(stack) = [d \in 1..n - 1 |-> stack[d]]
    BY DEF Front
  <2>5. Len(next) = n - 1
    BY <2>2, <2>4
  <2>6. QED BY <2>1, <2>2, <2>3, <2>4, <2>5
<1>3. at \in [1..n -> 1..k]
  BY DEF Open
<1>4. ASSUME NEW d \in 1..n
      PROVE  /\ items[at[d]].tag = "push" /\ stack[d].page = PageAt(items, at[d])
             /\ Depth(items, k) - Depth(items, at[d]) = n - d
             /\ \A m \in at[d]..k : Depth(items, m) >= Depth(items, at[d])
             /\ at[d] \in 1..k /\ Depth(items, at[d]) \in Int
  <2>1. at[d] \in 1..k /\ at[d] \in 0..k + 1
    BY <1>1, <1>3
  <2>2. Depth(items, at[d]) \in Int
    BY <2>1, DepthAfter
  <2>3. QED BY <2>1, <2>2 DEF Open
<1>5. /\ p \in 1..k /\ p \in 1..Len(items) /\ items[p].tag = "push" /\ p \in Nat
      /\ Depth(items, k) = Depth(items, p) /\ Depth(items, p) \in Int
      /\ stack[n].page = PageAt(items, p)
      /\ \A m \in p..k : Depth(items, m) >= Depth(items, p)
  <2>1. p \in 1..k
    BY <1>2, <1>4
  <2>2. p \in 1..Len(items) /\ p \in Nat
    BY <1>1, <2>1
  <2>3. n - n = 0
    BY <1>2
  <2>4. QED BY <1>1, <1>2, <1>4, <2>1, <2>2, <2>3
<1> HIDE DEF p
<1>6. Closes(items, k + 1, p)
  <2>1. p < k + 1 /\ (k + 1) - 1 = k
    BY <1>1, <1>5
  <2>2. QED BY <1>1, <1>5, <2>1, ClosesIsDepth
<1>7. Last(stack).page = PageAt(items, k + 2)
  <2>1. p \in 1..(k + 1) - 1 /\ (k + 1) + 1 = k + 2
    BY <1>1, <1>5
  <2>2. PageAt(items, (k + 1) + 1) = PageAt(items, p)
    BY <1>1, <1>6, <2>1, PopBringsBack
  <2>3. QED BY <1>2, <1>5, <2>1, <2>2
<1>8. new \in [1..Len(next) -> 1..k + 1] /\ \A d \in 1..n - 1 : new[d] = at[d]
  BY <1>1, <1>2, <1>3
<1> HIDE DEF new, next
<1>9. ASSUME NEW d \in 1..Len(next)
      PROVE  /\ items[new[d]].tag = "push" /\ next[d].page = PageAt(items, new[d])
             /\ Depth(items, k + 1) - Depth(items, new[d]) = Len(next) - d
             /\ \A m \in new[d]..k + 1 : Depth(items, m) >= Depth(items, new[d])
  <2>1. d \in 1..n - 1 /\ d \in 1..n /\ d \in Nat /\ d < n
    BY <1>2
  <2>2. /\ items[at[d]].tag = "push" /\ stack[d].page = PageAt(items, at[d])
        /\ Depth(items, k) - Depth(items, at[d]) = n - d
        /\ \A m \in at[d]..k : Depth(items, m) >= Depth(items, at[d])
        /\ at[d] \in 1..k /\ Depth(items, at[d]) \in Int
    BY <1>4, <2>1
  <2>3. at[d]..k + 1 = (at[d]..k) \cup {k + 1}
    BY <1>1, <2>2
  <2>4. Depth(items, k + 1) - Depth(items, at[d]) = (n - 1) - d
    BY <1>1, <1>2, <2>1, <2>2
  <2>5. Depth(items, k + 1) >= Depth(items, at[d])
    BY <1>1, <1>2, <2>1, <2>2
  <2>6. QED BY <1>2, <1>8, <2>1, <2>2, <2>3, <2>4, <2>5
<1>10. ASSUME NEW q \in 1..k + 1, items[q].tag = "push", \A d \in 1..Len(next) : new[d] # q
       PROVE  \E m \in q..k + 1 : Depth(items, m) < Depth(items, q)
  <2>1. q # k + 1 /\ q \in Nat
    BY <1>10
  <2>2. q \in 1..k
    BY <1>1, <2>1
  <2>3. CASE q = p
    <3>1. k + 1 \in q..k + 1
      BY <1>1, <2>2
    <3>2. QED BY <1>1, <1>5, <2>3, <3>1
  <2>4. CASE q # p
    <3>1. ASSUME NEW d \in 1..n PROVE at[d] # q
      <4>1. CASE d = n
        BY <2>4, <4>1 DEF p
      <4>2. CASE d \in 1..n - 1
        BY <1>2, <1>8, <1>10, <4>2
      <4>3. QED BY <1>2, <4>1, <4>2
    <3>2. PICK m \in q..k : Depth(items, m) < Depth(items, q)
      BY <1>10, <2>2, <3>1 DEF Open
    <3>3. m \in q..k + 1
      BY <1>1, <2>2
    <3>4. QED BY <3>2, <3>3
  <2>5. QED BY <2>3, <2>4
<1>11. Open(items, k + 1, next, new)
  BY <1>8, <1>9, <1>10 DEF Open
<1>12. QED BY <1>7, <1>11 DEF next

\* A Pop where no Push is open closes none.
LEMMA PopOfNothing ==
    ASSUME NEW items \in Descriptors, NEW k \in 0..Len(items) - 1, NEW at,
           Open(items, k, <<>>, at), items[k + 1].tag = "pop"
    PROVE  /\ PageAt(items, k + 2) = PageAt(items, k + 1)
           /\ Open(items, k + 1, <<>>, at)
<1>1. k \in Nat /\ k + 1 \in 1..Len(items) /\ (k + 1) + 1 = k + 2 /\ (k + 1) - 1 = k
      /\ Len(<<>>) = 0 /\ 1..0 = {} /\ Len(items) \in Nat
  BY DepthAfter
<1>2. ASSUME NEW q \in 1..k, items[q].tag = "push"
      PROVE  \E m \in q..k : Depth(items, m) < Depth(items, q)
  BY <1>1, <1>2 DEF Open
<1>3. ASSUME NEW q \in 1..(k + 1) - 1, Closes(items, k + 1, q) PROVE FALSE
  <2>1. q \in 1..k /\ q \in 1..Len(items) /\ q \in Nat
    BY <1>1
  <2>2. items[q].tag = "push" /\ \A m \in q..k : Depth(items, m) >= Depth(items, q)
    BY <1>1, <1>3, <2>1, ClosesIsDepth
  <2>3. PICK m \in q..k : Depth(items, m) < Depth(items, q)
    BY <1>2, <2>1, <2>2
  <2>4. m \in 0..k + 1 /\ q \in 0..k + 1
    BY <1>1, <2>1
  <2>5. Depth(items, m) \in Int /\ Depth(items, q) \in Int
    BY <2>4, DepthAfter
  <2>6. QED BY <2>2, <2>3, <2>5
<1>4. PageAt(items, k + 2) = PageAt(items, k + 1)
  BY <1>1, <1>3, PagePasses
<1>5. ASSUME NEW q \in 1..k + 1, items[q].tag = "push"
      PROVE  \E m \in q..k + 1 : Depth(items, m) < Depth(items, q)
  <2>1. q # k + 1 /\ q \in Nat
    BY <1>5
  <2>2. q \in 1..k
    BY <1>1, <2>1
  <2>3. PICK m \in q..k : Depth(items, m) < Depth(items, q)
    BY <1>2, <1>5, <2>2
  <2>4. m \in q..k + 1
    BY <1>1, <2>2
  <2>5. QED BY <2>3, <2>4
<1>6. at \in [1..Len(<<>>) -> 1..k + 1]
  <2>1. at \in [1..Len(<<>>) -> 1..k]
    BY DEF Open
  <2>2. QED BY <1>1, <2>1
<1>7. QED BY <1>1, <1>4, <1>5, <1>6 DEF Open

\* A step of the scan keeps what is held.
LEMMA HeldStep ==
    ASSUME NEW items \in Descriptors, NEW k \in 0..Len(items) - 1, NEW scan \in Scans,
           Held(items, k, scan), ~Scan(scan, items[k + 1]).cut
    PROVE  Held(items, k + 1, Scan(scan, items[k + 1]))
<1> DEFINE item == items[k + 1]
           next == Scan(scan, item)
<1>1. k \in Nat /\ k + 1 \in 1..Len(items) /\ (k + 1) + 1 = k + 2
  BY DepthAfter
<1>2. item.tag \in Tags /\ item.value \in Nat
  BY <1>1, ItemsOf
<1>3. scan.globals \in GlobalItems /\ scan.stack \in Seq(GlobalItems) /\ Len(scan.stack) \in Nat
  BY DEF Scans
<1>4. PICK at : Open(items, k, scan.stack, at)
  BY DEF Held
<1>5. scan.globals.page = PageAt(items, k + 1)
  BY DEF Held
<1>6. /\ item.tag # "cut"
      /\ item.tag = "push" => next.globals = scan.globals
                              /\ next.stack = Append(scan.stack, scan.globals)
      /\ item.tag = "pop" =>
            IF scan.stack = <<>> THEN next.globals = scan.globals /\ next.stack = <<>>
            ELSE next.globals = Last(scan.stack) /\ next.stack = Front(scan.stack)
      /\ item.tag \notin {"push", "pop"} => next.stack = scan.stack
      /\ item.tag = "page" => next.globals.page = item.value
      /\ item.tag \in Passing => next.globals.page = scan.globals.page
  BY <1>2, ScanGoesOn
<1>7. /\ item.tag \notin {"page", "pop"} => PageAt(items, k + 2) = PageAt(items, k + 1)
      /\ item.tag = "page" => PageAt(items, k + 2) = item.value
  <2>1. /\ item.tag \notin {"page", "pop"} => PageAt(items, (k + 1) + 1) = PageAt(items, k + 1)
        /\ item.tag = "page" => PageAt(items, (k + 1) + 1) = item.value
    BY <1>1, PagePasses
  <2>2. QED BY <1>1, <2>1
<1> HIDE DEF next
<1>8. CASE item.tag \notin {"push", "pop"}
  <2>1. Open(items, k + 1, next.stack, at)
    BY <1>3, <1>4, <1>6, <1>8, OpenKeeps
  <2>2. item.tag = "page" \/ item.tag \in Passing
    BY <1>2, <1>6, <1>8 DEF Tags, Passing
  <2>3. next.globals.page = PageAt(items, k + 2)
    BY <1>5, <1>6, <1>7, <2>2 DEF Passing
  <2>4. QED BY <1>1, <2>1, <2>3 DEF Held, next
<1>9. CASE item.tag = "push"
  <2>1. \E new : Open(items, k + 1, next.stack, new)
    BY <1>3, <1>4, <1>5, <1>6, <1>9, PushOpens
  <2>2. next.globals.page = PageAt(items, k + 2)
    BY <1>5, <1>6, <1>7, <1>9
  <2>3. QED BY <1>1, <2>1, <2>2 DEF Held, next
<1>10. CASE item.tag = "pop" /\ scan.stack # <<>>
  <2>1. /\ next.globals.page = PageAt(items, k + 2)
        /\ \E new : Open(items, k + 1, next.stack, new)
    BY <1>3, <1>4, <1>6, <1>10, PopCloses
  <2>2. QED BY <1>1, <2>1 DEF Held, next
<1>11. CASE item.tag = "pop" /\ scan.stack = <<>>
  <2>1. Open(items, k, <<>>, at)
    BY <1>4, <1>11
  <2>2. /\ PageAt(items, k + 2) = PageAt(items, k + 1)
        /\ Open(items, k + 1, <<>>, at)
    BY <1>11, <2>1, PopOfNothing
  <2>3. QED BY <1>1, <1>5, <1>6, <1>11, <2>2 DEF Held, next
<1>12. QED BY <1>8, <1>9, <1>10, <1>11

\* What a usage item says, with its own page or with the one in effect.
LEMMA UsageIs ==
    ASSUME NEW value \in Nat, NEW page
    PROVE  FidoUsage(SplitUsage(value, page)) <=>
              \/ value = FidoPage * Base + CtapHidUsage
              \/ value = CtapHidUsage /\ page = FidoPage
<1>1. Base \in Nat \ {0} /\ Base >= 2 /\ FidoPage \in Nat /\ FidoPage >= 1
  BY DescriptorAssumption
<1>2. FidoPage * Base >= Base /\ FidoPage * Base \in Nat /\ FidoPage * Base = Base * FidoPage
  <2>1. PICK more \in Nat : FidoPage = more + 1
    <3>1. FidoPage - 1 \in Nat /\ FidoPage = (FidoPage - 1) + 1
      BY <1>1
    <3>2. QED BY <3>1
  <2>2. FidoPage * Base = more * Base + Base /\ more * Base \in Nat
    BY <1>1, <2>1
  <2>3. FidoPage * Base = Base * FidoPage
    BY <1>1
  <2>4. QED BY <1>1, <2>2, <2>3
<1>3. CASE value < Base
  <2>1. SplitUsage(value, page) = [page |-> page, usage |-> value]
    BY <1>1, <1>3 DEF SplitUsage
  <2>2. value # FidoPage * Base + CtapHidUsage
    BY <1>1, <1>2, <1>3 DEF CtapHidUsage
  <2>3. QED BY <2>1, <2>2 DEF FidoUsage
<1>4. CASE value >= Base
  <2>1. PICK q \in Nat, r \in 0..Base - 1 : value = Base * q + r
    BY <1>1, Division
  <2>2. value % Base = r /\ value \div Base = q
    BY <1>1, <2>1, Remainder, Quotient
  <2>3. SplitUsage(value, page) = [page |-> q, usage |-> r]
    BY <1>1, <1>4, <2>2 DEF SplitUsage
  <2>4. value # CtapHidUsage
    BY <1>1, <1>4 DEF CtapHidUsage
  <2>5. q = FidoPage /\ r = CtapHidUsage => value = FidoPage * Base + CtapHidUsage
    BY <1>2, <2>1
  <2>6. value = FidoPage * Base + CtapHidUsage => q = FidoPage /\ r = CtapHidUsage
    <3>1. SUFFICES ASSUME value = Base * FidoPage + 1 PROVE q = FidoPage /\ r = CtapHidUsage
      BY <1>2 DEF CtapHidUsage
    <3>2. 1 \in 0..Base - 1
      BY <1>1
    <3>3. value % Base = 1 /\ value \div Base = FidoPage
      BY <1>1, <3>1, <3>2, Remainder, Quotient
    <3>4. QED BY <2>2, <3>3 DEF CtapHidUsage
  <2>7. QED BY <2>3, <2>4, <2>5, <2>6 DEF FidoUsage
<1>5. QED BY <1>1, <1>3, <1>4

\* The usage item at i declares a FIDO device.
Claims(items, i) ==
    /\ items[i].tag = "usage"
    /\ \/ items[i].value = FidoPage * Base + CtapHidUsage
       \/ items[i].value = CtapHidUsage /\ PageAt(items, i) = FidoPage

\* What the scan has found after k items.
Found(items, k, scan) ==
    /\ scan \in Scans
    /\ ~scan.cut => /\ Held(items, k, scan)
                    /\ scan.usage => scan.page
                    /\ scan.usage <=> \E i \in 1..k : Claims(items, i)

\* Before any item nothing is claimed and nothing found.
LEMMA FoundAtFirst ==
    ASSUME NEW items \in Descriptors PROVE Found(items, 0, NewScan)
<1>1. NewScan \in Scans
  BY DEF NewScan, Scans, Globals, GlobalItems
<1>2. PageAt(items, 0 + 1) = 0
  <2>1. Shown(items, 0 + 1) = {}
    BY DEF Shown
  <2>2. QED BY <2>1, PageIs
<1>3. Open(items, 0, <<>>, <<>>)
  <2>1. Len(<<>>) = 0 /\ <<>> \in [1..0 -> 1..0] /\ 1..0 = {}
    OBVIOUS
  <2>2. QED BY <2>1 DEF Open
<1>4. Held(items, 0, NewScan)
  <2>1. NewScan.globals.page = 0 /\ NewScan.stack = <<>>
    BY DEF NewScan, Globals
  <2>2. QED BY <1>2, <1>3, <2>1 DEF Held
<1>5. ~NewScan.usage /\ 1..0 = {}
  BY DEF NewScan
<1>6. QED BY <1>1, <1>4, <1>5 DEF Found

\* One item more: what the scan found is what the items so far claim.
LEMMA FoundByStep ==
    ASSUME NEW items \in Descriptors, NEW k \in 0..Len(items) - 1, NEW scan,
           Found(items, k, scan)
    PROVE  Found(items, k + 1, Scan(scan, items[k + 1]))
<1> DEFINE item == items[k + 1]
           next == Scan(scan, item)
<1>1. k \in Nat /\ k + 1 \in 1..Len(items)
  BY DepthAfter
<1>2. item.tag \in Tags /\ item.value \in Nat
  BY <1>1, ItemsOf
<1>3. scan \in Scans /\ next \in Scans
  BY <1>2, ScanIsTyped DEF Found
<1>4. SUFFICES ASSUME ~next.cut
               PROVE  /\ Held(items, k + 1, next)
                      /\ next.usage => next.page
                      /\ next.usage <=> \E i \in 1..k + 1 : Claims(items, i)
  <2> HIDE DEF next
  <2>1. QED BY <1>3 DEF Found, next
<1>5. /\ ~scan.cut
      /\ next.usage <=> scan.usage \/ /\ item.tag = "usage"
                                      /\ FidoUsage(SplitUsage(item.value, scan.globals.page))
      /\ (scan.usage => scan.page) => (next.usage => next.page)
  BY <1>2, <1>3, <1>4, ScanGoesOn
<1>6. Held(items, k, scan) /\ (scan.usage => scan.page)
      /\ (scan.usage <=> \E i \in 1..k : Claims(items, i))
  BY <1>5 DEF Found
<1>7. Held(items, k + 1, next)
  BY <1>3, <1>4, <1>6, HeldStep
<1>8. scan.globals.page = PageAt(items, k + 1)
  BY <1>6 DEF Held
<1> HIDE DEF next
<1>9. next.usage <=> scan.usage \/ Claims(items, k + 1)
  BY <1>2, <1>5, <1>8, UsageIs DEF Claims
<1>10. 1..k + 1 = (1..k) \cup {k + 1}
  BY <1>1
<1>11. QED BY <1>5, <1>6, <1>7, <1>9, <1>10

\* The loop: the function that says what the scan has after each item exists,
\* and what it has found after every one is right.
LEMMA ScanFinds ==
    ASSUME NEW items \in Descriptors
    PROVE  Found(items, Len(items), FindFidoUsage(items))
<1> DEFINE n == Len(items)
           Loop(f, m) == f = [k \in 0..m |-> IF k = 0 THEN NewScan
                                            ELSE Scan(f[k - 1], items[k])]
           Defined == {m \in Nat : \E f : Loop(f, m)}
<1>1. n \in Nat
  BY DEF Descriptors
<1>2. 0 \in Defined
  <2>1. Loop([k \in 0..0 |-> NewScan], 0)
    OBVIOUS
  <2>2. QED BY <2>1
<1>3. ASSUME NEW m \in Nat, m \in Defined PROVE m + 1 \in Defined
  <2>1. PICK f : Loop(f, m)
    BY <1>3
  <2> DEFINE next == Scan(f[m], items[m + 1])
             g == [k \in 0..m + 1 |-> IF k = m + 1 THEN next ELSE f[k]]
  <2>2. ASSUME NEW k \in 0..m + 1
        PROVE  g[k] = IF k = 0 THEN NewScan ELSE Scan(g[k - 1], items[k])
    <3> HIDE DEF next
    <3>1. CASE k = 0
      BY <2>1, <3>1
    <3>2. CASE k # 0 /\ k <= m
      <4>1. k \in 0..m /\ k - 1 \in 0..m /\ k # m + 1 /\ k - 1 # m + 1
        BY <3>2
      <4>2. g[k] = f[k] /\ g[k - 1] = f[k - 1]
        BY <4>1
      <4>3. QED BY <2>1, <3>2, <4>1, <4>2
    <3>3. CASE k = m + 1
      <4>1. g[k] = next /\ g[k - 1] = f[m]
        BY <3>3
      <4>2. QED BY <3>3, <4>1 DEF next
    <3>4. QED BY <3>1, <3>2, <3>3
  <2>3. Loop(g, m + 1)
    <3> HIDE DEF next
    <3>1. QED BY <2>2
  <2> HIDE DEF g
  <2>4. QED BY <2>3
<1>4. n \in Defined
  <2> HIDE DEF Defined
  <2>1. QED BY <1>1, <1>2, <1>3, SetInduction
<1> DEFINE after == CHOOSE f : Loop(f, n)
<1>5. Loop(after, n)
  BY <1>4
<1>6. FindFidoUsage(items) = after[n]
  BY DEF FindFidoUsage
<1> HIDE DEF after
<1> DEFINE Kept == {m \in Nat : m <= n => Found(items, m, after[m])}
<1>7. 0 \in Kept
  <2>1. after[0] = NewScan
    BY <1>1, <1>5
  <2>2. QED BY <2>1, FoundAtFirst
<1>8. ASSUME NEW m \in Nat, m \in Kept PROVE m + 1 \in Kept
  <2>1. SUFFICES ASSUME m + 1 <= n PROVE Found(items, m + 1, after[m + 1])
    OBVIOUS
  <2>2. Found(items, m, after[m])
    BY <1>1, <1>8, <2>1
  <2>3. after[m + 1] = Scan(after[m], items[m + 1])
    BY <1>1, <1>5, <2>1
  <2>4. m \in 0..Len(items) - 1
    BY <1>1, <2>1
  <2>5. QED BY <2>2, <2>3, <2>4, FoundByStep
<1>9. n \in Kept
  <2> HIDE DEF Kept
  <2>1. QED BY <1>1, <1>7, <1>8, SetInduction
<1>10. QED BY <1>1, <1>6, <1>9

\* A descriptor that is not cut off matches exactly if some item of it claims
\* the CTAPHID usage.
LEMMA MatchedIsDeclared ==
    ASSUME NEW items \in Descriptors, ~FindFidoUsage(items).cut
    PROVE  IsFido(FindFidoUsage(items)) <=> Declares(items)
<1>1. DOMAIN items = 1..Len(items)
  BY DEF Descriptors
<1>2. Declares(items) <=> \E i \in 1..Len(items) : Claims(items, i)
  BY <1>1 DEF Declares, Claims
<1>3. Found(items, Len(items), FindFidoUsage(items))
  BY ScanFinds
<1>4. QED BY <1>2, <1>3 DEF Found, IsFido

-----------------------------------------------------------------------------
(* Maps, read and written.                                                 *)

\* The greatest of the indices is one of them.
LEMMA MaxOfIndices ==
    ASSUME NEW n \in Nat, NEW T \in SUBSET (1..n), T # {}
    PROVE  Max(T) \in T
<1>1. T \in SUBSET (0..n)
  OBVIOUS
<1>2. PICK x \in T : \A y \in T : y <= x
  BY <1>1, GreatestNatural
<1>3. \A y \in T : x >= y
  BY <1>2
<1>4. QED BY <1>3 DEF Max

\* What a map is: its keys, and for each the value the last of its entries has.
LEMMA TableHolds ==
    ASSUME NEW value, value.type = "table", IsSequence(value.entries)
    PROVE  /\ Pairs(value) = value.entries /\ value.entries \in Seq(ToSet(value.entries))
           /\ IsFiniteSet(Keys(value))
           /\ \A key \in Keys(value) : \E entry \in ToSet(value.entries) :
                 entry.key = key /\ LastOf(value, key) = entry.val
<1> DEFINE s == value.entries
           n == Len(s)
<1>1. Pairs(value) = s /\ s \in Seq(ToSet(s)) /\ n \in Nat /\ DOMAIN s = 1..n
  BY DEF Pairs, IsSequence
<1> HIDE DEF s
<1>2. ASSUME NEW key \in Keys(value)
      PROVE  \E entry \in ToSet(s) : entry.key = key /\ LastOf(value, key) = entry.val
  <2> DEFINE at == {i \in DOMAIN s : s[i].key = key}
  <2>1. at # {} /\ at \in SUBSET (1..n)
    BY <1>1 DEF Keys, ToSet
  <2>2. Max(at) \in at
    BY <1>1, <2>1, MaxOfIndices
  <2>3. LastOf(value, key) = s[Max(at)].val
    BY <1>1 DEF LastOf
  <2> HIDE DEF at
  <2> DEFINE m == Max(at)
  <2>4. m \in DOMAIN s /\ s[m].key = key
    BY <2>2 DEF at
  <2>5. QED BY <2>3, <2>4 DEF ToSet
<1>3. IsFiniteSet(Keys(value))
  <2>1. IsFiniteSet(1..n)
    BY <1>1, FS_Interval
  <2> DEFINE f == [i \in 1..n |-> s[i].key]
  <2>2. Keys(value) = {f[i] : i \in 1..n}
    BY <1>1 DEF Keys, ToSet
  <2>3. f \in Surjection(1..n, Keys(value))
    <3>1. f \in [1..n -> Keys(value)]
      BY <2>2
    <3>2. \A key \in Keys(value) : \E i \in 1..n : f[i] = key
      BY <2>2
    <3> HIDE DEF f
    <3>3. QED BY <3>1, <3>2 DEF Surjection
  <2> HIDE DEF f
  <2>4. QED BY <2>1, <2>3, FS_Surjection
<1>4. QED BY <1>1, <1>2, <1>3 DEF s

\* A map that says w and nothing else.
Says(value, w) ==
    /\ value.type = "table"
    /\ Keys(value) = DOMAIN w
    /\ \A key \in DOMAIN w : LastOf(value, key) = w[key]
    /\ \A entry \in ToSet(value.entries) : entry.key \in DOMAIN w /\ entry.val = w[entry.key]

\* An encoder's map says what it was given, in whatever order.
LEMMA OrderSays ==
    ASSUME NEW w, IsFiniteSet(DOMAIN w)
    PROVE  LET keys == SetToSeq(DOMAIN w)
           IN  Says(Table([i \in DOMAIN keys |-> Entry(keys[i], w[keys[i]])]), w)
<1> DEFINE keys == SetToSeq(DOMAIN w)
           n == Cardinality(DOMAIN w)
           s == [i \in DOMAIN keys |-> Entry(keys[i], w[keys[i]])]
           value == Table(s)
<1>1. n \in Nat /\ \E f \in [1..n -> DOMAIN w] : IsInjective(f)
  BY Enumerated DEF IsInjective
<1>2. keys \in [1..n -> DOMAIN w] /\ IsInjective(keys)
  BY <1>1 DEF SetToSeq
<1>3. \A x \in DOMAIN w : \E i \in 1..n : keys[i] = x
  BY <1>2, Enumerated DEF IsInjective
<1> HIDE DEF keys
<1>4. /\ DOMAIN s = 1..n
      /\ \A i \in 1..n : s[i].key = keys[i] /\ s[i].val = w[keys[i]] /\ keys[i] \in DOMAIN w
  BY <1>2 DEF Entry
<1>5. value.type = "table" /\ value.entries = s
  BY DEF Table
<1>6. Pairs(value) = s
  BY <1>5 DEF Pairs
<1> HIDE DEF s, value
<1>7. Keys(value) = DOMAIN w
  <2>1. \A entry \in ToSet(s) : entry.key \in DOMAIN w
    BY <1>4 DEF ToSet
  <2>2. \A x \in DOMAIN w : \E entry \in ToSet(s) : entry.key = x
    BY <1>3, <1>4 DEF ToSet
  <2>3. QED BY <1>6, <2>1, <2>2 DEF Keys
<1>8. ASSUME NEW key \in DOMAIN w PROVE LastOf(value, key) = w[key]
  <2> DEFINE at == {i \in DOMAIN s : s[i].key = key}
  <2>1. at # {} /\ at \in SUBSET (1..n)
    BY <1>3, <1>4
  <2>2. Max(at) \in at
    BY <1>1, <2>1, MaxOfIndices
  <2>3. LastOf(value, key) = s[Max(at)].val
    BY <1>6 DEF LastOf
  <2>4. \A i \in at : s[i].val = w[key]
    BY <1>4
  <2> HIDE DEF at
  <2>5. QED BY <2>2, <2>3, <2>4
<1>9. ASSUME NEW entry \in ToSet(s) PROVE entry.key \in DOMAIN w /\ entry.val = w[entry.key]
  BY <1>4 DEF ToSet
<1>10. Says(value, w)
  BY <1>5, <1>7, <1>8, <1>9 DEF Says
<1>11. QED BY <1>10 DEF value, s, keys

\* Each of the encoders' four ways to put its values.
LEMMA WrittenSays ==
    ASSUME NEW members, IsFiniteSet(DOMAIN members)
    PROVE  /\ Says(Written(members, Same), [key \in DOMAIN members |-> members[key]])
           /\ Says(Written(members, InfoWire),
                   [key \in DOMAIN members |-> InfoWire(key, members[key])])
           /\ Says(Written(members, RequestWire),
                   [key \in DOMAIN members |-> RequestWire(key, members[key])])
           /\ Says(Written(members, ResponseWire),
                   [key \in DOMAIN members |-> ResponseWire(key, members[key])])
<1> DEFINE keys == SetToSeq(DOMAIN members)
           n == Cardinality(DOMAIN members)
<1>1. n \in Nat /\ \E f \in [1..n -> DOMAIN members] : IsInjective(f)
  BY Enumerated DEF IsInjective
<1>2. keys \in [1..n -> DOMAIN members]
  BY <1>1 DEF SetToSeq
<1>3. \A i \in DOMAIN keys : keys[i] \in DOMAIN members
  BY <1>2
<1> DEFINE same == [key \in DOMAIN members |-> members[key]]
           info == [key \in DOMAIN members |-> InfoWire(key, members[key])]
           request == [key \in DOMAIN members |-> RequestWire(key, members[key])]
           response == [key \in DOMAIN members |-> ResponseWire(key, members[key])]
<1>4. /\ DOMAIN same = DOMAIN members /\ DOMAIN info = DOMAIN members
      /\ DOMAIN request = DOMAIN members /\ DOMAIN response = DOMAIN members
      /\ \A key \in DOMAIN members :
            /\ same[key] = members[key] /\ info[key] = InfoWire(key, members[key])
            /\ request[key] = RequestWire(key, members[key])
            /\ response[key] = ResponseWire(key, members[key])
  OBVIOUS
<1>5. /\ Written(members, Same) = Table([i \in DOMAIN keys |-> Entry(keys[i], members[keys[i]])])
      /\ Written(members, InfoWire)
         = Table([i \in DOMAIN keys |-> Entry(keys[i], InfoWire(keys[i], members[keys[i]]))])
      /\ Written(members, RequestWire)
         = Table([i \in DOMAIN keys |-> Entry(keys[i], RequestWire(keys[i], members[keys[i]]))])
      /\ Written(members, ResponseWire)
         = Table([i \in DOMAIN keys |-> Entry(keys[i], ResponseWire(keys[i], members[keys[i]]))])
  BY DEF Written, Same
<1> HIDE DEF keys, same, info, request, response
<1>6. /\ Written(members, Same) = Table([i \in DOMAIN keys |-> Entry(keys[i], same[keys[i]])])
      /\ Written(members, InfoWire) = Table([i \in DOMAIN keys |-> Entry(keys[i], info[keys[i]])])
      /\ Written(members, RequestWire)
         = Table([i \in DOMAIN keys |-> Entry(keys[i], request[keys[i]])])
      /\ Written(members, ResponseWire)
         = Table([i \in DOMAIN keys |-> Entry(keys[i], response[keys[i]])])
  BY <1>3, <1>4, <1>5
<1>7. ASSUME NEW w, DOMAIN w = DOMAIN members
      PROVE  Says(Table([i \in DOMAIN keys |-> Entry(keys[i], w[keys[i]])]), w)
  <2>1. keys = SetToSeq(DOMAIN w)
    BY <1>7 DEF keys
  <2>2. IsFiniteSet(DOMAIN w)
    BY <1>7
  <2>3. QED BY <2>1, <2>2, OrderSays
<1>8. Says(Written(members, Same), same)
  BY <1>4, <1>6, <1>7
<1>9. Says(Written(members, InfoWire), info)
  BY <1>4, <1>6, <1>7
<1>10. Says(Written(members, RequestWire), request)
  BY <1>4, <1>6, <1>7
<1>11. Says(Written(members, ResponseWire), response)
  BY <1>4, <1>6, <1>7
<1>12. QED BY <1>8, <1>9, <1>10, <1>11 DEF same, info, request, response

\* Keys are told apart by what they are.
LEMMA Distinct ==
    ASSUME NEW a, NEW b
    PROVE  /\ Num(a) = Num(b) <=> a = b
           /\ Text(a) = Text(b) <=> a = b
           /\ Num(a) # Text(b)
           /\ Num(a).type = "int" /\ Num(a).int = a
           /\ Text(a).type = "text" /\ Text(a).text = a
BY DEF Num, Text

\* Members kept as they are, read and written.
Some(value, names) == Members(value, names, Same)
Plain(members) == Written(members, Same)

\* Some members of a map, written, are read back; nothing is written that did
\* not come.
Survives(value, names, written) ==
    /\ written.type = "table" /\ Keys(written) = Keys(value) \cap names
    /\ Some(written, names) = Some(value, names)
    /\ \A entry \in ToSet(written.entries) :
          /\ entry.key \in names
          /\ \E came \in ToSet(value.entries) : came.key = entry.key /\ came.val = entry.val

\* Members kept as they are, written and read.
LEMMA SomeSurvive ==
    ASSUME NEW value, value.type = "table", IsSequence(value.entries), NEW names
    PROVE  /\ Some(value, names) = [key \in Keys(value) \cap names |-> LastOf(value, key)]
           /\ IsFiniteSet(DOMAIN Some(value, names))
           /\ Survives(value, names, Plain(Some(value, names)))
<1> DEFINE some == Some(value, names)
           written == Plain(some)
           w == [key \in DOMAIN some |-> some[key]]
<1>1. some = [key \in Keys(value) \cap names |-> LastOf(value, key)]
  BY DEF Some, Members, Same
<1>2. IsFiniteSet(DOMAIN some)
  <2>1. DOMAIN some \subseteq Keys(value)
    BY <1>1
  <2>2. QED BY <2>1, TableHolds, FS_Subset
<1>3. w = some
  BY <1>1
<1>4. Says(written, w)
  <2> HIDE DEF some
  <2>1. Says(Written(some, Same), w)
    BY <1>2, WrittenSays
  <2>2. QED BY <2>1 DEF Plain
<1>5. Says(written, some)
  BY <1>3, <1>4
<1> HIDE DEF written, w
<1>6. Keys(written) = DOMAIN some /\ DOMAIN some = Keys(value) \cap names
  BY <1>1, <1>5 DEF Says
<1>7. Some(written, names) = some
  <2>1. Some(written, names)
        = [key \in Keys(written) \cap names |-> LastOf(written, key)]
    BY DEF Some, Members, Same
  <2>2. Keys(written) \cap names = Keys(value) \cap names
    BY <1>1, <1>6
  <2>3. \A key \in Keys(value) \cap names : LastOf(written, key) = LastOf(value, key)
    <3>1. \A key \in DOMAIN some : LastOf(written, key) = some[key]
      BY <1>5 DEF Says
    <3>2. QED BY <1>1, <3>1
  <2> HIDE DEF some
  <2>4. QED BY <1>1, <2>1, <2>2, <2>3
<1>8. ASSUME NEW entry \in ToSet(written.entries)
      PROVE  /\ entry.key \in names
             /\ \E came \in ToSet(value.entries) : came.key = entry.key /\ came.val = entry.val
  <2>1. entry.key \in DOMAIN some /\ entry.val = some[entry.key]
    BY <1>5 DEF Says
  <2>2. entry.key \in Keys(value) /\ entry.key \in names /\ entry.val = LastOf(value, entry.key)
    BY <1>1, <2>1
  <2>3. QED BY <2>2, TableHolds
<1>9. written.type = "table"
  BY <1>5 DEF Says
<1>10. Survives(value, names, written)
  BY <1>6, <1>7, <1>8, <1>9 DEF Survives
<1>11. QED BY <1>1, <1>2, <1>10 DEF written

\* The maps inside messages.
LEMMA DescriptorSurvives ==
    ASSUME NEW value, Shallow(value), IsDescriptor(value)
    PROVE  LET written == Plain(Descriptor(value))
           IN  IsDescriptor(written) /\ Descriptor(written) = Descriptor(value)
<1>1. value.type = "table" /\ IsSequence(value.entries)
  BY DEF IsDescriptor, WellFormed, Shallow
<1> DEFINE written == Plain(Some(value, DescriptorNames))
<1>2. Survives(value, DescriptorNames, written)
  BY <1>1, SomeSurvive
<1> HIDE DEF written
<1>3. Texts({"type", "id"}) \subseteq DescriptorNames
  BY DEF Texts, DescriptorNames
<1>4. IsDescriptor(written)
  BY <1>2, <1>3 DEF IsDescriptor, WellFormed, Survives
<1>5. \A v : Descriptor(v) = Some(v, DescriptorNames)
  BY DEF Descriptor, Some
<1>6. QED BY <1>2, <1>4, <1>5 DEF written, Survives

\* A user entity, written and read.
LEMMA EntitySurvives ==
    ASSUME NEW value, Shallow(value), IsEntity(value)
    PROVE  LET written == Plain(Entity(value))
           IN  IsEntity(written) /\ Entity(written) = Entity(value)
<1>1. value.type = "table" /\ IsSequence(value.entries)
  BY DEF IsEntity, WellFormed, Shallow
<1> DEFINE written == Plain(Some(value, EntityNames))
<1>2. Survives(value, EntityNames, written)
  BY <1>1, SomeSurvive
<1> HIDE DEF written
<1>3. Texts({"id"}) \subseteq EntityNames
  BY DEF Texts, EntityNames
<1>4. IsEntity(written)
  BY <1>2, <1>3 DEF IsEntity, WellFormed, Survives
<1>5. \A v : Entity(v) = Some(v, EntityNames)
  BY DEF Entity, Some
<1>6. QED BY <1>2, <1>4, <1>5 DEF written, Survives

\* The options of a request are as IsOptions, of two known names.
LEMMA RequestOptionsSurvive ==
    ASSUME NEW value, Shallow(value), RequestKind(Num(5), value)
    PROVE  LET datum == RequestDatum(Num(5), value)
               written == RequestWire(Num(5), datum)
           IN  RequestKind(Num(5), written) /\ RequestDatum(Num(5), written) = datum
<1>1. /\ Num(5) # Num(1) /\ Num(5) # Num(3) /\ Num(5) # Num(7)
      /\ Num(5) \notin Nums({2, 6})
  BY Distinct DEF Nums
<1>2. ASSUME NEW v
      PROVE  /\ RequestKind(Num(5), v) <=>
                   /\ v.type = "table"
                   /\ \A entry \in ToSet(v.entries) :
                         entry.key \in RequestOptions => entry.val.type = "bool"
             /\ RequestDatum(Num(5), v) = Some(v, RequestOptions)
             /\ RequestWire(Num(5), v) = Plain(v)
  BY <1>1 DEF RequestKind, RequestDatum, RequestWire, Some, Plain, WellFormed, IsListOf
<1>3. value.type = "table" /\ IsSequence(value.entries)
      /\ \A entry \in ToSet(value.entries) :
            entry.key \in RequestOptions => entry.val.type = "bool"
  BY <1>2 DEF Shallow
<1> DEFINE written == Plain(Some(value, RequestOptions))
<1>4. Survives(value, RequestOptions, written)
  BY <1>3, SomeSurvive
<1> HIDE DEF written
<1>5. RequestKind(Num(5), written)
  BY <1>2, <1>3, <1>4 DEF Survives
<1>6. QED BY <1>2, <1>4, <1>5 DEF written, Survives

\* The options of an info keep every id they came with.
LEMMA InfoOptionsSurvive ==
    ASSUME NEW value, Shallow(value), IsOptions(value)
    PROVE  LET datum == [id \in Keys(value) |-> LastOf(value, id)]
               written == Plain(datum)
           IN  /\ IsOptions(written)
               /\ [id \in Keys(written) |-> LastOf(written, id)] = datum
<1>1. value.type = "table" /\ IsSequence(value.entries)
  BY DEF IsOptions, Shallow
<1> DEFINE datum == [id \in Keys(value) |-> LastOf(value, id)]
           written == Plain(datum)
<1>2. Some(value, Keys(value)) = datum
  BY DEF Some, Members, Same
<1>3. Survives(value, Keys(value), written)
  BY <1>1, <1>2, SomeSurvive
<1> HIDE DEF written, datum
<1>4. IsOptions(written)
  BY <1>2, <1>3 DEF IsOptions, Survives
<1>5. [id \in Keys(written) |-> LastOf(written, id)] = datum
  BY <1>2, <1>3 DEF Some, Members, Same, Survives
<1>6. QED BY <1>4, <1>5 DEF written, datum

\* Which number is which.
LEMMA InfoCases ==
    ASSUME NEW value
    PROVE  /\ InfoKind(Num(4), value) <=> IsOptions(value)
           /\ InfoKind(Num(10), value) <=>
                 value.type = "list" /\ \A v \in ToSet(value.items) : IsParameter(v)
           /\ InfoDatum(Num(4), value) = [id \in Keys(value) |-> LastOf(value, id)]
           /\ InfoDatum(Num(10), value)
              = [i \in DOMAIN value.items |-> LastOf(value.items[i], Text("alg"))]
           /\ InfoWire(Num(4), value) = Plain(value)
           /\ InfoWire(Num(10), value)
              = List([i \in DOMAIN value |->
                        Table(<<Entry(Text("type"), Text("public-key")),
                                Entry(Text("alg"), value[i])>>)])
           /\ \A key : key \notin {Num(4), Num(10)} =>
                 InfoDatum(key, value) = value /\ InfoWire(key, value) = value
<1>1. /\ Num(4) \notin Nums({1, 2, 9}) /\ Num(10) \notin Nums({1, 2, 9})
      /\ \A n \in {3, 6, 10, 12, 19, 21} : Num(4) # Num(n)
      /\ \A n \in {3, 4, 6, 12, 19, 21} : Num(10) # Num(n)
  BY Distinct DEF Nums
<1>2. InfoKind(Num(4), value) <=> IsOptions(value)
  BY <1>1 DEF InfoKind, IsListOf
<1>3. InfoKind(Num(10), value) <=>
         value.type = "list" /\ \A v \in ToSet(value.items) : IsParameter(v)
  BY <1>1 DEF InfoKind, IsListOf
<1>4. /\ InfoDatum(Num(4), value) = [id \in Keys(value) |-> LastOf(value, id)]
      /\ InfoDatum(Num(10), value)
         = [i \in DOMAIN value.items |-> LastOf(value.items[i], Text("alg"))]
  BY <1>1 DEF InfoDatum
<1>5. InfoWire(Num(4), value) = Plain(value)
  BY <1>1 DEF InfoWire, Plain
<1>6. InfoWire(Num(10), value)
      = List([i \in DOMAIN value |->
                Table(<<Entry(Text("type"), Text("public-key")), Entry(Text("alg"), value[i])>>)])
  BY <1>1 DEF InfoWire
<1>7. \A key : key \notin {Num(4), Num(10)} =>
         InfoDatum(key, value) = value /\ InfoWire(key, value) = value
  BY DEF InfoDatum, InfoWire
<1>8. QED BY <1>2, <1>3, <1>4, <1>5, <1>6, <1>7

\* A parameter is written with its type and its algorithm.
LEMMA ParameterWritten ==
    ASSUME NEW alg, alg.type = "int"
    PROVE  LET value == Table(<<Entry(Text("type"), Text("public-key")), Entry(Text("alg"), alg)>>)
           IN  IsParameter(value) /\ LastOf(value, Text("alg")) = alg
<1> DEFINE first == Entry(Text("type"), Text("public-key"))
           second == Entry(Text("alg"), alg)
           s == <<first, second>>
           value == Table(s)
<1>1. /\ first.key = Text("type") /\ first.val = Text("public-key")
      /\ second.key = Text("alg") /\ second.val = alg
  BY DEF Entry
<1>2. Text("type") # Text("alg")
  BY Distinct
<1> HIDE DEF first, second
<1>3. DOMAIN s = {1, 2} /\ s[1] = first /\ s[2] = second /\ ToSet(s) = {first, second}
  BY DEF ToSet
<1>4. value.type = "table" /\ value.entries = s /\ Pairs(value) = s
  BY DEF Table, Pairs
<1> HIDE DEF s, value
<1>5. Keys(value) = {Text("type"), Text("alg")}
  BY <1>1, <1>3, <1>4 DEF Keys
<1>6. LastOf(value, Text("alg")) = alg
  <2> DEFINE at == {i \in DOMAIN s : s[i].key = Text("alg")}
  <2>1. at = {2}
    BY <1>1, <1>2, <1>3
  <2>2. Max({2}) = 2
    BY DEF Max
  <2>3. LastOf(value, Text("alg")) = s[Max(at)].val
    BY <1>4 DEF LastOf
  <2> HIDE DEF at
  <2>4. QED BY <1>1, <1>3, <2>1, <2>2, <2>3
<1>7. IsParameter(value)
  <2>1. Texts({"type", "alg"}) = {Text("type"), Text("alg")}
    BY DEF Texts
  <2>2. IsParameter(value) <=>
           /\ value.type = "table" /\ Texts({"type", "alg"}) \subseteq Keys(value)
           /\ \A entry \in ToSet(value.entries) : entry.key \in Texts({"type", "alg"}) =>
                 IF entry.key = Text("type") THEN entry.val = Text("public-key")
                 ELSE entry.val.type = "int"
    BY DEF IsParameter, WellFormed
  <2>3. QED BY <1>1, <1>2, <1>3, <1>4, <1>5, <2>1, <2>2
<1>8. QED BY <1>6, <1>7 DEF value, s, first, second

\* The algorithm of a parameter is a number.
LEMMA ParameterRead ==
    ASSUME NEW value, Shallow(value), IsParameter(value)
    PROVE  LastOf(value, Text("alg")).type = "int"
<1>1. /\ value.type = "table" /\ Texts({"type", "alg"}) \subseteq Keys(value)
      /\ \A entry \in ToSet(value.entries) : entry.key \in Texts({"type", "alg"}) =>
            IF entry.key = Text("type") THEN entry.val = Text("public-key")
            ELSE entry.val.type = "int"
  BY DEF IsParameter, WellFormed
<1>2. Text("alg") \in Texts({"type", "alg"}) /\ Text("alg") # Text("type")
  BY Distinct DEF Texts
<1>3. IsSequence(value.entries)
  BY <1>1 DEF Shallow
<1>4. PICK entry \in ToSet(value.entries) :
        entry.key = Text("alg") /\ LastOf(value, Text("alg")) = entry.val
  BY <1>1, <1>2, <1>3, TableHolds
<1>5. QED BY <1>1, <1>2, <1>4

\* A member of an info, written, is read back.
Fits(key, datum) ==
    InfoKind(key, InfoWire(key, datum)) /\ InfoDatum(key, InfoWire(key, datum)) = datum

\* What is kept of a member can be written as one, and is read as what was kept.
LEMMA InfoFits ==
    ASSUME NEW key, NEW value, Decoded(value), InfoKind(key, value)
    PROVE  Fits(key, InfoDatum(key, value))
<1>1. CASE key \notin {Num(4), Num(10)}
  BY <1>1, InfoCases DEF Fits
<1>2. CASE key = Num(4)
  <2>1. IsOptions(value) /\ Shallow(value)
    BY <1>2, InfoCases DEF Decoded
  <2> DEFINE datum == [id \in Keys(value) |-> LastOf(value, id)]
  <2>2. IsOptions(Plain(datum)) /\ [id \in Keys(Plain(datum)) |-> LastOf(Plain(datum), id)] = datum
    BY <2>1, InfoOptionsSurvive
  <2>3. InfoDatum(key, value) = datum
    BY <1>2, InfoCases
  <2> HIDE DEF datum
  <2>4. InfoWire(key, datum) = Plain(datum)
    BY <1>2, InfoCases
  <2>5. InfoKind(key, Plain(datum)) /\ InfoDatum(key, Plain(datum)) = datum
    BY <1>2, <2>2, InfoCases
  <2>6. QED BY <2>3, <2>4, <2>5 DEF Fits
<1>3. CASE key = Num(10)
  <2>1. value.type = "list" /\ \A v \in ToSet(value.items) : IsParameter(v)
    BY <1>3, InfoCases
  <2>2. \A v \in ToSet(value.items) : Shallow(v)
    BY <2>1 DEF Decoded
  <2> DEFINE datum == [i \in DOMAIN value.items |-> LastOf(value.items[i], Text("alg"))]
             wire(alg) == Table(<<Entry(Text("type"), Text("public-key")),
                                  Entry(Text("alg"), alg)>>)
             written == List([i \in DOMAIN datum |-> wire(datum[i])])
  <2>3. InfoDatum(key, value) = datum
    BY <1>3, InfoCases
  <2>4. ASSUME NEW i \in DOMAIN datum
        PROVE  IsParameter(wire(datum[i])) /\ LastOf(wire(datum[i]), Text("alg")) = datum[i]
    <3>1. value.items[i] \in ToSet(value.items) /\ datum[i] = LastOf(value.items[i], Text("alg"))
      BY DEF ToSet
    <3>2. datum[i].type = "int"
      BY <2>1, <2>2, <3>1, ParameterRead
    <3>3. QED BY <3>2, ParameterWritten
  <2>5. InfoWire(key, datum) = written
    BY <1>3, InfoCases
  <2>6. /\ written.type = "list" /\ DOMAIN written.items = DOMAIN datum
        /\ \A i \in DOMAIN datum : written.items[i] = wire(datum[i])
    BY DEF List
  <2>7. datum = [i \in DOMAIN datum |-> datum[i]]
    OBVIOUS
  <2> HIDE DEF datum, written, wire
  <2>8. InfoKind(key, written)
    <3>1. \A v \in ToSet(written.items) : IsParameter(v)
      BY <2>4, <2>6 DEF ToSet
    <3>2. QED BY <1>3, <2>6, <3>1, InfoCases
  <2>9. InfoDatum(key, written) = datum
    <3>1. InfoDatum(key, written)
          = [i \in DOMAIN written.items |-> LastOf(written.items[i], Text("alg"))]
      BY <1>3, InfoCases
    <3>2. QED BY <2>4, <2>6, <2>7, <3>1
  <2>10. QED BY <2>3, <2>5, <2>8, <2>9 DEF Fits
<1>4. QED BY <1>1, <1>2, <1>3

\* What an info is read from and what it is read as.
InfoRead(value) == [key \in Keys(value) \cap InfoKeys |-> InfoDatum(key, LastOf(value, key))]
InfoTaken(value) ==
    /\ value.type = "table" /\ Nums({1, 3}) \subseteq Keys(value)
    /\ \A entry \in ToSet(value.entries) :
          entry.key \in InfoKeys => InfoKind(entry.key, entry.val)

\* The reader of an info, in the terms of these proofs.
LEMMA ReadInfoIs ==
    ASSUME NEW value
    PROVE  ReadInfo(value) = IF InfoTaken(value) /\ Valid(InfoRead(value))
                             THEN InfoRead(value) ELSE Rejected
BY DEF ReadInfo, InfoTaken, InfoRead, WellFormed, Members

InfoWritten(info) == Written(info, InfoWire)

\* What an info is written from, and what then is read.
LEMMA InfoReadBack ==
    ASSUME NEW m, IsFiniteSet(DOMAIN m), m = [key \in DOMAIN m |-> m[key]],
           DOMAIN m \subseteq InfoKeys, Nums({1, 3}) \subseteq DOMAIN m,
           \A key \in DOMAIN m : Fits(key, m[key])
    PROVE  /\ InfoWritten(m) # Rejected
           /\ ReadInfo(InfoWritten(m)) = IF Valid(m) THEN m ELSE Rejected
<1> DEFINE value == InfoWritten(m)
           w == [key \in DOMAIN m |-> InfoWire(key, m[key])]
<1>1. Says(value, w)
  <2>1. Says(Written(m, InfoWire), w)
    BY WrittenSays
  <2>2. QED BY <2>1 DEF InfoWritten
<1>2. DOMAIN w = DOMAIN m /\ \A key \in DOMAIN m : w[key] = InfoWire(key, m[key])
  OBVIOUS
<1> HIDE DEF value, w
<1>3. /\ value.type = "table" /\ Keys(value) = DOMAIN m
      /\ \A key \in DOMAIN m : LastOf(value, key) = InfoWire(key, m[key])
      /\ \A entry \in ToSet(value.entries) :
            entry.key \in DOMAIN m /\ entry.val = InfoWire(entry.key, m[entry.key])
  BY <1>1, <1>2 DEF Says
<1>4. InfoTaken(value)
  BY <1>3 DEF InfoTaken, Fits
<1>5. InfoRead(value) = m
  <2>1. Keys(value) \cap InfoKeys = DOMAIN m
    BY <1>3
  <2>2. \A key \in DOMAIN m : InfoDatum(key, LastOf(value, key)) = m[key]
    BY <1>3 DEF Fits
  <2>3. QED BY <2>1, <2>2 DEF InfoRead
<1>6. value # Rejected
  BY <1>3 DEF Rejected
<1>7. QED BY <1>4, <1>5, <1>6, ReadInfoIs DEF value

\* An info that is read fits.
LEMMA ReadInfoFits ==
    ASSUME NEW value, value.type = "table", IsSequence(value.entries), InfoTaken(value),
           \A entry \in ToSet(value.entries) : Decoded(entry.val)
    PROVE  LET m == InfoRead(value)
           IN  /\ IsFiniteSet(DOMAIN m) /\ m = [key \in DOMAIN m |-> m[key]]
               /\ DOMAIN m \subseteq InfoKeys /\ Nums({1, 3}) \subseteq DOMAIN m
               /\ \A key \in DOMAIN m : Fits(key, m[key])
<1> DEFINE m == InfoRead(value)
<1>1. m = [key \in Keys(value) \cap InfoKeys |-> InfoDatum(key, LastOf(value, key))]
  BY DEF InfoRead
<1>2. /\ DOMAIN m = Keys(value) \cap InfoKeys
      /\ \A key \in DOMAIN m : m[key] = InfoDatum(key, LastOf(value, key))
      /\ m = [key \in DOMAIN m |-> m[key]]
  BY <1>1
<1> HIDE DEF m
<1>3. IsFiniteSet(DOMAIN m)
  <2>1. IsFiniteSet(Keys(value)) /\ DOMAIN m \subseteq Keys(value)
    BY <1>2, TableHolds
  <2>2. QED BY <2>1, FS_Subset
<1>4. Nums({1, 3}) \subseteq DOMAIN m
  <2>1. Nums({1, 3}) \subseteq InfoKeys
    BY DEF Nums, InfoKeys
  <2>2. QED BY <1>2, <2>1 DEF InfoTaken
<1>5. ASSUME NEW key \in DOMAIN m PROVE Fits(key, m[key])
  <2>1. key \in Keys(value) /\ key \in InfoKeys
    BY <1>2
  <2>2. PICK entry \in ToSet(value.entries) :
          entry.key = key /\ LastOf(value, key) = entry.val
    BY <2>1, TableHolds
  <2>3. InfoKind(key, LastOf(value, key)) /\ Decoded(LastOf(value, key))
    BY <2>1, <2>2 DEF InfoTaken
  <2>4. QED BY <1>2, <2>3, InfoFits
<1>6. QED BY <1>2, <1>3, <1>4, <1>5 DEF m

\* An info that was accepted is written and read as the same, unless it keeps
\* certifications that do not encode.
LEMMA InfoSurvives ==
    ASSUME NEW value, value.type = "table", IsSequence(value.entries),
           \A entry \in ToSet(value.entries) : Decoded(entry.val), ReadInfo(value) # Rejected
    PROVE  LET read == ReadInfo(value)
               written == WriteInfo(read)
           IN  IF Num(19) \in DOMAIN read /\ ~Encodes(read[Num(19)]) THEN written = Rejected
               ELSE written # Rejected /\ ReadInfo(written) = read
<1>1. InfoTaken(value) /\ Valid(InfoRead(value)) /\ ReadInfo(value) = InfoRead(value)
  BY ReadInfoIs
<1> DEFINE m == InfoRead(value)
<1>2. /\ IsFiniteSet(DOMAIN m) /\ m = [key \in DOMAIN m |-> m[key]]
      /\ DOMAIN m \subseteq InfoKeys /\ Nums({1, 3}) \subseteq DOMAIN m
      /\ \A key \in DOMAIN m : Fits(key, m[key])
  BY <1>1, ReadInfoFits
<1> HIDE DEF m
<1>3. /\ InfoWritten(m) # Rejected
      /\ ReadInfo(InfoWritten(m)) = IF Valid(m) THEN m ELSE Rejected
  BY <1>2, InfoReadBack
<1>4. WriteInfo(m) = IF Num(19) \in DOMAIN m => Encodes(m[Num(19)])
                     THEN InfoWritten(m) ELSE Rejected
  BY DEF WriteInfo, InfoWritten
<1>5. QED BY <1>1, <1>3, <1>4 DEF m

-----------------------------------------------------------------------------
(* Requests.                                                               *)

\* Which members of a request are not kept as they are.
LEMMA RequestCases ==
    ASSUME NEW value
    PROVE  /\ RequestKind(Num(3), value) <=>
                 value.type = "list" /\ \A v \in ToSet(value.items) : IsDescriptor(v)
           /\ RequestDatum(Num(3), value)
              = [i \in DOMAIN value.items |-> Descriptor(value.items[i])]
           /\ RequestWire(Num(3), value) = List([i \in DOMAIN value |-> Plain(value[i])])
           /\ \A key : key \notin {Num(3), Num(5)} =>
                 RequestDatum(key, value) = value /\ RequestWire(key, value) = value
<1>1. /\ Num(3) \notin Nums({2, 6}) /\ Num(3) # Num(1) /\ Num(3) # Num(5) /\ Num(3) # Num(7)
  BY Distinct DEF Nums
<1>2. RequestKind(Num(3), value) <=>
         value.type = "list" /\ \A v \in ToSet(value.items) : IsDescriptor(v)
  BY <1>1 DEF RequestKind, IsListOf, WellFormed
<1>3. RequestDatum(Num(3), value) = [i \in DOMAIN value.items |-> Descriptor(value.items[i])]
  BY <1>1 DEF RequestDatum, Members
<1>4. RequestWire(Num(3), value) = List([i \in DOMAIN value |-> Plain(value[i])])
  BY <1>1 DEF RequestWire, Plain
<1>5. \A key : key \notin {Num(3), Num(5)} =>
         RequestDatum(key, value) = value /\ RequestWire(key, value) = value
  BY DEF RequestDatum, RequestWire
<1>6. QED BY <1>2, <1>3, <1>4, <1>5

RequestFits(key, datum) ==
    /\ RequestKind(key, RequestWire(key, datum))
    /\ RequestDatum(key, RequestWire(key, datum)) = datum

\* As InfoFits.
LEMMA RequestMemberFits ==
    ASSUME NEW key, NEW value, Decoded(value), RequestKind(key, value)
    PROVE  RequestFits(key, RequestDatum(key, value))
<1>1. CASE key \notin {Num(3), Num(5)}
  BY <1>1, RequestCases DEF RequestFits
<1>2. CASE key = Num(5)
  <2>1. Shallow(value) /\ RequestKind(Num(5), value)
    BY <1>2 DEF Decoded
  <2>2. QED BY <1>2, <2>1, RequestOptionsSurvive DEF RequestFits
<1>3. CASE key = Num(3)
  <2>1. value.type = "list" /\ \A v \in ToSet(value.items) : IsDescriptor(v)
    BY <1>3, RequestCases
  <2>2. \A v \in ToSet(value.items) : Shallow(v)
    BY <2>1 DEF Decoded
  <2> DEFINE datum == [i \in DOMAIN value.items |-> Descriptor(value.items[i])]
             written == List([i \in DOMAIN datum |-> Plain(datum[i])])
  <2>3. RequestDatum(key, value) = datum
    BY <1>3, RequestCases
  <2>4. ASSUME NEW i \in DOMAIN datum
        PROVE  IsDescriptor(Plain(datum[i])) /\ Descriptor(Plain(datum[i])) = datum[i]
    <3>1. value.items[i] \in ToSet(value.items) /\ datum[i] = Descriptor(value.items[i])
      BY DEF ToSet
    <3>2. QED BY <2>1, <2>2, <3>1, DescriptorSurvives
  <2>5. RequestWire(key, datum) = written
    BY <1>3, RequestCases
  <2>6. /\ written.type = "list" /\ DOMAIN written.items = DOMAIN datum
        /\ \A i \in DOMAIN datum : written.items[i] = Plain(datum[i])
    BY DEF List
  <2>7. datum = [i \in DOMAIN datum |-> datum[i]]
    OBVIOUS
  <2> HIDE DEF datum, written
  <2>8. RequestKind(key, written)
    <3>1. \A v \in ToSet(written.items) : IsDescriptor(v)
      BY <2>4, <2>6 DEF ToSet
    <3>2. QED BY <1>3, <2>6, <3>1, RequestCases
  <2>9. RequestDatum(key, written) = datum
    <3>1. RequestDatum(key, written)
          = [i \in DOMAIN written.items |-> Descriptor(written.items[i])]
      BY <1>3, RequestCases
    <3>2. QED BY <2>4, <2>6, <2>7, <3>1
  <2>10. QED BY <2>3, <2>5, <2>8, <2>9 DEF RequestFits
<1>4. QED BY <1>1, <1>2, <1>3

RequestRead(value) ==
    [key \in Keys(value) \cap Nums(1..7) |-> RequestDatum(key, LastOf(value, key))]
RequestTaken(value) ==
    /\ value.type = "table" /\ Nums({1, 2}) \subseteq Keys(value)
    /\ \A entry \in ToSet(value.entries) :
          entry.key \in Nums(1..7) => RequestKind(entry.key, entry.val)
RequestWritten(request) == Written(request, RequestWire)

\* The reader of a request, in the terms of these proofs.
LEMMA ReadRequestIs ==
    ASSUME NEW value
    PROVE  ReadRequest(value) = IF RequestTaken(value) THEN WithAllowList(RequestRead(value))
                                ELSE Rejected
BY DEF ReadRequest, RequestTaken, RequestRead, WellFormed, Members

\* A request of members that fit is read as it was written.
LEMMA RequestReadBack ==
    ASSUME NEW m, IsFiniteSet(DOMAIN m), m = [key \in DOMAIN m |-> m[key]],
           DOMAIN m \subseteq Nums(1..7), Nums({1, 2}) \subseteq DOMAIN m,
           \A key \in DOMAIN m : RequestFits(key, m[key]),
           Num(3) \in DOMAIN m => m[Num(3)] # <<>>
    PROVE  /\ RequestWritten(m) # Rejected
           /\ ReadRequest(RequestWritten(m)) = m
<1> DEFINE value == RequestWritten(m)
           w == [key \in DOMAIN m |-> RequestWire(key, m[key])]
<1>1. Says(value, w)
  <2>1. Says(Written(m, RequestWire), w)
    BY WrittenSays
  <2>2. QED BY <2>1 DEF RequestWritten
<1>2. DOMAIN w = DOMAIN m /\ \A key \in DOMAIN m : w[key] = RequestWire(key, m[key])
  OBVIOUS
<1> HIDE DEF value, w
<1>3. /\ value.type = "table" /\ Keys(value) = DOMAIN m
      /\ \A key \in DOMAIN m : LastOf(value, key) = RequestWire(key, m[key])
      /\ \A entry \in ToSet(value.entries) :
            entry.key \in DOMAIN m /\ entry.val = RequestWire(entry.key, m[entry.key])
  BY <1>1, <1>2 DEF Says
<1>4. RequestTaken(value)
  BY <1>3 DEF RequestTaken, RequestFits
<1>5. RequestRead(value) = m
  <2>1. Keys(value) \cap Nums(1..7) = DOMAIN m
    BY <1>3
  <2>2. \A key \in DOMAIN m : RequestDatum(key, LastOf(value, key)) = m[key]
    BY <1>3 DEF RequestFits
  <2>3. QED BY <2>1, <2>2 DEF RequestRead
<1>6. WithAllowList(m) = m
  <2>1. {key \in DOMAIN m : key = Num(3) => m[key] # <<>>} = DOMAIN m
    OBVIOUS
  <2>2. QED BY <2>1 DEF WithAllowList, Restrict
<1>7. value # Rejected
  BY <1>3 DEF Rejected
<1>8. QED BY <1>4, <1>5, <1>6, <1>7, ReadRequestIs DEF value

\* A request that was accepted is read as it was written; the one that asks for
\* verification twice, or keeps extensions that do not encode, is not written.
LEMMA RequestSurvives ==
    ASSUME NEW value, value.type = "table", IsSequence(value.entries),
           \A entry \in ToSet(value.entries) : Decoded(entry.val), ReadRequest(value) # Rejected
    PROVE  LET read == ReadRequest(value)
               written == WriteRequest(read)
           IN  IF ~RequestValid(read) \/ (Num(4) \in DOMAIN read /\ ~Encodes(read[Num(4)]))
               THEN written = Rejected
               ELSE written # Rejected /\ ReadRequest(written) = read
<1> DEFINE r == RequestRead(value)
           m == WithAllowList(r)
<1>1. RequestTaken(value) /\ ReadRequest(value) = m
  BY ReadRequestIs
<1>2. /\ DOMAIN r = Keys(value) \cap Nums(1..7)
      /\ \A key \in DOMAIN r : r[key] = RequestDatum(key, LastOf(value, key))
  BY DEF RequestRead
<1> HIDE DEF r
<1>3. /\ m = [key \in DOMAIN m |-> m[key]]
      /\ DOMAIN m = {key \in DOMAIN r : key = Num(3) => r[key] # <<>>}
      /\ \A key \in DOMAIN m : m[key] = r[key]
  BY DEF WithAllowList, Restrict
<1> HIDE DEF m
<1>4. IsFiniteSet(DOMAIN m)
  <2>1. IsFiniteSet(Keys(value)) /\ DOMAIN m \subseteq Keys(value)
    BY <1>2, <1>3, TableHolds
  <2>2. QED BY <2>1, FS_Subset
<1>5. DOMAIN m \subseteq Nums(1..7)
  BY <1>2, <1>3
<1>6. Nums({1, 2}) \subseteq DOMAIN m
  <2>1. Nums({1, 2}) \subseteq Nums(1..7) /\ Num(3) \notin Nums({1, 2})
    BY Distinct DEF Nums
  <2>2. QED BY <1>1, <1>2, <1>3, <2>1 DEF RequestTaken
<1>7. ASSUME NEW key \in DOMAIN m PROVE RequestFits(key, m[key])
  <2>1. key \in Keys(value) /\ key \in Nums(1..7)
    BY <1>2, <1>3
  <2>2. PICK entry \in ToSet(value.entries) :
          entry.key = key /\ LastOf(value, key) = entry.val
    BY <2>1, TableHolds
  <2>3. RequestKind(key, LastOf(value, key)) /\ Decoded(LastOf(value, key))
    BY <1>1, <2>1, <2>2 DEF RequestTaken
  <2>4. m[key] = RequestDatum(key, LastOf(value, key))
    BY <1>2, <1>3
  <2>5. QED BY <2>3, <2>4, RequestMemberFits
<1>8. Num(3) \in DOMAIN m => m[Num(3)] # <<>>
  BY <1>3
<1>9. WriteRequest(m) = IF RequestValid(m) /\ (Num(4) \in DOMAIN m => Encodes(m[Num(4)]))
                        THEN RequestWritten(m) ELSE Rejected
  BY <1>8 DEF WriteRequest, RequestWritten
<1>10. RequestWritten(m) # Rejected /\ ReadRequest(RequestWritten(m)) = m
  BY <1>3, <1>4, <1>5, <1>6, <1>7, <1>8, RequestReadBack
<1>11. QED BY <1>1, <1>9, <1>10

-----------------------------------------------------------------------------
(* Responses.                                                              *)

\* Which members of a response are not kept as they are.
LEMMA ResponseCases ==
    ASSUME NEW value
    PROVE  /\ ResponseKind(Num(1), value) <=> IsDescriptor(value)
           /\ ResponseKind(Num(4), value) <=> IsEntity(value)
           /\ ResponseDatum(Num(1), value) = Descriptor(value)
           /\ ResponseDatum(Num(4), value) = Entity(value)
           /\ ResponseWire(Num(1), value) = Plain(value)
           /\ ResponseWire(Num(4), value) = Plain(value)
           /\ \A key : key \notin {Num(1), Num(4)} =>
                 ResponseDatum(key, value) = value /\ ResponseWire(key, value) = value
<1>1. /\ Num(1) \notin Nums({2, 3, 7}) /\ Num(4) \notin Nums({2, 3, 7})
      /\ \A n \in {4, 5, 6} : Num(1) # Num(n)
      /\ \A n \in {1, 5, 6} : Num(4) # Num(n)
  BY Distinct DEF Nums
<1>2. Nums({1, 4}) = {Num(1), Num(4)}
  BY DEF Nums
<1>3. ResponseKind(Num(1), value) <=> IsDescriptor(value)
  BY <1>1 DEF ResponseKind
<1>4. ResponseKind(Num(4), value) <=> IsEntity(value)
  BY <1>1 DEF ResponseKind
<1>5. /\ ResponseDatum(Num(1), value) = Descriptor(value)
      /\ ResponseDatum(Num(4), value) = Entity(value)
  BY <1>1 DEF ResponseDatum
<1>6. ResponseWire(Num(1), value) = Plain(value) /\ ResponseWire(Num(4), value) = Plain(value)
  BY <1>2 DEF ResponseWire, Plain
<1>7. \A key : key \notin {Num(1), Num(4)} =>
         ResponseDatum(key, value) = value /\ ResponseWire(key, value) = value
  BY <1>2 DEF ResponseDatum, ResponseWire
<1>8. QED BY <1>3, <1>4, <1>5, <1>6, <1>7

ResponseFits(key, datum) ==
    /\ ResponseKind(key, ResponseWire(key, datum))
    /\ ResponseDatum(key, ResponseWire(key, datum)) = datum

\* As InfoFits.
LEMMA ResponseMemberFits ==
    ASSUME NEW key, NEW value, Decoded(value), ResponseKind(key, value)
    PROVE  ResponseFits(key, ResponseDatum(key, value))
<1>1. CASE key \notin {Num(1), Num(4)}
  BY <1>1, ResponseCases DEF ResponseFits
<1>2. CASE key = Num(1)
  <2>1. IsDescriptor(value) /\ Shallow(value)
    BY <1>2, ResponseCases DEF Decoded
  <2>2. /\ IsDescriptor(Plain(Descriptor(value)))
        /\ Descriptor(Plain(Descriptor(value))) = Descriptor(value)
    BY <2>1, DescriptorSurvives
  <2>3. QED BY <1>2, <2>2, ResponseCases DEF ResponseFits
<1>3. CASE key = Num(4)
  <2>1. IsEntity(value) /\ Shallow(value)
    BY <1>3, ResponseCases DEF Decoded
  <2>2. IsEntity(Plain(Entity(value))) /\ Entity(Plain(Entity(value))) = Entity(value)
    BY <2>1, EntitySurvives
  <2>3. QED BY <1>3, <2>2, ResponseCases DEF ResponseFits
<1>4. QED BY <1>1, <1>2, <1>3

ResponseRead(value) ==
    [key \in Keys(value) \cap Nums(1..7) |-> ResponseDatum(key, LastOf(value, key))]
ResponseTaken(value) ==
    /\ value.type = "table" /\ Nums(1..3) \subseteq Keys(value)
    /\ \A entry \in ToSet(value.entries) :
          entry.key \in Nums(1..7) => ResponseKind(entry.key, entry.val)
Single(response) == ~(Num(6) \in DOMAIN response /\ NumberOfCredentials(response) > 1)

\* The reader of a response, in the terms of these proofs.
LEMMA ReadResponseIs ==
    ASSUME NEW value
    PROVE  ReadResponse(value) = IF ResponseTaken(value) /\ Single(ResponseRead(value))
                                 THEN ResponseRead(value) ELSE Rejected
BY DEF ReadResponse, ResponseTaken, ResponseRead, Single, WellFormed, Members

\* A response of members that fit is read as it was written.
LEMMA ResponseReadBack ==
    ASSUME NEW m, IsFiniteSet(DOMAIN m), m = [key \in DOMAIN m |-> m[key]],
           DOMAIN m \subseteq Nums(1..7), Nums(1..3) \subseteq DOMAIN m, Single(m),
           \A key \in DOMAIN m : ResponseFits(key, m[key])
    PROVE  /\ WriteResponse(m) # Rejected
           /\ ReadResponse(WriteResponse(m)) = m
<1> DEFINE value == WriteResponse(m)
           w == [key \in DOMAIN m |-> ResponseWire(key, m[key])]
<1>1. Says(value, w)
  <2>1. Says(Written(m, ResponseWire), w)
    BY WrittenSays
  <2>2. QED BY <2>1 DEF WriteResponse
<1>2. DOMAIN w = DOMAIN m /\ \A key \in DOMAIN m : w[key] = ResponseWire(key, m[key])
  OBVIOUS
<1> HIDE DEF value, w
<1>3. /\ value.type = "table" /\ Keys(value) = DOMAIN m
      /\ \A key \in DOMAIN m : LastOf(value, key) = ResponseWire(key, m[key])
      /\ \A entry \in ToSet(value.entries) :
            entry.key \in DOMAIN m /\ entry.val = ResponseWire(entry.key, m[entry.key])
  BY <1>1, <1>2 DEF Says
<1>4. ResponseTaken(value)
  BY <1>3 DEF ResponseTaken, ResponseFits
<1>5. ResponseRead(value) = m
  <2>1. Keys(value) \cap Nums(1..7) = DOMAIN m
    BY <1>3
  <2>2. \A key \in DOMAIN m : ResponseDatum(key, LastOf(value, key)) = m[key]
    BY <1>3 DEF ResponseFits
  <2>3. QED BY <2>1, <2>2 DEF ResponseRead
<1>6. value # Rejected
  BY <1>3 DEF Rejected
<1>7. QED BY <1>4, <1>5, <1>6, ReadResponseIs DEF value

\* A response that was accepted is written and read as the same.
LEMMA ResponseSurvives ==
    ASSUME NEW value, value.type = "table", IsSequence(value.entries),
           \A entry \in ToSet(value.entries) : Decoded(entry.val), ReadResponse(value) # Rejected
    PROVE  /\ WriteResponse(ReadResponse(value)) # Rejected
           /\ ReadResponse(WriteResponse(ReadResponse(value))) = ReadResponse(value)
<1> DEFINE m == ResponseRead(value)
<1>1. ResponseTaken(value) /\ Single(m) /\ ReadResponse(value) = m
  BY ReadResponseIs
<1>2. /\ DOMAIN m = Keys(value) \cap Nums(1..7) /\ m = [key \in DOMAIN m |-> m[key]]
      /\ \A key \in DOMAIN m : m[key] = ResponseDatum(key, LastOf(value, key))
  BY DEF ResponseRead
<1> HIDE DEF m
<1>3. IsFiniteSet(DOMAIN m)
  <2>1. IsFiniteSet(Keys(value)) /\ DOMAIN m \subseteq Keys(value)
    BY <1>2, TableHolds
  <2>2. QED BY <2>1, FS_Subset
<1>4. Nums(1..3) \subseteq DOMAIN m
  <2>1. Nums(1..3) \subseteq Nums(1..7)
    BY DEF Nums
  <2>2. QED BY <1>1, <1>2, <2>1 DEF ResponseTaken
<1>5. ASSUME NEW key \in DOMAIN m PROVE ResponseFits(key, m[key])
  <2>1. key \in Keys(value) /\ key \in Nums(1..7)
    BY <1>2
  <2>2. PICK entry \in ToSet(value.entries) :
          entry.key = key /\ LastOf(value, key) = entry.val
    BY <2>1, TableHolds
  <2>3. ResponseKind(key, LastOf(value, key)) /\ Decoded(LastOf(value, key))
    BY <1>1, <2>1, <2>2 DEF ResponseTaken
  <2>4. QED BY <1>2, <2>3, ResponseMemberFits
<1>6. WriteResponse(m) # Rejected /\ ReadResponse(WriteResponse(m)) = m
  BY <1>1, <1>2, <1>3, <1>4, <1>5, ResponseReadBack
<1>7. QED BY <1>1, <1>6

-----------------------------------------------------------------------------
(* Keys.                                                                   *)

Coordinates == Nums({-2, -3})
KeyTaken(value) ==
    /\ value.type = "table" /\ KeyLabels \ {Num(3)} \subseteq Keys(value)
    /\ \A entry \in ToSet(value.entries) :
          entry.key \in KeyLabels =>
             entry.val.type = IF entry.key \in Coordinates THEN "bytes" ELSE "int"
Standard(key) == \A label \in DOMAIN Es256 \cap DOMAIN key : key[label] = Es256[label]

\* The reader of a key, in the terms of these proofs.
LEMMA ReadKeyIs ==
    ASSUME NEW value
    PROVE  ReadKey(value) = IF KeyTaken(value) /\ Standard(Some(value, KeyLabels))
                            THEN Restrict(Some(value, KeyLabels), Coordinates) ELSE Rejected
BY DEF ReadKey, KeyTaken, Standard, Coordinates, Some, WellFormed

\* The labels of a key are the three that every key has alike and the two
\* coordinates.
LEMMA Labels ==
    /\ DOMAIN Es256 = {Num(1), Num(3), Num(-1)}
    /\ \A label \in DOMAIN Es256 : Es256[label].type = "int"
    /\ Coordinates = {Num(-2), Num(-3)}
    /\ KeyLabels = DOMAIN Es256 \cup Coordinates /\ DOMAIN Es256 \cap Coordinates = {}
    /\ IsFiniteSet(KeyLabels)
<1>1. DOMAIN Es256 = {Num(1), Num(3), Num(-1)}
  BY DEF Es256, Nums
<1>2. \A label \in DOMAIN Es256 : Es256[label].type = "int"
  <2>1. /\ Num(2).type = "int" /\ Num(-7).type = "int" /\ Num(1).type = "int"
        /\ Num(1) # Num(3) /\ Num(1) # Num(-1) /\ Num(3) # Num(-1)
    BY Distinct
  <2>2. Es256[Num(1)] = Num(2) /\ Es256[Num(3)] = Num(-7) /\ Es256[Num(-1)] = Num(1)
    BY <2>1 DEF Es256, Nums
  <2>3. QED BY <1>1, <2>1, <2>2
<1>3. Coordinates = {Num(-2), Num(-3)}
  BY DEF Coordinates, Nums
<1>4. KeyLabels = {Num(1), Num(3), Num(-1), Num(-2), Num(-3)}
  BY DEF KeyLabels, Nums
<1>5. DOMAIN Es256 \cap Coordinates = {}
  BY <1>1, <1>3, Distinct
<1>6. IsFiniteSet(KeyLabels)
  <2>1. IsFiniteSet({Num(1), Num(3), Num(-1)}) /\ IsFiniteSet({Num(-2), Num(-3)})
    <3>1. \A x : IsFiniteSet({x})
      BY FS_Singleton
    <3>2. IsFiniteSet({Num(1)} \cup {Num(3)}) /\ IsFiniteSet({Num(-2)} \cup {Num(-3)})
      BY <3>1, FS_Union
    <3>3. IsFiniteSet(({Num(1)} \cup {Num(3)}) \cup {Num(-1)})
      BY <3>1, <3>2, FS_Union
    <3>4. /\ ({Num(1)} \cup {Num(3)}) \cup {Num(-1)} = {Num(1), Num(3), Num(-1)}
          /\ {Num(-2)} \cup {Num(-3)} = {Num(-2), Num(-3)}
      OBVIOUS
    <3>5. QED BY <3>2, <3>3, <3>4
  <2>2. KeyLabels = {Num(1), Num(3), Num(-1)} \cup {Num(-2), Num(-3)}
    BY <1>4
  <2>3. QED BY <2>1, <2>2, FS_Union
<1>7. QED BY <1>1, <1>2, <1>3, <1>4, <1>5, <1>6

\* A key that was accepted is written with its algorithm and read back.
LEMMA KeySurvives ==
    ASSUME NEW value, value.type = "table", IsSequence(value.entries),
           ReadKey(value) # Rejected
    PROVE  /\ WriteKey(ReadKey(value)) # Rejected
           /\ ReadKey(WriteKey(ReadKey(value))) = ReadKey(value)
<1> DEFINE key == Some(value, KeyLabels)
           m == Restrict(key, Coordinates)
           w == [label \in KeyLabels |->
                   IF label \in DOMAIN Es256 THEN Es256[label] ELSE m[label]]
           written == Plain(w)
<1>1. KeyTaken(value) /\ ReadKey(value) = m
  BY ReadKeyIs
<1>2. m = [label \in Coordinates |-> key[label]]
  BY DEF Restrict
<1>3. \A label \in Coordinates : m[label].type = "bytes"
  <2>1. ASSUME NEW label \in Coordinates PROVE m[label].type = "bytes"
    <3>1. label \in Keys(value) /\ label \in KeyLabels
      <4>1. label # Num(3) /\ label \in KeyLabels
        BY Labels, Distinct
      <4>2. QED BY <1>1, <4>1 DEF KeyTaken
    <3>2. key = [l \in Keys(value) \cap KeyLabels |-> LastOf(value, l)]
      BY SomeSurvive
    <3>3. PICK entry \in ToSet(value.entries) :
            entry.key = label /\ LastOf(value, label) = entry.val
      BY <3>1, TableHolds
    <3> HIDE DEF key, m
    <3>4. m[label] = LastOf(value, label)
      BY <1>2, <3>1, <3>2
    <3>5. QED BY <1>1, <3>1, <3>3, <3>4 DEF KeyTaken
  <2>2. QED BY <2>1
<1> HIDE DEF key, m
<1>4. /\ DOMAIN w = KeyLabels /\ w = [label \in KeyLabels |-> w[label]]
      /\ \A label \in DOMAIN Es256 : w[label] = Es256[label]
      /\ \A label \in Coordinates : w[label] = m[label]
  <2>1. DOMAIN Es256 \subseteq KeyLabels /\ Coordinates \subseteq KeyLabels
        /\ \A label \in Coordinates : label \notin DOMAIN Es256
    BY Labels
  <2>2. QED BY <2>1
<1>5. WriteKey(m) = written
  BY DEF WriteKey, Plain
<1> HIDE DEF w
<1>6. Says(written, w)
  <2>1. w = [label \in DOMAIN w |-> w[label]]
    BY <1>4
  <2>2. IsFiniteSet(DOMAIN w)
    BY <1>4, Labels
  <2>3. Says(Written(w, Same), [label \in DOMAIN w |-> w[label]])
    BY <2>2, WrittenSays
  <2>4. QED BY <2>1, <2>3 DEF Plain
<1> HIDE DEF written
<1>7. KeyTaken(written)
  <2>1. written.type = "table" /\ Keys(written) = KeyLabels
    BY <1>4, <1>6 DEF Says
  <2>2. ASSUME NEW entry \in ToSet(written.entries)
        PROVE  entry.val.type = IF entry.key \in Coordinates THEN "bytes" ELSE "int"
    <3>1. entry.key \in KeyLabels /\ entry.val = w[entry.key]
      BY <1>4, <1>6 DEF Says
    <3>2. QED BY <1>3, <1>4, <3>1, Labels
  <2>3. QED BY <2>1, <2>2 DEF KeyTaken
<1>8. Some(written, KeyLabels) = w
  <2>1. Keys(written) = KeyLabels /\ \A label \in KeyLabels : LastOf(written, label) = w[label]
    BY <1>4, <1>6 DEF Says
  <2>2. Some(written, KeyLabels)
        = [label \in Keys(written) \cap KeyLabels |-> LastOf(written, label)]
    BY DEF Some, Members, Same
  <2>3. QED BY <1>4, <2>1, <2>2
<1>9. Standard(w)
  BY <1>4 DEF Standard
<1>10. Restrict(w, Coordinates) = m
  <2>1. Restrict(w, Coordinates) = [label \in Coordinates |-> w[label]]
    BY DEF Restrict
  <2>2. m = [label \in Coordinates |-> m[label]]
    BY <1>2
  <2>3. QED BY <1>4, <2>1, <2>2
<1>11. written # Rejected
  BY <1>6 DEF Says, Rejected
<1>12. QED BY <1>1, <1>5, <1>7, <1>8, <1>9, <1>10, <1>11, ReadKeyIs

-----------------------------------------------------------------------------
(* What the software authenticator says of itself.                         *)

\* What the other members it sends must be.
LEMMA PlainInfoCases ==
    ASSUME NEW value
    PROVE  /\ InfoKind(Num(1), value) <=>
                 value.type = "list" /\ \A v \in ToSet(value.items) : IsText(v)
           /\ InfoKind(Num(3), value) <=> value.type = "bytes"
           /\ InfoKind(Num(6), value) <=>
                 value.type = "list" /\ \A v \in ToSet(value.items) : IsProtocol(v)
<1>1. /\ Num(1) \in Nums({1, 2, 9}) /\ Num(3) \notin Nums({1, 2, 9})
      /\ Num(6) \notin Nums({1, 2, 9}) /\ Num(6) # Num(21)
      /\ \A n \in {6, 21} : Num(3) # Num(n) /\ Num(1) # Num(n)
      /\ \A n \in {3, 4, 10, 12, 19} : Num(1) # Num(n)
      /\ \A n \in {4, 10, 12, 19} : Num(3) # Num(n)
      /\ \A n \in {3, 4, 10, 12, 19} : Num(6) # Num(n)
  BY Distinct DEF Nums
<1>2. QED BY <1>1 DEF InfoKind, IsListOf

SoftIds(pin, advertise) ==
    {"rk", "up", "uv"} \cup (IF pin THEN {"clientPin"} ELSE {})
    \cup (IF pin /\ advertise THEN {"pinUvAuthToken"} ELSE {})
SoftOptions(uv, pin, advertise) ==
    [id \in Texts(SoftIds(pin, advertise)) |-> Flag(id = Text("uv") => uv)]

\* Its members, one by one.
LEMMA SoftInfoIs ==
    ASSUME NEW uv, NEW pin \in BOOLEAN, NEW advertise, NEW protocols
    PROVE  LET info == SoftInfo(uv, pin, protocols, advertise)
           IN  /\ info = [key \in DOMAIN info |-> info[key]]
               /\ DOMAIN info = IF pin THEN {Num(1), Num(3), Num(4), Num(6)}
                                       ELSE {Num(1), Num(3), Num(4)}
               /\ info[Num(1)] = List(<<Text("FIDO_2_0"), Text("FIDO_2_1")>>)
               /\ info[Num(3)] = Blob(16)
               /\ info[Num(4)] = SoftOptions(uv, pin, advertise)
               /\ pin => info[Num(6)] = List([i \in DOMAIN protocols |-> Num(protocols[i])])
<1> DEFINE info == SoftInfo(uv, pin, protocols, advertise)
<1>1. /\ \A n \in {3, 4, 6} : Num(1) # Num(n)
      /\ \A n \in {4, 6} : Num(3) # Num(n)
      /\ Num(4) # Num(6)
  BY Distinct
<1> DEFINE keys == Nums({1, 3, 4} \cup IF pin THEN {6} ELSE {})
           versions == List(<<Text("FIDO_2_0"), Text("FIDO_2_1")>>)
           options == SoftOptions(uv, pin, advertise)
           offered == List([i \in DOMAIN protocols |-> Num(protocols[i])])
           member(key) == CASE key = Num(1) -> versions [] key = Num(3) -> Blob(16)
                            [] key = Num(4) -> options [] key = Num(6) -> offered
<1>2. info = [key \in keys |-> member(key)]
  BY DEF SoftInfo, SoftOptions, SoftIds
<1>3. keys = IF pin THEN {Num(1), Num(3), Num(4), Num(6)} ELSE {Num(1), Num(3), Num(4)}
  BY DEF Nums
<1> HIDE DEF info, keys, versions, options, offered
<1>4. DOMAIN info = keys /\ info = [key \in DOMAIN info |-> info[key]]
  <2> HIDE DEF member
  <2>1. QED BY <1>2
<1>5. info[Num(1)] = versions /\ info[Num(3)] = Blob(16) /\ info[Num(4)] = options
      /\ (pin => info[Num(6)] = offered)
  BY <1>1, <1>2, <1>3
<1>6. QED BY <1>3, <1>4, <1>5 DEF info, versions, options, offered

\* Its options are written and read as they are.
LEMMA SoftOptionsFit ==
    ASSUME NEW uv, NEW pin, NEW advertise
    PROVE  Fits(Num(4), SoftOptions(uv, pin, advertise))
<1> DEFINE ids == SoftIds(pin, advertise)
           w == SoftOptions(uv, pin, advertise)
           written == Plain(w)
<1>1. DOMAIN w = Texts(ids) /\ w = [id \in DOMAIN w |-> w[id]]
      /\ \A id \in DOMAIN w : w[id].type = "bool"
  BY DEF SoftOptions, Flag
<1>2. IsFiniteSet(DOMAIN w)
  <2> DEFINE all == {Text("rk"), Text("up"), Text("uv"), Text("clientPin"),
                     Text("pinUvAuthToken")}
  <2>1. DOMAIN w \subseteq all
    BY <1>1 DEF Texts, SoftIds
  <2>2. \A x : IsFiniteSet({x})
    BY FS_Singleton
  <2>3. IsFiniteSet({Text("rk")} \cup {Text("up")})
        /\ IsFiniteSet({Text("uv")} \cup {Text("clientPin")})
    BY <2>2, FS_Union
  <2>4. IsFiniteSet(({Text("rk")} \cup {Text("up")}) \cup ({Text("uv")} \cup {Text("clientPin")}))
    BY <2>3, FS_Union
  <2>5. IsFiniteSet((({Text("rk")} \cup {Text("up")}) \cup ({Text("uv")} \cup {Text("clientPin")}))
                    \cup {Text("pinUvAuthToken")})
    BY <2>2, <2>4, FS_Union
  <2>6. (({Text("rk")} \cup {Text("up")}) \cup ({Text("uv")} \cup {Text("clientPin")}))
        \cup {Text("pinUvAuthToken")} = all
    OBVIOUS
  <2>7. IsFiniteSet(all)
    BY <2>5, <2>6
  <2> HIDE DEF all, w
  <2>8. QED BY <2>1, <2>7, FS_Subset
<1>3. \A id \in DOMAIN w : IsText(id)
  BY <1>1 DEF Texts, Text, IsText
<1> HIDE DEF w
<1>4. Says(written, w)
  <2>1. Says(Written(w, Same), [id \in DOMAIN w |-> w[id]])
    BY <1>2, WrittenSays
  <2>2. QED BY <1>1, <2>1 DEF Plain
<1> HIDE DEF written
<1>5. IsOptions(written)
  BY <1>1, <1>3, <1>4 DEF Says, IsOptions
<1>6. [id \in Keys(written) |-> LastOf(written, id)] = w
  <2>1. Keys(written) = DOMAIN w /\ \A id \in DOMAIN w : LastOf(written, id) = w[id]
    BY <1>4 DEF Says
  <2>2. QED BY <1>1, <2>1
<1>7. InfoWire(Num(4), w) = written
  BY InfoCases DEF written
<1>8. InfoKind(Num(4), written) /\ InfoDatum(Num(4), written) = w
  BY <1>5, <1>6, InfoCases
<1>9. Fits(Num(4), w)
  BY <1>7, <1>8 DEF Fits
<1>10. QED BY <1>9 DEF w

\* All of it, written and read; whether it is valid is the next question.
LEMMA SoftInfoReadBack ==
    ASSUME NEW uv, NEW pin \in BOOLEAN, NEW advertise, NEW protocols \in Seq(0..MaxProtocol)
    PROVE  LET info == SoftInfo(uv, pin, protocols, advertise)
           IN  ReadInfo(WriteInfo(info)) = IF Valid(info) THEN info ELSE Rejected
<1> DEFINE info == SoftInfo(uv, pin, protocols, advertise)
<1>1. /\ info = [key \in DOMAIN info |-> info[key]]
      /\ DOMAIN info = IF pin THEN {Num(1), Num(3), Num(4), Num(6)}
                              ELSE {Num(1), Num(3), Num(4)}
      /\ info[Num(1)] = List(<<Text("FIDO_2_0"), Text("FIDO_2_1")>>)
      /\ info[Num(3)] = Blob(16)
      /\ info[Num(4)] = SoftOptions(uv, pin, advertise)
      /\ pin => info[Num(6)] = List([i \in DOMAIN protocols |-> Num(protocols[i])])
  BY SoftInfoIs
<1> HIDE DEF info
<1>2. \A n \in {1, 3, 6} : Num(n) \notin {Num(4), Num(10)}
  BY Distinct
<1>3. Fits(Num(1), info[Num(1)])
  <2>1. InfoKind(Num(1), info[Num(1)])
    <3> DEFINE items == <<Text("FIDO_2_0"), Text("FIDO_2_1")>>
    <3>1. info[Num(1)].type = "list" /\ info[Num(1)].items = items
      BY <1>1 DEF List
    <3>2. \A v \in ToSet(items) : IsText(v)
      BY DEF ToSet, IsText, Text
    <3>3. QED BY <3>1, <3>2, PlainInfoCases
  <2>2. QED BY <1>2, <2>1, InfoCases DEF Fits
<1>4. Fits(Num(3), info[Num(3)])
  <2>1. InfoKind(Num(3), info[Num(3)])
    BY <1>1, PlainInfoCases DEF Blob
  <2>2. QED BY <1>2, <2>1, InfoCases DEF Fits
<1>5. Fits(Num(4), info[Num(4)])
  BY <1>1, SoftOptionsFit
<1>6. ASSUME pin PROVE Fits(Num(6), info[Num(6)])
  <2> DEFINE items == [i \in DOMAIN protocols |-> Num(protocols[i])]
  <2>1. info[Num(6)].type = "list" /\ info[Num(6)].items = items
    BY <1>1, <1>6 DEF List
  <2>2. \A i \in DOMAIN items : IsProtocol(items[i])
    BY Distinct, MessagesAssumption DEF IsProtocol, IsUint
  <2>3. \A v \in ToSet(items) : IsProtocol(v)
    BY <2>2 DEF ToSet
  <2> HIDE DEF items
  <2>4. InfoKind(Num(6), info[Num(6)])
    BY <2>1, <2>3, PlainInfoCases
  <2>5. QED BY <1>2, <2>4, InfoCases DEF Fits
<1>7. IsFiniteSet(DOMAIN info)
  <2>1. \A x : IsFiniteSet({x})
    BY FS_Singleton
  <2>2. IsFiniteSet({Num(1)} \cup {Num(3)}) /\ IsFiniteSet({Num(4)} \cup {Num(6)})
    BY <2>1, FS_Union
  <2>3. IsFiniteSet(({Num(1)} \cup {Num(3)}) \cup ({Num(4)} \cup {Num(6)}))
    BY <2>2, FS_Union
  <2>4. DOMAIN info \subseteq ({Num(1)} \cup {Num(3)}) \cup ({Num(4)} \cup {Num(6)})
    BY <1>1
  <2>5. QED BY <2>3, <2>4, FS_Subset
<1>8. DOMAIN info \subseteq InfoKeys
  <2>1. \A n \in {1, 3, 4, 6} : Num(n) \in InfoKeys
    BY DEF InfoKeys, Nums
  <2>2. QED BY <1>1, <2>1
<1>9. Nums({1, 3}) \subseteq DOMAIN info
  BY <1>1 DEF Nums
<1>10. \A key \in DOMAIN info : Fits(key, info[key])
  BY <1>1, <1>3, <1>4, <1>5, <1>6
<1>11. ReadInfo(WriteInfo(info)) = IF Valid(info) THEN info ELSE Rejected
  <2>1. Num(19) \notin DOMAIN info
    BY <1>1, Distinct
  <2>2. WriteInfo(info) = InfoWritten(info)
    BY <2>1 DEF WriteInfo, InfoWritten
  <2>3. QED BY <1>1, <1>7, <1>8, <1>9, <1>10, <2>2, InfoReadBack
<1>12. QED BY <1>11 DEF info

\* The client refuses a PIN without a protocol, and a protocol named twice;
\* nothing else it says of itself is refused.
LEMMA SoftInfoValid ==
    ASSUME NEW uv, NEW pin \in BOOLEAN, NEW advertise, NEW protocols \in Seq(Nat)
    PROVE  Valid(SoftInfo(uv, pin, protocols, advertise))
           <=> ~(pin /\ (protocols = <<>> \/ ~IsInjective(protocols)))
<1> DEFINE info == SoftInfo(uv, pin, protocols, advertise)
<1>1. /\ info = [key \in DOMAIN info |-> info[key]]
      /\ DOMAIN info = IF pin THEN {Num(1), Num(3), Num(4), Num(6)}
                              ELSE {Num(1), Num(3), Num(4)}
      /\ info[Num(1)] = List(<<Text("FIDO_2_0"), Text("FIDO_2_1")>>)
      /\ info[Num(3)] = Blob(16)
      /\ info[Num(4)] = SoftOptions(uv, pin, advertise)
      /\ pin => info[Num(6)] = List([i \in DOMAIN protocols |-> Num(protocols[i])])
  BY SoftInfoIs
<1> HIDE DEF info
<1> DEFINE items == [i \in DOMAIN protocols |-> Num(protocols[i])]
<1>2. Num(6) \in DOMAIN info <=> pin
  <2>1. Num(6) # Num(1) /\ Num(6) # Num(3) /\ Num(6) # Num(4)
    BY Distinct
  <2>2. QED BY <1>1, <2>1
<1>3. \A n \in {7, 8, 9, 10, 11, 15, 17} : Num(n) \notin DOMAIN info
  <2>1. \A n \in {7, 8, 9, 10, 11, 15, 17}, k \in {1, 3, 4, 6} : Num(n) # Num(k)
    BY Distinct
  <2>2. DOMAIN info \subseteq {Num(k) : k \in {1, 3, 4, 6}}
    BY <1>1
  <2>3. QED BY <2>1, <2>2
<1>4. info[Num(3)].size = 16 /\ (pin => info[Num(6)].items = items)
  BY <1>1 DEF Blob, List
<1>5. Valid(info) <=> (pin => items # <<>> /\ IsInjective(items))
  <2> HIDE DEF items
  <2>1. \A n \in {6, 9, 10} : Num(n) \in DOMAIN info => n = 6
    BY <1>3
  <2>2. Valid(info) <=>
           (Num(6) \in DOMAIN info => info[Num(6)].items # <<>> /\ IsInjective(info[Num(6)].items))
    BY <1>3, <1>4, <2>1 DEF Valid
  <2>3. QED BY <1>2, <1>4, <2>2
<1>6. items = <<>> <=> protocols = <<>>
  <2>1. items \in Seq({Num(n) : n \in Nat}) /\ Len(items) = Len(protocols)
    BY DEF Num
  <2>2. items = <<>> <=> Len(items) = 0
    BY <2>1
  <2>3. protocols = <<>> <=> Len(protocols) = 0
    OBVIOUS
  <2>4. QED BY <2>1, <2>2, <2>3
<1>7. IsInjective(items) <=> IsInjective(protocols)
  BY Distinct DEF IsInjective
<1>8. QED BY <1>5, <1>6, <1>7 DEF info

\* The two options a ceremony decides by come through.
LEMMA SoftInfoOptions ==
    ASSUME NEW uv \in BOOLEAN, NEW pin \in BOOLEAN, NEW advertise \in BOOLEAN, NEW protocols
    PROVE  LET info == SoftInfo(uv, pin, protocols, advertise)
           IN  Option(info, "clientPin") = pin /\ Option(info, "uv") = uv
<1> DEFINE info == SoftInfo(uv, pin, protocols, advertise)
           options == SoftOptions(uv, pin, advertise)
<1>0. /\ info = [key \in DOMAIN info |-> info[key]]
      /\ DOMAIN info = IF pin THEN {Num(1), Num(3), Num(4), Num(6)}
                              ELSE {Num(1), Num(3), Num(4)}
      /\ info[Num(1)] = List(<<Text("FIDO_2_0"), Text("FIDO_2_1")>>)
      /\ info[Num(3)] = Blob(16)
      /\ info[Num(4)] = SoftOptions(uv, pin, advertise)
      /\ pin => info[Num(6)] = List([i \in DOMAIN protocols |-> Num(protocols[i])])
  BY SoftInfoIs
<1>1. Num(4) \in DOMAIN info /\ info[Num(4)] = options
  <2> HIDE DEF info
  <2>1. QED BY <1>0
<1>2. Text("uv") \in DOMAIN options /\ options[Text("uv")].bool = uv
  BY Distinct DEF SoftOptions, SoftIds, Texts, Flag
<1>3. Text("clientPin") \in DOMAIN options <=> pin
  BY Distinct DEF SoftOptions, SoftIds, Texts
<1>4. ASSUME pin PROVE options[Text("clientPin")].bool = TRUE
  BY <1>3, <1>4, Distinct DEF SoftOptions, Flag
<1> HIDE DEF options
<1> HIDE DEF info
<1>5. Option(info, "uv") = uv
  BY <1>1, <1>2 DEF Option
<1>6. Option(info, "clientPin") = pin
  <2>1. CASE pin
    BY <1>1, <1>3, <1>4, <2>1 DEF Option
  <2>2. CASE ~pin
    BY <1>1, <1>3, <2>2 DEF Option
  <2>3. QED BY <2>1, <2>2
<1>7. QED BY <1>5, <1>6 DEF info

-----------------------------------------------------------------------------
(* What it answers.                                                        *)

\* What the other members it sends must be.
LEMMA PlainResponseCases ==
    ASSUME NEW value
    PROVE  /\ ResponseKind(Num(2), value) <=> value.type = "bytes"
           /\ ResponseKind(Num(3), value) <=> value.type = "bytes"
           /\ ResponseKind(Num(5), value) <=> IsUint(value)
<1>1. /\ \A n \in {2, 3} : Num(n) \in Nums({2, 3, 7})
      /\ \A n \in {1, 4, 5, 6} : Num(2) # Num(n) /\ Num(3) # Num(n)
      /\ Num(5) \notin Nums({2, 3, 7}) /\ \A n \in {1, 4, 6} : Num(5) # Num(n)
  BY Distinct DEF Nums
<1>2. QED BY <1>1 DEF ResponseKind

\* Sets of one and of two.
LEMMA FewNamesFinite ==
    ASSUME NEW a, NEW b
    PROVE  IsFiniteSet({a}) /\ IsFiniteSet({a, b})
<1>1. IsFiniteSet({a}) /\ IsFiniteSet({b})
  BY FS_Singleton
<1>2. IsFiniteSet({a} \cup {b}) /\ {a} \cup {b} = {a, b}
  BY <1>1, FS_Union
<1>3. QED BY <1>1, <1>2

SoftCredential ==
    [name \in Texts({"type", "id"}) |->
        IF name = Text("id") THEN Blob(16) ELSE Text("public-key")]
SoftUser == [name \in Texts({"id"}) |-> Blob(8)]

\* Its members, one by one.
LEMMA SoftResponseIs ==
    ASSUME NEW user \in BOOLEAN, NEW number \in Nat
    PROVE  LET response == SoftResponse(user, number)
           IN  /\ response = [key \in DOMAIN response |-> response[key]]
               /\ DOMAIN response = {Num(1), Num(2), Num(3)} \cup (IF user THEN {Num(4)} ELSE {})
                                    \cup (IF number = 0 THEN {} ELSE {Num(5)})
               /\ response[Num(1)] = SoftCredential
               /\ response[Num(2)] = Blob(37) /\ response[Num(3)] = Blob(70)
               /\ user => response[Num(4)] = SoftUser
               /\ number # 0 => response[Num(5)] = Num(number)
<1> DEFINE response == SoftResponse(user, number)
           keys == Nums(1..3 \cup (IF user THEN {4} ELSE {})
                        \cup (IF number = 0 THEN {} ELSE {5}))
           credential == SoftCredential
           account == SoftUser
           member(key) == CASE key = Num(1) -> credential [] key = Num(2) -> Blob(37)
                            [] key = Num(3) -> Blob(70) [] key = Num(4) -> account
                            [] key = Num(5) -> Num(number)
<1>1. response = [key \in keys |-> member(key)]
  BY DEF SoftResponse, SoftCredential, SoftUser
<1>2. keys = {Num(1), Num(2), Num(3)} \cup (IF user THEN {Num(4)} ELSE {})
             \cup (IF number = 0 THEN {} ELSE {Num(5)})
  <2>1. 1..3 = {1, 2, 3}
    OBVIOUS
  <2>2. QED BY <2>1 DEF Nums
<1>3. \A n, k \in 1..5 : n # k => Num(n) # Num(k)
  BY Distinct
<1> HIDE DEF response, keys, credential, account
<1>4. /\ member(Num(1)) = credential /\ member(Num(2)) = Blob(37) /\ member(Num(3)) = Blob(70)
      /\ member(Num(4)) = account /\ member(Num(5)) = Num(number)
  BY <1>3
<1> HIDE DEF member
<1>5. DOMAIN response = keys /\ response = [key \in DOMAIN response |-> response[key]]
      /\ \A key \in keys : response[key] = member(key)
  BY <1>1
<1>6. QED BY <1>2, <1>4, <1>5 DEF response, credential, account

\* The two maps in it are written and read as they are.
LEMMA SoftNamesFit ==
    /\ ResponseFits(Num(1), SoftCredential)
    /\ ResponseFits(Num(4), SoftUser)
<1> DEFINE credential == SoftCredential
           account == SoftUser
<1>1. /\ DOMAIN credential = {Text("type"), Text("id")}
      /\ credential = [name \in DOMAIN credential |-> credential[name]]
      /\ credential[Text("type")] = Text("public-key") /\ credential[Text("id")] = Blob(16)
  BY Distinct DEF SoftCredential, Texts
<1>2. /\ DOMAIN account = {Text("id")} /\ account = [name \in DOMAIN account |-> account[name]]
      /\ account[Text("id")] = Blob(8)
  BY DEF SoftUser, Texts
<1> HIDE DEF credential, account
<1>3. Says(Plain(credential), credential)
  <2>1. IsFiniteSet(DOMAIN credential)
    BY <1>1, FewNamesFinite
  <2>2. Says(Written(credential, Same), [name \in DOMAIN credential |-> credential[name]])
    BY <2>1, WrittenSays
  <2>3. QED BY <1>1, <2>2 DEF Plain
<1>4. Says(Plain(account), account)
  <2>1. IsFiniteSet(DOMAIN account)
    BY <1>2, FewNamesFinite
  <2>2. Says(Written(account, Same), [name \in DOMAIN account |-> account[name]])
    BY <2>1, WrittenSays
  <2>3. QED BY <1>2, <2>2 DEF Plain
<1>5. IsDescriptor(Plain(credential)) /\ Descriptor(Plain(credential)) = credential
  <2> DEFINE written == Plain(credential)
  <2>1. /\ written.type = "table" /\ Keys(written) = {Text("type"), Text("id")}
        /\ \A name \in DOMAIN credential : LastOf(written, name) = credential[name]
        /\ \A entry \in ToSet(written.entries) :
              entry.key \in DOMAIN credential /\ entry.val = credential[entry.key]
    BY <1>1, <1>3 DEF Says
  <2> HIDE DEF written
  <2>2. IsDescriptor(written)
    <3>1. Texts({"type", "id"}) = {Text("type"), Text("id")}
      BY DEF Texts
    <3>2. Text("id") # Text("type") /\ Blob(16).type = "bytes"
      BY Distinct DEF Blob
    <3>3. QED BY <1>1, <2>1, <3>1, <3>2 DEF IsDescriptor, WellFormed
  <2>3. Descriptor(written) = credential
    <3>1. Keys(written) \cap DescriptorNames = DOMAIN credential
      BY <1>1, <2>1 DEF DescriptorNames, Texts
    <3>2. Descriptor(written) = [name \in Keys(written) \cap DescriptorNames |->
                                    LastOf(written, name)]
      BY DEF Descriptor, Members, Same
    <3>3. QED BY <1>1, <2>1, <3>1, <3>2
  <2>4. QED BY <2>2, <2>3 DEF written
<1>6. IsEntity(Plain(account)) /\ Entity(Plain(account)) = account
  <2> DEFINE written == Plain(account)
  <2>1. /\ written.type = "table" /\ Keys(written) = {Text("id")}
        /\ \A name \in DOMAIN account : LastOf(written, name) = account[name]
        /\ \A entry \in ToSet(written.entries) :
              entry.key \in DOMAIN account /\ entry.val = account[entry.key]
    BY <1>2, <1>4 DEF Says
  <2> HIDE DEF written
  <2>2. IsEntity(written)
    <3>1. Texts({"id"}) = {Text("id")} /\ Blob(8).type = "bytes"
      BY DEF Texts, Blob
    <3>2. QED BY <1>2, <2>1, <3>1 DEF IsEntity, WellFormed
  <2>3. Entity(written) = account
    <3>1. Keys(written) \cap EntityNames = DOMAIN account
      BY <1>2, <2>1 DEF EntityNames, Texts
    <3>2. Entity(written) = [name \in Keys(written) \cap EntityNames |-> LastOf(written, name)]
      BY DEF Entity, Members, Same
    <3>3. QED BY <1>2, <2>1, <3>1, <3>2
  <2>4. QED BY <2>2, <2>3 DEF written
<1>7. QED BY <1>5, <1>6, ResponseCases DEF ResponseFits, credential, account

\* An answer is read as it was written, and the number of credentials it
\* leaves out is one.
LEMMA SoftResponseSurvives ==
    ASSUME NEW user \in BOOLEAN, NEW number \in Nat
    PROVE  LET response == SoftResponse(user, number)
           IN  /\ ReadResponse(WriteResponse(response)) = response
               /\ NumberOfCredentials(response) = IF number = 0 THEN 1 ELSE number
<1> DEFINE response == SoftResponse(user, number)
<1>1. /\ response = [key \in DOMAIN response |-> response[key]]
      /\ DOMAIN response = {Num(1), Num(2), Num(3)} \cup (IF user THEN {Num(4)} ELSE {})
                           \cup (IF number = 0 THEN {} ELSE {Num(5)})
      /\ response[Num(1)] = SoftCredential
      /\ response[Num(2)] = Blob(37) /\ response[Num(3)] = Blob(70)
      /\ user => response[Num(4)] = SoftUser
      /\ number # 0 => response[Num(5)] = Num(number)
  BY SoftResponseIs
<1> HIDE DEF response
<1>2. \A n \in {2, 3, 5} : Num(n) \notin {Num(1), Num(4)}
  BY Distinct
<1>3. ResponseFits(Num(1), response[Num(1)])
  BY <1>1, SoftNamesFit
<1>4. ResponseFits(Num(2), response[Num(2)]) /\ ResponseFits(Num(3), response[Num(3)])
  <2>1. response[Num(2)].type = "bytes" /\ response[Num(3)].type = "bytes"
    BY <1>1 DEF Blob
  <2>2. QED BY <1>2, <2>1, PlainResponseCases, ResponseCases DEF ResponseFits
<1>5. ASSUME user PROVE ResponseFits(Num(4), response[Num(4)])
  BY <1>1, <1>5, SoftNamesFit
<1>6. ASSUME number # 0 PROVE ResponseFits(Num(5), response[Num(5)])
  <2>1. IsUint(response[Num(5)])
    BY <1>1, <1>6, Distinct DEF IsUint
  <2>2. QED BY <1>2, <2>1, PlainResponseCases, ResponseCases DEF ResponseFits
<1>7. \A key \in DOMAIN response : ResponseFits(key, response[key])
  BY <1>1, <1>3, <1>4, <1>5, <1>6
<1>8. DOMAIN response \subseteq Nums(1..7) /\ Nums(1..3) \subseteq DOMAIN response
  <2>1. \A n \in {1, 2, 3, 4, 5} : Num(n) \in Nums(1..7)
    BY DEF Nums
  <2>2. 1..3 = {1, 2, 3}
    OBVIOUS
  <2>3. Nums(1..3) = {Num(1), Num(2), Num(3)}
    BY <2>2 DEF Nums
  <2>4. QED BY <1>1, <2>1, <2>3
<1>9. IsFiniteSet(DOMAIN response)
  <2>1. IsFiniteSet({Num(1), Num(2)}) /\ IsFiniteSet({Num(3), Num(4)}) /\ IsFiniteSet({Num(5)})
    BY FewNamesFinite
  <2>2. IsFiniteSet({Num(1), Num(2)} \cup {Num(3), Num(4)})
    BY <2>1, FS_Union
  <2>3. IsFiniteSet(({Num(1), Num(2)} \cup {Num(3), Num(4)}) \cup {Num(5)})
    BY <2>1, <2>2, FS_Union
  <2>4. DOMAIN response \subseteq ({Num(1), Num(2)} \cup {Num(3), Num(4)}) \cup {Num(5)}
    BY <1>1
  <2>5. QED BY <2>3, <2>4, FS_Subset
<1>10. Num(6) \notin DOMAIN response /\ (Num(5) \in DOMAIN response <=> number # 0)
  <2>1. \A n \in {1, 2, 3, 4, 5} : Num(6) # Num(n)
    BY Distinct
  <2>2. \A n \in {1, 2, 3, 4} : Num(5) # Num(n)
    BY Distinct
  <2>3. QED BY <1>1, <2>1, <2>2
<1>11. Single(response)
  BY <1>10 DEF Single
<1>12. ReadResponse(WriteResponse(response)) = response
  BY <1>1, <1>7, <1>8, <1>9, <1>11, ResponseReadBack
<1>13. NumberOfCredentials(response) = IF number = 0 THEN 1 ELSE number
  BY <1>1, <1>10, Distinct DEF NumberOfCredentials
<1>14. QED BY <1>12, <1>13 DEF response

-----------------------------------------------------------------------------
(* The inputs there are, and what is made of them.                         *)

Entries == UNION ({ToSet(draft.entries) : draft \in Drafts}
                  \cup {MembersOf[kind] : kind \in DOMAIN MembersOf})

\* Every entry there is holds what the CBOR decoder can hand over.
LEMMA EntriesDecoded == \A entry \in Entries : Decoded(entry.val)
BY FormatsAssumption DEF Entries

\* The descriptor so far is of items there are, the message so far of a kind
\* there is and of values the CBOR decoder can hand over.
Inputs ==
    /\ descriptor \in Descriptors
    /\ message \in [kind : Kinds \cup {"none"}, entries : Seq(Entries), added : Nat]
    /\ message = NoMessage \/ message.kind \in DOMAIN MembersOf

\* At first there is no input.
LEMMA InputsStart == FormatsInit => Inputs
BY DEF FormatsInit, Inputs, NoMessage, Descriptors

\* An input grows by what there is.
LEMMA InputsStay == Inputs /\ [FormatsNext]_formats => Inputs'
<1> SUFFICES ASSUME Inputs, [FormatsNext]_formats PROVE Inputs'
  OBVIOUS
<1>1. DOMAIN MembersOf \subseteq Kinds
  BY FormatsAssumption
<1>2. ASSUME NEW item \in ItemKinds, Describe(item) PROVE Inputs'
  <2>1. descriptor' \in Descriptors
    BY <1>2 DEF Describe, Inputs, Descriptors
  <2>2. message' = message
    BY <1>2 DEF Describe
  <2>3. QED BY <2>1, <2>2 DEF Inputs
<1>3. ASSUME NEW draft \in Drafts, StartMessage(draft) PROVE Inputs'
  <2>1. draft.kind \in DOMAIN MembersOf /\ IsSequence(draft.entries)
    BY FormatsAssumption
  <2>2. draft.entries \in Seq(Entries)
    <3>1. ToSet(draft.entries) \subseteq Entries
      BY DEF Entries
    <3>2. draft.entries \in Seq(ToSet(draft.entries))
      BY <2>1 DEF IsSequence
    <3>3. QED BY <3>1, <3>2
  <2>3. QED BY <1>1, <1>3, <2>1, <2>2 DEF StartMessage, Inputs
<1>4. ASSUME message # NoMessage, NEW entry \in MembersOf[message.kind], AddMember(entry)
      PROVE  Inputs'
  <2>1. message.kind \in DOMAIN MembersOf
    BY <1>4 DEF Inputs
  <2>2. entry \in Entries
    BY <1>4, <2>1 DEF Entries
  <2>3. message.entries \in Seq(Entries) /\ Append(message.entries, entry) \in Seq(Entries)
    BY <2>2 DEF Inputs
  <2>4. /\ message' \in [kind : Kinds \cup {"none"}, entries : Seq(Entries), added : Nat]
        /\ message'.kind = message.kind
    <3> DEFINE longer == Append(message.entries, entry)
    <3>1. message \in [kind : Kinds \cup {"none"}, entries : Seq(Entries), added : Nat]
      BY DEF Inputs
    <3>2. message' = [message EXCEPT !.entries = longer, !.added = @ + 1]
      BY <1>4 DEF AddMember
    <3>3. longer \in Seq(Entries)
      BY <2>3
    <3> HIDE DEF longer
    <3>4. message.added + 1 \in Nat
      BY <3>1
    <3>5. QED BY <3>1, <3>2, <3>3, <3>4
  <2>5. descriptor' = descriptor
    BY <1>4 DEF AddMember
  <2>6. QED BY <2>1, <2>4, <2>5 DEF Inputs
<1>5. CASE UNCHANGED formats
  BY <1>5 DEF formats, Inputs
<1>6. QED BY <1>2, <1>3, <1>4, <1>5 DEF FormatsNext

\* Every such descriptor is matched as it declares.
LEMMA InputsMatch == Inputs => MatchIsDeclared
BY MatchedIsDeclared DEF Inputs, MatchIsDeclared

\* A message of any kind that was accepted.
LEMMA MessageSurvives ==
    ASSUME NEW kind \in Kinds, NEW value, value.type = "table", IsSequence(value.entries),
           \A entry \in ToSet(value.entries) : Decoded(entry.val), Read(kind, value) # Rejected
    PROVE  LET read == Read(kind, value)
               written == Write(kind, read)
           IN  IF Unwritable(kind, read)
               THEN written = Rejected
               ELSE written # Rejected /\ Read(kind, written) = read
<1>1. CASE kind = "info"
  <2>1. \A v : Read(kind, v) = ReadInfo(v) /\ Write(kind, v) = WriteInfo(v)
    BY <1>1 DEF Read, Write
  <2>2. QED BY <1>1, <2>1, InfoSurvives DEF Unwritable
<1>2. CASE kind = "request"
  <2>1. \A v : Read(kind, v) = ReadRequest(v) /\ Write(kind, v) = WriteRequest(v)
    BY <1>2 DEF Read, Write
  <2>2. QED BY <1>2, <2>1, RequestSurvives DEF Unwritable
<1>3. CASE kind = "response"
  <2>1. \A v : Read(kind, v) = ReadResponse(v) /\ Write(kind, v) = WriteResponse(v)
    BY <1>3 DEF Read, Write
  <2>2. QED BY <1>3, <2>1, ResponseSurvives DEF Unwritable
<1>4. CASE kind = "key"
  <2>1. \A v : Read(kind, v) = ReadKey(v) /\ Write(kind, v) = WriteKey(v)
    BY <1>4 DEF Read, Write
  <2>2. QED BY <1>4, <2>1, KeySurvives DEF Unwritable
<1>5. QED BY <1>1, <1>2, <1>3, <1>4 DEF Kinds

\* Every such message survives.
LEMMA InputsSurvive == Inputs => MessagesSurvive
<1> SUFFICES ASSUME Inputs PROVE MessagesSurvive
  OBVIOUS
<1> DEFINE value == Table(message.entries)
<1>1. ASSUME message # NoMessage, Read(message.kind, value) # Rejected
      PROVE  LET read == Read(message.kind, value)
                 written == Write(message.kind, read)
             IN  IF Unwritable(message.kind, read)
                 THEN written = Rejected
                 ELSE written # Rejected /\ Read(message.kind, written) = read
  <2>1. message.kind \in Kinds
    BY <1>1, FormatsAssumption DEF Inputs
  <2>2. value.type = "table" /\ value.entries = message.entries
    BY DEF Table
  <2>3. message.entries \in Seq(Entries)
    BY DEF Inputs
  <2>4. IsSequence(message.entries)
    <3> DEFINE s == message.entries
    <3>1. s \in Seq(Entries)
      BY <2>3
    <3> HIDE DEF s
    <3>2. DOMAIN s = 1..Len(s) /\ Len(s) \in Nat /\ s = [i \in 1..Len(s) |-> s[i]]
      BY <3>1
    <3>3. \A i \in 1..Len(s) : s[i] \in ToSet(s)
      BY <3>2 DEF ToSet
    <3>4. s \in Seq(ToSet(s))
      BY <3>2, <3>3
    <3>5. QED BY <3>4 DEF IsSequence, s
  <2>5. \A entry \in ToSet(message.entries) : Decoded(entry.val)
    BY <2>3, EntriesDecoded DEF ToSet
  <2> HIDE DEF value
  <2>6. QED BY <1>1, <2>1, <2>2, <2>4, <2>5, MessageSurvives
<1>2. ASSUME NEW uv \in BOOLEAN, NEW pin \in BOOLEAN, NEW advertise \in BOOLEAN,
             NEW protocols \in Protocols
      PROVE  LET info == SoftInfo(uv, pin, protocols, advertise)
                 read == ReadInfo(WriteInfo(info))
             IN  IF pin /\ (protocols = <<>> \/ ~IsInjective(protocols))
                 THEN read = Rejected
                 ELSE /\ read = info
                      /\ Option(read, "clientPin") = pin
                      /\ Option(read, "uv") = uv
  <2> DEFINE info == SoftInfo(uv, pin, protocols, advertise)
  <2>1. protocols \in Seq(0..MaxProtocol) /\ protocols \in Seq(Nat)
    <3>1. protocols \in Seq(0..MaxProtocol)
      BY FormatsAssumption
    <3>2. PICK S : S = 0..MaxProtocol
      OBVIOUS
    <3>3. S \subseteq Nat
      BY <3>2, MessagesAssumption
    <3>4. protocols \in Seq(S)
      BY <3>1, <3>2
    <3>5. protocols \in Seq(Nat)
      <4>1. /\ Len(protocols) \in Nat /\ DOMAIN protocols = 1..Len(protocols)
            /\ protocols = [i \in 1..Len(protocols) |-> protocols[i]]
            /\ \A i \in 1..Len(protocols) : protocols[i] \in S
        BY <3>4
      <4>2. \A i \in 1..Len(protocols) : protocols[i] \in Nat
        BY <3>3, <4>1
      <4>3. QED BY <4>1, <4>2
    <3>6. QED BY <3>1, <3>5
  <2>2. ReadInfo(WriteInfo(info)) = IF Valid(info) THEN info ELSE Rejected
    BY <2>1, SoftInfoReadBack
  <2>3. Valid(info) <=> ~(pin /\ (protocols = <<>> \/ ~IsInjective(protocols)))
    BY <2>1, SoftInfoValid
  <2>4. Option(info, "clientPin") = pin /\ Option(info, "uv") = uv
    BY SoftInfoOptions
  <2> HIDE DEF info
  <2>5. CASE pin /\ (protocols = <<>> \/ ~IsInjective(protocols))
    <3>1. ReadInfo(WriteInfo(info)) = Rejected
      BY <2>2, <2>3, <2>5
    <3>2. QED BY <2>5, <3>1 DEF info
  <2>6. CASE ~(pin /\ (protocols = <<>> \/ ~IsInjective(protocols)))
    <3>1. ReadInfo(WriteInfo(info)) = info
      BY <2>2, <2>3, <2>6
    <3>2. QED BY <2>4, <2>6, <3>1 DEF info
  <2>7. QED BY <2>5, <2>6
<1>3. ASSUME NEW user \in BOOLEAN, NEW number \in 0..2
      PROVE  LET response == SoftResponse(user, number)
             IN  /\ ReadResponse(WriteResponse(response)) = response
                 /\ NumberOfCredentials(response) = Max({number, 1})
  <2>1. number \in Nat
    OBVIOUS
  <2>2. Max({number, 1}) = IF number = 0 THEN 1 ELSE number
    BY <2>1 DEF Max
  <2>3. QED BY <2>1, <2>2, SoftResponseSurvives
<1>4. QED BY <1>1, <1>2, <1>3 DEF MessagesSurvive

\* Whatever items a report descriptor is made of and however deep its Push and
\* Pop go, the one scan of find_fido_usage finds the CTAPHID usage exactly when
\* the descriptor declares it.
THEOREM MatchesAreDeclared == FormatsSpec => []MatchIsDeclared
<1>1. Inputs /\ [FormatsNext]_formats => Inputs'
  BY InputsStay
<1>2. QED BY InputsStart, <1>1, InputsMatch, PTL DEF FormatsSpec

\* Whatever members a message has, in any order and any number of times: what a
\* decoder accepts, its encoder writes so that it is read as the same message, but
\* for what Unwritable says, which it refuses: a request that asks for verification
\* twice, certifications or extensions with a repeated key or too deep; and what
\* the software authenticator writes, the client reads as it was meant.
THEOREM MessagesAreKept == FormatsSpec => []MessagesSurvive
<1>1. Inputs /\ [FormatsNext]_formats => Inputs'
  BY InputsStay
<1>2. QED BY InputsStart, <1>1, InputsSurvive, PTL DEF FormatsSpec
=============================================================================
