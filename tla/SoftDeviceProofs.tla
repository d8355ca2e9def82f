-------------------------- MODULE SoftDeviceProofs --------------------------
(***************************************************************************)
(* Theorems about SoftDevice for any callers, commands, knobs, snapshots    *)
(* and bounds: a poke pays for one presence, minting repeats no id, every   *)
(* state is well typed, the counter counts signatures, an answer is one to  *)
(* the caller's own command, and a drain yields each match once.            *)
(***************************************************************************)
EXTENDS SoftDevice, DataLemmas

\* The latches and what was counted of them.
PokeInv ==
    /\ ledger \in Ledger
    /\ poked \in [Requirements -> BOOLEAN]
    /\ PokesPayOnce

\* What a step that takes and sets no latch does to the ledger.
Uncounted ==
    /\ ledger' \in Ledger
    /\ ledger'.given = ledger.given
    /\ ledger'.paid = ledger.paid
    /\ ledger'.imported = ledger.imported

\* Every id the store holds was drawn from the stream, each at its own place.
IdInv ==
    /\ drawn \in Nat
    /\ ~ledger.imported =>
          /\ store \in Seq(Record)
          /\ \A i \in DOMAIN store : store[i].id <= drawn
          /\ \A i, j \in DOMAIN store : store[i].id = store[j].id => i = j

-----------------------------------------------------------------------------
(* The steps, by what they do to the latches and the ledger.               *)

LEMMA ExpireUncounted ==
    ASSUME ledger \in Ledger, NEW h \in Handles, Expire(h)
    PROVE  Uncounted
BY DEF Expire, Uncounted, Ledger

LEMMA SignedUncounted ==
    ASSUME ledger \in Ledger, ledger' = [ledger EXCEPT !.issued = @ + 1]
    PROVE  Uncounted
BY DEF Uncounted, Ledger

LEMMA IssuedUncounted ==
    ASSUME ledger \in Ledger, NEW event, ledger' = Issued(ledger, event)
    PROVE  Uncounted
BY DEF Issued, Uncounted, Ledger

LEMMA SameUncounted ==
    ASSUME ledger \in Ledger, UNCHANGED ledger
    PROVE  Uncounted
BY DEF Uncounted

LEMMA SendUncounted ==
    ASSUME ledger \in Ledger, NEW h \in Handles, Send(h)
    PROVE  Uncounted
<1>1. \/ Expire(h)
      \/ UNCHANGED ledger
      \/ ledger' = Issued(ledger, device[h].held)
  BY DEF Send, NextEvent
<1>2. QED BY <1>1, ExpireUncounted, IssuedUncounted, SameUncounted

LEMMA KeepalivesUncounted ==
    ASSUME ledger \in Ledger, NEW h \in Handles, Keepalives(h)
    PROVE  Uncounted
<1>1. Expire(h) \/ UNCHANGED ledger
  BY DEF Keepalives
<1>2. QED BY <1>1, ExpireUncounted, SameUncounted

LEMMA GetAssertionUncounted ==
    ASSUME ledger \in Ledger, NEW h \in Handles, GetAssertion(h)
    PROVE  Uncounted
<1>1. UNCHANGED ledger \/ \E event : ledger' = Issued(ledger, event)
  BY DEF GetAssertion
<1>2. QED BY <1>1, IssuedUncounted, SameUncounted

LEMMA GetNextAssertionUncounted ==
    ASSUME ledger \in Ledger, NEW h \in Handles, GetNextAssertion(h)
    PROVE  Uncounted
<1>1. UNCHANGED ledger \/ \E event : ledger' = Issued(ledger, event)
  BY DEF GetNextAssertion
<1>2. QED BY <1>1, IssuedUncounted, SameUncounted

\* A presence that is not paid for by a poke leaves the latches alone.
LEMMA PresenceCases ==
    ASSUME ledger \in Ledger, NEW h \in Handles, NEW r \in Requirements, NEW next,
           Presence(h, r, next)
    PROVE  \/ Uncounted /\ UNCHANGED poked
           \/ /\ Released(r)
              /\ ledger' = [ledger EXCEPT !.paid[r] = @ + 1]
<1>1. \/ UNCHANGED <<poked, ledger>>
      \/ Expire(h) /\ UNCHANGED poked
      \/ /\ Released(r)
         /\ ledger' = [ledger EXCEPT !.paid[r] = @ + 1]
  BY DEF Presence
<1>2. QED BY <1>1, ExpireUncounted, SameUncounted

-----------------------------------------------------------------------------
\* What a step of the system does to latches and ledger.
LEMMA StepCases ==
    ASSUME ledger \in Ledger, [Next]_vars
    PROVE  \/ Uncounted /\ UNCHANGED poked
           \/ \E r \in Requirements :
                 /\ poked' = [poked EXCEPT ![r] = TRUE]
                 /\ ledger' = [ledger EXCEPT !.given[r] = @ + 1]
           \/ \E r \in Requirements :
                 /\ Released(r)
                 /\ ledger' = [ledger EXCEPT !.paid[r] = @ + 1]
           \/ ledger' = [ledger EXCEPT !.imported = TRUE] /\ UNCHANGED poked
<1> DEFINE Goal == \/ Uncounted /\ UNCHANGED poked
                   \/ \E r \in Requirements :
                         /\ poked' = [poked EXCEPT ![r] = TRUE]
                         /\ ledger' = [ledger EXCEPT !.given[r] = @ + 1]
                   \/ \E r \in Requirements :
                         /\ Released(r)
                         /\ ledger' = [ledger EXCEPT !.paid[r] = @ + 1]
                   \/ ledger' = [ledger EXCEPT !.imported = TRUE] /\ UNCHANGED poked
<1>1. ASSUME NEW h \in Handles, Runs(h) PROVE Goal
  <2>1. CASE Send(h)
    BY <2>1, SendUncounted DEF Send, core
  <2>2. CASE Status(h)
    BY <2>2, SameUncounted DEF Status
  <2>3. CASE Keepalives(h)
    BY <2>3, KeepalivesUncounted DEF Keepalives
  <2>4. CASE Presence(h, "UP", "UV")
    BY <2>4, PresenceCases DEF Requirements
  <2>5. CASE Presence(h, "UV", "delay")
    BY <2>5, PresenceCases DEF Requirements
  <2>6. CASE Delay(h)
    BY <2>6, SameUncounted DEF Delay
  <2>7. CASE GetAssertion(h)
    BY <2>7, GetAssertionUncounted DEF GetAssertion
  <2>8. QED BY <1>1, <2>1, <2>2, <2>3, <2>4, <2>5, <2>6, <2>7 DEF Runs
<1>2. ASSUME NEW h \in Handles, Connect(h) PROVE Goal
  BY <1>2 DEF Connect, Uncounted, Ledger, core
<1>3. ASSUME NEW h \in Handles, NEW c \in Commands, NEW b \in Budgets, Begin(h, c, b)
      PROVE Goal
  BY <1>3, SameUncounted DEF Begin, core
<1>4. ASSUME NEW h \in Handles, GetNextAssertion(h) PROVE Goal
  BY <1>4, GetNextAssertionUncounted DEF GetNextAssertion
<1>5. ASSUME NEW h \in Handles, GiveUp(h) PROVE Goal
  BY <1>5 DEF GiveUp, Uncounted, Ledger, core
<1>6. ASSUME NEW h \in Handles, Close(h) PROVE Goal
  <2>1. UNCHANGED poked
    BY <1>6 DEF Close, core
  <2>2. UNCHANGED ledger \/ ledger' = [ledger EXCEPT !.issued = @ + 1]
    <3>1. CASE device[h].held = NoEvent
      <4>1. ledger' = [ledger EXCEPT !.issued = @]
        BY <1>6, <3>1 DEF Close
      <4>2. QED BY <4>1 DEF Ledger
    <3>2. CASE device[h].held # NoEvent
      BY <1>6, <3>2 DEF Close
    <3>3. QED BY <3>1, <3>2
  <2>3. QED BY <2>1, <2>2, SameUncounted, SignedUncounted
<1>7. ASSUME NEW rp \in Rps, NEW resident \in BOOLEAN, MakeCredential(rp, resident)
      PROVE Goal
  <2>1. UNCHANGED poked /\ ledger' = [ledger EXCEPT !.issued = @ + 1]
    BY <1>7 DEF MakeCredential
  <2>2. QED BY <2>1, SignedUncounted
<1>8. ASSUME NEW r \in Requirements, Poke(r) PROVE Goal
  BY <1>8 DEF Poke
<1>9. ASSUME NEW r \in Requirements, NEW m \in Modes, SetMode(r, m) PROVE Goal
  BY <1>9, SameUncounted DEF SetMode
<1>10. ASSUME NEW k \in Settings, Arm(k) PROVE Goal
  BY <1>10, SameUncounted DEF Arm
<1>11. ASSUME NEW s \in Snapshots, Import(s) PROVE Goal
  BY <1>11 DEF Import
<1>12. ASSUME UNCHANGED vars PROVE Goal
  <2>1. UNCHANGED <<ledger, poked>>
    BY <1>12 DEF vars
  <2>2. QED BY <2>1, SameUncounted
<1> HIDE DEF Goal
<1>13. Goal
  BY <1>1, <1>2, <1>3, <1>4, <1>5, <1>6, <1>7, <1>8, <1>9, <1>10, <1>11, <1>12 DEF Next
<1>14. QED BY <1>13 DEF Goal

-----------------------------------------------------------------------------
(* Pokes.                                                                  *)

LEMMA PokeInit == Init => PokeInv
<1> SUFFICES ASSUME Init PROVE PokeInv OBVIOUS
<1>1. PICK minted \in Fixtures, start \in Starts :
         ledger = [NewLedger(start) EXCEPT !.issued = Len(minted)]
  BY DEF Init
<1>2. start \in Nat /\ Len(minted) \in Nat
  <2>1. start \in 0..Width - 1
    BY SoftAssumption
  <2>2. minted \in Seq([rp : Rps, resident : BOOLEAN])
    BY SoftAssumption
  <2>3. QED BY <2>1, <2>2
<1>3. ledger \in Ledger
  BY <1>1, <1>2 DEF NewLedger, Ledger
<1>4. ledger.given = [r \in Requirements |-> 0] /\ ledger.paid = [r \in Requirements |-> 0]
  BY <1>1, <1>2 DEF NewLedger
<1>5. poked = [r \in Requirements |-> FALSE]
  BY DEF Init
<1>6. QED BY <1>3, <1>4, <1>5 DEF PokeInv, PokesPayOnce

LEMMA PokeStep == PokeInv /\ [Next]_vars => PokeInv'
<1> SUFFICES ASSUME PokeInv, [Next]_vars PROVE PokeInv' OBVIOUS
<1> USE DEF PokeInv, PokesPayOnce
<1>1. CASE Uncounted /\ UNCHANGED poked
  BY <1>1 DEF Uncounted
<1>2. ASSUME NEW r \in Requirements,
             poked' = [poked EXCEPT ![r] = TRUE],
             ledger' = [ledger EXCEPT !.given[r] = @ + 1]
      PROVE  PokeInv'
  BY <1>2 DEF Ledger
<1>3. ASSUME NEW r \in Requirements,
             Released(r),
             ledger' = [ledger EXCEPT !.paid[r] = @ + 1]
      PROVE  PokeInv'
  BY <1>3 DEF Ledger, Released
<1>4. CASE ledger' = [ledger EXCEPT !.imported = TRUE] /\ UNCHANGED poked
  BY <1>4 DEF Ledger
<1>5. QED BY <1>1, <1>2, <1>3, <1>4, StepCases

\* For any callers and any interleaving of their sends with the harness, the
\* presences paid for by pokes and the latches still set never exceed the pokes
\* given (take_up_poke, take_uv_poke).
THEOREM OnePresencePerPoke == Spec => []PokesPayOnce
<1>1. Spec => []PokeInv
  BY PokeInit, PokeStep, PTL DEF Spec
<1>2. PokeInv => PokesPayOnce
  BY DEF PokeInv
<1>3. QED BY <1>1, <1>2, PTL

-----------------------------------------------------------------------------
(* Ids.                                                                    *)

LEMMA IdInit == Init => IdInv
<1> SUFFICES ASSUME Init PROVE IdInv OBVIOUS
<1>1. PICK minted \in Fixtures :
         /\ store = [i \in DOMAIN minted |-> Minted(minted[i], 2 * i)]
         /\ drawn = 2 * Len(minted)
  BY DEF Init
<1> DEFINE Credential == [rp : Rps, resident : BOOLEAN]
<1>2. minted \in Seq(Credential)
  BY SoftAssumption
<1> HIDE DEF Credential
<1>3. /\ Len(minted) \in Nat
      /\ DOMAIN minted = 1..Len(minted)
      /\ \A i \in 1..Len(minted) : minted[i] \in Credential
  BY <1>2
<1>4. ASSUME NEW i \in 1..Len(minted) PROVE Minted(minted[i], 2 * i) \in Record
  <2>1. minted[i] \in Credential /\ 2 * i \in Nat
    BY <1>3
  <2>2. QED BY <2>1 DEF Minted, Record, Credential
<1>5. store \in Seq(Record) /\ DOMAIN store = 1..Len(minted)
  BY <1>1, <1>3, <1>4
<1>6. \A i \in DOMAIN store : store[i].id = 2 * i
  BY <1>1, <1>3, <1>5 DEF Minted
<1>7. QED BY <1>1, <1>3, <1>5, <1>6 DEF IdInv

\* Only minting and importing touch the store, only minting and clientPIN the
\* stream.
LEMMA StoreCases ==
    ASSUME [Next]_vars
    PROVE  \/ UNCHANGED store /\ (UNCHANGED drawn \/ \E n \in {0, 1} : Draw(n))
           \/ \E rp \in Rps, resident \in BOOLEAN : MakeCredential(rp, resident)
           \/ \E s \in Snapshots : Import(s)
<1> DEFINE Aside == UNCHANGED store /\ (UNCHANGED drawn \/ \E n \in {0, 1} : Draw(n))
<1>1. ASSUME NEW h \in Handles, Runs(h) PROVE Aside
  <2>1. CASE Send(h)
    BY <2>1 DEF Send, core
  <2>2. CASE Status(h)
    BY <2>2 DEF Status
  <2>3. CASE Keepalives(h)
    BY <2>3 DEF Keepalives
  <2>4. CASE Presence(h, "UP", "UV") \/ Presence(h, "UV", "delay")
    BY <2>4 DEF Presence
  <2>5. CASE Delay(h)
    BY <2>5 DEF Delay
  <2>6. CASE GetAssertion(h)
    BY <2>6 DEF GetAssertion
  <2>7. QED BY <1>1, <2>1, <2>2, <2>3, <2>4, <2>5, <2>6 DEF Runs
<1>2. ASSUME NEW h \in Handles, Connect(h) \/ GiveUp(h) \/ Close(h) PROVE Aside
  BY <1>2 DEF Connect, GiveUp, Close, core
<1>3. ASSUME NEW h \in Handles, NEW c \in Commands, NEW b \in Budgets, Begin(h, c, b)
      PROVE Aside
  BY <1>3 DEF Begin, core
<1>4. ASSUME NEW h \in Handles, GetNextAssertion(h) PROVE Aside
  BY <1>4 DEF GetNextAssertion
<1>5. ASSUME NEW r \in Requirements, Poke(r) \/ \E m \in Modes : SetMode(r, m)
      PROVE Aside
  BY <1>5 DEF Poke, SetMode
<1>6. ASSUME NEW k \in Settings, Arm(k) PROVE Aside
  BY <1>6 DEF Arm
<1>7. ASSUME UNCHANGED vars PROVE Aside
  BY <1>7 DEF vars
<1> HIDE DEF Aside
<1>8. \/ Aside
      \/ \E rp \in Rps, resident \in BOOLEAN : MakeCredential(rp, resident)
      \/ \E s \in Snapshots : Import(s)
  BY <1>1, <1>2, <1>3, <1>4, <1>5, <1>6, <1>7 DEF Next
<1>9. QED BY <1>8 DEF Aside

LEMMA IdStep == PokeInv /\ IdInv /\ [Next]_vars => IdInv'
<1> SUFFICES ASSUME PokeInv, IdInv, [Next]_vars PROVE IdInv' OBVIOUS
<1>0. ledger \in Ledger /\ (ledger.imported => ledger'.imported)
  <2>1. ledger \in Ledger
    BY DEF PokeInv
  <2>2. QED BY <2>1, StepCases DEF Uncounted, Ledger
<1>1. CASE UNCHANGED store /\ (UNCHANGED drawn \/ \E n \in {0, 1} : Draw(n))
  <2>1. drawn' \in Nat /\ drawn <= drawn'
    BY <1>1 DEF IdInv, Draw
  <2>2. CASE ledger'.imported
    BY <2>1, <2>2 DEF IdInv
  <2>3. CASE ~ledger'.imported
    <3>1. /\ store \in Seq(Record)
          /\ \A i \in DOMAIN store : store[i].id <= drawn
          /\ \A i, j \in DOMAIN store : store[i].id = store[j].id => i = j
      BY <1>0, <2>3 DEF IdInv
    <3>2. \A i \in DOMAIN store : store[i].id <= drawn'
      <4> SUFFICES ASSUME NEW i \in DOMAIN store PROVE store[i].id <= drawn'
        OBVIOUS
      <4>1. store[i] \in Record
        BY <3>1
      <4>2. store[i].id \in Nat /\ store[i].id <= drawn /\ drawn \in Nat
        BY <3>1, <4>1 DEF Record, IdInv
      <4>3. QED BY <2>1, <4>2
    <3>3. store' = store
      BY <1>1
    <3>4. QED BY <2>1, <3>1, <3>2, <3>3 DEF IdInv
  <2>4. QED BY <2>2, <2>3
<1>2. ASSUME NEW rp \in Rps, NEW resident \in BOOLEAN, MakeCredential(rp, resident)
      PROVE  IdInv'
  <2> DEFINE new == Minted([rp |-> rp, resident |-> resident], drawn + 2)
  <2>1. drawn' = drawn + 2 /\ drawn' \in Nat
    BY <1>2 DEF MakeCredential, Draw, IdInv
  <2>2. new \in Record /\ new.id = drawn + 2
    BY <2>1 DEF Minted, Record
  <2>3. SUFFICES ASSUME ~ledger'.imported
                 PROVE  /\ store' \in Seq(Record)
                        /\ \A i \in DOMAIN store' : store'[i].id <= drawn'
                        /\ \A i, j \in DOMAIN store' : store'[i].id = store'[j].id => i = j
    BY <2>1 DEF IdInv
  <2>4. /\ store \in Seq(Record)
        /\ \A i \in DOMAIN store : store[i].id <= drawn
        /\ \A i, j \in DOMAIN store : store[i].id = store[j].id => i = j
    BY <1>0, <2>3 DEF IdInv
  <2>5. store' = Append(store, new)
    BY <1>2 DEF MakeCredential
  <2> HIDE DEF new
  <2>6. /\ store' \in Seq(Record)
        /\ DOMAIN store' = 1..Len(store) + 1
        /\ DOMAIN store = 1..Len(store) /\ Len(store) \in Nat
        /\ \A i \in 1..Len(store) : store'[i] = store[i]
        /\ store'[Len(store) + 1] = new
    BY <2>2, <2>4, <2>5
  <2>7. \A i \in DOMAIN store : store[i].id \in Nat /\ store[i].id <= drawn
    <3> SUFFICES ASSUME NEW i \in DOMAIN store PROVE store[i].id \in Nat /\ store[i].id <= drawn
      OBVIOUS
    <3>1. store[i] \in Record
      BY <2>4
    <3>2. QED BY <2>4, <3>1 DEF Record
  <2>8. drawn \in Nat
    BY DEF IdInv
  <2>9. \A i \in DOMAIN store' : store'[i].id <= drawn'
    BY <2>1, <2>2, <2>6, <2>7, <2>8
  <2>10. \A i, j \in DOMAIN store' : store'[i].id = store'[j].id => i = j
    <3> SUFFICES ASSUME NEW i \in DOMAIN store', NEW j \in DOMAIN store',
                        store'[i].id = store'[j].id
                 PROVE  i = j
      OBVIOUS
    <3>1. CASE i \in DOMAIN store /\ j \in DOMAIN store
      BY <2>4, <2>6, <3>1
    <3>2. CASE i = Len(store) + 1 /\ j = Len(store) + 1
      BY <3>2
    <3>3. CASE i \in DOMAIN store /\ j = Len(store) + 1
      BY <2>2, <2>6, <2>7, <2>8, <3>3
    <3>4. CASE i = Len(store) + 1 /\ j \in DOMAIN store
      BY <2>2, <2>6, <2>7, <2>8, <3>4
    <3>5. QED BY <2>6, <3>1, <3>2, <3>3, <3>4
  <2>11. QED BY <2>6, <2>9, <2>10
<1>3. ASSUME NEW s \in Snapshots, Import(s) PROVE IdInv'
  <2>1. ledger' = [ledger EXCEPT !.imported = TRUE] /\ drawn' = drawn
    BY <1>3 DEF Import
  <2>2. QED BY <1>0, <2>1 DEF IdInv, Ledger
<1>4. QED BY <1>1, <1>2, <1>3, StoreCases

\* However minting, clientPIN exchanges and everything else interleave, no two
\* credentials share an id until a snapshot brings in ids of its own
\* (make_credential, exchange_client_pin).
THEOREM MintedIdsAreDistinct == Spec => []IdsAreDistinct
<1>1. Spec => [](PokeInv /\ IdInv)
  BY PokeInit, PokeStep, IdInit, IdStep, PTL DEF Spec
<1>2. IdInv => IdsAreDistinct
  BY DEF IdInv, IdsAreDistinct
<1>3. QED BY <1>1, <1>2, PTL


-----------------------------------------------------------------------------
(* Ascending.                                                              *)

\* The members of S up to k.
UpTo(S, k) == {j \in S : j <= k}

LEMMA UpToFinite ==
    ASSUME NEW m \in Nat, NEW S \in SUBSET (1..m), NEW k
    PROVE  IsFiniteSet(UpTo(S, k)) /\ Cardinality(UpTo(S, k)) \in Nat
<1>1. IsFiniteSet(1..m)
  BY FS_Interval
<1>2. UpTo(S, k) \subseteq 1..m
  BY DEF UpTo
<1>3. QED BY <1>1, <1>2, FS_Subset, FS_CardinalityType

\* Some member has n members up to it, as long as there are n.
LEMMA RankExists ==
    ASSUME NEW m \in Nat, NEW S \in SUBSET (1..m), NEW n \in 1..Cardinality(S)
    PROVE  \E i \in S : Cardinality(UpTo(S, i)) = n
<1> DEFINE Enough == {k \in Nat : Cardinality(UpTo(S, k)) >= n}
<1>0. IsFiniteSet(S) /\ Cardinality(S) \in Nat
  <2>1. IsFiniteSet(1..m)
    BY FS_Interval
  <2>2. IsFiniteSet(S)
    BY <2>1, FS_Subset
  <2>3. QED BY <2>2, FS_CardinalityType
<1>1. m \in Enough
  <2>1. \A j \in S : j <= m
    OBVIOUS
  <2>2. UpTo(S, m) = S
    BY <2>1 DEF UpTo
  <2>3. QED BY <1>0, <2>2
<1>2. PICK k \in Enough : \A y \in Enough : k <= y
  BY <1>1, LeastNatural
<1>3. Cardinality(UpTo(S, k)) \in Nat /\ Cardinality(UpTo(S, k)) >= n /\ k \in Nat
  BY <1>2, UpToFinite
<1>4. k # 0
  <2>1. \A j \in S : ~(j <= 0)
    OBVIOUS
  <2>2. UpTo(S, 0) = {}
    BY <2>1 DEF UpTo
  <2>3. Cardinality(UpTo(S, 0)) = 0
    BY <2>2, FS_EmptySet
  <2>4. QED BY <1>0, <1>3, <2>3
<1>5. Cardinality(UpTo(S, k - 1)) \in Nat /\ Cardinality(UpTo(S, k - 1)) < n
  <2>1. k - 1 \in Nat /\ k - 1 < k
    BY <1>3, <1>4
  <2>2. k - 1 \notin Enough
    BY <1>2, <1>3, <2>1
  <2>3. Cardinality(UpTo(S, k - 1)) \in Nat
    BY UpToFinite
  <2>4. QED BY <1>0, <2>1, <2>2, <2>3
<1>6. k \in S
  <2>1. CASE k \notin S
    <3>1. \A j \in S : j <= k <=> j <= k - 1
      BY <1>3, <2>1
    <3>2. UpTo(S, k) = UpTo(S, k - 1)
      BY <3>1 DEF UpTo
    <3>3. QED BY <1>0, <1>3, <1>5, <3>2
  <2>2. QED BY <2>1
<1>7. UpTo(S, k) = UpTo(S, k - 1) \cup {k} /\ k \notin UpTo(S, k - 1)
  <2>1. \A j \in S : j <= k <=> j <= k - 1 \/ j = k
    BY <1>3
  <2>2. ~(k <= k - 1)
    BY <1>3
  <2>3. QED BY <1>6, <2>1, <2>2 DEF UpTo
<1>8. Cardinality(UpTo(S, k)) = Cardinality(UpTo(S, k - 1)) + 1
  BY <1>7, UpToFinite, FS_AddElement
<1>9. QED BY <1>0, <1>3, <1>5, <1>6, <1>8

\* And only one.
LEMMA RankUnique ==
    ASSUME NEW m \in Nat, NEW S \in SUBSET (1..m), NEW i \in S, NEW k \in S,
           Cardinality(UpTo(S, i)) = Cardinality(UpTo(S, k))
    PROVE  i = k
<1>1. ASSUME NEW a \in S, NEW b \in S, a < b
      PROVE  Cardinality(UpTo(S, a)) < Cardinality(UpTo(S, b))
  <2>1. UpTo(S, a) \subseteq UpTo(S, b) /\ UpTo(S, a) # UpTo(S, b)
    <3>1. \A j \in S : j <= a => j <= b
      BY <1>1
    <3>2. b <= b /\ ~(b <= a)
      BY <1>1
    <3>3. b \in UpTo(S, b) /\ b \notin UpTo(S, a)
      BY <3>2 DEF UpTo
    <3>4. QED BY <3>1, <3>3 DEF UpTo
  <2>2. /\ IsFiniteSet(UpTo(S, b))
        /\ Cardinality(UpTo(S, a)) \in Nat /\ Cardinality(UpTo(S, b)) \in Nat
    BY UpToFinite
  <2>3. /\ Cardinality(UpTo(S, a)) <= Cardinality(UpTo(S, b))
        /\ Cardinality(UpTo(S, b)) = Cardinality(UpTo(S, a)) => UpTo(S, b) = UpTo(S, a)
    BY <2>1, <2>2, FS_Subset
  <2>4. QED BY <2>1, <2>2, <2>3
<1>2. i \in Nat /\ k \in Nat
  OBVIOUS
<1>3. Cardinality(UpTo(S, i)) \in Nat
  BY UpToFinite
<1>4. ~(i < k) /\ ~(k < i)
  BY <1>1, <1>3
<1>5. QED BY <1>2, <1>4

LEMMA AscendingSeq ==
    ASSUME NEW m \in Nat, NEW S \in SUBSET (1..m)
    PROVE  /\ Cardinality(S) \in Nat
           /\ Ascending(S) \in Seq(S)
           /\ Len(Ascending(S)) = Cardinality(S)
           /\ \A n \in 1..Cardinality(S) :
                 /\ Ascending(S)[n] \in S
                 /\ Cardinality(UpTo(S, Ascending(S)[n])) = n
<1>0. Cardinality(S) \in Nat
  <2>1. IsFiniteSet(1..m)
    BY FS_Interval
  <2>2. IsFiniteSet(S)
    BY <2>1, FS_Subset
  <2>3. QED BY <2>2, FS_CardinalityType
<1>1. ASSUME NEW n \in 1..Cardinality(S)
      PROVE  Ascending(S)[n] \in S /\ Cardinality(UpTo(S, Ascending(S)[n])) = n
  <2>1. Ascending(S)[n] = CHOOSE i \in S : Cardinality(UpTo(S, i)) = n
    BY DEF Ascending, UpTo
  <2>2. \E i \in S : Cardinality(UpTo(S, i)) = n
    BY RankExists
  <2>3. QED BY <2>1, <2>2
<1>2. Ascending(S) = [n \in 1..Cardinality(S) |-> Ascending(S)[n]]
  BY DEF Ascending
<1>3. QED BY <1>0, <1>1, <1>2

\* What is put after the members of S leaves them where they are.
LEMMA AscendingPrefix ==
    ASSUME NEW m \in Nat, NEW T \in SUBSET (1..m), NEW S \in SUBSET T,
           \A t \in T \ S : \A s \in S : s < t
    PROVE  /\ Cardinality(S) <= Cardinality(T)
           /\ \A n \in 1..Cardinality(S) : Ascending(T)[n] = Ascending(S)[n]
<1>0. S \in SUBSET (1..m)
  OBVIOUS
<1>1. Cardinality(S) \in Nat /\ Cardinality(T) \in Nat /\ Cardinality(S) <= Cardinality(T)
  <2>1. IsFiniteSet(T)
    <3>1. IsFiniteSet(1..m)
      BY FS_Interval
    <3>2. QED BY <3>1, FS_Subset
  <2>2. IsFiniteSet(S) /\ Cardinality(S) <= Cardinality(T)
    BY <2>1, FS_Subset
  <2>3. QED BY <2>1, <2>2, FS_CardinalityType
<1>2. ASSUME NEW n \in 1..Cardinality(S) PROVE Ascending(T)[n] = Ascending(S)[n]
  <2>1. n \in 1..Cardinality(T)
    BY <1>1
  <2>2. Ascending(S)[n] \in S /\ Cardinality(UpTo(S, Ascending(S)[n])) = n
    BY <1>0, AscendingSeq
  <2>3. Ascending(T)[n] \in T /\ Cardinality(UpTo(T, Ascending(T)[n])) = n
    BY <2>1, AscendingSeq
  <2>4. UpTo(T, Ascending(S)[n]) = UpTo(S, Ascending(S)[n])
    <3> DEFINE i == Ascending(S)[n]
    <3>1. i \in S
      BY <2>2
    <3> HIDE DEF i
    <3>2. \A j \in T : j <= i => j \in S
      <4> SUFFICES ASSUME NEW j \in T \ S PROVE ~(j <= i)
        OBVIOUS
      <4>1. i < j /\ i \in 1..m /\ j \in 1..m
        BY <3>1
      <4>2. QED BY <4>1
    <3>3. UpTo(T, i) = UpTo(S, i)
      BY <3>2 DEF UpTo
    <3>4. QED BY <3>3 DEF i
  <2>5. QED BY <2>2, <2>3, <2>4, RankUnique
<1>3. QED BY <1>1, <1>2

-----------------------------------------------------------------------------
(* One caller's part of the state.                                         *)

\* An event is an answer to what was asked, as AnswersOwnCommand has it.
Wanted(record, command) ==
    /\ record.rp = command.rp
    /\ IF command.allow = None THEN record.resident ELSE record.id \in command.allow

Serves(question, event) ==
    /\ event # NoEvent => event.ask = question.serial
    /\ event.kind = "info" => question.command.kind = "GetInfo"
    /\ event.kind = "assertion" =>
          /\ question.command.kind = "GetAssertion"
          /\ Wanted(store[event.signer], question.command)

Signed(event) == event.kind = "assertion" => event.signer # 0

\* The typing of one caller.
Caller(h) ==
    /\ at[h] \in Stages
    /\ asked[h] \in [serial : Nat, command : Questions]
    /\ left[h] \in Nat
    /\ device[h] \in Device
    /\ last[h] \in Event
    /\ \E b \in Budgets \cup {0} : left[h] <= b
    /\ device[h].overshoot => device[h].held # NoEvent \/ at[h] = "assert"

\* A response is held back only between the sends of a command; what a tidy
\* caller's device holds, and what it was answered, is for its own command.
Resting(h) ==
    /\ at[h] \in Sections \cup {"away"} => device[h].held = NoEvent
    /\ at[h] \in Sections \ {"status"} => asked[h].command.kind = "GetAssertion"
    /\ device[h].held # NoEvent => device[h].held.kind = "assertion"
    /\ Signed(device[h].held)
    /\ Signed(last[h])
    /\ h \in ledger.tidy =>
          /\ device[h].held # NoEvent => at[h] = "asking"
          /\ Serves(asked[h], device[h].held)
          /\ Serves(asked[h], last[h])

\* A step of one caller, which leaves the others' part of the state alone.
Only(h) ==
    /\ store' = store
    /\ at' = [at EXCEPT ![h] = at'[h]]
    /\ asked' = [asked EXCEPT ![h] = asked'[h]]
    /\ left' = [left EXCEPT ![h] = left'[h]]
    /\ device' = [device EXCEPT ![h] = device'[h]]
    /\ last' = [last EXCEPT ![h] = last'[h]]
    /\ \A c \in Handles \ {h} : c \in ledger'.tidy <=> c \in ledger.tidy

\* What a step of caller h keeps of the invariant.
Kept(h) == Only(h) /\ Caller(h)' /\ Resting(h)'

LEMMA Changed ==
    ASSUME NEW S, NEW f \in [Handles -> S], NEW h \in Handles, NEW v, NEW g,
           g = [f EXCEPT ![h] = v]
    PROVE  g[h] = v /\ g = [f EXCEPT ![h] = g[h]]
OBVIOUS

LEMMA Unchanged ==
    ASSUME NEW S, NEW f \in [Handles -> S], NEW h \in Handles, NEW g, g = f
    PROVE  g[h] = f[h] /\ g = [f EXCEPT ![h] = g[h]]
OBVIOUS

\* The plain events.
LEMMA Plain ==
    ASSUME NEW kind \in Kinds, NEW question \in [serial : Nat, command : Questions]
    PROVE  /\ Of(kind, question.serial) \in Event
           /\ Of(kind, question.serial).kind = kind
           /\ kind # "assertion" => Signed(Of(kind, question.serial))
           /\ kind \notin {"info", "assertion"} =>
                 Serves(question, Of(kind, question.serial))
           /\ question.command.kind = "GetInfo" =>
                 Serves(question, Of("info", question.serial))
<1>1. Of(kind, question.serial) \in Event
  BY DEF Of, NoEvent, Event, Kinds
<1>2. Of(kind, question.serial).kind = kind /\ Of("info", question.serial).kind = "info"
  BY DEF Of, NoEvent
<1>3. /\ Of(kind, question.serial).ask = question.serial
      /\ Of("info", question.serial).ask = question.serial
  BY DEF Of, NoEvent
<1>4. QED BY <1>1, <1>2, <1>3 DEF Signed, Serves

LEMMA NoEventServes ==
    /\ NoEvent \in Event
    /\ Signed(NoEvent)
    /\ \A question : Serves(question, NoEvent)
<1>1. NoEvent.kind = "none"
  BY DEF NoEvent
<1>2. NoEvent \in Event
  BY DEF NoEvent, Event, Kinds
<1>3. QED BY <1>1, <1>2 DEF Signed, Serves

\* What a step of one caller does for the others.
LEMMA OthersKept ==
    ASSUME CallersOK, NEW h \in Handles, Only(h), NEW c \in Handles, c # h,
           Caller(c), Resting(c)
    PROVE  Caller(c)' /\ Resting(c)'
<1>1. /\ at'[c] = at[c] /\ asked'[c] = asked[c] /\ left'[c] = left[c]
      /\ device'[c] = device[c] /\ last'[c] = last[c]
  BY DEF Only, CallersOK
<1>2. store' = store /\ (c \in ledger'.tidy <=> c \in ledger.tidy)
  BY DEF Only
<1>3. Event' = Event
  BY <1>2 DEF Event
<1>4. Device' = Device
  BY <1>3 DEF Device
<1>5. Caller(c)'
  BY <1>1, <1>3, <1>4 DEF Caller
<1>6. Resting(c)'
  BY <1>1, <1>2 DEF Resting, Serves, Signed
<1>7. QED BY <1>5, <1>6

LEMMA CallersJoin ==
    ASSUME CallersOK, NEW h \in Handles, Only(h), claims' \in [Handles -> Claim],
           \A c \in Handles : Caller(c)'
    PROVE  CallersOK'
<1>1. /\ at' \in [Handles -> Stages]
      /\ asked' \in [Handles -> [serial : Nat, command : Questions]]
      /\ left' \in [Handles -> Nat]
  BY DEF Only, CallersOK, Caller
<1>2. device' \in [Handles -> Device']
  <2>1. device' = [c \in Handles |-> device'[c]]
    BY DEF Only, CallersOK
  <2>2. QED BY <2>1 DEF Caller
<1>3. last' \in [Handles -> Event']
  <2>1. last' = [c \in Handles |-> last'[c]]
    BY DEF Only, CallersOK
  <2>2. QED BY <2>1 DEF Caller
<1>4. QED BY <1>1, <1>2, <1>3 DEF CallersOK, Caller

LEMMA CallerOf ==
    ASSUME CallersOK, NEW h \in Handles
    PROVE  Caller(h)
BY DEF CallersOK, Caller

-----------------------------------------------------------------------------
(* The steps of one caller.                                                *)

\* A step of h is known by what it puts in each of h's places.
LEMMA KeptBy ==
    ASSUME CallersOK, NEW h \in Handles, Only(h),
           at'[h] \in Stages,
           asked'[h] \in [serial : Nat, command : Questions],
           left'[h] \in Nat, \E b \in Budgets \cup {0} : left'[h] <= b,
           device'[h] \in Device, last'[h] \in Event,
           device'[h].overshoot => device'[h].held # NoEvent \/ at'[h] = "assert",
           at'[h] \in Sections \cup {"away"} => device'[h].held = NoEvent,
           at'[h] \in Sections \ {"status"} => asked'[h].command.kind = "GetAssertion",
           device'[h].held # NoEvent => device'[h].held.kind = "assertion",
           Signed(device'[h].held), Signed(last'[h]),
           h \in ledger'.tidy =>
              /\ device'[h].held # NoEvent => at'[h] = "asking"
              /\ Serves(asked'[h], device'[h].held)
              /\ Serves(asked'[h], last'[h])
    PROVE  Kept(h)
<1>1. store' = store
  BY DEF Only
<1>2. Event' = Event
  BY <1>1 DEF Event
<1>3. Device' = Device
  BY <1>2 DEF Device
<1>4. Caller(h)'
  BY <1>2, <1>3 DEF Caller
<1>5. Resting(h)'
  BY <1>1 DEF Resting, Serves, Signed
<1>6. QED BY <1>4, <1>5 DEF Kept

LEMMA ExpireFacts ==
    ASSUME CallersOK, ledger \in Ledger, NEW h \in Handles, Expire(h)
    PROVE  /\ at' = [at EXCEPT ![h] = at'[h]] /\ at'[h] = "ready"
           /\ last' = [last EXCEPT ![h] = last'[h]]
           /\ last'[h] = Of("timeout", asked[h].serial)
           /\ ledger'.tidy = ledger.tidy \ {h}
<1>1. at \in [Handles -> Stages] /\ last \in [Handles -> Event]
  BY DEF CallersOK
<1>2. QED BY <1>1 DEF Expire, Goes, Ledger

LEMMA AnswerFacts ==
    ASSUME CallersOK, NEW h \in Handles, NEW e, Answer(h, e)
    PROVE  /\ at' = [at EXCEPT ![h] = at'[h]] /\ at'[h] = "ready"
           /\ last' = [last EXCEPT ![h] = last'[h]] /\ last'[h] = e
<1>1. at \in [Handles -> Stages] /\ last \in [Handles -> Event]
  BY DEF CallersOK
<1>2. QED BY <1>1 DEF Answer, Goes

LEMMA ProgressFacts ==
    ASSUME CallersOK, NEW h \in Handles, NEW kind, Progress(h, kind)
    PROVE  /\ at' = [at EXCEPT ![h] = at'[h]] /\ at'[h] = "asking"
           /\ last' = [last EXCEPT ![h] = last'[h]]
           /\ last'[h] = Of(kind, asked[h].serial)
<1>1. at \in [Handles -> Stages] /\ last \in [Handles -> Event]
  BY DEF CallersOK
<1>2. QED BY <1>1 DEF Progress, Goes

LEMMA IssuedTidy ==
    ASSUME ledger \in Ledger, NEW event, ledger' = Issued(ledger, event)
    PROVE  ledger'.tidy = ledger.tidy
BY DEF Issued, Ledger

LEMMA SendKept ==
    ASSUME TypeOK, NEW h \in Handles, Resting(h), Send(h)
    PROVE  Kept(h)
<1> DEFINE d == device[h]
<1>1. CallersOK /\ ledger \in Ledger /\ Caller(h)
  BY CallerOf DEF TypeOK
<1>2. /\ store' = store /\ asked' = asked /\ left' = left
      /\ at[h] = "asking"
  BY DEF Send, core
<1>3. /\ asked' = [asked EXCEPT ![h] = asked'[h]] /\ asked'[h] = asked[h]
      /\ left' = [left EXCEPT ![h] = left'[h]] /\ left'[h] = left[h]
  BY <1>1, <1>2 DEF CallersOK
<1>4. d \in Device /\ d.events \in Seq(Statuses) /\ d.held \in Event /\ d.overshoot \in BOOLEAN
  BY <1>1 DEF Caller, Device
<1>5. /\ asked[h] \in [serial : Nat, command : Questions]
      /\ left[h] \in Nat /\ \E b \in Budgets \cup {0} : left[h] <= b
      /\ last[h] \in Event
      /\ d.overshoot => d.held # NoEvent
  BY <1>1, <1>2 DEF Caller
<1>6. /\ d.held # NoEvent => d.held.kind = "assertion"
      /\ Signed(d.held) /\ Signed(last[h])
      /\ h \in ledger.tidy => Serves(asked[h], d.held) /\ Serves(asked[h], last[h])
  BY DEF Resting
<1>7. CASE Expire(h) /\ UNCHANGED device
  <2>1. Only(h) /\ at'[h] = "ready" /\ last'[h] = Of("timeout", asked[h].serial)
        /\ device'[h] = d /\ h \notin ledger'.tidy
    BY <1>1, <1>2, <1>3, <1>7, ExpireFacts DEF Only, CallersOK
  <2>2. last'[h] \in Event /\ Signed(last'[h])
    BY <1>5, <2>1, Plain DEF Kinds
  <2>3. QED
    BY <1>1, <1>3, <1>4, <1>5, <1>6, <2>1, <2>2, KeptBy DEF Stages, Sections
<1>8. CASE d.events # <<>> /\ NextEvent(h, "keepalive")
  <2>1. /\ device' = [device EXCEPT ![h].events = Tail(@)]
        /\ Progress(h, "keepalive") /\ ledger' = ledger
    BY <1>8 DEF NextEvent
  <2>2. /\ device' = [device EXCEPT ![h] = device'[h]]
        /\ device'[h] = [d EXCEPT !.events = Tail(@)]
    BY <1>1, <2>1 DEF CallersOK
  <2>3. Only(h) /\ at'[h] = "asking" /\ last'[h] = Of("keepalive", asked[h].serial)
    BY <1>1, <1>2, <1>3, <2>1, <2>2, ProgressFacts DEF Only
  <2>4. /\ device'[h] \in Device
        /\ device'[h].held = d.held /\ device'[h].overshoot = d.overshoot
    <3>1. Tail(d.events) \in Seq(Statuses)
      BY <1>4, <1>8
    <3>2. QED BY <1>4, <2>2, <3>1 DEF Device
  <2>5. last'[h] \in Event /\ Signed(last'[h]) /\ Serves(asked[h], last'[h])
    BY <1>5, <2>3, Plain DEF Kinds
  <2>6. QED
    BY <1>1, <1>3, <1>5, <1>6, <2>1, <2>3, <2>4, <2>5, KeptBy DEF Stages, Sections
<1>9. CASE /\ d.overshoot
           /\ device' = [device EXCEPT ![h].overshoot = FALSE]
           /\ Progress(h, "processing")
           /\ UNCHANGED ledger
  <2>2. /\ device' = [device EXCEPT ![h] = device'[h]]
        /\ device'[h] = [d EXCEPT !.overshoot = FALSE]
    BY <1>1, <1>9 DEF CallersOK
  <2>3. Only(h) /\ at'[h] = "asking" /\ last'[h] = Of("processing", asked[h].serial)
    BY <1>1, <1>2, <1>3, <1>9, <2>2, ProgressFacts DEF Only
  <2>4. /\ device'[h] \in Device
        /\ device'[h].held = d.held /\ device'[h].overshoot = FALSE
    BY <1>4, <2>2 DEF Device
  <2>5. last'[h] \in Event /\ Signed(last'[h]) /\ Serves(asked[h], last'[h])
    BY <1>5, <2>3, Plain DEF Kinds
  <2>6. QED
    BY <1>1, <1>3, <1>5, <1>6, <1>9, <2>3, <2>4, <2>5, KeptBy DEF Stages, Sections
<1>10. CASE /\ ~d.overshoot
            /\ device' = [device EXCEPT ![h].held = NoEvent]
            /\ Answer(h, d.held)
            /\ ledger' = Issued(ledger, d.held)
  <2>1. ledger'.tidy = ledger.tidy
    BY <1>1, <1>10, IssuedTidy
  <2>2. /\ device' = [device EXCEPT ![h] = device'[h]]
        /\ device'[h] = [d EXCEPT !.held = NoEvent]
    BY <1>1, <1>10 DEF CallersOK
  <2>3. Only(h) /\ at'[h] = "ready" /\ last'[h] = d.held
    BY <1>1, <1>2, <1>3, <1>10, <2>1, <2>2, AnswerFacts DEF Only
  <2>4. /\ device'[h] \in Device
        /\ device'[h].held = NoEvent /\ device'[h].overshoot = FALSE
    BY <1>4, <1>10, <2>2, NoEventServes DEF Device
  <2>5. Signed(device'[h].held) /\ Serves(asked[h], device'[h].held)
    BY <2>4, NoEventServes
  <2>6. QED
    BY <1>1, <1>3, <1>4, <1>5, <1>6, <2>1, <2>3, <2>4, <2>5, KeptBy DEF Stages, Sections
<1>11. CASE /\ d.held = NoEvent
            /\ ~d.overshoot
            /\ Goes(h, "status") /\ UNCHANGED <<device, last, ledger>>
  <2>1. /\ at' = [at EXCEPT ![h] = at'[h]] /\ at'[h] = "status"
        /\ device' = [device EXCEPT ![h] = device'[h]] /\ device'[h] = d
        /\ last' = [last EXCEPT ![h] = last'[h]] /\ last'[h] = last[h]
    BY <1>1, <1>11 DEF CallersOK, Goes
  <2>2. Only(h)
    BY <1>2, <1>3, <1>11, <2>1 DEF Only
  <2>3. QED
    BY <1>1, <1>3, <1>4, <1>5, <1>6, <1>11, <2>1, <2>2, KeptBy DEF Stages, Sections
<1>12. \/ Expire(h) /\ UNCHANGED device
       \/ d.events # <<>> /\ NextEvent(h, "keepalive")
       \/ /\ d.overshoot
          /\ device' = [device EXCEPT ![h].overshoot = FALSE]
          /\ Progress(h, "processing")
          /\ UNCHANGED ledger
       \/ /\ ~d.overshoot
          /\ device' = [device EXCEPT ![h].held = NoEvent]
          /\ Answer(h, d.held)
          /\ ledger' = Issued(ledger, d.held)
       \/ /\ d.held = NoEvent
          /\ ~d.overshoot
          /\ Goes(h, "status") /\ UNCHANGED <<device, last, ledger>>
  BY DEF Send
<1>13. QED BY <1>7, <1>8, <1>9, <1>10, <1>11, <1>12

LEMMA StatusKept ==
    ASSUME TypeOK, NEW h \in Handles, Resting(h), Status(h)
    PROVE  Kept(h)
<1>1. CallersOK /\ ledger \in Ledger /\ Caller(h)
  BY CallerOf DEF TypeOK
<1>2. /\ store' = store /\ asked' = asked /\ left' = left /\ device' = device
      /\ ledger' = ledger /\ at[h] = "status"
  BY DEF Status
<1>3. /\ asked' = [asked EXCEPT ![h] = asked'[h]] /\ asked'[h] = asked[h]
      /\ left' = [left EXCEPT ![h] = left'[h]] /\ left'[h] = left[h]
      /\ device' = [device EXCEPT ![h] = device'[h]] /\ device'[h] = device[h]
  BY <1>1, <1>2 DEF CallersOK
<1>4. /\ asked[h] \in [serial : Nat, command : Questions]
      /\ left[h] \in Nat /\ \E b \in Budgets \cup {0} : left[h] <= b
      /\ last[h] \in Event
      /\ device[h] \in Device /\ ~device[h].overshoot
  BY <1>1, <1>2 DEF Caller, Resting, Sections
<1>5. /\ device[h].held = NoEvent /\ Signed(NoEvent) /\ Signed(last[h])
      /\ Serves(asked[h], NoEvent)
      /\ h \in ledger.tidy => Serves(asked[h], last[h])
  BY <1>2, NoEventServes DEF Resting, Sections
<1>6. ASSUME NEW kind \in {"status", "info", "pin"},
             kind = "info" => asked[h].command.kind = "GetInfo",
             Answer(h, Of(kind, asked[h].serial))
      PROVE  Kept(h)
  <2>1. Only(h) /\ at'[h] = "ready" /\ last'[h] = Of(kind, asked[h].serial)
    BY <1>1, <1>2, <1>3, <1>6, AnswerFacts DEF Only
  <2>2. last'[h] \in Event /\ Signed(last'[h]) /\ Serves(asked[h], last'[h])
    BY <1>4, <1>6, <2>1, Plain DEF Kinds
  <2>3. QED
    BY <1>1, <1>2, <1>3, <1>4, <1>5, <2>1, <2>2, KeptBy DEF Stages, Sections
<1>7. CASE /\ asked[h].command.kind = "GetAssertion"
           /\ Goes(h, "keepalives")
           /\ last' = last
  <2>1. /\ at' = [at EXCEPT ![h] = at'[h]] /\ at'[h] = "keepalives"
        /\ last' = [last EXCEPT ![h] = last'[h]] /\ last'[h] = last[h]
    BY <1>1, <1>7 DEF CallersOK, Goes
  <2>2. Only(h)
    BY <1>2, <1>3, <2>1 DEF Only
  <2>3. QED
    BY <1>1, <1>2, <1>3, <1>4, <1>5, <1>7, <2>1, <2>2, KeptBy DEF Stages, Sections
<1>8. \/ Answer(h, Of("status", asked[h].serial))
      \/ asked[h].command.kind = "GetInfo" /\ Answer(h, Of("info", asked[h].serial))
      \/ Answer(h, Of("pin", asked[h].serial))
      \/ /\ asked[h].command.kind = "GetAssertion"
         /\ Goes(h, "keepalives")
         /\ last' = last
  BY DEF Status
<1>9. QED BY <1>6, <1>7, <1>8

\* What Charge leaves.
LEMMA ChargeFacts ==
    ASSUME CallersOK, NEW h \in Handles, NEW d, Charge(h, d)
    PROVE  /\ left' = [left EXCEPT ![h] = left'[h]]
           /\ left'[h] \in Nat /\ \E b \in Budgets \cup {0} : left'[h] <= b
<1>1. left \in [Handles -> Nat]
  BY DEF CallersOK
<1>2. left' = [left EXCEPT ![h] = left'[h]]
      /\ left'[h] = IF d \in 0..left[h] THEN left[h] - d ELSE 0
  BY <1>1 DEF Charge, Affords
<1>3. PICK b \in Budgets \cup {0} : left[h] <= b
  BY DEF CallersOK
<1>4. b \in Nat
  BY SoftAssumption
<1>5. CASE d \in 0..left[h]
  <2>1. left'[h] = left[h] - d /\ left[h] \in Nat
    BY <1>1, <1>2, <1>5
  <2>2. left'[h] \in Nat /\ left'[h] <= b
    BY <1>3, <1>4, <1>5, <2>1
  <2>3. QED BY <1>2, <2>2
<1>6. CASE d \notin 0..left[h]
  <2>1. left'[h] = 0
    BY <1>2, <1>6
  <2>2. 0 \in Nat /\ 0 \in Budgets \cup {0} /\ 0 <= 0
    OBVIOUS
  <2>3. QED BY <1>2, <2>1, <2>2
<1>7. QED BY <1>5, <1>6

LEMMA PresenceKept ==
    ASSUME TypeOK, NEW h \in Handles, Resting(h), NEW r \in Requirements,
           NEW next \in {"UV", "delay"}, Presence(h, r, next)
    PROVE  Kept(h)
<1>1. CallersOK /\ ledger \in Ledger /\ Caller(h)
  BY CallerOf DEF TypeOK
<1>2. /\ store' = store /\ asked' = asked /\ device' = device
      /\ at[h] = r /\ r \in {"UP", "UV"}
  BY DEF Presence, Requirements
<1>3. /\ asked' = [asked EXCEPT ![h] = asked'[h]] /\ asked'[h] = asked[h]
      /\ device' = [device EXCEPT ![h] = device'[h]] /\ device'[h] = device[h]
  BY <1>1, <1>2 DEF CallersOK
<1>4. /\ asked[h] \in [serial : Nat, command : Questions]
      /\ left[h] \in Nat /\ \E b \in Budgets \cup {0} : left[h] <= b
      /\ last[h] \in Event
      /\ device[h] \in Device
      /\ asked[h].command.kind = "GetAssertion"
  BY <1>1, <1>2 DEF Caller, Resting, Sections
<1>5. /\ device[h].held = NoEvent /\ Signed(NoEvent) /\ Signed(last[h])
      /\ ~device[h].overshoot
      /\ Serves(asked[h], NoEvent)
      /\ h \in ledger.tidy => Serves(asked[h], last[h])
  BY <1>1, <1>2, NoEventServes DEF Caller, Resting, Sections
<1> DEFINE Paid == left' = [left EXCEPT ![h] = left'[h]] /\ left'[h] \in Nat
                   /\ \E b \in Budgets \cup {0} : left'[h] <= b
<1>6. UNCHANGED left => Paid
  BY <1>1, <1>4 DEF CallersOK
<1>7. Charge(h, 1) => Paid
  BY <1>1, ChargeFacts
<1> HIDE DEF Paid
<1>8. CASE /\ Paid /\ Goes(h, next) /\ last' = last
           /\ \/ ledger' = ledger
              \/ ledger' = [ledger EXCEPT !.paid[r] = @ + 1]
  <2>1. /\ at' = [at EXCEPT ![h] = at'[h]] /\ at'[h] = next
        /\ last' = [last EXCEPT ![h] = last'[h]] /\ last'[h] = last[h]
    BY <1>1, <1>8 DEF CallersOK, Goes
  <2>2. ledger'.tidy = ledger.tidy
    BY <1>1, <1>8 DEF Ledger
  <2>3. Only(h)
    BY <1>2, <1>3, <1>8, <2>1, <2>2 DEF Only, Paid
  <2>4. QED
    BY <1>1, <1>3, <1>4, <1>5, <1>8, <2>1, <2>2, <2>3, KeptBy DEF Stages, Sections, Paid
<1>9. CASE /\ Paid /\ ledger' = ledger
           /\ \/ Answer(h, Of("denied", asked[h].serial))
              \/ Progress(h, "pending")
  <2>1. PICK kind \in {"denied", "pending"} :
           last'[h] = Of(kind, asked[h].serial) /\ Only(h) /\ at'[h] \in {"ready", "asking"}
    BY <1>1, <1>2, <1>3, <1>9, AnswerFacts, ProgressFacts DEF Only, Paid
  <2>2. last'[h] \in Event /\ Signed(last'[h]) /\ Serves(asked[h], last'[h])
    BY <1>4, <2>1, Plain DEF Kinds
  <2>3. QED
    BY <1>1, <1>3, <1>4, <1>5, <1>9, <2>1, <2>2, KeptBy DEF Stages, Sections, Paid
<1>10. CASE Paid /\ Expire(h)
  <2>1. Only(h) /\ at'[h] = "ready" /\ last'[h] = Of("timeout", asked[h].serial)
        /\ h \notin ledger'.tidy
    BY <1>1, <1>2, <1>3, <1>10, ExpireFacts DEF Only, Paid
  <2>2. last'[h] \in Event /\ Signed(last'[h])
    BY <1>4, <2>1, Plain DEF Kinds
  <2>3. QED
    BY <1>1, <1>3, <1>4, <1>5, <1>10, <2>1, <2>2, KeptBy DEF Stages, Sections, Paid
<1>11. \/ UNCHANGED left /\ Goes(h, next) /\ last' = last /\ ledger' = ledger
       \/ UNCHANGED left /\ ledger' = ledger /\ Answer(h, Of("denied", asked[h].serial))
       \/ /\ UNCHANGED left /\ Goes(h, next) /\ last' = last
          /\ ledger' = [ledger EXCEPT !.paid[r] = @ + 1]
       \/ Charge(h, 1) /\ Progress(h, "pending") /\ ledger' = ledger
       \/ Charge(h, 1) /\ Expire(h)
  BY DEF Presence
<1>12. QED BY <1>6, <1>7, <1>8, <1>9, <1>10, <1>11

LEMMA DelayKept ==
    ASSUME TypeOK, NEW h \in Handles, Resting(h), Delay(h)
    PROVE  Kept(h)
<1>1. CallersOK /\ ledger \in Ledger /\ Caller(h) /\ knobs \in Knobs
  BY CallerOf DEF TypeOK, AuthenticatorOK
<1>2. /\ store' = store /\ asked' = asked /\ last' = last /\ ledger' = ledger
      /\ at[h] = "delay" /\ Goes(h, "assert")
      /\ device' = [device EXCEPT ![h].overshoot = knobs.delay # None]
      /\ UNCHANGED left \/ Charge(h, knobs.delay)
  BY DEF Delay
<1>3. /\ asked' = [asked EXCEPT ![h] = asked'[h]] /\ asked'[h] = asked[h]
      /\ last' = [last EXCEPT ![h] = last'[h]] /\ last'[h] = last[h]
      /\ at' = [at EXCEPT ![h] = at'[h]] /\ at'[h] = "assert"
  BY <1>1, <1>2 DEF CallersOK, Goes
<1>4. /\ asked[h] \in [serial : Nat, command : Questions]
      /\ left[h] \in Nat /\ \E b \in Budgets \cup {0} : left[h] <= b
      /\ last[h] \in Event
      /\ device[h] \in Device
      /\ asked[h].command.kind = "GetAssertion"
      /\ device[h].held = NoEvent /\ Signed(NoEvent) /\ Signed(last[h])
      /\ Serves(asked[h], NoEvent)
      /\ h \in ledger.tidy => Serves(asked[h], last[h])
  BY <1>1, <1>2, NoEventServes DEF Caller, Resting, Sections
<1>5. /\ device' = [device EXCEPT ![h] = device'[h]]
      /\ device'[h] = [device[h] EXCEPT !.overshoot = knobs.delay # None]
  BY <1>1, <1>2 DEF CallersOK
<1>6. device'[h] \in Device /\ device'[h].held = NoEvent
  <2>1. (knobs.delay # None) \in BOOLEAN
    OBVIOUS
  <2>2. QED BY <1>4, <1>5, <2>1 DEF Device
<1>7. /\ left' = [left EXCEPT ![h] = left'[h]] /\ left'[h] \in Nat
      /\ \E b \in Budgets \cup {0} : left'[h] <= b
  <2>1. CASE UNCHANGED left
    BY <1>1, <1>4, <2>1 DEF CallersOK
  <2>2. CASE Charge(h, knobs.delay)
    BY <1>1, <2>2, ChargeFacts
  <2>3. QED BY <1>2, <2>1, <2>2
<1>8. Only(h)
  BY <1>2, <1>3, <1>5, <1>7 DEF Only
<1>9. QED
  BY <1>1, <1>2, <1>3, <1>4, <1>6, <1>7, <1>8, KeptBy DEF Stages, Sections

Keepalive == [status : Statuses, spacing : Nat]

LEMMA StatusesOf ==
    ASSUME NEW sequence \in Seq(Keepalive), NEW n \in 0..Len(sequence)
    PROVE  [i \in 1..n |-> sequence[i].status] \in Seq(Statuses)
<1>1. n \in Nat /\ \A i \in 1..n : sequence[i] \in Keepalive
  OBVIOUS
<1>2. \A k \in Keepalive : k.status \in Statuses
  BY DEF Keepalive
<1>3. \A i \in 1..n : sequence[i].status \in Statuses
  BY <1>1, <1>2
<1>4. QED BY <1>1, <1>3

\* How many keepalives are staged, and what the queue of events becomes.
LEMMA StagedEvents ==
    ASSUME knobs \in Knobs, NEW h \in Handles, device[h] \in Device,
           NEW n, n = CHOOSE x \in {0} \cup {k \in 1..Len(knobs.keepalives) :
                                      Affords(h, Spacings(knobs.keepalives, k))} :
                        \A m \in {0} \cup {k \in 1..Len(knobs.keepalives) :
                                      Affords(h, Spacings(knobs.keepalives, k))} : m <= x
    PROVE  /\ n \in 0..Len(knobs.keepalives)
           /\ device[h].events \o [i \in 1..n |-> knobs.keepalives[i].status]
                 \in Seq(Statuses)
<1> DEFINE sequence == knobs.keepalives
           afforded == {0} \cup {k \in 1..Len(sequence) : Affords(h, Spacings(sequence, k))}
<1>1. sequence \in Seq([status : Statuses, spacing : Nat]) /\ Len(sequence) \in Nat
  BY DEF Knobs
<1>2. afforded \in SUBSET (0..Len(sequence)) /\ afforded # {}
  BY <1>1
<1>3. \E k \in afforded : \A m \in afforded : m <= k
  <2> HIDE DEF afforded
  <2> QED BY <1>1, <1>2, GreatestNatural
<1>4. n \in afforded
  BY <1>3
<1>5. n \in 0..Len(sequence)
  BY <1>2, <1>4
<1>6. [i \in 1..n |-> sequence[i].status] \in Seq(Statuses)
  <2> HIDE DEF sequence
  <2>1. QED BY <1>1, <1>5, StatusesOf DEF Keepalive
<1>7. device[h].events \in Seq(Statuses)
  BY DEF Device
<1>8. QED BY <1>5, <1>6, <1>7

LEMMA KeepalivesKept ==
    ASSUME TypeOK, NEW h \in Handles, Resting(h), Keepalives(h)
    PROVE  Kept(h)
<1> DEFINE d == device[h]
<1>1. CallersOK /\ ledger \in Ledger /\ Caller(h) /\ knobs \in Knobs
  BY CallerOf DEF TypeOK, AuthenticatorOK
<1>2. /\ store' = store /\ asked' = asked /\ at[h] = "keepalives"
  BY DEF Keepalives
<1>3. asked' = [asked EXCEPT ![h] = asked'[h]] /\ asked'[h] = asked[h]
  BY <1>1, <1>2 DEF CallersOK
<1>4. /\ asked[h] \in [serial : Nat, command : Questions]
      /\ left[h] \in Nat /\ \E b \in Budgets \cup {0} : left[h] <= b
      /\ last[h] \in Event
      /\ d \in Device /\ ~d.overshoot
      /\ asked[h].command.kind = "GetAssertion"
      /\ d.held = NoEvent /\ Signed(NoEvent) /\ Signed(last[h])
      /\ Serves(asked[h], NoEvent)
      /\ h \in ledger.tidy => Serves(asked[h], last[h])
  BY <1>1, <1>2, NoEventServes DEF Caller, Resting, Sections
<1>5. PICK n, events :
         /\ n = CHOOSE x \in {0} \cup {k \in 1..Len(knobs.keepalives) :
                                      Affords(h, Spacings(knobs.keepalives, k))} :
                        \A m \in {0} \cup {k \in 1..Len(knobs.keepalives) :
                                      Affords(h, Spacings(knobs.keepalives, k))} : m <= x
         /\ events = d.events \o [i \in 1..n |-> knobs.keepalives[i].status]
         /\ \/ /\ left' = [left EXCEPT ![h] = 0]
               /\ device' = [device EXCEPT ![h].events = events]
               /\ Expire(h)
            \/ /\ Charge(h, Spacings(knobs.keepalives, n))
               /\ ledger' = ledger
               /\ Goes(h, "UP") /\ UNCHANGED <<device, last>>
            \/ /\ Charge(h, Spacings(knobs.keepalives, n))
               /\ ledger' = ledger
               /\ events # <<>>
               /\ device' = [device EXCEPT ![h].events = Tail(events)]
               /\ Progress(h, "keepalive")
  BY DEF Keepalives
<1>6. events \in Seq(Statuses)
  BY <1>1, <1>4, <1>5, StagedEvents
<1>7. ASSUME NEW staged \in Seq(Statuses), device' = [device EXCEPT ![h].events = staged]
      PROVE  /\ device' = [device EXCEPT ![h] = device'[h]]
             /\ device'[h] \in Device /\ device'[h].held = NoEvent /\ ~device'[h].overshoot
  <2>1. /\ device' = [device EXCEPT ![h] = device'[h]]
        /\ device'[h] = [d EXCEPT !.events = staged]
    BY <1>1, <1>7 DEF CallersOK
  <2>2. QED BY <1>4, <2>1 DEF Device
<1>8. CASE /\ left' = [left EXCEPT ![h] = 0]
           /\ device' = [device EXCEPT ![h].events = events]
           /\ Expire(h)
  <2>1. left' = [left EXCEPT ![h] = left'[h]] /\ left'[h] = 0
    BY <1>1, <1>8 DEF CallersOK
  <2>2. left'[h] \in Nat /\ \E b \in Budgets \cup {0} : left'[h] <= b
    BY <2>1
  <2>3. Only(h) /\ at'[h] = "ready" /\ last'[h] = Of("timeout", asked[h].serial)
        /\ h \notin ledger'.tidy
    BY <1>1, <1>2, <1>3, <1>6, <1>7, <1>8, <2>1, ExpireFacts DEF Only
  <2>4. last'[h] \in Event /\ Signed(last'[h])
    BY <1>4, <2>3, Plain DEF Kinds
  <2>5. QED
    BY <1>1, <1>3, <1>4, <1>6, <1>7, <1>8, <2>2, <2>3, <2>4, KeptBy DEF Stages, Sections
<1> DEFINE cost == Spacings(knobs.keepalives, n)
<1>9. CASE /\ Charge(h, cost)
           /\ ledger' = ledger
           /\ Goes(h, "UP") /\ UNCHANGED <<device, last>>
  <2>1. /\ at' = [at EXCEPT ![h] = at'[h]] /\ at'[h] = "UP"
        /\ last' = [last EXCEPT ![h] = last'[h]] /\ last'[h] = last[h]
        /\ device' = [device EXCEPT ![h] = device'[h]] /\ device'[h] = d
    BY <1>1, <1>9 DEF CallersOK, Goes
  <2>2. /\ left' = [left EXCEPT ![h] = left'[h]]
        /\ left'[h] \in Nat /\ \E b \in Budgets \cup {0} : left'[h] <= b
    <3> HIDE DEF cost
    <3> QED BY <1>1, <1>9, ChargeFacts
  <2>3. Only(h)
    BY <1>2, <1>3, <1>9, <2>1, <2>2 DEF Only
  <2>4. QED
    BY <1>1, <1>3, <1>4, <1>9, <2>1, <2>2, <2>3, KeptBy DEF Stages, Sections
<1>10. CASE /\ Charge(h, cost)
            /\ ledger' = ledger
            /\ events # <<>>
            /\ device' = [device EXCEPT ![h].events = Tail(events)]
            /\ Progress(h, "keepalive")
  <2>1. /\ left' = [left EXCEPT ![h] = left'[h]]
        /\ left'[h] \in Nat /\ \E b \in Budgets \cup {0} : left'[h] <= b
    <3> HIDE DEF cost
    <3> QED BY <1>1, <1>10, ChargeFacts
  <2>2. Tail(events) \in Seq(Statuses)
    BY <1>6, <1>10
  <2>3. Only(h) /\ at'[h] = "asking" /\ last'[h] = Of("keepalive", asked[h].serial)
    BY <1>1, <1>2, <1>3, <1>7, <1>10, <2>1, <2>2, ProgressFacts DEF Only
  <2>4. last'[h] \in Event /\ Signed(last'[h]) /\ Serves(asked[h], last'[h])
    BY <1>4, <2>3, Plain DEF Kinds
  <2>5. QED
    BY <1>1, <1>3, <1>4, <1>7, <1>10, <2>1, <2>2, <2>3, <2>4, KeptBy DEF Stages, Sections
<1>11. QED BY <1>5, <1>8, <1>9, <1>10

-----------------------------------------------------------------------------
(* Selection.                                                              *)

\* The indices a command asks for.
Hits(records, command) == {i \in DOMAIN records : Wanted(records[i], command)}

LEMMA MatchingIsHits ==
    ASSUME NEW records, NEW command
    PROVE  Matching(records, command) = Ascending(Hits(records, command))
BY DEF Matching, Hits, Wanted

\* Everything selected is stored and asked for.
LEMMA Matches ==
    ASSUME NEW records \in Seq(Record), NEW command
    PROVE  /\ Matching(records, command) \in Seq(DOMAIN records)
           /\ Len(Matching(records, command)) \in Nat
           /\ \A n \in 1..Len(Matching(records, command)) :
                 /\ Matching(records, command)[n] \in DOMAIN records
                 /\ Wanted(records[Matching(records, command)[n]], command)
<1> DEFINE hits == Hits(records, command)
<1>1. DOMAIN records = 1..Len(records) /\ Len(records) \in Nat
  OBVIOUS
<1>2. hits \in SUBSET (1..Len(records))
  BY <1>1 DEF Hits
<1>3. \A i \in hits : i \in DOMAIN records /\ Wanted(records[i], command)
  BY DEF Hits
<1> HIDE DEF hits
<1>4. /\ Ascending(hits) \in Seq(hits)
      /\ \A n \in 1..Len(Ascending(hits)) : Ascending(hits)[n] \in hits
  BY <1>1, <1>2, AscendingSeq
<1>5. Matching(records, command) = Ascending(hits)
  BY MatchingIsHits DEF hits
<1>6. hits \subseteq DOMAIN records
  BY <1>3
<1>7. Ascending(hits) \in Seq(DOMAIN records)
  BY <1>4, <1>6
<1>8. QED BY <1>3, <1>4, <1>5, <1>7

\* More credentials, put after the others, are selected after the others.
LEMMA MatchesGrow ==
    ASSUME NEW records \in Seq(Record), NEW more \in Seq(Record), NEW command,
           Len(records) <= Len(more),
           \A i \in 1..Len(records) : more[i] = records[i]
    PROVE  /\ Len(Matching(records, command)) <= Len(Matching(more, command))
           /\ \A n \in 1..Len(Matching(records, command)) :
                 Matching(more, command)[n] = Matching(records, command)[n]
<1> DEFINE S == Hits(records, command)
           T == Hits(more, command)
<1>1. /\ DOMAIN records = 1..Len(records) /\ Len(records) \in Nat
      /\ DOMAIN more = 1..Len(more) /\ Len(more) \in Nat
  OBVIOUS
<1>2. T \in SUBSET (1..Len(more)) /\ S \in SUBSET (1..Len(records))
  BY <1>1 DEF Hits
<1>3. S \in SUBSET T
  BY <1>1 DEF Hits
<1>4. \A t \in T \ S : \A s \in S : s < t
  <2> SUFFICES ASSUME NEW t \in T, t \notin S, NEW s \in S PROVE s < t
    OBVIOUS
  <2>1. t \notin 1..Len(records)
    BY <1>1 DEF Hits
  <2> HIDE DEF S, T
  <2>2. t \in 1..Len(more) /\ s \in 1..Len(records)
    BY <1>2
  <2>3. QED BY <1>1, <2>1, <2>2
<1>5. Matching(records, command) = Ascending(S) /\ Matching(more, command) = Ascending(T)
  BY MatchingIsHits
<1> HIDE DEF S, T
<1>6. Len(Ascending(S)) = Cardinality(S) /\ Len(Ascending(T)) = Cardinality(T)
  BY <1>1, <1>2, AscendingSeq
<1>7. /\ Cardinality(S) <= Cardinality(T)
      /\ \A n \in 1..Cardinality(S) : Ascending(T)[n] = Ascending(S)[n]
  BY <1>1, <1>2, <1>3, <1>4, AscendingPrefix
<1>8. QED BY <1>5, <1>6, <1>7

LEMMA EchoedIsStored ==
    ASSUME store \in Seq(Record), NEW signer \in DOMAIN store, NEW wrong
    PROVE  Echoed(signer, wrong) \in DOMAIN store
<1> DEFINE others == {i \in DOMAIN store : store[i].id # store[signer].id}
<1>1. others \in SUBSET Nat
  OBVIOUS
<1>2. CASE wrong /\ others # {}
  <2>1. \E i \in others : \A j \in others : i <= j
    <3> HIDE DEF others
    <3> QED BY <1>1, <1>2, LeastNatural
  <2>2. Echoed(signer, wrong) \in others
    BY <1>2, <2>1 DEF Echoed
  <2>3. QED BY <2>2
<1>3. CASE ~(wrong /\ others # {})
  BY <1>3 DEF Echoed
<1>4. QED BY <1>2, <1>3

-----------------------------------------------------------------------------
(* The steps of one caller that select and sign, and those of its life.    *)

LEMMA ConnectKept ==
    ASSUME TypeOK, NEW h \in Handles, Resting(h), Connect(h)
    PROVE  Kept(h)
<1>1. CallersOK /\ ledger \in Ledger /\ Caller(h)
  BY CallerOf DEF TypeOK
<1>2. /\ store' = store /\ asked' = asked /\ left' = left
      /\ at' = [at EXCEPT ![h] = "ready"]
      /\ device' = [device EXCEPT ![h] = NewDevice]
      /\ last' = [last EXCEPT ![h] = NoEvent]
      /\ ledger' = [ledger EXCEPT !.tidy = @ \cup {h}]
  BY DEF Connect, core, Goes
<1>3. /\ asked' = [asked EXCEPT ![h] = asked'[h]] /\ asked'[h] = asked[h]
      /\ left' = [left EXCEPT ![h] = left'[h]] /\ left'[h] = left[h]
      /\ at' = [at EXCEPT ![h] = at'[h]] /\ at'[h] = "ready"
      /\ device' = [device EXCEPT ![h] = device'[h]] /\ device'[h] = NewDevice
      /\ last' = [last EXCEPT ![h] = last'[h]] /\ last'[h] = NoEvent
  BY <1>1, <1>2 DEF CallersOK
<1>4. \A c \in Handles \ {h} : c \in ledger'.tidy <=> c \in ledger.tidy
  BY <1>1, <1>2 DEF Ledger
<1>5. Only(h)
  BY <1>2, <1>3, <1>4 DEF Only
<1>6. /\ NewDevice \in Device /\ NewDevice.held = NoEvent /\ ~NewDevice.overshoot
  <2>1. <<>> \in Seq(Statuses) /\ NoEvent \in Event
    BY NoEventServes
  <2>2. QED BY <2>1 DEF NewDevice, Device
<1>7. QED
  BY <1>1, <1>3, <1>5, <1>6, NoEventServes, KeptBy DEF Stages, Sections, Caller

LEMMA CloseKept ==
    ASSUME TypeOK, NEW h \in Handles, Resting(h), Close(h)
    PROVE  Kept(h)
<1>1. CallersOK /\ ledger \in Ledger /\ Caller(h)
  BY CallerOf DEF TypeOK
<1>2. /\ store' = store /\ asked' = asked /\ left' = left
      /\ at' = [at EXCEPT ![h] = "away"]
      /\ device' = [device EXCEPT ![h] = NewDevice]
      /\ last' = [last EXCEPT ![h] = NoEvent]
      /\ ledger' = [ledger EXCEPT !.issued = IF device[h].held = NoEvent THEN @ ELSE @ + 1]
  BY DEF Close, core, Goes
<1>3. /\ asked' = [asked EXCEPT ![h] = asked'[h]] /\ asked'[h] = asked[h]
      /\ left' = [left EXCEPT ![h] = left'[h]] /\ left'[h] = left[h]
      /\ at' = [at EXCEPT ![h] = at'[h]] /\ at'[h] = "away"
      /\ device' = [device EXCEPT ![h] = device'[h]] /\ device'[h] = NewDevice
      /\ last' = [last EXCEPT ![h] = last'[h]] /\ last'[h] = NoEvent
  BY <1>1, <1>2 DEF CallersOK
<1>4. ledger'.tidy = ledger.tidy
  BY <1>1, <1>2 DEF Ledger
<1>5. Only(h)
  BY <1>2, <1>3, <1>4 DEF Only
<1>6. /\ NewDevice \in Device /\ NewDevice.held = NoEvent /\ ~NewDevice.overshoot
  <2>1. <<>> \in Seq(Statuses) /\ NoEvent \in Event
    BY NoEventServes
  <2>2. QED BY <2>1 DEF NewDevice, Device
<1>7. QED
  BY <1>1, <1>3, <1>5, <1>6, NoEventServes, KeptBy DEF Stages, Sections, Caller

LEMMA BeginKept ==
    ASSUME TypeOK, NEW h \in Handles, Resting(h), NEW command \in Commands,
           NEW budget \in Budgets, Begin(h, command, budget)
    PROVE  Kept(h)
<1>1. CallersOK /\ ledger \in Ledger /\ Caller(h)
  BY CallerOf DEF TypeOK
<1>2. /\ store' = store /\ device' = device /\ ledger' = ledger
      /\ at[h] = "ready" /\ at' = [at EXCEPT ![h] = "asking"]
      /\ asked' = [asked EXCEPT ![h] = [serial |-> @.serial + 1, command |-> command]]
      /\ left' = [left EXCEPT ![h] = budget]
      /\ last' = [last EXCEPT ![h] = NoEvent]
  BY DEF Begin, core, Goes
<1>3. /\ asked' = [asked EXCEPT ![h] = asked'[h]]
      /\ asked'[h] = [serial |-> asked[h].serial + 1, command |-> command]
      /\ left' = [left EXCEPT ![h] = left'[h]] /\ left'[h] = budget
      /\ at' = [at EXCEPT ![h] = at'[h]] /\ at'[h] = "asking"
      /\ device' = [device EXCEPT ![h] = device'[h]] /\ device'[h] = device[h]
      /\ last' = [last EXCEPT ![h] = last'[h]] /\ last'[h] = NoEvent
  BY <1>1, <1>2 DEF CallersOK
<1>4. Only(h)
  BY <1>2, <1>3 DEF Only
<1>5. asked'[h] \in [serial : Nat, command : Questions]
  BY <1>1, <1>3 DEF Caller, Questions
<1>6. left'[h] \in Nat /\ \E b \in Budgets \cup {0} : left'[h] <= b
  BY <1>3, SoftAssumption
<1>7. /\ device[h] \in Device
      /\ device[h].overshoot => device[h].held # NoEvent
      /\ device[h].held # NoEvent => device[h].held.kind = "assertion"
      /\ Signed(device[h].held)
      /\ h \in ledger.tidy => device[h].held = NoEvent
  BY <1>1, <1>2 DEF Caller, Resting
<1>8. QED
  BY <1>1, <1>2, <1>3, <1>4, <1>5, <1>6, <1>7, NoEventServes, KeptBy
  DEF Stages, Sections

LEMMA GiveUpKept ==
    ASSUME TypeOK, NEW h \in Handles, Resting(h), GiveUp(h)
    PROVE  Kept(h)
<1>1. CallersOK /\ ledger \in Ledger /\ Caller(h)
  BY CallerOf DEF TypeOK
<1>2. /\ store' = store /\ device' = device /\ asked' = asked /\ left' = left
      /\ at[h] = "asking" /\ at' = [at EXCEPT ![h] = "ready"]
      /\ last' = [last EXCEPT ![h] = NoEvent]
      /\ ledger' = [ledger EXCEPT !.tidy = @ \ {h}]
  BY DEF GiveUp, core, Goes
<1>3. /\ asked' = [asked EXCEPT ![h] = asked'[h]] /\ asked'[h] = asked[h]
      /\ left' = [left EXCEPT ![h] = left'[h]] /\ left'[h] = left[h]
      /\ at' = [at EXCEPT ![h] = at'[h]] /\ at'[h] = "ready"
      /\ device' = [device EXCEPT ![h] = device'[h]] /\ device'[h] = device[h]
      /\ last' = [last EXCEPT ![h] = last'[h]] /\ last'[h] = NoEvent
  BY <1>1, <1>2 DEF CallersOK
<1>4. ledger'.tidy = ledger.tidy \ {h}
  BY <1>1, <1>2 DEF Ledger
<1>5. Only(h)
  BY <1>2, <1>3, <1>4 DEF Only
<1>6. /\ device[h].overshoot => device[h].held # NoEvent
      /\ device[h].held # NoEvent => device[h].held.kind = "assertion"
      /\ Signed(device[h].held)
  BY <1>1, <1>2 DEF Caller, Resting
<1>7. QED
  BY <1>1, <1>3, <1>4, <1>5, <1>6, NoEventServes, KeptBy DEF Stages, Sections, Caller

\* The answer of a command that selects something.
LEMMA SignedAnswer ==
    ASSUME store \in Seq(Record), NEW question \in [serial : Nat, command : Questions],
           question.command.kind = "GetAssertion", NEW wrong,
           NEW matching, matching = Matching(store, question.command),
           Len(matching) # 0, NEW answer,
           answer = [kind |-> "assertion", ask |-> question.serial,
                     signer |-> matching[1], echoed |-> Echoed(matching[1], wrong),
                     number |-> IF Len(matching) > 1 THEN Len(matching) ELSE 0]
    PROVE  /\ answer \in Event /\ answer.kind = "assertion" /\ answer # NoEvent
           /\ Signed(answer) /\ Serves(question, answer)
<1>1. /\ Len(matching) \in Nat
      /\ matching[1] \in DOMAIN store
      /\ Wanted(store[matching[1]], question.command)
  <2>1. /\ Len(matching) \in Nat
        /\ \A n \in 1..Len(matching) :
              matching[n] \in DOMAIN store /\ Wanted(store[matching[n]], question.command)
    BY Matches
  <2>2. 1 \in 1..Len(matching)
    BY <2>1
  <2>3. QED BY <2>1, <2>2
<1>2. Echoed(matching[1], wrong) \in DOMAIN store
  BY <1>1, EchoedIsStored
<1>3. (IF Len(matching) > 1 THEN Len(matching) ELSE 0) \in Nat
  BY <1>1
<1>4. matching[1] # 0
  BY <1>1
<1>5. answer \in Event
  BY <1>1, <1>2, <1>3 DEF Event, Kinds
<1>6. /\ answer.kind = "assertion" /\ answer.ask = question.serial
      /\ answer.signer = matching[1]
  OBVIOUS
<1>7. answer # NoEvent
  BY <1>6 DEF NoEvent
<1>8. QED BY <1>1, <1>4, <1>5, <1>6, <1>7 DEF Signed, Serves

LEMMA GetAssertionKept ==
    ASSUME TypeOK, NEW h \in Handles, Resting(h), GetAssertion(h)
    PROVE  Kept(h)
<1>1. CallersOK /\ ledger \in Ledger /\ Caller(h) /\ store \in Seq(Record)
  BY CallerOf DEF TypeOK, AuthenticatorOK
<1>2. /\ store' = store /\ asked' = asked /\ left' = left
      /\ at[h] = "assert"
  BY DEF GetAssertion
<1>3. /\ asked' = [asked EXCEPT ![h] = asked'[h]] /\ asked'[h] = asked[h]
      /\ left' = [left EXCEPT ![h] = left'[h]] /\ left'[h] = left[h]
  BY <1>1, <1>2 DEF CallersOK
<1>4. /\ asked[h] \in [serial : Nat, command : Questions]
      /\ left[h] \in Nat /\ \E b \in Budgets \cup {0} : left[h] <= b
      /\ last[h] \in Event
      /\ device[h] \in Device
      /\ asked[h].command.kind = "GetAssertion"
      /\ device[h].held = NoEvent /\ Signed(NoEvent) /\ Signed(last[h])
      /\ Serves(asked[h], NoEvent)
  BY <1>1, <1>2, NoEventServes DEF Caller, Resting, Sections
<1> DEFINE matching == Matching(store, asked[h].command)
           answer == [kind |-> "assertion", ask |-> asked[h].serial,
                      signer |-> matching[1],
                      echoed |-> Echoed(matching[1], knobs.wrongId),
                      number |-> IF Len(matching) > 1 THEN Len(matching) ELSE 0]
<1>5. \/ /\ Answer(h, Of("noCredentials", asked[h].serial))
         /\ device' = [device EXCEPT ![h].overshoot = FALSE]
         /\ ledger' = ledger
      \/ /\ Len(matching) # 0 /\ device[h].overshoot
         /\ device' = [device EXCEPT ![h].held = answer]
         /\ Progress(h, "processing")
         /\ ledger' = ledger
      \/ /\ Len(matching) # 0 /\ ~device[h].overshoot
         /\ Answer(h, answer)
         /\ ledger' = Issued(ledger, answer)
         /\ device' = device
  BY DEF GetAssertion
<1>6. Len(matching) # 0 =>
         /\ answer \in Event /\ answer.kind = "assertion" /\ answer # NoEvent
         /\ Signed(answer) /\ Serves(asked[h], answer)
  BY <1>1, <1>4, SignedAnswer
<1> HIDE DEF answer, matching
<1>7. CASE /\ Answer(h, Of("noCredentials", asked[h].serial))
           /\ device' = [device EXCEPT ![h].overshoot = FALSE]
           /\ ledger' = ledger
  <2>1. /\ device' = [device EXCEPT ![h] = device'[h]]
        /\ device'[h] = [device[h] EXCEPT !.overshoot = FALSE]
    BY <1>1, <1>7 DEF CallersOK
  <2>2. Only(h) /\ at'[h] = "ready" /\ last'[h] = Of("noCredentials", asked[h].serial)
    BY <1>1, <1>2, <1>3, <1>7, <2>1, AnswerFacts DEF Only
  <2>3. device'[h] \in Device /\ device'[h].held = NoEvent /\ ~device'[h].overshoot
    BY <1>4, <2>1 DEF Device
  <2>4. last'[h] \in Event /\ Signed(last'[h]) /\ Serves(asked[h], last'[h])
    BY <1>4, <2>2, Plain DEF Kinds
  <2>5. QED
    BY <1>1, <1>3, <1>4, <1>7, <2>2, <2>3, <2>4, KeptBy DEF Stages, Sections
<1>8. CASE /\ Len(matching) # 0 /\ device[h].overshoot
           /\ device' = [device EXCEPT ![h].held = answer]
           /\ Progress(h, "processing")
           /\ ledger' = ledger
  <2>1. /\ device' = [device EXCEPT ![h] = device'[h]]
        /\ device'[h] = [device[h] EXCEPT !.held = answer]
    BY <1>1, <1>8 DEF CallersOK
  <2>2. Only(h) /\ at'[h] = "asking" /\ last'[h] = Of("processing", asked[h].serial)
    BY <1>1, <1>2, <1>3, <1>8, <2>1, ProgressFacts DEF Only
  <2>3. device'[h] \in Device /\ device'[h].held = answer
    BY <1>4, <1>6, <1>8, <2>1 DEF Device
  <2>4. last'[h] \in Event /\ Signed(last'[h]) /\ Serves(asked[h], last'[h])
    BY <1>4, <2>2, Plain DEF Kinds
  <2>5. QED
    BY <1>1, <1>3, <1>4, <1>6, <1>8, <2>2, <2>3, <2>4, KeptBy DEF Stages, Sections
<1>9. CASE /\ Len(matching) # 0 /\ ~device[h].overshoot
           /\ Answer(h, answer)
           /\ ledger' = Issued(ledger, answer)
           /\ device' = device
  <2>1. /\ device' = [device EXCEPT ![h] = device'[h]] /\ device'[h] = device[h]
        /\ ledger'.tidy = ledger.tidy
    BY <1>1, <1>9, IssuedTidy DEF CallersOK
  <2>2. Only(h) /\ at'[h] = "ready" /\ last'[h] = answer
    BY <1>1, <1>2, <1>3, <1>9, <2>1, AnswerFacts DEF Only
  <2>3. QED
    BY <1>1, <1>3, <1>4, <1>6, <1>9, <2>1, <2>2, KeptBy DEF Stages, Sections
<1>10. QED BY <1>5, <1>7, <1>8, <1>9

LEMMA GetNextAssertionKept ==
    ASSUME TypeOK, NEW h \in Handles, Resting(h), GetNextAssertion(h)
    PROVE  Kept(h)
<1>1. CallersOK /\ ledger \in Ledger /\ Caller(h) /\ queue \in Seq(DOMAIN store)
      /\ store \in Seq(Record)
  BY CallerOf DEF TypeOK, AuthenticatorOK
<1>2. /\ store' = store /\ asked' = asked /\ left' = left /\ device' = device
      /\ at[h] = "ready"
  BY DEF GetNextAssertion
<1>3. /\ asked' = [asked EXCEPT ![h] = asked'[h]] /\ asked'[h] = asked[h]
      /\ left' = [left EXCEPT ![h] = left'[h]] /\ left'[h] = left[h]
      /\ device' = [device EXCEPT ![h] = device'[h]] /\ device'[h] = device[h]
  BY <1>1, <1>2 DEF CallersOK
<1>4. /\ asked[h] \in [serial : Nat, command : Questions]
      /\ left[h] \in Nat /\ \E b \in Budgets \cup {0} : left[h] <= b
      /\ device[h] \in Device
      /\ device[h].overshoot => device[h].held # NoEvent
      /\ device[h].held # NoEvent => device[h].held.kind = "assertion"
      /\ Signed(device[h].held)
      /\ h \in ledger.tidy => device[h].held = NoEvent
  BY <1>1, <1>2 DEF Caller, Resting
<1>5. PICK e : /\ Answer(h, e) /\ ledger'.tidy = ledger.tidy
               /\ e \in Event /\ Signed(e) /\ Serves(asked[h], e)
  <2>1. CASE queue = <<>>
    <3>1. Answer(h, Of("notAllowed", asked[h].serial)) /\ ledger' = ledger
      BY <2>1 DEF GetNextAssertion
    <3>2. QED BY <1>4, <3>1, Plain DEF Kinds
  <2>2. CASE queue # <<>>
    <3> DEFINE answer == [kind |-> "next", ask |-> asked[h].serial,
                          signer |-> Head(queue), echoed |-> Head(queue), number |-> 0]
    <3>1. Answer(h, answer) /\ ledger' = Issued(ledger, answer)
      BY <2>2 DEF GetNextAssertion
    <3>2. Head(queue) \in DOMAIN store /\ Head(queue) # 0
      BY <1>1, <2>2
    <3>3. answer \in Event
      BY <1>4, <3>2 DEF Event, Kinds
    <3>4. answer.kind = "next" /\ answer.ask = asked[h].serial
      OBVIOUS
    <3> HIDE DEF answer
    <3>5. Signed(answer) /\ Serves(asked[h], answer)
      BY <3>2, <3>4 DEF Signed, Serves
    <3>6. ledger'.tidy = ledger.tidy
      BY <1>1, <3>1, IssuedTidy
    <3>7. QED BY <3>1, <3>3, <3>5, <3>6
  <2>3. QED BY <2>1, <2>2
<1>6. Only(h) /\ at'[h] = "ready" /\ last'[h] = e
  BY <1>1, <1>2, <1>3, <1>5, AnswerFacts DEF Only
<1>7. QED
  BY <1>1, <1>3, <1>4, <1>5, <1>6, NoEventServes, KeptBy DEF Stages, Sections

-----------------------------------------------------------------------------
(* The authenticator.                                                      *)

\* Credentials are only ever put after the others.
Extends ==
    /\ store' \in Seq(Record)
    /\ Len(store) <= Len(store')
    /\ \A i \in DOMAIN store : store'[i] = store[i]

LEMMA NextCountTyped ==
    ASSUME NEW n \in Nat
    PROVE  NextCount(n) \in 0..Width - 1
BY SoftAssumption DEF NextCount

LEMMA WidthPositive == Width \in Nat \ {0} /\ MaxQueue \in Nat
BY SoftAssumption

LEMMA ResetTyped ==
    ASSUME knobs \in Knobs, NEW fields \in Knobs
    PROVE  Reset(fields) \in Knobs
BY DEF Reset

\* What is parked of several matches.
LEMMA ParkedFacts ==
    ASSUME NEW matching \in Seq(DOMAIN store), queue \in Seq(DOMAIN store),
           Len(queue) <= MaxQueue
    PROVE  /\ Parked(matching) \in Seq(DOMAIN store)
           /\ Len(Parked(matching)) <= MaxQueue
           /\ Len(matching) > 1 =>
                 Parked(matching) =
                    SubSeq(matching, 2, IF Len(matching) <= MaxQueue + 1
                                        THEN Len(matching) ELSE MaxQueue + 1)
           /\ ~(Len(matching) > 1) => Parked(matching) = queue
<1> DEFINE k == IF Len(matching) - 1 <= MaxQueue THEN Len(matching) - 1 ELSE MaxQueue
<1>1. CASE Len(matching) > 1
  <2>1. Parked(matching) = SubSeq(Tail(matching), 1, k)
    BY <1>1 DEF Parked
  <2>2. k \in 0..Len(matching) - 1 /\ k <= MaxQueue /\ matching # <<>>
    BY <1>1, WidthPositive
  <2>3. k + 1 = IF Len(matching) <= MaxQueue + 1 THEN Len(matching) ELSE MaxQueue + 1
    BY <1>1, WidthPositive
  <2> HIDE DEF k
  <2>4. /\ SubSeq(Tail(matching), 1, k) \in Seq(DOMAIN store)
        /\ Len(SubSeq(Tail(matching), 1, k)) = k
        /\ SubSeq(Tail(matching), 1, k) = SubSeq(matching, 2, k + 1)
    BY <2>2, SubSeqOfTail
  <2>5. QED BY <1>1, <2>1, <2>2, <2>3, <2>4
<1>2. CASE ~(Len(matching) > 1)
  BY <1>2 DEF Parked
<1>3. QED BY <1>1, <1>2

\* What an import pushes, whole or cut short.
LEMMA ImportFacts ==
    ASSUME store \in Seq(Record), counter \in 0..Width - 1,
           NEW s \in Snapshots, Import(s)
    PROVE  Extends /\ Len(store') <= MaxRecords /\ counter' \in 0..Width - 1
<1> DEFINE Entry == [record : Record, sound : BOOLEAN]
           entries == s.credentials
           broken == {i \in DOMAIN entries : ~entries[i].sound}
           first == CHOOSE i \in broken : \A j \in broken : i <= j
           pushed == IF ~s.version THEN 0
                     ELSE IF broken = {} THEN Len(entries) ELSE first - 1
           more == [i \in 1..pushed |-> entries[i].record]
           count == IF s.version /\ broken = {} THEN s.count ELSE counter
<1>1. s \in Snapshot /\ s.count < Width
  BY SoftAssumption
<1>2. entries \in Seq(Entry) /\ Len(entries) \in Nat /\ s.count \in Nat
  BY <1>1 DEF Snapshot
<1>3. store' = store \o more /\ counter' = count /\ Len(store') <= MaxRecords
  BY DEF Import, Imported
<1>4. broken # {} => first \in 1..Len(entries)
  <2>1. broken \in SUBSET Nat /\ broken \subseteq 1..Len(entries)
    BY <1>2
  <2> HIDE DEF broken
  <2>2. ASSUME broken # {} PROVE first \in broken
    <3>1. \E i \in broken : \A j \in broken : i <= j
      BY <2>1, <2>2, LeastNatural
    <3>2. QED BY <3>1
  <2>3. QED BY <2>1, <2>2
<1>5. pushed \in 0..Len(entries)
  <2> HIDE DEF entries, broken, first
  <2>1. QED BY <1>2, <1>4
<1> HIDE DEF pushed
<1>6. more \in Seq(Record)
  <2> HIDE DEF entries
  <2>1. pushed \in Nat /\ \A i \in 1..pushed : entries[i] \in Entry
    <3> HIDE DEF Entry
    <3> QED BY <1>2, <1>5
  <2>2. \A e \in Entry : e.record \in Record
    OBVIOUS
  <2> HIDE DEF Entry
  <2>3. \A i \in 1..pushed : entries[i].record \in Record
    BY <2>1, <2>2
  <2>4. QED BY <2>1, <2>3
<1>7. counter' \in 0..Width - 1
  <2>1. Width \in Nat
    BY WidthPositive
  <2> HIDE DEF entries, broken
  <2>2. count \in 0..Width - 1
    BY <1>1, <1>2, <2>1
  <2>3. QED BY <1>3, <2>2
<1> HIDE DEF more
<1>8. Extends
  <2>1. /\ store \o more \in Seq(Record)
        /\ Len(store) <= Len(store \o more)
        /\ \A i \in 1..Len(store) : (store \o more)[i] = store[i]
    BY <1>6
  <2>2. QED BY <1>3, <2>1 DEF Extends
<1>9. QED BY <1>3, <1>7, <1>8

LEMMA MakeCredentialFacts ==
    ASSUME store \in Seq(Record), drawn \in 0..MaxDraws, NEW rp \in Rps,
           NEW resident \in BOOLEAN, MakeCredential(rp, resident)
    PROVE  Extends /\ Len(store') <= MaxRecords /\ drawn' \in 0..MaxDraws
<1> DEFINE new == Minted([rp |-> rp, resident |-> resident], drawn + 2)
<1>1. new \in Record
  BY DEF Minted, Record
<1>2. /\ store' = Append(store, new) /\ Len(store) < MaxRecords
      /\ drawn + 2 <= MaxDraws /\ drawn' = drawn + 2
  BY DEF MakeCredential, Draw
<1> HIDE DEF new
<1>3. MaxRecords \in Nat /\ MaxDraws \in Nat
  BY SoftAssumption
<1>4. drawn' \in 0..MaxDraws
  BY <1>2, <1>3
<1>5. QED BY <1>1, <1>2, <1>3, <1>4 DEF Extends

LEMMA QueueExtends ==
    ASSUME store \in Seq(Record), queue \in Seq(DOMAIN store), Extends, queue' = queue
    PROVE  queue' \in Seq(DOMAIN store')
<1>1. DOMAIN store \subseteq DOMAIN store'
  BY DEF Extends
<1>2. QED BY <1>1

LEMMA HarnessCalls ==
    ASSUME calls \in 0..MaxCalls, Harness
    PROVE  calls' \in 0..MaxCalls
<1>1. MaxCalls \in Nat
  BY SoftAssumption
<1>2. QED BY <1>1 DEF Harness

\* Resetting a knob leaves the rest typed.
LEMMA KnobsTyped ==
    ASSUME knobs \in Knobs
    PROVE  /\ Reset([knobs EXCEPT !.status = FALSE]) \in Knobs
           /\ Reset([knobs EXCEPT !.keepalives = <<>>]) \in Knobs
           /\ Reset([knobs EXCEPT !.delay = None]) \in Knobs
           /\ Reset([knobs EXCEPT !.wrongId = FALSE]) \in Knobs
<1>1. [knobs EXCEPT !.status = FALSE] \in Knobs
  BY DEF Knobs
<1>2. [knobs EXCEPT !.keepalives = <<>>] \in Knobs
  <2>1. <<>> \in Seq([status : Statuses, spacing : Nat])
    OBVIOUS
  <2>2. QED BY <2>1 DEF Knobs
<1>3. [knobs EXCEPT !.delay = None] \in Knobs
  BY DEF Knobs
<1>4. [knobs EXCEPT !.wrongId = FALSE] \in Knobs
  BY DEF Knobs
<1>5. QED BY <1>1, <1>2, <1>3, <1>4, ResetTyped

LEMMA AuthenticatorStep == TypeOK /\ [Next]_vars => AuthenticatorOK'
<1> SUFFICES ASSUME TypeOK, [Next]_vars PROVE AuthenticatorOK' OBVIOUS
<1>1. /\ store \in Seq(Record) /\ Len(store) <= MaxRecords
      /\ drawn \in 0..MaxDraws
      /\ counter \in 0..Width - 1 /\ counter \in Nat
      /\ mode \in [Requirements -> Modes]
      /\ poked \in [Requirements -> BOOLEAN]
      /\ queue \in Seq(DOMAIN store) /\ Len(queue) <= MaxQueue
      /\ knobs \in Knobs
      /\ calls \in 0..MaxCalls
      /\ CallersOK
  BY WidthPositive DEF TypeOK, AuthenticatorOK
<1>2. NextCount(counter) \in 0..Width - 1
  BY <1>1, NextCountTyped
<1>3. ASSUME UNCHANGED <<core, calls>> PROVE AuthenticatorOK'
  BY <1>1, <1>3 DEF AuthenticatorOK, core
<1>4. ASSUME NEW h \in Handles, Status(h) PROVE AuthenticatorOK'
  <2>1. /\ UNCHANGED <<store, counter, mode, poked, queue, calls>>
        /\ \/ UNCHANGED drawn
           \/ \E n \in {0, 1} : Draw(n)
        /\ \/ UNCHANGED knobs
           \/ knobs' = Reset([knobs EXCEPT !.status = FALSE])
    BY <1>4 DEF Status
  <2>2. knobs' \in Knobs
    BY <1>1, <2>1, KnobsTyped
  <2>3. drawn' \in 0..MaxDraws
    <3>1. MaxDraws \in Nat
      BY SoftAssumption
    <3>2. QED BY <1>1, <2>1, <3>1 DEF Draw
  <2>4. QED BY <1>1, <2>1, <2>2, <2>3 DEF AuthenticatorOK
<1>5. ASSUME NEW h \in Handles, Keepalives(h) PROVE AuthenticatorOK'
  <2>1. /\ UNCHANGED <<store, drawn, counter, mode, poked, queue, calls>>
        /\ knobs' = Reset([knobs EXCEPT !.keepalives = <<>>])
    BY <1>5 DEF Keepalives
  <2>2. knobs' \in Knobs
    BY <1>1, <2>1, KnobsTyped
  <2>3. QED BY <1>1, <2>1, <2>2 DEF AuthenticatorOK
<1>6. ASSUME NEW h \in Handles, NEW r \in Requirements, NEW next, Presence(h, r, next)
      PROVE  AuthenticatorOK'
  <2>1. /\ UNCHANGED <<store, drawn, counter, mode, queue, knobs, calls>>
        /\ UNCHANGED poked \/ poked' = [poked EXCEPT ![r] = FALSE]
    BY <1>6 DEF Presence, Released
  <2>2. poked' \in [Requirements -> BOOLEAN]
    BY <1>1, <2>1
  <2>3. QED BY <1>1, <2>1, <2>2 DEF AuthenticatorOK
<1>7. ASSUME NEW h \in Handles, Delay(h) PROVE AuthenticatorOK'
  <2>1. /\ UNCHANGED <<store, drawn, counter, mode, poked, queue, calls>>
        /\ knobs' = Reset([knobs EXCEPT !.delay = None])
    BY <1>7 DEF Delay
  <2>2. knobs' \in Knobs
    BY <1>1, <2>1, KnobsTyped
  <2>3. QED BY <1>1, <2>1, <2>2 DEF AuthenticatorOK
<1>8. ASSUME NEW h \in Handles, GetAssertion(h) PROVE AuthenticatorOK'
  <2> DEFINE matching == Matching(store, asked[h].command)
  <2>1. /\ UNCHANGED <<store, drawn, mode, poked, calls>>
        /\ \/ UNCHANGED <<counter, queue, knobs>>
           \/ /\ knobs' = Reset([knobs EXCEPT !.wrongId = FALSE])
              /\ counter' = NextCount(counter)
              /\ queue' = Parked(matching)
    BY <1>8 DEF GetAssertion
  <2>2. knobs' \in Knobs
    BY <1>1, <2>1, KnobsTyped
  <2>3. matching \in Seq(DOMAIN store)
    BY <1>1, Matches
  <2> HIDE DEF matching
  <2>4. queue' \in Seq(DOMAIN store) /\ Len(queue') <= MaxQueue
    BY <1>1, <2>1, <2>3, ParkedFacts
  <2>5. QED BY <1>1, <1>2, <2>1, <2>2, <2>4 DEF AuthenticatorOK
<1>9. ASSUME NEW h \in Handles, GetNextAssertion(h) PROVE AuthenticatorOK'
  <2>1. /\ UNCHANGED <<store, drawn, mode, poked, knobs, calls>>
        /\ \/ UNCHANGED <<counter, queue>>
           \/ queue # <<>> /\ queue' = Tail(queue) /\ counter' = NextCount(counter)
    BY <1>9 DEF GetNextAssertion
  <2>2. queue' \in Seq(DOMAIN store) /\ Len(queue') <= MaxQueue
    <3>1. CASE queue # <<>> /\ queue' = Tail(queue)
      <4>1. Tail(queue) \in Seq(DOMAIN store) /\ Len(Tail(queue)) = Len(queue) - 1
        BY <1>1, <3>1
      <4>2. Len(queue) \in Nat
        BY <1>1
      <4>3. QED BY <1>1, <3>1, <4>1, <4>2, WidthPositive
    <3>2. QED BY <1>1, <2>1, <3>1
  <2>3. QED BY <1>1, <1>2, <2>1, <2>2 DEF AuthenticatorOK
<1>10. ASSUME NEW rp \in Rps, NEW resident \in BOOLEAN, MakeCredential(rp, resident)
       PROVE  AuthenticatorOK'
  <2>1. /\ UNCHANGED <<mode, poked, queue, knobs>> /\ counter' = NextCount(counter)
        /\ Harness
    BY <1>10 DEF MakeCredential
  <2>2. Extends /\ Len(store') <= MaxRecords /\ drawn' \in 0..MaxDraws
    BY <1>1, <1>10, MakeCredentialFacts
  <2>3. queue' \in Seq(DOMAIN store')
    BY <1>1, <2>1, <2>2, QueueExtends
  <2>4. calls' \in 0..MaxCalls
    BY <1>1, <2>1, HarnessCalls
  <2>5. QED BY <1>1, <1>2, <2>1, <2>2, <2>3, <2>4 DEF AuthenticatorOK, Extends
<1>11. ASSUME NEW r \in Requirements, Poke(r) PROVE AuthenticatorOK'
  <2>1. /\ UNCHANGED <<store, drawn, counter, mode, queue, knobs>> /\ Harness
        /\ poked' = [poked EXCEPT ![r] = TRUE]
    BY <1>11 DEF Poke
  <2>2. calls' \in 0..MaxCalls
    BY <1>1, <2>1, HarnessCalls
  <2>3. QED BY <1>1, <2>1, <2>2 DEF AuthenticatorOK
<1>12. ASSUME NEW r \in Requirements, NEW m \in Modes, SetMode(r, m) PROVE AuthenticatorOK'
  <2>1. /\ UNCHANGED <<store, drawn, counter, poked, queue, knobs>> /\ Harness
        /\ mode' = [mode EXCEPT ![r] = m]
    BY <1>12 DEF SetMode
  <2>2. calls' \in 0..MaxCalls
    BY <1>1, <2>1, HarnessCalls
  <2>3. QED BY <1>1, <2>1, <2>2 DEF AuthenticatorOK
<1>13. ASSUME NEW k \in Settings, Arm(k) PROVE AuthenticatorOK'
  <2>1. /\ UNCHANGED <<store, drawn, counter, mode, poked, queue>> /\ Harness /\ knobs' = k
    BY <1>13 DEF Arm
  <2>2. calls' \in 0..MaxCalls
    BY <1>1, <2>1, HarnessCalls
  <2>3. k \in Knobs
    BY SoftAssumption
  <2>4. QED BY <1>1, <2>1, <2>2, <2>3 DEF AuthenticatorOK
<1>14. ASSUME NEW s \in Snapshots, Import(s) PROVE AuthenticatorOK'
  <2>1. /\ UNCHANGED <<drawn, mode, poked, queue, knobs>> /\ Harness
    BY <1>14 DEF Import
  <2>2. Extends /\ Len(store') <= MaxRecords /\ counter' \in 0..Width - 1
    BY <1>1, <1>14, ImportFacts
  <2>3. queue' \in Seq(DOMAIN store')
    BY <1>1, <2>1, <2>2, QueueExtends
  <2>4. calls' \in 0..MaxCalls
    BY <1>1, <2>1, HarnessCalls
  <2>5. QED BY <1>1, <2>1, <2>2, <2>3, <2>4 DEF AuthenticatorOK, Extends
<1>15. ASSUME NEW h \in Handles,
              \/ Send(h) \/ Connect(h) \/ GiveUp(h) \/ Close(h)
              \/ \E c \in Commands, b \in Budgets : Begin(h, c, b)
       PROVE  AuthenticatorOK'
  BY <1>3, <1>15 DEF Send, Connect, GiveUp, Close, Begin
<1>16. CASE UNCHANGED vars
  BY <1>3, <1>16 DEF vars, core
<1>17. ASSUME NEW h \in Handles, Runs(h) PROVE AuthenticatorOK'
  BY <1>4, <1>5, <1>6, <1>7, <1>8, <1>15, <1>17 DEF Runs, Requirements
<1>18. QED
  BY <1>9, <1>10, <1>11, <1>12, <1>13, <1>14, <1>15, <1>16, <1>17 DEF Next

-----------------------------------------------------------------------------
(* All callers.                                                            *)

AllRest == \A h \in Handles : Resting(h)

\* A step that is no caller's: the harness, or nobody's.
Outside ==
    /\ Extends
    /\ UNCHANGED <<at, asked, left, device, last, claims>>
    /\ ledger'.tidy = ledger.tidy

LEMMA OutsideKept ==
    ASSUME TypeOK, Outside, NEW c \in Handles, Resting(c)
    PROVE  Caller(c)' /\ Resting(c)'
<1>1. store \in Seq(Record) /\ CallersOK /\ Caller(c)
  BY CallerOf DEF TypeOK, AuthenticatorOK
<1>2. DOMAIN store \subseteq DOMAIN store'
  BY <1>1 DEF Outside, Extends
<1>3. Event \subseteq Event'
  BY <1>2 DEF Event
<1>4. Device \subseteq Device'
  BY <1>3 DEF Device
<1>5. /\ at' = at /\ asked' = asked /\ left' = left /\ device' = device /\ last' = last
      /\ ledger'.tidy = ledger.tidy
  BY DEF Outside
<1>6. Caller(c)'
  BY <1>1, <1>3, <1>4, <1>5 DEF Caller
<1>7. ASSUME NEW e \in Event, Signed(e), NEW q, Serves(q, e)
      PROVE  /\ e # NoEvent => e.ask = q.serial
             /\ e.kind = "info" => q.command.kind = "GetInfo"
             /\ e.kind = "assertion" =>
                   /\ q.command.kind = "GetAssertion"
                   /\ Wanted(store'[e.signer], q.command)
  <2>1. e.kind = "assertion" => e.signer \in DOMAIN store
    BY <1>7 DEF Event, Signed
  <2>2. e.kind = "assertion" => store'[e.signer] = store[e.signer]
    BY <2>1 DEF Outside, Extends
  <2>3. QED BY <1>7, <2>2 DEF Serves
<1>8. device[c].held \in Event /\ last[c] \in Event
  BY <1>1 DEF Caller, Device
<1>9. Resting(c)'
  <2>1. c \in ledger.tidy =>
           /\ device[c].held # NoEvent => at[c] = "asking"
           /\ Serves(asked[c], device[c].held)'
           /\ Serves(asked[c], last[c])'
    BY <1>5, <1>7, <1>8 DEF Resting, Serves
  <2>2. QED BY <1>5, <2>1 DEF Resting, Signed
<1>10. QED BY <1>6, <1>9

LEMMA SameExtends ==
    ASSUME store \in Seq(Record), UNCHANGED store
    PROVE  Extends
BY DEF Extends

LEMMA OneCaller ==
    ASSUME TypeOK, AllRest, [Next]_vars
    PROVE  (\E h \in Handles : Kept(h)) \/ Outside
<1>1. /\ store \in Seq(Record) /\ drawn \in 0..MaxDraws /\ counter \in 0..Width - 1
      /\ ledger \in Ledger
  BY DEF TypeOK, AuthenticatorOK
<1>2. ASSUME NEW h \in Handles, Runs(h) PROVE Kept(h)
  <2>1. Resting(h)
    BY DEF AllRest
  <2>2. QED
    BY <1>2, <2>1, SendKept, StatusKept, KeepalivesKept, PresenceKept, DelayKept,
       GetAssertionKept DEF Runs, Requirements
<1>3. ASSUME NEW h \in Handles, Connect(h) \/ GetNextAssertion(h) \/ GiveUp(h) \/ Close(h)
      PROVE  Kept(h)
  <2>1. Resting(h)
    BY DEF AllRest
  <2>2. QED BY <1>3, <2>1, ConnectKept, GetNextAssertionKept, GiveUpKept, CloseKept
<1>4. ASSUME NEW h \in Handles, NEW c \in Commands, NEW b \in Budgets, Begin(h, c, b)
      PROVE  Kept(h)
  <2>1. Resting(h)
    BY DEF AllRest
  <2>2. QED BY <1>4, <2>1, BeginKept
<1>5. ASSUME NEW rp \in Rps, NEW resident \in BOOLEAN, MakeCredential(rp, resident)
      PROVE  Outside
  <2>1. Extends
    BY <1>1, <1>5, MakeCredentialFacts
  <2>2. /\ UNCHANGED <<at, asked, left, device, last, claims>>
        /\ ledger'.tidy = ledger.tidy
    BY <1>1, <1>5 DEF MakeCredential, Ledger
  <2>3. QED BY <2>1, <2>2 DEF Outside
<1>6. ASSUME NEW r \in Requirements, Poke(r) \/ \E m \in Modes : SetMode(r, m)
      PROVE  Outside
  <2>1. /\ UNCHANGED <<store, at, asked, left, device, last, claims>>
        /\ ledger'.tidy = ledger.tidy
    BY <1>1, <1>6 DEF Poke, SetMode, Ledger
  <2>2. QED BY <1>1, <2>1, SameExtends DEF Outside
<1>7. ASSUME NEW k \in Settings, Arm(k) PROVE Outside
  BY <1>1, <1>7, SameExtends DEF Arm, Outside
<1>8. ASSUME NEW s \in Snapshots, Import(s) PROVE Outside
  <2>1. Extends
    BY <1>1, <1>8, ImportFacts
  <2>2. /\ UNCHANGED <<at, asked, left, device, last, claims>>
        /\ ledger'.tidy = ledger.tidy
    BY <1>1, <1>8 DEF Import, Ledger
  <2>3. QED BY <2>1, <2>2 DEF Outside
<1>9. ASSUME UNCHANGED vars PROVE Outside
  <2>1. UNCHANGED <<store, at, asked, left, device, last, claims, ledger>>
    BY <1>9 DEF vars
  <2>2. QED BY <1>1, <2>1, SameExtends DEF Outside
<1>10. QED BY <1>2, <1>3, <1>4, <1>5, <1>6, <1>7, <1>8, <1>9 DEF Next

LEMMA RestStep == TypeOK /\ AllRest /\ [Next]_vars => AllRest' /\ \A c \in Handles : Caller(c)'
<1> SUFFICES ASSUME TypeOK, AllRest, [Next]_vars, NEW c \in Handles
             PROVE  Caller(c)' /\ Resting(c)'
  BY DEF AllRest
<1>1. CallersOK /\ Caller(c) /\ Resting(c)
  BY CallerOf DEF TypeOK, AllRest
<1>2. ASSUME NEW h \in Handles, Kept(h) PROVE Caller(c)' /\ Resting(c)'
  <2>1. Only(h) /\ Caller(h)' /\ Resting(h)'
    BY <1>2 DEF Kept
  <2>2. CASE c = h
    BY <2>1, <2>2
  <2>3. CASE c # h
    BY <1>1, <2>1, <2>3, OthersKept
  <2>4. QED BY <2>2, <2>3
<1>3. CASE Outside
  BY <1>1, <1>3, OutsideKept
<1>4. QED BY <1>2, <1>3, OneCaller

-----------------------------------------------------------------------------
(* Claims.                                                                 *)

\* Only selecting, draining, beginning and closing touch what may be drained.
LEMMA ClaimCases ==
    ASSUME [Next]_vars
    PROVE  \/ UNCHANGED <<claims, queue>>
           \/ /\ \E h \in Handles : claims' = [claims EXCEPT ![h] = NoClaim]
              /\ UNCHANGED <<queue, store>>
           \/ \E h \in Handles : GetAssertion(h)
           \/ \E h \in Handles : GetNextAssertion(h)
<1> DEFINE Goal == \/ UNCHANGED <<claims, queue>>
                   \/ /\ \E h \in Handles : claims' = [claims EXCEPT ![h] = NoClaim]
                      /\ UNCHANGED <<queue, store>>
                   \/ \E h \in Handles : GetAssertion(h)
                   \/ \E h \in Handles : GetNextAssertion(h)
<1>1. ASSUME NEW h \in Handles, Runs(h) PROVE Goal
  <2>1. CASE Send(h) \/ Status(h) \/ Keepalives(h) \/ Delay(h)
    BY <2>1 DEF Send, Status, Keepalives, Delay, core
  <2>2. CASE Presence(h, "UP", "UV") \/ Presence(h, "UV", "delay")
    BY <2>2 DEF Presence
  <2>3. QED BY <1>1, <2>1, <2>2 DEF Runs
<1>2. ASSUME NEW h \in Handles,
             \/ Connect(h) \/ GiveUp(h) \/ Close(h)
             \/ \E c \in Commands, b \in Budgets : Begin(h, c, b)
      PROVE  Goal
  BY <1>2 DEF Connect, GiveUp, Close, Begin, core
<1>3. ASSUME NEW rp \in Rps, NEW resident \in BOOLEAN, MakeCredential(rp, resident)
      PROVE  Goal
  BY <1>3 DEF MakeCredential
<1>4. ASSUME NEW r \in Requirements, Poke(r) \/ \E m \in Modes : SetMode(r, m)
      PROVE  Goal
  BY <1>4 DEF Poke, SetMode
<1>5. ASSUME NEW k \in Settings, Arm(k) PROVE Goal
  BY <1>5 DEF Arm
<1>6. ASSUME NEW s \in Snapshots, Import(s) PROVE Goal
  BY <1>6 DEF Import
<1>7. ASSUME UNCHANGED vars PROVE Goal
  BY <1>7 DEF vars
<1>8. ASSUME NEW h \in Handles, GetNextAssertion(h) PROVE Goal
  BY <1>8
<1> HIDE DEF Goal
<1>9. Goal
  BY <1>1, <1>2, <1>3, <1>4, <1>5, <1>6, <1>7, <1>8 DEF Next
<1>10. QED BY <1>9 DEF Goal

LEMMA ClaimsTyped ==
    ASSUME TypeOK, [Next]_vars
    PROVE  claims' \in [Handles -> Claim]
<1>1. /\ claims \in [Handles -> Claim] /\ queue \in Seq(DOMAIN store)
      /\ store \in Seq(Record)
      /\ asked \in [Handles -> [serial : Nat, command : Questions]]
  BY DEF TypeOK, AuthenticatorOK, CallersOK
<1>2. CASE UNCHANGED <<claims, queue>>
  BY <1>1, <1>2
<1>3. ASSUME NEW h \in Handles, claims' = [claims EXCEPT ![h] = NoClaim]
      PROVE  claims' \in [Handles -> Claim]
  <2>1. <<>> \in Seq(Nat) /\ NoClaim.command \in Questions
    BY DEF Questions
  <2>2. NoClaim \in Claim
    BY <2>1 DEF NoClaim, Claim
  <2>3. QED BY <1>1, <1>3, <2>2
<1>4. ASSUME NEW h \in Handles, GetAssertion(h) PROVE claims' \in [Handles -> Claim]
  <2> DEFINE number == Len(Matching(store, asked[h].command))
  <2>1. number \in Nat
    BY <1>1, Matches
  <2>2. \/ UNCHANGED claims
        \/ claims' = [c \in Handles |->
                        IF c = h
                        THEN [live |-> number > 1, command |-> asked[h].command,
                              number |-> number, handed |-> <<>>]
                        ELSE IF number > 1 THEN [claims[c] EXCEPT !.live = FALSE]
                        ELSE claims[c]]
    BY <1>4 DEF GetAssertion
  <2> HIDE DEF number
  <2>3. [live |-> number > 1, command |-> asked[h].command,
         number |-> number, handed |-> <<>>] \in Claim
    <3>1. asked[h].command \in Questions /\ <<>> \in Seq(Nat)
      BY <1>1
    <3>2. QED BY <2>1, <3>1 DEF Claim
  <2>4. \A c \in Handles : [claims[c] EXCEPT !.live = FALSE] \in Claim /\ claims[c] \in Claim
    BY <1>1 DEF Claim
  <2>5. QED BY <1>1, <2>2, <2>3, <2>4
<1>5. ASSUME NEW h \in Handles, GetNextAssertion(h) PROVE claims' \in [Handles -> Claim]
  <2>1. \/ UNCHANGED claims
        \/ /\ queue # <<>>
           /\ claims' = [c \in Handles |->
                           IF c = h /\ claims[c].live
                           THEN [claims[c] EXCEPT !.handed = Append(@, Head(queue))]
                           ELSE [claims[c] EXCEPT !.live = FALSE]]
    BY <1>5 DEF GetNextAssertion
  <2>2. \A c \in Handles : [claims[c] EXCEPT !.live = FALSE] \in Claim
    BY <1>1 DEF Claim
  <2>3. ASSUME queue # <<>>, NEW c \in Handles
        PROVE  [claims[c] EXCEPT !.handed = Append(@, Head(queue))] \in Claim
    <3>1. claims[c] \in Claim /\ claims[c].handed \in Seq(Nat)
      BY <1>1 DEF Claim
    <3>2. Head(queue) \in Nat
      BY <1>1, <2>3
    <3>3. Append(claims[c].handed, Head(queue)) \in Seq(Nat)
      BY <3>1, <3>2
    <3>4. QED BY <3>1, <3>3 DEF Claim
  <2>4. QED BY <1>1, <2>1, <2>2, <2>3
<1>6. QED BY <1>2, <1>3, <1>4, <1>5, ClaimCases

-----------------------------------------------------------------------------
(* Typing and answers.                                                     *)

AnswerInv == TypeOK /\ PokeInv /\ AllRest

LEMMA TypeInit == Init => TypeOK
<1> SUFFICES ASSUME Init PROVE TypeOK OBVIOUS
<1>1. PICK minted \in Fixtures, start \in Starts :
         /\ store = [i \in DOMAIN minted |-> Minted(minted[i], 2 * i)]
         /\ drawn = 2 * Len(minted)
         /\ counter = (start + Len(minted)) % Width
  BY DEF Init
<1>2. /\ Len(minted) \in Nat /\ Len(minted) <= MaxRecords /\ 2 * Len(minted) <= MaxDraws
      /\ start \in Nat
  <2>1. minted \in Seq([rp : Rps, resident : BOOLEAN])
        /\ Len(minted) <= MaxRecords /\ 2 * Len(minted) <= MaxDraws
    BY SoftAssumption
  <2>2. start \in Nat
    BY SoftAssumption
  <2>3. QED BY <2>1, <2>2
<1>3. store \in Seq(Record) /\ Len(store) = Len(minted)
  <2> DEFINE Credential == [rp : Rps, resident : BOOLEAN]
  <2>1. minted \in Seq(Credential)
    BY SoftAssumption
  <2> HIDE DEF Credential
  <2>2. /\ DOMAIN minted = 1..Len(minted)
        /\ \A i \in 1..Len(minted) : minted[i] \in Credential
    BY <2>1
  <2>3. ASSUME NEW i \in 1..Len(minted) PROVE Minted(minted[i], 2 * i) \in Record
    <3>1. minted[i] \in Credential /\ 2 * i \in Nat
      BY <2>2
    <3>2. QED BY <3>1 DEF Minted, Record, Credential
  <2>4. QED BY <1>1, <1>2, <2>2, <2>3
<1>4. counter \in 0..Width - 1
  <2>1. start + Len(minted) \in Nat
    BY <1>2
  <2>2. QED BY <1>1, <2>1, WidthPositive
<1>5. drawn \in 0..MaxDraws
  <2>1. MaxDraws \in Nat
    BY SoftAssumption
  <2>2. QED BY <1>1, <1>2, <2>1
<1>6. queue \in Seq(DOMAIN store) /\ Len(queue) <= MaxQueue
  <2>1. queue = <<>>
    BY DEF Init
  <2>2. QED BY <2>1, WidthPositive
<1>7. knobs \in Knobs
  <2>1. knobs = NewKnobs
    BY DEF Init
  <2>2. <<>> \in Seq([status : Statuses, spacing : Nat])
    OBVIOUS
  <2>3. QED BY <2>1, <2>2 DEF NewKnobs, Knobs
<1>8. calls \in 0..MaxCalls
  <2>1. MaxCalls \in Nat
    BY SoftAssumption
  <2>2. QED BY <2>1 DEF Init
<1>9. mode \in [Requirements -> Modes] /\ poked \in [Requirements -> BOOLEAN]
  BY SoftAssumption DEF Init
<1>10. AuthenticatorOK
  BY <1>2, <1>3, <1>4, <1>5, <1>6, <1>7, <1>8, <1>9 DEF AuthenticatorOK
<1>11. NewDevice \in Device /\ ~NewDevice.overshoot
  <2>1. <<>> \in Seq(Statuses) /\ NoEvent \in Event
    BY NoEventServes
  <2>2. QED BY <2>1 DEF NewDevice, Device
<1>12. NoClaim \in Claim /\ NoClaim.command \in Questions
  <2>1. <<>> \in Seq(Nat) /\ NoClaim.command \in Questions
    BY DEF Questions
  <2>2. QED BY <2>1 DEF NoClaim, Claim
<1>13. CallersOK
  <2>1. /\ at = [h \in Handles |-> "away"]
        /\ asked = [h \in Handles |-> [serial |-> 0, command |-> NoClaim.command]]
        /\ left = [h \in Handles |-> 0]
        /\ device = [h \in Handles |-> NewDevice]
        /\ last = [h \in Handles |-> NoEvent]
        /\ claims = [h \in Handles |-> NoClaim]
    BY DEF Init
  <2>2. asked \in [Handles -> [serial : Nat, command : Questions]]
    BY <1>12, <2>1
  <2>3. \A h \in Handles : \E b \in Budgets \cup {0} : left[h] <= b
    BY <2>1
  <2>4. QED BY <1>11, <1>12, <2>1, <2>2, <2>3, NoEventServes DEF CallersOK, Stages
<1>14. ledger \in Ledger
  BY PokeInit DEF PokeInv
<1>15. QED BY <1>10, <1>13, <1>14 DEF TypeOK

LEMMA AnswerInit == Init => AnswerInv
<1> SUFFICES ASSUME Init PROVE AnswerInv OBVIOUS
<1>1. ASSUME NEW h \in Handles PROVE Resting(h)
  <2>1. at[h] = "away" /\ device[h] = NewDevice /\ last[h] = NoEvent
    BY DEF Init
  <2>2. device[h].held = NoEvent
    BY <2>1 DEF NewDevice
  <2>3. QED BY <2>1, <2>2, NoEventServes DEF Resting, Sections
<1>2. QED BY <1>1, TypeInit, PokeInit DEF AnswerInv, AllRest

LEMMA AnswerStep == AnswerInv /\ [Next]_vars => AnswerInv'
<1> SUFFICES ASSUME AnswerInv, [Next]_vars PROVE AnswerInv' OBVIOUS
<1>1. TypeOK /\ PokeInv /\ AllRest
  BY DEF AnswerInv
<1>2. PokeInv' /\ AuthenticatorOK' /\ claims' \in [Handles -> Claim]
  BY <1>1, PokeStep, AuthenticatorStep, ClaimsTyped
<1>3. AllRest' /\ \A c \in Handles : Caller(c)'
  BY <1>1, RestStep
<1>4. CallersOK'
  <2>1. CallersOK
    BY <1>1 DEF TypeOK
  <2>2. ASSUME NEW h \in Handles, Kept(h) PROVE CallersOK'
    BY <1>2, <1>3, <2>1, <2>2, CallersJoin DEF Kept
  <2>3. CASE Outside
    <3>1. /\ at' = at /\ asked' = asked /\ left' = left /\ device' = device
          /\ last' = last /\ claims' = claims
      BY <2>3 DEF Outside
    <3>2. /\ device' \in [Handles -> Device'] /\ last' \in [Handles -> Event']
      <4>1. /\ device' = [c \in Handles |-> device'[c]]
            /\ last' = [c \in Handles |-> last'[c]]
        BY <2>1, <3>1 DEF CallersOK
      <4>2. \A c \in Handles : device'[c] \in Device' /\ last'[c] \in Event'
        BY <1>3 DEF Caller
      <4>3. QED BY <4>1, <4>2
    <3>3. QED BY <2>1, <3>1, <3>2 DEF CallersOK
  <2>4. QED BY <1>1, <2>2, <2>3, OneCaller
<1>5. QED BY <1>2, <1>3, <1>4 DEF AnswerInv, TypeOK, PokeInv

LEMMA AnswersInvariant == Spec => []AnswerInv
BY AnswerInit, AnswerStep, PTL DEF Spec

\* Every state is well typed: no index points past the store, no queue is
\* longer than its maximum, an overshoot comes with a response to hold back.
THEOREM TypeCorrect == Spec => []TypeOK
<1>1. AnswerInv => TypeOK
  BY DEF AnswerInv
<1>2. QED BY <1>1, AnswersInvariant, PTL

\* However sends interleave, keepalives are staged and responses held back, a
\* caller that saw its commands through gets an answer to its own command, and
\* every assertion its sends return, of one match or of several, is signed by a
\* credential the command asks for (exchange_get_assertion, pending_response).
THEOREM AnswersAreOwn == Spec => []AnswersOwnCommand
<1>1. AnswerInv => AnswersOwnCommand
  <2> SUFFICES ASSUME AnswerInv, NEW h \in ledger.tidy
               PROVE  LET command == asked[h].command
                          event == last[h]
                      IN  /\ event # NoEvent => event.ask = asked[h].serial
                          /\ event.kind = "info" => command.kind = "GetInfo"
                          /\ event.kind = "assertion" =>
                                 /\ command.kind = "GetAssertion"
                                 /\ store[event.signer].rp = command.rp
                                 /\ IF command.allow = None
                                    THEN store[event.signer].resident
                                    ELSE store[event.signer].id \in command.allow
    BY DEF AnswersOwnCommand
  <2>1. h \in Handles
    BY DEF AnswerInv, TypeOK, Ledger
  <2>2. Serves(asked[h], last[h])
    BY <2>1 DEF AnswerInv, AllRest, Resting
  <2>3. QED BY <2>2 DEF Serves, Wanted
<1>2. QED BY <1>1, AnswersInvariant, PTL

-----------------------------------------------------------------------------
(* The drain.                                                              *)

\* How many of a claim's matches a caller is told of and can drain.
Promised(claim) == IF claim.number <= MaxQueue + 1 THEN claim.number ELSE MaxQueue + 1

\* What was handed over and what is parked, of one caller.
Drained(h) ==
    claims[h].live =>
        /\ claims[h].number <= Len(Matching(store, claims[h].command))
        /\ claims[h].handed \o queue =
              SubSeq(Matching(store, claims[h].command), 2, Promised(claims[h]))

DrainInv == \A h \in Handles : Drained(h)

LEMMA DrainGrows ==
    ASSUME TypeOK, Extends, UNCHANGED <<claims, queue>>, NEW h \in Handles, Drained(h)
    PROVE  Drained(h)'
<1> DEFINE claim == claims[h]
           old == Matching(store, claim.command)
           new == Matching(store', claim.command)
<1>a. claims' = claims /\ queue' = queue
  OBVIOUS
<1>b. SUFFICES ASSUME claim.live
               PROVE  /\ claim.number <= Len(new)
                      /\ claim.handed \o queue = SubSeq(new, 2, Promised(claim))
  <2>1. Matching(store, claims[h].command)' = Matching(store', claims'[h].command)
    BY DEF Matching, Ascending
  <2>2. QED BY <1>a, <2>1 DEF Drained, Promised
<1>1. /\ claim.number <= Len(old)
      /\ claim.handed \o queue = SubSeq(old, 2, Promised(claim))
  BY <1>b DEF Drained
<1>2. /\ store \in Seq(Record) /\ store' \in Seq(Record) /\ claim \in Claim
      /\ Len(store) <= Len(store') /\ \A i \in 1..Len(store) : store'[i] = store[i]
  BY DEF TypeOK, AuthenticatorOK, CallersOK, Extends
<1>3. /\ old \in Seq(DOMAIN store) /\ Len(old) \in Nat
      /\ new \in Seq(DOMAIN store') /\ Len(new) \in Nat
  BY <1>2, Matches
<1>4. /\ Len(old) <= Len(new)
      /\ \A n \in 1..Len(old) : new[n] = old[n]
  BY <1>2, MatchesGrow
<1>5. Promised(claim) \in 0..Len(old)
  BY <1>1, <1>2, <1>3, WidthPositive DEF Promised, Claim
<1> HIDE DEF old, new, claim
<1>6. old \in Seq(Nat) /\ new \in Seq(Nat)
  BY <1>2, <1>3
<1>7. SubSeq(old, 2, Promised(claim)) = SubSeq(new, 2, Promised(claim))
  <2> DEFINE n == Promised(claim)
  <2>1. n \in 0..Len(old) /\ n \in Nat
    BY <1>3, <1>5
  <2> HIDE DEF n
  <2>2. n <= Len(new) /\ \A i \in 1..n : old[i] = new[i]
    BY <1>3, <1>4, <2>1
  <2>3. SubSeq(old, 2, n) = SubSeq(new, 2, n)
    BY <1>6, <2>1, <2>2, SamePart
  <2>4. QED BY <2>3 DEF n
<1>8. claim.number \in Nat
  BY <1>2 DEF Claim
<1>9. claim.number <= Len(new)
  BY <1>1, <1>3, <1>4, <1>8
<1>10. claim.handed \o queue = SubSeq(new, 2, Promised(claim))
  BY <1>1, <1>7
<1>11. QED BY <1>9, <1>10

LEMMA AlwaysExtends ==
    ASSUME TypeOK, AllRest, [Next]_vars
    PROVE  Extends
<1>1. store \in Seq(Record)
  BY DEF TypeOK, AuthenticatorOK
<1>2. ASSUME NEW h \in Handles, Kept(h) PROVE Extends
  BY <1>1, <1>2, SameExtends DEF Kept, Only
<1>3. QED BY <1>2, OneCaller DEF Outside

LEMMA DrainBySelecting ==
    ASSUME TypeOK, DrainInv, NEW h \in Handles, GetAssertion(h), NEW c \in Handles
    PROVE  Drained(c)'
<1> DEFINE command == asked[h].command
           matching == Matching(store, command)
           number == Len(matching)
<1>1. /\ store \in Seq(Record) /\ queue \in Seq(DOMAIN store) /\ Len(queue) <= MaxQueue
      /\ claims \in [Handles -> Claim]
  BY DEF TypeOK, AuthenticatorOK, CallersOK
<1>2. matching \in Seq(DOMAIN store) /\ number \in Nat
  BY <1>1, Matches
<1>3. store' = store
  BY DEF GetAssertion
<1>4. \/ number = 0 /\ UNCHANGED <<claims, queue>>
      \/ /\ number # 0
         /\ queue' = Parked(matching)
         /\ claims' = [d \in Handles |->
                         IF d = h
                         THEN [live |-> number > 1, command |-> command,
                               number |-> number, handed |-> <<>>]
                         ELSE IF number > 1 THEN [claims[d] EXCEPT !.live = FALSE]
                         ELSE claims[d]]
  BY DEF GetAssertion
<1>5. Drained(c)
  BY DEF DrainInv
<1>6. CASE number = 0 /\ UNCHANGED <<claims, queue>>
  BY <1>1, <1>3, <1>5, <1>6, SameExtends, DrainGrows
<1>7. CASE /\ number # 0
           /\ queue' = Parked(matching)
           /\ claims' = [d \in Handles |->
                           IF d = h
                           THEN [live |-> number > 1, command |-> command,
                                 number |-> number, handed |-> <<>>]
                           ELSE IF number > 1 THEN [claims[d] EXCEPT !.live = FALSE]
                           ELSE claims[d]]
  <2>1. ASSUME number > 1, c = h PROVE Drained(c)'
    <3>1. /\ claims'[c].command = command /\ claims'[c].number = number
          /\ claims'[c].handed = <<>>
      BY <1>7, <2>1
    <3>2. Promised(claims'[c]) = IF number <= MaxQueue + 1 THEN number ELSE MaxQueue + 1
      BY <3>1 DEF Promised
    <3> HIDE DEF number, command
    <3>3. queue' = SubSeq(matching, 2, Promised(claims'[c])) /\ queue' \in Seq(DOMAIN store)
      <4> HIDE DEF matching
      <4>1. Len(matching) > 1
        BY <2>1 DEF number
      <4>2. QED BY <1>1, <1>2, <1>7, <3>2, <4>1, ParkedFacts DEF number
    <3>4. claims'[c].handed \o queue' = queue'
      BY <3>1, <3>3
    <3>5. Matching(store', claims'[c].command) = matching
      BY <1>3, <3>1 DEF command
    <3>6. claims'[c].number <= Len(Matching(store', claims'[c].command))
      <4>1. claims'[c].number = Len(matching)
        BY <3>1 DEF number
      <4> HIDE DEF matching
      <4>2. QED BY <1>2, <3>5, <4>1 DEF number
    <3>7. QED BY <3>3, <3>4, <3>5, <3>6 DEF Drained, Promised
  <2>2. ASSUME number > 1, c # h PROVE Drained(c)'
    <3>1. claims'[c] = [claims[c] EXCEPT !.live = FALSE]
      BY <1>7, <2>2
    <3>2. ~claims'[c].live
      BY <1>1, <3>1 DEF Claim
    <3>3. QED BY <3>2 DEF Drained
  <2>3. ASSUME ~(number > 1), c = h PROVE Drained(c)'
    <3>1. claims'[c].live = (number > 1)
      BY <1>7, <2>3
    <3>2. QED BY <2>3, <3>1 DEF Drained
  <2>4. ASSUME ~(number > 1), c # h PROVE Drained(c)'
    <3>1. claims'[c] = claims[c]
      BY <1>7, <2>4
    <3>2. queue' = queue
      <4> HIDE DEF matching
      <4>1. QED BY <1>1, <1>2, <1>7, <2>4, ParkedFacts
    <3>3. QED BY <1>3, <1>5, <3>1, <3>2 DEF Drained, Promised
  <2>5. QED BY <2>1, <2>2, <2>3, <2>4
<1>8. QED BY <1>4, <1>6, <1>7

LEMMA DrainByDraining ==
    ASSUME TypeOK, DrainInv, NEW h \in Handles, GetNextAssertion(h), NEW c \in Handles
    PROVE  Drained(c)'
<1>1. /\ store \in Seq(Record) /\ queue \in Seq(DOMAIN store)
      /\ claims \in [Handles -> Claim] /\ queue \in Seq(Nat)
  BY DEF TypeOK, AuthenticatorOK, CallersOK
<1>2. store' = store
  BY DEF GetNextAssertion
<1>3. \/ UNCHANGED <<claims, queue>>
      \/ /\ queue # <<>> /\ queue' = Tail(queue)
         /\ claims' = [d \in Handles |->
                         IF d = h /\ claims[d].live
                         THEN [claims[d] EXCEPT !.handed = Append(@, Head(queue))]
                         ELSE [claims[d] EXCEPT !.live = FALSE]]
  BY DEF GetNextAssertion
<1>4. Drained(c)
  BY DEF DrainInv
<1>5. CASE UNCHANGED <<claims, queue>>
  BY <1>1, <1>2, <1>4, <1>5, SameExtends, DrainGrows
<1>6. CASE /\ queue # <<>> /\ queue' = Tail(queue)
           /\ claims' = [d \in Handles |->
                           IF d = h /\ claims[d].live
                           THEN [claims[d] EXCEPT !.handed = Append(@, Head(queue))]
                           ELSE [claims[d] EXCEPT !.live = FALSE]]
  <2>1. CASE c = h /\ claims[c].live
    <3>1. claims'[c] = [claims[c] EXCEPT !.handed = Append(@, Head(queue))]
      BY <1>6, <2>1
    <3>2. /\ claims'[c].handed = Append(claims[c].handed, Head(queue))
          /\ claims'[c].live = claims[c].live
          /\ claims'[c].command = claims[c].command
          /\ claims'[c].number = claims[c].number
          /\ claims[c].handed \in Seq(Nat)
      BY <1>1, <3>1 DEF Claim
    <3>3. claims'[c].handed \o queue' = claims[c].handed \o queue
      BY <1>1, <1>6, <3>2, HandOver
    <3>4. QED BY <1>2, <1>4, <3>2, <3>3 DEF Drained, Promised
  <2>2. CASE ~(c = h /\ claims[c].live)
    <3>1. claims'[c] = [claims[c] EXCEPT !.live = FALSE]
      BY <1>6, <2>2
    <3>2. ~claims'[c].live
      BY <1>1, <3>1 DEF Claim
    <3>3. QED BY <3>2 DEF Drained
  <2>3. QED BY <2>1, <2>2
<1>7. QED BY <1>3, <1>5, <1>6

LEMMA DrainStep == AnswerInv /\ DrainInv /\ [Next]_vars => DrainInv'
<1> SUFFICES ASSUME AnswerInv, DrainInv, [Next]_vars, NEW c \in Handles
             PROVE  Drained(c)'
  BY DEF DrainInv
<1>1. TypeOK /\ AllRest /\ Drained(c) /\ claims \in [Handles -> Claim]
  BY DEF AnswerInv, DrainInv, TypeOK, CallersOK
<1>2. CASE UNCHANGED <<claims, queue>>
  BY <1>1, <1>2, AlwaysExtends, DrainGrows
<1>3. ASSUME NEW h \in Handles, claims' = [claims EXCEPT ![h] = NoClaim],
             UNCHANGED <<queue, store>>
      PROVE  Drained(c)'
  <2>1. CASE c = h
    <3>1. ~claims'[c].live
      BY <1>1, <1>3, <2>1 DEF NoClaim
    <3>2. QED BY <3>1 DEF Drained
  <2>2. CASE c # h
    <3>1. claims'[c] = claims[c]
      BY <1>1, <1>3, <2>2
    <3>2. QED BY <1>1, <1>3, <3>1 DEF Drained, Promised
  <2>3. QED BY <2>1, <2>2
<1>4. QED BY <1>1, <1>2, <1>3, ClaimCases, DrainBySelecting, DrainByDraining

LEMMA DrainInit == Init => DrainInv
<1> SUFFICES ASSUME Init, NEW h \in Handles PROVE Drained(h)
  BY DEF DrainInv
<1>1. ~claims[h].live
  BY DEF Init, NoClaim
<1>2. QED BY <1>1 DEF Drained

\* Whatever credentials are minted or imported meanwhile, what a caller was
\* handed and what is parked are the second to the last of its command's
\* matches, in order and cut at the maximum, until another caller drains or
\* parks (assertion_queue).
THEOREM DrainsAreTheRest == Spec => []DrainIsTheRest
<1>1. Spec => [](AnswerInv /\ DrainInv)
  BY AnswerInit, AnswerStep, DrainInit, DrainStep, PTL DEF Spec
<1>2. DrainInv => DrainIsTheRest
  BY DEF DrainInv, DrainIsTheRest, Drained, Promised
<1>3. QED BY <1>1, <1>2, PTL

-----------------------------------------------------------------------------
(* The counter.                                                            *)

\* The callers with a response held back.
Holding == {h \in Handles : device[h].held # NoEvent}

\* Signatures made: handed out, dropped, or held back.
Made == ledger.issued + Cardinality(Holding)

\* A step counts what it signs: nothing, or one.
Counts ==
    \/ ledger'.imported
    \/ /\ ledger'.start = ledger.start
       /\ \/ counter' = counter /\ Made' = Made
          \/ counter' = NextCount(counter) /\ Made' = Made + 1

LEMMA HoldingFinite ==
    /\ IsFiniteSet(Holding) /\ Cardinality(Holding) \in Nat
    /\ IsFiniteSet(Holding)' /\ (Cardinality(Holding) \in Nat)'
<1>1. IsFiniteSet(Handles)
  BY SoftAssumption
<1>2. Holding \subseteq Handles /\ Holding' \subseteq Handles
  BY DEF Holding
<1>3. IsFiniteSet(Holding) /\ IsFiniteSet(Holding')
  BY <1>1, <1>2, FS_Subset
<1>4. QED BY <1>3, FS_CardinalityType

LEMMA HoldingSame ==
    ASSUME CallersOK, NEW h \in Handles, Only(h),
           device'[h].held = NoEvent <=> device[h].held = NoEvent
    PROVE  Cardinality(Holding)' = Cardinality(Holding)
<1>1. \A c \in Handles : device'[c].held = NoEvent <=> device[c].held = NoEvent
  BY DEF CallersOK, Only
<1>2. Holding' = Holding
  BY <1>1 DEF Holding
<1>3. QED BY <1>2

LEMMA HoldingMore ==
    ASSUME CallersOK, NEW h \in Handles, Only(h),
           device'[h].held # NoEvent, device[h].held = NoEvent
    PROVE  Cardinality(Holding)' = Cardinality(Holding) + 1
<1>1. \A c \in Handles \ {h} : device'[c].held = NoEvent <=> device[c].held = NoEvent
  BY DEF CallersOK, Only
<1>2. Holding' = Holding \cup {h} /\ h \notin Holding
  BY <1>1 DEF Holding
<1>3. QED BY <1>2, HoldingFinite, FS_AddElement

LEMMA HoldingLess ==
    ASSUME CallersOK, NEW h \in Handles, Only(h),
           device'[h].held = NoEvent, device[h].held # NoEvent
    PROVE  Cardinality(Holding)' + 1 = Cardinality(Holding)
<1>1. \A c \in Handles \ {h} : device'[c].held = NoEvent <=> device[c].held = NoEvent
  BY DEF CallersOK, Only
<1>2. Holding = Holding' \cup {h} /\ h \notin Holding'
  BY <1>1 DEF Holding
<1>3. QED BY <1>2, HoldingFinite, FS_AddElement

\* What handing out an event counts.
LEMMA IssuedFacts ==
    ASSUME ledger \in Ledger, NEW event, ledger' = Issued(ledger, event)
    PROVE  /\ ledger'.start = ledger.start
           /\ event.kind \in {"assertion", "next"} => ledger'.issued = ledger.issued + 1
BY DEF Issued, Signatures, Ledger

LEMMA SendCounts ==
    ASSUME TypeOK, NEW h \in Handles, Resting(h), Send(h)
    PROVE  Counts
<1>1. CallersOK /\ ledger \in Ledger /\ Only(h) /\ counter' = counter
      /\ device[h] \in Device
  BY SendKept DEF TypeOK, Kept, CallersOK, Send, core
<1>2. \/ /\ ledger'.start = ledger.start /\ ledger'.issued = ledger.issued
         /\ device'[h].held = device[h].held
      \/ /\ device[h].held # NoEvent /\ device'[h].held = NoEvent
         /\ ledger' = Issued(ledger, device[h].held)
  <2>1. \/ Expire(h) /\ UNCHANGED device
        \/ NextEvent(h, "keepalive")
        \/ /\ device' = [device EXCEPT ![h].overshoot = FALSE]
           /\ UNCHANGED ledger
        \/ /\ device[h].held # NoEvent
           /\ device' = [device EXCEPT ![h].held = NoEvent]
           /\ ledger' = Issued(ledger, device[h].held)
        \/ UNCHANGED <<device, ledger>>
    BY DEF Send
  <2>2. CASE Expire(h) /\ UNCHANGED device
    BY <1>1, <2>2 DEF Expire, Ledger
  <2>3. CASE NextEvent(h, "keepalive")
    <3>1. device'[h] = [device[h] EXCEPT !.events = Tail(@)] /\ ledger' = ledger
      BY <1>1, <2>3 DEF NextEvent, CallersOK
    <3>2. QED BY <1>1, <3>1 DEF Device
  <2>4. CASE /\ device' = [device EXCEPT ![h].overshoot = FALSE]
             /\ UNCHANGED ledger
    <3>1. device'[h] = [device[h] EXCEPT !.overshoot = FALSE]
      BY <1>1, <2>4 DEF CallersOK
    <3>2. QED BY <1>1, <2>4, <3>1 DEF Device
  <2>5. CASE /\ device[h].held # NoEvent
             /\ device' = [device EXCEPT ![h].held = NoEvent]
             /\ ledger' = Issued(ledger, device[h].held)
    <3>1. device'[h] = [device[h] EXCEPT !.held = NoEvent]
      BY <1>1, <2>5 DEF CallersOK
    <3>2. QED BY <1>1, <2>5, <3>1 DEF Device
  <2>6. QED BY <2>1, <2>2, <2>3, <2>4, <2>5
<1>3. CASE /\ ledger'.start = ledger.start /\ ledger'.issued = ledger.issued
           /\ device'[h].held = device[h].held
  BY <1>1, <1>3, HoldingSame DEF Counts, Made
<1>4. CASE /\ device[h].held # NoEvent /\ device'[h].held = NoEvent
           /\ ledger' = Issued(ledger, device[h].held)
  <2>1. device[h].held.kind = "assertion"
    BY <1>4 DEF Resting
  <2>2. ledger'.start = ledger.start /\ ledger'.issued = ledger.issued + 1
    BY <1>1, <1>4, <2>1, IssuedFacts
  <2>3. Cardinality(Holding)' + 1 = Cardinality(Holding)
    BY <1>1, <1>4, HoldingLess
  <2>4. ledger.issued \in Nat
    BY <1>1 DEF Ledger
  <2>5. Made' = Made
    BY <2>2, <2>3, <2>4, HoldingFinite DEF Made
  <2>6. QED BY <1>1, <2>2, <2>5 DEF Counts
<1>5. QED BY <1>2, <1>3, <1>4

LEMMA GetAssertionCounts ==
    ASSUME TypeOK, NEW h \in Handles, Resting(h), GetAssertion(h)
    PROVE  Counts
<1>1. CallersOK /\ ledger \in Ledger /\ Only(h) /\ device[h] \in Device
      /\ store \in Seq(Record)
      /\ asked[h] \in [serial : Nat, command : Questions]
  BY GetAssertionKept DEF TypeOK, Kept, CallersOK, AuthenticatorOK
<1>2. device[h].held = NoEvent /\ asked[h].command.kind = "GetAssertion"
  BY DEF Resting, GetAssertion, Sections
<1> DEFINE matching == Matching(store, asked[h].command)
           answer == [kind |-> "assertion", ask |-> asked[h].serial,
                      signer |-> matching[1],
                      echoed |-> Echoed(matching[1], knobs.wrongId),
                      number |-> IF Len(matching) > 1 THEN Len(matching) ELSE 0]
<1>3. \/ /\ device' = [device EXCEPT ![h].overshoot = FALSE]
         /\ UNCHANGED <<counter, ledger>>
      \/ /\ Len(matching) # 0
         /\ counter' = NextCount(counter)
         /\ \/ /\ device' = [device EXCEPT ![h].held = answer]
               /\ UNCHANGED ledger
            \/ /\ ledger' = Issued(ledger, answer)
               /\ UNCHANGED device
  BY DEF GetAssertion
<1>4. Len(matching) # 0 => answer.kind = "assertion" /\ answer # NoEvent
  BY <1>1, <1>2, SignedAnswer
<1> HIDE DEF answer, matching
<1>5. CASE /\ device' = [device EXCEPT ![h].overshoot = FALSE]
           /\ UNCHANGED <<counter, ledger>>
  <2>1. device'[h] = [device[h] EXCEPT !.overshoot = FALSE]
    BY <1>1, <1>5 DEF CallersOK
  <2>2. device'[h].held = device[h].held
    BY <1>1, <2>1 DEF Device
  <2>3. QED BY <1>1, <1>5, <2>2, HoldingSame DEF Counts, Made
<1>6. CASE /\ Len(matching) # 0
           /\ counter' = NextCount(counter)
           /\ device' = [device EXCEPT ![h].held = answer]
           /\ UNCHANGED ledger
  <2>1. device'[h] = [device[h] EXCEPT !.held = answer]
    BY <1>1, <1>6 DEF CallersOK
  <2>2. device'[h].held # NoEvent
    BY <1>1, <1>4, <1>6, <2>1 DEF Device
  <2>3. Cardinality(Holding)' = Cardinality(Holding) + 1
    BY <1>1, <1>2, <2>2, HoldingMore
  <2>4. ledger.issued \in Nat
    BY <1>1 DEF Ledger
  <2>5. Made' = Made + 1
    BY <1>6, <2>3, <2>4, HoldingFinite DEF Made
  <2>6. QED BY <1>6, <2>5 DEF Counts
<1>7. CASE /\ Len(matching) # 0
           /\ counter' = NextCount(counter)
           /\ ledger' = Issued(ledger, answer)
           /\ UNCHANGED device
  <2>1. ledger'.start = ledger.start /\ ledger'.issued = ledger.issued + 1
    BY <1>1, <1>4, <1>7, IssuedFacts
  <2>2. Cardinality(Holding)' = Cardinality(Holding)
    BY <1>1, <1>7, HoldingSame
  <2>3. ledger.issued \in Nat
    BY <1>1 DEF Ledger
  <2>4. Made' = Made + 1
    BY <2>1, <2>2, <2>3, HoldingFinite DEF Made
  <2>5. QED BY <1>7, <2>1, <2>4 DEF Counts
<1>8. QED BY <1>3, <1>5, <1>6, <1>7

LEMMA GetNextAssertionCounts ==
    ASSUME TypeOK, NEW h \in Handles, Resting(h), GetNextAssertion(h)
    PROVE  Counts
<1>1. CallersOK /\ ledger \in Ledger /\ Only(h) /\ device' = device
  BY GetNextAssertionKept DEF TypeOK, Kept, GetNextAssertion
<1>2. Cardinality(Holding)' = Cardinality(Holding)
  BY <1>1, HoldingSame
<1>3. CASE queue = <<>>
  <2>1. UNCHANGED <<counter, ledger>>
    BY <1>3 DEF GetNextAssertion
  <2>2. QED BY <1>2, <2>1 DEF Counts, Made
<1>4. CASE queue # <<>>
  <2> DEFINE answer == [kind |-> "next", ask |-> asked[h].serial,
                        signer |-> Head(queue), echoed |-> Head(queue), number |-> 0]
  <2>1. counter' = NextCount(counter) /\ ledger' = Issued(ledger, answer)
    BY <1>4 DEF GetNextAssertion
  <2>2. answer.kind = "next"
    OBVIOUS
  <2> HIDE DEF answer
  <2>3. ledger'.start = ledger.start /\ ledger'.issued = ledger.issued + 1
    BY <1>1, <2>1, <2>2, IssuedFacts
  <2>4. ledger.issued \in Nat
    BY <1>1 DEF Ledger
  <2>5. Made' = Made + 1
    BY <1>2, <2>3, <2>4, HoldingFinite DEF Made
  <2>6. QED BY <2>1, <2>3, <2>5 DEF Counts
<1>5. QED BY <1>3, <1>4

LEMMA CloseCounts ==
    ASSUME TypeOK, NEW h \in Handles, Resting(h), Close(h)
    PROVE  Counts
<1>1. CallersOK /\ ledger \in Ledger /\ Only(h) /\ counter' = counter
  BY CloseKept DEF TypeOK, Kept, Close, core
<1>2. device'[h].held = NoEvent
  BY <1>1 DEF Close, CallersOK, NewDevice
<1>3. /\ ledger'.start = ledger.start
      /\ ledger'.issued = IF device[h].held = NoEvent THEN ledger.issued
                          ELSE ledger.issued + 1
  BY <1>1 DEF Close, Ledger
<1>4. ledger.issued \in Nat
  BY <1>1 DEF Ledger
<1>5. CASE device[h].held = NoEvent
  BY <1>1, <1>2, <1>3, <1>5, HoldingSame DEF Counts, Made
<1>6. CASE device[h].held # NoEvent
  <2>1. Cardinality(Holding)' + 1 = Cardinality(Holding)
    BY <1>1, <1>2, <1>6, HoldingLess
  <2>2. Made' = Made
    BY <1>3, <1>4, <1>6, <2>1, HoldingFinite DEF Made
  <2>3. QED BY <1>1, <1>3, <2>2 DEF Counts
<1>7. QED BY <1>5, <1>6

\* A step that signs nothing and keeps every response where it is.
LEMMA QuietCounts ==
    ASSUME CallersOK,
           \/ UNCHANGED device
           \/ \E h \in Handles : Only(h) /\ device'[h].held = device[h].held,
           counter' = counter,
           ledger'.start = ledger.start, ledger'.issued = ledger.issued
    PROVE  Counts
<1>1. Cardinality(Holding)' = Cardinality(Holding)
  <2>1. CASE UNCHANGED device
    BY <2>1 DEF Holding
  <2>2. ASSUME NEW h \in Handles, Only(h), device'[h].held = device[h].held
        PROVE  Cardinality(Holding)' = Cardinality(Holding)
    BY <2>2, HoldingSame
  <2>3. QED BY <2>1, <2>2
<1>2. QED BY <1>1 DEF Counts, Made

LEMMA RunsCounts ==
    ASSUME TypeOK, NEW h \in Handles, Resting(h),
           \/ Status(h) \/ Keepalives(h) \/ Delay(h)
           \/ Presence(h, "UP", "UV") \/ Presence(h, "UV", "delay")
    PROVE  Counts
<1>1. /\ CallersOK /\ ledger \in Ledger
      /\ device[h] \in Device /\ device \in [Handles -> Device]
  BY DEF TypeOK, CallersOK
<1>2. Only(h)
  BY StatusKept, KeepalivesKept, DelayKept, PresenceKept DEF Kept, Requirements
<1>3. counter' = counter
  BY DEF Status, Keepalives, Delay, Presence
<1>4. ledger'.start = ledger.start /\ ledger'.issued = ledger.issued
  <2>1. \/ UNCHANGED ledger
        \/ Expire(h)
        \/ \E r \in Requirements : ledger' = [ledger EXCEPT !.paid[r] = @ + 1]
    BY DEF Status, Keepalives, Delay, Presence, Requirements
  <2>2. QED BY <1>1, <2>1 DEF Expire, Ledger
<1>5. device'[h].held = device[h].held
  <2>1. \/ UNCHANGED device
        \/ \E events : device' = [device EXCEPT ![h].events = events]
        \/ device' = [device EXCEPT ![h].overshoot = knobs.delay # None]
    BY DEF Status, Keepalives, Delay, Presence
  <2>2. \/ device'[h] = device[h]
        \/ \E events : device'[h] = [device[h] EXCEPT !.events = events]
        \/ device'[h] = [device[h] EXCEPT !.overshoot = knobs.delay # None]
    BY <1>1, <2>1
  <2>3. QED BY <1>1, <2>2 DEF Device
<1>6. QED BY <1>1, <1>2, <1>3, <1>4, <1>5, QuietCounts

LEMMA StepCounts ==
    ASSUME TypeOK, AllRest, [Next]_vars
    PROVE  Counts
<1>1. CallersOK /\ ledger \in Ledger /\ device \in [Handles -> Device]
  BY DEF TypeOK, CallersOK
<1>2. ASSUME NEW h \in Handles, Runs(h) PROVE Counts
  <2>1. Resting(h)
    BY DEF AllRest
  <2>2. QED
    BY <1>2, <2>1, SendCounts, RunsCounts, GetAssertionCounts DEF Runs
<1>3. ASSUME NEW h \in Handles, Connect(h) PROVE Counts
  <2>1. Resting(h) /\ Only(h)
    BY <1>3, ConnectKept DEF AllRest, Kept
  <2>2. device'[h].held = device[h].held
    <3>1. device[h].held = NoEvent
      BY <1>3, <2>1 DEF Resting, Connect
    <3>2. device'[h] = NewDevice
      BY <1>1, <1>3 DEF Connect
    <3>3. QED BY <3>1, <3>2 DEF NewDevice
  <2>3. /\ counter' = counter
        /\ ledger'.start = ledger.start /\ ledger'.issued = ledger.issued
    BY <1>1, <1>3 DEF Connect, core, Ledger
  <2>4. QED BY <1>1, <2>1, <2>2, <2>3, QuietCounts
<1>4. ASSUME NEW h \in Handles,
             \/ GiveUp(h)
             \/ \E c \in Commands, b \in Budgets : Begin(h, c, b)
      PROVE  Counts
  <2>1. /\ counter' = counter /\ device' = device
        /\ ledger'.start = ledger.start /\ ledger'.issued = ledger.issued
    BY <1>1, <1>4 DEF GiveUp, Begin, core, Ledger
  <2>2. QED BY <1>1, <2>1, QuietCounts
<1>5. ASSUME NEW h \in Handles, GetNextAssertion(h) \/ Close(h) PROVE Counts
  <2>1. Resting(h)
    BY DEF AllRest
  <2>2. QED BY <1>5, <2>1, GetNextAssertionCounts, CloseCounts
<1>6. ASSUME NEW rp \in Rps, NEW resident \in BOOLEAN, MakeCredential(rp, resident)
      PROVE  Counts
  <2>1. /\ counter' = NextCount(counter) /\ device' = device
        /\ ledger'.start = ledger.start /\ ledger'.issued = ledger.issued + 1
        /\ ledger.issued \in Nat
    BY <1>1, <1>6 DEF MakeCredential, Ledger
  <2>2. Cardinality(Holding)' = Cardinality(Holding)
    BY <2>1 DEF Holding
  <2>3. Made' = Made + 1
    BY <2>1, <2>2, HoldingFinite DEF Made
  <2>4. QED BY <2>1, <2>3 DEF Counts
<1>7. ASSUME NEW r \in Requirements, Poke(r) \/ \E m \in Modes : SetMode(r, m)
      PROVE  Counts
  <2>1. /\ counter' = counter /\ device' = device
        /\ ledger'.start = ledger.start /\ ledger'.issued = ledger.issued
    BY <1>1, <1>7 DEF Poke, SetMode, Ledger
  <2>2. QED BY <1>1, <2>1, QuietCounts
<1>8. ASSUME NEW k \in Settings, Arm(k) PROVE Counts
  <2>1. counter' = counter /\ device' = device /\ ledger' = ledger
    BY <1>8 DEF Arm
  <2>2. QED BY <1>1, <2>1, QuietCounts
<1>9. ASSUME NEW s \in Snapshots, Import(s) PROVE Counts
  <2>1. ledger'.imported
    BY <1>1, <1>9 DEF Import, Ledger
  <2>2. QED BY <2>1 DEF Counts
<1>10. ASSUME UNCHANGED vars PROVE Counts
  <2>1. counter' = counter /\ device' = device /\ ledger' = ledger
    BY <1>10 DEF vars
  <2>2. QED BY <1>1, <2>1, QuietCounts
<1>11. QED BY <1>2, <1>3, <1>4, <1>5, <1>6, <1>7, <1>8, <1>9, <1>10 DEF Next

CountInv == ~ledger.imported => counter = (ledger.start + Made) % Width

LEMMA CountInit == Init => CountInv
<1> SUFFICES ASSUME Init PROVE CountInv OBVIOUS
<1>1. PICK minted \in Fixtures, start \in Starts :
         /\ counter = (start + Len(minted)) % Width
         /\ ledger = [NewLedger(start) EXCEPT !.issued = Len(minted)]
  BY DEF Init
<1>2. ledger.start = start /\ ledger.issued = Len(minted)
  BY <1>1 DEF NewLedger
<1>3. Holding = {}
  BY DEF Init, Holding, NewDevice
<1>4. Cardinality(Holding) = 0
  BY <1>3, FS_EmptySet
<1>5. Len(minted) \in Nat
  BY SoftAssumption
<1>6. Made = Len(minted)
  BY <1>2, <1>4, <1>5 DEF Made
<1>7. QED BY <1>1, <1>2, <1>6 DEF CountInv

LEMMA CountStep == AnswerInv /\ CountInv /\ [Next]_vars => CountInv'
<1> SUFFICES ASSUME AnswerInv, CountInv, [Next]_vars, ~ledger'.imported
             PROVE  counter' = (ledger'.start + Made') % Width
  BY DEF CountInv
<1>1. TypeOK /\ AllRest /\ ledger \in Ledger
  BY DEF AnswerInv, TypeOK
<1>2. Counts
  BY <1>1, StepCounts
<1>3. ~ledger.imported
  <2>1. ledger.imported => ledger'.imported
    BY <1>1, StepCases DEF Uncounted, Ledger
  <2>2. QED BY <2>1
<1>4. counter = (ledger.start + Made) % Width
  BY <1>3 DEF CountInv
<1>5. ledger.start \in Nat /\ Made \in Nat
  BY <1>1, HoldingFinite DEF Ledger, Made
<1>6. CASE counter' = counter /\ Made' = Made /\ ledger'.start = ledger.start
  BY <1>4, <1>6
<1>7. CASE counter' = NextCount(counter) /\ Made' = Made + 1 /\ ledger'.start = ledger.start
  <2> DEFINE a == ledger.start + Made
  <2>1. a \in Nat /\ ledger'.start + Made' = a + 1
    BY <1>5, <1>7
  <2>2. counter' = ((a % Width) + 1) % Width
    BY <1>4, <1>7 DEF NextCount
  <2> HIDE DEF a
  <2>3. ((a % Width) + 1) % Width = (a + 1) % Width
    BY <2>1, WidthPositive, CountOn
  <2>4. QED BY <2>1, <2>2, <2>3
<1>8. QED BY <1>2, <1>6, <1>7 DEF Counts

\* Modulo the width of the counter, and until a snapshot sets it, the counter
\* has moved once for every credential minted and every assertion signed,
\* whether it was handed out, is held back or was dropped with its device
\* (sign_assertion, make_credential).
THEOREM CounterCountsSignatures == Spec => []OneCountPerAssertion
<1>1. Spec => [](AnswerInv /\ CountInv)
  BY AnswerInit, AnswerStep, CountInit, CountStep, PTL DEF Spec
<1>2. AnswerInv /\ CountInv => OneCountPerAssertion
  <2> SUFFICES ASSUME AnswerInv, CountInv, ~ledger.imported
               PROVE  counter = (ledger.start + ledger.issued + Cardinality(Holding)) % Width
    BY DEF OneCountPerAssertion, Holding
  <2>1. ledger.start \in Nat /\ ledger.issued \in Nat /\ Cardinality(Holding) \in Nat
    BY HoldingFinite DEF AnswerInv, TypeOK, Ledger
  <2>2. ledger.start + Made = ledger.start + ledger.issued + Cardinality(Holding)
    BY <2>1 DEF Made
  <2>3. QED BY <2>2 DEF CountInv
<1>3. QED BY <1>1, <1>2, PTL
=============================================================================
