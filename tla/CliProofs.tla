------------------------------ MODULE CliProofs ------------------------------
(***************************************************************************)
(* Proofs about a run of the command line client: that discovery misses no  *)
(* key and invents none while devices come and go, and that a run which     *)
(* finds nothing says why.                                                  *)
(***************************************************************************)
EXTENDS Cli, DataLemmas

-----------------------------------------------------------------------------
(* Sequences and what they hold.                                           *)

\* The elements of a concatenation.
LEMMA ConcatHolds ==
    ASSUME NEW X, NEW s \in Seq(X), NEW t \in Seq(X)
    PROVE  s \o t \in Seq(X) /\ ToSet(s \o t) = ToSet(s) \cup ToSet(t)
<1> DEFINE u == s \o t
<1>1. /\ u \in Seq(X) /\ Len(s) \in Nat /\ Len(t) \in Nat
      /\ Len(u) = Len(s) + Len(t)
      /\ DOMAIN u = 1..Len(u) /\ DOMAIN s = 1..Len(s) /\ DOMAIN t = 1..Len(t)
      /\ \A k \in 1..Len(s) : u[k] = s[k]
      /\ \A k \in Len(s)+1..Len(s)+Len(t) : u[k] = t[k - Len(s)]
  BY ConcatElements
<1> HIDE DEF u
<1>2. ASSUME NEW k \in DOMAIN u PROVE u[k] \in ToSet(s) \cup ToSet(t)
  <2>1. CASE k <= Len(s)
    <3>1. k \in DOMAIN s /\ u[k] = s[k]
      BY <1>1, <2>1
    <3>2. QED BY <3>1 DEF ToSet
  <2>2. CASE k > Len(s)
    <3>1. k - Len(s) \in DOMAIN t /\ u[k] = t[k - Len(s)]
      BY <1>1, <2>2
    <3>2. QED BY <3>1 DEF ToSet
  <2>3. QED BY <1>1, <2>1, <2>2
<1>3. ASSUME NEW k \in DOMAIN s PROVE s[k] \in ToSet(u)
  <2>1. k \in DOMAIN u /\ u[k] = s[k]
    BY <1>1
  <2>2. QED BY <2>1 DEF ToSet
<1>4. ASSUME NEW k \in DOMAIN t PROVE t[k] \in ToSet(u)
  <2>1. k + Len(s) \in DOMAIN u /\ u[k + Len(s)] = t[k]
    BY <1>1
  <2>2. QED BY <2>1 DEF ToSet
<1>5. ToSet(u) = ToSet(s) \cup ToSet(t)
  <2>1. ToSet(u) \subseteq ToSet(s) \cup ToSet(t)
    BY <1>2 DEF ToSet
  <2>2. ToSet(s) \cup ToSet(t) \subseteq ToSet(u)
    BY <1>3, <1>4 DEF ToSet
  <2>3. QED BY <2>1, <2>2
<1>6. QED BY <1>1, <1>5 DEF u

\* One more.
LEMMA AppendHolds ==
    ASSUME NEW X, NEW s \in Seq(X), NEW x \in X
    PROVE  /\ Append(s, x) \in Seq(X) /\ ToSet(Append(s, x)) = ToSet(s) \cup {x}
           /\ IsInjective(s) /\ x \notin ToSet(s) => IsInjective(Append(s, x))
<1> DEFINE u == Append(s, x)
<1>1. /\ u \in Seq(X) /\ Len(s) \in Nat
      /\ DOMAIN u = 1..Len(s) + 1 /\ DOMAIN s = 1..Len(s)
      /\ \A k \in 1..Len(s) : u[k] = s[k]
      /\ u[Len(s) + 1] = x
  OBVIOUS
<1> HIDE DEF u
<1>2. \A k \in DOMAIN u : k \in DOMAIN s \/ k = Len(s) + 1
  BY <1>1
<1>3. DOMAIN s \subseteq DOMAIN u /\ Len(s) + 1 \in DOMAIN u
  BY <1>1
<1>4. ToSet(u) = ToSet(s) \cup {x}
  BY <1>1, <1>2, <1>3 DEF ToSet
<1>5. ASSUME IsInjective(s), x \notin ToSet(s) PROVE IsInjective(u)
  <2>1. \A k \in DOMAIN s : u[k] = s[k] /\ s[k] # x
    BY <1>1, <1>5 DEF ToSet
  <2>2. QED BY <1>1, <1>2, <1>5, <2>1 DEF IsInjective
<1>6. QED BY <1>1, <1>4, <1>5 DEF u

\* A set in some order holds what the set does.
LEMMA Ordered ==
    ASSUME NEW S, IsFiniteSet(S)
    PROVE  /\ Cardinality(S) \in Nat
           /\ SetToSeq(S) \in [1..Cardinality(S) -> S]
           /\ \A x \in S : \E i \in 1..Cardinality(S) : SetToSeq(S)[i] = x
<1> DEFINE n == Cardinality(S)
<1>1. n \in Nat /\ \E f \in [1..n -> S] : IsInjective(f)
  BY Enumerated DEF IsInjective
<1>2. SetToSeq(S) \in [1..n -> S] /\ IsInjective(SetToSeq(S))
  BY <1>1 DEF SetToSeq
<1>3. \A x \in S : \E i \in 1..n : SetToSeq(S)[i] = x
  BY <1>2, Enumerated DEF IsInjective
<1>4. QED BY <1>1, <1>2, <1>3

-----------------------------------------------------------------------------
(* Arguments.                                                              *)

Flags == {"--device", "--budget", "--rp", "--allow"}

\* What the loop over a command's tokens may have made of them.
Parses(command) ==
    [command : {command}, want : Flags \cup {None},
     failed : Misuses \cup {None}, device : STRING \cup {None}, rp : STRING \cup {None},
     allow : SUBSET STRING, first : BOOLEAN, demo : BOOLEAN]

LEMMA NothingTaken ==
    ASSUME NEW command PROVE NewInvocation(command) \in Parses(command)
BY DEF NewInvocation, Parses

\* One token keeps that up.
LEMMA TokenTaken ==
    ASSUME NEW command \in {"info", "assert"}, NEW parsed \in Parses(command),
           NEW token \in STRING
    PROVE  TakeToken(parsed, token) \in Parses(command)
<1>1. None \notin STRING
  BY CliAssumption
<1>2. parsed.command = command /\ parsed.want \in Flags \cup {None}
  BY DEF Parses, Misuses
<1>3. CASE parsed.failed # None
  <2>1. TakeToken(parsed, token) = parsed
    BY <1>3 DEF TakeToken
  <2>2. QED BY <2>1
<1>4. CASE parsed.failed = None /\ parsed.want # None
  <2>1. TakeToken(parsed, token) = TakeValue(parsed, token)
    BY <1>4 DEF TakeToken
  <2>2. parsed.want \in Flags
    BY <1>2, <1>4
  <2>3. CASE parsed.want = "--device"
    <3>1. TakeValue(parsed, token) = [[parsed EXCEPT !.want = None] EXCEPT !.device = token]
      BY <2>3 DEF TakeValue
    <3>2. QED BY <2>1, <3>1 DEF Parses, Misuses
  <2>4. CASE parsed.want = "--rp"
    <3>1. TakeValue(parsed, token) = [[parsed EXCEPT !.want = None] EXCEPT !.rp = token]
      BY <2>4 DEF TakeValue
    <3>2. QED BY <2>1, <3>1 DEF Parses, Misuses
  <2>5. CASE parsed.want = "--budget"
    <3>1. TakeValue(parsed, token) =
             IF token \in BudgetTokens THEN [parsed EXCEPT !.want = None]
             ELSE [[parsed EXCEPT !.want = None] EXCEPT !.failed = "BadBudget"]
      BY <2>5 DEF TakeValue
    <3> DEFINE taken == [parsed EXCEPT !.want = None]
    <3>2. taken \in Parses(command)
      BY DEF Parses
    <3> HIDE DEF taken
    <3>3. [taken EXCEPT !.failed = "BadBudget"] \in Parses(command)
      BY <3>2 DEF Parses, Misuses
    <3>4. [taken EXCEPT !.allow = @ \cup {token}] \in Parses(command)
      BY <3>2 DEF Parses
    <3>5. QED BY <2>1, <3>1, <3>2, <3>3, <3>4 DEF taken
  <2>6. CASE parsed.want = "--allow"
    <3>1. TakeValue(parsed, token) =
             IF token \in HexTokens
             THEN [[parsed EXCEPT !.want = None] EXCEPT !.allow = @ \cup {token}]
             ELSE [[parsed EXCEPT !.want = None] EXCEPT !.failed = "BadHex"]
      BY <2>6 DEF TakeValue
    <3> DEFINE taken == [parsed EXCEPT !.want = None]
    <3>2. taken \in Parses(command)
      BY DEF Parses
    <3> HIDE DEF taken
    <3>3. [taken EXCEPT !.failed = "BadHex"] \in Parses(command)
      BY <3>2 DEF Parses, Misuses
    <3>4. [taken EXCEPT !.allow = @ \cup {token}] \in Parses(command)
      BY <3>2 DEF Parses
    <3>5. QED BY <2>1, <3>1, <3>2, <3>3, <3>4 DEF taken
  <2>7. QED BY <2>2, <2>3, <2>4, <2>5, <2>6 DEF Flags
<1>5. CASE parsed.failed = None /\ parsed.want = None
  <2>1. CASE token \in ValueFlags[command]
    <3>0. token \notin BareFlags[command]
      BY <2>1 DEF ValueFlags, BareFlags
    <3>1. TakeToken(parsed, token) = [parsed EXCEPT !.want = token]
      BY <1>2, <1>5, <2>1, <3>0 DEF TakeToken
    <3>2. token \in Flags
      BY <2>1 DEF ValueFlags, Flags
    <3>3. QED BY <3>1, <3>2 DEF Parses, Misuses
  <2>2. CASE token \notin ValueFlags[command] /\ token \in BareFlags[command]
    <3>1. TakeToken(parsed, token) = IF token = "--first" THEN [parsed EXCEPT !.first = TRUE]
                                     ELSE [parsed EXCEPT !.demo = TRUE]
      BY <1>2, <1>5, <2>2 DEF TakeToken
    <3>2. command = "assert"
      BY <2>2 DEF BareFlags
    <3>3. QED BY <3>1, <3>2 DEF Parses, Misuses
  <2>3. CASE token \notin ValueFlags[command] /\ token \notin BareFlags[command]
    <3>1. TakeToken(parsed, token) = [parsed EXCEPT !.failed = "UnknownFlag"]
      BY <1>2, <1>5, <2>3 DEF TakeToken
    <3>2. QED BY <3>1 DEF Parses, Misuses
  <2>4. QED BY <2>1, <2>2, <2>3
<1>6. QED BY <1>3, <1>4, <1>5

\* The loop: the function that says what it has after each token exists, and
\* what it has is well formed after every one.
LEMMA TokensTaken ==
    ASSUME NEW command \in {"info", "assert"}, NEW tokens \in Seq(STRING)
    PROVE  Taken(command, tokens) \in Parses(command)
<1> DEFINE n == Len(tokens)
           Loop(f, m) == f = [k \in 0..m |-> IF k = 0 THEN NewInvocation(command)
                                            ELSE TakeToken(f[k - 1], tokens[k])]
           Defined == {m \in Nat : \E f : Loop(f, m)}
<1>1. n \in Nat /\ \A k \in 1..n : tokens[k] \in STRING
  OBVIOUS
<1>2. 0 \in Defined
  <2>1. Loop([k \in 0..0 |-> NewInvocation(command)], 0)
    OBVIOUS
  <2>2. QED BY <2>1
<1>3. ASSUME NEW m \in Nat, m \in Defined PROVE m + 1 \in Defined
  <2>1. PICK f : Loop(f, m)
    BY <1>3
  <2> DEFINE next == TakeToken(f[m], tokens[m + 1])
             g == [k \in 0..m + 1 |-> IF k = m + 1 THEN next ELSE f[k]]
  <2>2. ASSUME NEW k \in 0..m + 1
        PROVE  g[k] = IF k = 0 THEN NewInvocation(command)
                      ELSE TakeToken(g[k - 1], tokens[k])
    <3> HIDE DEF next
    <3>1. CASE k = 0
      BY <2>1, <3>1
    <3>2. CASE k # 0 /\ k <= m
      <4>1. k \in 0..m /\ k - 1 \in 0..m /\ k # m + 1 /\ k - 1 # m + 1
        BY <3>2
      <4>2. g[k] = f[k] /\ g[k - 1] = f[k - 1]
        BY <4>1
      <4>3. QED BY <2>1, <3>2, <4>1, <4>2
    <3>3. CASE k = m + 1
      <4>1. g[k] = next /\ g[k - 1] = f[m]
        BY <3>3
      <4>2. QED BY <3>3, <4>1 DEF next
    <3>4. QED BY <3>1, <3>2, <3>3
  <2>3. Loop(g, m + 1)
    <3> HIDE DEF next
    <3>1. QED BY <2>2
  <2> HIDE DEF g
  <2>4. QED BY <2>3
<1>4. n \in Defined
  <2> HIDE DEF Defined
  <2>1. QED BY <1>1, <1>2, <1>3, SetInduction
<1> DEFINE after == CHOOSE f : Loop(f, n)
<1>5. Loop(after, n)
  BY <1>4
<1>6. Taken(command, tokens) = after[n]
  BY DEF Taken
<1> HIDE DEF after
<1> DEFINE Kept == {m \in Nat : m <= n => after[m] \in Parses(command)}
<1>7. 0 \in Kept
  <2>1. after[0] = NewInvocation(command)
    BY <1>1, <1>5
  <2>2. QED BY <2>1, NothingTaken
<1>8. ASSUME NEW m \in Nat, m \in Kept PROVE m + 1 \in Kept
  <2>1. SUFFICES ASSUME m + 1 <= n PROVE after[m + 1] \in Parses(command)
    OBVIOUS
  <2>2. after[m] \in Parses(command)
    BY <1>1, <1>8, <2>1
  <2>3. after[m + 1] = TakeToken(after[m], tokens[m + 1])
    BY <1>1, <1>5, <2>1
  <2>4. tokens[m + 1] \in STRING
    BY <1>1, <2>1
  <2>5. QED BY <2>2, <2>3, <2>4, TokenTaken
<1>9. n \in Kept
  <2> HIDE DEF Kept
  <2>1. QED BY <1>1, <1>7, <1>8, SetInduction
<1>10. QED BY <1>1, <1>6, <1>9

\* What a run goes on with: a command it knows, with what the command needs.
LEMMA ParseUnderstands ==
    ASSUME NEW argv \in Argvs, Parse(argv).failed = None
    PROVE  /\ Parse(argv).command \in {"help", "list", "info", "assert"}
           /\ Parse(argv).command = "assert" => Parse(argv).rp # None
           /\ Parse(argv).demo => Parse(argv).command \in {"info", "assert"}
<1> DEFINE command == Head(argv)
           parsed == Taken(command, Tail(argv))
<1>1. argv \in Seq(STRING) /\ None \notin STRING
  BY CliAssumption
<1>2. argv # <<>>
  <2>1. argv = <<>> => Parse(argv).failed = "MissingCommand"
    BY DEF Parse, NewInvocation
  <2>2. "MissingCommand" # None
    BY CliAssumption DEF Misuses
  <2>3. QED BY <2>1, <2>2
<1>3. Tail(argv) \in Seq(STRING)
  BY <1>1, <1>2
<1>4. CASE command \in {"help", "--help", "-h"}
  <2>1. Parse(argv) = NewInvocation("help")
    BY <1>2, <1>4 DEF Parse, ValueFlags
  <2>2. QED BY <2>1 DEF NewInvocation
<1>5. CASE command = "list"
  <2>1. \/ Parse(argv) = NewInvocation("list")
        \/ Parse(argv) = [NewInvocation("list") EXCEPT !.failed = "UnknownFlag"]
    BY <1>2, <1>5 DEF Parse, ValueFlags
  <2>2. QED BY <2>1 DEF NewInvocation
<1>6. CASE command \in {"info", "assert"}
  <2>1. Parse(argv) = Complete(parsed)
    BY <1>2, <1>6 DEF Parse, ValueFlags
  <2>2. parsed \in Parses(command)
    BY <1>3, <1>6, TokensTaken
  <2>3. parsed.command \in {"info", "assert"}
    BY <1>6, <2>2 DEF Parses
  <2> HIDE DEF parsed
  <2>4. "MissingValue" # None /\ "MissingRp" # None
    BY CliAssumption DEF Misuses
  <2>5. ~(parsed.failed = None /\ parsed.want # None)
    <3>1. ASSUME parsed.failed = None, parsed.want # None PROVE FALSE
      <4>1. Complete(parsed) = [parsed EXCEPT !.failed = "MissingValue"]
        BY <3>1 DEF Complete
      <4>2. Complete(parsed).failed = "MissingValue"
        BY <2>2, <4>1 DEF Parses
      <4>3. QED BY <2>1, <2>4, <4>2
    <3>2. QED BY <3>1
  <2>6. ~(parsed.failed = None /\ parsed.want = None
          /\ parsed.command = "assert" /\ parsed.rp = None)
    <3>1. ASSUME parsed.failed = None, parsed.want = None, parsed.command = "assert",
                 parsed.rp = None
          PROVE  FALSE
      <4>1. Complete(parsed) = [parsed EXCEPT !.failed = "MissingRp"]
        BY <3>1 DEF Complete
      <4>2. Complete(parsed).failed = "MissingRp"
        BY <2>2, <4>1 DEF Parses
      <4>3. QED BY <2>1, <2>4, <4>2
    <3>2. QED BY <3>1
  <2>7. Complete(parsed) = parsed
    BY <2>5, <2>6 DEF Complete
  <2>8. QED BY <2>1, <2>3, <2>5, <2>6, <2>7
<1>7. CASE command \notin {"help", "--help", "-h", "list", "info", "assert"}
  <2>1. Parse(argv) = [NewInvocation("none") EXCEPT !.failed = "UnknownCommand"]
    BY <1>2, <1>7 DEF Parse, ValueFlags
  <2>2. "UnknownCommand" # None
    BY CliAssumption DEF Misuses
  <2>3. QED BY <2>1, <2>2 DEF NewInvocation
<1>8. QED BY <1>4, <1>5, <1>6, <1>7

-----------------------------------------------------------------------------
(* Output.                                                                 *)

Listed(s) == s \in Seq(ToSet(s))

LEMMA ListedConcat ==
    ASSUME NEW s, Listed(s), NEW t, Listed(t)
    PROVE  Listed(s \o t) /\ ToSet(s \o t) = ToSet(s) \cup ToSet(t)
<1> DEFINE X == ToSet(s) \cup ToSet(t)
<1>1. s \in Seq(X) /\ t \in Seq(X)
  <2>1. s \in Seq(ToSet(s)) /\ t \in Seq(ToSet(t))
    BY DEF Listed
  <2>2. ToSet(s) \subseteq X /\ ToSet(t) \subseteq X
    OBVIOUS
  <2> HIDE DEF X
  <2>3. QED BY <2>1, <2>2
<1> HIDE DEF X
<1>2. s \o t \in Seq(X) /\ ToSet(s \o t) = X
  BY <1>1, ConcatHolds DEF X
<1>3. QED BY <1>2 DEF Listed, X

LEMMA ListedFew ==
    /\ Listed(<<>>) /\ ToSet(<<>>) = {}
    /\ \A x : Listed(<<x>>) /\ ToSet(<<x>>) = {x}
<1>1. Listed(<<>>) /\ ToSet(<<>>) = {}
  BY DEF Listed, ToSet
<1>2. ASSUME NEW x PROVE Listed(<<x>>) /\ ToSet(<<x>>) = {x}
  <2>1. DOMAIN <<x>> = {1} /\ <<x>>[1] = x
    OBVIOUS
  <2>2. ToSet(<<x>>) = {x}
    BY <2>1 DEF ToSet
  <2>3. QED BY <2>2 DEF Listed
<1>3. QED BY <1>1, <1>2

LEMMA ListedFunction ==
    ASSUME NEW n \in Nat, NEW s, DOMAIN s = 1..n, s = [i \in DOMAIN s |-> s[i]]
    PROVE  Listed(s)
<1>1. \A i \in 1..n : s[i] \in ToSet(s)
  BY DEF ToSet
<1>2. s \in [1..n -> ToSet(s)]
  BY <1>1
<1>3. QED BY <1>2 DEF Listed

LEMMA EachListed ==
    ASSUME NEW says, NEW S, IsFiniteSet(S)
    PROVE  /\ Listed(Each(says, S))
           /\ ToSet(Each(says, S)) = {About(Err(says), x) : x \in S}
<1> DEFINE n == Cardinality(S)
           order == SetToSeq(S)
           s == [i \in 1..n |-> About(Err(says), order[i])]
<1>1. /\ n \in Nat /\ order \in [1..n -> S]
      /\ \A x \in S : \E i \in 1..n : order[i] = x
  BY Ordered
<1>2. Each(says, S) = s
  BY DEF Each
<1> HIDE DEF n, order
<1>3. Listed(s)
  <2>1. DOMAIN s = 1..n /\ s = [i \in DOMAIN s |-> s[i]]
    OBVIOUS
  <2> HIDE DEF s
  <2>2. QED BY <1>1, <2>1, ListedFunction
<1>4. ToSet(s) = {About(Err(says), x) : x \in S}
  <2>1. ToSet(s) = {About(Err(says), order[i]) : i \in 1..n}
    BY DEF ToSet
  <2>2. QED BY <1>1, <2>1
<1>5. QED BY <1>2, <1>3, <1>4

\* What an error is printed as, and that for want of a device its causes are.
LEMMA ErrorsListed ==
    ASSUME NEW error,
           \/ /\ error.variant = "NoDevice" /\ IsFiniteSet(error.causes)
           \/ /\ error.variant = "AmbiguousDevice" /\ IsFiniteSet(error.candidates)
           \/ error.variant \notin {"NoDevice", "AmbiguousDevice"}
    PROVE  /\ Listed(ErrorLines(error))
           /\ About(Err("error"), error.variant) \in ToSet(ErrorLines(error))
           /\ \A line \in ToSet(ErrorLines(error)) :
                 /\ line.says \in {"error", "cause", "candidate", "hint"}
                 /\ line.says = "error" => line.about = error.variant
           /\ error.variant = "NoDevice" =>
                 \A x \in error.causes : About(Err("cause"), x) \in ToSet(ErrorLines(error))
<1> DEFINE first == <<About(Err("error"), error.variant)>>
           body == CASE error.variant = "NoDevice" -> Causes(error.causes)
                     [] error.variant = "AmbiguousDevice" ->
                           Each("candidate", error.candidates)
                     [] OTHER -> <<>>
           hint == IF error.variant = "Ctap" THEN <<>> ELSE <<Err("hint")>>
<1>1. ErrorLines(error) = first \o body \o hint
  BY DEF ErrorLines
<1>2. /\ Listed(first) /\ ToSet(first) = {About(Err("error"), error.variant)}
      /\ Listed(hint) /\ ToSet(hint) \subseteq {Err("hint")}
  BY ListedFew
<1>3. /\ Listed(body)
      /\ \A line \in ToSet(body) : \E x : \/ line = About(Err("cause"), x)
                                          \/ line = About(Err("candidate"), x)
      /\ error.variant = "NoDevice" =>
            \A x \in error.causes : About(Err("cause"), x) \in ToSet(body)
  <2>1. CASE error.variant = "NoDevice"
    <3>1. body = Each("cause", error.causes)
      BY <2>1 DEF Causes
    <3>2. QED BY <2>1, <3>1, EachListed
  <2>2. CASE error.variant = "AmbiguousDevice"
    <3>1. body = Each("candidate", error.candidates)
      BY <2>2
    <3>2. QED BY <2>2, <3>1, EachListed
  <2>3. CASE error.variant \notin {"NoDevice", "AmbiguousDevice"}
    <3>1. body = <<>>
      BY <2>3
    <3>2. QED BY <2>3, <3>1, ListedFew
  <2>4. QED BY <2>1, <2>2, <2>3
<1> HIDE DEF first, body, hint
<1>4. Listed(first \o body) /\ ToSet(first \o body) = ToSet(first) \cup ToSet(body)
  BY <1>2, <1>3, ListedConcat
<1>5. /\ Listed(first \o body \o hint)
      /\ ToSet(first \o body \o hint) = ToSet(first) \cup ToSet(body) \cup ToSet(hint)
  BY <1>2, <1>4, ListedConcat
<1>6. \A says, x : About(Err(says), x).says = says /\ About(Err(says), x).about = x
  BY DEF About, Err
<1>7. Err("hint").says = "hint"
  BY DEF Err
<1>8. ASSUME NEW line \in ToSet(first \o body \o hint)
      PROVE  /\ line.says \in {"error", "cause", "candidate", "hint"}
             /\ line.says = "error" => line.about = error.variant
  <2>1. CASE line \in ToSet(first)
    BY <1>2, <1>6, <2>1
  <2>2. CASE line \in ToSet(body)
    BY <1>3, <1>6, <2>2
  <2>3. CASE line \in ToSet(hint)
    BY <1>2, <1>7, <2>3
  <2>4. QED BY <1>5, <1>8, <2>1, <2>2, <2>3
<1>9. QED BY <1>1, <1>2, <1>3, <1>5, <1>8

\* What the lines of a run that ends with a status must say.
Explains(report, status) ==
    /\ Listed(report)
    /\ \A line \in ToSet(report) :
          line.says = "error" => line.about \in Errors \cup {"Ctap"} /\ status = 1
    /\ status = 1 => \E line \in ToSet(report) : line.says = "error"
    /\ status = 1 /\ (\/ invocation.command = "assert"
                      \/ \E line \in ToSet(report) :
                            line.says = "error" /\ line.about = "NoDevice")
       => \A x \in failed : \E line \in ToSet(report) : line.says = "cause" /\ line.about = x
    /\ (\E line \in ToSet(report) : line.says = "nothing") => failed = {}

\* Before the end there is nothing to show.
Silent == pc # "exit" => lines = <<>> /\ screen = <<>> /\ code = None

LEMMA ExitShows ==
    ASSUME Silent, pc # "exit", NEW report, Listed(report), NEW status, Exit(report, status)
    PROVE  lines' = report /\ screen' = report /\ code' = status /\ pc' = "exit"
<1>1. <<>> \o report = report
  BY DEF Listed
<1>2. QED BY <1>1 DEF Exit, Silent

\* However a command fails, it says what with and why.
LEMMA FailExplains ==
    ASSUME Silent, pc # "exit", NEW error, Fail(error) \/ FailAssert(error),
           failed \subseteq {"pcsc"},
           \/ /\ error.variant = "NoDevice" /\ IsFiniteSet(error.causes)
              /\ invocation.command # "assert" => error.causes = failed
           \/ /\ error.variant = "AmbiguousDevice" /\ IsFiniteSet(error.candidates)
           \/ error.variant \in ExchangeErrors \cup {"Transport"}
    PROVE  \E report : /\ Explains(report, 1)
                       /\ lines' = report /\ screen' = report /\ code' = 1 /\ pc' = "exit"
<1> DEFINE said == ErrorLines(error)
<1>1. error.variant \in ExchangeErrors => error.variant \notin {"NoDevice", "AmbiguousDevice"}
  BY CliAssumption
<1>2. /\ Listed(said)
      /\ About(Err("error"), error.variant) \in ToSet(said)
      /\ \A line \in ToSet(said) :
            /\ line.says \in {"error", "cause", "candidate", "hint"}
            /\ line.says = "error" => line.about = error.variant
      /\ error.variant = "NoDevice" =>
            \A x \in error.causes : About(Err("cause"), x) \in ToSet(said)
  BY <1>1, ErrorsListed
<1>3. error.variant \in Errors
  BY DEF Errors
<1>4. \A says, x : About(Err(says), x).says = says /\ About(Err(says), x).about = x
  BY DEF About, Err
<1> HIDE DEF said
<1>5. CASE ~FailAssert(error)
  <2>1. Exit(said, 1) /\ invocation.command # "assert"
    BY <1>5 DEF Fail, said
  <2>2. Explains(said, 1)
    <3>1. error.variant = "NoDevice" =>
             \A x \in failed : \E line \in ToSet(said) :
                 line.says = "cause" /\ line.about = x
      BY <1>1, <1>2, <1>4, <2>1
    <3>2. ~\E line \in ToSet(said) : line.says = "nothing"
      BY <1>2
    <3>3. \E line \in ToSet(said) : line.says = "error"
      BY <1>2, <1>4
    <3>4. QED BY <1>2, <1>3, <2>1, <3>1, <3>2, <3>3 DEF Explains
  <2>3. QED BY <1>2, <2>1, <2>2, ExitShows
<1>6. CASE FailAssert(error)
  <2> DEFINE why == Causes(failed)
             report == why \o said
  <2>1. Exit(report, 1)
    BY <1>6 DEF FailAssert, said
  <2>2. IsFiniteSet(failed)
    <3>1. IsFiniteSet({"pcsc"})
      BY FS_Singleton
    <3>2. QED BY <3>1, FS_Subset
  <2>3. Listed(why) /\ ToSet(why) = {About(Err("cause"), x) : x \in failed}
    BY <2>2, EachListed DEF Causes
  <2> HIDE DEF why
  <2>4. Listed(report) /\ ToSet(report) = ToSet(why) \cup ToSet(said)
    BY <1>2, <2>3, ListedConcat
  <2> HIDE DEF report
  <2>5. ASSUME NEW line \in ToSet(report)
        PROVE  /\ line.says # "nothing"
               /\ line.says = "error" => line.about = error.variant
    <3>1. CASE line \in ToSet(why)
      <4>1. PICK x \in failed : line = About(Err("cause"), x)
        BY <2>3, <3>1
      <4>2. line.says = "cause"
        BY <1>4, <4>1
      <4>3. QED BY <4>2
    <3>2. CASE line \in ToSet(said)
      BY <1>2, <3>2
    <3>3. QED BY <2>4, <2>5, <3>1, <3>2
  <2>6. \E line \in ToSet(report) : line.says = "error"
    BY <1>2, <1>4, <2>4
  <2>7. \A x \in failed : \E line \in ToSet(report) : line.says = "cause" /\ line.about = x
    BY <1>4, <2>3, <2>4
  <2>8. Explains(report, 1)
    BY <1>3, <2>4, <2>5, <2>6, <2>7 DEF Explains
  <2>9. QED BY <2>1, <2>4, <2>8, ExitShows
<1>7. QED BY <1>5, <1>6

-----------------------------------------------------------------------------
(* The invariant.                                                          *)

HidIds == {Hid(n) : n \in ToSet(Nodes)}
PcscIds == {Pcsc(r) : r \in ToSet(Readers)}

\* A command goes on with what it needs.
Understood ==
    /\ pc \notin {"start", "exit"} =>
          /\ invocation.failed = None
          /\ invocation.command \in {"list", "info", "assert"}
          /\ invocation.command = "assert" => invocation.rp # None
    /\ pc \in {"demo", "connect", "exchange"} => invocation.command # "list"

Shaped ==
    /\ pc \in {"start", "readdir", "node", "reader", "select", "connect", "demo", "exchange",
               "exit"}
    /\ unread \subseteq HidIds
    /\ failed \subseteq {"pcsc"}
    /\ pc \in Discovering => failed = {}

Reported ==
    pc = "exit" => code \in {0, 1, 2} /\ screen = lines /\ Explains(lines, code)

\* What discovery keeps of the candidates.
Tracked ==
    /\ steady \subseteq ever /\ steady \subseteq Ids
    /\ pc \in Discovering => steady \subseteq Candidates(bus) /\ Candidates(bus) \subseteq ever
    /\ found \in [hid : Seq(HidIds), pcsc : Seq(PcscIds)]
    /\ IsInjective(found.hid) /\ IsInjective(found.pcsc)
    /\ ToSet(found.hid) \cup ToSet(found.pcsc) \subseteq ever

\* What was there all along is found, could not be read, or has still to be read;
\* and what has still to be read is not found yet.
Walked ==
    /\ pc \in {"start", "readdir", "demo"} => found = [hid |-> <<>>, pcsc |-> <<>>]
    /\ pc \notin {"node", "reader"} => scan = {}
    /\ pc = "node" =>
          /\ scan \subseteq DOMAIN Nodes /\ found.pcsc = <<>>
          /\ \A i \in scan : Hid(Nodes[i]) \notin ToSet(found.hid)
          /\ \A i \in DOMAIN Nodes \ scan :
                Hid(Nodes[i]) \in steady \ unread => Hid(Nodes[i]) \in ToSet(found.hid)
    /\ pc \in {"reader", "select"} =>
          \A id \in HidIds \cap (steady \ unread) : id \in ToSet(found.hid)
    /\ pc = "reader" =>
          /\ scan \subseteq DOMAIN Readers
          /\ \A i \in scan : Pcsc(Readers[i]) \notin ToSet(found.pcsc)
          /\ \A i \in DOMAIN Readers \ scan :
                Pcsc(Readers[i]) \in steady => Pcsc(Readers[i]) \in ToSet(found.pcsc)
    /\ pc = "select" /\ failed = {} =>
          \A id \in PcscIds \cap steady : id \in ToSet(found.pcsc)

\* Nothing is selected before its time.
Chosen ==
    /\ selected \in Ids \cup {Soft, None}
    /\ pc \in Discovering \cup {"select", "demo"} => selected = None

Inv ==
    /\ Understood
    /\ Silent
    /\ Shaped
    /\ Reported
    /\ Tracked
    /\ Walked
    /\ Chosen
    /\ ListingIsComplete

-----------------------------------------------------------------------------
(* Identities.                                                             *)

LEMMA IdsDistinct ==
    /\ Ids = HidIds \cup PcscIds
    /\ None \notin Ids /\ Soft \notin Ids
    /\ \A id \in HidIds : id.kind = "hid"
    /\ \A id \in PcscIds : id.kind = "pcsc"
    /\ HidIds \cap PcscIds = {}
    /\ \A i \in DOMAIN Nodes : Nodes[i] \in ToSet(Nodes) /\ Hid(Nodes[i]) \in HidIds
    /\ \A i \in DOMAIN Readers : Readers[i] \in ToSet(Readers) /\ Pcsc(Readers[i]) \in PcscIds
    /\ \A id \in HidIds : \E i \in DOMAIN Nodes : id = Hid(Nodes[i])
    /\ \A id \in PcscIds : \E i \in DOMAIN Readers : id = Pcsc(Readers[i])
    /\ \A i, j \in DOMAIN Nodes : Hid(Nodes[i]) = Hid(Nodes[j]) => i = j
    /\ \A i, j \in DOMAIN Readers : Pcsc(Readers[i]) = Pcsc(Readers[j]) => i = j
<1>1. \A i \in DOMAIN Nodes : Nodes[i] \in ToSet(Nodes)
  BY DEF ToSet
<1>2. \A i \in DOMAIN Readers : Readers[i] \in ToSet(Readers)
  BY DEF ToSet
<1>3. \A n \in ToSet(Nodes) : n \in STRING /\ \E i \in DOMAIN Nodes : n = Nodes[i]
  BY CliAssumption DEF ToSet
<1>4. \A r \in ToSet(Readers) : r \in STRING /\ \E i \in DOMAIN Readers : r = Readers[i]
  BY CliAssumption DEF ToSet
<1>5. Ids \subseteq [kind : {"hid", "pcsc"}, name : STRING]
  BY <1>3, <1>4 DEF Ids, Hid, Pcsc
<1>6. None \notin Ids /\ Soft \notin Ids
  <2>1. None \notin Ids
    BY <1>5, CliAssumption
  <2>2. Soft \notin Ids
    BY <1>5 DEF Soft
  <2>3. QED BY <2>1, <2>2
<1>7. /\ \A i, j \in DOMAIN Nodes : Hid(Nodes[i]) = Hid(Nodes[j]) => i = j
      /\ \A i, j \in DOMAIN Readers : Pcsc(Readers[i]) = Pcsc(Readers[j]) => i = j
  BY CliAssumption DEF Hid, Pcsc, IsInjective
<1>8. (\A id \in HidIds : id.kind = "hid") /\ (\A id \in PcscIds : id.kind = "pcsc")
  BY DEF HidIds, PcscIds, Hid, Pcsc
<1>9. HidIds \cap PcscIds = {}
  BY <1>8
<1>10. Ids = HidIds \cup PcscIds
  BY DEF Ids, HidIds, PcscIds
<1>11. /\ \A i \in DOMAIN Nodes : Hid(Nodes[i]) \in HidIds
       /\ \A i \in DOMAIN Readers : Pcsc(Readers[i]) \in PcscIds
  BY <1>1, <1>2 DEF HidIds, PcscIds
<1>12. /\ \A id \in HidIds : \E i \in DOMAIN Nodes : id = Hid(Nodes[i])
       /\ \A id \in PcscIds : \E i \in DOMAIN Readers : id = Pcsc(Readers[i])
  BY <1>3, <1>4 DEF HidIds, PcscIds
<1>13. QED BY <1>1, <1>2, <1>6, <1>7, <1>8, <1>9, <1>10, <1>11, <1>12

\* A candidate is a node or a card, one that is there.
LEMMA CandidatesAreThere ==
    ASSUME NEW b
    PROVE  /\ Candidates(b) \subseteq Ids
           /\ \A i \in DOMAIN Nodes :
                 Hid(Nodes[i]) \in Candidates(b) => b.node[Nodes[i]] # None
           /\ \A i \in DOMAIN Readers :
                 Pcsc(Readers[i]) \in Candidates(b) <=> b.reader[Readers[i]] = "card"
<1>1. Candidates(b) \subseteq Ids
  BY DEF Candidates, Ids
<1>2. ASSUME NEW i \in DOMAIN Nodes, Hid(Nodes[i]) \in Candidates(b)
      PROVE  b.node[Nodes[i]] # None
  BY <1>2 DEF Candidates, Hid, Pcsc
<1>3. ASSUME NEW i \in DOMAIN Readers
      PROVE  Pcsc(Readers[i]) \in Candidates(b) <=> b.reader[Readers[i]] = "card"
  <2>1. Readers[i] \in ToSet(Readers)
    BY DEF ToSet
  <2>2. QED BY <2>1 DEF Candidates, Hid, Pcsc
<1>4. QED BY <1>1, <1>2, <1>3

\* The lowest position is one of them.
LEMMA LowestIsThere ==
    ASSUME NEW T \in SUBSET Nat, T # {}
    PROVE  Min(T) \in T
<1>1. \E x \in T : \A y \in T : x <= y
  BY LeastNatural
<1>2. QED BY <1>1 DEF Min

-----------------------------------------------------------------------------
(* The end of a run.                                                       *)

LEMMA EndKeeps ==
    ASSUME Inv, pc # "exit", scan = {},
           UNCHANGED <<scan, found, failed, selected, unread, steady, ever>>,
           selected = None \/ invocation' = invocation,
           NEW report, NEW status \in {0, 1, 2}, Explains(report, status)',
           pc' = "exit", lines' = report, screen' = report, code' = status,
           \/ status # 0
           \/ invocation'.command # "list"
           \/ LET listed == {line.about : line \in {l \in ToSet(report) : l.says = "candidate"}}
              IN  /\ {id \in steady \ unread : id.kind \notin failed} \subseteq listed
                  /\ listed \subseteq ever
    PROVE  Inv'
<1>1. Understood' /\ Silent' /\ Reported'
  BY DEF Understood, Silent, Reported
<1>2. Shaped'
  BY DEF Inv, Shaped, Discovering
<1>3. Tracked'
  BY DEF Inv, Tracked, Discovering
<1>4. Walked'
  BY DEF Inv, Walked
<1>5. Chosen'
  BY DEF Inv, Chosen, Discovering
<1>6. ListingIsComplete'
  <2>1. code' = 0 => status = 0
    OBVIOUS
  <2>2. selected' \in Ids => invocation' = invocation
    BY IdsDistinct
  <2>3. ListingIsComplete
    BY DEF Inv
  <2>4. QED BY <2>1, <2>2, <2>3 DEF ListingIsComplete
<1>7. QED BY <1>1, <1>2, <1>3, <1>4, <1>5, <1>6 DEF Inv

\* A command that fails.
LEMMA FailKeeps ==
    ASSUME Inv, pc # "exit", scan = {}, NEW error, Fail(error) \/ FailAssert(error),
           UNCHANGED <<invocation, scan, found, failed, selected, unread, steady, ever>>,
           \/ /\ error.variant = "NoDevice" /\ IsFiniteSet(error.causes)
              /\ invocation.command # "assert" => error.causes = failed
           \/ /\ error.variant = "AmbiguousDevice" /\ IsFiniteSet(error.candidates)
           \/ error.variant \in ExchangeErrors \cup {"Transport"}
    PROVE  Inv'
<1>1. Silent /\ failed \subseteq {"pcsc"}
  BY DEF Inv, Shaped
<1>2. PICK report : /\ Explains(report, 1)
                    /\ lines' = report /\ screen' = report /\ code' = 1 /\ pc' = "exit"
  BY <1>1, FailExplains
<1>3. Explains(report, 1)'
  BY <1>2 DEF Explains
<1>4. QED BY <1>2, <1>3, EndKeeps

\* A command that prints one thing, which is no failure.
LEMMA DoneKeeps ==
    ASSUME Inv, pc # "exit", scan = {}, NEW status, status = 0 \/ status = 2,
           invocation'.command # "list" \/ status = 2,
           NEW line, line.says # "error", line.says # "candidate",
           line.says # "nothing", Exit(<<line>>, status),
           UNCHANGED <<scan, found, failed, selected, unread, steady, ever>>,
           selected = None \/ invocation' = invocation
    PROVE  Inv'
<1>1. Listed(<<line>>) /\ ToSet(<<line>>) = {line}
  BY ListedFew
<1>2. Explains(<<line>>, status)'
  <2>1. (\A l \in ToSet(<<line>>) : l.says # "error" /\ l.says # "nothing")'
    BY <1>1
  <2>2. Listed(<<line>>)'
    BY <1>1
  <2>3. QED BY <2>1, <2>2 DEF Explains
<1>3. lines' = <<line>> /\ screen' = <<line>> /\ code' = status /\ pc' = "exit"
  BY <1>1, ExitShows DEF Inv
<1>4. status \in {0, 1, 2} /\ (status # 0 \/ invocation'.command # "list")
  OBVIOUS
<1>5. QED BY <1>2, <1>3, <1>4, EndKeeps

-----------------------------------------------------------------------------
(* The steps.                                                              *)

LEMMA InitKeeps == Init => Inv
<1> SUFFICES ASSUME Init PROVE Inv
  OBVIOUS
<1>1. Candidates(bus) \subseteq Ids
  BY CandidatesAreThere
<1>2. IsInjective(<<>>) /\ ToSet(<<>>) = {}
  BY ListedFew DEF IsInjective
<1>3. Tracked
  BY <1>1, <1>2 DEF Init, Tracked
<1>4. Walked
  BY DEF Init, Walked
<1>5. Chosen /\ ListingIsComplete
  BY IdsDistinct DEF Init, Chosen, ListingIsComplete
<1>6. Understood /\ Silent /\ Reported
  BY DEF Init, Understood, Silent, Reported
<1>7. Shaped
  BY DEF Init, Shaped
<1>8. QED BY <1>3, <1>4, <1>5, <1>6, <1>7 DEF Inv

\* The part of the invariant that speaks of the selection and of the end holds
\* as long as neither comes.
LEMMA BeforeTheEnd ==
    ASSUME Inv, pc # "exit", pc' # "exit", UNCHANGED <<lines, screen, code>>,
           UNCHANGED selected, UNCHANGED failed, UNCHANGED invocation,
           UNCHANGED unread, steady' \subseteq steady, ever \subseteq ever'
    PROVE  Silent' /\ Reported' /\ ListingIsComplete'
<1>1. Silent' /\ Reported'
  BY DEF Inv, Silent, Reported
<1>2. ListingIsComplete'
  BY DEF Inv, ListingIsComplete
<1>3. QED BY <1>1, <1>2

\* And while nothing is selected.
LEMMA BeforeSelection ==
    ASSUME Inv, pc # "exit", pc' # "exit", UNCHANGED <<lines, screen, code>>, selected' = None
    PROVE  Silent' /\ Reported' /\ ListingIsComplete'
<1>1. Silent' /\ Reported'
  BY DEF Inv, Silent, Reported
<1>2. ListingIsComplete'
  BY IdsDistinct DEF ListingIsComplete
<1>3. QED BY <1>1, <1>2

LEMMA DispatchKeeps ==
    ASSUME Inv, NEW argv \in Argvs, Dispatch(argv)
    PROVE  Inv'
<1>1. /\ pc = "start" /\ invocation' = Parse(argv)
      /\ UNCHANGED <<bus, scan, found, failed, selected, unread, asked, events, steady, ever>>
  BY DEF Dispatch
<1>2. selected = None /\ scan = {}
  BY <1>1 DEF Inv, Chosen, Discovering, Walked
<1>3. \A says, x : About(Err(says), x).says = says
  BY DEF About, Err
<1>4. CASE Exit(<<About(Err("usage"), invocation'.failed)>>, 2)
  <2>1. About(Err("usage"), invocation'.failed).says = "usage"
    BY <1>3
  <2>2. QED BY <1>1, <1>2, <1>4, <2>1, DoneKeeps
<1>5. CASE invocation'.failed = None /\ invocation'.command = "help"
           /\ Exit(<<Out("usage")>>, 0)
  <2>1. Out("usage").says = "usage"
    BY DEF Out
  <2>2. QED BY <1>1, <1>2, <1>5, <2>1, DoneKeeps
<1>6. CASE /\ invocation'.failed = None /\ invocation'.command # "help"
           /\ pc' = IF invocation'.demo THEN "demo" ELSE "readdir"
           /\ UNCHANGED <<lines, screen, code>>
  <2>1. /\ invocation'.command \in {"help", "list", "info", "assert"}
        /\ invocation'.command = "assert" => invocation'.rp # None
        /\ invocation'.demo => invocation'.command \in {"info", "assert"}
    BY <1>1, <1>6, ParseUnderstands
  <2>2. pc' \in {"demo", "readdir"} /\ (pc' = "demo" => invocation'.demo)
    BY <1>6
  <2>3. Understood'
    BY <1>6, <2>1, <2>2 DEF Understood
  <2>4. Shaped'
    BY <1>1, <2>2 DEF Inv, Shaped, Discovering
  <2>5. Tracked'
    BY <1>1, <2>2 DEF Inv, Tracked, Discovering
  <2>6. Walked'
    BY <1>1, <2>2 DEF Inv, Walked
  <2>7. Chosen'
    BY <1>1, <1>2, <2>2 DEF Chosen
  <2>8. Silent' /\ Reported' /\ ListingIsComplete'
    BY <1>1, <1>2, <1>6, <2>2, BeforeSelection
  <2>9. QED BY <2>3, <2>4, <2>5, <2>6, <2>7, <2>8 DEF Inv
<1>7. QED BY <1>4, <1>5, <1>6 DEF Dispatch

LEMMA ReadDirKeeps ==
    ASSUME Inv, ReadDir
    PROVE  Inv'
<1>1. /\ pc = "readdir" /\ pc' = "node" /\ scan' \subseteq DOMAIN Nodes
      /\ \/ scan' = {i \in DOMAIN Nodes : bus.node[Nodes[i]] # None} /\ unread' = unread
         \/ unread' = HidIds
      /\ UNCHANGED <<invocation, bus, found, failed, selected, asked, lines, screen, code,
                     events, steady, ever>>
  BY DEF ReadDir, HidIds
<1>2. selected = None /\ found = [hid |-> <<>>, pcsc |-> <<>>]
  BY <1>1 DEF Inv, Chosen, Discovering, Walked
<1>3. Silent' /\ Reported' /\ ListingIsComplete'
  BY <1>1, <1>2, BeforeSelection
<1>4. Understood' /\ Chosen'
  BY <1>1 DEF Inv, Understood, Chosen, Discovering
<1>5. Shaped'
  BY <1>1 DEF Inv, Shaped, Discovering
<1>6. Tracked'
  BY <1>1 DEF Inv, Tracked, Discovering
<1>7. Walked'
  <2>1. \A i \in DOMAIN Nodes \ scan' : Hid(Nodes[i]) \notin steady \ unread'
    <3>1. CASE unread' = HidIds
      BY <3>1, IdsDistinct
    <3>2. CASE scan' = {i \in DOMAIN Nodes : bus.node[Nodes[i]] # None}
      BY <1>1, <3>2, CandidatesAreThere DEF Inv, Tracked, Discovering
    <3>3. QED BY <1>1, <3>1, <3>2
  <2>2. ToSet(found.hid) = {}
    BY <1>2, ListedFew
  <2>3. QED BY <1>1, <1>2, <2>1, <2>2 DEF Walked
<1>8. QED BY <1>3, <1>4, <1>5, <1>6, <1>7 DEF Inv

LEMMA ReadNodeKeeps ==
    ASSUME Inv, ReadNode
    PROVE  Inv'
<1> DEFINE next == Min(scan)
           id == Hid(Nodes[next])
<1>1. /\ pc = "node" /\ scan # {}
      /\ \/ id \in Candidates(bus) /\ found' = [found EXCEPT !.hid = Append(@, id)]
         \/ found' = found /\ (id \in unread' \/ id \notin Candidates(bus))
      /\ unread' = unread \/ unread' = unread \cup {id}
      /\ scan' = scan \ {next}
      /\ UNCHANGED <<pc, invocation, bus, failed, selected, asked, lines, screen, code, events,
                     steady, ever>>
  BY DEF ReadNode, Rest
<1>2. /\ scan \subseteq DOMAIN Nodes /\ found.pcsc = <<>>
      /\ \A i \in scan : Hid(Nodes[i]) \notin ToSet(found.hid)
      /\ \A i \in DOMAIN Nodes \ scan :
            Hid(Nodes[i]) \in steady \ unread => Hid(Nodes[i]) \in ToSet(found.hid)
  BY <1>1 DEF Inv, Walked
<1>3. next \in scan
  <2>1. scan \in SUBSET Nat
    BY <1>2, CliAssumption
  <2>2. QED BY <1>1, <2>1, LowestIsThere
<1>4. next \in DOMAIN Nodes /\ id \in HidIds /\ id \notin ToSet(found.hid)
  BY <1>2, <1>3, IdsDistinct
<1>5. /\ found \in [hid : Seq(HidIds), pcsc : Seq(PcscIds)] /\ IsInjective(found.hid)
      /\ IsInjective(found.pcsc)
      /\ steady \subseteq Candidates(bus) /\ Candidates(bus) \subseteq ever
      /\ ToSet(found.hid) \cup ToSet(found.pcsc) \subseteq ever
  BY <1>1 DEF Inv, Tracked, Discovering
<1> HIDE DEF id, next
<1>6. /\ Append(found.hid, id) \in Seq(HidIds)
      /\ ToSet(Append(found.hid, id)) = ToSet(found.hid) \cup {id}
      /\ IsInjective(Append(found.hid, id))
  BY <1>4, <1>5, AppendHolds
<1>7. /\ found' \in [hid : Seq(HidIds), pcsc : Seq(PcscIds)]
      /\ IsInjective(found'.hid) /\ found'.pcsc = found.pcsc
      /\ ToSet(found.hid) \subseteq ToSet(found'.hid)
      /\ ToSet(found'.hid) \subseteq ToSet(found.hid) \cup ({id} \cap Candidates(bus))
      /\ id \in ToSet(found'.hid) \cup unread' \/ id \notin Candidates(bus)
  <2>1. CASE id \in Candidates(bus) /\ found' = [found EXCEPT !.hid = Append(@, id)]
    <3>1. found' = [found EXCEPT !.hid = Append(found.hid, id)]
      BY <2>1
    <3>2. found'.hid = Append(found.hid, id) /\ found'.pcsc = found.pcsc
      BY <1>5, <3>1
    <3>3. found' \in [hid : Seq(HidIds), pcsc : Seq(PcscIds)]
      BY <1>5, <1>6, <3>1
    <3>4. QED BY <1>6, <2>1, <3>2, <3>3
  <2>2. CASE found' = found /\ (id \in unread' \/ id \notin Candidates(bus))
    BY <1>5, <2>2
  <2>3. QED BY <1>1, <2>1, <2>2
<1>8. selected = None
  BY <1>1 DEF Inv, Chosen, Discovering
<1>9. Silent' /\ Reported' /\ ListingIsComplete'
  BY <1>1, <1>8, BeforeSelection
<1>10. Understood' /\ Chosen' /\ Shaped'
  BY <1>1, <1>4 DEF Inv, Understood, Chosen, Shaped
<1>11. Tracked'
  <2>1. (ToSet(found.hid) \cup ToSet(found.pcsc) \subseteq ever)'
    BY <1>1, <1>5, <1>7
  <2>2. IsInjective(found.hid)' /\ IsInjective(found.pcsc)'
    BY <1>5, <1>7
  <2>3. (steady \subseteq ever /\ steady \subseteq Ids)'
    BY <1>1 DEF Inv, Tracked
  <2>4. QED BY <1>1, <1>5, <1>7, <2>1, <2>2, <2>3 DEF Tracked
<1>12. Walked'
  <2>1. ASSUME NEW i \in scan' PROVE Hid(Nodes[i]) \notin ToSet(found'.hid)
    <3>1. i \in scan /\ i # next /\ i \in DOMAIN Nodes
      BY <1>1, <1>2
    <3>2. Hid(Nodes[i]) # id
      BY <1>4, <3>1, IdsDistinct DEF id
    <3>3. QED BY <1>2, <1>7, <3>1, <3>2
  <2>2. ASSUME NEW i \in DOMAIN Nodes \ scan', Hid(Nodes[i]) \in steady \ unread'
        PROVE  Hid(Nodes[i]) \in ToSet(found'.hid)
    <3>1. CASE i = next
      BY <1>5, <1>7, <2>2, <3>1 DEF id
    <3>2. CASE i # next
      <4>1. i \in DOMAIN Nodes \ scan
        BY <1>1, <2>2, <3>2
      <4>2. Hid(Nodes[i]) \in steady \ unread
        BY <1>1, <2>2
      <4>3. QED BY <1>2, <1>7, <4>1, <4>2
    <3>3. QED BY <3>1, <3>2
  <2>3. scan' \subseteq DOMAIN Nodes /\ found'.pcsc = <<>>
    BY <1>1, <1>2, <1>7
  <2>4. QED BY <1>1, <2>1, <2>2, <2>3 DEF Walked
<1>13. QED BY <1>9, <1>10, <1>11, <1>12 DEF Inv

LEMMA EstablishKeeps ==
    ASSUME Inv, Establish
    PROVE  Inv'
<1>1. /\ pc = "node" /\ scan = {}
      /\ UNCHANGED <<invocation, bus, found, selected, unread, asked, lines, screen, code,
                     events, steady, ever>>
      /\ \/ /\ scan' = {i \in DOMAIN Readers : bus.reader[Readers[i]] # "gone"}
            /\ pc' = "reader" /\ failed' = failed
         \/ failed' = failed \cup {"pcsc"} /\ pc' = "select" /\ scan' = scan
  BY DEF Establish
<1>2. selected = None /\ found.pcsc = <<>> /\ failed = {}
  BY <1>1 DEF Inv, Chosen, Discovering, Walked, Shaped
<1>3. Silent' /\ Reported' /\ ListingIsComplete'
  BY <1>1, <1>2, BeforeSelection
<1>4. Understood' /\ Chosen' /\ Shaped'
  BY <1>1, <1>2 DEF Inv, Understood, Chosen, Shaped, Discovering
<1>5. Tracked'
  BY <1>1 DEF Inv, Tracked, Discovering
<1>6. Walked'
  <2>1. \A id \in HidIds \cap (steady \ unread) : id \in ToSet(found.hid)
    BY <1>1, IdsDistinct DEF Inv, Walked
  <2>2. CASE pc' = "reader"
    <3>1. scan' = {i \in DOMAIN Readers : bus.reader[Readers[i]] # "gone"}
      BY <1>1, <2>2
    <3>2. \A i \in DOMAIN Readers \ scan' : Pcsc(Readers[i]) \notin steady
      BY <1>1, <3>1, CandidatesAreThere DEF Inv, Tracked, Discovering
    <3>3. ToSet(found.pcsc) = {}
      BY <1>2, ListedFew
    <3>4. QED BY <1>1, <2>1, <2>2, <3>1, <3>2, <3>3 DEF Walked
  <2>3. CASE pc' = "select"
    BY <1>1, <2>1, <2>3 DEF Walked
  <2>4. QED BY <1>1, <2>2, <2>3
<1>7. QED BY <1>3, <1>4, <1>5, <1>6 DEF Inv

LEMMA ReadReaderKeeps ==
    ASSUME Inv, ReadReader
    PROVE  Inv'
<1> DEFINE next == Min(scan)
           reader == Readers[next]
           id == Pcsc(reader)
<1>1. /\ pc = "reader" /\ scan # {}
      /\ UNCHANGED <<invocation, bus, selected, unread, asked, lines, screen, code, events,
                     steady, ever>>
      /\ \/ /\ found' = IF bus.reader[reader] = "card"
                        THEN [found EXCEPT !.pcsc = Append(@, id)] ELSE found
            /\ scan' = scan \ {next}
            /\ failed' = failed /\ pc' = pc
         \/ /\ found' = [found EXCEPT !.pcsc = <<>>]
            /\ scan' = {} /\ failed' = failed \cup {"pcsc"} /\ pc' = "select"
  BY DEF ReadReader
<1>2. /\ scan \subseteq DOMAIN Readers
      /\ \A i \in scan : Pcsc(Readers[i]) \notin ToSet(found.pcsc)
      /\ \A i \in DOMAIN Readers \ scan :
            Pcsc(Readers[i]) \in steady => Pcsc(Readers[i]) \in ToSet(found.pcsc)
      /\ \A i \in HidIds \cap (steady \ unread) : i \in ToSet(found.hid)
  BY <1>1 DEF Inv, Walked
<1>3. next \in scan
  <2>1. scan \in SUBSET Nat
    BY <1>2, CliAssumption
  <2>2. QED BY <1>1, <2>1, LowestIsThere
<1>4. /\ next \in DOMAIN Readers /\ id \in PcscIds /\ id \notin ToSet(found.pcsc)
      /\ id \in Candidates(bus) <=> bus.reader[reader] = "card"
  BY <1>2, <1>3, IdsDistinct, CandidatesAreThere
<1>5. /\ found \in [hid : Seq(HidIds), pcsc : Seq(PcscIds)] /\ IsInjective(found.hid)
      /\ IsInjective(found.pcsc)
      /\ steady \subseteq Candidates(bus) /\ Candidates(bus) \subseteq ever
      /\ ToSet(found.hid) \cup ToSet(found.pcsc) \subseteq ever
  BY <1>1 DEF Inv, Tracked, Discovering
<1>6. selected = None /\ failed = {}
  BY <1>1 DEF Inv, Chosen, Discovering, Shaped
<1>7. Silent' /\ Reported' /\ ListingIsComplete'
  BY <1>1, <1>6, BeforeSelection
<1>8. Understood' /\ Chosen' /\ Shaped'
  BY <1>1, <1>6 DEF Inv, Understood, Chosen, Shaped, Discovering
<1>9. CASE /\ found' = IF bus.reader[reader] = "card"
                       THEN [found EXCEPT !.pcsc = Append(@, id)] ELSE found
           /\ scan' = scan \ {next}
           /\ failed' = failed /\ pc' = pc
  <2> HIDE DEF id, next, reader
  <2>1. /\ Append(found.pcsc, id) \in Seq(PcscIds)
        /\ ToSet(Append(found.pcsc, id)) = ToSet(found.pcsc) \cup {id}
        /\ IsInjective(Append(found.pcsc, id))
    BY <1>4, <1>5, AppendHolds
  <2>2. /\ found' \in [hid : Seq(HidIds), pcsc : Seq(PcscIds)]
        /\ IsInjective(found'.pcsc) /\ found'.hid = found.hid
        /\ ToSet(found'.pcsc) = IF id \in Candidates(bus) THEN ToSet(found.pcsc) \cup {id}
                                ELSE ToSet(found.pcsc)
    <3>1. CASE id \in Candidates(bus)
      <4>1. found' = [found EXCEPT !.pcsc = Append(found.pcsc, id)]
        BY <1>4, <1>9, <3>1
      <4>2. found'.pcsc = Append(found.pcsc, id) /\ found'.hid = found.hid
        BY <1>5, <4>1
      <4>3. found' \in [hid : Seq(HidIds), pcsc : Seq(PcscIds)]
        BY <1>5, <2>1, <4>1
      <4>4. QED BY <2>1, <3>1, <4>2, <4>3
    <3>2. CASE id \notin Candidates(bus)
      BY <1>4, <1>5, <1>9, <3>2
    <3>3. QED BY <3>1, <3>2
  <2>3. Tracked'
    <3>1. (ToSet(found.hid) \cup ToSet(found.pcsc) \subseteq ever)'
      BY <1>1, <1>5, <2>2
    <3>2. IsInjective(found.hid)' /\ IsInjective(found.pcsc)'
      BY <1>5, <2>2
    <3>3. (steady \subseteq ever /\ steady \subseteq Ids)'
      BY <1>1 DEF Inv, Tracked
    <3>4. QED BY <1>1, <1>5, <2>2, <3>1, <3>2, <3>3 DEF Tracked
  <2>4. Walked'
    <3>1. ASSUME NEW i \in scan' PROVE Pcsc(Readers[i]) \notin ToSet(found'.pcsc)
      <4>1. i \in scan /\ i # next /\ i \in DOMAIN Readers
        BY <1>2, <1>9, <3>1
      <4>2. Pcsc(Readers[i]) # id
        BY <1>4, <4>1, IdsDistinct DEF id, reader
      <4>3. QED BY <1>2, <2>2, <4>1, <4>2
    <3>2. ASSUME NEW i \in DOMAIN Readers \ scan', Pcsc(Readers[i]) \in steady
          PROVE  Pcsc(Readers[i]) \in ToSet(found'.pcsc)
      <4>1. CASE i = next
        BY <1>5, <2>2, <3>2, <4>1 DEF id, reader
      <4>2. CASE i # next
        <5>1. i \in DOMAIN Readers \ scan
          BY <1>9, <3>2, <4>2
        <5>2. QED BY <1>2, <2>2, <3>2, <5>1
      <4>3. QED BY <4>1, <4>2
    <3>3. scan' \subseteq DOMAIN Readers /\ pc' = "reader"
      BY <1>1, <1>2, <1>9
    <3>4. (\A i \in HidIds \cap (steady \ unread) : i \in ToSet(found.hid))'
      BY <1>1, <1>2, <2>2
    <3>5. QED BY <1>1, <3>1, <3>2, <3>3, <3>4 DEF Walked
  <2>5. QED BY <1>7, <1>8, <2>3, <2>4 DEF Inv
<1>10. CASE /\ found' = [found EXCEPT !.pcsc = <<>>]
            /\ scan' = {} /\ failed' = failed \cup {"pcsc"} /\ pc' = "select"
  <2>1. /\ found' \in [hid : Seq(HidIds), pcsc : Seq(PcscIds)]
        /\ found'.hid = found.hid /\ found'.pcsc = <<>>
    <3>1. <<>> \in Seq(PcscIds)
      OBVIOUS
    <3>2. found' = [found EXCEPT !.pcsc = <<>>]
      BY <1>10
    <3> HIDE DEF id, reader, next
    <3>3. QED BY <1>5, <3>1, <3>2
  <2>2. ToSet(<<>>) = {} /\ IsInjective(<<>>)
    BY ListedFew DEF IsInjective
  <2>3. Tracked'
    <3>1. (ToSet(found.hid) \cup ToSet(found.pcsc) \subseteq ever)'
      BY <1>1, <1>5, <2>1, <2>2
    <3>2. IsInjective(found.hid)' /\ IsInjective(found.pcsc)'
      BY <1>5, <2>1, <2>2
    <3>3. (steady \subseteq ever /\ steady \subseteq Ids)'
      BY <1>1 DEF Inv, Tracked
    <3>4. QED BY <1>10, <2>1, <3>1, <3>2, <3>3 DEF Tracked, Discovering
  <2>4. Walked'
    <3>1. (\A i \in HidIds \cap (steady \ unread) : i \in ToSet(found.hid))'
      BY <1>1, <1>2, <2>1
    <3>2. QED BY <1>10, <3>1 DEF Walked
  <2>5. QED BY <1>7, <1>8, <2>3, <2>4 DEF Inv
<1>11. QED BY <1>1, <1>9, <1>10

LEMMA EndReadersKeeps ==
    ASSUME Inv, EndReaders
    PROVE  Inv'
<1>1. /\ pc = "reader" /\ scan = {} /\ pc' = "select"
      /\ UNCHANGED <<invocation, bus, scan, found, failed, selected, unread, asked, lines,
                     screen, code, events, steady, ever>>
  BY DEF EndReaders
<1>2. selected = None
  BY <1>1 DEF Inv, Chosen, Discovering
<1>3. Silent' /\ Reported' /\ ListingIsComplete'
  BY <1>1, <1>2, BeforeSelection
<1>4. Understood' /\ Chosen' /\ Shaped'
  BY <1>1, <1>2 DEF Inv, Understood, Chosen, Shaped, Discovering
<1>5. Tracked'
  BY <1>1 DEF Inv, Tracked, Discovering
<1>6. Walked'
  <2>1. \A id \in PcscIds \cap steady : id \in ToSet(found.pcsc)
    BY <1>1, IdsDistinct DEF Inv, Walked
  <2>2. QED BY <1>1, <2>1 DEF Inv, Walked
<1>7. QED BY <1>3, <1>4, <1>5, <1>6 DEF Inv

\* The candidates discovery ended with.
LEMMA AllFound ==
    ASSUME Inv, pc = "select"
    PROVE  /\ All \in Seq(Ids) /\ ToSet(All) = ToSet(found.hid) \cup ToSet(found.pcsc)
           /\ ToSet(All) \subseteq ever /\ ToSet(All) \subseteq Ids
           /\ {id \in steady \ unread : id.kind \notin failed} \subseteq ToSet(All)
           /\ DOMAIN All = 1..Len(All) /\ Len(All) \in Nat
<1>1. found.hid \in Seq(HidIds) /\ found.pcsc \in Seq(PcscIds)
  BY DEF Inv, Tracked
<1>2. HidIds \subseteq Ids /\ PcscIds \subseteq Ids
  BY IdsDistinct
<1>3. found.hid \in Seq(Ids) /\ found.pcsc \in Seq(Ids)
  BY <1>1, <1>2
<1>4. All \in Seq(Ids) /\ ToSet(All) = ToSet(found.hid) \cup ToSet(found.pcsc)
  BY <1>3, ConcatHolds DEF All
<1>5. ToSet(All) \subseteq Ids /\ DOMAIN All = 1..Len(All) /\ Len(All) \in Nat
  BY <1>4 DEF ToSet
<1>6. ASSUME NEW id \in steady \ unread, id.kind \notin failed PROVE id \in ToSet(All)
  <2>1. id \in HidIds \/ id \in PcscIds
    BY IdsDistinct DEF Inv, Tracked
  <2>2. CASE id \in HidIds
    BY <1>4, <2>2 DEF Inv, Walked
  <2>3. CASE id \in PcscIds
    <3>1. failed = {}
      BY <1>6, <2>3, IdsDistinct DEF Inv, Shaped
    <3>2. QED BY <1>4, <2>3, <3>1 DEF Inv, Walked
  <2>4. QED BY <2>1, <2>2, <2>3
<1>7. ToSet(All) \subseteq ever
  BY <1>4 DEF Inv, Tracked
<1>8. QED BY <1>4, <1>5, <1>6, <1>7

LEMMA FiniteFailed ==
    ASSUME Inv PROVE IsFiniteSet(failed) /\ IsFiniteSet({})
<1>1. IsFiniteSet({"pcsc"})
  BY FS_Singleton
<1>2. QED BY <1>1, FS_Subset, FS_EmptySet DEF Inv, Shaped

LEMMA ListKeeps ==
    ASSUME Inv, List
    PROVE  Inv'
<1>1. /\ pc = "select" /\ invocation.command = "list"
      /\ UNCHANGED <<bus, invocation, scan, found, failed, selected, unread, asked, events,
                     steady, ever>>
  BY DEF List
<1>2. scan = {} /\ Silent
  BY <1>1 DEF Inv, Walked
<1>3. CASE All # <<>>
  <2> DEFINE report == [i \in DOMAIN All |-> About(Out("candidate"), All[i])]
  <2>1. Exit(report, 0)
    BY <1>3 DEF List
  <2>2. DOMAIN All = 1..Len(All) /\ Len(All) \in Nat
    BY <1>1, AllFound
  <2>3. /\ DOMAIN report = 1..Len(All) /\ report = [i \in DOMAIN report |-> report[i]]
        /\ \A i \in DOMAIN All : report[i] = About(Out("candidate"), All[i])
    BY <2>2
  <2> HIDE DEF report
  <2>4. Listed(report)
    BY <2>2, <2>3, ListedFunction
  <2>5. \A x : About(Out("candidate"), x).says = "candidate" /\ About(Out("candidate"), x).about = x
    BY DEF About, Out
  <2>6. \A line \in ToSet(report) : line.says = "candidate"
    BY <2>2, <2>3, <2>5 DEF ToSet
  <2>7. {line.about : line \in {l \in ToSet(report) : l.says = "candidate"}} = ToSet(All)
    <3>1. ASSUME NEW i \in DOMAIN All
          PROVE  report[i] \in ToSet(report) /\ report[i].about = All[i]
      BY <2>2, <2>3, <2>5 DEF ToSet
    <3>2. \A line \in ToSet(report) : \E i \in DOMAIN All : line = report[i]
      BY <2>2, <2>3 DEF ToSet
    <3>3. \A line \in ToSet(report) : line.about \in ToSet(All)
      BY <3>1, <3>2 DEF ToSet
    <3>4. \A x \in ToSet(All) : \E line \in ToSet(report) : line.about = x
      BY <3>1 DEF ToSet
    <3>5. QED BY <2>6, <3>3, <3>4
  <2>8. lines' = report /\ screen' = report /\ code' = 0 /\ pc' = "exit"
    BY <1>1, <1>2, <2>1, <2>4, ExitShows
  <2>9. PICK shown : shown = report
    OBVIOUS
  <2>10. Explains(shown, 0)'
    <3>1. Listed(shown) /\ \A line \in ToSet(shown) : line.says = "candidate"
      BY <2>4, <2>6, <2>9
    <3>2. (Listed(shown) /\ \A line \in ToSet(shown) : line.says = "candidate")'
      BY <3>1
    <3>3. QED BY <3>2 DEF Explains
  <2>11. /\ {id \in steady \ unread : id.kind \notin failed} \subseteq ToSet(All)
         /\ ToSet(All) \subseteq ever
    BY <1>1, AllFound
  <2>12. QED BY <1>1, <1>2, <2>7, <2>8, <2>9, <2>10, <2>11, EndKeeps
<1>4. CASE All = <<>> /\ failed = {}
  <2> DEFINE line == Out("nothing")
             report == <<line>>
  <2>1. Exit(report, 0)
    BY <1>4 DEF List
  <2>2. line.says = "nothing"
    BY DEF Out
  <2> HIDE DEF line
  <2>3. Listed(report) /\ ToSet(report) = {line}
    BY ListedFew
  <2>4. lines' = report /\ screen' = report /\ code' = 0 /\ pc' = "exit"
    BY <1>1, <1>2, <2>1, <2>3, ExitShows
  <2>5. Explains(report, 0)'
    <3>1. (Listed(report) /\ ToSet(report) = {line})'
      BY <2>3
    <3>2. failed' = {}
      BY <1>1, <1>4
    <3> HIDE DEF report
    <3>3. QED BY <2>2, <3>1, <3>2 DEF Explains
  <2>6. {id \in steady \ unread : id.kind \notin failed} = {}
    BY <1>1, <1>4, AllFound, ListedFew
  <2>7. {l \in ToSet(report) : l.says = "candidate"} = {}
    BY <2>2, <2>3
  <2> HIDE DEF report
  <2>8. QED BY <1>1, <1>2, <2>4, <2>5, <2>6, <2>7, EndKeeps
<1>5. CASE All = <<>> /\ failed # {}
  <2> DEFINE error == NoDevice(failed)
  <2>1. error.variant = "NoDevice" /\ error.causes = failed
    BY DEF NoDevice
  <2>2. Exit(ErrorLines(error), 1)
    BY <1>5 DEF List
  <2> HIDE DEF error
  <2>3. Fail(error)
    BY <1>1, <2>2 DEF Fail
  <2>4. IsFiniteSet(error.causes)
    BY <2>1, FiniteFailed
  <2>5. QED BY <1>1, <1>2, <2>1, <2>3, <2>4, FailKeeps
<1>6. QED BY <1>3, <1>4, <1>5

\* What can be selected from.
LEMMA EligibleOnes ==
    ASSUME Inv, pc = "select"
    PROVE  /\ Eligible \subseteq DOMAIN All /\ Eligible \subseteq Nat
           /\ IsFiniteSet({All[i] : i \in Eligible})
           /\ invocation.device = None => Eligible = 1..Len(All) /\ Cardinality(Eligible) = Len(All)
<1>1. DOMAIN All = 1..Len(All) /\ Len(All) \in Nat
  BY AllFound
<1>2. Eligible \subseteq DOMAIN All /\ Eligible \subseteq Nat
  BY <1>1 DEF Eligible
<1>3. IsFiniteSet(DOMAIN All) /\ Cardinality(1..Len(All)) = Len(All)
  <2> DEFINE n == Len(All)
  <2>1. n \in Nat /\ 1 \in Int /\ n \in Int
    BY <1>1
  <2> HIDE DEF n
  <2>2. IsFiniteSet(1..n) /\ Cardinality(1..n) = IF 1 > n THEN 0 ELSE n - 1 + 1
    BY <2>1, FS_Interval
  <2>3. Cardinality(1..n) = n
    BY <2>1, <2>2
  <2>4. QED BY <1>1, <2>2, <2>3 DEF n
<1>4. IsFiniteSet(Eligible)
  BY <1>2, <1>3, FS_Subset
<1>5. IsFiniteSet({All[i] : i \in Eligible})
  <2> DEFINE f == [i \in Eligible |-> All[i]]
             T == {All[i] : i \in Eligible}
  <2>1. f \in Surjection(Eligible, T)
    BY DEF Surjection
  <2> HIDE DEF f, T
  <2>2. IsFiniteSet(T)
    BY <1>4, <2>1, FS_Surjection
  <2>3. QED BY <2>2 DEF T
<1>6. invocation.device = None => Eligible = DOMAIN All
  BY DEF Eligible
<1>7. QED BY <1>1, <1>2, <1>3, <1>5, <1>6

LEMMA SelectKeeps ==
    ASSUME Inv, Select
    PROVE  Inv'
<1>1. /\ pc = "select" /\ invocation.command # "list"
      /\ UNCHANGED <<bus, invocation, scan, found, failed, unread, asked, events, steady, ever>>
  BY DEF Select
<1>2. /\ scan = {} /\ selected = None /\ invocation.command \in {"info", "assert"}
      /\ invocation.failed = None /\ (invocation.command = "assert" => invocation.rp # None)
  BY <1>1 DEF Inv, Walked, Chosen, Understood
<1> DEFINE causes == IF invocation.command = "info" THEN failed ELSE {}
           several == {All[i] : i \in Eligible}
<1>3. CASE Eligible = {} /\ Fail(NoDevice(causes)) /\ UNCHANGED selected
  <2> DEFINE error == NoDevice(causes)
  <2>1. error.variant = "NoDevice" /\ error.causes = causes
    BY DEF NoDevice
  <2>2. IsFiniteSet(causes) /\ (invocation.command # "assert" => causes = failed)
    BY <1>2, FiniteFailed
  <2>3. Fail(error)
    BY <1>3
  <2> HIDE DEF error, causes
  <2>4. QED BY <1>1, <1>2, <1>3, <2>1, <2>2, <2>3, FailKeeps
<1>4. CASE Fail(Ambiguous(several)) /\ UNCHANGED selected
  <2> DEFINE error == Ambiguous(several)
  <2>1. error.variant = "AmbiguousDevice" /\ error.candidates = several
    BY DEF Ambiguous
  <2>2. IsFiniteSet(several)
    BY <1>1, EligibleOnes
  <2>3. Fail(error)
    BY <1>4
  <2> HIDE DEF error, several
  <2>4. QED BY <1>1, <1>2, <1>4, <2>1, <2>2, <2>3, FailKeeps
<1>5. CASE /\ Eligible # {} /\ ~(Cardinality(Eligible) > 1 /\ ~invocation.first)
           /\ selected' = All[Min(Eligible)]
           /\ pc' = "connect" /\ UNCHANGED <<lines, screen, code>>
  <2>1. Min(Eligible) \in Eligible
    BY <1>1, <1>5, EligibleOnes, LowestIsThere
  <2>2. Min(Eligible) \in DOMAIN All
    BY <1>1, <2>1, EligibleOnes
  <2>3. selected' \in ToSet(All)
    BY <1>5, <2>2 DEF ToSet
  <2>4. selected' \in Ids /\ selected' \in ever
    BY <1>1, <2>3, AllFound
  <2>5. ASSUME ~invocation.first, invocation.device = None
        PROVE  {id \in steady \ unread : id.kind \notin failed} \subseteq {selected'}
    <3>1. Len(All) \in Nat /\ DOMAIN All = 1..Len(All) /\ Len(All) <= 1
      BY <1>1, <1>5, <2>5, AllFound, EligibleOnes
    <3>2. \A i \in DOMAIN All : i = Min(Eligible)
      BY <2>2, <3>1
    <3>3. \A id \in ToSet(All) : id = selected'
      BY <1>5, <3>2 DEF ToSet
    <3>4. QED BY <1>1, <3>3, AllFound
  <2>6. ListingIsComplete'
    BY <1>1, <1>5, <2>4, <2>5 DEF ListingIsComplete
  <2>7. Understood' /\ Silent' /\ Reported' /\ Chosen'
    BY <1>1, <1>2, <1>5, <2>4 DEF Inv, Understood, Silent, Reported, Chosen, Discovering
  <2>8. Shaped'
    BY <1>1, <1>5 DEF Inv, Shaped, Discovering
  <2>9. Tracked'
    BY <1>1, <1>5 DEF Inv, Tracked, Discovering
  <2>10. Walked'
    BY <1>1, <1>2, <1>5 DEF Inv, Walked
  <2>11. QED BY <2>6, <2>7, <2>8, <2>9, <2>10 DEF Inv
<1>6. CASE Eligible = {}
  <2>1. Fail(NoDevice(causes)) /\ UNCHANGED selected
    <3>1. ~(Cardinality(Eligible) > 1)
      BY <1>6, FS_EmptySet
    <3>2. QED BY <1>6, <3>1 DEF Select
  <2>2. QED BY <1>3, <1>6, <2>1
<1>7. CASE Eligible # {} /\ Cardinality(Eligible) > 1 /\ ~invocation.first
  <2>1. Fail(Ambiguous(several)) /\ UNCHANGED selected
    BY <1>7 DEF Select
  <2>2. QED BY <1>4, <2>1
<1>8. CASE Eligible # {} /\ ~(Cardinality(Eligible) > 1 /\ ~invocation.first)
  <2>1. /\ selected' = All[Min(Eligible)]
        /\ pc' = "connect" /\ UNCHANGED <<lines, screen, code>>
    BY <1>8 DEF Select
  <2>2. QED BY <1>5, <1>8, <2>1
<1>9. QED BY <1>6, <1>7, <1>8

\* A typed error of the device.
LEMMA TypedKeeps ==
    ASSUME Inv, pc \in {"connect", "demo", "exchange"},
           NEW variant \in ExchangeErrors \cup {"Transport"},
           Fail(Typed(variant)) \/ FailAssert(Typed(variant)),
           UNCHANGED <<invocation, scan, found, failed, selected, unread, steady, ever>>
    PROVE  Inv'
<1> DEFINE error == Typed(variant)
<1>1. error.variant = variant
  BY DEF Typed
<1>2. scan = {}
  BY DEF Inv, Walked
<1>3. Fail(error) \/ FailAssert(error)
  OBVIOUS
<1> HIDE DEF error
<1>4. QED BY <1>1, <1>2, <1>3, FailKeeps

\* Going on to the exchange.
LEMMA ExchangeKeeps ==
    ASSUME Inv, pc \in {"connect", "demo"}, pc' = "exchange", selected' \in {selected, Soft},
           UNCHANGED <<bus, invocation, scan, found, failed, unread, asked, lines, screen, code,
                       events, steady, ever>>
    PROVE  Inv'
<1>1. Understood' /\ Silent' /\ Reported'
  BY DEF Inv, Understood, Silent, Reported
<1>2. Shaped'
  BY DEF Inv, Shaped, Discovering
<1>3. Tracked'
  BY DEF Inv, Tracked, Discovering
<1>4. Walked'
  BY DEF Inv, Walked
<1>5. Chosen'
  BY DEF Inv, Chosen, Discovering
<1>6. ListingIsComplete'
  BY IdsDistinct DEF Inv, ListingIsComplete
<1>7. QED BY <1>1, <1>2, <1>3, <1>4, <1>5, <1>6 DEF Inv

LEMMA ConnectKeeps ==
    ASSUME Inv, Connect
    PROVE  Inv'
<1>1. /\ pc = "connect"
      /\ UNCHANGED <<bus, invocation, scan, found, failed, selected, unread, asked, events,
                     steady, ever>>
      /\ \/ pc' = "exchange" /\ UNCHANGED <<lines, screen, code>>
         \/ \E error \in ExchangeErrors : Fail(Typed(error))
  BY DEF Connect
<1>2. CASE pc' = "exchange" /\ UNCHANGED <<lines, screen, code>>
  BY <1>1, <1>2, ExchangeKeeps
<1>3. CASE \E error \in ExchangeErrors : Fail(Typed(error))
  <2>1. PICK error \in ExchangeErrors : Fail(Typed(error))
    BY <1>3
  <2>2. QED BY <1>1, <2>1, TypedKeeps
<1>4. QED BY <1>1, <1>2, <1>3

LEMMA DemoKeeps ==
    ASSUME Inv, Demo
    PROVE  Inv'
<1>1. /\ pc = "demo"
      /\ UNCHANGED <<bus, invocation, scan, found, failed, unread, asked, events, steady, ever>>
      /\ \/ selected' = Soft /\ pc' = "exchange" /\ UNCHANGED <<lines, screen, code>>
         \/ FailAssert(Typed("Transport")) /\ UNCHANGED selected
  BY DEF Demo
<1>2. CASE selected' = Soft /\ pc' = "exchange" /\ UNCHANGED <<lines, screen, code>>
  BY <1>1, <1>2, ExchangeKeeps
<1>3. CASE FailAssert(Typed("Transport")) /\ UNCHANGED selected
  BY <1>1, <1>3, TypedKeeps
<1>4. QED BY <1>1, <1>2, <1>3

LEMMA FinishKeeps ==
    ASSUME Inv, Finish
    PROVE  Inv'
<1>1. /\ pc = "exchange"
      /\ UNCHANGED <<bus, invocation, scan, found, failed, selected, unread, asked, events,
                     steady, ever>>
      /\ \/ Exit(<<Out(invocation.command)>>, 0)
         \/ \E error \in ExchangeErrors : Fail(Typed(error))
  BY DEF Finish
<1>2. CASE Exit(<<Out(invocation.command)>>, 0)
  <2>1. PICK line : line = Out(invocation.command)
    OBVIOUS
  <2>2. invocation.command \in {"info", "assert"}
    BY <1>1 DEF Inv, Understood
  <2>3. line.says = invocation.command
    BY <2>1 DEF Out
  <2>4. scan = {}
    BY <1>1 DEF Inv, Walked
  <2>5. Exit(<<line>>, 0)
    BY <1>2, <2>1
  <2>6. line.says # "error" /\ line.says # "candidate" /\ line.says # "nothing"
    BY <2>2, <2>3
  <2>7. invocation'.command # "list"
    BY <1>1, <2>2
  <2>8. QED BY <1>1, <2>4, <2>5, <2>6, <2>7, DoneKeeps
<1>3. CASE \E error \in ExchangeErrors : Fail(Typed(error))
  <2>1. PICK error \in ExchangeErrors : Fail(Typed(error))
    BY <1>3
  <2>2. QED BY <1>1, <2>1, TypedKeeps
<1>4. QED BY <1>1, <1>2, <1>3

LEMMA KeepAliveKeeps ==
    ASSUME Inv, KeepAlive
    PROVE  Inv'
<1>1. /\ pc = "exchange"
      /\ UNCHANGED <<pc, invocation, bus, scan, found, failed, selected, unread, lines, screen,
                     code, events, steady, ever>>
  BY DEF KeepAlive
<1>2. Silent' /\ Reported' /\ ListingIsComplete'
  BY <1>1, BeforeTheEnd
<1>3. Understood' /\ Shaped' /\ Tracked' /\ Walked' /\ Chosen'
  BY <1>1 DEF Inv, Understood, Shaped, Tracked, Walked, Chosen
<1>4. QED BY <1>2, <1>3 DEF Inv

LEMMA ChangeKeeps ==
    ASSUME Inv, Change
    PROVE  Inv'
<1>1. /\ pc # "exit"
      /\ UNCHANGED <<pc, invocation, scan, found, failed, selected, unread, asked, lines,
                     screen, code>>
      /\ IF pc \in Discovering
         THEN steady' = steady \cap Candidates(bus') /\ ever' = ever \cup Candidates(bus')
         ELSE UNCHANGED <<steady, ever>>
  BY DEF Change
<1>2. steady' \subseteq steady /\ ever \subseteq ever'
  BY <1>1
<1>3. Silent' /\ Reported' /\ ListingIsComplete'
  BY <1>1, <1>2, BeforeTheEnd
<1>4. Understood' /\ Shaped' /\ Chosen'
  BY <1>1 DEF Inv, Understood, Shaped, Chosen
<1>5. Tracked'
  <2>1. CASE pc \in Discovering
    BY <1>1, <1>2, <2>1 DEF Inv, Tracked
  <2>2. CASE pc \notin Discovering
    BY <1>1, <1>2, <2>2 DEF Inv, Tracked
  <2>3. QED BY <2>1, <2>2
<1>6. Walked'
  BY <1>1, <1>2 DEF Inv, Walked
<1>7. QED BY <1>3, <1>4, <1>5, <1>6 DEF Inv

LEMMA StutterKeeps ==
    ASSUME Inv, UNCHANGED vars
    PROVE  Inv'
BY DEF Inv, vars, Understood, Silent, Shaped, Reported, Explains, Tracked, Walked, Chosen,
       ListingIsComplete

LEMMA StepKeeps == Inv /\ [Next]_vars => Inv'
<1> SUFFICES ASSUME Inv, [Next]_vars PROVE Inv'
  OBVIOUS
<1>1. ASSUME NEW argv \in Argvs, Dispatch(argv) PROVE Inv'
  BY <1>1, DispatchKeeps
<1>2. CASE ReadDir \/ ReadNode \/ Establish \/ ReadReader \/ EndReaders
  BY <1>2, ReadDirKeeps, ReadNodeKeeps, EstablishKeeps, ReadReaderKeeps, EndReadersKeeps
<1>3. CASE List \/ Select \/ Connect \/ Demo \/ Finish
  BY <1>3, ListKeeps, SelectKeeps, ConnectKeeps, DemoKeeps, FinishKeeps
<1>4. CASE KeepAlive
  BY <1>4, KeepAliveKeeps
<1>5. CASE Change
  BY <1>5, ChangeKeeps
<1>6. CASE UNCHANGED vars
  BY <1>6, StutterKeeps
<1>7. QED BY <1>1, <1>2, <1>3, <1>4, <1>5, <1>6 DEF Next

LEMMA Invariance == Spec => []Inv
BY InitKeeps, StepKeeps, PTL DEF Spec

-----------------------------------------------------------------------------
(* The theorems.                                                           *)

\* Every state of a run is well typed: candidates are listed once, a command
\* past its parser has what it needs, and an error goes with exit code 1 (the
\* dispatch and the exits of fidoh.rs).
THEOREM TypeCorrect == Spec => []TypeOK
<1>1. Inv => TypeOK
  <2> SUFFICES ASSUME Inv PROVE TypeOK
    OBVIOUS
  <2>1. ToSet(found.hid) \cup ToSet(found.pcsc) \subseteq Ids
    <3>1. found.hid \in Seq(HidIds) /\ found.pcsc \in Seq(PcscIds)
      BY DEF Inv, Tracked
    <3>2. ToSet(found.hid) \subseteq HidIds /\ ToSet(found.pcsc) \subseteq PcscIds
      BY <3>1 DEF ToSet
    <3>3. QED BY <3>2, IdsDistinct
  <2>2. IsInjective(found.hid) /\ IsInjective(found.pcsc)
    BY DEF Inv, Tracked
  <2>3. scan \subseteq IF pc = "reader" THEN DOMAIN Readers ELSE DOMAIN Nodes
    BY DEF Inv, Walked
  <2>4. code \in {None, 0, 1, 2} /\ (pc = "exit") = (code # None)
    <3>1. 0 # None /\ 1 # None /\ 2 # None
      BY CliAssumption
    <3>2. CASE pc = "exit"
      BY <3>1, <3>2 DEF Inv, Reported
    <3>3. CASE pc # "exit"
      BY <3>3 DEF Inv, Silent
    <3>4. QED BY <3>2, <3>3
  <2>5. \A line \in ToSet(lines) :
           line.says = "error" => line.about \in Errors \cup {"Ctap"} /\ code = 1
    <3>1. CASE pc = "exit"
      BY <3>1 DEF Inv, Reported, Explains
    <3>2. CASE pc # "exit"
      BY <3>2, ListedFew DEF Inv, Silent
    <3>3. QED BY <3>1, <3>2
  <2>6. failed \subseteq {"hid", "pcsc"} /\ selected \in Ids \cup {Soft, None}
    BY DEF Inv, Shaped, Chosen
  <2>7. unread \subseteq {Hid(n) : n \in ToSet(Nodes)}
    BY DEF Inv, Shaped, HidIds
  <2>8. pc \in {"start", "readdir", "node", "reader", "select", "connect", "demo", "exchange",
                "exit"}
    BY DEF Inv, Shaped
  <2>9. pc \notin {"start", "exit"} =>
           invocation.failed = None /\ (invocation.command = "assert" => invocation.rp # None)
    BY DEF Inv, Understood
  <2>10. QED BY <2>1, <2>2, <2>3, <2>4, <2>5, <2>6, <2>7, <2>8, <2>9 DEF TypeOK
<1>2. QED BY <1>1, Invariance, PTL

\* Whatever is plugged, pulled or unreadable while the walk reads nodes and the
\* service its readers: list prints every key that was there all along on a
\* transport that did not fail, but for one the walk could not read, and nothing
\* that never was one, and a device is chosen without being named only where no
\* second such key was there (walk, list_readers, list_exit, select_device).
THEOREM ListingsAreComplete == Spec => []ListingIsComplete
<1>1. Inv => ListingIsComplete
  BY DEF Inv
<1>2. QED BY <1>1, Invariance, PTL

\* Every error exit of assert, and every exit of list or info for want of a
\* device, prints the cause of each transport that failed; list says that there
\* are no devices only when no transport failed (run_assert_body, list_exit).
THEOREM FailuresExplained == Spec => []FailuresAreExplained
<1>1. Inv => FailuresAreExplained
  <2> SUFFICES ASSUME Inv, pc = "exit" PROVE FailuresAreExplained
    BY DEF FailuresAreExplained
  <2>1. screen = lines /\ Explains(lines, code)
    BY DEF Inv, Reported
  <2> DEFINE causes == {line.about : line \in {l \in ToSet(screen) : l.says = "cause"}}
  <2>2. code = 1 => \E line \in ToSet(screen) : line.says = "error"
    BY <2>1 DEF Explains
  <2>3. code = 1 /\ (\/ invocation.command = "assert"
                     \/ \E line \in ToSet(screen) :
                           line.says = "error" /\ line.about = "NoDevice")
        => failed \subseteq causes
    BY <2>1 DEF Explains
  <2>4. (\E line \in ToSet(screen) : line.says = "nothing") => failed = {}
    BY <2>1 DEF Explains
  <2>5. QED BY <2>2, <2>3, <2>4 DEF FailuresAreExplained
<1>2. QED BY <1>1, Invariance, PTL
=============================================================================
