---------------------------- MODULE MCSoftDevice ----------------------------
(***************************************************************************)
(* Two callers of one authenticator that holds five credentials of two     *)
(* relying parties, and a queue of two.                                    *)
(***************************************************************************)
EXTENDS SoftDevice

CONSTANTS rpA, rpB

A == [rp |-> rpA, resident |-> TRUE]
B == [rp |-> rpB, resident |-> TRUE]

\* Four of one relying party: the first is answered, two are parked in order
\* and one is cut.  The ids are 2, 4, 6, 8 and 10.
MCFixtures == {<<A, B, A, A, A>>}

Assertion(rp, allow) == [kind |-> "GetAssertion", rp |-> rp, allow |-> allow]
MCCommands == {[kind |-> "GetInfo"], [kind |-> "ClientPin"], Assertion(rpA, None),
               Assertion(rpA, {2}), Assertion(rpB, {})}

MCPostures ==
    {[r \in Requirements |-> m] : m \in {"AutoApprove", "RequireExplicitPoke"}}

\* Everything that fires with an assertion; an injected status; and keepalives
\* that never end, at a cost and at none.
MCSettings ==
    {[NewKnobs EXCEPT !.delay = 1,
                      !.wrongId = TRUE,
                      !.keepalives = <<[status |-> "UP_NEEDED", spacing |-> 0],
                                       [status |-> "UP_PROCESSING", spacing |-> 0]>>],
     [NewKnobs EXCEPT !.status = TRUE,
                      !.keepalives = <<[status |-> "UP_NEEDED", spacing |-> 1],
                                       [status |-> "UP_NEEDED", spacing |-> 2]>>],
     [NewKnobs EXCEPT !.persistent = TRUE,
                      !.keepalives = <<[status |-> "UP_NEEDED", spacing |-> 1]>>],
     [NewKnobs EXCEPT !.persistent = TRUE,
                      !.keepalives = <<[status |-> "UP_NEEDED", spacing |-> 0]>>]}

Entry(position, sound) == [record |-> Minted(B, position), sound |-> sound]

\* One whole, with an id the store has; one broken at its second credential.
MCSnapshots ==
    {[version |-> TRUE, count |-> 1, credentials |-> <<Entry(2, TRUE), Entry(4, FALSE)>>],
     [version |-> TRUE, count |-> 1, credentials |-> <<Entry(2, TRUE)>>]}
=============================================================================
