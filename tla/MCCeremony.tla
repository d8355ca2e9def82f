----------------------------- MODULE MCCeremony -----------------------------
(***************************************************************************)
(* A small world for one ceremony: two transports, two devices that both   *)
(* may list, two credentials, a budget of four.                            *)
(***************************************************************************)
EXTENDS Ceremony

CONSTANTS d1, d2, k1, k2

\* Nothing, one device, both; two transports may list the same device.
MCListings == {<<>>, <<d1>>, <<d2, d1>>}

Base == [entry |-> "exchange", selection |-> "Fail", policy |-> "Discouraged",
         held |-> None, provider |-> FALSE, pinned |-> None, entropy |-> FALSE,
         allow |-> {}, drain |-> FALSE]

\* Every selection policy, on the shortest of exchanges.
SelectionInputs ==
    {[Base EXCEPT !.entry = "full", !.selection = s] : s \in {"First", "Select", "Fail"}}

\* Every way to ask for verification.
VerificationInputs ==
    {[Base EXCEPT !.policy = u, !.held = h, !.provider = p, !.pinned = q, !.entropy = e] :
        u \in {"Discouraged", "Preferred"}, h \in {None, "One"}, p \in BOOLEAN,
        q \in {None, "One", "Other"}, e \in BOOLEAN}

\* Allow lists and drain hooks.
DrainInputs == {[Base EXCEPT !.allow = a, !.drain = b] : a \in {{}, {k1}}, b \in BOOLEAN}

MCInputs == SelectionInputs \cup VerificationInputs \cup DrainInputs

\* Protocol lists: none, both in preference order, one the library does not
\* know ahead of one it does, and only such.
MCInfos ==
    [uv : BOOLEAN, clientPin : BOOLEAN,
     protocols : {<<>>, <<"Two", "One">>, <<"Other", "One">>, <<"Other">>}]
=============================================================================
