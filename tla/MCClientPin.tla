---------------------------- MODULE MCClientPin ----------------------------
(***************************************************************************)
(* A small clientPIN world: two platforms, two PINs (either may be the one *)
(* stored), three tries, a latch at two mismatches (the code: 8 and 3).    *)
(***************************************************************************)
EXTENDS ClientPin, TLC

\* The default advertisement and a token that speaks protocol One only.
MCAdverts == {{"One", "Two"}, {"One"}}

\* Both knobs or neither.  The echo acts when a register is generated and the
\* other when a token is asked for, so switching them between the two steps
\* also shows each one alone.
MCKnobSettings ==
    {[wrongEcho |-> b, echoDecrypt |-> b] : b \in BOOLEAN}

Symmetry == Permutations(Clients) \cup Permutations(Pins)
=============================================================================
