----------------------------- MODULE PinLockout -----------------------------
(***************************************************************************)
(* What the PIN lock of an authenticator promises, with nothing said about *)
(* protocols, keys or requests.  A guess costs one of `tries' and one of   *)
(* `window'; tries is the lifetime allowance, window the allowance between *)
(* two power cycles.  ClientPin implements this module.                    *)
(*                                                                         *)
(* On two moves the source says two things, and the promise is neither:    *)
(*   - a new PIN and an exhausted window.  The comment on                  *)
(*     power_cycle_locked (auth.rs) has set_pin clear the latch; set_pin   *)
(*     leaves it and a function of its own, power_cycle, clears it.        *)
(*   - a request that fails to decrypt.  The comment at the failure says   *)
(*     no retry counter is implicated; the code, and the transport-soft    *)
(*     requirement, decrement before they decrypt.                         *)
(* NewPin and Waste allow both readings, and only these two.               *)
(***************************************************************************)
EXTENDS Naturals

CONSTANTS MaxTries,     \* wrong PINs before the authenticator blocks for good (positive)
          MaxWindow     \* consecutive ones before it wants a power cycle (positive)

VARIABLES tries,        \* guesses left before the terminal block
          window        \* guesses left before the power-cycle latch

vars == <<tries, window>>

TypeOK == tries \in 0..MaxTries /\ window \in 0..MaxWindow

Init == tries = MaxTries /\ window = MaxWindow

Unlocked == tries > 0 /\ window > 0

\* A PIN was compared and differed.
WrongGuess ==
    /\ Unlocked
    /\ tries' = tries - 1
    /\ window' = window - 1

\* A PIN was compared and matched: both allowances are whole again.
RightGuess ==
    /\ Unlocked
    /\ tries' = MaxTries
    /\ window' = MaxWindow

\* A request failed before its PIN was compared: it cost a try or nothing.
Waste ==
    /\ Unlocked
    /\ tries' \in {tries, tries - 1}
    /\ UNCHANGED window

\* The owner sets or clears the PIN: a running window is whole again, an
\* exhausted one is whole again or stays exhausted.
NewPin ==
    /\ tries' = MaxTries
    /\ \/ window' = MaxWindow
       \/ window = 0 /\ window' = 0

PowerCycle ==
    /\ window' = MaxWindow
    /\ UNCHANGED tries

Next == WrongGuess \/ RightGuess \/ Waste \/ NewPin \/ PowerCycle

Spec == Init /\ [][Next]_vars
=============================================================================
