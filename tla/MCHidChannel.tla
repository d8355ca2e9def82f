---------------------------- MODULE MCHidChannel ----------------------------
(***************************************************************************)
(* A small token: two or three channels, responses of up to three packets, *)
(* the second continuation carrying the SEQ that reads as CMD_INIT.        *)
(***************************************************************************)
EXTENDS HidChannel

CONSTANTS h1, h2
=============================================================================
