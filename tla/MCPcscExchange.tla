--------------------------- MODULE MCPcscExchange ---------------------------
(***************************************************************************)
(* Two callers and a rival on one card; responses of up to two chunks and  *)
(* a guard of two hops, so that a chain can be cut by it (the code: 64).   *)
(***************************************************************************)
EXTENDS PcscExchange
=============================================================================
