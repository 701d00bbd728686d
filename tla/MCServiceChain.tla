--------------------------- MODULE MCServiceChain ---------------------------
(***************************************************************************)
(* Finite instances of ServiceChain for TLC.                               *)
(***************************************************************************)
EXTENDS ServiceChain
=============================================================================
