--------------------------- MODULE MCUsageControl ---------------------------
(***************************************************************************)
(* Finite instances of UsageControl for TLC.                               *)
(***************************************************************************)
EXTENDS UsageControl, TLC

\* Requests are interchangeable, and so are contracts.
UsageSymmetry == Permutations(Requests) \cup Permutations(Contracts)
=============================================================================
