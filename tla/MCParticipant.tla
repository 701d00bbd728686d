--------------------------- MODULE MCParticipant ----------------------------
(***************************************************************************)
(* Finite instances of UserRegistry, over ConnectorConfiguration, for TLC. *)
(***************************************************************************)
EXTENDS UserRegistry

\* The instances start with a connector that the catalogue does not know yet.
MCInit == Init /\ reg = NotRegistered
MCSpec == MCInit /\ [][Next]_vars

Interchangeable == Permutations(Slots) \cup Permutations(Users)
=============================================================================
