------------------------------ MODULE MCHubFiles ------------------------------
(* Instances of HubFiles for TLC. The saves differ only by name, and so do   *)
(* the readers.                                                              *)
EXTENDS HubFilesStore, TLC

Symmetry == Permutations(Saves)
=============================================================================
