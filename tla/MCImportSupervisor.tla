-------------------------- MODULE MCImportSupervisor --------------------------
(* Instances of ImportSupervisor for TLC: the runs are the cfg files.        *)
EXTENDS ImportSupervisor
=============================================================================
