--------------------------- MODULE MCScanPipeline ---------------------------
(***************************************************************************)
(* Small instances of ScanPipeline for TLC: one case that all files        *)
(* belong to.  The other values are in the .cfg files.                     *)
(***************************************************************************)
EXTENDS ScanPipeline, TLC

CONSTANT TheCase

OneCase == {TheCase}
AllInOneCase == [f \in Files |-> TheCase]

ReplicaSymmetry == Permutations(Replicas)
=============================================================================
