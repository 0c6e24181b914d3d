---------------------------- MODULE MCCoordinator ----------------------------
(* Instances of the coordinator for TLC.                                     *)
EXTENDS Coordinator, TLC

Unlimited == {[storage |-> 0, file |-> 0, retention |-> 1]}
TightPolicies == {[storage |-> 2, file |-> 0, retention |-> 1],
                  [storage |-> 0, file |-> 1, retention |-> 0]}
OneSize == {1}
TwoSizes == {1, 2}

NodeOps == {"commit", "restore", "upload", "gc", "purge", "repair", "pause", "crash"}
PauseOps == {"repair", "pause"}
AnyPause == {"none", "manual", "repair"}
RepairPaused == {"repair"}

Symmetry == Permutations(Mutations) \cup Permutations(Blobs) \cup Permutations(Procs)
=============================================================================
