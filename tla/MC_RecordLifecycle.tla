------------------------ MODULE MC_RecordLifecycle ------------------------
(* Instances of RecordLifecycle for TLC. *)
EXTENDS RecordLifecycle, FiniteSets
CONSTANTS r1, r2, m1, m2, x, y

Everything == AllOps

Symmetry == Permutations(Managers) \cup Permutations(Bodies)
=============================================================================
