-------------------------- MODULE MCDashboardStore --------------------------
(* Instances of DashboardStore for TLC. *)
EXTENDS DashboardStore, TLC

Symmetry == Permutations(Worker) \cup Permutations(Id)
=============================================================================
