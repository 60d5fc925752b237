-------------------------- MODULE MCSessionManager --------------------------
(* Instances of SessionManager for TLC. *)
EXTENDS SessionManager, TLC

Symmetry == Permutations(Process) \cup Permutations(Actor)
              \cup Permutations(SessionId) \cup Permutations(RequestId)
=============================================================================
