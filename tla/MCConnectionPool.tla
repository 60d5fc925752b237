-------------------------- MODULE MCConnectionPool --------------------------
(* Instances of ConnectionPool for TLC. *)
EXTENDS ConnectionPool

CONSTANTS t1, t2

(* Every thread runs every kind of job *)
AnyKinds == [t \in Thread |-> AllKinds]

(* The wiring of the server: the event loop thread t1 runs the pooled      *)
(* reads and the procedures; the worker threads run the reads with a       *)
(* database_override and the health checks of the diagnostics routes.      *)
ServerKinds ==
  [t \in Thread |-> IF t = t1 THEN {"read", "proc", "procIn"}
                              ELSE {"readIn", "health"}]
=============================================================================
