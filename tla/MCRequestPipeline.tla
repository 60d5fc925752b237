-------------------------- MODULE MCRequestPipeline --------------------------
(* Instances of RequestPipeline for TLC. *)
EXTENDS RequestPipeline

CONSTANTS r1, r2

(* The handlers with different records; the others have equal ones *)
Kinds == {"run_read_tool", "exec_proc", "ping", "list_object",
          "execute_query", "analyze_db_data_model", "top_statements",
          "latency_report", "fetch_sessions_dashboard_data"}

(* Any call, beside a procedure *)
MixTools == [r \in Request |-> IF r = r1 THEN Kinds ELSE {"exec_proc"}]

Procedures == [r \in Request |-> {"exec_proc"}]
=============================================================================
