-------------------------- MODULE AnalysisReports --------------------------
(***************************************************************************)
(* What the analysis tools of src/tools/sql_tools.py make of the database: *)
(* a tool reads a number of catalog queries, one after the other, each of  *)
(* which may fail, grades the rows, and returns a report or raises.        *)
(*                                                                         *)
(* The rows that a query delivers are chosen when it is read; a row is a   *)
(* record of the value that decides its grade and of whether it is `here', *)
(* in the schema or table that the call asked for.  Checks, messages and   *)
(* the audit log are the business of RequestPipeline.                      *)
(***************************************************************************)
EXTENDS AnalysisAlgorithms

CONSTANTS
  RowsOf,       \* RowsOf[s]: the rows that query s can deliver
  MaxRows,      \* bound: the rows of all queries of a call of a tool
  MaxFailures   \* bound: the queries of a call that fail

(* The queries of the tools, in the order of the code.  Those that are     *)
(* read for the summary only (sizes, backups) deliver no rows here.        *)
Queries ==
  [analyze_tab_health |->
     <<"sizes", "fragmented", "missing_pk", "stale", "never_updated",
       "low_sampled", "settings", "coverage", "histogram">>,
   analyze_db_data_model |->
     <<"fk", "missing_index", "missing_fk", "redundant", "unused", "overlap",
       "update_heavy", "soft_delete", "heap", "datatype">>,
   analyze_sec_config |-> <<"orphan", "elevated", "backups", "xp_cmdshell">>,
   top_statements |-> <<"query_store", "dmv", "objects">>,
   sessions_dashboard |-> <<"lock_chains", "blocking_chains">>,
   execute_query |-> <<"columns">>]

Tool == DOMAIN Queries

Query == UNION {ToSet(Queries[t]) : t \in Tool}

(* A failure of these is caught around the query *)
Caught ==
  (ToSet(Queries["analyze_db_data_model"]) \ {"fk"})
    \cup {"xp_cmdshell", "query_store", "dmv", "objects"}

(* The queries that _filter_rows_by_schema_table or schema_filter narrow *)
Narrowed ==
  (ToSet(Queries["analyze_tab_health"]) \ {"settings", "histogram"})
    \cup ToSet(Queries["analyze_db_data_model"])

(* The queries that deliver one row at most *)
Single == {"settings", "xp_cmdshell"}

(* The optional queries, by the argument of the call that asks for them *)
Optional ==
  [include_indexes |-> {"fragmented"},
   include_statistics |-> {"stale", "never_updated", "low_sampled", "settings",
                           "coverage", "histogram"},
   include_histogram_analysis |-> {"histogram"},
   include_server_scope |-> {"xp_cmdshell"},
   include_locks |-> {"lock_chains", "blocking_chains"}]

VARIABLES
  tool,      \* the tool that is called
  args,      \* the arguments that are set
  narrow,    \* the call asks for one schema or table
  next,      \* the index of the next query
  rows,      \* what the queries delivered
  failed,    \* the queries that failed
  source,    \* data_source of top_statements
  outcome,   \* "running", "report" or "error"
  report     \* the report

vars == <<tool, args, narrow, next, rows, failed, source, outcome, report>>

NoReport == [findings |-> {}, cycles |-> {}, heads |-> {}, roots |-> {},
             depths |-> <<>>, names |-> <<>>]

ASSUME ReportsAssumption ==
  /\ DOMAIN RowsOf = Query /\ MaxRows \in [Tool -> Nat] /\ MaxFailures \in Nat
  /\ DepthLimit \in Nat /\ HeadLimit \in Nat
  /\ \A r \in RowsOf["columns"] : r.v = NoName \/ IsName(r.v)
  /\ \A q \in {"lock_chains", "blocking_chains"} :
       \A r \in RowsOf[q] : r.v \in Int \X Int
  /\ \A r \in RowsOf["missing_index"] : r.v \in Nat
  /\ \A r \in RowsOf["objects"] : r.v.scan \in Int

Init ==
  /\ tool \in Tool
  /\ args \in {a \in SUBSET DOMAIN Optional :
                 \A x \in a : Optional[x] \cap ToSet(Queries[tool]) # {}}
  /\ narrow \in {b \in BOOLEAN : b => ToSet(Queries[tool]) \cap Narrowed # {}}
  /\ next = 1
  /\ rows = [q \in Query |-> <<>>]
  /\ failed = {}
  /\ source = "query_store"
  /\ outcome = "running"
  /\ report = NoReport

query == Queries[tool][next]

Reading == outcome = "running" /\ next <= Len(Queries[tool])

(* The loop of the filter over the rows *)
filter_rows(s) ==
  LET kept[k \in 0..Len(s)] ==
        IF k = 0 THEN <<>>
        ELSE IF s[k].here THEN Append(kept[k - 1], s[k]) ELSE kept[k - 1]
  IN  kept[Len(s)]

(* The rows of the queries that count *)
Shown ==
  [q \in Query |-> IF narrow /\ q \in Narrowed THEN filter_rows(rows[q]) ELSE rows[q]]

Values(R, q) == {r.v : r \in ToSet(R[q])}

StaleGrades(R) == {classify_stale_statistics_row(v) : v \in Values(R, "stale")}

SampleGrades(R) ==
  {classify_low_sample_statistics_row(v) : v \in Values(R, "low_sampled")}

(* A query is left out if an argument that it depends on is not set, if    *)
(* there is nothing to inspect, or if Query Store has answered.            *)
Asked ==
  /\ \A x \in DOMAIN Optional : query \in Optional[x] => x \in args
  /\ query = "histogram" => StaleGrades(Shown) \cup SampleGrades(Shown) # {"none"}
  /\ query = "dmv" => "query_store" \in failed

-----------------------------------------------------------------------------
(* Reading the database *)

Skip ==
  /\ Reading /\ ~Asked
  /\ next' = next + 1
  /\ UNCHANGED <<tool, args, narrow, rows, failed, source, outcome, report>>

Room == MaxRows[tool] - MapThenSumSet(LAMBDA q : Len(rows[q]), Query)

(* The rows of a query come in the order of its ORDER BY: objects by their *)
(* scan ratio.                                                             *)
Ordered(q, s) ==
  q = "objects" => \A i \in 1..(Len(s) - 1) : s[i].v.scan >= s[i + 1].v.scan

Read ==
  /\ Reading /\ Asked
  /\ \E n \in 0..Room : \E s \in [1..n -> RowsOf[query]] :
       /\ query \in Single => n <= 1
       /\ Ordered(query, s)
       /\ rows' = [rows EXCEPT ![query] = s]
  /\ next' = next + 1
  /\ UNCHANGED <<tool, args, narrow, failed, source, outcome, report>>

(* Mutant of SourceAfter: the failure of the second source is not noted *)
SourceAfterFirst(q) == IF q = "query_store" THEN "dmv_fallback" ELSE source

(* data_source after a failure of q *)
SourceAfter(q) ==
  CASE q = "query_store" -> "dmv_fallback" [] q = "dmv" -> "unavailable"
    [] OTHER -> source

(* A failure that is caught leaves the query without rows *)
FailCaught ==
  /\ Reading /\ Asked /\ query \in Caught /\ Cardinality(failed) < MaxFailures
  /\ failed' = failed \cup {query}
  /\ source' = SourceAfter(query)
  /\ next' = next + 1
  /\ UNCHANGED <<tool, args, narrow, rows, outcome, report>>

(* Any other failure ends the call; so does one of Query Store that does   *)
(* not say that Query Store is unavailable.                                *)
FailRaised ==
  /\ Reading /\ Asked /\ query \notin Caught \ {"query_store"}
  /\ failed' = failed \cup {query}
  /\ outcome' = "error"
  /\ UNCHANGED <<tool, args, narrow, next, rows, source, report>>

-----------------------------------------------------------------------------
(* The findings on the rows R.  Every finding but the ones of severity     *)
(* "info" comes with a recommendation of the same priority.                *)

When(condition, code, severity) ==
  IF condition THEN {[code |-> code, severity |-> severity]} ELSE {}

HighIf(condition) == IF condition THEN "high" ELSE "medium"

Large(R, q) == \E v \in Values(R, q) : v >= STATS_MIN_ROWS_HIGH_SEVERITY

Settings(R) ==
  IF R["settings"] = <<>> THEN [create |-> TRUE, update |-> TRUE]
                          ELSE R["settings"][1].v

(* equal_rows of one histogram: the largest value is ten times the average *)
Skewed(h) == h.sum > 0 /\ h.max * h.steps >= 10 * h.sum

tab_health(R) ==
  When(R["fragmented"] # <<>>, "FRAGMENTED_INDEXES", "high")
  \cup When(R["missing_pk"] # <<>>, "MISSING_PRIMARY_KEY", "medium")
  \cup When(StaleGrades(R) \ {"none"} # {}, "STALE_STATISTICS",
            HighIf("high" \in StaleGrades(R)))
  \cup When(R["never_updated"] # <<>>, "STATS_NEVER_UPDATED",
            HighIf(Large(R, "never_updated")))
  \cup When(SampleGrades(R) \ {"none"} # {}, "STATS_LOW_SAMPLE_RATIO",
            HighIf("high" \in SampleGrades(R)))
  \cup When(~Settings(R).create \/ ~Settings(R).update,
            "STATS_AUTO_SETTINGS_DISABLED", HighIf(~Settings(R).update))
  \cup When(R["coverage"] # <<>>, "STATS_COVERAGE_HEURISTIC",
            HighIf(Large(R, "coverage")))
  \cup When(\E h \in Values(R, "histogram") : Skewed(h),
            "STATS_HISTOGRAM_SKEW", "medium")

Edges(R) == [i \in 1..Len(R["fk"]) |-> R["fk"][i].v]

(* An element of missing_index stands for as many rows as its value says *)
Missing(R) ==
  LET count[k \in 0..Len(R["missing_index"])] ==
        IF k = 0 THEN 0 ELSE count[k - 1] + R["missing_index"][k].v
  IN  count[Len(R["missing_index"])]

(* The subtools of analyze_db_data_model *)
indexes(R) ==
  When(Missing(R) > 0, "INDEX_MISSING_QUERY", HighIf(Missing(R) >= 5))
  \cup When(R["missing_fk"] # <<>>, "INDEX_MISSING_FK", "medium")
  \cup When(R["redundant"] # <<>>, "INDEX_REDUNDANT", "low")
  \cup When(R["unused"] # <<>>, "INDEX_UNUSED", "low")

normalization(R) ==
  When(R["overlap"] # <<>>, "NORM_VIOLATION_TRANSITIVE",
       IF Cardinality(Values(R, "overlap")) >= 3 THEN "medium" ELSE "low")

anomalies(R) ==
  When(R["update_heavy"] # <<>>, "ANOMALY_UPDATE_WITHOUT_DELETE", "medium")
  \cup When(R["soft_delete"] # <<>>, "ANOMALY_SOFT_DELETE_NO_AUDIT", "medium")
  \cup When(R["heap"] # <<>>, "ANOMALY_INSERT_INEFFICIENT", "low")

datatype_consistency(R) ==
  LET type_mismatches == {i \in 1..Len(R["datatype"]) : R["datatype"][i].v = "type"}
  IN  When(type_mismatches # {}, "DATATYPE_INCONSISTENCY_EXPLICIT",
           HighIf(Cardinality(type_mismatches) >= 3))
      \cup When("length" \in Values(R, "datatype"),
                "DATATYPE_INCONSISTENCY_IMPLICIT", "low")

data_model(R) ==
  When(circular_dependency_tables(Edges(R)) # {}, "CIRCULAR_DEPENDENCY", "high")
  \cup When(R["fk"] = <<>>, "NO_FK_RELATIONSHIPS", "medium")
  \cup indexes(R) \cup normalization(R) \cup anomalies(R)
  \cup datatype_consistency(R)

sec_config(R) ==
  When(R["orphan"] # <<>>, "ORPHAN_USERS", "medium")
  \cup When(R["elevated"] # <<>>, "ELEVATED_ROLE_MEMBERS", "high")
  \cup When(1 \in Values(R, "xp_cmdshell"), "XP_CMDSHELL_ENABLED", "critical")

TOP_STMT_DURATION_HIGH_US == 5000000
TOP_STMT_DURATION_MEDIUM_US == 1000000
TOP_STMT_EXEC_COUNT_HIGH == 10000
TOP_STMT_SCAN_RATIO_HIGH == 80
TOP_STMT_ROW_COUNT_LARGE == 10000000

(* The objects that are scanned a lot *)
high_scan(R) ==
  {i \in 1..Len(R["objects"]) :
     /\ R["objects"][i].v.scan >= TOP_STMT_SCAN_RATIO_HIGH
     /\ R["objects"][i].v.count > 0}

(* Mutant of ScanSeverity: the last of the objects is looked at *)
ScanSeverityLast(R) == HighIf(R["objects"][Max(high_scan(R))].v.scan >= 90)

(* The first of the objects decides *)
ScanSeverity(R) == HighIf(R["objects"][Min(high_scan(R))].v.scan >= 90)

top_statement_actions(R) ==
  LET statements == Values(R, "query_store") \cup Values(R, "dmv")
  IN  When(\E v \in statements : v.duration >= TOP_STMT_DURATION_HIGH_US,
           "HIGH_DURATION", "high")
      \cup When(\E v \in statements : v.execs >= TOP_STMT_EXEC_COUNT_HIGH,
                "HIGH_EXECUTION_COUNT", "medium")
      \cup When(high_scan(R) # {}, "HIGH_SCAN_PRESSURE", ScanSeverity(R))
      \cup When(\E v \in Values(R, "objects") : v.count >= TOP_STMT_ROW_COUNT_LARGE,
                "LARGE_TABLE_CANDIDATE", "medium")
      \cup When(\E v \in statements : v.duration \in
                  TOP_STMT_DURATION_MEDIUM_US..(TOP_STMT_DURATION_HIGH_US - 1),
                "REWRITE_CANDIDATE", "medium")

Found(R) ==
  CASE tool = "analyze_tab_health" -> tab_health(R)
    [] tool = "analyze_db_data_model" -> data_model(R)
    [] tool = "analyze_sec_config" -> sec_config(R)
    [] tool = "top_statements" -> top_statement_actions(R)
    [] OTHER -> {}

(* What a report says that has nothing else to say *)
Otherwise ==
  IF tool = "top_statements" /\ source = "unavailable"
  THEN [code |-> "TELEMETRY_UNAVAILABLE", severity |-> "error"]
  ELSE [code |-> "NO_MAJOR_ISSUES", severity |-> "info"]

(* _normalize_severity raises ValueError for any other severity *)
build_finding(f) == f.severity \in {"critical", "high", "medium", "low", "info"}

(* The names of the columns, the heads of the blocking chains (as the tool *)
(* and as the interactive app see them) and the depth at which the page    *)
(* shows a blocked session, or the findings.                               *)
Report ==
  LET found == Found(Shown)
      raw(q) == [i \in 1..Len(rows[q]) |-> rows[q][i].v]
  IN  [findings |-> IF tool \in {"sessions_dashboard", "execute_query"} THEN {}
                    ELSE IF found = {} THEN {Otherwise} ELSE found,
       cycles |-> circular_dependency_tables(Edges(Shown)),
       heads |-> head_blockers(raw("lock_chains")),
       roots |-> listed_heads(raw("lock_chains")),
       depths |-> [i \in 1..Len(rows["blocking_chains"]) |->
                     depth_for_session(rows["blocking_chains"][i].v[1],
                                       raw("blocking_chains"))],
       names |-> normalize_column_names(raw("columns"))]

Finish ==
  /\ outcome = "running" /\ next > Len(Queries[tool])
  /\ IF \A f \in Report.findings : build_finding(f)
     THEN outcome' = "report" /\ report' = Report
     ELSE outcome' = "error" /\ UNCHANGED report
  /\ UNCHANGED <<tool, args, narrow, next, rows, failed, source>>

(* The call has ended *)
Done == outcome # "running" /\ UNCHANGED vars

Next == Skip \/ Read \/ FailCaught \/ FailRaised \/ Finish \/ Done

Spec == Init /\ [][Next]_vars

-----------------------------------------------------------------------------
Rank == [none |-> 0, info |-> 1, low |-> 2, medium |-> 3, high |-> 4, critical |-> 5]

(* Row i of query q alone *)
Alone(q, i) == [x \in Query |-> IF x = q THEN <<rows[q][i]>> ELSE <<>>]

(* The severity that a set of findings gives to a code *)
Severity(findings, code) ==
  Max({0} \cup {Rank[f.severity] : f \in {g \in findings : g.code = code}})

(* The codes that depend on more than one row, or on the absence of rows *)
Joint == {"CIRCULAR_DEPENDENCY", "NO_FK_RELATIONSHIPS", "NO_MAJOR_ISSUES"}
Counted == {"INDEX_MISSING_QUERY", "NORM_VIOLATION_TRANSITIVE",
            "DATATYPE_INCONSISTENCY_EXPLICIT"}

(* The severity of a finding is the worst that one of the rows which the   *)
(* call asked for would be given alone, wherever it stands in the result   *)
(* and whatever else was found; a finding that counts its rows is at least *)
(* as severe.  (The findings of the four analysis tools.)                  *)
WorstRowDecides ==
  outcome = "report" =>
    LET asked == {p \in UNION {{q} \X (1..Len(rows[q])) : q \in Query} :
                    narrow /\ p[1] \in Narrowed => rows[p[1]][p[2]].here}
        worst(code) == Max({0} \cup {Severity(Found(Alone(p[1], p[2])), code) : p \in asked})
        codes == {f.code : f \in report.findings}
                   \cup UNION {{f.code : f \in Found(Alone(p[1], p[2]))} : p \in asked}
    IN  \A c \in codes \ Joint :
          \/ Severity(report.findings, c) = worst(c)
          \/ c \in Counted /\ Severity(report.findings, c) > worst(c)

(* A report that gives the all-clear has nothing else to say, top_statements *)
(* heard from one of its two sources of statements before it, and the data *)
(* model has foreign keys.  What no all-clear waits for are the scans of   *)
(* the subtools, the pressure on objects and the server's configuration.   *)
NoFalseAllClear ==
  outcome = "report" /\ (\E f \in report.findings : f.code = "NO_MAJOR_ISSUES") =>
    /\ report.findings = {[code |-> "NO_MAJOR_ISSUES", severity |-> "info"]}
    /\ ~({"query_store", "dmv"} \subseteq failed)
    /\ tool = "analyze_db_data_model" => Edges(Shown) # <<>>

(* build_fk_graph's search along paths reports exactly the tables that are *)
(* on a cycle of the foreign keys it was given, whatever the graph; narrowed *)
(* to a schema, it reports no table that is not on a cycle of them all.    *)
CyclesFound ==
  outcome = "report" =>
    /\ report.cycles = Circular(Edges(Shown))
    /\ report.cycles \subseteq Circular(Edges(rows))
    /\ report.cycles # {} <=> \E f \in report.findings : f.code = "CIRCULAR_DEPENDENCY"

(* The keys of a row are distinct, or values would be lost when the row    *)
(* becomes a dictionary; and a name that no other column has, or could be  *)
(* given, is kept.                                                         *)
NamesUnique ==
  outcome = "report" =>
    LET raw == rows["columns"]
    IN  /\ Len(report.names) = Len(raw)
        /\ \A i, j \in 1..Len(raw) : i # j => report.names[i] # report.names[j]
        /\ \A i \in 1..Len(raw) :
             raw[i].v # NoName /\ (\A j \in 1..Len(raw) : j # i => raw[j].v # NoName
                                                       /\ raw[j].v[1] # raw[i].v[1])
               => report.names[i] = raw[i].v

(* A chain of blocked sessions ends at a head that the interactive app     *)
(* lists, unless it runs into a cycle or into a blocker that is no         *)
(* session, or the list is full and the head that is left out has a higher *)
(* number than all listed ones.  The listed heads wait for nobody, and the *)
(* tool lists them too.  The page shows a session as deep as the number of *)
(* blocked sessions on its chain (itself among them), up to the limit,     *)
(* also if the chain is a cycle or if a session waits for several others.  *)
RootsReached ==
  outcome = "report" =>
    LET waits == [i \in 1..Len(rows["lock_chains"]) |-> rows["lock_chains"][i].v]
        chains == [i \in 1..Len(rows["blocking_chains"]) |->
                     rows["blocking_chains"][i].v]
        blocker == blocking_by_session(chains)
        links == SetToSeq({<<s, blocker[s]>> : s \in DOMAIN blocker})
        chain(s) == {m \in DOMAIN blocker : s \in DOMAIN blocker
                                            /\ m \in Reached(s, links)}
    IN  /\ \A i \in 1..Len(chains) :
             report.depths[i] =
               Min({DepthLimit + 1, Cardinality(chain(chains[i][1]))})
        /\ report.roots \subseteq report.heads
        /\ Cardinality(report.roots) <= HeadLimit
        /\ \A s \in report.roots : Reached(s, waits) = {s}
        /\ \A s \in Blocked(waits) :
             \/ Reached(s, waits) \cap (report.roots \cup Circular(waits)
                                          \cup {b \in Nodes(waits) : b <= 0}) # {}
             \/ /\ Cardinality(report.roots) = HeadLimit
                /\ \E m \in Reached(s, waits) :
                     /\ Reached(m, waits) = {m}
                     /\ \A r \in report.roots : r < m

-----------------------------------------------------------------------------
(* Statement of the documentation *)

(* "Each query path is independently resilient - failure in one does not   *)
(* block the others": a call that got to its last query, because each one  *)
(* answered or its failure was caught, ends with a report.                 *)
ResilientPaths ==
  outcome # "running" /\ next > Len(Queries[tool]) => outcome = "report"
=============================================================================
