------------------------- MODULE MCAnalysisReports -------------------------
(* Instances of AnalysisReports for TLC. *)
EXTENDS AnalysisReports

CONSTANTS a1, a2, b1, x1, x2, x3

(* A row that only has to be there *)
Plain == [here : BOOLEAN, v : {TRUE}]

(* Rows of statistics at the boundaries of the grades *)
Stale ==
  {[rows |-> 999, mods |-> 999, days |-> 90],
   [rows |-> 1000, mods |-> 499, days |-> NoDays],
   [rows |-> 1000, mods |-> 500, days |-> 29],
   [rows |-> 1000, mods |-> 0, days |-> 30],
   [rows |-> 99999, mods |-> 0, days |-> 90],
   [rows |-> 100000, mods |-> 19999, days |-> 90],
   [rows |-> 100000, mods |-> 34999, days |-> 0],
   [rows |-> 57143, mods |-> 20000, days |-> 0],
   [rows |-> 57142, mods |-> 20000, days |-> 0]}

Sampled ==
  {[rows |-> 9999, sampled |-> 0], [rows |-> 10000, sampled |-> 99],
   [rows |-> 10000, sampled |-> 100], [rows |-> 10000, sampled |-> 999],
   [rows |-> 10000, sampled |-> 1000]}

Histograms ==
  {[steps |-> 10, max |-> 5, sum |-> 5], [steps |-> 10, max |-> 5, sum |-> 6],
   [steps |-> 1, max |-> 0, sum |-> 0]}

Statements == [duration : {0, 999999, 1000000, 4999999, 5000000},
               execs : {9999, 10000}]

Objects == [scan : {79, 80, 89, 90}, count : {0, 9999999, 10000000}]

(* Two tables of the schema a that may be asked for and one of b *)
Table == {a1, a2, b1}
Keys == {[here |-> e # <<b1, b1>>, v |-> e] : e \in Table \X Table}

(* Sessions wait for each other, or for something that is no session.  Two *)
(* chains with heads of their own, of which one is listed, need four.      *)
Waits == (1..3) \X ({-4} \cup 1..4)

Columns == {NoName, <<"a">>, <<"a", 2>>, <<"col", 2>>, <<"a", 2, 2>>}

Here(S) == [here : BOOLEAN, v : S]
Where(S) == [here : {TRUE}, v : S]

SmallRows ==
  [q \in Query |->
     CASE q = "stale" -> Where(Stale) \cup [here : {FALSE}, v : {CHOOSE r \in Stale : r.mods = 20000}]
       [] q = "low_sampled" -> Where(Sampled)
       [] q = "histogram" -> Where(Histograms)
       [] q \in {"never_updated", "coverage"} -> Here({99999, 100000})
       [] q = "settings" -> Where([create : BOOLEAN, update : BOOLEAN])
       [] q = "fk" -> Keys
       [] q = "missing_index" -> Here({1, 4})
       [] q = "overlap" -> Where({x1, x2, x3})
       [] q = "datatype" -> Where({"type", "length", "scale"})
       [] q = "xp_cmdshell" -> Where({0, 1})
       [] q \in {"query_store", "dmv"} -> Where(Statements)
       [] q = "objects" -> Where(Objects)
       [] q \in {"lock_chains", "blocking_chains"} -> Where(Waits)
       [] q = "columns" -> Where(Columns)
       [] q \in {"sizes", "backups"} -> {}
       [] q \in {"fragmented", "missing_pk", "missing_fk", "soft_delete"} -> Plain
       [] OTHER -> Where({TRUE})]

SmallBounds ==
  [t \in Tool |-> CASE t = "execute_query" -> 5
                    [] t \in {"analyze_db_data_model", "sessions_dashboard"} -> 3
                    [] OTHER -> 2]
=============================================================================
