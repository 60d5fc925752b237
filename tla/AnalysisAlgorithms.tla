------------------------- MODULE AnalysisAlgorithms -------------------------
(***************************************************************************)
(* The pure algorithms behind the reports: how the columns of a result are *)
(* named, how tables on a foreign-key cycle and the heads of blocking      *)
(* chains are found, and how a row of statistics is graded.  Next to each  *)
(* algorithm stands a reference: what it is meant to compute, said without *)
(* the steps of the code.                                                  *)
(***************************************************************************)
EXTENDS Integers, Sequences, FiniteSets, SequencesExt, FiniteSetsExt

-----------------------------------------------------------------------------
(* ConnectionManager._normalize_column_names.  A name is a base without a  *)
(* numeric suffix and the numbers that are appended to it: "a_2_1" is      *)
(* <<"a", 2, 1>>.  NoName stands for None and for blank names.             *)

CONSTANTS
  NoName,
  DepthLimit,  \* of the indentation of a blocked session: 16 in the code
  HeadLimit    \* of the heads that the interactive app lists: 25 in the code

IsName(name) ==
  /\ Len(name) \in Nat \ {0} /\ name = [i \in 1..Len(name) |-> name[i]]
  /\ \A i \in 2..Len(name) : name[i] \in Nat

(* f"col_{idx}" replaces a missing name *)
Named(value, idx) == IF value = NoName THEN <<"col", idx>> ELSE value

(* The name after the one that is taken: the last number grows, and a name *)
(* that ends in no number gets the suffix 1.                               *)
NextName(name, k) ==
  IF Len(name) > 1 THEN [name EXCEPT ![Len(name)] = @ + k] ELSE Append(name, k)

(* Mutant of FreeName: the name is not compared with the final names *)
FreeNameUnchecked(name, final_names) == name

(* The while loop stops at the first name that is free *)
FreeName(name, final_names) ==
  IF name \notin final_names THEN name
  ELSE NextName(name, Min({k \in 1..(Cardinality(final_names) + 1) :
                               NextName(name, k) \notin final_names}))

normalize_column_names(raw) ==
  LET name(i) == Named(raw[i], i)
      count(i) == Cardinality({j \in 1..i : name(j) = name(i)})
      proposed(i) == IF count(i) > 1 THEN Append(name(i), count(i)) ELSE name(i)
      normalized[i \in 0..Len(raw)] ==
        IF i = 0 THEN <<>>
        ELSE Append(normalized[i - 1], FreeName(proposed(i), ToSet(normalized[i - 1])))
  IN  normalized[Len(raw)]

-----------------------------------------------------------------------------
(* build_fk_graph.  A row is an edge <<parent, referenced>>.               *)

Nodes(rows) == UNION {{r[1], r[2]} : r \in ToSet(rows)}

(* Mutant of OnCycle: the edge back to the start is looked for too late *)
OnCycleSeenFirst(start, rows) ==
  LET dfs[at \in Nodes(rows) \X SUBSET Nodes(rows)] ==
        \E e \in ToSet(rows) :
          /\ e[1] = at[1] /\ e[2] \notin at[2]
          /\ e[2] = start \/ dfs[<<e[2], at[2] \cup {e[2]}>>]
  IN  dfs[<<start, {start}>>]

(* _dfs: from the start along edges to nodes not seen on this path.  `at'  *)
(* is the pair of current and seen.                                        *)
OnCycle(start, rows) ==
  LET dfs[at \in Nodes(rows) \X SUBSET Nodes(rows)] ==
        \E e \in ToSet(rows) :
          /\ e[1] = at[1]
          /\ e[2] = start \/ (e[2] \notin at[2] /\ dfs[<<e[2], at[2] \cup {e[2]}>>])
  IN  dfs[<<start, {start}>>]

circular_dependency_tables(rows) == {n \in Nodes(rows) : OnCycle(n, rows)}

(* The reference: what an edge leads to is in every set that holds n and,  *)
(* with a node, the nodes that it has an edge to.                          *)
Reached(n, rows) ==
  {m \in Nodes(rows) :
     \A S \in SUBSET Nodes(rows) :
       n \in S /\ (\A e \in ToSet(rows) : e[1] \in S => e[2] \in S) => m \in S}

(* A node is on a cycle if one of its edges leads back to it *)
Circular(rows) == {e[1] : e \in {f \in ToSet(rows) : f[1] \in Reached(f[2], rows)}}

-----------------------------------------------------------------------------
(* Blocking chains.  A row <<session, blocker>> of the waiting tasks; the  *)
(* blocker is 0 or negative if it is not a session.                        *)

Blocking(rows) == {b \in {r[2] : r \in ToSet(rows)} : b > 0}

Blocked(rows) == {r[1] : r \in ToSet(rows)}

(* sessions_dashboard and the refresh route list every blocker *)
head_blockers(rows) == Blocking(rows)

(* Mutant of true_head_blockers: the blocked sessions are not taken out *)
true_head_blockersAll(rows) == Blocking(rows)

(* The interactive app looks for the blockers that are not blocked         *)
(* themselves, *)
true_head_blockers(rows) == Blocking(rows) \ Blocked(rows)

(* ... and lists the first HeadLimit of them, sorted by session *)
listed_heads(rows) ==
  {h \in true_head_blockers(rows) :
     Cardinality({k \in true_head_blockers(rows) : k <= h}) <= HeadLimit}

(* _html_chain_section: whom a session waits for, by the last row that     *)
(* tells, and how deep it stands below the head of its chain.              *)
blocking_by_session(rows) ==
  LET told == {i \in 1..Len(rows) : rows[i][1] > 0 /\ rows[i][2] > 0}
  IN  [s \in {rows[i][1] : i \in told} |->
         rows[Max({i \in told : rows[i][1] = s})][2]]

depth_for_session(session, rows) ==
  LET blocker == blocking_by_session(rows)
      depth[at \in ({session} \cup Nodes(rows)) \X SUBSET Nodes(rows)] ==
        LET current == at[1]
            seen == at[2]
        IN  IF \/ current \notin DOMAIN blocker \/ current \in seen
               \/ Cardinality(seen) > DepthLimit
            THEN Cardinality(seen) ELSE depth[<<blocker[current], seen \cup {current}>>]
  IN  depth[<<session, {}>>]

-----------------------------------------------------------------------------
(* The grades of a row of statistics.  Ratios are compared by cross-       *)
(* multiplication in percent; NoDays stands for an unknown last update.    *)

STATS_MIN_ROWS_FOR_STALENESS == 1000
STATS_MIN_MOD_COUNT == 500
STATS_MOD_RATIO_MEDIUM == 20
STATS_MOD_RATIO_HIGH == 35
STATS_DAYS_STALE_MEDIUM == 30
STATS_DAYS_STALE_HIGH == 90
STATS_MIN_ROWS_HIGH_SEVERITY == 100000
STATS_MIN_MOD_COUNT_HIGH == 20000
STATS_LOW_SAMPLE_LOW == 10
STATS_LOW_SAMPLE_HIGH == 1
STATS_MIN_ROWS_FOR_SAMPLING == 10000
NoDays == -1

classify_stale_statistics_row(r) ==
  LET changed(count, ratio) == r.mods >= count /\ 100 * r.mods >= ratio * r.rows
      is_stale == \/ changed(STATS_MIN_MOD_COUNT, STATS_MOD_RATIO_MEDIUM)
                  \/ r.days >= STATS_DAYS_STALE_MEDIUM
      is_high == \/ changed(STATS_MIN_MOD_COUNT_HIGH, STATS_MOD_RATIO_HIGH)
                 \/ /\ r.days >= STATS_DAYS_STALE_HIGH
                    /\ r.rows >= STATS_MIN_ROWS_HIGH_SEVERITY
  IN  IF r.rows < STATS_MIN_ROWS_FOR_STALENESS \/ ~is_stale THEN "none"
      ELSE IF is_high THEN "high" ELSE "medium"

classify_low_sample_statistics_row(r) ==
  IF r.rows < STATS_MIN_ROWS_FOR_SAMPLING
       \/ 100 * r.sampled >= STATS_LOW_SAMPLE_LOW * r.rows THEN "none"
  ELSE IF 100 * r.sampled < STATS_LOW_SAMPLE_HIGH * r.rows THEN "high"
  ELSE "medium"
=============================================================================
