----------------------- MODULE AnalysisReportsProofs -----------------------
(***************************************************************************)
(* Proofs about AnalysisReports and the algorithms of AnalysisAlgorithms,  *)
(* for any rows that the queries deliver, any number of them, and any      *)
(* failures.                                                               *)
(***************************************************************************)
EXTENDS AnalysisReports, FiniteSetTheorems, TLAPS

-----------------------------------------------------------------------------
(* The invariant *)

(* Only queries of the tool deliver rows, and those the ones that they can *)
Delivered ==
  /\ tool \in Tool
  /\ rows \in [Query -> UNION {Seq(RowsOf[q]) : q \in Query}]
  /\ \A q \in Query : rows[q] \in Seq(RowsOf[q])
  /\ \A q \in Query : q \notin ToSet(Queries[tool]) => rows[q] = <<>>

(* When the second source of the statements has failed, the report has it  *)
(* written down: the first one is not asked afterwards.                    *)
Noted ==
  /\ next \in Nat \ {0}
  /\ outcome # "error" /\ "dmv" \in failed =>
       tool = "top_statements" /\ next > 2 /\ source = "unavailable"

(* The report is about what was read *)
Told == outcome = "report" => report = Report

ReportsInv == Delivered /\ Noted /\ Told

-----------------------------------------------------------------------------
(* Induction and loops *)

(* A set of natural numbers has a least member: induction, in a form that  *)
(* needs no predicate as a parameter.                                      *)
LEMMA LeastNumber ==
  ASSUME NEW T \in SUBSET Nat, T # {}
  PROVE  \E m \in T : \A k \in T : m <= k
<1> DEFINE Less == {p \in Nat \X Nat : p[1] < p[2]}
<1>1. Less = OpToRel(<, Nat)
  BY Zenon DEF OpToRel
<1>2. IsWellFoundedOn(Less, Nat)
  BY <1>1, NatLessThanWellFounded
<1>3. \E m \in T : \A k \in T : ~(<<k, m>> \in Less)
  <2> HIDE DEF Less
  <2> QED
    BY <1>2, WFMin
<1>4. \A k, m \in Nat : k < m => <<k, m>> \in Less
  OBVIOUS
<1> HIDE DEF Less
<1>5. PICK m \in T : \A k \in T : ~(<<k, m>> \in Less)
  BY <1>3
<1>6. ASSUME NEW k \in T PROVE m <= k
  <2>1. k \in Nat /\ m \in Nat /\ ~(k < m)
    BY <1>4, <1>5
  <2> QED
    BY <2>1
<1> QED
  BY <1>6

(* The values of a loop that starts with v and makes the turns G[1]..G[n] *)
Loops(V, v, n, G) ==
  {f \in [0..n -> V] : f[0] = v /\ \A k \in 1..n : f[k] = G[k][f[k - 1]]}

(* What a loop computes step by step exists. *)
LEMMA LoopExists ==
  ASSUME NEW V, NEW v \in V, NEW n \in Nat, NEW G \in [1..n -> [V -> V]]
  PROVE  Loops(V, v, n, G) # {}
<1> DEFINE Upto(m, f) == f[0] = v /\ \A k \in 1..m : f[k] = G[k][f[k - 1]]
           Bad == {m \in 0..n : ~\E f \in [0..m -> V] : Upto(m, f)}
<1>1. ASSUME Bad # {} PROVE FALSE
  <2>1. PICK m \in Bad : \A k \in Bad : m <= k
    <3>1. Bad \in SUBSET Nat
      OBVIOUS
    <3> HIDE DEF Bad
    <3>2. \E m \in Bad : \A k \in Bad : m <= k
      BY <1>1, <3>1, LeastNumber
    <3> QED
      BY <3>2
  <2>2. m # 0
    <3>1. [i \in 0..0 |-> v] \in [0..0 -> V] /\ Upto(0, [i \in 0..0 |-> v])
      OBVIOUS
    <3> QED
      BY <3>1
  <2>3. m - 1 \in 0..n /\ m - 1 \notin Bad /\ m \in 1..n
    BY <2>1, <2>2
  <2>4. PICK f \in [0..(m - 1) -> V] : Upto(m - 1, f)
    BY <2>3
  <2> DEFINE g == [i \in 0..m |-> IF i = m THEN G[m][f[m - 1]] ELSE f[i]]
  <2>5. f[m - 1] \in V /\ G[m][f[m - 1]] \in V
    BY <2>3, <2>4
  <2>6. g \in [0..m -> V]
    BY <2>3, <2>4, <2>5
  <2>7. g[0] = v
    BY <2>3, <2>4
  <2>8. ASSUME NEW k \in 1..m PROVE g[k] = G[k][g[k - 1]]
    <3>1. CASE k = m
      BY <2>3, <2>4, <3>1
    <3>2. CASE k # m
      <4>1. k \in 1..(m - 1) /\ k - 1 \in 0..(m - 1) /\ k \in 0..m /\ k - 1 \in 0..m
            /\ k - 1 # m
        BY <2>3, <3>2
      <4>2. f[k] = G[k][f[k - 1]]
        BY <2>4, <4>1
      <4> QED
        BY <3>2, <4>1, <4>2
    <3> QED
      BY <3>1, <3>2
  <2>9. Upto(m, g)
    BY <2>7, <2>8
  <2> HIDE DEF g, Upto
  <2> QED
    BY <2>1, <2>6, <2>9
<1>2. n \notin Bad
  BY <1>1
<1> QED
  BY <1>2 DEF Loops
-----------------------------------------------------------------------------
(* The steps *)

(* The queries of the tools *)
LEMMA QueryFacts ==
  /\ \A t \in Tool : \A n \in 1..Len(Queries[t]) :
       /\ Queries[t][n] \in Query
       /\ Queries[t][n] \in ToSet(Queries[t])
       /\ Queries[t][n] = "dmv" => t = "top_statements" /\ n = 2
       /\ Queries[t][n] = "query_store" => t = "top_statements" /\ n = 1
<1>1. \A t \in Tool : \A n \in 1..Len(Queries[t]) :
        Queries[t][n] \in ToSet(Queries[t])
  BY DEF ToSet, Tool, Queries
<1>2. \A t \in Tool : \A n \in 1..Len(Queries[t]) : Queries[t][n] \in Query
  BY <1>1 DEF Query
<1>3. \A t \in Tool : \A n \in 1..Len(Queries[t]) :
       /\ Queries[t][n] = "dmv" => t = "top_statements" /\ n = 2
       /\ Queries[t][n] = "query_store" => t = "top_statements" /\ n = 1
  <2> SUFFICES ASSUME NEW t \in Tool, NEW n \in 1..Len(Queries[t])
               PROVE  /\ Queries[t][n] = "dmv" => t = "top_statements" /\ n = 2
                      /\ Queries[t][n] = "query_store" => t = "top_statements" /\ n = 1
    OBVIOUS
  <2>1. t \in {"analyze_tab_health", "analyze_db_data_model", "analyze_sec_config",
               "top_statements", "sessions_dashboard", "execute_query"}
    BY DEF Tool, Queries
  <2>2. CASE t = "analyze_tab_health"
    BY <2>2 DEF Queries
  <2>3. CASE t = "analyze_db_data_model"
    BY <2>3 DEF Queries
  <2>4. CASE t = "analyze_sec_config"
    BY <2>4 DEF Queries
  <2>5. CASE t = "top_statements"
    BY <2>5 DEF Queries
  <2>6. CASE t = "sessions_dashboard"
    BY <2>6 DEF Queries
  <2>7. CASE t = "execute_query"
    BY <2>7 DEF Queries
  <2> QED
    BY <2>1, <2>2, <2>3, <2>4, <2>5, <2>6, <2>7
<1> QED
  BY <1>1, <1>2, <1>3

(* The report changes only with what it is about. *)
LEMMA ReportKept ==
  ASSUME UNCHANGED <<tool, narrow, rows, source>>
  PROVE  Report' = Report
BY DEF Report, Found, Shown, Otherwise

LEMMA InitReports == Init => ReportsInv
<1> SUFFICES ASSUME Init PROVE ReportsInv
  OBVIOUS
<1>1. Delivered
  <2>1. \A q \in Query : <<>> \in Seq(RowsOf[q])
    OBVIOUS
  <2> QED
    BY <2>1 DEF Init, Delivered
<1> QED
  BY <1>1 DEF Init, ReportsInv, Noted, Told

LEMMA StepReports ==
  ASSUME ReportsInv, [Next]_vars
  PROVE  ReportsInv'
<1> USE DEF ReportsInv
<1>0. ASSUME Reading
      PROVE  /\ next \in 1..Len(Queries[tool]) /\ query \in Query
             /\ query \in ToSet(Queries[tool])
             /\ query = "dmv" => tool = "top_statements" /\ next = 2
             /\ query = "query_store" => tool = "top_statements" /\ next = 1
  <2>1. Len(Queries[tool]) \in Nat
    BY DEF Delivered, Tool, Queries
  <2>2. next \in 1..Len(Queries[tool])
    BY <1>0, <2>1 DEF Reading, Noted
  <2> QED
    BY <2>2, QueryFacts DEF Delivered, query
<1>1. CASE Skip
  BY <1>1 DEF Skip, Reading, Delivered, Noted, Told
<1>2. CASE Read
  <2>1. PICK n \in 0..Room : \E s \in [1..n -> RowsOf[query]] :
          rows' = [rows EXCEPT ![query] = s]
    BY <1>2 DEF Read
  <2>2. PICK s \in [1..n -> RowsOf[query]] : rows' = [rows EXCEPT ![query] = s]
    BY <2>1
  <2>3. s \in Seq(RowsOf[query])
    BY <2>1, <2>2
  <2>4. query \in Query /\ query \in ToSet(Queries[tool])
    BY <1>0, <1>2 DEF Read
  <2>5. Delivered'
    <3>1. tool' = tool
      BY <1>2 DEF Read
    <3>2. s \in UNION {Seq(RowsOf[q]) : q \in Query}
      BY <2>3, <2>4
    <3> HIDE DEF ReportsInv
    <3> DEFINE U == UNION {Seq(RowsOf[q]) : q \in Query}
    <3>3. rows \in [Query -> U] /\ s \in U
      BY <3>2 DEF ReportsInv, Delivered
    <3> HIDE DEF U
    <3>4. rows' \in [Query -> U]
      BY <2>2, <2>4, <3>3
    <3>5. \A q \in Query : rows'[q] = IF q = query THEN s ELSE rows[q]
      BY <2>2, <3>3
    <3> USE DEF ReportsInv, U
    <3> QED
      BY <2>3, <2>4, <3>1, <3>4, <3>5 DEF Delivered
  <2> QED
    BY <1>2, <2>5 DEF Read, Reading, Noted, Told
<1>3. CASE FailCaught
  <2>1. Delivered' /\ Told'
    BY <1>3 DEF FailCaught, Reading, Delivered, Told
  <2>2. Noted'
    BY <1>0, <1>3 DEF FailCaught, Noted, SourceAfter
  <2> QED
    BY <2>1, <2>2
<1>4. CASE FailRaised
  BY <1>4 DEF FailRaised, Delivered, Noted, Told
<1>5. CASE Finish
  BY <1>5, ReportKept DEF Finish, Delivered, Noted, Told
<1>6. CASE UNCHANGED vars
  BY <1>6, ReportKept DEF vars, Delivered, Noted, Told
<1> QED
  BY <1>1, <1>2, <1>3, <1>4, <1>5, <1>6 DEF Next, Done

(* Reports are about what was read. *)
THEOREM ReportsInvariance == Spec => []ReportsInv
BY InitReports, StepReports, PTL DEF Spec

-----------------------------------------------------------------------------
(* The filter *)

(* Two loops that start alike and make the same turns agree. *)
SameTurns(f, h, n) ==
  f[0] = h[0] /\ \A k \in 1..n : f[k - 1] = h[k - 1] => f[k] = h[k]

LEMMA LoopsAgree ==
  ASSUME NEW n \in Nat, NEW f, NEW h, SameTurns(f, h, n)
  PROVE  \A k \in 0..n : f[k] = h[k]
<1> USE DEF SameTurns
<1> DEFINE Bad == {k \in 0..n : f[k] # h[k]}
<1>1. ASSUME Bad # {} PROVE FALSE
  <2>1. Bad \in SUBSET Nat
    OBVIOUS
  <2>2. \E m \in Bad : \A k \in Bad : m <= k
    <3> HIDE DEF Bad
    <3> QED
      BY <1>1, <2>1, LeastNumber
  <2>3. PICK m \in Bad : \A k \in Bad : m <= k
    BY <2>2
  <2>4. m \in 1..n /\ m - 1 \in 0..n
    BY <2>3
  <2>5. f[m - 1] = h[m - 1]
    BY <2>3, <2>4
  <2> QED
    BY <2>3, <2>4, <2>5
<1> QED
  BY <1>1

(* What is appended is added. *)
LEMMA ToSetAppend ==
  ASSUME NEW S, NEW t \in Seq(S), NEW x
  PROVE  ToSet(Append(t, x)) = ToSet(t) \cup {x}
<1>1. t \in Seq(S \cup {x})
  OBVIOUS
<1> DEFINE U == S \cup {x}
<1>2. x \in U /\ t \in Seq(U)
  BY <1>1
<1> HIDE DEF U
<1>3. /\ DOMAIN Append(t, x) = 1..(Len(t) + 1) /\ DOMAIN t = 1..Len(t) /\ Len(t) \in Nat
      /\ Append(t, x)[Len(t) + 1] = x
      /\ \A i \in 1..Len(t) : Append(t, x)[i] = t[i]
  BY <1>2
<1>4. \A i \in 1..(Len(t) + 1) : i \in 1..Len(t) \/ i = Len(t) + 1
  BY <1>3
<1>5. Len(t) + 1 \in 1..(Len(t) + 1) /\ \A i \in 1..Len(t) : i \in 1..(Len(t) + 1)
  BY <1>3
<1> QED
  BY <1>3, <1>4, <1>5 DEF ToSet

(* One turn of the loop over the rows *)
Kept(s, k, t) == IF s[k].here THEN Append(t, s[k]) ELSE t

(* The loop of filter_rows computes what its turns say. *)
LEMMA FilterLoop ==
  ASSUME NEW S, NEW s \in Seq(S)
  PROVE  \E f \in [0..Len(s) -> Seq(ToSet(s))] :
           /\ f[0] = <<>> /\ \A k \in 1..Len(s) : f[k] = Kept(s, k, f[k - 1])
           /\ filter_rows(s) = f[Len(s)]
<1> DEFINE n == Len(s)
           V == Seq(ToSet(s))
           G == [k \in 1..n |-> [t \in V |-> Kept(s, k, t)]]
           Ids(f) == [k \in 0..n |->
                        IF k = 0 THEN <<>>
                        ELSE IF s[k].here THEN Append(f[k - 1], s[k]) ELSE f[k - 1]]
           kept == CHOOSE f : f = Ids(f)
<1>0. n \in Nat /\ \A k \in 1..n : s[k] \in ToSet(s)
  BY DEF ToSet
<1>1. <<>> \in V
  OBVIOUS
<1>2. G \in [1..n -> [V -> V]]
  <2>1. ASSUME NEW k \in 1..n, NEW t \in V PROVE Kept(s, k, t) \in V
    <3>1. s[k] \in ToSet(s)
      BY <1>0
    <3> HIDE DEF n
    <3> QED
      BY <3>1 DEF Kept
  <2> HIDE DEF V, n
  <2> QED
    BY <2>1
<1> HIDE DEF n, V
<1>3. PICK f \in [0..n -> V] : f[0] = <<>> /\ \A k \in 1..n : f[k] = G[k][f[k - 1]]
  <2> DEFINE v == <<>>
  <2>1. v \in V
    BY <1>1
  <2> HIDE DEF G, v
  <2>2. Loops(V, v, n, G) # {}
    BY <1>0, <1>2, <2>1, LoopExists
  <2> QED
    BY <2>2 DEF v, Loops
<1>4. ASSUME NEW k \in 1..n PROVE f[k] = Kept(s, k, f[k - 1])
  <2>1. k - 1 \in 0..n
    BY <1>0
  <2>2. f[k - 1] \in V /\ f[k] = G[k][f[k - 1]]
    BY <1>3, <2>1
  <2>3. G[k][f[k - 1]] = Kept(s, k, f[k - 1])
    BY <2>2
  <2> QED
    BY <2>2, <2>3
<1> HIDE DEF G
<1>5. f = Ids(f)
  <2>1. ASSUME NEW k \in 0..n PROVE f[k] = Ids(f)[k]
    <3>1. CASE k = 0
      BY <1>3, <3>1
    <3>2. CASE k # 0
      <4>1. k \in 1..n
        BY <1>0, <3>2
      <4>2. f[k] = Kept(s, k, f[k - 1])
        BY <1>4, <4>1
      <4> QED
        BY <3>2, <4>2 DEF Kept
    <3> QED
      BY <3>1, <3>2
  <2>2. Ids(f) = [k \in 0..n |-> Ids(f)[k]]
    OBVIOUS
  <2>3. f = [k \in 0..n |-> f[k]]
    BY <1>3
  <2> HIDE DEF Ids
  <2> QED
    BY <2>1, <2>2, <2>3
<1>6. kept = Ids(kept)
  <2> HIDE DEF Ids
  <2> QED
    BY <1>5
<1>7. filter_rows(s) = kept[n]
  BY DEF filter_rows, n
<1>8. kept[0] = <<>> /\ \A k \in 1..n : kept[k] = Kept(s, k, kept[k - 1])
  <2> HIDE DEF kept
  <2>1. \A k \in 0..n : kept[k] = Ids(kept)[k]
    BY <1>6
  <2>2. Ids(kept)[0] = <<>>
    BY <1>0
  <2>3. ASSUME NEW k \in 1..n PROVE Ids(kept)[k] = Kept(s, k, kept[k - 1])
    BY <1>0 DEF Kept
  <2>4. 0 \in 0..n /\ \A k \in 1..n : k \in 0..n
    BY <1>0
  <2> HIDE DEF Ids
  <2> QED
    BY <2>1, <2>2, <2>3, <2>4
<1>9. kept[n] = f[n]
  <2> HIDE DEF kept
  <2>1. \A k \in 1..n : f[k - 1] = kept[k - 1] => f[k] = kept[k]
    BY <1>4, <1>8
  <2>2. f[0] = kept[0]
    BY <1>3, <1>8
  <2>3. n \in Nat
    BY <1>0
  <2>4. SameTurns(f, kept, n)
    BY <2>1, <2>2 DEF SameTurns
  <2>5. \A k \in 0..n : f[k] = kept[k]
    BY <2>3, <2>4, LoopsAgree
  <2> QED
    BY <2>3, <2>5
<1> HIDE DEF kept
<1>10. \A k \in 1..n : f[k] = Kept(s, k, f[k - 1])
  BY <1>4
<1> USE DEF n, V
<1> QED
  BY <1>3, <1>7, <1>9, <1>10

(* The filter keeps the rows that are here, and no others. *)
LEMMA FilterRows ==
  ASSUME NEW S, NEW s \in Seq(S)
  PROVE  /\ filter_rows(s) \in Seq(ToSet(s))
         /\ ToSet(filter_rows(s)) = {r \in ToSet(s) : r.here}
<1> DEFINE n == Len(s)
           Upto(k) == {s[i] : i \in {j \in 1..k : s[j].here}}
<1>0. n \in Nat
  OBVIOUS
<1>1. PICK f \in [0..n -> Seq(ToSet(s))] :
        /\ f[0] = <<>> /\ \A k \in 1..n : f[k] = Kept(s, k, f[k - 1])
        /\ filter_rows(s) = f[n]
  BY FilterLoop
<1>2. ToSet(f[n]) = Upto(n)
  <2> DEFINE F == [k \in 0..n |-> ToSet(f[k])]
             H == [k \in 0..n |-> Upto(k)]
  <2>1. F[0] = H[0]
    BY <1>0, <1>1 DEF ToSet
  <2>2. ASSUME NEW k \in 1..n, ToSet(f[k - 1]) = Upto(k - 1)
        PROVE  ToSet(f[k]) = Upto(k)
    <3>1. f[k] = Kept(s, k, f[k - 1]) /\ f[k - 1] \in Seq(ToSet(s))
      BY <1>0, <1>1
    <3>2. CASE s[k].here
      <4>1. f[k] = Append(f[k - 1], s[k])
        BY <3>1, <3>2 DEF Kept
      <4>2. ToSet(f[k]) = ToSet(f[k - 1]) \cup {s[k]}
        BY <3>1, <4>1, ToSetAppend
      <4>3. {j \in 1..k : s[j].here} = {j \in 1..(k - 1) : s[j].here} \cup {k}
        BY <1>0, <3>2
      <4>4. Upto(k) = Upto(k - 1) \cup {s[k]}
        BY <4>3
      <4> QED
        BY <2>2, <4>2, <4>4
    <3>3. CASE ~s[k].here
      <4>1. f[k] = f[k - 1]
        BY <3>1, <3>3 DEF Kept
      <4>2. Upto(k) = Upto(k - 1)
        BY <1>0, <3>3
      <4> QED
        BY <2>2, <4>1, <4>2
    <3> QED
      BY <3>2, <3>3
  <2>3. \A k \in 1..n : F[k - 1] = H[k - 1] => F[k] = H[k]
    <3> SUFFICES ASSUME NEW k \in 1..n, F[k - 1] = H[k - 1] PROVE F[k] = H[k]
      OBVIOUS
    <3>1. k \in 0..n /\ k - 1 \in 0..n
      BY <1>0
    <3>2. F[k] = ToSet(f[k]) /\ H[k] = Upto(k)
          /\ F[k - 1] = ToSet(f[k - 1]) /\ H[k - 1] = Upto(k - 1)
      BY <3>1
    <3> QED
      BY <2>2, <3>2
  <2>4. n \in 0..n /\ F[n] = ToSet(f[n]) /\ H[n] = Upto(n)
    BY <1>0
  <2> HIDE DEF F, H
  <2>5. SameTurns(F, H, n)
    BY <2>1, <2>3 DEF SameTurns
  <2>6. \A k \in 0..n : F[k] = H[k]
    BY <1>0, <2>5, LoopsAgree
  <2> QED
    BY <2>4, <2>6
<1>3. Upto(n) = {r \in ToSet(s) : r.here}
  BY DEF ToSet
<1>4. f[n] \in Seq(ToSet(s))
  BY <1>0, <1>1
<1> QED
  BY <1>1, <1>2, <1>3, <1>4

(* What is shown of the rows of a query *)
LEMMA ShownFacts ==
  ASSUME Delivered
  PROVE  /\ "fk" \in Query
         /\ \A q \in Query : /\ Shown[q] \in Seq(ToSet(rows[q]))
                             /\ ToSet(Shown[q]) = {r \in ToSet(rows[q]) :
                                   narrow /\ q \in Narrowed => r.here}
<1>1. "fk" \in Query
  <2>1. "analyze_db_data_model" \in Tool /\ 1 \in 1..Len(Queries["analyze_db_data_model"])
        /\ Queries["analyze_db_data_model"][1] = "fk"
    BY DEF Tool, Queries
  <2> QED
    BY <2>1, QueryFacts
<1>2. ASSUME NEW q \in Query
      PROVE  /\ Shown[q] \in Seq(ToSet(rows[q]))
             /\ ToSet(Shown[q]) = {r \in ToSet(rows[q]) :
                  narrow /\ q \in Narrowed => r.here}
  <2>1. rows[q] \in Seq(RowsOf[q])
    BY DEF Delivered
  <2>2. CASE narrow /\ q \in Narrowed
    <3>1. Shown[q] = filter_rows(rows[q])
      BY <2>2 DEF Shown
    <3> QED
      BY <2>1, <2>2, <3>1, FilterRows
  <2>3. CASE ~(narrow /\ q \in Narrowed)
    <3>1. Shown[q] = rows[q]
      BY <2>3 DEF Shown
    <3>2. rows[q] \in Seq(ToSet(rows[q]))
      BY <2>1 DEF ToSet
    <3> QED
      BY <2>3, <3>1, <3>2
  <2> QED
    BY <2>2, <2>3
<1> QED
  BY <1>1, <1>2

-----------------------------------------------------------------------------
(* The all-clear *)

(* None of the findings is the all-clear. *)
LEMMA FindingsAreNoAllClear ==
  ASSUME NEW R
  PROVE  \A f \in Found(R) : f.code # "NO_MAJOR_ISSUES"
<1>1. \A f \in tab_health(R) : f.code # "NO_MAJOR_ISSUES"
  BY DEF tab_health, When
<1>2. \A f \in data_model(R) : f.code # "NO_MAJOR_ISSUES"
  <2>1. \A f \in indexes(R) : f.code # "NO_MAJOR_ISSUES"
    BY DEF indexes, When
  <2>2. \A f \in normalization(R) : f.code # "NO_MAJOR_ISSUES"
    BY DEF normalization, When
  <2>3. \A f \in anomalies(R) : f.code # "NO_MAJOR_ISSUES"
    BY DEF anomalies, When
  <2>4. \A f \in datatype_consistency(R) : f.code # "NO_MAJOR_ISSUES"
    BY DEF datatype_consistency, When
  <2> QED
    BY <2>1, <2>2, <2>3, <2>4 DEF data_model, When
<1>3. \A f \in sec_config(R) : f.code # "NO_MAJOR_ISSUES"
  BY DEF sec_config, When
<1>4. \A f \in top_statement_actions(R) : f.code # "NO_MAJOR_ISSUES"
  BY DEF top_statement_actions, When
<1> QED
  BY <1>1, <1>2, <1>3, <1>4 DEF Found

(* A report that gives the all-clear has nothing else to say, no source of *)
(* statements was silent, and the data model has foreign keys.             *)
THEOREM AllClearIsTrue == Spec => []NoFalseAllClear
<1>1. ReportsInv => NoFalseAllClear
  <2> SUFFICES ASSUME ReportsInv, outcome = "report",
                      NEW f \in report.findings, f.code = "NO_MAJOR_ISSUES"
               PROVE  /\ report.findings = {[code |-> "NO_MAJOR_ISSUES", severity |-> "info"]}
                      /\ ~({"query_store", "dmv"} \subseteq failed)
                      /\ tool = "analyze_db_data_model" => Edges(Shown) # <<>>
    BY DEF NoFalseAllClear
  <2>1. report.findings = IF tool \in {"sessions_dashboard", "execute_query"} THEN {}
                          ELSE IF Found(Shown) = {} THEN {Otherwise} ELSE Found(Shown)
    BY DEF ReportsInv, Told, Report
  <2>2. report.findings = {Otherwise} /\ Found(Shown) = {}
    BY <2>1, FindingsAreNoAllClear
  <2>3. Otherwise = [code |-> "NO_MAJOR_ISSUES", severity |-> "info"]
    BY <2>2 DEF Otherwise
  <2>4. ~(tool = "top_statements" /\ source = "unavailable")
    BY <2>3 DEF Otherwise
  <2>5. "dmv" \notin failed
    BY <2>4 DEF ReportsInv, Noted
  <2>6. tool = "analyze_db_data_model" => Shown["fk"] # <<>>
    <3> SUFFICES ASSUME tool = "analyze_db_data_model", Shown["fk"] = <<>> PROVE FALSE
      OBVIOUS
    <3>1. Found(Shown) = data_model(Shown)
      BY DEF Found
    <3>2. [code |-> "NO_FK_RELATIONSHIPS", severity |-> "medium"] \in data_model(Shown)
      BY DEF data_model, When
    <3> QED
      BY <2>2, <3>1, <3>2
  <2>7. Shown["fk"] # <<>> => Edges(Shown) # <<>>
    <3>1. "fk" \in Query /\ Shown["fk"] \in Seq(ToSet(rows["fk"]))
      BY ShownFacts DEF ReportsInv
    <3>2. Shown["fk"] # <<>> => 1 \in 1..Len(Shown["fk"])
      BY <3>1
    <3>3. DOMAIN Edges(Shown) = 1..Len(Shown["fk"])
      BY DEF Edges
    <3>4. DOMAIN <<>> = {}
      OBVIOUS
    <3> QED
      BY <3>2, <3>3, <3>4
  <2> QED
    BY <2>2, <2>3, <2>5, <2>6, <2>7
<1> QED
  BY <1>1, ReportsInvariance, PTL

-----------------------------------------------------------------------------
(* Foreign-key cycles.  E is a list of edges. *)

(* Of some subsets of a finite set one is minimal: induction over finite   *)
(* sets.                                                                   *)
LEMMA MinimalSubset ==
  ASSUME NEW S, IsFiniteSet(S), NEW T \in SUBSET SUBSET S, T # {}
  PROVE  \E X \in T : \A Y \in T : Y \subseteq X => Y = X
<1>1. IsWellFoundedOn(StrictSubsetOrdering(S), SUBSET S)
  BY FS_StrictSubsetOrderingWellFounded, FS_FiniteSubsetsOfFinite
<1>2. \E X \in T : \A Y \in T : ~(<<Y, X>> \in StrictSubsetOrdering(S))
  BY <1>1, WFMin
<1> QED
  BY <1>2 DEF StrictSubsetOrdering

(* The image of a finite set is finite. *)
LEMMA ImageFinite ==
  ASSUME NEW S, IsFiniteSet(S), NEW f
  PROVE  IsFiniteSet({f[x] : x \in S})
<1> DEFINE T == {f[x] : x \in S}
           g == [x \in S |-> f[x]]
<1>1. g \in Surjection(S, T)
  BY DEF Surjection
<1> HIDE DEF g, T
<1>2. IsFiniteSet(T)
  BY <1>1, FS_Surjection
<1> QED
  BY <1>2 DEF T

LEMMA NodesFinite ==
  ASSUME NEW S, NEW E \in Seq(S)
  PROVE  IsFiniteSet(Nodes(E))
<1> DEFINE I == 1..Len(E)
           f == [i \in I |-> E[i][1]]
           g == [i \in I |-> E[i][2]]
<1>1. IsFiniteSet(I)
  BY FS_Interval
<1>2. Nodes(E) = {f[i] : i \in I} \cup {g[i] : i \in I}
  <2>1. {f[i] : i \in I} = {E[i][1] : i \in I} /\ {g[i] : i \in I} = {E[i][2] : i \in I}
    OBVIOUS
  <2>2. ToSet(E) = {E[i] : i \in I}
    BY DEF ToSet
  <2>3. Nodes(E) = {E[i][1] : i \in I} \cup {E[i][2] : i \in I}
    BY <2>2 DEF Nodes
  <2> QED
    BY <2>1, <2>3
<1> HIDE DEF f, g, I
<1>3. IsFiniteSet({f[i] : i \in I}) /\ IsFiniteSet({g[i] : i \in I})
  BY <1>1, ImageFinite
<1> QED
  BY <1>2, <1>3, FS_Union

(* What an edge connects are nodes. *)
LEMMA EdgeNodes ==
  ASSUME NEW E, NEW e \in ToSet(E)
  PROVE  e[1] \in Nodes(E) /\ e[2] \in Nodes(E)
BY DEF Nodes

(* A set that edges do not lead out of, except to nodes that are avoided *)
Closed(S, avoided, E) ==
  \A e \in ToSet(E) : e[1] \in S /\ e[2] \notin avoided => e[2] \in S

(* What can be reached from c without entering a node that was seen *)
Avoiding(c, seen, E) ==
  {m \in Nodes(E) : \A S \in SUBSET Nodes(E) : c \in S /\ Closed(S, seen, E) => m \in S}

(* ... and whether an edge leads from there to the start: what the search  *)
(* finds                                                                   *)
Leads(c, seen, start, E) ==
  \E e \in ToSet(E) : e[1] \in Avoiding(c, seen, E) /\ e[2] = start

LEMMA AvoidingFacts ==
  ASSUME NEW E, NEW c \in Nodes(E), NEW seen
  PROVE  /\ c \in Avoiding(c, seen, E)
         /\ Avoiding(c, seen, E) \in SUBSET Nodes(E)
         /\ Closed(Avoiding(c, seen, E), seen, E)
         /\ \A S \in SUBSET Nodes(E) :
              c \in S /\ Closed(S, seen, E) => Avoiding(c, seen, E) \subseteq S
<1>1. Closed(Avoiding(c, seen, E), seen, E)
  <2> SUFFICES ASSUME NEW e \in ToSet(E), e[1] \in Avoiding(c, seen, E), e[2] \notin seen
               PROVE  e[2] \in Avoiding(c, seen, E)
    BY DEF Closed
  <2>1. e[2] \in Nodes(E)
    BY EdgeNodes
  <2>2. ASSUME NEW S \in SUBSET Nodes(E), c \in S, Closed(S, seen, E)
        PROVE  e[2] \in S
    <3>1. e[1] \in S
      BY <2>2 DEF Avoiding
    <3> QED
      BY <2>2, <3>1 DEF Closed
  <2> QED
    BY <2>1, <2>2 DEF Avoiding
<1> QED
  BY <1>1 DEF Avoiding

(* One turn of the search *)
LeadsOn(c, seen, start, E) ==
  \E e \in ToSet(E) :
    /\ e[1] = c
    /\ e[2] = start \/ (e[2] \notin seen /\ Leads(e[2], seen \cup {e[2]}, start, E))

(* The search goes on from the successors. *)
LEMMA LeadsStep ==
  ASSUME NEW E, NEW c \in Nodes(E), NEW seen, NEW start
  PROVE  Leads(c, seen, start, E) <=> LeadsOn(c, seen, start, E)
<1> DEFINE N == Nodes(E)
           A(d) == Avoiding(d, seen \cup {d}, E)
           S == {m \in N : m = c \/ \E g \in ToSet(E) : g[1] = c /\ g[2] \notin seen
                                                        /\ m \in A(g[2])}
<1>1. ASSUME NEW e \in ToSet(E), e[1] = c, e[2] = start
      PROVE  Leads(c, seen, start, E)
  BY <1>1, AvoidingFacts DEF Leads
<1>2. ASSUME NEW e \in ToSet(E), e[1] = c, e[2] \notin seen,
             Leads(e[2], seen \cup {e[2]}, start, E)
      PROVE  Leads(c, seen, start, E)
  <2>1. e[2] \in Nodes(E)
    BY EdgeNodes
  <2>2. e[2] \in Avoiding(c, seen, E)
    BY <1>2, AvoidingFacts DEF Closed
  <2>3. Closed(Avoiding(c, seen, E), seen \cup {e[2]}, E)
    BY AvoidingFacts DEF Closed
  <2>4. A(e[2]) \subseteq Avoiding(c, seen, E)
    BY <2>1, <2>2, <2>3, AvoidingFacts
  <2> QED
    BY <1>2, <2>4 DEF Leads
<1>3. ASSUME Leads(c, seen, start, E)
      PROVE  \E e \in ToSet(E) :
               /\ e[1] = c
               /\ e[2] = start
                  \/ (e[2] \notin seen /\ Leads(e[2], seen \cup {e[2]}, start, E))
  <2>1. Closed(S, seen, E)
    <3> SUFFICES ASSUME NEW e \in ToSet(E), e[1] \in S, e[2] \notin seen PROVE e[2] \in S
      BY DEF Closed
    <3>1. e[2] \in N
      BY EdgeNodes
    <3>2. CASE e[1] = c
      <4>1. e[2] \in A(e[2])
        BY <3>1, AvoidingFacts
      <4> QED
        BY <3>1, <3>2, <4>1
    <3>3. CASE e[1] # c
      <4>1. PICK g \in ToSet(E) : g[1] = c /\ g[2] \notin seen /\ e[1] \in A(g[2])
        BY <3>3
      <4>2. g[2] \in N
        BY EdgeNodes
      <4>3. g[2] \in A(g[2]) /\ Closed(A(g[2]), seen \cup {g[2]}, E)
        BY <4>2, AvoidingFacts
      <4>4. e[2] \in A(g[2])
        BY <4>1, <4>3 DEF Closed
      <4> QED
        BY <3>1, <4>1, <4>4
    <3> QED
      BY <3>2, <3>3
  <2>2. Avoiding(c, seen, E) \subseteq S
    <3>1. c \in S /\ S \in SUBSET Nodes(E)
      OBVIOUS
    <3> HIDE DEF S
    <3> QED
      BY <2>1, <3>1, AvoidingFacts
  <2>3. PICK e \in ToSet(E) : e[1] \in Avoiding(c, seen, E) /\ e[2] = start
    BY <1>3 DEF Leads
  <2>4. CASE e[1] = c
    BY <2>3, <2>4
  <2>5. CASE e[1] # c
    <3>1. PICK g \in ToSet(E) : g[1] = c /\ g[2] \notin seen /\ e[1] \in A(g[2])
      BY <2>2, <2>3, <2>5
    <3>2. Leads(g[2], seen \cup {g[2]}, start, E)
      BY <2>3, <3>1 DEF Leads
    <3> QED
      BY <3>1, <3>2
  <2> QED
    BY <2>4, <2>5
<1> QED
  BY <1>1, <1>2, <1>3 DEF LeadsOn

(* The recursion of _dfs has one solution, and it is what Leads says. *)
LEMMA SearchLeads ==
  ASSUME NEW S, NEW E \in Seq(S), NEW start \in Nodes(E)
  PROVE  OnCycle(start, E) <=> Leads(start, {start}, start, E)
<1> DEFINE N == Nodes(E)
           P == N \X SUBSET N
           L(at) == Leads(at[1], at[2], start, E)
           Turn(f, at) == \E e \in ToSet(E) :
                            /\ e[1] = at[1]
                            /\ \/ e[2] = start
                               \/ e[2] \notin at[2] /\ f[<<e[2], at[2] \cup {e[2]}>>]
           Body(f) == [at \in P |-> Turn(f, at)]
           D == [at \in P |-> L(at)]
           dfs == CHOOSE f : f = Body(f)
<1>1. OnCycle(start, E) = dfs[<<start, {start}>>]
  BY DEF OnCycle
<1>2. ASSUME NEW at \in P, NEW e \in ToSet(E)
      PROVE  <<e[2], at[2] \cup {e[2]}>> \in P
  <2>1. e[2] \in N
    BY EdgeNodes
  <2> HIDE DEF N
  <2> QED
    BY <2>1
<1>3. ASSUME NEW at \in P PROVE L(at) <=> Turn(D, at)
  <2>1. at[1] \in N
    OBVIOUS
  <2>2. \A e \in ToSet(E) : D[<<e[2], at[2] \cup {e[2]}>>] <=>
                              Leads(e[2], at[2] \cup {e[2]}, start, E)
    BY <1>2
  <2>3. L(at) <=> \E e \in ToSet(E) :
                    /\ e[1] = at[1]
                    /\ e[2] = start
                       \/ (e[2] \notin at[2] /\ Leads(e[2], at[2] \cup {e[2]}, start, E))
    <3> DEFINE c == at[1]
               seen == at[2]
    <3>1. c \in Nodes(E)
      BY <2>1
    <3> HIDE DEF c, seen
    <3>2. Leads(c, seen, start, E) <=> LeadsOn(c, seen, start, E)
      BY <3>1, LeadsStep
    <3> QED
      BY <3>2 DEF c, seen, LeadsOn
  <2> HIDE DEF D
  <2> QED
    BY <2>2, <2>3
<1>4. D = Body(D)
  <2>1. ASSUME NEW at \in P PROVE D[at] = Body(D)[at]
    <3>1. D[at] \in BOOLEAN /\ (D[at] <=> L(at))
      BY DEF Leads
    <3>2. Body(D)[at] \in BOOLEAN /\ (Body(D)[at] <=> Turn(D, at))
      <4> HIDE DEF D
      <4> QED
        OBVIOUS
    <3> HIDE DEF D, Body, Turn, L
    <3> QED
      BY <1>3, <3>1, <3>2
  <2>2. D = [at \in P |-> D[at]] /\ Body(D) = [at \in P |-> Body(D)[at]]
    OBVIOUS
  <2> HIDE DEF D, Body, P
  <2> QED
    BY <2>1, <2>2
<1>5. dfs = Body(dfs)
  <2> HIDE DEF Body
  <2> QED
    BY <1>4
<1> HIDE DEF dfs
<1>6. ASSUME NEW at \in P PROVE dfs[at] <=> Turn(dfs, at)
  <2>1. dfs[at] = Body(dfs)[at]
    BY <1>5
  <2> QED
    BY <2>1
<1> DEFINE Bad == {at \in P : ~(dfs[at] <=> L(at))}
           Left == {N \ at[2] : at \in Bad}
<1>7. ASSUME Bad # {} PROVE FALSE
  <2>1. IsFiniteSet(N)
    BY NodesFinite
  <2>2. Left \in SUBSET SUBSET N /\ Left # {}
    BY <1>7
  <2>3. \E X \in Left : \A Y \in Left : Y \subseteq X => Y = X
    <3> HIDE DEF Left, N
    <3> QED
      BY <2>1, <2>2, MinimalSubset
  <2>4. PICK at \in Bad : \A Y \in Left : Y \subseteq N \ at[2] => Y = N \ at[2]
    BY <2>3
  <2>5. at \in P /\ ~(dfs[at] <=> L(at))
    BY <2>4
  <2>6. ASSUME NEW e \in ToSet(E), e[2] \notin at[2]
        PROVE  dfs[<<e[2], at[2] \cup {e[2]}>>] <=> D[<<e[2], at[2] \cup {e[2]}>>]
    <3> DEFINE to == <<e[2], at[2] \cup {e[2]}>>
    <3>1. to \in P
      BY <1>2, <2>5
    <3>2. to \notin Bad
      <4>1. e[2] \in N /\ to[2] = at[2] \cup {e[2]}
        BY EdgeNodes
      <4>2. N \ to[2] \subseteq N \ at[2] /\ N \ to[2] # N \ at[2]
        BY <2>6, <4>1
      <4> HIDE DEF to, Bad, N
      <4> QED
        BY <2>4, <4>2
    <3>3. dfs[to] <=> L(to)
      <4> HIDE DEF to
      <4> QED
        BY <3>1, <3>2
    <3>4. D[to] <=> L(to)
      <4> HIDE DEF to
      <4> QED
        BY <3>1
    <3> HIDE DEF D, L
    <3> QED
      BY <3>3, <3>4
  <2>7. Turn(dfs, at) <=> Turn(D, at)
    <3> HIDE DEF D
    <3> QED
      BY <2>6
  <2> HIDE DEF D, Turn, L
  <2> QED
    BY <1>3, <1>6, <2>5, <2>7
<1>8. <<start, {start}>> \in P
  OBVIOUS
<1>9. dfs[<<start, {start}>>] <=> L(<<start, {start}>>)
  <2> DEFINE at == <<start, {start}>>
  <2> HIDE DEF at, L, P
  <2> QED
    BY <1>7, <1>8 DEF at
<1> QED
  BY <1>1, <1>9

(* A set that holds a node and what its edges lead to holds what is reached *)
LEMMA ReachedFacts ==
  ASSUME NEW E, NEW n \in Nodes(E)
  PROVE  /\ n \in Reached(n, E)
         /\ Reached(n, E) \in SUBSET Nodes(E)
         /\ \A e \in ToSet(E) : e[1] \in Reached(n, E) => e[2] \in Reached(n, E)
         /\ \A S \in SUBSET Nodes(E) :
              n \in S /\ (\A e \in ToSet(E) : e[1] \in S => e[2] \in S)
                => Reached(n, E) \subseteq S
<1>1. ASSUME NEW e \in ToSet(E), e[1] \in Reached(n, E)
      PROVE  e[2] \in Reached(n, E)
  <2>1. e[2] \in Nodes(E)
    BY EdgeNodes
  <2>2. ASSUME NEW S \in SUBSET Nodes(E), n \in S,
               \A d \in ToSet(E) : d[1] \in S => d[2] \in S
        PROVE  e[2] \in S
    <3>1. e[1] \in S
      BY <1>1, <2>2 DEF Reached
    <3> QED
      BY <2>2, <3>1
  <2> QED
    BY <2>1, <2>2 DEF Reached
<1> QED
  BY <1>1 DEF Reached

(* The search from n leads back to n exactly if n is on a cycle. *)
LEMMA LeadsBack ==
  ASSUME NEW E, NEW n \in Nodes(E)
  PROVE  Leads(n, {n}, n, E) <=> n \in Circular(E)
<1> DEFINE A == Avoiding(n, {n}, E)
<1>1. ASSUME Leads(n, {n}, n, E) PROVE n \in Circular(E)
  <2> DEFINE S == {m \in Nodes(E) : m = n \/ \E f \in ToSet(E) : f[1] = n
                                                     /\ m \in Reached(f[2], E)}
  <2>1. Closed(S, {n}, E)
    <3> SUFFICES ASSUME NEW e \in ToSet(E), e[1] \in S PROVE e[2] \in S
      BY DEF Closed
    <3>1. e[2] \in Nodes(E)
      BY EdgeNodes
    <3>2. CASE e[1] = n
      <4>1. e[2] \in Reached(e[2], E)
        BY <3>1, ReachedFacts
      <4> QED
        BY <3>1, <3>2, <4>1
    <3>3. CASE e[1] # n
      <4>1. PICK f \in ToSet(E) : f[1] = n /\ e[1] \in Reached(f[2], E)
        BY <3>3
      <4>2. f[2] \in Nodes(E)
        BY EdgeNodes
      <4>3. e[2] \in Reached(f[2], E)
        BY <4>1, <4>2, ReachedFacts
      <4> QED
        BY <3>1, <4>1, <4>3
    <3> QED
      BY <3>2, <3>3
  <2>2. A \subseteq S
    <3>1. n \in S /\ S \in SUBSET Nodes(E)
      OBVIOUS
    <3> HIDE DEF S
    <3> QED
      BY <2>1, <3>1, AvoidingFacts
  <2>3. PICK e \in ToSet(E) : e[1] \in A /\ e[2] = n
    BY <1>1 DEF Leads
  <2>4. CASE e[1] = n
    <3>1. e[1] \in Reached(e[2], E)
      BY <2>3, <2>4, ReachedFacts
    <3> QED
      BY <2>3, <2>4, <3>1 DEF Circular
  <2>5. CASE e[1] # n
    <3>1. PICK f \in ToSet(E) : f[1] = n /\ e[1] \in Reached(f[2], E)
      BY <2>2, <2>3, <2>5
    <3>2. f[2] \in Nodes(E)
      BY EdgeNodes
    <3>3. f[1] \in Reached(f[2], E)
      BY <2>3, <3>1, <3>2, ReachedFacts
    <3> QED
      BY <3>1, <3>3 DEF Circular
  <2> QED
    BY <2>4, <2>5
<1>2. ASSUME n \in Circular(E), ~Leads(n, {n}, n, E) PROVE FALSE
  <2>1. PICK f \in ToSet(E) : f[1] = n /\ n \in Reached(f[2], E)
    BY <1>2 DEF Circular
  <2>2. n \in A /\ A \in SUBSET Nodes(E) /\ Closed(A, {n}, E)
    BY AvoidingFacts
  <2>3. \A e \in ToSet(E) : e[1] \in A => e[2] # n
    BY <1>2 DEF Leads
  <2> HIDE DEF A
  <2> DEFINE S == A \ {n}
  <2>4. f[2] \in Nodes(E) /\ f[2] \in S
    BY <2>1, <2>2, <2>3, EdgeNodes DEF Closed
  <2>5. \A e \in ToSet(E) : e[1] \in S => e[2] \in S
    BY <2>2, <2>3 DEF Closed
  <2>6. S \in SUBSET Nodes(E) /\ n \notin S
    BY <2>2
  <2> HIDE DEF S
  <2>7. Reached(f[2], E) \subseteq S
    BY <2>4, <2>5, <2>6, ReachedFacts
  <2> QED
    BY <2>1, <2>6, <2>7
<1> QED
  BY <1>1, <1>2

(* build_fk_graph finds the nodes that are on a cycle. *)
LEMMA SearchFindsCycles ==
  ASSUME NEW S, NEW E \in Seq(S)
  PROVE  circular_dependency_tables(E) = Circular(E)
<1>1. Circular(E) \subseteq Nodes(E)
  BY EdgeNodes DEF Circular
<1>2. ASSUME NEW n \in Nodes(E) PROVE OnCycle(n, E) <=> n \in Circular(E)
  BY SearchLeads, LeadsBack
<1> QED
  BY <1>1, <1>2 DEF circular_dependency_tables

(* Fewer edges make no more cycles. *)
LEMMA CircularMonotonic ==
  ASSUME NEW E, NEW F, ToSet(E) \subseteq ToSet(F)
  PROVE  Circular(E) \subseteq Circular(F)
<1>1. ASSUME NEW f \in ToSet(E), f[1] \in Reached(f[2], E)
      PROVE  f[1] \in Reached(f[2], F)
  <2>1. f[2] \in Nodes(F) /\ f[2] \in Nodes(E) /\ f[1] \in Nodes(F)
    BY EdgeNodes
  <2> DEFINE S == Reached(f[2], F) \cap Nodes(E)
  <2>2. S \in SUBSET Nodes(E)
    OBVIOUS
  <2>3. f[2] \in S
    BY <2>1, ReachedFacts
  <2>4. \A e \in ToSet(E) : e[1] \in S => e[2] \in S
    BY <2>1, EdgeNodes, ReachedFacts
  <2> HIDE DEF S
  <2>5. Reached(f[2], E) \subseteq S
    BY <2>1, <2>2, <2>3, <2>4, ReachedFacts
  <2> QED
    BY <1>1, <2>5 DEF S
<1> QED
  BY <1>1 DEF Circular

(* The finding of a cycle is the data model's, and no other finding. *)
LEMMA CycleFinding ==
  ASSUME NEW R
  PROVE  (\E f \in Found(R) : f.code = "CIRCULAR_DEPENDENCY") <=>
           tool = "analyze_db_data_model" /\ circular_dependency_tables(Edges(R)) # {}
<1>1. \A f \in tab_health(R) : f.code # "CIRCULAR_DEPENDENCY"
  BY DEF tab_health, When
<1>2. (\E f \in data_model(R) : f.code = "CIRCULAR_DEPENDENCY") <=>
        circular_dependency_tables(Edges(R)) # {}
  <2>1. \A f \in indexes(R) : f.code # "CIRCULAR_DEPENDENCY"
    BY DEF indexes, When
  <2>2. \A f \in normalization(R) : f.code # "CIRCULAR_DEPENDENCY"
    BY DEF normalization, When
  <2>3. \A f \in anomalies(R) : f.code # "CIRCULAR_DEPENDENCY"
    BY DEF anomalies, When
  <2>4. \A f \in datatype_consistency(R) : f.code # "CIRCULAR_DEPENDENCY"
    BY DEF datatype_consistency, When
  <2> DEFINE K == When(R["fk"] = <<>>, "NO_FK_RELATIONSHIPS", "medium")
             C == When(circular_dependency_tables(Edges(R)) # {},
                       "CIRCULAR_DEPENDENCY", "high")
  <2>5. \A f \in K : f.code # "CIRCULAR_DEPENDENCY"
    BY DEF When
  <2>6. /\ \A f \in C : circular_dependency_tables(Edges(R)) # {}
        /\ circular_dependency_tables(Edges(R)) # {} =>
             \E f \in C : f.code = "CIRCULAR_DEPENDENCY"
    BY DEF When
  <2>7. data_model(R) = C \cup K \cup indexes(R) \cup normalization(R)
                          \cup anomalies(R) \cup datatype_consistency(R)
    BY DEF data_model
  <2> HIDE DEF K, C
  <2> QED
    BY <2>1, <2>2, <2>3, <2>4, <2>5, <2>6, <2>7
<1>3. \A f \in sec_config(R) : f.code # "CIRCULAR_DEPENDENCY"
  BY DEF sec_config, When
<1>4. \A f \in top_statement_actions(R) : f.code # "CIRCULAR_DEPENDENCY"
  BY DEF top_statement_actions, When
<1>5. CASE tool = "analyze_db_data_model"
  BY <1>2, <1>5 DEF Found
<1>6. CASE tool # "analyze_db_data_model"
  BY <1>1, <1>3, <1>4, <1>6 DEF Found
<1> QED
  BY <1>5, <1>6

(* build_fk_graph reports exactly the tables that are on a cycle of the    *)
(* foreign keys that it was given, for every graph, and the data model's   *)
(* report says so: the search that forgets what it saw on other paths      *)
(* misses no cycle and invents none.                                       *)
THEOREM CyclesAreFound == Spec => []CyclesFound
<1>1. ReportsInv => CyclesFound
  <2> SUFFICES ASSUME ReportsInv, outcome = "report"
               PROVE  /\ report.cycles = Circular(Edges(Shown))
                      /\ report.cycles \subseteq Circular(Edges(rows))
                      /\ report.cycles # {} <=>
                           \E f \in report.findings : f.code = "CIRCULAR_DEPENDENCY"
    BY DEF CyclesFound
  <2>1. /\ report.cycles = circular_dependency_tables(Edges(Shown))
        /\ report.findings = IF tool \in {"sessions_dashboard", "execute_query"} THEN {}
                             ELSE IF Found(Shown) = {} THEN {Otherwise} ELSE Found(Shown)
    BY DEF ReportsInv, Told, Report
  <2>2. /\ "fk" \in Query /\ rows["fk"] \in Seq(RowsOf["fk"])
        /\ Shown["fk"] \in Seq(ToSet(rows["fk"]))
        /\ ToSet(Shown["fk"]) \subseteq ToSet(rows["fk"])
    BY ShownFacts DEF ReportsInv, Delivered
  <2>3. /\ Edges(Shown) \in Seq({r.v : r \in ToSet(rows["fk"])})
        /\ ToSet(Edges(Shown)) = {r.v : r \in ToSet(Shown["fk"])}
        /\ ToSet(Edges(rows)) = {r.v : r \in ToSet(rows["fk"])}
    <3>1. \A i \in 1..Len(Shown["fk"]) : Shown["fk"][i] \in ToSet(rows["fk"])
      BY <2>2
    <3>2. ToSet(Shown["fk"]) = {Shown["fk"][i] : i \in 1..Len(Shown["fk"])}
      BY <2>2 DEF ToSet
    <3>3. ToSet(rows["fk"]) = {rows["fk"][i] : i \in 1..Len(rows["fk"])}
      BY <2>2 DEF ToSet
    <3>4. ToSet(Edges(Shown)) = {Shown["fk"][i].v : i \in 1..Len(Shown["fk"])}
      BY DEF ToSet, Edges
    <3>5. ToSet(Edges(rows)) = {rows["fk"][i].v : i \in 1..Len(rows["fk"])}
      BY DEF ToSet, Edges
    <3>6. Len(Shown["fk"]) \in Nat
      BY <2>2
    <3>7. Edges(Shown) \in Seq({r.v : r \in ToSet(rows["fk"])})
      <4> DEFINE V == {r.v : r \in ToSet(rows["fk"])}
      <4>1. \A i \in 1..Len(Shown["fk"]) : Shown["fk"][i].v \in V
        BY <3>1
      <4> HIDE DEF V
      <4>2. Edges(Shown) \in [1..Len(Shown["fk"]) -> V]
        BY <4>1 DEF Edges
      <4>3. Edges(Shown) \in Seq(V)
        BY <3>6, <4>2
      <4> QED
        BY <4>3 DEF V
    <3> QED
      BY <3>2, <3>3, <3>4, <3>5, <3>7
  <2>4. circular_dependency_tables(Edges(Shown)) = Circular(Edges(Shown))
    BY <2>3, SearchFindsCycles
  <2>5. Circular(Edges(Shown)) \subseteq Circular(Edges(rows))
    <3>1. ToSet(Edges(Shown)) \subseteq ToSet(Edges(rows))
      BY <2>2, <2>3
    <3> QED
      BY <3>1, CircularMonotonic
  <2>6. (\E f \in report.findings : f.code = "CIRCULAR_DEPENDENCY") <=>
          tool = "analyze_db_data_model" /\ circular_dependency_tables(Edges(Shown)) # {}
    <3>1. Otherwise.code # "CIRCULAR_DEPENDENCY"
      BY DEF Otherwise
    <3> QED
      BY <2>1, <3>1, CycleFinding
  <2>7. tool # "analyze_db_data_model" => Circular(Edges(Shown)) = {}
    <3> SUFFICES ASSUME tool # "analyze_db_data_model" PROVE Circular(Edges(Shown)) = {}
      OBVIOUS
    <3>1. "fk" \notin ToSet(Queries[tool])
      <4>1. tool \in {"analyze_tab_health", "analyze_sec_config",
                     "top_statements", "sessions_dashboard", "execute_query"}
        BY DEF ReportsInv, Delivered, Tool, Queries
      <4> QED
        BY <4>1 DEF Queries, ToSet
    <3>2. rows["fk"] = <<>>
      BY <2>2, <3>1 DEF ReportsInv, Delivered
    <3>3. ToSet(Edges(Shown)) = {}
      <4>1. ToSet(rows["fk"]) = {}
        BY <3>2 DEF ToSet
      <4> QED
        BY <2>2, <2>3, <4>1
    <3> QED
      BY <3>3 DEF Circular
  <2> QED
    BY <2>1, <2>4, <2>5, <2>6, <2>7
<1> QED
  BY <1>1, ReportsInvariance, PTL

-----------------------------------------------------------------------------
(* Column names *)

(* Induction over an interval *)
LEMMA InductUpTo ==
  ASSUME NEW n \in Nat, NEW T, 0 \in T, \A k \in 1..n : k - 1 \in T => k \in T
  PROVE  \A k \in 0..n : k \in T
<1> DEFINE Bad == (0..n) \ T
<1>1. ASSUME Bad # {} PROVE FALSE
  <2>1. Bad \in SUBSET Nat
    OBVIOUS
  <2>2. \E m \in Bad : \A k \in Bad : m <= k
    <3> HIDE DEF Bad
    <3> QED
      BY <1>1, <2>1, LeastNumber
  <2>3. PICK m \in Bad : \A k \in Bad : m <= k
    BY <2>2
  <2>4. m \in 1..n /\ m - 1 \in 0..n
    BY <2>3
  <2>5. m - 1 \notin Bad
    <3>1. ~(m <= m - 1)
      BY <2>4
    <3> QED
      BY <2>3, <3>1
  <2> QED
    BY <2>3, <2>4, <2>5
<1> QED
  BY <1>1

(* Names with their bases in B *)
Names(B) == {n \in Seq(B \cup Nat) : Len(n) >= 1 /\ n[1] \in B
                                     /\ \A i \in 2..Len(n) : n[i] \in Nat}

LEMMA NamesAreNames ==
  ASSUME NEW n, IsName(n), NEW B, n[1] \in B
  PROVE  n \in Names(B)
<1> DEFINE m == Len(n)
<1>1. m \in Nat \ {0} /\ n = [i \in 1..m |-> n[i]]
      /\ \A i \in 2..m : n[i] \in Nat
  BY DEF IsName
<1> HIDE DEF m
<1>2. \A i \in 1..m : n[i] \in B \cup Nat
  <2> SUFFICES ASSUME NEW i \in 1..m PROVE n[i] \in B \cup Nat
    OBVIOUS
  <2>1. i = 1 \/ i \in 2..m
    BY <1>1
  <2> QED
    BY <1>1, <2>1
<1>3. n \in [1..m -> B \cup Nat]
  BY <1>1, <1>2
<1>4. n \in Seq(B \cup Nat)
  BY <1>1, <1>3
<1> QED
  BY <1>1, <1>4 DEF Names, m

(* What Append appends *)
LEMMA AppendFacts ==
  ASSUME NEW S, NEW s \in Seq(S), NEW e \in S
  PROVE  /\ Append(s, e) \in Seq(S) /\ Len(Append(s, e)) = Len(s) + 1
         /\ \A i \in 1..Len(s) : Append(s, e)[i] = s[i]
         /\ Append(s, e)[Len(s) + 1] = e
         /\ Len(s) \in Nat
  OBVIOUS

(* The next names keep the base, and differ from each other. *)
LEMMA NextNames ==
  ASSUME NEW B, NEW name \in Names(B)
  PROVE  /\ \A k \in Nat : /\ NextName(name, k) \in Names(B)
                           /\ NextName(name, k)[1] = name[1]
         /\ \A k, l \in Nat : NextName(name, k) = NextName(name, l) => k = l
<1> DEFINE m == Len(name)
<1>1. /\ name \in Seq(B \cup Nat) /\ m \in Nat /\ m >= 1 /\ name[1] \in B
      /\ \A i \in 2..m : name[i] \in Nat
  BY DEF Names
<1>2. CASE m > 1
  <2>1. m \in 2..m /\ name[m] \in Nat
    BY <1>1, <1>2
  <2>2. ASSUME NEW k \in Nat
        PROVE  /\ NextName(name, k) = [name EXCEPT ![m] = name[m] + k]
               /\ NextName(name, k)[m] = name[m] + k
               /\ NextName(name, k) \in Names(B)
               /\ NextName(name, k)[1] = name[1]
    <3> DEFINE next_name == [name EXCEPT ![m] = name[m] + k]
    <3>1. NextName(name, k) = next_name
      BY <1>2 DEF NextName
    <3>2. name[m] + k \in Nat /\ m \in 1..m
      BY <1>1, <2>1
    <3>3. next_name \in Seq(B \cup Nat) /\ Len(next_name) = m
      <4>1. name \in [1..m -> B \cup Nat]
        BY <1>1
      <4>2. next_name \in [1..m -> B \cup Nat]
        BY <3>2, <4>1
      <4> HIDE DEF next_name
      <4> QED
        BY <1>1, <4>2
    <3>4. \A i \in 1..m : next_name[i] = IF i = m THEN name[m] + k ELSE name[i]
      BY <1>1
    <3>5. next_name[1] = name[1] /\ next_name[m] = name[m] + k
          /\ \A i \in 2..m : next_name[i] \in Nat
      <4>1. 1 \in 1..m /\ 1 # m /\ \A i \in 2..m : i \in 1..m
        BY <1>1, <1>2
      <4> HIDE DEF next_name
      <4> QED
        BY <1>1, <3>2, <3>4, <4>1
    <3> HIDE DEF next_name
    <3>6. next_name \in Names(B)
      BY <1>1, <3>3, <3>5 DEF Names
    <3> QED
      BY <3>1, <3>5, <3>6 DEF next_name
  <2>3. ASSUME NEW k \in Nat, NEW l \in Nat, NextName(name, k) = NextName(name, l)
        PROVE  k = l
    <3>1. name[m] + k = name[m] + l
      BY <2>2, <2>3
    <3> QED
      BY <2>1, <3>1
  <2> QED
    BY <2>2, <2>3
<1>3. CASE ~(m > 1)
  <2>1. m = 1
    <3> HIDE DEF m
    <3> QED
      BY <1>1, <1>3
  <2>2. ASSUME NEW k \in Nat
        PROVE  /\ NextName(name, k)[2] = k
               /\ NextName(name, k) \in Names(B)
               /\ NextName(name, k)[1] = name[1]
    <3>1. NextName(name, k) = Append(name, k)
      BY <1>3 DEF NextName
    <3>2. k \in B \cup Nat
      OBVIOUS
    <3> DEFINE U == B \cup Nat
    <3>3. name \in Seq(U) /\ k \in U
      BY <1>1, <3>2
    <3> HIDE DEF U
    <3>4. /\ Append(name, k) \in Seq(U) /\ Len(Append(name, k)) = Len(name) + 1
          /\ \A i \in 1..Len(name) : Append(name, k)[i] = name[i]
          /\ Append(name, k)[Len(name) + 1] = k
      BY <3>3, AppendFacts
    <3>5. Len(name) = 1
      BY <2>1
    <3>6. Len(Append(name, k)) = 2 /\ Append(name, k)[1] = name[1] /\ Append(name, k)[2] = k
      <4>1. 1 + 1 = 2 /\ 1 \in 1..1
        OBVIOUS
      <4> QED
        BY <3>4, <3>5, <4>1
    <3>7. Append(name, k) \in Names(B)
      <4> DEFINE a == Append(name, k)
      <4>1. \A i \in 2..2 : i = 2
        OBVIOUS
      <4>2. a \in Seq(B \cup Nat) /\ Len(a) = 2 /\ a[1] \in B /\ a[2] \in Nat
        BY <1>1, <3>4, <3>6 DEF U
      <4> HIDE DEF a
      <4>3. Len(a) >= 1 /\ \A i \in 2..Len(a) : a[i] \in Nat
        BY <4>1, <4>2
      <4>4. a \in Names(B)
        BY <4>2, <4>3 DEF Names
      <4> QED
        BY <4>4 DEF a
    <3> QED
      BY <3>1, <3>6, <3>7
  <2>3. ASSUME NEW k \in Nat, NEW l \in Nat, NextName(name, k) = NextName(name, l)
        PROVE  k = l
    BY <2>2, <2>3
  <2> QED
    BY <2>2, <2>3
<1> QED
  BY <1>2, <1>3

(* The loop that looks for a free name ends, with a name that is free: so  *)
(* many next names cannot all be taken.                                    *)
LEMMA FreeNameIsFree ==
  ASSUME NEW B, NEW name \in Names(B), NEW F, IsFiniteSet(F)
  PROVE  /\ FreeName(name, F) \notin F
         /\ FreeName(name, F) \in Names(B)
         /\ FreeName(name, F)[1] = name[1]
         /\ name \notin F => FreeName(name, F) = name
<1>1. CASE name \notin F
  BY <1>1 DEF FreeName
<1>2. CASE name \in F
  <2> DEFINE c == Cardinality(F)
             I == 1..(c + 1)
             T == {k \in I : NextName(name, k) \notin F}
  <2>1. c \in Nat
    BY FS_CardinalityType
  <2>2. IsFiniteSet(I) /\ Cardinality(I) = c + 1 /\ I \subseteq Nat
    <3> HIDE DEF c
    <3>1. 1 \in Int /\ c + 1 \in Int /\ ~(1 > c + 1)
      BY <2>1
    <3>2. IsFiniteSet(I) /\ Cardinality(I) = IF 1 > c + 1 THEN 0 ELSE (c + 1) - 1 + 1
      BY <3>1, FS_Interval
    <3>3. (c + 1) - 1 + 1 = c + 1
      BY <2>1
    <3> QED
      BY <2>1, <3>1, <3>2, <3>3
  <2>3. T # {}
    <3> SUFFICES ASSUME T = {} PROVE FALSE
      OBVIOUS
    <3> DEFINE g == [k \in I |-> NextName(name, k)]
    <3> HIDE DEF I
    <3>1. \A k \in I : NextName(name, k) \in F
      OBVIOUS
    <3>2. g \in [I -> F]
      BY <3>1
    <3>3. \A k \in I : g[k] = NextName(name, k)
      OBVIOUS
    <3> HIDE DEF g
    <3>4. Cardinality(F) < Cardinality(I)
      BY <2>1, <2>2
    <3>5. IsFiniteSet(I)
      BY <2>2
    <3> HIDE DEF T, c
    <3>6. \E x, y \in I : x # y /\ g[x] = g[y]
      BY <3>2, <3>4, <3>5, FS_PigeonHole
    <3>7. PICK x \in I, y \in I : x # y /\ g[x] = g[y]
      BY <3>6
    <3>8. x \in Nat /\ y \in Nat /\ NextName(name, x) = NextName(name, y)
      BY <2>2, <3>3, <3>7
    <3>9. x = y
      BY <3>8, NextNames
    <3> QED
      BY <3>7, <3>9
  <2>4. T \in SUBSET Nat
    BY <2>2
  <2>5. Min(T) \in T
    <3> HIDE DEF T
    <3>1. \E m \in T : \A k \in T : m <= k
      BY <2>3, <2>4, LeastNumber
    <3> QED
      BY <3>1 DEF Min
  <2>6. FreeName(name, F) = NextName(name, Min(T))
    BY <1>2 DEF FreeName
  <2>7. Min(T) \in Nat /\ NextName(name, Min(T)) \notin F
    <3> DEFINE k == Min(T)
    <3>1. k \in T
      BY <2>5
    <3> HIDE DEF k
    <3>2. k \in Nat /\ NextName(name, k) \notin F
      BY <2>4, <3>1
    <3> QED
      BY <3>2 DEF k
  <2> HIDE DEF T
  <2> QED
    BY <1>2, <2>6, <2>7, NextNames
<1> QED
  BY <1>1, <1>2

(* A number appended to a name makes a name with the same base. *)
LEMMA NumberedName ==
  ASSUME NEW B, NEW name \in Names(B), NEW k \in Nat
  PROVE  Append(name, k) \in Names(B) /\ Append(name, k)[1] = name[1]
<1> DEFINE U == B \cup Nat
           m == Len(name)
           a == Append(name, k)
<1>1. /\ name \in Seq(U) /\ k \in U /\ m >= 1 /\ name[1] \in B
      /\ \A i \in 2..m : name[i] \in Nat
  BY DEF Names
<1> HIDE DEF U
<1>2. /\ a \in Seq(U) /\ Len(a) = m + 1 /\ m \in Nat
      /\ \A i \in 1..m : a[i] = name[i]
      /\ a[m + 1] = k
  BY <1>1, AppendFacts
<1> HIDE DEF m, a
<1>3. \A i \in 2..(m + 1) : (i \in 2..m /\ i \in 1..m) \/ i = m + 1
  BY <1>2
<1>4. a[1] = name[1] /\ Len(a) >= 1
  BY <1>1, <1>2
<1>5. \A i \in 2..Len(a) : a[i] \in Nat
  BY <1>1, <1>2, <1>3
<1>6. a \in Names(B)
  BY <1>1, <1>2, <1>4, <1>5 DEF Names, U
<1> QED
  BY <1>4, <1>6 DEF a

(* The columns of a result: names, or none *)
IsRaw(raw) ==
  Len(raw) \in Nat /\ \A i \in 1..Len(raw) : raw[i] = NoName \/ IsName(raw[i])

Bases(raw) == {Named(raw[i], i)[1] : i \in 1..Len(raw)}

LEMMA NamedIsName ==
  ASSUME NEW raw, IsRaw(raw), NEW i \in 1..Len(raw)
  PROVE  Named(raw[i], i) \in Names(Bases(raw))
<1> DEFINE x == Named(raw[i], i)
<1>1. IsName(x)
  <2>1. CASE raw[i] = NoName
    <3>1. x = <<"col", i>>
      BY <2>1 DEF Named
    <3>2. i \in Nat
      BY DEF IsRaw
    <3>3. Len(<<"col", i>>) = 2 /\ <<"col", i>>[2] = i
      OBVIOUS
    <3>4. <<"col", i>> = [j \in 1..2 |-> <<"col", i>>[j]]
      OBVIOUS
    <3>5. IsName(<<"col", i>>)
      <4> DEFINE y == <<"col", i>>
      <4>1. Len(y) = 2 /\ y[2] \in Nat /\ y = [j \in 1..2 |-> y[j]]
        BY <3>2, <3>3, <3>4
      <4>2. \A j \in 2..2 : j = 2
        OBVIOUS
      <4> HIDE DEF y
      <4>3. IsName(y)
        BY <4>1, <4>2 DEF IsName
      <4> QED
        BY <4>3 DEF y
    <3> QED
      BY <3>1, <3>5
  <2>2. CASE raw[i] # NoName
    BY <2>2 DEF Named, IsRaw
  <2> QED
    BY <2>1, <2>2
<1>2. x[1] \in Bases(raw)
  BY DEF Bases
<1> HIDE DEF x
<1>3. x \in Names(Bases(raw))
  BY <1>1, <1>2, NamesAreNames
<1> QED
  BY <1>3 DEF x

(* How often a name occurred up to the column, and the name proposed for it *)
Occurrences(raw, i) == {j \in 1..i : Named(raw[j], j) = Named(raw[i], i)}

Proposed(raw, i) ==
  IF Cardinality(Occurrences(raw, i)) > 1
  THEN Append(Named(raw[i], i), Cardinality(Occurrences(raw, i)))
  ELSE Named(raw[i], i)

(* No other column has the base, given or made up. *)
OwnBase(raw, i) ==
  \A j \in 1..Len(raw) : j # i => Named(raw[j], j)[1] # Named(raw[i], i)[1]

LEMMA ProposedFacts ==
  ASSUME NEW raw, IsRaw(raw), NEW i \in 1..Len(raw)
  PROVE  /\ Proposed(raw, i) \in Names(Bases(raw))
         /\ Proposed(raw, i)[1] = Named(raw[i], i)[1]
         /\ OwnBase(raw, i) => Proposed(raw, i) = Named(raw[i], i)
<1> DEFINE O == Occurrences(raw, i)
           x == Named(raw[i], i)
<1>0. i \in Nat /\ 1..i \subseteq 1..Len(raw) /\ i \in 1..i
  BY DEF IsRaw
<1>1. IsFiniteSet(O)
  <2>1. IsFiniteSet(1..i)
    BY <1>0, FS_Interval
  <2>2. O \subseteq 1..i
    BY DEF Occurrences
  <2> HIDE DEF O
  <2> QED
    BY <2>1, <2>2, FS_Subset
<1>2. Cardinality(O) \in Nat
  BY <1>1, FS_CardinalityType
<1>3. x \in Names(Bases(raw))
  BY NamedIsName
<1>4. Append(x, Cardinality(O)) \in Names(Bases(raw)) /\ Append(x, Cardinality(O))[1] = x[1]
  <2> HIDE DEF O, x
  <2> QED
    BY <1>2, <1>3, NumberedName
<1>5. ASSUME OwnBase(raw, i) PROVE Cardinality(O) = 1
  <2>1. O = {i}
    BY <1>0, <1>5 DEF OwnBase, Occurrences
  <2> HIDE DEF O
  <2> QED
    BY <2>1, FS_Singleton
<1>6. Proposed(raw, i) = IF Cardinality(O) > 1 THEN Append(x, Cardinality(O)) ELSE x
  BY DEF Proposed
<1> HIDE DEF O, x
<1>7. /\ Proposed(raw, i) \in Names(Bases(raw)) /\ Proposed(raw, i)[1] = x[1]
  BY <1>3, <1>4, <1>6
<1>8. ASSUME OwnBase(raw, i) PROVE Proposed(raw, i) = x
  BY <1>5, <1>6, <1>8
<1> QED
  BY <1>7, <1>8 DEF x

(* One turn of the loop over the columns *)
NamedNext(raw, k, t) == Append(t, FreeName(Proposed(raw, k), ToSet(t)))

(* The name a turn adds is not among the names that there are. *)
LEMMA NamedNextFacts ==
  ASSUME NEW raw, IsRaw(raw), NEW k \in 1..Len(raw), NEW t \in Seq(Names(Bases(raw)))
  PROVE  \E x \in Names(Bases(raw)) :
           /\ NamedNext(raw, k, t) = Append(t, x)
           /\ \A i \in 1..Len(t) : t[i] # x
           /\ x[1] = Named(raw[k], k)[1]
           /\ OwnBase(raw, k) /\ (\A i \in 1..Len(t) : t[i] # Named(raw[k], k)) =>
                x = Named(raw[k], k)
<1> DEFINE F == ToSet(t)
           p == Proposed(raw, k)
           x == FreeName(p, F)
<1>1. F = {t[i] : i \in 1..Len(t)}
  BY DEF ToSet
<1>2. IsFiniteSet(F)
  <2>1. IsFiniteSet(1..Len(t))
    BY FS_Interval
  <2>2. IsFiniteSet({t[i] : i \in 1..Len(t)})
    BY <2>1, ImageFinite
  <2> QED
    BY <1>1, <2>2
<1>3. /\ p \in Names(Bases(raw)) /\ p[1] = Named(raw[k], k)[1]
      /\ OwnBase(raw, k) => p = Named(raw[k], k)
  BY ProposedFacts
<1>4. NamedNext(raw, k, t) = Append(t, x)
  BY DEF NamedNext
<1> HIDE DEF F, p
<1>5. x \notin F /\ x \in Names(Bases(raw)) /\ x[1] = p[1] /\ (p \notin F => x = p)
  BY <1>2, <1>3, FreeNameIsFree
<1> HIDE DEF x
<1>6. \A i \in 1..Len(t) : t[i] # x
  BY <1>1, <1>5
<1>7. OwnBase(raw, k) /\ (\A i \in 1..Len(t) : t[i] # Named(raw[k], k)) =>
        x = Named(raw[k], k)
  BY <1>1, <1>3, <1>5
<1> QED
  BY <1>3, <1>4, <1>5, <1>6, <1>7

(* The loop of normalize_column_names computes what its turns say. *)
LEMMA NamesLoop ==
  ASSUME NEW raw, IsRaw(raw)
  PROVE  \E f \in [0..Len(raw) -> Seq(Names(Bases(raw)))] :
           /\ f[0] = <<>> /\ \A k \in 1..Len(raw) : f[k] = NamedNext(raw, k, f[k - 1])
           /\ normalize_column_names(raw) = f[Len(raw)]
<1> DEFINE n == Len(raw)
           V == Seq(Names(Bases(raw)))
           G == [k \in 1..n |-> [t \in V |-> NamedNext(raw, k, t)]]
           Ids(f) == [k \in 0..n |->
                        IF k = 0 THEN <<>>
                        ELSE Append(f[k - 1], FreeName(Proposed(raw, k), ToSet(f[k - 1])))]
           named == CHOOSE f : f = Ids(f)
<1>0. n \in Nat
  BY DEF IsRaw
<1>1. <<>> \in V
  OBVIOUS
<1>2. G \in [1..n -> [V -> V]]
  <2>1. ASSUME NEW k \in 1..n, NEW t \in V PROVE NamedNext(raw, k, t) \in V
    <3>1. PICK x \in Names(Bases(raw)) : NamedNext(raw, k, t) = Append(t, x)
      BY NamedNextFacts
    <3> QED
      BY <3>1
  <2> HIDE DEF V, n
  <2> QED
    BY <2>1
<1> HIDE DEF n, V
<1>3. PICK f \in [0..n -> V] : f[0] = <<>> /\ \A k \in 1..n : f[k] = G[k][f[k - 1]]
  <2> DEFINE v == <<>>
  <2>1. v \in V
    BY <1>1
  <2> HIDE DEF G, v
  <2>2. Loops(V, v, n, G) # {}
    BY <1>0, <1>2, <2>1, LoopExists
  <2> QED
    BY <2>2 DEF v, Loops
<1>4. ASSUME NEW k \in 1..n PROVE f[k] = NamedNext(raw, k, f[k - 1])
  <2>1. k - 1 \in 0..n
    BY <1>0
  <2>2. f[k - 1] \in V /\ f[k] = G[k][f[k - 1]]
    BY <1>3, <2>1
  <2>3. G[k][f[k - 1]] = NamedNext(raw, k, f[k - 1])
    BY <2>2
  <2> QED
    BY <2>2, <2>3
<1> HIDE DEF G
<1>5. f = Ids(f)
  <2>1. ASSUME NEW k \in 0..n PROVE f[k] = Ids(f)[k]
    <3>1. CASE k = 0
      BY <1>3, <3>1
    <3>2. CASE k # 0
      <4>1. k \in 1..n
        BY <1>0, <3>2
      <4>2. f[k] = NamedNext(raw, k, f[k - 1])
        BY <1>4, <4>1
      <4> QED
        BY <3>2, <4>2 DEF NamedNext
    <3> QED
      BY <3>1, <3>2
  <2>2. Ids(f) = [k \in 0..n |-> Ids(f)[k]]
    OBVIOUS
  <2>3. f = [k \in 0..n |-> f[k]]
    BY <1>3
  <2> HIDE DEF Ids
  <2> QED
    BY <2>1, <2>2, <2>3
<1>6. named = Ids(named)
  <2> HIDE DEF Ids
  <2> QED
    BY <1>5
<1>7. normalize_column_names(raw) = named[n]
  BY DEF normalize_column_names, n, Proposed, Occurrences
<1>8. named[0] = <<>> /\ \A k \in 1..n : named[k] = NamedNext(raw, k, named[k - 1])
  <2> HIDE DEF named
  <2>1. \A k \in 0..n : named[k] = Ids(named)[k]
    BY <1>6
  <2>2. Ids(named)[0] = <<>>
    BY <1>0
  <2>3. ASSUME NEW k \in 1..n PROVE Ids(named)[k] = NamedNext(raw, k, named[k - 1])
    BY <1>0 DEF NamedNext
  <2>4. 0 \in 0..n /\ \A k \in 1..n : k \in 0..n
    BY <1>0
  <2> HIDE DEF Ids
  <2> QED
    BY <2>1, <2>2, <2>3, <2>4
<1>9. named[n] = f[n]
  <2> HIDE DEF named
  <2>1. \A k \in 1..n : f[k - 1] = named[k - 1] => f[k] = named[k]
    BY <1>4, <1>8
  <2>2. f[0] = named[0]
    BY <1>3, <1>8
  <2>3. SameTurns(f, named, n)
    BY <2>1, <2>2 DEF SameTurns
  <2>4. \A k \in 0..n : f[k] = named[k]
    BY <1>0, <2>3, LoopsAgree
  <2> QED
    BY <1>0, <2>4
<1> HIDE DEF named
<1>10. \A k \in 1..n : f[k] = NamedNext(raw, k, f[k - 1])
  BY <1>4
<1> USE DEF n, V
<1> QED
  BY <1>3, <1>7, <1>9, <1>10

(* What holds of the names of the first columns *)
NamedSoFar(raw, k, t) ==
  /\ t \in Seq(Names(Bases(raw))) /\ Len(t) = k
  /\ \A i, j \in 1..k : i # j => t[i] # t[j]
  /\ \A i \in 1..k : /\ t[i][1] = Named(raw[i], i)[1]
                     /\ OwnBase(raw, i) => t[i] = Named(raw[i], i)

LEMMA NamedSoFarStep ==
  ASSUME NEW raw, IsRaw(raw), NEW k \in 1..Len(raw), NEW t, NamedSoFar(raw, k - 1, t)
  PROVE  NamedSoFar(raw, k, NamedNext(raw, k, t))
<1> DEFINE U == Names(Bases(raw))
           u == NamedNext(raw, k, t)
<1>0. /\ k \in Nat /\ k - 1 \in Nat /\ 1..(k - 1) \subseteq 1..Len(raw)
      /\ \A i \in 1..k : i \in 1..(k - 1) \/ i = k
      /\ k \notin 1..(k - 1) /\ (k - 1) + 1 = k
  BY DEF IsRaw
<1>1. /\ t \in Seq(U) /\ Len(t) = k - 1
      /\ \A i, j \in 1..(k - 1) : i # j => t[i] # t[j]
      /\ \A i \in 1..(k - 1) : /\ t[i][1] = Named(raw[i], i)[1]
                               /\ OwnBase(raw, i) => t[i] = Named(raw[i], i)
  BY DEF NamedSoFar
<1>2. PICK x \in U : /\ u = Append(t, x)
                     /\ \A i \in 1..Len(t) : t[i] # x
                     /\ x[1] = Named(raw[k], k)[1]
                     /\ OwnBase(raw, k) /\ (\A i \in 1..Len(t) : t[i] # Named(raw[k], k))
                          => x = Named(raw[k], k)
  BY <1>1, NamedNextFacts
<1> HIDE DEF U, u
<1>3. /\ u \in Seq(U) /\ Len(u) = k /\ u[k] = x
      /\ \A i \in 1..(k - 1) : u[i] = t[i]
  <2>1. /\ Append(t, x) \in Seq(U) /\ Len(Append(t, x)) = Len(t) + 1
        /\ \A i \in 1..Len(t) : Append(t, x)[i] = t[i]
        /\ Append(t, x)[Len(t) + 1] = x
    BY <1>1, AppendFacts
  <2> QED
    BY <1>0, <1>1, <1>2, <2>1
<1>4. OwnBase(raw, k) => x = Named(raw[k], k)
  <2>1. ASSUME OwnBase(raw, k), NEW i \in 1..(k - 1) PROVE t[i] # Named(raw[k], k)
    <3>1. Named(raw[i], i)[1] # Named(raw[k], k)[1]
      BY <1>0, <2>1 DEF OwnBase
    <3> QED
      BY <1>1, <3>1
  <2> QED
    BY <1>1, <1>2, <2>1
<1>5. \A i, j \in 1..k : i # j => u[i] # u[j]
  <2> SUFFICES ASSUME NEW i \in 1..k, NEW j \in 1..k, i # j PROVE u[i] # u[j]
    OBVIOUS
  <2>1. CASE i \in 1..(k - 1) /\ j \in 1..(k - 1)
    BY <1>1, <1>3, <2>1
  <2>2. CASE i \in 1..(k - 1) /\ j = k
    BY <1>1, <1>2, <1>3, <2>2
  <2>3. CASE i = k /\ j \in 1..(k - 1)
    BY <1>1, <1>2, <1>3, <2>3
  <2> QED
    BY <1>0, <2>1, <2>2, <2>3
<1>6. \A i \in 1..k : /\ u[i][1] = Named(raw[i], i)[1]
                      /\ OwnBase(raw, i) => u[i] = Named(raw[i], i)
  <2> SUFFICES ASSUME NEW i \in 1..k
               PROVE  /\ u[i][1] = Named(raw[i], i)[1]
                      /\ OwnBase(raw, i) => u[i] = Named(raw[i], i)
    OBVIOUS
  <2>1. CASE i \in 1..(k - 1)
    BY <1>1, <1>3, <2>1
  <2>2. CASE i = k
    BY <1>2, <1>3, <1>4, <2>2
  <2> QED
    BY <1>0, <2>1, <2>2
<1> QED
  BY <1>3, <1>5, <1>6 DEF NamedSoFar, U, u

(* The names are as many as the columns and distinct, and a base that no   *)
(* other column has keeps its name.                                        *)
LEMMA NormalizedNames ==
  ASSUME NEW raw, IsRaw(raw)
  PROVE  NamedSoFar(raw, Len(raw), normalize_column_names(raw))
<1> DEFINE n == Len(raw)
<1>0. n \in Nat
  BY DEF IsRaw
<1>1. PICK f \in [0..n -> Seq(Names(Bases(raw)))] :
        /\ f[0] = <<>> /\ \A k \in 1..n : f[k] = NamedNext(raw, k, f[k - 1])
        /\ normalize_column_names(raw) = f[n]
  BY NamesLoop
<1> DEFINE T == {k \in 0..n : NamedSoFar(raw, k, f[k])}
<1>2. 0 \in T
  <2>1. NamedSoFar(raw, 0, <<>>)
    BY DEF NamedSoFar
  <2> QED
    BY <1>0, <1>1, <2>1
<1>3. ASSUME NEW k \in 1..n, k - 1 \in T PROVE k \in T
  <2>1. NamedSoFar(raw, k - 1, f[k - 1])
    BY <1>3
  <2>2. NamedSoFar(raw, k, NamedNext(raw, k, f[k - 1]))
    BY <2>1, NamedSoFarStep
  <2> QED
    BY <1>0, <1>1, <2>2
<1> HIDE DEF n, T
<1>4. \A k \in 1..n : k - 1 \in T => k \in T
  BY <1>3
<1>5. \A k \in 0..n : k \in T
  BY <1>0, <1>2, <1>4, InductUpTo
<1>6. n \in T
  BY <1>0, <1>5
<1> QED
  BY <1>1, <1>6 DEF n, T

(* The columns of a row have distinct names, however many of them are      *)
(* missing or the same, and a name whose base is its own is kept           *)
(* (ConnectionManager._normalize_column_names).                            *)
THEOREM NamesStayUnique == Spec => []NamesUnique
<1>1. ReportsInv => NamesUnique
  <2> SUFFICES ASSUME ReportsInv, outcome = "report" PROVE NamesUnique
    BY DEF NamesUnique
  <2> DEFINE cols == rows["columns"]
             raw == [i \in 1..Len(cols) |-> cols[i].v]
  <2>1. "columns" \in Query /\ cols \in Seq(RowsOf["columns"])
    <3>1. "columns" \in ToSet(Queries["execute_query"]) /\ "execute_query" \in Tool
      BY DEF ToSet, Queries, Tool
    <3>2. "columns" \in Query
      BY <3>1 DEF Query
    <3> QED
      BY <3>2 DEF ReportsInv, Delivered
  <2>2. Len(cols) \in Nat /\ \A i \in 1..Len(cols) : cols[i] \in RowsOf["columns"]
    BY <2>1
  <2>3. report.names = normalize_column_names(raw)
    BY DEF ReportsInv, Told, Report
  <2>4. Len(raw) = Len(cols) /\ \A i \in 1..Len(cols) : raw[i] = cols[i].v
    BY <2>2
  <2>5. \A i \in 1..Len(cols) : cols[i].v = NoName \/ IsName(cols[i].v)
    BY <2>2, ReportsAssumption
  <2>6. NamesUnique <=>
          /\ Len(report.names) = Len(cols)
          /\ \A i, j \in 1..Len(cols) : i # j => report.names[i] # report.names[j]
          /\ \A i \in 1..Len(cols) :
               cols[i].v # NoName /\ (\A j \in 1..Len(cols) :
                                        j # i => /\ cols[j].v # NoName
                                                 /\ cols[j].v[1] # cols[i].v[1])
                 => report.names[i] = cols[i].v
    BY DEF NamesUnique
  <2> HIDE DEF cols, raw
  <2>7. IsRaw(raw)
    BY <2>2, <2>4, <2>5 DEF IsRaw
  <2>8. NamedSoFar(raw, Len(cols), report.names)
    BY <2>3, <2>4, <2>7, NormalizedNames
  <2>9. /\ Len(report.names) = Len(cols)
        /\ \A i, j \in 1..Len(cols) : i # j => report.names[i] # report.names[j]
    BY <2>8 DEF NamedSoFar
  <2>10. ASSUME NEW i \in 1..Len(cols), cols[i].v # NoName,
                \A j \in 1..Len(cols) : j # i => /\ cols[j].v # NoName
                                                 /\ cols[j].v[1] # cols[i].v[1]
         PROVE  report.names[i] = cols[i].v
    <3>1. \A j \in 1..Len(cols) : Named(raw[j], j) = cols[j].v
      BY <2>4, <2>10 DEF Named
    <3>2. OwnBase(raw, i)
      BY <2>4, <2>10, <3>1 DEF OwnBase
    <3>3. report.names[i] = Named(raw[i], i)
      BY <2>8, <3>2 DEF NamedSoFar
    <3> QED
      BY <3>1, <3>3
  <2> QED
    BY <2>6, <2>9, <2>10
<1> QED
  BY <1>1, ReportsInvariance, PTL

-----------------------------------------------------------------------------
(* Blocking chains *)

(* A head that is not blocked waits for nobody. *)
LEMMA HeadsWait ==
  ASSUME NEW S, NEW E \in Seq(S), NEW s \in true_head_blockers(E)
  PROVE  Reached(s, E) = {s}
<1>1. s \in Nodes(E) /\ \A e \in ToSet(E) : e[1] # s
  BY DEF true_head_blockers, Blocking, Blocked, Nodes
<1>2. s \in Reached(s, E)
  BY <1>1, ReachedFacts
<1>3. {s} \in SUBSET Nodes(E) /\ \A e \in ToSet(E) : e[1] \in {s} => e[2] \in {s}
  BY <1>1
<1>4. Reached(s, E) \subseteq {s}
  BY <1>1, <1>3, ReachedFacts
<1> QED
  BY <1>2, <1>4

(* The first L of a finite set of numbers, sorted *)
Firsts(H, L) == {h \in H : Cardinality({k \in H : k <= h}) <= L}

(* Of the sets assigned to the members of a finite set one is minimal. *)
LEMMA MinimalImage ==
  ASSUME NEW H, IsFiniteSet(H), H # {}, NEW f \in [H -> SUBSET H]
  PROVE  \E m \in H : \A k \in H : f[k] \subseteq f[m] => f[k] = f[m]
<1> DEFINE T == {f[h] : h \in H}
<1>1. T \in SUBSET SUBSET H /\ T # {}
  OBVIOUS
<1>2. \E X \in T : \A Y \in T : Y \subseteq X => Y = X
  <2> HIDE DEF T
  <2> QED
    BY <1>1, MinimalSubset
<1> QED
  BY <1>2

(* A nonempty finite set of numbers has a largest member. *)
LEMMA LargestNumber ==
  ASSUME NEW H, H \in SUBSET Int, IsFiniteSet(H), H # {}
  PROVE  \E m \in H : \A k \in H : k <= m
<1> DEFINE Above(h) == {k \in H : h <= k}
           f == [h \in H |-> Above(h)]
<1>1. f \in [H -> SUBSET H]
  OBVIOUS
<1>2. \E m \in H : \A k \in H : f[k] \subseteq f[m] => f[k] = f[m]
  <2>1. IsFiniteSet(H) /\ H # {}
    OBVIOUS
  <2> HIDE DEF f
  <2> QED
    BY ONLY <1>1, <2>1, MinimalImage
<1>3. PICK m \in H : \A k \in H : Above(k) \subseteq Above(m) => Above(k) = Above(m)
  BY <1>2
<1>4. ASSUME NEW k \in H, ~(k <= m) PROVE FALSE
  <2>1. k \in Int /\ m \in Int
    OBVIOUS
  <2>2. m <= k
    BY <1>4, <2>1
  <2>3. \A j \in H : k <= j => m <= j
    <3> SUFFICES ASSUME NEW j \in H, k <= j PROVE m <= j
      OBVIOUS
    <3>1. j \in Int
      OBVIOUS
    <3> QED
      BY <2>1, <2>2, <3>1
  <2>4. Above(k) \subseteq Above(m)
    BY <2>3
  <2>5. Above(k) = Above(m)
    BY <1>3, <2>4
  <2>6. m \in Above(m)
    BY <2>1
  <2> QED
    BY <1>4, <2>5, <2>6
<1> QED
  BY <1>3, <1>4

(* They are L at most; *)
LEMMA FirstsAreFew ==
  ASSUME NEW H \in SUBSET Int, IsFiniteSet(H), NEW L \in Nat
  PROVE  IsFiniteSet(Firsts(H, L)) /\ Cardinality(Firsts(H, L)) <= L
<1> DEFINE F == Firsts(H, L)
<1>1. F \in SUBSET H /\ IsFiniteSet(F)
  BY FS_Subset DEF Firsts
<1>2. CASE F = {}
  BY <1>1, <1>2, FS_EmptySet
<1>3. CASE F # {}
  <2> HIDE DEF F
  <2>1. F \in SUBSET Int
    BY <1>1
  <2>2. PICK m \in F : \A k \in F : k <= m
    BY <1>1, <1>3, <2>1, LargestNumber
  <2> DEFINE B == {k \in H : k <= m}
  <2>3. F \subseteq B
    BY <1>1, <2>2
  <2>4. IsFiniteSet(B)
    BY FS_Subset
  <2>5. Cardinality(B) <= L
    BY <2>2 DEF F, Firsts
  <2> HIDE DEF B
  <2>6. Cardinality(F) <= Cardinality(B)
    BY <2>3, <2>4, FS_Subset
  <2>7. Cardinality(F) \in Nat /\ Cardinality(B) \in Nat
    BY <1>1, <2>4, FS_CardinalityType
  <2> QED
    BY <1>1, <2>5, <2>6, <2>7 DEF F
<1> QED
  BY <1>2, <1>3

(* ... they come before all others, *)
LEMMA FirstsComeFirst ==
  ASSUME NEW H \in SUBSET Int, IsFiniteSet(H), NEW L \in Nat,
         NEW m \in H \ Firsts(H, L), NEW r \in Firsts(H, L)
  PROVE  r < m
<1> DEFINE B(x) == {k \in H : k <= x}
<1>1. r \in H /\ r \in Int /\ m \in Int /\ Cardinality(B(r)) <= L /\ ~(Cardinality(B(m)) <= L)
  BY DEF Firsts
<1>2. ASSUME m <= r PROVE FALSE
  <2>1. \A k \in H : k <= m => k <= r
    <3> SUFFICES ASSUME NEW k \in H, k <= m PROVE k <= r
      OBVIOUS
    <3>1. k \in Int
      OBVIOUS
    <3> QED
      BY <1>1, <1>2, <3>1
  <2>2. B(m) \subseteq B(r) /\ IsFiniteSet(B(r)) /\ IsFiniteSet(B(m))
    BY <2>1, FS_Subset
  <2> DEFINE X == B(m)
             Y == B(r)
  <2>3. X \subseteq Y /\ IsFiniteSet(Y) /\ IsFiniteSet(X) /\ Cardinality(Y) <= L
        /\ ~(Cardinality(X) <= L)
    BY <1>1, <2>2
  <2> HIDE DEF X, Y
  <2>4. Cardinality(X) <= Cardinality(Y)
    BY <2>3, FS_Subset
  <2>5. Cardinality(X) \in Nat /\ Cardinality(Y) \in Nat
    BY <2>3, FS_CardinalityType
  <2> QED
    BY <2>3, <2>4, <2>5
<1> QED
  BY <1>1, <1>2

(* ... and they are L if there are others. *)
LEMMA FirstsAreFull ==
  ASSUME NEW H \in SUBSET Nat, IsFiniteSet(H), NEW L \in Nat,
         Firsts(H, L) # H
  PROVE  Cardinality(Firsts(H, L)) = L
<1> DEFINE F == Firsts(H, L)
           R == H \ F
<1>1. /\ H \in SUBSET Int /\ F \in SUBSET H /\ R \in SUBSET Nat /\ R # {}
      /\ IsFiniteSet(F)
  <2>1. F \in SUBSET H /\ F # H
    BY DEF Firsts
  <2>2. IsFiniteSet(H)
    OBVIOUS
  <2> HIDE DEF F
  <2>3. IsFiniteSet(F)
    BY <2>1, <2>2, FS_Subset
  <2>4. H \in SUBSET Int
    OBVIOUS
  <2>5. R \in SUBSET Nat
    OBVIOUS
  <2>6. R # {}
    BY <2>1
  <2> QED
    BY <2>1, <2>3, <2>4, <2>5, <2>6
<1>2. \E x \in R : \A k \in R : x <= k
  <2> HIDE DEF R
  <2> QED
    BY <1>1, LeastNumber
<1>3. PICK x \in R : \A k \in R : x <= k
  BY <1>2
<1> DEFINE B == {k \in H : k <= x}
<1>4. B \subseteq F \cup {x}
  <2> SUFFICES ASSUME NEW k \in H, k <= x, k \notin F PROVE k = x
    OBVIOUS
  <2>1. k \in Nat /\ x \in Nat /\ x <= k
    BY <1>3
  <2> QED
    BY <2>1
<1>5. IsFiniteSet(B) /\ ~(Cardinality(B) <= L)
  BY FS_Subset, <1>3 DEF Firsts
<1>6. x \notin F
  BY <1>3
<1>7. Cardinality(F) <= L
  BY <1>1, FirstsAreFew
<1> HIDE DEF F, B
<1>8. IsFiniteSet(F \cup {x}) /\ Cardinality(F \cup {x}) = Cardinality(F) + 1
  BY <1>1, <1>6, FS_AddElement
<1>9. Cardinality(B) <= Cardinality(F \cup {x})
  BY <1>4, <1>8, FS_Subset
<1>10. Cardinality(F) \in Nat /\ Cardinality(B) \in Nat
  BY <1>1, <1>5, FS_CardinalityType
<1> QED
  BY <1>5, <1>7, <1>8, <1>9, <1>10 DEF F

(* The heads are finitely many sessions, *)
LEMMA HeadsAre ==
  ASSUME NEW E \in Seq(Int \X Int)
  PROVE  /\ true_head_blockers(E) \in SUBSET Nat
         /\ IsFiniteSet(true_head_blockers(E))
<1> DEFINE H == true_head_blockers(E)
<1>1. \A r \in ToSet(E) : r \in Int \X Int
  BY DEF ToSet
<1>2. \A h \in H : h \in Nat
  <2> SUFFICES ASSUME NEW h \in H PROVE h \in Nat
    OBVIOUS
  <2>1. PICK r \in ToSet(E) : r[2] = h /\ h > 0
    BY DEF true_head_blockers, Blocking
  <2>2. r[2] \in Int
    BY <1>1
  <2> QED
    BY <2>1, <2>2
<1>3. H \subseteq Nodes(E)
  BY DEF true_head_blockers, Blocking, Nodes
<1>4. IsFiniteSet(Nodes(E))
  BY NodesFinite
<1> HIDE DEF H
<1>5. IsFiniteSet(H)
  BY <1>3, <1>4, FS_Subset
<1>6. H \in SUBSET Nat
  BY <1>2
<1> QED
  BY <1>5, <1>6 DEF H

(* ... and what the app leaves out of its list comes after a full one. *)
LEMMA HeadsListed ==
  ASSUME NEW E \in Seq(Int \X Int), HeadLimit \in Nat
  PROVE  /\ listed_heads(E) \subseteq true_head_blockers(E)
         /\ Cardinality(listed_heads(E)) <= HeadLimit
         /\ \A m \in true_head_blockers(E) \ listed_heads(E) :
              /\ Cardinality(listed_heads(E)) = HeadLimit
              /\ \A r \in listed_heads(E) : r < m
<1> DEFINE H == true_head_blockers(E)
           L == HeadLimit
<1>1. listed_heads(E) = Firsts(H, L)
  BY DEF listed_heads, Firsts
<1>2. H \in SUBSET Nat /\ IsFiniteSet(H) /\ L \in Nat
  BY HeadsAre
<1> HIDE DEF H, L
<1>3. H \in SUBSET Int /\ Firsts(H, L) \subseteq H
  BY <1>2 DEF Firsts
<1>4. Cardinality(Firsts(H, L)) <= L
  BY <1>2, <1>3, FirstsAreFew
<1>5. ASSUME NEW m \in H \ Firsts(H, L)
      PROVE  /\ Cardinality(Firsts(H, L)) = L
             /\ \A r \in Firsts(H, L) : r < m
  <2>1. Firsts(H, L) # H
    OBVIOUS
  <2>2. Cardinality(Firsts(H, L)) = L
    BY <1>2, <2>1, FirstsAreFull
  <2>3. \A r \in Firsts(H, L) : r < m
    BY <1>2, <1>3, FirstsComeFirst
  <2> QED
    BY <2>2, <2>3
<1> QED
  BY <1>1, <1>3, <1>4, <1>5 DEF H, L

(* What can be reached is where the search began or at the end of an edge. *)
LEMMA ReachedByEdge ==
  ASSUME NEW E, NEW s \in Nodes(E), NEW m \in Reached(s, E), m # s
  PROVE  \E e \in ToSet(E) : e[2] = m
<1> DEFINE S == {n \in Nodes(E) : n = s \/ \E e \in ToSet(E) : e[2] = n}
<1>1. s \in S /\ S \in SUBSET Nodes(E)
  OBVIOUS
<1>2. \A e \in ToSet(E) : e[2] \in S
  BY EdgeNodes
<1>3. \A n \in S : n = s \/ \E e \in ToSet(E) : e[2] = n
  OBVIOUS
<1> HIDE DEF S
<1>4. Reached(s, E) \subseteq S
  BY <1>1, <1>2, ReachedFacts
<1> QED
  BY <1>3, <1>4

(* A chain that does not end runs into a cycle: of the nodes on it, take   *)
(* one that leads to the fewest.                                           *)
LEMMA EndlessIsCircular ==
  ASSUME NEW U, NEW E \in Seq(U), NEW s \in Nodes(E),
         \A m \in Reached(s, E) : \E e \in ToSet(E) : e[1] = m
  PROVE  Reached(s, E) \cap Circular(E) # {}
<1> DEFINE N == Nodes(E)
           T == {Reached(m, E) : m \in Reached(s, E)}
<1>0. IsFiniteSet(N)
  BY NodesFinite
<1>1. Reached(s, E) \in SUBSET N /\ s \in Reached(s, E)
  BY ReachedFacts
<1>2. T \in SUBSET SUBSET N /\ T # {}
  <2>1. \A m \in Reached(s, E) : Reached(m, E) \in SUBSET N
    BY <1>1, ReachedFacts
  <2> QED
    BY <1>1, <2>1
<1>3. \E X \in T : \A Y \in T : Y \subseteq X => Y = X
  <2> HIDE DEF T, N
  <2> QED
    BY <1>0, <1>2, MinimalSubset
<1>4. PICK m \in Reached(s, E) : \A Y \in T : Y \subseteq Reached(m, E) => Y = Reached(m, E)
  BY <1>3
<1>5. PICK e \in ToSet(E) : e[1] = m
  OBVIOUS
<1>6. m \in N /\ e[2] \in Reached(s, E) /\ e[2] \in N
  BY <1>1, <1>5, EdgeNodes, ReachedFacts
<1>7. e[2] \in Reached(m, E) /\ m \in Reached(m, E)
  BY <1>5, <1>6, ReachedFacts
<1>8. Reached(e[2], E) \subseteq Reached(m, E)
  <2> DEFINE S == Reached(m, E)
  <2>1. S \in SUBSET Nodes(E) /\ (\A f \in ToSet(E) : f[1] \in S => f[2] \in S)
    BY <1>6, ReachedFacts
  <2> HIDE DEF S
  <2>2. e[2] \in S
    BY <1>7 DEF S
  <2>3. Reached(e[2], E) \subseteq S
    BY <1>6, <2>1, <2>2, ReachedFacts
  <2> QED
    BY <2>3 DEF S
<1>9. Reached(e[2], E) = Reached(m, E)
  BY <1>4, <1>6, <1>8
<1>10. m \in Circular(E)
  BY <1>5, <1>7, <1>9 DEF Circular
<1> QED
  BY <1>10

LEMMA ChainsEnd ==
  ASSUME NEW E \in Seq(Int \X Int), NEW s \in Blocked(E)
  PROVE  Reached(s, E) \cap (true_head_blockers(E) \cup Circular(E)
                               \cup {b \in Nodes(E) : b <= 0}) # {}
<1> DEFINE N == Nodes(E)
           R == Reached(s, E)
<1>1. s \in N /\ \A e \in ToSet(E) : e \in Int \X Int
  <2>1. \A e \in ToSet(E) : e \in Int \X Int
    BY DEF ToSet
  <2> QED
    BY <2>1, EdgeNodes DEF Blocked
<1>2. R \in SUBSET N
  BY <1>1, ReachedFacts
<1>3. CASE \A m \in R : \E e \in ToSet(E) : e[1] = m
  BY <1>1, <1>3, EndlessIsCircular
<1>4. ASSUME NEW m \in R, ~\E e \in ToSet(E) : e[1] = m
      PROVE  m \in true_head_blockers(E) \cup {b \in Nodes(E) : b <= 0}
  <2>1. m # s
    BY <1>4 DEF Blocked
  <2>2. PICK e \in ToSet(E) : e[2] = m
    BY <1>1, <2>1, ReachedByEdge
  <2>3. m \in Int /\ m \in N
    BY <1>1, <1>2, <2>2
  <2>4. m \notin Blocked(E)
    BY <1>4 DEF Blocked
  <2>5. CASE m > 0
    <3>1. m \in {r[2] : r \in ToSet(E)}
      BY <2>2
    <3>2. m \in Blocking(E)
      BY <2>5, <3>1 DEF Blocking
    <3> QED
      BY <2>4, <3>2 DEF true_head_blockers
  <2>6. CASE ~(m > 0)
    <3>1. m <= 0
      BY <2>3, <2>6
    <3> QED
      BY <2>3, <3>1
  <2> QED
    BY <2>5, <2>6
<1> QED
  BY <1>3, <1>4

(* The largest of some numbers up to n *)
LEMMA GreatestNumber ==
  ASSUME NEW n \in Nat, NEW S \in SUBSET (1..n), S # {}
  PROVE  Max(S) \in S
<1> DEFINE T == {n - x : x \in S}
<1>1. T \in SUBSET Nat /\ T # {}
  <2>1. \A x \in S : n - x \in Nat
    <3> SUFFICES ASSUME NEW x \in S PROVE n - x \in Nat
      OBVIOUS
    <3>1. x \in 1..n
      OBVIOUS
    <3> QED
      BY <3>1
  <2>2. PICK x : x \in S
    OBVIOUS
  <2>3. n - x \in T
    BY <2>2
  <2> QED
    BY <2>1, <2>3
<1>2. \E m \in T : \A k \in T : m <= k
  <2> HIDE DEF T
  <2> QED
    BY <1>1, LeastNumber
<1>3. PICK x \in S : \A k \in T : n - x <= k
  BY <1>2
<1>4. ASSUME NEW y \in S PROVE x >= y
  <2>1. n - x <= n - y /\ x \in Int /\ y \in Int
    BY <1>3
  <2> QED
    BY <2>1
<1>5. \E z \in S : \A y \in S : z >= y
  BY <1>4
<1> QED
  BY <1>5 DEF Max

LEMMA SmallerOfTwo ==
  ASSUME NEW a \in Nat, NEW b \in Nat
  PROVE  Min({a, b}) = IF a <= b THEN a ELSE b
<1> DEFINE m == IF a <= b THEN a ELSE b
<1>1. m \in {a, b} /\ \A y \in {a, b} : m <= y
  OBVIOUS
<1>2. ASSUME NEW x \in {a, b}, \A y \in {a, b} : x <= y PROVE x = m
  BY <1>2
<1> HIDE DEF m
<1>3. Min({a, b}) \in {a, b} /\ \A y \in {a, b} : Min({a, b}) <= y
  <2>1. \E x \in {a, b} : \A y \in {a, b} : x <= y
    BY <1>1
  <2> QED
    BY <2>1 DEF Min
<1>4. Min({a, b}) = m
  BY <1>2, <1>3
<1> QED
  BY <1>4 DEF m

(* A finite set and a sequence of its elements *)
LEMMA SetAsSequence ==
  ASSUME NEW S, IsFiniteSet(S)
  PROVE  SetToSeq(S) \in Seq(S) /\ ToSet(SetToSeq(S)) = S
<1> DEFINE c == Cardinality(S)
           f == SetToSeq(S)
<1>1. c \in Nat /\ ExistsBijection(1..c, S)
  BY FS_CardinalityType
<1>2. \E g \in [1..c -> S] : IsInjective(g)
  <2>1. PICK g : g \in Bijection(1..c, S)
    BY <1>1 DEF ExistsBijection
  <2>2. g \in [1..c -> S] /\ IsInjective(g)
    BY <2>1 DEF Bijection, Injection, IsInjective
  <2> QED
    BY <2>2
<1>3. f \in [1..c -> S] /\ IsInjective(f)
  BY <1>2 DEF SetToSeq
<1> HIDE DEF f
<1>4. f \in Injection(1..c, S)
  BY <1>3 DEF Injection, IsInjective
<1>5. IsFiniteSet(1..c) /\ Cardinality(1..c) = c
  <2> HIDE DEF c
  <2>1. 1 \in Int /\ c \in Int
    BY <1>1
  <2>2. IsFiniteSet(1..c) /\ Cardinality(1..c) = IF 1 > c THEN 0 ELSE c - 1 + 1
    BY <2>1, FS_Interval
  <2> QED
    BY <1>1, <2>2
<1>6. f \in Surjection(1..c, S)
  BY <1>4, <1>5, FS_Injection
<1>7. \A x \in S : \E i \in 1..c : f[i] = x
  BY <1>6 DEF Surjection
<1> HIDE DEF c
<1>8. f \in Seq(S)
  BY <1>1, <1>3
<1>9. ToSet(f) = S
  <2>1. DOMAIN f = 1..c
    BY <1>3
  <2>2. ToSet(f) = {f[i] : i \in 1..c}
    BY <2>1 DEF ToSet
  <2> QED
    BY <1>3, <1>7, <2>2
<1> QED
  BY <1>8, <1>9 DEF f

(* Whom a session waits for is told by a row. *)
LEMMA BlockerFacts ==
  ASSUME NEW E \in Seq(Int \X Int), NEW s \in DOMAIN blocking_by_session(E)
  PROVE  s \in Nodes(E) /\ blocking_by_session(E)[s] \in Nodes(E)
<1> DEFINE told == {i \in 1..Len(E) : E[i][1] > 0 /\ E[i][2] > 0}
           mine == {i \in told : E[i][1] = s}
           b == [x \in {E[i][1] : i \in told} |->
                   E[Max({i \in told : E[i][1] = x})][2]]
<1>1. blocking_by_session(E) = b
  BY DEF blocking_by_session
<1>2. s \in {E[i][1] : i \in told} /\ b[s] = E[Max(mine)][2]
  BY <1>1
<1>3. mine \in SUBSET (1..Len(E)) /\ mine # {} /\ Len(E) \in Nat
  BY <1>2
<1>4. Max(mine) \in mine
  <2> HIDE DEF mine
  <2> QED
    BY <1>3, GreatestNumber
<1>5. PICK i \in 1..Len(E) : E[i][1] = s /\ b[s] = E[i][2]
  <2> HIDE DEF b
  <2> QED
    BY <1>2, <1>4
<1>6. E[i] \in ToSet(E)
  BY DEF ToSet
<1> HIDE DEF b
<1> QED
  BY <1>1, <1>5, <1>6, EdgeNodes

(* The search for the depth of a session: where it stops, and where it     *)
(* goes on.  `at' is the pair of current and seen.                         *)
Stops(b, at) ==
  \/ at[1] \notin DOMAIN b \/ at[1] \in at[2]
  \/ Cardinality(at[2]) > DepthLimit

Deeper(b, at) == <<b[at[1]], at[2] \cup {at[1]}>>

Within(b, N) == DOMAIN b \subseteq N /\ \A c \in DOMAIN b : b[c] \in N

(* What the search answers, place by place *)
Depths(h, b, N) ==
  \A at \in N \X SUBSET N :
    h[at] = IF Stops(b, at) THEN Cardinality(at[2]) ELSE h[Deeper(b, at)]

(* A step down sees one session more. *)
LEMMA DeeperFacts ==
  ASSUME NEW N, IsFiniteSet(N), NEW b, Within(b, N),
         NEW at \in N \X SUBSET N
  PROVE  /\ Cardinality(at[2]) \in Nat /\ IsFiniteSet(at[2])
         /\ ~Stops(b, at) => /\ Deeper(b, at) \in N \X SUBSET N
                             /\ Deeper(b, at)[1] = b[at[1]]
                             /\ Deeper(b, at)[2] = at[2] \cup {at[1]}
                             /\ Cardinality(Deeper(b, at)[2]) = Cardinality(at[2]) + 1
                             /\ Cardinality(at[2]) <= DepthLimit
<1>1. at[1] \in N /\ at[2] \in SUBSET N
  OBVIOUS
<1>2. IsFiniteSet(at[2])
  BY <1>1, FS_Subset
<1>3. Cardinality(at[2]) \in Nat
  BY <1>2, FS_CardinalityType
<1>4. ASSUME ~Stops(b, at)
      PROVE  /\ Deeper(b, at) \in N \X SUBSET N
             /\ Deeper(b, at)[1] = b[at[1]]
             /\ Deeper(b, at)[2] = at[2] \cup {at[1]}
             /\ Cardinality(Deeper(b, at)[2]) = Cardinality(at[2]) + 1
             /\ Cardinality(at[2]) <= DepthLimit
  <2>1. at[1] \in DOMAIN b /\ at[1] \notin at[2] /\ ~(Cardinality(at[2]) > DepthLimit)
    BY <1>4 DEF Stops
  <2>2. b[at[1]] \in N
    BY <2>1 DEF Within
  <2>3. Cardinality(at[2] \cup {at[1]}) = Cardinality(at[2]) + 1
    BY <1>2, <2>1, FS_AddElement
  <2>4. DepthLimit \in Nat
    BY ReportsAssumption
  <2>5. Cardinality(at[2]) <= DepthLimit
    BY <1>3, <2>1, <2>4
  <2> QED
    BY <1>1, <2>2, <2>3, <2>5 DEF Deeper
<1> QED
  BY <1>2, <1>3, <1>4

(* The search ends: so many steps as there may be sessions on a path leave *)
(* nothing to change.                                                      *)
LEMMA DepthsExist ==
  ASSUME NEW N, IsFiniteSet(N), NEW b, Within(b, N)
  PROVE  \E h \in [N \X SUBSET N -> Nat] : Depths(h, b, N)
<1> DEFINE P == N \X SUBSET N
           V == [P -> Nat]
           L == DepthLimit
           n == L + 3
           Next2(h) == [at \in P |-> IF Stops(b, at) THEN Cardinality(at[2])
                                     ELSE h[Deeper(b, at)]]
           G == [k \in 1..n |-> [h \in V |-> Next2(h)]]
           zero == [at \in P |-> 0]
<1>0. L \in Nat
  BY ReportsAssumption
<1>1. \A at \in P : /\ Cardinality(at[2]) \in Nat
                    /\ ~Stops(b, at) => /\ Deeper(b, at) \in P
                                        /\ Cardinality(Deeper(b, at)[2])
                                             = Cardinality(at[2]) + 1
  BY DeeperFacts
<1> HIDE DEF P, L
<1>2. zero \in V
  OBVIOUS
<1>3. G \in [1..n -> [V -> V]]
  <2>1. ASSUME NEW h \in V PROVE Next2(h) \in V
    BY <1>1
  <2> HIDE DEF V, Next2, n
  <2> QED
    BY <2>1
<1>4. PICK f \in [0..n -> V] : f[0] = zero /\ \A k \in 1..n : f[k] = G[k][f[k - 1]]
  <2> HIDE DEF G, zero, V
  <2>1. n \in Nat
    BY <1>0
  <2> HIDE DEF n
  <2>2. Loops(V, zero, n, G) # {}
    BY <1>2, <1>3, <2>1, LoopExists
  <2> QED
    BY <2>2 DEF Loops
<1>5. ASSUME NEW k \in 1..n, NEW at \in P
      PROVE  f[k][at] = IF Stops(b, at) THEN Cardinality(at[2])
                        ELSE f[k - 1][Deeper(b, at)]
  <2>1. k - 1 \in 0..n
    BY <1>0
  <2>2. f[k - 1] \in V /\ f[k] = G[k][f[k - 1]]
    BY <1>4, <2>1
  <2>3. G[k][f[k - 1]] = Next2(f[k - 1])
    <3> HIDE DEF V, n, Next2
    <3> QED
      BY <2>2
  <2> QED
    BY <2>2, <2>3
<1> DEFINE T == {k \in 0..(L + 1) :
                   \A at \in P : Cardinality(at[2]) + k > L => f[k + 1][at] = f[k + 2][at]}
<1>6. 0 \in T
  <2>1. ASSUME NEW at \in P, Cardinality(at[2]) + 0 > L
        PROVE  f[0 + 1][at] = f[0 + 2][at]
    <3>1. Cardinality(at[2]) > L
      BY <1>1, <2>1
    <3>2. Stops(b, at)
      BY <3>1 DEF Stops, L
    <3>3. 0 + 1 \in 1..n /\ 0 + 2 \in 1..n
      BY <1>0
    <3> HIDE DEF n
    <3>4. f[0 + 1][at] = Cardinality(at[2]) /\ f[0 + 2][at] = Cardinality(at[2])
      BY <1>5, <3>2, <3>3
    <3> QED
      BY <3>4
  <2>2. 0 \in 0..(L + 1)
    BY <1>0
  <2> QED
    BY <2>1, <2>2
<1>7. ASSUME NEW k \in 1..(L + 1), k - 1 \in T PROVE k \in T
  <2>1. k + 1 \in 1..n /\ k + 2 \in 1..n /\ k \in 0..(L + 1)
        /\ (k + 1) - 1 = (k - 1) + 1 /\ (k + 2) - 1 = (k - 1) + 2
    BY <1>0
  <2>2. ASSUME NEW at \in P, Cardinality(at[2]) + k > L
        PROVE  f[k + 1][at] = f[k + 2][at]
    <3>1. CASE Stops(b, at)
      <4> HIDE DEF n
      <4>1. f[k + 1][at] = Cardinality(at[2]) /\ f[k + 2][at] = Cardinality(at[2])
        BY <1>5, <2>1, <3>1
      <4> QED
        BY <4>1
    <3>2. CASE ~Stops(b, at)
      <4> DEFINE d == Deeper(b, at)
      <4>1. /\ d \in P /\ Cardinality(d[2]) = Cardinality(at[2]) + 1
            /\ Cardinality(at[2]) \in Nat
        BY <1>1, <3>2
      <4> HIDE DEF d
      <4>2. Cardinality(d[2]) + (k - 1) > L
        BY <1>0, <2>2, <4>1
      <4>3. f[(k - 1) + 1][d] = f[(k - 1) + 2][d]
        BY <1>7, <4>1, <4>2
      <4> HIDE DEF n
      <4>4. f[k + 1][at] = f[(k + 1) - 1][d] /\ f[k + 2][at] = f[(k + 2) - 1][d]
        BY <1>5, <2>1, <3>2 DEF d
      <4> QED
        BY <2>1, <4>3, <4>4
    <3> QED
      BY <3>1, <3>2
  <2> QED
    BY <2>1, <2>2
<1>8. L + 1 \in T
  <2>1. L + 1 \in Nat /\ L + 1 \in 0..(L + 1)
    BY <1>0
  <2>2. \A k \in 1..(L + 1) : k - 1 \in T => k \in T
    BY <1>7
  <2> HIDE DEF T
  <2>3. \A k \in 0..(L + 1) : k \in T
    BY <1>6, <2>1, <2>2, InductUpTo
  <2> QED
    BY <2>1, <2>3
<1>9. ASSUME NEW at \in P PROVE f[L + 2][at] = f[L + 3][at]
  <2>1. Cardinality(at[2]) + (L + 1) > L /\ (L + 1) + 1 = L + 2 /\ (L + 1) + 2 = L + 3
    <3> DEFINE c == Cardinality(at[2])
    <3>1. c \in Nat
      BY <1>1
    <3> HIDE DEF c
    <3>2. c + (L + 1) > L /\ (L + 1) + 1 = L + 2 /\ (L + 1) + 2 = L + 3
      BY <1>0, <3>1
    <3> QED
      BY <3>2 DEF c
  <2>2. f[(L + 1) + 1][at] = f[(L + 1) + 2][at]
    BY <1>8, <2>1
  <2> QED
    BY <2>1, <2>2
<1> DEFINE h == f[L + 2]
<1>10. h \in V
  BY <1>0, <1>4
<1>11. ASSUME NEW at \in P
       PROVE  h[at] = IF Stops(b, at) THEN Cardinality(at[2]) ELSE h[Deeper(b, at)]
  <2>1. L + 3 \in 1..n /\ (L + 3) - 1 = L + 2
    BY <1>0
  <2>2. f[L + 3][at] = IF Stops(b, at) THEN Cardinality(at[2])
                       ELSE f[(L + 3) - 1][Deeper(b, at)]
    BY <1>5, <2>1
  <2> QED
    BY <1>9, <2>1, <2>2
<1> HIDE DEF h
<1> QED
  BY <1>10, <1>11 DEF Depths, P, V

LEMMA DepthSearch ==
  ASSUME NEW E \in Seq(Int \X Int), NEW s \in Nodes(E)
  PROVE  \E h : /\ Depths(h, blocking_by_session(E), Nodes(E))
                /\ depth_for_session(s, E) = h[<<s, {}>>]
<1> DEFINE b == blocking_by_session(E)
           N == Nodes(E)
           P == N \X SUBSET N
           Ids(d) == [at \in ({s} \cup N) \X SUBSET N |->
                        IF \/ at[1] \notin DOMAIN b \/ at[1] \in at[2]
                           \/ Cardinality(at[2]) > DepthLimit
                        THEN Cardinality(at[2])
                        ELSE d[<<b[at[1]], at[2] \cup {at[1]}>>]]
           depth == CHOOSE d : d = Ids(d)
<1>1. depth_for_session(s, E) = depth[<<s, {}>>]
  BY DEF depth_for_session
<1>2. IsFiniteSet(N) /\ Within(b, N)
  BY NodesFinite, BlockerFacts DEF Within
<1>3. ({s} \cup N) \X SUBSET N = P
  <2>1. {s} \cup N = N
    OBVIOUS
  <2> HIDE DEF N
  <2> QED
    BY <2>1
<1> HIDE DEF b, N
<1>4. PICK h \in [P -> Nat] : Depths(h, b, N)
  BY <1>2, DepthsExist
<1>5. \A d : Ids(d) = [at \in P |-> IF Stops(b, at) THEN Cardinality(at[2])
                                    ELSE d[Deeper(b, at)]]
  BY <1>3 DEF Stops, Deeper
<1>6. h = Ids(h)
  <2>1. ASSUME NEW at \in P PROVE h[at] = Ids(h)[at]
    BY <1>4, <1>5 DEF Depths
  <2>2. h = [at \in P |-> h[at]] /\ Ids(h) = [at \in P |-> Ids(h)[at]]
    BY <1>3, <1>4
  <2> HIDE DEF Ids, P
  <2> QED
    BY <2>1, <2>2
<1>7. depth = Ids(depth)
  <2> HIDE DEF Ids
  <2> QED
    BY <1>6
<1>8. Depths(depth, b, N)
  <2> HIDE DEF depth
  <2>1. ASSUME NEW at \in P PROVE depth[at] = Ids(depth)[at]
    BY <1>7
  <2> HIDE DEF Ids, P
  <2>2. Ids(depth) = [at \in P |-> IF Stops(b, at) THEN Cardinality(at[2])
                                   ELSE depth[Deeper(b, at)]]
    BY <1>5
  <2>3. \A at \in P : depth[at] = IF Stops(b, at) THEN Cardinality(at[2])
                                  ELSE depth[Deeper(b, at)]
    BY <2>1, <2>2
  <2> QED
    BY <2>3 DEF Depths, P
<1> HIDE DEF depth
<1> QED
  BY <1>1, <1>8 DEF b, N

(* The links from the sessions to whom they wait for *)
LinksOf(b) == {<<c, b[c]>> : c \in DOMAIN b}

(* The chain of a session: what can be reached on its links *)
ChainOf(s, b, K) == {m \in DOMAIN b : m \in Reached(s, K)}

(* Where the search is on its way from s *)
Walks(at, s, b, K) ==
  /\ at[2] \subseteq ChainOf(s, b, K) /\ at[1] \in Reached(s, K)
  /\ s \in at[2] \cup {at[1]}
  /\ \A m \in at[2] : b[m] \in at[2] \cup {at[1]}

(* Where it stops for want of a link, it has seen the whole chain. *)
LEMMA ChainSeen ==
  ASSUME NEW b, NEW K, ToSet(K) = LinksOf(b), NEW s \in DOMAIN b,
         NEW at, Walks(at, s, b, K), at[1] \notin DOMAIN b \/ at[1] \in at[2]
  PROVE  at[2] = ChainOf(s, b, K)
<1> DEFINE S == at[2] \cup {at[1]}
<1>1. \A c \in DOMAIN b : <<c, b[c]>> \in ToSet(K)
  BY DEF LinksOf
<1>2. s \in Nodes(K)
  <2>1. <<s, b[s]>>[1] \in Nodes(K)
    BY <1>1, EdgeNodes
  <2> QED
    BY <2>1
<1>3. S \in SUBSET Nodes(K) /\ s \in S
  BY <1>2, ReachedFacts DEF Walks, ChainOf
<1>4. \A e \in ToSet(K) : e[1] \in S => e[2] \in S
  <2> SUFFICES ASSUME NEW e \in ToSet(K), e[1] \in S PROVE e[2] \in S
    OBVIOUS
  <2>1. PICK c \in DOMAIN b : e = <<c, b[c]>>
    BY DEF LinksOf
  <2>2. c \in at[2]
    BY <2>1
  <2> QED
    BY <2>1, <2>2 DEF Walks
<1>5. Reached(s, K) \subseteq S
  <2> HIDE DEF S
  <2> QED
    BY <1>2, <1>3, <1>4, ReachedFacts
<1> QED
  BY <1>5 DEF Walks, ChainOf

(* A step down stays on the chain. *)
LEMMA ChainGrows ==
  ASSUME NEW b, NEW K, ToSet(K) = LinksOf(b), NEW s \in DOMAIN b,
         NEW at, Walks(at, s, b, K), at[1] \in DOMAIN b
  PROVE  Walks(Deeper(b, at), s, b, K)
<1>1. \A c \in DOMAIN b : <<c, b[c]>> \in ToSet(K)
  BY DEF LinksOf
<1>2. s \in Nodes(K)
  <2>1. <<s, b[s]>>[1] \in Nodes(K)
    BY <1>1, EdgeNodes
  <2> QED
    BY <2>1
<1>3. b[at[1]] \in Reached(s, K)
  <2> DEFINE e == <<at[1], b[at[1]]>>
  <2>1. e \in ToSet(K) /\ e[1] \in Reached(s, K) /\ e[2] = b[at[1]]
    BY <1>1 DEF Walks
  <2> HIDE DEF e
  <2>2. e[2] \in Reached(s, K)
    BY <1>2, <2>1, ReachedFacts
  <2> QED
    BY <2>1, <2>2
<1> DEFINE d == Deeper(b, at)
<1>4. d[1] = b[at[1]] /\ d[2] = at[2] \cup {at[1]}
  BY DEF Deeper
<1> HIDE DEF d
<1>5. Walks(d, s, b, K)
  BY <1>3, <1>4 DEF Walks, ChainOf
<1> QED
  BY <1>5 DEF d

(* The depth of a session is the number of sessions on its chain, up to    *)
(* the limit.                                                              *)
LEMMA DepthIsLength ==
  ASSUME NEW N, IsFiniteSet(N), NEW b, Within(b, N), NEW h, Depths(h, b, N),
         NEW K, ToSet(K) = LinksOf(b), NEW s \in DOMAIN b
  PROVE  h[<<s, {}>>] = Min({DepthLimit + 1, Cardinality(ChainOf(s, b, K))})
<1> DEFINE P == N \X SUBSET N
           L == DepthLimit
           C == ChainOf(s, b, K)
           v == Min({L + 1, Cardinality(C)})
           T == {k \in 0..(L + 1) :
                   \A at \in P : Walks(at, s, b, K) /\ Cardinality(at[2]) + k = L + 1
                                   => h[at] = v}
<1>0. L \in Nat /\ L + 1 \in Nat
  BY ReportsAssumption
<1>1. IsFiniteSet(C) /\ Cardinality(C) \in Nat
  <2>1. C \subseteq N
    BY DEF ChainOf, Within
  <2> HIDE DEF C
  <2> QED
    BY <2>1, FS_Subset, FS_CardinalityType
<1>2. v = IF L + 1 <= Cardinality(C) THEN L + 1 ELSE Cardinality(C)
  <2> HIDE DEF L, C
  <2> QED
    BY <1>0, <1>1, SmallerOfTwo
<1>3. \A at \in P : h[at] = IF Stops(b, at) THEN Cardinality(at[2]) ELSE h[Deeper(b, at)]
  BY DEF Depths
<1>4. ASSUME NEW at \in P, Walks(at, s, b, K), Stops(b, at), Cardinality(at[2]) <= L + 1
      PROVE  h[at] = v
  <2> DEFINE c == Cardinality(at[2])
  <2>1. h[at] = c
    BY <1>3, <1>4
  <2>2. c \in Nat
    BY DeeperFacts
  <2>3. CASE at[1] \notin DOMAIN b \/ at[1] \in at[2]
    <3>1. at[2] = C
      BY <1>4, <2>3, ChainSeen
    <3>2. c = Cardinality(C) /\ c <= L + 1
      BY <1>4, <3>1
    <3> HIDE DEF c, C, L, v
    <3> QED
      BY <1>0, <1>2, <2>1, <2>2, <3>2
  <2>4. CASE c > L
    <3>1. at[2] \in SUBSET C
      BY <1>4 DEF Walks
    <3>2. c <= Cardinality(C)
      <4> HIDE DEF C
      <4> QED
        BY <1>1, <3>1, FS_Subset
    <3>3. c <= L + 1
      BY <1>4
    <3> HIDE DEF c, C, L, v
    <3> QED
      BY <1>0, <1>1, <1>2, <2>1, <2>2, <2>4, <3>2, <3>3
  <2> QED
    BY <1>4, <2>3, <2>4 DEF Stops
<1>5. 0 \in T
  <2>1. ASSUME NEW at \in P, Walks(at, s, b, K), Cardinality(at[2]) + 0 = L + 1
        PROVE  h[at] = v
    <3> DEFINE c == Cardinality(at[2])
    <3>1. c \in Nat
      BY DeeperFacts
    <3>2. c > L /\ c <= L + 1
      <4>1. c + 0 = L + 1
        BY <2>1
      <4> HIDE DEF c, L
      <4> QED
        BY <1>0, <3>1, <4>1
    <3>3. Stops(b, at)
      BY <3>2 DEF Stops
    <3> HIDE DEF v
    <3> QED
      BY <1>4, <2>1, <3>2, <3>3
  <2>2. 0 \in 0..(L + 1)
    BY <1>0
  <2> HIDE DEF L, P, v
  <2> QED
    BY <2>1, <2>2
<1>6. ASSUME NEW k \in 1..(L + 1), k - 1 \in T PROVE k \in T
  <2>1. ASSUME NEW at \in P, Walks(at, s, b, K), Cardinality(at[2]) + k = L + 1
        PROVE  h[at] = v
    <3> DEFINE c == Cardinality(at[2])
               d == Deeper(b, at)
    <3>1. c \in Nat /\ c <= L + 1
      <4>1. c \in Nat
        BY DeeperFacts
      <4>2. c + k = L + 1
        BY <2>1
      <4> HIDE DEF c, L
      <4> QED
        BY <1>0, <4>1, <4>2
    <3>2. CASE Stops(b, at)
      <4> HIDE DEF v
      <4> QED
        BY <1>4, <2>1, <3>1, <3>2
    <3>3. CASE ~Stops(b, at)
      <4>1. d \in P /\ Cardinality(d[2]) = c + 1
        BY <3>3, DeeperFacts
      <4>2. Walks(d, s, b, K)
        BY <2>1, <3>3, ChainGrows DEF Stops
      <4>3. h[at] = h[d]
        BY <1>3, <3>3
      <4>4. Cardinality(d[2]) + (k - 1) = L + 1
        <5>1. c + k = L + 1
          BY <2>1
        <5> HIDE DEF c, d, L
        <5> QED
          BY <1>0, <3>1, <4>1, <5>1
      <4> HIDE DEF d, L, P, v
      <4>5. h[d] = v
        BY <1>6, <4>1, <4>2, <4>4
      <4> QED
        BY <4>3, <4>5
    <3> QED
      BY <3>2, <3>3
  <2>2. k \in 0..(L + 1)
    BY <1>0
  <2> HIDE DEF L, P, v
  <2> QED
    BY <2>1, <2>2
<1>7. L + 1 \in T
  <2>1. L + 1 \in 0..(L + 1)
    BY <1>0
  <2>2. \A k \in 1..(L + 1) : k - 1 \in T => k \in T
    BY <1>6
  <2> HIDE DEF T, L
  <2>3. \A k \in 0..(L + 1) : k \in T
    BY <1>0, <1>5, <2>2, InductUpTo
  <2> QED
    BY <2>1, <2>3
<1> DEFINE start == <<s, {}>>
<1>8. start \in P /\ start[1] = s /\ start[2] = {}
  BY DEF Within
<1>9. s \in Reached(s, K)
  <2>1. <<s, b[s]>> \in ToSet(K)
    BY DEF LinksOf
  <2>2. <<s, b[s]>>[1] \in Nodes(K)
    BY <2>1, EdgeNodes
  <2> QED
    BY <2>2, ReachedFacts
<1> HIDE DEF start
<1>10. Walks(start, s, b, K)
  BY <1>8, <1>9 DEF Walks
<1>11. Cardinality(start[2]) + (L + 1) = L + 1
  <2>1. Cardinality(start[2]) = 0
    BY <1>8, FS_EmptySet
  <2> HIDE DEF L
  <2> QED
    BY <1>0, <2>1
<1>12. h[start] = v
  <2> HIDE DEF L, P, v
  <2> QED
    BY <1>7, <1>8, <1>10, <1>11
<1> QED
  BY <1>12 DEF start

(* The depth at which a session is shown is the length of its chain. *)
LEMMA DepthShown ==
  ASSUME NEW E \in Seq(Int \X Int), NEW s \in Nodes(E)
  PROVE  LET blocker == blocking_by_session(E)
             links == SetToSeq({<<c, blocker[c]>> : c \in DOMAIN blocker})
             chain == {m \in DOMAIN blocker : s \in DOMAIN blocker
                                              /\ m \in Reached(s, links)}
         IN  depth_for_session(s, E) = Min({DepthLimit + 1, Cardinality(chain)})
<1> DEFINE b == blocking_by_session(E)
           N == Nodes(E)
           K == SetToSeq(LinksOf(b))
           chain == {m \in DOMAIN b : s \in DOMAIN b /\ m \in Reached(s, K)}
<1>0. DepthLimit \in Nat /\ DepthLimit + 1 \in Nat
  BY ReportsAssumption
<1>1. IsFiniteSet(N) /\ Within(b, N)
  BY NodesFinite, BlockerFacts DEF Within
<1>2. PICK h : Depths(h, b, N) /\ depth_for_session(s, E) = h[<<s, {}>>]
  BY DepthSearch
<1>3. s \in N
  OBVIOUS
<1> HIDE DEF b, N
<1>4. ToSet(K) = LinksOf(b)
  <2>1. IsFiniteSet(DOMAIN b)
    BY <1>1, FS_Subset DEF Within
  <2> DEFINE link == [c \in DOMAIN b |-> <<c, b[c]>>]
  <2>2. LinksOf(b) = {link[c] : c \in DOMAIN b}
    BY DEF LinksOf
  <2> HIDE DEF link
  <2>3. IsFiniteSet(LinksOf(b))
    BY <2>1, <2>2, ImageFinite
  <2> QED
    BY <2>3, SetAsSequence
<1> HIDE DEF K
<1>5. CASE s \in DOMAIN b
  <2>1. chain = ChainOf(s, b, K)
    BY <1>5 DEF ChainOf
  <2>2. h[<<s, {}>>] = Min({DepthLimit + 1, Cardinality(ChainOf(s, b, K))})
    BY <1>1, <1>2, <1>4, <1>5, DepthIsLength
  <2> QED
    BY <1>2, <2>1, <2>2 DEF b, K, LinksOf
<1>6. CASE s \notin DOMAIN b
  <2>1. chain = {}
    BY <1>6
  <2>2. Cardinality(chain) = 0
    BY <2>1, FS_EmptySet
  <2>3. Stops(b, <<s, {}>>) /\ <<s, {}>>[2] = {} /\ <<s, {}>> \in N \X SUBSET N
    BY <1>3, <1>6 DEF Stops
  <2>4. h[<<s, {}>>] = Cardinality({})
    BY <1>2, <2>3 DEF Depths
  <2>5. h[<<s, {}>>] = 0
    BY <2>4, FS_EmptySet
  <2>6. Min({DepthLimit + 1, 0}) = 0
    <3> DEFINE l == DepthLimit + 1
    <3>1. l \in Nat /\ ~(l <= 0)
      BY <1>0
    <3> HIDE DEF l
    <3>2. Min({l, 0}) = 0
      BY <3>1, SmallerOfTwo
    <3> QED
      BY <3>2 DEF l
  <2> QED
    BY <1>2, <2>2, <2>5, <2>6 DEF b, K, LinksOf
<1> QED
  BY <1>5, <1>6

(* Every chain of blocked sessions ends at a head that is listed, in a     *)
(* cycle or at a blocker that is no session, or the list is full and ends  *)
(* before the head of the chain (fetch_sessions_dashboard_data); every     *)
(* session is shown as deep as its chain is long, up to the limit          *)
(* (_html_chain_section._depth_for_session).                               *)
THEOREM RootsAreReached == Spec => []RootsReached
<1>1. ReportsInv => RootsReached
  <2> SUFFICES ASSUME ReportsInv, outcome = "report" PROVE RootsReached
    BY DEF RootsReached
  <2> DEFINE waits == [i \in 1..Len(rows["lock_chains"]) |-> rows["lock_chains"][i].v]
             chains == [i \in 1..Len(rows["blocking_chains"]) |->
                          rows["blocking_chains"][i].v]
             length == [i \in 1..Len(chains) |->
               LET blocker == blocking_by_session(chains)
                   links == SetToSeq({<<c, blocker[c]>> : c \in DOMAIN blocker})
                   chain == {m \in DOMAIN blocker : chains[i][1] \in DOMAIN blocker
                                                    /\ m \in Reached(chains[i][1], links)}
               IN  Min({DepthLimit + 1, Cardinality(chain)})]
  <2>1. \A q \in {"lock_chains", "blocking_chains"} :
          /\ Len(rows[q]) \in Nat
          /\ [i \in 1..Len(rows[q]) |-> rows[q][i].v] \in Seq(Int \X Int)
          /\ Len([i \in 1..Len(rows[q]) |-> rows[q][i].v]) = Len(rows[q])
    <3> SUFFICES ASSUME NEW q \in {"lock_chains", "blocking_chains"}
                 PROVE  /\ Len(rows[q]) \in Nat
                        /\ [i \in 1..Len(rows[q]) |-> rows[q][i].v] \in Seq(Int \X Int)
                        /\ Len([i \in 1..Len(rows[q]) |-> rows[q][i].v]) = Len(rows[q])
      OBVIOUS
    <3>1. q \in ToSet(Queries["sessions_dashboard"]) /\ "sessions_dashboard" \in Tool
      BY DEF ToSet, Queries, Tool
    <3>2. q \in Query
      BY <3>1 DEF Query
    <3>3. rows[q] \in Seq(RowsOf[q])
      BY <3>2 DEF ReportsInv, Delivered
    <3>4. \A i \in 1..Len(rows[q]) : rows[q][i].v \in Int \X Int
      <4>1. \A i \in 1..Len(rows[q]) : rows[q][i] \in RowsOf[q]
        BY <3>3
      <4> QED
        BY <4>1, ReportsAssumption
    <3> DEFINE f == [i \in 1..Len(rows[q]) |-> rows[q][i].v]
               U == Int \X Int
    <3>5. f \in [1..Len(rows[q]) -> U]
      <4> HIDE DEF U
      <4> QED
        BY <3>4 DEF U
    <3>6. Len(rows[q]) \in Nat
      BY <3>3
    <3> HIDE DEF f, U
    <3>7. f \in Seq(U) /\ Len(f) = Len(rows[q])
      BY <3>5, <3>6
    <3> QED
      BY <3>6, <3>7 DEF f, U
  <2>2. /\ waits \in Seq(Int \X Int) /\ chains \in Seq(Int \X Int)
        /\ Len(chains) = Len(rows["blocking_chains"])
    BY <2>1
  <2>3. /\ report.heads = head_blockers(waits)
        /\ report.roots = listed_heads(waits)
        /\ report.depths = [i \in 1..Len(rows["blocking_chains"]) |->
                              depth_for_session(rows["blocking_chains"][i].v[1], chains)]
    BY DEF ReportsInv, Told, Report
  <2>4. ASSUME NEW i \in 1..Len(chains) PROVE report.depths[i] = length[i]
    <3>1. i \in 1..Len(rows["blocking_chains"])
      BY <2>2
    <3>2. chains[i] = rows["blocking_chains"][i].v
      BY <3>1
    <3>3. report.depths[i] = depth_for_session(chains[i][1], chains)
      BY <2>3, <3>1, <3>2
    <3>4. chains[i] \in ToSet(chains)
      <4> HIDE DEF chains
      <4> QED
        BY <2>2 DEF ToSet
    <3> HIDE DEF chains
    <3>5. chains[i][1] \in Nodes(chains)
      BY <3>4, EdgeNodes
    <3>6. depth_for_session(chains[i][1], chains) = length[i]
      BY <2>2, <3>5, DepthShown
    <3> QED
      BY <3>3, <3>6
  <2>5. /\ report.roots \subseteq true_head_blockers(waits)
        /\ Cardinality(report.roots) <= HeadLimit
        /\ \A m \in true_head_blockers(waits) \ report.roots :
             /\ Cardinality(report.roots) = HeadLimit
             /\ \A r \in report.roots : r < m
    <3> HIDE DEF waits
    <3>1. HeadLimit \in Nat
      BY ReportsAssumption
    <3> QED
      BY <2>2, <2>3, <3>1, HeadsListed
  <2>6. report.roots \subseteq report.heads
    BY <2>3, <2>5 DEF true_head_blockers, head_blockers
  <2>7. \A m \in true_head_blockers(waits) : Reached(m, waits) = {m}
    <3> HIDE DEF waits
    <3> QED
      BY <2>2, HeadsWait
  <2>8. ASSUME NEW s \in Blocked(waits)
        PROVE  \/ Reached(s, waits) \cap (report.roots \cup Circular(waits)
                                            \cup {b \in Nodes(waits) : b <= 0}) # {}
               \/ /\ Cardinality(report.roots) = HeadLimit
                  /\ \E m \in Reached(s, waits) :
                       /\ Reached(m, waits) = {m}
                       /\ \A r \in report.roots : r < m
    <3> HIDE DEF waits
    <3>1. PICK m \in Reached(s, waits) :
            m \in true_head_blockers(waits) \cup Circular(waits)
                    \cup {b \in Nodes(waits) : b <= 0}
      BY <2>2, ChainsEnd
    <3>2. CASE m \in true_head_blockers(waits) \ report.roots
      BY <2>5, <2>7, <3>2
    <3>3. CASE m \notin true_head_blockers(waits) \ report.roots
      BY <3>1, <3>3
    <3> QED
      BY <3>2, <3>3
  <2>9. \A s \in report.roots : Reached(s, waits) = {s}
    BY <2>5, <2>7
  <2> QED
    BY <2>4, <2>5, <2>6, <2>8, <2>9 DEF RootsReached
<1> QED
  BY <1>1, ReportsInvariance, PTL

(* The queries that are named in the findings *)
LEMMA QueriesHave ==
  /\ Single \subseteq Query /\ "objects" \in Query
  /\ {"fragmented", "missing_pk", "stale", "never_updated", "low_sampled", "settings",
      "coverage", "histogram"} \subseteq Query
  /\ {"fk", "missing_index", "missing_fk", "redundant", "unused", "overlap",
      "update_heavy", "soft_delete", "heap", "datatype"} \subseteq Query
  /\ {"orphan", "elevated", "xp_cmdshell"} \subseteq Query
  /\ {"query_store", "dmv", "objects"} \subseteq Query
<1>1. \A t \in Tool : ToSet(Queries[t]) \subseteq Query
  BY DEF Query
<1>2. /\ "analyze_tab_health" \in Tool /\ "analyze_db_data_model" \in Tool
      /\ "analyze_sec_config" \in Tool /\ "top_statements" \in Tool
  BY DEF Tool, Queries
<1>3. {"fragmented", "missing_pk", "stale", "never_updated", "low_sampled", "settings",
       "coverage", "histogram"} \subseteq ToSet(Queries["analyze_tab_health"])
  BY DEF ToSet, Queries
<1>4. {"fk", "missing_index", "missing_fk", "redundant", "unused", "overlap",
       "update_heavy", "soft_delete", "heap", "datatype"}
        \subseteq ToSet(Queries["analyze_db_data_model"])
  BY DEF ToSet, Queries
<1>5. {"orphan", "elevated", "xp_cmdshell"} \subseteq ToSet(Queries["analyze_sec_config"])
  BY DEF ToSet, Queries
<1>6. {"query_store", "dmv", "objects"} \subseteq ToSet(Queries["top_statements"])
  BY DEF ToSet, Queries
<1> QED
  BY <1>1, <1>2, <1>3, <1>4, <1>5, <1>6 DEF Single

-----------------------------------------------------------------------------
(* Findings and rows *)

(* The rows as they were read: a query of one row delivers no more, and    *)
(* the objects come in order.  A report holds what could be built.         *)
AsRead ==
  /\ \A q \in Single : Len(rows[q]) <= 1
  /\ Ordered("objects", rows["objects"])

Built == outcome = "report" => \A f \in report.findings : build_finding(f)

LEMMA ReadInOrder == Spec => [](AsRead /\ Built)
<1>1. Init => AsRead /\ Built
  <2> SUFFICES ASSUME Init PROVE AsRead /\ Built
    OBVIOUS
  <2>1. \A q \in Query : rows[q] = <<>>
    BY DEF Init
  <2>2. Single \subseteq Query /\ "objects" \in Query
    BY QueriesHave
  <2>3. AsRead
    <3>1. Len(<<>>) = 0
      OBVIOUS
    <3>2. \A q \in Single : Len(rows[q]) <= 1
      BY <2>1, <2>2, <3>1
    <3>3. Ordered("objects", <<>>)
      BY <3>1 DEF Ordered
    <3> QED
      BY <2>1, <2>2, <3>2, <3>3 DEF AsRead
  <2> QED
    BY <2>3 DEF Init, Built
<1>2. ReportsInv /\ AsRead /\ Built /\ [Next]_vars => (AsRead /\ Built)'
  <2> SUFFICES ASSUME ReportsInv, AsRead, Built, [Next]_vars PROVE (AsRead /\ Built)'
    OBVIOUS
  <2>0. Single \subseteq Query /\ "objects" \in Query
    BY QueriesHave
  <2>1. CASE Skip
    BY <2>1 DEF Skip, Reading, AsRead, Built
  <2>2. CASE Read
    <3>1. PICK n \in 0..Room : \E s \in [1..n -> RowsOf[query]] :
            /\ query \in Single => n <= 1
            /\ Ordered(query, s)
            /\ rows' = [rows EXCEPT ![query] = s]
      BY <2>2 DEF Read
    <3>2. PICK s \in [1..n -> RowsOf[query]] :
            /\ query \in Single => n <= 1
            /\ Ordered(query, s)
            /\ rows' = [rows EXCEPT ![query] = s]
      BY <3>1
    <3>3. \A q \in Query : rows'[q] = IF q = query THEN s ELSE rows[q]
      BY <3>2 DEF ReportsInv, Delivered
    <3>4. Len(s) = n
      BY <3>1, <3>2
    <3>5. AsRead'
      <4>1. \A q \in Single : Len(rows'[q]) <= 1
        BY <2>0, <3>2, <3>3, <3>4 DEF AsRead
      <4>2. Ordered("objects", rows'["objects"])
        BY <2>0, <3>2, <3>3 DEF AsRead
      <4> QED
        BY <4>1, <4>2 DEF AsRead, Ordered
    <3> QED
      BY <2>2, <3>5 DEF Read, Reading, Built
  <2>3. CASE FailCaught
    BY <2>3 DEF FailCaught, Reading, AsRead, Built
  <2>4. CASE FailRaised
    BY <2>4 DEF FailRaised, AsRead, Built
  <2>5. CASE Finish
    <3>1. AsRead'
      BY <2>5 DEF Finish, AsRead
    <3>2. Built'
      <4>1. ASSUME outcome' = "report"
            PROVE  report' = Report /\ \A f \in Report.findings : build_finding(f)
        <5>1. outcome # "report"
          BY <2>5 DEF Finish
        <5> QED
          BY <2>5, <4>1 DEF Finish
      <4> QED
        BY <4>1 DEF Built, build_finding
    <3> QED
      BY <3>1, <3>2
  <2>6. CASE Done \/ UNCHANGED vars
    BY <2>6 DEF Done, vars, AsRead, Built
  <2> QED
    BY <2>1, <2>2, <2>3, <2>4, <2>5, <2>6 DEF Next
<1> QED
  BY <1>1, <1>2, ReportsInvariance, PTL DEF Spec

(* Rows that the queries may deliver, in the order in which they do *)
RowsOk(R) ==
  /\ \A q \in Query : R[q] \in Seq(RowsOf[q])
  /\ \A q \in Single : Len(R[q]) <= 1
  /\ Ordered("objects", R["objects"])

(* One row of one query *)
Only(q, r) == [x \in Query |-> IF x = q THEN <<r>> ELSE <<>>]

LEMMA OnlyFacts ==
  ASSUME NEW q \in Query, NEW r \in RowsOf[q]
  PROVE  /\ RowsOk(Only(q, r))
         /\ \A x \in Query : ToSet(Only(q, r)[x]) = IF x = q THEN {r} ELSE {}
         /\ Only(q, r)[q] = <<r>>
         /\ \A x \in Query : x # q => Only(q, r)[x] = <<>>
<1>1. Only(q, r)[q] = <<r>> /\ \A x \in Query : x # q => Only(q, r)[x] = <<>>
  BY DEF Only
<1>2. ToSet(<<r>>) = {r} /\ ToSet(<<>>) = {}
  BY DEF ToSet
<1>3. Len(<<r>>) = 1 /\ Len(<<>>) = 0 /\ <<r>> \in Seq(RowsOf[q]) /\ \A S : <<>> \in Seq(S)
  <2> DEFINE S == RowsOf[q]
  <2>1. r \in S
    OBVIOUS
  <2> HIDE DEF S
  <2>2. <<r>> \in Seq(S)
    BY <2>1
  <2>3. Len(<<r>>) = 1 /\ Len(<<>>) = 0 /\ \A Z : <<>> \in Seq(Z)
    OBVIOUS
  <2> QED
    BY <2>2, <2>3 DEF S
<1>4. \A x \in Query : Len(Only(q, r)[x]) \in {0, 1}
  BY <1>1, <1>3
<1>5. Ordered("objects", Only(q, r)["objects"])
  <2>1. Len(Only(q, r)["objects"]) \in {0, 1}
    BY <1>4, QueriesHave
  <2>2. \A n \in {0, 1} : 1..(n - 1) = {}
    OBVIOUS
  <2>3. 1..(Len(Only(q, r)["objects"]) - 1) = {}
    BY <2>1, <2>2
  <2> QED
    BY <2>3 DEF Ordered
<1>6. RowsOk(Only(q, r))
  <2>1. \A x \in Query : Only(q, r)[x] \in Seq(RowsOf[x])
    BY <1>1, <1>3
  <2>2. \A x \in Single : Len(Only(q, r)[x]) <= 1
    <3>1. \A m \in {0, 1} : m <= 1
      OBVIOUS
    <3>2. Single \subseteq Query
      BY QueriesHave
    <3> QED
      BY <1>4, <3>1, <3>2
  <2> QED
    BY <1>5, <2>1, <2>2 DEF RowsOk
<1> QED
  BY <1>1, <1>2, <1>6

(* A kind of finding that is decided row by row: the queries it is about,  *)
(* the rows that make it, and those that make it severe                    *)
IsKind(d) ==
  /\ d.of \subseteq Query /\ d.severe \subseteq d.hits
  /\ d.low \in DOMAIN Rank /\ d.high \in DOMAIN Rank /\ Rank[d.low] <= Rank[d.high]

Hit(R, Q, H) == \E q \in Q : \E r \in ToSet(R[q]) : r \in H

Graded(R, d) ==
  When(Hit(R, d.of, d.hits), d.code, IF Hit(R, d.of, d.severe) THEN d.high ELSE d.low)

LEMMA RanksAreNumbers == \A s \in DOMAIN Rank : Rank[s] \in 0..5
BY DEF Rank

(* Such a finding is one that a row of these would be given alone. *)
LEMMA GradedAlone ==
  ASSUME NEW d, IsKind(d), NEW R, RowsOk(R), NEW f \in Graded(R, d)
  PROVE  \E q \in Query : \E r \in ToSet(R[q]) : f \in Graded(Only(q, r), d)
<1>1. /\ Hit(R, d.of, d.hits)
      /\ f = [code |-> d.code, severity |-> IF Hit(R, d.of, d.severe) THEN d.high ELSE d.low]
  BY DEF Graded, When
<1>2. \E q \in d.of : \E r \in ToSet(R[q]) :
        r \in d.hits /\ (Hit(R, d.of, d.severe) => r \in d.severe)
  <2>1. CASE Hit(R, d.of, d.severe)
    BY <2>1 DEF Hit, IsKind
  <2>2. CASE ~Hit(R, d.of, d.severe)
    BY <1>1, <2>2 DEF Hit
  <2> QED
    BY <2>1, <2>2
<1>3. PICK q \in d.of : \E r \in ToSet(R[q]) :
        r \in d.hits /\ (Hit(R, d.of, d.severe) => r \in d.severe)
  BY <1>2
<1>4. PICK r \in ToSet(R[q]) :
        r \in d.hits /\ (Hit(R, d.of, d.severe) => r \in d.severe)
  BY <1>3
<1>5. q \in Query /\ r \in RowsOf[q]
  BY DEF IsKind, RowsOk, ToSet
<1>6. \A x \in d.of : ToSet(Only(q, r)[x]) = IF x = q THEN {r} ELSE {}
  BY <1>5, OnlyFacts DEF IsKind
<1>7. Hit(Only(q, r), d.of, d.hits)
  BY <1>4, <1>6 DEF Hit
<1>8. Hit(Only(q, r), d.of, d.severe) <=> Hit(R, d.of, d.severe)
  <2>1. Hit(Only(q, r), d.of, d.severe) <=> r \in d.severe
    BY <1>6 DEF Hit
  <2>2. r \in d.severe => Hit(R, d.of, d.severe)
    BY DEF Hit
  <2> QED
    BY <1>4, <2>1, <2>2
<1>9. f \in Graded(Only(q, r), d)
  BY <1>1, <1>7, <1>8 DEF Graded, When
<1> QED
  BY <1>5, <1>9

(* A finding that a row would be given alone is among the findings, at     *)
(* least as severe.                                                        *)
Covers(F, g) ==
  \E f \in F : f.code = g.code /\ Rank[g.severity] <= Rank[f.severity]

LEMMA GradedTogether ==
  ASSUME NEW d, IsKind(d), NEW R, RowsOk(R), NEW q \in Query, NEW r \in ToSet(R[q]),
         NEW g \in Graded(Only(q, r), d)
  PROVE  Covers(Graded(R, d), g)
<1>1. /\ Hit(Only(q, r), d.of, d.hits)
      /\ g = [code |-> d.code,
              severity |-> IF Hit(Only(q, r), d.of, d.severe) THEN d.high ELSE d.low]
  BY DEF Graded, When
<1>2. r \in RowsOf[q]
  BY DEF RowsOk, ToSet
<1>3. \A x \in d.of : ToSet(Only(q, r)[x]) = IF x = q THEN {r} ELSE {}
  BY <1>2, OnlyFacts DEF IsKind
<1>4. q \in d.of /\ r \in d.hits
  BY <1>1, <1>3 DEF Hit
<1>5. Hit(R, d.of, d.hits)
  BY <1>4 DEF Hit
<1>6. Hit(Only(q, r), d.of, d.severe) => Hit(R, d.of, d.severe)
  <2>1. Hit(Only(q, r), d.of, d.severe) => r \in d.severe
    BY <1>3 DEF Hit
  <2> QED
    BY <1>4, <2>1 DEF Hit
<1> DEFINE f == [code |-> d.code,
                 severity |-> IF Hit(R, d.of, d.severe) THEN d.high ELSE d.low]
<1>7. f \in Graded(R, d)
  BY <1>5 DEF Graded, When
<1>8. Rank[d.low] \in Int /\ Rank[d.high] \in Int /\ Rank[d.low] <= Rank[d.high]
  BY RanksAreNumbers DEF IsKind
<1>9. f.code = g.code /\ Rank[g.severity] <= Rank[f.severity]
  BY <1>1, <1>6, <1>8
<1> QED
  BY <1>7, <1>9 DEF Covers

(* Kinds of findings: a query that delivers rows at all, and one whose rows *)
(* may be worse                                                            *)
There(q, code, severity) ==
  [of |-> {q}, code |-> code, hits |-> RowsOf[q], severe |-> {},
   low |-> severity, high |-> severity]

Kind(Q, code, hits, severe, low, high) ==
  [of |-> Q, code |-> code, hits |-> hits, severe |-> severe, low |-> low, high |-> high]

LEMMA KindFacts ==
  ASSUME NEW Q \in SUBSET Query, NEW code, NEW hits, NEW severe \in SUBSET hits,
         NEW low \in DOMAIN Rank, NEW high \in DOMAIN Rank, Rank[low] <= Rank[high]
  PROVE  /\ IsKind(Kind(Q, code, hits, severe, low, high))
         /\ \A R : Graded(R, Kind(Q, code, hits, severe, low, high)) =
                     When(Hit(R, Q, hits), code, IF Hit(R, Q, severe) THEN high ELSE low)
<1>1. IsKind(Kind(Q, code, hits, severe, low, high))
  BY DEF IsKind, Kind
<1>2. ASSUME NEW R
      PROVE  Graded(R, Kind(Q, code, hits, severe, low, high)) =
               When(Hit(R, Q, hits), code, IF Hit(R, Q, severe) THEN high ELSE low)
  BY DEF Graded, Kind
<1> QED
  BY <1>1, <1>2

LEMMA ThereFacts ==
  ASSUME NEW q \in Query, NEW code, NEW severity \in DOMAIN Rank
  PROVE  /\ IsKind(There(q, code, severity))
         /\ \A R : RowsOk(R) => Graded(R, There(q, code, severity)) =
                                  When(R[q] # <<>>, code, severity)
<1>1. Rank[severity] \in Int
  BY RanksAreNumbers
<1>2. IsKind(There(q, code, severity))
  BY <1>1 DEF IsKind, There
<1>3. ASSUME NEW R, RowsOk(R)
      PROVE  Graded(R, There(q, code, severity)) = When(R[q] # <<>>, code, severity)
  <2>1. R[q] \in Seq(RowsOf[q])
    BY <1>3 DEF RowsOk
  <2>2. Hit(R, {q}, RowsOf[q]) <=> R[q] # <<>>
    <3>1. ToSet(R[q]) = {R[q][i] : i \in 1..Len(R[q])}
      BY <2>1 DEF ToSet
    <3>2. R[q] # <<>> => 1 \in 1..Len(R[q]) /\ R[q][1] \in RowsOf[q]
      BY <2>1
    <3>3. R[q] = <<>> => 1..Len(R[q]) = {}
      OBVIOUS
    <3> QED
      BY <3>1, <3>2, <3>3 DEF Hit
  <2>3. ~Hit(R, {q}, {})
    BY DEF Hit
  <2> QED
    BY <2>2, <2>3 DEF Graded, There, When
<1> QED
  BY <1>2, <1>3

(* The findings of the tools, kind by kind *)
HealthKinds ==
  {There("fragmented", "FRAGMENTED_INDEXES", "high"),
   There("missing_pk", "MISSING_PRIMARY_KEY", "medium"),
   Kind({"stale"}, "STALE_STATISTICS",
        {r \in RowsOf["stale"] : classify_stale_statistics_row(r.v) # "none"},
        {r \in RowsOf["stale"] : classify_stale_statistics_row(r.v) = "high"},
        "medium", "high"),
   Kind({"never_updated"}, "STATS_NEVER_UPDATED", RowsOf["never_updated"],
        {r \in RowsOf["never_updated"] : r.v >= STATS_MIN_ROWS_HIGH_SEVERITY},
        "medium", "high"),
   Kind({"low_sampled"}, "STATS_LOW_SAMPLE_RATIO",
        {r \in RowsOf["low_sampled"] : classify_low_sample_statistics_row(r.v) # "none"},
        {r \in RowsOf["low_sampled"] : classify_low_sample_statistics_row(r.v) = "high"},
        "medium", "high"),
   Kind({"settings"}, "STATS_AUTO_SETTINGS_DISABLED",
        {r \in RowsOf["settings"] : ~r.v.create \/ ~r.v.update},
        {r \in RowsOf["settings"] : ~r.v.update}, "medium", "high"),
   Kind({"coverage"}, "STATS_COVERAGE_HEURISTIC", RowsOf["coverage"],
        {r \in RowsOf["coverage"] : r.v >= STATS_MIN_ROWS_HIGH_SEVERITY},
        "medium", "high"),
   Kind({"histogram"}, "STATS_HISTOGRAM_SKEW",
        {r \in RowsOf["histogram"] : Skewed(r.v)}, {}, "medium", "medium")}

(* The rows of a query that delivers any *)
LEMMA SomeRow ==
  ASSUME NEW R, RowsOk(R), NEW q \in Query
  PROVE  /\ R[q] # <<>> <=> Hit(R, {q}, RowsOf[q])
         /\ \A r \in ToSet(R[q]) : r \in RowsOf[q]
         /\ R[q] # <<>> => 1 \in 1..Len(R[q]) /\ R[q][1] \in ToSet(R[q])
         /\ R[q] = <<>> => ToSet(R[q]) = {}
         /\ ~Hit(R, {q}, {})
<1>1. R[q] \in Seq(RowsOf[q])
  BY DEF RowsOk
<1>2. ToSet(R[q]) = {R[q][i] : i \in 1..Len(R[q])}
  BY <1>1 DEF ToSet
<1>3. R[q] # <<>> => 1 \in 1..Len(R[q]) /\ R[q][1] \in RowsOf[q]
  BY <1>1
<1>4. R[q] = <<>> => 1..Len(R[q]) = {}
  OBVIOUS
<1>5. \A r \in ToSet(R[q]) : r \in RowsOf[q]
  BY <1>1, <1>2
<1> QED
  BY <1>2, <1>3, <1>4, <1>5 DEF Hit

LEMMA RanksGrow ==
  /\ \A s \in {"none", "info", "low", "medium", "high", "critical"} : s \in DOMAIN Rank
  /\ Rank["medium"] <= Rank["high"] /\ Rank["medium"] <= Rank["medium"]
  /\ Rank["low"] <= Rank["low"] /\ Rank["high"] <= Rank["high"]
  /\ Rank["critical"] <= Rank["critical"] /\ Rank["low"] <= Rank["medium"]
BY DEF Rank

(* A database setting: it delivers one row at most. *)
LEMMA SettingsHit ==
  ASSUME NEW R, RowsOk(R)
  PROVE  /\ ~Settings(R).create \/ ~Settings(R).update <=>
              Hit(R, {"settings"}, {r \in RowsOf["settings"] : ~r.v.create \/ ~r.v.update})
         /\ ~Settings(R).update <=>
              Hit(R, {"settings"}, {r \in RowsOf["settings"] : ~r.v.update})
<1>1. "settings" \in Query /\ "settings" \in Single
  BY QueriesHave DEF Single
<1>2. CASE R["settings"] = <<>>
  <2>1. ToSet(R["settings"]) = {}
    BY <1>1, <1>2, SomeRow
  <2>2. Settings(R).create /\ Settings(R).update
    BY <1>2 DEF Settings
  <2> QED
    BY <2>1, <2>2 DEF Hit
<1>3. CASE R["settings"] # <<>>
  <2>1. Len(R["settings"]) = 1 /\ R["settings"] \in Seq(RowsOf["settings"])
    <3> DEFINE t == R["settings"]
               S == RowsOf["settings"]
    <3>1. t \in Seq(S) /\ Len(t) <= 1
      BY <1>1 DEF RowsOk
    <3>2. 1 \in 1..Len(t)
      BY <1>1, <1>3, SomeRow
    <3> HIDE DEF t, S
    <3>3. Len(t) \in Nat
      BY <3>1
    <3>4. Len(t) = 1
      <4>1. \A m \in Nat : m <= 1 /\ 1 \in 1..m => m = 1
        OBVIOUS
      <4> QED
        BY <3>1, <3>2, <3>3, <4>1
    <3> QED
      BY <3>1, <3>4 DEF t, S
  <2>2. ToSet(R["settings"]) = {R["settings"][1]}
    <3>1. 1..1 = {1}
      OBVIOUS
    <3>2. ToSet(R["settings"]) = {R["settings"][i] : i \in 1..1}
      BY <2>1 DEF ToSet
    <3> QED
      BY <3>1, <3>2
  <2>3. Settings(R) = R["settings"][1].v /\ R["settings"][1] \in RowsOf["settings"]
    BY <1>1, <1>3, SomeRow DEF Settings
  <2> QED
    BY <2>2, <2>3 DEF Hit
<1> QED
  BY <1>2, <1>3

LEMMA HealthIsKinds ==
  /\ \A d \in HealthKinds : IsKind(d)
  /\ \A R : RowsOk(R) => tab_health(R) = UNION {Graded(R, d) : d \in HealthKinds}
<1> DEFINE
  Sub(q, P) == P \subseteq RowsOf[q]
  k1 == There("fragmented", "FRAGMENTED_INDEXES", "high")
  k2 == There("missing_pk", "MISSING_PRIMARY_KEY", "medium")
  h3 == {r \in RowsOf["stale"] : classify_stale_statistics_row(r.v) # "none"}
  s3 == {r \in RowsOf["stale"] : classify_stale_statistics_row(r.v) = "high"}
  k3 == Kind({"stale"}, "STALE_STATISTICS", h3, s3, "medium", "high")
  s4 == {r \in RowsOf["never_updated"] : r.v >= STATS_MIN_ROWS_HIGH_SEVERITY}
  k4 == Kind({"never_updated"}, "STATS_NEVER_UPDATED", RowsOf["never_updated"], s4,
             "medium", "high")
  h5 == {r \in RowsOf["low_sampled"] : classify_low_sample_statistics_row(r.v) # "none"}
  s5 == {r \in RowsOf["low_sampled"] : classify_low_sample_statistics_row(r.v) = "high"}
  k5 == Kind({"low_sampled"}, "STATS_LOW_SAMPLE_RATIO", h5, s5, "medium", "high")
  h6 == {r \in RowsOf["settings"] : ~r.v.create \/ ~r.v.update}
  s6 == {r \in RowsOf["settings"] : ~r.v.update}
  k6 == Kind({"settings"}, "STATS_AUTO_SETTINGS_DISABLED", h6, s6, "medium", "high")
  s7 == {r \in RowsOf["coverage"] : r.v >= STATS_MIN_ROWS_HIGH_SEVERITY}
  k7 == Kind({"coverage"}, "STATS_COVERAGE_HEURISTIC", RowsOf["coverage"], s7,
             "medium", "high")
  h8 == {r \in RowsOf["histogram"] : Skewed(r.v)}
  k8 == Kind({"histogram"}, "STATS_HISTOGRAM_SKEW", h8, {}, "medium", "medium")
<1>0. HealthKinds = {k1, k2, k3, k4, k5, k6, k7, k8}
  BY DEF HealthKinds
<1>1. IsKind(k1) /\ IsKind(k2)
  BY ThereFacts, QueriesHave, RanksGrow
<1>2. /\ s3 \in SUBSET h3 /\ s4 \in SUBSET RowsOf["never_updated"] /\ s5 \in SUBSET h5
      /\ s6 \in SUBSET h6 /\ s7 \in SUBSET RowsOf["coverage"]
  <2>1. "high" # "none"
    OBVIOUS
  <2> QED
    BY <2>1
<1>3. /\ {"stale"} \in SUBSET Query /\ {"never_updated"} \in SUBSET Query
      /\ {"low_sampled"} \in SUBSET Query /\ {"settings"} \in SUBSET Query
      /\ {"coverage"} \in SUBSET Query /\ {"histogram"} \in SUBSET Query
      /\ "medium" \in DOMAIN Rank /\ "high" \in DOMAIN Rank
      /\ Rank["medium"] <= Rank["high"] /\ Rank["medium"] <= Rank["medium"]
  BY QueriesHave, RanksGrow
<1> HIDE DEF h3, s3, s4, h5, s5, h6, s6, s7, h8
<1>4. IsKind(k3) /\ IsKind(k4)
  BY <1>2, <1>3, KindFacts
<1>5. IsKind(k5) /\ IsKind(k6)
  BY <1>2, <1>3, KindFacts
<1>6. IsKind(k7) /\ IsKind(k8)
  BY <1>2, <1>3, KindFacts
<1>7. ASSUME NEW R, RowsOk(R)
      PROVE  tab_health(R) = UNION {Graded(R, d) : d \in HealthKinds}
  <2>1. /\ Graded(R, k1) = When(R["fragmented"] # <<>>, "FRAGMENTED_INDEXES", "high")
        /\ Graded(R, k2) = When(R["missing_pk"] # <<>>, "MISSING_PRIMARY_KEY", "medium")
    BY <1>7, ThereFacts, QueriesHave, RanksGrow
  <2>2. Graded(R, k3) = When(StaleGrades(R) \ {"none"} # {}, "STALE_STATISTICS",
                             HighIf("high" \in StaleGrades(R)))
    <3>1. Graded(R, k3) = When(Hit(R, {"stale"}, h3), "STALE_STATISTICS",
                               IF Hit(R, {"stale"}, s3) THEN "high" ELSE "medium")
      BY <1>2, <1>3, KindFacts
    <3>2. \A r \in ToSet(R["stale"]) : r \in RowsOf["stale"]
      BY <1>7, SomeRow, QueriesHave
    <3>3. StaleGrades(R) \ {"none"} # {} <=> Hit(R, {"stale"}, h3)
      BY <3>2 DEF StaleGrades, Values, Hit, h3
    <3>4. "high" \in StaleGrades(R) <=> Hit(R, {"stale"}, s3)
      BY <3>2 DEF StaleGrades, Values, Hit, s3
    <3> QED
      BY <3>1, <3>3, <3>4 DEF When, HighIf
  <2>3. Graded(R, k4) = When(R["never_updated"] # <<>>, "STATS_NEVER_UPDATED",
                             HighIf(Large(R, "never_updated")))
    <3>1. Graded(R, k4) = When(Hit(R, {"never_updated"}, RowsOf["never_updated"]),
                               "STATS_NEVER_UPDATED",
                               IF Hit(R, {"never_updated"}, s4) THEN "high" ELSE "medium")
      BY <1>2, <1>3, KindFacts
    <3>2. /\ \A r \in ToSet(R["never_updated"]) : r \in RowsOf["never_updated"]
          /\ R["never_updated"] # <<>> <=> Hit(R, {"never_updated"}, RowsOf["never_updated"])
      BY <1>7, SomeRow, QueriesHave
    <3>3. Large(R, "never_updated") <=> Hit(R, {"never_updated"}, s4)
      BY <3>2 DEF Large, Values, Hit, s4
    <3> QED
      BY <3>1, <3>2, <3>3 DEF When, HighIf
  <2>4. Graded(R, k5) = When(SampleGrades(R) \ {"none"} # {}, "STATS_LOW_SAMPLE_RATIO",
                             HighIf("high" \in SampleGrades(R)))
    <3>1. Graded(R, k5) = When(Hit(R, {"low_sampled"}, h5), "STATS_LOW_SAMPLE_RATIO",
                               IF Hit(R, {"low_sampled"}, s5) THEN "high" ELSE "medium")
      BY <1>2, <1>3, KindFacts
    <3>2. \A r \in ToSet(R["low_sampled"]) : r \in RowsOf["low_sampled"]
      BY <1>7, SomeRow, QueriesHave
    <3>3. SampleGrades(R) \ {"none"} # {} <=> Hit(R, {"low_sampled"}, h5)
      BY <3>2 DEF SampleGrades, Values, Hit, h5
    <3>4. "high" \in SampleGrades(R) <=> Hit(R, {"low_sampled"}, s5)
      BY <3>2 DEF SampleGrades, Values, Hit, s5
    <3> QED
      BY <3>1, <3>3, <3>4 DEF When, HighIf
  <2>5. Graded(R, k6) = When(~Settings(R).create \/ ~Settings(R).update,
                             "STATS_AUTO_SETTINGS_DISABLED", HighIf(~Settings(R).update))
    <3>1. Graded(R, k6) = When(Hit(R, {"settings"}, h6), "STATS_AUTO_SETTINGS_DISABLED",
                               IF Hit(R, {"settings"}, s6) THEN "high" ELSE "medium")
      BY <1>2, <1>3, KindFacts
    <3>2. /\ (~Settings(R).create \/ ~Settings(R).update) <=> Hit(R, {"settings"}, h6)
          /\ ~Settings(R).update <=> Hit(R, {"settings"}, s6)
      BY <1>7, SettingsHit DEF h6, s6
    <3> QED
      BY <3>1, <3>2 DEF When, HighIf
  <2>6. Graded(R, k7) = When(R["coverage"] # <<>>, "STATS_COVERAGE_HEURISTIC",
                             HighIf(Large(R, "coverage")))
    <3>1. Graded(R, k7) = When(Hit(R, {"coverage"}, RowsOf["coverage"]),
                               "STATS_COVERAGE_HEURISTIC",
                               IF Hit(R, {"coverage"}, s7) THEN "high" ELSE "medium")
      BY <1>2, <1>3, KindFacts
    <3>2. /\ \A r \in ToSet(R["coverage"]) : r \in RowsOf["coverage"]
          /\ R["coverage"] # <<>> <=> Hit(R, {"coverage"}, RowsOf["coverage"])
      BY <1>7, SomeRow, QueriesHave
    <3>3. Large(R, "coverage") <=> Hit(R, {"coverage"}, s7)
      BY <3>2 DEF Large, Values, Hit, s7
    <3> QED
      BY <3>1, <3>2, <3>3 DEF When, HighIf
  <2>7. Graded(R, k8) = When(\E h \in Values(R, "histogram") : Skewed(h),
                             "STATS_HISTOGRAM_SKEW", "medium")
    <3>1. Graded(R, k8) = When(Hit(R, {"histogram"}, h8), "STATS_HISTOGRAM_SKEW",
                               IF Hit(R, {"histogram"}, {}) THEN "medium" ELSE "medium")
      BY <1>3, KindFacts
    <3>2. \A r \in ToSet(R["histogram"]) : r \in RowsOf["histogram"]
      BY <1>7, SomeRow, QueriesHave
    <3>3. (\E h \in Values(R, "histogram") : Skewed(h)) <=> Hit(R, {"histogram"}, h8)
      BY <3>2 DEF Values, Hit, h8
    <3> QED
      BY <3>1, <3>3 DEF When
  <2> HIDE DEF k1, k2, k3, k4, k5, k6, k7, k8
  <2>8. UNION {Graded(R, d) : d \in {k1, k2, k3, k4, k5, k6, k7, k8}} =
          Graded(R, k1) \cup Graded(R, k2) \cup Graded(R, k3) \cup Graded(R, k4)
          \cup Graded(R, k5) \cup Graded(R, k6) \cup Graded(R, k7) \cup Graded(R, k8)
    OBVIOUS
  <2> QED
    BY <1>0, <2>1, <2>2, <2>3, <2>4, <2>5, <2>6, <2>7, <2>8 DEF tab_health
<1> QED
  BY <1>0, <1>1, <1>4, <1>5, <1>6, <1>7

SecurityKinds ==
  {There("orphan", "ORPHAN_USERS", "medium"),
   There("elevated", "ELEVATED_ROLE_MEMBERS", "high"),
   Kind({"xp_cmdshell"}, "XP_CMDSHELL_ENABLED",
        {r \in RowsOf["xp_cmdshell"] : r.v = 1}, {}, "critical", "critical")}

LEMMA SecurityIsKinds ==
  /\ \A d \in SecurityKinds : IsKind(d)
  /\ \A R : RowsOk(R) => sec_config(R) = UNION {Graded(R, d) : d \in SecurityKinds}
<1> DEFINE
  k1 == There("orphan", "ORPHAN_USERS", "medium")
  k2 == There("elevated", "ELEVATED_ROLE_MEMBERS", "high")
  h3 == {r \in RowsOf["xp_cmdshell"] : r.v = 1}
  k3 == Kind({"xp_cmdshell"}, "XP_CMDSHELL_ENABLED", h3, {}, "critical", "critical")
<1>0. SecurityKinds = {k1, k2, k3}
  BY DEF SecurityKinds
<1>1. IsKind(k1) /\ IsKind(k2)
  BY ThereFacts, QueriesHave, RanksGrow
<1> HIDE DEF h3
<1>2. /\ {"xp_cmdshell"} \in SUBSET Query /\ {} \in SUBSET h3 /\ "critical" \in DOMAIN Rank
      /\ Rank["critical"] <= Rank["critical"]
  BY QueriesHave, RanksGrow
<1>3. IsKind(k3)
  BY <1>2, KindFacts
<1>4. ASSUME NEW R, RowsOk(R)
      PROVE  sec_config(R) = UNION {Graded(R, d) : d \in SecurityKinds}
  <2>1. /\ Graded(R, k1) = When(R["orphan"] # <<>>, "ORPHAN_USERS", "medium")
        /\ Graded(R, k2) = When(R["elevated"] # <<>>, "ELEVATED_ROLE_MEMBERS", "high")
    BY <1>4, ThereFacts, QueriesHave, RanksGrow
  <2>2. Graded(R, k3) = When(1 \in Values(R, "xp_cmdshell"), "XP_CMDSHELL_ENABLED",
                             "critical")
    <3>1. Graded(R, k3) = When(Hit(R, {"xp_cmdshell"}, h3), "XP_CMDSHELL_ENABLED",
                               IF Hit(R, {"xp_cmdshell"}, {}) THEN "critical"
                                                              ELSE "critical")
      BY <1>2, KindFacts
    <3>2. \A r \in ToSet(R["xp_cmdshell"]) : r \in RowsOf["xp_cmdshell"]
      BY <1>4, SomeRow, QueriesHave
    <3>3. 1 \in Values(R, "xp_cmdshell") <=> Hit(R, {"xp_cmdshell"}, h3)
      BY <3>2 DEF Values, Hit, h3
    <3> QED
      BY <3>1, <3>3 DEF When
  <2> HIDE DEF k1, k2, k3
  <2>3. UNION {Graded(R, d) : d \in {k1, k2, k3}} =
          Graded(R, k1) \cup Graded(R, k2) \cup Graded(R, k3)
    OBVIOUS
  <2> QED
    BY <1>0, <2>1, <2>2, <2>3 DEF sec_config
<1> QED
  BY <1>0, <1>1, <1>3, <1>4

(* The findings of the data model, but for those about the foreign keys    *)
(* as a whole, and for those that count their rows                         *)
ModelKinds ==
  {There("missing_fk", "INDEX_MISSING_FK", "medium"),
   There("redundant", "INDEX_REDUNDANT", "low"),
   There("unused", "INDEX_UNUSED", "low"),
   There("update_heavy", "ANOMALY_UPDATE_WITHOUT_DELETE", "medium"),
   There("soft_delete", "ANOMALY_SOFT_DELETE_NO_AUDIT", "medium"),
   There("heap", "ANOMALY_INSERT_INEFFICIENT", "low"),
   Kind({"datatype"}, "DATATYPE_INCONSISTENCY_IMPLICIT",
        {r \in RowsOf["datatype"] : r.v = "length"}, {}, "low", "low")}

Mismatches(R) == {i \in 1..Len(R["datatype"]) : R["datatype"][i].v = "type"}

CountedFindings(R) ==
  When(Missing(R) > 0, "INDEX_MISSING_QUERY", HighIf(Missing(R) >= 5))
  \cup When(R["overlap"] # <<>>, "NORM_VIOLATION_TRANSITIVE",
            IF Cardinality(Values(R, "overlap")) >= 3 THEN "medium" ELSE "low")
  \cup When(Mismatches(R) # {}, "DATATYPE_INCONSISTENCY_EXPLICIT",
            HighIf(Cardinality(Mismatches(R)) >= 3))

KeyFindings(R) ==
  When(circular_dependency_tables(Edges(R)) # {}, "CIRCULAR_DEPENDENCY", "high")
  \cup When(R["fk"] = <<>>, "NO_FK_RELATIONSHIPS", "medium")

LEMMA ModelIsKinds ==
  /\ \A d \in ModelKinds : IsKind(d)
  /\ \A R : RowsOk(R) =>
       data_model(R) = (UNION {Graded(R, d) : d \in ModelKinds})
                         \cup CountedFindings(R) \cup KeyFindings(R)
<1> DEFINE
  k1 == There("missing_fk", "INDEX_MISSING_FK", "medium")
  k2 == There("redundant", "INDEX_REDUNDANT", "low")
  k3 == There("unused", "INDEX_UNUSED", "low")
  k4 == There("update_heavy", "ANOMALY_UPDATE_WITHOUT_DELETE", "medium")
  k5 == There("soft_delete", "ANOMALY_SOFT_DELETE_NO_AUDIT", "medium")
  k6 == There("heap", "ANOMALY_INSERT_INEFFICIENT", "low")
  h7 == {r \in RowsOf["datatype"] : r.v = "length"}
  k7 == Kind({"datatype"}, "DATATYPE_INCONSISTENCY_IMPLICIT", h7, {}, "low", "low")
<1>0. ModelKinds = {k1, k2, k3, k4, k5, k6, k7}
  BY DEF ModelKinds
<1>1. IsKind(k1) /\ IsKind(k2) /\ IsKind(k3)
  BY ThereFacts, QueriesHave, RanksGrow
<1>2. IsKind(k4) /\ IsKind(k5) /\ IsKind(k6)
  BY ThereFacts, QueriesHave, RanksGrow
<1> HIDE DEF h7
<1>3. /\ {"datatype"} \in SUBSET Query /\ {} \in SUBSET h7 /\ "low" \in DOMAIN Rank
      /\ Rank["low"] <= Rank["low"]
  BY QueriesHave, RanksGrow
<1>4. IsKind(k7)
  BY <1>3, KindFacts
<1>5. ASSUME NEW R, RowsOk(R)
      PROVE  data_model(R) = (UNION {Graded(R, d) : d \in ModelKinds})
                               \cup CountedFindings(R) \cup KeyFindings(R)
  <2>1. /\ Graded(R, k1) = When(R["missing_fk"] # <<>>, "INDEX_MISSING_FK", "medium")
        /\ Graded(R, k2) = When(R["redundant"] # <<>>, "INDEX_REDUNDANT", "low")
        /\ Graded(R, k3) = When(R["unused"] # <<>>, "INDEX_UNUSED", "low")
    BY <1>5, ThereFacts, QueriesHave, RanksGrow
  <2>2. /\ Graded(R, k4) = When(R["update_heavy"] # <<>>,
                                "ANOMALY_UPDATE_WITHOUT_DELETE", "medium")
        /\ Graded(R, k5) = When(R["soft_delete"] # <<>>,
                                "ANOMALY_SOFT_DELETE_NO_AUDIT", "medium")
        /\ Graded(R, k6) = When(R["heap"] # <<>>, "ANOMALY_INSERT_INEFFICIENT", "low")
    BY <1>5, ThereFacts, QueriesHave, RanksGrow
  <2>3. Graded(R, k7) = When("length" \in Values(R, "datatype"),
                             "DATATYPE_INCONSISTENCY_IMPLICIT", "low")
    <3>1. Graded(R, k7) = When(Hit(R, {"datatype"}, h7), "DATATYPE_INCONSISTENCY_IMPLICIT",
                               IF Hit(R, {"datatype"}, {}) THEN "low" ELSE "low")
      BY <1>3, KindFacts
    <3>2. \A r \in ToSet(R["datatype"]) : r \in RowsOf["datatype"]
      BY <1>5, SomeRow, QueriesHave
    <3>3. "length" \in Values(R, "datatype") <=> Hit(R, {"datatype"}, h7)
      BY <3>2 DEF Values, Hit, h7
    <3> QED
      BY <3>1, <3>3 DEF When
  <2> HIDE DEF k1, k2, k3, k4, k5, k6, k7
  <2>4. UNION {Graded(R, d) : d \in {k1, k2, k3, k4, k5, k6, k7}} =
          Graded(R, k1) \cup Graded(R, k2) \cup Graded(R, k3) \cup Graded(R, k4)
          \cup Graded(R, k5) \cup Graded(R, k6) \cup Graded(R, k7)
    OBVIOUS
  <2>5. /\ indexes(R) = When(Missing(R) > 0, "INDEX_MISSING_QUERY", HighIf(Missing(R) >= 5))
                        \cup Graded(R, k1) \cup Graded(R, k2) \cup Graded(R, k3)
        /\ anomalies(R) = Graded(R, k4) \cup Graded(R, k5) \cup Graded(R, k6)
    BY <2>1, <2>2 DEF indexes, anomalies
  <2>6. datatype_consistency(R) =
          When(Mismatches(R) # {}, "DATATYPE_INCONSISTENCY_EXPLICIT",
               HighIf(Cardinality(Mismatches(R)) >= 3))
          \cup Graded(R, k7)
    BY <2>3 DEF datatype_consistency, Mismatches
  <2> DEFINE c1 == When(Missing(R) > 0, "INDEX_MISSING_QUERY", HighIf(Missing(R) >= 5))
             c2 == When(R["overlap"] # <<>>, "NORM_VIOLATION_TRANSITIVE",
                        IF Cardinality(Values(R, "overlap")) >= 3 THEN "medium" ELSE "low")
             c3 == When(Mismatches(R) # {}, "DATATYPE_INCONSISTENCY_EXPLICIT",
                        HighIf(Cardinality(Mismatches(R)) >= 3))
             e1 == When(circular_dependency_tables(Edges(R)) # {},
                        "CIRCULAR_DEPENDENCY", "high")
             e2 == When(R["fk"] = <<>>, "NO_FK_RELATIONSHIPS", "medium")
  <2>7. data_model(R) = e1 \cup e2 \cup indexes(R) \cup c2 \cup anomalies(R)
                        \cup datatype_consistency(R)
    BY DEF data_model, normalization
  <2>8. CountedFindings(R) = c1 \cup c2 \cup c3 /\ KeyFindings(R) = e1 \cup e2
    BY DEF CountedFindings, KeyFindings
  <2> HIDE DEF c1, c2, c3, e1, e2
  <2> DEFINE G == Graded(R, k1) \cup Graded(R, k2) \cup Graded(R, k3) \cup Graded(R, k4)
                  \cup Graded(R, k5) \cup Graded(R, k6) \cup Graded(R, k7)
             U == (UNION {Graded(R, d) : d \in ModelKinds})
  <2>9. data_model(R) = G \cup (c1 \cup c2 \cup c3) \cup (e1 \cup e2)
    BY <2>5, <2>6, <2>7 DEF c1, c3
  <2>10. U = G
    BY <1>0, <2>4
  <2> HIDE DEF G, U
  <2>11. data_model(R) = U \cup CountedFindings(R) \cup KeyFindings(R)
    BY <2>8, <2>9, <2>10
  <2> QED
    BY <2>11 DEF U
<1> QED
  BY <1>0, <1>1, <1>2, <1>4, <1>5

(* In a result that is in order, the first of the objects that are scanned *)
(* a lot is scanned the most.                                              *)
LEMMA FirstIsMost ==
  ASSUME NEW s, Len(s) \in Nat, Ordered("objects", s),
         \A i \in 1..Len(s) : s[i].v.scan \in Int,
         NEW m \in 1..Len(s), NEW j \in m..Len(s)
  PROVE  s[j].v.scan <= s[m].v.scan
<1> DEFINE n == Len(s)
           c == n - m
           T == {k \in 0..c : s[m + k].v.scan <= s[m].v.scan}
<1>0. c \in Nat /\ n \in Nat /\ m \in Nat
  OBVIOUS
<1>1. 0 \in T
  <2>1. m + 0 = m /\ 0 \in 0..c
    BY <1>0
  <2>2. s[m].v.scan <= s[m].v.scan
    <3>1. \A x \in Int : x <= x
      OBVIOUS
    <3> QED
      BY <3>1
  <2> QED
    BY <2>1, <2>2
<1>2. ASSUME NEW k \in 1..c, k - 1 \in T PROVE k \in T
  <2> DEFINE i == m + (k - 1)
  <2>1. i \in 1..(n - 1) /\ i + 1 = m + k /\ i \in 1..n /\ m + k \in 1..n
    BY <1>0
  <2>2. s[i].v.scan >= s[i + 1].v.scan
    BY <2>1 DEF Ordered
  <2>3. s[i].v.scan <= s[m].v.scan
    BY <1>2
  <2>4. s[i].v.scan \in Int /\ s[m].v.scan \in Int /\ s[m + k].v.scan \in Int
    BY <2>1
  <2>5. \A x, y, z \in Int : x >= y /\ x <= z => y <= z
    OBVIOUS
  <2> HIDE DEF i
  <2>6. s[m + k].v.scan <= s[m].v.scan
    BY <2>1, <2>2, <2>3, <2>4, <2>5
  <2> QED
    BY <1>0, <2>6
<1>3. \A k \in 0..c : k \in T
  <2>1. \A k \in 1..c : k - 1 \in T => k \in T
    BY <1>2
  <2> HIDE DEF T, c
  <2> QED
    BY <1>0, <1>1, <2>1, InductUpTo
<1>4. j - m \in 0..c /\ m + (j - m) = j
  BY <1>0
<1>5. s[m + (j - m)].v.scan <= s[m].v.scan
  BY <1>3, <1>4
<1> QED
  BY <1>4, <1>5

LEMMA ScanHit ==
  ASSUME NEW R, RowsOk(R)
  PROVE  LET hits == {r \in RowsOf["objects"] : /\ r.v.scan >= TOP_STMT_SCAN_RATIO_HIGH
                                                /\ r.v.count > 0}
             severe == {r \in hits : r.v.scan >= 90}
         IN  /\ high_scan(R) # {} <=> Hit(R, {"objects"}, hits)
             /\ high_scan(R) # {} =>
                  (R["objects"][Min(high_scan(R))].v.scan >= 90 <=>
                     Hit(R, {"objects"}, severe))
<1> DEFINE s == R["objects"]
           hits == {r \in RowsOf["objects"] : /\ r.v.scan >= TOP_STMT_SCAN_RATIO_HIGH
                                              /\ r.v.count > 0}
           severe == {r \in hits : r.v.scan >= 90}
           I == high_scan(R)
           m == Min(I)
<1>1. s \in Seq(RowsOf["objects"]) /\ Ordered("objects", s)
  BY QueriesHave DEF RowsOk
<1>2. /\ Len(s) \in Nat /\ \A i \in 1..Len(s) : s[i] \in RowsOf["objects"]
      /\ ToSet(s) = {s[i] : i \in 1..Len(s)}
  BY <1>1 DEF ToSet
<1>3. \A i \in 1..Len(s) : s[i].v.scan \in Int
  BY <1>2, ReportsAssumption
<1>4. I = {i \in 1..Len(s) : s[i] \in hits}
  BY <1>2 DEF high_scan
<1> HIDE DEF s, I, hits
<1>5. I # {} <=> Hit(R, {"objects"}, hits)
  <2>1. Hit(R, {"objects"}, hits) <=> \E r \in ToSet(s) : r \in hits
    BY DEF Hit, s
  <2> QED
    BY <1>2, <1>4, <2>1
<1>6. ASSUME I # {} PROVE s[m].v.scan >= 90 <=> Hit(R, {"objects"}, severe)
  <2>1. m \in I /\ \A i \in I : m <= i
    <3>1. I \in SUBSET Nat
      BY <1>2, <1>4
    <3>2. \E x \in I : \A i \in I : x <= i
      BY <1>6, <3>1, LeastNumber
    <3> QED
      BY <3>2 DEF Min
  <2> HIDE DEF m
  <2>2. m \in 1..Len(s) /\ s[m] \in hits
    BY <1>4, <2>1
  <2>3. Hit(R, {"objects"}, severe) <=> \E r \in ToSet(s) : r \in severe
    BY DEF Hit, s
  <2>4. s[m].v.scan >= 90 => s[m] \in ToSet(s) /\ s[m] \in severe
    BY <1>2, <2>2
  <2>5. ASSUME NEW r \in ToSet(s), r \in severe PROVE s[m].v.scan >= 90
    <3>1. PICK i \in 1..Len(s) : s[i] = r
      BY <1>2
    <3>2. i \in I /\ s[i].v.scan >= 90
      BY <1>4, <2>5, <3>1
    <3>3. i \in m..Len(s)
      BY <1>2, <2>1, <2>2, <3>1, <3>2
    <3>4. s[i].v.scan <= s[m].v.scan
      BY <1>1, <1>2, <1>3, <2>2, <3>3, FirstIsMost
    <3>5. s[i].v.scan \in Int /\ s[m].v.scan \in Int
      BY <1>3, <2>2
    <3>6. \A x, y \in Int : x >= 90 /\ x <= y => y >= 90
      OBVIOUS
    <3> QED
      BY <3>2, <3>4, <3>5, <3>6
  <2> QED
    BY <2>3, <2>4, <2>5
<1> QED
  BY <1>5, <1>6 DEF s, I, hits

StatementKinds ==
  LET Statement == RowsOf["query_store"] \cup RowsOf["dmv"]
      scanned == {r \in RowsOf["objects"] : /\ r.v.scan >= TOP_STMT_SCAN_RATIO_HIGH
                                            /\ r.v.count > 0}
  IN  {Kind({"query_store", "dmv"}, "HIGH_DURATION",
            {r \in Statement : r.v.duration >= TOP_STMT_DURATION_HIGH_US}, {},
            "high", "high"),
       Kind({"query_store", "dmv"}, "HIGH_EXECUTION_COUNT",
            {r \in Statement : r.v.execs >= TOP_STMT_EXEC_COUNT_HIGH}, {},
            "medium", "medium"),
       Kind({"objects"}, "HIGH_SCAN_PRESSURE", scanned,
            {r \in scanned : r.v.scan >= 90}, "medium", "high"),
       Kind({"objects"}, "LARGE_TABLE_CANDIDATE",
            {r \in RowsOf["objects"] : r.v.count >= TOP_STMT_ROW_COUNT_LARGE}, {},
            "medium", "medium"),
       Kind({"query_store", "dmv"}, "REWRITE_CANDIDATE",
            {r \in Statement : r.v.duration \in
               TOP_STMT_DURATION_MEDIUM_US..(TOP_STMT_DURATION_HIGH_US - 1)}, {},
            "medium", "medium")}

LEMMA StatementsAreKinds ==
  /\ \A d \in StatementKinds : IsKind(d)
  /\ \A R : RowsOk(R) =>
       top_statement_actions(R) = UNION {Graded(R, d) : d \in StatementKinds}
<1> DEFINE
  Statement == RowsOf["query_store"] \cup RowsOf["dmv"]
  Q == {"query_store", "dmv"}
  h1 == {r \in Statement : r.v.duration >= TOP_STMT_DURATION_HIGH_US}
  k1 == Kind(Q, "HIGH_DURATION", h1, {}, "high", "high")
  h2 == {r \in Statement : r.v.execs >= TOP_STMT_EXEC_COUNT_HIGH}
  k2 == Kind(Q, "HIGH_EXECUTION_COUNT", h2, {}, "medium", "medium")
  h3 == {r \in RowsOf["objects"] : /\ r.v.scan >= TOP_STMT_SCAN_RATIO_HIGH
                                   /\ r.v.count > 0}
  s3 == {r \in h3 : r.v.scan >= 90}
  k3 == Kind({"objects"}, "HIGH_SCAN_PRESSURE", h3, s3, "medium", "high")
  h4 == {r \in RowsOf["objects"] : r.v.count >= TOP_STMT_ROW_COUNT_LARGE}
  k4 == Kind({"objects"}, "LARGE_TABLE_CANDIDATE", h4, {}, "medium", "medium")
  h5 == {r \in Statement : r.v.duration \in
           TOP_STMT_DURATION_MEDIUM_US..(TOP_STMT_DURATION_HIGH_US - 1)}
  k5 == Kind(Q, "REWRITE_CANDIDATE", h5, {}, "medium", "medium")
<1>0. StatementKinds = {k1, k2, k3, k4, k5}
  BY DEF StatementKinds
<1>1. s3 \in SUBSET h3 /\ \A h : {} \in SUBSET h
  OBVIOUS
<1>2. /\ Q \in SUBSET Query /\ {"objects"} \in SUBSET Query
      /\ "medium" \in DOMAIN Rank /\ "high" \in DOMAIN Rank
      /\ Rank["medium"] <= Rank["high"] /\ Rank["medium"] <= Rank["medium"]
      /\ Rank["high"] <= Rank["high"]
  BY QueriesHave, RanksGrow
<1> HIDE DEF Q, h1, h2, h3, s3, h4, h5
<1>3. IsKind(k1) /\ IsKind(k2)
  BY <1>1, <1>2, KindFacts
<1>4. IsKind(k3) /\ IsKind(k4) /\ IsKind(k5)
  BY <1>1, <1>2, KindFacts
<1>5. ASSUME NEW R, RowsOk(R)
      PROVE  top_statement_actions(R) = UNION {Graded(R, d) : d \in StatementKinds}
  <2> DEFINE statements == Values(R, "query_store") \cup Values(R, "dmv")
  <2>0. /\ \A r \in ToSet(R["query_store"]) : r \in RowsOf["query_store"]
        /\ \A r \in ToSet(R["dmv"]) : r \in RowsOf["dmv"]
        /\ \A r \in ToSet(R["objects"]) : r \in RowsOf["objects"]
    BY <1>5, SomeRow, QueriesHave
  <2>1. Graded(R, k1) = When(\E v \in statements : v.duration >= TOP_STMT_DURATION_HIGH_US,
                             "HIGH_DURATION", "high")
    <3>1. Graded(R, k1) = When(Hit(R, Q, h1), "HIGH_DURATION",
                               IF Hit(R, Q, {}) THEN "high" ELSE "high")
      BY <1>1, <1>2, KindFacts
    <3>2. (\E v \in statements : v.duration >= TOP_STMT_DURATION_HIGH_US) <=> Hit(R, Q, h1)
      BY <2>0 DEF Values, Hit, h1, Q
    <3> QED
      BY <3>1, <3>2 DEF When
  <2>2. Graded(R, k2) = When(\E v \in statements : v.execs >= TOP_STMT_EXEC_COUNT_HIGH,
                             "HIGH_EXECUTION_COUNT", "medium")
    <3>1. Graded(R, k2) = When(Hit(R, Q, h2), "HIGH_EXECUTION_COUNT",
                               IF Hit(R, Q, {}) THEN "medium" ELSE "medium")
      BY <1>1, <1>2, KindFacts
    <3>2. (\E v \in statements : v.execs >= TOP_STMT_EXEC_COUNT_HIGH) <=> Hit(R, Q, h2)
      BY <2>0 DEF Values, Hit, h2, Q
    <3> QED
      BY <3>1, <3>2 DEF When
  <2>3. Graded(R, k3) = When(high_scan(R) # {}, "HIGH_SCAN_PRESSURE", ScanSeverity(R))
    <3>1. Graded(R, k3) = When(Hit(R, {"objects"}, h3), "HIGH_SCAN_PRESSURE",
                               IF Hit(R, {"objects"}, s3) THEN "high" ELSE "medium")
      BY <1>1, <1>2, KindFacts
    <3>2. /\ high_scan(R) # {} <=> Hit(R, {"objects"}, h3)
          /\ high_scan(R) # {} =>
               (R["objects"][Min(high_scan(R))].v.scan >= 90 <=> Hit(R, {"objects"}, s3))
      BY <1>5, ScanHit DEF h3, s3
    <3> QED
      BY <3>1, <3>2 DEF When, ScanSeverity, HighIf
  <2>4. Graded(R, k4) = When(\E v \in Values(R, "objects") :
                               v.count >= TOP_STMT_ROW_COUNT_LARGE,
                             "LARGE_TABLE_CANDIDATE", "medium")
    <3>1. Graded(R, k4) = When(Hit(R, {"objects"}, h4), "LARGE_TABLE_CANDIDATE",
                               IF Hit(R, {"objects"}, {}) THEN "medium" ELSE "medium")
      BY <1>1, <1>2, KindFacts
    <3>2. (\E v \in Values(R, "objects") : v.count >= TOP_STMT_ROW_COUNT_LARGE) <=>
            Hit(R, {"objects"}, h4)
      BY <2>0 DEF Values, Hit, h4
    <3> QED
      BY <3>1, <3>2 DEF When
  <2>5. Graded(R, k5) = When(\E v \in statements : v.duration \in
                               TOP_STMT_DURATION_MEDIUM_US..(TOP_STMT_DURATION_HIGH_US - 1),
                             "REWRITE_CANDIDATE", "medium")
    <3>1. Graded(R, k5) = When(Hit(R, Q, h5), "REWRITE_CANDIDATE",
                               IF Hit(R, Q, {}) THEN "medium" ELSE "medium")
      BY <1>1, <1>2, KindFacts
    <3>2. (\E v \in statements : v.duration \in
             TOP_STMT_DURATION_MEDIUM_US..(TOP_STMT_DURATION_HIGH_US - 1)) <=> Hit(R, Q, h5)
      BY <2>0 DEF Values, Hit, h5, Q
    <3> QED
      BY <3>1, <3>2 DEF When
  <2> HIDE DEF k1, k2, k3, k4, k5
  <2>6. UNION {Graded(R, d) : d \in StatementKinds} =
          Graded(R, k1) \cup Graded(R, k2) \cup Graded(R, k3) \cup Graded(R, k4)
          \cup Graded(R, k5)
    <3>1. UNION {Graded(R, d) : d \in {k1, k2, k3, k4, k5}} =
            Graded(R, k1) \cup Graded(R, k2) \cup Graded(R, k3) \cup Graded(R, k4)
            \cup Graded(R, k5)
      OBVIOUS
    <3> QED
      BY <1>0, <3>1
  <2> QED
    BY <2>1, <2>2, <2>3, <2>4, <2>5, <2>6 DEF top_statement_actions
<1> QED
  BY <1>0, <1>3, <1>4, <1>5

(* The missing indexes are counted one after the other. *)
LEMMA MissingLoop ==
  ASSUME NEW R, Len(R["missing_index"]) \in Nat,
         \A i \in 1..Len(R["missing_index"]) : R["missing_index"][i].v \in Nat
  PROVE  \E f \in [0..Len(R["missing_index"]) -> Nat] :
           /\ f[0] = 0
           /\ \A k \in 1..Len(R["missing_index"]) :
                f[k] = f[k - 1] + R["missing_index"][k].v
           /\ Missing(R) = f[Len(R["missing_index"])]
<1> DEFINE s == R["missing_index"]
           n == Len(s)
           V == Nat
           G == [k \in 1..n |-> [t \in V |-> t + s[k].v]]
           Ids(f) == [k \in 0..n |-> IF k = 0 THEN 0 ELSE f[k - 1] + s[k].v]
           count == CHOOSE f : f = Ids(f)
<1>1. Missing(R) = count[n]
  BY DEF Missing
<1>0. n \in Nat /\ \A i \in 1..n : s[i].v \in Nat
  OBVIOUS
<1> HIDE DEF n, s
<1>2. G \in [1..n -> [V -> V]]
  <2>1. ASSUME NEW k \in 1..n, NEW t \in V PROVE t + s[k].v \in V
    <3>1. s[k].v \in Nat
      BY <1>0
    <3> QED
      BY <3>1
  <2> HIDE DEF V
  <2> QED
    BY <2>1
<1>3. PICK f \in [0..n -> V] : f[0] = 0 /\ \A k \in 1..n : f[k] = G[k][f[k - 1]]
  <2> DEFINE v == 0
  <2>1. v \in V
    OBVIOUS
  <2> HIDE DEF G, v, V
  <2>2. Loops(V, v, n, G) # {}
    BY <1>0, <1>2, <2>1, LoopExists
  <2> QED
    BY <2>2 DEF v, Loops
<1>4. ASSUME NEW k \in 1..n PROVE f[k] = f[k - 1] + s[k].v
  <2>1. k - 1 \in 0..n
    BY <1>0
  <2>2. f[k - 1] \in V /\ f[k] = G[k][f[k - 1]]
    BY <1>3, <2>1
  <2> HIDE DEF V
  <2>3. G[k][f[k - 1]] = f[k - 1] + s[k].v
    BY <2>2
  <2> QED
    BY <2>2, <2>3
<1> HIDE DEF G, V
<1>5. f = Ids(f)
  <2>1. ASSUME NEW k \in 0..n PROVE f[k] = Ids(f)[k]
    <3>1. CASE k = 0
      BY <1>3, <3>1
    <3>2. CASE k # 0
      <4>1. k \in 1..n
        BY <1>0, <3>2
      <4> QED
        BY <1>4, <3>2, <4>1
    <3> QED
      BY <3>1, <3>2
  <2>2. Ids(f) = [k \in 0..n |-> Ids(f)[k]]
    OBVIOUS
  <2>3. f = [k \in 0..n |-> f[k]]
    BY <1>3
  <2> HIDE DEF Ids
  <2> QED
    BY <2>1, <2>2, <2>3
<1>6. count = Ids(count)
  <2> HIDE DEF Ids
  <2> QED
    BY <1>5
<1>7. count[0] = 0 /\ \A k \in 1..n : count[k] = count[k - 1] + s[k].v
  <2> HIDE DEF count
  <2>1. \A k \in 0..n : count[k] = Ids(count)[k]
    BY <1>6
  <2>2. Ids(count)[0] = 0
    BY <1>0
  <2>3. ASSUME NEW k \in 1..n PROVE Ids(count)[k] = count[k - 1] + s[k].v
    BY <1>0
  <2>4. 0 \in 0..n /\ \A k \in 1..n : k \in 0..n
    BY <1>0
  <2> HIDE DEF Ids
  <2> QED
    BY <2>1, <2>2, <2>3, <2>4
<1>8. count[n] = f[n]
  <2> HIDE DEF count
  <2>1. \A k \in 1..n : f[k - 1] = count[k - 1] => f[k] = count[k]
    BY <1>4, <1>7
  <2>2. f[0] = count[0]
    BY <1>3, <1>7
  <2>3. SameTurns(f, count, n)
    BY <2>1, <2>2 DEF SameTurns
  <2>4. \A k \in 0..n : f[k] = count[k]
    BY <1>0, <2>3, LoopsAgree
  <2> QED
    BY <1>0, <2>4
<1> HIDE DEF count
<1>9. \A k \in 1..n : f[k] = f[k - 1] + s[k].v
  BY <1>4
<1> QED
  BY <1>1, <1>3, <1>8, <1>9 DEF n, s, V

LEMMA MissingTogether ==
  ASSUME NEW R, RowsOk(R), NEW r \in ToSet(R["missing_index"])
  PROVE  /\ Missing(R) \in Nat /\ r.v \in Nat /\ r.v <= Missing(R)
         /\ Missing(Only("missing_index", r)) = r.v
<1> DEFINE s == R["missing_index"]
           n == Len(s)
<1>0. "missing_index" \in Query /\ s \in Seq(RowsOf["missing_index"])
  BY QueriesHave DEF RowsOk
<1>1. /\ n \in Nat /\ \A i \in 1..n : s[i] \in RowsOf["missing_index"]
      /\ ToSet(s) = {s[i] : i \in 1..n}
  BY <1>0 DEF ToSet
<1>2. \A x \in RowsOf["missing_index"] : x.v \in Nat
  BY ReportsAssumption
<1>3. \A i \in 1..n : s[i].v \in Nat
  BY <1>1, <1>2
<1>4. PICK f \in [0..n -> Nat] :
        f[0] = 0 /\ (\A k \in 1..n : f[k] = f[k - 1] + s[k].v) /\ Missing(R) = f[n]
  BY <1>1, <1>3, MissingLoop
<1>5. PICK j \in 1..n : s[j] = r
  BY <1>1
<1> HIDE DEF s, n
<1> DEFINE T == {k \in 0..n : \A i \in 1..k : s[i].v <= f[k]}
<1>6. 0 \in T
  BY <1>1
<1>7. ASSUME NEW k \in 1..n, k - 1 \in T PROVE k \in T
  <2>1. f[k] = f[k - 1] + s[k].v /\ f[k] \in Nat /\ f[k - 1] \in Nat /\ s[k].v \in Nat
    BY <1>1, <1>3, <1>4
  <2>2. ASSUME NEW i \in 1..k PROVE s[i].v <= f[k]
    <3>1. CASE i = k
      BY <2>1, <3>1
    <3>2. CASE i # k
      <4>1. i \in 1..(k - 1) /\ i \in 1..n
        BY <1>1, <3>2
      <4>2. s[i].v <= f[k - 1] /\ s[i].v \in Nat
        BY <1>3, <1>7, <4>1
      <4>3. \A a, b, c, d \in Nat : a <= b /\ c = b + d => a <= c
        OBVIOUS
      <4> QED
        BY <2>1, <4>2, <4>3
    <3> QED
      BY <3>1, <3>2
  <2> QED
    BY <1>1, <2>2
<1>8. \A k \in 0..n : k \in T
  <2>1. \A k \in 1..n : k - 1 \in T => k \in T
    BY <1>7
  <2> HIDE DEF T
  <2> QED
    BY <1>1, <1>6, <2>1, InductUpTo
<1>9. s[j].v <= f[n] /\ f[n] \in Nat /\ s[j].v \in Nat
  <2>1. n \in 0..n
    BY <1>1
  <2>2. n \in T
    BY <1>8, <2>1
  <2> QED
    BY <1>3, <1>4, <2>1, <2>2
<1>10. Missing(Only("missing_index", r)) = r.v
  <2> DEFINE O == Only("missing_index", r)
  <2>1. r \in RowsOf["missing_index"]
    BY <1>1, <1>5
  <2>2. O["missing_index"] = <<r>>
    BY <1>0, <2>1, OnlyFacts
  <2>3. Len(<<r>>) = 1 /\ <<r>>[1] = r /\ r.v \in Nat
    BY <1>2, <2>1
  <2> HIDE DEF O
  <2>4. Len(O["missing_index"]) = 1 /\ \A i \in 1..1 : O["missing_index"][i].v = r.v
    <3>1. \A i \in 1..1 : i = 1
      OBVIOUS
    <3> QED
      BY <2>2, <2>3, <3>1
  <2>5. PICK h \in [0..1 -> Nat] :
          h[0] = 0 /\ (\A k \in 1..1 : h[k] = h[k - 1] + O["missing_index"][k].v)
          /\ Missing(O) = h[1]
    <3>1. Len(O["missing_index"]) \in Nat
      BY <2>4
    <3>2. \A i \in 1..Len(O["missing_index"]) : O["missing_index"][i].v \in Nat
      BY <2>3, <2>4
    <3>3. \E h \in [0..Len(O["missing_index"]) -> Nat] :
            /\ h[0] = 0
            /\ \A k \in 1..Len(O["missing_index"]) :
                 h[k] = h[k - 1] + O["missing_index"][k].v
            /\ Missing(O) = h[Len(O["missing_index"])]
      BY <3>1, <3>2, MissingLoop
    <3> QED
      BY <2>4, <3>3
  <2>6. h[1] = h[0] + r.v
    <3>1. 1 \in 1..1 /\ 1 - 1 = 0
      OBVIOUS
    <3> QED
      BY <2>4, <2>5, <3>1
  <2>7. h[1] = r.v
    BY <2>3, <2>5, <2>6
  <2> QED
    BY <2>5, <2>7 DEF O
<1> QED
  BY <1>4, <1>5, <1>9, <1>10

(* What these findings are about, and how severe they are *)
LEMMA RestFacts ==
  /\ \A R : \A f \in CountedFindings(R) : f.code \in Counted /\ f.severity \in DOMAIN Rank
  /\ \A R : \A f \in KeyFindings(R) : f.code \in Joint /\ f.severity \in DOMAIN Rank
<1>1. \A b \in BOOLEAN : HighIf(b) \in DOMAIN Rank
  BY RanksGrow DEF HighIf
<1>2. ASSUME NEW R, NEW f \in CountedFindings(R)
      PROVE  f.code \in Counted /\ f.severity \in DOMAIN Rank
  <2>1. HighIf(Missing(R) >= 5) \in DOMAIN Rank
        /\ HighIf(Cardinality(Mismatches(R)) >= 3) \in DOMAIN Rank
    BY RanksGrow DEF HighIf
  <2>2. \E s \in DOMAIN Rank : \E c \in Counted : f = [code |-> c, severity |-> s]
    BY <2>1, RanksGrow DEF CountedFindings, When, Counted
  <2> QED
    BY <2>2
<1>3. ASSUME NEW R, NEW f \in KeyFindings(R)
      PROVE  f.code \in Joint /\ f.severity \in DOMAIN Rank
  <2>1. \E s \in DOMAIN Rank : \E c \in Joint : f = [code |-> c, severity |-> s]
    BY RanksGrow DEF KeyFindings, When, Joint
  <2> QED
    BY <2>1
<1> QED
  BY <1>2, <1>3

(* More rows make a finding that counts them no less severe. *)
LEMMA CountedTogether ==
  ASSUME NEW R, RowsOk(R), NEW q \in Query, NEW r \in ToSet(R[q]),
         NEW g \in CountedFindings(Only(q, r))
  PROVE  Covers(CountedFindings(R), g)
<1> DEFINE O == Only(q, r)
<1>0. r \in RowsOf[q]
  BY SomeRow
<1>1. O[q] = <<r>> /\ \A x \in Query : x # q => O[x] = <<>>
  BY <1>0, OnlyFacts
<1>2. "missing_index" \in Query /\ "overlap" \in Query /\ "datatype" \in Query
  BY QueriesHave
<1>3. Rank["low"] <= Rank["medium"] /\ Rank["medium"] <= Rank["high"]
      /\ Rank["low"] <= Rank["low"] /\ Rank["medium"] <= Rank["medium"]
      /\ Rank["high"] <= Rank["high"]
  BY RanksGrow
<1> DEFINE
  c1(X) == When(Missing(X) > 0, "INDEX_MISSING_QUERY", HighIf(Missing(X) >= 5))
  c2(X) == When(X["overlap"] # <<>>, "NORM_VIOLATION_TRANSITIVE",
                IF Cardinality(Values(X, "overlap")) >= 3 THEN "medium" ELSE "low")
  c3(X) == When(Mismatches(X) # {}, "DATATYPE_INCONSISTENCY_EXPLICIT",
                HighIf(Cardinality(Mismatches(X)) >= 3))
<1>4. CountedFindings(O) = c1(O) \cup c2(O) \cup c3(O)
      /\ CountedFindings(R) = c1(R) \cup c2(R) \cup c3(R)
  BY DEF CountedFindings
<1>5. CASE g \in c1(O)
  <2>1. Missing(O) > 0 /\ g = [code |-> "INDEX_MISSING_QUERY",
                               severity |-> HighIf(Missing(O) >= 5)]
    BY <1>5 DEF When
  <2>2. q = "missing_index"
    <3> SUFFICES ASSUME q # "missing_index" PROVE FALSE
      OBVIOUS
    <3>1. O["missing_index"] = <<>>
      BY <1>1, <1>2
    <3> HIDE DEF O
    <3>2. Len(O["missing_index"]) = 0 /\ \A i \in 1..0 : FALSE
      BY <3>1
    <3>3. \E f \in [0..Len(O["missing_index"]) -> Nat] :
            f[0] = 0 /\ Missing(O) = f[Len(O["missing_index"])]
      <4>1. Len(O["missing_index"]) \in Nat
        BY <3>2
      <4>2. \A i \in 1..Len(O["missing_index"]) : O["missing_index"][i].v \in Nat
        BY <3>2
      <4> QED
        BY <4>1, <4>2, MissingLoop
    <3>4. Missing(O) = 0
      BY <3>2, <3>3
    <3> QED
      BY <2>1, <3>4
  <2>3. /\ Missing(R) \in Nat /\ r.v \in Nat /\ r.v <= Missing(R) /\ Missing(O) = r.v
    BY <2>2, MissingTogether
  <2> HIDE DEF O
  <2> DEFINE f == [code |-> "INDEX_MISSING_QUERY", severity |-> HighIf(Missing(R) >= 5)]
  <2>4. f \in c1(R)
    BY <2>1, <2>3 DEF When
  <2>5. Missing(O) >= 5 => Missing(R) >= 5
    BY <2>3
  <2>6. f.code = g.code /\ Rank[g.severity] <= Rank[f.severity]
    BY <1>3, <2>1, <2>5 DEF HighIf
  <2> QED
    BY <1>4, <2>4, <2>6 DEF Covers
<1>6. CASE g \in c2(O)
  <2>1. q = "overlap"
    BY <1>1, <1>2, <1>6 DEF When
  <2>2. Cardinality(Values(O, "overlap")) = 1
    <3>1. ToSet(O["overlap"]) = {r}
      BY <1>0, <2>1, OnlyFacts
    <3>2. Values(O, "overlap") = {r.v}
      BY <3>1 DEF Values
    <3> QED
      BY <3>2, FS_Singleton
  <2>3. g = [code |-> "NORM_VIOLATION_TRANSITIVE", severity |-> "low"]
    BY <1>6, <2>2 DEF When
  <2>4. R["overlap"] # <<>>
    BY <1>2, <2>1, SomeRow
  <2> DEFINE f == [code |-> "NORM_VIOLATION_TRANSITIVE",
                   severity |-> IF Cardinality(Values(R, "overlap")) >= 3
                                THEN "medium" ELSE "low"]
  <2>5. f \in c2(R)
    BY <2>4 DEF When
  <2>6. f.code = g.code /\ Rank[g.severity] <= Rank[f.severity]
    BY <1>3, <2>3
  <2> QED
    BY <1>4, <2>5, <2>6 DEF Covers
<1>7. CASE g \in c3(O)
  <2>1. Mismatches(O) # {} /\ g = [code |-> "DATATYPE_INCONSISTENCY_EXPLICIT",
                                   severity |-> HighIf(Cardinality(Mismatches(O)) >= 3)]
    BY <1>7 DEF When
  <2>2. q = "datatype"
    <3> SUFFICES ASSUME q # "datatype" PROVE FALSE
      OBVIOUS
    <3>1. O["datatype"] = <<>>
      BY <1>1, <1>2
    <3> HIDE DEF O
    <3>2. Len(O["datatype"]) = 0 /\ 1..0 = {}
      BY <3>1
    <3>3. Mismatches(O) = {}
      BY <3>2 DEF Mismatches
    <3> QED
      BY <2>1, <3>3
  <2>3. Mismatches(O) = {1} /\ r.v = "type"
    <3>1. O["datatype"] = <<r>>
      BY <1>1, <2>2
    <3>2. Len(<<r>>) = 1 /\ <<r>>[1] = r /\ 1..1 = {1}
      OBVIOUS
    <3> HIDE DEF O
    <3>3. Mismatches(O) = {i \in {1} : O["datatype"][i].v = "type"}
      BY <3>1, <3>2 DEF Mismatches
    <3> QED
      BY <2>1, <3>1, <3>2, <3>3
  <2>4. g.severity = "medium" /\ g.code = "DATATYPE_INCONSISTENCY_EXPLICIT"
    <3>1. Cardinality(Mismatches(O)) = 1
      BY <2>3, FS_Singleton
    <3> HIDE DEF O
    <3>2. ~(1 >= 3)
      OBVIOUS
    <3> QED
      BY <2>1, <3>1, <3>2 DEF HighIf
  <2>5. Mismatches(R) # {}
    <3>1. R["datatype"] \in Seq(RowsOf["datatype"])
      BY <1>2 DEF RowsOk
    <3>2. PICK i \in 1..Len(R["datatype"]) : R["datatype"][i] = r
      BY <2>2, <3>1 DEF ToSet
    <3> QED
      BY <2>3, <3>2 DEF Mismatches
  <2> DEFINE f == [code |-> "DATATYPE_INCONSISTENCY_EXPLICIT",
                   severity |-> HighIf(Cardinality(Mismatches(R)) >= 3)]
  <2>6. f \in c3(R)
    BY <2>5 DEF When
  <2>7. f.code = g.code /\ Rank[g.severity] <= Rank[f.severity]
    BY <1>3, <2>4 DEF HighIf
  <2> QED
    BY <1>4, <2>6, <2>7 DEF Covers
<1> HIDE DEF c1, c2, c3
<1> QED
  BY <1>4, <1>5, <1>6, <1>7

(* The findings of a tool: those that are decided row by row, and the rest *)
Kinds ==
  CASE tool = "analyze_tab_health" -> HealthKinds
    [] tool = "analyze_db_data_model" -> ModelKinds
    [] tool = "analyze_sec_config" -> SecurityKinds
    [] tool = "top_statements" -> StatementKinds
    [] OTHER -> {}

Rest(R) ==
  IF tool = "analyze_db_data_model" THEN CountedFindings(R) \cup KeyFindings(R) ELSE {}

LEMMA FoundIsKinds ==
  /\ \A d \in Kinds : IsKind(d)
  /\ \A R : RowsOk(R) => Found(R) = (UNION {Graded(R, d) : d \in Kinds}) \cup Rest(R)
<1>1. CASE tool = "analyze_tab_health"
  <2>1. Kinds = HealthKinds /\ \A R : Found(R) = tab_health(R) /\ Rest(R) = {}
    BY <1>1 DEF Kinds, Found, Rest
  <2> QED
    BY <2>1, HealthIsKinds
<1>2. CASE tool = "analyze_db_data_model"
  <2>1. /\ Kinds = ModelKinds
        /\ \A R : Found(R) = data_model(R) /\ Rest(R) = CountedFindings(R) \cup KeyFindings(R)
    BY <1>2 DEF Kinds, Found, Rest
  <2>2. ASSUME NEW R, RowsOk(R)
        PROVE  Found(R) = (UNION {Graded(R, d) : d \in Kinds}) \cup Rest(R)
    <3> DEFINE U == UNION {Graded(R, d) : d \in ModelKinds}
    <3>1. Found(R) = U \cup CountedFindings(R) \cup KeyFindings(R)
      BY <2>1, <2>2, ModelIsKinds
    <3>2. U = UNION {Graded(R, d) : d \in Kinds}
      BY <2>1
    <3> HIDE DEF U
    <3>3. Found(R) = U \cup Rest(R)
      BY <2>1, <3>1
    <3> QED
      BY <3>2, <3>3
  <2> QED
    BY <2>1, <2>2, ModelIsKinds
<1>3. CASE tool = "analyze_sec_config"
  <2>1. Kinds = SecurityKinds /\ \A R : Found(R) = sec_config(R) /\ Rest(R) = {}
    BY <1>3 DEF Kinds, Found, Rest
  <2> QED
    BY <2>1, SecurityIsKinds
<1>4. CASE tool = "top_statements"
  <2>1. Kinds = StatementKinds /\ \A R : Found(R) = top_statement_actions(R) /\ Rest(R) = {}
    BY <1>4 DEF Kinds, Found, Rest
  <2> QED
    BY <2>1, StatementsAreKinds
<1>5. CASE tool \notin {"analyze_tab_health", "analyze_db_data_model",
                        "analyze_sec_config", "top_statements"}
  <2>1. Kinds = {} /\ \A R : Found(R) = {} /\ Rest(R) = {}
    BY <1>5 DEF Kinds, Found, Rest
  <2> QED
    BY <2>1
<1> QED
  BY <1>1, <1>2, <1>3, <1>4, <1>5

(* A finding that needs no other row is one that a row would be given      *)
(* alone; and none that a row would be given alone is lost or made milder. *)
LEMMA FoundAlone ==
  ASSUME NEW R, RowsOk(R), NEW f \in Found(R), f.code \notin Joint \cup Counted
  PROVE  \E q \in Query : \E r \in ToSet(R[q]) : f \in Found(Only(q, r))
<1>1. f \notin Rest(R)
  BY RestFacts DEF Rest
<1>2. PICK d \in Kinds : f \in Graded(R, d)
  BY <1>1, FoundIsKinds
<1>3. IsKind(d)
  BY FoundIsKinds
<1>4. PICK q \in Query : \E r \in ToSet(R[q]) : f \in Graded(Only(q, r), d)
  BY <1>2, <1>3, GradedAlone
<1>5. PICK r \in ToSet(R[q]) : f \in Graded(Only(q, r), d)
  BY <1>4
<1>6. RowsOk(Only(q, r))
  BY SomeRow, OnlyFacts
<1>7. f \in Found(Only(q, r))
  BY <1>5, <1>6, FoundIsKinds
<1> QED
  BY <1>7

LEMMA FoundTogether ==
  ASSUME NEW R, RowsOk(R), NEW q \in Query, NEW r \in ToSet(R[q]),
         NEW g \in Found(Only(q, r)), g.code \notin Joint
  PROVE  Covers(Found(R), g)
<1>1. RowsOk(Only(q, r))
  BY SomeRow, OnlyFacts
<1>2. CASE g \in Rest(Only(q, r))
  <2>1. tool = "analyze_db_data_model" /\ g \in CountedFindings(Only(q, r))
    BY <1>2, RestFacts DEF Rest
  <2>2. Covers(CountedFindings(R), g)
    BY <2>1, CountedTogether
  <2>3. CountedFindings(R) \subseteq Found(R)
    BY <2>1, FoundIsKinds DEF Rest
  <2> QED
    BY <2>2, <2>3 DEF Covers
<1>3. CASE g \notin Rest(Only(q, r))
  <2>1. PICK d \in Kinds : g \in Graded(Only(q, r), d)
    BY <1>1, <1>3, FoundIsKinds
  <2>2. Covers(Graded(R, d), g)
    BY <2>1, FoundIsKinds, GradedTogether
  <2>3. Graded(R, d) \subseteq Found(R)
    BY FoundIsKinds
  <2> QED
    BY <2>2, <2>3 DEF Covers
<1> QED
  BY <1>2, <1>3

LEMMA FoundRanked ==
  ASSUME NEW R, RowsOk(R), NEW f \in Found(R)
  PROVE  f.severity \in DOMAIN Rank
<1>1. CASE f \in Rest(R)
  BY <1>1, RestFacts DEF Rest
<1>2. CASE f \notin Rest(R)
  <2>1. PICK d \in Kinds : f \in Graded(R, d)
    BY <1>2, FoundIsKinds
  <2>2. IsKind(d)
    BY FoundIsKinds
  <2> QED
    BY <2>1, <2>2 DEF Graded, When, IsKind
<1> QED
  BY <1>1, <1>2

(* The worst of some grades *)
LEMMA WorstOf ==
  ASSUME NEW S \in SUBSET (0..5)
  PROVE  /\ Max({0} \cup S) \in {0} \cup S
         /\ Max({0} \cup S) \in 0..5
         /\ \A x \in S : x <= Max({0} \cup S)
<1> DEFINE T == {0} \cup S
           U == {5 - x : x \in T}
<1>1. T \in SUBSET (0..5) /\ 0 \in T
  OBVIOUS
<1>2. U \in SUBSET Nat /\ U # {}
  <2>1. \A x \in 0..5 : 5 - x \in Nat
    OBVIOUS
  <2> QED
    BY <1>1, <2>1
<1>3. PICK x \in T : \A k \in U : 5 - x <= k
  <2>1. \E m \in U : \A k \in U : m <= k
    <3> HIDE DEF U
    <3> QED
      BY <1>2, LeastNumber
  <2> QED
    BY <2>1
<1>4. \A y \in T : x >= y
  <2>1. \A y \in T : 5 - x <= 5 - y
    BY <1>3
  <2>2. \A a, b \in 0..5 : 5 - a <= 5 - b => a >= b
    OBVIOUS
  <2> QED
    BY <1>1, <2>1, <2>2
<1> HIDE DEF T, U
<1>5. Max(T) \in T /\ \A y \in T : Max(T) >= y
  BY <1>4 DEF Max
<1>6. Max(T) \in 0..5 /\ \A y \in T : y <= Max(T)
  <2>1. \A a, b \in 0..5 : a >= b => b <= a
    OBVIOUS
  <2> QED
    BY <1>1, <1>5, <2>1
<1> QED
  BY <1>5, <1>6 DEF T

LEMMA SeverityFacts ==
  ASSUME NEW F, \A f \in F : f.severity \in DOMAIN Rank, NEW c
  PROVE  /\ Severity(F, c) \in 0..5
         /\ \A f \in F : f.code = c => Rank[f.severity] <= Severity(F, c)
         /\ Severity(F, c) = 0
              \/ \E f \in F : f.code = c /\ Severity(F, c) = Rank[f.severity]
<1> DEFINE S == {Rank[f.severity] : f \in {g \in F : g.code = c}}
<1>1. S \in SUBSET (0..5)
  BY RanksAreNumbers
<1>2. Severity(F, c) = Max({0} \cup S)
  BY DEF Severity
<1> HIDE DEF S
<1>3. /\ Severity(F, c) \in {0} \cup S /\ Severity(F, c) \in 0..5
      /\ \A x \in S : x <= Severity(F, c)
  BY <1>1, <1>2, WorstOf
<1> QED
  BY <1>3 DEF S

(* The rows that are shown are in order, and they are the rows that the    *)
(* call asked for.                                                         *)
LEMMA ShownInOrder ==
  ASSUME Delivered, AsRead
  PROVE  RowsOk(Shown)
<1>1. ASSUME NEW q \in Query PROVE Shown[q] \in Seq(RowsOf[q])
  <2>1. Shown[q] \in Seq(ToSet(rows[q]))
    BY ShownFacts
  <2>2. rows[q] \in Seq(RowsOf[q])
    BY DEF Delivered
  <2>3. ToSet(rows[q]) \subseteq RowsOf[q]
    BY <2>2 DEF ToSet
  <2> DEFINE A == ToSet(rows[q])
             B == RowsOf[q]
             t == Shown[q]
  <2>4. A \subseteq B /\ t \in Seq(A)
    BY <2>1, <2>3
  <2> HIDE DEF A, B, t
  <2>5. t \in Seq(B)
    BY <2>4
  <2> QED
    BY <2>5 DEF B, t
<1>2. "settings" \notin Narrowed /\ "xp_cmdshell" \notin Narrowed /\ "objects" \notin Narrowed
  <2>1. ToSet(Queries["analyze_tab_health"]) =
          {"sizes", "fragmented", "missing_pk", "stale", "never_updated",
           "low_sampled", "settings", "coverage", "histogram"}
    BY DEF ToSet, Queries
  <2>2. ToSet(Queries["analyze_db_data_model"]) =
          {"fk", "missing_index", "missing_fk", "redundant", "unused", "overlap",
           "update_heavy", "soft_delete", "heap", "datatype"}
    BY DEF ToSet, Queries
  <2> QED
    BY <2>1, <2>2 DEF Narrowed
<1>3. \A q \in Query : q \notin Narrowed => Shown[q] = rows[q]
  BY DEF Shown
<1>4. \A q \in Single : Len(Shown[q]) <= 1
  BY <1>2, <1>3, QueriesHave DEF AsRead, Single
<1>5. Shown["objects"] = rows["objects"]
  BY <1>2, <1>3, QueriesHave
<1>6. Ordered("objects", Shown["objects"])
  BY <1>5 DEF AsRead
<1> QED
  BY <1>1, <1>4, <1>6 DEF RowsOk

AskedFor ==
  {p \in UNION {{q} \X (1..Len(rows[q])) : q \in Query} :
     narrow /\ p[1] \in Narrowed => rows[p[1]][p[2]].here}

LEMMA AskedRows ==
  ASSUME Delivered
  PROVE  /\ \A p \in AskedFor :
              /\ p[1] \in Query /\ rows[p[1]][p[2]] \in ToSet(Shown[p[1]])
              /\ Alone(p[1], p[2]) = Only(p[1], rows[p[1]][p[2]])
         /\ \A q \in Query : \A r \in ToSet(Shown[q]) :
              \E p \in AskedFor : p[1] = q /\ rows[p[1]][p[2]] = r
<1>0. ASSUME NEW q \in Query
      PROVE  /\ ToSet(rows[q]) = {rows[q][i] : i \in 1..Len(rows[q])}
             /\ ToSet(Shown[q]) = {r \in ToSet(rows[q]) :
                                     narrow /\ q \in Narrowed => r.here}
  <2>1. rows[q] \in Seq(RowsOf[q])
    BY DEF Delivered
  <2>2. DOMAIN rows[q] = 1..Len(rows[q])
    BY <2>1
  <2>3. ToSet(rows[q]) = {rows[q][i] : i \in 1..Len(rows[q])}
    BY <2>2 DEF ToSet
  <2> QED
    BY <2>3, ShownFacts
<1>1. ASSUME NEW p \in AskedFor
      PROVE  /\ p[1] \in Query /\ rows[p[1]][p[2]] \in ToSet(Shown[p[1]])
             /\ Alone(p[1], p[2]) = Only(p[1], rows[p[1]][p[2]])
  <2>1. PICK q \in Query : p \in {q} \X (1..Len(rows[q]))
    BY DEF AskedFor
  <2>2. p[1] = q /\ p[2] \in 1..Len(rows[q])
    BY <2>1
  <2>3. narrow /\ p[1] \in Narrowed => rows[p[1]][p[2]].here
    BY DEF AskedFor
  <2>4. ToSet(rows[q]) = {rows[q][i] : i \in 1..Len(rows[q])}
    BY <1>0
  <2>5. rows[q][p[2]] \in ToSet(rows[q])
    BY <2>2, <2>4
  <2> QED
    BY <1>0, <2>2, <2>3, <2>5 DEF Alone, Only
<1>2. ASSUME NEW q \in Query, NEW r \in ToSet(Shown[q])
      PROVE  \E p \in AskedFor : p[1] = q /\ rows[p[1]][p[2]] = r
  <2>1. r \in ToSet(rows[q]) /\ (narrow /\ q \in Narrowed => r.here)
    BY <1>0
  <2>2. PICK i \in 1..Len(rows[q]) : rows[q][i] = r
    BY <1>0, <2>1
  <2> DEFINE p == <<q, i>>
  <2>3. p[1] = q /\ p[2] = i /\ p \in {q} \X (1..Len(rows[q]))
    OBVIOUS
  <2> HIDE DEF p
  <2>4. p \in AskedFor
    BY <2>1, <2>2, <2>3 DEF AskedFor
  <2> QED
    BY <2>2, <2>3, <2>4
<1> QED
  BY <1>1, <1>2

Worst(c) == Max({0} \cup {Severity(Found(Alone(p[1], p[2])), c) : p \in AskedFor})

LEMMA WorstFacts ==
  ASSUME Delivered, AsRead, NEW c
  PROVE  /\ Worst(c) \in 0..5
         /\ \A p \in AskedFor : Severity(Found(Alone(p[1], p[2])), c) <= Worst(c)
         /\ Worst(c) = 0
              \/ \E p \in AskedFor : Worst(c) = Severity(Found(Alone(p[1], p[2])), c)
<1> DEFINE S == {Severity(Found(Alone(p[1], p[2])), c) : p \in AskedFor}
<1>1. ASSUME NEW p \in AskedFor PROVE Severity(Found(Alone(p[1], p[2])), c) \in 0..5
  <2>1. /\ p[1] \in Query /\ rows[p[1]][p[2]] \in ToSet(Shown[p[1]])
        /\ Alone(p[1], p[2]) = Only(p[1], rows[p[1]][p[2]])
    BY AskedRows
  <2>2. rows[p[1]][p[2]] \in RowsOf[p[1]]
    BY <2>1, ShownInOrder, SomeRow
  <2>3. RowsOk(Alone(p[1], p[2]))
    <3> DEFINE q == p[1]
               r == rows[p[1]][p[2]]
    <3>1. q \in Query /\ r \in RowsOf[q] /\ Alone(p[1], p[2]) = Only(q, r)
      BY <2>1, <2>2
    <3> HIDE DEF q, r
    <3>2. RowsOk(Only(q, r))
      BY <3>1, OnlyFacts
    <3> QED
      BY <3>1, <3>2
  <2>4. \A f \in Found(Alone(p[1], p[2])) : f.severity \in DOMAIN Rank
    BY <2>3, FoundRanked
  <2> QED
    BY <2>4, SeverityFacts
<1>2. S \in SUBSET (0..5)
  BY <1>1
<1>3. Worst(c) = Max({0} \cup S)
  BY DEF Worst
<1> HIDE DEF S
<1>4. Worst(c) \in {0} \cup S /\ Worst(c) \in 0..5 /\ \A x \in S : x <= Worst(c)
  BY <1>2, <1>3, WorstOf
<1> QED
  BY <1>4 DEF S

(* The grade of a finding on all that is shown is the worst of the grades  *)
(* of the rows alone, or worse where rows are counted.                     *)
LEMMA FoundWorst ==
  ASSUME Delivered, AsRead, NEW c, c \notin Joint
  PROVE  \/ Severity(Found(Shown), c) = Worst(c)
         \/ c \in Counted /\ Severity(Found(Shown), c) > Worst(c)
<1> DEFINE F == Found(Shown)
<1>0. RowsOk(Shown)
  BY ShownInOrder
<1>1. \A f \in F : f.severity \in DOMAIN Rank
  BY <1>0, FoundRanked
<1>2. /\ Severity(F, c) \in 0..5
      /\ \A f \in F : f.code = c => Rank[f.severity] <= Severity(F, c)
      /\ Severity(F, c) = 0
           \/ \E f \in F : f.code = c /\ Severity(F, c) = Rank[f.severity]
  BY <1>1, SeverityFacts
<1>3. Worst(c) <= Severity(F, c)
  <2>1. CASE Worst(c) = 0
    BY <1>2, <2>1
  <2>2. CASE Worst(c) # 0
    <3>1. PICK p \in AskedFor : Worst(c) = Severity(Found(Alone(p[1], p[2])), c)
      BY <2>2, WorstFacts
    <3> DEFINE q == p[1]
               r == rows[p[1]][p[2]]
               G == Found(Only(q, r))
    <3>2. q \in Query /\ r \in ToSet(Shown[q]) /\ Worst(c) = Severity(G, c)
      BY <3>1, AskedRows
    <3> HIDE DEF q, r
    <3>3. RowsOk(Only(q, r))
      <4>1. r \in RowsOf[q]
        BY <1>0, <3>2, SomeRow
      <4> QED
        BY <3>2, <4>1, OnlyFacts
    <3>4. \A g \in G : g.severity \in DOMAIN Rank
      BY <3>3, FoundRanked
    <3>5. PICK g \in G : g.code = c /\ Worst(c) = Rank[g.severity]
      BY <2>2, <3>2, <3>4, SeverityFacts
    <3>6. Covers(F, g)
      BY <1>0, <3>2, <3>5, FoundTogether
    <3>7. PICK f \in F : f.code = c /\ Rank[g.severity] <= Rank[f.severity]
      BY <3>5, <3>6 DEF Covers
    <3>8. Rank[g.severity] \in 0..5 /\ Rank[f.severity] \in 0..5
      BY <1>1, <3>4, <3>5, <3>7, RanksAreNumbers
    <3>9. Rank[f.severity] <= Severity(F, c)
      BY <1>2, <3>7
    <3>10. \A x, y, z \in 0..5 : x <= y /\ y <= z => x <= z
      OBVIOUS
    <3> HIDE DEF F, G
    <3> QED
      BY <1>2, <3>5, <3>7, <3>8, <3>9, <3>10
  <2> QED
    BY <2>1, <2>2
<1>4. ASSUME c \notin Counted PROVE Severity(F, c) <= Worst(c)
  <2>0. Worst(c) \in 0..5
    BY WorstFacts
  <2>1. CASE Severity(F, c) = 0
    BY <2>0, <2>1
  <2>2. CASE Severity(F, c) # 0
    <3>1. PICK f \in F : f.code = c /\ Severity(F, c) = Rank[f.severity]
      BY <1>2, <2>2
    <3>2. PICK q \in Query : \E r \in ToSet(Shown[q]) : f \in Found(Only(q, r))
      BY <1>0, <1>4, <3>1, FoundAlone
    <3>3. PICK r \in ToSet(Shown[q]) : f \in Found(Only(q, r))
      BY <3>2
    <3>4. PICK p \in AskedFor : p[1] = q /\ rows[p[1]][p[2]] = r
      BY AskedRows
    <3>5. Alone(p[1], p[2]) = Only(q, r)
      BY <3>4, AskedRows
    <3>6. RowsOk(Only(q, r))
      BY <1>0, SomeRow, OnlyFacts
    <3> DEFINE G == Found(Only(q, r))
    <3>7. \A g \in G : g.severity \in DOMAIN Rank
      BY <3>6, FoundRanked
    <3>8. Severity(G, c) \in 0..5 /\ Rank[f.severity] <= Severity(G, c)
      BY <3>1, <3>3, <3>7, SeverityFacts
    <3>9. Severity(G, c) <= Worst(c)
      BY <3>4, <3>5, WorstFacts
    <3>10. \A x, y, z \in 0..5 : x <= y /\ y <= z => x <= z
      OBVIOUS
    <3> HIDE DEF F, G
    <3> QED
      BY <1>2, <2>0, <3>1, <3>8, <3>9, <3>10
  <2> QED
    BY <2>1, <2>2
<1>5. Worst(c) \in 0..5
  BY WorstFacts
<1>6. \A x, y \in 0..5 : (x <= y /\ y <= x => y = x) /\ (x <= y => y = x \/ y > x)
  OBVIOUS
<1> HIDE DEF F
<1>7. Severity(F, c) = Worst(c) \/ Severity(F, c) > Worst(c)
  BY <1>2, <1>3, <1>5, <1>6
<1>8. c \notin Counted => Severity(F, c) = Worst(c)
  BY <1>2, <1>3, <1>4, <1>5, <1>6
<1> QED
  <2>1. \/ Severity(F, c) = Worst(c)
        \/ c \in Counted /\ Severity(F, c) > Worst(c)
    BY <1>7, <1>8
  <2> QED
    BY <2>1 DEF F

(* The grade of a code in a report is the worst that a row alone would be  *)
(* given, or worse if the finding counts its rows.                         *)
THEOREM WorstRowAlwaysDecides == Spec => []WorstRowDecides
<1>1. ReportsInv /\ AsRead /\ Built => WorstRowDecides
  <2> SUFFICES ASSUME ReportsInv, AsRead, Built, outcome = "report"
               PROVE  \A c : c \notin Joint =>
                        \/ Severity(report.findings, c) = Worst(c)
                        \/ c \in Counted /\ Severity(report.findings, c) > Worst(c)
    BY DEF WorstRowDecides, Worst, AskedFor
  <2>1. report.findings = IF tool \in {"sessions_dashboard", "execute_query"} THEN {}
                          ELSE IF Found(Shown) = {} THEN {Otherwise} ELSE Found(Shown)
    BY DEF ReportsInv, Told, Report
  <2>2. ASSUME NEW c, c \notin Joint
        PROVE  Severity(report.findings, c) = Severity(Found(Shown), c)
    <3>1. CASE tool \in {"sessions_dashboard", "execute_query"}
      <4>1. Found(Shown) = {}
        BY <3>1 DEF Found
      <4> QED
        BY <2>1, <3>1, <4>1
    <3>2. CASE tool \notin {"sessions_dashboard", "execute_query"} /\ Found(Shown) = {}
      <4>1. report.findings = {Otherwise}
        BY <2>1, <3>2
      <4>2. build_finding(Otherwise)
        BY <4>1 DEF Built
      <4>3. Otherwise.code = "NO_MAJOR_ISSUES"
        BY <4>2 DEF build_finding, Otherwise
      <4>4. {g \in report.findings : g.code = c} = {g \in Found(Shown) : g.code = c}
        BY <2>2, <3>2, <4>1, <4>3 DEF Joint
      <4> QED
        BY <4>4 DEF Severity
    <3>3. CASE tool \notin {"sessions_dashboard", "execute_query"} /\ Found(Shown) # {}
      BY <2>1, <3>3
    <3> QED
      BY <3>1, <3>2, <3>3
  <2>3. Delivered
    BY DEF ReportsInv
  <2> QED
    BY <2>2, <2>3, FoundWorst
<1> QED
  BY <1>1, ReportsInvariance, ReadInOrder, PTL
=============================================================================
