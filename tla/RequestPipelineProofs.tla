----------------------- MODULE RequestPipelineProofs -----------------------
(***************************************************************************)
(* Proofs about RequestPipeline, for any number of requests, any handlers  *)
(* that they may call, with and without authentication.                    *)
(*                                                                         *)
(* A step is a step of one request.  The inductive invariant therefore has *)
(* a part about each request alone (RequestInv), which only its own steps  *)
(* can disturb, and two parts about all of them: what the audit log says   *)
(* (LogInv) and what denied_requests counts (CountInv).                    *)
(***************************************************************************)
EXTENDS RequestPipeline, FiniteSetTheorems, TLAPS

-----------------------------------------------------------------------------
(* The handlers *)

(* The orders in which handlers check, and their sequences of calls *)
CheckLists ==
  {<<>>, <<"read", "session", "rate">>,
   <<"validate", "session", "rate", "guard">>,
   <<"validate", "read", "session", "rate", "guard">>,
   <<"read", "session", "rate", "guard", "validate">>,
   <<"write", "session", "rate", "proc", "guard", "validate">>}

CallLists ==
  {<<>>, <<"must">>, <<"must", "may">>, <<"must", "may", "must">>,
   <<"must", "thread", "warned", "thread">>, <<"commit">>}

Calls == {"must", "may", "warned", "thread", "commit"}

(* The handlers that count PermissionErrors only *)
CountsPermission == {"run_read_tool", "select", "exec_proc"}

(* Every handler but latency_report checks and calls something; only       *)
(* exec_proc commits; what a handler counts, and whether it is traced.     *)
Known(t) ==
  LET h == Handler[t] IN
  /\ h.checks \in CheckLists /\ h.calls \in CallLists
  /\ h.swallows \in BOOLEAN /\ h.traced \in BOOLEAN
  /\ t # "latency_report" => h.checks # <<>> /\ h.calls # <<>>
  /\ h.calls = <<"commit">> =>
       t = "exec_proc" /\ h.checks = exec_proc.checks
  /\ h.calls = <<"must", "thread", "warned", "thread">> => h.traced
  /\ h.traced => h.counts = IF t \in CountsPermission THEN {"permission"}
                                                     ELSE AnyError
  /\ ~h.traced => h.counts = {}

(* The records of the handlers, one by one. *)
LEMMA HandlersKnown == ASSUME NEW t \in Tool PROVE Known(t)
<1> USE DEF Known, CheckLists, CallLists, CountsPermission, AnyError
<1>1. CASE t = "run_read_tool"
  BY <1>1 DEF Handler, run_read_tool
<1>2. CASE t = "select"
  BY <1>2 DEF Handler, select, run_read_tool
<1>3. CASE t = "exec_proc"
  BY <1>3 DEF Handler, exec_proc
<1>4. CASE t = "ping"
  BY <1>4 DEF Handler, ping
<1>5. CASE t = "list_tools"
  BY <1>5 DEF Handler, list_tools, ping
<1>6. CASE t = "list_object"
  BY <1>6 DEF Handler, list_object, ping
<1>7. CASE t = "execute_query"
  BY <1>7 DEF Handler, execute_query
<1>8. CASE t = "analyze_tab_health"
  BY <1>8 DEF Handler, analyze_tab_health, execute_query
<1>9. CASE t = "analyze_db_data_model"
  BY <1>9 DEF Handler, analyze_db_data_model, execute_query
<1>10. CASE t = "analyze_sec_config"
  BY <1>10 DEF Handler, analyze_sec_config, execute_query
<1>11. CASE t = "sessions_dashboard"
  BY <1>11 DEF Handler, sessions_dashboard, execute_query
<1>12. CASE t = "top_statements"
  BY <1>12 DEF Handler, top_statements, execute_query
<1>13. CASE t = "latency_report"
  BY <1>13 DEF Handler, latency_report
<1>14. CASE t = "fetch_sessions_dashboard_data"
  BY <1>14 DEF Handler, fetch_sessions_dashboard_data, latency_report
<1> QED
  BY <1>1, <1>2, <1>3, <1>4, <1>5, <1>6, <1>7, <1>8, <1>9, <1>10, <1>11, <1>12, <1>13, <1>14
  DEF Tool, Handler

(* A caller is authorised before its session is charged. *)
LEMMA CheckListFacts ==
  ASSUME NEW s \in CheckLists
  PROVE  /\ s \in Seq(Checks)
         /\ s # <<>> => Len(s) > 0
         /\ \A i, j \in 1..Len(s) :
              i < j /\ s[i] = "session" => s[j] \notin {"read", "write"}
<1> USE DEF Checks
<1>1. CASE s = <<>>
  BY <1>1
<1>2. CASE s = <<"read", "session", "rate">>
  BY <1>2
<1>3. CASE s = <<"validate", "session", "rate", "guard">>
  BY <1>3
<1>4. CASE s = <<"validate", "read", "session", "rate", "guard">>
  BY <1>4
<1>5. CASE s = <<"read", "session", "rate", "guard", "validate">>
  BY <1>5
<1>6. CASE s = <<"write", "session", "rate", "proc", "guard", "validate">>
  BY <1>6
<1> QED
  BY <1>1, <1>2, <1>3, <1>4, <1>5, <1>6 DEF CheckLists

(* Commits and threads occur in one list each. *)
LEMMA CallListFacts ==
  ASSUME NEW s \in CallLists
  PROVE  /\ s \in Seq(Calls)
         /\ s # <<>> => Len(s) > 0
         /\ \A i \in 1..Len(s) :
              /\ s[i] = "commit" => s = <<"commit">>
              /\ s[i] = "thread" => s = <<"must", "thread", "warned", "thread">>
<1> USE DEF Calls
<1>1. CASE s = <<>>
  BY <1>1
<1>2. CASE s = <<"must">>
  BY <1>2
<1>3. CASE s = <<"must", "may">>
  BY <1>3
<1>4. CASE s = <<"must", "may", "must">>
  BY <1>4
<1>5. CASE s = <<"must", "thread", "warned", "thread">>
  BY <1>5
<1>6. CASE s = <<"commit">>
  BY <1>6
<1> QED
  BY <1>1, <1>2, <1>3, <1>4, <1>5, <1>6 DEF CallLists

-----------------------------------------------------------------------------
(* The inductive invariant *)

Active == {"begin", "check", "call", "thread", "notify"}

(* What a request has done: the checks that it has passed are the first    *)
(* ones of its handler; only exec_proc commits.                            *)
History(r) ==
  LET h == handler(r) IN
  /\ Len(passed[r]) <= Len(h.checks)
  /\ \A i \in 1..Len(passed[r]) : passed[r][i] = h.checks[i]
  /\ committed[r] # "no" => tool[r] = "exec_proc"

(* Where it is, for each of the labels before the end *)
Place(r) ==
  LET h == handler(r) IN
  /\ pc[r] \in Active => tool[r] # "latency_report"
  /\ pc[r] = "idle" => committed[r] = "no" /\ charged[r] = "nobody"
  /\ pc[r] \in {"idle", "begin"} => passed[r] = <<>>
  /\ pc[r] \in {"idle", "begin", "check"} => call[r] = 1
  /\ pc[r] = "check" => Len(passed[r]) < Len(h.checks)
  /\ pc[r] \in {"call", "thread", "notify"} => Len(passed[r]) = Len(h.checks)
  /\ pc[r] \in {"call", "thread"} => call[r] \in 1..Len(h.calls)
  /\ pc[r] = "thread" => h.traced

(* The session is charged to the actor, which is final by then *)
ChargedOnce(r) ==
  /\ charged[r] \in {"nobody", actor[r]}
  /\ charged[r] # "nobody" =>
       \E i \in 1..Len(passed[r]) : passed[r][i] = "session"

(* The decision, the error and the answer agree from the first exception   *)
(* to the end.                                                             *)
Verdict(r) ==
  LET traced == handler(r).traced IN
  /\ ctx[r] => traced /\ pc[r] # "idle"
  /\ pc[r] \in {"idle"} \cup Active =>
       err[r] = "none" /\ decision[r] = "allow" /\ answer[r] = "none"
  /\ pc[r] = "except" => /\ traced /\ err[r] \in AnyError
                         /\ answer[r] \in {"error", "unreachable"}
  /\ pc[r] = "finally" => traced /\ answer[r] \notin {"none", "unaudited"}
  /\ decision[r] = "deny" <=> traced /\ err[r] \in AnyError
  /\ pc[r] \in {"finally", "over"} /\ traced =>
       /\ answer[r] = "result" => err[r] = "none"
       /\ answer[r] \in {"error", "unreachable"} => err[r] \in AnyError

RequestInv(r) == History(r) /\ Place(r) /\ ChargedOnce(r) /\ Verdict(r)

(* A line is about a call that is over and says what is known about it; a  *)
(* call has one line at most, and one unless it could not be written.      *)
LogInv ==
  /\ \A i \in 1..Len(audit) :
       LET r == audit[i].request IN
       /\ pc[r] = "over" /\ handler(r).traced /\ answer[r] # "unaudited"
       /\ audit[i] = Line(r)
  /\ \A i, j \in 1..Len(audit) : audit[i].request = audit[j].request => i = j
  /\ \A r \in Request :
       pc[r] = "over" /\ handler(r).traced /\ answer[r] # "unaudited" =>
         \E i \in 1..Len(audit) : audit[i].request = r

(* The requests that denied_requests counts *)
CountedRequests ==
  {r \in Request : /\ decision[r] = "deny"
                   /\ err[r] = "permission" \/ tool[r] \notin CountsPermission}

CountInv == denied = Cardinality(CountedRequests)

PipelineInv ==
  TypeOK /\ (\A r \in Request : RequestInv(r)) /\ LogInv /\ CountInv

-----------------------------------------------------------------------------
(* What is known of a request's handler. *)
LEMMA HandlerFacts ==
  ASSUME TypeOK, NEW r \in Request
  PROVE  LET h == handler(r) IN
         /\ Known(tool[r]) /\ h.checks \in CheckLists /\ h.calls \in CallLists
         /\ h.checks \in Seq(Checks) /\ h.calls \in Seq(Calls)
         /\ tool[r] # "latency_report" => Len(h.checks) > 0 /\ Len(h.calls) > 0
         /\ h.swallows \in BOOLEAN /\ h.traced \in BOOLEAN
<1>1. tool[r] \in Tool
  BY DEF TypeOK
<1>2. Known(tool[r])
  BY <1>1, HandlersKnown
<1> QED
  BY <1>2, CheckListFacts, CallListFacts DEF Known, handler

(* Only request r changes. *)
Others(r) ==
  \A q \in Request \ {r} :
    /\ pc'[q] = pc[q] /\ tool'[q] = tool[q] /\ ctx'[q] = ctx[q]
    /\ actor'[q] = actor[q] /\ call'[q] = call[q]
    /\ decision'[q] = decision[q] /\ err'[q] = err[q]
    /\ passed'[q] = passed[q] /\ charged'[q] = charged[q]
    /\ committed'[q] = committed[q]
    /\ answer'[q] = answer[q]

(* A step of r leaves the invariants of the other requests alone. *)
LEMMA OthersKeep ==
  ASSUME NEW r \in Request, Others(r), NEW q \in Request \ {r}, RequestInv(q)
  PROVE  RequestInv(q)'
<1>1. handler(q)' = handler(q)
  BY DEF Others, handler
<1>2. History(q)' /\ Place(q)'
  BY <1>1 DEF Others, RequestInv, History, Place
<1>3. ChargedOnce(q)'
  BY DEF Others, RequestInv, ChargedOnce
<1>4. Verdict(q)'
  BY <1>1 DEF Others, RequestInv, Verdict
<1> QED
  BY <1>2, <1>3, <1>4 DEF RequestInv

(* The types of the log and of its lines. *)
LEMMA LineTypes ==
  ASSUME TypeOK
  PROVE  Len(audit) \in Nat /\ \A i \in 1..Len(audit) : audit[i].request \in Request
<1> DEFINE AuditLine == [request : Request, actor : {"default", "named", "subject"},
                         decision : {"allow", "deny"},
                         error_code : AnyError \cup {"none"}]
<1>1. audit \in Seq(AuditLine)
  BY DEF TypeOK
<1>2. \A x \in AuditLine : x.request \in Request
  OBVIOUS
<1> HIDE DEF AuditLine
<1> QED
  BY <1>1, <1>2

(* So does the log, if r was not over and either still is not or leaves no *)
(* line.                                                                   *)
LEMMA LogKept ==
  ASSUME TypeOK, TypeOK', LogInv, NEW r \in Request, Others(r), pc[r] # "over",
         UNCHANGED audit, pc'[r] = "over" => ~handler(r)'.traced
  PROVE  LogInv'
<1>1. \A q \in Request \ {r} : /\ handler(q)' = handler(q) /\ Line(q)' = Line(q)
                               /\ pc'[q] = pc[q] /\ answer'[q] = answer[q]
  BY DEF Others, handler, Line, error_code
<1>2. \A i \in 1..Len(audit) : audit[i].request \in Request \ {r}
  <2>1. \A i \in 1..Len(audit) : audit[i].request # r
    BY DEF LogInv
  <2> QED
    BY <2>1, LineTypes
<1>3. audit' = audit
  OBVIOUS
<1>4. \A i \in 1..Len(audit) :
        LET q == audit[i].request IN
        /\ pc'[q] = "over" /\ handler(q)'.traced /\ answer'[q] # "unaudited"
        /\ audit[i] = Line(q)'
  BY <1>1, <1>2 DEF LogInv
<1>5. ASSUME NEW q \in Request, pc'[q] = "over", handler(q)'.traced,
             answer'[q] # "unaudited"
      PROVE  \E i \in 1..Len(audit) : audit[i].request = q
  BY <1>1, <1>5 DEF LogInv
<1>6. \A i, j \in 1..Len(audit) : audit[i].request = audit[j].request => i = j
  BY DEF LogInv
<1> QED
  BY <1>3, <1>4, <1>5, <1>6 DEF LogInv

(* The number of counted requests grows by one at most, and only if r is   *)
(* denied by the step.                                                     *)
LEMMA CountKept ==
  ASSUME TypeOK, CountInv, NEW r \in Request, Others(r),
         (r \in CountedRequests)' <=> r \in CountedRequests, UNCHANGED denied
  PROVE  CountInv'
<1>1. CountedRequests' = CountedRequests
  BY DEF Others, CountedRequests
<1> QED
  BY <1>1 DEF CountInv

LEMMA CountGrows ==
  ASSUME TypeOK, CountInv, NEW r \in Request, Others(r),
         r \notin CountedRequests, (r \in CountedRequests)', denied' = denied + 1
  PROVE  CountInv'
<1>1. CountedRequests' = CountedRequests \cup {r}
  BY DEF Others, CountedRequests
<1>2. IsFiniteSet(CountedRequests)
  BY PipelineAssumption, FS_Subset DEF CountedRequests
<1> QED
  BY <1>1, <1>2, FS_AddElement DEF CountInv

-----------------------------------------------------------------------------
(* The two ways in which a step of an active request ends *)

Labels == {"idle", "begin", "check", "call", "thread", "notify", "except",
           "finally", "over"}

(* The part of the type invariant, and of Others, that Throw and NoThrow   *)
(* are about.                                                              *)
OutcomeTypes ==
  /\ pc \in [Request -> Labels]
  /\ decision \in [Request -> {"allow", "deny"}]
  /\ err \in [Request -> AnyError \cup {"none", "cancelled"}]
  /\ answer \in [Request -> {"none", "result", "error", "unreachable",
                             "cancelled", "unaudited"}]
  /\ denied \in Nat

OutcomeOthers(r) ==
  \A q \in Request \ {r} :
    /\ pc'[q] = pc[q] /\ decision'[q] = decision[q] /\ err'[q] = err[q]
    /\ answer'[q] = answer[q]

(* The other parts of them *)
RestTypes ==
  /\ tool \in [Request -> Tool] /\ ctx \in [Request -> BOOLEAN]
  /\ actor \in [Request -> {"default", "named", "subject"}]
  /\ call \in [Request -> Nat]
  /\ passed \in [Request -> Seq(Checks)]
  /\ charged \in [Request -> {"nobody", "default", "named", "subject"}]
  /\ committed \in [Request -> {"no", "yes", "doubt"}]
  /\ worker \in [Request -> BOOLEAN]
  /\ audit \in Seq([request : Request, actor : {"default", "named", "subject"},
                    decision : {"allow", "deny"},
                    error_code : AnyError \cup {"none"}])

RestOthers(r) ==
  \A q \in Request \ {r} :
    /\ tool'[q] = tool[q] /\ ctx'[q] = ctx[q] /\ actor'[q] = actor[q]
    /\ call'[q] = call[q] /\ passed'[q] = passed[q] /\ charged'[q] = charged[q]
    /\ committed'[q] = committed[q]

LEMMA TypesSplit == TypeOK <=> OutcomeTypes /\ RestTypes
BY DEF TypeOK, OutcomeTypes, RestTypes, Labels

LEMMA TypesSplitNext == TypeOK' <=> OutcomeTypes' /\ RestTypes'
BY DEF TypeOK, OutcomeTypes, RestTypes, Labels

LEMMA OthersSplit == \A r : Others(r) <=> OutcomeOthers(r) /\ RestOthers(r)
BY DEF Others, OutcomeOthers, RestOthers

(* An exception leaves a request in its except clause, or at its end. *)
LEMMA ThrowFacts ==
  ASSUME TypeOK, NEW r \in Request, RequestInv(r), pc[r] \in Active,
         NEW e \in AnyError, Throw(r, e)
  PROVE  /\ OutcomeTypes' /\ OutcomeOthers(r)
         /\ err'[r] = e /\ answer'[r] \in {"error", "unreachable"}
         /\ decision'[r] = "deny" <=> handler(r).traced
         /\ pc'[r] = IF ctx[r] THEN "except" ELSE End(r)
         /\ End(r) \in {"finally", "over"}
         /\ handler(r).traced <=> End(r) = "finally"
<1> USE DEF OutcomeTypes, OutcomeOthers, Labels
<1>1. /\ End(r) \in {"finally", "over"}
      /\ handler(r).traced <=> End(r) = "finally"
  BY HandlerFacts DEF End
<1>2. /\ pc' \in [Request -> Labels]
      /\ pc'[r] = IF ctx[r] THEN "except" ELSE End(r)
      /\ \A q \in Request \ {r} : pc'[q] = pc[q]
  BY <1>1 DEF Throw, Goto, TypeOK
<1>3. /\ decision' \in [Request -> {"allow", "deny"}]
      /\ decision'[r] = "deny" <=> handler(r).traced
      /\ \A q \in Request \ {r} : decision'[q] = decision[q]
  <2>1. decision[r] = "allow"
    BY DEF RequestInv, Verdict
  <2> QED
    BY <2>1, HandlerFacts DEF Throw, TypeOK
<1>4. /\ err' \in [Request -> AnyError \cup {"none", "cancelled"}]
      /\ err'[r] = e /\ \A q \in Request \ {r} : err'[q] = err[q]
  BY DEF Throw, TypeOK
<1>5. /\ answer' \in [Request -> {"none", "result", "error", "unreachable",
                                   "cancelled", "unaudited"}]
      /\ answer'[r] \in {"error", "unreachable"}
      /\ \A q \in Request \ {r} : answer'[q] = answer[q]
  BY HandlerFacts DEF Throw, TypeOK
<1>6. denied' \in Nat
  BY DEF Throw, TypeOK
<1> QED
  BY <1>1, <1>2, <1>3, <1>4, <1>5, <1>6

(* A step that raises nothing changes the label only. *)
LEMMA MoveFacts ==
  ASSUME TypeOK, NEW r \in Request, NEW l \in Labels, Goto(r, l), NoThrow
  PROVE  OutcomeTypes' /\ OutcomeOthers(r) /\ pc'[r] = l
BY DEF OutcomeTypes, OutcomeOthers, Labels, Goto, NoThrow, TypeOK

(* denied_requests counts an exception of a class that the handler counts: *)
(* of every class, but for the handlers of CountsPermission.               *)
LEMMA ThrowCounts ==
  ASSUME PipelineInv, NEW r \in Request, pc[r] \in Active,
         NEW e \in AnyError, Throw(r, e), UNCHANGED tool, Others(r)
  PROVE  CountInv'
<1>1. TypeOK /\ RequestInv(r) /\ CountInv
  BY DEF PipelineInv
<1>2. /\ decision'[r] = "deny" <=> handler(r).traced
      /\ err'[r] = e
  BY <1>1, ThrowFacts
<1>3. r \notin CountedRequests
  BY <1>1 DEF RequestInv, Verdict, CountedRequests
<1>4. e \in handler(r).counts <=> (r \in CountedRequests)'
  <2>1. Known(tool[r])
    BY <1>1, HandlerFacts
  <2>2. (r \in CountedRequests)' <=>
          handler(r).traced /\ (e = "permission" \/ tool[r] \notin CountsPermission)
    BY <1>2 DEF CountedRequests
  <2> QED
    BY <2>1, <2>2 DEF Known, handler, AnyError
<1>5. CASE e \in handler(r).counts
  <2>1. denied' = denied + 1
    BY <1>5 DEF Throw
  <2> QED
    BY <1>1, <1>3, <1>4, <1>5, <2>1, CountGrows
<1>6. CASE e \notin handler(r).counts
  <2>1. denied' = denied
    BY <1>6 DEF Throw
  <2> QED
    BY <1>1, <1>3, <1>4, <1>6, <2>1, CountKept
<1> QED
  BY <1>5, <1>6

(* What a step that raises has to establish beyond what Throw does. *)
LEMMA ThrowStep ==
  ASSUME PipelineInv, NEW r \in Request, pc[r] \in Active,
         NEW e \in AnyError, Throw(r, e), UNCHANGED <<tool, ctx, audit>>,
         RestOthers(r), RestTypes', History(r)', ChargedOnce(r)'
  PROVE  PipelineInv'
<1> Others(r) /\ TypeOK'
  BY ThrowFacts, OthersSplit, TypesSplitNext DEF PipelineInv
<1>1. TypeOK /\ RequestInv(r) /\ LogInv /\ handler(r)' = handler(r)
  BY DEF PipelineInv, handler
<1>2. Verdict(r)'
  <2>1. ctx[r] => handler(r).traced
    BY <1>1 DEF RequestInv, Verdict
  <2>2. handler(r).traced \in BOOLEAN
    BY <1>1, HandlerFacts
  <2> QED
    BY <1>1, <2>1, <2>2, ThrowFacts DEF Verdict, Active, TypeOK
<1>3. LogInv'
  <2>1. pc'[r] = "over" => ~handler(r).traced
    BY <1>1, ThrowFacts
  <2>2. pc[r] # "over"
    BY DEF Active
  <2> QED
    BY <1>1, <2>1, <2>2, LogKept
<1>4. Place(r)'
  <2>1. pc'[r] \in {"except", "finally", "over"}
    BY <1>1, ThrowFacts
  <2> QED
    BY <2>1 DEF Place, Active
<1>5. \A q \in Request : RequestInv(q)'
  BY <1>2, <1>4, OthersKeep DEF RequestInv, PipelineInv
<1> QED
  BY <1>3, <1>5, ThrowCounts DEF PipelineInv

(* The same for a step that goes on. *)
LEMMA MoveStep ==
  ASSUME PipelineInv, NEW r \in Request, pc[r] \in Active,
         NEW l \in Active, Goto(r, l), NoThrow, UNCHANGED <<tool, ctx, audit>>,
         RestOthers(r), RestTypes', History(r)', Place(r)', ChargedOnce(r)'
  PROVE  PipelineInv'
<1> l \in Labels
  BY DEF Active, Labels
<1> Others(r) /\ TypeOK'
  BY MoveFacts, OthersSplit, TypesSplitNext DEF PipelineInv
<1>1. TypeOK /\ RequestInv(r) /\ LogInv /\ CountInv /\ handler(r)' = handler(r)
  BY DEF PipelineInv, handler
<1>2. pc'[r] = l
  BY <1>1, MoveFacts DEF Active, Labels
<1>3. Verdict(r)'
  BY <1>1, <1>2 DEF RequestInv, Verdict, NoThrow, Active
<1>4. LogInv'
  BY <1>1, <1>2, LogKept DEF Active
<1>5. CountInv'
  <2>1. (r \in CountedRequests)' <=> r \in CountedRequests
    BY DEF NoThrow, CountedRequests
  <2> QED
    BY <1>1, <2>1, CountKept DEF NoThrow
<1>6. \A q \in Request : RequestInv(q)'
  BY <1>3, OthersKeep DEF RequestInv, PipelineInv
<1> QED
  BY <1>4, <1>5, <1>6 DEF PipelineInv

-----------------------------------------------------------------------------
(* The steps of an active request *)

(* What every step may use of the state before it. *)
LEMMA InvFacts ==
  ASSUME PipelineInv, NEW r \in Request
  PROVE  /\ TypeOK /\ RestTypes /\ History(r) /\ Place(r) /\ ChargedOnce(r)
         /\ Verdict(r) /\ RequestInv(r) /\ LogInv /\ CountInv
BY TypesSplit DEF PipelineInv, RequestInv

LEMMA BeginInv ==
  ASSUME PipelineInv, NEW r \in Request, Begin(r)
  PROVE  PipelineInv'
<1>1. /\ pc[r] = "begin"
      /\ UNCHANGED <<tool, ctx, actor, call, passed, charged, committed,
                     worker, audit>>
  BY DEF Begin
<1>2. RestTypes' /\ RestOthers(r)
  BY <1>1, InvFacts DEF RestTypes, RestOthers
<1>3. History(r)' /\ ChargedOnce(r)'
  BY <1>1, InvFacts DEF History, ChargedOnce, handler
<1>4. CASE Goto(r, "check") /\ NoThrow
  <2>1. Place(r)'
    <3>1. pc'[r] = "check"
      BY <1>4, MoveFacts, InvFacts DEF Labels
    <3>2. Len(handler(r).checks) > 0 /\ passed[r] = <<>> /\ call[r] = 1
          /\ tool[r] # "latency_report"
      BY <1>1, InvFacts, HandlerFacts DEF Place, Active
    <3> QED
      BY <1>1, <3>1, <3>2 DEF Place, handler, Active
  <2> QED
    BY <1>1, <1>2, <1>3, <1>4, <2>1, MoveStep DEF Active
<1>5. CASE ThrowAtAwait(r)
  BY <1>1, <1>2, <1>3, <1>5, ThrowStep DEF ThrowAtAwait, Active, AnyError
<1> QED
  BY <1>4, <1>5 DEF Begin

(* A check that is passed is the next one of the handler. *)
LEMMA CheckPassed ==
  ASSUME PipelineInv, NEW r \in Request, pc[r] = "check",
         passed' = [passed EXCEPT ![r] = Append(@, Check(r))],
         UNCHANGED <<tool, committed>>
  PROVE  /\ passed' \in [Request -> Seq(Checks)]
         /\ \A q \in Request \ {r} : passed'[q] = passed[q]
         /\ Len(passed'[r]) = Len(passed[r]) + 1
         /\ Len(passed[r]) \in Nat
         /\ passed'[r][Len(passed[r]) + 1] = Check(r)
         /\ \A i \in 1..Len(passed[r]) : passed'[r][i] = passed[r][i]
         /\ History(r)'
<1> DEFINE n == Len(passed[r])
           s == handler(r).checks
<1>1. /\ passed \in [Request -> Seq(Checks)] /\ passed[r] \in Seq(Checks)
      /\ n \in Nat /\ n < Len(s)
  BY InvFacts DEF TypeOK, Place
<1>2. s \in Seq(Checks) /\ Check(r) = s[n + 1] /\ n + 1 \in 1..Len(s)
  BY <1>1, InvFacts, HandlerFacts DEF Check
<1>3. Check(r) \in Checks
  BY <1>2
<1>4. /\ passed' \in [Request -> Seq(Checks)]
      /\ passed'[r] = Append(passed[r], Check(r))
      /\ \A q \in Request \ {r} : passed'[q] = passed[q]
  BY <1>1, <1>3
<1>5. /\ Len(passed'[r]) = n + 1 /\ passed'[r][n + 1] = Check(r)
      /\ \A i \in 1..n : passed'[r][i] = passed[r][i]
  BY <1>1, <1>3, <1>4
<1>6. History(r)'
  <2>1. handler(r)' = handler(r)
    BY DEF handler
  <2>2. /\ committed[r] # "no" => tool[r] = "exec_proc"
        /\ \A i \in 1..n : passed[r][i] = s[i]
    BY <1>1, InvFacts DEF History
  <2>3. \A i \in 1..(n + 1) : passed'[r][i] = s[i]
    BY <1>1, <1>2, <1>5, <2>2
  <2>4. committed'[r] # "no" => tool'[r] = "exec_proc"
    BY <2>2
  <2>5. Len(passed'[r]) <= Len(s)
    BY <1>1, <1>2, <1>5
  <2> QED
    BY <1>5, <2>1, <2>3, <2>4, <2>5 DEF History
<1> QED
  BY <1>1, <1>4, <1>5, <1>6

(* After the last check comes the first call. *)
LEMMA AfterCheckPlace ==
  ASSUME PipelineInv, NEW r \in Request, pc[r] = "check",
         passed' = [passed EXCEPT ![r] = Append(@, Check(r))],
         UNCHANGED <<tool, call, committed>>,
         Goto(r, AfterCheck(r))
  PROVE  AfterCheck(r) \in Active /\ Place(r)'
<1>1. AfterCheck(r) \in {"check", "call"}
  BY DEF AfterCheck
<1>2. pc'[r] = AfterCheck(r)
  BY <1>1, InvFacts DEF Goto, TypeOK
<1>3. /\ Len(passed[r]) \in Nat /\ Len(passed'[r]) = Len(passed[r]) + 1
      /\ Len(handler(r).checks) \in Nat /\ Len(handler(r).calls) \in Nat
  <2>1. Len(passed[r]) \in Nat /\ Len(passed'[r]) = Len(passed[r]) + 1
    BY CheckPassed
  <2>2. handler(r).checks \in Seq(Checks) /\ handler(r).calls \in Seq(Calls)
    BY InvFacts, HandlerFacts
  <2> QED
    BY <2>1, <2>2
<1>4. /\ call[r] = 1 /\ Len(passed[r]) < Len(handler(r).checks)
      /\ tool[r] # "latency_report" /\ Len(handler(r).calls) > 0
  BY InvFacts, HandlerFacts DEF Place, Active
<1>5. /\ pc'[r] = "check" => Len(passed'[r]) < Len(handler(r).checks)
      /\ pc'[r] = "call" => Len(passed'[r]) = Len(handler(r).checks)
  BY <1>2, <1>3, <1>4 DEF AfterCheck
<1>6. call'[r] = 1 /\ 1 \in 1..Len(handler(r).calls) /\ tool'[r] = tool[r]
      /\ handler(r)' = handler(r)
  BY <1>3, <1>4 DEF handler
<1> QED
  BY <1>1, <1>2, <1>4, <1>5, <1>6 DEF Place, Active

(* Whoever is about to be authorised was not charged: the session comes    *)
(* later in every handler.                                                 *)
LEMMA AuthorizedUncharged ==
  ASSUME PipelineInv, NEW r \in Request, pc[r] = "check",
         Check(r) \in {"read", "write"}
  PROVE  charged[r] = "nobody"
<1> DEFINE n == Len(passed[r])
           s == handler(r).checks
<1>1. n \in Nat /\ n < Len(s) /\ Len(s) \in Nat /\ s \in CheckLists
  BY InvFacts, HandlerFacts DEF TypeOK, Place
<1>2. ASSUME NEW i \in 1..n, passed[r][i] = "session"
      PROVE  FALSE
  <2>1. s[i] = "session" /\ i \in 1..Len(s) /\ n + 1 \in 1..Len(s) /\ i < n + 1
    BY <1>1, <1>2, InvFacts DEF History
  <2>2. s[n + 1] \notin {"read", "write"}
    BY <1>1, <2>1, CheckListFacts
  <2> QED
    BY <2>2 DEF Check
<1> QED
  BY <1>2, InvFacts DEF ChargedOnce

LEMMA AuthorizeInv ==
  ASSUME PipelineInv, NEW r \in Request, Authorize(r)
  PROVE  PipelineInv'
<1>1. /\ pc[r] = "check" /\ Check(r) \in {"read", "write"}
      /\ UNCHANGED <<tool, ctx, call, charged, committed, worker, audit>>
  BY DEF Authorize
<1>2. charged[r] = "nobody"
  BY <1>1, AuthorizedUncharged
<1>3. ASSUME NEW named \in BOOLEAN,
             actor' = [actor EXCEPT ![r] = ResolvedActor(r, named)],
             passed' = [passed EXCEPT ![r] = Append(@, Check(r))],
             Goto(r, AfterCheck(r)), NoThrow
      PROVE  PipelineInv'
  <2>1. /\ actor' \in [Request -> {"default", "named", "subject"}]
        /\ \A q \in Request \ {r} : actor'[q] = actor[q]
    BY <1>3, InvFacts DEF ResolvedActor, TypeOK
  <2>2. RestTypes' /\ RestOthers(r)
    BY <1>1, <1>3, <2>1, InvFacts, CheckPassed DEF RestTypes, RestOthers
  <2>3. ChargedOnce(r)'
    BY <1>1, <1>2 DEF ChargedOnce
  <2> QED
    BY <1>1, <1>3, <2>2, <2>3, CheckPassed, AfterCheckPlace, MoveStep DEF Active
<1>4. ASSUME NEW e \in AnyError, Throw(r, e), UNCHANGED <<actor, passed>>
      PROVE  PipelineInv'
  <2>1. RestTypes' /\ RestOthers(r)
    BY <1>1, <1>4, InvFacts DEF RestTypes, RestOthers
  <2>2. History(r)' /\ ChargedOnce(r)'
    BY <1>1, <1>4, InvFacts DEF History, ChargedOnce, handler
  <2> QED
    BY <1>1, <1>4, <2>1, <2>2, ThrowStep DEF Active
<1> QED
  BY <1>3, <1>4 DEF Authorize, ThrowAtAwait, AnyError

(* The steps that end in Pass: the session check and the other ones. *)
LEMMA PassInv ==
  ASSUME PipelineInv, NEW r \in Request, pc[r] = "check", Pass(r),
         UNCHANGED <<tool, ctx, actor, call, committed, worker, audit>>,
         \/ UNCHANGED charged
         \/ Check(r) = "session" /\ charged' = [charged EXCEPT ![r] = actor[r]]
  PROVE  PipelineInv'
<1>1. passed' = [passed EXCEPT ![r] = Append(@, Check(r))]
  BY DEF Pass
<1>2. /\ charged' \in [Request -> {"nobody", "default", "named", "subject"}]
      /\ \A q \in Request \ {r} : charged'[q] = charged[q]
  BY InvFacts DEF TypeOK
<1>3. RestTypes' /\ RestOthers(r)
  BY <1>1, <1>2, InvFacts, CheckPassed DEF RestTypes, RestOthers
<1>4. ChargedOnce(r)'
  <2> DEFINE n == Len(passed[r])
  <2>1. /\ n \in Nat /\ Len(passed'[r]) = n + 1 /\ passed'[r][n + 1] = Check(r)
        /\ \A i \in 1..n : passed'[r][i] = passed[r][i]
    BY <1>1, CheckPassed
  <2>2. CASE UNCHANGED charged
    <3>1. charged'[r] \in {"nobody", actor'[r]}
      BY <2>2, InvFacts DEF ChargedOnce
    <3>2. ASSUME charged'[r] # "nobody"
          PROVE  \E i \in 1..Len(passed'[r]) : passed'[r][i] = "session"
      <4>1. PICK i \in 1..n : passed[r][i] = "session"
        BY <2>2, <3>2, InvFacts DEF ChargedOnce
      <4> QED
        BY <2>1, <4>1
    <3> QED
      BY <3>1, <3>2 DEF ChargedOnce
  <2>3. CASE Check(r) = "session" /\ charged' = [charged EXCEPT ![r] = actor[r]]
    <3>1. charged'[r] = actor'[r]
      BY <2>3, InvFacts DEF TypeOK
    <3>2. n + 1 \in 1..Len(passed'[r]) /\ passed'[r][n + 1] = "session"
      BY <2>1, <2>3
    <3> QED
      BY <3>1, <3>2 DEF ChargedOnce
  <2> QED
    BY <2>2, <2>3
<1>5. CASE Goto(r, AfterCheck(r)) /\ NoThrow
  BY <1>1, <1>3, <1>4, <1>5, CheckPassed, AfterCheckPlace, MoveStep DEF Active
<1>6. CASE ThrowAtAwait(r)
  BY <1>1, <1>3, <1>4, <1>6, CheckPassed, ThrowStep
  DEF ThrowAtAwait, Active, AnyError
<1> QED
  BY <1>5, <1>6 DEF Pass

(* A check that is not passed leaves what was done before as it was. *)
LEMMA RefusedInv ==
  ASSUME PipelineInv, NEW r \in Request, pc[r] = "check",
         NEW e \in AnyError, Throw(r, e),
         UNCHANGED <<tool, ctx, actor, call, passed, charged,
                     committed, worker, audit>>
  PROVE  PipelineInv'
<1>1. RestTypes' /\ RestOthers(r)
  BY InvFacts DEF RestTypes, RestOthers
<1>2. History(r)' /\ ChargedOnce(r)'
  BY InvFacts DEF History, ChargedOnce, handler
<1> QED
  BY <1>1, <1>2, ThrowStep DEF Active

LEMMA TouchInv ==
  ASSUME PipelineInv, NEW r \in Request, Touch(r)
  PROVE  PipelineInv'
BY PassInv, RefusedInv DEF Touch, AnyError

LEMMA OtherCheckInv ==
  ASSUME PipelineInv, NEW r \in Request, OtherCheck(r)
  PROVE  PipelineInv'
<1>1. CASE Pass(r)
  BY <1>1, PassInv DEF OtherCheck
<1>2. ASSUME NEW e \in AnyError, Throw(r, e), UNCHANGED passed
      PROVE  PipelineInv'
  BY <1>2, RefusedInv DEF OtherCheck
<1> QED
  BY <1>1, <1>2 DEF OtherCheck, AnyError

(* A request that calls the database has passed all checks, and knows      *)
(* which call it makes.                                                    *)
LEMMA CallFacts ==
  ASSUME PipelineInv, NEW r \in Request, pc[r] \in {"call", "thread"}
  PROVE  /\ call[r] \in 1..Len(handler(r).calls) /\ call[r] \in Nat
         /\ Len(handler(r).calls) \in Nat
         /\ Len(passed[r]) = Len(handler(r).checks)
         /\ tool[r] # "latency_report"
         /\ handler(r).calls[call[r]] = "commit" => tool[r] = "exec_proc"
         /\ handler(r).calls[call[r]] = "thread" => handler(r).traced
<1>1. /\ call[r] \in 1..Len(handler(r).calls)
      /\ Len(passed[r]) = Len(handler(r).checks)
      /\ tool[r] # "latency_report"
  BY InvFacts DEF Place, Active
<1>2. /\ Known(tool[r]) /\ handler(r).calls \in CallLists
      /\ handler(r).calls \in Seq(Calls)
  BY InvFacts, HandlerFacts
<1>3. /\ handler(r).calls[call[r]] = "commit" => handler(r).calls = <<"commit">>
      /\ handler(r).calls[call[r]] = "thread" =>
           handler(r).calls = <<"must", "thread", "warned", "thread">>
  BY <1>1, <1>2, CallListFacts
<1>4. call[r] \in Nat /\ Len(handler(r).calls) \in Nat
  BY <1>1, <1>2
<1> QED
  BY <1>1, <1>2, <1>3, <1>4 DEF Known, handler

(* After a call comes the next one, or the last message. *)
LEMMA AfterCallPlace ==
  ASSUME PipelineInv, NEW r \in Request, pc[r] \in {"call", "thread"},
         UNCHANGED <<tool, passed>>,
         call' = [call EXCEPT ![r] = @ + 1], Goto(r, AfterCall(r))
  PROVE  AfterCall(r) \in Active /\ Place(r)'
<1>1. AfterCall(r) \in {"call", "notify"} /\ AfterCall(r) \in Active
  BY DEF AfterCall, Active
<1>2. pc'[r] = AfterCall(r) /\ call'[r] = call[r] + 1
  BY <1>1, InvFacts DEF Goto, TypeOK
<1>3. pc'[r] = "call" => call'[r] \in 1..Len(handler(r).calls)
  BY <1>2, CallFacts DEF AfterCall
<1>4. /\ Len(passed'[r]) = Len(handler(r).checks) /\ tool'[r] # "latency_report"
      /\ handler(r)' = handler(r)
  BY CallFacts DEF handler
<1> QED
  BY <1>1, <1>2, <1>3, <1>4 DEF Place, Active

(* What a call leaves behind, whether or not it raises. *)
LEMMA CallHistory ==
  ASSUME PipelineInv, NEW r \in Request, pc[r] \in {"call", "thread"},
         UNCHANGED <<tool, ctx, actor, passed, charged, audit>>,
         call' \in {call, [call EXCEPT ![r] = @ + 1]},
         \/ UNCHANGED committed
         \/ /\ tool[r] = "exec_proc"
            /\ \E c \in {"no", "yes", "doubt"} : committed' = [committed EXCEPT ![r] = c],
         \/ UNCHANGED worker
         \/ \E b \in BOOLEAN : worker' = [worker EXCEPT ![r] = b]
  PROVE  RestTypes' /\ RestOthers(r) /\ History(r)' /\ ChargedOnce(r)'
<1>1. /\ call' \in [Request -> Nat] /\ \A q \in Request \ {r} : call'[q] = call[q]
  BY InvFacts DEF TypeOK
<1>2. /\ committed' \in [Request -> {"no", "yes", "doubt"}]
      /\ \A q \in Request \ {r} : committed'[q] = committed[q]
  <2>1. committed \in [Request -> {"no", "yes", "doubt"}]
    BY InvFacts DEF TypeOK
  <2>2. CASE UNCHANGED committed
    BY <2>1, <2>2
  <2>3. ASSUME NEW c \in {"no", "yes", "doubt"},
               committed' = [committed EXCEPT ![r] = c]
        PROVE  /\ committed' \in [Request -> {"no", "yes", "doubt"}]
               /\ \A q \in Request \ {r} : committed'[q] = committed[q]
    BY <2>1, <2>3
  <2> QED
    BY <2>2, <2>3
<1>3. worker' \in [Request -> BOOLEAN]
  BY InvFacts DEF TypeOK
<1>4. RestTypes' /\ RestOthers(r)
  BY <1>1, <1>2, <1>3, InvFacts DEF RestTypes, RestOthers
<1>5. committed'[r] # "no" => tool[r] = "exec_proc"
  <2>1. CASE UNCHANGED committed
    BY <2>1, InvFacts DEF History
  <2> QED
    BY <2>1
<1>6. History(r)'
  <2>1. /\ handler(r)' = handler(r) /\ passed'[r] = passed[r] /\ tool'[r] = tool[r]
        /\ Len(passed[r]) = Len(handler(r).checks)
    BY CallFacts DEF handler
  <2>2. /\ Len(passed[r]) <= Len(handler(r).checks)
        /\ \A i \in 1..Len(passed[r]) : passed[r][i] = handler(r).checks[i]
    BY InvFacts DEF History
  <2> QED
    BY <1>5, <2>1, <2>2 DEF History
<1>7. ChargedOnce(r)'
  <2>1. charged' = charged /\ actor' = actor /\ passed' = passed
    OBVIOUS
  <2>2. ChargedOnce(r)
    BY InvFacts
  <2> QED
    BY <2>1, <2>2 DEF ChargedOnce
<1> QED
  BY <1>4, <1>6, <1>7

LEMMA CallMustInv ==
  ASSUME PipelineInv, NEW r \in Request, CallMust(r)
  PROVE  PipelineInv'
<1>1. /\ pc[r] = "call" /\ call' = [call EXCEPT ![r] = @ + 1]
      /\ UNCHANGED <<tool, ctx, actor, passed, charged, committed, worker,
                     audit>>
  BY DEF CallMust
<1>2. RestTypes' /\ RestOthers(r) /\ History(r)' /\ ChargedOnce(r)'
  BY <1>1, CallHistory
<1>3. CASE Goto(r, AfterCall(r)) /\ NoThrow
  BY <1>1, <1>2, <1>3, AfterCallPlace, MoveStep DEF Active
<1>4. ASSUME NEW e \in {"value", "other"}, Throw(r, e) PROVE PipelineInv'
  BY <1>1, <1>2, <1>4, ThrowStep DEF Active, AnyError
<1> QED
  BY <1>3, <1>4 DEF CallMust

LEMMA CallWarnedInv ==
  ASSUME PipelineInv, NEW r \in Request, CallWarned(r)
  PROVE  PipelineInv'
<1>1. /\ pc[r] = "call" /\ call' = [call EXCEPT ![r] = @ + 1]
      /\ UNCHANGED <<tool, ctx, actor, passed, charged, committed, worker,
                     audit>>
  BY DEF CallWarned
<1>2. RestTypes' /\ RestOthers(r) /\ History(r)' /\ ChargedOnce(r)'
  BY <1>1, CallHistory
<1>3. CASE Goto(r, AfterCall(r)) /\ NoThrow
  BY <1>1, <1>2, <1>3, AfterCallPlace, MoveStep DEF Active
<1>4. CASE ThrowAtAwait(r)
  BY <1>1, <1>2, <1>4, ThrowStep DEF Active, AnyError, ThrowAtAwait
<1> QED
  BY <1>3, <1>4 DEF CallWarned

LEMMA CallCommitInv ==
  ASSUME PipelineInv, NEW r \in Request, CallCommit(r)
  PROVE  PipelineInv'
<1>1. /\ pc[r] = "call" /\ call' = [call EXCEPT ![r] = @ + 1]
      /\ handler(r).calls[call[r]] = "commit"
      /\ UNCHANGED <<tool, ctx, actor, passed, charged, worker, audit>>
      /\ \E c \in {"no", "yes", "doubt"} : committed' = [committed EXCEPT ![r] = c]
  BY DEF CallCommit
<1>2. tool[r] = "exec_proc"
  BY <1>1, CallFacts
<1>3. RestTypes' /\ RestOthers(r) /\ History(r)' /\ ChargedOnce(r)'
  BY <1>1, <1>2, CallHistory
<1>4. CASE Goto(r, AfterCall(r)) /\ NoThrow
  BY <1>1, <1>3, <1>4, AfterCallPlace, MoveStep DEF Active
<1>5. CASE Throw(r, "other")
  BY <1>1, <1>3, <1>5, ThrowStep DEF Active, AnyError
<1> QED
  BY <1>4, <1>5 DEF CallCommit

LEMMA ThreadStartInv ==
  ASSUME PipelineInv, NEW r \in Request, ThreadStart(r)
  PROVE  PipelineInv'
<1>1. /\ pc[r] = "call" /\ handler(r).calls[call[r]] = "thread"
      /\ UNCHANGED <<tool, ctx, actor, passed, charged, committed, audit>>
      /\ call' \in {call, [call EXCEPT ![r] = @ + 1]}
      /\ \/ UNCHANGED worker
         \/ \E b \in BOOLEAN : worker' = [worker EXCEPT ![r] = b]
  BY DEF ThreadStart
<1>2. RestTypes' /\ RestOthers(r) /\ History(r)' /\ ChargedOnce(r)'
  BY <1>1, CallHistory
<1>3. CASE Goto(r, "thread") /\ NoThrow /\ UNCHANGED call
  <2>1. pc'[r] = "thread"
    BY <1>3, MoveFacts, InvFacts DEF Labels
  <2>2. Place(r)'
    BY <1>1, <1>3, <2>1, CallFacts DEF Place, handler, Active
  <2> QED
    BY <1>1, <1>2, <1>3, <2>2, MoveStep DEF Active
<1>4. CASE /\ call' = [call EXCEPT ![r] = @ + 1]
           /\ Goto(r, AfterCall(r)) /\ NoThrow
  BY <1>1, <1>2, <1>4, AfterCallPlace, MoveStep DEF Active
<1>5. CASE ThrowAtAwait(r)
  BY <1>1, <1>2, <1>5, ThrowStep DEF Active, AnyError, ThrowAtAwait
<1> QED
  BY <1>3, <1>4, <1>5 DEF ThreadStart

(* Without a waiting request a thread ends unseen. *)
LEMMA ThreadEndInv ==
  ASSUME PipelineInv, NEW r \in Request, ThreadEnd(r)
  PROVE  PipelineInv'
<1>1. /\ worker' = [worker EXCEPT ![r] = FALSE]
      /\ UNCHANGED <<tool, ctx, actor, passed, charged, committed, audit>>
  BY DEF ThreadEnd
<1>2. CASE pc[r] = "thread"
  <2>1. call' = [call EXCEPT ![r] = @ + 1]
    BY <1>2 DEF ThreadEnd
  <2>2. RestTypes' /\ RestOthers(r) /\ History(r)' /\ ChargedOnce(r)'
    BY <1>1, <1>2, <2>1, CallHistory
  <2>3. CASE Goto(r, AfterCall(r)) /\ NoThrow
    BY <1>1, <1>2, <2>1, <2>2, <2>3, AfterCallPlace, MoveStep DEF Active
  <2>4. CASE ThrowAtAwait(r)
    BY <1>1, <1>2, <2>2, <2>4, ThrowStep DEF Active, AnyError, ThrowAtAwait
  <2> QED
    BY <1>2, <2>3, <2>4 DEF ThreadEnd
<1>3. CASE pc[r] # "thread"
  <2>1. UNCHANGED <<pc, call, err, decision, denied, answer>>
    BY <1>3 DEF ThreadEnd, NoThrow
  <2>2. TypeOK'
    BY <1>1, <2>1, InvFacts DEF TypeOK
  <2>3. \A q \in Request : handler(q)' = handler(q) /\ Line(q)' = Line(q)
    BY <1>1, <2>1 DEF handler, Line, error_code
  <2>4. ASSUME NEW q \in Request PROVE RequestInv(q)'
    <3>1. RequestInv(q) /\ handler(q)' = handler(q)
      BY <2>3, InvFacts
    <3> QED
      BY <1>1, <2>1, <3>1 DEF RequestInv, History, Place, ChargedOnce, Verdict
  <2>5. LogInv'
    BY <1>1, <2>1, <2>3, InvFacts, LineTypes DEF LogInv
  <2>6. CountInv'
    BY <1>1, <2>1, InvFacts DEF CountInv, CountedRequests
  <2> QED
    BY <2>2, <2>4, <2>5, <2>6 DEF PipelineInv
<1> QED
  BY <1>2, <1>3

(* The result is returned. *)
LEMMA NotifyInv ==
  ASSUME PipelineInv, NEW r \in Request, Notify(r)
  PROVE  PipelineInv'
<1>1. /\ pc[r] = "notify"
      /\ UNCHANGED <<tool, ctx, actor, call, passed, charged, committed,
                     worker, audit>>
  BY DEF Notify
<1>2. RestTypes' /\ RestOthers(r)
  BY <1>1, InvFacts DEF RestTypes, RestOthers
<1>3. History(r)' /\ ChargedOnce(r)'
  BY <1>1, InvFacts DEF History, ChargedOnce, handler
<1>4. CASE /\ Goto(r, End(r)) /\ answer' = [answer EXCEPT ![r] = "result"]
           /\ UNCHANGED <<err, decision, denied>>
  <2>1. /\ End(r) \in {"finally", "over"}
        /\ End(r) = "finally" <=> handler(r).traced
        /\ handler(r)' = handler(r)
    BY <1>1, InvFacts, HandlerFacts DEF End, handler
  <2>2. pc'[r] = End(r) /\ answer'[r] = "result"
    BY <1>4, <2>1, InvFacts DEF Goto, TypeOK
  <2>3. OutcomeTypes' /\ OutcomeOthers(r)
    BY <1>4, <2>1, InvFacts
    DEF OutcomeTypes, OutcomeOthers, Labels, Goto, TypeOK
  <2>4. TypeOK' /\ Others(r)
    BY <1>2, <2>3, TypesSplitNext, OthersSplit
  <2>5. Place(r)'
    BY <2>1, <2>2 DEF Place, Active
  <2>6. Verdict(r)'
    BY <1>1, <1>4, <2>1, <2>2, InvFacts DEF Verdict, Active, AnyError
  <2>7. LogInv'
    BY <1>1, <2>1, <2>2, <2>4, InvFacts, LogKept
  <2>8. CountInv'
    <3>1. (r \in CountedRequests)' <=> r \in CountedRequests
      BY <1>1, <1>4 DEF CountedRequests
    <3> QED
      BY <1>4, <2>4, <3>1, InvFacts, CountKept
  <2>9. \A q \in Request : RequestInv(q)'
    BY <1>3, <2>4, <2>5, <2>6, OthersKeep DEF RequestInv, PipelineInv
  <2> QED
    BY <2>4, <2>7, <2>8, <2>9 DEF PipelineInv
<1>5. CASE ThrowAtAwait(r)
  BY <1>1, <1>2, <1>3, <1>5, ThrowStep DEF Active, AnyError, ThrowAtAwait
<1> QED
  BY <1>4, <1>5 DEF Notify

-----------------------------------------------------------------------------
(* The first and the last steps of a request *)

LEMMA ArriveInv ==
  ASSUME PipelineInv, NEW r \in Request, NEW t \in Tool, Arrive(r, t)
  PROVE  PipelineInv'
<1>1. /\ pc[r] = "idle" /\ t # "latency_report" /\ Goto(r, "begin")
      /\ tool' = [tool EXCEPT ![r] = t] /\ NoThrow
      /\ UNCHANGED <<call, passed, charged, committed, worker, audit>>
  BY DEF Arrive
<1>2. PICK c \in BOOLEAN : /\ c => Handler[t].traced
                           /\ ctx' = [ctx EXCEPT ![r] = c]
  BY DEF Arrive
<1>3. PICK a \in {"default", "named"} : actor' = [actor EXCEPT ![r] = a]
  BY DEF Arrive
<1>4. /\ pc'[r] = "begin" /\ OutcomeTypes' /\ OutcomeOthers(r)
  BY <1>1, InvFacts, MoveFacts DEF Labels
<1>5. /\ tool' \in [Request -> Tool] /\ tool'[r] = t
      /\ \A q \in Request \ {r} : tool'[q] = tool[q]
  BY <1>1, InvFacts DEF TypeOK
<1>6. /\ ctx' \in [Request -> BOOLEAN] /\ ctx'[r] = c
      /\ \A q \in Request \ {r} : ctx'[q] = ctx[q]
  BY <1>2, InvFacts DEF TypeOK
<1>7. /\ actor' \in [Request -> {"default", "named", "subject"}]
      /\ \A q \in Request \ {r} : actor'[q] = actor[q]
  BY <1>3, InvFacts DEF TypeOK
<1>8. TypeOK' /\ Others(r)
  <2>1. RestTypes' /\ RestOthers(r)
    BY <1>1, <1>5, <1>6, <1>7, InvFacts DEF RestTypes, RestOthers
  <2> QED
    BY <1>4, <2>1, TypesSplitNext, OthersSplit
<1>9. /\ passed'[r] = <<>> /\ call'[r] = 1
      /\ committed'[r] = "no" /\ charged'[r] = "nobody"
      /\ err'[r] = "none" /\ decision'[r] = "allow" /\ answer'[r] = "none"
  BY <1>1, InvFacts DEF Place, History, Verdict, NoThrow
<1>10. handler(r)' = Handler[t] /\ Known(t) /\ Handler[t].checks \in Seq(Checks)
  BY <1>5, HandlersKnown, CheckListFacts DEF handler, Known
<1>11. History(r)' /\ Place(r)' /\ ChargedOnce(r)'
  BY <1>1, <1>4, <1>5, <1>9, <1>10 DEF History, Place, ChargedOnce, Active
<1>12. Verdict(r)'
  BY <1>2, <1>4, <1>6, <1>9, <1>10 DEF Verdict, Active, AnyError
<1>13. LogInv'
  BY <1>1, <1>4, <1>8, InvFacts, LogKept
<1>14. CountInv'
  <2>1. (r \in CountedRequests)' <=> r \in CountedRequests
    BY <1>1, <1>9, InvFacts DEF CountedRequests, Verdict
  <2> QED
    BY <1>1, <1>8, <2>1, InvFacts, CountKept DEF NoThrow
<1>15. \A q \in Request : RequestInv(q)'
  BY <1>8, <1>11, <1>12, OthersKeep DEF RequestInv, PipelineInv
<1> QED
  BY <1>8, <1>13, <1>14, <1>15 DEF PipelineInv

LEMMA LatencyInv ==
  ASSUME PipelineInv, NEW r \in Request, Latency(r)
  PROVE  PipelineInv'
<1>1. /\ pc[r] = "idle" /\ pc' = [pc EXCEPT ![r] = "over"]
      /\ tool' = [tool EXCEPT ![r] = "latency_report"]
      /\ answer' = [answer EXCEPT ![r] = "result"]
      /\ UNCHANGED <<ctx, actor, call, decision, err, passed, charged,
                     committed, worker, audit, denied>>
  BY DEF Latency, Goto
<1>2. "latency_report" \in Tool
  BY DEF Tool, Handler
<1>3. /\ tool' \in [Request -> Tool] /\ tool'[r] = "latency_report"
      /\ \A q \in Request \ {r} : tool'[q] = tool[q]
  BY <1>1, <1>2, InvFacts DEF TypeOK
<1>4. OutcomeTypes' /\ OutcomeOthers(r) /\ pc'[r] = "over"
  BY <1>1, InvFacts DEF OutcomeTypes, OutcomeOthers, Labels, TypeOK
<1>5. TypeOK' /\ Others(r)
  <2>1. RestTypes' /\ RestOthers(r)
    BY <1>1, <1>3, InvFacts DEF RestTypes, RestOthers
  <2> QED
    BY <1>4, <2>1, TypesSplitNext, OthersSplit
<1>6. /\ passed'[r] = <<>> /\ committed'[r] = "no"
      /\ charged'[r] = "nobody" /\ err'[r] = "none" /\ decision'[r] = "allow"
      /\ ~ctx'[r]
  BY <1>1, InvFacts DEF Place, History, Verdict
<1>7. ~handler(r)'.traced /\ handler(r)'.checks = <<>>
  BY <1>3 DEF handler, Handler, latency_report
<1>8. History(r)' /\ Place(r)' /\ ChargedOnce(r)'
  BY <1>4, <1>6, <1>7 DEF History, Place, ChargedOnce, Active
<1>9. Verdict(r)'
  BY <1>4, <1>6, <1>7 DEF Verdict, Active
<1>10. LogInv'
  BY <1>1, <1>5, <1>7, InvFacts, LogKept
<1>11. CountInv'
  <2>1. (r \in CountedRequests)' <=> r \in CountedRequests
    BY <1>1, <1>6, InvFacts DEF CountedRequests, Verdict
  <2> QED
    BY <1>1, <1>5, <2>1, InvFacts, CountKept
<1>12. \A q \in Request : RequestInv(q)'
  BY <1>5, <1>8, <1>9, OthersKeep DEF RequestInv, PipelineInv
<1> QED
  BY <1>5, <1>10, <1>11, <1>12 DEF PipelineInv

(* Whatever interrupts a traced request leads to its finally clause; it    *)
(* may replace the answer, and an error that is raised already stays.      *)
LEMMA ToFinally ==
  ASSUME PipelineInv, NEW r \in Request, pc[r] \in Active \cup {"except"},
         handler(r).traced, pc' = [pc EXCEPT ![r] = "finally"],
         NEW a \in {"error", "unreachable", "cancelled"},
         answer' = [answer EXCEPT ![r] = a],
         a # "cancelled" => err[r] \in AnyError,
         NEW e, e = err[r] \/ (err[r] = "none" /\ e = "cancelled"),
         err' = [err EXCEPT ![r] = e],
         UNCHANGED <<tool, ctx, actor, call, decision, passed, charged,
                     committed, worker, audit, denied>>
  PROVE  PipelineInv'
<1>1. err[r] \in AnyError \cup {"none", "cancelled"}
  BY InvFacts DEF TypeOK
<1>2. /\ err' \in [Request -> AnyError \cup {"none", "cancelled"}]
      /\ err'[r] = e /\ \A q \in Request \ {r} : err'[q] = err[q]
  BY <1>1, InvFacts DEF TypeOK
<1>3. /\ OutcomeTypes' /\ OutcomeOthers(r) /\ pc'[r] = "finally" /\ answer'[r] = a
  BY <1>2, InvFacts DEF OutcomeTypes, OutcomeOthers, Labels, TypeOK
<1>4. TypeOK' /\ Others(r)
  <2>1. RestTypes' /\ RestOthers(r)
    BY InvFacts DEF RestTypes, RestOthers
  <2> QED
    BY <1>3, <2>1, TypesSplitNext, OthersSplit
<1>5. handler(r)' = handler(r)
  BY DEF handler
<1>6. History(r)' /\ ChargedOnce(r)'
  BY <1>5, InvFacts DEF History, ChargedOnce
<1>7. Place(r)'
  BY <1>3 DEF Place, Active
<1>8. err'[r] \in AnyError <=> err[r] \in AnyError
  BY <1>2 DEF AnyError
<1>9. Verdict(r)'
  <2>1. /\ ctx[r] => handler(r).traced
        /\ decision[r] = "deny" <=> handler(r).traced /\ err[r] \in AnyError
    BY InvFacts DEF Verdict
  <2> QED
    BY <1>3, <1>5, <1>8, <2>1 DEF Verdict, Active
<1>10. LogInv'
  <2>1. pc[r] # "over" /\ pc'[r] # "over"
    BY <1>3 DEF Active
  <2> QED
    BY <1>4, <2>1, InvFacts, LogKept
<1>11. CountInv'
  <2>1. (r \in CountedRequests)' <=> r \in CountedRequests
    BY <1>2, InvFacts DEF CountedRequests, Verdict, AnyError
  <2> QED
    BY <1>4, <2>1, InvFacts, CountKept
<1>12. \A q \in Request : RequestInv(q)'
  BY <1>4, <1>6, <1>7, <1>9, OthersKeep DEF RequestInv, PipelineInv
<1> QED
  BY <1>4, <1>10, <1>11, <1>12 DEF PipelineInv

LEMMA ExceptInv ==
  ASSUME PipelineInv, NEW r \in Request, Except(r)
  PROVE  PipelineInv'
<1>1. /\ pc[r] = "except" /\ pc' = [pc EXCEPT ![r] = "finally"]
      /\ answer' \in {answer, [answer EXCEPT ![r] = "error"]}
      /\ UNCHANGED <<tool, ctx, actor, call, decision, err, passed, charged,
                     committed, worker, audit, denied>>
  BY DEF Except, Goto
<1>2. /\ handler(r).traced /\ err[r] \in AnyError
      /\ answer[r] \in {"error", "unreachable"}
  BY <1>1, InvFacts DEF Verdict
<1>3. err' = [err EXCEPT ![r] = err[r]]
  BY <1>1, InvFacts DEF TypeOK
<1>4. CASE answer' = answer
  <2>1. answer' = [answer EXCEPT ![r] = answer[r]]
    BY <1>4, InvFacts DEF TypeOK
  <2> QED
    BY <1>1, <1>2, <1>3, <2>1, ToFinally
<1>5. CASE answer' = [answer EXCEPT ![r] = "error"]
  BY <1>1, <1>2, <1>3, <1>5, ToFinally
<1> QED
  BY <1>1, <1>4, <1>5

(* Only a traced request can be cancelled: an untraced one has no context  *)
(* and no thread.                                                          *)
LEMMA CancelInv ==
  ASSUME PipelineInv, NEW r \in Request, Cancel(r)
  PROVE  PipelineInv'
<1>1. /\ AtAwait(r) /\ pc' = [pc EXCEPT ![r] = "finally"]
      /\ err' = [err EXCEPT ![r] = IF err[r] = "none" THEN "cancelled" ELSE err[r]]
      /\ answer' = [answer EXCEPT ![r] = "cancelled"]
      /\ UNCHANGED <<tool, ctx, actor, call, decision, passed, charged,
                     committed, worker, audit, denied>>
  BY DEF Cancel, Goto
<1>2. pc[r] \in Active \cup {"except"}
  BY <1>1 DEF AtAwait, Active
<1>3. handler(r).traced
  <2>1. ctx[r] \/ pc[r] = "thread"
    BY <1>1 DEF AtAwait
  <2> QED
    BY <2>1, InvFacts DEF Verdict, Place
<1> QED
  BY <1>1, <1>2, <1>3, ToFinally

(* The line that is written has the type of a line. *)
LEMMA LineType ==
  ASSUME PipelineInv, NEW r \in Request
  PROVE  Line(r) \in [request : Request, actor : {"default", "named", "subject"},
                      decision : {"allow", "deny"},
                      error_code : AnyError \cup {"none"}]
<1>1. /\ actor[r] \in {"default", "named", "subject"}
      /\ decision[r] \in {"allow", "deny"}
      /\ err[r] \in AnyError \cup {"none", "cancelled"}
  BY InvFacts DEF TypeOK
<1>2. error_code(r) \in AnyError \cup {"none"}
  BY <1>1 DEF error_code
<1> QED
  BY <1>1, <1>2 DEF Line

(* The one step that ends a traced request and writes, or fails to write,  *)
(* its line.                                                               *)
LEMMA FinallyInv ==
  ASSUME PipelineInv, NEW r \in Request, Finally(r)
  PROVE  PipelineInv'
<1>1. /\ pc[r] = "finally" /\ pc' = [pc EXCEPT ![r] = "over"]
      /\ \/ audit' = Append(audit, Line(r)) /\ answer' = answer
         \/ audit' = audit /\ answer' = [answer EXCEPT ![r] = "unaudited"]
      /\ UNCHANGED <<tool, ctx, actor, call, decision, err, passed, charged,
                     committed, worker, denied>>
  BY DEF Finally, Goto
<1>2. /\ answer' \in [Request -> {"none", "result", "error", "unreachable",
                                   "cancelled", "unaudited"}]
      /\ \A q \in Request \ {r} : answer'[q] = answer[q]
      /\ answer'[r] \in {answer[r], "unaudited"}
  BY <1>1, InvFacts DEF TypeOK
<1>3. OutcomeTypes' /\ OutcomeOthers(r) /\ pc'[r] = "over"
  BY <1>1, <1>2, InvFacts DEF OutcomeTypes, OutcomeOthers, Labels, TypeOK
<1>4. TypeOK' /\ Others(r)
  <2> DEFINE AuditLine == [request : Request,
                           actor : {"default", "named", "subject"},
                           decision : {"allow", "deny"},
                           error_code : AnyError \cup {"none"}]
  <2>1. audit \in Seq(AuditLine) /\ Line(r) \in AuditLine
    BY InvFacts, LineType DEF TypeOK
  <2>2. audit' \in Seq(AuditLine)
    <3> HIDE DEF AuditLine
    <3> QED
      BY <1>1, <2>1
  <2>3. RestTypes' /\ RestOthers(r)
    BY <1>1, <2>2, InvFacts DEF RestTypes, RestOthers
  <2> QED
    BY <1>3, <2>3, TypesSplitNext, OthersSplit
<1>5. \A q \in Request : handler(q)' = handler(q) /\ Line(q)' = Line(q)
  BY <1>1 DEF handler, Line, error_code
<1>6. History(r)' /\ Place(r)' /\ ChargedOnce(r)'
  BY <1>1, <1>3, <1>5, InvFacts DEF History, Place, ChargedOnce, Active
<1>7. handler(r).traced /\ answer[r] # "unaudited"
  BY <1>1, InvFacts DEF Verdict
<1>8. Verdict(r)'
  BY <1>1, <1>2, <1>3, <1>5, <1>7, InvFacts DEF Verdict, Active
<1>9. CountInv'
  <2>1. (r \in CountedRequests)' <=> r \in CountedRequests
    BY <1>1 DEF CountedRequests
  <2> QED
    BY <1>1, <1>4, <2>1, InvFacts, CountKept
<1>10. \A i \in 1..Len(audit) : audit[i].request \in Request \ {r}
  <2>1. \A i \in 1..Len(audit) : audit[i].request # r
    BY <1>1, InvFacts DEF LogInv
  <2> QED
    BY <2>1, InvFacts, LineTypes
<1>11. ASSUME NEW i \in 1..Len(audit), NEW q \in Request, audit[i].request = q
       PROVE  /\ pc'[q] = "over" /\ handler(q)'.traced /\ answer'[q] # "unaudited"
              /\ audit[i] = Line(q)'
  <2>1. /\ pc[q] = "over" /\ handler(q).traced /\ answer[q] # "unaudited"
        /\ audit[i] = Line(q)
    BY <1>11, InvFacts DEF LogInv
  <2>2. q \in Request \ {r}
    BY <1>10, <1>11
  <2> QED
    BY <1>4, <1>5, <2>1, <2>2 DEF Others
<1>12. LogInv'
  <2>1. CASE audit' = audit /\ answer' = [answer EXCEPT ![r] = "unaudited"]
    <3>1. answer'[r] = "unaudited"
      BY <2>1, InvFacts DEF TypeOK
    <3>2. ASSUME NEW q \in Request, pc'[q] = "over", handler(q)'.traced,
                 answer'[q] # "unaudited"
          PROVE  \E i \in 1..Len(audit) : audit[i].request = q
      BY <1>4, <1>5, <3>1, <3>2, InvFacts DEF LogInv, Others
    <3>3. \A i, j \in 1..Len(audit) : audit[i].request = audit[j].request => i = j
      BY InvFacts DEF LogInv
    <3> QED
      BY <1>10, <1>11, <2>1, <3>2, <3>3 DEF LogInv
  <2>2. CASE audit' = Append(audit, Line(r)) /\ answer' = answer
    <3> DEFINE n == Len(audit)
    <3>1. /\ n \in Nat /\ Len(audit') = n + 1 /\ audit'[n + 1] = Line(r)
          /\ \A i \in 1..n : audit'[i] = audit[i]
      <4> DEFINE AuditLine == [request : Request,
                               actor : {"default", "named", "subject"},
                               decision : {"allow", "deny"},
                               error_code : AnyError \cup {"none"}]
      <4>1. audit \in Seq(AuditLine) /\ Line(r) \in AuditLine
        BY InvFacts, LineType DEF TypeOK
      <4> HIDE DEF AuditLine
      <4> QED
        BY <2>2, <4>1
    <3>2. Line(r).request = r
      BY DEF Line
    <3>3. ASSUME NEW i \in 1..(n + 1), NEW q \in Request, audit'[i].request = q
          PROVE  /\ pc'[q] = "over" /\ handler(q)'.traced
                 /\ answer'[q] # "unaudited" /\ audit'[i] = Line(q)'
      <4>1. CASE i \in 1..n
        BY <1>11, <3>1, <3>3, <4>1
      <4>2. CASE i = n + 1
        <5>1. q = r /\ audit'[i] = Line(r)
          BY <3>1, <3>2, <3>3, <4>2
        <5> QED
          BY <1>3, <1>5, <1>7, <2>2, <5>1
      <4> QED
        BY <3>1, <4>1, <4>2
    <3>4. ASSUME NEW i \in 1..(n + 1), NEW j \in 1..(n + 1),
                 audit'[i].request = audit'[j].request
          PROVE  i = j
      <4>1. \A k \in 1..n, m \in 1..n : audit[k].request = audit[m].request => k = m
        BY InvFacts DEF LogInv
      <4>2. CASE i \in 1..n /\ j \in 1..n
        BY <3>1, <3>4, <4>1, <4>2
      <4>3. CASE i \in 1..n /\ j = n + 1
        BY <1>10, <3>1, <3>2, <3>4, <4>3
      <4>4. CASE i = n + 1 /\ j \in 1..n
        BY <1>10, <3>1, <3>2, <3>4, <4>4
      <4> QED
        BY <3>1, <4>2, <4>3, <4>4
    <3>5. ASSUME NEW q \in Request, pc'[q] = "over", handler(q)'.traced,
                 answer'[q] # "unaudited"
          PROVE  \E i \in 1..(n + 1) : audit'[i].request = q
      <4>1. CASE q = r
        BY <3>1, <3>2, <4>1
      <4>2. CASE q # r
        <5>1. PICK i \in 1..n : audit[i].request = q
          BY <1>4, <1>5, <3>5, <4>2, InvFacts DEF LogInv, Others
        <5> QED
          BY <3>1, <5>1
      <4> QED
        BY <4>1, <4>2
    <3>6. \A i \in 1..(n + 1) : audit'[i].request \in Request
      BY <1>10, <3>1, <3>2
    <3> QED
      BY <3>1, <3>3, <3>4, <3>5, <3>6 DEF LogInv
  <2> QED
    BY <1>1, <2>1, <2>2
<1>13. \A q \in Request : RequestInv(q)'
  BY <1>4, <1>6, <1>8, OthersKeep DEF RequestInv, PipelineInv
<1> QED
  BY <1>4, <1>9, <1>12, <1>13 DEF PipelineInv

-----------------------------------------------------------------------------
(* Initially nothing has happened. *)
LEMMA InitInv == Init => PipelineInv
<1> SUFFICES ASSUME Init PROVE PipelineInv
  OBVIOUS
<1>1. "ping" \in Tool /\ Known("ping")
  BY HandlersKnown DEF Tool, Handler
<1>2. TypeOK
  BY <1>1 DEF Init, TypeOK
<1>3. ASSUME NEW r \in Request PROVE RequestInv(r)
  <2>1. handler(r).checks \in Seq(Checks)
    BY <1>2, HandlerFacts
  <2>2. /\ pc[r] = "idle" /\ ~ctx[r] /\ call[r] = 1 /\ decision[r] = "allow"
        /\ err[r] = "none" /\ passed[r] = <<>> /\ charged[r] = "nobody"
        /\ committed[r] = "no" /\ answer[r] = "none"
    BY DEF Init
  <2>3. History(r) /\ Place(r) /\ ChargedOnce(r)
    BY <2>1, <2>2 DEF History, Place, ChargedOnce, Active
  <2>4. Verdict(r)
    BY <2>2 DEF Verdict, Active, AnyError
  <2> QED
    BY <2>3, <2>4 DEF RequestInv
<1>4. LogInv
  BY DEF Init, LogInv
<1>5. CountInv
  <2>1. CountedRequests = {}
    BY DEF Init, CountedRequests
  <2> QED
    BY <2>1, FS_EmptySet DEF Init, CountInv
<1> QED
  BY <1>2, <1>3, <1>4, <1>5 DEF PipelineInv

(* Stuttering, also of a system in which every request is over. *)
LEMMA StutterInv ==
  ASSUME PipelineInv, UNCHANGED vars
  PROVE  PipelineInv'
<1> USE DEF vars
<1>1. TypeOK'
  BY DEF PipelineInv, TypeOK
<1>2. \A r \in Request : handler(r)' = handler(r) /\ Line(r)' = Line(r)
  BY DEF handler, Line, error_code
<1>3. ASSUME NEW r \in Request PROVE RequestInv(r)'
  <2>1. RequestInv(r) /\ handler(r)' = handler(r)
    BY <1>2, InvFacts
  <2> QED
    BY <2>1 DEF RequestInv, History, Place, ChargedOnce, Verdict
<1>4. LogInv'
  BY <1>2, LineTypes DEF PipelineInv, LogInv
<1>5. CountInv'
  BY DEF PipelineInv, CountInv, CountedRequests
<1> QED
  BY <1>1, <1>3, <1>4, <1>5 DEF PipelineInv

LEMMA StepInv == PipelineInv /\ [Next]_vars => PipelineInv'
<1> SUFFICES ASSUME PipelineInv, [Next]_vars PROVE PipelineInv'
  OBVIOUS
<1>1. ASSUME NEW r \in Request, NEW t \in ToolsOf[r], Arrive(r, t)
      PROVE  PipelineInv'
  BY <1>1, PipelineAssumption, ArriveInv
<1>2. ASSUME NEW r \in Request, Latency(r) \/ Run(r) \/ Cancel(r)
      PROVE  PipelineInv'
  BY <1>2, LatencyInv, CancelInv, BeginInv, AuthorizeInv, TouchInv,
     OtherCheckInv, CallMustInv, CallWarnedInv, CallCommitInv, ThreadStartInv,
     ThreadEndInv, NotifyInv, ExceptInv, FinallyInv DEF Run
<1>3. CASE Done \/ UNCHANGED vars
  BY <1>3, StutterInv DEF Done
<1> QED
  BY <1>1, <1>2, <1>3 DEF Next

-----------------------------------------------------------------------------
(* The inductive invariant holds of every behaviour, whatever is called,   *)
(* refused, cancelled or lost.                                             *)
THEOREM PipelineInvariance == Spec => []PipelineInv
  BY InitInv, StepInv, PTL DEF Spec

(* The requests and the audit log keep their types. *)
THEOREM PipelineTypes == Spec => []TypeOK
<1>1. PipelineInv => TypeOK
  BY DEF PipelineInv
<1> QED
  BY <1>1, PipelineInvariance, PTL

(* However a call ends, its one audit line agrees with its answer, or its  *)
(* answer says that there is none.                                         *)
THEOREM LogAlwaysAgrees == Spec => []LogAgreesWithAnswer
<1>1. ASSUME PipelineInv, NEW r \in Request, pc[r] = "over", handler(r).traced
      PROVE  \/ Lines(r) = {} /\ answer[r] = "unaudited"
             \/ \E i \in Lines(r) :
                  /\ Lines(r) = {i}
                  /\ audit[i].decision = "allow" <=> audit[i].error_code = "none"
                  /\ answer[r] = "result" => audit[i].decision = "allow"
                  /\ answer[r] \in {"error", "unreachable"} =>
                       audit[i].decision = "deny"
  <2>1. CASE answer[r] = "unaudited"
    <3>1. \A i \in 1..Len(audit) : audit[i].request # r
      BY <1>1, <2>1, InvFacts DEF LogInv
    <3> QED
      BY <2>1, <3>1 DEF Lines
  <2>2. CASE answer[r] # "unaudited"
    <3>1. PICK i \in 1..Len(audit) : audit[i].request = r
      BY <1>1, <2>2, InvFacts DEF LogInv
    <3>2. Lines(r) = {i} /\ i \in Lines(r)
      BY <1>1, <3>1, InvFacts DEF LogInv, Lines
    <3>3. audit[i].decision = decision[r] /\ audit[i].error_code = error_code(r)
      <4>1. audit[i] = Line(r)
        BY <1>1, <3>1, InvFacts DEF LogInv
      <4> QED
        BY <4>1 DEF Line
    <3>4. /\ decision[r] \in {"allow", "deny"}
          /\ err[r] \in AnyError \cup {"none", "cancelled"}
      BY <1>1, InvFacts DEF TypeOK
    <3>5. /\ decision[r] = "deny" <=> err[r] \in AnyError
          /\ answer[r] = "result" => err[r] = "none"
          /\ answer[r] \in {"error", "unreachable"} => err[r] \in AnyError
      BY <1>1, InvFacts DEF Verdict
    <3>6. error_code(r) = "none" <=> err[r] \notin AnyError
      BY <3>4 DEF error_code, AnyError
    <3>7. decision[r] = "allow" <=> err[r] \notin AnyError
      BY <3>4, <3>5
    <3>8. "none" \notin AnyError
      BY DEF AnyError
    <3> QED
      BY <3>2, <3>3, <3>5, <3>6, <3>7, <3>8
  <2> QED
    BY <2>1, <2>2
<1>2. PipelineInv => LogAgreesWithAnswer
  BY <1>1 DEF LogAgreesWithAnswer
<1> QED
  BY <1>2, PipelineInvariance, PTL

(* The log names the actor who was charged. *)
THEOREM LogAlwaysNamesCharged == Spec => []LogNamesCharged
<1>1. ASSUME PipelineInv, NEW i \in 1..Len(audit)
      PROVE  charged[audit[i].request] \in {"nobody", audit[i].actor}
  <2>1. PICK r \in Request : audit[i].request = r
    BY <1>1, LineTypes DEF PipelineInv
  <2>2. audit[i] = Line(r)
    BY <1>1, <2>1, InvFacts DEF LogInv
  <2>3. audit[i].actor = actor[r]
    BY <2>2 DEF Line
  <2> QED
    BY <1>1, <2>1, <2>3, InvFacts DEF ChargedOnce
<1>2. PipelineInv => LogNamesCharged
  BY <1>1 DEF LogNamesCharged
<1> QED
  BY <1>2, PipelineInvariance, PTL

-----------------------------------------------------------------------------
(* The log and the counter *)

(* How many are left of D without one and without the other of two parts. *)
LEMMA TwoParts ==
  ASSUME NEW D, IsFiniteSet(D), NEW U \in SUBSET D, NEW L \in SUBSET D
  PROVE  Cardinality(D \ L) =
           Cardinality(D \ U) + Cardinality(U \ L) - Cardinality(L \ U)
<1>1. D \cap L = L /\ D \cap U = U /\ U \cap L = L \cap U
  OBVIOUS
<1>2. IsFiniteSet(U) /\ IsFiniteSet(L) /\ IsFiniteSet(L \cap U)
  BY FS_Subset
<1>3. /\ Cardinality(D \ L) = Cardinality(D) - Cardinality(L)
      /\ Cardinality(D \ U) = Cardinality(D) - Cardinality(U)
  <2>1. Cardinality(D \ L) = Cardinality(D) - Cardinality(D \cap L)
    BY FS_Difference
  <2>2. Cardinality(D \ U) = Cardinality(D) - Cardinality(D \cap U)
    BY FS_Difference
  <2> QED
    BY <1>1, <2>1, <2>2
<1>4. /\ Cardinality(U \ L) = Cardinality(U) - Cardinality(L \cap U)
      /\ Cardinality(L \ U) = Cardinality(L) - Cardinality(L \cap U)
  BY <1>1, <1>2, FS_Difference
<1>5. /\ Cardinality(D) \in Nat /\ Cardinality(U) \in Nat /\ Cardinality(L) \in Nat
      /\ Cardinality(L \cap U) \in Nat
  BY <1>2, FS_CardinalityType
<1> QED
  BY <1>3, <1>4, <1>5

(* When nothing is under way the denials in the log are those of the       *)
(* requests whose line was written, one each.                              *)
LEMMA DeniedLines ==
  ASSUME PipelineInv, \A r \in Request : pc[r] \in {"idle", "over"}
  PROVE  summarize_audit_events.deny_total =
           Cardinality({r \in Request : decision[r] = "deny"
                                        /\ answer[r] # "unaudited"})
<1> DEFINE I == {i \in 1..Len(audit) : audit[i].decision = "deny"}
           R == {r \in Request : decision[r] = "deny" /\ answer[r] # "unaudited"}
           f == [i \in I |-> audit[i].request]
<1>1. ASSUME NEW i \in 1..Len(audit)
      PROVE  /\ audit[i].request \in Request /\ answer[audit[i].request] # "unaudited"
             /\ audit[i].decision = decision[audit[i].request]
  <2>1. PICK r \in Request : audit[i].request = r
    BY <1>1, LineTypes DEF PipelineInv
  <2>2. audit[i] = Line(r) /\ answer[r] # "unaudited"
    BY <1>1, <2>1, InvFacts DEF LogInv
  <2> QED
    BY <2>1, <2>2 DEF Line
<1>2. f \in [I -> R]
  BY <1>1
<1>3. \A i, j \in I : f[i] = f[j] => i = j
  <2>1. \A i, j \in 1..Len(audit) : audit[i].request = audit[j].request => i = j
    BY DEF PipelineInv, LogInv
  <2> QED
    BY <2>1
<1>4. ASSUME NEW r \in R PROVE \E i \in I : f[i] = r
  <2>1. pc[r] = "over" /\ handler(r).traced
    BY InvFacts DEF Verdict
  <2>2. PICK i \in 1..Len(audit) : audit[i].request = r
    BY <2>1, InvFacts DEF LogInv
  <2>3. i \in I
    BY <1>1, <2>2
  <2> QED
    BY <2>2, <2>3
<1>5. ExistsBijection(I, R)
  <2>1. f \in Bijection(I, R)
    BY <1>2, <1>3, <1>4 DEF Bijection, Injection, Surjection, IsInjective
  <2> QED
    BY <2>1 DEF ExistsBijection
<1>6. IsFiniteSet(I)
  <2>1. IsFiniteSet(1..Len(audit))
    BY LineTypes, FS_Interval DEF PipelineInv
  <2> QED
    BY <2>1, FS_Subset
<1>7. Cardinality(R) = Cardinality(I)
  BY <1>5, <1>6, FS_Bijection
<1> QED
  BY <1>7 DEF summarize_audit_events

(* denied_requests and the summary of the log differ by the errors that    *)
(* some handlers do not count and by the lines that were not written, and  *)
(* by nothing else.                                                        *)
THEOREM DeniedAlwaysReconciles == Spec => []DeniedReconciles
<1>1. ASSUME PipelineInv PROVE DeniedReconciles
  <2> DEFINE D == {r \in Request : decision[r] = "deny"}
             U == {r \in D : /\ err[r] # "permission"
                             /\ tool[r] \in CountsPermission}
             L == {r \in D : answer[r] = "unaudited"}
  <2>1. denied = Cardinality(D \ U)
    <3>1. D \ U = CountedRequests
      BY DEF CountedRequests
    <3> QED
      BY <1>1, <3>1 DEF PipelineInv, CountInv
  <2>2. ASSUME \A r \in Request : pc[r] \in {"idle", "over"}
        PROVE  summarize_audit_events.deny_total =
                 denied + Cardinality(U \ L) - Cardinality(L \ U)
    <3>1. D \ L = {r \in Request : decision[r] = "deny" /\ answer[r] # "unaudited"}
      OBVIOUS
    <3>2. summarize_audit_events.deny_total = Cardinality(D \ L)
      BY <1>1, <2>2, <3>1, DeniedLines
    <3>3. IsFiniteSet(D) /\ U \in SUBSET D /\ L \in SUBSET D
      BY PipelineAssumption, FS_Subset
    <3> HIDE DEF D, U, L
    <3> QED
      BY <2>1, <3>2, <3>3, TwoParts
  <2> QED
    BY <2>1, <2>2 DEF DeniedReconciles, CountsPermission
<1> QED
  BY <1>1, PipelineInvariance, PTL
=============================================================================
