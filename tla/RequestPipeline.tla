-------------------------- MODULE RequestPipeline --------------------------
(***************************************************************************)
(* The life of a tool call in src/tools/sql_tools.py, from the arrival of  *)
(* the request to its line in the audit log.                               *)
(*                                                                         *)
(* Every handler is a coroutine with the same skeleton: checks, database   *)
(* calls and messages to the client inside a `try', `except' clauses that  *)
(* set the decision to "deny", and a `finally' that writes the metrics and *)
(* the audit line.  What distinguishes the handlers is data: a record per  *)
(* handler says which checks it makes, in which order, which database      *)
(* calls, and which exceptions it counts.  Requests interleave on the      *)
(* event loop; a message to the client (await ctx.debug/info/warning/...)  *)
(* may raise, and a request may be cancelled (by the client or by the      *)
(* tool's timeout) at every await.  CancelledError is no Exception: the    *)
(* `except' clauses do not see it, the `finally' does.                     *)
(*                                                                         *)
(* The verdicts of the session manager, the rate limiter and the write     *)
(* guard, and the results of database calls, are nondeterministic here:    *)
(* SessionManager, RateLimiter and ConnectionPool say which are possible.  *)
(* So is the token of the caller, within what the privileges allow.        *)
(***************************************************************************)
EXTENDS Integers, FiniteSets, Sequences

CONSTANTS
  Request,
  AuthEnforced,   \* _auth_enforced()
  GroupsDecide,   \* azure_group_authorization_enabled
  ToolsOf         \* ToolsOf[r]: the handlers that request r may call

VARIABLES
  pc,         \* where a request is
  tool,       \* its handler
  ctx,        \* it has a context to send messages to
  actor,      \* "default" (system/unknown), "named" or "subject"
  call,       \* its next database call
  decision,   \* "allow" or "deny"
  err,        \* the exception that was raised: its class, or "none"
  passed,     \* history: the checks it has passed
  charged,    \* history: the actor that was charged for its session
  committed,  \* history: its procedure was committed: "no", "yes" or "doubt"
  answer,     \* what the client gets
  worker,     \* a thread of its asyncio.to_thread is at work
  audit,      \* the lines of the audit log, in order
  denied      \* state.denied_requests

vars == <<pc, tool, ctx, actor, call, decision, err, passed, charged, committed,
          answer, worker, audit, denied>>

-----------------------------------------------------------------------------
(* The handlers.  `checks' are made in order, `calls' are the database     *)
(* calls: "must" raises when it (or the evaluation of its rows) fails;     *)
(* "may" is inside a try of its own; "warned" is inside a try that begins  *)
(* with a message and whose except clause warns the client; "thread" is    *)
(* such a call in asyncio.to_thread; "commit" is execute_proc.             *)
(* Neighbouring calls of the same kind are one.  `counts' are the classes  *)
(* of exceptions for which state.denied_requests grows.  The checks that   *)
(* are followed by a message to the client are in `talks'.  A handler that *)
(* is not `traced' has no context, no try and no audit line.               *)

Checks == {"validate", "read", "write", "session", "rate", "proc", "guard"}
AnyError == {"value", "permission", "other"}

(* select and the reports that end in _run_read_tool: the name of the      *)
(* database is validated last.                                             *)
run_read_tool ==
  [checks |-> <<"read", "session", "rate", "guard", "validate">>,
   talks |-> {"session", "rate", "guard"}, calls |-> <<"must">>,
   counts |-> {"permission"}, swallows |-> FALSE, traced |-> TRUE]

select == [run_read_tool EXCEPT !.talks = {}]

(* exec_proc also validates the name of the database last *)
exec_proc ==
  [checks |-> <<"write", "session", "rate", "proc", "guard", "validate">>,
   talks |-> {}, calls |-> <<"commit">>,
   counts |-> {"permission"}, swallows |-> FALSE, traced |-> TRUE]

(* ping reports every error as "not accessible" and does not raise *)
ping ==
  [checks |-> <<"read", "session", "rate">>, talks |-> {},
   calls |-> <<"must">>, counts |-> AnyError, swallows |-> TRUE, traced |-> TRUE]

list_tools == [ping EXCEPT !.swallows = FALSE]

list_object == [ping EXCEPT !.swallows = FALSE]

(* the plan of view_mode FULL is optional *)
execute_query ==
  [checks |-> <<"validate", "read", "session", "rate", "guard">>,
   talks |-> {}, calls |-> <<"must", "may">>,
   counts |-> AnyError, swallows |-> FALSE, traced |-> TRUE]

analyze_tab_health == [execute_query EXCEPT !.calls = <<"must">>]

(* the graph of foreign keys, then the subtools: indexes and normalisation *)
(* and update anomalies in threads, the other anomalies on the event loop, *)
(* data types in a thread again.                                           *)
analyze_db_data_model ==
  [execute_query EXCEPT !.calls = <<"must", "thread", "warned", "thread">>]

analyze_sec_config == [execute_query EXCEPT !.calls = <<"must", "may">>]

sessions_dashboard == [execute_query EXCEPT !.calls = <<"must">>]

(* Query Store or, if it is not available, a DMV; the pressure on objects; *)
(* then the findings, which are not always accepted by build_finding.      *)
top_statements == [execute_query EXCEPT !.calls = <<"must", "may", "must">>]

(* It makes no checks and leaves no trace *)
latency_report ==
  [checks |-> <<>>, talks |-> {}, calls |-> <<>>, counts |-> {},
   swallows |-> FALSE, traced |-> FALSE]

(* The data tool of the interactive app: it validates, is charged, and     *)
(* reads sessions, locks and blocking chains; every exception leaves it.   *)
fetch_sessions_dashboard_data ==
  [latency_report EXCEPT !.checks = <<"validate", "session", "rate", "guard">>,
                         !.calls = <<"must">>]

Handler ==
  [run_read_tool |-> run_read_tool, select |-> select,
   exec_proc |-> exec_proc, ping |-> ping, list_tools |-> list_tools,
   list_object |-> list_object, execute_query |-> execute_query,
   analyze_tab_health |-> analyze_tab_health,
   analyze_db_data_model |-> analyze_db_data_model,
   analyze_sec_config |-> analyze_sec_config,
   sessions_dashboard |-> sessions_dashboard,
   top_statements |-> top_statements, latency_report |-> latency_report,
   fetch_sessions_dashboard_data |-> fetch_sessions_dashboard_data]

Tool == DOMAIN Handler

ASSUME PipelineAssumption ==
  /\ IsFiniteSet(Request)
  /\ AuthEnforced \in BOOLEAN /\ GroupsDecide \in BOOLEAN
  /\ ToolsOf \in [Request -> SUBSET Tool]

handler(r) == Handler[tool[r]]

(* The check that r makes next; it has passed those before it *)
Check(r) == handler(r).checks[Len(passed[r]) + 1]

Init ==
  /\ pc = [r \in Request |-> "idle"]
  /\ tool = [r \in Request |-> "ping"]
  /\ ctx = [r \in Request |-> FALSE]
  /\ actor = [r \in Request |-> "default"]
  /\ call = [r \in Request |-> 1]
  /\ decision = [r \in Request |-> "allow"]
  /\ err = [r \in Request |-> "none"]
  /\ passed = [r \in Request |-> <<>>]
  /\ charged = [r \in Request |-> "nobody"]
  /\ committed = [r \in Request |-> "no"]
  /\ answer = [r \in Request |-> "none"]
  /\ worker = [r \in Request |-> FALSE]
  /\ audit = <<>>
  /\ denied = 0

-----------------------------------------------------------------------------
(* Control flow *)

Goto(r, label) == pc' = [pc EXCEPT ![r] = label]

(* After the checks come the database calls, then the message to the client *)
AfterCheck(r) ==
  IF Len(passed'[r]) < Len(handler(r).checks) THEN "check" ELSE "call"

AfterCall(r) == IF call[r] < Len(handler(r).calls) THEN "call" ELSE "notify"

(* Where a handler goes when it returns or raises *)
End(r) == IF handler(r).traced THEN "finally" ELSE "over"

(* Mutant of Throw: PermissionError alone is a denial *)
ThrowPermissionOnly(r, e) ==
  /\ err' = [err EXCEPT ![r] = e]
  /\ decision' = [decision EXCEPT ![r] = IF e = "permission" THEN "deny" ELSE @]
  /\ denied' = IF e \in handler(r).counts THEN denied + 1 ELSE denied
  /\ Goto(r, IF ctx[r] THEN "except" ELSE End(r))
  /\ answer' = [answer EXCEPT ![r] =
                  IF handler(r).swallows THEN "unreachable" ELSE "error"]

(* Mutant of Throw: every exception is counted *)
ThrowCounted(r, e) ==
  /\ err' = [err EXCEPT ![r] = e]
  /\ decision' = [decision EXCEPT ![r] = IF handler(r).traced THEN "deny" ELSE @]
  /\ denied' = denied + 1
  /\ Goto(r, IF ctx[r] THEN "except" ELSE End(r))
  /\ answer' = [answer EXCEPT ![r] =
                  IF handler(r).swallows THEN "unreachable" ELSE "error"]

(* An Exception is raised.  Inside the try of a handler the except clause  *)
(* sets the decision, counts, and tells the client if it can.              *)
Throw(r, e) ==
  /\ err' = [err EXCEPT ![r] = e]
  /\ decision' = [decision EXCEPT ![r] = IF handler(r).traced THEN "deny" ELSE @]
  /\ denied' = IF e \in handler(r).counts THEN denied + 1 ELSE denied
  /\ Goto(r, IF ctx[r] THEN "except" ELSE End(r))
  /\ answer' = [answer EXCEPT ![r] =
                  IF handler(r).swallows THEN "unreachable" ELSE "error"]

(* A step that raises nothing *)
NoThrow == UNCHANGED <<err, decision, denied, answer>>

(* A message to the client fails *)
ThrowAtAwait(r) == ctx[r] /\ Throw(r, "other")

(* The request arrives; with a context the handler sends a first message *)
Arrive(r, t) ==
  /\ pc[r] = "idle" /\ t # "latency_report"
  /\ tool' = [tool EXCEPT ![r] = t]
  /\ \E c \in BOOLEAN : /\ c => Handler[t].traced
                        /\ ctx' = [ctx EXCEPT ![r] = c]
  /\ \E a \in {"default", "named"} : actor' = [actor EXCEPT ![r] = a]
  /\ Goto(r, "begin")
  /\ NoThrow
  /\ UNCHANGED <<call, passed, charged, committed, worker, audit>>

Begin(r) ==
  /\ pc[r] = "begin"
  /\ \/ Goto(r, "check") /\ NoThrow
     \/ ThrowAtAwait(r)
  /\ UNCHANGED <<tool, ctx, actor, call, passed, charged, committed, worker,
                 audit>>

(* latency_report returns a hint at once *)
Latency(r) ==
  /\ pc[r] = "idle" /\ "latency_report" \in ToolsOf[r]
  /\ tool' = [tool EXCEPT ![r] = "latency_report"]
  /\ answer' = [answer EXCEPT ![r] = "result"]
  /\ Goto(r, "over")
  /\ UNCHANGED <<ctx, actor, call, decision, err, passed, charged, committed,
                 worker, audit, denied>>

-----------------------------------------------------------------------------
(* The checks *)

(* The check is passed; the message that follows some of them may fail *)
Pass(r) ==
  /\ passed' = [passed EXCEPT ![r] = Append(@, Check(r))]
  /\ \/ Goto(r, AfterCheck(r)) /\ NoThrow
     \/ Check(r) \in handler(r).talks /\ ThrowAtAwait(r)

(* Mutant of ResolvedActor: a token that names nobody gives no actor *)
ResolvedAnyway(r, named) ==
  IF AuthEnforced /\ actor[r] = "default"
  THEN IF named THEN "subject" ELSE "missing" ELSE actor[r]

(* The subject of the token, if it names one, replaces a default name only *)
ResolvedActor(r, named) ==
  IF AuthEnforced /\ named /\ actor[r] = "default" THEN "subject" ELSE actor[r]

(* The privilege of a principal with these groups *)
resolve_group_privilege(groups) ==
  CASE ~GroupsDecide \/ "writers" \in groups -> "write"
    [] GroupsDecide /\ groups = {"readers"} -> "read"
    [] GroupsDecide /\ groups = {} -> "none"

(* _resolve_actor_and_authorize: no token, or too low a privilege, is a    *)
(* PermissionError; a group claim of a wrong type is a TypeError, if it is *)
(* looked at.  The actor is resolved only if the message at its end is     *)
(* delivered.                                                              *)
Authorize(r) ==
  /\ pc[r] = "check" /\ Check(r) \in {"read", "write"}
  /\ \/ \E named \in BOOLEAN, groups \in SUBSET {"readers", "writers"} :
          /\ AuthEnforced =>
               resolve_group_privilege(groups) \in {Check(r), "write"}
          /\ actor' = [actor EXCEPT ![r] = ResolvedActor(r, named)]
          /\ passed' = [passed EXCEPT ![r] = Append(@, Check(r))]
          /\ Goto(r, AfterCheck(r)) /\ NoThrow
     \/ /\ AuthEnforced
        /\ \/ Throw(r, "permission")
           \/ GroupsDecide /\ Throw(r, "other")
           \/ ThrowAtAwait(r)
        /\ UNCHANGED <<actor, passed>>
  /\ UNCHANGED <<tool, ctx, call, charged, committed, worker, audit>>

(* session_manager.touch charges the actor *)
Touch(r) ==
  /\ pc[r] = "check" /\ Check(r) = "session"
  /\ \/ charged' = [charged EXCEPT ![r] = actor[r]] /\ Pass(r)
     \/ Throw(r, "permission") /\ UNCHANGED <<charged, passed>>
  /\ UNCHANGED <<tool, ctx, actor, call, committed, worker, audit>>

(* rate_limiter.allow, write_guard.enforce and validate_procedure, and the *)
(* validation of the arguments.  Redis may be out of reach.                *)
OtherCheck(r) ==
  /\ pc[r] = "check" /\ Check(r) \in {"rate", "guard", "proc", "validate"}
  /\ \/ Pass(r)
     \/ /\ \E e \in CASE Check(r) = "rate" -> {"permission", "other"}
                      [] Check(r) = "validate" -> {"value"}
                      [] OTHER -> {"permission"} : Throw(r, e)
        /\ UNCHANGED passed
  /\ UNCHANGED <<tool, ctx, actor, call, charged, committed, worker, audit>>

-----------------------------------------------------------------------------
(* The database *)

(* A read on the event loop: it returns, or raises (a ValueError for an    *)
(* object type that list_objects does not know), unless it is inside a try *)
(* of its own.                                                             *)
CallMust(r) ==
  /\ pc[r] = "call" /\ handler(r).calls[call[r]] \in {"must", "may"}
  /\ \/ Goto(r, AfterCall(r)) /\ NoThrow
     \/ /\ handler(r).calls[call[r]] = "must"
        /\ \E e \in {"value", "other"} : Throw(r, e)
  /\ call' = [call EXCEPT ![r] = @ + 1]
  /\ UNCHANGED <<tool, ctx, actor, passed, charged, committed, worker, audit>>

(* The scans between the messages of a subtool: a failure of the database  *)
(* ends in the warning, a failure of the warning in the caller.            *)
CallWarned(r) ==
  /\ pc[r] = "call" /\ handler(r).calls[call[r]] = "warned"
  /\ (Goto(r, AfterCall(r)) /\ NoThrow) \/ ThrowAtAwait(r)
  /\ call' = [call EXCEPT ![r] = @ + 1]
  /\ UNCHANGED <<tool, ctx, actor, passed, charged, committed, worker, audit>>

(* execute_proc returns, or raises without or in spite of a commit *)
CallCommit(r) ==
  /\ pc[r] = "call" /\ handler(r).calls[call[r]] = "commit"
  /\ \/ /\ committed' = [committed EXCEPT ![r] = "yes"]
        /\ Goto(r, AfterCall(r)) /\ NoThrow
     \/ /\ \E c \in {"no", "doubt"} : committed' = [committed EXCEPT ![r] = c]
        /\ Throw(r, "other")
  /\ call' = [call EXCEPT ![r] = @ + 1]
  /\ UNCHANGED <<tool, ctx, actor, passed, charged, worker, audit>>

(* A message, then asyncio.to_thread: the request waits for the thread.    *)
(* If the message fails the client is warned and the call is skipped; if   *)
(* the warning fails too, or the message before the subtools, it raises.   *)
ThreadStart(r) ==
  /\ pc[r] = "call" /\ handler(r).calls[call[r]] = "thread"
  /\ \/ /\ worker' = [worker EXCEPT ![r] = TRUE]
        /\ Goto(r, "thread") /\ NoThrow
        /\ UNCHANGED call
     \/ /\ ctx[r]
        /\ call' = [call EXCEPT ![r] = @ + 1]
        /\ Goto(r, AfterCall(r)) /\ NoThrow
        /\ UNCHANGED worker
     \/ ThrowAtAwait(r) /\ UNCHANGED <<call, worker>>
  /\ UNCHANGED <<tool, ctx, actor, passed, charged, committed, audit>>

(* The thread ends.  A failure is told to the client (which may fail) and  *)
(* otherwise ignored; if the request was cancelled nobody waits for it.    *)
ThreadEnd(r) ==
  /\ worker[r]
  /\ worker' = [worker EXCEPT ![r] = FALSE]
  /\ IF pc[r] = "thread"
     THEN /\ call' = [call EXCEPT ![r] = @ + 1]
          /\ (Goto(r, AfterCall(r)) /\ NoThrow) \/ ThrowAtAwait(r)
     ELSE UNCHANGED <<pc, call>> /\ NoThrow
  /\ UNCHANGED <<tool, ctx, actor, passed, charged, committed, audit>>

(* ctx.info, then the result is returned *)
Notify(r) ==
  /\ pc[r] = "notify"
  /\ \/ /\ Goto(r, End(r))
        /\ answer' = [answer EXCEPT ![r] = "result"]
        /\ UNCHANGED <<err, decision, denied>>
     \/ ThrowAtAwait(r)
  /\ UNCHANGED <<tool, ctx, actor, call, passed, charged, committed, worker,
                 audit>>

-----------------------------------------------------------------------------
(* The end *)

(* The message of the except clause; if it fails, its exception replaces   *)
(* the first one (and ping's result), and no other clause catches it.      *)
Except(r) ==
  /\ pc[r] = "except"
  /\ answer' \in {answer, [answer EXCEPT ![r] = "error"]}
  /\ Goto(r, "finally")
  /\ UNCHANGED <<tool, ctx, actor, call, decision, err, passed, charged,
                 committed, worker, audit, denied>>

(* The request is cancelled while it waits: for the client to take a       *)
(* message, or for a thread.                                               *)
AtAwait(r) ==
  \/ pc[r] = "thread"
  \/ ctx[r] /\ pc[r] \in {"begin", "notify", "except"}
  \/ ctx[r] /\ pc[r] = "call" /\ handler(r).calls[call[r]] \in {"thread", "warned"}
  \/ ctx[r] /\ AuthEnforced /\ pc[r] = "check" /\ Check(r) \in {"read", "write"}
  \/ /\ ctx[r] /\ pc[r] \in {"check", "call"} /\ Len(passed[r]) > 0
     /\ passed[r][Len(passed[r])] \in handler(r).talks /\ call[r] = 1

Cancel(r) ==
  /\ AtAwait(r)
  /\ Goto(r, "finally")
  /\ err' = [err EXCEPT ![r] = IF @ = "none" THEN "cancelled" ELSE @]
  /\ answer' = [answer EXCEPT ![r] = "cancelled"]
  /\ UNCHANGED <<tool, ctx, actor, call, decision, passed, charged, committed,
                 worker, audit, denied>>

(* The except clauses set error_code; a cancelled call passes them by *)
error_code(r) == IF err[r] = "cancelled" THEN "none" ELSE err[r]

(* Mutant of Line: the name that the caller gave is logged *)
LineUnresolved(r) ==
  [request |-> r, actor |-> IF actor[r] = "subject" THEN "default" ELSE actor[r],
   decision |-> decision[r], error_code |-> error_code(r)]

(* What _log_audit_event writes *)
Line(r) ==
  [request |-> r, actor |-> actor[r], decision |-> decision[r],
   error_code |-> error_code(r)]

(* finally: the metrics and the audit line.  If the line cannot be written *)
(* the OSError replaces whatever the handler returns or raises.            *)
Finally(r) ==
  /\ pc[r] = "finally"
  /\ \/ audit' = Append(audit, Line(r)) /\ UNCHANGED answer
     \/ UNCHANGED audit /\ answer' = [answer EXCEPT ![r] = "unaudited"]
  /\ Goto(r, "over")
  /\ UNCHANGED <<tool, ctx, actor, call, decision, err, passed, charged,
                 committed, worker, denied>>

(* What /diagnostics/tool-usage-summary counts in the log *)
summarize_audit_events ==
  [events |-> Len(audit),
   deny_total |-> Cardinality({i \in 1..Len(audit) : audit[i].decision = "deny"})]

(* Every request is over and every thread has ended *)
Done ==
  /\ \A r \in Request : pc[r] = "over" /\ ~worker[r]
  /\ UNCHANGED vars

Run(r) ==
  \/ Begin(r) \/ Authorize(r) \/ Touch(r) \/ OtherCheck(r)
  \/ CallMust(r) \/ CallWarned(r) \/ CallCommit(r)
  \/ ThreadStart(r) \/ ThreadEnd(r) \/ Notify(r) \/ Except(r) \/ Finally(r)

Next ==
  \/ \E r \in Request : \E t \in ToolsOf[r] : Arrive(r, t)
  \/ \E r \in Request : Latency(r) \/ Run(r) \/ Cancel(r)
  \/ Done

Spec == Init /\ [][Next]_vars

-----------------------------------------------------------------------------
(* Type invariant of the requests and of the audit log. *)
TypeOK ==
  /\ pc \in [Request -> {"idle", "begin", "check", "call", "thread", "notify",
                         "except", "finally", "over"}]
  /\ tool \in [Request -> Tool] /\ ctx \in [Request -> BOOLEAN]
  /\ actor \in [Request -> {"default", "named", "subject"}]
  /\ call \in [Request -> Nat]
  /\ decision \in [Request -> {"allow", "deny"}]
  /\ err \in [Request -> AnyError \cup {"none", "cancelled"}]
  /\ passed \in [Request -> Seq(Checks)]
  /\ charged \in [Request -> {"nobody", "default", "named", "subject"}]
  /\ committed \in [Request -> {"no", "yes", "doubt"}]
  /\ answer \in [Request -> {"none", "result", "error", "unreachable",
                             "cancelled", "unaudited"}]
  /\ worker \in [Request -> BOOLEAN]
  /\ audit \in Seq([request : Request, actor : {"default", "named", "subject"},
                    decision : {"allow", "deny"},
                    error_code : AnyError \cup {"none"}])
  /\ denied \in Nat

Lines(r) == {i \in 1..Len(audit) : audit[i].request = r}

(* However a call ends (result, error, a client that is gone, cancellation *)
(* in any await, also in the except clause), it leaves one line in the     *)
(* audit log; a result is logged as "allow" without an error code and an   *)
(* error as "deny" with one; a call whose line could not be written is     *)
(* answered with an error.  (latency_report and the interactive app's      *)
(* fetch_sessions_dashboard_data leave no line.)                           *)
LogAgreesWithAnswer ==
  \A r \in Request : pc[r] = "over" /\ handler(r).traced =>
    \/ Lines(r) = {} /\ answer[r] = "unaudited"
    \/ \E i \in Lines(r) :
         /\ Lines(r) = {i}
         /\ audit[i].decision = "allow" <=> audit[i].error_code = "none"
         /\ answer[r] = "result" => audit[i].decision = "allow"
         /\ answer[r] \in {"error", "unreachable"} => audit[i].decision = "deny"

(* The actor in the audit line is the actor whose session and quota were   *)
(* charged, although the actor changes while the call is authorised.       *)
LogNamesCharged ==
  \A i \in 1..Len(audit) :
    charged[audit[i].request] \in {"nobody", audit[i].actor}

(* denied_requests counts every denied call once, with one exception: the  *)
(* errors other than PermissionError of select, exec_proc and the reports  *)
(* are logged as "deny" and not counted.  Between calls the summary of the *)
(* log differs from it by these, and by the lines that could not be written. *)
DeniedReconciles ==
  LET Denied == {r \in Request : decision[r] = "deny"}
      Uncounted == {r \in Denied : /\ err[r] # "permission"
                                   /\ tool[r] \in {"run_read_tool", "select",
                                                    "exec_proc"}}
      Lost == {r \in Denied : answer[r] = "unaudited"}
  IN  /\ denied = Cardinality(Denied \ Uncounted)
      /\ (\A r \in Request : pc[r] \in {"idle", "over"}) =>
           summarize_audit_events.deny_total =
             denied + Cardinality(Uncounted \ Lost) - Cardinality(Lost \ Uncounted)

-----------------------------------------------------------------------------
(* Statements of the documentation *)

(* "All procedure execution attempts (approved and denied) are logged with *)
(* the decision": a procedure that was executed and committed is logged    *)
(* with "allow".                                                           *)
CommitLoggedAllow ==
  \A i \in 1..Len(audit) :
    committed[audit[i].request] = "yes" => audit[i].decision = "allow"
=============================================================================
