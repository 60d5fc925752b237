--------------------------- MODULE ServerStartup ---------------------------
(***************************************************************************)
(* The life of the server process: build_fastapi_app and the lifespan of   *)
(* src/server.py, with what they call at start-up: load_config and its     *)
(* environment overrides (src/config_loader.py), build_auth_provider       *)
(* (src/security/auth_provider.py), register_sql_tools (src/tools/         *)
(* sql_tools.py) with the tool registry and the tool flags, and the        *)
(* provider of the interactive app.                                        *)
(*                                                                         *)
(* The start-up is sequential; what makes it hard is that each of its      *)
(* steps may raise, with the shared HTTP client open or not, inside the    *)
(* try that closes it or after it, and that what the process serves in the *)
(* end is decided by several parts that read the same configuration        *)
(* independently of each other.  Files and environment are chosen when     *)
(* they are read.                                                          *)
(***************************************************************************)
EXTENDS Integers, FiniteSets, Sequences, SequencesExt

CONSTANTS
  Unset,           \* an environment variable that is absent or empty
  ToolFlags,       \* the maps that may be given as tool_enable_flags
  InstanceFlags,   \* ... and as instance_tool_enable_flags
  MaxInstances     \* bound on the entries of config/instances.yaml

Instance == {"primary", "secondary"}
AuthMode == {"disabled", "azure_token_verifier", "other"}

(* What generate_tool_specs names for an instance, and the ones of them to *)
(* which register_sql_tools gives a handler under that name                *)
Reports == {"select", "exec_proc", "latency_report", "block_report",
            "top_queries_report", "active_sessions_report",
            "index_health_report"}
Analyses == {"analyze_tab_health", "analyze_db_data_model",
             "analyze_sec_config", "sessions_dashboard", "top_statements"}
generate_tool_specs == Reports \cup Analyses

(* The tools that have a name with the number of the instance *)
Basics == {"ping", "list_tools", "list_object", "execute_query"}
Tool == Reports \cup Analyses \cup Basics

ASSUME StartupAssumption ==
  /\ MaxInstances \in Nat
  /\ \A f \in ToolFlags :
       DOMAIN f \subseteq Tool /\ \A t \in DOMAIN f : f[t] \in BOOLEAN
  /\ \A g \in InstanceFlags :
       DOMAIN g \subseteq Instance /\ \A i \in DOMAIN g : g[i] \in ToolFlags
  /\ Unset \notin ToolFlags /\ Unset \notin InstanceFlags
  /\ Unset \notin AuthMode /\ Unset \notin BOOLEAN

VARIABLES
  pc,          \* the step that comes next
  instances,   \* the instances that are configured and enabled, in order
  file, env,   \* the flags of the policy file and of the environment
  policy,      \* cfg.policy: the flags in force
  auth,        \* cfg.auth
  client,      \* shared_http_client: "none", "open", "closed" or "failed"
  pools,       \* the connection pools: the same
  provider,    \* what FastMCP authenticates with: "none" or "verifier"
  named,       \* the tools with a handler under the name of an instance
  numbered,    \* ... and under its number
  registered,  \* state.registered_tools: names of either kind
  app,         \* the interactive app is registered
  raised,      \* the exception that ends the process: where it comes from
  cause        \* history: what failed first

vars == <<pc, instances, file, env, policy, auth, client, pools, provider,
          named, numbered, registered, app, raised, cause>>

NoFlags == [x \in {} |-> TRUE]
NoPolicy == [tool_enable_flags |-> NoFlags, instance_tool_enable_flags |-> NoFlags]

Init ==
  /\ pc = "instances" /\ instances = <<>>
  /\ file = NoPolicy /\ env = NoPolicy /\ policy = NoPolicy
  /\ auth = [mode |-> "disabled", enabled |-> FALSE, ids |-> FALSE]
  /\ client = "none" /\ pools = "none" /\ provider = "none"
  /\ named = {} /\ numbered = {}
  /\ registered = [named |-> {}, numbered |-> {}]
  /\ app = FALSE /\ raised = "none" /\ cause = "none"

-----------------------------------------------------------------------------
(* The configuration *)

(* A value of the environment stands in for the whole value of the file *)
Override(value, fromEnv) == IF fromEnv = Unset THEN value ELSE fromEnv

(* Nothing is open yet: an exception ends the process *)
FailLoading ==
  /\ pc' = "ended" /\ raised' = "config" /\ cause' = "config"
  /\ UNCHANGED <<client, pools, provider, named, numbered, registered, app>>

Loaded(next) ==
  /\ pc' = next
  /\ UNCHANGED <<client, pools, provider, named, numbered, registered, app,
                 raised, cause>>

(* The loop over the entries: an enabled one is put into a dictionary, in  *)
(* which a key that is there already keeps its place.                      *)
EnabledIds(entries) ==
  LET ids[k \in 0..Len(entries)] ==
        IF k = 0 THEN <<>>
        ELSE IF entries[k].enabled /\ entries[k].id \notin ToSet(ids[k - 1])
        THEN Append(ids[k - 1], entries[k].id) ELSE ids[k - 1]
  IN  ids[Len(entries)]

(* instances.yaml, the port and the pool settings of the environment may be *)
(* unusable; there must be an entry, which need not be enabled.            *)
LoadInstances ==
  /\ pc = "instances"
  /\ \/ \E n \in 1..MaxInstances :
          \E entries \in [1..n -> [id : Instance, enabled : BOOLEAN]] :
            instances' = EnabledIds(entries) /\ Loaded("policy")
     \/ UNCHANGED instances /\ FailLoading
  /\ UNCHANGED <<file, env, policy, auth>>

(* Mutant of apply_policy_env_overrides: the entries of the environment    *)
(* are added to those of the file                                          *)
apply_policy_env_overridesMerged(f, e) ==
  [tool_enable_flags |->
     IF e.tool_enable_flags = Unset THEN f.tool_enable_flags
     ELSE [t \in DOMAIN f.tool_enable_flags \cup DOMAIN e.tool_enable_flags |->
             IF t \in DOMAIN e.tool_enable_flags THEN e.tool_enable_flags[t]
                                                ELSE f.tool_enable_flags[t]],
   instance_tool_enable_flags |->
     Override(f.instance_tool_enable_flags, e.instance_tool_enable_flags)]

apply_policy_env_overrides(f, e) ==
  [tool_enable_flags |-> Override(f.tool_enable_flags, e.tool_enable_flags),
   instance_tool_enable_flags |->
     Override(f.instance_tool_enable_flags, e.instance_tool_enable_flags)]

(* runtime-policy.yaml, or a map in the environment, may be unusable *)
LoadPolicy ==
  /\ pc = "policy"
  /\ \/ /\ file' \in [tool_enable_flags : ToolFlags,
                      instance_tool_enable_flags : InstanceFlags]
        /\ env' \in [tool_enable_flags : ToolFlags \cup {Unset},
                     instance_tool_enable_flags : InstanceFlags \cup {Unset}]
        /\ policy' = apply_policy_env_overrides(file', env')
        /\ Loaded("auth")
     \/ UNCHANGED <<file, env, policy>> /\ FailLoading
  /\ UNCHANGED <<instances, auth>>

(* `ids' are the tenant and the client: both are there, and not blank *)
apply_auth_env_overrides(f, e) ==
  [mode |-> Override(f.mode, e.mode), enabled |-> Override(f.enabled, e.enabled),
   ids |-> Override(f.ids, e.ids)]

(* load_config returns, and the HTTP client is created *)
LoadAuth ==
  /\ pc = "auth"
  /\ \/ /\ \E f \in [mode : AuthMode, enabled : BOOLEAN, ids : BOOLEAN],
              e \in [mode : AuthMode \cup {Unset}, enabled : BOOLEAN \cup {Unset},
                     ids : BOOLEAN \cup {Unset}] :
             auth' = apply_auth_env_overrides(f, e)
        /\ client' = "open" /\ pc' = "parts"
        /\ UNCHANGED <<pools, provider, named, numbered, registered, app, raised,
                       cause>>
     \/ UNCHANGED auth /\ FailLoading
  /\ UNCHANGED <<instances, file, env, policy>>

-----------------------------------------------------------------------------
(* Construction, inside the try *)

(* Mutant of FailInTry: the exception just passes *)
FailInTryOpen ==
  pc' = "ended" /\ raised' = "build" /\ cause' = "build" /\ UNCHANGED client

(* except: the client is closed before the exception goes on; the          *)
(* exception of aclose would take its place                                *)
FailInTry ==
  /\ pc' = "ended" /\ cause' = "build"
  /\ \/ client' = "closed" /\ raised' = "build"
     \/ client' = "failed" /\ raised' = "client"

Built(next) == pc' = next /\ UNCHANGED <<client, raised, cause>>

(* ConnectionManager, the rate limiter (it may want a Redis URL), the      *)
(* write guard (its patterns may not compile), the audit log (its          *)
(* directory may not be creatable) and the session manager                 *)
BuildParts ==
  /\ pc = "parts"
  /\ \/ pools' = "open" /\ Built("provider")
     \/ pools' \in {"none", "open"} /\ FailInTry
  /\ UNCHANGED <<instances, file, env, policy, auth, provider, named, numbered,
                 registered, app>>

(* Mutant of build_auth_provider: the mode alone does not count *)
build_auth_providerByFlag(a) ==
  CASE ~a.enabled -> "none"
    [] a.enabled /\ a.mode # "other" /\ a.ids -> "verifier"
    [] OTHER -> "ValueError"

build_auth_provider(a) ==
  CASE ~a.enabled /\ a.mode = "disabled" -> "none"
    [] a.mode \in {"azure_token_verifier", "disabled"}
         /\ (a.enabled \/ a.mode = "azure_token_verifier") /\ a.ids -> "verifier"
    [] OTHER -> "ValueError"

BuildProvider ==
  /\ pc = "provider"
  /\ IF build_auth_provider(auth) = "ValueError"
     THEN FailInTry /\ UNCHANGED provider
     ELSE provider' = build_auth_provider(auth) /\ Built("tools")
  /\ UNCHANGED <<instances, file, env, policy, auth, pools, named, numbered,
                 registered, app>>

(* What the handlers ask before they authorise a call *)
auth_enforced(a) == a.enabled \/ a.mode = "azure_token_verifier"

(* Mutant of is_tool_enabled: the flag of the tool comes first *)
is_tool_enabledGlobalFirst(i, t) ==
  LET per_instance == policy.instance_tool_enable_flags
      global == policy.tool_enable_flags
  IN  CASE t \in DOMAIN global -> global[t]
        [] t \notin DOMAIN global /\ i \in DOMAIN per_instance
             /\ t \in DOMAIN per_instance[i] -> per_instance[i][t]
        [] OTHER -> TRUE

is_tool_enabled(i, t) ==
  LET per_instance == policy.instance_tool_enable_flags
      global == policy.tool_enable_flags
      special == i \in DOMAIN per_instance /\ t \in DOMAIN per_instance[i]
  IN  CASE special -> per_instance[i][t]
        [] ~special /\ t \in DOMAIN global -> global[t]
        [] OTHER -> TRUE

(* register_sql_tools: a loop over the specs, in which the reports get a   *)
(* handler and every spec a place in `registered', and a loop over the     *)
(* numbered instances.  FastMCP may refuse a handler.                      *)
RegisterTools ==
  /\ pc = "tools"
  /\ \/ LET specs == {<<instances[n], t>> : n \in 1..Len(instances),
                                           t \in generate_tool_specs}
            enabled == {s \in specs : is_tool_enabled(s[1], s[2])}
            analyses == {s \in (1..Len(instances)) \X Analyses :
                           is_tool_enabled(instances[s[1]], s[2])}
        IN  /\ named' = {s \in enabled : s[2] \in Reports}
            /\ numbered' = ((1..Len(instances)) \X Basics) \cup analyses
            /\ registered' = [named |-> enabled, numbered |-> numbered']
            /\ Built("app")
     \/ UNCHANGED <<named, numbered, registered>> /\ FailInTry
  /\ UNCHANGED <<instances, file, env, policy, auth, pools, provider, app>>

(* register_sessions_dashboard_app_provider does without the app when its  *)
(* modules cannot be imported; what fails later is raised.                 *)
RegisterApp ==
  /\ pc = "app"
  /\ \/ \E there \in BOOLEAN : app' = there /\ Built("mount")
     \/ UNCHANGED app /\ FailInTry
  /\ UNCHANGED <<instances, file, env, policy, auth, pools, provider, named,
                 numbered, registered>>

-----------------------------------------------------------------------------
(* After the try *)

(* The MCP app, the FastAPI app and its routes: nothing closes the client  *)
(* if this raises.  The server starts, and enters the lifespan.            *)
Mount ==
  /\ pc = "mount"
  /\ \/ pc' = "serving" /\ UNCHANGED <<raised, cause>>
     \/ pc' = "ended" /\ raised' = "mount" /\ cause' = "mount"
  /\ UNCHANGED <<instances, file, env, policy, auth, client, pools, provider,
                 named, numbered, registered, app>>

(* The server is stopped, or the lifespan of the MCP app raises on the way *)
(* in or out: the finally clause is entered                                *)
Leave ==
  /\ pc = "serving"
  /\ pc' = "stopping" /\ raised' \in {"none", "lifespan"} /\ cause' = raised'
  /\ UNCHANGED <<instances, file, env, policy, auth, client, pools, provider,
                 named, numbered, registered, app>>

(* What failed first, if it was not p *)
First(p) == cause' = IF cause = "none" THEN p ELSE cause

(* Mutant of StopPools: the exception leaves the finally clause at once *)
StopPoolsRaising ==
  /\ pc = "stopping"
  /\ \/ pools' = "closed" /\ pc' = "closing" /\ UNCHANGED <<raised, cause>>
     \/ pools' = "failed" /\ pc' = "ended" /\ raised' = "pools" /\ First("pools")
  /\ UNCHANGED <<instances, file, env, policy, auth, client, provider, named,
                 numbered, registered, app>>

(* close_all_pools: its exception is kept for later *)
StopPools ==
  /\ pc = "stopping"
  /\ \/ pools' = "closed" /\ UNCHANGED cause
     \/ pools' = "failed" /\ First("pools")
  /\ pc' = "closing"
  /\ UNCHANGED <<instances, file, env, policy, auth, client, provider, named,
                 numbered, registered, app, raised>>

(* aclose; the exception of the pools goes before its own, and either      *)
(* before the one with which the lifespan was left                         *)
StopClient ==
  /\ pc = "closing"
  /\ \/ client' = "closed" /\ UNCHANGED cause
     \/ client' = "failed" /\ First("client")
  /\ raised' = CASE pools = "failed" -> "pools"
                 [] pools # "failed" /\ client' = "failed" -> "client"
                 [] OTHER -> raised
  /\ pc' = "ended"
  /\ UNCHANGED <<instances, file, env, policy, auth, pools, provider, named,
                 numbered, registered, app>>

Ended == pc = "ended" /\ UNCHANGED vars

Next ==
  \/ LoadInstances \/ LoadPolicy \/ LoadAuth
  \/ BuildParts \/ BuildProvider \/ RegisterTools \/ RegisterApp
  \/ Mount \/ Leave \/ StopPools \/ StopClient \/ Ended

Spec == Init /\ [][Next]_vars

-----------------------------------------------------------------------------
(* Whoever serves with handlers that authorise their callers has a         *)
(* verifier that authenticates them, with a tenant and a client to check   *)
(* tokens against, and the other way round: build_auth_provider and        *)
(* _auth_enforced read mode and flag independently of each other.          *)
AuthAgrees ==
  pc = "serving" =>
    /\ provider = "verifier" <=> auth_enforced(auth)
    /\ provider = "verifier" => auth.ids
    /\ auth.mode # "other"

(* A server that has served ends with both its pools and its client        *)
(* closed, or the attempt made, although either may fail and the lifespan  *)
(* may have been left by an exception ("Ensure both cleanup actions run    *)
(* even if one raises"); a construction that fails inside the try has      *)
(* tried to close the client.  No failure is swallowed: the process ends   *)
(* with an exception if anything failed.  That need not be the first one,  *)
(* but only the failure of a release takes its place, that of the pools    *)
(* before that of the client.                                              *)
ShutdownReleases ==
  pc = "ended" =>
    /\ cause \notin {"config", "build", "mount"} =>
         pools \in {"closed", "failed"} /\ client \in {"closed", "failed"}
    /\ cause = "build" => client \in {"closed", "failed"}
    /\ raised = "none" <=> cause = "none"
    /\ raised = "pools" <=> pools = "failed"
    /\ raised \notin {cause, "pools"} => raised = "client" /\ client = "failed"

(* "Ensure the async client is cleaned up if app construction fails": once *)
(* there is a client, the process does not end without having closed it,   *)
(* or having tried to.                                                     *)
ClientCleanedUp ==
  pc = "ended" /\ cause # "config" => client \in {"closed", "failed"}

(* A tool is switched off for an instance by the map of instances, or by   *)
(* the map of tools where the former does not speak of it; a map in the    *)
(* environment silences the file's map of its kind, also about tools that  *)
(* it does not mention.                                                    *)
SwitchedOff(i, t) ==
  LET maps == IF env.instance_tool_enable_flags = Unset
              THEN file.instance_tool_enable_flags ELSE env.instance_tool_enable_flags
      flags == IF env.tool_enable_flags = Unset
               THEN file.tool_enable_flags ELSE env.tool_enable_flags
      own == {b \in BOOLEAN : i \in DOMAIN maps /\ t \in DOMAIN maps[i] /\ maps[i][t] = b}
      common == {b \in BOOLEAN : t \in DOMAIN flags /\ flags[t] = b}
  IN  own = {FALSE} \/ (own = {} /\ common = {FALSE})

(* While it serves, an instance that is enabled has its own number; a tool *)
(* that is switched off has no handler under the name or the number of the *)
(* instance, every other report and analysis has one, and the four basic   *)
(* tools cannot be switched off.                                           *)
ToolsFollowFlags ==
  pc = "serving" =>
    /\ \A n, k \in 1..Len(instances) : n # k => instances[n] # instances[k]
    /\ \A n \in 1..Len(instances), t \in Tool :
         /\ <<instances[n], t>> \in named <=>
              t \in Reports /\ ~SwitchedOff(instances[n], t)
         /\ <<n, t>> \in numbered <=>
              \/ t \in Basics
              \/ t \in Analyses /\ ~SwitchedOff(instances[n], t)
    /\ \A s \in named : s[1] \in {instances[n] : n \in 1..Len(instances)}
=============================================================================
