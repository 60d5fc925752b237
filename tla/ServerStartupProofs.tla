------------------------ MODULE ServerStartupProofs ------------------------
(***************************************************************************)
(* Proofs about ServerStartup, for any flags, overrides and settings of    *)
(* the authentication, and for every step that may fail.                   *)
(***************************************************************************)
EXTENDS ServerStartup, FiniteSetTheorems, TLAPS

(* The steps before the HTTP client is created, and those that follow      *)
Loading == {"instances", "policy", "auth"}
Building == {"parts", "provider", "tools", "app", "mount"}
Running == {"serving", "stopping", "closing"}

(* What the process holds at each step, and why it may have ended *)
Held ==
  /\ pc \in Loading \cup Building \cup Running \cup {"ended"}
  /\ pc \in Loading => client = "none"
  /\ pc \in Building \cup Running => client = "open"
  /\ pc \in {"provider", "tools", "app", "mount", "serving", "stopping"} =>
       pools = "open"
  /\ pc \in Loading \cup {"parts"} => pools = "none"
  /\ pc \in Loading \cup Building \cup {"serving"} =>
       raised = "none" /\ cause = "none"
  /\ pc \in {"stopping", "closing"} => raised \in {"none", "lifespan"}
  /\ pc = "stopping" => cause = raised
  /\ pc = "closing" =>
       /\ pools \in {"closed", "failed"}
       /\ cause = IF raised = "none" /\ pools = "failed" THEN "pools" ELSE raised

(* From its construction on the provider is the one that auth asks for *)
Provided ==
  /\ pc \in Loading \cup {"parts", "provider"} => provider = "none"
  /\ pc \in {"tools", "app", "mount"} \cup Running =>
       provider = build_auth_provider(auth) /\ provider # "ValueError"

(* The inductive invariant: ShutdownReleases speaks of the end alone, and  *)
(* AuthAgrees of the time of service.                                      *)
StartupInv == Held /\ Provided /\ ShutdownReleases

-----------------------------------------------------------------------------
(* Induction and loops *)

(* A set of natural numbers has a least member: induction, in a form that  *)
(* needs no predicate as a parameter.                                      *)
LEMMA LeastNumber ==
  ASSUME NEW T \in SUBSET Nat, T # {}
  PROVE  \E m \in T : \A k \in T : m <= k
<1> DEFINE Less == {p \in Nat \X Nat : p[1] < p[2]}
<1>1. Less = OpToRel(<, Nat)
  BY Zenon DEF OpToRel
<1>2. IsWellFoundedOn(Less, Nat)
  BY <1>1, NatLessThanWellFounded
<1>3. \E m \in T : \A k \in T : ~(<<k, m>> \in Less)
  <2> HIDE DEF Less
  <2> QED
    BY <1>2, WFMin
<1>4. \A k, m \in Nat : k < m => <<k, m>> \in Less
  OBVIOUS
<1> HIDE DEF Less
<1>5. PICK m \in T : \A k \in T : ~(<<k, m>> \in Less)
  BY <1>3
<1>6. ASSUME NEW k \in T PROVE m <= k
  <2>1. k \in Nat /\ m \in Nat /\ ~(k < m)
    BY <1>4, <1>5
  <2> QED
    BY <2>1
<1> QED
  BY <1>6

(* The values of a loop that starts with v and makes the turns G[1]..G[n] *)
Loops(V, v, n, G) ==
  {f \in [0..n -> V] : f[0] = v /\ \A k \in 1..n : f[k] = G[k][f[k - 1]]}

(* What a loop computes step by step exists. *)
LEMMA LoopExists ==
  ASSUME NEW V, NEW v \in V, NEW n \in Nat, NEW G \in [1..n -> [V -> V]]
  PROVE  Loops(V, v, n, G) # {}
<1> DEFINE Upto(m, f) == f[0] = v /\ \A k \in 1..m : f[k] = G[k][f[k - 1]]
           Bad == {m \in 0..n : ~\E f \in [0..m -> V] : Upto(m, f)}
<1>1. ASSUME Bad # {} PROVE FALSE
  <2>1. PICK m \in Bad : \A k \in Bad : m <= k
    <3>1. Bad \in SUBSET Nat
      OBVIOUS
    <3> HIDE DEF Bad
    <3>2. \E m \in Bad : \A k \in Bad : m <= k
      BY <1>1, <3>1, LeastNumber
    <3> QED
      BY <3>2
  <2>2. m # 0
    <3>1. [i \in 0..0 |-> v] \in [0..0 -> V] /\ Upto(0, [i \in 0..0 |-> v])
      OBVIOUS
    <3> QED
      BY <3>1
  <2>3. m - 1 \in 0..n /\ m - 1 \notin Bad /\ m \in 1..n
    BY <2>1, <2>2
  <2>4. PICK f \in [0..(m - 1) -> V] : Upto(m - 1, f)
    BY <2>3
  <2> DEFINE g == [i \in 0..m |-> IF i = m THEN G[m][f[m - 1]] ELSE f[i]]
  <2>5. f[m - 1] \in V /\ G[m][f[m - 1]] \in V
    BY <2>3, <2>4
  <2>6. g \in [0..m -> V]
    BY <2>3, <2>4, <2>5
  <2>7. g[0] = v
    BY <2>3, <2>4
  <2>8. ASSUME NEW k \in 1..m PROVE g[k] = G[k][g[k - 1]]
    <3>1. CASE k = m
      BY <2>3, <2>4, <3>1
    <3>2. CASE k # m
      <4>1. k \in 1..(m - 1) /\ k - 1 \in 0..(m - 1) /\ k \in 0..m /\ k - 1 \in 0..m
            /\ k - 1 # m
        BY <2>3, <3>2
      <4>2. f[k] = G[k][f[k - 1]]
        BY <2>4, <4>1
      <4> QED
        BY <3>2, <4>1, <4>2
    <3> QED
      BY <3>1, <3>2
  <2>9. Upto(m, g)
    BY <2>7, <2>8
  <2> HIDE DEF g, Upto
  <2> QED
    BY <2>1, <2>6, <2>9
<1>2. n \notin Bad
  BY <1>1
<1> QED
  BY <1>2 DEF Loops
-----------------------------------------------------------------------------
(* The instances *)

Distinct(s) == \A i, j \in 1..Len(s) : i # j => s[i] # s[j]

(* One turn of the loop over the entries *)
Turn(entries, k, s) ==
  IF entries[k].enabled /\ entries[k].id \notin ToSet(s)
  THEN Append(s, entries[k].id) ELSE s

(* A turn adds an instance that is not there yet, or none. *)
LEMMA TurnDistinct ==
  ASSUME NEW n \in Nat, NEW entries \in [1..n -> [id : Instance, enabled : BOOLEAN]],
         NEW k \in 1..n, NEW s \in Seq(Instance), Distinct(s)
  PROVE  Distinct(Turn(entries, k, s))
<1> DEFINE x == entries[k].id
<1>1. CASE entries[k].enabled /\ x \notin ToSet(s)
  <2>1. x \in Instance
    OBVIOUS
  <2> HIDE DEF x
  <2>2. \A i \in 1..Len(s) : s[i] # x
    BY <1>1 DEF ToSet
  <2>3. Distinct(Append(s, x))
    BY <2>1, <2>2 DEF Distinct
  <2> QED
    BY <1>1, <2>3 DEF Turn, x
<1>2. CASE ~(entries[k].enabled /\ x \notin ToSet(s))
  BY <1>2 DEF Turn
<1> QED
  BY <1>1, <1>2

(* The loop of EnabledIds computes what its turns say. *)
LEMMA EnabledIdsLoop ==
  ASSUME NEW n \in Nat, NEW entries \in [1..n -> [id : Instance, enabled : BOOLEAN]]
  PROVE  \E f \in [0..n -> Seq(Instance)] :
           /\ f[0] = <<>> /\ \A k \in 1..n : f[k] = Turn(entries, k, f[k - 1])
           /\ EnabledIds(entries) = f[n]
<1> DEFINE G == [k \in 1..n |-> [s \in Seq(Instance) |-> Turn(entries, k, s)]]
           Ids(f) == [k \in 0..Len(entries) |->
                        IF k = 0 THEN <<>>
                        ELSE IF entries[k].enabled
                                /\ entries[k].id \notin ToSet(f[k - 1])
                        THEN Append(f[k - 1], entries[k].id) ELSE f[k - 1]]
           ids == CHOOSE f : f = Ids(f)
<1>1. Len(entries) = n
  OBVIOUS
<1>2. G \in [1..n -> [Seq(Instance) -> Seq(Instance)]]
  <2>1. ASSUME NEW k \in 1..n, NEW s \in Seq(Instance)
        PROVE  Turn(entries, k, s) \in Seq(Instance)
    <3>1. entries[k].id \in Instance
      OBVIOUS
    <3> QED
      BY <3>1 DEF Turn
  <2> QED
    BY <2>1
<1>3. PICK f \in [0..n -> Seq(Instance)] :
        f[0] = <<>> /\ \A k \in 1..n : f[k] = G[k][f[k - 1]]
  <2> DEFINE V == Seq(Instance)
             v == <<>>
  <2>1. v \in V
    OBVIOUS
  <2>2. G \in [1..n -> [V -> V]]
    BY <1>2
  <2> HIDE DEF G, V, v
  <2>3. Loops(V, v, n, G) # {}
    BY <2>1, <2>2, LoopExists
  <2> QED
    BY <2>3 DEF V, v, Loops
<1>4. ASSUME NEW k \in 1..n
      PROVE  f[k - 1] \in Seq(Instance) /\ f[k] = Turn(entries, k, f[k - 1])
  <2>1. k - 1 \in 0..n
    OBVIOUS
  <2>2. f[k - 1] \in Seq(Instance)
    BY <1>3, <2>1
  <2>3. f[k] = G[k][f[k - 1]]
    BY <1>3
  <2>4. G[k][f[k - 1]] = Turn(entries, k, f[k - 1])
    BY <2>2
  <2> QED
    BY <2>2, <2>3, <2>4
<1> HIDE DEF G
<1>5. f = Ids(f)
  <2>1. ASSUME NEW k \in 0..n PROVE f[k] = Ids(f)[k]
    <3>1. CASE k = 0
      BY <1>1, <1>3, <3>1
    <3>2. CASE k # 0
      <4>1. k \in 1..n
        BY <3>2
      <4>2. f[k] = Turn(entries, k, f[k - 1])
        BY <1>4, <4>1
      <4>3. Ids(f)[k] = Turn(entries, k, f[k - 1])
        BY <1>1, <3>2 DEF Turn
      <4> QED
        BY <4>2, <4>3
    <3> QED
      BY <3>1, <3>2
  <2>2. f = [k \in 0..n |-> f[k]]
    BY <1>3
  <2>3. Ids(f) = [k \in 0..n |-> Ids(f)[k]]
    BY <1>1
  <2> HIDE DEF Ids
  <2> QED
    BY <2>1, <2>2, <2>3
<1>6. ids = Ids(ids)
  <2> HIDE DEF Ids
  <2> QED
    BY <1>5
<1>7. EnabledIds(entries) = ids[n]
  BY <1>1 DEF EnabledIds
<1>8. ids[0] = <<>> /\ \A k \in 1..n : ids[k] = Turn(entries, k, ids[k - 1])
  <2> HIDE DEF ids
  <2>1. \A k \in 0..n : ids[k] = Ids(ids)[k]
    BY <1>6
  <2>2. Ids(ids)[0] = <<>>
    BY <1>1
  <2>3. ASSUME NEW k \in 1..n
        PROVE  Ids(ids)[k] = Turn(entries, k, ids[k - 1])
    BY <1>1, <2>3 DEF Turn
  <2> HIDE DEF Ids
  <2> QED
    BY <2>1, <2>2, <2>3
<1>9. ids[n] = f[n]
  <2> DEFINE Bad == {k \in 0..n : ids[k] # f[k]}
  <2> HIDE DEF ids
  <2>1. ASSUME Bad # {} PROVE FALSE
    <3>1. Bad \in SUBSET Nat
      OBVIOUS
    <3>2. \E m \in Bad : \A k \in Bad : m <= k
      <4> HIDE DEF Bad
      <4> QED
        BY <2>1, <3>1, LeastNumber
    <3>3. PICK m \in Bad : \A k \in Bad : m <= k
      BY <3>2
    <3>4. m \in 1..n /\ m - 1 \in 0..n
      BY <1>3, <1>8, <3>3
    <3>5. ids[m - 1] = f[m - 1]
      BY <3>3, <3>4
    <3>6. ids[m] = f[m]
      BY <1>4, <1>8, <3>4, <3>5
    <3> QED
      BY <3>3, <3>6
  <2>2. n \in 0..n
    OBVIOUS
  <2> QED
    BY <2>1, <2>2
<1>10. \A k \in 1..n : f[k] = Turn(entries, k, f[k - 1])
  BY <1>4
<1> HIDE DEF ids
<1> QED
  BY <1>3, <1>7, <1>9, <1>10

(* The instances of a configuration are distinct: what the loop has put    *)
(* down so far is, by induction over the entries.                          *)
LEMMA EnabledIdsDistinct ==
  ASSUME NEW n \in Nat, NEW entries \in [1..n -> [id : Instance, enabled : BOOLEAN]]
  PROVE  EnabledIds(entries) \in Seq(Instance) /\ Distinct(EnabledIds(entries))
<1>1. PICK f \in [0..n -> Seq(Instance)] :
        /\ f[0] = <<>> /\ \A k \in 1..n : f[k] = Turn(entries, k, f[k - 1])
        /\ EnabledIds(entries) = f[n]
  BY EnabledIdsLoop
<1> DEFINE Bad == {k \in 0..n : ~Distinct(f[k])}
<1>2. ASSUME Bad # {} PROVE FALSE
  <2>1. Bad \in SUBSET Nat
    OBVIOUS
  <2>2. \E m \in Bad : \A k \in Bad : m <= k
    <3> HIDE DEF Bad
    <3> QED
      BY <1>2, <2>1, LeastNumber
  <2>3. PICK m \in Bad : \A k \in Bad : m <= k
    BY <2>2
  <2>4. Distinct(f[0])
    BY <1>1 DEF Distinct
  <2>5. m \in 1..n /\ m - 1 \in 0..n
    BY <2>3, <2>4
  <2>6. f[m - 1] \in Seq(Instance) /\ Distinct(f[m - 1])
    BY <2>3, <2>5
  <2>7. f[m] = Turn(entries, m, f[m - 1])
    BY <1>1, <2>5
  <2>8. Distinct(Turn(entries, m, f[m - 1]))
    BY <2>5, <2>6, TurnDistinct
  <2> QED
    BY <2>3, <2>7, <2>8
<1>3. n \notin Bad
  BY <1>2
<1> QED
  BY <1>1, <1>3

-----------------------------------------------------------------------------
(* What FailInTry leaves behind: it ends the process with the client, which *)
(* was open, closed or aclose tried, and with no verdict of the shutdown.  *)
LEMMA FailInTryReleases ==
  ASSUME StartupInv, pc \in Building, FailInTry, pools' \in {"none", "open"}
  PROVE  StartupInv'
BY DEF StartupInv, Held, Provided, ShutdownReleases, FailInTry, Loading,
       Building, Running

(* A step of the construction that does not fail keeps the client open and *)
(* goes on inside the try.                                                 *)
LEMMA BuiltKeepsHeld ==
  ASSUME Held, pc \in Building, NEW next \in Building \ {"parts"}, Built(next),
         pools' = "open"
  PROVE  Held' /\ pc' = next
BY DEF Held, Built, Loading, Building, Running

(* Every step of start-up and shutdown preserves StartupInv. *)
LEMMA StepInvariant ==
  ASSUME StartupInv, [Next]_vars
  PROVE  StartupInv'
<1> USE DEF Loading, Building, Running
<1>1. CASE LoadInstances
  BY <1>1 DEF LoadInstances, Loaded, FailLoading, StartupInv, Held, Provided,
              ShutdownReleases
<1>2. CASE LoadPolicy
  BY <1>2 DEF LoadPolicy, Loaded, FailLoading, StartupInv, Held, Provided,
              ShutdownReleases
<1>3. CASE LoadAuth
  BY <1>3 DEF LoadAuth, FailLoading, StartupInv, Held, Provided, ShutdownReleases
<1>4. CASE BuildParts
  <2>1. CASE FailInTry
    BY <1>4, <2>1, FailInTryReleases DEF BuildParts
  <2>2. CASE pools' = "open" /\ Built("provider")
    <3>1. Held' /\ pc' = "provider"
      BY <1>4, <2>2, BuiltKeepsHeld DEF BuildParts, StartupInv
    <3>2. QED
      BY <1>4, <3>1 DEF BuildParts, StartupInv, Provided, ShutdownReleases
  <2>3. QED
    BY <1>4, <2>1, <2>2 DEF BuildParts
<1>5. CASE BuildProvider
  <2>1. pc = "provider" /\ pools = "open" /\ UNCHANGED <<auth, pools>>
    BY <1>5 DEF BuildProvider, StartupInv, Held
  <2>2. CASE FailInTry
    BY <2>1, <2>2, FailInTryReleases
  <2>3. CASE /\ build_auth_provider(auth) # "ValueError"
             /\ provider' = build_auth_provider(auth) /\ Built("tools")
    <3>1. Held' /\ pc' = "tools"
      BY <2>1, <2>3, BuiltKeepsHeld DEF StartupInv
    <3>2. build_auth_provider(auth)' = build_auth_provider(auth)
      BY <2>1 DEF build_auth_provider
    <3>3. QED
      BY <2>3, <3>1, <3>2 DEF StartupInv, Provided, ShutdownReleases
  <2>4. QED
    BY <1>5, <2>2, <2>3 DEF BuildProvider
<1>6. CASE RegisterTools
  <2>1. pc = "tools" /\ pools = "open" /\ UNCHANGED <<auth, pools, provider>>
    BY <1>6 DEF RegisterTools, StartupInv, Held
  <2>2. CASE FailInTry
    BY <2>1, <2>2, FailInTryReleases
  <2>3. CASE Built("app")
    <3>1. Held' /\ pc' = "app"
      BY <2>1, <2>3, BuiltKeepsHeld DEF StartupInv
    <3>2. QED
      BY <2>1, <3>1 DEF StartupInv, Provided, ShutdownReleases,
                        build_auth_provider
  <2>4. QED
    BY <1>6, <2>2, <2>3 DEF RegisterTools
<1>7. CASE RegisterApp
  <2>1. pc = "app" /\ pools = "open" /\ UNCHANGED <<auth, pools, provider>>
    BY <1>7 DEF RegisterApp, StartupInv, Held
  <2>2. CASE FailInTry
    BY <2>1, <2>2, FailInTryReleases
  <2>3. CASE Built("mount")
    <3>1. Held' /\ pc' = "mount"
      BY <2>1, <2>3, BuiltKeepsHeld DEF StartupInv
    <3>2. QED
      BY <2>1, <3>1 DEF StartupInv, Provided, ShutdownReleases,
                        build_auth_provider
  <2>4. QED
    BY <1>7, <2>2, <2>3 DEF RegisterApp
<1>8. CASE Mount
  BY <1>8 DEF Mount, StartupInv, Held, Provided, ShutdownReleases,
              build_auth_provider
<1>9. CASE Leave
  BY <1>9 DEF Leave, StartupInv, Held, Provided, ShutdownReleases,
              build_auth_provider
<1>10. CASE StopPools
  BY <1>10 DEF StopPools, First, StartupInv, Held, Provided, ShutdownReleases,
               build_auth_provider
<1>11. CASE StopClient
  BY <1>11 DEF StopClient, First, StartupInv, Held, Provided, ShutdownReleases
<1>12. CASE UNCHANGED vars
  BY <1>12 DEF vars, StartupInv, Held, Provided, ShutdownReleases,
               build_auth_provider
<1>13. QED
  BY <1>1, <1>2, <1>3, <1>4, <1>5, <1>6, <1>7, <1>8, <1>9, <1>10, <1>11, <1>12
  DEF Next, Ended

(* What the process holds is known at every step, and so is why it ends. *)
THEOREM StartupInvariance == Spec => []StartupInv
<1>1. Init => StartupInv
  BY DEF Init, StartupInv, Held, Provided, ShutdownReleases, Loading, Building,
         Running
<1>2. QED
  BY <1>1, StepInvariant, PTL DEF Spec

(* After the service the pools and the client are closed, or their release *)
(* was tried, whichever of them fails and however the lifespan was left; a *)
(* failure inside the try of the construction closes the client; and what  *)
(* failed is never swallowed, though the failure of a release may take its *)
(* place.                                                                  *)
THEOREM ShutdownAlwaysReleases == Spec => []ShutdownReleases
<1>1. StartupInv => ShutdownReleases
  BY DEF StartupInv
<1>2. QED
  BY <1>1, StartupInvariance, PTL

(* A server that serves verifies tokens exactly if its handlers ask for    *)
(* them: build_auth_provider and _auth_enforced never part.                *)
THEOREM VerifierServesHandlers == Spec => []AuthAgrees
<1>1. StartupInv => AuthAgrees
  BY DEF StartupInv, Provided, AuthAgrees, build_auth_provider, auth_enforced,
         Running
<1>2. QED
  BY <1>1, StartupInvariance, PTL

-----------------------------------------------------------------------------
(* The tools that are served *)

(* From the load on the instances are known and distinct, *)
Configured ==
  pc \notin {"instances", "ended"} => instances \in Seq(Instance) /\ Distinct(instances)

Policies == [tool_enable_flags : ToolFlags, instance_tool_enable_flags : InstanceFlags]
Overrides == [tool_enable_flags : ToolFlags \cup {Unset},
              instance_tool_enable_flags : InstanceFlags \cup {Unset}]

(* ... the flags in force are those of file and environment, *)
InForce ==
  pc \in {"auth"} \cup Building \cup Running =>
    /\ file \in Policies /\ env \in Overrides
    /\ policy = apply_policy_env_overrides(file, env)

(* ... and from the registration on the handlers are what they enable. *)
Handled ==
  pc \in {"app", "mount"} \cup Running =>
    /\ \A s : s \in named <=>
         \E n \in 1..Len(instances), t \in Reports :
           s = <<instances[n], t>> /\ is_tool_enabled(instances[n], t)
    /\ \A n \in 1..Len(instances), t \in Tool :
         <<n, t>> \in numbered <=>
           t \in Basics \/ (t \in Analyses /\ is_tool_enabled(instances[n], t))

(* The inductive invariant of ToolsFollowFlags, which speaks of the time   *)
(* of service alone.                                                       *)
ToolsInv == Configured /\ InForce /\ Handled

(* is_tool_enabled, on the flags in force, switches off what SwitchedOff   *)
(* reads off the two sources.                                              *)
LEMMA EnabledIsNotOff ==
  ASSUME file \in Policies, env \in Overrides,
         policy = apply_policy_env_overrides(file, env),
         NEW i \in Instance, NEW t \in Tool
  PROVE  is_tool_enabled(i, t) <=> ~SwitchedOff(i, t)
<1> DEFINE maps == IF env.instance_tool_enable_flags = Unset
                   THEN file.instance_tool_enable_flags
                   ELSE env.instance_tool_enable_flags
           flags == IF env.tool_enable_flags = Unset
                    THEN file.tool_enable_flags ELSE env.tool_enable_flags
           special == i \in DOMAIN maps /\ t \in DOMAIN maps[i]
           own == {b \in BOOLEAN : i \in DOMAIN maps /\ t \in DOMAIN maps[i]
                                   /\ maps[i][t] = b}
           common == {b \in BOOLEAN : t \in DOMAIN flags /\ flags[t] = b}
<1>1. policy.instance_tool_enable_flags = maps /\ policy.tool_enable_flags = flags
  BY DEF apply_policy_env_overrides, Override
<1>2. maps \in InstanceFlags /\ flags \in ToolFlags
  BY DEF Policies, Overrides
<1>3. is_tool_enabled(i, t) = CASE special -> maps[i][t]
                                [] ~special /\ t \in DOMAIN flags -> flags[t]
                                [] OTHER -> TRUE
  BY <1>1 DEF is_tool_enabled
<1>4. SwitchedOff(i, t) <=> (own = {FALSE} \/ (own = {} /\ common = {FALSE}))
  BY DEF SwitchedOff
<1> HIDE DEF maps, flags
<1>5. special => maps[i][t] \in BOOLEAN
  BY <1>2, StartupAssumption
<1>6. t \in DOMAIN flags => flags[t] \in BOOLEAN
  BY <1>2, StartupAssumption
<1>7. CASE special
  <2>1. own = {maps[i][t]}
    BY <1>5, <1>7
  <2> QED
    BY <1>3, <1>4, <1>5, <1>7, <2>1
<1>8. CASE ~special /\ t \in DOMAIN flags
  <2>1. own = {} /\ common = {flags[t]}
    BY <1>6, <1>8
  <2> QED
    BY <1>3, <1>4, <1>6, <1>8, <2>1
<1>9. CASE ~special /\ t \notin DOMAIN flags
  <2>1. own = {} /\ common = {}
    BY <1>9
  <2> QED
    BY <1>3, <1>4, <1>9, <2>1
<1> QED
  BY <1>7, <1>8, <1>9

(* What does not touch instances, flags and handlers keeps what is known   *)
(* of them.                                                                *)
LEMMA ToolsKept ==
  ASSUME ToolsInv, UNCHANGED <<instances, file, env, policy, named, numbered,
                               registered>>,
         pc' = "ended" \/ pc' = pc
           \/ (pc \in {"auth"} /\ pc' = "parts")
           \/ (pc = "parts" /\ pc' = "provider")
           \/ (pc = "provider" /\ pc' = "tools")
           \/ (pc \in {"app", "mount"} \cup Running
               /\ pc' \in {"app", "mount"} \cup Running)
  PROVE  ToolsInv'
<1> USE DEF Building, Running
<1>1. Configured'
  BY DEF ToolsInv, Configured
<1>2. InForce'
  BY DEF ToolsInv, InForce
<1>3. Handled'
  <2>1. CASE pc' \notin {"app", "mount"} \cup Running
    BY <2>1 DEF Handled
  <2>2. CASE pc' \in {"app", "mount"} \cup Running
    BY <2>2 DEF ToolsInv, Handled, is_tool_enabled
  <2> QED
    BY <2>1, <2>2
<1> QED
  BY <1>1, <1>2, <1>3 DEF ToolsInv

(* register_sql_tools gives the handlers that the flags ask for. *)
LEMMA RegisterToolsInv ==
  ASSUME ToolsInv, RegisterTools
  PROVE  ToolsInv'
<1> USE DEF Building, Running
<1>1. CASE FailInTry
  BY <1>1 DEF RegisterTools, FailInTry, ToolsInv, Configured, InForce, Handled
<1> DEFINE specs == {<<instances[n], t>> : n \in 1..Len(instances),
                                           t \in generate_tool_specs}
           enabled == {s \in specs : is_tool_enabled(s[1], s[2])}
           analyses == {s \in (1..Len(instances)) \X Analyses :
                          is_tool_enabled(instances[s[1]], s[2])}
<1>2. CASE /\ named' = {s \in enabled : s[2] \in Reports}
           /\ numbered' = ((1..Len(instances)) \X Basics) \cup analyses
           /\ registered' = [named |-> enabled, numbered |-> numbered']
           /\ Built("app")
  <2>1. pc = "tools" /\ UNCHANGED <<instances, file, env, policy>> /\ pc' = "app"
    BY <1>2 DEF RegisterTools, Built
  <2>2. Configured' /\ InForce'
    BY <2>1 DEF ToolsInv, Configured, InForce
  <2>3. \A i, t : is_tool_enabled(i, t)' <=> is_tool_enabled(i, t)
    BY <2>1 DEF is_tool_enabled
  <2>4. ASSUME NEW s
        PROVE  s \in named' <=>
                 \E n \in 1..Len(instances), t \in Reports :
                   s = <<instances[n], t>> /\ is_tool_enabled(instances[n], t)
    <3> HIDE DEF enabled
    <3>1. s \in named' <=> s \in enabled /\ s[2] \in Reports
      BY <1>2
    <3>2. s \in enabled <=>
            \E n \in 1..Len(instances), t \in generate_tool_specs :
              s = <<instances[n], t>> /\ is_tool_enabled(instances[n], t)
      BY DEF enabled
    <3> QED
      BY <3>1, <3>2 DEF generate_tool_specs
  <2>5. ASSUME NEW n \in 1..Len(instances), NEW t \in Tool
        PROVE  <<n, t>> \in numbered' <=>
                 t \in Basics \/ (t \in Analyses /\ is_tool_enabled(instances[n], t))
    BY <1>2
  <2>6. Handled'
    BY <2>1, <2>3, <2>4, <2>5 DEF Handled
  <2> QED
    BY <2>2, <2>6 DEF ToolsInv
<1> QED
  BY <1>1, <1>2 DEF RegisterTools

(* Every step of start-up and shutdown preserves ToolsInv. *)
LEMMA ToolsStep ==
  ASSUME ToolsInv, [Next]_vars
  PROVE  ToolsInv'
<1> USE DEF Building, Running
<1>1. CASE LoadInstances
  <2>1. CASE FailLoading
    BY <2>1 DEF FailLoading, ToolsInv, Configured, InForce, Handled
  <2>2. ASSUME NEW n \in 1..MaxInstances,
               NEW entries \in [1..n -> [id : Instance, enabled : BOOLEAN]],
               instances' = EnabledIds(entries), Loaded("policy")
        PROVE  ToolsInv'
    <3>1. n \in Nat
      BY StartupAssumption
    <3>2. instances' \in Seq(Instance) /\ Distinct(instances')
      BY <2>2, <3>1, EnabledIdsDistinct
    <3>3. Distinct(instances)'
      BY <3>2 DEF Distinct
    <3> QED
      BY <2>2, <3>2, <3>3 DEF Loaded, ToolsInv, Configured, InForce, Handled
  <2> QED
    BY <1>1, <2>1, <2>2 DEF LoadInstances
<1>2. CASE LoadPolicy
  <2>1. CASE FailLoading
    BY <2>1 DEF FailLoading, ToolsInv, Configured, InForce, Handled
  <2>2. CASE /\ file' \in Policies /\ env' \in Overrides
             /\ policy' = apply_policy_env_overrides(file', env')
             /\ Loaded("auth")
    <3>1. pc = "policy" /\ instances' = instances
      BY <1>2 DEF LoadPolicy
    <3>2. policy' = apply_policy_env_overrides(file, env)'
      BY <2>2 DEF apply_policy_env_overrides, Override
    <3>3. Configured'
      BY <2>2, <3>1 DEF ToolsInv, Configured, Loaded, Distinct
    <3>4. InForce' /\ Handled'
      BY <2>2, <3>2 DEF Loaded, InForce, Handled, Policies, Overrides
    <3> QED
      BY <3>3, <3>4 DEF ToolsInv
  <2> QED
    BY <1>2, <2>1, <2>2 DEF LoadPolicy, Policies, Overrides
<1>3. CASE LoadAuth
  BY <1>3, ToolsKept DEF LoadAuth, FailLoading
<1>4. CASE BuildParts
  BY <1>4, ToolsKept DEF BuildParts, Built, FailInTry
<1>5. CASE BuildProvider
  BY <1>5, ToolsKept DEF BuildProvider, Built, FailInTry
<1>6. CASE RegisterTools
  BY <1>6, RegisterToolsInv
<1>7. CASE RegisterApp
  BY <1>7, ToolsKept DEF RegisterApp, Built, FailInTry
<1>8. CASE Mount
  BY <1>8, ToolsKept DEF Mount
<1>9. CASE Leave
  BY <1>9, ToolsKept DEF Leave
<1>10. CASE StopPools
  BY <1>10, ToolsKept DEF StopPools
<1>11. CASE StopClient
  BY <1>11, ToolsKept DEF StopClient
<1>12. CASE UNCHANGED vars
  BY <1>12, ToolsKept DEF vars
<1>13. QED
  BY <1>1, <1>2, <1>3, <1>4, <1>5, <1>6, <1>7, <1>8, <1>9, <1>10, <1>11, <1>12
  DEF Next, Ended

(* While it serves, the flags of file and environment decide which handlers *)
(* each enabled instance has, under its name and under a number that is    *)
(* its own: load_config, is_tool_enabled and register_sql_tools agree, for *)
(* every list of entries and every pair of maps.                           *)
THEOREM ToolsAlwaysFollowFlags == Spec => []ToolsFollowFlags
<1>1. Init => ToolsInv
  BY DEF Init, ToolsInv, Configured, InForce, Handled, Building, Running
<1>2. ToolsInv => ToolsFollowFlags
  <2> SUFFICES ASSUME ToolsInv, pc = "serving" PROVE ToolsFollowFlags
    BY DEF ToolsFollowFlags
  <2>1. /\ instances \in Seq(Instance) /\ Distinct(instances)
        /\ file \in Policies /\ env \in Overrides
        /\ policy = apply_policy_env_overrides(file, env)
    BY DEF ToolsInv, Configured, InForce, Running
  <2>2. \A n, k \in 1..Len(instances) : n # k => instances[n] # instances[k]
    BY <2>1 DEF Distinct
  <2>3. \A n \in 1..Len(instances), t \in Tool :
          is_tool_enabled(instances[n], t) <=> ~SwitchedOff(instances[n], t)
    BY <2>1, EnabledIsNotOff
  <2>4. /\ \A s : s \in named <=>
             \E n \in 1..Len(instances), t \in Reports :
               s = <<instances[n], t>> /\ is_tool_enabled(instances[n], t)
        /\ \A n \in 1..Len(instances), t \in Tool :
             <<n, t>> \in numbered <=>
               t \in Basics \/ (t \in Analyses /\ is_tool_enabled(instances[n], t))
    BY DEF ToolsInv, Handled, Running
  <2>5. ASSUME NEW n \in 1..Len(instances), NEW t \in Tool
        PROVE  /\ <<instances[n], t>> \in named <=>
                    t \in Reports /\ ~SwitchedOff(instances[n], t)
               /\ <<n, t>> \in numbered <=>
                    \/ t \in Basics
                    \/ t \in Analyses /\ ~SwitchedOff(instances[n], t)
    <3>1. <<instances[n], t>> \in named <=>
            t \in Reports /\ is_tool_enabled(instances[n], t)
      BY <2>4
    <3>2. <<n, t>> \in numbered <=>
            t \in Basics \/ (t \in Analyses /\ is_tool_enabled(instances[n], t))
      BY <2>4
    <3> QED
      BY <2>3, <3>1, <3>2
  <2>6. \A s \in named : s[1] \in {instances[n] : n \in 1..Len(instances)}
    BY <2>4
  <2> QED
    BY <2>2, <2>4, <2>5, <2>6 DEF ToolsFollowFlags
<1>3. QED
  BY <1>1, <1>2, ToolsStep, PTL DEF Spec
=============================================================================
