---------------------------- MODULE TokenVerifier ----------------------------
(***************************************************************************)
(* AzureEntraTokenVerifier of src/security/auth_provider.py under key      *)
(* rotation and concurrent calls.                                          *)
(*                                                                         *)
(* verify_token is a coroutine with up to three awaits: the OpenID         *)
(* configuration, the key set (JWKS), and the key set once more if the     *)
(* key of the token is not in it.  Between two awaits nothing else runs.   *)
(* The two documents are cached; the time of a cache entry is the time     *)
(* BEFORE the request was sent.  Several calls may have requests under way *)
(* and their responses may arrive in any order.                            *)
(*                                                                         *)
(* Tokens are abstracted to the id of their key and to whether jwt.decode  *)
(* and the required scopes accept them; the issuer publishes and retires   *)
(* keys (external).                                                        *)
(***************************************************************************)
EXTENDS Integers, FiniteSets

CONSTANTS
  Call,        \* concurrent calls of verify_token
  Kid,         \* key ids
  CacheTtl,    \* config_cache_ttl_sec
  MaxLatency,  \* bound: time from sending a request to its response
  MaxClock     \* bound: clock ticks

ASSUME VerifierAssumption ==
  /\ IsFiniteSet(Call) /\ IsFiniteSet(Kid) /\ "none" \notin Kid
  /\ CacheTtl \in Nat /\ MaxLatency \in Nat /\ MaxClock \in Nat

VARIABLES
  clock,
  published,  \* the keys that the issuer publishes
  retired,    \* when a key was retired, -1 if it was not
  configAt,   \* _openid_config_cache_at, -1 while there is no cached document
  jwks,       \* _jwks_cache
  jwksAt,     \* _jwks_cache_at, -1 while there is no cached key set
  pc,         \* what a call waits for: config, jwks, forced; or idle
  kid,        \* the key of its token
  good,       \* its token is in order but for the key
  now,        \* the time it has read before the request it waits for
  reply,      \* NoReply, or the response to it, which is on its way
  verdict,    \* of its last token: none, accept, reject or unknown (key)
  steady      \* history: its key is published since the call began

vars == <<clock, published, retired, configAt, jwks, jwksAt, pc, kid, good, now,
          reply, verdict, steady>>

caches == <<configAt, jwks, jwksAt>>
issuer == <<published, retired>>
token == <<kid, good, steady>>

(* No set of keys *)
NoReply == {"none"}

Init ==
  /\ clock = 0
  /\ published \in SUBSET Kid
  /\ retired = [k \in Kid |-> -1]
  /\ configAt = -1 /\ jwksAt = -1 /\ jwks = {}
  /\ pc = [c \in Call |-> "idle"]
  /\ kid = [c \in Call |-> "none"]
  /\ good = [c \in Call |-> FALSE]
  /\ now = [c \in Call |-> 0]
  /\ reply = [c \in Call |-> NoReply]
  /\ verdict = [c \in Call |-> "none"]
  /\ steady = [c \in Call |-> FALSE]

-----------------------------------------------------------------------------
(* Steps of a call.  They are parts of the actions below.                  *)

Return(c, v) ==
  /\ pc' = [pc EXCEPT ![c] = "idle"]
  /\ now' = [now EXCEPT ![c] = 0]
  /\ reply' = [reply EXCEPT ![c] = NoReply]
  /\ verdict' = [verdict EXCEPT ![c] = v]

(* A request is sent: the clock was read just before *)
Send(c, document) ==
  /\ pc' = [pc EXCEPT ![c] = document]
  /\ now' = [now EXCEPT ![c] = clock]
  /\ reply' = [reply EXCEPT ![c] = NoReply]
  /\ verdict' = [verdict EXCEPT ![c] = "none"]

(* Mutant of Fresh: the time to live is not looked at *)
FreshForever(t) == t # -1

(* A cached document may be used *)
Fresh(t) == t # -1 /\ clock - t < CacheTtl

(* Mutant of Judge: an unknown key is not looked up again *)
JudgeOnce(c, keys, k, ok, forced) ==
  IF k \in keys THEN Return(c, IF ok THEN "accept" ELSE "reject")
                ELSE Return(c, "unknown")

(* The key is looked up in a key set; an unknown key forces one refresh    *)
Judge(c, keys, k, ok, forced) ==
  IF k \in keys THEN Return(c, IF ok THEN "accept" ELSE "reject")
  ELSE IF forced THEN Return(c, "unknown") ELSE Send(c, "forced")

(* _get_jwks without force_refresh *)
GetJwks(c, k, ok) ==
  IF Fresh(jwksAt) THEN Judge(c, jwks, k, ok, FALSE) ELSE Send(c, "jwks")

-----------------------------------------------------------------------------
(* verify_token is called.  A token without a key id or algorithm is       *)
(* rejected before anything is fetched.                                    *)
Verify(c, k, ok) ==
  /\ pc[c] = "idle" /\ verdict[c] = "none"
  /\ kid' = [kid EXCEPT ![c] = k]
  /\ good' = [good EXCEPT ![c] = ok]
  /\ steady' = [steady EXCEPT ![c] = k \in published]
  /\ IF k = "none" THEN Return(c, "reject")
     ELSE IF Fresh(configAt) THEN GetJwks(c, k, ok) ELSE Send(c, "config")
  /\ UNCHANGED <<clock, issuer, caches>>

(* The OpenID configuration arrives and is cached *)
ConfigArrives(c) ==
  /\ pc[c] = "config"
  /\ configAt' = now[c]
  /\ GetJwks(c, kid[c], good[c])
  /\ UNCHANGED <<clock, issuer, jwks, jwksAt, token>>

(* The issuer answers a request for its keys *)
Respond(c) ==
  /\ pc[c] \in {"jwks", "forced"} /\ reply[c] = NoReply
  /\ reply' = [reply EXCEPT ![c] = published]
  /\ UNCHANGED <<clock, issuer, caches, pc, token, now, verdict>>

(* Mutant of JwksArrives: the entry is as old as its arrival *)
JwksArrivesLate(c) ==
  /\ pc[c] \in {"jwks", "forced"} /\ reply[c] # NoReply
  /\ jwks' = reply[c]
  /\ jwksAt' = clock
  /\ Judge(c, reply[c], kid[c], good[c], pc[c] = "forced")
  /\ UNCHANGED <<clock, issuer, configAt, token>>

(* The key set arrives, is cached and decides the call *)
JwksArrives(c) ==
  /\ pc[c] \in {"jwks", "forced"} /\ reply[c] # NoReply
  /\ jwks' = reply[c]
  /\ jwksAt' = now[c]
  /\ Judge(c, reply[c], kid[c], good[c], pc[c] = "forced")
  /\ UNCHANGED <<clock, issuer, configAt, token>>

(* A request fails, or its response is not usable: no token is accepted,   *)
(* and the cache is left as it was.                                        *)
FetchFails(c) ==
  /\ pc[c] # "idle"
  /\ Return(c, "reject")
  /\ UNCHANGED <<clock, issuer, caches, token>>

(* The framework takes the verdict: 401 or the call goes on *)
Take(c) ==
  /\ verdict[c] # "none"
  /\ verdict' = [verdict EXCEPT ![c] = "none"]
  /\ kid' = [kid EXCEPT ![c] = "none"]
  /\ good' = [good EXCEPT ![c] = FALSE]
  /\ steady' = [steady EXCEPT ![c] = FALSE]
  /\ UNCHANGED <<clock, issuer, caches, pc, now, reply>>

-----------------------------------------------------------------------------
(* The issuer adds a key, or withdraws one for good *)
Publish(k) ==
  /\ k \notin published /\ retired[k] = -1
  /\ published' = published \cup {k}
  /\ UNCHANGED <<clock, retired, caches, pc, token, now, reply, verdict>>

Retire(k) ==
  /\ k \in published
  /\ published' = published \ {k}
  /\ retired' = [retired EXCEPT ![k] = clock]
  /\ steady' = [c \in Call |-> steady[c] /\ kid[c] # k]
  /\ UNCHANGED <<clock, caches, pc, kid, good, now, reply, verdict>>

Tick ==
  /\ clock < MaxClock
  /\ \A c \in Call : pc[c] # "idle" => clock < now[c] + MaxLatency
  /\ clock' = clock + 1
  /\ UNCHANGED <<issuer, caches, pc, token, now, reply, verdict>>

Next ==
  \/ Tick
  \/ \E k \in Kid : Publish(k) \/ Retire(k)
  \/ \E c \in Call :
       \/ \E k \in Kid \cup {"none"}, ok \in BOOLEAN : Verify(c, k, ok)
       \/ ConfigArrives(c) \/ Respond(c) \/ JwksArrives(c) \/ FetchFails(c)
       \/ Take(c)

Spec == Init /\ [][Next]_vars

-----------------------------------------------------------------------------
TypeOK ==
  /\ clock \in Nat
  /\ published \subseteq Kid /\ retired \in [Kid -> Nat \cup {-1}]
  /\ configAt \in Nat \cup {-1} /\ jwksAt \in Nat \cup {-1}
  /\ jwks \subseteq Kid
  /\ pc \in [Call -> {"idle", "config", "jwks", "forced"}]
  /\ kid \in [Call -> Kid \cup {"none"}]
  /\ good \in [Call -> BOOLEAN] /\ steady \in [Call -> BOOLEAN]
  /\ now \in [Call -> Nat]
  /\ reply \in [Call -> (SUBSET Kid) \cup {NoReply}]
  /\ verdict \in [Call -> {"none", "accept", "reject", "unknown"}]

(* A key set, in the cache or on its way, is not older than the time that  *)
(* was read before it was requested: it holds no key that was retired      *)
(* earlier.  This is so whatever the order in which responses arrive.      *)
NoOlderThanItsTime ==
  /\ jwksAt <= clock
  /\ \A k \in jwks : k \in published \/ retired[k] >= jwksAt
  /\ \A c \in Call : pc[c] # "idle" =>
       /\ now[c] <= clock /\ clock <= now[c] + MaxLatency
       /\ reply[c] # NoReply =>
            \A k \in reply[c] : k \in published \/ retired[k] >= now[c]

(* A steady key is published, and in every response to the call's second   *)
(* request.                                                                *)
SteadyKeys ==
  /\ \A k \in published : retired[k] = -1
  /\ \A c \in Call : pc[c] # "idle" /\ steady[c] =>
       /\ kid[c] \in published
       /\ reply[c] # NoReply => kid[c] \in reply[c]

(* The inductive invariant *)
VerifierInv == TypeOK /\ NoOlderThanItsTime /\ SteadyKeys

(* A retired key opens no door once a cached key set or a response under   *)
(* way has had the time to grow old: a token is accepted only if its key   *)
(* is published, or was retired less than CacheTtl, or at most MaxLatency, *)
(* before.                                                                 *)
RetiredSoonRejected ==
  [][\A c \in Call : verdict[c] # "accept" /\ verdict'[c] = "accept" =>
       \/ kid'[c] \in published
       \/ /\ retired[kid'[c]] # -1
          /\ \/ clock < retired[kid'[c]] + CacheTtl
             \/ clock <= retired[kid'[c]] + MaxLatency]_vars

(* A key that is published for the whole duration of a call is never       *)
(* "unknown", however old the cached key set is: the forced refresh finds  *)
(* it although other calls may meanwhile put an older key set back.        *)
NewKeyFound ==
  [][\A c \in Call : verdict[c] # "unknown" /\ verdict'[c] = "unknown" =>
       ~steady'[c]]_vars
=============================================================================
