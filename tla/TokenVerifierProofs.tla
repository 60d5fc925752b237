------------------------ MODULE TokenVerifierProofs ------------------------
(***************************************************************************)
(* Proofs about TokenVerifier for any number of concurrent calls and keys, *)
(* any time to live of the caches and any latency of the issuer.           *)
(***************************************************************************)
EXTENDS TokenVerifier, TLAPS

-----------------------------------------------------------------------------
(* The three ways in which a key set is judged, and the two of _get_jwks. *)
LEMMA JudgeOutcomes ==
  ASSUME NEW c, NEW keys, NEW k, NEW ok \in BOOLEAN, NEW forced \in BOOLEAN,
         Judge(c, keys, k, ok, forced)
  PROVE  \/ k \in keys /\ ok /\ Return(c, "accept")
         \/ k \in keys /\ ~ok /\ Return(c, "reject")
         \/ k \notin keys /\ forced /\ Return(c, "unknown")
         \/ k \notin keys /\ ~forced /\ Send(c, "forced")
  BY Zenon DEF Judge

(* The cache is used or a request is sent. *)
LEMMA GetJwksOutcomes ==
  ASSUME NEW c, NEW k, NEW ok \in BOOLEAN, GetJwks(c, k, ok)
  PROVE  \/ Fresh(jwksAt) /\ k \in jwks /\ Return(c, "accept")
         \/ Return(c, "reject")
         \/ Send(c, "forced") \/ Send(c, "jwks")
<1>1. CASE Fresh(jwksAt)
  <2>1. Judge(c, jwks, k, ok, FALSE)
    BY <1>1, Zenon DEF GetJwks
  <2> QED
    BY <1>1, <2>1, JudgeOutcomes, Zenon
<1>2. CASE ~Fresh(jwksAt)
  BY <1>2, Zenon DEF GetJwks
<1> QED
  BY <1>1, <1>2

(* A step in which call c sends a request or returns keeps the invariant,  *)
(* if it leaves a sound cache and a sound token behind.                    *)
LEMMA CallStepInv ==
  ASSUME VerifierInv, NEW c \in Call,
         \/ \E d \in {"config", "jwks", "forced"} : Send(c, d)
         \/ \E v \in {"accept", "reject", "unknown"} : Return(c, v),
         UNCHANGED <<clock, published, retired>>,
         configAt' \in Nat \cup {-1}, jwksAt' \in Nat \cup {-1},
         jwks' \subseteq Kid, jwksAt' <= clock,
         \A k \in jwks' : k \in published \/ retired[k] >= jwksAt',
         kid' \in [Call -> Kid \cup {"none"}],
         good' \in [Call -> BOOLEAN], steady' \in [Call -> BOOLEAN],
         \A e \in Call \ {c} : kid'[e] = kid[e] /\ (steady'[e] => steady[e]),
         pc'[c] # "idle" /\ steady'[c] => kid'[c] \in published
  PROVE  VerifierInv'
<1> USE DEF VerifierInv
<1>1. /\ pc' \in [Call -> {"idle", "config", "jwks", "forced"}]
      /\ now' \in [Call -> Nat]
      /\ reply' \in [Call -> (SUBSET Kid) \cup {NoReply}]
      /\ verdict' \in [Call -> {"none", "accept", "reject", "unknown"}]
      /\ reply'[c] = NoReply /\ (pc'[c] # "idle" => now'[c] = clock)
      /\ \A e \in Call \ {c} :
           pc'[e] = pc[e] /\ now'[e] = now[e] /\ reply'[e] = reply[e]
  <2> HIDE DEF NoReply
  <2>1. CASE \E d \in {"config", "jwks", "forced"} : Send(c, d)
    BY <2>1 DEF Send, TypeOK
  <2>2. CASE \E v \in {"accept", "reject", "unknown"} : Return(c, v)
    BY <2>2 DEF Return, TypeOK
  <2> QED
    BY <2>1, <2>2
<1>2. TypeOK'
  BY <1>1, Zenon DEF TypeOK
<1>3. NoOlderThanItsTime'
  <2>1. ASSUME NEW e \in Call, pc'[e] # "idle"
        PROVE  /\ now'[e] <= clock' /\ clock' <= now'[e] + MaxLatency
               /\ reply'[e] # NoReply => \A k \in reply'[e] :
                    k \in published' \/ retired'[k] >= now'[e]
    <3>1. CASE e = c
      BY <1>1, <2>1, <3>1, VerifierAssumption DEF TypeOK
    <3>2. CASE e # c
      BY <1>1, <2>1, <3>2 DEF NoOlderThanItsTime
    <3> QED
      BY <3>1, <3>2
  <2> QED
    BY <2>1 DEF NoOlderThanItsTime
<1>4. SteadyKeys'
  <2>1. ASSUME NEW e \in Call, pc'[e] # "idle", steady'[e]
        PROVE  /\ kid'[e] \in published'
               /\ reply'[e] # NoReply => kid'[e] \in reply'[e]
    <3>1. CASE e = c
      BY <1>1, <2>1, <3>1
    <3>2. CASE e # c
      BY <1>1, <2>1, <3>2 DEF SteadyKeys
    <3> QED
      BY <3>1, <3>2
  <2> QED
    BY <2>1 DEF SteadyKeys
<1> QED
  BY <1>2, <1>3, <1>4

-----------------------------------------------------------------------------
(* VerifierInv is inductive: one step per action. *)
LEMMA InitInv == Init => VerifierInv
<1> SUFFICES ASSUME Init PROVE VerifierInv
  OBVIOUS
<1>1. good \in [Call -> BOOLEAN] /\ steady \in [Call -> BOOLEAN]
  BY Zenon DEF Init
<1>2. TypeOK
  BY <1>1 DEF Init, TypeOK
<1>3. NoOlderThanItsTime /\ SteadyKeys
  BY DEF Init, NoOlderThanItsTime, SteadyKeys
<1> QED
  BY <1>2, <1>3 DEF VerifierInv

(* verify_token is called. *)
LEMMA VerifyInv ==
  ASSUME VerifierInv, NEW c \in Call, NEW k \in Kid \cup {"none"},
         NEW ok \in BOOLEAN, Verify(c, k, ok)
  PROVE  VerifierInv'
<1>1. \/ \E d \in {"config", "jwks", "forced"} : Send(c, d)
      \/ \E v \in {"accept", "reject", "unknown"} : Return(c, v)
  <2>1. \/ Return(c, "reject") \/ Send(c, "config") \/ GetJwks(c, k, ok)
    BY Zenon DEF Verify
  <2> QED
    BY <2>1, GetJwksOutcomes, Zenon
<1>2. UNCHANGED <<clock, published, retired, configAt, jwks, jwksAt>>
  BY DEF Verify, issuer, caches
<1>3. kid' = [kid EXCEPT ![c] = k] /\ good' = [good EXCEPT ![c] = ok]
      /\ steady' = [steady EXCEPT ![c] = (k \in published)]
  BY DEF Verify
<1>4. kid' \in [Call -> Kid \cup {"none"}] /\ kid'[c] = k
      /\ \A e \in Call \ {c} : kid'[e] = kid[e]
  BY <1>3 DEF VerifierInv, TypeOK
<1>5. good' \in [Call -> BOOLEAN] /\ steady' \in [Call -> BOOLEAN]
      /\ (steady'[c] <=> k \in published)
      /\ \A e \in Call \ {c} : steady'[e] <=> steady[e]
  <2>1. good \in [Call -> BOOLEAN] /\ steady \in [Call -> BOOLEAN]
    BY Zenon DEF VerifierInv, TypeOK
  <2>2. (k \in published) \in BOOLEAN
    OBVIOUS
  <2>3. good' \in [Call -> BOOLEAN] /\ steady' \in [Call -> BOOLEAN]
    BY <1>3, <2>1, <2>2, Zenon
  <2>4. steady'[c] = (k \in published) /\ \A e \in Call \ {c} : steady'[e] = steady[e]
    BY <1>3, <2>1, Zenon
  <2> QED
    BY <2>3, <2>4, Zenon
<1>6. /\ configAt' \in Nat \cup {-1} /\ jwksAt' \in Nat \cup {-1}
      /\ jwks' \subseteq Kid /\ jwksAt' <= clock
      /\ \A j \in jwks' : j \in published \/ retired[j] >= jwksAt'
  BY <1>2 DEF VerifierInv, TypeOK, NoOlderThanItsTime
<1>7. UNCHANGED <<clock, published, retired>>
  BY <1>2
<1>8. \A e \in Call \ {c} : kid'[e] = kid[e] /\ (steady'[e] => steady[e])
  BY <1>4, <1>5
<1>9. pc'[c] # "idle" /\ steady'[c] => kid'[c] \in published
  BY <1>4, <1>5
<1> QED
  BY <1>1, <1>4, <1>5, <1>6, <1>7, <1>8, <1>9, CallStepInv

(* The token of a call that goes on is as sound as before. *)
LEMMA SameTokenInv ==
  ASSUME VerifierInv, NEW c \in Call, pc[c] # "idle",
         \/ \E d \in {"config", "jwks", "forced"} : Send(c, d)
         \/ \E v \in {"accept", "reject", "unknown"} : Return(c, v),
         UNCHANGED <<clock, published, retired, kid, good, steady>>,
         configAt' \in Nat \cup {-1}, jwksAt' \in Nat \cup {-1},
         jwks' \subseteq Kid, jwksAt' <= clock,
         \A k \in jwks' : k \in published \/ retired[k] >= jwksAt'
  PROVE  VerifierInv'
<1>1. kid' \in [Call -> Kid \cup {"none"}] /\ good' \in [Call -> BOOLEAN]
      /\ steady' \in [Call -> BOOLEAN]
  BY Zenon DEF VerifierInv, TypeOK
<1>2. \A e \in Call \ {c} : kid'[e] = kid[e] /\ (steady'[e] => steady[e])
  OBVIOUS
<1>3. steady'[c] => kid'[c] \in published
  BY DEF VerifierInv, SteadyKeys
<1> QED
  BY <1>1, <1>2, <1>3, CallStepInv

(* The OpenID configuration arrives. *)
LEMMA ConfigArrivesInv ==
  ASSUME VerifierInv, NEW c \in Call, ConfigArrives(c)
  PROVE  VerifierInv'
<1>1. good[c] \in BOOLEAN
  BY Zenon DEF VerifierInv, TypeOK
<1>2. GetJwks(c, kid[c], good[c]) /\ pc[c] # "idle" /\ configAt' = now[c]
      /\ UNCHANGED <<clock, published, retired, kid, good, steady, jwks, jwksAt>>
  BY DEF ConfigArrives, issuer, token
<1>3. \/ \E d \in {"config", "jwks", "forced"} : Send(c, d)
      \/ \E v \in {"accept", "reject", "unknown"} : Return(c, v)
  BY <1>1, <1>2, GetJwksOutcomes, Zenon
<1>4. /\ configAt' \in Nat \cup {-1} /\ jwksAt' \in Nat \cup {-1}
      /\ jwks' \subseteq Kid /\ jwksAt' <= clock
      /\ \A j \in jwks' : j \in published \/ retired[j] >= jwksAt'
  BY <1>2 DEF VerifierInv, TypeOK, NoOlderThanItsTime
<1> QED
  BY <1>2, <1>3, <1>4, SameTokenInv

(* What is known of a call whose key set has arrived *)
LEMMA ArrivedKeys ==
  ASSUME VerifierInv, NEW c \in Call, JwksArrives(c)
  PROVE  /\ pc[c] # "idle" /\ good[c] \in BOOLEAN
         /\ reply[c] # NoReply /\ reply[c] \subseteq Kid
         /\ now[c] \in Nat /\ now[c] <= clock /\ clock <= now[c] + MaxLatency
         /\ \A k \in reply[c] : k \in published \/ retired[k] >= now[c]
         /\ UNCHANGED <<clock, published, retired, kid, good, steady, configAt>>
         /\ Judge(c, reply[c], kid[c], good[c], pc[c] = "forced")
<1>1. good[c] \in BOOLEAN
  BY Zenon DEF VerifierInv, TypeOK
<1>2. pc[c] # "idle" /\ reply[c] # NoReply
      /\ UNCHANGED <<clock, published, retired, kid, good, steady, configAt>>
  BY DEF JwksArrives, issuer, token
<1>3. Judge(c, reply[c], kid[c], good[c], pc[c] = "forced")
  BY Zenon DEF JwksArrives
<1>4. reply[c] \subseteq Kid /\ now[c] \in Nat
  BY <1>2 DEF VerifierInv, TypeOK
<1> QED
  BY <1>1, <1>2, <1>3, <1>4 DEF VerifierInv, NoOlderThanItsTime

(* How the arrival of a key set ends *)
LEMMA ArrivalOutcomes ==
  ASSUME VerifierInv, NEW c \in Call, JwksArrives(c)
  PROVE  \/ kid[c] \in reply[c] /\ (Return(c, "accept") \/ Return(c, "reject"))
         \/ kid[c] \notin reply[c] /\ (Return(c, "unknown") \/ Send(c, "forced"))
<1>1. Judge(c, reply[c], kid[c], good[c], pc[c] = "forced")
  BY ArrivedKeys
<1> QED
  BY <1>1, Zenon DEF Judge

(* A key set arrives, possibly an older one than the cached one. *)
LEMMA JwksArrivesInv ==
  ASSUME VerifierInv, NEW c \in Call, JwksArrives(c)
  PROVE  VerifierInv'
<1>1. \/ \E d \in {"config", "jwks", "forced"} : Send(c, d)
      \/ \E v \in {"accept", "reject", "unknown"} : Return(c, v)
  BY ArrivalOutcomes
<1>2. jwks' = reply[c] /\ jwksAt' = now[c]
  BY DEF JwksArrives
<1>3. /\ jwksAt' \in Nat \cup {-1} /\ jwks' \subseteq Kid /\ jwksAt' <= clock
      /\ \A j \in jwks' : j \in published \/ retired[j] >= jwksAt'
  BY <1>2, ArrivedKeys
<1>4. configAt' \in Nat \cup {-1} /\ pc[c] # "idle"
      /\ UNCHANGED <<clock, published, retired, kid, good, steady>>
  BY ArrivedKeys DEF VerifierInv, TypeOK
<1> QED
  BY <1>1, <1>3, <1>4, SameTokenInv

(* A request fails. *)
LEMMA FetchFailsInv ==
  ASSUME VerifierInv, NEW c \in Call, FetchFails(c)
  PROVE  VerifierInv'
<1>1. Return(c, "reject") /\ pc[c] # "idle"
      /\ UNCHANGED <<clock, published, retired, kid, good, steady,
                     configAt, jwks, jwksAt>>
  BY DEF FetchFails, issuer, caches, token
<1>2. /\ configAt' \in Nat \cup {-1} /\ jwksAt' \in Nat \cup {-1}
      /\ jwks' \subseteq Kid /\ jwksAt' <= clock
      /\ \A j \in jwks' : j \in published \/ retired[j] >= jwksAt'
  BY <1>1 DEF VerifierInv, TypeOK, NoOlderThanItsTime
<1> QED
  BY <1>1, <1>2, SameTokenInv

(* The issuer answers with what it publishes at that moment. *)
LEMMA RespondInv ==
  ASSUME VerifierInv, NEW c \in Call, Respond(c)
  PROVE  VerifierInv'
<1> USE DEF VerifierInv
<1>1. UNCHANGED <<clock, published, retired, configAt, jwks, jwksAt, pc, kid,
                  good, steady, now, verdict>>
      /\ reply' = [reply EXCEPT ![c] = published]
  BY DEF Respond, issuer, caches, token
<1>2. reply' \in [Call -> (SUBSET Kid) \cup {NoReply}] /\ reply'[c] = published
      /\ \A e \in Call \ {c} : reply'[e] = reply[e]
  <2> HIDE DEF NoReply
  <2> QED
    BY <1>1 DEF TypeOK
<1>3. TypeOK'
  BY <1>1, <1>2, Zenon DEF TypeOK
<1>4. NoOlderThanItsTime'
  BY <1>1, <1>2 DEF NoOlderThanItsTime
<1>5. SteadyKeys'
  BY <1>1, <1>2 DEF SteadyKeys
<1> QED
  BY <1>3, <1>4, <1>5

(* The verdict is taken. *)
LEMMA TakeInv ==
  ASSUME VerifierInv, NEW c \in Call, Take(c)
  PROVE  VerifierInv'
<1> USE DEF VerifierInv
<1>1. UNCHANGED <<clock, published, retired, configAt, jwks, jwksAt, pc, now, reply>>
      /\ verdict' = [verdict EXCEPT ![c] = "none"]
      /\ kid' = [kid EXCEPT ![c] = "none"]
      /\ good' = [good EXCEPT ![c] = FALSE]
      /\ steady' = [steady EXCEPT ![c] = FALSE]
  BY DEF Take, issuer, caches
<1>2. good' \in [Call -> BOOLEAN] /\ steady' \in [Call -> BOOLEAN]
      /\ ~steady'[c] /\ \A e \in Call \ {c} : steady'[e] <=> steady[e]
  BY <1>1, Zenon DEF TypeOK
<1>3. verdict' \in [Call -> {"none", "accept", "reject", "unknown"}]
      /\ kid' \in [Call -> Kid \cup {"none"}]
      /\ \A e \in Call \ {c} : kid'[e] = kid[e]
  BY <1>1 DEF TypeOK
<1>4. TypeOK'
  BY <1>1, <1>2, <1>3, Zenon DEF TypeOK
<1>5. NoOlderThanItsTime'
  BY <1>1 DEF NoOlderThanItsTime
<1>6. SteadyKeys'
  BY <1>1, <1>2, <1>3 DEF SteadyKeys
<1> QED
  BY <1>4, <1>5, <1>6

(* A retired key is retired now: no key set is younger than that. *)
LEMMA RetireInv ==
  ASSUME VerifierInv, NEW k \in Kid, Retire(k)
  PROVE  VerifierInv'
<1> USE DEF VerifierInv
<1>1. UNCHANGED <<clock, configAt, jwks, jwksAt, pc, kid, good, now, reply, verdict>>
      /\ published' = published \ {k}
      /\ retired' = [retired EXCEPT ![k] = clock]
      /\ steady' = [c \in Call |-> steady[c] /\ kid[c] # k]
  BY DEF Retire, caches
<1>2. steady' \in [Call -> BOOLEAN]
      /\ \A c \in Call : steady'[c] <=> steady[c] /\ kid[c] # k
  BY <1>1, Zenon DEF TypeOK
<1>3. retired' \in [Kid -> Nat \cup {-1}] /\ published' \subseteq Kid
  BY <1>1 DEF TypeOK
<1>4. TypeOK'
  BY <1>1, <1>2, <1>3, Zenon DEF TypeOK
<1>5. NoOlderThanItsTime'
  <2>1. ASSUME NEW j \in jwks' PROVE j \in published' \/ retired'[j] >= jwksAt'
    BY <1>1, <2>1 DEF NoOlderThanItsTime, TypeOK
  <2>2. ASSUME NEW c \in Call, pc'[c] # "idle", reply'[c] # NoReply,
               NEW j \in reply'[c]
        PROVE  j \in published' \/ retired'[j] >= now'[c]
    <3>1. reply[c] \subseteq Kid
      BY <1>1, <2>2 DEF TypeOK
    <3> QED
      BY <1>1, <2>2, <3>1 DEF NoOlderThanItsTime, TypeOK
  <2> QED
    BY <1>1, <2>1, <2>2 DEF NoOlderThanItsTime
<1>6. SteadyKeys'
  BY <1>1, <1>2 DEF SteadyKeys, TypeOK
<1> QED
  BY <1>4, <1>5, <1>6

(* Every step keeps the invariant. *)
LEMMA StepInv == VerifierInv /\ [Next]_vars => VerifierInv'
<1> SUFFICES ASSUME VerifierInv, [Next]_vars PROVE VerifierInv'
  OBVIOUS
<1>1. CASE Tick
  <2> USE DEF VerifierInv
  <2>1. clock' = clock + 1
        /\ UNCHANGED <<published, retired, configAt, jwks, jwksAt, pc, kid, good,
                       steady, now, reply, verdict>>
    BY <1>1 DEF Tick, issuer, caches, token
  <2>2. clock' \in Nat
    BY <2>1 DEF TypeOK
  <2>3. TypeOK'
    BY <2>1, <2>2, Zenon DEF TypeOK
  <2>4. SteadyKeys'
    BY <2>1 DEF SteadyKeys
  <2>5. NoOlderThanItsTime'
    <3>1. jwksAt' <= clock'
      BY <2>1 DEF NoOlderThanItsTime, TypeOK
    <3>2. \A c \in Call : pc[c] # "idle" =>
            now[c] <= clock + 1 /\ clock + 1 <= now[c] + MaxLatency
      BY <1>1, VerifierAssumption DEF Tick, NoOlderThanItsTime, TypeOK
    <3> QED
      BY <2>1, <3>1, <3>2 DEF NoOlderThanItsTime
  <2> QED
    BY <2>3, <2>4, <2>5
<1>2. ASSUME NEW k \in Kid, Publish(k) PROVE VerifierInv'
  <2> USE DEF VerifierInv
  <2>1. published' = published \cup {k} /\ retired[k] = -1
        /\ UNCHANGED <<clock, retired, configAt, jwks, jwksAt, pc, kid, good,
                       steady, now, reply, verdict>>
    BY <1>2 DEF Publish, caches, token
  <2>2. TypeOK'
    BY <2>1, Zenon DEF TypeOK
  <2>3. NoOlderThanItsTime' /\ SteadyKeys'
    BY <2>1 DEF NoOlderThanItsTime, SteadyKeys
  <2> QED
    BY <2>2, <2>3
<1>3. CASE UNCHANGED vars
  <2> USE <1>3 DEF VerifierInv, vars
  <2>1. TypeOK'
    BY Zenon DEF TypeOK
  <2>2. NoOlderThanItsTime' /\ SteadyKeys'
    BY DEF NoOlderThanItsTime, SteadyKeys
  <2> QED
    BY <2>1, <2>2
<1> QED
  BY <1>1, <1>2, <1>3, RetireInv, VerifyInv, ConfigArrivesInv, RespondInv,
     JwksArrivesInv, FetchFailsInv, TakeInv DEF Next

(* A key set never holds a key that was retired before the time under      *)
(* which it is cached, and the keys a call can rely on are in its answers. *)
THEOREM VerifierInvariance == Spec => []VerifierInv
  BY InitInv, StepInv, PTL DEF Spec

-----------------------------------------------------------------------------
(* A step that changes the verdict of a call is a step of that call. *)
LEMMA VerdictSteps ==
  ASSUME VerifierInv, [Next]_vars, NEW c \in Call,
         verdict'[c] # verdict[c], verdict'[c] # "none"
  PROVE  \/ \E k \in Kid \cup {"none"}, ok \in BOOLEAN : Verify(c, k, ok)
         \/ ConfigArrives(c) \/ JwksArrives(c) \/ FetchFails(c)
<1>1. verdict \in [Call -> {"none", "accept", "reject", "unknown"}]
  BY DEF VerifierInv, TypeOK
<1>2. ~(UNCHANGED verdict)
  OBVIOUS
<1>3. ASSUME NEW e \in Call, NEW x, e # c, Send(e, x) \/ Return(e, x) PROVE FALSE
  BY <1>1, <1>3 DEF Send, Return
<1>4. ASSUME NEW e \in Call, e # c,
             \/ \E k \in Kid \cup {"none"}, ok \in BOOLEAN : Verify(e, k, ok)
             \/ ConfigArrives(e) \/ JwksArrives(e) \/ FetchFails(e)
      PROVE  \E x : Send(e, x) \/ Return(e, x)
  BY <1>4, Zenon DEF Verify, ConfigArrives, JwksArrives, FetchFails, GetJwks, Judge
<1>5. ~(\E e \in Call : Take(e))
  BY <1>1 DEF Take
<1>6. ~Tick /\ ~(UNCHANGED vars) /\ ~(\E k \in Kid : Publish(k) \/ Retire(k))
      /\ ~(\E e \in Call : Respond(e))
  BY <1>2, Zenon DEF Tick, vars, Publish, Retire, Respond
<1> QED
  BY <1>3, <1>4, <1>5, <1>6, Zenon DEF Next

(* What the new verdict of a returning call is *)
LEMMA ReturnVerdict ==
  ASSUME VerifierInv, NEW c \in Call, NEW x
  PROVE  /\ Return(c, x) => verdict'[c] = x
         /\ Send(c, x) => verdict'[c] = "none"
  BY DEF Return, Send, VerifierInv, TypeOK

(* A fresh cached key set holds no key that was retired CacheTtl ago. *)
LEMMA CachedKey ==
  ASSUME VerifierInv, NEW k \in jwks, Fresh(jwksAt)
  PROVE  \/ k \in published
         \/ retired[k] # -1 /\ clock < retired[k] + CacheTtl
<1>1. k \in Kid /\ jwksAt \in Nat /\ clock \in Nat /\ retired[k] \in Nat \cup {-1}
      /\ clock - jwksAt < CacheTtl /\ CacheTtl \in Nat
  BY VerifierAssumption DEF VerifierInv, TypeOK, Fresh
<1>2. k \in published \/ retired[k] >= jwksAt
  BY DEF VerifierInv, NoOlderThanItsTime
<1> QED
  BY <1>1, <1>2

(* Tokens signed with a retired key are accepted for CacheTtl at most, or  *)
(* for as long as a response was on its way.                               *)
THEOREM RetiredKeysDie == Spec => RetiredSoonRejected
<1> DEFINE A ==
      \A c \in Call : verdict[c] # "accept" /\ verdict'[c] = "accept" =>
        \/ kid'[c] \in published
        \/ /\ retired[kid'[c]] # -1
           /\ \/ clock < retired[kid'[c]] + CacheTtl
              \/ clock <= retired[kid'[c]] + MaxLatency
<1>1. VerifierInv /\ [Next]_vars => [A]_vars
  <2> SUFFICES ASSUME VerifierInv, [Next]_vars, NEW c \in Call,
                      verdict[c] # "accept", verdict'[c] = "accept"
               PROVE  \/ kid'[c] \in published
                      \/ /\ retired[kid'[c]] # -1
                         /\ \/ clock < retired[kid'[c]] + CacheTtl
                            \/ clock <= retired[kid'[c]] + MaxLatency
    OBVIOUS
  <2>1. \/ \E k \in Kid \cup {"none"}, ok \in BOOLEAN : Verify(c, k, ok)
        \/ ConfigArrives(c) \/ JwksArrives(c) \/ FetchFails(c)
    BY VerdictSteps
  <2>2. ASSUME NEW k \in Kid \cup {"none"}, NEW ok \in BOOLEAN, GetJwks(c, k, ok)
        PROVE  k \in published \/ (retired[k] # -1 /\ clock < retired[k] + CacheTtl)
    <3>1. Fresh(jwksAt) /\ k \in jwks
      BY <2>2, GetJwksOutcomes, ReturnVerdict
    <3> QED
      BY <3>1, CachedKey
  <2>3. ASSUME NEW k \in Kid \cup {"none"}, NEW ok \in BOOLEAN, Verify(c, k, ok)
        PROVE  kid'[c] = k /\ GetJwks(c, k, ok)
    <3>1. kid'[c] = k
      BY <2>3 DEF Verify, VerifierInv, TypeOK
    <3>2. Return(c, "reject") \/ Send(c, "config") \/ GetJwks(c, k, ok)
      BY <2>3, Zenon DEF Verify
    <3> QED
      BY <3>1, <3>2, ReturnVerdict
  <2>4. ASSUME ConfigArrives(c)
        PROVE  /\ kid'[c] = kid[c] /\ GetJwks(c, kid[c], good[c])
               /\ kid[c] \in Kid \cup {"none"} /\ good[c] \in BOOLEAN
    <3>1. good[c] \in BOOLEAN
      BY Zenon DEF VerifierInv, TypeOK
    <3>2. kid'[c] = kid[c] /\ GetJwks(c, kid[c], good[c])
      BY <2>4, Zenon DEF ConfigArrives, token
    <3> QED
      BY <3>1, <3>2 DEF VerifierInv, TypeOK
  <2>5. ASSUME JwksArrives(c)
        PROVE  \/ kid'[c] \in published
               \/ retired[kid'[c]] # -1 /\ clock <= retired[kid'[c]] + MaxLatency
    <3>1. kid'[c] = kid[c] /\ kid[c] \in reply[c]
      BY <2>5, ArrivedKeys, ArrivalOutcomes, ReturnVerdict
    <3>2. kid[c] \in Kid /\ retired[kid[c]] \in Nat \cup {-1} /\ clock \in Nat
          /\ now[c] \in Nat /\ MaxLatency \in Nat /\ clock <= now[c] + MaxLatency
          /\ (kid[c] \in published \/ retired[kid[c]] >= now[c])
      BY <2>5, <3>1, ArrivedKeys, VerifierAssumption DEF VerifierInv, TypeOK
    <3> QED
      BY <3>1, <3>2
  <2>6. ~FetchFails(c)
    BY ReturnVerdict DEF FetchFails
  <2> QED
    BY <2>1, <2>2, <2>3, <2>4, <2>5, <2>6
<1> QED
  BY <1>1, VerifierInvariance, PTL DEF Spec, RetiredSoonRejected

(* A key that stays published during a call is found, in the cache or by   *)
(* the forced refresh.                                                     *)
THEOREM NewKeysFound == Spec => NewKeyFound
<1> DEFINE A ==
      \A c \in Call : verdict[c] # "unknown" /\ verdict'[c] = "unknown" =>
        ~steady'[c]
<1>1. VerifierInv /\ [Next]_vars => [A]_vars
  <2> SUFFICES ASSUME VerifierInv, [Next]_vars, NEW c \in Call,
                      verdict[c] # "unknown", verdict'[c] = "unknown"
               PROVE  ~steady'[c]
    OBVIOUS
  <2>1. \/ \E k \in Kid \cup {"none"}, ok \in BOOLEAN : Verify(c, k, ok)
        \/ ConfigArrives(c) \/ JwksArrives(c) \/ FetchFails(c)
    BY VerdictSteps
  <2>2. ASSUME NEW k, NEW ok \in BOOLEAN, GetJwks(c, k, ok) PROVE FALSE
    BY <2>2, GetJwksOutcomes, ReturnVerdict
  <2>3. ASSUME NEW k \in Kid \cup {"none"}, NEW ok \in BOOLEAN, Verify(c, k, ok)
        PROVE  FALSE
    <3>1. Return(c, "reject") \/ Send(c, "config") \/ GetJwks(c, k, ok)
      BY <2>3, Zenon DEF Verify
    <3> QED
      BY <2>2, <3>1, ReturnVerdict
  <2>4. ~ConfigArrives(c) /\ ~FetchFails(c)
    <3>1. good[c] \in BOOLEAN
      BY Zenon DEF VerifierInv, TypeOK
    <3>2. ~ConfigArrives(c)
      BY <2>2, <3>1, Zenon DEF ConfigArrives
    <3>3. ~FetchFails(c)
      BY ReturnVerdict DEF FetchFails
    <3> QED
      BY <3>2, <3>3
  <2>5. JwksArrives(c)
    BY <2>1, <2>3, <2>4
  <2>6. kid[c] \notin reply[c]
    BY <2>5, ArrivedKeys, ArrivalOutcomes, ReturnVerdict
  <2>7. ~steady[c]
    BY <2>5, <2>6, ArrivedKeys DEF VerifierInv, SteadyKeys
  <2>8. steady' = steady
    BY <2>5, ArrivedKeys
  <2> QED
    BY <2>7, <2>8
<1> QED
  BY <1>1, VerifierInvariance, PTL DEF Spec, NewKeyFound
=============================================================================
