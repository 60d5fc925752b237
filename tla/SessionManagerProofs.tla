------------------------ MODULE SessionManagerProofs ------------------------
(***************************************************************************)
(* Proofs about SessionManager for any finite sets of actors and keys, any *)
(* number of callers, any limits and timeouts, and an unbounded clock      *)
(* (MaxClock is any number).                                               *)
(***************************************************************************)
EXTENDS SessionManager, FiniteSetTheorems, TLAPS

-----------------------------------------------------------------------------
(* What _cleanup leaves: a part of the table with unchanged stamps, all of *)
(* them within both limits.                                                *)
LEMMA CleanedTable ==
  ASSUME TypeOK, NEW a \in Actor, NEW k \in Key
  PROVE  /\ Cleaned[a][k] \in Nat \cup {-1}
         /\ Cleaned[a][k] # -1 => /\ Cleaned[a][k] = sessions[a][k]
                                  /\ clock - sessions[a][k] <= Timeout
         /\ Cleaned[a][k] = -1 => \/ sessions[a][k] = -1
                                  \/ clock - sessions[a][k] > Timeout
<1>1. Cleaned[a][k] = IF Expired(sessions[a][k]) THEN -1 ELSE sessions[a][k]
  BY DEF Cleaned
<1>2. sessions[a][k] \in Nat \cup {-1} /\ clock \in Nat
  BY DEF TypeOK
<1> QED
  BY <1>1, <1>2, SessionAssumption DEF Expired, Timeout

(* _cleanup never adds a session. *)
LEMMA CleanedSmaller ==
  ASSUME TypeOK, NEW a \in Actor
  PROVE  /\ Stored(Cleaned, a) \subseteq Stored(sessions, a)
         /\ IsFiniteSet(Stored(Cleaned, a))
         /\ Cardinality(Stored(Cleaned, a)) \in Nat
         /\ Cardinality(Stored(Cleaned, a)) <= Cardinality(Stored(sessions, a))
         /\ Cardinality(Stored(sessions, a)) \in Nat
<1>1. Stored(Cleaned, a) \subseteq Stored(sessions, a)
  BY CleanedTable DEF Stored
<1>2. IsFiniteSet(Stored(sessions, a))
  <2>1. Stored(sessions, a) \in SUBSET Key
    BY DEF Stored
  <2> QED
    BY <2>1, FS_Subset, SessionAssumption
<1>3. IsFiniteSet(Stored(Cleaned, a))
      /\ Cardinality(Stored(Cleaned, a)) <= Cardinality(Stored(sessions, a))
  BY <1>1, <1>2, FS_Subset
<1> QED
  BY <1>1, <1>2, <1>3, FS_CardinalityType

(* A session that was used a short time ago survives _cleanup. *)
LEMMA AliveSurvives ==
  ASSUME SessionInv, NEW a \in Actor, NEW k \in Alive(a, Timeout - MaxDelay)
  PROVE  Cleaned[a][k] # -1
<1>1. k \in Key /\ used[a][k] # -1 /\ clock - used[a][k] <= Timeout - MaxDelay
  BY DEF Alive
<1>2. k \in Stored(sessions, a)
  BY DEF SessionInv, UsedStored
<1>3. sessions[a][k] # -1
  BY <1>2 DEF Stored
<1>4. used[a][k] <= sessions[a][k] + MaxDelay
  BY <1>2 DEF SessionInv, StampsFresh
<1>5. sessions[a][k] \in Nat \cup {-1} /\ used[a][k] \in Nat \cup {-1}
      /\ clock \in Nat
  BY <1>1 DEF SessionInv, TypeOK
<1>6. Timeout \in Nat /\ MaxDelay \in Nat
  BY SessionAssumption DEF Timeout
<1>7. clock - sessions[a][k] <= Timeout
  BY <1>1, <1>4, <1>5, <1>6
<1>8. ~(clock - sessions[a][k] > Timeout)
  BY <1>5, <1>6, <1>7
<1> QED
  BY <1>1, <1>3, <1>8, CleanedTable DEF SessionInv

-----------------------------------------------------------------------------
(* SessionInv is inductive: one lemma per action. *)

(* The table starts empty. *)
LEMMA InitInv == Init => SessionInv
<1> SUFFICES ASSUME Init PROVE SessionInv
  OBVIOUS
<1>1. TypeOK
  BY DEF Init, TypeOK
<1>2. \A a \in Actor : Stored(sessions, a) = {} /\ \A d : Alive(a, d) = {}
  BY DEF Init, Stored, Alive
<1>3. StampsFresh
  BY <1>2 DEF StampsFresh, Init, Called
<1>4. LimitKept
  BY <1>2, FS_EmptySet, SessionAssumption DEF LimitKept
<1> QED
  BY <1>1, <1>2, <1>3, <1>4 DEF SessionInv, UsedStored

(* A step that only cleans the table up keeps its invariant: Refuse and    *)
(* ActiveCount.                                                            *)
LEMMA CleanupInv ==
  ASSUME SessionInv, sessions' = Cleaned, born' = Forgotten(born, Cleaned),
         UNCHANGED <<clock, seen, used>>,
         actor' \in [Process -> Actor \cup {"none"}],
         key' \in [Process -> Key \cup {"none"}], now' \in [Process -> Nat],
         \A p \in Process : Called(p)' =>
           Called(p) /\ key'[p] = key[p] /\ now'[p] = now[p]
  PROVE  SessionInv'
<1> USE DEF SessionInv
<1>1. \A a \in Actor, k \in Key :
        /\ sessions'[a][k] \in Nat \cup {-1}
        /\ born'[a][k] = IF sessions'[a][k] = -1 THEN -1 ELSE born[a][k]
        /\ sessions'[a][k] # -1 => sessions'[a][k] = sessions[a][k]
  BY CleanedTable DEF Forgotten
<1>2. TypeOK'
  BY <1>1, CleanedTable DEF TypeOK, Cleaned, Forgotten
<1>3. StampsFresh'
  BY <1>1 DEF StampsFresh, TypeOK, Stored
<1>4. UsedStored'
  <2> SUFFICES ASSUME NEW a \in Actor, NEW k \in Alive(a, Timeout - MaxDelay)'
               PROVE  k \in Stored(sessions, a)'
    BY DEF UsedStored
  <2>1. k \in Alive(a, Timeout - MaxDelay) /\ k \in Key
    BY DEF Alive, Timeout
  <2> QED
    BY <2>1, AliveSurvives DEF Stored
<1>5. LimitKept'
  <2> SUFFICES ASSUME NEW a \in Actor
               PROVE  Cardinality(Stored(sessions', a)) <= Limit
    BY DEF LimitKept, Stored
  <2>1. Cardinality(Stored(sessions, a)) <= Limit
    BY DEF LimitKept
  <2> QED
    BY <2>1, CleanedSmaller, SessionAssumption
<1> QED
  BY <1>2, <1>3, <1>4, <1>5

(* The locked part of touch, when it stores the session. *)
LEMMA TouchInv ==
  ASSUME SessionInv, NEW p \in Process, Touch(p)
  PROVE  SessionInv'
<1> DEFINE a == actor[p]
           k == key[p]
<1> USE DEF SessionInv
<1>1. /\ a \in Actor /\ k \in Key /\ now[p] \in Nat /\ clock \in Nat
      /\ now[p] <= clock /\ clock <= now[p] + MaxDelay
  BY DEF Touch, Called, TypeOK, StampsFresh
<1>2. \A b \in Actor, j \in Key :
        /\ sessions'[b][j] = IF b = a /\ j = k THEN now[p] ELSE Cleaned[b][j]
        /\ used'[b][j] = IF b = a /\ j = k THEN clock ELSE used[b][j]
        /\ born'[b][j] = IF Cleaned[b][j] # -1 THEN born[b][j]
                         ELSE IF b = a /\ j = k THEN clock ELSE -1
  BY <1>1 DEF Touch, Cleaned, Forgotten, TypeOK
<1>3. /\ actor' \in [Process -> Actor \cup {"none"}]
      /\ key' \in [Process -> Key \cup {"none"}] /\ now' \in [Process -> Nat]
      /\ clock' = clock /\ seen' = seen
      /\ \A q \in Process : Called(q)' =>
           Called(q) /\ key'[q] = key[q] /\ now'[q] = now[q]
  BY DEF Touch, Return, Called, TypeOK
<1>4. TypeOK'
  <2> DEFINE Table == [Actor -> [Key -> Nat \cup {-1}]]
  <2>1. Cleaned \in Table /\ Forgotten(born, Cleaned) \in Table
    BY CleanedTable DEF Cleaned, Forgotten, TypeOK
  <2>2. ASSUME NEW f \in Table, NEW n \in Nat \cup {-1}
        PROVE  [f EXCEPT ![a][k] = n] \in Table
    BY <1>1, <2>2
  <2>3. (IF Cleaned[a][k] = -1 THEN clock ELSE Forgotten(born, Cleaned)[a][k])
          \in Nat \cup {-1}
    BY <1>1, <2>1
  <2>4. sessions' \in Table /\ used' \in Table /\ born' \in Table
    BY <1>1, <2>1, <2>2, <2>3 DEF Touch, TypeOK
  <2> QED
    BY <1>3, <2>4 DEF TypeOK
<1>5. StampsFresh'
  <2>1. \A q \in Process : Called(q)' =>
          key'[q] \in Key /\ now'[q] <= clock' /\ clock' <= now'[q] + MaxDelay
    BY <1>3 DEF StampsFresh
  <2>2. ASSUME NEW b \in Actor, NEW j \in Key, sessions'[b][j] # -1
        PROVE  /\ 0 <= born'[b][j] /\ born'[b][j] <= used'[b][j]
               /\ used'[b][j] <= clock /\ sessions'[b][j] <= used'[b][j]
               /\ used'[b][j] <= sessions'[b][j] + MaxDelay
    <3>1. Cleaned[b][j] # -1 =>
            /\ Cleaned[b][j] = sessions[b][j] /\ j \in Stored(sessions, b)
            /\ 0 <= born[b][j] /\ born[b][j] <= used[b][j]
            /\ used[b][j] <= clock /\ sessions[b][j] <= used[b][j]
            /\ used[b][j] <= sessions[b][j] + MaxDelay
      BY CleanedTable DEF StampsFresh, Stored
    <3>2. born[b][j] \in Nat \cup {-1} /\ used[b][j] \in Nat \cup {-1}
      BY DEF TypeOK
    <3> QED
      BY <1>1, <1>2, <2>2, <3>1, <3>2
  <2> QED
    BY <1>3, <2>1, <2>2 DEF StampsFresh, Stored
<1>6. UsedStored'
  <2> SUFFICES ASSUME NEW b \in Actor, NEW j \in Alive(b, Timeout - MaxDelay)'
               PROVE  sessions'[b][j] # -1
    BY DEF UsedStored, Stored, Alive
  <2>1. j \in Key
    BY DEF Alive
  <2>2. CASE b = a /\ j = k
    BY <1>1, <1>2, <2>1, <2>2
  <2>3. CASE ~(b = a /\ j = k)
    <3>1. j \in Alive(b, Timeout - MaxDelay)
      BY <1>2, <1>3, <2>1, <2>3 DEF Alive, Timeout
    <3> QED
      BY <1>2, <2>1, <2>3, <3>1, AliveSurvives
  <2> QED
    BY <2>2, <2>3
<1>7. LimitKept'
  <2> SUFFICES ASSUME NEW b \in Actor
               PROVE  Cardinality(Stored(sessions', b)) <= Limit
    BY DEF LimitKept, Stored
  <2>1. Cardinality(Stored(sessions, b)) <= Limit
    BY DEF LimitKept
  <2>2. CASE b # a \/ Cleaned[b][k] # -1
    <3>1. Stored(sessions', b) = Stored(Cleaned, b)
      BY <1>1, <1>2, <2>2 DEF Stored
    <3> QED
      BY <2>1, <3>1, CleanedSmaller, SessionAssumption
  <2>3. CASE b = a /\ Cleaned[b][k] = -1
    <3>1. Stored(sessions', b) = Stored(Cleaned, b) \cup {k}
      BY <1>1, <1>2, <2>3 DEF Stored
    <3>2. k \notin Stored(Cleaned, b)
      BY <2>3 DEF Stored
    <3>3. ~(Cardinality(Stored(Cleaned, b)) >= Limit)
      BY <2>3 DEF Touch, Refused
    <3>4. Cardinality(Stored(sessions', b)) = Cardinality(Stored(Cleaned, b)) + 1
      BY <3>1, <3>2, CleanedSmaller, FS_AddElement
    <3> QED
      BY <3>3, <3>4, CleanedSmaller, SessionAssumption
  <2> QED
    BY <2>2, <2>3
<1> QED
  BY <1>4, <1>5, <1>6, <1>7

(* The other steps: calls, refusals, counting and the clock. *)
LEMMA StepInv == SessionInv /\ [Next]_vars => SessionInv'
<1> SUFFICES ASSUME SessionInv, [Next]_vars PROVE SessionInv'
  OBVIOUS
<1>1. CASE Tick
  <2> USE <1>1 DEF SessionInv, Tick
  <2>1. TypeOK'
    BY DEF TypeOK
  <2>2. StampsFresh' /\ LimitKept'
    <3>1. LimitKept'
      BY DEF LimitKept, Stored
    <3>2. StampsFresh'
      BY SessionAssumption DEF StampsFresh, TypeOK, Called, Stored
    <3> QED
      BY <3>1, <3>2
  <2>3. UsedStored'
    <3> SUFFICES ASSUME NEW a \in Actor, NEW k \in Alive(a, Timeout - MaxDelay)'
                 PROVE  k \in Stored(sessions, a)
      BY DEF UsedStored, Stored
    <3>1. used[a][k] \in Nat \cup {-1} /\ clock \in Nat
          /\ Timeout - MaxDelay \in Int
      BY SessionAssumption DEF TypeOK, Alive, Timeout
    <3>2. k \in Alive(a, Timeout - MaxDelay)
      BY <3>1 DEF Alive, Timeout
    <3> QED
      BY <3>2 DEF UsedStored
  <2> QED
    BY <2>1, <2>2, <2>3
<1>2. ASSUME NEW p \in Process, NEW a \in Actor, NEW k \in Key, Call(p, a, k)
      PROVE  SessionInv'
  <2> USE <1>2 DEF SessionInv, Call
  <2>1. TypeOK'
    BY DEF TypeOK
  <2>2. UsedStored' /\ LimitKept'
    BY DEF UsedStored, LimitKept, Stored, Alive, Timeout
  <2>3. StampsFresh'
    BY SessionAssumption DEF StampsFresh, TypeOK, Called, Stored
  <2> QED
    BY <2>1, <2>2, <2>3
<1>3. ASSUME NEW p \in Process, Touch(p) PROVE SessionInv'
  BY <1>3, TouchInv
<1>4. ASSUME NEW p \in Process, Refuse(p) PROVE SessionInv'
  <2>1. /\ actor' \in [Process -> Actor \cup {"none"}]
        /\ key' \in [Process -> Key \cup {"none"}] /\ now' \in [Process -> Nat]
        /\ \A q \in Process : Called(q)' =>
             Called(q) /\ key'[q] = key[q] /\ now'[q] = now[q]
    BY <1>4 DEF Refuse, Return, Called, SessionInv, TypeOK
  <2> QED
    BY <1>4, <2>1, CleanupInv DEF Refuse
<1>5. CASE ActiveCount
  <2>1. /\ actor' \in [Process -> Actor \cup {"none"}]
        /\ key' \in [Process -> Key \cup {"none"}] /\ now' \in [Process -> Nat]
        /\ \A q \in Process : Called(q)' =>
             Called(q) /\ key'[q] = key[q] /\ now'[q] = now[q]
    BY <1>5 DEF ActiveCount, Called, SessionInv, TypeOK
  <2> QED
    BY <1>5, <2>1, CleanupInv DEF ActiveCount
<1>6. CASE UNCHANGED vars
  BY <1>6 DEF vars, SessionInv, TypeOK, StampsFresh, UsedStored, LimitKept,
              Called, Stored, Alive, Timeout
<1> QED
  BY <1>1, <1>2, <1>3, <1>4, <1>5, <1>6 DEF Next

(* SessionInv is an invariant of the session manager: in particular no     *)
(* actor ever holds more than concurrent_sessions_limit sessions.          *)
THEOREM SessionInvariance == Spec => []SessionInv
  BY InitInv, StepInv, PTL DEF Spec

-----------------------------------------------------------------------------
(* What a caller of touch is promised *)

(* How a call of touch can end *)
LEMMA CallEnds ==
  ASSUME SessionInv, [Next]_vars, NEW p \in Process, Called(p), ~Called(p)'
  PROVE  Touch(p) \/ Refuse(p)
<1>1. ASSUME NEW q \in Process, q # p, Touch(q) \/ Refuse(q)
      PROVE  actor'[p] = actor[p]
  BY <1>1 DEF Touch, Refuse, Return, SessionInv, TypeOK
<1>2. ASSUME NEW q \in Process, NEW a \in Actor, NEW k \in Key, Call(q, a, k)
      PROVE  actor'[p] = actor[p]
  BY <1>2 DEF Call, Called, SessionInv, TypeOK
<1>3. Tick \/ ActiveCount \/ UNCHANGED vars => actor'[p] = actor[p]
  BY DEF Tick, ActiveCount, vars
<1>4. actor'[p] # actor[p]
  BY DEF Called
<1> QED
  BY <1>1, <1>2, <1>3, <1>4 DEF Next

(* No step removes a session that was used a short time ago, and a touch   *)
(* renews it.                                                              *)
THEOREM SlotsKept == Spec => SlotKept
<1> DEFINE A ==
      /\ \A a \in Actor : \A k \in Alive(a, Timeout - MaxDelay) :
           sessions'[a][k] # -1
      /\ \A p \in Process :
           /\ Called(p) /\ ~Called(p)'
           /\ key[p] \in Alive(actor[p], Timeout - MaxDelay)
           => sessions'[actor[p]][key[p]] = now[p]
<1>1. SessionInv /\ [Next]_vars => [A]_vars
  <2> SUFFICES ASSUME SessionInv, [Next]_vars PROVE A
    OBVIOUS
  <2>1. ASSUME NEW p \in Process, Touch(p), NEW a \in Actor, NEW k \in Key
        PROVE  sessions'[a][k] = IF a = actor[p] /\ k = key[p] THEN now[p]
                                 ELSE Cleaned[a][k]
    BY <2>1 DEF Touch, Called, Cleaned, SessionInv, TypeOK, StampsFresh
  <2>2. ASSUME NEW a \in Actor, NEW k \in Alive(a, Timeout - MaxDelay)
        PROVE  sessions'[a][k] # -1
    <3>1. Cleaned[a][k] # -1 /\ sessions[a][k] # -1 /\ k \in Key
      BY <2>2, AliveSurvives DEF Alive, SessionInv, UsedStored, Stored
    <3>2. ASSUME NEW p \in Process, Touch(p) PROVE sessions'[a][k] # -1
      <4>1. now[p] \in Nat
        BY DEF SessionInv, TypeOK
      <4> QED
        BY <2>1, <3>1, <3>2, <4>1
    <3>3. (\E p \in Process : Refuse(p)) \/ ActiveCount => sessions' = Cleaned
      BY DEF Refuse, ActiveCount
    <3>4. \/ Tick \/ UNCHANGED vars
          \/ \E p \in Process, b \in Actor, j \in Key : Call(p, b, j)
          => sessions' = sessions
      BY DEF Tick, Call, vars
    <3> QED
      BY <3>1, <3>2, <3>3, <3>4 DEF Next
  <2>3. ASSUME NEW p \in Process, Called(p), ~Called(p)',
               key[p] \in Alive(actor[p], Timeout - MaxDelay)
        PROVE  sessions'[actor[p]][key[p]] = now[p]
    <3>1. actor[p] \in Actor /\ key[p] \in Key
      BY <2>3 DEF Called, SessionInv, TypeOK, Alive
    <3>2. Cleaned[actor[p]][key[p]] # -1
      BY <2>3, <3>1, AliveSurvives
    <3>3. Touch(p)
      BY <2>3, <3>2, CallEnds DEF Refuse, Refused
    <3> QED
      BY <2>1, <3>1, <3>3
  <2> QED
    BY <2>2, <2>3
<1> QED
  BY <1>1, SessionInvariance, PTL DEF Spec, SlotKept

(* touch refuses only an actor who has used as many sessions as it may     *)
(* have within the timeout.                                                *)
THEOREM RefusalsJustified == Spec => RefusedJustly
<1> DEFINE A ==
      \A p \in Process :
        /\ Called(p) /\ ~Called(p)'
        /\ sessions'[actor[p]][key[p]] = -1
        => Cardinality(Alive(actor[p], Timeout)) >= Limit
<1>1. SessionInv /\ [Next]_vars => [A]_vars
  <2> SUFFICES ASSUME SessionInv, [Next]_vars,
                      NEW p \in Process, Called(p), ~Called(p)',
                      sessions'[actor[p]][key[p]] = -1
               PROVE  Cardinality(Alive(actor[p], Timeout)) >= Limit
    OBVIOUS
  <2> DEFINE a == actor[p]
  <2>1. a \in Actor /\ key[p] \in Key /\ now[p] \in Nat
    BY DEF Called, SessionInv, TypeOK, StampsFresh
  <2>2. ~Touch(p)
    BY <2>1 DEF Touch, Cleaned
  <2>3. Cardinality(Stored(Cleaned, a)) >= Limit
    BY <2>2, CallEnds DEF Refuse, Refused
  <2>4. Stored(Cleaned, a) \subseteq Alive(a, Timeout)
    <3> SUFFICES ASSUME NEW k \in Stored(Cleaned, a) PROVE k \in Alive(a, Timeout)
      OBVIOUS
    <3>1. k \in Key /\ Cleaned[a][k] # -1
      BY DEF Stored
    <3>2. sessions[a][k] # -1 /\ clock - sessions[a][k] <= Timeout
      BY <2>1, <3>1, CleanedTable DEF SessionInv
    <3>3. sessions[a][k] <= used[a][k]
      BY <2>1, <3>1, <3>2 DEF SessionInv, StampsFresh, Stored
    <3>4. /\ sessions[a][k] \in Nat \cup {-1} /\ used[a][k] \in Nat \cup {-1}
          /\ clock \in Nat /\ Timeout \in Nat
      BY <2>1, <3>1, SessionAssumption DEF SessionInv, TypeOK, Timeout
    <3> QED
      BY <3>1, <3>2, <3>3, <3>4 DEF Alive
  <2>5. IsFiniteSet(Alive(a, Timeout))
    <3>1. Alive(a, Timeout) \in SUBSET Key
      BY DEF Alive
    <3> QED
      BY <3>1, FS_Subset, SessionAssumption
  <2>6. /\ Cardinality(Stored(Cleaned, a)) <= Cardinality(Alive(a, Timeout))
        /\ Cardinality(Alive(a, Timeout)) \in Nat
    BY <2>4, <2>5, FS_Subset, FS_CardinalityType
  <2>7. Cardinality(Stored(Cleaned, a)) \in Nat
    BY <2>1, CleanedSmaller DEF SessionInv
  <2> QED
    BY <2>3, <2>6, <2>7, SessionAssumption
<1> QED
  BY <1>1, SessionInvariance, PTL DEF Spec, RefusedJustly
=============================================================================
