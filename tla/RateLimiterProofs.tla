------------------------- MODULE RateLimiterProofs -------------------------
(***************************************************************************)
(* Proofs about RateLimiter, in memory and with Redis, for any number of   *)
(* callers and actors, any quotas, any window and time to live, any delay  *)
(* up to the window, and without a bound on the clock or on the            *)
(* admissions (MaxClock and MaxAdmitted are any numbers).                  *)
(***************************************************************************)
EXTENDS RateLimiter, FiniteSetTheorems, SequenceTheorems, TLAPS

(* The admissions that an admission i of key k competes with *)
Competing(k, i) ==
  {j \in Recent(k, log[i].at, Window - MaxDelay) : j <= i}

-----------------------------------------------------------------------------
(* The types of what the steps look at. *)
LEMMA EntryTypes ==
  ASSUME TypeOK, NEW i \in 1..Len(log)
  PROVE  log[i].now \in Nat /\ log[i].at \in Nat /\ log[i].actor \in Actor
<1>1. log \in Seq([actor : Actor, now : Nat, at : Nat])
  BY DEF TypeOK
<1>2. log[i] \in [actor : Actor, now : Nat, at : Nat]
  BY <1>1, ElementOfSeq
<1> QED
  BY <1>2

(* The types of what a caller has read. *)
LEMMA CallerTypes ==
  ASSUME TypeOK, NEW p \in Process, Called(p)
  PROVE  actor[p] \in Actor /\ now[p] \in Nat /\ clock \in Nat
  BY DEF TypeOK, Called

(* A quota is a number. *)
LEMMA LimitType ==
  ASSUME NEW k \in Key
  PROVE  Limit(k) \in Nat
  BY LimiterAssumption DEF Limit

(* The admissions of a key are finitely many. *)
LEMMA FiniteOf ==
  ASSUME TypeOK, NEW k \in Key, NEW S \in SUBSET Of(k)
  PROVE  IsFiniteSet(S) /\ Cardinality(S) \in Nat
<1>1. Len(log) \in Nat
  BY DEF TypeOK
<1>2. IsFiniteSet(1..Len(log))
  BY <1>1, FS_Interval
<1>3. S \in SUBSET (1..Len(log))
  BY DEF Of
<1> QED
  BY <1>2, <1>3, FS_Subset, FS_CardinalityType

(* Pruning only removes; what it keeps passed at most Window + MaxDelay    *)
(* ago; and it keeps what passed less than Window - MaxDelay ago.          *)
LEMMA PruneExact ==
  ASSUME LimiterInv, NEW p \in Process, Called(p), NEW k \in Key
  PROVE  LET b == Kept(bucket[k], now[p]) IN
         /\ b \subseteq bucket[k]
         /\ b \subseteq Recent(k, clock, Window + MaxDelay + 1)
         /\ Recent(k, clock, Window - MaxDelay) \subseteq b
<1> DEFINE b == Kept(bucket[k], now[p])
<1> USE DEF LimiterInv
<1>1. /\ now[p] \in Nat /\ clock \in Nat /\ Window \in Nat /\ MaxDelay \in Nat
      /\ now[p] <= clock /\ clock <= now[p] + MaxDelay
  BY CallerTypes, LimiterAssumption DEF Fresh
<1>2. bucket[k] \subseteq Of(k) /\ Of(k) \subseteq 1..Len(log)
  BY DEF NothingForgotten, Of
<1>3. b \subseteq bucket[k]
  BY DEF Kept
<1>4. ASSUME NEW i \in b PROVE i \in Recent(k, clock, Window + MaxDelay + 1)
  <2>1. i \in Of(k) /\ i \in 1..Len(log)
    BY <1>2, <1>3
  <2>2. PICK j \in bucket[k] : j <= i /\ log[j].now >= now[p] - Window
    <3>1. log[i].now \in Nat
      BY <2>1, EntryTypes
    <3>2. CASE backend = "local"
      BY <3>2 DEF Kept
    <3>3. CASE backend # "local"
      <4>1. i \in bucket[k] /\ log[i].now > now[p] - Window /\ i <= i
        BY <3>3, <2>1 DEF Kept
      <4> QED
        BY <4>1, <3>1, <1>1
    <3> QED
      BY <3>2, <3>3
  <2>3. j \in 1..Len(log)
    BY <1>2
  <2>4. log[j].now <= log[j].at /\ log[j].at <= log[i].at
    BY <2>1, <2>2, <2>3 DEF Fresh
  <2>5. log[j].now \in Nat /\ log[j].at \in Nat /\ log[i].at \in Nat
    BY <2>1, <2>3, EntryTypes
  <2>6. log[i].at > clock - (Window + MaxDelay + 1)
    BY <1>1, <2>2, <2>4, <2>5
  <2> QED
    BY <2>1, <2>6 DEF Recent
<1>5. ASSUME NEW i \in Recent(k, clock, Window - MaxDelay) PROVE i \in b
  <2>1. i \in bucket[k]
    BY DEF NothingForgotten
  <2>2. i \in 1..Len(log) /\ log[i].at > clock - (Window - MaxDelay)
    BY DEF Recent, Of
  <2>3. log[i].at <= log[i].now + MaxDelay
    BY <2>2 DEF Fresh
  <2>4. log[i].now \in Nat /\ log[i].at \in Nat
    BY <2>2, EntryTypes
  <2>5. log[i].now > now[p] - Window /\ log[i].now >= now[p] - Window
    <3>1. \A w, d, c, m, x, y \in Nat :
            x > c - (w - d) /\ x <= y + d /\ m <= c => y > m - w /\ y >= m - w
      OBVIOUS
    <3> QED
      BY <1>1, <2>2, <2>3, <2>4, <3>1
  <2>6. i <= i
    BY <2>2 DEF TypeOK
  <2> QED
    BY <2>1, <2>5, <2>6 DEF Kept
<1> QED
  BY <1>3, <1>4, <1>5

(* The buckets a call looks at are the pruned ones. *)
LEMMA PrunedBuckets ==
  ASSUME NEW p \in Process, NEW k \in Key
  PROVE  Pruned(p)[k] = IF k \in {actor[p], "*"} THEN Kept(bucket[k], now[p])
                                                 ELSE bucket[k]
  BY DEF Pruned

-----------------------------------------------------------------------------
(* LimiterInv and QuotaKept are inductive together. *)

(* The buckets start empty. *)
LEMMA InitInv == Init => LimiterInv /\ QuotaKept
<1> SUFFICES ASSUME Init PROVE LimiterInv /\ QuotaKept
  OBVIOUS
<1>1. Len(log) = 0 /\ \A k \in Key : Of(k) = {}
  BY DEF Init, Of
<1>2. TypeOK
  BY <1>1, LimiterAssumption DEF Init, TypeOK
<1>3. Fresh
  BY <1>1 DEF Init, Fresh, Called
<1>4. LivesOn /\ NothingForgotten /\ QuotaKept
  BY <1>1 DEF Init, LivesOn, NothingForgotten, Recent, QuotaKept
<1> QED
  BY <1>2, <1>3, <1>4 DEF LimiterInv

(* QuotaKept is about the log alone. *)
LEMMA QuotaUnchanged ==
  ASSUME QuotaKept, UNCHANGED log
  PROVE  QuotaKept'
  BY DEF QuotaKept, Recent, Of

(* A denied or failed call removes only entries that left the window. *)
LEMMA ReturnInv ==
  ASSUME LimiterInv, NEW p \in Process, Called(p),
         NEW r \in {"actor", "global", "error"}, Return(p, r),
         bucket' \in {bucket, Pruned(p)}, UNCHANGED <<backend, clock, expires, log>>
  PROVE  LimiterInv'
<1> USE DEF LimiterInv
<1>1. /\ actor' \in [Process -> Actor \cup {"none"}] /\ now' \in [Process -> Nat]
      /\ result' \in [Process -> {"none", "allow", "actor", "global", "error"}]
      /\ \A q \in Process : Called(q)' => Called(q) /\ now'[q] = now[q]
  BY DEF Return, TypeOK, Called
<1>2. \A k \in Key : /\ bucket'[k] \subseteq bucket[k]
                     /\ Recent(k, clock, Window - MaxDelay) \subseteq bucket'[k]
  BY PruneExact, PrunedBuckets DEF NothingForgotten
<1>3. bucket' \in [Key -> SUBSET (1..Len(log))]
  <2>1. CASE bucket' = bucket
    BY <2>1 DEF TypeOK
  <2>2. CASE bucket' = Pruned(p)
    <3>1. \A k \in Key : bucket'[k] \in SUBSET (1..Len(log))
      BY <1>2 DEF TypeOK
    <3>2. bucket' = [k \in Key |-> bucket'[k]]
      BY <2>2 DEF Pruned
    <3> QED
      BY <3>1, <3>2
  <2> QED
    BY <2>1, <2>2
<1>4. TypeOK'
  BY <1>1, <1>3 DEF TypeOK
<1>5. Fresh'
  BY <1>1 DEF Fresh
<1>6. LivesOn' /\ NothingForgotten'
  BY <1>2 DEF LivesOn, NothingForgotten, Of, Recent
<1> QED
  BY <1>4, <1>5, <1>6

(* A caller is let through. *)
LEMMA AdmitInv ==
  ASSUME LimiterInv, QuotaKept, NEW p \in Process, Admit(p)
  PROVE  LimiterInv' /\ QuotaKept'
<1> DEFINE a == actor[p]
           n == Len(log) + 1
           b == Pruned(p)
<1> USE DEF LimiterInv
<1>1. /\ Called(p) /\ a \in Actor /\ a \in Key /\ "*" \in Key /\ a # "*"
      /\ now[p] \in Nat /\ clock \in Nat /\ clock' = clock
      /\ now[p] <= clock /\ clock <= now[p] + MaxDelay
      /\ Window \in Nat /\ MaxDelay \in Nat /\ Ttl \in Nat /\ Len(log) \in Nat
  <2>1. Called(p)
    BY DEF Admit
  <2> QED
    BY <2>1, CallerTypes, LimiterAssumption DEF Admit, Fresh, Key, TypeOK
<1>2. /\ Len(log') = n /\ n \in Nat
      /\ \A i \in 1..Len(log) : log'[i] = log[i]
      /\ log'[n].actor = a /\ log'[n].now = now[p] /\ log'[n].at = clock
      /\ log' \in Seq([actor : Actor, now : Nat, at : Nat])
  <2>1. log \in Seq([actor : Actor, now : Nat, at : Nat])
    BY DEF TypeOK
  <2>2. log' = Append(log, [actor |-> a, now |-> now[p], at |-> clock])
    BY DEF Admit
  <2> QED
    BY <1>1, <2>1, <2>2
<1>3. \A k \in Key : Of(k)' = IF k \in {a, "*"} THEN Of(k) \cup {n} ELSE Of(k)
  BY <1>1, <1>2 DEF Of
<1>4. \A k \in Key : bucket'[k] = IF k \in {a, "*"} THEN b[k] \cup {n} ELSE b[k]
  BY DEF Admit
<1>5. /\ actor' \in [Process -> Actor \cup {"none"}] /\ now' \in [Process -> Nat]
      /\ result' \in [Process -> {"none", "allow", "actor", "global", "error"}]
      /\ \A q \in Process : Called(q)' => Called(q) /\ now'[q] = now[q]
  <2>1. \E r \in {"allow", "error"} : Return(p, r)
    BY DEF Admit
  <2> QED
    BY <2>1 DEF Return, TypeOK, Called
<1>6. \A k \in Key : b[k] \subseteq bucket[k]
                     /\ Recent(k, clock, Window - MaxDelay) \subseteq b[k]
  BY <1>1, PruneExact, PrunedBuckets DEF NothingForgotten
<1>7. TypeOK'
  <2>1. \A k \in Key : bucket'[k] \in SUBSET (1..Len(log'))
    <3>1. \A k \in Key : b[k] \subseteq 1..Len(log)
      BY <1>6 DEF TypeOK
    <3>2. 1..Len(log) \subseteq 1..Len(log') /\ n \in 1..Len(log')
      BY <1>1, <1>2
    <3> QED
      BY <1>4, <3>1, <3>2
  <2>2. bucket' = [k \in Key |-> bucket'[k]]
    BY DEF Admit
  <2>3. bucket' \in [Key -> SUBSET (1..Len(log'))]
    BY <2>1, <2>2
  <2>4. expires' \in [Key -> Nat]
    <3>1. clock + Ttl \in Nat
      BY <1>1
    <3> QED
      BY <3>1 DEF Admit, TypeOK
  <2> QED
    BY <1>1, <1>2, <1>5, <2>3, <2>4 DEF TypeOK, Admit
<1>8. Fresh'
  <2>1. \A i \in 1..Len(log) : log[i].at <= clock /\ log[i].at \in Nat
    BY EntryTypes DEF Fresh
  <2>2. \A q \in Process : Called(q)' =>
          now'[q] <= clock' /\ clock' <= now'[q] + MaxDelay
    BY <1>1, <1>5 DEF Fresh
  <2>3. \A i \in 1..n : i \in 1..Len(log) \/ i = n
    BY <1>1
  <2>4. \A i \in 1..n :
          /\ log'[i].now <= log'[i].at /\ log'[i].at <= log'[i].now + MaxDelay
          /\ log'[i].at <= clock'
    <3> SUFFICES ASSUME NEW i \in 1..n
                 PROVE  /\ log'[i].now <= log'[i].at
                        /\ log'[i].at <= log'[i].now + MaxDelay
                        /\ log'[i].at <= clock'
      OBVIOUS
    <3>1. CASE i = n
      BY <1>1, <1>2, <3>1
    <3>2. CASE i \in 1..Len(log)
      BY <1>1, <1>2, <3>2 DEF Fresh
    <3> QED
      BY <2>3, <3>1, <3>2
  <2>5. ASSUME NEW i \in 1..n, NEW j \in 1..n, i <= j
        PROVE  log'[i].at <= log'[j].at
    <3>1. CASE j = n
      BY <1>1, <1>2, <2>4, <3>1
    <3>2. CASE j # n
      <4>1. i \in 1..Len(log) /\ j \in 1..Len(log)
        BY <1>1, <2>5, <3>2
      <4>2. log[i].at <= log[j].at
        BY <2>5, <4>1 DEF Fresh
      <4> QED
        BY <1>2, <4>1, <4>2
    <3> QED
      BY <3>1, <3>2
  <2> QED
    BY <1>2, <2>2, <2>4, <2>5 DEF Fresh
<1>9. LivesOn'
  <2> SUFFICES ASSUME NEW k \in Key, backend' = "redis",
                      NEW i \in Of(k)', i \in bucket'[k]
               PROVE  log'[i].at + Ttl <= expires'[k]
    BY DEF LivesOn
  <2>1. backend = "redis"
    BY DEF Admit
  <2>2. i \in 1..Len(log') /\ (i \in 1..Len(log) \/ i = n)
    BY <1>1, <1>2 DEF Of
  <2>3. CASE k \in {a, "*"}
    <3>1. expires'[k] = clock + Ttl
      BY <2>1, <2>3 DEF Admit
    <3>2. log'[i].at <= clock /\ log'[i].at \in Nat
      BY <1>1, <1>2, <1>8, <2>2, EntryTypes DEF Fresh
    <3> QED
      BY <1>1, <3>1, <3>2
  <2>4. CASE k \notin {a, "*"}
    <3>1. expires'[k] = expires[k] /\ i \in Of(k) /\ i \in bucket[k]
      BY <1>3, <1>4, <1>6, <2>4 DEF Admit
    <3>2. log[i].at + Ttl <= expires[k] /\ i \in 1..Len(log)
      BY <2>1, <3>1 DEF LivesOn, Of
    <3> QED
      BY <1>2, <3>1, <3>2
  <2> QED
    BY <2>3, <2>4
<1>10. NothingForgotten'
  <2>1. \A k \in Key : bucket'[k] \subseteq Of(k)'
    <3> SUFFICES ASSUME NEW k \in Key PROVE bucket'[k] \subseteq Of(k)'
      OBVIOUS
    <3>1. b[k] \subseteq Of(k)
      BY <1>6 DEF NothingForgotten
    <3>2. CASE k \in {a, "*"}
      <4>1. bucket'[k] = b[k] \cup {n}
        BY <1>4, <3>2
      <4>2. Of(k)' = Of(k) \cup {n}
        BY <1>3, <3>2
      <4> QED
        BY <3>1, <4>1, <4>2
    <3>3. CASE k \notin {a, "*"}
      <4>1. bucket'[k] = b[k] /\ Of(k)' = Of(k)
        BY <1>3, <1>4, <3>3
      <4> QED
        BY <3>1, <4>1
    <3> QED
      BY <3>2, <3>3
  <2>2. ASSUME NEW k \in Key, NEW i \in Recent(k, clock, Window - MaxDelay)'
        PROVE  i \in bucket'[k]
    <3>1. i \in Of(k)' /\ log'[i].at > clock - (Window - MaxDelay)
      BY <1>1 DEF Recent
    <3>2. CASE i = n /\ k \in {a, "*"}
      BY <1>4, <3>2
    <3>3. CASE i \in Of(k)
      <4>1. i \in 1..Len(log)
        BY <3>3 DEF Of
      <4>2. i \in Recent(k, clock, Window - MaxDelay)
        BY <1>2, <3>1, <3>3, <4>1 DEF Recent
      <4> QED
        BY <1>4, <1>6, <4>2
    <3> QED
      BY <1>3, <3>1, <3>2, <3>3
  <2> QED
    BY <1>1, <2>1, <2>2 DEF NothingForgotten, Recent
<1>11. QuotaKept'
  <2> SUFFICES ASSUME NEW k \in Key, NEW i \in Of(k)'
               PROVE  Cardinality(Competing(k, i)') <= Limit(k)
    BY DEF QuotaKept, Competing, Limit
  <2>1. CASE i = n
    <3>0. k \in {a, "*"}
      <4>1. ~(n \in Of(k))
        BY <1>1 DEF Of
      <4> QED
        BY <1>3, <2>1, <4>1
    <3>1. Competing(k, i)' \subseteq b[k] \cup {n}
      <4> SUFFICES ASSUME NEW j \in Competing(k, i)', j # n PROVE j \in b[k]
        OBVIOUS
      <4>1. /\ j \in Of(k)' /\ log'[j].at > log'[n].at - (Window - MaxDelay)
        BY <2>1 DEF Competing, Recent
      <4>2. j \in Of(k) /\ j \in 1..Len(log)
        BY <1>3, <4>1 DEF Of
      <4>3. j \in Recent(k, clock, Window - MaxDelay)
        BY <1>2, <4>1, <4>2 DEF Recent
      <4> QED
        BY <1>6, <4>3
    <3>2. IsFiniteSet(b[k]) /\ Cardinality(b[k]) \in Nat
      BY <1>6, FiniteOf DEF NothingForgotten
    <3>3. ~(Cardinality(b[k]) >= Limit(k))
      BY <1>1, <3>0 DEF Admit, IsFull
    <3>4. IsFiniteSet(b[k] \cup {n}) /\ Cardinality(b[k] \cup {n}) <= Cardinality(b[k]) + 1
          /\ Cardinality(b[k] \cup {n}) \in Nat
      <4>1. IsFiniteSet(b[k] \cup {n})
            /\ (\/ Cardinality(b[k] \cup {n}) = Cardinality(b[k])
                \/ Cardinality(b[k] \cup {n}) = Cardinality(b[k]) + 1)
        BY <3>2, FS_AddElement
      <4> HIDE DEF b, n
      <4> QED
        BY <3>2, <4>1
    <3>5. Cardinality(Competing(k, i)') <= Cardinality(b[k] \cup {n})
          /\ Cardinality(Competing(k, i)') \in Nat
      BY <3>1, <3>4, FS_Subset, FS_CardinalityType
    <3> QED
      BY <3>2, <3>3, <3>4, <3>5, LimitType
  <2>2. CASE i # n
    <3>1. i \in Of(k) /\ i \in 1..Len(log)
      BY <1>3, <2>2 DEF Of
    <3>2. Competing(k, i)' = Competing(k, i)
      <4>1. \A j : j \in Competing(k, i)' <=>
              /\ j \in Of(k)' /\ j <= i
              /\ log'[j].at > log'[i].at - (Window - MaxDelay)
        BY DEF Competing, Recent
      <4>2. \A j : j \in Competing(k, i) <=>
              /\ j \in Of(k) /\ j <= i
              /\ log[j].at > log[i].at - (Window - MaxDelay)
        BY DEF Competing, Recent
      <4>3. \A j : j \in Of(k)' /\ j <= i <=> j \in Of(k) /\ j <= i
        BY <1>1, <1>3, <3>1
      <4>4. \A j \in Of(k) : log'[j] = log[j]
        BY <1>2 DEF Of
      <4> QED
        BY <1>2, <3>1, <4>1, <4>2, <4>3, <4>4
    <3> QED
      BY <3>1, <3>2 DEF QuotaKept, Competing
  <2> QED
    BY <2>1, <2>2
<1> QED
  BY <1>7, <1>8, <1>9, <1>10, <1>11

(* Redis removes a key only when everything in it has left the window. *)
LEMMA ExpireInv ==
  ASSUME LimiterInv, NEW k \in Key, Expire(k)
  PROVE  LimiterInv'
<1> USE DEF LimiterInv
<1>1. TypeOK'
  BY DEF TypeOK, Expire
<1>2. Fresh'
  BY DEF Fresh, Expire, Called
<1>3. LivesOn'
  BY DEF LivesOn, Expire, TypeOK, Of
<1>4. NothingForgotten'
  <2>1. Recent(k, clock, Window - MaxDelay) = {}
    <3> SUFFICES ASSUME NEW i \in Recent(k, clock, Window - MaxDelay) PROVE FALSE
      OBVIOUS
    <3>1. i \in Of(k) /\ i \in 1..Len(log) /\ log[i].at > clock - (Window - MaxDelay)
      BY DEF Recent, Of
    <3>2. log[i].at + Ttl <= expires[k] /\ expires[k] <= clock
      BY <3>1 DEF Expire, LivesOn, NothingForgotten
    <3>3. log[i].at \in Nat /\ clock \in Nat /\ expires[k] \in Nat
      BY <3>1, EntryTypes DEF TypeOK
    <3> QED
      BY <3>1, <3>2, <3>3, LimiterAssumption
  <2> QED
    BY <2>1 DEF NothingForgotten, Expire, TypeOK, Of, Recent
<1> QED
  BY <1>1, <1>2, <1>3, <1>4

(* Every step keeps the invariant and the quota. *)
LEMMA StepInv ==
  LimiterInv /\ QuotaKept /\ [Next]_vars => LimiterInv' /\ QuotaKept'
<1> SUFFICES ASSUME LimiterInv, QuotaKept, [Next]_vars
             PROVE  LimiterInv' /\ QuotaKept'
  OBVIOUS
<1>1. CASE Tick
  <2> USE <1>1 DEF LimiterInv, Tick
  <2>1. TypeOK'
    BY DEF TypeOK
  <2>2. Fresh'
    <3>1. clock \in Nat /\ \A i \in 1..Len(log) : log[i].at \in Nat
      BY EntryTypes DEF TypeOK
    <3>2. \A p \in Process : now[p] \in Nat
      BY DEF TypeOK
    <3> QED
      BY <3>1, <3>2, LimiterAssumption DEF Fresh, Called
  <2>3. LivesOn'
    BY DEF LivesOn, Of
  <2>4. NothingForgotten'
    <3>1. ASSUME NEW k \in Key, NEW i \in Recent(k, clock, Window - MaxDelay)'
          PROVE  i \in Recent(k, clock, Window - MaxDelay)
      <4>1. i \in Of(k) /\ i \in 1..Len(log)
            /\ log[i].at > (clock + 1) - (Window - MaxDelay)
        <5>1. i \in Of(k)' /\ log'[i].at > clock' - (Window - MaxDelay)
          BY DEF Recent
        <5>2. Of(k)' = Of(k) /\ Of(k) \subseteq 1..Len(log)
          BY DEF Of
        <5>3. clock' = clock + 1 /\ log' = log
          OBVIOUS
        <5> QED
          BY <5>1, <5>2, <5>3
      <4>2. log[i].at \in Nat /\ clock \in Nat
        BY <4>1, EntryTypes DEF TypeOK
      <4> QED
        BY <4>1, <4>2, LimiterAssumption DEF Recent
    <3> QED
      BY <3>1 DEF NothingForgotten, Of
  <2> QED
    BY <2>1, <2>2, <2>3, <2>4, QuotaUnchanged
<1>2. ASSUME NEW p \in Process, NEW a \in Actor, Call(p, a)
      PROVE  LimiterInv' /\ QuotaKept'
  <2> USE <1>2 DEF LimiterInv, Call
  <2>1. TypeOK'
    BY DEF TypeOK
  <2>2. Fresh'
    BY LimiterAssumption DEF Fresh, Called, TypeOK
  <2>3. LivesOn' /\ NothingForgotten'
    BY DEF LivesOn, NothingForgotten, Of, Recent
  <2> QED
    BY <2>1, <2>2, <2>3, QuotaUnchanged
<1>3. ASSUME NEW p \in Process, Admit(p) PROVE LimiterInv' /\ QuotaKept'
  BY <1>3, AdmitInv
<1>4. ASSUME NEW p \in Process, DenyActor(p) \/ DenyGlobal(p) \/ Unreachable(p)
      PROVE  LimiterInv' /\ QuotaKept'
  <2>1. /\ Called(p) /\ UNCHANGED <<backend, clock, expires, log>>
        /\ bucket' \in {bucket, Pruned(p)}
        /\ \E r \in {"actor", "global", "error"} : Return(p, r)
    BY <1>4 DEF DenyActor, DenyGlobal, Unreachable
  <2> QED
    BY <2>1, ReturnInv, QuotaUnchanged
<1>5. ASSUME NEW k \in Key, Expire(k) PROVE LimiterInv' /\ QuotaKept'
  BY <1>5, ExpireInv, QuotaUnchanged DEF Expire
<1>6. CASE UNCHANGED vars \/ Done
  <2> USE <1>6 DEF Done, vars, LimiterInv
  <2>1. TypeOK' /\ Fresh'
    BY DEF TypeOK, Fresh, Called
  <2>2. LivesOn' /\ NothingForgotten'
    BY DEF LivesOn, NothingForgotten, Of, Recent
  <2> QED
    BY <2>1, <2>2, QuotaUnchanged
<1> QED
  BY <1>1, <1>2, <1>3, <1>4, <1>5, <1>6 DEF Next

(* The buckets hold what the quotas are about: nothing within the window   *)
(* is forgotten, neither by pruning nor by the expiry of a Redis key.      *)
THEOREM LimiterInvariance == Spec => []LimiterInv
  BY InitInv, StepInv, PTL DEF Spec

(* allow never lets more than rpm + burst requests of an actor, or of all  *)
(* actors, through in a window (less the delay of the callers).            *)
THEOREM QuotaNeverExceeded == Spec => []QuotaKept
  BY InitInv, StepInv, PTL DEF Spec

-----------------------------------------------------------------------------
(* A bucket that is full after pruning means that the quota was used up. *)
LEMMA FullMeansUsed ==
  ASSUME LimiterInv, NEW p \in Process, Called(p), NEW k \in {actor[p], "*"},
         IsFull(k, Pruned(p)[k])
  PROVE  FullFor(k)
<1>1. k \in Key
  BY CallerTypes DEF LimiterInv, Key
<1>2. Pruned(p)[k] \subseteq Recent(k, clock, Window + MaxDelay + 1)
  BY <1>1, PrunedBuckets, PruneExact
<1>3. Recent(k, clock, Window + MaxDelay + 1) \in SUBSET Of(k)
  BY DEF Recent
<1>4. /\ IsFiniteSet(Recent(k, clock, Window + MaxDelay + 1))
      /\ Cardinality(Recent(k, clock, Window + MaxDelay + 1)) \in Nat
  BY <1>1, <1>3, FiniteOf DEF LimiterInv
<1>5. /\ Cardinality(Pruned(p)[k]) <= Cardinality(Recent(k, clock, Window + MaxDelay + 1))
      /\ Cardinality(Pruned(p)[k]) \in Nat
  BY <1>2, <1>4, FS_Subset, FS_CardinalityType
<1>6. Cardinality(Pruned(p)[k]) >= Limit(k)
  BY DEF IsFull
<1> QED
  BY <1>1, <1>4, <1>5, <1>6, LimitType DEF FullFor

(* A caller that is turned away really met the quota it is told about. *)
THEOREM DenialsJustified == Spec => DeniedJustly
<1> DEFINE A ==
      \A p \in Process : Called(p) /\ ~Called(p)' =>
        /\ result'[p] = "actor" => FullFor(actor[p])
        /\ result'[p] = "global" => FullFor("*")
<1>1. LimiterInv /\ [Next]_vars => [A]_vars
  <2> SUFFICES ASSUME LimiterInv, [Next]_vars,
                      NEW p \in Process, Called(p), ~Called(p)'
               PROVE  /\ result'[p] = "actor" => FullFor(actor[p])
                      /\ result'[p] = "global" => FullFor("*")
    OBVIOUS
  <2>1. actor'[p] # actor[p]
    BY DEF Called
  <2>2. ASSUME NEW q \in Process, NEW r, Return(q, r)
        PROVE  q = p /\ result'[p] = r
    BY <2>1, <2>2 DEF Return, LimiterInv, TypeOK
  <2>3. ~(\E q \in Process, a \in Actor : Call(q, a))
    BY <2>1 DEF Call, Called, LimiterInv, TypeOK
  <2>4. ~Tick /\ ~Done /\ ~(UNCHANGED vars) /\ ~(\E k \in Key : Expire(k))
    BY <2>1 DEF Tick, Done, Expire, vars
  <2>5. ASSUME NEW q \in Process, Admit(q) \/ Unreachable(q)
        PROVE  result'[p] # "actor" /\ result'[p] # "global"
    <3>1. \E r \in {"allow", "error"} : Return(q, r)
      BY <2>5 DEF Admit, Unreachable
    <3> QED
      BY <2>2, <3>1
  <2>6. ASSUME NEW q \in Process, DenyActor(q)
        PROVE  result'[p] = "actor" /\ FullFor(actor[p])
    BY <2>2, <2>6, FullMeansUsed DEF DenyActor
  <2>7. ASSUME NEW q \in Process, DenyGlobal(q)
        PROVE  result'[p] = "global" /\ FullFor("*")
    BY <2>2, <2>7, FullMeansUsed DEF DenyGlobal
  <2> QED
    BY <2>3, <2>4, <2>5, <2>6, <2>7 DEF Next
<1> QED
  BY <1>1, LimiterInvariance, PTL DEF Spec, DeniedJustly
=============================================================================
