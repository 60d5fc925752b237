---------------------------- MODULE RateLimiter ----------------------------
(***************************************************************************)
(* The sliding-window rate limiters of src/middleware/rate_limiter.py: the *)
(* in-process one (backend = "local") and the one shared through Redis     *)
(* (backend = "redis"), under concurrent callers.                          *)
(*                                                                         *)
(* allow(actor) reads the clock first and enters the lock, or reaches      *)
(* Redis, later: the two are separate steps, at most MaxDelay apart, so    *)
(* the buckets may receive timestamps out of order.  What the caller is    *)
(* promised is about the times `at' at which requests are really let       *)
(* through; the buckets know only the times `now' that the callers read.   *)
(*                                                                         *)
(* Admissions are numbered; `log' is their history.  A bucket (a deque, or *)
(* a Redis sorted set with unique members) is the set of the admissions it *)
(* holds; the order of a deque is the order of their numbers.              *)
(***************************************************************************)
EXTENDS Integers, FiniteSets, Sequences

CONSTANTS
  Process,      \* callers of allow: threads, or server processes with Redis
  Actor,
  ActorRpm, ActorBurst, GlobalRpm, GlobalBurst,
  Window,       \* 60 seconds
  Ttl,          \* EXPIRE of the Redis keys, 120 seconds
  MaxDelay,     \* bound: time from reading the clock to the decision
  MaxClock,     \* bound: clock ticks
  MaxAdmitted   \* bound: admissions

ASSUME LimiterAssumption ==
  /\ IsFiniteSet(Actor) /\ "*" \notin Actor /\ "none" \notin Actor
  /\ ActorRpm \in Nat /\ ActorBurst \in Nat
  /\ GlobalRpm \in Nat /\ GlobalBurst \in Nat
  /\ Window \in Nat /\ Ttl \in Nat /\ MaxDelay \in Nat
  /\ MaxClock \in Nat /\ MaxAdmitted \in Nat
  /\ Window <= Ttl /\ MaxDelay <= Window

VARIABLES
  backend,  \* the limiter the server has built at its start
  clock,    \* time.time()
  actor,    \* the actor a caller calls allow for, "none" outside allow
  now,      \* the time it has read
  result,   \* how its last call ended
  bucket,   \* _actor_events, and _global_events under "*"
  expires,  \* when Redis removes a key
  log       \* history: the admitted requests

vars == <<backend, clock, actor, now, result, bucket, expires, log>>

(* The keys of the buckets: one per actor and the global one *)
Key == Actor \cup {"*"}

Limit(k) == IF k = "*" THEN GlobalRpm + GlobalBurst ELSE ActorRpm + ActorBurst

(* p has read the clock and has no decision yet *)
Called(p) == actor[p] # "none"

-----------------------------------------------------------------------------
Init ==
  /\ backend \in {"local", "redis"}
  /\ clock = 0
  /\ actor = [p \in Process |-> "none"]
  /\ now = [p \in Process |-> 0]
  /\ result = [p \in Process |-> "none"]
  /\ bucket = [k \in Key |-> {}]
  /\ expires = [k \in Key |-> 0]
  /\ log = <<>>

(* Mutant of Kept: the window ends a tick too early *)
KeptTooFew(b, t) ==
  IF backend = "local"
  THEN {i \in b : \E j \in b : j <= i /\ log[j].now > t - Window + 1}
  ELSE {i \in b : log[i].now > t - Window + 1}

(* Mutant of Kept: a deque is not pruned before it is counted *)
KeptAll(b, t) == b

(* _prune pops the head of the deque while it is older than the window, so *)
(* an old entry behind a younger one stays; ZREMRANGEBYSCORE 0 cutoff      *)
(* removes every entry that is not younger than the cutoff.                *)
Kept(b, t) ==
  IF backend = "local"
  THEN {i \in b : \E j \in b : j <= i /\ log[j].now >= t - Window}
  ELSE {i \in b : log[i].now > t - Window}

(* The buckets that a call of p looks at, pruned for the time it has read *)
Pruned(p) ==
  [k \in Key |-> IF k \in {actor[p], "*"} THEN Kept(bucket[k], now[p])
                                          ELSE bucket[k]]

IsFull(k, b) == Cardinality(b) >= Limit(k)

Return(p, r) ==
  /\ actor' = [actor EXCEPT ![p] = "none"]
  /\ now' = [now EXCEPT ![p] = 0]
  /\ result' = [result EXCEPT ![p] = r]

(* allow is called: now = time.time() *)
Call(p, a) ==
  /\ ~Called(p) /\ Len(log) < MaxAdmitted
  /\ actor' = [actor EXCEPT ![p] = a]
  /\ now' = [now EXCEPT ![p] = clock]
  /\ result' = [result EXCEPT ![p] = "none"]
  /\ UNCHANGED <<backend, clock, bucket, expires, log>>

(* Mutant of Admit: EXPIRE is not repeated when a key lives already *)
AdmitNoExpire(p) ==
  LET b == Pruned(p) IN
  /\ Called(p)
  /\ ~IsFull(actor[p], b[actor[p]]) /\ ~IsFull("*", b["*"])
  /\ log' = Append(log, [actor |-> actor[p], now |-> now[p], at |-> clock])
  /\ bucket' = [k \in Key |-> IF k \in {actor[p], "*"}
                              THEN b[k] \cup {Len(log) + 1} ELSE b[k]]
  /\ expires' = [k \in Key |-> IF k \in {actor[p], "*"} /\ expires[k] = 0
                               THEN clock + Ttl ELSE expires[k]]
  /\ Return(p, "allow")
  /\ UNCHANGED <<backend, clock>>

(* Both buckets have room: the request is entered in both and, in Redis,   *)
(* both keys live for another Ttl.  The answer of Redis may be lost: the   *)
(* client raises, and the request has used up quota all the same.          *)
Admit(p) ==
  LET b == Pruned(p) IN
  /\ Called(p)
  /\ ~IsFull(actor[p], b[actor[p]]) /\ ~IsFull("*", b["*"])
  /\ log' = Append(log, [actor |-> actor[p], now |-> now[p], at |-> clock])
  /\ bucket' = [k \in Key |-> IF k \in {actor[p], "*"}
                              THEN b[k] \cup {Len(log) + 1} ELSE b[k]]
  /\ expires' = [k \in Key |-> IF backend = "redis" /\ k \in {actor[p], "*"}
                               THEN clock + Ttl ELSE expires[k]]
  /\ \E r \in {"allow"} \cup (IF backend = "redis" THEN {"error"} ELSE {}) :
       Return(p, r)
  /\ UNCHANGED <<backend, clock>>

(* PermissionError: the buckets stay pruned, nothing is entered; the       *)
(* actor's bucket is looked at first.                                      *)
DenyActor(p) ==
  /\ Called(p)
  /\ IsFull(actor[p], Pruned(p)[actor[p]])
  /\ bucket' = Pruned(p)
  /\ Return(p, "actor")
  /\ UNCHANGED <<backend, clock, expires, log>>

DenyGlobal(p) ==
  /\ Called(p)
  /\ ~IsFull(actor[p], Pruned(p)[actor[p]]) /\ IsFull("*", Pruned(p)["*"])
  /\ bucket' = Pruned(p)
  /\ Return(p, "global")
  /\ UNCHANGED <<backend, clock, expires, log>>

(* Redis is not reached: the exception of the client leaves allow *)
Unreachable(p) ==
  /\ backend = "redis" /\ Called(p)
  /\ Return(p, "error")
  /\ UNCHANGED <<backend, clock, bucket, expires, log>>

(* Redis removes a key when its time to live is over *)
Expire(k) ==
  /\ backend = "redis" /\ bucket[k] # {} /\ expires[k] <= clock
  /\ bucket' = [bucket EXCEPT ![k] = {}]
  /\ expires' = [expires EXCEPT ![k] = 0]
  /\ UNCHANGED <<backend, clock, actor, now, result, log>>

(* Time passes, but a call does not take longer than MaxDelay *)
Tick ==
  /\ clock < MaxClock
  /\ \A p \in Process : Called(p) => clock < now[p] + MaxDelay
  /\ clock' = clock + 1
  /\ UNCHANGED <<backend, actor, now, result, bucket, expires, log>>

(* Bound: the end of the clock *)
Done ==
  /\ clock = MaxClock /\ Len(log) >= MaxAdmitted
  /\ \A p \in Process : ~Called(p)
  /\ UNCHANGED vars

Next ==
  \/ Tick
  \/ \E p \in Process :
       \/ \E a \in Actor : Call(p, a)
       \/ Admit(p) \/ DenyActor(p) \/ DenyGlobal(p) \/ Unreachable(p)
  \/ \E k \in Key : Expire(k)
  \/ Done

Spec == Init /\ [][Next]_vars

-----------------------------------------------------------------------------
(* The admissions that count against key k *)
Of(k) == {i \in 1..Len(log) : k = "*" \/ log[i].actor = k}

(* Those of them let through in the last d ticks before time t *)
Recent(k, t, d) == {i \in Of(k) : log[i].at > t - d}

(* Type invariant of the limiter's buckets and of its callers. *)
TypeOK ==
  /\ backend \in {"local", "redis"}
  /\ clock \in Nat
  /\ actor \in [Process -> Actor \cup {"none"}]
  /\ now \in [Process -> Nat]
  /\ result \in [Process -> {"none", "allow", "actor", "global", "error"}]
  /\ log \in Seq([actor : Actor, now : Nat, at : Nat])
  /\ bucket \in [Key -> SUBSET (1..Len(log))]
  /\ expires \in [Key -> Nat]

(* allow never lets too many through: in every interval that is MaxDelay   *)
(* shorter than the window, at most rpm + burst requests of an actor, and  *)
(* of all actors, really pass, although the timestamps in the buckets were *)
(* read earlier and arrive out of order, Redis keys expire, and only the   *)
(* head of a deque is looked at.                                           *)
QuotaKept ==
  \A k \in Key : \A i \in Of(k) :
    Cardinality({j \in Recent(k, log[i].at, Window - MaxDelay) : j <= i})
      <= Limit(k)

(* A caller that allow turns away really met the quota it is told about:   *)
(* rpm + burst requests passed within the last window, give or take        *)
(* MaxDelay.  Entries stuck behind the head of a deque cost nobody more.   *)
FullFor(k) == Cardinality(Recent(k, clock, Window + MaxDelay + 1)) >= Limit(k)

DeniedJustly ==
  [][\A p \in Process : Called(p) /\ ~Called(p)' =>
       /\ result'[p] = "actor" => FullFor(actor[p])
       /\ result'[p] = "global" => FullFor("*")]_vars

-----------------------------------------------------------------------------
(* What the two properties rest on *)

(* A caller inside allow has read a time at most MaxDelay ago *)
Fresh ==
  /\ \A p \in Process :
       Called(p) => now[p] <= clock /\ clock <= now[p] + MaxDelay
  /\ \A i \in 1..Len(log) :
       /\ log[i].now <= log[i].at /\ log[i].at <= log[i].now + MaxDelay
       /\ log[i].at <= clock
  /\ \A i, j \in 1..Len(log) : i <= j => log[i].at <= log[j].at

(* Redis keeps a key until everything in it has left the window *)
LivesOn ==
  \A k \in Key : backend = "redis" =>
    \A i \in Of(k) : i \in bucket[k] => log[i].at + Ttl <= expires[k]

(* What is in the window is in its bucket, and nothing else's entry is *)
NothingForgotten ==
  \A k \in Key :
    /\ bucket[k] \subseteq Of(k)
    /\ Recent(k, clock, Window - MaxDelay) \subseteq bucket[k]

LimiterInv == TypeOK /\ Fresh /\ LivesOn /\ NothingForgotten
=============================================================================
