--------------------------- MODULE SessionManager ---------------------------
(***************************************************************************)
(* The session table of src/security/session_manager.py under concurrent   *)
(* callers.  touch(actor, request_id, mcp_session_id) reads the clock      *)
(* before it takes the lock and _cleanup reads it again inside, so a       *)
(* session may be stored with a time that is already old, at most MaxDelay *)
(* (the callers' wait for the lock).                                       *)
(*                                                                         *)
(* A session is stored with ONE time, which _cleanup uses as its start and *)
(* as its last use.  `born' and `used' are history variables: when the     *)
(* session was really created and when it was really touched last.         *)
(* A key is an MCP session id or, without one, a request id; request ids   *)
(* are not used twice.                                                     *)
(***************************************************************************)
EXTENDS Integers, FiniteSets

CONSTANTS
  Process,     \* callers
  Actor,
  SessionId,   \* MCP session ids
  RequestId,   \* request ids of calls without a session
  SessionTtl,  \* session_ttl_minutes
  Inactivity,  \* inactivity_timeout_minutes
  Limit,       \* concurrent_sessions_limit
  MaxDelay,    \* bound: time from reading the clock to entering the lock
  MaxClock     \* bound: clock ticks

Key == SessionId \cup RequestId

ASSUME SessionAssumption ==
  /\ IsFiniteSet(Actor) /\ IsFiniteSet(Key) /\ "none" \notin Actor
  /\ SessionId \cap RequestId = {} /\ "none" \notin Key
  /\ SessionTtl \in Nat /\ Inactivity \in Nat /\ Limit \in Nat
  /\ MaxDelay \in Nat /\ MaxClock \in Nat

VARIABLES
  clock,
  sessions,  \* _sessions: the stored time of a session, -1 where there is none
  actor,     \* the actor a caller calls touch for, "none" outside touch
  key,       \* the key of its session
  now,       \* the time it has read
  seen,      \* request ids that were used
  born,      \* history: when a session was created, -1 if it is not stored
  used       \* history: when it was touched last, -1 if never

vars == <<clock, sessions, actor, key, now, seen, born, used>>

-----------------------------------------------------------------------------
Called(p) == actor[p] # "none"

(* Mutant of Expired: a session lives until it is older than both limits *)
ExpiredBoth(t) == clock - t > SessionTtl /\ clock - t > Inactivity

(* started and last_seen are the same stored time *)
Expired(t) == clock - t > SessionTtl \/ clock - t > Inactivity

(* _cleanup removes the expired sessions of every actor.  (An actor's      *)
(* empty dictionary is removed too; an empty one and none are the same     *)
(* here, as they are to the rest of the code.)                             *)
Cleaned ==
  [a \in Actor |->
    [k \in Key |-> IF Expired(sessions[a][k]) THEN -1 ELSE sessions[a][k]]]

Stored(s, a) == {k \in Key : s[a][k] # -1}

(* The history variables follow the table s that the step leaves *)
Forgotten(h, s) ==
  [a \in Actor |-> [k \in Key |-> IF s[a][k] = -1 THEN -1 ELSE h[a][k]]]

Init ==
  /\ clock = 0
  /\ sessions = [a \in Actor |-> [k \in Key |-> -1]]
  /\ actor = [p \in Process |-> "none"]
  /\ key = [p \in Process |-> "none"]
  /\ now = [p \in Process |-> 0]
  /\ seen = {}
  /\ born = sessions /\ used = sessions

(* touch is called: now = time.time() *)
Call(p, a, k) ==
  /\ ~Called(p) /\ k \notin seen
  /\ actor' = [actor EXCEPT ![p] = a]
  /\ key' = [key EXCEPT ![p] = k]
  /\ now' = [now EXCEPT ![p] = clock]
  /\ seen' = seen \cup ({k} \cap RequestId)
  /\ UNCHANGED <<clock, sessions, born, used>>

Return(p) ==
  /\ actor' = [actor EXCEPT ![p] = "none"]
  /\ key' = [key EXCEPT ![p] = "none"]
  /\ now' = [now EXCEPT ![p] = 0]

(* Mutant of Refused: the limit also meets the sessions of the table *)
RefusedAnyKey(p) == Cardinality(Stored(Cleaned, actor[p])) >= Limit

(* Mutant of Refused: the limit is compared before the new session counts *)
RefusedLate(p) ==
  /\ Cleaned[actor[p]][key[p]] = -1
  /\ Cardinality(Stored(Cleaned, actor[p])) > Limit

(* key not in actor_sessions and len(actor_sessions) >= self._limit *)
Refused(p) ==
  /\ Cleaned[actor[p]][key[p]] = -1
  /\ Cardinality(Stored(Cleaned, actor[p])) >= Limit

(* The locked part of touch stores the time that was read before the lock *)
Touch(p) ==
  LET a == actor[p]
      k == key[p] IN
  /\ Called(p) /\ ~Refused(p)
  /\ sessions' = [Cleaned EXCEPT ![a][k] = now[p]]
  /\ born' = [Forgotten(born, Cleaned) EXCEPT
                ![a][k] = IF Cleaned[a][k] = -1 THEN clock ELSE @]
  /\ used' = [used EXCEPT ![a][k] = clock]
  /\ Return(p)
  /\ UNCHANGED <<clock, seen>>

(* PermissionError("SESSION_LIMIT_EXCEEDED"); the cleanup has happened *)
Refuse(p) ==
  /\ Called(p) /\ Refused(p)
  /\ sessions' = Cleaned
  /\ born' = Forgotten(born, Cleaned)
  /\ Return(p)
  /\ UNCHANGED <<clock, seen, used>>

(* active_count, of one actor or of all: it cleans the table up and counts *)
ActiveCount ==
  /\ sessions' = Cleaned
  /\ born' = Forgotten(born, Cleaned)
  /\ UNCHANGED <<clock, actor, key, now, seen, used>>

Tick ==
  /\ clock < MaxClock
  /\ \A p \in Process : Called(p) => clock < now[p] + MaxDelay
  /\ clock' = clock + 1
  /\ UNCHANGED <<sessions, actor, key, now, seen, born, used>>

Next ==
  \/ Tick
  \/ \E p \in Process :
       \/ \E a \in Actor, k \in Key : Call(p, a, k)
       \/ Touch(p) \/ Refuse(p)
  \/ ActiveCount

Spec == Init /\ [][Next]_vars

-----------------------------------------------------------------------------
(* Type invariant of the session table and of its callers. *)
TypeOK ==
  /\ clock \in Nat
  /\ sessions \in [Actor -> [Key -> Nat \cup {-1}]]
  /\ actor \in [Process -> Actor \cup {"none"}]
  /\ key \in [Process -> Key \cup {"none"}]
  /\ now \in [Process -> Nat]
  /\ seen \subseteq RequestId
  /\ born \in [Actor -> [Key -> Nat \cup {-1}]]
  /\ used \in [Actor -> [Key -> Nat \cup {-1}]]

(* A stored time is at most MaxDelay older than the touch that stored it,  *)
(* which is the last one, whatever the order in which callers read the     *)
(* clock and got the lock.                                                 *)
StampsFresh ==
  /\ \A p \in Process :
       Called(p) => key[p] \in Key /\ now[p] <= clock /\ clock <= now[p] + MaxDelay
  /\ \A a \in Actor : \A k \in Stored(sessions, a) :
       /\ 0 <= born[a][k] /\ born[a][k] <= used[a][k] /\ used[a][k] <= clock
       /\ sessions[a][k] <= used[a][k]
       /\ used[a][k] <= sessions[a][k] + MaxDelay

(* touch never gives an actor more than concurrent_sessions_limit sessions *)
LimitKept == \A a \in Actor : Cardinality(Stored(sessions, a)) <= Limit

(* The sessions of an actor that were really used in the last d ticks *)
Alive(a, d) == {k \in Key : used[a][k] # -1 /\ clock - used[a][k] <= d}

Timeout == IF Inactivity < SessionTtl THEN Inactivity ELSE SessionTtl

(* A client that keeps using its session within the timeout (less the time *)
(* a call may wait for the lock) keeps it: no cleanup removes the session  *)
(* and every touch renews it, however many sessions the actor opens.       *)
SlotKept ==
  [][/\ \A a \in Actor : \A k \in Alive(a, Timeout - MaxDelay) :
          sessions'[a][k] # -1
     /\ \A p \in Process :
          /\ Called(p) /\ ~Called(p)'
          /\ key[p] \in Alive(actor[p], Timeout - MaxDelay)
          => sessions'[actor[p]][key[p]] = now[p]]_vars

(* touch refuses a session only when the actor has as many sessions as it  *)
(* may have that were really used within the timeout: expired ones are     *)
(* never in the way.                                                       *)
RefusedJustly ==
  [][\A p \in Process :
       /\ Called(p) /\ ~Called(p)'
       /\ sessions'[actor[p]][key[p]] = -1
       => Cardinality(Alive(actor[p], Timeout)) >= Limit]_vars

(* A session that was used a short time ago is in the table: SlotKept is   *)
(* not provable step by step without it.                                   *)
UsedStored ==
  \A a \in Actor : Alive(a, Timeout - MaxDelay) \subseteq Stored(sessions, a)

(* The inductive invariant of the session table: types, fresh stamps, the  *)
(* limit of concurrent sessions, and no session in use missing.            *)
SessionInv == TypeOK /\ StampsFresh /\ UsedStored /\ LimitKept
=============================================================================
