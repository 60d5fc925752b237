--------------------------- MODULE ConnectionPool ---------------------------
(***************************************************************************)
(* The connection manager of src/db/connection_manager.py for one SQL      *)
(* Server instance: the pool (available, in_use and its counters), the     *)
(* RLock and its condition variable, and the threads that borrow           *)
(* connections from it to run a read, a stored procedure or a health       *)
(* check.                                                                  *)
(*                                                                         *)
(* A thread runs one job at a time.  Every block that the code executes    *)
(* under the lock is one action; every database call that the code makes   *)
(* outside the lock is an action of its own, so that other threads may     *)
(* interleave with it.  healthcheck_instance is the exception: it keeps    *)
(* the (re-entrant) lock through its database calls, which `lock' records. *)
(*                                                                         *)
(* What is abstracted:                                                     *)
(*  - available and in_use are lists in the code and sets here.  Neither   *)
(*    list ever holds a connection twice, because a thread only adds the   *)
(*    connection it holds (see Exclusive); which idle connection is popped *)
(*    is left open.                                                        *)
(*  - The server may drop an open connection at any time.  The program     *)
(*    sees this only when its next call on the connection fails, so the    *)
(*    outcome of such a call is a nondeterministic choice.                 *)
(*  - A connection identity is used again once nobody refers to the closed *)
(*    connection, as Python object identities are.                         *)
(*  - Of the transaction that autocommit=False leaves open on a connection *)
(*    the model keeps whether there is work in it that a commit would make *)
(*    permanent: of a job that raised (dirty), of a read that returned     *)
(*    (left).  A read runs the text of its caller, which may change data   *)
(*    (SELECT ... INTO): only its first word and a list of patterns are    *)
(*    looked at before.  What the work is, and the locks it keeps, is not. *)
(*  - reused_total and _health are written and returned, never read by the *)
(*    manager; they are left out.                                          *)
(***************************************************************************)
EXTENDS Integers, FiniteSets

CONSTANTS
  Thread,       \* threads that call the connection manager
  Conn,         \* identities of pyodbc connections
  PoolEnabled,  \* instance.pool_enabled
  PoolMax,      \* instance.pool_max
  KindsOf,      \* KindsOf[t]: the kinds of jobs thread t runs
  MaxJobs,      \* bound: jobs a thread starts
  NoThread, NoConn

(* execute_read; execute_read_in_database and the other readers with a     *)
(* database_override; execute_proc without and with a database_override;   *)
(* healthcheck_instance.                                                   *)
AllKinds == {"read", "readIn", "proc", "procIn", "health"}

ASSUME PoolAssumption ==
  /\ IsFiniteSet(Thread) /\ IsFiniteSet(Conn)
  /\ NoThread \notin Thread /\ NoConn \notin Conn
  /\ PoolEnabled \in BOOLEAN /\ PoolMax \in Int /\ MaxJobs \in Nat
  /\ KindsOf \in [Thread -> SUBSET AllKinds]
  /\ "pool" \notin Thread /\ "gone" \notin Thread

VARIABLES
  available,  \* state["available"]
  in_use,     \* state["in_use"]
  created,    \* state["created_total"]
  discarded,  \* state["discarded_total"]
  waiters,    \* threads in Condition.wait that have not been notified
  lock,       \* the thread that keeps the lock between actions, or NoThread
  open,       \* the connections that have not been closed
  dirty,      \* those with uncommitted work of a job that raised
  left,       \* those with uncommitted work of a read that returned
  pc,         \* where a thread is
  job,        \* the kind of its job
  held,       \* the connection it holds
  attempt,    \* the attempt of _run_read_operation, from 0
  err,        \* the pending exception: "none", "hard" or "transient"
  expired,    \* its acquire deadline has passed
  started,    \* jobs it has started
  commits,    \* how often the procedure of its job was committed
  shutdown    \* close_all_pools has run

poolVars == <<available, in_use, created, discarded, waiters>>
connVars == <<open, dirty, left>>
vars == <<poolVars, connVars, lock, pc, job, held, attempt, err, expired,
          started, commits, shutdown>>

-----------------------------------------------------------------------------
(* Helpers *)

pool_cap == IF PoolMax > 1 THEN PoolMax ELSE 1

pool_size == Cardinality(available) + Cardinality(in_use)

(* use_pool of _acquire_connection *)
Pooled(k) == PoolEnabled /\ k \in {"read", "proc", "health"}

IsProc(k) == k \in {"proc", "procIn"}
IsRead(k) == k \in {"read", "readIn"}

(* Where a job, or a retry of it, enters _acquire_connection *)
Entry(k) == IF Pooled(k) THEN "acquire" ELSE "connect"

(* t may enter a `with self._pool_condition' block *)
Locked(t) == lock \in {NoThread, t}

(* The results _is_connection_usable may return: FALSE for a closed        *)
(* connection and, any time, for one whose server side is gone.            *)
Usable(c) == IF c \in open THEN BOOLEAN ELSE {FALSE}

Full == available = {} /\ pool_size >= pool_cap

(* Mutant of RemoveAndDiscard: the freed slot is not announced *)
DiscardSilently(c) ==
  /\ in_use' = in_use \ {c}
  /\ discarded' = discarded + 1
  /\ UNCHANGED waiters

(* _remove_in_use_connection, discarded_total += 1, notify_all *)
RemoveAndDiscard(c) ==
  /\ in_use' = in_use \ {c}
  /\ discarded' = discarded + 1
  /\ waiters' = {}

(* A commit or a rollback: nothing on the connections is uncommitted *)
Settle(S) ==
  /\ dirty' = dirty \ S
  /\ left' = left \ S

(* conn.close(): the server rolls an open transaction back *)
CloseConns(S) ==
  /\ open' = open \ S
  /\ Settle(S)

Goto(t, label) == pc' = [pc EXCEPT ![t] = label]

Init ==
  /\ available = {} /\ in_use = {}
  /\ created = 0 /\ discarded = 0
  /\ waiters = {} /\ lock = NoThread
  /\ open = {} /\ dirty = {} /\ left = {}
  /\ pc = [t \in Thread |-> "idle"]
  /\ job = [t \in Thread |-> "read"]
  /\ held = [t \in Thread |-> NoConn]
  /\ attempt = [t \in Thread |-> 0]
  /\ err = [t \in Thread |-> "none"]
  /\ expired = [t \in Thread |-> FALSE]
  /\ started = [t \in Thread |-> 0]
  /\ commits = [t \in Thread |-> 0]
  /\ shutdown = FALSE

-----------------------------------------------------------------------------
(* A caller starts a job; a health check enters `with self._lock'. *)
Begin(t, k) ==
  /\ pc[t] = "idle" /\ started[t] < MaxJobs
  /\ k = "health" => lock = NoThread
  /\ lock' = IF k = "health" THEN t ELSE lock
  /\ job' = [job EXCEPT ![t] = k]
  /\ Goto(t, Entry(k))
  /\ started' = [started EXCEPT ![t] = @ + 1]
  /\ UNCHANGED <<poolVars, connVars, held, attempt, err, expired, commits,
                 shutdown>>

(* The monotonic clock passes the acquire deadline of t.  The deadline is  *)
(* compared with the clock only when the pool is full, and by wait.        *)
Expire(t) ==
  /\ ~expired[t]
  /\ pc[t] = "waiting" \/ (pc[t] = "acquire" /\ Full)
  /\ expired' = [expired EXCEPT ![t] = TRUE]
  /\ UNCHANGED <<poolVars, connVars, lock, pc, job, held, attempt, err,
                 started, commits, shutdown>>

-----------------------------------------------------------------------------
(* _acquire_connection: the block under the lock has four outcomes *)

(* Mutant of AcquireIdle: the connection is read but not popped *)
AcquirePeek(t) ==
  /\ pc[t] = "acquire" /\ Locked(t)
  /\ \E c \in available :
       /\ in_use' = in_use \cup {c}
       /\ held' = [held EXCEPT ![t] = c]
  /\ Goto(t, "probe")
  /\ UNCHANGED <<connVars, available, created, discarded, waiters, lock, job,
                 attempt, err, expired, started, commits, shutdown>>

AcquireIdle(t) ==
  /\ pc[t] = "acquire" /\ Locked(t)
  /\ \E c \in available :
       /\ available' = available \ {c}
       /\ in_use' = in_use \cup {c}
       /\ held' = [held EXCEPT ![t] = c]
  /\ Goto(t, "probe")
  /\ UNCHANGED <<connVars, created, discarded, waiters, lock, job, attempt,
                 err, expired, started, commits, shutdown>>

(* create_new: nothing is reserved before the lock is released *)
AcquireNew(t) ==
  /\ pc[t] = "acquire" /\ Locked(t)
  /\ available = {} /\ pool_size < pool_cap
  /\ Goto(t, "connect")
  /\ UNCHANGED <<poolVars, connVars, lock, job, held, attempt, err, expired,
                 started, commits, shutdown>>

(* raise TimeoutError, which is no transient error *)
AcquireTimeout(t) ==
  /\ pc[t] = "acquire" /\ Locked(t)
  /\ Full /\ expired[t]
  /\ err' = [err EXCEPT ![t] = "hard"]
  /\ Goto(t, "finish")
  /\ UNCHANGED <<poolVars, connVars, lock, job, held, attempt, expired,
                 started, commits, shutdown>>

(* Mutant of AcquireWait: waiting gives up one level of the lock only *)
AcquireWaitHolding(t) ==
  /\ pc[t] = "acquire" /\ Locked(t)
  /\ Full /\ ~expired[t]
  /\ waiters' = waiters \cup {t}
  /\ Goto(t, "waiting")
  /\ UNCHANGED <<connVars, available, in_use, created, discarded, lock, job,
                 held, attempt, err, expired, started, commits, shutdown>>

(* Condition.wait releases the lock, also one that a health check holds *)
AcquireWait(t) ==
  /\ pc[t] = "acquire" /\ Locked(t)
  /\ Full /\ ~expired[t]
  /\ waiters' = waiters \cup {t}
  /\ lock' = NoThread
  /\ Goto(t, "waiting")
  /\ UNCHANGED <<connVars, available, in_use, created, discarded, job, held,
                 attempt, err, expired, started, commits, shutdown>>

(* wait returns, notified or timed out, once it has the lock back *)
Wake(t) ==
  /\ pc[t] = "waiting" /\ lock = NoThread
  /\ t \notin waiters \/ expired[t]
  /\ waiters' = waiters \ {t}
  /\ lock' = IF job[t] = "health" THEN t ELSE NoThread
  /\ Goto(t, "acquire")
  /\ UNCHANGED <<connVars, available, in_use, created, discarded, job, held,
                 attempt, err, expired, started, commits, shutdown>>

(* The popped connection is probed without the lock *)
Probe(t) ==
  /\ pc[t] = "probe"
  /\ \E ok \in Usable(held[t]) : Goto(t, IF ok THEN "use" ELSE "drop")
  /\ UNCHANGED <<poolVars, connVars, lock, job, held, attempt, err, expired,
                 started, commits, shutdown>>

Drop(t) ==
  /\ pc[t] = "drop" /\ Locked(t)
  /\ RemoveAndDiscard(held[t])
  /\ Goto(t, "dropped")
  /\ UNCHANGED <<connVars, available, created, lock, job, held, attempt,
                 err, expired, started, commits, shutdown>>

(* close the dropped connection and `continue' *)
CloseDropped(t) ==
  /\ pc[t] = "dropped"
  /\ CloseConns({held[t]})
  /\ held' = [held EXCEPT ![t] = NoConn]
  /\ Goto(t, "acquire")
  /\ UNCHANGED <<poolVars, lock, job, attempt, err, expired, started,
                 commits, shutdown>>

(* _connect_new succeeds *)
ConnectOk(t) ==
  /\ pc[t] = "connect"
  /\ \E c \in Conn \ open :
       /\ \A u \in Thread : held[u] # c
       /\ open' = open \cup {c}
       /\ held' = [held EXCEPT ![t] = c]
  /\ Goto(t, IF Pooled(job[t]) THEN "register" ELSE "use")
  /\ UNCHANGED <<poolVars, dirty, left, lock, job, attempt, err, expired,
                 started, commits, shutdown>>

(* _connect_new raises: there is nothing to release *)
ConnectFail(t) ==
  /\ pc[t] = "connect"
  /\ \E e \in {"hard", "transient"} : err' = [err EXCEPT ![t] = e]
  /\ Goto(t, "finish")
  /\ UNCHANGED <<poolVars, connVars, lock, job, held, attempt, expired,
                 started, commits, shutdown>>

(* Mutant of Register: the new connection is not counted *)
RegisterUncounted(t) ==
  /\ pc[t] = "register" /\ Locked(t)
  /\ in_use' = in_use \cup {held[t]}
  /\ Goto(t, "use")
  /\ UNCHANGED <<connVars, available, created, discarded, waiters, lock, job,
                 held, attempt, err, expired, started, commits, shutdown>>

Register(t) ==
  /\ pc[t] = "register" /\ Locked(t)
  /\ in_use' = in_use \cup {held[t]}
  /\ created' = created + 1
  /\ Goto(t, "use")
  /\ UNCHANGED <<connVars, available, discarded, waiters, lock, job, held,
                 attempt, err, expired, started, commits, shutdown>>

-----------------------------------------------------------------------------
(* The body of `with self.connect(...)' *)

(* The operation returns; execute_proc has committed, which makes          *)
(* everything on the connection permanent.  A read may have worked, and    *)
(* does not commit; a health check runs SELECT 1.                          *)
UseOk(t) ==
  LET c == held[t] IN
  /\ pc[t] = "use" /\ c \in open
  /\ \/ /\ IsProc(job[t])
        /\ commits' = [commits EXCEPT ![t] = @ + 1]
        /\ Settle({c})
     \/ /\ ~IsProc(job[t])
        /\ left' = left \/ (IsRead(job[t]) /\ left' = left \cup {c})
        /\ UNCHANGED <<commits, dirty>>
  /\ Goto(t, "release")
  /\ UNCHANGED <<poolVars, open, lock, job, held, attempt, err, expired,
                 started, shutdown>>

(* The operation raises; on a closed connection the error is not           *)
(* transient.  A read or a procedure may have worked before it failed.     *)
UseFail(t) ==
  LET c == held[t] IN
  /\ pc[t] = "use"
  /\ \E e \in {"hard"} \cup (IF c \in open THEN {"transient"} ELSE {}) :
       err' = [err EXCEPT ![t] = e]
  /\ dirty' = IF job[t] # "health" /\ c \in open THEN dirty \cup {c} ELSE dirty
  /\ Goto(t, "release")
  /\ UNCHANGED <<poolVars, open, left, lock, job, held, attempt, expired,
                 started, commits, shutdown>>

(* The commit of execute_proc reaches the server, its answer does not *)
UseInDoubt(t) ==
  /\ pc[t] = "use" /\ held[t] \in open /\ IsProc(job[t])
  /\ commits' = [commits EXCEPT ![t] = @ + 1]
  /\ Settle({held[t]})
  /\ err' = [err EXCEPT ![t] = "transient"]
  /\ Goto(t, "release")
  /\ UNCHANGED <<poolVars, open, lock, job, held, attempt, expired, started,
                 shutdown>>

-----------------------------------------------------------------------------
(* _release_connection *)

(* The rollback after an error, whose own failure is suppressed; without   *)
(* an error the transaction stays as it is.                                *)
Rollback(t) ==
  \/ UNCHANGED <<dirty, left>>
  \/ err[t] # "none" /\ Settle({held[t]})

(* Mutant of ReleasePooled: had_error is not part of should_discard *)
ReleaseForgivingErrors(t) ==
  /\ pc[t] = "release" /\ Pooled(job[t])
  /\ Rollback(t)
  /\ \E ok \in Usable(held[t]) : Goto(t, IF ~ok THEN "discard" ELSE "put")
  /\ UNCHANGED <<poolVars, open, lock, job, held, attempt, err, expired,
                 started, commits, shutdown>>

(* The part before the lock for a pooled connection: the rollback, and the *)
(* value of should_discard.                                                *)
ReleasePooled(t) ==
  /\ pc[t] = "release" /\ Pooled(job[t])
  /\ Rollback(t)
  /\ \E ok \in Usable(held[t]) :
       Goto(t, IF err[t] # "none" \/ ~ok THEN "discard" ELSE "put")
  /\ UNCHANGED <<poolVars, open, lock, job, held, attempt, err, expired,
                 started, commits, shutdown>>

(* not pooled: rollback after an error, then close *)
ReleaseDirect(t) ==
  /\ pc[t] = "release" /\ ~Pooled(job[t])
  /\ CloseConns({held[t]})
  /\ held' = [held EXCEPT ![t] = NoConn]
  /\ Goto(t, "finish")
  /\ UNCHANGED <<poolVars, lock, job, attempt, err, expired, started,
                 commits, shutdown>>

(* should_discard *)
Discard(t) ==
  /\ pc[t] = "discard" /\ Locked(t)
  /\ RemoveAndDiscard(held[t])
  /\ Goto(t, "close")
  /\ UNCHANGED <<connVars, available, created, lock, job, held, attempt,
                 err, expired, started, commits, shutdown>>

(* Mutant of AutocommitOk: the probe before the lock is trusted *)
AutocommitTrusted(c) == TRUE

(* conn.autocommit = False raises on a closed connection (it may have been *)
(* closed by close_all_pools since it was probed).                         *)
AutocommitOk(c) == c \in open

(* Mutant of Put: the number of idle connections is not limited *)
PutUnlimited(t) ==
  LET c == held[t] IN
  /\ pc[t] = "put" /\ Locked(t)
  /\ AutocommitOk(c)
  /\ in_use' = in_use \ {c}
  /\ available' = available \cup {c}
  /\ waiters' = {}
  /\ held' = [held EXCEPT ![t] = NoConn]
  /\ Goto(t, "finish")
  /\ UNCHANGED <<connVars, created, discarded, lock, job, attempt, err,
                 expired, started, commits, shutdown>>

(* The connection goes back to available *)
Put(t) ==
  LET c == held[t] IN
  /\ pc[t] = "put" /\ Locked(t)
  /\ AutocommitOk(c) /\ Cardinality(available) < pool_cap
  /\ in_use' = in_use \ {c}
  /\ available' = available \cup {c}
  /\ waiters' = {}
  /\ held' = [held EXCEPT ![t] = NoConn]
  /\ Goto(t, "finish")
  /\ UNCHANGED <<connVars, created, discarded, lock, job, attempt, err,
                 expired, started, commits, shutdown>>

(* autocommit raised, which a lost server side may cause too, or available *)
(* is full.                                                                *)
PutRefused(t) ==
  /\ pc[t] = "put" /\ Locked(t)
  /\ RemoveAndDiscard(held[t])
  /\ Goto(t, "close")
  /\ UNCHANGED <<connVars, available, created, lock, job, held, attempt,
                 err, expired, started, commits, shutdown>>

(* Mutant of Close: the discarded connection is forgotten, not closed *)
CloseForgotten(t) ==
  /\ pc[t] = "close"
  /\ held' = [held EXCEPT ![t] = NoConn]
  /\ Goto(t, "finish")
  /\ UNCHANGED <<poolVars, connVars, lock, job, attempt, err, expired,
                 started, commits, shutdown>>

(* close_now, after the lock is released *)
Close(t) ==
  /\ pc[t] = "close"
  /\ CloseConns({held[t]})
  /\ held' = [held EXCEPT ![t] = NoConn]
  /\ Goto(t, "finish")
  /\ UNCHANGED <<poolVars, lock, job, attempt, err, expired, started,
                 commits, shutdown>>

-----------------------------------------------------------------------------
(* What becomes of the job *)

(* Mutant of CanRetry: procedures are retried as reads are *)
CanRetryAnything(t) == err[t] = "transient" /\ attempt[t] < 1

(* _READ_RETRY_ATTEMPTS = 2 *)
CanRetry(t) ==
  job[t] \in {"read", "readIn"} /\ err[t] = "transient" /\ attempt[t] < 1

(* Mutant of Retry: the attempts are not counted *)
RetryUncounted(t) ==
  /\ pc[t] = "finish" /\ CanRetry(t)
  /\ err' = [err EXCEPT ![t] = "none"]
  /\ expired' = [expired EXCEPT ![t] = FALSE]
  /\ Goto(t, Entry(job[t]))
  /\ UNCHANGED <<poolVars, connVars, lock, job, held, attempt, started,
                 commits, shutdown>>

(* _run_read_operation sleeps and tries again, with a new deadline *)
Retry(t) ==
  /\ pc[t] = "finish" /\ CanRetry(t)
  /\ attempt' = [attempt EXCEPT ![t] = @ + 1]
  /\ err' = [err EXCEPT ![t] = "none"]
  /\ expired' = [expired EXCEPT ![t] = FALSE]
  /\ Goto(t, Entry(job[t]))
  /\ UNCHANGED <<poolVars, connVars, lock, job, held, started, commits,
                 shutdown>>

(* The job returns or raises, and its local state is gone; a health check  *)
(* leaves its `with self._lock' block.                                     *)
Finish(t) ==
  /\ pc[t] = "finish" /\ ~CanRetry(t)
  /\ lock' = IF job[t] = "health" THEN NoThread ELSE lock
  /\ Goto(t, "idle")
  /\ job' = [job EXCEPT ![t] = "read"]
  /\ attempt' = [attempt EXCEPT ![t] = 0]
  /\ err' = [err EXCEPT ![t] = "none"]
  /\ expired' = [expired EXCEPT ![t] = FALSE]
  /\ commits' = [commits EXCEPT ![t] = 0]
  /\ UNCHANGED <<poolVars, connVars, held, started, shutdown>>

(* close_all_pools, at shutdown, while threads may still be at work: the   *)
(* counters stay as they are.                                              *)
CloseAllPools ==
  /\ ~shutdown /\ lock = NoThread
  /\ CloseConns(available \cup in_use)
  /\ available' = {} /\ in_use' = {}
  /\ waiters' = {}
  /\ shutdown' = TRUE
  /\ UNCHANGED <<created, discarded, lock, pc, job, held, attempt, err,
                 expired, started, commits>>

(* Every thread has run its jobs: nothing is left to do *)
Done ==
  /\ \A t \in Thread : pc[t] = "idle" /\ started[t] = MaxJobs
  /\ UNCHANGED vars

Step(t) ==
  \/ AcquireIdle(t) \/ AcquireNew(t) \/ AcquireTimeout(t) \/ AcquireWait(t)
  \/ Wake(t) \/ Probe(t) \/ Drop(t) \/ CloseDropped(t)
  \/ ConnectOk(t) \/ ConnectFail(t) \/ Register(t)
  \/ UseOk(t) \/ UseFail(t) \/ UseInDoubt(t)
  \/ ReleasePooled(t) \/ ReleaseDirect(t) \/ Discard(t)
  \/ Put(t) \/ PutRefused(t) \/ Close(t)
  \/ Retry(t) \/ Finish(t)

Next ==
  \/ \E t \in Thread : \E k \in KindsOf[t] : Begin(t, k)
  \/ \E t \in Thread : Step(t) \/ Expire(t)
  \/ CloseAllPools
  \/ Done

Spec == Init /\ [][Next]_vars

(* A thread that can run does run, database calls return (drivers have     *)
(* their own time limits) and the clock moves on.                          *)
Fairness == \A t \in Thread : WF_vars(Step(t)) /\ WF_vars(Expire(t))

FairSpec == Spec /\ Fairness

-----------------------------------------------------------------------------
(* Invariants *)

(* Where a thread holds a connection that the pool counts in in_use (until *)
(* close_all_pools clears it), and where it holds one that the pool does   *)
(* not count.                                                              *)
CountedPC   == {"probe", "drop", "use", "release", "put", "discard"}
UncountedPC == {"register", "dropped", "close"}

(* Threads that have decided to create a pooled connection and have not    *)
(* registered it.                                                          *)
Creators ==
  {t \in Thread : Pooled(job[t]) /\ pc[t] \in {"connect", "register"}}

(* Type invariant of the connection manager's state. *)
TypeOK ==
  /\ available \subseteq Conn /\ in_use \subseteq Conn
  /\ created \in Nat /\ discarded \in Nat
  /\ waiters \subseteq Thread
  /\ lock \in Thread \cup {NoThread}
  /\ open \subseteq Conn /\ dirty \subseteq Conn /\ left \subseteq Conn
  /\ pc \in [Thread -> {"idle", "acquire", "waiting", "connect", "finish"}
                       \cup CountedPC \cup UncountedPC]
  /\ job \in [Thread -> AllKinds]
  /\ held \in [Thread -> Conn \cup {NoConn}]
  /\ attempt \in [Thread -> Nat]
  /\ err \in [Thread -> {"none", "hard", "transient"}]
  /\ expired \in [Thread -> BOOLEAN]
  /\ started \in [Thread -> Nat]
  /\ commits \in [Thread -> Nat]
  /\ shutdown \in BOOLEAN

(* _acquire_connection and _release_connection hand a connection to one    *)
(* borrower at a time: no two threads hold the same connection, and no     *)
(* thread holds one that the pool offers to others.                        *)
Exclusive ==
  \A t \in Thread : held[t] # NoConn =>
    /\ held[t] \notin available
    /\ \A u \in Thread \ {t} : held[u] # held[t]

(* A failure stays with the job that met it ("One session's timeout or     *)
(* error must NOT corrupt the pool"): a connection that the pool offers,   *)
(* or that a job works on, has no uncommitted work of a job that raised,   *)
(* whether or not the rollback of _release_connection succeeded, and an    *)
(* offered connection was not closed by a discard or by close_all_pools.   *)
(* Work of a read that returned is another matter (OnlyOwnWorkCommitted).  *)
OfferedClean ==
  /\ available \subseteq open \ dirty
  /\ \A t \in Thread : pc[t] = "use" => held[t] \notin dirty

(* No connection leaks: one that is not closed is offered by the pool or   *)
(* held by a thread, an in_use entry belongs to a thread that will give it *)
(* back, and a connection made for a database_override is never entered    *)
(* in the pool.                                                            *)
NoLeak ==
  /\ \A c \in open : c \in available \/ \E t \in Thread : held[t] = c
  /\ \A c \in in_use : \E t \in Thread :
        held[t] = c /\ pc[t] \in CountedPC /\ Pooled(job[t])

(* No wake-up is lost: a thread that sleeps in _pool_condition.wait and    *)
(* has not been notified has nothing to wake up for, the pool being full   *)
(* with every connection in use.                                           *)
NoLostWakeup == \A t \in waiters : pc[t] = "waiting" /\ Full

(* The counters of get_pool_diagnostics add up: until close_all_pools,     *)
(* every connection ever created is in the pool or was discarded, once.    *)
Accounting == ~shutdown => created = pool_size + discarded

(* The pool may exceed pool_max, because create_new reserves no slot; the  *)
(* excess is limited by the number of threads, and the idle connections    *)
(* are limited by pool_max.                                                *)
OvershootBounded ==
  /\ pool_size + Cardinality(Creators) <= Cardinality(Thread)
  /\ Cardinality(available) <= pool_cap

(* execute_proc is never repeated: however its connection fails, a job     *)
(* commits its procedure at most once.                                     *)
ProcAtMostOnce == \A t \in Thread : commits[t] <= 1

(* Only a running health check keeps the lock between steps, and never     *)
(* while it waits for a connection.                                        *)
LockDiscipline ==
  lock # NoThread => job[lock] = "health" /\ pc[lock] \notin {"idle", "waiting"}

(* What the invariants above rest on *)

(* A thread holds a connection exactly at the places named above, and is   *)
(* in the pooled parts of the code only with a job that uses the pool.     *)
Holding ==
  \A t \in Thread :
    /\ pc[t] \in CountedPC \cup UncountedPC <=> held[t] # NoConn
    /\ pc[t] \notin {"idle", "connect", "use", "release", "finish"} =>
         Pooled(job[t])

(* A connection that a thread took from the pool is in in_use, unless      *)
(* close_all_pools has closed it; one that is not registered yet is open.  *)
Counted ==
  \A t \in Thread :
    /\ pc[t] \in CountedPC /\ Pooled(job[t]) =>
         held[t] \in in_use \/ (shutdown /\ held[t] \notin open)
    /\ pc[t] = "register" => held[t] \in open

(* Work of a job that raised stays on connections that are on their way    *)
(* out; a closed connection has no uncommitted work.                       *)
CleanHeld ==
  /\ dirty \subseteq open /\ left \subseteq open
  /\ \A t \in Thread : held[t] \in dirty =>
       \/ pc[t] = "release" /\ err[t] # "none"
       \/ pc[t] \in {"discard", "close"}

(* A procedure is committed in the last step of the body, and the job does *)
(* not come back to the body.                                              *)
CommittedOnce ==
  \A t \in Thread :
    /\ commits[t] \in {0, 1}
    /\ commits[t] = 1 => /\ IsProc(job[t])
                         /\ pc[t] \in {"release", "put", "discard", "close",
                                       "finish"}

(* The inductive invariant: each conjunct is needed for the next ones.     *)
(* Exclusive alone, for example, is not preserved by Put unless the thread *)
(* at "put" is known to hold a connection (Holding), and OfferedClean not  *)
(* unless that connection is clean (CleanHeld).                            *)
PoolInv ==
  /\ TypeOK /\ Holding
  /\ Exclusive /\ NoLeak /\ Counted
  /\ CleanHeld /\ OfferedClean
  /\ CommittedOnce

(* The part of the inductive invariant about the size of the pool, the     *)
(* counters, the condition variable and the lock.                          *)
CountInv == OvershootBounded /\ Accounting /\ NoLostWakeup /\ LockDiscipline

(* "Only allowlisted stored-procedure execution tools may perform write    *)
(* actions": the commit of execute_proc makes permanent what its procedure *)
(* did, and no work that an earlier read left on the connection.           *)
OnlyOwnWorkCommitted ==
  [][\A t \in Thread : commits'[t] > commits[t] => held[t] \notin left]_vars

-----------------------------------------------------------------------------
(* Refinement *)

(* A connection belongs to the thread that holds it, else to the pool that *)
(* offers it, else it is gone; it is fit when it is open and has no        *)
(* uncommitted work of a job that raised.                                  *)
leaseOwner ==
  [c \in Conn |-> CASE \E t \in Thread : held[t] = c ->
                          CHOOSE t \in Thread : held[t] = c
                    [] ~(\E t \in Thread : held[t] = c) /\ c \in available -> "pool"
                    [] OTHER -> "gone"]
leaseFit == [c \in Conn |-> c \in open \ dirty]

Lease == INSTANCE ConnectionLease WITH
  Pool <- "pool", Gone <- "gone", owner <- leaseOwner, fit <- leaseFit

(* connect() implements the lease of ConnectionLease: acquiring, using and *)
(* releasing a connection under all interleavings, errors and a concurrent *)
(* close_all_pools give each borrower a connection of its own, and the     *)
(* pool takes back only open ones without work of a failed borrower.       *)
LeaseSpec == Lease!Spec

-----------------------------------------------------------------------------
(* Every job ends: no borrower waits for ever for a connection or for the  *)
(* lock, whatever breaks and whoever shuts the pool down.                  *)
JobsEnd == \A t \in Thread : pc[t] # "idle" ~> pc[t] = "idle"
=============================================================================
