------------------------ MODULE ConnectionPoolProofs ------------------------
(***************************************************************************)
(* Proofs about ConnectionPool for any finite sets of threads and          *)
(* connections, any number of jobs, any pool_max and any assignment of     *)
(* jobs to threads.                                                        *)
(***************************************************************************)
EXTENDS ConnectionPool, FiniteSetTheorems, TLAPS

-----------------------------------------------------------------------------
(* PoolInv is inductive.  One lemma per action; in each, one step per      *)
(* group of conjuncts.                                                     *)

(* The manager starts with an empty pool and idle threads. *)
LEMMA InitInv == Init => PoolInv
<1> SUFFICES ASSUME Init PROVE PoolInv
  OBVIOUS
<1> USE PoolAssumption DEF Init, CountedPC, UncountedPC
<1>1. expired \in [Thread -> BOOLEAN] /\ shutdown \in BOOLEAN
  BY Zenon
<1>2. TypeOK
  BY <1>1, SMT DEF TypeOK, AllKinds
<1>3. Holding /\ Exclusive /\ NoLeak /\ Counted
  BY DEF Holding, Exclusive, NoLeak, Counted
<1>4. CleanHeld /\ OfferedClean /\ CommittedOnce
  BY DEF CleanHeld, OfferedClean, CommittedOnce
<1> QED
  BY <1>2, <1>3, <1>4 DEF PoolInv


(* A caller starts a job. *)
LEMMA BeginInv ==
  ASSUME PoolInv, NEW t \in Thread, NEW k \in KindsOf[t], Begin(t, k)
  PROVE  PoolInv'
<1> USE PoolAssumption
    DEF PoolInv, TypeOK, Goto, poolVars, connVars, CountedPC, UncountedPC
<1>1. TypeOK' /\ Holding'
  <2>1. k \in AllKinds
    BY Zenon
  <2>2. job' \in [Thread -> AllKinds] /\ pc'[t] \in {"acquire", "connect"}
    BY <2>1 DEF Begin, Entry
  <2>3. TypeOK'
    BY <2>2 DEF Begin, Entry
  <2>4. Holding'
    BY DEF Begin, Entry, Holding
  <2> QED
    BY <2>3, <2>4
<1>2. Exclusive'
  BY DEF Begin, Entry, Holding, Exclusive
<1>3. NoLeak' /\ Counted'
  BY DEF Begin, Entry, Holding, Exclusive, NoLeak, Counted
<1>4. CleanHeld' /\ OfferedClean'
  BY DEF Begin, Entry, Holding, Exclusive, CleanHeld, OfferedClean
<1>5. CommittedOnce'
  BY DEF Begin, Entry, CommittedOnce, IsProc
<1> QED
  BY <1>1, <1>2, <1>3, <1>4, <1>5

(* An acquire deadline passes. *)
LEMMA ExpireInv ==
  ASSUME PoolInv, NEW t \in Thread, Expire(t)
  PROVE  PoolInv'
<1> USE PoolAssumption
    DEF PoolInv, TypeOK, Goto, poolVars, connVars, CountedPC, UncountedPC
<1>1. TypeOK' /\ Holding'
  BY DEF Expire, Holding
<1>2. Exclusive'
  BY DEF Expire, Holding, Exclusive
<1>3. NoLeak' /\ Counted'
  BY DEF Expire, Holding, Exclusive, NoLeak, Counted
<1>4. CleanHeld' /\ OfferedClean'
  BY DEF Expire, Holding, Exclusive, CleanHeld, OfferedClean
<1>5. CommittedOnce'
  BY DEF Expire, CommittedOnce, IsProc
<1> QED
  BY <1>1, <1>2, <1>3, <1>4, <1>5

(* _acquire_connection pops an idle connection: the popped connection      *)
(* leaves available, so the new holder is its only one.                    *)
LEMMA AcquireIdleInv ==
  ASSUME PoolInv, NEW t \in Thread, AcquireIdle(t)
  PROVE  PoolInv'
<1> USE PoolAssumption
    DEF PoolInv, TypeOK, Goto, poolVars, connVars, CountedPC, UncountedPC
<1>1. TypeOK' /\ Holding'
  BY DEF AcquireIdle, Holding
<1>2. Exclusive'
  BY DEF AcquireIdle, Holding, Exclusive
<1>3. NoLeak' /\ Counted'
  BY DEF AcquireIdle, Holding, Exclusive, NoLeak, Counted
<1>4. CleanHeld' /\ OfferedClean'
  BY DEF AcquireIdle, Holding, Exclusive, CleanHeld, OfferedClean
<1>5. CommittedOnce'
  BY DEF AcquireIdle, CommittedOnce, IsProc
<1> QED
  BY <1>1, <1>2, <1>3, <1>4, <1>5

(* _acquire_connection decides to create a connection. *)
LEMMA AcquireNewInv ==
  ASSUME PoolInv, NEW t \in Thread, AcquireNew(t)
  PROVE  PoolInv'
<1> USE PoolAssumption
    DEF PoolInv, TypeOK, Goto, poolVars, connVars, CountedPC, UncountedPC
<1>1. TypeOK' /\ Holding'
  BY DEF AcquireNew, Holding
<1>2. Exclusive'
  BY DEF AcquireNew, Holding, Exclusive
<1>3. NoLeak' /\ Counted'
  BY DEF AcquireNew, Holding, Exclusive, NoLeak, Counted
<1>4. CleanHeld' /\ OfferedClean'
  BY DEF AcquireNew, Holding, Exclusive, CleanHeld, OfferedClean
<1>5. CommittedOnce'
  BY DEF AcquireNew, CommittedOnce, IsProc
<1> QED
  BY <1>1, <1>2, <1>3, <1>4, <1>5

(* _acquire_connection raises TimeoutError. *)
LEMMA AcquireTimeoutInv ==
  ASSUME PoolInv, NEW t \in Thread, AcquireTimeout(t)
  PROVE  PoolInv'
<1> USE PoolAssumption
    DEF PoolInv, TypeOK, Goto, poolVars, connVars, CountedPC, UncountedPC
<1>1. TypeOK' /\ Holding'
  BY DEF AcquireTimeout, Holding
<1>2. Exclusive'
  BY DEF AcquireTimeout, Holding, Exclusive
<1>3. NoLeak' /\ Counted'
  BY DEF AcquireTimeout, Holding, Exclusive, NoLeak, Counted
<1>4. CleanHeld' /\ OfferedClean'
  BY DEF AcquireTimeout, Holding, Exclusive, CleanHeld, OfferedClean
<1>5. CommittedOnce'
  BY DEF AcquireTimeout, CommittedOnce, IsProc
<1> QED
  BY <1>1, <1>2, <1>3, <1>4, <1>5

(* _acquire_connection waits on the condition. *)
LEMMA AcquireWaitInv ==
  ASSUME PoolInv, NEW t \in Thread, AcquireWait(t)
  PROVE  PoolInv'
<1> USE PoolAssumption
    DEF PoolInv, TypeOK, Goto, poolVars, connVars, CountedPC, UncountedPC
<1>1. TypeOK' /\ Holding'
  BY DEF AcquireWait, Holding
<1>2. Exclusive'
  BY DEF AcquireWait, Holding, Exclusive
<1>3. NoLeak' /\ Counted'
  BY DEF AcquireWait, Holding, Exclusive, NoLeak, Counted
<1>4. CleanHeld' /\ OfferedClean'
  BY DEF AcquireWait, Holding, Exclusive, CleanHeld, OfferedClean
<1>5. CommittedOnce'
  BY DEF AcquireWait, CommittedOnce, IsProc
<1> QED
  BY <1>1, <1>2, <1>3, <1>4, <1>5

(* wait returns. *)
LEMMA WakeInv ==
  ASSUME PoolInv, NEW t \in Thread, Wake(t)
  PROVE  PoolInv'
<1> USE PoolAssumption
    DEF PoolInv, TypeOK, Goto, poolVars, connVars, CountedPC, UncountedPC
<1>1. TypeOK' /\ Holding'
  BY DEF Wake, Holding
<1>2. Exclusive'
  BY DEF Wake, Holding, Exclusive
<1>3. NoLeak' /\ Counted'
  BY DEF Wake, Holding, Exclusive, NoLeak, Counted
<1>4. CleanHeld' /\ OfferedClean'
  BY DEF Wake, Holding, Exclusive, CleanHeld, OfferedClean
<1>5. CommittedOnce'
  BY DEF Wake, CommittedOnce, IsProc
<1> QED
  BY <1>1, <1>2, <1>3, <1>4, <1>5

(* The popped connection is probed. *)
LEMMA ProbeInv ==
  ASSUME PoolInv, NEW t \in Thread, Probe(t)
  PROVE  PoolInv'
<1> USE PoolAssumption
    DEF PoolInv, TypeOK, Goto, poolVars, connVars, CountedPC, UncountedPC
<1>1. TypeOK' /\ Holding'
  BY DEF Probe, Usable, Holding
<1>2. Exclusive'
  BY DEF Probe, Usable, Holding, Exclusive
<1>3. NoLeak' /\ Counted'
  BY DEF Probe, Usable, Holding, Exclusive, NoLeak, Counted
<1>4. CleanHeld' /\ OfferedClean'
  BY DEF Probe, Usable, Holding, Exclusive, CleanHeld, OfferedClean
<1>5. CommittedOnce'
  BY DEF Probe, Usable, CommittedOnce, IsProc
<1> QED
  BY <1>1, <1>2, <1>3, <1>4, <1>5

(* A popped connection that is not usable is removed from in_use. *)
LEMMA DropInv ==
  ASSUME PoolInv, NEW t \in Thread, Drop(t)
  PROVE  PoolInv'
<1> USE PoolAssumption
    DEF PoolInv, TypeOK, Goto, poolVars, connVars, CountedPC, UncountedPC
<1>1. TypeOK' /\ Holding'
  BY DEF Drop, RemoveAndDiscard, Holding
<1>2. Exclusive'
  BY DEF Drop, RemoveAndDiscard, Holding, Exclusive
<1>3. NoLeak' /\ Counted'
  BY DEF Drop, RemoveAndDiscard, Holding, Exclusive, NoLeak, Counted
<1>4. CleanHeld' /\ OfferedClean'
  BY DEF Drop, RemoveAndDiscard, Holding, Exclusive, CleanHeld, OfferedClean
<1>5. CommittedOnce'
  BY DEF Drop, RemoveAndDiscard, CommittedOnce, IsProc
<1> QED
  BY <1>1, <1>2, <1>3, <1>4, <1>5

(* A dropped connection is closed. *)
LEMMA CloseDroppedInv ==
  ASSUME PoolInv, NEW t \in Thread, CloseDropped(t)
  PROVE  PoolInv'
<1> USE PoolAssumption
    DEF PoolInv, TypeOK, Goto, poolVars, connVars, CountedPC, UncountedPC
<1>1. TypeOK' /\ Holding'
  BY DEF CloseDropped, CloseConns, Settle, Holding
<1>2. Exclusive'
  BY DEF CloseDropped, CloseConns, Settle, Holding, Exclusive
<1>3. NoLeak' /\ Counted'
  BY DEF CloseDropped, CloseConns, Settle, Holding, Exclusive, NoLeak, Counted
<1>4. CleanHeld' /\ OfferedClean'
  BY DEF CloseDropped, CloseConns, Settle, Holding, Exclusive, CleanHeld, OfferedClean
<1>5. CommittedOnce'
  BY DEF CloseDropped, CloseConns, Settle, CommittedOnce, IsProc
<1> QED
  BY <1>1, <1>2, <1>3, <1>4, <1>5

(* _connect_new returns a connection nobody else refers to. *)
LEMMA ConnectOkInv ==
  ASSUME PoolInv, NEW t \in Thread, ConnectOk(t)
  PROVE  PoolInv'
<1> USE PoolAssumption
    DEF PoolInv, TypeOK, Goto, poolVars, connVars, CountedPC, UncountedPC
<1>1. TypeOK' /\ Holding'
  BY DEF ConnectOk, Holding
<1>2. Exclusive'
  BY DEF ConnectOk, Holding, Exclusive, OfferedClean
<1>3. NoLeak' /\ Counted'
  BY DEF ConnectOk, Holding, Exclusive, NoLeak, Counted
<1>4. CleanHeld' /\ OfferedClean'
  BY DEF ConnectOk, Holding, Exclusive, CleanHeld, OfferedClean
<1>5. CommittedOnce'
  BY DEF ConnectOk, CommittedOnce, IsProc
<1> QED
  BY <1>1, <1>2, <1>3, <1>4, <1>5

(* _connect_new raises. *)
LEMMA ConnectFailInv ==
  ASSUME PoolInv, NEW t \in Thread, ConnectFail(t)
  PROVE  PoolInv'
<1> USE PoolAssumption
    DEF PoolInv, TypeOK, Goto, poolVars, connVars, CountedPC, UncountedPC
<1>1. TypeOK' /\ Holding'
  BY DEF ConnectFail, Holding
<1>2. Exclusive'
  BY DEF ConnectFail, Holding, Exclusive
<1>3. NoLeak' /\ Counted'
  BY DEF ConnectFail, Holding, Exclusive, NoLeak, Counted
<1>4. CleanHeld' /\ OfferedClean'
  BY DEF ConnectFail, Holding, Exclusive, CleanHeld, OfferedClean
<1>5. CommittedOnce'
  BY DEF ConnectFail, CommittedOnce, IsProc
<1> QED
  BY <1>1, <1>2, <1>3, <1>4, <1>5

(* A new connection is entered in in_use. *)
LEMMA RegisterInv ==
  ASSUME PoolInv, NEW t \in Thread, Register(t)
  PROVE  PoolInv'
<1> USE PoolAssumption
    DEF PoolInv, TypeOK, Goto, poolVars, connVars, CountedPC, UncountedPC
<1>1. TypeOK' /\ Holding'
  BY DEF Register, Holding
<1>2. Exclusive'
  BY DEF Register, Holding, Exclusive
<1>3. NoLeak' /\ Counted'
  BY DEF Register, Holding, Exclusive, NoLeak, Counted
<1>4. CleanHeld' /\ OfferedClean'
  BY DEF Register, Holding, Exclusive, CleanHeld, OfferedClean
<1>5. CommittedOnce'
  BY DEF Register, CommittedOnce, IsProc
<1> QED
  BY <1>1, <1>2, <1>3, <1>4, <1>5

(* The body of connect() returns. *)
LEMMA UseOkInv ==
  ASSUME PoolInv, NEW t \in Thread, UseOk(t)
  PROVE  PoolInv'
<1> USE PoolAssumption
    DEF PoolInv, TypeOK, Goto, poolVars, connVars, CountedPC, UncountedPC
<1>1. TypeOK' /\ Holding'
  BY DEF UseOk, Settle, IsProc, IsRead, Holding
<1>2. Exclusive'
  BY DEF UseOk, Settle, IsProc, IsRead, Holding, Exclusive
<1>3. NoLeak' /\ Counted'
  BY DEF UseOk, Settle, IsProc, IsRead, Holding, Exclusive, NoLeak, Counted
<1>4. CleanHeld' /\ OfferedClean'
  BY DEF UseOk, Settle, IsProc, IsRead, Holding, Exclusive, CleanHeld, OfferedClean
<1>5. CommittedOnce'
  BY DEF UseOk, Settle, IsProc, IsRead, CommittedOnce
<1> QED
  BY <1>1, <1>2, <1>3, <1>4, <1>5

(* The body of connect() raises. *)
LEMMA UseFailInv ==
  ASSUME PoolInv, NEW t \in Thread, UseFail(t)
  PROVE  PoolInv'
<1> USE PoolAssumption
    DEF PoolInv, TypeOK, Goto, poolVars, connVars, CountedPC, UncountedPC
<1>1. TypeOK' /\ Holding'
  BY DEF UseFail, IsProc, Holding
<1>2. Exclusive'
  BY DEF UseFail, IsProc, Holding, Exclusive
<1>3. NoLeak' /\ Counted'
  BY DEF UseFail, IsProc, Holding, Exclusive, NoLeak, Counted
<1>4. CleanHeld' /\ OfferedClean'
  BY DEF UseFail, IsProc, Holding, Exclusive, CleanHeld, OfferedClean
<1>5. CommittedOnce'
  BY DEF UseFail, IsProc, CommittedOnce
<1> QED
  BY <1>1, <1>2, <1>3, <1>4, <1>5

(* The answer to a commit is lost. *)
LEMMA UseInDoubtInv ==
  ASSUME PoolInv, NEW t \in Thread, UseInDoubt(t)
  PROVE  PoolInv'
<1> USE PoolAssumption
    DEF PoolInv, TypeOK, Goto, poolVars, connVars, CountedPC, UncountedPC
<1>1. TypeOK' /\ Holding'
  BY DEF UseInDoubt, Settle, IsProc, Holding
<1>2. Exclusive'
  BY DEF UseInDoubt, Settle, IsProc, Holding, Exclusive
<1>3. NoLeak' /\ Counted'
  BY DEF UseInDoubt, Settle, IsProc, Holding, Exclusive, NoLeak, Counted
<1>4. CleanHeld' /\ OfferedClean'
  BY DEF UseInDoubt, Settle, IsProc, Holding, Exclusive, CleanHeld, OfferedClean
<1>5. CommittedOnce'
  BY DEF UseInDoubt, Settle, IsProc, CommittedOnce
<1> QED
  BY <1>1, <1>2, <1>3, <1>4, <1>5

(* _release_connection up to the lock: only a clean connection gets to     *)
(* put.                                                                    *)
LEMMA ReleasePooledInv ==
  ASSUME PoolInv, NEW t \in Thread, ReleasePooled(t)
  PROVE  PoolInv'
<1> USE PoolAssumption
    DEF PoolInv, TypeOK, Goto, poolVars, connVars, CountedPC, UncountedPC
<1>1. TypeOK' /\ Holding'
  BY DEF ReleasePooled, Rollback, Settle, Usable, Holding
<1>2. Exclusive'
  BY DEF ReleasePooled, Rollback, Settle, Usable, Holding, Exclusive
<1>3. NoLeak' /\ Counted'
  BY DEF ReleasePooled, Rollback, Settle, Usable, Holding, Exclusive, NoLeak, Counted
<1>4. CleanHeld' /\ OfferedClean'
  BY DEF ReleasePooled, Rollback, Settle, Usable, Holding, Exclusive, CleanHeld, OfferedClean
<1>5. CommittedOnce'
  BY DEF ReleasePooled, Rollback, Settle, Usable, CommittedOnce, IsProc
<1> QED
  BY <1>1, <1>2, <1>3, <1>4, <1>5

(* _release_connection closes a connection that is not pooled. *)
LEMMA ReleaseDirectInv ==
  ASSUME PoolInv, NEW t \in Thread, ReleaseDirect(t)
  PROVE  PoolInv'
<1> USE PoolAssumption
    DEF PoolInv, TypeOK, Goto, poolVars, connVars, CountedPC, UncountedPC
<1>1. TypeOK' /\ Holding'
  BY DEF ReleaseDirect, CloseConns, Settle, Holding
<1>2. Exclusive'
  BY DEF ReleaseDirect, CloseConns, Settle, Holding, Exclusive
<1>3. NoLeak' /\ Counted'
  BY DEF ReleaseDirect, CloseConns, Settle, Holding, Exclusive, NoLeak, Counted
<1>4. CleanHeld' /\ OfferedClean'
  BY DEF ReleaseDirect, CloseConns, Settle, Holding, Exclusive, CleanHeld, OfferedClean
<1>5. CommittedOnce'
  BY DEF ReleaseDirect, CloseConns, Settle, CommittedOnce, IsProc
<1> QED
  BY <1>1, <1>2, <1>3, <1>4, <1>5

(* _release_connection discards. *)
LEMMA DiscardInv ==
  ASSUME PoolInv, NEW t \in Thread, Discard(t)
  PROVE  PoolInv'
<1> USE PoolAssumption
    DEF PoolInv, TypeOK, Goto, poolVars, connVars, CountedPC, UncountedPC
<1>1. TypeOK' /\ Holding'
  BY DEF Discard, RemoveAndDiscard, Holding
<1>2. Exclusive'
  BY DEF Discard, RemoveAndDiscard, Holding, Exclusive
<1>3. NoLeak' /\ Counted'
  BY DEF Discard, RemoveAndDiscard, Holding, Exclusive, NoLeak, Counted
<1>4. CleanHeld' /\ OfferedClean'
  BY DEF Discard, RemoveAndDiscard, Holding, Exclusive, CleanHeld, OfferedClean
<1>5. CommittedOnce'
  BY DEF Discard, RemoveAndDiscard, CommittedOnce, IsProc
<1> QED
  BY <1>1, <1>2, <1>3, <1>4, <1>5

(* _release_connection returns an open and clean connection to available. *)
LEMMA PutInv ==
  ASSUME PoolInv, NEW t \in Thread, Put(t)
  PROVE  PoolInv'
<1> USE PoolAssumption
    DEF PoolInv, TypeOK, Goto, poolVars, connVars, CountedPC, UncountedPC
<1>1. TypeOK' /\ Holding'
  BY DEF Put, AutocommitOk, Holding
<1>2. Exclusive'
  BY DEF Put, AutocommitOk, Holding, Exclusive
<1>3. NoLeak' /\ Counted'
  BY DEF Put, AutocommitOk, Holding, Exclusive, NoLeak, Counted
<1>4. CleanHeld' /\ OfferedClean'
  BY DEF Put, AutocommitOk, Holding, Exclusive, CleanHeld, OfferedClean
<1>5. CommittedOnce'
  BY DEF Put, AutocommitOk, CommittedOnce, IsProc
<1> QED
  BY <1>1, <1>2, <1>3, <1>4, <1>5

(* _release_connection cannot return the connection. *)
LEMMA PutRefusedInv ==
  ASSUME PoolInv, NEW t \in Thread, PutRefused(t)
  PROVE  PoolInv'
<1> USE PoolAssumption
    DEF PoolInv, TypeOK, Goto, poolVars, connVars, CountedPC, UncountedPC
<1>1. TypeOK' /\ Holding'
  BY DEF PutRefused, RemoveAndDiscard, Holding
<1>2. Exclusive'
  BY DEF PutRefused, RemoveAndDiscard, Holding, Exclusive
<1>3. NoLeak' /\ Counted'
  BY DEF PutRefused, RemoveAndDiscard, Holding, Exclusive, NoLeak, Counted
<1>4. CleanHeld' /\ OfferedClean'
  BY DEF PutRefused, RemoveAndDiscard, Holding, Exclusive, CleanHeld, OfferedClean
<1>5. CommittedOnce'
  BY DEF PutRefused, RemoveAndDiscard, CommittedOnce, IsProc
<1> QED
  BY <1>1, <1>2, <1>3, <1>4, <1>5

(* _release_connection closes a discarded connection. *)
LEMMA CloseInv ==
  ASSUME PoolInv, NEW t \in Thread, Close(t)
  PROVE  PoolInv'
<1> USE PoolAssumption
    DEF PoolInv, TypeOK, Goto, poolVars, connVars, CountedPC, UncountedPC
<1>1. TypeOK' /\ Holding'
  BY DEF Close, CloseConns, Settle, Holding
<1>2. Exclusive'
  BY DEF Close, CloseConns, Settle, Holding, Exclusive
<1>3. NoLeak' /\ Counted'
  BY DEF Close, CloseConns, Settle, Holding, Exclusive, NoLeak, Counted
<1>4. CleanHeld' /\ OfferedClean'
  BY DEF Close, CloseConns, Settle, Holding, Exclusive, CleanHeld, OfferedClean
<1>5. CommittedOnce'
  BY DEF Close, CloseConns, Settle, CommittedOnce, IsProc
<1> QED
  BY <1>1, <1>2, <1>3, <1>4, <1>5

(* _run_read_operation tries a read again, never a procedure. *)
LEMMA RetryInv ==
  ASSUME PoolInv, NEW t \in Thread, Retry(t)
  PROVE  PoolInv'
<1> USE PoolAssumption
    DEF PoolInv, TypeOK, Goto, poolVars, connVars, CountedPC, UncountedPC
<1>1. TypeOK' /\ Holding'
  BY DEF Retry, Entry, CanRetry, IsProc, Holding
<1>2. Exclusive'
  BY DEF Retry, Entry, CanRetry, IsProc, Holding, Exclusive
<1>3. NoLeak' /\ Counted'
  BY DEF Retry, Entry, CanRetry, IsProc, Holding, Exclusive, NoLeak, Counted
<1>4. CleanHeld' /\ OfferedClean'
  BY DEF Retry, Entry, CanRetry, IsProc, Holding, Exclusive, CleanHeld, OfferedClean
<1>5. CommittedOnce'
  BY DEF Retry, Entry, CanRetry, IsProc, CommittedOnce
<1> QED
  BY <1>1, <1>2, <1>3, <1>4, <1>5

(* A job ends. *)
LEMMA FinishInv ==
  ASSUME PoolInv, NEW t \in Thread, Finish(t)
  PROVE  PoolInv'
<1> USE PoolAssumption
    DEF PoolInv, TypeOK, Goto, poolVars, connVars, CountedPC, UncountedPC
<1>1. TypeOK' /\ Holding'
  BY DEF Finish, CanRetry, IsProc, Holding, AllKinds
<1>2. Exclusive'
  BY DEF Finish, CanRetry, IsProc, Holding, Exclusive
<1>3. NoLeak' /\ Counted'
  BY DEF Finish, CanRetry, IsProc, Holding, Exclusive, NoLeak, Counted
<1>4. CleanHeld' /\ OfferedClean'
  BY DEF Finish, CanRetry, IsProc, Holding, Exclusive, CleanHeld, OfferedClean
<1>5. CommittedOnce'
  BY DEF Finish, CanRetry, IsProc, CommittedOnce
<1> QED
  BY <1>1, <1>2, <1>3, <1>4, <1>5

(* close_all_pools closes and clears everything the pool counts. *)
LEMMA CloseAllPoolsInv ==
  ASSUME PoolInv, CloseAllPools
  PROVE  PoolInv'
<1> USE PoolAssumption
    DEF PoolInv, TypeOK, CountedPC, UncountedPC, CloseAllPools, CloseConns, Settle
<1>1. TypeOK' /\ Holding'
  BY DEF Holding
<1>2. Exclusive'
  BY DEF Exclusive
<1>3. NoLeak' /\ Counted'
  BY DEF Holding, Exclusive, NoLeak, Counted
<1>4. CleanHeld' /\ OfferedClean'
  BY DEF CleanHeld, OfferedClean
<1>5. CommittedOnce'
  BY DEF CommittedOnce
<1> QED
  BY <1>1, <1>2, <1>3, <1>4, <1>5

(* A step that changes nothing. *)
LEMMA StutterInv ==
  ASSUME PoolInv, UNCHANGED vars
  PROVE  PoolInv'
  BY DEF vars, poolVars, connVars, PoolInv, TypeOK, Holding, Exclusive, NoLeak,
         Counted, CleanHeld, OfferedClean, CommittedOnce, Creators

(* Every step of the connection manager preserves PoolInv. *)
LEMMA NextInv == PoolInv /\ [Next]_vars => PoolInv'
<1> SUFFICES ASSUME PoolInv, [Next]_vars PROVE PoolInv'
  OBVIOUS
<1>1. ASSUME NEW t \in Thread, Step(t) PROVE PoolInv'
  BY <1>1, AcquireIdleInv, AcquireNewInv, AcquireTimeoutInv, AcquireWaitInv,
         WakeInv, ProbeInv, DropInv, CloseDroppedInv,
         ConnectOkInv, ConnectFailInv, RegisterInv, UseOkInv,
         UseFailInv, UseInDoubtInv, ReleasePooledInv, ReleaseDirectInv,
         DiscardInv, PutInv, PutRefusedInv, CloseInv,
         RetryInv, FinishInv DEF Step
<1>2. CASE Done
  BY <1>2, StutterInv DEF Done
<1> QED
  BY <1>1, <1>2, BeginInv, ExpireInv, CloseAllPoolsInv, StutterInv DEF Next

-----------------------------------------------------------------------------
(* The theorems *)

(* The inductive invariant holds in every reachable state. *)
THEOREM Invariance == Spec => []PoolInv
  BY InitInv, NextInv, PTL DEF Spec

(* Type correctness of the connection manager. *)
THEOREM TypeCorrect == Spec => []TypeOK
<1>1. PoolInv => TypeOK
  BY DEF PoolInv
<1> QED
  BY <1>1, Invariance, PTL

(* _acquire_connection and _release_connection never give a connection to  *)
(* two borrowers, nor keep offering one that is borrowed.                  *)
THEOREM MutualExclusion == Spec => []Exclusive
<1>1. PoolInv => Exclusive
  BY DEF PoolInv
<1> QED
  BY <1>1, Invariance, PTL

(* The pool never offers a closed connection or one with the uncommitted   *)
(* work of a failed procedure.                                             *)
THEOREM OffersOnlyClean == Spec => []OfferedClean
<1>1. PoolInv => OfferedClean
  BY DEF PoolInv
<1> QED
  BY <1>1, Invariance, PTL

(* No connection is lost: what is open is offered or held, what is in      *)
(* in_use has a holder that will release it.                               *)
THEOREM LeakFreedom == Spec => []NoLeak
<1>1. PoolInv => NoLeak
  BY DEF PoolInv
<1> QED
  BY <1>1, Invariance, PTL

(* A job of execute_proc commits at most once. *)
THEOREM AtMostOnce == Spec => []ProcAtMostOnce
<1>1. PoolInv => ProcAtMostOnce
  BY DEF PoolInv, CommittedOnce, ProcAtMostOnce
<1> QED
  BY <1>1, Invariance, PTL

-----------------------------------------------------------------------------
(* The size of the pool, the counters, the condition and the lock *)

(* An element more, an element less. *)
LEMMA OneMore ==
  ASSUME NEW S, IsFiniteSet(S), NEW x, x \notin S
  PROVE  Cardinality(S \cup {x}) = Cardinality(S) + 1
BY FS_AddElement

LEMMA OneLess ==
  ASSUME NEW S, IsFiniteSet(S), NEW x \in S
  PROVE  Cardinality(S \ {x}) = Cardinality(S) - 1
BY FS_RemoveElement

(* The pool's sets are finite and disjoint, and an entry of in_use is held *)
(* by a thread that is not about to create a connection.                   *)
LEMMA PoolSets ==
  ASSUME PoolInv
  PROVE  /\ IsFiniteSet(available) /\ IsFiniteSet(in_use)
         /\ IsFiniteSet(Creators)
         /\ Cardinality(available) \in Nat /\ Cardinality(in_use) \in Nat
         /\ Cardinality(Creators) \in Nat /\ Cardinality(Thread) \in Nat
         /\ available \cap in_use = {}
<1> USE PoolAssumption DEF PoolInv, TypeOK
<1>1. IsFiniteSet(available) /\ IsFiniteSet(in_use)
  BY FS_Subset
<1>2. Creators \in SUBSET Thread
  BY DEF Creators
<1>3. IsFiniteSet(Creators)
  BY <1>2, FS_Subset
<1>4. available \cap in_use = {}
  BY DEF Exclusive, NoLeak
<1> QED
  BY <1>1, <1>3, <1>4, FS_CardinalityType

(* in_use entries have distinct holders, none of which is a creator. *)
LEMMA InUseAndCreators ==
  ASSUME PoolInv, NEW S \in SUBSET Thread,
         \A t \in S : ~(pc[t] \in CountedPC)
  PROVE  Cardinality(in_use) + Cardinality(S) <= Cardinality(Thread)
<1> USE PoolAssumption
<1> DEFINE Holders == {t \in Thread : pc[t] \in CountedPC}
           f == [c \in in_use |-> CHOOSE t \in Thread :
                                     held[t] = c /\ pc[t] \in CountedPC]
<1>1. \A c \in in_use : f[c] \in Holders /\ held[f[c]] = c
  BY DEF PoolInv, NoLeak
<1>2. f \in Injection(in_use, Holders)
  BY <1>1 DEF Injection, IsInjective
<1>3. IsFiniteSet(Holders) /\ IsFiniteSet(S) /\ IsFiniteSet(Holders \cup S)
      /\ Cardinality(Holders \cup S) <= Cardinality(Thread)
  BY FS_Subset
<1>4. Cardinality(in_use) <= Cardinality(Holders)
  BY <1>2, <1>3, FS_Injection
<1>5. Cardinality(Holders \cup S) = Cardinality(Holders) + Cardinality(S)
  <2>1. Holders \cap S = {}
    OBVIOUS
  <2>2. Cardinality(Holders \cap S) = 0
    BY <2>1, FS_EmptySet
  <2>3. Cardinality(Holders \cup S) =
          Cardinality(Holders) + Cardinality(S) - Cardinality(Holders \cap S)
    BY <1>3, FS_Union
  <2> QED
    BY <1>3, <2>2, <2>3, FS_CardinalityType
<1> QED
  BY <1>3, <1>4, <1>5, PoolSets, FS_CardinalityType

(* The lock: taken by a health check when it begins or wakes up, given up  *)
(* when it waits or finishes.                                              *)
LEMMA LockStep ==
  ASSUME PoolInv, LockDiscipline, Next
  PROVE  LockDiscipline'
<1> USE PoolAssumption
    DEF PoolInv, TypeOK, LockDiscipline, Goto, poolVars, connVars
<1>1. ASSUME NEW t \in Thread, NEW k \in KindsOf[t], Begin(t, k)
      PROVE  LockDiscipline'
  BY <1>1 DEF Begin, Entry
<1>2. ASSUME NEW t \in Thread, Expire(t) PROVE LockDiscipline'
  BY <1>2 DEF Expire
<1>3. ASSUME NEW t \in Thread,
             AcquireIdle(t) \/ AcquireNew(t) \/ AcquireTimeout(t)
      PROVE  LockDiscipline'
  BY <1>3 DEF AcquireIdle, AcquireNew, AcquireTimeout
<1>4. ASSUME NEW t \in Thread, AcquireWait(t) \/ Wake(t)
      PROVE  LockDiscipline'
  BY <1>4 DEF AcquireWait, Wake
<1>5. ASSUME NEW t \in Thread, Probe(t) \/ Drop(t) \/ CloseDropped(t)
      PROVE  LockDiscipline'
  BY <1>5 DEF Probe, Drop, CloseDropped
<1>6. ASSUME NEW t \in Thread, ConnectOk(t) \/ ConnectFail(t) \/ Register(t)
      PROVE  LockDiscipline'
  BY <1>6 DEF ConnectOk, ConnectFail, Register
<1>7. ASSUME NEW t \in Thread, UseOk(t) \/ UseFail(t) \/ UseInDoubt(t)
      PROVE  LockDiscipline'
  BY <1>7 DEF UseOk, UseFail, UseInDoubt
<1>8. ASSUME NEW t \in Thread,
             ReleasePooled(t) \/ ReleaseDirect(t) \/ Discard(t)
      PROVE  LockDiscipline'
  BY <1>8 DEF ReleasePooled, ReleaseDirect, Discard
<1>9. ASSUME NEW t \in Thread, Put(t) \/ PutRefused(t) \/ Close(t)
      PROVE  LockDiscipline'
  BY <1>9 DEF Put, PutRefused, Close
<1>10. ASSUME NEW t \in Thread, Retry(t) \/ Finish(t)
       PROVE  LockDiscipline'
  BY <1>10 DEF Retry, Finish, Entry
<1>11. CASE CloseAllPools
  BY <1>11 DEF CloseAllPools
<1>12. CASE Done
  BY <1>12 DEF Done, vars
<1> QED
  BY <1>1, <1>2, <1>3, <1>4, <1>5, <1>6, <1>7, <1>8, <1>9, <1>10, <1>11,
     <1>12 DEF Next, Step

(* A step that leaves the pool alone and adds no creator. *)
LEMMA QuietCount ==
  ASSUME PoolInv, PoolInv', CountInv, UNCHANGED <<poolVars, shutdown>>,
         Creators' \subseteq Creators,
         \A t \in waiters : pc'[t] = "waiting"
  PROVE  OvershootBounded' /\ Accounting' /\ NoLostWakeup'
<1>1. IsFiniteSet(Creators') /\ Cardinality(Creators') <= Cardinality(Creators)
  BY PoolSets, FS_Subset
<1>2. Cardinality(Creators') \in Nat
  BY <1>1, FS_CardinalityType
<1> QED
  BY <1>1, <1>2, PoolSets
     DEF CountInv, OvershootBounded, Accounting, NoLostWakeup, Full,
         pool_size, pool_cap, poolVars

(* A connection is removed from in_use and counted as discarded. *)
LEMMA DiscardCount ==
  ASSUME PoolInv, PoolInv', CountInv, NEW t \in Thread,
         pc[t] \in {"drop", "discard", "put"}, RemoveAndDiscard(held[t]),
         UNCHANGED <<available, created, shutdown>>, Creators' = Creators
  PROVE  OvershootBounded' /\ Accounting' /\ NoLostWakeup'
<1>1. ~shutdown => held[t] \in in_use
  BY DEF PoolInv, Holding, Counted, CountedPC
<1>2. Cardinality(in_use') =
        IF held[t] \in in_use THEN Cardinality(in_use) - 1
                              ELSE Cardinality(in_use)
  BY PoolSets, FS_RemoveElement DEF RemoveAndDiscard
<1>3. created \in Nat /\ discarded \in Nat
  BY DEF PoolInv, TypeOK
<1> QED
  BY <1>1, <1>2, <1>3, PoolSets
     DEF CountInv, OvershootBounded, Accounting, NoLostWakeup,
         pool_size, pool_cap, RemoveAndDiscard

(* Every step keeps the size of the pool and its counters in order: a step *)
(* of the pool moves one connection, a step outside it moves none.         *)
LEMMA CountStep ==
  ASSUME PoolInv, PoolInv', CountInv, Next
  PROVE  CountInv'
<1> DEFINE Goal == OvershootBounded' /\ Accounting' /\ NoLostWakeup'
<1> USE PoolAssumption DEF PoolInv, TypeOK, Goto
<1>1. ASSUME NEW t \in Thread, NEW k \in KindsOf[t], Begin(t, k) PROVE Goal
  <2>1. Creators' \subseteq Creators /\ \A u \in waiters : pc'[u] = "waiting"
    BY <1>1 DEF Begin, Creators, Entry, CountInv, NoLostWakeup
  <2> QED
    BY <1>1, <2>1, QuietCount DEF Begin
<1>2. ASSUME NEW t \in Thread, Expire(t) \/ Retry(t) \/ Finish(t) PROVE Goal
  <2>1. Creators' \subseteq Creators /\ \A u \in waiters : pc'[u] = "waiting"
    BY <1>2 DEF Expire, Retry, Finish, Creators, Entry, CountInv, NoLostWakeup
  <2> QED
    BY <1>2, <2>1, QuietCount DEF Expire, Retry, Finish, poolVars
<1>3. ASSUME NEW t \in Thread, AcquireTimeout(t) \/ Probe(t) \/ CloseDropped(t)
                               \/ ConnectOk(t) \/ ConnectFail(t)
      PROVE  Goal
  <2>1. Creators' \subseteq Creators /\ \A u \in waiters : pc'[u] = "waiting"
    BY <1>3 DEF AcquireTimeout, Probe, CloseDropped, ConnectOk, ConnectFail,
                Creators, CountInv, NoLostWakeup
  <2> QED
    BY <1>3, <2>1, QuietCount
       DEF AcquireTimeout, Probe, CloseDropped, ConnectOk, ConnectFail, poolVars
<1>4. ASSUME NEW t \in Thread, UseOk(t) \/ UseFail(t) \/ UseInDoubt(t)
                               \/ ReleasePooled(t) \/ ReleaseDirect(t) \/ Close(t)
      PROVE  Goal
  <2>1. Creators' \subseteq Creators /\ \A u \in waiters : pc'[u] = "waiting"
    BY <1>4 DEF UseOk, UseFail, UseInDoubt, ReleasePooled, ReleaseDirect, Close,
                Creators, CountInv, NoLostWakeup
  <2> QED
    BY <1>4, <2>1, QuietCount
       DEF UseOk, UseFail, UseInDoubt, ReleasePooled, ReleaseDirect, Close,
           poolVars
<1>5. ASSUME NEW t \in Thread, Drop(t) \/ Discard(t) \/ PutRefused(t) PROVE Goal
  <2>1. Creators' = Creators
    BY <1>5 DEF Drop, Discard, PutRefused, Creators
  <2> QED
    BY <1>5, <2>1, DiscardCount DEF Drop, Discard, PutRefused
<1>6. ASSUME NEW t \in Thread, AcquireIdle(t) PROVE Goal
  <2>1. PICK c \in available : /\ available' = available \ {c}
                               /\ in_use' = in_use \cup {c}
    BY <1>6 DEF AcquireIdle
  <2>2. /\ Cardinality(available') = Cardinality(available) - 1
        /\ Cardinality(in_use') = Cardinality(in_use) + 1
    BY <2>1, PoolSets, FS_AddElement, FS_RemoveElement
  <2>3. Creators' = Creators /\ waiters = {} /\ UNCHANGED <<created, discarded,
          waiters, shutdown>>
    BY <1>6 DEF AcquireIdle, Creators, CountInv, NoLostWakeup, Full
  <2> QED
    BY <2>2, <2>3, PoolSets
       DEF CountInv, OvershootBounded, Accounting, NoLostWakeup, pool_size,
           pool_cap
<1>7. ASSUME NEW t \in Thread, AcquireNew(t) PROVE Goal
  (* Nothing is idle, and the threads that hold the connections in use are *)
  (* not among the creators.                                               *)
  <2>1. /\ UNCHANGED <<available, in_use, created, discarded, waiters, shutdown>>
        /\ available = {}
        /\ Creators' = Creators \cup {t}
    BY <1>7 DEF AcquireNew, poolVars, Creators, Holding
  <2>2. /\ Creators' \in SUBSET Thread
        /\ \A u \in Creators' : ~(pc[u] \in CountedPC)
    BY <1>7, <2>1 DEF Creators, CountedPC, AcquireNew
  <2>3. Cardinality(in_use) + Cardinality(Creators') <= Cardinality(Thread)
    BY <2>2, InUseAndCreators
  <2>4. waiters = {}
    BY <1>7, PoolSets
       DEF AcquireNew, CountInv, NoLostWakeup, Full, pool_size, pool_cap
  <2>5. Cardinality(Creators') \in Nat
    BY <2>1, PoolSets, FS_AddElement, FS_CardinalityType
  <2> QED
    BY <2>1, <2>3, <2>4, <2>5, PoolSets, FS_EmptySet
       DEF CountInv, OvershootBounded, Accounting, NoLostWakeup, pool_size,
           pool_cap
<1>8. ASSUME NEW t \in Thread, AcquireWait(t) \/ Wake(t) PROVE Goal
  <2>1. /\ UNCHANGED <<available, in_use, created, discarded, shutdown>>
        /\ Creators' = Creators
    BY <1>8 DEF AcquireWait, Wake, Creators
  <2>2. NoLostWakeup'
    BY <1>8, <2>1
       DEF AcquireWait, Wake, CountInv, NoLostWakeup, Full, pool_size, pool_cap
  <2> QED
    BY <2>1, <2>2
       DEF CountInv, OvershootBounded, Accounting, pool_size, pool_cap
<1>9. ASSUME NEW t \in Thread, Register(t) PROVE Goal
  <2>1. held[t] \notin in_use /\ in_use' = in_use \cup {held[t]}
    BY <1>9 DEF Register, Exclusive, NoLeak, CountedPC, Holding, UncountedPC
  <2>2. Cardinality(in_use') = Cardinality(in_use) + 1
    BY <2>1, PoolSets, FS_AddElement
  <2>3. t \in Creators /\ Creators' = Creators \ {t}
    BY <1>9 DEF Register, Creators, Holding
  <2>4. Cardinality(Creators') = Cardinality(Creators) - 1
    BY <2>3, PoolSets, FS_RemoveElement
  <2>5. \A u \in waiters : pc'[u] = "waiting"
    BY <1>9 DEF Register, CountInv, NoLostWakeup
  <2>6. /\ UNCHANGED <<available, discarded, waiters, shutdown>>
        /\ created' = created + 1
    BY <1>9 DEF Register
  <2>7. OvershootBounded' /\ Accounting'
    BY <2>2, <2>4, <2>6, PoolSets
       DEF CountInv, OvershootBounded, Accounting, pool_size, pool_cap
  <2>8. NoLostWakeup'
    BY <2>2, <2>5, <2>6, PoolSets
       DEF CountInv, NoLostWakeup, Full, pool_size, pool_cap
  <2> QED
    BY <2>7, <2>8
<1>10. ASSUME NEW t \in Thread, Put(t) PROVE Goal
  (* A connection that is put back is open, hence counted in in_use. *)
  <2>1. held[t] \in in_use /\ held[t] \notin available
    BY <1>10 DEF Put, AutocommitOk, Counted, CountedPC, Holding, Exclusive
  <2>2. /\ Cardinality(in_use') = Cardinality(in_use) - 1
        /\ Cardinality(available') = Cardinality(available) + 1
    <3>1. in_use' = in_use \ {held[t]} /\ available' = available \cup {held[t]}
      BY <1>10 DEF Put
    <3>2. Cardinality(in_use \ {held[t]}) = Cardinality(in_use) - 1
      BY <2>1, PoolSets, OneLess
    <3>3. Cardinality(available \cup {held[t]}) = Cardinality(available) + 1
      BY <2>1, PoolSets, OneMore
    <3> QED
      BY <3>1, <3>2, <3>3
  <2>3. Creators' = Creators
    BY <1>10 DEF Put, Creators
  <2> QED
    BY <1>10, <2>2, <2>3, PoolSets
       DEF Put, CountInv, OvershootBounded, Accounting, NoLostWakeup,
           pool_size, pool_cap
<1>11. ASSUME CloseAllPools PROVE Goal
  <2>1. Cardinality(available') = 0 /\ Cardinality(in_use') = 0
    BY <1>11, FS_EmptySet DEF CloseAllPools
  <2>2. Creators' = Creators
    BY <1>11 DEF CloseAllPools, Creators
  <2> QED
    BY <1>11, <2>1, <2>2, PoolSets
       DEF CloseAllPools, CountInv, OvershootBounded, Accounting, NoLostWakeup,
           pool_size, pool_cap
<1>12. ASSUME Done PROVE Goal
  <2>1. Creators' \subseteq Creators /\ \A u \in waiters : pc'[u] = "waiting"
    BY <1>12 DEF Done, vars, Creators, CountInv, NoLostWakeup
  <2> QED
    BY <1>12, <2>1, QuietCount DEF Done, vars, poolVars
<1>13. Goal
  BY <1>1, <1>2, <1>3, <1>4, <1>5, <1>6, <1>7, <1>8, <1>9, <1>10, <1>11,
     <1>12 DEF Next, Step
<1>14. LockDiscipline'
  BY LockStep DEF CountInv
<1> QED
  BY <1>13, <1>14 DEF CountInv

(* The counting part of the invariant holds in every reachable state. *)
THEOREM CountInvariance == Spec => []CountInv
<1>1. Init => CountInv
  <2> SUFFICES ASSUME Init PROVE CountInv
    OBVIOUS
  <2>1. Creators = {}
    BY DEF Init, Creators
  <2>2. Cardinality(Thread) \in Nat /\ Cardinality({}) = 0
    BY PoolAssumption, FS_EmptySet, FS_CardinalityType
  <2> QED
    BY <2>1, <2>2, PoolAssumption
       DEF Init, CountInv, OvershootBounded, Accounting, NoLostWakeup,
           LockDiscipline, pool_size, pool_cap
<1>2. PoolInv /\ PoolInv' /\ CountInv /\ [Next]_vars => CountInv'
  <2>1. ASSUME PoolInv, PoolInv', CountInv, UNCHANGED vars PROVE CountInv'
    BY <2>1 DEF vars, poolVars, CountInv, OvershootBounded, Accounting,
                NoLostWakeup, LockDiscipline, Full, pool_size, Creators
  <2> QED
    BY <2>1, CountStep
<1> QED
  BY <1>1, <1>2, Invariance, PTL DEF Spec

(* pool_size stays within the number of threads, and the idle connections  *)
(* within pool_max, although a new connection is created outside the lock. *)
THEOREM BoundedOvershoot == Spec => []OvershootBounded
<1>1. CountInv => OvershootBounded
  BY DEF CountInv
<1> QED
  BY <1>1, CountInvariance, PTL

(* Whoever sleeps in wait without having been notified has nothing to wake *)
(* up for.                                                                 *)
THEOREM WakeupsNotLost == Spec => []NoLostWakeup
<1>1. CountInv => NoLostWakeup
  BY DEF CountInv
<1> QED
  BY <1>1, CountInvariance, PTL

(* Until close_all_pools, created_total is pool_size + discarded_total. *)
THEOREM CountersAddUp == Spec => []Accounting
<1>1. CountInv => Accounting
  BY DEF CountInv
<1> QED
  BY <1>1, CountInvariance, PTL

(* Only a health check keeps the lock across steps, and it never sleeps    *)
(* with it: the borrowers can give their connections back.                 *)
THEOREM NobodySleepsWithTheLock == Spec => []LockDiscipline
<1>1. CountInv => LockDiscipline
  BY DEF CountInv
<1> QED
  BY <1>1, CountInvariance, PTL

-----------------------------------------------------------------------------
(* Refinement: the connection manager implements the lease of              *)
(* ConnectionLease.                                                        *)

(* The owners, for a given way to hold connections and to offer them *)
Owners(h, avail) ==
  [c \in Conn |-> CASE \E t \in Thread : h[t] = c -> CHOOSE t \in Thread : h[t] = c
                    [] ~(\E t \in Thread : h[t] = c) /\ c \in avail -> "pool"
                    [] OTHER -> "gone"]

(* The owner of a connection under the refinement mapping: with exclusive  *)
(* borrowers there is no choice.                                           *)
LEMMA OwnerOf ==
  ASSUME NEW h, NEW avail, NEW c \in Conn,
         \A t \in Thread : h[t] # NoConn =>
           h[t] \notin avail /\ \A u \in Thread \ {t} : h[u] # h[t]
  PROVE  /\ \A t \in Thread : Owners(h, avail)[c] = t <=> h[t] = c
         /\ Owners(h, avail)[c] = "pool" <=> c \in avail
         /\ Owners(h, avail)[c] \in Thread \cup {"pool", "gone"}
<1> USE PoolAssumption DEF Owners
<1>1. CASE \E t \in Thread : h[t] = c
  <2>1. PICK t \in Thread : h[t] = c
    BY <1>1
  <2>2. Owners(h, avail)[c] = t
    BY <2>1
  <2>3. t # "pool" /\ c \notin avail
    BY <2>1
  <2> QED
    BY <2>1, <2>2, <2>3
<1>2. CASE ~\E t \in Thread : h[t] = c
  BY <1>2
<1> QED
  BY <1>1, <1>2

(* The same of leaseOwner, before and after a step. *)
LEMMA OwnerNow ==
  ASSUME PoolInv
  PROVE  /\ leaseOwner = [c \in Conn |-> leaseOwner[c]]
         /\ \A c \in Conn :
              /\ \A t \in Thread : leaseOwner[c] = t <=> held[t] = c
              /\ leaseOwner[c] = "pool" <=> c \in available
              /\ leaseOwner[c] \in Thread \cup {"pool", "gone"}
<1>1. leaseOwner = Owners(held, available)
  BY DEF leaseOwner, Owners
<1>2. \A t \in Thread : held[t] # NoConn =>
        held[t] \notin available /\ \A u \in Thread \ {t} : held[u] # held[t]
  BY DEF PoolInv, Exclusive
<1>3. leaseOwner = [c \in Conn |-> leaseOwner[c]]
  BY DEF leaseOwner
<1>4. ASSUME NEW c \in Conn
      PROVE  /\ \A t \in Thread : leaseOwner[c] = t <=> held[t] = c
             /\ leaseOwner[c] = "pool" <=> c \in available
             /\ leaseOwner[c] \in Thread \cup {"pool", "gone"}
  BY <1>1, <1>2, OwnerOf
<1> QED
  BY <1>3, <1>4

LEMMA OwnerNext ==
  ASSUME PoolInv'
  PROVE  /\ leaseOwner' = [c \in Conn |-> leaseOwner'[c]]
         /\ \A c \in Conn :
              /\ \A t \in Thread : leaseOwner'[c] = t <=> held'[t] = c
              /\ leaseOwner'[c] = "pool" <=> c \in available'
              /\ leaseOwner'[c] \in Thread \cup {"pool", "gone"}
<1>1. leaseOwner' = Owners(held', available')
  BY DEF leaseOwner, Owners
<1>2. \A t \in Thread : held'[t] # NoConn =>
        held'[t] \notin available' /\ \A u \in Thread \ {t} : held'[u] # held'[t]
  BY DEF PoolInv, Exclusive
<1>3. leaseOwner' = [c \in Conn |-> leaseOwner'[c]]
  BY DEF leaseOwner
<1>4. ASSUME NEW c \in Conn
      PROVE  /\ \A t \in Thread : leaseOwner'[c] = t <=> held'[t] = c
             /\ leaseOwner'[c] = "pool" <=> c \in available'
             /\ leaseOwner'[c] \in Thread \cup {"pool", "gone"}
  BY <1>1, <1>2, OwnerOf
<1> QED
  BY <1>3, <1>4

(* A step that leaves connections, borrowers and idle connections alone is *)
(* no step of the lease.                                                   *)
LEMMA LeaseStutters ==
  ASSUME UNCHANGED <<available, held, open, dirty>>
  PROVE  UNCHANGED Lease!vars
BY DEF Lease!vars, leaseOwner, leaseFit

(* A connection changes hands, or state, alone: when the borrowers and the *)
(* idle connections differ in c only, and so does fitness.                 *)
LEMMA OwnerMoves ==
  ASSUME PoolInv, PoolInv', NEW c \in Conn, NEW o \in Thread \cup {"pool", "gone"},
         \A d \in Conn \ {c}, t \in Thread : held'[t] = d <=> held[t] = d,
         \A d \in Conn \ {c} : d \in available' <=> d \in available,
         o = "pool" <=> c \in available',
         \A t \in Thread : o = t <=> held'[t] = c
  PROVE  leaseOwner' = [leaseOwner EXCEPT ![c] = o]
<1> USE PoolAssumption
<1> HIDE DEF leaseOwner
<1>1. leaseOwner'[c] = o
  BY OwnerNext
<1>2. ASSUME NEW d \in Conn \ {c} PROVE leaseOwner'[d] = leaseOwner[d]
  <2>1. \A t \in Thread : leaseOwner'[d] = t <=> leaseOwner[d] = t
    BY OwnerNow, OwnerNext
  <2>2. leaseOwner'[d] = "pool" <=> leaseOwner[d] = "pool"
    BY OwnerNow, OwnerNext
  <2>3. /\ leaseOwner[d] \in Thread \cup {"pool", "gone"}
        /\ leaseOwner'[d] \in Thread \cup {"pool", "gone"}
    BY OwnerNow, OwnerNext
  <2> QED
    BY <2>1, <2>2, <2>3
<1>3. /\ leaseOwner' = [d \in Conn |-> leaseOwner'[d]]
      /\ leaseOwner = [d \in Conn |-> leaseOwner[d]]
  BY OwnerNow, OwnerNext
<1>4. [leaseOwner EXCEPT ![c] = o] = [d \in Conn |-> IF d = c THEN o ELSE leaseOwner[d]]
  BY <1>3
<1> QED
  BY <1>1, <1>2, <1>3, <1>4

(* Fitness is a truth value. *)
LEMMA FitIs ==
  /\ leaseFit = [d \in Conn |-> leaseFit[d]]
  /\ \A d \in Conn : leaseFit[d] \in BOOLEAN /\ (leaseFit[d] <=> d \in open \ dirty)
<1>1. leaseFit = [d \in Conn |-> leaseFit[d]]
  BY DEF leaseFit
<1>2. ASSUME NEW d \in Conn
      PROVE  leaseFit[d] \in BOOLEAN
  <2>1. CASE d \in open \ dirty
    BY <2>1 DEF leaseFit
  <2>2. CASE ~(d \in open \ dirty)
    BY <2>2 DEF leaseFit
  <2> QED
    BY <2>1, <2>2
<1>3. ASSUME NEW d \in Conn
      PROVE  leaseFit[d] <=> d \in open \ dirty
  BY DEF leaseFit
<1> QED
  BY <1>1, <1>2, <1>3

LEMMA FitWillBe ==
  /\ leaseFit' = [d \in Conn |-> leaseFit'[d]]
  /\ \A d \in Conn : leaseFit'[d] \in BOOLEAN /\ (leaseFit'[d] <=> d \in open' \ dirty')
<1>1. leaseFit' = [d \in Conn |-> leaseFit'[d]]
  BY DEF leaseFit
<1>2. ASSUME NEW d \in Conn
      PROVE  leaseFit'[d] \in BOOLEAN
  <2>1. CASE d \in open' \ dirty'
    BY <2>1 DEF leaseFit
  <2>2. CASE ~(d \in open' \ dirty')
    BY <2>2 DEF leaseFit
  <2> QED
    BY <2>1, <2>2
<1>3. ASSUME NEW d \in Conn
      PROVE  leaseFit'[d] <=> d \in open' \ dirty'
  BY DEF leaseFit
<1> QED
  BY <1>1, <1>2, <1>3

LEMMA FitMoves ==
  ASSUME NEW c \in Conn, NEW b \in BOOLEAN, b <=> c \in open' \ dirty',
         \A d \in Conn \ {c} : d \in open' \ dirty' <=> d \in open \ dirty
  PROVE  leaseFit' = [leaseFit EXCEPT ![c] = b]
<1>1. leaseFit'[c] = b
  BY FitWillBe
<1>2. ASSUME NEW d \in Conn \ {c} PROVE leaseFit'[d] = leaseFit[d]
  BY FitIs, FitWillBe
<1>3. [leaseFit EXCEPT ![c] = b] = [d \in Conn |-> IF d = c THEN b ELSE leaseFit[d]]
  BY FitIs
<1> QED
  BY <1>1, <1>2, <1>3, FitWillBe

(* The steps of a thread that are steps of the lease *)

LEMMA LeaseAcquireIdle ==
  ASSUME PoolInv, PoolInv', NEW t \in Thread, AcquireIdle(t)
  PROVE  Lease!Next
<1> USE PoolAssumption
<1>1. PICK c \in available : /\ available' = available \ {c}
                             /\ held' = [held EXCEPT ![t] = c]
  BY DEF AcquireIdle
<1>2. c \in Conn /\ held[t] = NoConn /\ held \in [Thread -> Conn \cup {NoConn}]
  BY <1>1 DEF AcquireIdle, PoolInv, TypeOK, Holding, CountedPC, UncountedPC
<1>3. leaseOwner' = [leaseOwner EXCEPT ![c] = t]
  <2>1. \A u \in Thread : held[u] # c
    BY <1>1, <1>2 DEF PoolInv, Exclusive
  <2> QED
    BY <1>1, <1>2, <2>1, OwnerMoves
<1>4. leaseOwner[c] = "pool" /\ \A d \in Conn : leaseOwner[d] # t
  BY <1>1, <1>2, OwnerNow
<1>5. leaseFit' = leaseFit
  BY DEF AcquireIdle, connVars, leaseFit
<1> QED
  BY <1>2, <1>3, <1>4, <1>5 DEF Lease!Next, Lease!Lend, Lease!Idle

LEMMA LeaseConnectOk ==
  ASSUME PoolInv, PoolInv', NEW t \in Thread, ConnectOk(t)
  PROVE  Lease!Next
<1> USE PoolAssumption
<1>1. PICK c \in Conn \ open :
        /\ \A u \in Thread : held[u] # c
        /\ open' = open \cup {c}
        /\ held' = [held EXCEPT ![t] = c]
  BY DEF ConnectOk
<1>2. /\ held[t] = NoConn /\ held \in [Thread -> Conn \cup {NoConn}]
      /\ available' = available /\ dirty' = dirty
      /\ c \notin available /\ c \notin dirty
  BY <1>1 DEF ConnectOk, poolVars, PoolInv, TypeOK, Holding, CountedPC, UncountedPC,
              OfferedClean, CleanHeld
<1>3. leaseOwner' = [leaseOwner EXCEPT ![c] = t]
  BY <1>1, <1>2, OwnerMoves
<1>4. leaseOwner[c] = "gone" /\ \A d \in Conn : leaseOwner[d] # t
  BY <1>1, <1>2, OwnerNow
<1>5. leaseFit' = [leaseFit EXCEPT ![c] = TRUE]
  BY <1>1, <1>2, FitMoves
<1> QED
  BY <1>1, <1>3, <1>4, <1>5 DEF Lease!Next, Lease!Open, Lease!Idle

(* The work of the borrower, and the rollback after an error *)
LEMMA LeaseUse ==
  ASSUME PoolInv, NEW t \in Thread, held[t] \in Conn,
         UNCHANGED <<available, held, open>>,
         dirty' \ {held[t]} = dirty \ {held[t]}
  PROVE  Lease!Next
<1> DEFINE c == held[t]
<1>1. leaseOwner' = leaseOwner
  BY DEF leaseOwner
<1>2. PICK b \in BOOLEAN : b <=> c \in open' \ dirty'
  OBVIOUS
<1>3. leaseFit' = [leaseFit EXCEPT ![c] = b]
  <2>1. \A d \in Conn \ {c} : d \in open' \ dirty' <=> d \in open \ dirty
    OBVIOUS
  <2> QED
    BY <1>2, <2>1, FitMoves
<1>4. leaseOwner[c] \in Thread
  BY OwnerNow
<1> HIDE DEF c
<1>5. c \in Conn
  BY DEF c
<1> QED
  BY <1>1, <1>2, <1>3, <1>4, <1>5 DEF Lease!Next, Lease!Use

(* A connection is closed by its borrower *)
LEMMA LeaseDrop ==
  ASSUME PoolInv, PoolInv', NEW t \in Thread, held[t] \in Conn,
         UNCHANGED available, CloseConns({held[t]}),
         held' = [held EXCEPT ![t] = NoConn]
  PROVE  Lease!Next
<1> USE PoolAssumption
<1> DEFINE c == held[t]
<1>1. held \in [Thread -> Conn \cup {NoConn}] /\ c \notin available
      /\ \A u \in Thread \ {t} : held[u] # c
  BY DEF PoolInv, TypeOK, Exclusive
<1>2. leaseOwner' = [leaseOwner EXCEPT ![c] = "gone"]
  BY <1>1, OwnerMoves
<1>3. leaseFit' = [leaseFit EXCEPT ![c] = FALSE]
  BY FitMoves DEF CloseConns, Settle
<1>4. leaseOwner[c] \in Thread
  BY OwnerNow
<1> HIDE DEF c
<1>5. c \in Conn
  BY DEF c
<1> QED
  BY <1>2, <1>3, <1>4, <1>5 DEF Lease!Next, Lease!Drop

LEMMA LeasePut ==
  ASSUME PoolInv, PoolInv', NEW t \in Thread, Put(t)
  PROVE  Lease!Next
<1> USE PoolAssumption
<1> DEFINE c == held[t]
<1>1. /\ c \in Conn /\ held \in [Thread -> Conn \cup {NoConn}]
      /\ \A u \in Thread \ {t} : held[u] # c
  BY DEF Put, PoolInv, TypeOK, Exclusive, Holding, CountedPC
<1>2. /\ held' = [held EXCEPT ![t] = NoConn] /\ available' = available \cup {c}
      /\ UNCHANGED <<open, dirty>>
  BY DEF Put, connVars
<1>3. leaseOwner' = [leaseOwner EXCEPT ![c] = "pool"]
  BY <1>1, <1>2, OwnerMoves
<1>4. leaseOwner[c] \in Thread
  BY <1>1, OwnerNow
<1>5. leaseFit' = leaseFit /\ leaseFit[c]
  BY <1>1, <1>2 DEF leaseFit, PoolInv, OfferedClean
<1> HIDE DEF c
<1> QED
  BY <1>1, <1>3, <1>4, <1>5 DEF Lease!Next, Lease!Return

LEMMA LeaseCloseAllPools ==
  ASSUME PoolInv, PoolInv', CloseAllPools
  PROVE  Lease!Next
<1> USE PoolAssumption
<1>1. /\ available' = {} /\ held' = held
      /\ open' = open \ (available \cup in_use)
      /\ dirty' = dirty \ (available \cup in_use)
  BY DEF CloseAllPools, CloseConns, Settle
<1>2. leaseOwner' = [c \in Conn |-> IF leaseOwner[c] = "pool" THEN "gone" ELSE leaseOwner[c]]
  <2> HIDE DEF leaseOwner
  <2>1. ASSUME NEW c \in Conn
        PROVE  leaseOwner'[c] = IF leaseOwner[c] = "pool" THEN "gone" ELSE leaseOwner[c]
    <3>1. \A u \in Thread : leaseOwner'[c] = u <=> leaseOwner[c] = u
      BY <1>1, OwnerNow, OwnerNext
    <3>2. leaseOwner'[c] # "pool"
      BY <1>1, OwnerNext
    <3>3. /\ leaseOwner[c] \in Thread \cup {"pool", "gone"}
          /\ leaseOwner'[c] \in Thread \cup {"pool", "gone"}
      BY OwnerNow, OwnerNext
    <3> QED
      BY <3>1, <3>2, <3>3
  <2>2. leaseOwner' = [c \in Conn |-> leaseOwner'[c]]
    BY OwnerNext
  <2> QED
    BY <2>1, <2>2
<1> DEFINE S == in_use \ available
<1>3. S \in SUBSET {c \in Conn : leaseOwner[c] \in Thread}
  <2>1. ASSUME NEW c \in S PROVE c \in Conn /\ leaseOwner[c] \in Thread
    <3>1. PICK t \in Thread : held[t] = c
      BY <2>1 DEF PoolInv, NoLeak
    <3>2. c \in Conn
      BY <2>1 DEF PoolInv, TypeOK
    <3> QED
      BY <3>1, <3>2, OwnerNow
  <2> QED
    BY <2>1
<1>4. leaseFit' = [c \in Conn |-> leaseFit[c] /\ leaseOwner[c] # "pool" /\ c \notin S]
  <2>1. ASSUME NEW c \in Conn
        PROVE  leaseFit'[c] = (leaseFit[c] /\ leaseOwner[c] # "pool" /\ c \notin S)
    <3>1. leaseOwner[c] = "pool" <=> c \in available
      BY OwnerNow
    <3>2. c \in open' \ dirty' <=>
            c \in open \ dirty /\ leaseOwner[c] # "pool" /\ c \notin S
      BY <1>1, <3>1
    <3> HIDE DEF S
    <3> QED
      BY <3>2, FitIs, FitWillBe
  <2> HIDE DEF S
  <2> QED
    BY <2>1, FitWillBe
<1> HIDE DEF S
<1> QED
  BY <1>2, <1>3, <1>4 DEF Lease!Next, Lease!Shutdown

(* Every step of the connection manager is a step of the lease, or none. *)
LEMMA LeaseStep ==
  ASSUME PoolInv, PoolInv', [Next]_vars
  PROVE  [Lease!Next]_(Lease!vars)
<1>1. ASSUME NEW t \in Thread, NEW k \in KindsOf[t], Begin(t, k)
      PROVE  UNCHANGED Lease!vars
  BY <1>1, LeaseStutters DEF Begin, poolVars, connVars
<1>2. ASSUME NEW t \in Thread, Expire(t)
      PROVE  UNCHANGED Lease!vars
  BY <1>2, LeaseStutters DEF Expire, poolVars, connVars
<1>3. ASSUME NEW t \in Thread, Step(t)
      PROVE  [Lease!Next]_(Lease!vars)
  <2>1. pc[t] \in CountedPC \cup UncountedPC => held[t] \in Conn
    BY DEF PoolInv, TypeOK, Holding
  <2>2. CASE AcquireNew(t) \/ AcquireTimeout(t) \/ AcquireWait(t) \/ Wake(t)
    BY <2>2, LeaseStutters DEF AcquireNew, AcquireTimeout, AcquireWait, Wake,
                               poolVars, connVars
  <2>3. CASE Probe(t) \/ Drop(t) \/ ConnectFail(t) \/ Register(t)
    BY <2>3, LeaseStutters DEF Probe, Drop, ConnectFail, Register, poolVars, connVars
  <2>4. CASE Discard(t) \/ PutRefused(t) \/ Retry(t) \/ Finish(t)
    BY <2>4, LeaseStutters DEF Discard, PutRefused, Retry, Finish, poolVars, connVars
  <2>5. CASE AcquireIdle(t)
    BY <2>5, LeaseAcquireIdle
  <2>6. CASE ConnectOk(t)
    BY <2>6, LeaseConnectOk
  <2>7. CASE UseOk(t) \/ UseFail(t) \/ UseInDoubt(t) \/ ReleasePooled(t)
    <3>1. /\ pc[t] \in CountedPC /\ UNCHANGED <<available, held, open>>
          /\ dirty' \ {held[t]} = dirty \ {held[t]}
      <4>1. CASE UseOk(t)
        BY <4>1 DEF UseOk, Settle, poolVars, CountedPC
      <4>2. CASE UseFail(t)
        BY <4>2 DEF UseFail, poolVars, CountedPC
      <4>3. CASE UseInDoubt(t)
        BY <4>3 DEF UseInDoubt, Settle, poolVars, CountedPC
      <4>4. CASE ReleasePooled(t)
        BY <4>4 DEF ReleasePooled, Rollback, Settle, poolVars, CountedPC
      <4> QED
        BY <2>7, <4>1, <4>2, <4>3, <4>4
    <3> QED
      BY <2>1, <3>1, LeaseUse
  <2>8. CASE CloseDropped(t) \/ ReleaseDirect(t) \/ Close(t)
    <3>1. /\ pc[t] \in CountedPC \cup UncountedPC /\ UNCHANGED available
          /\ CloseConns({held[t]}) /\ held' = [held EXCEPT ![t] = NoConn]
      BY <2>8 DEF CloseDropped, ReleaseDirect, Close, poolVars, CountedPC, UncountedPC
    <3> QED
      BY <2>1, <3>1, LeaseDrop
  <2>9. CASE Put(t)
    BY <2>9, LeasePut
  <2> QED
    BY <1>3, <2>2, <2>3, <2>4, <2>5, <2>6, <2>7, <2>8, <2>9 DEF Step
<1>4. CASE CloseAllPools
  BY <1>4, LeaseCloseAllPools
<1>5. CASE UNCHANGED vars
  BY <1>5, LeaseStutters DEF vars, poolVars, connVars
<1> QED
  BY <1>1, <1>2, <1>3, <1>4, <1>5 DEF Next, Done

(* The connection manager implements the lease: under all interleavings,   *)
(* errors and a concurrent close_all_pools, for every number of threads    *)
(* and connections, a borrower has its connection for itself, and the pool *)
(* takes back and lends fit connections only.                              *)
THEOREM ImplementsLease == Spec => LeaseSpec
<1>1. Init => Lease!Init
  <2> SUFFICES ASSUME Init PROVE Lease!Init
    OBVIOUS
  <2>1. \A c \in Conn : leaseOwner[c] = "gone"
    BY PoolAssumption DEF Init, leaseOwner
  <2>2. ASSUME NEW c \in Conn PROVE leaseFit[c] = FALSE
    BY FitIs DEF Init
  <2>3. /\ leaseOwner = [c \in Conn |-> leaseOwner[c]]
        /\ leaseFit = [c \in Conn |-> leaseFit[c]]
    BY DEF leaseOwner, leaseFit
  <2> QED
    BY <2>1, <2>2, <2>3 DEF Lease!Init
<1>2. PoolInv /\ PoolInv' /\ [Next]_vars => [Lease!Next]_(Lease!vars)
  BY LeaseStep
<1> QED
  BY <1>1, <1>2, Invariance, PTL DEF Spec, LeaseSpec, Lease!Spec
=============================================================================
