CONSTANTS
  t1 = t1
  t2 = t2
  Thread = {t1, t2}
  Conn = {c1, c2}
  PoolEnabled = TRUE
  PoolMax = 1
  KindsOf <- AnyKinds
  MaxJobs = 1
  NoThread = NoThread
  NoConn = NoConn
SPECIFICATION FairSpec
INVARIANTS PoolInv Exclusive OfferedClean NoLeak NoLostWakeup Accounting OvershootBounded ProcAtMostOnce LockDiscipline
PROPERTIES LeaseSpec JobsEnd
