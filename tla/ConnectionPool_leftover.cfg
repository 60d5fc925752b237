CONSTANTS
  t1 = t1
  t2 = t2
  Thread = {t1, t2}
  Conn = {c1, c2}
  PoolEnabled = TRUE
  PoolMax = 1
  KindsOf <- ServerKinds
  MaxJobs = 2
  NoThread = NoThread
  NoConn = NoConn
SPECIFICATION Spec
PROPERTY OnlyOwnWorkCommitted
