CONSTANTS
  Worker = {w1, w2}
  Id = {i1, i2}
  Ttl = 2
  MaxDelay = 1
  MaxQuery = 1
  MaxClock = 6
SYMMETRY Symmetry
SPECIFICATION Spec
INVARIANTS DashboardInv PromisesKept NotSetBackFar Refreshable
PROPERTIES ServedFresh DeadStaysDead
