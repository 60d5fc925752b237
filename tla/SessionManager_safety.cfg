CONSTANTS
  Process = {p1, p2}
  Actor = {a1}
  SessionId = {s1, s2}
  RequestId = {r1}
  SessionTtl = 4
  Inactivity = 2
  Limit = 2
  MaxDelay = 1
  MaxClock = 6
SYMMETRY Symmetry
SPECIFICATION Spec
INVARIANT SessionInv
PROPERTIES SlotKept RefusedJustly
