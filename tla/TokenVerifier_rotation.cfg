CONSTANTS
  Call = {c1, c2}
  Kid = {k1, k2}
  CacheTtl = 2
  MaxLatency = 1
  MaxClock = 4
SYMMETRY Symmetry
SPECIFICATION Spec
INVARIANT VerifierInv
PROPERTIES RetiredSoonRejected NewKeyFound
