CONSTANTS
  Process = {p1, p2}
  Actor = {a1, a2}
  ActorRpm = 1
  ActorBurst = 1
  GlobalRpm = 2
  GlobalBurst = 1
  Window = 3
  Ttl = 4
  MaxDelay = 1
  MaxClock = 6
  MaxAdmitted = 4
SYMMETRY Symmetry
SPECIFICATION Spec
INVARIANTS LimiterInv QuotaKept
PROPERTY DeniedJustly
