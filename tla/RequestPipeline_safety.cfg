CONSTANTS
  r1 = r1
  r2 = r2
  Request = {r1, r2}
  AuthEnforced = TRUE
  GroupsDecide = TRUE
  ToolsOf <- MixTools
SPECIFICATION Spec
INVARIANTS TypeOK LogAgreesWithAnswer LogNamesCharged DeniedReconciles
