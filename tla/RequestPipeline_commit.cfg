CONSTANTS
  r1 = r1
  r2 = r2
  Request = {r1}
  AuthEnforced = FALSE
  GroupsDecide = FALSE
  ToolsOf <- Procedures
SPECIFICATION Spec
INVARIANT CommitLoggedAllow
