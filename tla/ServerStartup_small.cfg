CONSTANTS
  Unset = Unset
  ToolFlags <- SmallFlags
  InstanceFlags <- SmallInstanceFlags
  MaxInstances = 2
SPECIFICATION Spec
INVARIANTS AuthAgrees ShutdownReleases ToolsFollowFlags
