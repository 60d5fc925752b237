CONSTANTS
  Unset = Unset
  ToolFlags <- NoMaps
  InstanceFlags <- NoMaps
  MaxInstances = 1
SPECIFICATION Spec
INVARIANT ClientCleanedUp
