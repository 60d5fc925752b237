CONSTANTS
  a1 = a1
  a2 = a2
  b1 = b1
  x1 = x1
  x2 = x2
  x3 = x3
  NoName = NoName
  DepthLimit = 1
  HeadLimit = 1
  RowsOf <- SmallRows
  MaxRows <- SmallBounds
  MaxFailures = 2
SPECIFICATION Spec
INVARIANT ResilientPaths
