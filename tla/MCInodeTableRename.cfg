CONSTANTS
  d = d
  e = e
  x = x
  Names <- MCNames
  Paths <- MCPaths
  Cached = {}
  Flags = {"none"}
  External = TRUE
  MaxIno = 5
  MaxRefs = 1
  NoPath = NoPath
SPECIFICATION Spec
INVARIANT KernelViewAgrees
CHECK_DEADLOCK FALSE
