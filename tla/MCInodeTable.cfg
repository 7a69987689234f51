CONSTANTS
  d = d
  e = e
  x = x
  Names <- MCNames
  Paths <- MCPaths
  Cached <- MCCached
  Flags = {"none", "noreplace", "exchange"}
  External = TRUE
  MaxIno = 4
  MaxRefs = 2
  NoPath = NoPath
SPECIFICATION Spec
SYMMETRY Symmetry
INVARIANTS TypeOK PathsResolve RefsCoverKernel
CHECK_DEADLOCK FALSE
