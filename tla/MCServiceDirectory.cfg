SPECIFICATION Spec
CONSTANTS
  Sockets = {s1, s2}
  NullSocket = null
  NoSocket = none
  Names = {dir, a, b}
  DirectoryName = dir
  DirectorySession = zero
  Endpoints = {e1, e2}
  MaxServices = 3
SYMMETRY Symmetry
INVARIANTS NamesExact MirrorExact
CHECK_DEADLOCK FALSE
