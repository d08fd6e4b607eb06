SPECIFICATION Spec
CONSTANTS
  Value = {1, 2, 3}
  MaxRanges = 3
  None = None
  Node = {n1, n2, n3, n4, n5, n6}
  NULL = NULL
  UIntMod = 16
  MaxFailures = 0
PROPERTIES
  CountsOverlaps
