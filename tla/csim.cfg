SPECIFICATION LabSpec
CONSTANTS
  W = 4
  s = 1
  E = 2
  b = 1
  MaxAccesses = 5
  Unset = Unset
INVARIANTS
  BlockIdentity
  SetsSound
  Inclusion
  Transposed
  FewMisses
  PuzzlesRight
PROPERTIES
  ImplementsLRU
CHECK_DEADLOCK FALSE
