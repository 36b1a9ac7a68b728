SPECIFICATION Spec
CONSTANTS
  Board <- MCBoard
  Users <- MCUsers
  Tries = 2
  MaxConnects = 2
  MaxQueue = 1
INVARIANTS StoresWholeBlocks WritesUndisturbed
PROPERTIES WrittenIsTrue QuitEnds
CHECK_DEADLOCK FALSE
