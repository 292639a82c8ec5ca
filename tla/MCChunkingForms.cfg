SPECIFICATION Spec
CONSTANTS
  Texts <- MCTexts
  Bodies <- MCBodies
  Sizes <- MCSizes
  Requests <- MCRequests
  MaxParts = 3
  MaxChunks = 4
INVARIANTS
  EveryPartKept
CHECK_DEADLOCK FALSE
