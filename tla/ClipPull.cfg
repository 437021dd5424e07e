\* The user asks twice for the same batch.
SPECIFICATION Spec
CONSTANTS
  A = A  B = B  F = F  G = G
  Texts = {}
  Lined = {}
  Files = {F}
  MaxCopies = 1
  MaxMoves = 2
  Faults = {}
  MaxFaults = 0
INVARIANT ReaderNeverBlocks
CHECK_DEADLOCK FALSE
