\* Two texts copied, the second before the first has settled.
SPECIFICATION FairSpec
CONSTANTS
  A = A  B = B  F = F  G = G
  Texts = {A, B}
  Lined = {}
  Files = {}
  MaxCopies = 2
  MaxMoves = 0
  Faults = {}
  MaxFaults = 0
PROPERTY ComesToRest
CHECK_DEADLOCK FALSE
