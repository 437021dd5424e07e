\* Two copies of a text of several lines and two file batches; two crossings or pulls; one fault.
SPECIFICATION Spec
CONSTANTS
  A = A  B = B  F = F  G = G
  Texts = {A}
  Lined = {A}
  Files = {F, G}
  MaxCopies = 2
  MaxMoves = 2
  Faults = {"link", "send", "apply"}
  MaxFaults = 1
INVARIANTS TypeOK LastCopyWins OnlyAsked PullAnswered
PROPERTIES RightBatch NotSentBack
CHECK_DEADLOCK FALSE
