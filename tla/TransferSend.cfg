\* Copies of different lengths, with stalls, retries, lost frames and broken connections.
SPECIFICATION SenderSpec
CONSTANTS
  Lengths <- Different
  AckEvery = 2
  Window = 3
  Queue = 5
  SeqMod = 4
  MaxTotal = 4
  Breaks = TRUE
INVARIANTS TypeOK NothingLost AllArrive
PROPERTIES ArrivesInOrder SenderReturns
CHECK_DEADLOCK FALSE
