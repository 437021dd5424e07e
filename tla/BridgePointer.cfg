\* The pointer and a modifier, in batches of up to two frames, and a daemon that may be killed.
SPECIFICATION Spec
CONSTANTS
  a = a  b = b  shift = shift  L = L
  Conns = {c1}
  Keys = {a}
  Mods = {shift}
  Buttons = {L}
  HighBits = {"high"}
  NoKey = NoKey  NoConn = NoConn  NoPos = NoPos
  NSlots = 1
  MaxCoord = 2
  MaxBatch = 2
  Heartbeat = 1
  CanCrash = TRUE
  Frames <- PointerFrames
PROPERTIES ClickAtNewest SessionEndReleases
INVARIANT Settled
