\* Sessions: two clients, a key that may fill two slots, every way a session begins and ends.
SPECIFICATION FairSpec
CONSTANTS
  a = a  b = b  shift = shift  L = L
  Conns = {c1, c2}
  Keys = {a}
  Mods = {}
  Buttons = {L}
  HighBits = {"high"}
  NoKey = NoKey  NoConn = NoConn  NoPos = NoPos
  NSlots = 2
  MaxCoord = 1
  MaxBatch = 1
  Heartbeat = 1
  CanCrash = FALSE
  Frames <- SessionFrames
INVARIANTS TypeOK NoPhantomKey StatusHonest NothingHeldIdle
PROPERTIES LeaseHeld Reclaimed ShutdownReleases
