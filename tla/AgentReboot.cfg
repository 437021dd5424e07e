\* The Pi loses power once and boots again.
SPECIFICATION FairSpec
CONSTANTS
  c1 = c1  c2 = c2  c3 = c3  c4 = c4
  Conns = {c1, c2, c3}
  NoConn = NoConn
  MaxInbox = 2
  MaxFrames = 1
  Faults = {"power"}
  MaxFaults = 1
PROPERTY Recovers
