\* Any two faults, and a restart of the agent after none, one or both of them.
SPECIFICATION FairSpec
CONSTANTS
  c1 = c1  c2 = c2  c3 = c3  c4 = c4
  Conns = {c1, c2}
  NoConn = NoConn
  MaxInbox = 1
  MaxFrames = 1
  Faults = {"power", "network", "relay", "host", "restart"}
  MaxFaults = 2
INVARIANT PumpFollowsServed
PROPERTIES SilenceDetected RestartRecovers
