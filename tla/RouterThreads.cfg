\* The compositor takes the capture away in every way, its signals race each other through
\* threads that lag, and the router is killed or told to stop.
SPECIFICATION FairSpec
CONSTANTS
  ctrl = ctrl  back = back
  Keys = {}
  HotKeys = {ctrl, back}
  Pointing = {"button", "frame", "scroll"}
  MaxActs = 1
  MaxQueue = 1
  MaxWire = 1
  Racing = {"activated", "disabled", "saver"}
  Signals = {"disabled", "zones", "lock", "eigone"}
  Faults = {"kill", "signal"}
  MaxFaults = 1
PROPERTIES FailsafeHeals Rearmed ShutdownCleans CursorAtEdge
CHECK_DEADLOCK FALSE
