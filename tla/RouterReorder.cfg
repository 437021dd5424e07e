\* A Deactivated overtakes its Activated: a key press stays down.
SPECIFICATION FairSpec
CONSTANTS
  ctrl = ctrl  back = back
  Keys = {ctrl}
  HotKeys = {ctrl, back}
  Pointing = {}
  MaxActs = 1
  MaxQueue = 1
  MaxWire = 2
  Racing = {"activated", "ei"}
  Signals = {}
  Faults = {}
  MaxFaults = 0
PROPERTY NoStuckInput
