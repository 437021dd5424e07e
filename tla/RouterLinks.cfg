\* The link to the bridge fails in every way; two keys and a button held.
SPECIFICATION FairSpec
CONSTANTS
  ctrl = ctrl  back = back
  Keys = {ctrl, back}
  HotKeys = {ctrl, back}
  Pointing = {"button"}
  MaxActs = 1
  MaxQueue = 1
  MaxWire = 2
  Racing = {}
  Signals = {}
  Faults = {"drop", "crash", "power", "network"}
  MaxFaults = 2
INVARIANTS QuietWhenLocal PublishedTruth InStep
PROPERTIES NoStuckInput NeverIntoVoid EmergencyWorks
