\* A screen of 3 x 4 and one of 4 x 2, on either side; motion in both axes, wheel and clicks.
SPECIFICATION Spec
CONSTANTS
  Width <- Wide
  Height <- Tall
  CanonicalMax = 7
  Deltas <- Steps
  LocalYs <- Ys
  Scrolls <- Some
  Clicks <- Notches
  PerDetent = 2
  Fine = 3
  MaxWheel = 1
  MaxAcc = 2
  MaxTurned = 3
INVARIANTS CaptureMatchesSpace NewestKept WheelKept Landing
PROPERTIES ActsAtNewest Level
