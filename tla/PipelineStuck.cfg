\* A key that stays down when its finger is lifted among the lost events.
SPECIFICATION Spec
CONSTANTS
  DeviceSlots = {0, 1}
  Points <- MCPoints
  MaxTid = 3
  MaxBacklog = 3
  BufSize = 5
  StartPoints <- MCStartPoints
  StartSlots = {0}
  kNumSlots = 2
  Boxes <- MCBoxes
  EventCode <- MCEventCode
  Readings <- MCReadingsMissing
  Ticks = {0, 1, 2, 3, 4}
  FrameTicks = {0, 1, 2, 3}
  Delay = 1
INVARIANTS
  NoKeyLeftDown
CHECK_DEADLOCK FALSE
