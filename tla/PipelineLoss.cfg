\* A touch screen that was used before, and a buffer that is easily full.  Two
\* contacts that land where the slots were used last fit into it.
SPECIFICATION Spec
CONSTANTS
  DeviceSlots = {0, 1}
  Points <- MCPoints
  MaxTid = 2
  MaxBacklog = 1
  BufSize = 6
  StartPoints <- MCStartPoints
  StartSlots = {0}
  kNumSlots = 2
  Boxes <- MCBoxes
  EventCode <- MCEventCode
  Readings <- MCReadingsMissing
  Ticks = {0, 1, 2, 3, 4}
  FrameTicks = {0, 1, 2, 3}
  Delay = 1
INVARIANTS
  KeysAreUnderFingers
PROPERTIES
  FramesAreLegal
CHECK_DEADLOCK FALSE
