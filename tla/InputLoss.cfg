\* One slot beyond kNumSlots; a buffer that a frame of two contacts
\* nearly fills.
SPECIFICATION Spec
CONSTANTS
  DeviceSlots = {0, 1, 2}
  Points <- MCPoints
  MaxTid = 2
  MaxBacklog = 2
  BufSize = 9
  StartPoints <- Origin
  StartSlots = {0}
  kNumSlots = 2
INVARIANTS
  TypeOK
  SnapshotIsTruth
PROPERTIES
  NoGhostInStep
  TrackingIdNeverReturns
CHECK_DEADLOCK FALSE
