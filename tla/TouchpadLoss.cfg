\* Contacts that land in, slide into and out of and are lifted inside or outside
\* the region; a buffer that a frame of two contacts nearly fills.
SPECIFICATION Spec
CONSTANTS
  DeviceSlots = {0, 1}
  Points <- InAndOut
  MaxTid = 3
  MaxBacklog = 1
  BufSize = 9
  StartPoints <- Origin
  StartSlots = {0}
  kNumSlots = 2
  MmUnit = 1
  region <- MCRegion
  rotation = 270
INVARIANTS
  TypeOK
  TouchpadIsTheRegion
  ButtonsMatchUnlessLost
PROPERTIES
  NoPhantomInStep
CHECK_DEADLOCK FALSE
