\* The abstract keyboard and the liveness of taps, with palms, the space bar
\* exception, and fingers that slide off the space bar and off F1.
SPECIFICATION FairSpec
INVARIANTS
  PalmRejectedBeforePress
PROPERTIES
  ImplementsKeyTaps
  TapIsDecided
CONSTANTS
  t1 = t1
  t2 = t2
  t3 = t3
  Tids <- Contacts2
  OldTid = OldTid
  KeyNums = {0, 1, 2}
  EventCode <- MCEventCode
  EventCodeFn <- MCEventCodeFn
  KEY_FN = 464
  KEY_SPACE = 57
  Positions = {"edge", "f1", "off"}
  KeysAt <- MCKeysAt
  Readings <- Mixed
  Ticks = {0, 1, 2, 3, 4, 5, 6}
  FrameTicks = {0, 1, 2, 3, 4}
  Delay = 2
CHECK_DEADLOCK FALSE
