\* The comment on is_guaranteed_ against a quick tap of a palm.
SPECIFICATION Spec
PROPERTIES
  GuaranteedMeansChecked
CONSTANTS
  t1 = t1
  t2 = t2
  t3 = t3
  Tids <- Contacts2
  OldTid = OldTid
  KeyNums = {0, 1, 2}
  EventCode <- MCEventCode
  EventCodeFn <- MCEventCodeFn
  KEY_FN = 464
  KEY_SPACE = 57
  Positions = {"f1", "off"}
  KeysAt <- MCKeysAt
  Readings <- Pressures
  Ticks = {0, 1, 2, 3, 4, 5, 6}
  FrameTicks = {0, 1, 2, 3, 4}
  Delay = 2
CHECK_DEADLOCK FALSE
