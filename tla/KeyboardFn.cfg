\* Fn, a key with an Fn code and a point off all keys; every finger firm.
SPECIFICATION Spec
CONSTANTS
  t1 = t1
  t2 = t2
  t3 = t3
  Tids <- Contacts3
  OldTid = OldTid
  KeyNums = {0, 1, 2}
  EventCode <- MCEventCode
  EventCodeFn <- MCEventCodeFn
  KEY_FN = 464
  KEY_SPACE = 57
  Positions = {"fn", "f1", "off"}
  KeysAt <- MCKeysAt
  Readings <- Firm
  Ticks = {0, 1, 2, 3, 4, 5, 6, 7}
  FrameTicks = {0, 1, 2, 3, 4, 5}
  Delay = 2
SYMMETRY Symmetric
INVARIANTS
  TypeOK
  Chronological
  RefusableEventHasItsFinger
  FnHeldByFinger
  FingerIsOnItsKey
  NoStuckKey
  EveryContactFits
  HeldKeyIsDown
PROPERTIES
  ImplementsKeyTapsSafely
CHECK_DEADLOCK FALSE
