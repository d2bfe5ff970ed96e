\* The time arithmetic of Consume() around a full second.
SPECIFICATION Spec
CONSTANTS
  kEventDelayMS = 50
  Instants <- MCInstants
  MaxPending = 3
INVARIANTS
  TypeOK
  WaitEndsAtTheDeadline
PROPERTIES
  TimeoutFires
  ImplementsDelayLine
CHECK_DEADLOCK FALSE
