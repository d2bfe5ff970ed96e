\* No fault; one switch to pen mode at any moment.
SPECIFICATION Spec
CONSTANTS
  MaxFaults = 0
  MaxSwitches = 1
  StartLimitBurst = 2
INVARIANT PenModeIsCleanStop
CHECK_DEADLOCK FALSE
