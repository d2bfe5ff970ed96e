\* Two faults anywhere, a switch to pen mode, a limit of two starts.
SPECIFICATION Spec
CONSTANTS
  MaxFaults = 2
  MaxSwitches = 1
  StartLimitBurst = 2
INVARIANTS TypeOK ExitsAlone SuccessMeansPenMode
PROPERTIES SignalsOnlyChildren StackComesBack
CHECK_DEADLOCK FALSE
