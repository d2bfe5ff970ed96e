\* Keys, touchpad and motors of every rotation.
SPECIFICATION Spec
CONSTANTS
  MmUnit = 2
  Configs <- MCConfigs
  Layouts <- MCLayouts
  Sources <- MCSources
  ArgumentLists <- MCArgumentLists
  AsDouble <- MCAsDouble
  AsInt <- MCAsInt
  EffectIds = {0, 1}
  Pads <- MCPads
INVARIANTS
  PadStaysInRange
  RotationsAgree
  MotorIsOnTheSideOfTheKey
  KeysAreFelt
  EventsArePassedOn
  AcceptedOptionsStart
CHECK_DEADLOCK FALSE
