\* The configured rectangle against the one that is used.
SPECIFICATION Spec
CONSTANTS
  MmUnit = 2
  Configs <- MCConfigs
  Layouts <- PackagedLayouts
  Sources <- TouchScreens
  ArgumentLists <- PackagedArguments
  AsDouble <- MCAsDouble
  AsInt <- MCAsInt
  EffectIds = {0, 1}
  Pads <- HalfPads
INVARIANTS
  PadIsTheRectangle
CHECK_DEADLOCK FALSE
