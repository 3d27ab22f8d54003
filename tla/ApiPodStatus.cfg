SPECIFICATION ApiSpec
CONSTANTS
  Containers = {"a", "plain"}
  WithCommand = {"a"}
  NoObject = NoObject
  InitContainers = {"i"}
  MaxCrashes = 1
CHECK_DEADLOCK FALSE
INVARIANTS
  ApiTypeOK
  StatusIsEarned
  ReportIsAccepted
PROPERTIES
  EndIsFinal
