SPECIFICATION FairSpec
CONSTANTS
  Containers = {"a", "b", "plain"}
  WithCommand = {"a", "b"}
  NoObject = NoObject
INVARIANTS
  TypeOK
  ExitCodesAreTrue
  ReportsAreTrue
PROPERTY WaitIsEnded
CHECK_DEADLOCK FALSE
