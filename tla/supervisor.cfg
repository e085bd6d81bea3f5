SPECIFICATION Spec
CONSTANTS
  Profiles = {"prod"}
  BackoffLimit = 1
  Listeners = 1
  MaxCommands = 3
  MaxChildren = 4
  MaxLines = 2
CHECK_DEADLOCK FALSE
INVARIANTS
  OneChild
  ShownIsTrue
PROPERTIES
  GivesUpOrConnects
  CommandsEnd
