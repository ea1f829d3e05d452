SPECIFICATION MCSpec
CONSTANTS
  Binaries = {1, 2}
  MaxEdits = 1
  MaxCommands = 3
  MaxUpdates = 1
  MaxKills = 1
  MaxSaid = 3
INVARIANTS
  CodegenFaithful
PROPERTIES
  CodegenSettles
CHECK_DEADLOCK FALSE
