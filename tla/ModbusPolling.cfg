SPECIFICATION Spec
CONSTANTS
  MaxTimeouts = 1
  MaxEdits = 2
  MaxModels = 2
  MaxFaults = 2
  MaxReads = 2
  MaxCommands = 1
INVARIANTS TypeOK EditOnItsModel
PROPERTIES EditsInOrder JoinReturns PollingContinues
CHECK_DEADLOCK FALSE
