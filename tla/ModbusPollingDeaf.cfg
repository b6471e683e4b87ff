SPECIFICATION Spec
CONSTANTS
  MaxTimeouts = 1
  MaxEdits = 1
  MaxModels = 2
  MaxFaults = 0
  MaxReads = 1
  MaxCommands = 0
PROPERTY EditIsTaken
CHECK_DEADLOCK FALSE
