CONSTANTS
  Names = {"Board", "Linux VM", "New Page"}
  MaxPages = 2
  MaxNames = 8
  MaxLoads = 2
SPECIFICATION Spec
INVARIANTS RunsNamedPage
CHECK_DEADLOCK FALSE
