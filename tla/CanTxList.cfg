CONSTANTS
  MaxId = 3
  DefaultId = 1
  MaxEntries = 2
  MaxObjects = 4
SPECIFICATION Spec
INVARIANTS RowsAreEntries IdsDiffer ShotIsKept
CHECK_DEADLOCK FALSE
