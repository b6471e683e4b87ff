SPECIFICATION Spec
CONSTANTS
  d1 = d1
  d2 = d2
  NoJob = NoJob
  Destinations <- MCOneDestination
  Jobs <- MCOneJob
  LastSecond = 1
  Files = 2
  MaxPending = 1
  MaxStarts = 1
  Compressions = {"archived", "refused"}
  DiskErrors = FALSE
PROPERTIES DestructorCancels
CHECK_DEADLOCK FALSE
