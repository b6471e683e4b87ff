SPECIFICATION Spec
CONSTANTS
  d1 = d1
  d2 = d2
  NoJob = NoJob
  Destinations <- MCDestinations
  Jobs <- MCJobs
  LastSecond = 1
  Files = 1
  MaxPending = 1
  MaxStarts = 2
  Compressions = {"archived", "refused"}
  DiskErrors = TRUE
INVARIANTS TypeOK WorkerOwnsQueue RoomForNew ReportIsTrue
PROPERTIES KeepsAComplete AppearsComplete DestructorReturns QueuedBackupStarts
CHECK_DEADLOCK FALSE
