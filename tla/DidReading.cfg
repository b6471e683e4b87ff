SPECIFICATION Spec
CONSTANTS
  Dids = {d1, d2}
  Writable = {d2}
  NoDid = NoDid
  Prompt = TRUE
  MaxRetries = 1
  MaxReads = 1
  MaxWrites = 1
  MaxAir = 2
  MaxSem = 1
INVARIANTS TypeOK ViewIsTold OwnValue
PROPERTIES WorkerComesToRest DestructorReturns
CHECK_DEADLOCK FALSE
