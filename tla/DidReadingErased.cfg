SPECIFICATION Spec
CONSTANTS
  Dids = {d1, d2}
  Writable = {d2}
  NoDid = NoDid
  Prompt = FALSE
  MaxRetries = 1
  MaxReads = 2
  MaxWrites = 2
  MaxAir = 2
  MaxSem = 2
PROPERTY WriteIsTaken
CHECK_DEADLOCK FALSE
