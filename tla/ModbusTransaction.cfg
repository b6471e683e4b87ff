SPECIFICATION Spec
CONSTANTS
  Shapes = {"read"}
  LateOver = {"tcp"}
  Ids = 3
  MaxRequests = 2
  MaxLosses = 1
  MaxEntries = 2
  MaxUses = 1
INVARIANTS OwnAnswer SilenceResynchronises AnswerAfterRequest ViewMatchesLog
PROPERTY WrittenInOrder
CHECK_DEADLOCK FALSE
