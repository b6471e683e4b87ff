CONSTANTS
  Ecus = {"ecu", "other"}
  DefaultEcu = "ecu"
  Lengths = {1, 4, 5}
  BufferSize = 4
  BlockSize = 2
  Sns = 3
  MaxWft = 1
  MaxMessages = 3
  MaxWaits = 1
SPECIFICATION Spec
INVARIANTS WholeMessages
CHECK_DEADLOCK FALSE
PROPERTIES DeliveredInOrder SendEnds
