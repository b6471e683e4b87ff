SPECIFICATION Spec
CONSTANTS
  NoFrame = NoFrame
  MaxFaults = 2
  Devices = {"STM32", "LAWICEL"}
  Ids <- MCFitting
  HandshakeSize = 1
  TxMax = 2
  RxMax = 1
  MaxFrames = 4
  MaxChunks = 2
INVARIANTS TypeOK OneLostPerOverflow
PROPERTIES InOrderOnce QueueDrains RxDrains LinkReopens WorkerStops
CHECK_DEADLOCK FALSE
