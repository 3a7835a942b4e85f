SPECIFICATION Spec
CONSTANTS
  Qtrm = {0}
  ChunkCells = 1
  FifoCells = 1
  MaxTotal = 2
  GoldenBlocks = 1
  MaxMisreads = 1
  MaxResets = 1
  Exercised <- MCExercised
  TxFifo = 2
  MaxPages = 1
  MaxCalls = 2
  MaxEvents = 1
  TxFifoSize = 1
  RxFifoSize = 1
  MaxSize = 2
  MaxMessages = 1
  MaxArrivals = 2
  MaxSettings = 1
  UsedIrqs = {"tx", "rx", "rto"}
  Descriptors = 2
  MaxBlocks = 4
  MaxTransfers = 1
  MaxPauses = 1
  NvmDevices = {"005", "060", "090-150"}
  NvmOffsets = {4097, 129020, 262143}
  NvmLengths = {0, 258}
  NvmCalls = 1
  FifoFrames = 2
  RxFrames = 2
  MaxTransfer = 3
  MaxFrames = 2
  SpiSizes = {1}
  MaxTransactions = 2
  MaxSetups = 3
  PageCells = 2
  BlockCells = 2
  SectorCells = 4
  FlashCells = 4
  MaxBytes = 3
  FlashCalls = 2
  FlashRestarts = 1
  NB_OF_GPIO = 4
  BusPins = 2
  GpioCalls = 2
  GpioEdges = 1
INVARIANTS
  TypeOK
  LeavesNothingBehind
  UartSound
  NvmSound
  SpiSound
  FlashSound
PROPERTIES
  RegionsKept
  ReceptionsRefine
  ReceptionEnds
  AnswerIsOurs
  ClocksRestored
  ServiceReturns
  CompletedMeansMoved
  PinsAsAsked
CHECK_DEADLOCK FALSE
