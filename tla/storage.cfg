\* Calibration, logs, battery, transmit counters, USB.  One IMU with three bias
\* values: three calibrations.  The bounded components stop at their bounds.
CONSTANTS
  IMU = {i0}
  Bias = {zero, b1, b2}
  Zero = zero
  None = none
  Erased = erased
  Garbage = garbage
  LastIndex = 3
  OldFiles = {1, 2}
  MaxFaults = 2
  MaxResets = 1
  BUF_SIZE = 13
  FLUSH_CHUNK = 12
  SYNC_INTERVAL = 3
  HDR = 1
  Schema <- SchemaEnds
  Pass <- PassEnds
  MaxPasses = 14
  MaxFills = 1
  Node = {1, 2}
  FRAMES = 5
  TidMod = 3
  MaxTransfers = 5
  MaxLost = 5
  Threads = {1, 2, 3}
  MaxCalls = 5
  LineSize = 4
  MaxLength = 9
  MaxLines = 4
  Capacity = 3
  Chunks = 3
  MaxStalls = 2
SPECIFICATION StorageSpec
INVARIANTS
  LoadsWhole
  AckedIsDurable
  RunningIsStored
  LogIsStream
  SyncedAreRecords
  DiagNeverOver
  CommandIsLine
PROPERTIES
  OneTransfer
  StoreSpec
  LogsSurvive
  EventuallyLogs
  NeverInterleaved
  CommandsFinish
CHECK_DEADLOCK FALSE
