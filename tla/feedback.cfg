\* SBUS framing, CAN loop and dispatch, IMX5, SPI IMU, hip status poll, leg length.
CONSTANTS
  FRAME = 5
  Content = {c1, c2}
  Mixed = mixed
  DEPTH = 2
  CounterMod = 2
  MAX_CAN_DEVICES = 16
  CAN_SCAN_MAX = 2
  Frames <- Wire
  MaxHeard = 4
  CAN_TIMEOUT_TICKS = 4
  MaxQuiet = 2
  Ids = 3
  SampleUnits = 5
  PassUnits = 4
  Depth = 6
  MaxOwed = 3
  MaxResets = 2
  POLL_TICKS = 2
  Volts = {40}
  L_STAND = 3
  L_MIN = 2
  L_MAX = 4
  HEIGHT_RANGE = 2
  Longest = 6
SPECIFICATION FeedbackSpec
INVARIANTS
  Resynchronises
  ScanExact
  FusesFreshOnce
  NothingFromBefore
PROPERTIES
  BusOffRecovers
  NeitherBusStarves
  FusionResumes
  EveryHipPolled
  StandsUp
  NoJumpOnEntry
