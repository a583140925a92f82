\* The bench firmware's watchdog and CAN monitor.  The monitor's ring laps twice
\* and its counters wrap within a session; it stops at its bounds.
CONSTANTS
  TIMEOUT_MS = 1
  RESEND_PERIOD_MS = 0
  MaxLag = 1
  MaxWire = 1
  MaxFaults = 1
  MON_RING_SIZE = 3
  W = 6
  MaxFrames = 7
  MaxSessions = 3
SPECIFICATION Spec
INVARIANT AllInOrder
PROPERTY SilenceStops
CHECK_DEADLOCK FALSE
