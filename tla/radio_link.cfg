\* Watchdog, arming and height latch; the stale counter wraps modulo 6.
CONSTANTS
  SBUS_TIMEOUT_TICKS = 3
  TickMod = 6
  MaxSilence = 9
  NoFrame = NoFrame
  Sticks <- MCSticks
SPECIFICATION Spec
INVARIANTS
  DeadLinkDisarms
  HeightNeedsZeroing
PROPERTIES
  DisarmOnlyForCause
  LinkLossDisarmsForGood
