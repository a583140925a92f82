\* The cable is pulled while a motor turns.
CONSTANTS
  Kinds = {"rmd"}
  Buses = {1}
  Wired = 1
  SameId = TRUE
  MasterIds = {TRUE}
  TIMEOUT_MS = 1
  RESEND_PERIOD_MS = 0
  MaxLag = 1
  MaxWire = 1
  MaxFaults = 0
  MaxResets = 0
  MaxUnplugs = 1
SPECIFICATION Spec
PROPERTY UnpluggedStops
CHECK_DEADLOCK FALSE
