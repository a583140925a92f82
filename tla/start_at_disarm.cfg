CONSTANTS
  USES_WHEEL_VELOCITY = TRUE
  COMPUTE_DIVISOR = 1
  Tested = {1}
  Liberties = {"start_any"}
  Lossy = {}
  MaxLosses = 0
SPECIFICATION Spec
PROPERTIES
  DisarmedComesToRest
