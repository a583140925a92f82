CONSTANTS
  USES_WHEEL_VELOCITY = TRUE
  COMPUTE_DIVISOR = 1
  Tested = {}
  Liberties = {}
  Lossy = {"axis_state", "controller_mode"}
  MaxLosses = 1
SPECIFICATION Spec
PROPERTIES
  DisarmedComesToRest
