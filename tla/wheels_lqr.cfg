\* The default build: every wheel command is a velocity.  A hip and a wheel test.
CONSTANTS
  USES_WHEEL_VELOCITY = TRUE
  COMPUTE_DIVISOR = 1
  Tested = {1, 5}
  Liberties = {}
  Lossy = {}
  MaxLosses = 0
SPECIFICATION Spec
INVARIANTS
  AxisAgrees
  TestExcludesDriving
PROPERTIES
  StaleOnlyIfModeLeft
  BracketedModeChange
  DisarmedComesToRest
