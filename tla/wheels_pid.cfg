\* The PID build: torques are held over two ticks, and a setpoint may be lost.
CONSTANTS
  USES_WHEEL_VELOCITY = FALSE
  COMPUTE_DIVISOR = 2
  Tested = {}
  Liberties = {}
  Lossy = {"input_vel", "input_torque"}
  MaxLosses = 1
SPECIFICATION Spec
PROPERTY DisarmedComesToRest
