\* IMU 0 does not answer and no IMX5 is connected.
CONSTANTS
  MaxNorm = 1
  IMX5 = FALSE
SPECIFICATION Spec
INVARIANT PrimaryIsDriven
