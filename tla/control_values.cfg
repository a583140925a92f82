\* The hip and wheel gates, the estimator's lanes and the PIDs' memory.
CONSTANTS
  Hip = {1, 4}
  Wheel = {5}
  SIGN <- MCSign
  OFFSET <- MCOffset
  ANGLE_MIN <- MCAngleMin
  ANGLE_MAX = 88
  ANGLE_MARGIN = 35
  VEL_LIMIT <- MCVelLimit
  VEL_MARGIN <- MCVelMargin
  TORQUE_LIMIT <- MCTorqueLimit
  SCALE_NUM = 833
  SCALE_DEN = 10
  RATIO_MAX = 2048
  Angles <- MCAngles
  Speeds <- MCSpeeds
  Torques <- MCTorques
  MaxNorm = 2
  IMX5 = TRUE
  Wrap = 4
  STALE_TIMEOUT = 2
  MaxAge = 5
SPECIFICATION Spec
INVARIANTS
  NeverPushesOut
  NeverOverspeeds
  WayBackIsFree
  VelocityNotLost
  NoStaleGap
