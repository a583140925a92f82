------------------------ MODULE ControlValues_proofs ------------------------
(***************************************************************************)
(* For any number of hips and wheels, mounted on either side, any limits,  *)
(* margins and scales, and any feedback: what the gates let through; that  *)
(* the estimator publishes a velocity whenever a wheel gave one; and that  *)
(* no PID carries a derivative over a gap.                                 *)
(***************************************************************************)
EXTENDS ControlValues, TLAPS

-----------------------------------------------------------------------------
(* Arithmetic of the ramps *)

\* A product keeps the order of its factors.
LEMMA TimesMonotone ==
  ASSUME NEW a \in Int, NEW b \in Int, NEW c \in Nat, a <= b
  PROVE  c * a \in Int /\ c * b \in Int /\ c * a <= c * b
<1>1. b - a \in Nat /\ c * (b - a) \in Nat
  OBVIOUS
<1>2. c * (b - a) = c * b - c * a
  OBVIOUS
<1> QED
  BY <1>1, <1>2

\* A product with a natural keeps its sign.
LEMMA TimesSign ==
  ASSUME NEW t \in Int, NEW s \in Nat
  PROVE  /\ t * s \in Int /\ s * t \in Int
         /\ t >= 0 => t * s >= 0
         /\ t <= 0 => t * s <= 0
<1>1. CASE t >= 0
  BY <1>1
<1>2. CASE t <= 0
  <2>1. (-t) \in Nat /\ (-t) * s \in Nat
    BY <1>2
  <2>2. t * s = -((-t) * s)
    OBVIOUS
  <2> QED
    BY <1>2, <2>1, <2>2
<1> QED
  BY <1>1, <1>2

\* Clamping between a bound and its negative keeps the sign.
LEMMA ClampSign ==
  ASSUME NEW x \in Int, NEW hi \in Nat
  PROVE  /\ Motors!Clamp(x, -hi, hi) \in -hi .. hi
         /\ x >= 0 => Motors!Clamp(x, -hi, hi) >= 0
         /\ x <= 0 => Motors!Clamp(x, -hi, hi) <= 0
         /\ x \in -hi .. hi => Motors!Clamp(x, -hi, hi) = x
  BY DEF Motors!Clamp

\* Division by a positive number, as the remainder defines it.
LEMMA Division ==
  ASSUME NEW a \in Nat, NEW b \in Nat \ {0}
  PROVE  /\ a \div b \in Nat
         /\ b * (a \div b) <= a
         /\ a < b * ((a \div b) + 1)
  OBVIOUS

\* The quotient is the only number between whose multiples a lies.
LEMMA QuotientUnique ==
  ASSUME NEW a \in Nat, NEW b \in Nat \ {0}, NEW q \in Int,
         b * q <= a, a < b * (q + 1)
  PROVE  a \div b = q
<1> DEFINE r == a \div b
<1>1. r \in Nat /\ b * r <= a /\ a < b * (r + 1)
  BY Division
<1> HIDE DEF r
<1>2. ~(q < r)
  <2> SUFFICES ASSUME q + 1 <= r PROVE FALSE
    BY <1>1
  <2> b * (q + 1) \in Int /\ b * r \in Int /\ b * (q + 1) <= b * r
    BY <1>1, TimesMonotone
  <2> QED
    BY <1>1
<1>3. ~(r < q)
  <2> SUFFICES ASSUME r + 1 <= q PROVE FALSE
    BY <1>1
  <2> b * (r + 1) \in Int /\ b * q \in Int /\ b * (r + 1) <= b * q
    BY <1>1, TimesMonotone
  <2> QED
    BY <1>1
<1>4. r = q
  BY <1>1, <1>2, <1>3
<1> QED
  BY <1>4 DEF r

\* A common factor of both sides cancels.
LEMMA DivisionCancels ==
  ASSUME NEW a \in Nat, NEW b \in Nat \ {0}, NEW u \in Nat \ {0}
  PROVE  (a * u) \div (b * u) = a \div b
<1> DEFINE q == a \div b
<1>1. q \in Nat /\ b * q <= a /\ a + 1 <= b * (q + 1)
  BY Division
<1> HIDE DEF q
<1>2. b * u \in Nat \ {0} /\ a * u \in Nat
  OBVIOUS
<1>3. u * (b * q) <= u * a /\ u * (a + 1) <= u * (b * (q + 1))
  BY <1>1, TimesMonotone
<1>4. u * (b * q) = (b * u) * q /\ u * (b * (q + 1)) = (b * u) * (q + 1) /\ u * (a + 1) = a * u + u
  BY <1>1
<1>5. (b * u) * q <= a * u /\ a * u < (b * u) * (q + 1)
  BY <1>1, <1>2, <1>3, <1>4
<1>6. (a * u) \div (b * u) = q
  BY <1>1, <1>2, <1>5, QuotientUnique
<1> QED
  BY <1>6 DEF q

\* Conversion to an integer keeps the sign, and a common factor cancels.
LEMMA TruncFacts ==
  ASSUME NEW a \in Int, NEW b \in Nat \ {0}
  PROVE  /\ Motors!Trunc(a, b) \in Int
         /\ a >= 0 => Motors!Trunc(a, b) >= 0
         /\ a <= 0 => Motors!Trunc(a, b) <= 0
         /\ \A u \in Nat \ {0} : Motors!Trunc(a * u, b * u) = Motors!Trunc(a, b)
<1>1. CASE a >= 0
  <2>1. a \in Nat /\ a \div b \in Nat
    BY <1>1, Division
  <2>2. a = 0 => a \div b = 0
    OBVIOUS
  <2>3. \A u \in Nat \ {0} : a * u >= 0 /\ (a * u) \div (b * u) = a \div b
    BY <1>1, <2>1, DivisionCancels
  <2> QED
    BY <1>1, <2>1, <2>2, <2>3 DEF Motors!Trunc
<1>2. CASE a < 0
  <2>1. -a \in Nat /\ (-a) \div b \in Nat
    BY <1>2, Division
  <2>2. ASSUME NEW u \in Nat \ {0}
        PROVE  ~(a * u >= 0) /\ (-(a * u)) \div (b * u) = (-a) \div b
    <3>1. -(a * u) = (-a) * u /\ (-a) * u \in Nat \ {0}
      BY <1>2
    <3>2. ((-a) * u) \div (b * u) = (-a) \div b
      BY <2>1, DivisionCancels
    <3> QED
      BY <3>1, <3>2
  <2> QED
    BY <1>2, <2>1, <2>2 DEF Motors!Trunc
<1> QED
  BY <1>1, <1>2

-----------------------------------------------------------------------------
(* The ramps *)

\* A ramp lies between nothing and its margin; it is nothing at and beyond the
\* limit the quantity leads to, and the full margin a margin away from it.
LEMMA Ramp ==
  ASSUME NEW v \in Int, NEW lo \in Int, NEW hi \in Int, NEW g \in Nat, NEW q \in Int
  PROVE  /\ Motors!limit_scale(v, lo, hi, g, q) \in Nat
         /\ q > 0 /\ v >= hi => Motors!limit_scale(v, lo, hi, g, q) = 0
         /\ q < 0 /\ v <= lo => Motors!limit_scale(v, lo, hi, g, q) = 0
         /\ q > 0 /\ v <= hi - g => Motors!limit_scale(v, lo, hi, g, q) = g
         /\ q < 0 /\ v >= lo + g => Motors!limit_scale(v, lo, hi, g, q) = g
  BY DEF Motors!limit_scale, Motors!Clamp

\* The feedback a gate reads, as integers.
Readings ==
  /\ g_motors \in [Motors!Motor -> [valid : BOOLEAN, pos : Int, vel : Int]]
  /\ rep \in [Motors!Motor -> [seen : BOOLEAN, ang : Int, vel : Int]]

\* The two ramps of a motor for a quantity q.
LEMMA Scales ==
  ASSUME Readings, NEW m \in Motors!Motor, NEW q \in Int
  PROVE  /\ Motors!AngleScale(m, q) \in Nat
         /\ Motors!VelScale(m, q) \in Nat
         /\ q > 0 /\ g_motors[m].pos >= ANGLE_MAX => Motors!AngleScale(m, q) = 0
         /\ q < 0 /\ g_motors[m].pos <= ANGLE_MIN => Motors!AngleScale(m, q) = 0
         /\ q > 0 /\ g_motors[m].vel >= VEL_LIMIT[m] => Motors!VelScale(m, q) = 0
         /\ q < 0 /\ g_motors[m].vel <= -VEL_LIMIT[m] => Motors!VelScale(m, q) = 0
         /\ q > 0 /\ g_motors[m].pos <= ANGLE_MAX - ANGLE_MARGIN => Motors!AngleScale(m, q) = ANGLE_MARGIN
         /\ q < 0 /\ g_motors[m].pos >= ANGLE_MIN + ANGLE_MARGIN => Motors!AngleScale(m, q) = ANGLE_MARGIN
         /\ q > 0 /\ g_motors[m].vel <= VEL_LIMIT[m] - VEL_MARGIN[m] => Motors!VelScale(m, q) = VEL_MARGIN[m]
         /\ q < 0 /\ g_motors[m].vel >= -VEL_LIMIT[m] + VEL_MARGIN[m] => Motors!VelScale(m, q) = VEL_MARGIN[m]
<1>1. /\ ANGLE_MIN \in Int /\ ANGLE_MAX \in Int /\ ANGLE_MARGIN \in Nat
      /\ VEL_LIMIT[m] \in Int /\ -VEL_LIMIT[m] \in Int /\ VEL_MARGIN[m] \in Nat
  BY MotorsAssumption DEF Motors!AngleAssumption, Motors!VelAssumption
<1>2. g_motors[m].pos \in Int /\ g_motors[m].vel \in Int
  BY DEF Readings
<1> DEFINE p == g_motors[m].pos
           v == g_motors[m].vel
           A == Motors!limit_scale(p, ANGLE_MIN, ANGLE_MAX, ANGLE_MARGIN, q)
           V == Motors!limit_scale(v, -VEL_LIMIT[m], VEL_LIMIT[m], VEL_MARGIN[m], q)
<1>3. /\ A \in Nat
      /\ q > 0 /\ p >= ANGLE_MAX => A = 0
      /\ q < 0 /\ p <= ANGLE_MIN => A = 0
      /\ q > 0 /\ p <= ANGLE_MAX - ANGLE_MARGIN => A = ANGLE_MARGIN
      /\ q < 0 /\ p >= ANGLE_MIN + ANGLE_MARGIN => A = ANGLE_MARGIN
  BY <1>1, <1>2, Ramp
<1>4. /\ V \in Nat
      /\ q > 0 /\ v >= VEL_LIMIT[m] => V = 0
      /\ q < 0 /\ v <= -VEL_LIMIT[m] => V = 0
      /\ q > 0 /\ v <= VEL_LIMIT[m] - VEL_MARGIN[m] => V = VEL_MARGIN[m]
      /\ q < 0 /\ v >= -VEL_LIMIT[m] + VEL_MARGIN[m] => V = VEL_MARGIN[m]
  BY <1>1, <1>2, Ramp
<1> HIDE DEF A, V
<1> QED
  BY <1>3, <1>4 DEF A, V, Motors!AngleScale, Motors!VelScale

-----------------------------------------------------------------------------
(* What the gates let through, in the robot's frame *)

\* x does not lead beyond a stop the motor is at.
WithinStops(m, x) ==
  /\ g_motors[m].pos >= ANGLE_MAX => x <= 0
  /\ g_motors[m].pos <= ANGLE_MIN => x >= 0

\* x does not accelerate a motor that turns at its rated speed.
WithinSpeed(m, x) ==
  /\ g_motors[m].vel >= VEL_LIMIT[m]  => x <= 0
  /\ g_motors[m].vel <= -VEL_LIMIT[m] => x >= 0

\* The constants of a motor.
LEMMA MotorConstants ==
  ASSUME NEW m \in Motors!Motor
  PROVE  /\ SIGN[m] \in {-1, 1}
         /\ VEL_LIMIT[m] \in Nat /\ VEL_MARGIN[m] \in Nat \ {0} /\ TORQUE_LIMIT[m] \in Nat
         /\ ANGLE_MIN \in Int /\ ANGLE_MAX \in Int /\ ANGLE_MIN < ANGLE_MAX /\ ANGLE_MARGIN \in Nat \ {0}
         /\ Motors!Unit(m) \in Nat \ {0}
         /\ SCALE_NUM \in Nat /\ SCALE_DEN \in Nat \ {0} /\ RATIO_MAX \in Nat
  BY MotorsAssumption
  DEF Motors!SignAssumption, Motors!AngleAssumption, Motors!VelAssumption,
      Motors!TorqueAssumption, Motors!Unit

\* A quantity times both ramps.
LEMMA SoftScaled ==
  ASSUME Readings, NEW m \in Motors!Motor, NEW q \in Int
  PROVE  /\ q * Motors!hip_soft_scale(m, q) \in Int
         /\ WithinStops(m, q * Motors!hip_soft_scale(m, q))
         /\ WithinSpeed(m, q * Motors!hip_soft_scale(m, q))
<1> DEFINE a == Motors!AngleScale(m, q)
           v == Motors!VelScale(m, q)
<1>1. a \in Nat /\ v \in Nat
  BY Scales
<1>2. /\ q > 0 /\ g_motors[m].pos >= ANGLE_MAX => a = 0
      /\ q < 0 /\ g_motors[m].pos <= ANGLE_MIN => a = 0
  BY Scales
<1>3. /\ q > 0 /\ g_motors[m].vel >= VEL_LIMIT[m] => v = 0
      /\ q < 0 /\ g_motors[m].vel <= -VEL_LIMIT[m] => v = 0
  BY Scales
<1> HIDE DEF a, v
<1>4. a * v \in Nat /\ (a = 0 \/ v = 0 => a * v = 0)
  BY <1>1
<1>5. /\ q * (a * v) \in Int
      /\ q >= 0 => q * (a * v) >= 0
      /\ q <= 0 => q * (a * v) <= 0
      /\ a * v = 0 => q * (a * v) = 0
  BY <1>4, TimesSign
<1>6. WithinStops(m, q * (a * v)) /\ WithinSpeed(m, q * (a * v))
  BY <1>2, <1>3, <1>4, <1>5 DEF WithinStops, WithinSpeed
<1> QED
  BY <1>5, <1>6 DEF a, v, Motors!hip_soft_scale

\* y leads where x leads, or nowhere.
SameSide(x, y) == (x >= 0 => y >= 0) /\ (x <= 0 => y <= 0)

\* What x is within, y is within, in the robot's frame and in the drive's.
LEMMA SameSideWithin ==
  ASSUME NEW m \in Motors!Motor, NEW x \in Int, NEW y \in Int, SameSide(x, y)
  PROVE  /\ WithinStops(m, x) => WithinStops(m, y)
         /\ WithinSpeed(m, x) => WithinSpeed(m, y)
         /\ SameSide(SIGN[m] * x, SIGN[m] * y)
         /\ SIGN[m] * (SIGN[m] * x) = x
<1> SIGN[m] \in {-1, 1}
  BY MotorConstants
<1> QED
  BY DEF SameSide, WithinStops, WithinSpeed

\* Bounding, converting and scaling keep the side.
LEMMA Sides ==
  ASSUME NEW x \in Int, NEW hi \in Nat, NEW b \in Nat \ {0}
  PROVE  /\ Motors!Clamp(x, -hi, hi) \in Int /\ SameSide(x, Motors!Clamp(x, -hi, hi))
         /\ Motors!Trunc(x, b) \in Int /\ SameSide(x, Motors!Trunc(x, b))
         /\ x * hi \in Int /\ SameSide(x, x * hi)
<1>1. Motors!Clamp(x, -hi, hi) \in Int /\ SameSide(x, Motors!Clamp(x, -hi, hi))
  BY ClampSign DEF SameSide
<1>2. Motors!Trunc(x, b) \in Int /\ SameSide(x, Motors!Trunc(x, b))
  BY TruncFacts DEF SameSide
<1>3. x * hi \in Int /\ SameSide(x, x * hi)
  BY TimesSign DEF SameSide
<1> QED
  BY <1>1, <1>2, <1>3

\* The hip torque that can_motor_set_torque and the broadcast encode.
LEMMA HipTorqueWithin ==
  ASSUME Readings, NEW m \in Motors!Motor, NEW t \in Int
  PROVE  /\ Motors!HipTorque(m, t) \in Int
         /\ WithinStops(m, Motors!HipTorque(m, t))
         /\ WithinSpeed(m, Motors!HipTorque(m, t))
<1> DEFINE hi == TORQUE_LIMIT[m] * Motors!Unit(m)
<1>1. hi \in Nat
  BY MotorConstants
<1> HIDE DEF hi
<1>2. CASE ~g_motors[m].valid
  BY <1>2 DEF Motors!HipTorque, WithinStops, WithinSpeed
<1>3. CASE g_motors[m].valid
  <2> DEFINE x == t * Motors!hip_soft_scale(m, t)
  <2>1. x \in Int /\ WithinStops(m, x) /\ WithinSpeed(m, x)
    BY SoftScaled
  <2>2. Motors!HipTorque(m, t) = Motors!Clamp(x, -hi, hi)
    BY <1>3 DEF Motors!HipTorque, hi
  <2> HIDE DEF x
  <2>3. Motors!Clamp(x, -hi, hi) \in Int /\ SameSide(x, Motors!Clamp(x, -hi, hi))
    BY <1>1, <2>1, Sides
  <2> QED
    BY <1>1, <2>1, <2>2, <2>3, SameSideWithin
<1> QED
  BY <1>2, <1>3

-----------------------------------------------------------------------------
(* What goes on the wire, in the drive's frame *)

\* The torque ratio of a hip (ControlThread's broadcast, can_motor_set_torque).
LEMMA RatioWithin ==
  ASSUME Readings, NEW m \in Motors!Motor, NEW t \in Int
  PROVE  /\ Motors!Ratio(m, t) \in Int
         /\ WithinStops(m, SIGN[m] * Motors!Ratio(m, t))
         /\ WithinSpeed(m, SIGN[m] * Motors!Ratio(m, t))
<1> DEFINE x  == Motors!HipTorque(m, t)
           hi == RATIO_MAX * SCALE_DEN * Motors!Unit(m)
           b  == SCALE_DEN * Motors!Unit(m)
           s  == SIGN[m] * x
           y  == s * SCALE_NUM
           z  == Motors!Clamp(y, -hi, hi)
           w  == Motors!Trunc(z, b)
<1>1. SIGN[m] \in {-1, 1} /\ SCALE_NUM \in Nat /\ hi \in Nat /\ b \in Nat \ {0}
  BY MotorConstants
<1>2. x \in Int /\ WithinStops(m, x) /\ WithinSpeed(m, x)
  BY HipTorqueWithin
<1>3. w = Motors!Ratio(m, t)
  BY DEF Motors!Ratio
<1> HIDE DEF x, hi, b
<1>4. s \in Int /\ s = SIGN[m] * x
  BY <1>1, <1>2
<1> HIDE DEF s
<1>5. y \in Int /\ SameSide(s, y)
  BY <1>1, <1>4, Sides
<1> HIDE DEF y
<1>6. z \in Int /\ SameSide(y, z)
  BY <1>1, <1>5, Sides
<1> HIDE DEF z
<1>7. w \in Int /\ SameSide(z, w)
  BY <1>1, <1>6, Sides
<1> HIDE DEF w
<1>8. SameSide(s, w)
  BY <1>4, <1>5, <1>6, <1>7 DEF SameSide
<1>9. SameSide(x, SIGN[m] * w) /\ SIGN[m] * w \in Int
  BY <1>1, <1>2, <1>4, <1>7, <1>8 DEF SameSide
<1> QED
  BY <1>2, <1>3, <1>7, <1>9, SameSideWithin

\* The raw ratio of can_motor_set_torque_raw.
LEMMA RawRatioWithin ==
  ASSUME Readings, NEW m \in Motors!Motor, NEW r \in Int
  PROVE  /\ Motors!RawRatio(m, r) \in Int
         /\ WithinStops(m, SIGN[m] * Motors!RawRatio(m, r))
         /\ WithinSpeed(m, SIGN[m] * Motors!RawRatio(m, r))
<1> DEFINE hi == RATIO_MAX * Motors!Unit(m)
           x  == r * Motors!hip_soft_scale(m, r)
           z  == Motors!Clamp(x, -hi, hi)
           w  == Motors!Trunc(z, Motors!Unit(m))
<1>1. SIGN[m] \in {-1, 1} /\ hi \in Nat /\ Motors!Unit(m) \in Nat \ {0}
  BY MotorConstants
<1>2. CASE ~g_motors[m].valid
  BY <1>1, <1>2 DEF Motors!RawRatio, WithinStops, WithinSpeed
<1>3. CASE g_motors[m].valid
  <2>1. x \in Int /\ WithinStops(m, x) /\ WithinSpeed(m, x)
    BY SoftScaled
  <2>2. Motors!RawRatio(m, r) = SIGN[m] * w
    BY <1>3 DEF Motors!RawRatio
  <2> HIDE DEF x, hi
  <2>3. z \in Int /\ SameSide(x, z)
    BY <1>1, <2>1, Sides
  <2> HIDE DEF z
  <2>4. w \in Int /\ SameSide(z, w)
    BY <1>1, <2>3, Sides
  <2> HIDE DEF w
  <2>5. SameSide(x, w)
    BY <2>1, <2>3, <2>4 DEF SameSide
  <2>6. SIGN[m] * (SIGN[m] * w) = w /\ SIGN[m] * w \in Int
    BY <1>1, <2>4
  <2> QED
    BY <2>1, <2>2, <2>4, <2>5, <2>6, SameSideWithin
<1> QED
  BY <1>2, <1>3

\* The speed of can_motor_set_velocity: only the stops bound it.
LEMMA HipVelocityWithin ==
  ASSUME Readings, NEW m \in Motors!Motor, NEW v \in Int
  PROVE  /\ Motors!HipVelocity(m, v) \in Int
         /\ WithinStops(m, SIGN[m] * Motors!HipVelocity(m, v))
<1> DEFINE hi == VEL_LIMIT[m] * ANGLE_MARGIN
           a  == Motors!AngleScale(m, v)
           x  == v * a
           w  == Motors!Clamp(x, -hi, hi)
<1>1. SIGN[m] \in {-1, 1} /\ hi \in Nat
  BY MotorConstants
<1>2. CASE ~g_motors[m].valid
  BY <1>1, <1>2 DEF Motors!HipVelocity, WithinStops
<1>3. CASE g_motors[m].valid
  <2>1. /\ a \in Nat
        /\ v > 0 /\ g_motors[m].pos >= ANGLE_MAX => a = 0
        /\ v < 0 /\ g_motors[m].pos <= ANGLE_MIN => a = 0
    BY Scales
  <2>2. Motors!HipVelocity(m, v) = SIGN[m] * w
    BY <1>3 DEF Motors!HipVelocity
  <2> HIDE DEF a, hi
  <2>3. x \in Int /\ (v >= 0 => x >= 0) /\ (v <= 0 => x <= 0) /\ (a = 0 => x = 0)
    BY <2>1, TimesSign
  <2> HIDE DEF x
  <2>4. WithinStops(m, x)
    BY <2>1, <2>3 DEF WithinStops
  <2>5. w \in Int /\ SameSide(x, w)
    BY <1>1, <2>3, Sides
  <2> HIDE DEF w
  <2>6. SIGN[m] * (SIGN[m] * w) = w /\ SIGN[m] * w \in Int
    BY <1>1, <2>5
  <2> QED
    BY <2>2, <2>3, <2>4, <2>5, <2>6, SameSideWithin
<1> QED
  BY <1>2, <1>3

\* A wheel's torque after ActuatorSafety::apply: only its speed bounds it.
LEMMA WheelTorqueWithin ==
  ASSUME Readings, NEW m \in Motors!Motor, NEW t \in Int
  PROVE  /\ Motors!WheelTorque(m, t) \in Int
         /\ WithinSpeed(m, SIGN[m] * Motors!WheelTorque(m, t))
<1> DEFINE hi == TORQUE_LIMIT[m] * VEL_MARGIN[m]
           v  == Motors!VelScale(m, t)
           x  == t * v
           w  == Motors!Clamp(x, -hi, hi)
<1>1. SIGN[m] \in {-1, 1} /\ hi \in Nat
  BY MotorConstants
<1>2. CASE ~g_motors[m].valid
  BY <1>1, <1>2 DEF Motors!WheelTorque, WithinSpeed
<1>3. CASE g_motors[m].valid
  <2>1. /\ v \in Nat
        /\ t > 0 /\ g_motors[m].vel >= VEL_LIMIT[m] => v = 0
        /\ t < 0 /\ g_motors[m].vel <= -VEL_LIMIT[m] => v = 0
    BY Scales
  <2>2. Motors!WheelTorque(m, t) = SIGN[m] * w
    BY <1>3 DEF Motors!WheelTorque
  <2> HIDE DEF v, hi
  <2>3. x \in Int /\ (t >= 0 => x >= 0) /\ (t <= 0 => x <= 0) /\ (v = 0 => x = 0)
    BY <2>1, TimesSign
  <2> HIDE DEF x
  <2>4. WithinSpeed(m, x)
    BY <2>1, <2>3 DEF WithinSpeed
  <2>5. w \in Int /\ SameSide(x, w)
    BY <1>1, <2>3, Sides
  <2> HIDE DEF w
  <2>6. SIGN[m] * (SIGN[m] * w) = w /\ SIGN[m] * w \in Int
    BY <1>1, <2>5
  <2> QED
    BY <2>2, <2>3, <2>4, <2>5, <2>6, SameSideWithin
<1> QED
  BY <1>2, <1>3

-----------------------------------------------------------------------------
(* The invariant of the gates *)

\* g_motors holds what each drive last reported, in the robot's frame.
Tied ==
  /\ \A m \in Hip : rep[m].seen =>
       /\ g_motors[m].valid
       /\ g_motors[m].pos = Motors!hip_to_robot_frame(m, rep[m].ang)
       /\ g_motors[m].vel = SIGN[m] * rep[m].vel
  /\ \A m \in Wheel : rep[m].seen => g_motors[m].vel = SIGN[m] * rep[m].vel

\* The three properties of one command c to a motor m.
PushesIn(m, c) ==
  /\ c.kind \in Motors!Pushes /\ c.seen =>
       /\ c.ang >= Motors!RawHigh(m) => c.wire <= 0
       /\ c.ang <= Motors!RawLow(m)  => c.wire >= 0
  /\ c.kind = "position" => c.wire \in Motors!RawLow(m) .. Motors!RawHigh(m)

Slows(m, c) ==
  c.kind \in {"torque", "raw", "wheel"} /\ c.seen =>
    /\ c.vel >= VEL_LIMIT[m]  => c.wire <= 0
    /\ c.vel <= -VEL_LIMIT[m] => c.wire >= 0

LeadsBack(m, c) ==
  /\ \/ c.ang >= Motors!RawHigh(m) /\ SIGN[m] * c.want < 0 /\ c.vel >= 0
     \/ c.ang <= Motors!RawLow(m)  /\ SIGN[m] * c.want > 0 /\ c.vel <= 0
  /\ VEL_MARGIN[m] <= VEL_LIMIT[m] /\ ANGLE_MARGIN <= ANGLE_MAX - ANGLE_MIN

Unrestricted(m, c) ==
  /\ c.kind = "torque" /\ c.seen /\ c.want \in -TORQUE_LIMIT[m] .. TORQUE_LIMIT[m]
  /\ TORQUE_LIMIT[m] * SCALE_NUM <= RATIO_MAX * SCALE_DEN
  /\ LeadsBack(m, c)
  => c.wire = Motors!Trunc(SIGN[m] * c.want * SCALE_NUM, SCALE_DEN)

Sound(m, c) == (m \in Hip => PushesIn(m, c) /\ Unrestricted(m, c)) /\ Slows(m, c)

MotorsInv ==
  /\ Readings /\ Tied
  /\ torques \in [Motors!Motor -> Int]
  /\ DOMAIN out = Motors!Motor
  /\ \A m \in Motors!Motor : \A c \in out[m] : Sound(m, c)

\* A hip reported at or beyond a stop of its drive is there in the robot's
\* frame, at the other end if it is mirrored.
LEMMA RawStops ==
  ASSUME Readings, Tied, NEW m \in Hip, rep[m].seen
  PROVE  /\ SIGN[m] = 1 =>
              /\ rep[m].ang >= Motors!RawHigh(m) => g_motors[m].pos >= ANGLE_MAX
              /\ rep[m].ang <= Motors!RawLow(m)  => g_motors[m].pos <= ANGLE_MIN
              /\ g_motors[m].vel = rep[m].vel
         /\ SIGN[m] = -1 =>
              /\ rep[m].ang >= Motors!RawHigh(m) => g_motors[m].pos <= ANGLE_MIN
              /\ rep[m].ang <= Motors!RawLow(m)  => g_motors[m].pos >= ANGLE_MAX
              /\ g_motors[m].vel = -rep[m].vel
<1>1. m \in Motors!Motor
  BY DEF Motors!Motor
<1>2. OFFSET[m] \in Int /\ ANGLE_MIN \in Int /\ ANGLE_MAX \in Int /\ SIGN[m] \in {-1, 1}
  BY <1>1, MotorsAssumption DEF Motors!SignAssumption, Motors!AngleAssumption
<1>3. rep[m].ang \in Int /\ rep[m].vel \in Int
  BY <1>1 DEF Readings
<1>4. g_motors[m].pos = SIGN[m] * (rep[m].ang - OFFSET[m]) /\ g_motors[m].vel = SIGN[m] * rep[m].vel
  BY DEF Tied, Motors!hip_to_robot_frame
<1>5. CASE SIGN[m] = 1
  BY <1>2, <1>3, <1>4, <1>5 DEF Motors!RawHigh, Motors!RawLow, Motors!hip_to_raw
<1>6. CASE SIGN[m] = -1
  BY <1>2, <1>3, <1>4, <1>6 DEF Motors!RawHigh, Motors!RawLow, Motors!hip_to_raw
<1> QED
  BY <1>2, <1>5, <1>6

\* What is within the stops in the robot's frame does not push out in the drive's.
LEMMA WireIn ==
  ASSUME Readings, Tied, NEW m \in Hip, rep[m].seen, NEW w \in Int,
         WithinStops(m, SIGN[m] * w)
  PROVE  /\ rep[m].ang >= Motors!RawHigh(m) => w <= 0
         /\ rep[m].ang <= Motors!RawLow(m)  => w >= 0
<1>1. SIGN[m] \in {-1, 1}
  BY MotorConstants DEF Motors!Motor
<1>2. CASE SIGN[m] = 1
  BY <1>2, RawStops DEF WithinStops
<1>3. CASE SIGN[m] = -1
  BY <1>3, RawStops DEF WithinStops
<1> QED
  BY <1>1, <1>2, <1>3

\* A motor at its speed limit is driven back or not at all, in the sense of the wire.
LEMMA WireSlow ==
  ASSUME Readings, Tied, NEW m \in Motors!Motor, rep[m].seen, NEW w \in Int,
         WithinSpeed(m, SIGN[m] * w)
  PROVE  /\ rep[m].vel >= VEL_LIMIT[m]  => w <= 0
         /\ rep[m].vel <= -VEL_LIMIT[m] => w >= 0
<1>1. SIGN[m] \in {-1, 1} /\ VEL_LIMIT[m] \in Nat
  BY MotorConstants
<1>2. rep[m].vel \in Int
  BY DEF Readings
<1>3. g_motors[m].vel = SIGN[m] * rep[m].vel
  BY DEF Tied, Motors!Motor
<1>4. CASE SIGN[m] = 1
  BY <1>1, <1>2, <1>3, <1>4 DEF WithinSpeed
<1>5. CASE SIGN[m] = -1
  BY <1>1, <1>2, <1>3, <1>5 DEF WithinSpeed
<1> QED
  BY <1>1, <1>4, <1>5

\* With both ramps open a torque within the limits goes out in full.
LEMMA FullTorque ==
  ASSUME Readings, NEW m \in Hip, g_motors[m].valid,
         NEW t \in -TORQUE_LIMIT[m] .. TORQUE_LIMIT[m],
         TORQUE_LIMIT[m] * SCALE_NUM <= RATIO_MAX * SCALE_DEN,
         Motors!AngleScale(m, t) = ANGLE_MARGIN, Motors!VelScale(m, t) = VEL_MARGIN[m]
  PROVE  Motors!Ratio(m, t) = Motors!Trunc(SIGN[m] * t * SCALE_NUM, SCALE_DEN)
<1> DEFINE U == Motors!Unit(m)
           L == TORQUE_LIMIT[m]
           R == RATIO_MAX * SCALE_DEN
           s == SIGN[m] * t
           p == s * SCALE_NUM
<1>1. /\ L \in Nat /\ U \in Nat \ {0} /\ R \in Nat /\ SCALE_NUM \in Nat
      /\ SCALE_DEN \in Nat \ {0} /\ SIGN[m] \in {-1, 1}
  BY MotorConstants DEF Motors!Motor
<1>2. Motors!hip_soft_scale(m, t) = U
  BY DEF Motors!hip_soft_scale, Motors!Unit
<1>3. /\ Motors!HipTorque(m, t) = Motors!Clamp(t * U, -(L * U), L * U)
      /\ Motors!Ratio(m, t) =
           Motors!Trunc(Motors!Clamp(SIGN[m] * Motors!HipTorque(m, t) * SCALE_NUM, -(R * U), R * U),
                        SCALE_DEN * U)
  BY <1>2 DEF Motors!HipTorque, Motors!Ratio
<1>4. L * SCALE_NUM <= R /\ t \in Int /\ t <= L /\ -L <= t
  BY <1>1
<1> HIDE DEF U, L, R
<1>5. t * U \in -(L * U) .. L * U /\ L * U \in Nat
  <2>1. U * t <= U * L /\ U * (-L) <= U * t /\ U * t \in Int
    BY <1>1, <1>4, TimesMonotone
  <2>2. U * t = t * U /\ U * L = L * U /\ U * (-L) = -(L * U) /\ L * U \in Nat
    BY <1>1, <1>4
  <2> QED
    BY <2>1, <2>2
<1>6. Motors!HipTorque(m, t) = t * U
  BY <1>3, <1>5, ClampSign
<1>7. s \in -L .. L
  BY <1>1, <1>4
<1>8. SIGN[m] * (t * U) = s * U
  BY <1>1, <1>4
<1> HIDE DEF s
<1>9. p \in Int /\ -R <= p /\ p <= R
  <2>1. SCALE_NUM * s <= SCALE_NUM * L /\ SCALE_NUM * (-L) <= SCALE_NUM * s
    BY <1>1, <1>7, TimesMonotone
  <2>2. /\ SCALE_NUM * s = p /\ SCALE_NUM * L = L * SCALE_NUM /\ SCALE_NUM * (-L) = -(L * SCALE_NUM)
        /\ p \in Int /\ L * SCALE_NUM \in Nat
    BY <1>1, <1>7
  <2> QED
    BY <1>1, <1>4, <2>1, <2>2
<1>10. SIGN[m] * Motors!HipTorque(m, t) * SCALE_NUM = p * U
  <2>1. (s * U) * SCALE_NUM = p * U
    BY <1>1, <1>7
  <2> QED
    BY <1>6, <1>8, <2>1
<1> HIDE DEF p
<1>11. p * U \in -(R * U) .. R * U /\ R * U \in Nat
  <2>1. U * p <= U * R /\ U * (-R) <= U * p /\ U * p \in Int
    BY <1>1, <1>9, TimesMonotone
  <2>2. U * p = p * U /\ U * R = R * U /\ U * (-R) = -(R * U) /\ R * U \in Nat
    BY <1>1, <1>9
  <2> QED
    BY <2>1, <2>2
<1>12. Motors!Clamp(p * U, -(R * U), R * U) = p * U
  BY <1>11, ClampSign
<1>13. Motors!Trunc(p * U, SCALE_DEN * U) = Motors!Trunc(p, SCALE_DEN)
  BY <1>1, <1>9, TruncFacts
<1> QED
  BY <1>3, <1>10, <1>12, <1>13 DEF p, s

\* A torque that leads back finds both ramps open.
LEMMA WayBackOpen ==
  ASSUME Readings, Tied, NEW m \in Hip, rep[m].seen, NEW t \in Int,
         VEL_MARGIN[m] <= VEL_LIMIT[m], ANGLE_MARGIN <= ANGLE_MAX - ANGLE_MIN,
         \/ rep[m].ang >= Motors!RawHigh(m) /\ SIGN[m] * t < 0 /\ rep[m].vel >= 0
         \/ rep[m].ang <= Motors!RawLow(m)  /\ SIGN[m] * t > 0 /\ rep[m].vel <= 0
  PROVE  Motors!AngleScale(m, t) = ANGLE_MARGIN /\ Motors!VelScale(m, t) = VEL_MARGIN[m]
<1>1. m \in Motors!Motor
  BY DEF Motors!Motor
<1>2. /\ SIGN[m] \in {-1, 1} /\ ANGLE_MIN \in Int /\ ANGLE_MAX \in Int /\ ANGLE_MARGIN \in Nat
      /\ VEL_LIMIT[m] \in Nat /\ VEL_MARGIN[m] \in Nat
  BY <1>1, MotorConstants
<1>3. /\ g_motors[m].pos \in Int /\ g_motors[m].vel \in Int
      /\ rep[m].vel \in Int /\ rep[m].ang \in Int
  BY <1>1 DEF Readings
<1>4. \/ t < 0 /\ g_motors[m].pos >= ANGLE_MAX /\ g_motors[m].vel >= 0
      \/ t > 0 /\ g_motors[m].pos <= ANGLE_MIN /\ g_motors[m].vel <= 0
  <2>1. CASE SIGN[m] = 1
    BY <1>2, <1>3, <2>1, RawStops
  <2>2. CASE SIGN[m] = -1
    BY <1>2, <1>3, <2>2, RawStops
  <2> QED
    BY <1>2, <2>1, <2>2
<1>5. CASE t < 0 /\ g_motors[m].pos >= ANGLE_MAX /\ g_motors[m].vel >= 0
  <2>1. g_motors[m].pos >= ANGLE_MIN + ANGLE_MARGIN /\ g_motors[m].vel >= -VEL_LIMIT[m] + VEL_MARGIN[m]
    BY <1>2, <1>3, <1>5
  <2> QED
    BY <1>1, <1>5, <2>1, Scales
<1>6. CASE t > 0 /\ g_motors[m].pos <= ANGLE_MIN /\ g_motors[m].vel <= 0
  <2>1. g_motors[m].pos <= ANGLE_MAX - ANGLE_MARGIN /\ g_motors[m].vel <= VEL_LIMIT[m] - VEL_MARGIN[m]
    BY <1>2, <1>3, <1>6
  <2> QED
    BY <1>1, <1>6, <2>1, Scales
<1> QED
  BY <1>4, <1>5, <1>6

\* Every command is sound when its gate makes it.
LEMMA TorqueSound ==
  ASSUME Readings, Tied, NEW m \in Hip, NEW t \in Int
  PROVE  Sound(m, Motors!Cmd(m, "torque", t, Motors!Ratio(m, t)))
<1> DEFINE w == Motors!Ratio(m, t)
           c == Motors!Cmd(m, "torque", t, w)
<1>1. m \in Motors!Motor
  BY DEF Motors!Motor
<1>2. w \in Int /\ WithinStops(m, SIGN[m] * w) /\ WithinSpeed(m, SIGN[m] * w)
  BY <1>1, RatioWithin
<1>3. ASSUME rep[m].seen, t \in -TORQUE_LIMIT[m] .. TORQUE_LIMIT[m],
             TORQUE_LIMIT[m] * SCALE_NUM <= RATIO_MAX * SCALE_DEN, LeadsBack(m, c)
      PROVE  w = Motors!Trunc(SIGN[m] * t * SCALE_NUM, SCALE_DEN)
  <2>1. Motors!AngleScale(m, t) = ANGLE_MARGIN /\ Motors!VelScale(m, t) = VEL_MARGIN[m]
    BY <1>3, WayBackOpen DEF LeadsBack, Motors!Cmd
  <2>2. g_motors[m].valid
    BY <1>3 DEF Tied
  <2> QED
    BY <1>3, <2>1, <2>2, FullTorque
<1> HIDE DEF w
<1>4. /\ c.kind = "torque" /\ c.want = t /\ c.wire = w
      /\ c.seen = rep[m].seen /\ c.ang = rep[m].ang /\ c.vel = rep[m].vel
  BY DEF Motors!Cmd
<1> HIDE DEF c
<1>5. PushesIn(m, c)
  BY <1>2, <1>4, WireIn DEF PushesIn
<1>6. Slows(m, c)
  BY <1>1, <1>2, <1>4, WireSlow DEF Slows
<1>7. Unrestricted(m, c)
  BY <1>3, <1>4 DEF Unrestricted
<1>8. Sound(m, c)
  BY <1>5, <1>6, <1>7 DEF Sound
<1> QED
  BY <1>8 DEF c, w

\* The raw torque that rmd_send_torque lets through.
LEMMA RawSound ==
  ASSUME Readings, Tied, NEW m \in Hip, NEW r \in Int
  PROVE  Sound(m, Motors!Cmd(m, "raw", r, Motors!RawRatio(m, r)))
<1> DEFINE w == Motors!RawRatio(m, r)
           c == Motors!Cmd(m, "raw", r, w)
<1>1. m \in Motors!Motor
  BY DEF Motors!Motor
<1>2. w \in Int /\ WithinStops(m, SIGN[m] * w) /\ WithinSpeed(m, SIGN[m] * w)
  BY <1>1, RawRatioWithin
<1> HIDE DEF w
<1>3. /\ c.kind = "raw" /\ c.want = r /\ c.wire = w
      /\ c.seen = rep[m].seen /\ c.ang = rep[m].ang /\ c.vel = rep[m].vel
  BY DEF Motors!Cmd
<1> HIDE DEF c
<1>4. PushesIn(m, c)
  BY <1>2, <1>3, WireIn DEF PushesIn
<1>5. Slows(m, c)
  BY <1>1, <1>2, <1>3, WireSlow DEF Slows
<1>6. Sound(m, c)
  BY <1>3, <1>4, <1>5 DEF Sound, Unrestricted
<1> QED
  BY <1>6 DEF c, w

\* The velocity that rmd_send_velocity lets through.
LEMMA VelocitySound ==
  ASSUME Readings, Tied, NEW m \in Hip, NEW v \in Int
  PROVE  Sound(m, Motors!Cmd(m, "velocity", v, Motors!HipVelocity(m, v)))
<1> DEFINE w == Motors!HipVelocity(m, v)
           c == Motors!Cmd(m, "velocity", v, w)
<1>1. w \in Int /\ WithinStops(m, SIGN[m] * w)
  BY HipVelocityWithin DEF Motors!Motor
<1> HIDE DEF w
<1>2. /\ c.kind = "velocity" /\ c.wire = w
      /\ c.seen = rep[m].seen /\ c.ang = rep[m].ang
  BY DEF Motors!Cmd
<1> HIDE DEF c
<1>3. PushesIn(m, c)
  BY <1>1, <1>2, WireIn DEF PushesIn
<1>4. Sound(m, c)
  BY <1>2, <1>3 DEF Sound, Unrestricted, Slows
<1> QED
  BY <1>4 DEF c, w

\* The target that rmd_send_position lets through, wherever the hip stands.
LEMMA PositionSound ==
  ASSUME NEW m \in Hip, NEW a \in Int
  PROVE  Sound(m, Motors!Cmd(m, "position", a, Motors!HipTarget(m, a)))
<1> DEFINE w == Motors!HipTarget(m, a)
           c == Motors!Cmd(m, "position", a, w)
           x == Motors!Clamp(a, ANGLE_MIN, ANGLE_MAX)
<1>1. OFFSET[m] \in Int /\ ANGLE_MIN \in Int /\ ANGLE_MAX \in Int /\ ANGLE_MIN < ANGLE_MAX
  BY MotorsAssumption DEF Motors!SignAssumption, Motors!AngleAssumption
<1>2. SIGN[m] \in {-1, 1}
  BY MotorConstants DEF Motors!Motor
<1>3. x \in ANGLE_MIN .. ANGLE_MAX
  BY <1>1 DEF Motors!Clamp
<1>4. w = OFFSET[m] + SIGN[m] * x
  BY DEF Motors!HipTarget, Motors!hip_to_raw
<1> HIDE DEF x, w
<1>5. w \in Motors!RawLow(m) .. Motors!RawHigh(m)
  <2>1. CASE SIGN[m] = 1
    BY <1>1, <1>3, <1>4, <2>1 DEF Motors!RawLow, Motors!RawHigh, Motors!hip_to_raw
  <2>2. CASE SIGN[m] = -1
    BY <1>1, <1>3, <1>4, <2>2 DEF Motors!RawLow, Motors!RawHigh, Motors!hip_to_raw
  <2> QED
    BY <1>2, <2>1, <2>2
<1>6. c.kind = "position" /\ c.wire = w
  BY DEF Motors!Cmd
<1> HIDE DEF c
<1>7. Sound(m, c)
  BY <1>5, <1>6 DEF Sound, PushesIn, Unrestricted, Slows, Motors!Pushes
<1> QED
  BY <1>7 DEF c, w

\* The wheel torque that the speed limit lets through.
LEMMA WheelSound ==
  ASSUME Readings, Tied, NEW m \in Wheel, NEW t \in Int
  PROVE  Sound(m, Motors!Cmd(m, "wheel", t, Motors!WheelTorque(m, t)))
<1> DEFINE w == Motors!WheelTorque(m, t)
           c == Motors!Cmd(m, "wheel", t, w)
<1>1. m \in Motors!Motor
  BY DEF Motors!Motor
<1>2. w \in Int /\ WithinSpeed(m, SIGN[m] * w)
  BY <1>1, WheelTorqueWithin
<1> HIDE DEF w
<1>3. c.kind = "wheel" /\ c.wire = w /\ c.seen = rep[m].seen /\ c.vel = rep[m].vel
  BY DEF Motors!Cmd
<1> HIDE DEF c
<1>4. Slows(m, c)
  BY <1>1, <1>2, <1>3, WireSlow DEF Slows
<1>5. m \notin Hip
  BY MotorsAssumption DEF Motors!MotorAssumption
<1>6. Sound(m, c)
  BY <1>4, <1>5 DEF Sound
<1> QED
  BY <1>6 DEF c, w

-----------------------------------------------------------------------------
(* Invariance *)

\* At start nothing is reported and nothing is sent.
LEMMA MotorsInit == Motors!Init => MotorsInv
  BY DEF Motors!Init, MotorsInv, Readings, Tied, Motors!Motor

\* A step that leaves the feedback alone and only adds sound commands.
LEMMA CommandStep ==
  ASSUME MotorsInv, UNCHANGED <<g_motors, rep>>,
         torques' \in [Motors!Motor -> Int], DOMAIN out' = Motors!Motor,
         \A m \in Motors!Motor : \A c \in out'[m] : c \in out[m] \/ Sound(m, c)
  PROVE  MotorsInv'
<1>1. Readings' /\ Tied'
  BY DEF MotorsInv, Readings, Tied
<1>2. \A m \in Motors!Motor : \A c \in out'[m] : Sound(m, c)
  BY DEF MotorsInv
<1> QED
  BY <1>1, <1>2 DEF MotorsInv, Sound, PushesIn, Unrestricted, Slows, LeadsBack

\* A tick of ControlThread: each motor is gated by what is known of it.
LEMMA ControlStep ==
  ASSUME MotorsInv, Motors!Control
  PROVE  MotorsInv'
<1> USE DEF Motors!Motor
<1>1. ASSUME NEW t \in Torques, Motors!Compute(t)
      PROVE  MotorsInv'
  <2>1. t \in Int
    BY MotorsAssumption DEF Motors!InputAssumption
  <2> QED
    BY <1>1, <2>1, CommandStep DEF Motors!Compute, MotorsInv
<1>2. ASSUME NEW m \in Motors!Motor, Motors!Apply(m)
      PROVE  MotorsInv'
  <2> DEFINE c == Motors!Cmd(m, "wheel", torques[m], Motors!WheelTorque(m, torques[m]))
  <2>1. torques[m] \in Int
    BY DEF MotorsInv
  <2>2. UNCHANGED <<g_motors, rep>> /\ torques' \in [Motors!Motor -> Int]
    BY <1>2, <2>1 DEF Motors!Apply, MotorsInv
  <2>3. CASE m \in Wheel
    <3>1. Sound(m, c)
      BY <2>1, <2>3, WheelSound DEF MotorsInv
    <3>2. out' = [out EXCEPT ![m] = {c}]
      BY <1>2, <2>3 DEF Motors!Apply
    <3> HIDE DEF c
    <3> QED
      BY <2>2, <3>1, <3>2, CommandStep DEF MotorsInv
  <2>4. CASE m \notin Wheel
    <3>1. out' = out
      BY <1>2, <2>4 DEF Motors!Apply
    <3> QED
      BY <2>2, <3>1, CommandStep DEF MotorsInv
  <2> QED
    BY <2>3, <2>4
<1>3. ASSUME NEW m \in Hip, Motors!Gate(m)
      PROVE  MotorsInv'
  <2> DEFINE c == Motors!Cmd(m, "torque", torques[m], Motors!Ratio(m, torques[m]))
  <2>1. Sound(m, c)
    BY TorqueSound DEF MotorsInv
  <2>2. out' = [out EXCEPT ![m] = {c}] /\ UNCHANGED <<g_motors, torques, rep>>
    BY <1>3 DEF Motors!Gate
  <2> HIDE DEF c
  <2> QED
    BY <2>1, <2>2, CommandStep DEF MotorsInv
<1> QED
  BY <1>1, <1>2, <1>3 DEF Motors!Control

\* The direct commands, each through its own gate.
LEMMA ApiStep ==
  ASSUME MotorsInv, Motors!Api
  PROVE  MotorsInv'
<1> USE DEF Motors!Motor
<1>1. ASSUME NEW m \in Hip, NEW c, Sound(m, c), Motors!Command(m, c)
      PROVE  MotorsInv'
  BY <1>1, CommandStep DEF Motors!Command, MotorsInv
<1>2. PICK m \in Hip, q \in Torques :
        \/ Motors!can_motor_set_torque(m, q) \/ Motors!can_motor_set_torque_raw(m, q)
        \/ Motors!can_motor_set_velocity(m, q) \/ Motors!can_motor_set_position(m, q)
  BY DEF Motors!Api
<1>3. q \in Int /\ Readings /\ Tied
  BY MotorsAssumption DEF Motors!InputAssumption, MotorsInv
<1>4. CASE Motors!can_motor_set_torque(m, q)
  BY <1>1, <1>3, <1>4, TorqueSound DEF Motors!can_motor_set_torque
<1>5. CASE Motors!can_motor_set_torque_raw(m, q)
  BY <1>1, <1>3, <1>5, RawSound DEF Motors!can_motor_set_torque_raw
<1>6. CASE Motors!can_motor_set_velocity(m, q)
  BY <1>1, <1>3, <1>6, VelocitySound DEF Motors!can_motor_set_velocity
<1>7. CASE Motors!can_motor_set_position(m, q)
  BY <1>1, <1>3, <1>7, PositionSound DEF Motors!can_motor_set_position
<1> QED
  BY <1>2, <1>4, <1>5, <1>6, <1>7

\* A step of CANThread leaves the commands alone.
LEMMA ReplyStep ==
  ASSUME MotorsInv, Motors!Reply
  PROVE  MotorsInv'
<1>1. Readings' /\ Tied' => MotorsInv'
  BY DEF Motors!Reply, Motors!rmd_reply, Motors!odrive_estimate, Motors!status_reply,
         MotorsInv, Sound, PushesIn, Unrestricted, Slows, LeadsBack
<1>2. Hip \cap Wheel = {} /\ SIGN \in [Motors!Motor -> {-1, 1}] /\ OFFSET \in [Hip -> Int]
  BY MotorsAssumption DEF Motors!MotorAssumption, Motors!SignAssumption
<1>3. ASSUME NEW m \in Hip, NEW a \in Angles[m], NEW v \in Speeds[m], Motors!rmd_reply(m, a, v)
      PROVE  Readings' /\ Tied'
  <2>1. a \in Int /\ v \in Int /\ m \in Motors!Motor
    BY MotorsAssumption DEF Motors!InputAssumption, Motors!Motor
  <2>2. SIGN[m] * v \in Int /\ Motors!hip_to_robot_frame(m, a) \in Int
    BY <1>2, <2>1 DEF Motors!hip_to_robot_frame
  <2>3. Readings'
    BY <1>3, <2>1, <2>2 DEF Motors!rmd_reply, MotorsInv, Readings
  <2>4. Tied'
    BY <1>2, <1>3, <2>1, <2>2 DEF Motors!rmd_reply, MotorsInv, Readings, Tied, Motors!Motor, Motors!hip_to_robot_frame
  <2> QED
    BY <2>3, <2>4
<1>4. ASSUME NEW m \in Wheel, NEW v \in Speeds[m], Motors!odrive_estimate(m, v)
      PROVE  Readings' /\ Tied'
  <2>1. v \in Int /\ m \in Motors!Motor
    BY MotorsAssumption DEF Motors!InputAssumption, Motors!Motor
  <2>2. SIGN[m] * v \in Int
    BY <1>2, <2>1
  <2>3. Readings'
    <3> DEFINE r == [g_motors[m] EXCEPT !.valid = TRUE, !.vel = SIGN[m] * v]
    <3>1. r \in [valid : BOOLEAN, pos : Int, vel : Int]
      BY <2>1, <2>2 DEF MotorsInv, Readings
    <3>2. g_motors' = [g_motors EXCEPT ![m] = r]
      BY <1>4 DEF Motors!odrive_estimate
    <3> HIDE DEF r
    <3>3. g_motors' \in [Motors!Motor -> [valid : BOOLEAN, pos : Int, vel : Int]]
      BY <2>1, <3>1, <3>2 DEF MotorsInv, Readings
    <3> QED
      BY <1>4, <2>1, <3>3 DEF Motors!odrive_estimate, MotorsInv, Readings
  <2>4. Tied'
    BY <1>2, <1>4, <2>1, <2>2 DEF Motors!odrive_estimate, MotorsInv, Readings, Tied, Motors!Motor, Motors!hip_to_robot_frame
  <2> QED
    BY <2>3, <2>4
<1>5. ASSUME NEW m \in Motors!Motor, Motors!status_reply(m)
      PROVE  Readings' /\ Tied'
  BY <1>5 DEF Motors!status_reply, MotorsInv, Readings, Tied, Motors!Motor, Motors!hip_to_robot_frame
<1> QED
  BY <1>1, <1>3, <1>4, <1>5 DEF Motors!Reply

\* Every step keeps the readings tied to the reports and the commands sound.
LEMMA MotorsNext == MotorsInv /\ [Motors!Next]_gvars => MotorsInv'
<1> SUFFICES ASSUME MotorsInv, [Motors!Next]_gvars PROVE MotorsInv'
  OBVIOUS
<1>1. CASE UNCHANGED gvars
  BY <1>1 DEF gvars, MotorsInv, Readings, Tied, Sound, PushesIn, Unrestricted, Slows, LeadsBack
<1> QED
  BY <1>1, ControlStep, ApiStep, ReplyStep DEF Motors!Next

\* The composition moves the motors only as ActuatorGate does.
LEMMA MotorsPart == [Next]_<<part, gvars, lvars, pvars>> => [Motors!Next]_gvars
  BY DEF Next, MotorStep, LaneStep, PidStep

\* The gates hold in every reachable state of the composition.
LEMMA MotorsInvariant == Spec => []MotorsInv
<1>1. Init => MotorsInv
  BY MotorsInit DEF Init
<1>2. MotorsInv /\ [Next]_<<part, gvars, lvars, pvars>> => MotorsInv'
  BY MotorsNext, MotorsPart
<1> QED
  BY <1>1, <1>2, PTL DEF Spec

(***************************************************************************)
(* The gates of hip commands, for any hips, stops, margins and feedback: a *)
(* hip whose drive reported an angle at or beyond a stop is never driven   *)
(* further out, and a position target lies between the stops.              *)
(***************************************************************************)
THEOREM HipsNeverPushOut == Spec => []NeverPushesOut
<1>1. MotorsInv => NeverPushesOut
  BY DEF MotorsInv, Sound, PushesIn, NeverPushesOut, Motors!NeverPushesOut, Motors!Motor
<1> QED
  BY <1>1, MotorsInvariant, PTL

(***************************************************************************)
(* The speed ramps of hips and wheels, for any motors, limits and          *)
(* feedback: no motor that turns at its rated speed is accelerated.        *)
(***************************************************************************)
THEOREM MotorsNeverOverspeed == Spec => []NeverOverspeeds
<1>1. MotorsInv => NeverOverspeeds
  BY DEF MotorsInv, Sound, Slows, NeverOverspeeds, Motors!NeverOverspeeds
<1> QED
  BY <1>1, MotorsInvariant, PTL

(***************************************************************************)
(* The ramps, for any hips, margins, torque scales and feedback: a torque  *)
(* away from the stop a hip is at, and against its motion, goes out in     *)
(* full, in the drive's own units.                                         *)
(***************************************************************************)
THEOREM HipsComeBack == Spec => []WayBackIsFree
<1>1. MotorsInv => WayBackIsFree
  BY DEF MotorsInv, Sound, Unrestricted, LeadsBack, WayBackIsFree, Motors!WayBackIsFree, Motors!Motor
<1> QED
  BY <1>1, MotorsInvariant, PTL

-----------------------------------------------------------------------------
(* The estimator's lanes *)

LanesInv == l_pc = "publish" => (fused = "none" <=> wheel_ok = {})

\* Until it is published, a fused velocity is there whenever a wheel reported.
LEMMA LanesNext == LanesInv /\ [Est!Next]_lvars => LanesInv'
<1> SUFFICES ASSUME LanesInv, [Est!Next]_lvars PROVE LanesInv'
  OBVIOUS
<1>1. ASSUME NEW hips, NEW reachable, NEW wheels, Est!UpdateLegs(hips, reachable, wheels)
      PROVE  LanesInv'
  <2>1. fused' = "none" <=> wheels = {}
    BY <1>1 DEF Est!UpdateLegs, Est!Fusion
  <2> QED
    BY <1>1, <2>1 DEF Est!UpdateLegs, LanesInv
<1>2. CASE UNCHANGED lvars
  BY <1>2 DEF lvars, LanesInv
<1>3. CASE \/ \E i \in Est!Lane : Est!SpiRead(i)
           \/ Est!Snapshot
           \/ \E new_quat \in BOOLEAN : Est!Update(new_quat)
           \/ Est!Publish
  BY <1>3 DEF Est!SpiRead, Est!Snapshot, Est!Update, Est!Publish, LanesInv
<1> QED
  BY <1>1, <1>2, <1>3 DEF Est!Next

(***************************************************************************)
(* StateManager::update_legs_and_wheels, for any number of norms and with  *)
(* or without the IMX5: velocity fusion is never lost while a wheel        *)
(* reports.                                                                *)
(***************************************************************************)
THEOREM VelocityKept == Spec => []VelocityNotLost
<1>1. Init => LanesInv
  BY DEF Init, Est!Init, LanesInv
<1>2. [Next]_<<part, gvars, lvars, pvars>> => [Est!Next]_lvars
  BY DEF Next, MotorStep, LaneStep, PidStep
<1>3. LanesInv /\ [Next]_<<part, gvars, lvars, pvars>> => LanesInv'
  BY <1>2, LanesNext
<1>4. LanesInv => VelocityNotLost
  BY DEF LanesInv, VelocityNotLost, Est!VelocityNotLost
<1> QED
  BY <1>1, <1>3, <1>4, PTL DEF Spec

-----------------------------------------------------------------------------
(* The PIDs' memory *)

\* A controller that runs updates its PID on every tick, and one that starts
\* to run resets it: a PID that is in use was updated on the last tick, but for
\* the bench test's before start() has reset it.
PidsInv ==
  /\ active => mode = "IDLE"
  /\ pid \in [Pids!Pid -> [deriv_valid : BOOLEAN, last_t : Int]]
  /\ clock \in Int
  /\ DOMAIN age = Pids!Pid
  /\ NoStaleGap
  /\ mode = "STANDING_UP" /\ pid["standup"].deriv_valid => age["standup"] = 1
  /\ mode = "BALANCING" /\ pid["balance"].deriv_valid => age["balance"] = 1
  /\ active /\ ~starting /\ pid["test"].deriv_valid => age["test"] = 1

\* A tick that uses only PIDs that are reset, not yet valid, or one tick old,
\* but for the test's inside start().
LEMMA TickBridges ==
  ASSUME PidsInv, NEW cleared, NEW used \in SUBSET Pids!Pid, Pids!Tick(cleared, used),
         \A p \in used : p \notin cleared /\ pid[p].deriv_valid =>
                          age[p] = 1 \/ (p = "test" /\ starting)
  PROVE  /\ \A p \in bridged' : p = "test" /\ starting
         /\ pid' \in [Pids!Pid -> [deriv_valid : BOOLEAN, last_t : Int]]
         /\ clock' \in Int /\ DOMAIN age' = Pids!Pid
<1>1. STALE_TIMEOUT \in Nat /\ 0 < STALE_TIMEOUT /\ Wrap \in Nat \ {0}
  BY PidsAssumption DEF Pids!ClockAssumption
<1>2. ASSUME NEW p \in bridged' PROVE p = "test" /\ starting
  <2>1. p \in used /\ Pids!Gap(p, cleared) # 0 /\ age[p] > STALE_TIMEOUT
    BY <1>2 DEF Pids!Tick
  <2>2. age[p] = 1 \/ (p = "test" /\ starting)
    BY <2>1 DEF Pids!Gap
  <2> QED
    BY <1>1, <2>1, <2>2
<1>3. pid' \in [Pids!Pid -> [deriv_valid : BOOLEAN, last_t : Int]]
  BY DEF Pids!Tick, PidsInv, Pids!reset
<1>4. clock' \in Int /\ DOMAIN age' = Pids!Pid
  BY <1>1 DEF Pids!Tick, PidsInv
<1> QED
  BY <1>2, <1>3, <1>4

\* A tick of the state machine: what it clears, what it runs and what it leaves.
LEMMA SmTickStep ==
  ASSUME PidsInv, NEW armed, NEW sw, NEW standing, NEW reach \in BOOLEAN,
         Pids!SmTick(armed, sw, standing, reach)
  PROVE  PidsInv'
<1> DEFINE cleared == Pids!Resets(mode, mode')
           used    == Pids!Used(mode, mode', reach)
<1>1. Pids!Tick(cleared, used) /\ active' = FALSE /\ starting' = starting
  BY DEF Pids!SmTick
<1> DEFINE Runs(p) == (p = "standup" /\ mode' = "STANDING_UP") \/ (p = "balance" /\ mode' = "BALANCING")
<1>2. /\ \A p \in used : Runs(p)
      /\ \A p : Runs(p) /\ mode = mode' /\ pid[p].deriv_valid => p \in used
      /\ \A p : Runs(p) /\ mode # mode' => p \in cleared
  <2>1. \A p : p \in Pids!Owner(mode') <=> Runs(p)
    BY DEF Pids!Owner
  <2>2. \A p \in used : Runs(p)
    BY <2>1 DEF Pids!Used
  <2>3. \A p : Runs(p) /\ mode = mode' /\ pid[p].deriv_valid => p \in used
    BY <2>1 DEF Pids!Used
  <2>4. \A p : Runs(p) /\ mode # mode' => p \in cleared
    BY DEF Pids!Resets
  <2> QED
    BY <2>2, <2>3, <2>4
<1> HIDE DEF cleared, used
<1>3. ASSUME NEW p \in Pids!Pid, p \in used, p \notin cleared, pid[p].deriv_valid
      PROVE  age[p] = 1
  <2>1. Runs(p) /\ mode = mode'
    BY <1>2, <1>3
  <2> QED
    BY <1>3, <2>1 DEF PidsInv
<1>a. "standup" \in Pids!Pid /\ "balance" \in Pids!Pid
  BY DEF Pids!Pid
<1>b. used \in SUBSET Pids!Pid
  BY <1>2, <1>a
<1>4. /\ \A p \in bridged' : p = "test" /\ starting
      /\ pid' \in [Pids!Pid -> [deriv_valid : BOOLEAN, last_t : Int]]
      /\ clock' \in Int /\ DOMAIN age' = Pids!Pid
  BY <1>1, <1>3, <1>b, TickBridges
<1>5. ASSUME NEW p \in Pids!Pid, p \notin used, p \in cleared \/ ~pid[p].deriv_valid
      PROVE  ~pid'[p].deriv_valid
  BY <1>1, <1>5 DEF Pids!Tick, Pids!reset, PidsInv
<1>6. \A p \in Pids!Pid : p \in used => age'[p] = 1
  BY <1>1 DEF Pids!Tick
<1>7. ASSUME NEW p \in Pids!Pid, Runs(p), pid'[p].deriv_valid
      PROVE  age'[p] = 1
  <2>1. CASE p \in used
    BY <1>6, <2>1
  <2>2. CASE p \notin used
    <3>1. p \in cleared \/ ~pid[p].deriv_valid
      BY <1>2, <1>7, <2>2
    <3> QED
      BY <1>5, <1>7, <2>2, <3>1
  <2> QED
    BY <2>1, <2>2
<1> QED
  BY <1>1, <1>4, <1>7, <1>a DEF PidsInv, NoStaleGap, Pids!NoStaleGap

\* A tick of the bench sweep, which has a regulator of its own.
LEMMA TestTickStep ==
  ASSUME PidsInv, NEW arrives \in BOOLEAN, NEW reach \in BOOLEAN, Pids!TestTick(arrives, reach)
  PROVE  PidsInv'
<1> DEFINE used    == IF reach \/ pid["test"].deriv_valid THEN {"test"} ELSE {}
           cleared == IF arrives THEN used ELSE {}
<1>1. Pids!Tick(cleared, used) /\ active /\ mode = "IDLE" /\ UNCHANGED <<mode, active, starting>>
  BY DEF Pids!TestTick, PidsInv
<1>2. used \subseteq {"test"} /\ (pid["test"].deriv_valid => "test" \in used)
  OBVIOUS
<1> HIDE DEF used, cleared
<1>a. "test" \in Pids!Pid
  BY DEF Pids!Pid
<1>3. /\ \A p \in bridged' : p = "test" /\ starting
      /\ pid' \in [Pids!Pid -> [deriv_valid : BOOLEAN, last_t : Int]]
      /\ clock' \in Int /\ DOMAIN age' = Pids!Pid
  <2>1. \A p \in used : p \notin cleared /\ pid[p].deriv_valid =>
                         age[p] = 1 \/ (p = "test" /\ starting)
    BY <1>1, <1>2 DEF PidsInv
  <2>2. used \in SUBSET Pids!Pid
    BY <1>2, <1>a
  <2> QED
    BY <1>1, <2>1, <2>2, TickBridges
<1>5. "test" \in used => age'["test"] = 1
  BY <1>1, <1>a DEF Pids!Tick
<1>6. "test" \notin used => ~pid'["test"].deriv_valid
  BY <1>1, <1>2, <1>a DEF Pids!Tick, Pids!reset, PidsInv
<1> QED
  BY <1>1, <1>3, <1>5, <1>6 DEF PidsInv, NoStaleGap, Pids!NoStaleGap

\* Every step keeps the clocks of the regulators.
LEMMA PidsNext == ASSUME PidsInv, [Pids!Next]_pvars PROVE PidsInv'
<1> USE DEF NoStaleGap, Pids!NoStaleGap
<1>1. CASE Pids!UsbStart
  BY <1>1 DEF Pids!UsbStart, PidsInv
<1>2. CASE Pids!UsbStartReset
  BY <1>2 DEF Pids!UsbStartReset, Pids!reset, PidsInv, Pids!Pid
<1>3. CASE Pids!UsbStop
  BY <1>3 DEF Pids!UsbStop, PidsInv
<1>4. CASE UNCHANGED pvars
  BY <1>4 DEF pvars, PidsInv
<1> QED
  BY <1>1, <1>2, <1>3, <1>4, SmTickStep, TestTickStep DEF Pids!Next

(***************************************************************************)
(* PID.hpp's stale-input detection in the default build, for any clock     *)
(* width and timeout: no PID update integrates or differentiates over more *)
(* than the timeout, although the clock wraps, except a bench sweep's tick *)
(* that preempts MotorTest::start() before the PID's reset.                *)
(***************************************************************************)
THEOREM NoGapBridged == Spec => []NoStaleGap
<1>1. Init => PidsInv
  BY DEF Init, Pids!Init, PidsInv, Pids!Pid, NoStaleGap, Pids!NoStaleGap
<1>2. [Next]_<<part, gvars, lvars, pvars>> => [Pids!Next]_pvars
  BY DEF Next, MotorStep, LaneStep, PidStep
<1>3. PidsInv /\ [Next]_<<part, gvars, lvars, pvars>> => PidsInv'
  BY <1>2, PidsNext
<1>4. PidsInv => NoStaleGap
  BY DEF PidsInv
<1> QED
  BY <1>1, <1>3, <1>4, PTL DEF Spec
=============================================================================
