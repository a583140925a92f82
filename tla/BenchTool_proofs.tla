-------------------------- MODULE BenchTool_proofs --------------------------
(***************************************************************************)
(* The CAN monitor of Motor_tool, for any size of its ring and any width   *)
(* of its counters: CanMonitor's promise as a theorem.                     *)
(***************************************************************************)
EXTENDS BenchTool, Integers, TLAPS

R == MON_RING_SIZE
bvars == <<part, tvars, mvars>>

-----------------------------------------------------------------------------
(* Arithmetic of wrapping counters *)

\* Quotient and remainder are unique.
LEMMA ModIs ==
  ASSUME NEW a \in Nat, NEW m \in Nat \ {0}, NEW q \in Nat, NEW r \in 0 .. m - 1,
         a = q * m + r
  PROVE  a % m = r
<1> DEFINE p == a \div m
           s == a % m
<1>1. p \in Nat /\ s \in 0 .. m - 1 /\ a = p * m + s
  OBVIOUS
<1> HIDE DEF p, s
<1>2. ASSUME NEW x \in Nat, NEW y \in Nat, x < y PROVE y * m >= x * m + m
  <2> DEFINE d == y - x - 1
  <2>1. d \in Nat /\ y = x + 1 + d
    BY <1>2
  <2> HIDE DEF d
  <2>2. y * m = x * m + m + d * m
    BY <2>1
  <2>3. d * m \in Nat /\ x * m \in Nat
    BY <2>1
  <2> QED
    BY <2>2, <2>3
<1>3. p * m \in Nat /\ q * m \in Nat
  BY <1>1
<1>4. ~(p < q)
  BY <1>1, <1>2, <1>3
<1>5. ~(q < p)
  BY <1>1, <1>2, <1>3
<1>6. p = q
  BY <1>1, <1>4, <1>5
<1> QED
  BY <1>1, <1>3, <1>6 DEF s

\* A number is its quotient and its remainder.
LEMMA ModOf ==
  ASSUME NEW a \in Nat, NEW m \in Nat \ {0}
  PROVE  a % m \in 0 .. m - 1 /\ \E q \in Nat : a = q * m + (a % m)
<1> DEFINE p == a \div m
           r == a % m
<1>1. p \in Nat /\ r \in 0 .. m - 1 /\ a = p * m + r
  OBVIOUS
<1> HIDE DEF p, r
<1>2. \E q \in Nat : a = q * m + r
  BY <1>1
<1> QED
  BY <1>1, <1>2 DEF r

\* One step further, counted with a counter that wraps.
LEMMA ModStep ==
  ASSUME NEW a \in Nat, NEW m \in Nat \ {0}
  PROVE  ((a % m) + m + 1) % m = (a + 1) % m
<1> DEFINE r == a % m
<1>1. PICK q \in Nat : a = q * m + r
  BY ModOf
<1>2. r \in 0 .. m - 1
  BY ModOf
<1> HIDE DEF r
<1> DEFINE b == a + 1
           c == r + m + 1
<1>3. b \in Nat /\ c \in Nat /\ b = q * m + (r + 1) /\ c = 1 * m + (r + 1)
  BY <1>1, <1>2
<1>4. CASE r + 1 < m
  <2> DEFINE s == r + 1
  <2>1. s \in 0 .. m - 1 /\ b = q * m + s /\ c = 1 * m + s
    BY <1>2, <1>3, <1>4
  <2> HIDE DEF s, b, c
  <2>2. b % m = s
    BY <1>3, <2>1, ModIs
  <2>3. c % m = s
    BY <1>3, <2>1, ModIs
  <2> QED
    BY <2>2, <2>3 DEF b, c, r
<1>5. CASE r + 1 = m
  <2> DEFINE k == q + 1
             s == 0
  <2>1. k \in Nat /\ b = k * m + s /\ c = 2 * m + s /\ s \in 0 .. m - 1
        /\ b \in Nat /\ c \in Nat
    BY <1>2, <1>3, <1>5
  <2> HIDE DEF k, b, c, s
  <2>2. b % m = s
    BY <2>1, ModIs
  <2>3. c % m = s
    BY <2>1, ModIs
  <2> QED
    BY <2>2, <2>3 DEF b, c, r
<1> QED
  BY <1>2, <1>4, <1>5

\* Counters less than a lap apart have different slots.
LEMMA ModDiffers ==
  ASSUME NEW a \in Nat, NEW b \in Nat, NEW m \in Nat \ {0}, a < b, b - a < m
  PROVE  a % m # b % m
<1> SUFFICES ASSUME a % m = b % m PROVE FALSE
  OBVIOUS
<1> DEFINE r == a % m
<1>1. PICK p \in Nat : a = p * m + r
  BY ModOf
<1>2. PICK q \in Nat : b = q * m + r
  BY ModOf
<1>3. r \in 0 .. m - 1
  BY ModOf
<1> HIDE DEF r
<1> DEFINE d == q - p
<1>4. q = p + d /\ d \in Int
  OBVIOUS
<1> HIDE DEF d
<1>5. q * m = p * m + d * m
  BY <1>4
<1>6. p * m \in Nat /\ q * m \in Nat /\ d * m \in Int
  BY <1>4
<1>7. d * m > 0 /\ d * m < m
  BY <1>1, <1>2, <1>3, <1>5, <1>6
<1>8. CASE d <= 0
  <2>1. d * m <= 0
    BY <1>4, <1>8
  <2> QED
    BY <1>6, <1>7, <2>1
<1>9. CASE d >= 1
  <2> DEFINE e == d - 1
  <2>1. e \in Nat /\ d = e + 1
    BY <1>4, <1>9
  <2> HIDE DEF e
  <2>2. d * m = e * m + m /\ e * m \in Nat
    BY <2>1
  <2> QED
    BY <1>6, <1>7, <2>2
<1> QED
  BY <1>4, <1>8, <1>9

\* The difference of two wrapping counters.
LEMMA ModMinus ==
  ASSUME NEW a \in Nat, NEW b \in Nat, NEW m \in Nat \ {0}, b <= a, a - b < m
  PROVE  ((a % m) + m - (b % m)) % m = a - b
<1> DEFINE r == b % m
           s == a % m
           d == a - b
<1>1. PICK q \in Nat : b = q * m + r
  BY ModOf
<1>2. r \in 0 .. m - 1 /\ d \in 0 .. m - 1 /\ a = b + d
  BY ModOf
<1>3. (s = r + d /\ r + d < m) \/ (s = r + d - m /\ r + d >= m)
  <2> HIDE DEF r, s, d
  <2>1. CASE r + d < m
    <3> DEFINE t == r + d
    <3>1. t \in 0 .. m - 1 /\ a = q * m + t
      BY <1>1, <1>2, <2>1
    <3> HIDE DEF t
    <3>2. s = t
      BY <3>1, ModIs DEF s
    <3> QED
      BY <2>1, <3>2 DEF t
  <2>2. CASE r + d >= m
    <3> DEFINE t == r + d - m
               k == q + 1
    <3>1. t \in 0 .. m - 1 /\ a = k * m + t /\ k \in Nat
      BY <1>1, <1>2, <2>2
    <3> HIDE DEF t, k
    <3>2. s = t
      BY <3>1, ModIs DEF s
    <3> QED
      BY <2>2, <3>2 DEF t
  <2> QED
    BY <1>2, <2>1, <2>2
<1> HIDE DEF r, s, d
<1> DEFINE x == s + m - r
<1>4. x = d + m \/ x = d
  BY <1>2, <1>3
<1>5. x \in Nat /\ (x = 1 * m + d \/ x = 0 * m + d)
  BY <1>2, <1>4
<1> HIDE DEF x
<1>6. x % m = d
  BY <1>2, <1>5, ModIs
<1> QED
  BY <1>6 DEF x, s, r, d

\* Where the ring's size divides the counters' range, wrapping does not move a slot.
LEMMA ModMod ==
  ASSUME NEW a \in Nat, NEW m \in Nat \ {0}, NEW w \in Nat \ {0}, w % m = 0
  PROVE  (a % w) % m = a % m
<1> DEFINE r == a % w
           s == r % m
<1>1. PICK q \in Nat : a = q * w + r
  BY ModOf
<1>2. PICK k \in Nat : w = k * m + (w % m)
  BY ModOf
<1>3. r \in Nat
  BY ModOf
<1>4. s \in 0 .. m - 1 /\ \E p \in Nat : r = p * m + s
  <2> HIDE DEF r
  <2> QED
    BY <1>3, ModOf
<1> HIDE DEF r, s
<1>5. PICK p \in Nat : r = p * m + s
  BY <1>4
<1> DEFINE j == q * k + p
<1>6. j \in Nat
  OBVIOUS
<1>7. w = k * m
  BY <1>2
<1>8. a = j * m + s
  <2>1. q * (k * m) = (q * k) * m
    OBVIOUS
  <2>2. j * m = (q * k) * m + p * m
    OBVIOUS
  <2> HIDE DEF j
  <2> QED
    BY <1>1, <1>4, <1>5, <1>7, <2>1, <2>2
<1> HIDE DEF j
<1>9. a % m = s
  BY <1>4, <1>6, <1>8, ModIs
<1> QED
  BY <1>9 DEF s, r

-----------------------------------------------------------------------------
(* The monitor *)

FrameSet == [session : Nat, n : Nat]
Frame(s, k) == [session |-> s, n |-> k]

\* Frames taken out of the ring in this session.
Taken == seen + IF m_pc = "print" THEN 1 ELSE 0

\* Frames t + 1 to c are each in the slot their counter says.
InOrder(r, c, t, s) ==
  \A k \in t .. c - 1 : r[k % R] = <<Frame(s, k + 1), Frame(s, k + 1)>>

\* Every slot written in this session holds frames of this session.
OfSession(r, c, s) ==
  \A j \in 0 .. R - 1 : j < c => r[j][1].session = s /\ r[j][2].session = s

\* As long as the ring has not overflowed the tail counts what was taken, and
\* CmdThread's copy is of the oldest frame in the ring.
KeepsUp ==
  /\ Taken <= count /\ count <= Taken + R
  /\ s_mon_tail = Taken % W
  /\ InOrder(ring, count, Taken, session)
  /\ m_pc \in {"copy", "store"} => Taken < count /\ reg = s_mon_tail
  /\ m_pc = "copy" => out[1] = Frame(session, Taken + 1)
  /\ m_pc = "store" => out[1] = Frame(session, Taken + 1) /\ out[2] = Frame(session, Taken + 1)
  /\ m_pc = "print" => out[1] = Frame(session, Taken) /\ out[2] = Frame(session, Taken)

MonTypes ==
  /\ ring \in [0 .. R - 1 -> FrameSet \X FrameSet] /\ out \in FrameSet \X FrameSet
  /\ s_mon_head \in 0 .. W - 1 /\ s_mon_tail \in 0 .. W - 1 /\ reg \in 0 .. W - 1
  /\ m_pc \in {"idle", "head", "active", "copy", "store", "print"} /\ lapped \in BOOLEAN
  /\ session \in Nat /\ count \in Nat /\ seen \in Nat

\* A session that did not start under a tail that had moved.
Sound ==
  /\ lapped => R <= count
  /\ m_pc \in {"copy", "store", "print"} => out[1].session = session
  /\ m_pc \in {"store", "print"} => out[2].session = session
  /\ ~lapped => KeepsUp

\* Between the two stores of a start the old session is over; nothing moves the
\* tail there while the monitor is off.
MonInv ==
  /\ MonTypes
  /\ s_mon_head = count % W
  /\ OfSession(ring, count, session)
  /\ m_pc = "head" /\ ~s_mon_active => s_mon_tail = 0
  /\ ~raced /\ m_pc # "head" => Sound

\* The ring holds at least one entry, and the indices wrap at a multiple of its size.
LEMMA MonConstants ==
  R \in Nat \ {0} /\ W \in Nat \ {0} /\ W > R + 1 /\ W % R = 0
  BY MonitorSizes DEF Monitor!RingAssumption, R

\* mon_push.
LEMMA MonPush == ASSUME MonInv, Monitor!RxPush PROVE MonInv'
<1> DEFINE T == Taken
           c == count + 1
           f == Frame(session, c)
           k == count % R
           h == c % W
           B == Monitor!Backlog(h, s_mon_tail)
<1>1. /\ R \in Nat \ {0} /\ W \in Nat \ {0} /\ W > R + 1 /\ W % R = 0
      /\ count \in Nat /\ seen \in Nat /\ session \in Nat /\ c \in Nat /\ T \in Nat
      /\ s_mon_tail \in 0 .. W - 1
  BY MonConstants DEF MonInv, MonTypes, Taken
<1>2. k \in 0 .. R - 1 /\ h \in 0 .. W - 1
  BY <1>1, ModOf
<1>3. f \in FrameSet
  BY <1>1 DEF Frame, FrameSet
<1>4. s_mon_head' = h
  <2>1. s_mon_head' = (s_mon_head + W + 1) % W
    BY DEF Monitor!RxPush, Monitor!Plus
  <2>2. s_mon_head = count % W
    BY DEF MonInv
  <2> QED
    BY <1>1, <2>1, <2>2, ModStep
<1>5. ring' = [ring EXCEPT ![k] = <<f, f>>]
  <2>1. Monitor!Slot(s_mon_head) = k
    <3>1. Monitor!Slot(s_mon_head) = (count % W) % R
      BY DEF Monitor!Slot, MonInv, R
    <3> QED
      BY <1>1, <3>1, ModMod
  <2> QED
    BY <2>1 DEF Monitor!RxPush, Monitor!Received, Frame
<1>6. /\ s_mon_tail' = Monitor!TailAfter(h, s_mon_tail) /\ lapped' = (lapped \/ B > R) /\ count' = c
      /\ UNCHANGED <<s_mon_active, m_pc, reg, out, session, seen, raced>> /\ s_mon_active
  BY <1>4 DEF Monitor!RxPush, R
<1> HIDE DEF T, c, f, k, h, B
<1>7. Taken' = T
  BY <1>6 DEF T, Taken
<1>8. s_mon_tail' \in 0 .. W - 1
  <2> DEFINE x == h + W - R
  <2>1. x \in Nat
    BY <1>1, <1>2
  <2>2. x % W \in 0 .. W - 1
    <3> HIDE DEF x
    <3> QED
      BY <1>1, <2>1, ModOf
  <2> QED
    BY <1>1, <1>6, <2>2 DEF Monitor!TailAfter, R
<1>9. ring' \in [0 .. R - 1 -> FrameSet \X FrameSet]
  BY <1>2, <1>3, <1>5 DEF MonInv, MonTypes
<1>10. \A j \in 0 .. R - 1 : ring'[j] = IF j = k THEN <<f, f>> ELSE ring[j]
  BY <1>2, <1>5 DEF MonInv, MonTypes
<1>11. MonTypes'
  BY <1>1, <1>2, <1>4, <1>6, <1>8, <1>9 DEF MonInv, MonTypes
<1>12. OfSession(ring', c, session)
  <2> SUFFICES ASSUME NEW j \in 0 .. R - 1, j < c
               PROVE  ring'[j][1].session = session /\ ring'[j][2].session = session
    BY DEF OfSession
  <2>1. f.session = session
    BY DEF f, Frame
  <2>2. CASE j = k
    BY <1>10, <2>1, <2>2
  <2>3. CASE j # k
    <3>1. j < count
      <4>1. CASE count < R
        <5>1. count = 0 * R + count /\ count \in 0 .. R - 1
          BY <1>1, <4>1
        <5>2. k = count
          BY <1>1, <5>1, ModIs DEF k
        <5> QED
          BY <1>1, <2>3, <5>2 DEF c
      <4>2. CASE count >= R
        BY <1>1, <4>2
      <4> QED
        BY <1>1, <4>1, <4>2
    <3>2. ring[j][1].session = session /\ ring[j][2].session = session
      BY <3>1 DEF MonInv, OfSession
    <3> QED
      BY <1>10, <2>3, <3>2
  <2> QED
    BY <2>2, <2>3
<1>s. CASE raced \/ m_pc = "head"
  BY <1>4, <1>6, <1>11, <1>12, <1>s DEF MonInv, h
<1>13. CASE lapped /\ ~(raced \/ m_pc = "head")
  <2>1. lapped' /\ R <= c
    <3>1. R <= c
      BY <1>1, <1>13 DEF c, MonInv, Sound
    <3>2. lapped'
      BY <1>6, <1>13, Zenon
    <3> QED
      BY <3>1, <3>2
  <2> QED
    BY <1>4, <1>6, <1>11, <1>12, <1>13, <2>1 DEF MonInv, Sound, h
<1>14. CASE ~lapped /\ ~(raced \/ m_pc = "head")
  <2>1. /\ T <= count /\ count <= T + R /\ s_mon_tail = T % W
        /\ InOrder(ring, count, T, session)
    BY <1>14 DEF MonInv, Sound, KeepsUp, T
  <2>2. B = c - T
    <3>1. T <= c /\ c - T < W
      BY <1>1, <2>1 DEF c
    <3>2. B = ((c % W) + W - (T % W)) % W
      BY <2>1 DEF B, h, Monitor!Backlog
    <3> QED
      BY <1>1, <3>1, <3>2, ModMinus
  <2>3. CASE B > R
    <3>1. lapped' /\ R <= c
      <4>1. R <= c
        BY <1>1, <2>2, <2>3 DEF c
      <4>2. lapped'
        BY <1>6, <2>3, Zenon
      <4> QED
        BY <4>1, <4>2
    <3> QED
      BY <1>4, <1>6, <1>11, <1>12, <1>14, <3>1 DEF MonInv, Sound, h
  <2>4. CASE ~(B > R)
    <3>1. s_mon_tail' = s_mon_tail /\ lapped' = FALSE
      BY <1>6, <1>14, <2>4 DEF B, R, Monitor!TailAfter
    <3>2. T <= c /\ c <= T + R /\ (T < count => T < c)
      BY <1>1, <2>1, <2>2, <2>4 DEF c
    <3>3. InOrder(ring', c, T, session)
      <4> SUFFICES ASSUME NEW n \in T .. c - 1
                   PROVE  ring'[n % R] = <<Frame(session, n + 1), Frame(session, n + 1)>>
        BY DEF InOrder
      <4>0. n \in Nat /\ n % R \in 0 .. R - 1
        BY <1>1, ModOf
      <4>1. CASE n = count
        BY <1>10, <4>0, <4>1 DEF f, c, k
      <4>2. CASE n # count
        <5>1. n \in T .. count - 1 /\ n < count /\ count - n < R
          BY <1>1, <2>1, <2>2, <2>4, <4>2 DEF c
        <5>2. n % R # k
          BY <1>1, <4>0, <5>1, ModDiffers DEF k
        <5>3. ring[n % R] = <<Frame(session, n + 1), Frame(session, n + 1)>>
          BY <2>1, <5>1 DEF InOrder
        <5> QED
          BY <1>10, <4>0, <5>2, <5>3
      <4> QED
        BY <4>1, <4>2
    <3>4. KeepsUp'
      BY <1>6, <1>7, <1>14, <2>1, <3>1, <3>2, <3>3 DEF MonInv, Sound, KeepsUp, T
    <3> QED
      BY <1>4, <1>6, <1>11, <1>12, <1>14, <3>1, <3>4 DEF MonInv, Sound, h
  <2> QED
    BY <2>3, <2>4
<1> QED
  BY <1>s, <1>13, <1>14

\* can_monitor_pop, first half: the slot of the tail holds the oldest frame.
LEMMA MonPopBegin == ASSUME MonInv, Monitor!PopBegin PROVE MonInv'
<1> DEFINE T == Taken
           j == s_mon_tail % R
<1>1. /\ R \in Nat \ {0} /\ W \in Nat \ {0} /\ W % R = 0 /\ count \in Nat /\ T \in Nat
      /\ s_mon_tail \in Nat /\ seen \in Nat
  BY MonConstants DEF MonInv, MonTypes, Taken
<1>2. /\ m_pc = "idle" /\ s_mon_tail # s_mon_head /\ reg' = s_mon_tail /\ m_pc' = "copy"
      /\ out' = <<ring[j][1], Monitor!None>>
      /\ UNCHANGED <<ring, s_mon_head, s_mon_tail, s_mon_active, session, count, seen, lapped, raced>>
  BY DEF Monitor!PopBegin, Monitor!shared, Monitor!Slot, R
<1>3. j \in 0 .. R - 1
  BY <1>1, ModOf
<1> HIDE DEF j
<1>4. Taken' = T /\ T = seen
  BY <1>1, <1>2 DEF Taken
<1>5. ring[j] \in FrameSet \X FrameSet
  BY <1>3 DEF MonInv, MonTypes
<1>6. Monitor!None \in FrameSet
  BY DEF Monitor!None, FrameSet
<1>7. out' \in FrameSet \X FrameSet /\ out'[1] = ring[j][1]
  BY <1>2, <1>5, <1>6
<1>8. MonTypes'
  BY <1>2, <1>7 DEF MonInv, MonTypes
<1> HIDE DEF T
<1>s. CASE raced
  BY <1>2, <1>8, <1>s DEF MonInv
<1>9. CASE lapped /\ ~raced
  <2>1. j < count
    BY <1>1, <1>2, <1>3, <1>9 DEF MonInv, Sound
  <2>2. ring[j][1].session = session
    BY <1>3, <2>1 DEF MonInv, OfSession
  <2> QED
    BY <1>2, <1>7, <1>8, <1>9, <2>2 DEF MonInv, Sound
<1>10. CASE ~lapped /\ ~raced
  <2>1. /\ T <= count /\ count <= T + R /\ s_mon_tail = T % W /\ s_mon_head = count % W
        /\ InOrder(ring, count, T, session)
    BY <1>2, <1>10 DEF MonInv, Sound, KeepsUp, T
  <2>2. T < count
    BY <1>1, <1>2, <2>1
  <2>3. j = T % R
    BY <1>1, <2>1, ModMod DEF j
  <2>4. ring[j] = <<Frame(session, T + 1), Frame(session, T + 1)>>
    <3>1. T \in T .. count - 1
      BY <1>1, <2>2
    <3> QED
      BY <2>1, <2>3, <3>1 DEF InOrder
  <2>5. out'[1] = Frame(session, T + 1)
    BY <1>7, <2>4
  <2>6. out'[1].session = session
    BY <2>5 DEF Frame
  <2>7. KeepsUp'
    BY <1>2, <1>4, <2>1, <2>2, <2>5 DEF KeepsUp
  <2> QED
    BY <1>2, <1>8, <1>10, <2>6, <2>7 DEF MonInv, Sound
<1> QED
  BY <1>s, <1>9, <1>10

\* The second half of the copy, and the load of the tail.
LEMMA MonPopCopy == ASSUME MonInv, Monitor!PopCopy PROVE MonInv'
<1> DEFINE T == Taken
           j == reg % R
           o == ring[j][2]
<1>1. /\ R \in Nat \ {0} /\ W \in Nat \ {0} /\ W % R = 0 /\ count \in Nat /\ T \in Nat
      /\ reg \in Nat /\ seen \in Nat /\ out \in FrameSet \X FrameSet
  BY MonConstants DEF MonInv, MonTypes, Taken
<1>2. /\ m_pc = "copy" /\ m_pc' = "store" /\ reg' = s_mon_tail
      /\ out' = [out EXCEPT ![2] = o]
      /\ UNCHANGED <<ring, s_mon_head, s_mon_tail, s_mon_active, session, count, seen, lapped, raced>>
  BY DEF Monitor!PopCopy, Monitor!shared, Monitor!Slot, R
<1>3. j \in 0 .. R - 1
  BY <1>1, ModOf
<1> HIDE DEF j
<1>4. Taken' = T /\ T = seen
  BY <1>1, <1>2 DEF Taken
<1>5. ring[j] \in FrameSet \X FrameSet
  BY <1>3 DEF MonInv, MonTypes
<1>6. out' \in FrameSet \X FrameSet /\ out'[1] = out[1] /\ out'[2] = ring[j][2]
  BY <1>1, <1>2, <1>5
<1>7. MonTypes'
  BY <1>2, <1>6 DEF MonInv, MonTypes
<1>s. CASE raced
  BY <1>2, <1>7, <1>s DEF MonInv
<1>8. ~raced => out[1].session = session
  BY <1>2 DEF MonInv, Sound
<1> HIDE DEF T, o
<1>9. CASE lapped /\ ~raced
  <2>1. j < count
    BY <1>1, <1>2, <1>3, <1>9 DEF MonInv, Sound
  <2>2. ring[j][2].session = session
    BY <1>3, <2>1 DEF MonInv, OfSession
  <2> QED
    BY <1>2, <1>6, <1>7, <1>8, <1>9, <2>2 DEF MonInv, Sound
<1>10. CASE ~lapped /\ ~raced
  <2>1. /\ T <= count /\ count <= T + R /\ s_mon_tail = T % W /\ reg = s_mon_tail /\ T < count
        /\ InOrder(ring, count, T, session) /\ out[1] = Frame(session, T + 1)
    BY <1>2, <1>10 DEF MonInv, Sound, KeepsUp, T
  <2>2. j = T % R
    BY <1>1, <2>1, ModMod DEF j
  <2>3. ring[j] = <<Frame(session, T + 1), Frame(session, T + 1)>>
    <3>1. T \in T .. count - 1
      BY <1>1, <2>1
    <3> QED
      BY <2>1, <2>2, <3>1 DEF InOrder
  <2>4. out'[2] = Frame(session, T + 1)
    BY <1>6, <2>3
  <2>5. out'[2].session = session
    BY <2>4 DEF Frame
  <2>6. KeepsUp'
    BY <1>2, <1>4, <1>6, <2>1, <2>4 DEF KeepsUp
  <2> QED
    BY <1>2, <1>6, <1>7, <1>8, <1>10, <2>5, <2>6 DEF MonInv, Sound
<1> QED
  BY <1>s, <1>9, <1>10

\* The tail is stored; if CmdThread kept up this takes one frame out.
LEMMA MonPopStore == ASSUME MonInv, Monitor!PopStore PROVE MonInv'
<1> DEFINE T == Taken
<1>1. /\ R \in Nat \ {0} /\ W \in Nat \ {0} /\ count \in Nat /\ seen \in Nat /\ T \in Nat
      /\ reg \in 0 .. W - 1
  BY MonConstants DEF MonInv, MonTypes, Taken
<1>2. /\ m_pc = "store" /\ m_pc' = "print" /\ s_mon_tail' = (reg + W + 1) % W
      /\ UNCHANGED <<ring, s_mon_head, s_mon_active, reg, out, session, count, seen, lapped, raced>>
  BY DEF Monitor!PopStore, Monitor!Plus
<1>3. Taken' = T + 1 /\ T = seen
  BY <1>1, <1>2 DEF Taken
<1>4. s_mon_tail' \in 0 .. W - 1
  <2> DEFINE x == reg + W + 1
  <2>1. x \in Nat
    BY <1>1
  <2> HIDE DEF x
  <2>2. x % W \in 0 .. W - 1
    BY <1>1, <2>1, ModOf
  <2> QED
    BY <1>2, <2>2 DEF x
<1>5. MonTypes'
  BY <1>2, <1>4 DEF MonInv, MonTypes
<1> HIDE DEF T
<1>6. ASSUME ~lapped, ~raced PROVE KeepsUp'
  <2>1. /\ T <= count /\ count <= T + R /\ reg = T % W /\ T < count
        /\ InOrder(ring, count, T, session)
        /\ out[1] = Frame(session, T + 1) /\ out[2] = Frame(session, T + 1)
    BY <1>2, <1>6 DEF MonInv, Sound, KeepsUp, T
  <2>2. s_mon_tail' = (T + 1) % W
    BY <1>1, <1>2, <2>1, ModStep
  <2> DEFINE t == T + 1
  <2>3. t <= count /\ count <= t + R /\ t \in Nat
    BY <1>1, <2>1
  <2>4. InOrder(ring, count, t, session)
    <3>1. \A k \in t .. count - 1 : k \in T .. count - 1
      BY <1>1
    <3> HIDE DEF t
    <3> QED
      BY <2>1, <3>1 DEF InOrder
  <2>5. Taken' = t /\ s_mon_tail' = t % W /\ out[1] = Frame(session, t) /\ out[2] = Frame(session, t)
    BY <1>3, <2>1, <2>2
  <2> HIDE DEF t
  <2> QED
    BY <1>2, <2>3, <2>4, <2>5 DEF KeepsUp
<1> QED
  BY <1>2, <1>5, <1>6 DEF MonInv, Sound

\* drain_monitor.
LEMMA MonPrint == ASSUME MonInv, Monitor!PrintFrame PROVE MonInv'
<1>1. /\ m_pc = "print" /\ m_pc' = "idle" /\ seen' = out[1].n
      /\ UNCHANGED <<ring, s_mon_head, s_mon_tail, s_mon_active, reg, out, session, count, lapped, raced>>
  BY DEF Monitor!PrintFrame, Monitor!shared
<1>2. seen' \in Nat
  BY <1>1 DEF MonInv, MonTypes, FrameSet
<1>3. MonTypes'
  BY <1>1, <1>2 DEF MonInv, MonTypes
<1>4. ASSUME ~lapped, ~raced PROVE KeepsUp'
  <2> DEFINE T == Taken
  <2>1. out[1] = Frame(session, T)
    BY <1>1, <1>4 DEF MonInv, Sound, KeepsUp
  <2>2. seen' = T /\ T \in Nat
    BY <1>1, <2>1 DEF Frame, MonInv, MonTypes, Taken
  <2>3. Taken' = T
    <3>1. Taken' = seen' + 0
      BY <1>1 DEF Taken
    <3> HIDE DEF T
    <3> QED
      BY <2>2, <3>1
  <2> QED
    BY <1>1, <1>4, <2>3 DEF MonInv, Sound, KeepsUp
<1> QED
  BY <1>1, <1>3, <1>4 DEF MonInv, Sound

\* The stores of CAN,monitor,start: the head's begins a session.
LEMMA MonStart ==
  ASSUME MonInv, Monitor!can_monitor_start \/ Monitor!StartHead \/ Monitor!StartActive
  PROVE  MonInv'
<1>0. R \in Nat \ {0} /\ W \in Nat \ {0} /\ 0 \in 0 .. W - 1 /\ 0 % W = 0
  BY MonConstants
<1>1. CASE Monitor!can_monitor_start
  <2>1. /\ m_pc' = "head" /\ s_mon_tail' = 0
        /\ UNCHANGED <<ring, s_mon_head, s_mon_active, reg, out, session, count, seen, lapped, raced>>
    BY <1>1 DEF Monitor!can_monitor_start
  <2> QED
    BY <1>0, <2>1 DEF MonInv, MonTypes
<1>2. CASE Monitor!StartHead
  <2>1. /\ m_pc = "head" /\ m_pc' = "active" /\ s_mon_head' = 0 /\ session' = session + 1
        /\ count' = 0 /\ seen' = 0 /\ lapped' = FALSE
        /\ raced' = (s_mon_active /\ s_mon_tail # 0)
        /\ UNCHANGED <<ring, s_mon_tail, s_mon_active, reg, out>>
    BY <1>2 DEF Monitor!StartHead
  <2>2. MonTypes'
    <3>1. session' \in Nat /\ 0 \in Nat
      BY <2>1 DEF MonInv, MonTypes
    <3>2. FALSE \in BOOLEAN
      OBVIOUS
    <3> QED
      BY <1>0, <2>1, <3>1, <3>2, Zenon DEF MonInv, MonTypes
  <2>3. ~raced' => s_mon_tail = 0
    BY <2>1 DEF MonInv
  <2>4. Taken' = 0
    BY <2>1 DEF Taken
  <2>5. InOrder(ring', 0, 0, session') /\ OfSession(ring', 0, session')
    BY <1>0 DEF InOrder, OfSession
  <2>6. ~raced' => KeepsUp'
    BY <1>0, <2>1, <2>3, <2>4, <2>5 DEF KeepsUp
  <2> QED
    BY <1>0, <2>1, <2>2, <2>5, <2>6 DEF MonInv, Sound
<1>3. CASE Monitor!StartActive
  <2>1. /\ m_pc = "active" /\ m_pc' = "idle"
        /\ UNCHANGED <<ring, s_mon_head, s_mon_tail, reg, out, session, count, seen, lapped, raced>>
    BY <1>3 DEF Monitor!StartActive
  <2>2. Taken' = Taken
    BY <2>1 DEF Taken
  <2> QED
    BY <2>1, <2>2 DEF MonInv, MonTypes, Sound, KeepsUp
<1> QED
  BY <1>1, <1>2, <1>3

\* CAN,monitor,stop.
LEMMA MonStop == ASSUME MonInv, Monitor!can_monitor_stop PROVE MonInv'
  BY DEF Monitor!can_monitor_stop, MonInv, MonTypes, Sound, KeepsUp, Taken

(***************************************************************************)
(* can_monitor_pop against mon_push, for any size of the ring that divides *)
(* the range of the counters, any number of frames and sessions: what is   *)
(* printed was received in this session, and whole, once and in order      *)
(* while CmdThread keeps up; the exception is a monitor started while on,  *)
(* with a tail that moved between the two stores.                          *)
(***************************************************************************)
THEOREM PrintsInOrder == Spec => []AllInOrder
<1>1. Init => MonInv
  <2> SUFFICES ASSUME Monitor!Init PROVE MonInv
    BY DEF Init
  <2>0. R \in Nat \ {0} /\ W \in Nat \ {0}
    BY MonConstants
  <2>1. Monitor!None \in FrameSet
    BY DEF Monitor!None, FrameSet
  <2>2. MonTypes
    <3>1. 0 \in 0 .. W - 1 /\ FALSE \in BOOLEAN /\ 0 \in Nat
      BY <2>0
    <3>2. ring \in [0 .. R - 1 -> FrameSet \X FrameSet] /\ out \in FrameSet \X FrameSet
      BY <2>1 DEF Monitor!Init, R
    <3> QED
      BY <3>1, <3>2, Zenon DEF MonTypes, Monitor!Init
  <2>3. 0 % W = 0
    BY <2>0
  <2>4. Taken = 0
    BY DEF Taken, Monitor!Init
  <2>5. InOrder(ring, 0, 0, session) /\ OfSession(ring, 0, session)
    BY <2>0 DEF InOrder, OfSession
  <2>6. KeepsUp
    BY <2>0, <2>3, <2>4, <2>5 DEF KeepsUp, Monitor!Init
  <2> QED
    BY <2>2, <2>3, <2>5, <2>6 DEF MonInv, Sound, Monitor!Init
<1>2. MonInv /\ [Next]_bvars => MonInv'
  <2> SUFFICES ASSUME MonInv, [Monitor!Next]_mvars PROVE MonInv'
    BY DEF Next, GimStep, PairStep, MonitorStep, bvars
  <2>1. CASE UNCHANGED mvars
    BY <2>1 DEF mvars, MonInv, MonTypes, Sound, KeepsUp, Taken
  <2> QED
    BY <2>1, MonPush, MonPopBegin, MonPopCopy, MonPopStore, MonPrint, MonStart, MonStop
       DEF Monitor!Next
<1>3. MonInv => AllInOrder
  <2> SUFFICES ASSUME MonInv, m_pc = "print", ~raced
               PROVE  /\ out[1].session = session /\ out[2].session = session
                      /\ ~lapped => out[1] = out[2] /\ out[1].n = seen + 1
    BY DEF AllInOrder, Monitor!AllInOrder
  <2>1. Taken = seen + 1
    BY DEF Taken
  <2>2. ASSUME ~lapped PROVE out[1] = out[2] /\ out[1].n = seen + 1
    <3>1. out[1] = Frame(session, Taken) /\ out[2] = Frame(session, Taken)
      BY <2>2 DEF MonInv, Sound, KeepsUp
    <3> QED
      BY <2>1, <3>1 DEF Frame
  <2> QED
    BY <2>2 DEF MonInv, Sound
<1> QED
  BY <1>1, <1>2, <1>3, PTL DEF Spec, bvars
=============================================================================
