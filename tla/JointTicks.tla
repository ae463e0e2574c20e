----------------------------- MODULE JointTicks -----------------------------
(***************************************************************************)
(* The tick arithmetic between a joint's target and its motors' registers: *)
(* the clamp of a goal (sopo/motion/control.py), the three kinds of joints *)
(* (sopo/motion/joints.py) and the limits of a mirrored pair               *)
(* (sopo/config.py).  A position, goal or limit is an integer of ticks.    *)
(***************************************************************************)
EXTENDS Integers

CONSTANTS
  Rev,        \* TICKS_PER_REV
  BrakeZone,  \* brake_zone_ticks
  BrakeMin    \* brake_min_step

ASSUME RevAssumption == Rev \in Nat \ {0} /\ Rev % 2 = 0
ASSUME BrakeAssumption == BrakeZone \in Nat /\ BrakeMin \in Nat

HalfTurn == Rev \div 2

AtMost(x, hi) == IF x < hi THEN x ELSE hi
AtLeast(x, lo) == IF x > lo THEN x ELSE lo

\* max(lo, min(hi, x))
Limited(x, lo, hi) == AtLeast(AtMost(x, hi), lo)

Ticks(x) == Limited(x, 0, Rev - 1)

Apart(a, b) == IF a < b THEN b - a ELSE a - b

----------------------------------------------------------------------------
(* clamp_joint_goals, for one joint with the bounds lo and hi.             *)

\* How far the goal may still move towards the limit it heads for.
Ahead(pos, target, lo, hi) == IF target > pos THEN hi - pos ELSE pos - lo

\* mutant: no least step
BrakedStepToZero(pos, target, lo, hi, step) ==
  IF BrakeZone = 0 \/ target = pos \/ Ahead(pos, target, lo, hi) >= BrakeZone THEN step
  ELSE (step * AtLeast(Ahead(pos, target, lo, hi), 0)) \div BrakeZone

BrakedStep(pos, target, lo, hi, step) ==
  IF BrakeZone = 0 \/ target = pos \/ Ahead(pos, target, lo, hi) >= BrakeZone THEN step
  ELSE AtLeast((step * AtLeast(Ahead(pos, target, lo, hi), 0)) \div BrakeZone, BrakeMin)

ClampGoal(pos, target, lo, hi, step) ==
  LET t == Limited(target, lo, hi)
      s == BrakedStep(pos, t, lo, hi, step)
  IN  Limited(t, pos - s, pos + s)

----------------------------------------------------------------------------
(* Two mirrored motors.                                                    *)

\* What DualMotorJoint.command sends the mirror for a goal of the reference.
MirrorGoal(K, preload, goal) == Ticks(K - Ticks(goal) - preload)

\* What motor_goals tells the detector of the same goal: without the preload.
MirrorView(K, goal) == Ticks(K - goal)

\* make_joint_limits: the joint's limits are those of both its motors.
DualLo(K, preload, refLo, mirrorHi) == AtLeast(refLo, K - preload - mirrorHi)
DualHi(K, preload, refHi, mirrorLo) == AtMost(refHi, K - preload - mirrorLo)

----------------------------------------------------------------------------
(* A continuous joint.                                                     *)

\* mutant: exactly half a turn counts as a wrap as well
TurnAfterEager(turn, last, raw) ==
  IF raw - last >= HalfTurn THEN turn - 1
  ELSE IF last - raw >= HalfTurn THEN turn + 1 ELSE turn

\* _update_turn: more than half a turn between two readings is a wrap.
TurnAfter(turn, last, raw) ==
  IF raw - last > HalfTurn THEN turn - 1
  ELSE IF last - raw > HalfTurn THEN turn + 1 ELSE turn

\* round(d / Rev): the nearest integer, an even one when two are as near.
Rounded(d) ==
  LET q == d \div Rev
      r == d % Rev
  IN  IF r < HalfTurn \/ (r = HalfTurn /\ q % 2 = 0) THEN q ELSE q + 1

\* The copy of the cable-relaxed reading nearest to the first reading.
HomeOf(logical, homeAbs) == homeAbs + Rounded(logical - homeAbs) * Rev

\* ContinuousJoint.command: never more than half a turn from the last reading,
\* and only a servo that counts turns itself is told more than one.
RawGoal(current, goal, multi) ==
  LET target == current + Limited(goal - current, -HalfTurn, HalfTurn)
  IN  IF multi THEN target ELSE target % Rev

----------------------------------------------------------------------------
(* The self test's small move, towards the centre of the range.            *)

TestStart(pos, lo, hi) == Limited(pos, lo, hi)

TestTarget(pos, lo, hi, test) ==
  LET start == TestStart(pos, lo, hi)
  IN  IF 2 * start < lo + hi THEN start + test ELSE start - test

=============================================================================
