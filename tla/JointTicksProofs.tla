-------------------------- MODULE JointTicksProofs --------------------------
(***************************************************************************)
(* Facts about the tick arithmetic, for every position, target, limit and  *)
(* step: what the clamp of a goal bounds and lets through, that a pair's   *)
(* limits keep both its motors' goals within their registers, and when the *)
(* turn counter is right.                                                  *)
(***************************************************************************)
EXTENDS JointTicks, TLAPS

----------------------------------------------------------------------------
(* The clamp.                                                              *)

\* Limited answers with a number between its bounds, with x when x is one.
LEMMA LimitedFacts ==
  ASSUME NEW x \in Int, NEW lo \in Int, NEW hi \in Int, lo <= hi
  PROVE  /\ Limited(x, lo, hi) \in Int
         /\ lo <= Limited(x, lo, hi) /\ Limited(x, lo, hi) <= hi
         /\ lo <= x /\ x <= hi => Limited(x, lo, hi) = x
BY DEF Limited, AtMost, AtLeast

\* A share of less than the whole is not more than the whole.
LEMMA ShareBound ==
  ASSUME NEW step \in Nat, NEW part \in Nat, NEW whole \in Nat \ {0}, part < whole
  PROVE  /\ (step * part) \div whole \in Nat
         /\ (step * part) \div whole <= step
<1>1. step * part \in Nat /\ step * part <= step * whole  OBVIOUS
<1>2. \A n, s \in Nat : n <= s * whole => n \div whole \in Nat /\ n \div whole <= s
  OBVIOUS
<1> QED  BY <1>1, <1>2

\* The step near a limit: never more than the step asked for or the least step,
\* never less than the smaller of the two.
LEMMA BrakedStepBounds ==
  ASSUME NEW pos \in Int, NEW target \in Int, NEW lo \in Int, NEW hi \in Int, NEW step \in Nat
  PROVE  /\ BrakedStep(pos, target, lo, hi, step) \in Nat
         /\ BrakedStep(pos, target, lo, hi, step) <= AtLeast(step, BrakeMin)
         /\ BrakedStep(pos, target, lo, hi, step) >= AtMost(step, BrakeMin)
<1> DEFINE ahead == Ahead(pos, target, lo, hi)
           part  == AtLeast(ahead, 0)
<1>1. ahead \in Int /\ part \in Nat  BY DEF Ahead, AtLeast
<1>2. CASE BrakeZone = 0 \/ target = pos \/ ahead >= BrakeZone
  BY <1>2, BrakeAssumption DEF BrakedStep, AtLeast, AtMost
<1>3. CASE ~(BrakeZone = 0 \/ target = pos \/ ahead >= BrakeZone)
  <2>1. BrakeZone \in Nat \ {0} /\ part < BrakeZone  BY <1>1, <1>3, BrakeAssumption DEF AtLeast
  <2>2. (step * part) \div BrakeZone \in Nat /\ (step * part) \div BrakeZone <= step
    BY <1>1, <2>1, ShareBound
  <2>3. BrakedStep(pos, target, lo, hi, step) = AtLeast((step * part) \div BrakeZone, BrakeMin)
    BY <1>3 DEF BrakedStep
  <2> HIDE DEF part, ahead
  <2> QED  BY <2>2, <2>3, BrakeAssumption DEF AtLeast, AtMost
<1> QED  BY <1>2, <1>3

\* A goal is within the limits or between the position and them, and no further
\* away than the step or the least step (control.py:39-73).
THEOREM ClampIsSafe ==
  ASSUME NEW pos \in Int, NEW target \in Int, NEW lo \in Int, NEW hi \in Int, lo <= hi,
         NEW step \in Nat,
         NEW g, g = ClampGoal(pos, target, lo, hi, step)
  PROVE  /\ g \in Int
         /\ AtMost(lo, pos) <= g /\ g <= AtLeast(hi, pos)
         /\ Apart(g, pos) <= AtLeast(step, BrakeMin)
<1> DEFINE t == Limited(target, lo, hi)
           s == BrakedStep(pos, t, lo, hi, step)
<1>1. t \in Int /\ lo <= t /\ t <= hi  BY LimitedFacts
<1>2. s \in Nat /\ s <= AtLeast(step, BrakeMin)  BY <1>1, BrakedStepBounds
<1>3. g = Limited(t, pos - s, pos + s)  BY DEF ClampGoal
<1> HIDE DEF t, s
<1>4. g \in Int /\ AtMost(lo, pos) <= g /\ g <= AtLeast(hi, pos) /\ Apart(g, pos) <= s
  BY <1>1, <1>2, <1>3 DEF Limited, AtMost, AtLeast, Apart
<1>5. AtLeast(step, BrakeMin) \in Int  BY BrakeAssumption DEF AtLeast
<1>6. Apart(g, pos) \in Int  BY <1>4 DEF Apart
<1>7. Apart(g, pos) <= AtLeast(step, BrakeMin)  BY <1>2, <1>4, <1>5, <1>6
<1> QED  BY <1>4, <1>7

\* A goal that is near the position is the target itself: the clamp only stops
\* short of the target by a whole step, or by the least one.
THEOREM NearGoalIsTarget ==
  ASSUME NEW pos \in Int, NEW target \in Int, NEW lo \in Int, NEW hi \in Int, lo <= hi,
         NEW step \in Nat, NEW near \in Nat, near <= step, near <= BrakeMin,
         Apart(ClampGoal(pos, target, lo, hi, step), pos) < near
  PROVE  Apart(Limited(target, lo, hi), pos) < near
<1> DEFINE t == Limited(target, lo, hi)
           s == BrakedStep(pos, t, lo, hi, step)
           g == ClampGoal(pos, target, lo, hi, step)
<1>1. t \in Int  BY LimitedFacts
<1>2. s \in Nat /\ s >= AtMost(step, BrakeMin)  BY <1>1, BrakedStepBounds
<1>3. g = Limited(t, pos - s, pos + s)  BY DEF ClampGoal
<1>4. near <= s  BY <1>2, BrakeAssumption DEF AtMost
<1>5. Apart(g, pos) < near  OBVIOUS
<1> HIDE DEF t, s, g
<1> QED  BY <1>1, <1>2, <1>3, <1>4, <1>5 DEF Limited, AtMost, AtLeast, Apart, t

\* The joint gets on: unless it is at the target, a step moves the goal away from
\* the position, towards the target and not past it.
THEOREM ClampGetsOn ==
  ASSUME NEW pos \in Int, NEW target \in Int, NEW lo \in Int, NEW hi \in Int, lo <= hi,
         NEW step \in Nat \ {0}, BrakeMin # 0, Limited(target, lo, hi) # pos
  PROVE  Apart(Limited(target, lo, hi), ClampGoal(pos, target, lo, hi, step))
           < Apart(Limited(target, lo, hi), pos)
<1> DEFINE t == Limited(target, lo, hi)
           s == BrakedStep(pos, t, lo, hi, step)
           g == ClampGoal(pos, target, lo, hi, step)
<1>1. t \in Int /\ t # pos  BY LimitedFacts
<1>2. s \in Nat /\ s >= AtMost(step, BrakeMin)  BY <1>1, BrakedStepBounds
<1>3. g = Limited(t, pos - s, pos + s)  BY DEF ClampGoal
<1>4. 0 < s  BY <1>2, BrakeAssumption DEF AtMost
<1> HIDE DEF t, s, g
<1>5. Apart(t, g) < Apart(t, pos)  BY <1>1, <1>2, <1>3, <1>4 DEF Limited, AtMost, AtLeast, Apart
<1> QED  BY <1>5 DEF t, g

----------------------------------------------------------------------------
(* A mirrored pair.                                                        *)

\* A goal within the pair's limits is within the limits of both motors, and the
\* mirror gets exactly K minus it, its preload apart: no clamp of a register
\* breaks the pair apart (config.py:70-88, joints.py:85-89).
THEOREM MirrorIsExact ==
  ASSUME NEW K \in Int, NEW preload \in Int, NEW goal \in Int,
         NEW refLo \in 0 .. Rev - 1, NEW refHi \in 0 .. Rev - 1,
         NEW mirrorLo \in 0 .. Rev - 1, NEW mirrorHi \in 0 .. Rev - 1,
         DualLo(K, preload, refLo, mirrorHi) <= goal,
         goal <= DualHi(K, preload, refHi, mirrorLo)
  PROVE  /\ refLo <= goal /\ goal <= refHi
         /\ MirrorGoal(K, preload, goal) = K - preload - goal
         /\ mirrorLo <= MirrorGoal(K, preload, goal)
         /\ MirrorGoal(K, preload, goal) <= mirrorHi
<1>1. refLo <= goal /\ goal <= refHi  BY DEF DualLo, DualHi, AtLeast, AtMost
<1>2. mirrorLo <= K - preload - goal /\ K - preload - goal <= mirrorHi
  BY DEF DualLo, DualHi, AtLeast, AtMost
<1>3. Ticks(goal) = goal  BY <1>1, RevAssumption DEF Ticks, Limited, AtLeast, AtMost
<1>4. Ticks(K - goal - preload) = K - preload - goal
  BY <1>2, RevAssumption DEF Ticks, Limited, AtLeast, AtMost
<1> QED  BY <1>1, <1>2, <1>3, <1>4 DEF MirrorGoal

\* What the detector is told of the mirror's goal is what the mirror is sent, up
\* to the preload (control.py:91-100 leaves it out).
THEOREM MirrorViewIsClose ==
  ASSUME NEW K \in Int, NEW preload \in Nat, NEW goal \in 0 .. Rev - 1
  PROVE  Apart(MirrorView(K, goal), MirrorGoal(K, preload, goal)) <= preload
<1>1. Ticks(goal) = goal  BY RevAssumption DEF Ticks, Limited, AtLeast, AtMost
<1>2. Apart(Ticks(K - goal), Ticks(K - goal - preload)) <= preload
  BY RevAssumption DEF Ticks, Limited, AtLeast, AtMost, Apart
<1> QED  BY <1>1, <1>2 DEF MirrorView, MirrorGoal

----------------------------------------------------------------------------
(* A continuous joint.                                                     *)

\* Division with remainder.
LEMMA Remainder ==
  ASSUME NEW x \in Int, NEW r \in Int, r > 0
  PROVE  x = r * (x \div r) + (x % r)
OBVIOUS

\* Division by the ticks of a turn.
LEMMA Division ==
  ASSUME NEW x \in Int
  PROVE  /\ x \div Rev \in Int /\ x % Rev \in 0 .. Rev - 1
         /\ x = Rev * (x \div Rev) + (x % Rev)
<1>1. \A r \in Nat \ {0} : x \div r \in Int /\ x % r \in 0 .. r - 1  OBVIOUS
<1>2. x = Rev * (x \div Rev) + (x % Rev)  BY Remainder, RevAssumption
<1> QED  BY <1>1, <1>2, RevAssumption

\* A half turn is half of one.
LEMMA HalfIsHalf == HalfTurn \in Nat \ {0} /\ Rev = 2 * HalfTurn
BY RevAssumption DEF HalfTurn

\* A difference of turns.
LEMMA Distribute ==
  ASSUME NEW m \in Int, NEW n \in Int
  PROVE  m * Rev - Rev * n = Rev * (m - n) /\ Rev * m - Rev * n = Rev * (m - n)
<1>1. \A r \in Int : m * r - r * n = r * (m - n) /\ r * m - r * n = r * (m - n)  OBVIOUS
<1> QED  BY <1>1, RevAssumption

\* A multiple of a turn that is shorter than two turns is one turn or none.
LEMMA FewTurns ==
  ASSUME NEW n \in Int, -(2 * Rev) < Rev * n, Rev * n < 2 * Rev
  PROVE  n \in {-1, 0, 1}
<1>1. CASE n >= 2
  <2>1. PICK k \in Nat : n = 2 + k  BY <1>1
  <2>2. Rev * n = 2 * Rev + Rev * k /\ Rev * k >= 0  BY <2>1, RevAssumption
  <2>3. Rev * n \in Int  BY RevAssumption
  <2> QED  BY <2>2, <2>3, RevAssumption
<1>2. CASE n <= -2
  <2>1. PICK k \in Nat : n = -2 - k  BY <1>2
  <2>2. Rev * n = -(2 * Rev) - Rev * k /\ Rev * k >= 0  BY <2>1, RevAssumption
  <2>3. Rev * n \in Int  BY RevAssumption
  <2> QED  BY <2>2, <2>3, RevAssumption
<1> QED  BY <1>1, <1>2

\* The turn counter is right: as long as the joint turns less than half a turn
\* between two readings, the change of the logical angle is the true one,
\* whether the servo wrapped or not (joints.py:144-153).
THEOREM TurnCountIsRight ==
  ASSUME NEW a \in Int, NEW b \in Int, NEW turn \in Int, Apart(a, b) < HalfTurn
  PROVE  ((b % Rev) + TurnAfter(turn, a % Rev, b % Rev) * Rev) - ((a % Rev) + turn * Rev) = b - a
<1> DEFINE p == a % Rev  q == b % Rev
           n == (b \div Rev) - (a \div Rev)
<1>1. /\ n \in Int /\ p \in 0 .. Rev - 1 /\ q \in 0 .. Rev - 1
      /\ b - a = Rev * n + q - p
  <2>1. p \in 0 .. Rev - 1 /\ a \div Rev \in Int /\ a = Rev * (a \div Rev) + p  BY Division
  <2>2. q \in 0 .. Rev - 1 /\ b \div Rev \in Int /\ b = Rev * (b \div Rev) + q  BY Division
  <2>3. Rev * (b \div Rev) - Rev * (a \div Rev) = Rev * n  BY <2>1, <2>2, Distribute
  <2> QED  BY <2>1, <2>2, <2>3, RevAssumption
<1>2. -HalfTurn < b - a /\ b - a < HalfTurn  BY HalfIsHalf DEF Apart
<1> HIDE DEF p, q, n
<1>3. n \in {-1, 0, 1}
  <2>1. Rev * n \in Int  BY <1>1, RevAssumption
  <2>2. -(2 * Rev) < Rev * n /\ Rev * n < 2 * Rev
    BY <1>1, <1>2, <2>1, HalfIsHalf, RevAssumption
  <2> QED  BY <1>1, <2>2, FewTurns
<1>4. TurnAfter(turn, p, q) = turn + n
  BY <1>1, <1>2, <1>3, HalfIsHalf DEF TurnAfter
<1>5. (turn + n) * Rev = turn * Rev + Rev * n  BY <1>1, RevAssumption
<1>6. (q + TurnAfter(turn, p, q) * Rev) - (p + turn * Rev) = b - a
  BY <1>1, <1>4, <1>5, RevAssumption
<1> QED  BY <1>6 DEF p, q

\* The reading nearest to a home so many turns away is that many turns away.
LEMMA RoundedTurns ==
  ASSUME NEW d \in Int, NEW n \in Int, Apart(d, n * Rev) < HalfTurn
  PROVE  Rounded(d) = n
<1> DEFINE q == d \div Rev  r == d % Rev
<1>1. q \in Int /\ r \in 0 .. Rev - 1 /\ d = Rev * q + r  BY Division, RevAssumption
<1> HIDE DEF q, r
<1>2. n * Rev \in Int /\ Rev * q \in Int /\ n * Rev - Rev * q = Rev * (n - q)
  BY <1>1, RevAssumption, Distribute
<1>3. -HalfTurn < d - n * Rev /\ d - n * Rev < HalfTurn  BY <1>2, HalfIsHalf DEF Apart
<1>4. n - q \in {0, 1}
  <2>1. Rev * (n - q) \in Int  BY <1>1, RevAssumption
  <2>2. -HalfTurn < Rev * (n - q) /\ Rev * (n - q) < Rev + HalfTurn
    BY <1>1, <1>2, <1>3, <2>1, HalfIsHalf
  <2>3. n - q \in {-1, 0, 1}  BY <1>1, <2>2, HalfIsHalf, FewTurns
  <2>4. n - q # -1  BY <2>2, HalfIsHalf, RevAssumption
  <2> QED  BY <2>3, <2>4
<1>5. CASE n = q
  <2>1. r < HalfTurn  BY <1>1, <1>2, <1>3, <1>5, RevAssumption
  <2>2. Rounded(d) = q  BY <2>1 DEF Rounded, q, r
  <2> QED  BY <1>5, <2>2
<1>6. CASE n = q + 1
  <2>1. Rev * (n - q) = Rev  BY <1>1, <1>6, RevAssumption
  <2>2. r > HalfTurn  BY <1>1, <1>2, <1>3, <2>1, HalfIsHalf
  <2>3. Rounded(d) = q + 1  BY <1>1, <2>2, HalfIsHalf DEF Rounded, q, r
  <2> QED  BY <1>6, <2>3
<1> QED  BY <1>1, <1>4, <1>5, <1>6

\* A goal within half a turn is commanded as it is, one further away half a turn
\* towards it; a servo that counts turns never gets a goal outside the range
\* between the reading and the goal (joints.py:166-181).
LEMMA RawGoalBetween ==
  ASSUME NEW current \in Int, NEW goal \in Int,
         NEW g, g = RawGoal(current, goal, TRUE)
  PROVE  /\ g \in Int
         /\ AtMost(current, goal) <= g /\ g <= AtLeast(current, goal)
         /\ RawGoal(current, goal, FALSE) = g % Rev
BY HalfIsHalf DEF RawGoal, Limited, AtMost, AtLeast

----------------------------------------------------------------------------
(* The self test.                                                          *)

\* A joint that starts within its limits, or just outside them, is tested
\* within them, if they are two moves apart (startup.py:38-46).
THEOREM TestStaysInside ==
  ASSUME NEW pos \in Int, NEW lo \in Int, NEW hi \in Int, NEW test \in Nat, 2 * test <= hi - lo
  PROVE  lo <= TestTarget(pos, lo, hi, test) /\ TestTarget(pos, lo, hi, test) <= hi
<1>1. TestStart(pos, lo, hi) \in lo .. hi  BY LimitedFacts DEF TestStart
<1> QED  BY <1>1 DEF TestTarget

=============================================================================
