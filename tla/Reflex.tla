------------------------------- MODULE Reflex -------------------------------
(***************************************************************************)
(* The fault detector of the arm (sopo/safety/reflex.py, class Reflex) and *)
(* the way sopod drives it: one update per control cycle while the arm is  *)
(* driven or held, recover and renewal by command, and silence while torque*)
(* is off.  One loop pass is one unit of time; a timer is the number of    *)
(* passes since it was started, counted up to the window it is compared    *)
(* with.  A load is its class relative to the motor's cap, the residual    *)
(* torque its class relative to the threshold (a joint that moved too far  *)
(* since the last one counts as weak); one pair, one joint's residual and  *)
(* the same limits for every motor stand for those of the arm.             *)
(***************************************************************************)
EXTENDS Integers, FiniteSets

CONSTANTS
  Motors,        \* motor ids, scanned in increasing order
  Positions,     \* where a motor can be, or be sent to
  SatTime,       \* t_collision, in passes
  Progress,      \* progress_ticks
  AccelStep,     \* accel_step
  AccelTime,     \* t_accel, in passes
  Lo, Hi,        \* the soft limits of every motor
  Margin,        \* limit_margin
  LimitTime,     \* t_limit, in passes
  PairTime,      \* t_pair, in passes
  ForceTime,     \* t_ext, in passes
  CommFailMax,   \* comm_fail_max
  TempConfirm,   \* temp_confirm
  HoldTol,       \* the 30 ticks of recover
  ForceMotor,    \* reference motor of the joint whose residual is modelled
  Top,           \* longest time the history counters tell apart
  Inputs         \* which inputs the environment of a run varies

Windows == {SatTime, LimitTime, PairTime, ForceTime}

ASSUME MotorsAssumption ==
  Motors \subseteq Nat /\ IsFiniteSet(Motors) /\ ForceMotor \in Motors /\ Positions \subseteq Nat
ASSUME WindowsAssumption == AccelTime \in Nat /\ Top \in Nat /\ \A w \in Windows : w \in Nat /\ w < Top
ASSUME CountsAssumption == CommFailMax \in Nat \ {0} /\ TempConfirm \in Nat \ {0}
ASSUME TicksAssumption == \A n \in {Progress, AccelStep, Lo, Hi, Margin, HoldTol} : n \in Int

Unset == -1

VARIABLES
  mode,        \* the detector's own mode
  trips,       \* _trips: what was emitted in this latched episode
  commFails,   \* _comm_fail_count
  hotCount,    \* _temp_over of each motor
  satAge,      \* since sat_start of each motor
  satPos,      \* pos_at_sat
  satDir,      \* dir_at_sat
  accelLeft,   \* passes until accel_until
  lastGoal,    \* last_goal, Unset before the first
  armed,       \* limit_armed
  limitAge,    \* since limit_start
  pairAge,     \* since _pair_start of the pair
  forceAge,    \* since _ext_start of the joint
  lastHold     \* _last_hold_target of each motor, Unset before the first

\* The daemon around it, and the arm as its last good read showed it.
VARIABLES
  driver,      \* the daemon's mode: "off", "move", "reflex", "stopped", or
               \* "failed" behind a reset that did not complete
  pos, goal,   \* of each motor
  load,        \* of each motor: "low", "high" (no recover) or "full" (saturated)
  apart,       \* the pair's sum is off by more than pair_tol
  force,       \* residual: "unknown" (not settled), "weak" or "strong"
  commOk       \* the last read succeeded

\* History, for the properties only.
VARIABLES
  driven,      \* passes since MOVE was entered
  entry,       \* by which way: "move", "recover" or "none"
  apartRun     \* consecutive supervised passes that showed the pair apart

timers   == <<satAge, satPos, satDir, accelLeft, lastGoal, armed, limitAge, pairAge, forceAge>>
detector == <<mode, trips, commFails, hotCount, timers, lastHold>>
arm      == <<pos, goal, load, apart, force, commOk>>
history  == <<driven, entry, apartRun>>
vars     == <<detector, driver, arm, history>>

Events == {"collision", "joint_limit", "pair_mismatch", "external_force", "comm_loss", "overtemp"}
Places == Positions \cup {Unset}

DetectorOK ==
  /\ mode \in {"idle", "move", "reflex", "stopped"}
  /\ trips \subseteq Events \X (Motors \cup {Unset})
  /\ commFails \in 0 .. CommFailMax
  /\ hotCount \in [Motors -> 0 .. TempConfirm]
  /\ lastHold \in [Motors -> Places]

TimersOK ==
  /\ satAge \in [Motors -> Unset .. SatTime]
  /\ satPos \in [Motors -> Places]
  /\ satDir \in [Motors -> {-1, 1}]
  /\ accelLeft \in [Motors -> 0 .. AccelTime]
  /\ lastGoal \in [Motors -> Places]
  /\ armed \in [Motors -> BOOLEAN]
  /\ limitAge \in [Motors -> Unset .. LimitTime]
  /\ pairAge \in Unset .. PairTime
  /\ forceAge \in Unset .. ForceTime

ArmOK ==
  /\ driver \in {"off", "move", "reflex", "stopped", "failed"}
  /\ pos \in [Motors -> Positions]
  /\ goal \in [Motors -> Positions]
  /\ load \in [Motors -> {"low", "high", "full"}]
  /\ apart \in BOOLEAN
  /\ force \in {"unknown", "weak", "strong"}
  /\ commOk \in BOOLEAN

TypeOK == DetectorOK /\ TimersOK /\ ArmOK

----------------------------------------------------------------------------
(* Reflex.update on the sample of this cycle (the primed arm).             *)

Aged(t, top) == IF t = Unset THEN Unset ELSE IF t < top THEN t + 1 ELSE top

\* A timer that was running is t_window old; a timer that was not, starts.
Elapsed(t, top) == t # Unset /\ Aged(t, top) = top
StartOrAge(t, top) == IF t = Unset THEN 0 ELSE Aged(t, top)

Distance(a, b) == IF a < b THEN b - a ELSE a - b

Cooler(m) == IF accelLeft[m] = 0 THEN 0 ELSE accelLeft[m] - 1

\* A goal that jumps defers the judgement of the motor.
Deferral(m) ==
  IF lastGoal[m] # Unset /\ Distance(goal'[m], lastGoal[m]) >= AccelStep
    THEN AccelTime ELSE Cooler(m)

Saturated(m) == Deferral(m) = 0 /\ load'[m] = "full"
Relaxed(m)   == Deferral(m) = 0 /\ load'[m] # "full"

\* pos_at_sat or pos: a window opened at position 0 is measured from here.
WindowBase(m) == IF satPos[m] = 0 THEN pos'[m] ELSE satPos[m]

\* The window is over.
Judged(m) == Saturated(m) /\ Elapsed(satAge[m], SatTime)

Gained(m) == (pos'[m] - WindowBase(m)) * satDir[m]

\* mutant: only a joint that is pushed back is blocked
BlockedBackwards(m) == Judged(m) /\ Gained(m) < 0

Blocked(m) == Judged(m) /\ Gained(m) < Progress

\* A window opens: the first, or the next one of a joint that makes progress.
Opens(m) == Saturated(m) /\ ~Blocked(m) /\ (satAge[m] = Unset \/ Judged(m))

Emitted(event, S) == {event} \X S

\* _emit passes over what this episode has already emitted.
Colliding == {m \in Motors : Blocked(m) /\ <<"collision", m>> \notin trips}

\* The scan of the motors stops behind the first collision.
Scanned == {m \in Motors : \A c \in Colliding : m <= c}

TimersPass ==
  /\ accelLeft' = [m \in Motors |-> Cooler(m)]
  /\ satAge' = [m \in Motors |-> Aged(satAge[m], SatTime)]
  /\ UNCHANGED <<satPos, satDir, lastGoal>>

LimitsPass == limitAge' = [m \in Motors |-> Aged(limitAge[m], LimitTime)] /\ UNCHANGED armed

PairPasses  == pairAge' = Aged(pairAge, PairTime)
ForcePasses == forceAge' = Aged(forceAge, ForceTime)

ScanMotors ==
  LET relaxed == {m \in Scanned : Relaxed(m)}
      opened  == {m \in Scanned : Opens(m)}
  IN
  /\ accelLeft' = [m \in Motors |-> IF m \in Scanned THEN Deferral(m) ELSE Cooler(m)]
  /\ lastGoal' = [m \in Motors |-> IF m \in Scanned THEN goal'[m] ELSE lastGoal[m]]
  /\ satAge' = [m \in Motors |-> IF m \in relaxed THEN Unset
                                 ELSE IF m \in opened THEN 0 ELSE Aged(satAge[m], SatTime)]
  /\ satPos' = [m \in Motors |-> IF m \in relaxed THEN Unset
                                 ELSE IF m \in opened THEN pos'[m] ELSE satPos[m]]
  /\ satDir' = [m \in Motors |-> IF m \notin opened THEN satDir[m]
                                 ELSE IF goal'[m] >= pos'[m] THEN 1 ELSE -1]

Within(m)  == Lo <= pos'[m] /\ pos'[m] <= Hi
Outside(m) == pos'[m] < Lo - Margin \/ pos'[m] > Hi + Margin

\* mutant: the lower limit is not watched
StrayedAbove(m) == armed[m] /\ pos'[m] > Hi + Margin

\* Only a motor that has been within its limits is watched for leaving them.
Strayed(m) == armed[m] /\ Outside(m)
Straying == {m \in Motors : /\ Strayed(m)
                            /\ Elapsed(limitAge[m], LimitTime)
                            /\ <<"joint_limit", m>> \notin trips}

ScanLimits ==
  /\ armed' = [m \in Motors |-> armed[m] \/ Within(m)]
  /\ limitAge' = [m \in Motors |->
                    IF Strayed(m) THEN StartOrAge(limitAge[m], LimitTime) ELSE Unset]

\* mutant: a good sum does not end the dwell
ScanPairForgiving == pairAge' = IF apart' THEN StartOrAge(pairAge, PairTime) ELSE Aged(pairAge, PairTime)

ScanPair == pairAge' = IF apart' THEN StartOrAge(pairAge, PairTime) ELSE Unset
Parted == apart' /\ StartOrAge(pairAge, PairTime) = PairTime /\ <<"pair_mismatch", Unset>> \notin trips

\* A strong residual is only believed of a joint that is not accelerating; an
\* unknown one (the arm is not settled) leaves the timer as it is.
Believed == force' = "strong" /\ Deferral(ForceMotor) = 0
ScanForce ==
  forceAge' = IF force' = "unknown" THEN Aged(forceAge, ForceTime)
              ELSE IF Believed THEN StartOrAge(forceAge, ForceTime) ELSE Unset
Pushed == /\ Believed
          /\ StartOrAge(forceAge, ForceTime) = ForceTime
          /\ <<"external_force", Unset>> \notin trips

CountComm == commFails' = IF commOk' THEN 0
                          ELSE IF commFails < CommFailMax THEN commFails + 1 ELSE CommFailMax

\* hot, ok: the motors with a plausible reading above and below temp_stop.
CountHeat(hot, ok) ==
  hotCount' = [m \in Motors |-> IF m \in ok THEN 0
                                ELSE IF m \in hot /\ hotCount[m] < TempConfirm
                                THEN hotCount[m] + 1 ELSE hotCount[m]]

\* COMM_LOSS and OVERTEMP override everything.
Stops(hot) ==
  ({<<"comm_loss", Unset>> : c \in {commFails'} \cap {CommFailMax}}
     \cup Emitted("overtemp", {m \in hot : hotCount'[m] = TempConfirm})) \ trips

JudgeStops(hot) ==
  /\ Stops(hot) # {}
  /\ mode' = "stopped"
  /\ trips' = trips \cup Stops(hot)
  /\ TimersPass /\ LimitsPass /\ PairPasses /\ ForcePasses

\* In REFLEX only those two are looked for.
JudgeLatched(hot) ==
  /\ Stops(hot) = {}
  /\ mode \in {"reflex", "stopped"}
  /\ UNCHANGED <<mode, trips>>
  /\ TimersPass /\ LimitsPass /\ PairPasses /\ ForcePasses

JudgeCollides ==
  /\ Colliding # {}
  /\ mode' = "reflex"
  /\ trips' = trips \cup Emitted("collision", Colliding \cap Scanned)
  /\ LimitsPass /\ PairPasses /\ ForcePasses

JudgeStrays ==
  /\ Colliding = {} /\ Straying # {}
  /\ mode' = "reflex"
  /\ trips' = trips \cup Emitted("joint_limit", Straying)
  /\ ScanLimits /\ PairPasses /\ ForcePasses

JudgePair ==
  /\ Colliding = {} /\ Straying = {} /\ Parted
  /\ mode' = "reflex"
  /\ trips' = trips \cup {<<"pair_mismatch", Unset>>}
  /\ ScanLimits /\ ScanPair /\ ForcePasses

JudgeForce ==
  /\ Colliding = {} /\ Straying = {} /\ ~Parted /\ Pushed
  /\ mode' = "reflex"
  /\ trips' = trips \cup {<<"external_force", Unset>>}
  /\ ScanLimits /\ ScanPair /\ ScanForce

JudgeQuiet ==
  /\ Colliding = {} /\ Straying = {} /\ ~Parted /\ ~Pushed
  /\ mode' = "move"
  /\ UNCHANGED trips
  /\ ScanLimits /\ ScanPair /\ ScanForce

JudgeMotion(hot) ==
  /\ Stops(hot) = {}
  /\ mode \in {"idle", "move"}
  /\ ScanMotors
  /\ JudgeCollides \/ JudgeStrays \/ JudgePair \/ JudgeForce \/ JudgeQuiet

Judge(hot) == JudgeStops(hot) \/ JudgeLatched(hot) \/ JudgeMotion(hot)

----------------------------------------------------------------------------
(* How the daemon uses it.                                                 *)

\* What a cycle reads and commands.  A cycle whose bus operations raised may
\* have read the arm before, or not at all; temperatures need a good bus.  A
\* held arm keeps the goal it was latched with, and no residual is trusted.
Sample(hot, ok) ==
  /\ commOk' \in IF "comm" \in Inputs THEN BOOLEAN ELSE {TRUE}
  /\ hot # {} => commOk' /\ "heat" \in Inputs
  /\ ok # {} => commOk' /\ "heat" \in Inputs
  /\ hot \cap ok = {}
  /\ pos' \in [Motors -> Positions]
  /\ goal' \in IF driver = "move" /\ "goal" \in Inputs THEN [Motors -> Positions] ELSE {goal}
  /\ load' \in [Motors -> IF "load" \in Inputs THEN {"low", "high", "full"} ELSE {"low"}]
  /\ apart' \in IF "pair" \in Inputs THEN BOOLEAN ELSE {FALSE}
  /\ force' \in IF "force" \in Inputs /\ driver = "move"
                THEN {"unknown", "weak", "strong"} ELSE {"unknown"}

Run(r, seen) == IF ~seen THEN 0 ELSE IF r < Top THEN r + 1 ELSE Top

Remember ==
  /\ driven' = Run(driven, TRUE)
  /\ apartRun' = Run(apartRun, apart')
  /\ UNCHANGED entry

\* A supervised cycle.  The pose to hold is taken when the detector latches a
\* moving arm.
Cycle(hot, ok) ==
  /\ driver \in {"move", "reflex"}
  /\ Sample(hot, ok)
  /\ CountComm
  /\ CountHeat(hot, ok)
  /\ Judge(hot)
  /\ driver' = IF mode' \in {"reflex", "stopped"} THEN mode' ELSE driver
  /\ lastHold' = IF mode' = "reflex" /\ driver = "move" THEN pos' ELSE lastHold
  /\ Remember

\* A cycle with torque off or STOPPED: the detector is not called, the clock
\* goes on and the arm may be moved by hand.
Pass ==
  /\ driver \in {"off", "stopped", "failed"}
  /\ pos' \in [Motors -> Positions]
  /\ TimersPass /\ LimitsPass /\ PairPasses /\ ForcePasses
  /\ apartRun' = 0
  /\ UNCHANGED <<mode, trips, commFails, hotCount, lastHold, driver, goal, load, apart, force,
                 commOk, driven, entry>>

\* A new Reflex object.
NewReflex ==
  /\ mode' = "idle"
  /\ trips' = {}
  /\ commFails' = 0
  /\ hotCount' = [m \in Motors |-> 0]
  /\ satAge' = [m \in Motors |-> Unset]
  /\ satPos' = [m \in Motors |-> Unset]
  /\ satDir' = [m \in Motors |-> 1]
  /\ accelLeft' = [m \in Motors |-> 0]
  /\ lastGoal' = [m \in Motors |-> Unset]
  /\ armed' = [m \in Motors |-> FALSE]
  /\ limitAge' = [m \in Motors |-> Unset]
  /\ pairAge' = Unset
  /\ forceAge' = Unset
  /\ lastHold' = [m \in Motors |-> Unset]

Enter(way) ==
  /\ driver' = "move"
  /\ driven' = 0
  /\ entry' = way
  /\ UNCHANGED <<arm, apartRun>>

\* mutant: a latched detector is kept too
EnterMoveKeeps ==
  /\ driver = "off"
  /\ UNCHANGED detector
  /\ Enter("move")

\* A handler that raised before it came to the mode.
Stays == UNCHANGED <<driver, arm, history>>

\* _enter_move: a latched detector is replaced, another one is kept; then torque
\* is switched on, which may raise.
EnterMove ==
  /\ driver = "off"
  /\ IF mode \in {"reflex", "stopped"} THEN NewReflex ELSE UNCHANGED detector
  /\ Enter("move") \/ Stays

\* idle, guiding.
DropTorque ==
  /\ driver \notin {"off", "failed"}
  /\ driver' = "off"
  /\ UNCHANGED <<detector, arm, history>>

\* reset: a new detector once torque is verified off; STOPPED and nothing else
\* but another reset until then.
Reset ==
  /\ \/ NewReflex /\ driver' = "off"
     \/ UNCHANGED detector /\ driver' = "failed"
  /\ UNCHANGED <<arm, history>>

\* The daemon latches REFLEX by itself: the entry deadline, a failed self test.
DaemonLatches ==
  /\ driver = "move"
  /\ driver' = "reflex"
  /\ UNCHANGED <<detector, arm, history>>

\* What Reflex.recover asks before it resumes.
AtHold(m) == lastHold[m] = Unset \/ Distance(pos[m], lastHold[m]) <= HoldTol
Recoverable == \A m \in Motors : load[m] = "low" /\ AtHold(m)

\* mutant: recover keeps what the episode emitted
RestartKeepsTrips ==
  /\ mode' = "move"
  /\ satAge' = [m \in Motors |-> Unset]
  /\ satPos' = [m \in Motors |-> Unset]
  /\ limitAge' = [m \in Motors |-> Unset]
  /\ pairAge' = Unset
  /\ forceAge' = Unset
  /\ UNCHANGED <<trips, commFails, hotCount, satDir, accelLeft, lastGoal, armed, lastHold>>

\* mutant: recover keeps the timers of what latched
RestartKeepsTimers ==
  /\ mode' = "move"
  /\ trips' = {}
  /\ UNCHANGED <<commFails, hotCount, timers, lastHold>>

\* Reflex.recover that returns True.
Restart ==
  /\ mode' = "move"
  /\ trips' = {}
  /\ satAge' = [m \in Motors |-> Unset]
  /\ satPos' = [m \in Motors |-> Unset]
  /\ limitAge' = [m \in Motors |-> Unset]
  /\ pairAge' = Unset
  /\ forceAge' = Unset
  /\ UNCHANGED <<commFails, hotCount, satDir, accelLeft, lastGoal, armed, lastHold>>

\* recover: the detector's own test when it is the one that latched, a new
\* detector otherwise; then the caps are written back, which may raise and leave
\* the arm latched under a detector that is not.
Recover ==
  /\ driver \in {"reflex", "stopped"}
  /\ \/ mode = "reflex" /\ Recoverable /\ Restart
     \/ mode # "reflex" /\ NewReflex
  /\ Enter("recover") \/ Stays

Init ==
  /\ mode = "idle"
  /\ trips = {}
  /\ commFails = 0
  /\ hotCount = [m \in Motors |-> 0]
  /\ satAge = [m \in Motors |-> Unset]
  /\ satPos = [m \in Motors |-> Unset]
  /\ satDir = [m \in Motors |-> 1]
  /\ accelLeft = [m \in Motors |-> 0]
  /\ lastGoal = [m \in Motors |-> Unset]
  /\ armed = [m \in Motors |-> FALSE]
  /\ limitAge = [m \in Motors |-> Unset]
  /\ pairAge = Unset
  /\ forceAge = Unset
  /\ lastHold = [m \in Motors |-> Unset]
  /\ driver = "off"
  /\ pos \in [Motors -> Positions]
  /\ goal = pos
  /\ load = [m \in Motors |-> "low"]
  /\ apart = FALSE
  /\ force = "unknown"
  /\ commOk = TRUE
  /\ driven = 0
  /\ entry = "none"
  /\ apartRun = 0

Loop == Pass \/ \E hot, ok \in SUBSET Motors : Cycle(hot, ok)

Next == Loop \/ EnterMove \/ DropTorque \/ Reset \/ DaemonLatches \/ Recover

Spec == Init /\ [][Next]_vars

\* Only the daemon's loop is owed progress.
FairSpec == Spec /\ WF_vars(Loop)

----------------------------------------------------------------------------
(* What must hold.                                                         *)

\* A detector that is not latched has nothing on record: an event on record is
\* never emitted again, so a detector that lets the arm move with one on record
\* would be blind to it (reflex.py:386-391).
NeverBlind == mode \in {"idle", "move"} => trips = {}

\* The daemon and its detector agree: an arm that moves or is off duty is never
\* supervised by a latched detector, so every trip is answered by a hold
\* (daemon.py:372-384, 497, 741-746).
MovingIsJudged == driver = "move" => mode \in {"idle", "move"}

\* The event was emitted by this step.
Emits(event, m) == <<event, m>> \in trips' \ trips

\* An arm that was just recovered gets a full window before anything but the bus
\* or heat latches it again: no timer survives recover (reflex.py:372-377).
RecoverGrantsFullWindow ==
  [][entry = "recover" =>
       /\ \A m \in Motors : Emits("collision", m) => driven' > SatTime
       /\ \A m \in Motors : Emits("joint_limit", m) => driven' > LimitTime
       /\ Emits("pair_mismatch", Unset) => driven' > PairTime
       /\ Emits("external_force", Unset) => driven' > ForceTime]_vars

\* Later than t_pair into a drive, a pair mismatch is one that lasted t_pair
\* without a break (reflex.py:276-282).
PairTripNeedsDwell ==
  [][Emits("pair_mismatch", Unset) /\ driven' > PairTime => apartRun' > PairTime]_vars

\* A motor that stays saturated in place under an unchanged goal does not stay
\* in MOVE: the collision is found, whatever else happens (reflex.py:215-246).
BlockedIsCaught ==
  \A m \in Motors :
    <>[][pos' = pos /\ goal' = goal]_vars => ~<>[](driver = "move" /\ load[m] = "full")

\* An arm pushed out of its limits while driven does not stay outside in MOVE
\* (reflex.py:247-270).
StrayIsCaught ==
  \A m \in Motors :
    ~<>[](driver = "move" /\ armed[m] /\ (pos[m] < Lo - Margin \/ pos[m] > Hi + Margin))

----------------------------------------------------------------------------
(* What the documentation says and the code does not do.                   *)

\* reflex.py:218: free motion towards the goal is not a collision.
ProgressIsNoCollision ==
  [][\A m \in Motors :
       Emits("collision", m) => (pos'[m] - satPos[m]) * satDir[m] < Progress]_vars

=============================================================================
