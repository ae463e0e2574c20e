----------------------------- MODULE ControlLoop -----------------------------
(***************************************************************************)
(* The programs that drive the arm without sopod: init.py,                 *)
(* run_waypoints.py and jog.py (examples/) around run_control_loop         *)
(* (sopo/motion/control.py), with the self test (sopo/runtime/startup.py)  *)
(* and the waypoint and jog sources (sopo/runtime/sources.py).  The joint  *)
(* is a continuous one (J1), so that its turn counter and the cable range  *)
(* are part of the model; its servo moves along its own position register. *)
(* One pass of the loop is one unit of time; what the detector finds is a  *)
(* choice (see Reflex), and every bus operation may fail.                  *)
(***************************************************************************)
EXTENDS JointTicks, Sequences

CONSTANTS
  HomeAbs,    \* home_abs: what the servo reads when the cable is relaxed
  Range,      \* range_ticks
  Shifts,     \* full turns the servo may have counted when the program starts
  Speed,      \* how far the joint can turn in one pass
  SoftStep,   \* SOFT_START_STEP
  MaxStep,    \* max_relative_target
  Arrival,    \* ARRIVAL_TICKS, and arrival_ticks of the waypoints
  Dwell,      \* dwell_s, in passes
  TestTicks,  \* TEST_TICKS
  Arrive,     \* ARRIVE
  Lead,       \* lead of the jog source
  JogSteps,   \* steps the jog source can be set to
  Waypoints,  \* the sequence of waypoints, None where the joint is not named
  None

ASSUME CableAssumption == HomeAbs \in 0 .. Rev - 1 /\ Range \in Nat /\ Range < HalfTurn
ASSUME LoopAssumption ==
  /\ \A n \in {Speed, SoftStep, MaxStep, Arrival, TestTicks, Arrive, Lead} \cup JogSteps : n \in Nat \ {0}
  /\ Dwell \in Nat /\ Shifts \subseteq Int /\ 0 \in Shifts
  /\ Waypoints \in Seq(Int \cup {None}) /\ Waypoints # <<>> /\ None \notin Int

VARIABLES
  pc,        \* "start", "test", "run", "prompt", "last prompt" (the source is
             \* done), "done" or "aborted"
  program,   \* "init", "waypoints", "rounds" (waypoints with loop) or "jog"
  multi,     \* firmware_multiturn
  shift,     \* turns the servo has counted before
  angle,     \* the true angle; the cable is relaxed at HomeAbs
  goalReg,   \* the servo's Goal_Position
  last,      \* _last_raw, None before the first reading
  turn,      \* turn_count
  home,      \* home, None before the first reading
  goal,      \* goal of the last cycle, None before the first
  soft,      \* soft
  index,     \* _index of the waypoint source
  waited,    \* passes since _arrived_at, or None
  jogAt,     \* targets of the jog source, None before the first action
  tested     \* the two moves of the self test: how many are over, and its start

\* History, for the properties only.
VARIABLES
  jumped,    \* the joint turned more than half a turn between two readings
  readAt,    \* its true angle at the last reading
  arrived    \* it was where it was asked to be, since the start or the last trip

joint   == <<last, turn, home>>
source  == <<index, waited, jogAt>>
setup   == <<program, multi, shift>>
history == <<jumped, readAt, arrived>>
vars    == <<pc, setup, angle, goalReg, joint, goal, soft, source, tested, history>>

Cable == HomeAbs - Range .. HomeAbs + Range

TypeOK ==
  /\ pc \in {"start", "test", "run", "prompt", "last prompt", "done", "aborted"}
  /\ program \in {"init", "waypoints", "rounds", "jog"}
  /\ multi \in BOOLEAN /\ shift \in Shifts
  /\ \A n \in {angle, goalReg, turn} : n \in Int
  /\ \A n \in {last, home, goal, jogAt, readAt} : n \in Int \cup {None}
  /\ soft \in BOOLEAN
  /\ index \in 1 .. Len(Waypoints)
  /\ waited \in 0 .. Dwell \cup {None}
  /\ tested \in [moves : 0 .. 2, from : Int]
  /\ jumped \in BOOLEAN /\ arrived \in BOOLEAN

----------------------------------------------------------------------------
(* The servo and the joint.                                                *)

\* What the servo reports: it counts turns itself, or it does not.
Raw(a) == IF multi THEN a + shift * Rev ELSE a % Rev

\* Where its goal is, along its own register.
ServoGoal == angle + goalReg - Raw(angle)

\* In one pass it goes there, part of the way, or is held up.
Reached == {a \in AtMost(angle, ServoGoal) .. AtLeast(angle, ServoGoal) : Apart(a, angle) <= Speed}

\* The logical angle as last read.
Present == last + turn * Rev

\* ContinuousJoint.read.
Read ==
  /\ last' = Raw(angle')
  /\ turn' = IF last = None THEN turn ELSE TurnAfter(turn, last, last')
  /\ home' = IF home = None THEN HomeOf(Present', HomeAbs) ELSE home
  /\ readAt' = angle'
  /\ jumped' = (jumped \/ (readAt # None /\ Apart(angle', readAt) > HalfTurn))

Unread == UNCHANGED <<joint, readAt, jumped>>

Low  == home' - Range
High == home' + Range
ToCable(x) == Limited(x, Low, High)

\* ContinuousJoint.command.
Command(x) == goalReg' = RawGoal(Present', ToCable(x), multi)

\* Behind the last cycle end_session freezes the arm where it is, if it can;
\* the command of that cycle may be lost as well.
LastCommand(x) == goalReg' \in {goalReg, RawGoal(Present', ToCable(x), multi), last'}

----------------------------------------------------------------------------
(* The sources.                                                            *)

\* init.py shifts the standby pose into the turn of this session,
\* run_waypoints.py takes its waypoints as they are.
Waypoint(i) ==
  IF Waypoints[i] = None THEN Present'
  ELSE Waypoints[i] + IF program = "init" THEN home' - HomeAbs ELSE 0

Near == Apart(Present', Waypoint(index)) < Arrival

Older == IF waited = None \/ waited = Dwell THEN waited ELSE waited + 1

\* Not there, or not there for long enough.
Dwells ==
  /\ ~(Near /\ Older = Dwell)
  /\ waited' = IF ~Near THEN None ELSE IF waited = None THEN 0 ELSE Older
  /\ UNCHANGED index

Finishes == program # "rounds" /\ index = Len(Waypoints)

\* _advance; the last waypoint ends the source, or the first follows again.
Advances ==
  /\ Near /\ Older = Dwell /\ ~Finishes
  /\ waited' = None
  /\ index' = (index % Len(Waypoints)) + 1

\* The keys polled in one cycle, and the lead of the target.
Jogs ==
  LET from == IF jogAt = None THEN Present' ELSE jogAt
  IN  \E to \in {from, Present'} \cup {from - s : s \in JogSteps} \cup {from + s : s \in JogSteps} :
        jogAt' = Limited(to, Present' - Lead, Present' + Lead)

\* get_action, of a source that is not done with it.
Asks ==
  \/ program # "jog" /\ (Dwells \/ Advances) /\ UNCHANGED jogAt
  \/ program = "jog" /\ Jogs /\ UNCHANGED <<index, waited>>

\* What it returns.
Target == IF program = "jog" THEN jogAt' ELSE Waypoint(index')

\* The last get_action: the last waypoint was held for long enough, or the key q
\* was read.
Ends ==
  \/ program # "jog" /\ Near /\ Older = Dwell /\ Finishes /\ UNCHANGED source
  \/ program = "jog" /\ Jogs /\ UNCHANGED <<index, waited>>

LastTarget == IF program = "jog" THEN jogAt' ELSE Present'

NotAsked == waited' = Older /\ UNCHANGED <<index, jogAt>>

----------------------------------------------------------------------------
(* The programs.                                                           *)

\* Where a program is.  Bound: one that has lost count of the turns is not
\* followed further (Lost).
At(places) == pc \in places /\ ~jumped

\* Torque comes on without a new goal: the servo goes where it was sent last.
\* init.py runs the self test first, unless told not to.
Begin ==
  /\ At({"start"})
  /\ angle' \in Reached
  /\ Read
  /\ pc' \in IF program = "init" THEN {"test", "run"} ELSE {"run"}
  /\ tested' = [moves |-> 0, from |-> TestStart(Present', Low, High)]
  /\ UNCHANGED <<setup, goalReg, goal, soft, source, arrived>>

\* The two targets of the self test: towards the centre, and back.
TestGoal == IF tested.moves = 0 THEN TestTarget(tested.from, Low, High, TestTicks) ELSE tested.from

\* One round of the self test; the loop begins behind the second move.
TestRound ==
  /\ At({"test"})
  /\ angle' \in Reached
  /\ Read
  /\ Command(TestGoal)
  /\ LET over == Apart(TestGoal, Present') < Arrive IN
     /\ tested' = IF over THEN [tested EXCEPT !.moves = @ + 1] ELSE tested
     /\ pc' = IF over /\ tested.moves = 1 THEN "run" ELSE pc
  /\ UNCHANGED <<setup, goal, soft, source, arrived>>

Step == IF soft THEN SoftStep ELSE MaxStep

Clamps(t) == goal' = ClampGoal(Present', ToCable(t), Low, High, Step)

\* The source is asked and its target clamped.
Plans == Asks /\ Clamps(Target)

\* A cycle whose operations all succeed.
GoodCycle ==
  /\ At({"run"})
  /\ angle' \in Reached
  /\ Read
  /\ Plans
  /\ soft' = (soft /\ Apart(Target, Present') >= Arrival)
  /\ arrived' = (arrived \/ Apart(Target, Present') < Arrival)
  /\ Command(goal')
  /\ UNCHANGED <<pc, setup, tested>>

\* The joint was not read, or the bus failed before the source was asked.
UnreadCycle ==
  /\ At({"run"})
  /\ angle' \in Reached
  /\ Read \/ Unread
  /\ NotAsked
  /\ UNCHANGED <<pc, setup, goalReg, goal, soft, tested, arrived>>

\* The goal did not arrive at the servo.
UnsentCycle ==
  /\ At({"run"})
  /\ angle' \in Reached
  /\ Read
  /\ Plans
  /\ UNCHANGED <<pc, setup, goalReg, soft, tested, arrived>>

\* The detector latches behind a cycle: the pose just read is sent as the hold,
\* and the user is asked.
Trips ==
  /\ At({"run"})
  /\ angle' \in Reached
  /\ Read
  /\ Plans
  /\ Command(Present')
  /\ pc' = "prompt"
  /\ arrived' = FALSE
  /\ UNCHANGED <<setup, soft, tested>>

\* The cycle in which the source ends is a whole one: its goal may arrive or not,
\* what is read behind it may fail, and the detector may latch, so that the user
\* is asked although the loop has nothing left to do.
Complete ==
  /\ At({"run"})
  /\ angle' \in Reached
  /\ Read
  /\ Ends /\ Clamps(LastTarget)
  /\ \/ LastCommand(goal') /\ pc' \in {"done", "aborted"}
     \/ Command(Present') /\ pc' = "last prompt"
  /\ UNCHANGED <<setup, soft, tested, arrived>>

\* end_session holds the arm where it is, if the bus lets it.
Frozen == goalReg' \in {goalReg, Raw(angle)}

\* A failed self test, a bus error outside the try block, STOPPED, the answer
\* quit, Ctrl+C.
Aborts ==
  /\ At({"test", "run", "prompt", "last prompt"})
  /\ pc' = "aborted"
  /\ Frozen
  /\ UNCHANGED <<setup, angle, joint, goal, soft, source, tested, history>>

\* The servo keeps going where it was sent while the user makes up their mind,
\* the joint being read with each recover that is refused, and when the program
\* is gone.
Waits ==
  /\ At({"prompt", "last prompt", "done", "aborted"})
  /\ angle' \in Reached
  /\ \/ pc \in {"prompt", "last prompt"} /\ Read
     \/ Unread
  /\ waited' \in {waited, Older}
  /\ UNCHANGED <<pc, setup, goalReg, goal, soft, index, jogAt, tested, arrived>>

\* mutant: the loop goes on at full speed
RecoversAtSpeed ==
  /\ At({"prompt"})
  /\ pc' = "run"
  /\ angle' = angle
  /\ Read
  /\ UNCHANGED <<setup, goalReg, goal, soft, source, tested, arrived>>

\* The answer recover, when the detector agrees: the loop goes on, or returns if
\* the source is done.
Recovers ==
  /\ At({"prompt", "last prompt"})
  /\ \/ pc = "prompt" /\ pc' = "run" /\ UNCHANGED goalReg
     \/ pc = "last prompt" /\ pc' = "done" /\ Frozen
  /\ angle' = angle
  /\ Read
  /\ soft' = TRUE
  /\ UNCHANGED <<setup, goal, source, tested, arrived>>

Init ==
  /\ pc = "start"
  /\ program \in {"init", "waypoints", "rounds", "jog"}
  /\ multi \in BOOLEAN
  /\ shift \in IF multi THEN Shifts ELSE {0}
  /\ angle \in Cable
  /\ goalReg \in {Raw(a) : a \in Cable}
  /\ last = None /\ turn = 0 /\ home = None
  /\ goal = None /\ soft = TRUE
  /\ index = 1 /\ waited = None /\ jogAt = None
  /\ tested = [moves |-> 0, from |-> 0]
  /\ jumped = FALSE /\ readAt = None /\ arrived = FALSE

Lost == jumped /\ UNCHANGED vars

Next == Begin \/ TestRound \/ GoodCycle \/ UnreadCycle \/ UnsentCycle \/ Complete
          \/ Trips \/ Aborts \/ Waits \/ Recovers \/ Lost

Spec == Init /\ [][Next]_vars

\* A program of waypoints runs on, and the bus does not fail in every cycle for
\* ever.
FairSpec ==
  Spec /\ WF_vars(program # "jog" /\ (Begin \/ TestRound \/ GoodCycle \/ Complete))

----------------------------------------------------------------------------
(* Properties.                                                             *)

\* The cable is safe: whatever the source asks for and however the bus fails,
\* no program turns the joint out of the range around its relaxed pose, unless
\* it has turned more than half a turn between two readings, which the turn
\* counter takes for the other direction (joints.py:115-119, 144-153, 166-181).
CableIsSafe == jumped \/ angle \in Cable

\* A goal that leads the joint by more than the soft start (or the least step of
\* the brake zone) allows.
Hurries == goal' # None /\ Apart(goal', Present') > AtLeast(SoftStep, BrakeMin)

\* Behind a trip, as at the start, no cycle hurries the joint until it was once
\* where it is asked to be, whether its goal arrives or not and whether it trips
\* or is the last (control.py:208, 235, 243, 300).
ResumesSoftly ==
  [][(~arrived /\ Hurries) => ~(GoodCycle \/ UnsentCycle \/ Trips \/ Complete)]_vars

\* All waypoints are within reach in the turn this session counts in.
Within == \A i \in DOMAIN Waypoints :
            Waypoints[i] # None =>
              Apart(Limited(Waypoints[i], HomeAbs - Range, HomeAbs + Range), Waypoints[i]) < Arrival

\* In each pass the joint goes where it was sent, as fast as it can.
Follows == angle' = Limited(ServoGoal, angle - Speed, angle + Speed)

\* A program of waypoints within reach ends, if the joint follows and nothing
\* stops the program any more: no goal stops short of its waypoint
\* (sources.py:59-83, control.py:39-73).  Waypoints that are not of this
\* session's turn are only reached by init.py, which shifts them.
WaypointsEnd ==
  (/\ program = "init" \/ (program = "waypoints" /\ shift = 0)
   /\ Within
   /\ <>[](pc \notin {"prompt", "last prompt", "aborted"} /\ ~jumped)
   /\ <>[][Follows]_vars)
  => <>(pc = "done")

=============================================================================
