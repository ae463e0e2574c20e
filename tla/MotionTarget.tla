---------------------------- MODULE MotionTarget ----------------------------
(***************************************************************************)
(* From the target buffer to the servos: what sopod's loop makes of an     *)
(* action (sopo/runtime/daemon.py, _loop).  The correction of a joint that *)
(* starts outside its limits, the hotfix offset, the soft start, the clamp *)
(* and the test whether the arm has settled, with the bus failing anywhere *)
(* in a cycle.  Modes and leases are in Daemon; here the arm is in MOVE or *)
(* not, and all joints have the same limits.                               *)
(***************************************************************************)
EXTENDS StreamSource, JointTicks

CONSTANTS
  Lo, Hi,       \* the soft limits
  SoftStep,     \* SOFT_START_STEP
  MaxStep,      \* max_relative_target
  Arrival,      \* ARRIVAL_TICKS
  EntryMargin,  \* ENTRY_MARGIN_TICKS
  Offsets       \* hotfix offsets a joint can have, 0 among them

ASSUME LimitsAssumption == Lo \in Int /\ Hi \in Int /\ Lo < Hi
ASSUME StepsAssumption ==
  /\ SoftStep \in Nat /\ MaxStep \in Nat /\ Arrival \in Nat /\ EntryMargin \in Nat
  /\ 0 < SoftStep /\ SoftStep <= MaxStep /\ Arrival <= BrakeMin /\ BrakeMin <= MaxStep
ASSUME PositionsAssumption == Positions \subseteq Int /\ Lo .. Hi \subseteq Positions
ASSUME OffsetsAssumption == Offsets \subseteq Int /\ 0 \in Offsets

VARIABLES
  soft,        \* soft
  goal,        \* goal: what was commanded last, None while it is empty
  correcting,  \* entry_target, or None
  settled,     \* settled, of the last cycle
  commOk,      \* comm_ok, of the last cycle
  hotfix       \* hotfix_ticks of each joint

motionVars == <<soft, goal, correcting, settled, commOk, hotfix>>
allVars == <<vars, motionVars>>

Goals == [Joints -> Int]

MotionTypeOK ==
  /\ TypeOK
  /\ soft \in BOOLEAN
  /\ goal \in Goals \cup {None}
  /\ correcting \in Goals \cup {None}
  /\ settled \in BOOLEAN
  /\ commOk \in BOOLEAN
  /\ hotfix \in [Joints -> Offsets]

----------------------------------------------------------------------------
(* A cycle.                                                                *)

\* A sticky target is held with the hotfix added to it.
Offset(j) == IF sticky /\ action # None THEN hotfix[j] ELSE 0
Asked == [j \in Joints |-> command'[j] + Offset(j)]

Step == IF soft THEN SoftStep ELSE MaxStep

\* mutant: the hotfix is added behind the clamp
GoalForOffsetLast(now) ==
  [j \in Joints |-> ClampGoal(now[j], command'[j], Lo, Hi, Step) + Offset(j)]

GoalFor(now) == [j \in Joints |-> ClampGoal(now[j], Asked[j], Lo, Hi, Step)]

\* mutant: arrival to the tick
ArrivedExactly(now) == \A j \in Joints : Asked[j] = now[j]

Arrived(now) == \A j \in Joints : Apart(Asked[j], now[j]) < Arrival

Settles(moving, pose) ==
  /\ moving /\ ~soft' /\ goal' # None
  /\ \A j \in Joints : Apart(goal'[j], pose[j]) < Arrival

Judges == settled' = Settles(inMove, present')

\* The whole try block.
GoodCycle(now) ==
  /\ correcting = None
  /\ Cycle(now)
  /\ goal' = GoalFor(now)
  /\ soft' = (soft /\ ~Arrived(now))
  /\ commOk' = TRUE
  /\ UNCHANGED <<correcting, hotfix>>
  /\ Judges

\* The positions were read, then the bus failed; or not even they were.
UnreadCycle(now) ==
  /\ inMove
  /\ present' = now
  /\ commOk' = FALSE
  /\ Ages
  /\ UNCHANGED <<action, sticky, stale, hold, targets, inMove, command,
                 soft, goal, correcting, hotfix>>
  /\ Judges

\* The bus failed while the goals were sent.
UnsentCycle(now) ==
  /\ correcting = None
  /\ Cycle(now)
  /\ goal' = GoalFor(now)
  /\ commOk' = FALSE
  /\ UNCHANGED <<soft, correcting, hotfix>>
  /\ Judges

Inside(now) == \A j \in Joints : Lo <= now[j] /\ now[j] <= Hi

\* _check_entry: the corrected pose is the goal and the stream is not asked.  The
\* correction is over when the arm is there, unless the old speed cannot be
\* restored.
CorrectionCycle(now) ==
  /\ inMove /\ correcting # None
  /\ present' = now
  /\ goal' = correcting
  /\ LET there == Inside(now) /\ \A j \in Joints : Apart(correcting[j], now[j]) <= EntryMargin IN
     \/ there /\ commOk' = TRUE /\ correcting' = None
     \/ commOk' = ~there /\ UNCHANGED correcting
  /\ Ages
  /\ UNCHANGED <<action, sticky, stale, hold, targets, inMove, command, soft, hotfix>>
  /\ Judges

\* Outside MOVE the goal is what was measured, or in REFLEX left alone.
OtherCycle(now) ==
  /\ Pass(now)
  /\ goal' \in {goal, now}
  /\ commOk' \in BOOLEAN
  /\ UNCHANGED <<soft, correcting, hotfix>>
  /\ Judges

----------------------------------------------------------------------------
(* Commands.                                                               *)

Unmoved == UNCHANGED motionVars

\* A client's action is taken as it is, not during a correction.
Streams(a) == correcting = None /\ StreamPush(a) /\ Unmoved

\* goto clamps its target to the limits; a final hold is within them.
GoesTo(a) ==
  /\ correcting = None
  /\ Goto([j \in DOMAIN a |-> Limited(a[j], Lo, Hi)])
  /\ Unmoved

\* acquire (not meanwhile) or a lease given back (also meanwhile).
Clears == ClearStream /\ Unmoved

\* A latch, stop or idle; a stop empties the goal.
Leaves(cleared, emptied) ==
  /\ Leave(cleared)
  /\ correcting' = None
  /\ goal' = IF emptied THEN None ELSE goal
  /\ UNCHANGED <<soft, settled, commOk, hotfix>>

Recovers == Recover /\ soft' = TRUE /\ UNCHANGED <<goal, correcting, settled, commOk, hotfix>>

MarginIn == AtMost(EntryMargin, (Hi - Lo) \div 2)

\* Where _enter_move sends each joint: just inside its limits, or nowhere.
EntryTarget ==
  [j \in Joints |-> IF present[j] < Lo THEN Lo + MarginIn
                    ELSE IF present[j] > Hi THEN Hi - MarginIn ELSE present[j]]

EntersMove ==
  /\ EnterMove(EntryTarget)
  /\ soft' = TRUE
  /\ correcting' = IF EntryTarget = present THEN None ELSE EntryTarget
  /\ UNCHANGED <<goal, settled, commOk, hotfix>>

\* The self test moves the arm inside the command.
Initialises(standby) ==
  /\ correcting = None
  /\ InitPose(standby)
  /\ soft' = TRUE
  /\ UNCHANGED <<goal, correcting, settled, commOk, hotfix>>

Resets ==
  /\ NewStream
  /\ soft' = TRUE
  /\ goal' = None
  /\ correcting' = None
  /\ settled' = FALSE
  /\ UNCHANGED <<commOk, hotfix>>

\* hold_target: what the stream holds joint j at.
Held(j) == IF j \in DOMAIN action THEN action[j] ELSE targets[j]
Holds(j) == sticky /\ action # None /\ j \in DOMAIN action \cup DOMAIN targets

\* hotfix, in IDLE without a look at the target, in MOVE within the limits.
SetsHotfix(j, o) ==
  /\ \/ ~inMove
     \/ /\ correcting = None /\ commOk /\ settled
        /\ Holds(j)
        /\ Lo <= Held(j) + o /\ Held(j) + o <= Hi
  /\ hotfix' = [hotfix EXCEPT ![j] = o]
  /\ UNCHANGED <<vars, soft, goal, correcting, settled, commOk>>

MotionInit ==
  /\ Init
  /\ soft = TRUE
  /\ goal = None
  /\ correcting = None
  /\ settled = FALSE
  /\ commOk = TRUE
  /\ hotfix = [j \in Joints |-> 0]

GoodLoop == \E now \in Poses : GoodCycle(now)

MotionLoop ==
  \E now \in Poses : \/ GoodCycle(now)
                     \/ UnreadCycle(now)
                     \/ UnsentCycle(now)
                     \/ CorrectionCycle(now)
                     \/ OtherCycle(now)

MotionNext ==
  \/ MotionLoop
  \/ \E a \in Partial : Streams(a) \/ GoesTo(a) \/ Initialises(a)
  \/ Clears
  \/ \E cleared, emptied \in BOOLEAN : Leaves(cleared, emptied)
  \/ Recovers
  \/ EntersMove
  \/ Resets
  \/ \E j \in Joints, o \in Offsets : SetsHotfix(j, o)

MotionSpec == MotionInit /\ [][MotionNext]_allVars

\* The loop goes on, and the bus does not fail in every cycle for ever.
MotionFairSpec == MotionSpec /\ WF_allVars(GoodLoop)

----------------------------------------------------------------------------
(* Properties.                                                             *)

\* No cycle commands a joint past a limit, or further past it than it was
\* measured, and none commands a jump: the step of the soft start, or of the
\* drive, or the least step of the brake zone (control.py:39-73).
StepIsSafe ==
  [][(\E now \in Poses : GoodCycle(now) \/ UnsentCycle(now)) =>
       \A j \in Joints :
         /\ goal'[j] <= AtLeast(Hi, present'[j])
         /\ goal'[j] >= AtMost(Lo, present'[j])
         /\ Apart(goal'[j], present'[j]) <= AtLeast(Step, BrakeMin)]_allVars

\* An arm within its limits that a whole cycle found settled is where it was
\* asked to be, not on its way there in small steps: the least step of the brake
\* zone is no smaller than the tolerance of the test (daemon.py:335-340,
\* control.py:47).  An arm outside its limits may seem settled for one cycle, the
\* one in which the soft start ends at a target that is outside too.
SettledIsAtTarget ==
  [][(settled' /\ GoodLoop) =>
       \A j \in Joints : (Lo <= present'[j] /\ present'[j] <= Hi) =>
         Apart(Limited(Asked[j], Lo, Hi), present'[j]) < Arrival]_allVars

Reachable ==
  command = None \/
  \A j \in Joints : Lo - Arrival < command[j] + Offset(j) /\ command[j] + Offset(j) < Hi + Arrival

\* The soft start is left: if in the end no command and no action comes any
\* more, what is asked is within reach of the limits and the arm goes where each
\* cycle sends it, then it arrives (daemon.py:295).  A target beyond the limits keeps the
\* arm at the soft step for ever, hence Reachable.
SoftStartEnds ==
  (/\ <>[](inMove /\ correcting = None /\ Reachable)
   /\ <>[][MotionLoop /\ (\/ goal = None
                          \/ present' = goal
                          \/ present' = present /\ ~commOk')]_allVars)
  => <>[](~soft)

=============================================================================
