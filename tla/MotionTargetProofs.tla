------------------------- MODULE MotionTargetProofs -------------------------
(***************************************************************************)
(* Proofs about the target buffer and about the pipeline from it to the    *)
(* servos: types, that nothing creeps and nothing old is taken up again, that no cycle   *)
(* commands a joint past a limit or lets it jump, and that an arm found    *)
(* settled is at its target, for any joints, positions, limits, steps and  *)
(* watchdog.                                                               *)
(***************************************************************************)
EXTENDS MotionTarget, JointTicksProofs

\* A pass that does not ask the buffer, in MOVE: the bus failed, or a joint is
\* being corrected.
Unasked ==
  /\ present' \in Poses
  /\ Ages
  /\ UNCHANGED <<action, sticky, stale, hold, targets, inMove, command>>

Driven == Next \/ Unasked

\* What the last command was made of: the pinned hold, or the targets kept for
\* the joints that the next action may leave out.
CommandIsKept ==
  command # None =>
    IF stale THEN hold = command
    ELSE \A j \in DOMAIN targets : targets[j] = command[j]

\* A hold, and the beginning of a MOVE session, remember no target.
FreshStart == (stale \/ (inMove /\ command = None)) => targets = NoTargets

StreamInv == TypeOK /\ CommandIsKept /\ FreshStart

----------------------------------------------------------------------------
(* Types.                                                                  *)

\* The empty action is one of the partial ones.
LEMMA EmptyIsPartial == NoTargets \in Partial
<1>1. NoTargets \in [{} -> Positions]  BY DEF NoTargets
<1>2. {} \in SUBSET Joints  OBVIOUS
<1> QED  BY <1>1, <1>2 DEF Partial

\* A whole pose is a partial one, and neither is None.
LEMMA PosesArePartial == Poses \subseteq Partial /\ None \notin Poses /\ None \notin Partial
<1>1. Joints \in SUBSET Joints  OBVIOUS
<1> QED  BY <1>1, NoneAssumption DEF Poses, Partial

\* A partial action is a function of some joints to positions.
LEMMA PartialShape ==
  ASSUME NEW a \in Partial
  PROVE  /\ DOMAIN a \subseteq Joints
         /\ \A j \in DOMAIN a : a[j] \in Positions
         /\ a = [j \in DOMAIN a |-> a[j]]
<1>1. PICK S \in SUBSET Joints : a \in [S -> Positions]  BY DEF Partial
<1> QED  BY <1>1

\* Merging a partial action into the kept targets gives every joint a position.
LEMMA MergeIsPose ==
  ASSUME TypeOK, action # None, NEW now \in Poses
  PROVE  Merge(now) \in Poses
<1>1. action \in Partial  BY DEF TypeOK
<1>2. targets \in Partial  BY DEF TypeOK
<1>3. \A j \in DOMAIN action : action[j] \in Positions  BY <1>1, PartialShape
<1>4. \A j \in DOMAIN targets : targets[j] \in Positions  BY <1>2, PartialShape
<1> QED  BY <1>3, <1>4 DEF Merge, Poses

\* The clock stays within its bound.
LEMMA AgesType == ASSUME TypeOK, Ages PROVE age' \in 0 .. Watchdog + 1
BY WatchdogAssumption DEF TypeOK, Ages

\* get_action leaves every variable it assigns in its type.
LEMMA GetActionType ==
  ASSUME TypeOK, NEW now \in Poses, GetAction(now)
  PROVE  /\ stale' \in BOOLEAN
         /\ hold' \in Poses \cup {None}
         /\ targets' \in Partial
         /\ command' \in Poses
<1>1. CASE TooOld
  <2>1. GetHold(now)  BY <1>1 DEF GetAction
  <2>2. hold' \in Poses  BY <2>1 DEF GetHold, Pins, TypeOK
  <2>3. targets' \in Partial  BY <2>1, EmptyIsPartial DEF GetHold, TypeOK
  <2> QED  BY <2>1, <2>2, <2>3 DEF GetHold
<1>2. CASE ~TooOld
  <2>1. GetTarget(now) /\ action # None  BY <1>2 DEF GetAction, TooOld
  <2>2. Merge(now) \in Poses  BY <2>1, MergeIsPose
  <2> QED  BY <2>1, <2>2, PosesArePartial DEF GetTarget
<1> QED  BY <1>1, <1>2

\* A command of sopod leaves the buffer in its type.
LEMMA CommandType ==
  ASSUME TypeOK,
         \/ \E a \in Partial : StreamPush(a) \/ Goto(a)
         \/ ClearStream
         \/ \E cleared \in BOOLEAN : Leave(cleared)
         \/ Recover
         \/ \E target \in Poses : EnterMove(target)
         \/ \E a \in Partial : InitPose(a)
         \/ NewStream
  PROVE  TypeOK'
<1> USE WatchdogAssumption, EmptyIsPartial, PosesArePartial DEF TypeOK
<1>1. CASE \E a \in Partial : StreamPush(a) \/ Goto(a)
  <2>1. PICK a \in Partial : StreamPush(a) \/ Goto(a)  BY <1>1
  <2>2. \E stick \in BOOLEAN : Push(a, stick)  BY <2>1 DEF StreamPush, Goto
  <2>3. UNCHANGED <<present, inMove, command>>  BY <2>1 DEF StreamPush, Goto
  <2>4. action' \in Partial /\ sticky' \in BOOLEAN /\ age' = 0  BY <2>2 DEF Push
  <2>5. UNCHANGED <<stale, hold, targets>>  BY <2>2 DEF Push
  <2> QED  BY <2>3, <2>4, <2>5
<1>2. CASE ClearStream  BY <1>2 DEF ClearStream, Clear
<1>3. CASE \E cleared \in BOOLEAN : Leave(cleared)
  BY <1>3 DEF Leave, Clear, srcVars
<1>4. CASE Recover  BY <1>4 DEF Recover, Clear
<1>5. CASE \E target \in Poses : EnterMove(target)
  BY <1>5 DEF EnterMove, Enter
<1>6. CASE \E a \in Partial : InitPose(a)
  BY <1>6 DEF InitPose, Enter
<1>7. CASE NewStream
  <2>1. age' \in 0 .. Watchdog + 1  BY <1>7 DEF NewStream
  <2> QED  BY <1>7, <2>1 DEF NewStream
<1> QED  BY <1>1, <1>2, <1>3, <1>4, <1>5, <1>6, <1>7

\* Every step leaves the buffer in its type.
LEMMA TypeStep == ASSUME TypeOK, [Driven]_vars PROVE TypeOK'
<1>1. CASE \E now \in Poses : Cycle(now)
  <2>1. PICK now \in Poses : Cycle(now)  BY <1>1
  <2>2. /\ stale' \in BOOLEAN /\ hold' \in Poses \cup {None}
        /\ targets' \in Partial /\ command' \in Poses
    BY <2>1, GetActionType DEF Cycle
  <2>3. age' \in 0 .. Watchdog + 1  BY <2>1, AgesType DEF Cycle
  <2> QED  BY <2>1, <2>2, <2>3 DEF Cycle, TypeOK
<1>2. CASE (\E now \in Poses : Pass(now)) \/ Unasked
  <2>1. age' \in 0 .. Watchdog + 1  BY <1>2, AgesType DEF Pass, Unasked
  <2> QED  BY <1>2, <2>1 DEF Pass, Unasked, TypeOK
<1>3. CASE UNCHANGED vars  BY <1>3 DEF vars, srcVars, TypeOK
<1> QED  BY <1>1, <1>2, <1>3, CommandType DEF Driven, Next, Loop

----------------------------------------------------------------------------
(* Nothing creeps.                                                         *)

\* A step that is no cycle in MOVE keeps the command and what it was made of,
\* forgets the targets, or forgets the command.
LEMMA OtherSteps ==
  ASSUME [Driven]_vars, ~(\E now \in Poses : Cycle(now))
  PROVE  \/ command' = None
         \/ /\ command' = command /\ stale' = stale /\ hold' = hold
            /\ targets' = targets \/ targets' = NoTargets
<1>1. CASE \E now \in Poses : Pass(now)  BY <1>1 DEF Pass
<1>2. CASE Unasked  BY <1>2 DEF Unasked
<1>3. CASE UNCHANGED vars  BY <1>3 DEF vars, srcVars
<1>4. CASE \E a \in Partial : StreamPush(a) \/ Goto(a)  BY <1>4 DEF StreamPush, Goto, Push
<1>5. CASE ClearStream  BY <1>5 DEF ClearStream, Clear
<1>6. CASE \E cleared \in BOOLEAN : Leave(cleared)  BY <1>6 DEF Leave, Clear, srcVars
<1>7. CASE Recover  BY <1>7 DEF Recover
<1>8. CASE (\E target \in Poses : EnterMove(target)) \/ (\E a \in Partial : InitPose(a))
  BY <1>8 DEF EnterMove, InitPose, Enter
<1>9. CASE NewStream  BY <1>9 DEF NewStream
<1> QED
  BY <1>1, <1>2, <1>3, <1>4, <1>5, <1>6, <1>7, <1>8, <1>9 DEF Driven, Next, Loop

\* Every step keeps what the last command was made of.
LEMMA CommandIsKeptStep == ASSUME StreamInv, [Driven]_vars PROVE CommandIsKept'
<1>1. CASE \E now \in Poses : Cycle(now)
  <2>1. PICK now \in Poses : Cycle(now)  BY <1>1
  <2>2. CASE TooOld
    BY <2>1, <2>2 DEF Cycle, GetAction, GetHold, CommandIsKept
  <2>3. CASE ~TooOld
    BY <2>1, <2>3 DEF Cycle, GetAction, GetTarget, CommandIsKept
  <2> QED  BY <2>2, <2>3
<1>2. CASE ~(\E now \in Poses : Cycle(now))
  <2>1. CASE command' = None  BY <2>1 DEF CommandIsKept
  <2>2. CASE /\ command' = command /\ stale' = stale /\ hold' = hold
             /\ targets' = targets \/ targets' = NoTargets
    BY <2>2 DEF CommandIsKept, StreamInv, NoTargets
  <2> QED  BY <1>2, <2>1, <2>2, OtherSteps
<1> QED  BY <1>1, <1>2

\* Every step keeps a hold, and the beginning of a session, free of targets.
LEMMA FreshStartStep == ASSUME StreamInv, [Driven]_vars PROVE FreshStart'
<1> USE DEF FreshStart, StreamInv
<1>1. CASE \E now \in Poses : Cycle(now)
  <2>1. PICK now \in Poses : Cycle(now)  BY <1>1
  <2>2. CASE TooOld
    BY <2>1, <2>2 DEF Cycle, GetAction, GetHold, Pins
  <2>3. CASE ~TooOld
    <3>1. ~stale' /\ command' \in Poses
      BY <2>1, <2>3, GetActionType DEF Cycle, GetAction, GetTarget
    <3> QED  BY <3>1, PosesArePartial
  <2> QED  BY <2>2, <2>3
<1>2. CASE \E now \in Poses : Pass(now)  BY <1>2 DEF Pass
<1>3. CASE Unasked  BY <1>3 DEF Unasked
<1>4. CASE UNCHANGED vars  BY <1>4 DEF vars, srcVars
<1>5. CASE \E a \in Partial : StreamPush(a) \/ Goto(a)  BY <1>5 DEF StreamPush, Goto, Push
<1>6. CASE ClearStream  BY <1>6 DEF ClearStream, Clear, NoTargets
<1>7. CASE \E cleared \in BOOLEAN : Leave(cleared)
  BY <1>7 DEF Leave, Clear, srcVars, NoTargets
<1>8. CASE Recover  BY <1>8 DEF Recover, Clear, NoTargets
<1>9. CASE (\E target \in Poses : EnterMove(target)) \/ (\E a \in Partial : InitPose(a))
  BY <1>9 DEF EnterMove, InitPose, Enter, NoTargets
<1>10. CASE NewStream  BY <1>10 DEF NewStream, NoTargets
<1> QED
  BY <1>1, <1>2, <1>3, <1>4, <1>5, <1>6, <1>7, <1>8, <1>9, <1>10 DEF Driven, Next, Loop

\* The invariant holds at first, and every step keeps it.
LEMMA StreamInvInit == Init => StreamInv
<1> SUFFICES ASSUME Init PROVE StreamInv  OBVIOUS
<1>1. age \in 0 .. Watchdog + 1  BY WatchdogAssumption DEF Init
<1>2. TypeOK  BY <1>1, EmptyIsPartial DEF Init, TypeOK
<1>3. CommandIsKept  BY DEF Init, CommandIsKept
<1>4. FreshStart  BY DEF Init, FreshStart
<1> QED  BY <1>2, <1>3, <1>4 DEF StreamInv

\* Every step keeps the buffer's invariant.
LEMMA StreamInvStep == StreamInv /\ [Driven]_vars => StreamInv'
BY TypeStep, CommandIsKeptStep, FreshStartStep DEF StreamInv

\* What one step may not do to a command (NoCreep).
LEMMA NoCreepStep ==
  ASSUME StreamInv, [Driven]_vars,
         inMove, inMove', command # None, command' # None, command' # command,
         stale' <=> stale, action # None, action' = action,
         NEW j \in Joints, command'[j] # command[j]
  PROVE  \/ j \in DOMAIN action /\ command'[j] = action[j]
         \/ j \notin DOMAIN targets
<1>1. PICK now \in Poses : Cycle(now)  BY OtherSteps
<1>2. CASE TooOld
  <2>1. GetHold(now)  BY <1>1, <1>2 DEF Cycle, GetAction
  <2>2. stale'  BY <2>1 DEF GetHold
  <2>3. stale /\ hold = command  BY <2>2 DEF StreamInv, TypeOK, CommandIsKept
  <2>4. command' = command  BY <2>1, <2>3 DEF GetHold, Pins
  <2> QED  BY <2>4
<1>3. CASE ~TooOld
  <2>1. GetTarget(now)  BY <1>1, <1>3 DEF Cycle, GetAction
  <2>2. ~stale /\ command' = Merge(now)  BY <2>1 DEF GetTarget, StreamInv, TypeOK
  <2>3. \A i \in DOMAIN targets : targets[i] = command[i]
    BY <2>2 DEF StreamInv, CommandIsKept
  <2> QED  BY <2>2, <2>3 DEF Merge
<1> QED  BY <1>2, <1>3

\* What the stream takes up behind a hold, or at the beginning of a MOVE
\* session, comes from no earlier target (ResumesFromPose).
LEMMA ResumeStep ==
  ASSUME StreamInv, [Driven]_vars, inMove, inMove', stale \/ command = None,
         ~stale', command' # None, NEW j \in Joints \ DOMAIN action
  PROVE  command'[j] = present'[j]
<1>1. PICK now \in Poses : Cycle(now)
  BY OtherSteps DEF StreamInv
<1>2. GetTarget(now) /\ present' = now
  BY <1>1 DEF Cycle, GetAction, GetHold
<1>3. j \notin DOMAIN targets
  BY DEF StreamInv, FreshStart, NoTargets
<1> QED  BY <1>2, <1>3 DEF GetTarget, Merge

----------------------------------------------------------------------------
(* The buffer by itself.                                                   *)

\* Every variable of the buffer keeps its type (sources.py, StreamSource).
THEOREM StreamTypeCorrect == Spec => []TypeOK
<1>1. Init => StreamInv  BY StreamInvInit
<1>2. StreamInv /\ [Next]_vars => StreamInv'  BY StreamInvStep DEF Driven
<1>3. StreamInv => TypeOK  BY DEF StreamInv
<1> QED  BY <1>1, <1>2, <1>3, PTL DEF Spec


----------------------------------------------------------------------------
(* The buffer within the pipeline.                                         *)

\* The margin of a correction keeps it within the limits.
LEMMA MarginFits == MarginIn \in Int /\ Lo + MarginIn \in Lo .. Hi /\ Hi - MarginIn \in Lo .. Hi
BY LimitsAssumption, StepsAssumption DEF MarginIn, AtMost

\* Where a correction sends the arm is a pose.
LEMMA EntryTargetIsPose == TypeOK => EntryTarget \in Poses
<1> SUFFICES ASSUME TypeOK, NEW j \in Joints
             PROVE  (IF present[j] < Lo THEN Lo + MarginIn
                     ELSE IF present[j] > Hi THEN Hi - MarginIn ELSE present[j]) \in Positions
  BY DEF EntryTarget, Poses
<1>1. present[j] \in Positions  BY DEF TypeOK, Poses
<1> QED  BY <1>1, MarginFits, PositionsAssumption

\* goto's clamped action is a partial one.
LEMMA LimitedIsPartial ==
  ASSUME NEW a \in Partial
  PROVE  [j \in DOMAIN a |-> Limited(a[j], Lo, Hi)] \in Partial
<1>1. DOMAIN a \in SUBSET Joints /\ \A j \in DOMAIN a : a[j] \in Int
  BY PartialShape, PositionsAssumption
<1>2. ASSUME NEW j \in DOMAIN a PROVE Limited(a[j], Lo, Hi) \in Positions
  <2>1. Limited(a[j], Lo, Hi) \in Lo .. Hi  BY <1>1, LimitedFacts, LimitsAssumption
  <2> QED  BY <2>1, PositionsAssumption
<1> QED  BY <1>1, <1>2 DEF Partial

\* The pipeline drives the buffer as the buffer's own module says, or does not
\* ask it.
LEMMA DrivenByPipeline == ASSUME TypeOK, [MotionNext]_allVars PROVE [Driven]_vars
<1>1. CASE MotionLoop
  <2>1. PICK now \in Poses : \/ GoodCycle(now) \/ UnreadCycle(now) \/ UnsentCycle(now)
                             \/ CorrectionCycle(now) \/ OtherCycle(now)
    BY <1>1 DEF MotionLoop
  <2>2. CASE GoodCycle(now) \/ UnsentCycle(now) \/ OtherCycle(now)
    BY <2>2 DEF GoodCycle, UnsentCycle, OtherCycle, Driven, Next, Loop
  <2>3. CASE UnreadCycle(now) \/ CorrectionCycle(now)
    BY <2>3 DEF UnreadCycle, CorrectionCycle, Unasked, Driven
  <2> QED  BY <2>1, <2>2, <2>3
<1>2. CASE \E a \in Partial : Streams(a) \/ GoesTo(a) \/ Initialises(a)
  <2>1. PICK a \in Partial : Streams(a) \/ GoesTo(a) \/ Initialises(a)  BY <1>2
  <2>2. CASE Streams(a)  BY <2>2 DEF Streams, Driven, Next
  <2>3. CASE GoesTo(a)  BY <2>3, LimitedIsPartial DEF GoesTo, Driven, Next
  <2>4. CASE Initialises(a)  BY <2>4 DEF Initialises, Driven, Next
  <2> QED  BY <2>1, <2>2, <2>3, <2>4
<1>3. CASE Clears  BY <1>3 DEF Clears, Driven, Next
<1>4. CASE \E cleared, emptied \in BOOLEAN : Leaves(cleared, emptied)
  BY <1>4 DEF Leaves, Driven, Next
<1>5. CASE Recovers  BY <1>5 DEF Recovers, Driven, Next
<1>6. CASE EntersMove
  BY <1>6, EntryTargetIsPose DEF EntersMove, Driven, Next
<1>7. CASE Resets  BY <1>7 DEF Resets, Driven, Next
<1>8. CASE (\E j \in Joints, o \in Offsets : SetsHotfix(j, o)) \/ UNCHANGED allVars
  BY <1>8 DEF SetsHotfix, allVars
<1> QED
  BY <1>1, <1>2, <1>3, <1>4, <1>5, <1>6, <1>7, <1>8 DEF MotionNext

\* Whatever the pipeline does, the buffer's invariant holds.
THEOREM StreamIsKept == MotionSpec => []StreamInv
<1>1. MotionInit => StreamInv  BY StreamInvInit DEF MotionInit
<1>2. StreamInv /\ [MotionNext]_allVars => StreamInv'
  BY StreamInvStep, DrivenByPipeline DEF StreamInv
<1> QED  BY <1>1, <1>2, PTL DEF MotionSpec

\* A target only changes because somebody asked (NoCreep).
THEOREM NothingCreeps == MotionSpec => NoCreep
<1>1. StreamInv /\ [MotionNext]_allVars =>
        [(inMove /\ inMove' /\ command # None /\ command' # None /\ command' # command
          /\ (stale' <=> stale) /\ action # None /\ action' = action)
         => \A j \in Joints :
              command'[j] # command[j] =>
                \/ j \in DOMAIN action /\ command'[j] = action[j]
                \/ j \notin DOMAIN targets]_vars
  BY DrivenByPipeline, NoCreepStep DEF StreamInv
<1> QED  BY <1>1, StreamIsKept, PTL DEF MotionSpec, NoCreep

\* The stream takes an unnamed joint up from where it is (ResumesFromPose).
THEOREM ResumesWhereItIs == MotionSpec => ResumesFromPose
<1>1. StreamInv /\ [MotionNext]_allVars =>
        [(inMove /\ inMove' /\ (stale \/ command = None) /\ ~stale' /\ command' # None)
         => \A j \in Joints \ DOMAIN action : command'[j] = present'[j]]_vars
  BY DrivenByPipeline, ResumeStep DEF StreamInv
<1> QED  BY <1>1, StreamIsKept, PTL DEF MotionSpec, ResumesFromPose

----------------------------------------------------------------------------
(* What is commanded.                                                      *)

\* What a cycle of the buffer leaves behind is asked for in whole ticks.
LEMMA AskedIsInt ==
  ASSUME MotionTypeOK, NEW now \in Poses, Cycle(now), NEW j \in Joints
  PROVE  Asked[j] \in Int /\ present'[j] \in Int
<1>1. command' \in Poses  BY GetActionType DEF Cycle, MotionTypeOK
<1>2. command'[j] \in Int /\ now[j] \in Int  BY <1>1, PositionsAssumption DEF Poses
<1>3. hotfix[j] \in Int  BY OffsetsAssumption DEF MotionTypeOK
<1>4. Asked[j] = command'[j] + Offset(j) /\ Offset(j) \in Int
  BY <1>3 DEF Asked, Offset
<1> QED  BY <1>2, <1>4 DEF Cycle

\* Every variable of the pipeline keeps its type.
LEMMA MotionTypeStep == ASSUME MotionTypeOK, [MotionNext]_allVars PROVE MotionTypeOK'
<1>1. TypeOK'
  BY DrivenByPipeline, TypeStep DEF MotionTypeOK
<1>2. \A now \in Poses : Cycle(now) => GoalFor(now) \in Goals
  <2> SUFFICES ASSUME NEW now \in Poses, Cycle(now), NEW j \in Joints
               PROVE  ClampGoal(now[j], Asked[j], Lo, Hi, Step) \in Int
    BY DEF GoalFor, Goals
  <2>1. Asked[j] \in Int /\ now[j] \in Int  BY AskedIsInt DEF Cycle
  <2>2. Step \in Nat  BY StepsAssumption DEF Step
  <2> DEFINE g == ClampGoal(now[j], Asked[j], Lo, Hi, Step)
  <2>3. Lo \in Int /\ Hi \in Int /\ Lo <= Hi  BY LimitsAssumption
  <2>4. g = ClampGoal(now[j], Asked[j], Lo, Hi, Step)  OBVIOUS
  <2> HIDE DEF g
  <2>5. g \in Int  BY <2>1, <2>2, <2>3, <2>4, ClampIsSafe
  <2> QED  BY <2>5 DEF g
<1>3. Poses \subseteq Goals  BY PositionsAssumption DEF Poses, Goals
<1>4. \A pose, moving : Settles(moving, pose) \in BOOLEAN  BY DEF Settles
<1>5. CASE MotionLoop
  <2>1. PICK now \in Poses : \/ GoodCycle(now) \/ UnreadCycle(now) \/ UnsentCycle(now)
                             \/ CorrectionCycle(now) \/ OtherCycle(now)
    BY <1>5 DEF MotionLoop
  <2>2. settled' \in BOOLEAN
    BY <2>1, <1>4 DEF GoodCycle, UnreadCycle, UnsentCycle, CorrectionCycle, OtherCycle, Judges
  <2>3. CASE GoodCycle(now) \/ UnsentCycle(now)
    BY <2>3, <2>2, <1>1, <1>2 DEF GoodCycle, UnsentCycle, MotionTypeOK
  <2>4. CASE UnreadCycle(now)  BY <2>4, <2>2, <1>1 DEF UnreadCycle, MotionTypeOK
  <2>5. CASE CorrectionCycle(now)
    <3>1. goal' \in Goals /\ correcting' \in Goals \cup {None} /\ commOk' \in BOOLEAN
      BY <2>5 DEF CorrectionCycle, MotionTypeOK
    <3> QED  BY <3>1, <2>5, <2>2, <1>1 DEF CorrectionCycle, MotionTypeOK
  <2>6. CASE OtherCycle(now)  BY <2>6, <2>2, <1>1, <1>3 DEF OtherCycle, MotionTypeOK
  <2> QED  BY <2>1, <2>3, <2>4, <2>5, <2>6
<1>6. CASE \E a \in Partial : Streams(a) \/ GoesTo(a) \/ Initialises(a)
  BY <1>6, <1>1 DEF Streams, GoesTo, Initialises, Unmoved, motionVars, MotionTypeOK
<1>7. CASE Clears  BY <1>7, <1>1 DEF Clears, Unmoved, motionVars, MotionTypeOK
<1>8. CASE \E cleared, emptied \in BOOLEAN : Leaves(cleared, emptied)
  BY <1>8, <1>1 DEF Leaves, MotionTypeOK
<1>9. CASE Recovers \/ Resets  BY <1>9, <1>1 DEF Recovers, Resets, MotionTypeOK
<1>10. CASE EntersMove
  <2>1. EntryTarget \in Goals  BY <1>3, EntryTargetIsPose DEF MotionTypeOK
  <2> QED  BY <1>10, <1>1, <2>1 DEF EntersMove, MotionTypeOK
<1>11. CASE \E j \in Joints, o \in Offsets : SetsHotfix(j, o)
  BY <1>11, <1>1 DEF SetsHotfix, MotionTypeOK
<1>12. CASE UNCHANGED allVars  BY <1>12, <1>1 DEF allVars, motionVars, MotionTypeOK
<1> QED
  BY <1>5, <1>6, <1>7, <1>8, <1>9, <1>10, <1>11, <1>12 DEF MotionNext

\* Every variable of the pipeline keeps its type (daemon.py, _loop).
THEOREM MotionTypeCorrect == MotionSpec => []MotionTypeOK
<1>1. MotionInit => MotionTypeOK
  BY StreamInvInit, OffsetsAssumption DEF MotionInit, MotionTypeOK, StreamInv
<1>2. MotionTypeOK /\ [MotionNext]_allVars => MotionTypeOK'  BY MotionTypeStep
<1> QED  BY <1>1, <1>2, PTL DEF MotionSpec

\* No cycle commands a joint past a limit, or further than a step (StepIsSafe).
THEOREM StepsAreSafe == MotionSpec => StepIsSafe
<1>1. ASSUME MotionTypeOK, NEW now \in Poses, GoodCycle(now) \/ UnsentCycle(now), NEW j \in Joints
      PROVE  /\ goal'[j] <= AtLeast(Hi, present'[j])
             /\ goal'[j] >= AtMost(Lo, present'[j])
             /\ Apart(goal'[j], present'[j]) <= AtLeast(Step, BrakeMin)
  <2>1. Cycle(now) /\ goal' = GoalFor(now) /\ present' = now
    BY <1>1 DEF GoodCycle, UnsentCycle, Cycle
  <2>2. Asked[j] \in Int /\ present'[j] \in Int  BY <1>1, <2>1, AskedIsInt
  <2>3. goal'[j] = ClampGoal(present'[j], Asked[j], Lo, Hi, Step)  BY <2>1 DEF GoalFor
  <2>4. Step \in Nat  BY StepsAssumption DEF Step
  <2> DEFINE p == present'[j]  g == goal'[j]  a == Asked[j]
  <2>5. p \in Int /\ a \in Int /\ g = ClampGoal(p, a, Lo, Hi, Step)  BY <2>2, <2>3
  <2>6. Lo \in Int /\ Hi \in Int /\ Lo <= Hi  BY LimitsAssumption
  <2> HIDE DEF p, g, a
  <2>7. g \in Int /\ AtMost(Lo, p) <= g /\ g <= AtLeast(Hi, p)
        /\ Apart(g, p) <= AtLeast(Step, BrakeMin)
    BY <2>4, <2>5, <2>6, ClampIsSafe
  <2>8. AtMost(Lo, p) \in Int  BY <2>5, <2>6 DEF AtMost
  <2>9. g >= AtMost(Lo, p)  BY <2>5, <2>7, <2>8
  <2> QED  BY <2>7, <2>9 DEF p, g
<1>2. MotionTypeOK =>
        [(\E now \in Poses : GoodCycle(now) \/ UnsentCycle(now)) =>
           \A j \in Joints :
             /\ goal'[j] <= AtLeast(Hi, present'[j])
             /\ goal'[j] >= AtMost(Lo, present'[j])
             /\ Apart(goal'[j], present'[j]) <= AtLeast(Step, BrakeMin)]_allVars
  BY <1>1
<1> QED  BY <1>2, MotionTypeCorrect, PTL DEF StepIsSafe

\* An arm within its limits that a whole cycle finds settled is where it was
\* asked to be (SettledIsAtTarget).
THEOREM SettledMeansArrived == MotionSpec => SettledIsAtTarget
<1>1. ASSUME MotionTypeOK, settled', GoodLoop, NEW j \in Joints,
             Lo <= present'[j] /\ present'[j] <= Hi
      PROVE  Apart(Limited(Asked[j], Lo, Hi), present'[j]) < Arrival
  <2>1. PICK now \in Poses : GoodCycle(now)  BY <1>1 DEF GoodLoop
  <2>2. Cycle(now) /\ goal' = GoalFor(now) /\ present' = now  BY <2>1 DEF GoodCycle, Cycle
  <2>3. Asked[j] \in Int /\ present'[j] \in Int  BY <1>1, <2>2, AskedIsInt
  <2>4. ~soft' /\ Apart(goal'[j], present'[j]) < Arrival
    BY <1>1, <2>1 DEF GoodCycle, Judges, Settles
  <2>5. CASE soft
    <3>1. Arrived(now)  BY <2>1, <2>4, <2>5 DEF GoodCycle
    <3>2. Apart(Asked[j], present'[j]) < Arrival  BY <2>2, <3>1 DEF Arrived
    <3> DEFINE a == Asked[j]  p == present'[j]
    <3>3. a \in Int /\ p \in Int /\ Lo <= p /\ p <= Hi /\ Apart(a, p) < Arrival
      BY <1>1, <2>3, <3>2
    <3> HIDE DEF a, p
    <3>4. Apart(Limited(a, Lo, Hi), p) < Arrival
      BY <3>3, LimitsAssumption, StepsAssumption DEF Apart, Limited, AtMost, AtLeast
    <3> QED  BY <3>4 DEF a, p
  <2>6. CASE ~soft
    <3>1. Step = MaxStep  BY <2>6 DEF Step
    <3>2. Arrival \in Nat /\ MaxStep \in Nat /\ Arrival <= MaxStep /\ Arrival <= BrakeMin
      BY StepsAssumption, BrakeAssumption
    <3>3. goal'[j] = ClampGoal(present'[j], Asked[j], Lo, Hi, MaxStep)
      BY <2>2, <3>1 DEF GoalFor
    <3> QED  BY <2>3, <2>4, <3>2, <3>3, NearGoalIsTarget, LimitsAssumption
  <2> QED  BY <2>5, <2>6
<1>2. MotionTypeOK =>
        [(settled' /\ GoodLoop) =>
           \A j \in Joints : (Lo <= present'[j] /\ present'[j] <= Hi) =>
             Apart(Limited(Asked[j], Lo, Hi), present'[j]) < Arrival]_allVars
  BY <1>1
<1> QED  BY <1>2, MotionTypeCorrect, PTL DEF SettledIsAtTarget

=============================================================================
