---------------------------- MODULE DaemonProofs ----------------------------
(***************************************************************************)
(* Theorems about Daemon.tla, for any motors, clients, names and bounds.   *)
(***************************************************************************)
EXTENDS Daemon, TLAPS

----------------------------------------------------------------------------
(* What the bus sequences leave in the registers they write.               *)

LEMMA TorqueOffTypes ==
  ASSUME ServosOK, NEW verified, TorqueOff(verified)
  PROVE  en' \in [Motors -> 0 .. 2]
BY DEF ServosOK, TorqueOff

LEMMA RestoreSpeedTypes ==
  ASSUME ControlOK, ServosOK, NEW ok \in BOOLEAN, RestoreSpeed(ok)
  PROVE  /\ vel' \in {"normal", "slow"}
         /\ savedSpeed' \in {"none", "normal", "slow"}
BY DEF ControlOK, ServosOK, RestoreSpeed

LEMMA FreezeTypes ==
  ASSUME ServosOK, NEW held \in BOOLEAN, Freeze(held)
  PROVE  /\ goalReg' \in {"held", "target"}
         /\ cap' \in [Motors -> Caps]
         /\ en' \in [Motors -> 0 .. 2]
BY DEF ServosOK, Freeze, Caps

LEMMA ApplySafetyTypes ==
  ASSUME ServosOK, NEW done, ApplySafety(done)
  PROVE  cap' \in [Motors -> Caps]
BY DEF ServosOK, ApplySafety, MotionCap, Caps

LEMMA FreshReflexTypes ==
  ASSUME ControlOK, FreshReflex
  PROVE  reflex' \in ReflexModes /\ commFails' \in 0 .. CommFailMax
BY BoundsAssumption DEF ControlOK, FreshReflex, NewReflex, ReflexModes, detector

LEMMA EnterMoveDoneTypes ==
  ASSUME ControlOK, ServosOK, NEW correcting \in BOOLEAN, EnterMoveDone(correcting)
  PROVE  /\ reflex' \in ReflexModes /\ commFails' \in 0 .. CommFailMax
         /\ vel' \in {"normal", "slow"}
         /\ savedSpeed' \in {"none", "normal", "slow"}
         /\ cap' \in [Motors -> Caps]
         /\ en' \in [Motors -> 0 .. 2]
         /\ entryTarget' = correcting
         /\ entryAge' = 0
BY FreshReflexTypes, ApplySafetyTypes DEF ControlOK, ServosOK, EnterMoveDone

LEMMA EnterMoveRaisesTypes ==
  ASSUME ControlOK, ServosOK, NEW correcting \in BOOLEAN, EnterMoveRaises(correcting)
  PROVE  /\ reflex' \in ReflexModes /\ commFails' \in 0 .. CommFailMax
         /\ vel' \in {"normal", "slow"}
         /\ savedSpeed' \in {"none", "normal", "slow"}
         /\ cap' \in [Motors -> Caps]
         /\ en' \in [Motors -> 0 .. 2]
         /\ goalReg' \in {"held", "target"}
         /\ stream' = "empty"
         /\ UNCHANGED <<entryTarget, entryAge>>
BY FreshReflexTypes, ApplySafetyTypes DEF ControlOK, ServosOK, EnterMoveRaises

LEMMA OlderTypes ==
  ASSUME FlagsOK, ControlOK
  PROVE  Older \in 0 .. EntryTimeout
BY BoundsAssumption DEF FlagsOK, ControlOK, Older

----------------------------------------------------------------------------
(* Types.                                                                  *)

LEMMA InitTypes == Init => TypeOK
<1> SUFFICES ASSUME Init PROVE TypeOK
  OBVIOUS
<1>1. FlagsOK
  BY DEF Init, FlagsOK
<1>2. ControlOK
  BY BoundsAssumption DEF Init, ControlOK, Modes, ReflexModes, Contents
<1>3. ServosOK
  BY DEF Init, ServosOK, Caps
<1> QED
  BY <1>1, <1>2, <1>3 DEF TypeOK

LEMMA CommandTypes ==
  ASSUME TypeOK, Command
  PROVE  TypeOK'
<1> USE ClientsAssumption, BoundsAssumption DEF process, servos, detector, leaseVars, entryVars, tareVars
<1>0. FlagsOK /\ ControlOK /\ ServosOK
  BY DEF TypeOK
<1> USE <1>0
<1>1. CASE Reset
  <2>1. FlagsOK'
    BY <1>1 DEF Reset, FlagsOK, NoEntry
  <2>2. ControlOK'
    <3>1. savedSpeed' \in {"none", "normal", "slow"}
      BY <1>1, RestoreSpeedTypes DEF Reset, ControlOK
    <3>2. mode' \in Modes
      BY <1>1 DEF Reset, Modes
    <3>3. NewReflex \/ UNCHANGED detector
      BY <1>1 DEF Reset
    <3>4. reflex' \in ReflexModes /\ commFails' \in 0 .. CommFailMax
      BY <3>3 DEF ControlOK, NewReflex, ReflexModes
    <3> QED
      BY <1>1, <3>1, <3>2, <3>4 DEF Reset, ControlOK, NoEntry, Contents
  <2>3. ServosOK'
    BY <1>1, TorqueOffTypes, RestoreSpeedTypes DEF Reset, ServosOK
  <2> QED
    BY <2>1, <2>2, <2>3 DEF TypeOK
<1>2. CASE Stop
  <2>1. FlagsOK'
    BY <1>2 DEF Stop, FlagsOK, NoEntry, RevokeAndClear
  <2>2. ControlOK'
    BY <1>2 DEF Stop, ControlOK, NoEntry, RevokeAndClear, Modes, ReflexModes, Contents
  <2>3. ServosOK'
    BY <1>2 DEF Stop, ServosOK, Caps
  <2> QED
    BY <2>1, <2>2, <2>3 DEF TypeOK
<1>3. CASE TareExt
  <2>1. FlagsOK'
    BY <1>3 DEF TareExt, FlagsOK
  <2>2. ControlOK'
    BY <1>3 DEF TareExt, ControlOK
  <2>3. ServosOK'
    BY <1>3 DEF TareExt, ServosOK
  <2> QED
    BY <2>1, <2>2, <2>3 DEF TypeOK
<1>4. ASSUME NEW c \in Clients, Acquire(c) PROVE TypeOK'
  <2>1. FlagsOK'
    BY <1>4 DEF Acquire, FlagsOK
  <2>2. ControlOK'
    BY <1>4 DEF Acquire, ControlOK, Contents
  <2>3. ServosOK'
    BY <1>4 DEF Acquire, ServosOK
  <2> QED
    BY <2>1, <2>2, <2>3 DEF TypeOK
<1>5. ASSUME NEW hold \in BOOLEAN, Release(hold) PROVE TypeOK'
  <2>1. FlagsOK'
    BY <1>5 DEF Release, FlagsOK
  <2>2. ControlOK'
    BY <1>5 DEF Release, ControlOK, Contents
  <2>3. ServosOK'
    BY <1>5 DEF Release, ServosOK
  <2> QED
    BY <2>1, <2>2, <2>3 DEF TypeOK
<1>6. CASE Move
  <2>1. FlagsOK'
    BY <1>6, EnterMoveDoneTypes, EnterMoveRaisesTypes DEF Move, FlagsOK
  <2>2. ControlOK'
    BY <1>6, EnterMoveDoneTypes, EnterMoveRaisesTypes DEF Move, ControlOK, Modes, ReflexModes, Contents
  <2>3. ServosOK'
    BY <1>6, EnterMoveDoneTypes, EnterMoveRaisesTypes DEF Move, ServosOK
  <2> QED
    BY <2>1, <2>2, <2>3 DEF TypeOK
<1>7. ASSUME NEW to \in {"idle", "guiding"}, DropTorque(to) PROVE TypeOK'
  <2>1. FlagsOK'
    BY <1>7 DEF DropTorque, FlagsOK, NoEntry, RevokeAndClear
  <2>2. ControlOK'
    BY <1>7, RestoreSpeedTypes DEF DropTorque, ControlOK, NoEntry, RevokeAndClear, Modes, ReflexModes, Contents
  <2>3. ServosOK'
    BY <1>7, TorqueOffTypes, RestoreSpeedTypes DEF DropTorque, ServosOK
  <2> QED
    BY <2>1, <2>2, <2>3 DEF TypeOK
<1>8. CASE Recover
  <2>1. FlagsOK'
    BY <1>8 DEF Recover, FlagsOK, Resume
  <2>2. ControlOK'
    BY <1>8 DEF Recover, ControlOK, Resume, NewReflex, Modes, ReflexModes, Contents
  <2>3. ServosOK'
    BY <1>8, ApplySafetyTypes DEF Recover, ServosOK
  <2> QED
    BY <2>1, <2>2, <2>3 DEF TypeOK
<1>9. CASE Goto
  <2>1. FlagsOK'
    BY <1>9 DEF Goto, FlagsOK
  <2>2. ControlOK'
    BY <1>9 DEF Goto, ControlOK, Contents
  <2>3. ServosOK'
    BY <1>9 DEF Goto, ServosOK
  <2> QED
    BY <2>1, <2>2, <2>3 DEF TypeOK
<1>10. CASE InitPose
  <2>1. FlagsOK'
    BY <1>10, EnterMoveDoneTypes, EnterMoveRaisesTypes DEF InitPose, FlagsOK, NoEntry
  <2>2. ControlOK'
    <3>1. /\ reflex' \in ReflexModes /\ commFails' \in 0 .. CommFailMax
          /\ savedSpeed' \in {"none", "normal", "slow"}
      BY <1>10, EnterMoveDoneTypes, EnterMoveRaisesTypes, FreshReflexTypes DEF InitPose, ControlOK
    <3>2. mode' \in Modes
      BY <1>10 DEF InitPose, ControlOK, Modes
    <3>3. stream' \in Contents
      BY <1>10, EnterMoveRaisesTypes DEF InitPose, Contents
    <3>4. entryAge' = 0 \/ entryAge' = entryAge
      BY <1>10, EnterMoveDoneTypes, EnterMoveRaisesTypes DEF InitPose, NoEntry
    <3> QED
      BY <1>10, <3>1, <3>2, <3>3, <3>4 DEF InitPose, ControlOK
  <2>3. ServosOK'
    <3>1. cap' \in [Motors -> Caps]
      BY <1>10, EnterMoveDoneTypes, EnterMoveRaisesTypes, ApplySafetyTypes
         DEF InitPose, ServosOK, Caps
    <3>2. en' \in [Motors -> 0 .. 2]
      <4>1. en' = [m \in Motors |-> 1] \/ EnterMoveRaises(FALSE) \/ EnterMoveDone(FALSE)
        BY <1>10 DEF InitPose
      <4>2. CASE en' = [m \in Motors |-> 1]
        BY <4>2
      <4>3. CASE EnterMoveRaises(FALSE)
        BY <4>3, EnterMoveRaisesTypes
      <4>4. CASE EnterMoveDone(FALSE)
        BY <4>4, EnterMoveDoneTypes
      <4> QED
        BY <4>1, <4>2, <4>3, <4>4
    <3>3. vel' \in {"normal", "slow"}
      BY <1>10, EnterMoveDoneTypes, EnterMoveRaisesTypes DEF InitPose, ServosOK
    <3>4. goalReg' \in {"held", "target"}
      BY <1>10, EnterMoveRaisesTypes DEF InitPose, ServosOK
    <3> QED
      BY <3>1, <3>2, <3>3, <3>4 DEF ServosOK
  <2> QED
    BY <2>1, <2>2, <2>3 DEF TypeOK
<1>11. CASE Shutdown
  <2>1. FlagsOK'
    BY <1>11 DEF Shutdown, FlagsOK
  <2>2. ControlOK'
    BY <1>11 DEF Shutdown, ControlOK
  <2>3. ServosOK'
    BY <1>11 DEF Shutdown, ServosOK
  <2> QED
    BY <2>1, <2>2, <2>3 DEF TypeOK
<1> QED
  BY <1>1, <1>2, <1>3, <1>4, <1>5, <1>6, <1>7, <1>8, <1>9, <1>10, <1>11 DEF Command

LEMMA LoopTypes ==
  ASSUME TypeOK, Loop
  PROVE  TypeOK'
<1> USE ClientsAssumption, BoundsAssumption DEF process, servos, detector, leaseVars, entryVars, tareVars
<1>0. FlagsOK /\ ControlOK /\ ServosOK
  BY DEF TypeOK
<1> USE <1>0
<1>1. CASE DrainActions
  <2>1. FlagsOK'
    BY <1>1 DEF DrainActions, FlagsOK
  <2>2. ControlOK'
    BY <1>1 DEF DrainActions, ControlOK, TakesActions
  <2>3. ServosOK'
    BY <1>1 DEF DrainActions, ServosOK
  <2> QED
    BY <2>1, <2>2, <2>3 DEF TypeOK
<1>2. CASE SenseFails
  <2>1. FlagsOK'
    BY <1>2 DEF SenseFails, FlagsOK
  <2>2. ControlOK'
    BY <1>2 DEF SenseFails, ControlOK, FlagsOK, Older
  <2>3. ServosOK'
    BY <1>2 DEF SenseFails, ServosOK
  <2> QED
    BY <2>1, <2>2, <2>3 DEF TypeOK
<1>3. CASE SenseAtRest
  <2>1. FlagsOK'
    BY <1>3 DEF SenseAtRest, FlagsOK
  <2>2. ControlOK'
    BY <1>3 DEF SenseAtRest, ControlOK
  <2>3. ServosOK'
    BY <1>3 DEF SenseAtRest, ServosOK
  <2> QED
    BY <2>1, <2>2, <2>3 DEF TypeOK
<1>4. CASE SenseMove
  <2>1. FlagsOK'
    BY <1>4 DEF SenseMove, FlagsOK
  <2>2. ControlOK'
    BY <1>4 DEF SenseMove, ControlOK
  <2>3. ServosOK'
    BY <1>4 DEF SenseMove, ServosOK
  <2> QED
    BY <2>1, <2>2, <2>3 DEF TypeOK
<1>5. CASE EntryArrives
  <2>1. FlagsOK'
    BY <1>5 DEF EntryArrives, FlagsOK, NoEntry
  <2>2. ControlOK'
    <3>1. savedSpeed' \in {"none", "normal", "slow"}
      BY <1>5, RestoreSpeedTypes DEF EntryArrives
    <3>2. entryAge' = 0 \/ entryAge' = Older
      BY <1>5 DEF EntryArrives, NoEntry
    <3> QED
      BY <1>5, <3>1, <3>2, OlderTypes DEF EntryArrives, ControlOK
  <2>3. ServosOK'
    BY <1>5, RestoreSpeedTypes DEF EntryArrives, ServosOK
  <2> QED
    BY <2>1, <2>2, <2>3 DEF TypeOK
<1>6. CASE EntryWaits
  <2>1. FlagsOK'
    BY <1>6 DEF EntryWaits, FlagsOK, NoEntry, Revoke
  <2>2. ControlOK'
    <3>1. entryAge' = 0 \/ entryAge' = Older
      BY <1>6 DEF EntryWaits, NoEntry
    <3>2. /\ mode' \in Modes /\ lease' \in Clients \cup {NoClient}
          /\ stream' \in Clients \cup Contents
      BY <1>6 DEF EntryWaits, ControlOK, Revoke, Modes, Contents
    <3> QED
      BY <1>6, <3>1, <3>2, OlderTypes DEF EntryWaits, ControlOK
  <2>3. ServosOK'
    BY <1>6, FreezeTypes DEF EntryWaits, ServosOK
  <2> QED
    BY <2>1, <2>2, <2>3 DEF TypeOK
<1>7. CASE JudgeSkips
  <2>1. FlagsOK'
    BY <1>7 DEF JudgeSkips, FlagsOK, Settle
  <2>2. ControlOK'
    BY <1>7 DEF JudgeSkips, ControlOK, NextPass
  <2>3. ServosOK'
    BY <1>7 DEF JudgeSkips, ServosOK
  <2> QED
    BY <2>1, <2>2, <2>3 DEF TypeOK
<1>8. CASE JudgeQuiet
  <2>1. FlagsOK'
    BY <1>8 DEF JudgeQuiet, FlagsOK, Settle
  <2>2. ControlOK'
    BY <1>8 DEF JudgeQuiet, ControlOK, NextPass, CountFailure, Modes, ReflexModes, Contents
  <2>3. ServosOK'
    BY <1>8 DEF JudgeQuiet, ServosOK
  <2> QED
    BY <2>1, <2>2, <2>3 DEF TypeOK
<1>9. CASE JudgeTrips
  <2>1. FlagsOK'
    BY <1>9 DEF JudgeTrips, FlagsOK, Settle, NoEntry, Revoke
  <2>2. ControlOK'
    BY <1>9 DEF JudgeTrips, ControlOK, NextPass, CountFailure, NoEntry, Revoke, Modes, ReflexModes, Contents
  <2>3. ServosOK'
    BY <1>9 DEF JudgeTrips, ServosOK, Caps
  <2> QED
    BY <2>1, <2>2, <2>3 DEF TypeOK
<1>10. CASE JudgeStops
  <2>1. FlagsOK'
    BY <1>10 DEF JudgeStops, FlagsOK, Settle, NoEntry, Revoke
  <2>2. ControlOK'
    BY <1>10 DEF JudgeStops, ControlOK, NextPass, CountFailure, NoEntry, Revoke, Modes, ReflexModes, Contents
  <2>3. ServosOK'
    BY <1>10, FreezeTypes DEF JudgeStops, ServosOK
  <2> QED
    BY <2>1, <2>2, <2>3 DEF TypeOK
<1> QED
  BY <1>1, <1>2, <1>3, <1>4, <1>5, <1>6, <1>7, <1>8, <1>9, <1>10 DEF Loop, Sense, Judge

LEMMA LifeTypes ==
  ASSUME TypeOK, Start \/ Interrupt \/ Exit \/ Crash \/ TorqueTool
  PROVE  TypeOK'
<1> USE ClientsAssumption, BoundsAssumption DEF process, servos, detector, leaseVars, entryVars, tareVars
<1>0. FlagsOK /\ ControlOK /\ ServosOK
  BY DEF TypeOK
<1> USE <1>0
<1>1. CASE Start
  <2>1. FlagsOK'
    BY <1>1 DEF Start, FlagsOK, Fresh
  <2>2. ControlOK'
    BY <1>1 DEF Start, ControlOK, Fresh, AdoptedMode, Modes, ReflexModes, Contents
  <2>3. ServosOK'
    BY <1>1 DEF Start, ServosOK
  <2> QED
    BY <2>1, <2>2, <2>3 DEF TypeOK
<1>2. CASE Interrupt
  <2>1. FlagsOK'
    BY <1>2 DEF Interrupt, FlagsOK
  <2>2. ControlOK'
    BY <1>2 DEF Interrupt, ControlOK
  <2>3. ServosOK'
    BY <1>2 DEF Interrupt, ServosOK
  <2> QED
    BY <2>1, <2>2, <2>3 DEF TypeOK
<1>3. CASE Exit
  <2>1. FlagsOK'
    BY <1>3 DEF Exit, FlagsOK, Fresh
  <2>2. ControlOK'
    BY <1>3 DEF Exit, ControlOK, Fresh, Modes, ReflexModes, Contents
  <2>3. ServosOK'
    <3>1. en' \in [Motors -> 0 .. 2]
      BY <1>3, TorqueOffTypes, FreezeTypes DEF Exit, ServosOK
    <3>2. cap' \in [Motors -> Caps] /\ goalReg' \in {"held", "target"}
      BY <1>3, FreezeTypes DEF Exit, ServosOK
    <3>3. vel' \in {"normal", "slow"}
      BY <1>3 DEF Exit, ControlOK, ServosOK
    <3> QED
      BY <3>1, <3>2, <3>3 DEF ServosOK
  <2> QED
    BY <2>1, <2>2, <2>3 DEF TypeOK
<1>4. CASE Crash
  <2>1. FlagsOK'
    BY <1>4 DEF Crash, FlagsOK, Fresh
  <2>2. ControlOK'
    BY <1>4 DEF Crash, ControlOK, Fresh, Modes, ReflexModes, Contents
  <2>3. ServosOK'
    BY <1>4 DEF Crash, ServosOK
  <2> QED
    BY <2>1, <2>2, <2>3 DEF TypeOK
<1>5. CASE TorqueTool
  <2>1. FlagsOK'
    BY <1>5 DEF TorqueTool, FlagsOK
  <2>2. ControlOK'
    BY <1>5 DEF TorqueTool, ControlOK
  <2>3. ServosOK'
    BY <1>5, TorqueOffTypes DEF TorqueTool, ServosOK
  <2> QED
    BY <2>1, <2>2, <2>3 DEF TypeOK
<1> QED
  BY <1>1, <1>2, <1>3, <1>4, <1>5

LEMMA NextTypes == TypeOK /\ [Next]_vars => TypeOK'
<1> SUFFICES ASSUME TypeOK, [Next]_vars PROVE TypeOK'
  OBVIOUS
<1>1. CASE UNCHANGED vars
  BY <1>1 DEF TypeOK, FlagsOK, ControlOK, ServosOK, vars, process, servos, detector,
              leaseVars, entryVars, tareVars
<1> QED
  BY <1>1, CommandTypes, LoopTypes, LifeTypes DEF Next

\* Type correctness: every state of the daemon and of its servos is one the
\* declarations of daemon.py allow, whatever the motors, clients and bounds.
THEOREM TypeCorrect == Spec => []TypeOK
BY InitTypes, NextTypes, PTL DEF Spec

=============================================================================
