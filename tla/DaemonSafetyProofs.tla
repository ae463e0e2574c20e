------------------------- MODULE DaemonSafetyProofs -------------------------
(***************************************************************************)
(* The safety properties of Daemon.tla that the runs check on small        *)
(* instances, for any motors, clients, names and bounds, and the           *)
(* refinement of ControlSession.                                           *)
(***************************************************************************)
EXTENDS DaemonProofs

----------------------------------------------------------------------------
(* The inductive invariant: the parts the properties need beyond           *)
(* themselves.                                                             *)

\* A failed reset is STOPPED with an empty stream.
FailedIsStopped == resetFailed => mode = "stopped" /\ stream = "empty"

\* A process that ended left nothing behind but the servos.
DownIsFresh ==
  pc = "down" => /\ mode = "idle"
                 /\ lease = NoClient
                 /\ stream = "empty"
                 /\ ~resetFailed
                 /\ ~entryTarget

\* A motor only damps while the daemon says so, or says that a reset failed.
DampingIsKnown ==
  (\E m \in Motors : en[m] = 2) => pc = "down" \/ mode = "damped" \/ resetFailed

Inv ==
  /\ TypeOK
  /\ LatchedHasNoLease
  /\ StreamBelongsToLease
  /\ EntryIsExclusive
  /\ FailedIsStopped
  /\ DownIsFresh
  /\ DampingIsKnown
  /\ PowerCapNeedsTare

----------------------------------------------------------------------------
(* Torque off never turns a motor on, a freeze never makes one damp.       *)

LEMMA TorqueOffDrops ==
  ASSUME NEW verified \in BOOLEAN, TorqueOff(verified)
  PROVE  \A m \in Motors : en'[m] \in {0, en[m]}
BY DEF TorqueOff

LEMMA FreezeHolds ==
  ASSUME NEW held \in BOOLEAN, Freeze(held)
  PROVE  \A m \in Motors : en'[m] \in {1, en[m]}
BY DEF Freeze

----------------------------------------------------------------------------
(* Each part is preserved, action by action.                               *)

LEMMA StreamInCommands ==
  ASSUME Inv, Command
  PROVE  StreamBelongsToLease'
<1> USE ClientsAssumption DEF Inv, StreamBelongsToLease, Contents, leaseVars
<1>1. CASE Reset
  BY <1>1 DEF Reset
<1>2. CASE Stop
  BY <1>2 DEF Stop, RevokeAndClear
<1>3. CASE TareExt
  BY <1>3 DEF TareExt
<1>4. ASSUME NEW c \in Clients, Acquire(c) PROVE StreamBelongsToLease'
  BY <1>4 DEF Acquire
<1>5. ASSUME NEW hold \in BOOLEAN, Release(hold) PROVE StreamBelongsToLease'
  BY <1>5 DEF Release
<1>6. CASE Move
  BY <1>6 DEF Move, EnterMoveRaises
<1>7. ASSUME NEW to \in {"idle", "guiding"}, DropTorque(to) PROVE StreamBelongsToLease'
  BY <1>7 DEF DropTorque, RevokeAndClear
<1>8. CASE Recover
  BY <1>8 DEF Recover, Resume
<1>9. CASE Goto
  BY <1>9 DEF Goto
<1>10. CASE InitPose
  BY <1>10 DEF InitPose, EnterMoveRaises
<1>11. CASE Shutdown
  BY <1>11 DEF Shutdown
<1> QED
  BY <1>1, <1>2, <1>3, <1>4, <1>5, <1>6, <1>7, <1>8, <1>9, <1>10, <1>11 DEF Command

LEMMA StreamInLoop ==
  ASSUME Inv, Loop
  PROVE  StreamBelongsToLease'
<1> USE ClientsAssumption DEF Inv, StreamBelongsToLease, leaseVars
<1>1. CASE DrainActions
  BY <1>1 DEF DrainActions, TakesActions
<1>2. CASE SenseFails
  BY <1>2 DEF SenseFails
<1>3. CASE SenseAtRest
  BY <1>3 DEF SenseAtRest
<1>4. CASE SenseMove
  BY <1>4 DEF SenseMove
<1>5. CASE EntryArrives
  BY <1>5 DEF EntryArrives
<1>6. CASE EntryWaits
  BY <1>6 DEF EntryWaits, Revoke, TypeOK, ControlOK, Contents
<1>7. CASE JudgeSkips
  BY <1>7 DEF JudgeSkips
<1>8. CASE JudgeQuiet
  BY <1>8 DEF JudgeQuiet
<1>9. CASE JudgeTrips
  BY <1>9 DEF JudgeTrips, Revoke, Contents
<1>10. CASE JudgeStops
  BY <1>10 DEF JudgeStops, Revoke, Contents
<1> QED
  BY <1>1, <1>2, <1>3, <1>4, <1>5, <1>6, <1>7, <1>8, <1>9, <1>10 DEF Loop, Sense, Judge

LEMMA LatchInCommands ==
  ASSUME Inv, Command
  PROVE  LatchedHasNoLease'
<1> USE DEF Inv, LatchedHasNoLease, Latched, leaseVars
<1>1. CASE Reset
  BY <1>1 DEF Reset
<1>2. CASE Stop
  BY <1>2 DEF Stop, RevokeAndClear
<1>3. CASE TareExt
  BY <1>3 DEF TareExt
<1>4. ASSUME NEW c \in Clients, Acquire(c) PROVE LatchedHasNoLease'
  BY <1>4 DEF Acquire, Admitted
<1>5. ASSUME NEW hold \in BOOLEAN, Release(hold) PROVE LatchedHasNoLease'
  BY <1>5 DEF Release
<1>6. CASE Move
  BY <1>6 DEF Move, EnterMoveRaises
<1>7. ASSUME NEW to \in {"idle", "guiding"}, DropTorque(to) PROVE LatchedHasNoLease'
  BY <1>7 DEF DropTorque, RevokeAndClear
<1>8. CASE Recover
  BY <1>8 DEF Recover, Resume
<1>9. CASE Goto
  BY <1>9 DEF Goto
<1>10. CASE InitPose
  BY <1>10 DEF InitPose
<1>11. CASE Shutdown
  BY <1>11 DEF Shutdown
<1> QED
  BY <1>1, <1>2, <1>3, <1>4, <1>5, <1>6, <1>7, <1>8, <1>9, <1>10, <1>11 DEF Command

LEMMA EntryInCommands ==
  ASSUME Inv, Command
  PROVE  EntryIsExclusive'
<1> USE DEF Inv, EntryIsExclusive, Admitted, entryVars, NoEntry, Latched
<1>1. CASE Reset
  BY <1>1 DEF Reset
<1>2. CASE Stop
  BY <1>2 DEF Stop, RevokeAndClear
<1>3. CASE TareExt
  BY <1>3 DEF TareExt
<1>4. ASSUME NEW c \in Clients, Acquire(c) PROVE EntryIsExclusive'
  BY <1>4 DEF Acquire
<1>5. ASSUME NEW hold \in BOOLEAN, Release(hold) PROVE EntryIsExclusive'
  BY <1>5 DEF Release
<1>6. CASE Move
  <2>1. ~entryTarget
    BY <1>6 DEF Move
  <2>2. CASE \E correcting \in BOOLEAN : EnterMoveDone(correcting) /\ stream' = "seed" /\ mode' = "move"
    <3>1. PICK correcting \in BOOLEAN :
            EnterMoveDone(correcting) /\ stream' = "seed" /\ mode' = "move"
      BY <2>2
    <3>2. entryTarget' => correcting
      BY <3>1 DEF EnterMoveDone
    <3>3. correcting => savedSpeed' # "none"
      BY <3>1 DEF EnterMoveDone, TypeOK, ServosOK
    <3> QED
      BY <3>1, <3>2, <3>3
  <2>3. CASE \E correcting \in BOOLEAN : EnterMoveRaises(correcting)
    BY <2>1, <2>3 DEF EnterMoveRaises
  <2> QED
    BY <1>6, <2>2, <2>3 DEF Move
<1>7. ASSUME NEW to \in {"idle", "guiding"}, DropTorque(to) PROVE EntryIsExclusive'
  BY <1>7 DEF DropTorque, RevokeAndClear
<1>8. CASE Recover
  BY <1>8 DEF Recover, Resume
<1>9. CASE Goto
  BY <1>9 DEF Goto
<1>10. CASE InitPose
  BY <1>10 DEF InitPose, EnterMoveDone, EnterMoveRaises
<1>11. CASE Shutdown
  BY <1>11 DEF Shutdown
<1> QED
  BY <1>1, <1>2, <1>3, <1>4, <1>5, <1>6, <1>7, <1>8, <1>9, <1>10, <1>11 DEF Command

LEMMA DampInCommands ==
  ASSUME Inv, Command
  PROVE  DampingIsKnown'
<1> USE DEF Inv, DampingIsKnown, FailedIsStopped, DownIsFresh, Admitted, servos
<1>1. CASE Reset
  <2>1. resetFailed' \/ TorqueOff(TRUE)
    BY <1>1 DEF Reset
  <2>2. CASE TorqueOff(TRUE)
    <3>1. \A m \in Motors : en'[m] = 0
      BY <2>2 DEF TorqueOff
    <3> QED
      BY <3>1
  <2>3. CASE resetFailed'
    BY <2>3
  <2> QED
    BY <2>1, <2>2, <2>3
<1>2. CASE Stop
  BY <1>2 DEF Stop
<1>3. CASE TareExt
  BY <1>3 DEF TareExt
<1>4. ASSUME NEW c \in Clients, Acquire(c) PROVE DampingIsKnown'
  BY <1>4 DEF Acquire
<1>5. ASSUME NEW hold \in BOOLEAN, Release(hold) PROVE DampingIsKnown'
  BY <1>5 DEF Release
<1>6. CASE Move
  BY <1>6 DEF Move, EnterMoveDone, EnterMoveRaises
<1>7. ASSUME NEW to \in {"idle", "guiding"}, DropTorque(to) PROVE DampingIsKnown'
  BY <1>7 DEF DropTorque, TorqueOff
<1>8. CASE Recover
  BY <1>8 DEF Recover
<1>9. CASE Goto
  BY <1>9 DEF Goto
<1>10. CASE InitPose
  BY <1>10 DEF InitPose, EnterMoveDone, EnterMoveRaises
<1>11. CASE Shutdown
  BY <1>11 DEF Shutdown
<1> QED
  BY <1>1, <1>2, <1>3, <1>4, <1>5, <1>6, <1>7, <1>8, <1>9, <1>10, <1>11 DEF Command

LEMMA DampInLoop ==
  ASSUME Inv, Loop
  PROVE  DampingIsKnown'
<1> USE DEF Inv, DampingIsKnown, FailedIsStopped, DownIsFresh, servos, EntryIsExclusive
<1>1. CASE DrainActions
  BY <1>1 DEF DrainActions
<1>2. CASE SenseFails
  BY <1>2 DEF SenseFails
<1>3. CASE SenseAtRest
  BY <1>3 DEF SenseAtRest
<1>4. CASE SenseMove
  BY <1>4 DEF SenseMove
<1>5. CASE EntryArrives
  BY <1>5 DEF EntryArrives
<1>6. CASE EntryWaits
  <2>1. \A m \in Motors : en[m] # 2
    BY <1>6 DEF EntryWaits
  <2>2. UNCHANGED en \/ \E held \in BOOLEAN : Freeze(held)
    BY <1>6 DEF EntryWaits
  <2> QED
    BY <2>1, <2>2, FreezeHolds
<1>7. CASE JudgeSkips
  BY <1>7 DEF JudgeSkips, NextPass
<1>8. CASE JudgeQuiet
  BY <1>8 DEF JudgeQuiet, NextPass
<1>9. CASE JudgeTrips
  BY <1>9 DEF JudgeTrips, NextPass, Supervised
<1>10. CASE JudgeStops
  BY <1>10 DEF JudgeStops, NextPass, Freeze, Supervised
<1> QED
  BY <1>1, <1>2, <1>3, <1>4, <1>5, <1>6, <1>7, <1>8, <1>9, <1>10 DEF Loop, Sense, Judge

LEMMA FailedInCommands ==
  ASSUME Inv, Command
  PROVE  FailedIsStopped'
<1> USE DEF Inv, FailedIsStopped, Admitted
<1>1. CASE Reset
  BY <1>1 DEF Reset
<1>2. CASE Stop
  BY <1>2 DEF Stop, RevokeAndClear
<1>3. CASE TareExt
  BY <1>3 DEF TareExt
<1>4. ASSUME NEW c \in Clients, Acquire(c) PROVE FailedIsStopped'
  BY <1>4 DEF Acquire
<1>5. ASSUME NEW hold \in BOOLEAN, Release(hold) PROVE FailedIsStopped'
  BY <1>5 DEF Release
<1>6. CASE Move
  BY <1>6 DEF Move
<1>7. ASSUME NEW to \in {"idle", "guiding"}, DropTorque(to) PROVE FailedIsStopped'
  BY <1>7 DEF DropTorque
<1>8. CASE Recover
  BY <1>8 DEF Recover
<1>9. CASE Goto
  BY <1>9 DEF Goto
<1>10. CASE InitPose
  BY <1>10 DEF InitPose
<1>11. CASE Shutdown
  BY <1>11 DEF Shutdown
<1> QED
  BY <1>1, <1>2, <1>3, <1>4, <1>5, <1>6, <1>7, <1>8, <1>9, <1>10, <1>11 DEF Command

LEMMA FailedInLoop ==
  ASSUME Inv, Loop
  PROVE  FailedIsStopped'
<1> USE DEF Inv, FailedIsStopped, LatchedHasNoLease, Latched
<1>1. CASE DrainActions
  BY <1>1 DEF DrainActions, TakesActions
<1>2. CASE SenseFails
  BY <1>2 DEF SenseFails
<1>3. CASE SenseAtRest
  BY <1>3 DEF SenseAtRest
<1>4. CASE SenseMove
  BY <1>4 DEF SenseMove
<1>5. CASE EntryArrives
  BY <1>5 DEF EntryArrives
<1>6. CASE EntryWaits
  BY <1>6 DEF EntryWaits
<1>7. CASE JudgeSkips
  BY <1>7 DEF JudgeSkips
<1>8. CASE JudgeQuiet
  BY <1>8 DEF JudgeQuiet
<1>9. CASE JudgeTrips
  BY <1>9 DEF JudgeTrips, Supervised
<1>10. CASE JudgeStops
  BY <1>10 DEF JudgeStops, Supervised
<1> QED
  BY <1>1, <1>2, <1>3, <1>4, <1>5, <1>6, <1>7, <1>8, <1>9, <1>10 DEF Loop, Sense, Judge

LEMMA PowerInCommands ==
  ASSUME Inv, Command
  PROVE  PowerCapNeedsTare'
BY DEF Inv, PowerCapNeedsTare, ServosOK, TypeOK, ApplySafety, MotionCap, Latched, Command,
       Reset, Stop, TareExt, Acquire, Release, Move, DropTorque, Recover, Resume, Goto,
       InitPose, Shutdown, tareVars, servos, EnterMoveDone, EnterMoveRaises, Admitted

LEMMA PowerInLoop ==
  ASSUME Inv, Loop
  PROVE  PowerCapNeedsTare'
<1> USE DEF Inv, PowerCapNeedsTare, TypeOK, FlagsOK, tareVars, servos
<1>1. CASE DrainActions \/ SenseFails \/ SenseAtRest \/ SenseMove
  BY <1>1 DEF DrainActions, SenseFails, SenseAtRest, SenseMove
<1>2. CASE EntryArrives \/ EntryWaits
  BY <1>2 DEF EntryArrives, EntryWaits
<1>3. CASE JudgeSkips \/ JudgeQuiet
  BY <1>3 DEF JudgeSkips, JudgeQuiet, Settle
<1>4. CASE JudgeTrips \/ JudgeStops
  BY <1>4 DEF JudgeTrips, JudgeStops, Supervised
<1> QED
  BY <1>1, <1>2, <1>3, <1>4 DEF Loop, Sense, Judge

LEMMA LatchInLoop ==
  ASSUME Inv, Loop
  PROVE  LatchedHasNoLease'
BY DEF Inv, LatchedHasNoLease, Latched, Loop, Sense, Judge, DrainActions, SenseFails,
       SenseAtRest, SenseMove, EntryArrives, EntryWaits, JudgeSkips, JudgeQuiet, JudgeTrips,
       JudgeStops, Revoke, leaseVars

LEMMA EntryInLoop ==
  ASSUME Inv, Loop
  PROVE  EntryIsExclusive'
BY DEF Inv, EntryIsExclusive, Loop, Sense, Judge, DrainActions, SenseFails, SenseAtRest,
       SenseMove, EntryArrives, EntryWaits, JudgeSkips, JudgeQuiet, JudgeTrips, JudgeStops,
       Revoke, leaseVars, entryVars, NoEntry, RestoreSpeed, TakesActions

LEMMA DownStep ==
  ASSUME Inv, Command \/ Loop
  PROVE  DownIsFresh'
<1>1. pc # "down" /\ pc' # "down"
  BY DEF Command, Reset, Stop, TareExt, Acquire, Release, Move, DropTorque, Recover, Goto,
         InitPose, Shutdown, Admitted, Loop, Sense, Judge, DrainActions, SenseFails,
         SenseAtRest, SenseMove, EntryArrives, EntryWaits, JudgeSkips, JudgeQuiet,
         JudgeTrips, JudgeStops, NextPass
<1> QED
  BY <1>1 DEF DownIsFresh

LEMMA LifeStep ==
  ASSUME Inv, Start \/ Interrupt \/ Exit \/ Crash \/ TorqueTool
  PROVE  Inv'
<1>0. TypeOK'
  BY LifeTypes DEF Inv
<1> USE <1>0, ClientsAssumption DEF Inv, LatchedHasNoLease, StreamBelongsToLease,
        EntryIsExclusive, FailedIsStopped, DownIsFresh, DampingIsKnown, PowerCapNeedsTare
<1>1. CASE Start
  BY <1>1 DEF Start, Fresh, AdoptedMode, Contents, servos, Latched
<1>2. CASE Interrupt
  BY <1>2 DEF Interrupt, process, servos, leaseVars, entryVars, tareVars
<1>3. CASE Exit
  BY <1>3 DEF Exit, Fresh, Contents, Latched
<1>4. CASE Crash
  BY <1>4 DEF Crash, Fresh, Contents, Latched
<1>5. CASE TorqueTool
  BY <1>5 DEF TorqueTool, process, leaseVars, entryVars, tareVars
<1> QED
  BY <1>1, <1>2, <1>3, <1>4, <1>5

----------------------------------------------------------------------------
(* The invariance of Inv.                                                  *)

LEMMA InitInv == Init => Inv
<1> SUFFICES ASSUME Init PROVE Inv
  OBVIOUS
<1>1. TypeOK
  BY InitTypes
<1> QED
  BY <1>1, ClientsAssumption
     DEF Init, Inv, LatchedHasNoLease, StreamBelongsToLease, EntryIsExclusive,
         FailedIsStopped, DownIsFresh, DampingIsKnown, PowerCapNeedsTare, Contents, Latched

LEMMA NextInv == Inv /\ [Next]_vars => Inv'
<1> SUFFICES ASSUME Inv, [Next]_vars PROVE Inv'
  OBVIOUS
<1>1. TypeOK'
  BY NextTypes DEF Inv
<1>2. CASE Command
  BY <1>1, <1>2, LatchInCommands, StreamInCommands, EntryInCommands, FailedInCommands,
     DownStep, DampInCommands, PowerInCommands DEF Inv
<1>3. CASE Loop
  BY <1>1, <1>3, LatchInLoop, StreamInLoop, EntryInLoop, FailedInLoop, DownStep,
     DampInLoop, PowerInLoop DEF Inv
<1>4. CASE UNCHANGED vars
  BY <1>1, <1>4 DEF Inv, LatchedHasNoLease, StreamBelongsToLease, EntryIsExclusive,
         FailedIsStopped, DownIsFresh, DampingIsKnown, PowerCapNeedsTare, vars, process,
         servos, leaseVars, entryVars, tareVars
<1> QED
  BY <1>2, <1>3, <1>4, LifeStep DEF Next

LEMMA Invariance == Spec => []Inv
BY InitInv, NextInv, PTL DEF Spec

----------------------------------------------------------------------------
(* The properties.                                                         *)

\* Nobody drives a latched arm: in REFLEX, STOPPED and DAMPED no lease is held
\* (daemon.py:132-133).
THEOREM LatchRevokesLease == Spec => []LatchedHasNoLease
<1>1. Inv => LatchedHasNoLease
  BY DEF Inv
<1> QED
  BY <1>1, Invariance, PTL

\* The arm only ever follows the client that holds the lease now
\* (daemon.py:407, 596-600, 691).
THEOREM OnlyTheHolderStreams == Spec => []StreamBelongsToLease
<1>1. Inv => StreamBelongsToLease
  BY DEF Inv
<1> QED
  BY <1>1, Invariance, PTL

\* A joint under correction is not given any other target, and the speed it had
\* is on record (daemon.py:412, 516, 683, 751, 779).
THEOREM CorrectionIsExclusive == Spec => []EntryIsExclusive
<1>1. Inv => EntryIsExclusive
  BY DEF Inv
<1> QED
  BY <1>1, Invariance, PTL

\* The power cap is only used in MOVE behind a tare of this session
\* (daemon.py:178-190).
THEOREM PowerBehindTare == Spec => []PowerCapNeedsTare
<1>1. Inv => PowerCapNeedsTare
  BY DEF Inv
<1> QED
  BY <1>1, Invariance, PTL

\* From MOVE into anything that keeps a motor damped there is no way but off:
\* the steps that write Torque_Enable = 1 are not enabled while a motor damps.
LEMMA DampingStep ==
  Inv /\ [Next]_vars => [\A m \in Motors : en[m] = 2 => en'[m] \in {0, 2}]_vars
<1> SUFFICES ASSUME Inv, Next, NEW m \in Motors, en[m] = 2
             PROVE  en'[m] \in {0, 2}
  BY DEF vars
<1>1. pc = "down" \/ mode = "damped" \/ resetFailed
  BY DEF Inv, DampingIsKnown
<1> USE <1>1
<1>2. resetFailed => mode = "stopped"
  BY DEF Inv, FailedIsStopped
<1>3. CASE Command
  <2>1. CASE Reset
    <3>1. \E verified \in BOOLEAN : TorqueOff(verified)
      BY <2>1 DEF Reset
    <3> QED
      BY <3>1, TorqueOffDrops
  <2>2. CASE Stop
    BY <2>2 DEF Stop, Inv, TypeOK, ServosOK
  <2>3. CASE Shutdown
    BY <2>3 DEF Shutdown, servos
  <2>4. ~Admitted
    BY <1>2, <1>3 DEF Admitted, Command
  <2> QED
    BY <1>3, <2>1, <2>2, <2>3, <2>4
       DEF Command, TareExt, Acquire, Release, Move, DropTorque, Recover, Goto, InitPose
<1>4. CASE Loop
  BY <1>2, <1>4 DEF Loop, Sense, Judge, DrainActions, SenseFails, SenseAtRest, SenseMove,
         EntryArrives, EntryWaits, JudgeSkips, JudgeQuiet, JudgeTrips, JudgeStops,
         Supervised, servos
<1>5. CASE Start \/ Interrupt \/ Crash
  BY <1>5 DEF Start, Interrupt, Crash, servos
<1>6. CASE Exit
  BY <1>6 DEF Exit, servos
<1>7. CASE TorqueTool
  BY <1>7, TorqueOffDrops DEF TorqueTool
<1> QED
  BY <1>3, <1>4, <1>5, <1>6, <1>7 DEF Next

\* A damped motor goes limp before it can hold a position again, whatever the
\* crashes, exits and restarts in between (README.md:149-152).
THEOREM DampedGoesLimpFirst == Spec => DampingOnlyEndsInOff
<1>1. Inv /\ [Next]_vars => [\A m \in Motors : en[m] = 2 => en'[m] \in {0, 2}]_vars
  BY DampingStep
<1> QED
  BY <1>1, Invariance, PTL DEF Spec, DampingOnlyEndsInOff

\* With DAMPED or a failed reset in force, only these commands and steps touch
\* anything, and none of them turns a motor on.
LEMMA LatchedStep ==
  ASSUME Inv, Next, mode = "damped" \/ resetFailed
  PROVE  \A m \in Motors : en[m] = 0 => en'[m] = 0
<1> SUFFICES ASSUME NEW m \in Motors, en[m] = 0 PROVE en'[m] = 0
  OBVIOUS
<1>0. resetFailed => mode = "stopped"
  BY DEF Inv, FailedIsStopped
<1>1. CASE Command
  <2>1. CASE Reset
    <3>1. \E verified \in BOOLEAN : TorqueOff(verified)
      BY <2>1 DEF Reset
    <3> QED
      BY <3>1, TorqueOffDrops
  <2>2. CASE Stop
    BY <2>2 DEF Stop, Inv, TypeOK, ServosOK
  <2>3. CASE Shutdown
    BY <2>3 DEF Shutdown, servos
  <2>4. ~Admitted
    BY DEF Admitted
  <2> QED
    BY <1>1, <2>1, <2>2, <2>3, <2>4
       DEF Command, TareExt, Acquire, Release, Move, DropTorque, Recover, Goto, InitPose
<1>2. CASE Loop
  BY <1>0, <1>2 DEF Loop, Sense, Judge, DrainActions, SenseFails, SenseAtRest, SenseMove,
         EntryArrives, EntryWaits, JudgeSkips, JudgeQuiet, JudgeTrips, JudgeStops,
         Supervised, servos
<1>3. CASE Start \/ Interrupt \/ Crash
  BY <1>3 DEF Start, Interrupt, Crash, servos
<1>4. CASE Exit
  BY <1>4 DEF Exit, servos
<1>5. CASE TorqueTool
  BY <1>5, TorqueOffDrops DEF TorqueTool
<1> QED
  BY <1>1, <1>2, <1>3, <1>4, <1>5 DEF Next

\* DAMPED never turns a motor on that is off (README.md:149, daemon.py:228-230).
THEOREM DampedStaysOff == Spec => DampedNeverReenergised
<1>1. Inv /\ [Next]_vars =>
        [mode = "damped" => \A m \in Motors : en[m] = 0 => en'[m] = 0]_vars
  BY LatchedStep
<1> QED
  BY <1>1, Invariance, PTL DEF Spec, DampedNeverReenergised

\* A failed reset resumes nothing and energises nothing until a reset completes
\* or the process ends (daemon.py:603-604, 657-658, 228-230).
THEOREM FailedResetStaysInert == Spec => FailedResetIsInert
<1>1. Inv /\ Inv' /\ [Next]_vars =>
        [resetFailed =>
           /\ resetFailed' => mode' = "stopped"
           /\ lease' = NoClient
           /\ stream' = "empty"
           /\ \A m \in Motors : en[m] = 0 => en'[m] = 0]_vars
  <2> SUFFICES ASSUME Inv, Inv', Next, resetFailed
               PROVE  /\ resetFailed' => mode' = "stopped"
                      /\ lease' = NoClient
                      /\ stream' = "empty"
                      /\ \A m \in Motors : en[m] = 0 => en'[m] = 0
    BY DEF vars
  <2>1. mode = "stopped" /\ lease = NoClient /\ stream = "empty"
    BY DEF Inv, FailedIsStopped, LatchedHasNoLease, Latched
  <2>2. resetFailed' => mode' = "stopped"
    BY DEF Inv, FailedIsStopped
  <2>3. lease' = NoClient /\ stream' = "empty"
    <3>1. CASE Command
      BY <2>1, <3>1 DEF Command, Reset, Stop, TareExt, Acquire, Release, Move, DropTorque,
             Recover, Goto, InitPose, Shutdown, Admitted, leaseVars
    <3>2. CASE Loop
      BY <2>1, <3>2 DEF Loop, Sense, Judge, DrainActions, SenseFails, SenseAtRest, SenseMove,
             EntryArrives, EntryWaits, JudgeSkips, JudgeQuiet, JudgeTrips, JudgeStops,
             Supervised, TakesActions, leaseVars
    <3>3. CASE Start \/ Interrupt \/ Exit \/ Crash \/ TorqueTool
      BY <2>1, <3>3 DEF Start, Interrupt, Exit, Crash, TorqueTool, Fresh, process, leaseVars
    <3> QED
      BY <3>1, <3>2, <3>3 DEF Next
  <2> QED
    BY <2>2, <2>3, LatchedStep
<1> QED
  BY <1>1, Invariance, PTL DEF Spec, FailedResetIsInert

\* The ways a motor is switched on: an entry of MOVE, the self test, a freeze.
LEMMA EntrySwitchesOn ==
  ASSUME ServosOK, NEW m \in Motors, en[m] = 0, en'[m] = 1, NEW correcting \in BOOLEAN,
         EnterMoveRaises(correcting)
  PROVE  cap'[m] \in {MotionCap, "hold"} /\ (correcting \/ goalReg' = "held")
         /\ (correcting => vel' = "slow")
<1>1. PICK recorded \in BOOLEAN, slowed \in BOOLEAN, capped \in SUBSET Motors, on \in SUBSET Motors :
        LET saved   == IF recorded THEN vel ELSE savedSpeed
            speed   == IF slowed THEN "slow" ELSE vel
            powered == [k \in Motors |-> IF k \in on THEN 1 ELSE en[k]]
            seed    == IF correcting THEN "target" ELSE "held"
        IN
        /\ (correcting /\ capped # {}) => slowed
        /\ on # {} => capped = Motors
        /\ ApplySafety(capped)
        /\ goalReg' \in (IF capped = Motors THEN {seed} ELSE {}) \cup
                        (IF on = {} THEN {goalReg} ELSE {})
        /\ \/ en' = powered /\ vel' = speed
           \/ /\ \E off \in SUBSET Motors :
                   en' = [k \in Motors |-> IF k \in off THEN 0 ELSE powered[k]]
              /\ vel' = speed
           \/ en' = [k \in Motors |-> 0]
  BY DEF EnterMoveRaises
<1>2. m \in on
  BY <1>1
<1>3. capped = Motors
  BY <1>1, <1>2
<1>4. cap'[m] = MotionCap
  BY <1>1, <1>3 DEF ApplySafety
<1>5. goalReg' = IF correcting THEN "target" ELSE "held"
  BY <1>1, <1>2, <1>3
<1>6. correcting => vel' = "slow"
  BY <1>1, <1>2, <1>3
<1> QED
  BY <1>4, <1>5, <1>6

LEMMA FreezeSwitchesOn ==
  ASSUME NEW held \in BOOLEAN, Freeze(held), NEW m \in Motors, en[m] = 0, en'[m] = 1
  PROVE  cap'[m] = "hold" /\ goalReg' = "held"
BY DEF Freeze

LEMMA SwitchOnStep ==
  ASSUME Inv, Next, NEW m \in Motors, en[m] = 0, en'[m] = 1
  PROVE  /\ cap'[m] \in {MotionCap, "hold"}
         /\ InitPose \/ goalReg' = "held" \/ vel' = "slow"
<1>1. CASE Move
  <2>1. PICK correcting \in BOOLEAN :
          \/ /\ EnterMoveDone(correcting)
             /\ goalReg' = IF correcting THEN "target" ELSE "held"
          \/ EnterMoveRaises(correcting)
    BY <1>1 DEF Move
  <2>2. CASE EnterMoveRaises(correcting)
    BY <2>2, EntrySwitchesOn DEF Inv, TypeOK
  <2>3. CASE EnterMoveDone(correcting) /\ goalReg' = IF correcting THEN "target" ELSE "held"
    BY <2>3 DEF EnterMoveDone, ApplySafety
  <2> QED
    BY <2>1, <2>2, <2>3
<1>2. CASE InitPose
  <2>1. CASE EnterMoveRaises(FALSE)
    BY <1>2, <2>1, EntrySwitchesOn DEF Inv, TypeOK
  <2>2. CASE EnterMoveDone(FALSE)
    BY <1>2, <2>2 DEF EnterMoveDone, ApplySafety
  <2>3. CASE cap' = [k \in Motors |-> "hold"] \/ ApplySafety(Motors)
    BY <1>2, <2>3 DEF ApplySafety
  <2> QED
    BY <1>2, <2>1, <2>2, <2>3 DEF InitPose
<1>3. ASSUME NEW verified \in BOOLEAN, TorqueOff(verified) PROVE FALSE
  BY <1>3 DEF TorqueOff
<1>4. CASE Reset \/ TorqueTool \/ \E to \in {"idle", "guiding"} : DropTorque(to)
  BY <1>3, <1>4 DEF Reset, TorqueTool, DropTorque
<1>5. CASE Stop
  BY <1>5 DEF Stop
<1>6. CASE UNCHANGED en
  BY <1>6
<1>7. CASE TareExt \/ (\E c \in Clients : Acquire(c)) \/ (\E hold \in BOOLEAN : Release(hold)) \/ Recover
           \/ Goto \/ Shutdown
  BY <1>6, <1>7 DEF TareExt, Acquire, Release, Recover, Goto, Shutdown, servos
<1>8. CASE Start \/ Interrupt \/ Crash
  BY <1>6, <1>8 DEF Start, Interrupt, Crash, servos
<1>9. CASE DrainActions \/ SenseFails \/ SenseAtRest \/ SenseMove \/ EntryArrives
           \/ JudgeSkips \/ JudgeQuiet \/ JudgeTrips
  BY <1>6, <1>9 DEF DrainActions, SenseFails, SenseAtRest, SenseMove, EntryArrives,
         JudgeSkips, JudgeQuiet, JudgeTrips, servos
<1>10. CASE EntryWaits \/ JudgeStops
  BY <1>6, <1>10, FreezeSwitchesOn DEF EntryWaits, JudgeStops
<1>11. CASE Exit
  BY <1>3, <1>6, <1>11, FreezeSwitchesOn DEF Exit, servos
<1> QED
  BY <1>1, <1>2, <1>4, <1>5, <1>7, <1>8, <1>9, <1>10, <1>11 DEF Next, Command, Loop, Sense, Judge

\* Whatever failed before, a motor is switched on at its measured pose or in the
\* slow correction of an entry (or by init, whose self test moves it), and under a
\* cap of this session or the hold cap (daemon.py:428-442, limits.py:164-174).
THEOREM SwitchedOnSafely == Spec => TorqueOnIsSafe
<1>1. Inv /\ [Next]_vars =>
        [\A m \in Motors :
           en[m] = 0 /\ en'[m] = 1 =>
             /\ cap'[m] \in {MotionCap, "hold"}
             /\ InitPose \/ goalReg' = "held" \/ vel' = "slow"]_vars
  BY SwitchOnStep
<1> QED
  BY <1>1, Invariance, PTL DEF Spec, TorqueOnIsSafe

\* A step that enters MOVE leaves a stream that was empty, the seed of the entry
\* or the standby pose: no target of an earlier drive is resumed
\* (daemon.py:486-487, 497, 747-749, 799).
LEMMA EnteringStep ==
  ASSUME Next, mode # "move", mode' = "move"
  PROVE  stream' \in {"empty", "seed", "standby"}
<1>1. CASE Move  BY <1>1 DEF Move, EnterMoveRaises
<1>2. CASE InitPose  BY <1>2 DEF InitPose, EnterMoveRaises
<1>3. CASE Recover  BY <1>3 DEF Recover, Resume
<1>4. CASE Start  BY <1>4 DEF Start, Fresh
<1>5. CASE Reset \/ Stop \/ TareExt \/ (\E c \in Clients : Acquire(c))
           \/ (\E hold \in BOOLEAN : Release(hold)) \/ Goto \/ Shutdown
  BY <1>5 DEF Reset, Stop, TareExt, Acquire, Release, Goto, Shutdown
<1>6. CASE \E to \in {"idle", "guiding"} : DropTorque(to)  BY <1>6 DEF DropTorque
<1>7. CASE Loop
  <2>1. CASE DrainActions \/ SenseFails \/ SenseAtRest \/ SenseMove \/ EntryArrives \/ JudgeSkips
               \/ JudgeQuiet
    BY <2>1 DEF DrainActions, SenseFails, SenseAtRest, SenseMove, EntryArrives, JudgeSkips, JudgeQuiet
  <2>2. CASE EntryWaits  BY <2>2 DEF EntryWaits
  <2>3. CASE JudgeTrips  BY <2>3 DEF JudgeTrips
  <2>4. CASE JudgeStops  BY <2>4 DEF JudgeStops
  <2> QED  BY <1>7, <2>1, <2>2, <2>3, <2>4 DEF Loop, Sense, Judge
<1>8. CASE Interrupt \/ Exit \/ Crash \/ TorqueTool
  BY <1>8 DEF Interrupt, Exit, Crash, TorqueTool, process
<1> QED
  BY <1>1, <1>2, <1>3, <1>4, <1>5, <1>6, <1>7, <1>8 DEF Next, Command

\* However a drive ended, and whatever failed on the way back, MOVE is entered
\* with nothing to go back to (ResumeDropsOldTarget; daemon.py:747-749).
THEOREM ResumesClean == Spec => ResumeDropsOldTarget
<1>1. [Next]_vars =>
        [mode # "move" /\ mode' = "move" => stream' \in {"empty", "seed", "standby"}]_vars
  BY EnteringStep
<1> QED
  BY <1>1, PTL DEF Spec, ResumeDropsOldTarget

----------------------------------------------------------------------------
(* Daemon implements ControlSession: every behaviour of the daemon is a    *)
(* behaviour of the abstract session, for any constants.                   *)

\* The refinement mapping for the third variable of the abstract session.
Follows == IF stream \in Clients THEN stream ELSE NoClient

LEMMA SessionInit == Init => Session!Init
BY ClientsAssumption DEF Init, Session!Init, Phase, Contents

\* An idle stream stays unfollowed when nobody holds the lease.
LEMMA NobodyFollowed == Inv /\ lease = NoClient => Follows = NoClient
BY ClientsAssumption DEF Inv, StreamBelongsToLease, Follows

\* The phase a step starts from.
LEMMA PhaseOf ==
  ASSUME Inv, pc # "down"
  PROVE  /\ resetFailed => Phase = "failed"
         /\ ~resetFailed /\ mode \in {"idle", "guiding"} => Phase = "off"
         /\ ~resetFailed /\ mode = "move" => Phase = "driving"
         /\ ~resetFailed /\ mode = "damped" => Phase = "damped"
         /\ ~resetFailed /\ mode \in Latched => Phase = "latched"
BY DEF Phase, Latched

SessionStep == [Session!Next]_(Session!session)

LEMMA CommandSteps ==
  ASSUME Inv, Inv', Command
  PROVE  SessionStep
<1> USE ClientsAssumption, NobodyFollowed DEF SessionStep, Session!Next, Session!session
<1>1. CASE Reset
  <2>1. Session!Reset
    BY <1>1 DEF Reset, Session!Reset, Session!NobodyDrives, Phase, Contents
  <2> QED
    BY <2>1
<1>2. CASE Stop
  <2>1. Session!Damp
    BY <1>2 DEF Stop, RevokeAndClear, Session!Damp, Session!NobodyDrives, Phase, Contents
  <2> QED
    BY <2>1
<1>3. CASE TareExt \/ Shutdown
  BY <1>3 DEF TareExt, Shutdown, leaseVars, Phase
<1>4. ASSUME NEW c \in Clients, Acquire(c) PROVE SessionStep
  <2>1. Session!Grant(c)
    BY <1>4 DEF Acquire, Admitted, Grantable, Latched, Session!Grant, Phase, Contents, Inv,
                TypeOK, ControlOK, Modes
  <2> QED
    BY <2>1
<1>5. ASSUME NEW hold \in BOOLEAN, Release(hold) PROVE SessionStep
  <2>1. Session!Release
    BY <1>5 DEF Release, Admitted, Session!Release, Session!NobodyDrives, Phase, Contents, Inv,
                LatchedHasNoLease, Latched, TypeOK, ControlOK, Modes
  <2> QED
    BY <2>1
<1>6. CASE Move
  <2>1. Session!Engage \/ Session!Forget
    BY <1>6 DEF Move, Admitted, EnterMoveRaises, Session!Engage, Session!Forget, Phase,
                Contents, leaseVars
  <2> QED
    BY <2>1
<1>7. ASSUME NEW to \in {"idle", "guiding"}, DropTorque(to) PROVE SessionStep
  <2>1. Session!DropTorque
    BY <1>7 DEF DropTorque, Admitted, RevokeAndClear, Session!DropTorque,
                Session!NobodyDrives, Phase, Contents, Inv, TypeOK, ControlOK, Modes
  <2> QED
    BY <2>1
<1>8. CASE Recover
  <2>1. lease = NoClient /\ lease' = NoClient
    BY <1>8 DEF Recover, Inv, LatchedHasNoLease, Latched, leaseVars
  <2>2. CASE Resume
    <3>1. Session!Recover
      BY <1>8, <2>1, <2>2 DEF Recover, Admitted, Latched, Resume, Session!Recover,
                              Session!NobodyDrives, Phase, Contents
    <3> QED
      BY <3>1
  <2>3. CASE UNCHANGED <<stream, mode>>
    BY <1>8, <2>1, <2>3 DEF Recover, Phase, leaseVars
  <2> QED
    BY <1>8, <2>2, <2>3 DEF Recover
<1>9. CASE Goto
  <2>1. Session!Forget
    BY <1>9 DEF Goto, Admitted, leaseVars, Session!Forget, Phase, Contents
  <2> QED
    BY <2>1
<1>10. CASE InitPose
  <2>1. /\ mode \in {"idle", "guiding", "move"} /\ pc = "commands" /\ pc' = "commands"
        /\ ~resetFailed /\ ~resetFailed' /\ lease = NoClient /\ lease' = NoClient
    BY <1>10 DEF InitPose, Admitted, Latched, leaseVars, Inv, TypeOK, ControlOK, Modes
  <2>2. stream' \notin Clients
    BY <1>10 DEF InitPose, EnterMoveRaises, Contents
  <2>3. mode' \in {mode, "move", "reflex"}
    BY <1>10 DEF InitPose
  <2>4. Session!Engage \/ Session!Forget \/ Session!Latch
    BY <2>1, <2>2, <2>3
       DEF Session!Engage, Session!Forget, Session!Latch, Session!NobodyDrives, Phase
  <2> QED
    BY <2>4
<1> QED
  BY <1>1, <1>2, <1>3, <1>4, <1>5, <1>6, <1>7, <1>8, <1>9, <1>10 DEF Command

LEMMA LoopSteps ==
  ASSUME Inv, Inv', Loop
  PROVE  SessionStep
<1> USE ClientsAssumption DEF SessionStep, Session!Next, Session!session
<1>1. CASE DrainActions
  <2>1. CASE TakesActions /\ stream' = lease
    <3>1. Session!Follow
      BY <1>1, <2>1 DEF DrainActions, TakesActions, Session!Follow, Phase, leaseVars, Inv,
                        TypeOK, ControlOK
    <3> QED
      BY <3>1
  <2>2. CASE UNCHANGED stream
    BY <1>1, <2>2 DEF DrainActions, Phase, leaseVars
  <2> QED
    BY <1>1, <2>1, <2>2 DEF DrainActions
<1>2. CASE SenseFails \/ SenseAtRest \/ SenseMove \/ EntryArrives
  <2>1. UNCHANGED <<mode, leaseVars, stream, resetFailed>> /\ pc = "sense" /\ pc' = "judge"
    BY <1>2 DEF SenseFails, SenseAtRest, SenseMove, EntryArrives
  <2> QED
    BY <2>1 DEF Phase, leaseVars
<1>3. CASE JudgeSkips \/ JudgeQuiet
  BY <1>3 DEF JudgeSkips, JudgeQuiet, NextPass, Phase, leaseVars
<1>4. ASSUME mode = "move", mode' \in Latched, Revoke, pc # "down", pc' # "down",
             UNCHANGED resetFailed
      PROVE  SessionStep
  <2>1. ~resetFailed
    BY <1>4 DEF Inv, FailedIsStopped
  <2>2. stream' \notin Clients
    BY <1>4 DEF Revoke, Inv, StreamBelongsToLease, Contents
  <2>3. Session!Latch
    BY <1>4, <2>1, <2>2 DEF Session!Latch, Session!NobodyDrives, Revoke, Phase, Latched
  <2> QED
    BY <2>3
<1>5. ASSUME mode \in Latched, mode' \in Latched, lease' = NoClient, pc # "down", pc' # "down",
             UNCHANGED resetFailed
      PROVE  SessionStep
  <2>1. lease = NoClient
    BY <1>5 DEF Inv, LatchedHasNoLease, Latched
  <2>2. stream \notin Clients /\ stream' \notin Clients
    BY <1>5, <2>1 DEF Inv, StreamBelongsToLease
  <2>3. Phase' = Phase
    BY <1>5 DEF Phase, Latched
  <2> QED
    BY <1>5, <2>1, <2>2, <2>3
<1>6. CASE EntryWaits
  <2>1. CASE mode' = "reflex" /\ Revoke
    BY <1>4, <1>6, <2>1 DEF EntryWaits, Latched
  <2>2. CASE UNCHANGED <<mode, leaseVars, stream>>
    BY <1>6, <2>2 DEF EntryWaits, leaseVars, Phase
  <2> QED
    BY <1>6, <2>1, <2>2 DEF EntryWaits
<1>7. CASE JudgeTrips
  <2>1. CASE mode = "move"
    BY <1>4, <1>7, <2>1 DEF JudgeTrips, NextPass, Latched
  <2>2. CASE mode = "reflex"
    BY <1>5, <1>7, <2>2 DEF JudgeTrips, NextPass, Latched, leaseVars, Inv, LatchedHasNoLease
  <2> QED
    BY <1>7, <2>1, <2>2 DEF JudgeTrips
<1>8. CASE JudgeStops
  <2>1. CASE mode = "move"
    BY <1>4, <1>8, <2>1 DEF JudgeStops, NextPass, Latched
  <2>2. CASE mode = "reflex"
    BY <1>5, <1>8, <2>2 DEF JudgeStops, NextPass, Latched, Revoke
  <2> QED
    BY <1>8, <2>1, <2>2 DEF JudgeStops, Supervised
<1> QED
  BY <1>1, <1>2, <1>3, <1>6, <1>7, <1>8 DEF Loop, Sense, Judge

LEMMA LifeSteps ==
  ASSUME Inv, Start \/ Interrupt \/ Exit \/ Crash \/ TorqueTool
  PROVE  SessionStep
<1> USE ClientsAssumption DEF SessionStep, Session!Next, Session!session
<1>1. CASE Start
  <2>1. Session!Boot
    BY <1>1 DEF Start, Fresh, AdoptedMode, Session!Boot, Session!NobodyDrives, Phase, Contents
  <2> QED
    BY <2>1
<1>2. CASE Interrupt
  BY <1>2 DEF Interrupt, process, leaseVars, Phase
<1>3. CASE Exit \/ Crash
  <2>1. Session!Die
    BY <1>3 DEF Exit, Crash, Fresh, Session!Die, Session!NobodyDrives, Phase, Contents
  <2> QED
    BY <2>1
<1>4. CASE TorqueTool
  BY <1>4 DEF TorqueTool, process, leaseVars, Phase
<1> QED
  BY <1>1, <1>2, <1>3, <1>4

LEMMA NextSteps == Inv /\ Inv' /\ [Next]_vars => SessionStep
<1> SUFFICES ASSUME Inv, Inv', [Next]_vars PROVE SessionStep
  OBVIOUS
<1>1. CASE UNCHANGED vars
  BY <1>1 DEF SessionStep, Session!session, vars, process, leaseVars, Phase
<1> QED
  BY <1>1, CommandSteps, LoopSteps, LifeSteps DEF Next

\* The daemon keeps the session it promises: one holder at a time, no streaming
\* without the right, no way out of a latch but the documented ones.
THEOREM Refinement == Spec => KeepsSession
<1>1. Init => Session!Init
  BY SessionInit
<1>2. Inv /\ Inv' /\ [Next]_vars => [Session!Next]_(Session!session)
  BY NextSteps DEF SessionStep
<1> QED
  BY <1>1, <1>2, Invariance, PTL DEF Spec, KeepsSession, Session!Spec

=============================================================================
