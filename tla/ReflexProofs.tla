---------------------------- MODULE ReflexProofs ----------------------------
(***************************************************************************)
(* Theorems about Reflex.tla, for any motors, positions, limits, windows   *)
(* and inputs.                                                             *)
(***************************************************************************)
EXTENDS Reflex, TLAPS

----------------------------------------------------------------------------
(* Timers.                                                                 *)

LEMMA AgedTypes ==
  ASSUME NEW top \in Nat, NEW t \in Unset .. top
  PROVE  Aged(t, top) \in Unset .. top /\ StartOrAge(t, top) \in 0 .. top
BY DEF Aged, StartOrAge, Unset

LEMMA WindowTypes == SatTime \in Nat /\ LimitTime \in Nat /\ PairTime \in Nat /\ ForceTime \in Nat
BY WindowsAssumption DEF Windows

----------------------------------------------------------------------------
(* Types.                                                                  *)

HistoryOK ==
  /\ driven \in 0 .. Top
  /\ entry \in {"none", "move", "recover"}
  /\ apartRun \in 0 .. Top

\* The parts of TimersOK, by the check that owns the timer.
MotorTimersOK ==
  /\ satAge \in [Motors -> Unset .. SatTime]
  /\ satPos \in [Motors -> Places]
  /\ satDir \in [Motors -> {-1, 1}]
  /\ accelLeft \in [Motors -> 0 .. AccelTime]
  /\ lastGoal \in [Motors -> Places]

LimitTimersOK == armed \in [Motors -> BOOLEAN] /\ limitAge \in [Motors -> Unset .. LimitTime]
PairTimerOK   == pairAge \in Unset .. PairTime
ForceTimerOK  == forceAge \in Unset .. ForceTime

LEMMA TimersParts ==
  /\ TimersOK <=> MotorTimersOK /\ LimitTimersOK /\ PairTimerOK /\ ForceTimerOK
  /\ TimersOK' <=> MotorTimersOK' /\ LimitTimersOK' /\ PairTimerOK' /\ ForceTimerOK'
BY DEF TimersOK, MotorTimersOK, LimitTimersOK, PairTimerOK, ForceTimerOK

LEMMA CoolerTypes ==
  ASSUME TimersOK, NEW m \in Motors
  PROVE  Cooler(m) \in 0 .. AccelTime /\ Deferral(m) \in 0 .. AccelTime
BY WindowsAssumption DEF TimersOK, Cooler, Deferral

LEMMA TimersPassTypes == TimersOK /\ TimersPass => MotorTimersOK'
BY WindowTypes, CoolerTypes, AgedTypes DEF TimersOK, TimersPass, MotorTimersOK

LEMMA ScanMotorsTypes ==
  ASSUME TimersOK, ArmOK', ScanMotors
  PROVE  MotorTimersOK'
<1>1. accelLeft' \in [Motors -> 0 .. AccelTime]
  BY CoolerTypes DEF ScanMotors
<1>2. satAge' \in [Motors -> Unset .. SatTime]
  <2>1. Unset \in Unset .. SatTime /\ 0 \in Unset .. SatTime
    BY WindowTypes DEF Unset
  <2>2. \A m \in Motors : Aged(satAge[m], SatTime) \in Unset .. SatTime
    BY WindowTypes, AgedTypes DEF TimersOK
  <2> QED
    BY <2>1, <2>2 DEF ScanMotors
<1>3. lastGoal' \in [Motors -> Places]
  BY DEF ScanMotors, TimersOK, ArmOK, Places
<1>4. satPos' \in [Motors -> Places]
  BY DEF ScanMotors, TimersOK, ArmOK, Places
<1>5. satDir' \in [Motors -> {-1, 1}]
  BY DEF ScanMotors, TimersOK
<1> QED
  BY <1>1, <1>2, <1>3, <1>4, <1>5 DEF MotorTimersOK

LEMMA LimitsPassTypes == TimersOK /\ LimitsPass => LimitTimersOK'
BY WindowTypes, AgedTypes DEF TimersOK, LimitsPass, LimitTimersOK

LEMMA ScanLimitsTypes == TimersOK /\ ScanLimits => LimitTimersOK'
BY WindowTypes, AgedTypes DEF TimersOK, ScanLimits, LimitTimersOK, Within, Unset

LEMMA PairTypes == TimersOK /\ (PairPasses \/ ScanPair) => PairTimerOK'
<1> SUFFICES ASSUME TimersOK, PairPasses \/ ScanPair PROVE PairTimerOK'
  OBVIOUS
<1>1. Aged(pairAge, PairTime) \in Unset .. PairTime /\ StartOrAge(pairAge, PairTime) \in 0 .. PairTime
  <2>1. pairAge \in Unset .. PairTime
    BY DEF TimersOK
  <2> QED
    BY <2>1, WindowTypes, AgedTypes
<1>2. pairAge' \in {Aged(pairAge, PairTime), StartOrAge(pairAge, PairTime), Unset}
  BY DEF PairPasses, ScanPair
<1> QED
  BY <1>1, <1>2, WindowTypes DEF PairTimerOK, Unset

LEMMA ForceTypes == TimersOK /\ (ForcePasses \/ ScanForce) => ForceTimerOK'
<1> SUFFICES ASSUME TimersOK, ForcePasses \/ ScanForce PROVE ForceTimerOK'
  OBVIOUS
<1>1. Aged(forceAge, ForceTime) \in Unset .. ForceTime /\ StartOrAge(forceAge, ForceTime) \in 0 .. ForceTime
  <2>1. forceAge \in Unset .. ForceTime
    BY DEF TimersOK
  <2> QED
    BY <2>1, WindowTypes, AgedTypes
<1>2. forceAge' \in {Aged(forceAge, ForceTime), StartOrAge(forceAge, ForceTime), Unset}
  BY DEF ForcePasses, ScanForce
<1> QED
  BY <1>1, <1>2, WindowTypes DEF ForceTimerOK, Unset

LEMMA JudgeTimers ==
  ASSUME TimersOK, ArmOK', NEW hot, Judge(hot)
  PROVE  TimersOK'
<1>1. MotorTimersOK'
  BY TimersPassTypes, ScanMotorsTypes DEF Judge, JudgeStops, JudgeLatched, JudgeMotion
<1>2. LimitTimersOK'
  BY LimitsPassTypes, ScanLimitsTypes
     DEF Judge, JudgeStops, JudgeLatched, JudgeMotion, JudgeCollides, JudgeStrays, JudgePair,
         JudgeForce, JudgeQuiet
<1>3. PairTimerOK'
  BY PairTypes
     DEF Judge, JudgeStops, JudgeLatched, JudgeMotion, JudgeCollides, JudgeStrays, JudgePair,
         JudgeForce, JudgeQuiet
<1>4. ForceTimerOK'
  BY ForceTypes
     DEF Judge, JudgeStops, JudgeLatched, JudgeMotion, JudgeCollides, JudgeStrays, JudgePair,
         JudgeForce, JudgeQuiet
<1> QED
  BY <1>1, <1>2, <1>3, <1>4, TimersParts

\* What an update makes of the mode and the record.
LEMMA JudgeRecord ==
  ASSUME DetectorOK, NEW hot \in SUBSET Motors, Judge(hot)
  PROVE  /\ mode' \in {"move", "reflex", "stopped"}
         /\ trips' \subseteq Events \X (Motors \cup {Unset})
<1>1. Stops(hot) \subseteq Events \X (Motors \cup {Unset})
  BY DEF Stops, Emitted, Events
<1>2. CASE JudgeStops(hot)
  BY <1>1, <1>2 DEF JudgeStops, DetectorOK
<1>3. CASE JudgeLatched(hot)
  BY <1>3 DEF JudgeLatched, DetectorOK
<1>4. CASE JudgeMotion(hot)
  <2>1. CASE JudgeCollides
    BY <2>1 DEF JudgeCollides, DetectorOK, Emitted, Events, Colliding
  <2>2. CASE JudgeStrays
    BY <2>2 DEF JudgeStrays, DetectorOK, Emitted, Events, Straying
  <2>3. CASE JudgePair \/ JudgeForce
    BY <2>3 DEF JudgePair, JudgeForce, DetectorOK, Events
  <2>4. CASE JudgeQuiet
    BY <2>4 DEF JudgeQuiet, DetectorOK
  <2> QED
    BY <1>4, <2>1, <2>2, <2>3, <2>4 DEF JudgeMotion
<1> QED
  BY <1>2, <1>3, <1>4 DEF Judge

LEMMA CountsTypes ==
  ASSUME DetectorOK, NEW hot, NEW ok, CountComm, CountHeat(hot, ok)
  PROVE  /\ commFails' \in 0 .. CommFailMax
         /\ hotCount' \in [Motors -> 0 .. TempConfirm]
BY CountsAssumption DEF DetectorOK, CountComm, CountHeat

LEMMA NewReflexTypes == NewReflex => DetectorOK' /\ TimersOK'
BY WindowTypes, WindowsAssumption, CountsAssumption
   DEF NewReflex, DetectorOK, TimersOK, Places, Unset

LEMMA RestartTypes == DetectorOK /\ TimersOK /\ Restart => DetectorOK' /\ TimersOK'
BY WindowTypes, WindowsAssumption DEF Restart, DetectorOK, TimersOK, Places, Unset

LEMMA SampleTypes ==
  ASSUME ArmOK, NEW hot, NEW ok, Sample(hot, ok)
  PROVE  /\ pos' \in [Motors -> Positions]
         /\ goal' \in [Motors -> Positions]
         /\ load' \in [Motors -> {"low", "high", "full"}]
         /\ apart' \in BOOLEAN
         /\ force' \in {"unknown", "weak", "strong"}
         /\ commOk' \in BOOLEAN
<1>1. load' \in [Motors -> {"low", "high", "full"}]
  <2>1. CASE "load" \in Inputs
    BY <2>1 DEF Sample
  <2>2. CASE "load" \notin Inputs
    BY <2>2 DEF Sample
  <2> QED
    BY <2>1, <2>2
<1> QED
  BY <1>1 DEF Sample, ArmOK

LEMMA RunTypes ==
  ASSUME NEW r \in 0 .. Top, NEW seen
  PROVE  Run(r, seen) \in 0 .. Top
BY WindowsAssumption DEF Run

LEMMA CycleTypes ==
  ASSUME TypeOK, HistoryOK, NEW hot \in SUBSET Motors, NEW ok \in SUBSET Motors, Cycle(hot, ok)
  PROVE  TypeOK' /\ HistoryOK'
<1>1. mode' \in {"move", "reflex", "stopped"} /\ trips' \subseteq Events \X (Motors \cup {Unset})
  BY JudgeRecord DEF Cycle, TypeOK
<1>2. ArmOK'
  BY <1>1, SampleTypes DEF Cycle, TypeOK, ArmOK
<1>3. TimersOK'
  BY <1>2, JudgeTimers DEF Cycle, TypeOK
<1>4. lastHold' \in [Motors -> Places]
  BY <1>2 DEF Cycle, TypeOK, DetectorOK, ArmOK, Places
<1>5. DetectorOK'
  BY <1>1, <1>4, CountsTypes DEF Cycle, TypeOK, DetectorOK
<1>6. HistoryOK'
  BY RunTypes DEF Cycle, Remember, HistoryOK
<1> QED
  BY <1>2, <1>3, <1>5, <1>6 DEF TypeOK

LEMMA InitTypes == Init => TypeOK /\ HistoryOK
<1> SUFFICES ASSUME Init PROVE TypeOK /\ HistoryOK
  OBVIOUS
<1>1. DetectorOK
  BY CountsAssumption DEF Init, DetectorOK, Places, Unset
<1>2. TimersOK
  BY WindowTypes, WindowsAssumption DEF Init, TimersOK, Places, Unset
<1>3. ArmOK
  BY DEF Init, ArmOK
<1>4. HistoryOK
  BY WindowsAssumption DEF Init, HistoryOK
<1> QED
  BY <1>1, <1>2, <1>3, <1>4 DEF TypeOK

LEMMA NextTypes == TypeOK /\ HistoryOK /\ [Next]_vars => TypeOK' /\ HistoryOK'
<1> SUFFICES ASSUME TypeOK, HistoryOK, [Next]_vars PROVE TypeOK' /\ HistoryOK'
  OBVIOUS
<1>1. CASE Pass
  <2>1. TimersOK'
    BY <1>1, TimersPassTypes, LimitsPassTypes, PairTypes, ForceTypes, TimersParts DEF Pass, TypeOK
  <2>2. DetectorOK' /\ ArmOK'
    BY <1>1 DEF Pass, TypeOK, DetectorOK, ArmOK
  <2>3. HistoryOK'
    BY <1>1, WindowsAssumption DEF Pass, HistoryOK
  <2> QED
    BY <2>1, <2>2, <2>3 DEF TypeOK
<1>2. ASSUME NEW hot \in SUBSET Motors, NEW ok \in SUBSET Motors, Cycle(hot, ok)
      PROVE  TypeOK' /\ HistoryOK'
  BY <1>2, CycleTypes
<1>3. CASE EnterMove
  <2>1. DetectorOK' /\ TimersOK'
    BY <1>3, NewReflexTypes DEF EnterMove, TypeOK, DetectorOK, TimersOK, detector, timers
  <2>2. ArmOK' /\ HistoryOK'
    BY <1>3, WindowsAssumption DEF EnterMove, Enter, Stays, TypeOK, ArmOK, HistoryOK, arm, history
  <2> QED
    BY <2>1, <2>2 DEF TypeOK
<1>4. CASE DropTorque \/ DaemonLatches
  BY <1>4 DEF DropTorque, DaemonLatches, TypeOK, DetectorOK, TimersOK, ArmOK, HistoryOK,
              detector, timers, arm, history
<1>5. CASE Reset
  BY <1>5, NewReflexTypes
     DEF Reset, TypeOK, DetectorOK, TimersOK, ArmOK, HistoryOK, detector, timers, arm, history
<1>6. CASE Recover
  <2>1. DetectorOK' /\ TimersOK'
    BY <1>6, NewReflexTypes, RestartTypes DEF Recover, TypeOK
  <2>2. ArmOK' /\ HistoryOK'
    BY <1>6, WindowsAssumption DEF Recover, Enter, Stays, TypeOK, ArmOK, HistoryOK, arm, history
  <2> QED
    BY <2>1, <2>2 DEF TypeOK
<1>7. CASE UNCHANGED vars
  BY <1>7 DEF vars, TypeOK, DetectorOK, TimersOK, ArmOK, HistoryOK, detector, timers, arm, history
<1> QED
  BY <1>1, <1>2, <1>3, <1>4, <1>5, <1>6, <1>7 DEF Next, Loop

\* Every variable of the detector and of the daemon around it keeps its type.
THEOREM TypeCorrect == Spec => []TypeOK
<1>1. Spec => [](TypeOK /\ HistoryOK)
  BY InitTypes, NextTypes, PTL DEF Spec
<1> QED
  BY <1>1, PTL

----------------------------------------------------------------------------
(* The daemon and its detector agree, and nothing is on record in motion.  *)

Agree == NeverBlind /\ MovingIsJudged

\* An update leaves the record as it was, unless it latches.
LEMMA QuietRecord ==
  ASSUME NEW hot \in SUBSET Motors, Judge(hot), mode' \in {"idle", "move"}
  PROVE  mode \in {"idle", "move"} /\ trips' = trips
<1>1. ~JudgeStops(hot)
  BY DEF JudgeStops
<1>2. ~JudgeLatched(hot)
  BY DEF JudgeLatched
<1>3. JudgeMotion(hot)
  BY <1>1, <1>2 DEF Judge
<1>4. JudgeQuiet
  BY <1>3 DEF JudgeMotion, JudgeCollides, JudgeStrays, JudgePair, JudgeForce
<1> QED
  BY <1>3, <1>4 DEF JudgeMotion, JudgeQuiet

LEMMA AgreeStep == TypeOK /\ Agree /\ [Next]_vars => Agree'
<1> SUFFICES ASSUME TypeOK, Agree, [Next]_vars PROVE Agree'
  OBVIOUS
<1> USE DEF Agree, NeverBlind, MovingIsJudged
<1>1. CASE Pass
  BY <1>1 DEF Pass
<1>2. ASSUME NEW hot \in SUBSET Motors, NEW ok \in SUBSET Motors, Cycle(hot, ok) PROVE Agree'
  <2>1. mode' \in {"move", "reflex", "stopped"}
    BY <1>2, JudgeRecord DEF Cycle, TypeOK
  <2>2. NeverBlind'
    BY <1>2, QuietRecord DEF Cycle
  <2>3. MovingIsJudged'
    BY <1>2, <2>1 DEF Cycle
  <2> QED
    BY <2>2, <2>3
<1>3. CASE EnterMove
  BY <1>3 DEF EnterMove, Enter, Stays, NewReflex, detector, TypeOK, DetectorOK
<1>4. CASE DropTorque \/ DaemonLatches
  BY <1>4 DEF DropTorque, DaemonLatches, detector
<1>5. CASE Reset
  BY <1>5 DEF Reset, NewReflex, detector
<1>6. CASE Recover
  BY <1>6 DEF Recover, Restart, NewReflex, Enter, Stays
<1>7. CASE UNCHANGED vars
  BY <1>7 DEF vars, detector
<1> QED
  BY <1>1, <1>2, <1>3, <1>4, <1>5, <1>6, <1>7 DEF Next, Loop

LEMMA AgreeHolds == Spec => [](TypeOK /\ HistoryOK /\ Agree)
<1>1. Init => Agree
  BY DEF Init, Agree, NeverBlind, MovingIsJudged
<1> QED
  BY <1>1, InitTypes, NextTypes, AgreeStep, PTL DEF Spec

\* A detector that lets the arm move has nothing on record, so that no event of
\* an earlier episode is passed over (reflex.py:386-391).
THEOREM NothingOnRecord == Spec => []NeverBlind
<1>1. TypeOK /\ HistoryOK /\ Agree => NeverBlind
  BY DEF Agree
<1> QED
  BY <1>1, AgreeHolds, PTL

\* The arm never moves under a latched detector (daemon.py:372-384, 497, 741-746).
THEOREM MovingIsSupervised == Spec => []MovingIsJudged
<1>1. TypeOK /\ HistoryOK /\ Agree => MovingIsJudged
  BY DEF Agree
<1> QED
  BY <1>1, AgreeHolds, PTL

----------------------------------------------------------------------------
(* Windows: a timer that recover cleared is younger than the drive.        *)

Behind(t, d) == t = Unset \/ t < d

\* The timers that were cleared by recover and have run since.
TimersBehind ==
  /\ \A m \in Motors : Behind(satAge[m], driven) /\ Behind(limitAge[m], driven)
  /\ Behind(pairAge, driven)
  /\ Behind(forceAge, driven)

RecoverFresh == entry = "recover" /\ driver \in {"move", "reflex"} => TimersBehind

\* While the detector judges, the pair's timer is no older than the unbroken
\* mismatch, or that has lasted the whole drive.
PairFollows ==
  driver \in {"move", "reflex"} /\ mode \in {"idle", "move"} =>
    Behind(pairAge, apartRun) \/ driven <= apartRun

LEMMA RunBehind ==
  ASSUME NEW top \in Nat, top < Top, NEW t \in Unset .. top, NEW d \in 0 .. Top, Behind(t, d)
  PROVE  /\ Behind(Aged(t, top), Run(d, TRUE))
         /\ Behind(StartOrAge(t, top), Run(d, TRUE))
         /\ Behind(0, Run(d, TRUE))
BY WindowsAssumption DEF Behind, Aged, StartOrAge, Run, Unset

\* A window that is over lasted longer than its timer's length.
LEMMA OverBehind ==
  ASSUME NEW top \in Nat, top < Top, NEW t \in Unset .. top, NEW d \in 0 .. Top, Behind(t, d)
  PROVE  /\ Elapsed(t, top) => Run(d, TRUE) > top
         /\ StartOrAge(t, top) = top => Run(d, TRUE) > top
BY WindowsAssumption DEF Behind, Elapsed, Aged, StartOrAge, Run, Unset

LEMMA WindowTops ==
  SatTime < Top /\ LimitTime < Top /\ PairTime < Top /\ ForceTime < Top
BY WindowsAssumption DEF Windows

LEMMA JudgeBehind ==
  ASSUME TypeOK, HistoryOK, TimersBehind, NEW hot, Judge(hot), driven' = Run(driven, TRUE)
  PROVE  TimersBehind'
<1>0. Behind(Unset, driven')
  BY DEF Behind
<1>1. ASSUME NEW m \in Motors PROVE Behind(satAge'[m], driven')
  <2>1. satAge'[m] \in {Unset, 0, Aged(satAge[m], SatTime)}
    BY DEF Judge, JudgeStops, JudgeLatched, JudgeMotion, TimersPass, ScanMotors
  <2>2. Behind(Aged(satAge[m], SatTime), driven') /\ Behind(0, driven')
    BY WindowTypes, WindowTops, RunBehind DEF TypeOK, TimersOK, HistoryOK, TimersBehind
  <2> QED
    BY <2>1, <2>2, <1>0
<1>2. ASSUME NEW m \in Motors PROVE Behind(limitAge'[m], driven')
  <2>1. limitAge'[m] \in {Unset, StartOrAge(limitAge[m], LimitTime), Aged(limitAge[m], LimitTime)}
    BY DEF Judge, JudgeStops, JudgeLatched, JudgeMotion, JudgeCollides, JudgeStrays, JudgePair,
           JudgeForce, JudgeQuiet, LimitsPass, ScanLimits
  <2>2. Behind(Aged(limitAge[m], LimitTime), driven') /\ Behind(StartOrAge(limitAge[m], LimitTime), driven')
    BY WindowTypes, WindowTops, RunBehind DEF TypeOK, TimersOK, HistoryOK, TimersBehind
  <2> QED
    BY <2>1, <2>2, <1>0
<1>3. Behind(pairAge', driven')
  <2>1. pairAge' \in {Unset, StartOrAge(pairAge, PairTime), Aged(pairAge, PairTime)}
    BY DEF Judge, JudgeStops, JudgeLatched, JudgeMotion, JudgeCollides, JudgeStrays, JudgePair,
           JudgeForce, JudgeQuiet, PairPasses, ScanPair
  <2>2. Behind(Aged(pairAge, PairTime), driven') /\ Behind(StartOrAge(pairAge, PairTime), driven')
    BY WindowTypes, WindowTops, RunBehind DEF TypeOK, TimersOK, HistoryOK, TimersBehind
  <2> QED
    BY <2>1, <2>2, <1>0
<1>4. Behind(forceAge', driven')
  <2>1. forceAge' \in {Unset, StartOrAge(forceAge, ForceTime), Aged(forceAge, ForceTime)}
    BY DEF Judge, JudgeStops, JudgeLatched, JudgeMotion, JudgeCollides, JudgeStrays, JudgePair,
           JudgeForce, JudgeQuiet, ForcePasses, ScanForce
  <2>2. Behind(Aged(forceAge, ForceTime), driven') /\ Behind(StartOrAge(forceAge, ForceTime), driven')
    BY WindowTypes, WindowTops, RunBehind DEF TypeOK, TimersOK, HistoryOK, TimersBehind
  <2> QED
    BY <2>1, <2>2, <1>0
<1> QED
  BY <1>1, <1>2, <1>3, <1>4 DEF TimersBehind

LEMMA FreshStep ==
  TypeOK /\ HistoryOK /\ RecoverFresh /\ [Next]_vars => RecoverFresh'
<1> SUFFICES ASSUME TypeOK, HistoryOK, RecoverFresh, [Next]_vars PROVE RecoverFresh'
  OBVIOUS
<1>1. CASE Pass
  BY <1>1 DEF Pass, RecoverFresh
<1>2. ASSUME NEW hot \in SUBSET Motors, NEW ok \in SUBSET Motors, Cycle(hot, ok) PROVE RecoverFresh'
  BY <1>2, JudgeBehind DEF Cycle, Remember, RecoverFresh
<1>3. CASE EnterMove
  BY <1>3 DEF EnterMove, Enter, Stays, RecoverFresh
<1>4. CASE DropTorque \/ Reset
  BY <1>4 DEF DropTorque, Reset, RecoverFresh
<1>5. CASE DaemonLatches
  BY <1>5 DEF DaemonLatches, RecoverFresh, TimersBehind, Behind, detector, timers, history
<1>6. CASE Recover
  <2>1. TimersBehind'
    BY <1>6 DEF Recover, Restart, NewReflex, TimersBehind, Behind
  <2> QED
    BY <2>1 DEF RecoverFresh
<1>7. CASE UNCHANGED vars
  BY <1>7 DEF vars, RecoverFresh, TimersBehind, Behind, detector, timers, history
<1> QED
  BY <1>1, <1>2, <1>3, <1>4, <1>5, <1>6, <1>7 DEF Next, Loop

\* Which check an update of the detector reports an event from.
LEMMA EmittedBy ==
  ASSUME DetectorOK, NEW hot \in SUBSET Motors, Judge(hot)
  PROVE  /\ \A m \in Motors : Emits("collision", m) => Elapsed(satAge[m], SatTime)
         /\ \A m \in Motors : Emits("joint_limit", m) => Elapsed(limitAge[m], LimitTime)
         /\ Emits("pair_mismatch", Unset) => JudgePair
         /\ Emits("external_force", Unset) => JudgeForce
<1>1. CASE JudgeStops(hot)
  BY <1>1 DEF JudgeStops, Stops, Emitted, Emits
<1>2. CASE JudgeLatched(hot)
  BY <1>2 DEF JudgeLatched, Emits
<1>3. CASE JudgeCollides
  BY <1>3 DEF JudgeCollides, Colliding, Blocked, Judged, Emitted, Emits
<1>4. CASE JudgeStrays
  BY <1>4 DEF JudgeStrays, Straying, Emitted, Emits
<1>5. CASE JudgePair
  BY <1>5 DEF JudgePair, Emits
<1>6. CASE JudgeForce
  BY <1>6 DEF JudgeForce, Emits
<1>7. CASE JudgeQuiet
  BY <1>7 DEF JudgeQuiet, Emits
<1> QED
  BY <1>1, <1>2, <1>3, <1>4, <1>5, <1>6, <1>7 DEF Judge, JudgeMotion

FullWindow ==
  entry = "recover" =>
    /\ \A m \in Motors : Emits("collision", m) => driven' > SatTime
    /\ \A m \in Motors : Emits("joint_limit", m) => driven' > LimitTime
    /\ Emits("pair_mismatch", Unset) => driven' > PairTime
    /\ Emits("external_force", Unset) => driven' > ForceTime

LEMMA FullWindowStep ==
  TypeOK /\ HistoryOK /\ RecoverFresh /\ [Next]_vars => FullWindow
<1> SUFFICES ASSUME TypeOK, HistoryOK, RecoverFresh, [Next]_vars, entry = "recover" PROVE FullWindow
  BY DEF FullWindow
<1>1. CASE trips' \subseteq trips
  BY <1>1 DEF FullWindow, Emits
<1>2. ASSUME NEW hot \in SUBSET Motors, NEW ok \in SUBSET Motors, Cycle(hot, ok) PROVE FullWindow
  <2>1. driven' = Run(driven, TRUE) /\ TimersBehind /\ Judge(hot)
    BY <1>2 DEF Cycle, Remember, RecoverFresh
  <2>2. ASSUME NEW m \in Motors, Emits("collision", m) PROVE driven' > SatTime
    BY <2>1, <2>2, EmittedBy, OverBehind, WindowTypes, WindowTops
       DEF TypeOK, TimersOK, HistoryOK, TimersBehind
  <2>3. ASSUME NEW m \in Motors, Emits("joint_limit", m) PROVE driven' > LimitTime
    BY <2>1, <2>3, EmittedBy, OverBehind, WindowTypes, WindowTops
       DEF TypeOK, TimersOK, HistoryOK, TimersBehind
  <2>4. ASSUME Emits("pair_mismatch", Unset) PROVE driven' > PairTime
    <3>1. StartOrAge(pairAge, PairTime) = PairTime
      BY <2>1, <2>4, EmittedBy DEF TypeOK, JudgePair, Parted
    <3> QED
      BY <2>1, <3>1, OverBehind, WindowTypes, WindowTops DEF TypeOK, TimersOK, HistoryOK, TimersBehind
  <2>5. ASSUME Emits("external_force", Unset) PROVE driven' > ForceTime
    <3>1. StartOrAge(forceAge, ForceTime) = ForceTime
      BY <2>1, <2>5, EmittedBy DEF TypeOK, JudgeForce, Pushed
    <3> QED
      BY <2>1, <3>1, OverBehind, WindowTypes, WindowTops DEF TypeOK, TimersOK, HistoryOK, TimersBehind
  <2> QED
    BY <2>2, <2>3, <2>4, <2>5 DEF FullWindow
<1>3. CASE Pass \/ DropTorque \/ DaemonLatches
  BY <1>1, <1>3 DEF Pass, DropTorque, DaemonLatches, detector
<1>4. CASE EnterMove \/ Reset \/ Recover
  BY <1>1, <1>4 DEF EnterMove, Reset, Recover, Restart, NewReflex, detector
<1>5. CASE UNCHANGED vars
  BY <1>1, <1>5 DEF vars, detector
<1> QED
  BY <1>2, <1>3, <1>4, <1>5 DEF Next, Loop

\* An arm that was just recovered gets a full window of every kind before the
\* detector latches it again (reflex.py:369-378).
THEOREM RecoverStartsWindows == Spec => RecoverGrantsFullWindow
<1>1. Init => RecoverFresh
  BY DEF Init, RecoverFresh
<1>2. TypeOK /\ HistoryOK /\ RecoverFresh /\ [Next]_vars => [FullWindow]_vars
  BY FullWindowStep
<1> QED
  BY <1>1, <1>2, InitTypes, NextTypes, FreshStep, PTL DEF Spec, RecoverGrantsFullWindow, FullWindow

----------------------------------------------------------------------------
(* The pair: its timer is bounded by the unbroken mismatch.                *)

\* The mismatch of this cycle extends the run, and a run that lasted the whole
\* drive still does.
LEMMA PairExtends ==
  ASSUME NEW t \in Unset .. PairTime, NEW a \in 0 .. Top, NEW d \in 0 .. Top,
         Behind(t, a) \/ d <= a
  PROVE  Behind(StartOrAge(t, PairTime), Run(a, TRUE)) \/ Run(d, TRUE) <= Run(a, TRUE)
BY WindowTypes, WindowTops, WindowsAssumption DEF Behind, Aged, StartOrAge, Run, Unset

LEMMA PairStep ==
  TypeOK /\ HistoryOK /\ PairFollows /\ [Next]_vars => PairFollows'
<1> SUFFICES ASSUME TypeOK, HistoryOK, PairFollows, [Next]_vars PROVE PairFollows'
  OBVIOUS
<1>1. CASE Pass
  BY <1>1 DEF Pass, PairFollows
<1>2. ASSUME NEW hot \in SUBSET Motors, NEW ok \in SUBSET Motors, Cycle(hot, ok) PROVE PairFollows'
  <2> SUFFICES ASSUME mode' \in {"idle", "move"} PROVE Behind(pairAge', apartRun') \/ driven' <= apartRun'
    BY DEF PairFollows, Behind
  <2>1. mode \in {"idle", "move"} /\ ScanPair
    BY <1>2, QuietRecord
       DEF Cycle, Judge, JudgeStops, JudgeLatched, JudgeMotion, JudgeCollides, JudgeStrays,
           JudgePair, JudgeForce, JudgeQuiet
  <2>2. driven' = Run(driven, TRUE) /\ apartRun' = Run(apartRun, apart')
    BY <1>2 DEF Cycle, Remember
  <2>3. CASE apart'
    <3>1. Behind(pairAge, apartRun) \/ driven <= apartRun
      BY <1>2, <2>1 DEF Cycle, PairFollows
    <3>2. pairAge' = StartOrAge(pairAge, PairTime) /\ apartRun' = Run(apartRun, TRUE)
      BY <2>1, <2>2, <2>3 DEF ScanPair, Run
    <3> QED
      BY <2>2, <3>1, <3>2, PairExtends DEF TypeOK, TimersOK, HistoryOK
  <2>4. CASE ~apart'
    BY <2>1, <2>4 DEF ScanPair, Behind
  <2> QED
    BY <2>3, <2>4
<1>3. CASE EnterMove
  BY <1>3 DEF EnterMove, Enter, Stays, PairFollows, HistoryOK
<1>4. CASE DropTorque \/ Reset
  BY <1>4 DEF DropTorque, Reset, PairFollows
<1>5. CASE DaemonLatches
  BY <1>5 DEF DaemonLatches, PairFollows, Behind, detector, timers, history
<1>6. CASE Recover
  BY <1>6 DEF Recover, Restart, NewReflex, PairFollows, Behind
<1>7. CASE UNCHANGED vars
  BY <1>7 DEF vars, PairFollows, Behind, detector, timers, history
<1> QED
  BY <1>1, <1>2, <1>3, <1>4, <1>5, <1>6, <1>7 DEF Next, Loop

PairDwell == Emits("pair_mismatch", Unset) /\ driven' > PairTime => apartRun' > PairTime

LEMMA PairDwellStep ==
  TypeOK /\ HistoryOK /\ PairFollows /\ [Next]_vars => PairDwell
<1> SUFFICES ASSUME TypeOK, HistoryOK, PairFollows, [Next]_vars PROVE PairDwell
  OBVIOUS
<1>1. CASE trips' \subseteq trips
  BY <1>1 DEF PairDwell, Emits
<1>2. ASSUME NEW hot \in SUBSET Motors, NEW ok \in SUBSET Motors, Cycle(hot, ok) PROVE PairDwell
  <2> SUFFICES ASSUME Emits("pair_mismatch", Unset), driven' > PairTime PROVE apartRun' > PairTime
    BY DEF PairDwell
  <2>1. JudgePair
    BY <1>2, EmittedBy DEF Cycle, TypeOK
  <2>2. apart' /\ StartOrAge(pairAge, PairTime) = PairTime
    BY <2>1 DEF JudgePair, Parted
  <2>3. driven' = Run(driven, TRUE) /\ apartRun' = Run(apartRun, TRUE)
    BY <1>2, <2>2 DEF Cycle, Remember, Run
  <2>4. mode \in {"idle", "move"}
    <3>1. ~JudgeLatched(hot) /\ ~JudgeStops(hot)
      BY DEF JudgeLatched, JudgeStops, Stops, Emitted, Emits
    <3> QED
      BY <1>2, <3>1 DEF Cycle, Judge, JudgeMotion
  <2>5. Behind(pairAge, apartRun) \/ driven <= apartRun
    BY <1>2, <2>4 DEF Cycle, PairFollows
  <2>6. CASE Behind(pairAge, apartRun)
    BY <2>2, <2>3, <2>6, OverBehind, WindowTypes, WindowTops DEF TypeOK, TimersOK, HistoryOK
  <2>7. CASE driven <= apartRun
    BY <2>3, <2>7, WindowTypes, WindowTops, WindowsAssumption DEF HistoryOK, Run
  <2> QED
    BY <2>5, <2>6, <2>7
<1>3. CASE Pass \/ DropTorque \/ DaemonLatches
  BY <1>1, <1>3 DEF Pass, DropTorque, DaemonLatches, detector
<1>4. CASE EnterMove \/ Reset \/ Recover
  BY <1>1, <1>4 DEF EnterMove, Reset, Recover, Restart, NewReflex, detector
<1>5. CASE UNCHANGED vars
  BY <1>1, <1>5 DEF vars, detector
<1> QED
  BY <1>2, <1>3, <1>4, <1>5 DEF Next, Loop

\* Later than t_pair into a drive, a pair mismatch lasted t_pair without a break,
\* although the timer lives on through time with torque off (reflex.py:272-288).
THEOREM PairDwells == Spec => PairTripNeedsDwell
<1>1. Init => PairFollows
  BY DEF Init, PairFollows
<1>2. TypeOK /\ HistoryOK /\ PairFollows /\ [Next]_vars => [PairDwell]_vars
  BY PairDwellStep
<1> QED
  BY <1>1, <1>2, InitTypes, NextTypes, PairStep, PTL DEF Spec, PairTripNeedsDwell, PairDwell

=============================================================================
