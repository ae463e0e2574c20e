------------------------- MODULE ControlLoopProofs -------------------------
(***************************************************************************)
(* Proofs about the programs that drive the arm without sopod: types, that *)
(* a recovered arm starts softly, and that the cable of a continuous joint *)
(* is never overwound, for any turn, range, speed, waypoints and steps.    *)
(***************************************************************************)
EXTENDS ControlLoop, JointTicksProofs

----------------------------------------------------------------------------
(* Types.                                                                  *)

\* What is left of the type invariant when its quantifiers are spelt out.
LEMMA Typed ==
  ASSUME TypeOK
  PROVE  /\ angle \in Int /\ goalReg \in Int /\ turn \in Int
         /\ last \in Int \cup {None} /\ home \in Int \cup {None}
         /\ goal \in Int \cup {None} /\ jogAt \in Int \cup {None} /\ readAt \in Int \cup {None}
         /\ multi \in BOOLEAN /\ shift \in Int
BY CableAssumption, LoopAssumption DEF TypeOK

\* The servo reports whole ticks.
LEMMA RawIsInt == ASSUME TypeOK, NEW a \in Int PROVE Raw(a) \in Int
<1>1. shift * Rev \in Int /\ a % Rev \in Int  BY Typed, RevAssumption
<1> QED  BY <1>1 DEF Raw

\* In one pass the joint goes to a whole tick between where it is and its goal.
LEMMA ReachedIsBetween ==
  ASSUME TypeOK, NEW a \in Reached
  PROVE  /\ a \in Int /\ ServoGoal \in Int
         /\ AtMost(angle, ServoGoal) <= a /\ a <= AtLeast(angle, ServoGoal)
<1>1. ServoGoal \in Int  BY Typed, RawIsInt DEF ServoGoal
<1>2. AtMost(angle, ServoGoal) \in Int /\ AtLeast(angle, ServoGoal) \in Int
  BY <1>1, Typed DEF AtMost, AtLeast
<1> QED  BY <1>1, <1>2 DEF Reached

\* The nearest home is a whole tick.
LEMMA HomeIsInt == ASSUME NEW x \in Int, NEW h \in Int PROVE HomeOf(x, h) \in Int
<1>1. Rounded(x - h) \in Int  BY Division DEF Rounded
<1>2. Rounded(x - h) * Rev \in Int  BY <1>1, RevAssumption
<1> QED  BY <1>2 DEF HomeOf

\* What a reading leaves behind.
LEMMA ReadType ==
  ASSUME TypeOK, angle' \in Int, Read
  PROVE  /\ last' \in Int /\ turn' \in Int /\ home' \in Int /\ readAt' \in Int
         /\ jumped' \in BOOLEAN /\ Present' \in Int
         /\ Low \in Int /\ High \in Int /\ Low <= High
<1>1. last' \in Int /\ readAt' \in Int /\ jumped' \in BOOLEAN  BY RawIsInt DEF Read
<1>2. turn' \in Int  BY <1>1, Typed DEF Read, TurnAfter
<1>3. Present' \in Int
  <2>1. turn' * Rev \in Int  BY <1>2, RevAssumption
  <2> QED  BY <1>1, <2>1 DEF Present
<1>4. home' \in Int
  <2>1. CASE home = None  BY <1>3, <2>1, HomeIsInt, CableAssumption DEF Read
  <2>2. CASE home # None  BY <2>2, Typed DEF Read
  <2> QED  BY <2>1, <2>2
<1>5. Low \in Int /\ High \in Int /\ Low <= High
  <2>1. PICK h \in Int : h = home'  BY <1>4
  <2>2. Range \in Nat  BY CableAssumption
  <2>3. Low = h - Range /\ High = h + Range  BY <2>1 DEF Low, High
  <2> QED  BY <2>2, <2>3
<1> QED  BY <1>1, <1>2, <1>3, <1>4, <1>5

\* The target of a source is a whole tick, and its own state keeps its type.
LEMMA AsksType ==
  ASSUME TypeOK, Present' \in Int, home' \in Int, Asks
  PROVE  /\ Target \in Int
         /\ index' \in 1 .. Len(Waypoints) /\ waited' \in 0 .. Dwell \cup {None}
         /\ jogAt' \in Int \cup {None}
<1>1. \A i \in 1 .. Len(Waypoints) : Waypoint(i) \in Int
  <2> SUFFICES ASSUME NEW i \in 1 .. Len(Waypoints) PROVE Waypoint(i) \in Int  OBVIOUS
  <2>1. Waypoints[i] \in Int \cup {None}  BY LoopAssumption
  <2>2. home' - HomeAbs \in Int  BY CableAssumption
  <2> QED  BY <2>1, <2>2 DEF Waypoint
<1>2. index \in 1 .. Len(Waypoints) /\ waited \in 0 .. Dwell \cup {None} /\ Dwell \in Nat
  BY LoopAssumption DEF TypeOK
<1>3. Older \in 0 .. Dwell \cup {None}  BY <1>2, LoopAssumption DEF Older
<1>4. CASE program # "jog"
  <2>1. (Dwells \/ Advances) /\ Target = Waypoint(index') /\ jogAt' = jogAt  BY <1>4 DEF Asks, Target
  <2>2. CASE Dwells
    <3>1. index' \in 1 .. Len(Waypoints)  BY <1>2, <2>2 DEF Dwells
    <3>2. waited' \in 0 .. Dwell \cup {None}  BY <1>2, <1>3, <2>2 DEF Dwells
    <3> QED  BY <1>1, <2>1, <3>1, <3>2, Typed
  <2>3. CASE Advances
    <3>1. Len(Waypoints) \in Nat \ {0}  BY LoopAssumption
    <3>2. index % Len(Waypoints) \in 0 .. Len(Waypoints) - 1  BY <1>2, <3>1
    <3>3. index' \in 1 .. Len(Waypoints)  BY <2>3, <3>1, <3>2 DEF Advances
    <3> QED  BY <1>1, <2>1, <2>3, <3>3, Typed DEF Advances
  <2> QED  BY <2>1, <2>2, <2>3
<1>5. CASE program = "jog"
  <2>1. Jogs /\ Target = jogAt' /\ UNCHANGED <<index, waited>>  BY <1>5 DEF Asks, Target
  <2>2. \A s \in JogSteps : s \in Int  BY LoopAssumption
  <2>3. \E to \in Int : jogAt' = Limited(to, Present' - Lead, Present' + Lead)
    BY <2>1, <2>2, Typed DEF Jogs
  <2>4. jogAt' \in Int  BY <2>3, LoopAssumption DEF Limited, AtMost, AtLeast
  <2> QED  BY <1>2, <2>1, <2>4
<1> QED  BY <1>4, <1>5

\* The action of a source that is done is a whole tick too.
LEMMA EndsType ==
  ASSUME TypeOK, Present' \in Int, Ends
  PROVE  /\ LastTarget \in Int
         /\ index' \in 1 .. Len(Waypoints) /\ waited' \in 0 .. Dwell \cup {None}
         /\ jogAt' \in Int \cup {None}
<1>1. index \in 1 .. Len(Waypoints) /\ waited \in 0 .. Dwell \cup {None}  BY DEF TypeOK
<1>2. CASE program # "jog"  BY <1>1, <1>2, Typed DEF Ends, LastTarget, source
<1>3. CASE program = "jog"
  <2>1. Jogs /\ LastTarget = jogAt' /\ UNCHANGED <<index, waited>>  BY <1>3 DEF Ends, LastTarget
  <2>2. \A s \in JogSteps : s \in Int  BY LoopAssumption
  <2>3. \E to \in Int : jogAt' = Limited(to, Present' - Lead, Present' + Lead)
    BY <2>1, <2>2, Typed DEF Jogs
  <2>4. jogAt' \in Int  BY <2>3, LoopAssumption DEF Limited, AtMost, AtLeast
  <2> QED  BY <1>1, <2>1, <2>4
<1> QED  BY <1>2, <1>3

\* The goal of a cycle is a whole tick, within a step of the reading.
LEMMA ClampsType ==
  ASSUME TypeOK, Present' \in Int, Low \in Int, High \in Int, Low <= High,
         NEW t \in Int, Clamps(t)
  PROVE  goal' \in Int /\ Apart(goal', Present') <= AtLeast(Step, BrakeMin)
<1>1. ToCable(t) \in Int  BY LimitedFacts DEF ToCable
<1>2. Step \in Nat  BY LoopAssumption DEF Step
<1>3. goal' = ClampGoal(Present', ToCable(t), Low, High, Step)  BY DEF Clamps
<1> QED  BY <1>1, <1>2, <1>3, ClampIsSafe

\* What the servo is sent is a whole tick.
LEMMA RawGoalIsInt ==
  ASSUME NEW c \in Int, NEW x \in Int, NEW m \in BOOLEAN
  PROVE  RawGoal(c, x, m) \in Int
<1>1. PICK g : g = RawGoal(c, x, TRUE)  OBVIOUS
<1>2. g \in Int /\ RawGoal(c, x, FALSE) = g % Rev  BY <1>1, RawGoalBetween
<1>3. g % Rev \in Int  BY <1>2, Division
<1> QED  BY <1>1, <1>2, <1>3

\* A command of the loop is a whole tick.
LEMMA CommandType ==
  ASSUME TypeOK, Present' \in Int, last' \in Int,
         Low \in Int, High \in Int, Low <= High, NEW x \in Int,
         Command(x) \/ LastCommand(x)
  PROVE  goalReg' \in Int
<1>1. ToCable(x) \in Int  BY LimitedFacts DEF ToCable
<1>2. RawGoal(Present', ToCable(x), multi) \in Int  BY <1>1, RawGoalIsInt, Typed
<1> QED  BY <1>2, Typed DEF Command, LastCommand

----------------------------------------------------------------------------
(* Types, of every step.                                                   *)

\* The self test is over with its second move.
TestIsOn == pc = "test" => tested.moves # 2

LoopInv == TypeOK /\ TestIsOn

\* What a pass with a reading leaves behind.
LEMMA PassType ==
  ASSUME TypeOK, angle' \in Reached, Read
  PROVE  /\ angle' \in Int
         /\ last' \in Int /\ turn' \in Int /\ home' \in Int /\ readAt' \in Int
         /\ jumped' \in BOOLEAN /\ Present' \in Int
         /\ Low \in Int /\ High \in Int /\ Low <= High
BY ReachedIsBetween, ReadType

\* A pass without one.
LEMMA UnreadType ==
  ASSUME TypeOK, Unread
  PROVE  /\ turn' \in Int /\ jumped' \in BOOLEAN
         /\ last' \in Int \cup {None} /\ home' \in Int \cup {None} /\ readAt' \in Int \cup {None}
BY Typed DEF Unread, joint, TypeOK

\* Waiting keeps the dwell timer in its range.
LEMMA OlderType == TypeOK => Older \in 0 .. Dwell \cup {None}
<1> SUFFICES ASSUME TypeOK PROVE Older \in 0 .. Dwell \cup {None}  OBVIOUS
<1>1. waited \in 0 .. Dwell \cup {None} /\ Dwell \in Nat  BY LoopAssumption DEF TypeOK
<1> QED  BY <1>1 DEF Older

\* The start of a program keeps the types.
LEMMA BeginType == ASSUME LoopInv, Begin PROVE LoopInv'
<1>1. TypeOK  BY DEF LoopInv
<1>2. /\ angle' \in Int
      /\ last' \in Int /\ turn' \in Int /\ home' \in Int /\ readAt' \in Int
      /\ jumped' \in BOOLEAN /\ Present' \in Int
      /\ Low \in Int /\ High \in Int /\ Low <= High
  BY <1>1, PassType DEF Begin
<1>3. TestStart(Present', Low, High) \in Int  BY <1>2, LimitedFacts DEF TestStart
<1>4. tested' \in [moves : 0 .. 2, from : Int] /\ tested'.moves = 0  BY <1>3 DEF Begin
<1>5. pc' \in {"test", "run"}  BY DEF Begin
<1>6. TestIsOn'  BY <1>4 DEF TestIsOn
<1>7. UNCHANGED <<program, multi, shift, goalReg, goal, soft, index, waited, jogAt, arrived>>
  BY DEF Begin, setup, source
<1>8. TypeOK'  BY <1>1, <1>2, <1>4, <1>5, <1>7 DEF TypeOK
<1> QED  BY <1>6, <1>8 DEF LoopInv

\* The self test's goals are whole ticks.
LEMMA TestGoalIsInt == ASSUME TypeOK, angle' \in Reached, Read PROVE TestGoal \in Int
<1>1. tested.from \in Int  BY DEF TypeOK
<1>2. TestStart(tested.from, Low, High) \in Int  BY <1>1, PassType, LimitedFacts DEF TestStart
<1>3. TestTicks \in Int  BY LoopAssumption
<1>4. TestTarget(tested.from, Low, High, TestTicks) \in Int
  BY <1>2, <1>3 DEF TestTarget
<1> QED  BY <1>1, <1>4 DEF TestGoal

\* A round of the self test keeps the types, and its second move ends it.
LEMMA TestRoundType == ASSUME LoopInv, TestRound PROVE LoopInv'
<1>1. TypeOK  BY DEF LoopInv
<1>2. /\ angle' \in Int
      /\ last' \in Int /\ turn' \in Int /\ home' \in Int /\ readAt' \in Int
      /\ jumped' \in BOOLEAN /\ Present' \in Int
      /\ Low \in Int /\ High \in Int /\ Low <= High
  BY <1>1, PassType DEF TestRound
<1>3. tested \in [moves : 0 .. 2, from : Int] /\ tested.moves \in {0, 1}
  BY DEF LoopInv, TypeOK, TestIsOn, TestRound, At
<1>4. TestGoal \in Int  BY <1>1, TestGoalIsInt DEF TestRound
<1>5. goalReg' \in Int  BY <1>1, <1>2, <1>4, CommandType DEF TestRound
<1>6. /\ tested' \in [moves : 0 .. 2, from : Int]
      /\ pc' \in {"test", "run"} /\ (pc' = "test" => tested'.moves # 2)
  BY <1>3 DEF TestRound, At
<1> QED  BY <1>1, <1>2, <1>5, <1>6 DEF TestRound, LoopInv, TypeOK, TestIsOn, setup, source

\* A cycle in which the source was asked.
LEMMA AskedType ==
  ASSUME TypeOK, angle' \in Reached, Read, Plans
  PROVE  /\ Target \in Int /\ goal' \in Int
         /\ index' \in 1 .. Len(Waypoints) /\ waited' \in 0 .. Dwell \cup {None}
         /\ jogAt' \in Int \cup {None}
         /\ Apart(goal', Present') <= AtLeast(Step, BrakeMin)
BY PassType, ClampsType, AsksType DEF Plans

\* The cycle in which the source ends.
LEMMA EndedType ==
  ASSUME TypeOK, angle' \in Reached, Read, Ends, Clamps(LastTarget)
  PROVE  /\ goal' \in Int
         /\ index' \in 1 .. Len(Waypoints) /\ waited' \in 0 .. Dwell \cup {None}
         /\ jogAt' \in Int \cup {None}
         /\ Apart(goal', Present') <= AtLeast(Step, BrakeMin)
<1>1. /\ LastTarget \in Int
      /\ index' \in 1 .. Len(Waypoints) /\ waited' \in 0 .. Dwell \cup {None}
      /\ jogAt' \in Int \cup {None}
  BY PassType, EndsType
<1> QED  BY <1>1, PassType, ClampsType

\* A whole cycle keeps the types.
LEMMA GoodCycleType == ASSUME LoopInv, GoodCycle PROVE LoopInv'
<1>1. TypeOK  BY DEF LoopInv
<1>2. /\ angle' \in Int
      /\ last' \in Int /\ turn' \in Int /\ home' \in Int /\ readAt' \in Int
      /\ jumped' \in BOOLEAN /\ Present' \in Int
      /\ Low \in Int /\ High \in Int /\ Low <= High
  BY <1>1, PassType DEF GoodCycle
<1>3. /\ Plans
      /\ soft' = (soft /\ Apart(Target, Present') >= Arrival)
      /\ arrived' = (arrived \/ Apart(Target, Present') < Arrival)
  BY DEF GoodCycle
<1>4. /\ goal' \in Int
      /\ index' \in 1 .. Len(Waypoints) /\ waited' \in 0 .. Dwell \cup {None}
      /\ jogAt' \in Int \cup {None}
  BY <1>1, <1>3, AskedType DEF GoodCycle
<1>5. goalReg' \in Int  BY <1>1, <1>2, <1>4, CommandType DEF GoodCycle
<1>6. pc' = "run"  BY DEF GoodCycle, At
<1>7. soft' \in BOOLEAN /\ arrived' \in BOOLEAN  BY <1>3
<1> QED
  BY <1>1, <1>2, <1>4, <1>5, <1>6, <1>7 DEF GoodCycle, LoopInv, TypeOK, TestIsOn, setup

\* A cycle whose goal was lost, and one that trips, keep the types.
LEMMA UnsentOrTripsType == ASSUME LoopInv, UnsentCycle \/ Trips PROVE LoopInv'
<1>1. TypeOK  BY DEF LoopInv
<1>2. /\ angle' \in Int
      /\ last' \in Int /\ turn' \in Int /\ home' \in Int /\ readAt' \in Int
      /\ jumped' \in BOOLEAN /\ Present' \in Int
      /\ Low \in Int /\ High \in Int /\ Low <= High
  BY <1>1, PassType DEF UnsentCycle, Trips
<1>3. Plans  BY DEF UnsentCycle, Trips
<1>4. /\ goal' \in Int
      /\ index' \in 1 .. Len(Waypoints) /\ waited' \in 0 .. Dwell \cup {None}
      /\ jogAt' \in Int \cup {None}
  BY <1>1, <1>3, AskedType DEF UnsentCycle, Trips
<1>5. CASE UnsentCycle
  BY <1>1, <1>2, <1>4, <1>5 DEF UnsentCycle, At, LoopInv, TypeOK, TestIsOn, setup
<1>6. CASE Trips
  <2>1. goalReg' \in Int  BY <1>1, <1>2, <1>6, CommandType DEF Trips
  <2> QED  BY <1>1, <1>2, <1>4, <1>6, <2>1 DEF Trips, LoopInv, TypeOK, TestIsOn, setup
<1> QED  BY <1>5, <1>6

\* The end of a source keeps the types.
LEMMA CompleteType == ASSUME LoopInv, Complete PROVE LoopInv'
<1>1. TypeOK  BY DEF LoopInv
<1>2. /\ angle' \in Int
      /\ last' \in Int /\ turn' \in Int /\ home' \in Int /\ readAt' \in Int
      /\ jumped' \in BOOLEAN /\ Present' \in Int
      /\ Low \in Int /\ High \in Int /\ Low <= High
  BY <1>1, PassType DEF Complete
<1>3. Ends /\ Clamps(LastTarget)  BY DEF Complete
<1>4. /\ goal' \in Int
      /\ index' \in 1 .. Len(Waypoints) /\ waited' \in 0 .. Dwell \cup {None}
      /\ jogAt' \in Int \cup {None}
  BY <1>1, <1>3, EndedType DEF Complete
<1>5. goalReg' \in Int
  <2>1. Command(Present') \/ LastCommand(goal')  BY DEF Complete
  <2> QED  BY <1>1, <1>2, <1>4, <2>1, CommandType
<1>6. pc' \in {"last prompt", "done", "aborted"}  BY DEF Complete
<1> QED  BY <1>1, <1>2, <1>4, <1>5, <1>6 DEF Complete, LoopInv, TypeOK, TestIsOn, setup

\* A cycle without a question, waiting, recovering and aborting keep the types.
LEMMA OtherType ==
  ASSUME LoopInv, UnreadCycle \/ Aborts \/ Waits \/ Recovers \/ UNCHANGED vars
  PROVE  LoopInv'
<1>1. TypeOK  BY DEF LoopInv
<1>2. CASE UnreadCycle
  <2>1. angle' \in Int /\ waited' \in 0 .. Dwell \cup {None}
    BY <1>1, <1>2, ReachedIsBetween, OlderType DEF UnreadCycle, NotAsked
  <2>2. /\ turn' \in Int /\ jumped' \in BOOLEAN
        /\ last' \in Int \cup {None} /\ home' \in Int \cup {None} /\ readAt' \in Int \cup {None}
    BY <1>1, <1>2, PassType, UnreadType DEF UnreadCycle
  <2> QED  BY <1>1, <1>2, <2>1, <2>2 DEF UnreadCycle, NotAsked, LoopInv, TypeOK, TestIsOn, setup
<1>3. CASE Aborts
  <2>1. goalReg' \in Int  BY <1>1, <1>3, Typed, RawIsInt DEF Aborts, Frozen
  <2> QED
    BY <1>1, <1>3, <2>1 DEF Aborts, LoopInv, TypeOK, TestIsOn, setup, joint, source, history
<1>4. CASE Waits
  <2>1. angle' \in Int /\ waited' \in 0 .. Dwell \cup {None}
    BY <1>1, <1>4, ReachedIsBetween, OlderType DEF Waits, TypeOK
  <2>2. /\ turn' \in Int /\ jumped' \in BOOLEAN
        /\ last' \in Int \cup {None} /\ home' \in Int \cup {None} /\ readAt' \in Int \cup {None}
    BY <1>1, <1>4, PassType, UnreadType DEF Waits
  <2> QED  BY <1>1, <1>4, <2>1, <2>2 DEF Waits, At, LoopInv, TypeOK, TestIsOn, setup
<1>5. CASE Recovers
  <2>1. angle' \in Int  BY <1>1, <1>5, Typed DEF Recovers
  <2>2. /\ last' \in Int /\ turn' \in Int /\ home' \in Int /\ readAt' \in Int /\ jumped' \in BOOLEAN
    BY <1>1, <1>5, <2>1, ReadType DEF Recovers
  <2>3. goalReg' \in Int  BY <1>1, <1>5, Typed, RawIsInt DEF Recovers, Frozen
  <2>4. pc' \in {"run", "done"}  BY <1>5 DEF Recovers
  <2> QED
    BY <1>1, <1>5, <2>1, <2>2, <2>3, <2>4 DEF Recovers, LoopInv, TypeOK, TestIsOn, setup, source
<1>6. CASE UNCHANGED vars
  BY <1>1, <1>6 DEF vars, LoopInv, TypeOK, TestIsOn, setup, joint, source, history
<1> QED  BY <1>2, <1>3, <1>4, <1>5, <1>6

\* Every step keeps the types.
LEMMA LoopInvStep == LoopInv /\ [Next]_vars => LoopInv'
BY BeginType, TestRoundType, GoodCycleType, UnsentOrTripsType, CompleteType, OtherType DEF Next, Lost

\* A program starts with them.
LEMMA LoopInvInit == Init => LoopInv
<1> SUFFICES ASSUME Init PROVE LoopInv  OBVIOUS
<1>1. angle \in Int /\ multi \in BOOLEAN /\ shift \in Int
  BY CableAssumption, LoopAssumption DEF Init, Cable
<1>2. PICK a \in Cable : goalReg = Raw(a)  BY DEF Init
<1>3. goalReg \in Int
  <2>1. a \in Int  BY CableAssumption DEF Cable
  <2>2. shift * Rev \in Int /\ a % Rev \in Int  BY <1>1, <2>1, RevAssumption
  <2> QED  BY <1>2, <2>1, <2>2 DEF Raw
<1>4. shift \in Shifts  BY LoopAssumption DEF Init
<1>5. index \in 1 .. Len(Waypoints)  BY LoopAssumption DEF Init
<1>6. tested \in [moves : 0 .. 2, from : Int]  BY DEF Init
<1>7. turn \in Int /\ waited \in 0 .. Dwell \cup {None}  BY DEF Init
<1>8. /\ pc \in {"start", "test", "run", "prompt", "last prompt", "done", "aborted"}
      /\ program \in {"init", "waypoints", "rounds", "jog"}
      /\ soft \in BOOLEAN /\ jumped \in BOOLEAN /\ arrived \in BOOLEAN
  BY DEF Init
<1>9. \A n \in {last, home, goal, jogAt, readAt} : n \in Int \cup {None}  BY DEF Init
<1>10. TypeOK  BY <1>1, <1>3, <1>4, <1>5, <1>6, <1>7, <1>8, <1>9 DEF TypeOK
<1> QED  BY <1>10 DEF Init, LoopInv, TestIsOn

\* Every variable of the programs keeps its type (control.py, _run).
THEOREM TypeCorrect == Spec => []TypeOK
<1>1. LoopInv => TypeOK  BY DEF LoopInv
<1> QED  BY <1>1, LoopInvInit, LoopInvStep, PTL DEF Spec

----------------------------------------------------------------------------
(* Soft starts.                                                            *)

\* While a program drives and was nowhere it was asked to be, it drives softly.
SoftUntilArrived == (pc \in {"start", "test", "run"} /\ ~arrived) => soft

SoftInv == LoopInv /\ SoftUntilArrived

\* Every step keeps the soft start as long as it is needed.
LEMMA SoftInvStep == SoftInv /\ [Next]_vars => SoftInv'
<1> SUFFICES ASSUME SoftInv, [Next]_vars PROVE SoftUntilArrived'
  BY LoopInvStep DEF SoftInv
<1>1. LoopInv /\ SoftUntilArrived  BY DEF SoftInv
<1>2. CASE Begin \/ TestRound \/ UnreadCycle \/ UnsentCycle
  BY <1>1, <1>2 DEF Begin, TestRound, UnreadCycle, UnsentCycle, At, SoftUntilArrived
<1>3. CASE GoodCycle
  <2>1. /\ Plans
        /\ soft' = (soft /\ Apart(Target, Present') >= Arrival)
        /\ arrived' = (arrived \/ Apart(Target, Present') < Arrival)
    BY <1>3 DEF GoodCycle
  <2>2. Target \in Int /\ Present' \in Int
    BY <1>1, <1>3, <2>1, AskedType, PassType DEF GoodCycle, LoopInv
  <2>3. Apart(Target, Present') \in Int  BY <2>2 DEF Apart
  <2>4. Arrival \in Int  BY LoopAssumption
  <2>5. ~(Apart(Target, Present') < Arrival) => Apart(Target, Present') >= Arrival  BY <2>3, <2>4
  <2>6. pc = "run"  BY <1>3 DEF GoodCycle, At
  <2> QED  BY <1>1, <2>1, <2>5, <2>6 DEF SoftUntilArrived
<1>4. CASE Trips \/ Complete \/ Aborts  BY <1>4 DEF Trips, Complete, Aborts, SoftUntilArrived
<1>5. CASE Waits  BY <1>5 DEF Waits, At, SoftUntilArrived
<1>6. CASE Recovers  BY <1>6 DEF Recovers, SoftUntilArrived
<1>7. CASE UNCHANGED vars  BY <1>1, <1>7 DEF vars, history, SoftUntilArrived
<1> QED  BY <1>2, <1>3, <1>4, <1>5, <1>6, <1>7 DEF Next, Lost

\* At the start and behind a trip the goal leads the joint by no more than the
\* soft step, or the least step of the brake zone, until the joint was once where
\* it is asked to be (ResumesSoftly; control.py:208, 235, 300).
THEOREM ResumesAreSoft == Spec => ResumesSoftly
<1>1. ASSUME SoftInv, ~arrived, GoodCycle \/ UnsentCycle \/ Trips \/ Complete
      PROVE  ~Hurries
  <2>1. TypeOK /\ angle' \in Reached /\ Read /\ pc = "run"
    BY <1>1 DEF GoodCycle, UnsentCycle, Trips, Complete, At, SoftInv, LoopInv
  <2>2. soft  BY <1>1, <2>1 DEF SoftInv, SoftUntilArrived
  <2>3. goal' \in Int /\ Apart(goal', Present') <= AtLeast(Step, BrakeMin)
    <3>1. CASE Complete
      <4>1. Ends /\ Clamps(LastTarget)  BY <3>1 DEF Complete
      <4> QED  BY <2>1, <4>1, EndedType
    <3>2. CASE GoodCycle \/ UnsentCycle \/ Trips
      <4>1. Plans  BY <3>2 DEF GoodCycle, UnsentCycle, Trips
      <4> QED  BY <2>1, <4>1, AskedType
    <3> QED  BY <1>1, <3>1, <3>2
  <2>4. Apart(goal', Present') <= AtLeast(SoftStep, BrakeMin)  BY <2>2, <2>3 DEF Step
  <2>5. Apart(goal', Present') \in Int /\ AtLeast(SoftStep, BrakeMin) \in Int
    BY <2>1, <2>3, PassType, LoopAssumption, BrakeAssumption DEF Apart, AtLeast
  <2> QED  BY <2>4, <2>5 DEF Hurries
<1>2. SoftInv =>
        [(~arrived /\ Hurries) => ~(GoodCycle \/ UnsentCycle \/ Trips \/ Complete)]_vars
  BY <1>1
<1>3. Init => SoftInv  BY LoopInvInit DEF SoftInv, SoftUntilArrived, Init
<1> QED  BY <1>2, <1>3, SoftInvStep, PTL DEF Spec, ResumesSoftly

----------------------------------------------------------------------------
(* The cable.                                                              *)

\* The cable range lies within one turn of the servo, as arm.yaml's does: a
\* servo that does not count turns would take the long way across the seam.
OneTurn == 0 <= HomeAbs - Range /\ HomeAbs + Range <= Rev - 1

\* How far the servo's register is from the true angle.
Off == IF multi THEN shift * Rev ELSE 0

\* As long as the joint never turned more than half a turn unread: it is in the
\* cable range and sent within it, no turn was counted, and the home is the
\* relaxed pose in the turn of the register.
CableInv ==
  jumped \/
    /\ angle \in Cable /\ goalReg - Off \in Cable
    /\ turn = 0
    /\ last = None => home = None
    /\ last # None => /\ home = HomeAbs + Off
                      /\ readAt \in Cable /\ last = readAt + Off

Inv == LoopInv /\ CableInv

\* The register is a whole number of ticks off.
LEMMA OffIsInt == TypeOK => Off \in Int
<1>1. TypeOK => shift * Rev \in Int  BY Typed, RevAssumption
<1> QED  BY <1>1 DEF Off

\* The places of the cable range are whole ticks.
LEMMA CableIsInt ==
  /\ HomeAbs \in Int /\ Range \in Nat
  /\ \A a : a \in Cable <=> a \in Int /\ HomeAbs - Range <= a /\ a <= HomeAbs + Range
BY CableAssumption DEF Cable

\* Within the cable range the register is the angle, up to whole turns.
LEMMA RawInCable ==
  ASSUME OneTurn, TypeOK, NEW a \in Cable
  PROVE  Raw(a) = a + Off
<1>1. a \in 0 .. Rev - 1  BY CableIsInt, RevAssumption DEF OneTurn
<1>2. a % Rev = a  BY <1>1, RevAssumption
<1> QED  BY <1>1, <1>2 DEF Raw, Off

\* A pass keeps the joint in the cable range.
LEMMA StaysInCable ==
  ASSUME OneTurn, TypeOK, angle \in Cable, goalReg - Off \in Cable, NEW a \in Reached
  PROVE  a \in Cable
<1>1. goalReg \in Int /\ Off \in Int /\ angle \in Int  BY Typed, OffIsInt
<1>2. ServoGoal = goalReg - Off  BY <1>1, RawInCable DEF ServoGoal
<1>3. a \in Int /\ AtMost(angle, ServoGoal) <= a /\ a <= AtLeast(angle, ServoGoal)
  BY ReachedIsBetween
<1> QED  BY <1>1, <1>2, <1>3, CableIsInt DEF AtMost, AtLeast

\* The home next to a reading that is less than half a turn from one.
LEMMA HomeTurns ==
  ASSUME NEW x \in Int, NEW h \in Int, NEW n \in Int, Apart(x - h, n * Rev) < HalfTurn
  PROVE  HomeOf(x, h) = h + n * Rev
<1>1. Rounded(x - h) = n  BY RoundedTurns
<1> QED  BY <1>1 DEF HomeOf

\* The first reading finds the home in the turn of the register.
LEMMA FirstHome ==
  ASSUME OneTurn, TypeOK, NEW a \in Cable
  PROVE  HomeOf(a + Off, HomeAbs) = HomeAbs + Off
<1>1. Off \in Int /\ a \in Int /\ HomeAbs \in Int  BY OffIsInt, CableIsInt
<1>2. PICK n \in Int : n * Rev = Off
  <2>1. CASE multi  BY <2>1, Typed DEF Off
  <2>2. CASE ~multi
    <3>1. 0 * Rev = Off  BY <2>2, RevAssumption DEF Off
    <3> QED  BY <3>1
  <2> QED  BY <2>1, <2>2
<1>3. Apart((a + Off) - HomeAbs, n * Rev) < HalfTurn
  BY <1>1, <1>2, CableIsInt, CableAssumption, HalfIsHalf DEF Apart
<1>4. a + Off \in Int  BY <1>1
<1>5. HomeOf(a + Off, HomeAbs) = HomeAbs + n * Rev  BY <1>1, <1>3, <1>4, HomeTurns
<1> QED  BY <1>2, <1>5

\* Two readings no more than half a turn apart count no turn.
LEMMA NoTurn ==
  ASSUME NEW p \in Int, NEW q \in Int, NEW o \in Int, ~(Apart(q, p) > HalfTurn)
  PROVE  TurnAfter(0, p + o, q + o) = 0
BY HalfIsHalf DEF TurnAfter, Apart

\* A reading within the cable range, not too far from the one before, counts no
\* turn.
LEMMA ReadInCable ==
  ASSUME OneTurn, Inv, angle' \in Cable, Read, ~jumped'
  PROVE  /\ turn' = 0 /\ home' = HomeAbs + Off
         /\ readAt' = angle' /\ last' = angle' + Off /\ Present' = angle' + Off
<1>1. TypeOK /\ ~jumped  BY DEF Inv, LoopInv, Read
<1>2. Off \in Int /\ angle' \in Int  BY <1>1, OffIsInt, CableIsInt
<1>3. readAt' = angle' /\ last' = angle' + Off  BY <1>1, RawInCable DEF Read
<1>4. turn = 0  BY <1>1 DEF Inv, CableInv
<1>5. turn' = 0
  <2>1. CASE last = None  BY <1>4, <2>1 DEF Read
  <2>2. CASE last # None
    <3>1. readAt \in Cable /\ last = readAt + Off  BY <1>1, <2>2 DEF Inv, CableInv
    <3>2. readAt \in Int /\ readAt # None  BY <3>1, CableIsInt, LoopAssumption
    <3>3. ~(Apart(angle', readAt) > HalfTurn)  BY <3>2 DEF Read
    <3>4. TurnAfter(0, readAt + Off, angle' + Off) = 0
      BY <1>2, <3>2, <3>3, NoTurn
    <3> QED  BY <1>3, <1>4, <2>2, <3>1, <3>4 DEF Read
  <2> QED  BY <2>1, <2>2
<1>6. Present' = angle' + Off  BY <1>2, <1>3, <1>5, RevAssumption DEF Present
<1>7. home' = HomeAbs + Off
  <2>1. CASE home = None  BY <1>1, <1>6, <2>1, FirstHome DEF Read
  <2>2. CASE home # None  BY <1>1, <2>2 DEF Read, Inv, CableInv
  <2> QED  BY <2>1, <2>2
<1> QED  BY <1>3, <1>5, <1>6, <1>7

\* From a place in the cable range a goal limited to it is sent within it.
LEMMA RawGoalInCable ==
  ASSUME OneTurn, NEW o \in Int, NEW a \in Cable, NEW x \in Int, NEW m \in BOOLEAN, ~m => o = 0
  PROVE  RawGoal(a + o, Limited(x, HomeAbs + o - Range, HomeAbs + o + Range), m) - o \in Cable
<1> DEFINE c == Limited(x, HomeAbs + o - Range, HomeAbs + o + Range)
           p == a + o
           g == RawGoal(p, c, TRUE)
<1>1. a \in Int /\ HomeAbs - Range <= a /\ a <= HomeAbs + Range  BY CableIsInt
<1>2. /\ HomeAbs + o - Range \in Int /\ HomeAbs + o + Range \in Int
      /\ HomeAbs + o - Range <= HomeAbs + o + Range
  BY CableIsInt
<1>3. c \in Int /\ HomeAbs + o - Range <= c /\ c <= HomeAbs + o + Range
  BY <1>2, LimitedFacts
<1>4. p \in Int /\ HomeAbs + o - Range <= p /\ p <= HomeAbs + o + Range
  BY <1>1, CableIsInt
<1> HIDE DEF p, c
<1>5. g = RawGoal(p, c, TRUE)  OBVIOUS
<1> HIDE DEF g
<1>6. /\ g \in Int /\ AtMost(p, c) <= g /\ g <= AtLeast(p, c)
      /\ RawGoal(p, c, FALSE) = g % Rev
  BY <1>3, <1>4, <1>5, RawGoalBetween
<1>7. g - o \in Int /\ HomeAbs - Range <= g - o /\ g - o <= HomeAbs + Range
  BY <1>3, <1>4, <1>6, CableIsInt DEF AtMost, AtLeast
<1>8. g - o \in Cable  BY <1>7, CableIsInt
<1>9. CASE m
  <2>1. RawGoal(p, c, m) = g  BY <1>5, <1>9
  <2> QED  BY <1>8, <2>1 DEF p, c
<1>10. CASE ~m
  <2>1. g \in 0 .. Rev - 1  BY <1>6, <1>7, <1>10, CableIsInt, RevAssumption DEF OneTurn
  <2>2. g % Rev = g  BY <2>1, RevAssumption
  <2>3. RawGoal(p, c, m) = g  BY <1>6, <1>10, <2>2
  <2> QED  BY <1>8, <2>3 DEF p, c
<1> QED  BY <1>9, <1>10

\* What is sent behind such a reading is within the cable range.
LEMMA SentInCable ==
  ASSUME OneTurn, Inv, angle' \in Cable, Read, ~jumped', NEW x \in Int
  PROVE  RawGoal(Present', ToCable(x), multi) - Off \in Cable
<1>1. TypeOK /\ Off \in Int /\ multi \in BOOLEAN  BY OffIsInt, Typed DEF Inv, LoopInv
<1>2. Present' = angle' + Off /\ home' = HomeAbs + Off  BY ReadInCable
<1>3. ToCable(x) = Limited(x, HomeAbs + Off - Range, HomeAbs + Off + Range)
  <2>1. Low = home' - Range /\ High = home' + Range  BY DEF Low, High
  <2>2. Low = HomeAbs + Off - Range /\ High = HomeAbs + Off + Range  BY <1>1, <1>2, <2>1, CableIsInt
  <2> QED  BY <2>2 DEF ToCable
<1>4. ~multi => Off = 0  BY DEF Off
<1> QED  BY <1>1, <1>2, <1>3, <1>4, RawGoalInCable

\* A command behind a reading keeps the joint's goal in the cable range.
LEMMA CommandsStay ==
  ASSUME OneTurn, Inv, ~jumped, angle' \in Cable, Read, ~jumped', NEW x \in Int,
         Command(x) \/ LastCommand(x)
  PROVE  goalReg' - Off \in Cable
<1> DEFINE g == RawGoal(Present', ToCable(x), multi)
<1>1. g - Off \in Cable  BY SentInCable
<1>2. goalReg - Off \in Cable  BY DEF Inv, CableInv
<1>3. last' - Off = angle'
  <2>1. Off \in Int /\ angle' \in Int  BY OffIsInt, CableIsInt DEF Inv, LoopInv
  <2>2. last' = angle' + Off  BY ReadInCable
  <2>3. \A a, o \in Int : (a + o) - o = a  OBVIOUS
  <2>4. (angle' + Off) - Off = angle'  BY <2>1, <2>3
  <2> QED  BY <2>2, <2>4
<1>4. goalReg' = g \/ goalReg' = goalReg \/ goalReg' = last'  BY DEF Command, LastCommand
<1> HIDE DEF g
<1> QED  BY <1>1, <1>2, <1>3, <1>4

\* A step that moves the joint and its goal within the cable range, with a
\* reading or without, keeps the invariant.
LEMMA StepInCable ==
  ASSUME OneTurn, Inv, ~jumped, UNCHANGED setup, Read \/ Unread, angle' \in Cable,
         ~jumped' => goalReg' - Off \in Cable
  PROVE  CableInv'
<1>1. Off' = Off  BY DEF Off, setup
<1>2. CASE jumped'  BY <1>2 DEF CableInv
<1>3. CASE ~jumped' /\ Unread
  BY <1>1, <1>3 DEF Inv, CableInv, Unread, joint, Cable
<1>4. CASE ~jumped' /\ Read
  <2>1. /\ turn' = 0 /\ home' = HomeAbs + Off
        /\ readAt' = angle' /\ last' = angle' + Off
    BY <1>4, ReadInCable
  <2>2. last' \in Int  BY <2>1, OffIsInt, CableIsInt DEF Inv, LoopInv
  <2>3. last' # None  BY <2>2, LoopAssumption
  <2> QED  BY <1>1, <1>4, <2>1, <2>3 DEF CableInv, Cable
<1> QED  BY <1>2, <1>3, <1>4

\* Every step keeps the joint and its goal in the cable range.
LEMMA CableStep == ASSUME OneTurn, Inv, [Next]_vars PROVE CableInv'
<1> USE DEF At
<1>1. TypeOK /\ LoopInv  BY DEF Inv, LoopInv
<1>2. ~jumped => angle \in Cable /\ goalReg - Off \in Cable  BY DEF Inv, CableInv
<1>3. ~jumped /\ angle' \in Reached => angle' \in Cable  BY <1>1, <1>2, StaysInCable
<1>4. CASE Begin \/ UnreadCycle \/ UnsentCycle \/ Waits
  <2>1. /\ ~jumped /\ angle' \in Reached /\ UNCHANGED setup /\ goalReg' = goalReg
        /\ Read \/ Unread
    BY <1>4 DEF Begin, UnreadCycle, UnsentCycle, Waits
  <2> QED  BY <1>2, <1>3, <2>1, StepInCable
<1>5. CASE TestRound
  <2>1. ~jumped /\ angle' \in Reached /\ UNCHANGED setup /\ Read /\ Command(TestGoal)
    BY <1>5 DEF TestRound
  <2>2. angle' \in Cable  BY <1>3, <2>1
  <2>3. TestGoal \in Int  BY <1>1, <2>1, TestGoalIsInt
  <2>4. ~jumped' => goalReg' - Off \in Cable  BY <2>1, <2>2, <2>3, CommandsStay
  <2> QED  BY <2>1, <2>2, <2>4, StepInCable
<1>6. CASE GoodCycle \/ Trips
  <2>1. /\ ~jumped /\ angle' \in Reached /\ UNCHANGED setup /\ Read
        /\ Command(goal') \/ LastCommand(goal') \/ Command(Present')
    BY <1>6 DEF GoodCycle, Trips
  <2>2. angle' \in Cable  BY <1>3, <2>1
  <2>3. Plans  BY <1>6 DEF GoodCycle, Trips
  <2>4. goal' \in Int /\ Present' \in Int  BY <1>1, <2>1, <2>3, AskedType, PassType
  <2>5. ~jumped' => goalReg' - Off \in Cable  BY <2>1, <2>2, <2>4, CommandsStay
  <2> QED  BY <2>1, <2>2, <2>5, StepInCable
<1>7. CASE Complete
  <2>1. /\ ~jumped /\ angle' \in Reached /\ UNCHANGED setup /\ Read
        /\ Command(Present') \/ LastCommand(goal')
    BY <1>7 DEF Complete
  <2>2. angle' \in Cable  BY <1>3, <2>1
  <2>3. Ends /\ Clamps(LastTarget)  BY <1>7 DEF Complete
  <2>4. goal' \in Int /\ Present' \in Int  BY <1>1, <2>1, <2>3, EndedType, PassType
  <2>5. ~jumped' => goalReg' - Off \in Cable  BY <2>1, <2>2, <2>4, CommandsStay
  <2> QED  BY <2>1, <2>2, <2>5, StepInCable
<1>8. ~jumped /\ Frozen => goalReg' - Off \in Cable
  <2> SUFFICES ASSUME ~jumped, Frozen PROVE goalReg' - Off \in Cable  OBVIOUS
  <2>1. Raw(angle) = angle + Off  BY <1>1, <1>2, RawInCable
  <2>2. Off \in Int /\ angle \in Int  BY <1>1, OffIsInt, Typed
  <2>3. Raw(angle) - Off = angle  BY <2>1, <2>2
  <2> QED  BY <1>2, <2>3 DEF Frozen
<1>9. CASE Aborts \/ Recovers
  <2>1. ~jumped /\ UNCHANGED setup /\ angle' = angle /\ (goalReg' = goalReg \/ Frozen)
    BY <1>9 DEF Aborts, Recovers
  <2>2. Read \/ Unread  BY <1>9 DEF Aborts, Recovers, Unread, history
  <2>3. goalReg' - Off \in Cable  BY <1>2, <1>8, <2>1
  <2> QED  BY <1>2, <2>1, <2>2, <2>3, StepInCable
<1>10. CASE UNCHANGED vars
  <2>1. Off' = Off  BY <1>10 DEF vars, setup, Off
  <2> QED  BY <1>10, <2>1 DEF vars, joint, history, Inv, CableInv, Cable
<1> QED
  BY <1>4, <1>5, <1>6, <1>7, <1>9, <1>10 DEF Next, Lost

\* A servo whose cable range lies within one of its turns is never turned out of
\* it, whatever is asked for, wherever the bus fails and however the program
\* ends, as long as it does not turn more than half a turn between two readings
\* (CableIsSafe; joints.py:115-119, 144-153, 166-181).
THEOREM CableStaysSafe == OneTurn => (Spec => []CableIsSafe)
<1> SUFFICES ASSUME OneTurn PROVE Spec => []CableIsSafe  OBVIOUS
<1>1. Init => Inv
  <2> SUFFICES ASSUME Init PROVE CableInv  BY LoopInvInit DEF Inv
  <2>1. TypeOK  BY LoopInvInit DEF LoopInv
  <2>2. PICK a \in Cable : goalReg = Raw(a)  BY DEF Init
  <2>3. goalReg - Off = a
    <3>1. goalReg = a + Off  BY <2>1, <2>2, RawInCable
    <3>2. a \in Int /\ Off \in Int  BY <2>1, CableIsInt, OffIsInt
    <3> QED  BY <3>1, <3>2
  <2> QED  BY <2>3 DEF Init, CableInv
<1>2. Inv /\ [Next]_vars => Inv'  BY LoopInvStep, CableStep DEF Inv
<1>3. Inv => CableIsSafe  BY DEF Inv, CableInv, CableIsSafe
<1> QED  BY <1>1, <1>2, <1>3, PTL DEF Spec

=============================================================================
