------------------------------- MODULE Daemon -------------------------------
(***************************************************************************)
(* sopod, the lower controller of the arm (sopo/runtime/daemon.py, class   *)
(* Daemon): the 50 Hz loop, the command handlers it drains, the mode       *)
(* machine with its latched reflex, the control lease, the supervised      *)
(* entry into MOVE, the damped Stop, the failed reset, and what happens to *)
(* the servos when the process exits, is killed and is started again.      *)
(*                                                                         *)
(* One thread owns this state, so a handler is one step; what the outside  *)
(* can see half done is the servos' registers, because every bus operation *)
(* of a handler may raise.  The disjuncts of an action are the prefixes of *)
(* its bus operations.  A cycle is DrainActions ; Sense ; Judge, preceded  *)
(* by any number of commands.  The stream is who pushed its content        *)
(* (StreamSource.tla says what it is); the detector is the mode it is in;  *)
(* positions, loads and temperatures are choices.  A broadcast that nobody *)
(* acknowledges may be lost where the code reads back what it wrote;       *)
(* elsewhere it reaches every motor or raises.                             *)
(***************************************************************************)
EXTENDS Integers, FiniteSets

CONSTANTS
  Motors,         \* motor ids
  DampMotors,     \* motors the Stop command damps (the others it releases)
  Clients,        \* client processes
  NameOf,         \* the name each of them acquires the lease under
  NoClient,       \* no lease
  CommFailMax,    \* ReflexConfig.comm_fail_max
  EntryTimeout,   \* cycles of the entry deadline
  PowerMode,      \* estimator, floor and k are configured (power_ok but tare)
  ReleaseOnExit   \* the --release-on-exit option

Contents == {"empty", "seed", "goto", "standby"}
Caps     == {"soft", "power", "hold", "damp"}

ASSUME MotorsAssumption  == Motors # {} /\ DampMotors \subseteq Motors /\ DampMotors # {}
ASSUME ClientsAssumption == NoClient \notin Clients /\ Clients \cap Contents = {}
ASSUME BoundsAssumption  == CommFailMax \in Nat \ {0} /\ EntryTimeout \in Nat
ASSUME OptionsAssumption == PowerMode \in BOOLEAN /\ ReleaseOnExit \in BOOLEAN

VARIABLES
  pc,           \* "down", "commands", "sense", "judge" or "exit"
  running,      \* self.running: the loop goes on
  mode,         \* self.mode: ArmMode
  reflex,       \* self.reflex.mode
  commFails,    \* the detector's consecutive failed cycles
  lease,        \* the process whose token self.lease holds, or NoClient
  knows,        \* that process received the token (the reply may be lost)
  stream,       \* who pushed the stream's action: a client or a command
  entryTarget,  \* self.entry_target is not None
  entryAge,     \* cycles since entry_started, 0 outside an entry
  savedSpeed,   \* self.entry_speed_previous: "none" or the speed it recorded
  goalKnown,    \* self.goal is not empty
  settled,      \* self.settled
  tared,        \* self._tare_done
  resetFailed,  \* self.reset_failed
  commOk,       \* self.comm_ok
  tripped       \* history: the REFLEX in force was latched by a detector trip

\* The servos: they outlive the process.
VARIABLES
  en,           \* Torque_Enable of each motor: 0 off, 1 on, 2 damping
  cap,          \* Torque_Limit of each motor
  vel,          \* Goal_Velocity of the joints being corrected
  goalReg       \* Goal_Position: a measured pose ("held") or a "target"

leaseVars  == <<lease, knows>>
entryVars  == <<entryTarget, entryAge, savedSpeed>>
tareVars   == <<settled, tared>>
detector   == <<reflex, commFails>>
process    == <<running, mode, detector, leaseVars, stream, entryVars,
                goalKnown, tareVars, resetFailed, commOk, tripped>>
servos     == <<en, cap, vel, goalReg>>
vars       == <<pc, process, servos>>

Modes       == {"idle", "guiding", "damped", "move", "reflex", "stopped"}
ReflexModes == {"idle", "move", "reflex", "stopped"}

FlagsOK ==
  /\ running \in BOOLEAN
  /\ knows \in BOOLEAN
  /\ entryTarget \in BOOLEAN
  /\ goalKnown \in BOOLEAN
  /\ settled \in BOOLEAN
  /\ tared \in BOOLEAN
  /\ resetFailed \in BOOLEAN
  /\ commOk \in BOOLEAN
  /\ tripped \in BOOLEAN

ControlOK ==
  /\ pc \in {"down", "commands", "sense", "judge", "exit"}
  /\ mode \in Modes
  /\ reflex \in ReflexModes
  /\ commFails \in 0 .. CommFailMax
  /\ lease \in Clients \cup {NoClient}
  /\ stream \in Clients \cup Contents
  /\ entryAge \in 0 .. EntryTimeout
  /\ savedSpeed \in {"none", "normal", "slow"}

ServosOK ==
  /\ en \in [Motors -> 0 .. 2]
  /\ cap \in [Motors -> Caps]
  /\ vel \in {"normal", "slow"}
  /\ goalReg \in {"held", "target"}

TypeOK == FlagsOK /\ ControlOK /\ ServosOK

\* mutant: a REFLEX does not keep clients out
LatchedOnlyStopped == {"stopped"}

\* The modes only recover leads out of with torque on.
Latched == {"reflex", "stopped"}

----------------------------------------------------------------------------
(* Bus sequences, with the registers they may leave behind when they raise. *)

\* torque_off_verified: a broadcast nobody acknowledges, then a write and a
\* read-back per motor.  Unverified motors may be off or not.
TorqueOff(verified) ==
  \E off \in SUBSET Motors :
    /\ verified => off = Motors
    /\ en' = [m \in Motors |-> IF m \in off THEN 0 ELSE en[m]]

\* _restore_entry_speed: does nothing unless a speed is saved; raises when
\* the read-back differs.
RestoreSpeed(ok) ==
  \/ /\ savedSpeed = "none"
     /\ ok
     /\ UNCHANGED <<vel, savedSpeed>>
  \/ /\ savedSpeed # "none"
     /\ ok
     /\ vel' = savedSpeed
     /\ savedSpeed' = "none"
  \/ /\ savedSpeed # "none"
     /\ ~ok
     /\ vel' \in {vel, savedSpeed}
     /\ UNCHANGED savedSpeed

\* mutant: a freeze turns torque on before it sends the goal
FreezeTorqueFirst(held) ==
  /\ en' = [m \in Motors |-> 1]
  /\ goalReg' \in IF held THEN {"held"} ELSE {goalReg, "held"}
  /\ cap' = [m \in Motors |-> "hold"]

\* freeze: goal := present, then the hold cap, then torque on; held iff none
\* of them raised.
Freeze(held) ==
  \/ /\ held
     /\ goalReg' = "held"
     /\ cap' = [m \in Motors |-> "hold"]
     /\ en' = [m \in Motors |-> 1]
  \/ /\ ~held
     /\ goalReg' \in {goalReg, "held"}
     /\ \/ UNCHANGED cap
        \/ goalReg' = "held" /\ cap' = [m \in Motors |-> "hold"]
     /\ UNCHANGED en

\* mutant: the power cap without the tare interlock
MotionCapUntared == IF PowerMode THEN "power" ELSE "soft"

\* _motion_limits: the uniform power cap only behind the tare interlock.
MotionCap == IF PowerMode /\ tared THEN "power" ELSE "soft"

\* apply_safety, motor by motor; it raised unless all motors are done.
ApplySafety(done) == cap' = [m \in Motors |-> IF m \in done THEN MotionCap ELSE cap[m]]

----------------------------------------------------------------------------
(* Pieces shared by the handlers.                                          *)

NewReflex == reflex' = "idle" /\ commFails' = 0

\* mutant: the lease is revoked, what it streamed stays
RevokeKeepsStream == lease' = NoClient /\ knows' = FALSE /\ UNCHANGED stream

\* _revoke: the stream is dropped with the lease, and only with it.
Revoke ==
  /\ lease' = NoClient
  /\ knows' = FALSE
  /\ stream' = IF lease # NoClient THEN "empty" ELSE stream

RevokeAndClear ==
  /\ lease' = NoClient
  /\ knows' = FALSE
  /\ stream' = "empty"

\* entry_target = None.
NoEntry == entryTarget' = FALSE /\ entryAge' = 0

\* mutants: one of the two gates is missing
AdmittedAfterFailedReset == pc = "commands" /\ mode # "damped"
AdmittedWhileDamped == pc = "commands" /\ ~resetFailed

\* The commands behind the two gates at the head of _handle.
Admitted == pc = "commands" /\ ~resetFailed /\ mode # "damped"

----------------------------------------------------------------------------
(* _handle: the commands.                                                  *)

\* reset: everything is dropped first; IDLE only when torque off and the old
\* speed are verified, otherwise reset_failed stays and gates _handle.
Reset ==
  /\ pc = "commands"
  /\ lease' = NoClient
  /\ knows' = FALSE
  /\ stream' = "empty"
  /\ NoEntry
  /\ goalKnown' = FALSE
  /\ settled' = FALSE
  /\ tared' = FALSE
  /\ \/ /\ TorqueOff(TRUE)
        /\ RestoreSpeed(TRUE)
        /\ NewReflex
        /\ mode' = "idle"
        /\ resetFailed' = FALSE
     \/ /\ \/ TorqueOff(FALSE) /\ UNCHANGED <<vel, savedSpeed>>
           \/ TorqueOff(TRUE) /\ RestoreSpeed(FALSE)
        /\ mode' = "stopped"
        /\ resetFailed' = TRUE
        /\ UNCHANGED <<detector>>
  /\ tripped' = FALSE
  /\ UNCHANGED <<pc, running, commOk, cap, goalReg>>

\* stop: DAMPED is latched before anything is asked of the bus; the damping
\* caps and modes are broadcast, and may reach only some of the motors.
Stop ==
  /\ pc = "commands"
  /\ ~resetFailed
  /\ mode \in {"move", "reflex", "damped"}
  /\ mode' = "damped"
  /\ tripped' = FALSE
  /\ RevokeAndClear
  /\ NoEntry
  /\ goalKnown' = FALSE
  /\ \E capped \in SUBSET DampMotors, reached \in SUBSET Motors :
       /\ (\E m \in DampMotors : en[m] = 0) => capped = {} /\ reached = {}
       /\ cap' = [m \in Motors |-> IF m \in capped THEN "damp" ELSE cap[m]]
       /\ en' = [m \in Motors |-> IF m \notin reached THEN en[m]
                                  ELSE IF m \in DampMotors THEN 2 ELSE 0]
  /\ UNCHANGED <<pc, running, detector, savedSpeed, tareVars, resetFailed,
                 commOk, vel, goalReg>>

\* tare_ext.
TareExt ==
  /\ Admitted
  /\ mode = "move"
  /\ settled
  /\ tared' = TRUE
  /\ UNCHANGED <<pc, running, mode, detector, leaseVars, stream, entryVars,
                 goalKnown, settled, resetFailed, commOk, tripped, servos>>

\* mutant: any client takes the lease over
GrantableToAll(c) == c \in Clients

\* The lease is free, or held under the same name.
Grantable(c) == lease \in {NoClient} \cup {d \in Clients : NameOf[d] = NameOf[c]}

\* acquire: a holder of the same name is replaced (its token dies).
Acquire(c) ==
  /\ Admitted
  /\ ~entryTarget
  /\ mode \notin Latched
  /\ Grantable(c)
  /\ lease' = c
  /\ knows' \in BOOLEAN
  /\ stream' = "empty"
  /\ UNCHANGED <<pc, running, mode, detector, entryVars, goalKnown,
                 tareVars, resetFailed, commOk, tripped, servos>>

\* release, with a final target to hold (which the watchdog of the stream, not
\* modelled here, may refuse) or without.
Release(hold) ==
  /\ Admitted
  /\ lease # NoClient
  /\ knows
  /\ hold => mode = "move" /\ ~entryTarget /\ commOk
  /\ lease' = NoClient
  /\ knows' = FALSE
  /\ stream' = IF hold THEN "goto" ELSE "empty"
  /\ UNCHANGED <<pc, running, mode, detector, entryVars, goalKnown,
                 tareVars, resetFailed, commOk, tripped, servos>>

\* What _enter_move does to the detector before its first bus write.
FreshReflex ==
  IF reflex \in Latched THEN NewReflex ELSE UNCHANGED detector

\* _enter_move that succeeds; correcting: a joint starts outside its limits
\* and is brought back slowly.
EnterMoveDone(correcting) ==
  /\ FreshReflex
  /\ savedSpeed' = IF correcting THEN vel ELSE savedSpeed
  /\ vel' = IF correcting THEN "slow" ELSE vel
  /\ ApplySafety(Motors)
  /\ en' = [m \in Motors |-> 1]
  /\ entryTarget' = correcting
  /\ entryAge' = 0

\* _enter_move that raises after stream.clear(): it may have recorded the old
\* speed and slowed the joints down (slowed), capped some motors, seeded the
\* goal and energised some motors.  Its handler turns torque off again only
\* when a speed is recorded, and restores that speed only when the motors are
\* verified off.
EnterMoveRaises(correcting) ==
  \E recorded \in BOOLEAN, slowed \in BOOLEAN, capped, on \in SUBSET Motors :
    LET saved   == IF recorded THEN vel ELSE savedSpeed
        speed   == IF slowed THEN "slow" ELSE vel
        powered == [m \in Motors |-> IF m \in on THEN 1 ELSE en[m]]
        seed    == IF correcting THEN "target" ELSE "held"
    IN
    /\ recorded => correcting
    /\ slowed => recorded
    /\ (correcting /\ capped # {}) => slowed
    /\ on # {} => capped = Motors
    /\ FreshReflex
    /\ stream' = "empty"
    /\ ApplySafety(capped)
    /\ goalReg' \in (IF capped = Motors THEN {seed} ELSE {}) \cup
                    (IF on = {} THEN {goalReg} ELSE {})
    /\ \/ /\ saved = "none"
          /\ en' = powered
          /\ vel' = speed
          /\ savedSpeed' = saved
       \/ /\ saved # "none"
          /\ \E off \in SUBSET Motors :
               en' = [m \in Motors |-> IF m \in off THEN 0 ELSE powered[m]]
          /\ vel' = speed
          /\ savedSpeed' = saved
       \/ /\ saved # "none"
          /\ en' = [m \in Motors |-> 0]
          /\ \/ vel' = saved /\ savedSpeed' = "none"
             \/ vel' \in {speed, saved} /\ savedSpeed' = saved
    /\ UNCHANGED <<entryTarget, entryAge>>

\* move.
Move ==
  /\ Admitted
  /\ mode \in {"idle", "guiding"}
  /\ \E correcting \in BOOLEAN :
       \/ /\ EnterMoveDone(correcting)
          /\ stream' = "seed"
          /\ goalReg' = IF correcting THEN "target" ELSE "held"
          /\ mode' = "move"
       \/ /\ EnterMoveRaises(correcting)
          /\ UNCHANGED mode
  /\ UNCHANGED <<pc, running, leaseVars, goalKnown, tareVars, resetFailed, commOk, tripped>>

\* idle and guiding: torque off, verified or not; the old speed comes back.
DropTorque(to) ==
  /\ Admitted
  /\ TorqueOff(FALSE)
  /\ mode' = to
  /\ tripped' = FALSE
  /\ NoEntry
  /\ RevokeAndClear
  /\ \E ok \in BOOLEAN : RestoreSpeed(ok)
  /\ UNCHANGED <<pc, running, detector, goalKnown, tareVars, resetFailed,
                 commOk, cap, goalReg>>

\* mutant: recover leaves the stream as the latch found it
ResumeKeepsTarget == mode' = "move" /\ tripped' = FALSE /\ UNCHANGED stream

\* The last line of recover: a cleared stream is a hold at the present pose.
Resume == mode' = "move" /\ tripped' = FALSE /\ stream' = "empty"

\* recover: a tripped detector checks load and distance; any other latch gets
\* a new detector.  The caps go back motor by motor, and only then MOVE.
Recover ==
  /\ Admitted
  /\ savedSpeed = "none"
  /\ mode \in Latched
  /\ IF reflex = "reflex"
       THEN reflex' = "move" /\ UNCHANGED commFails
       ELSE NewReflex
  /\ \/ /\ ApplySafety(Motors)
        /\ Resume
     \/ /\ \E done \in SUBSET Motors : ApplySafety(done)
        /\ UNCHANGED <<stream, mode, tripped>>
  /\ UNCHANGED <<pc, running, leaseVars, entryVars, goalKnown, tareVars,
                 resetFailed, commOk, en, vel, goalReg>>

\* goto.
Goto ==
  /\ Admitted
  /\ lease = NoClient
  /\ ~entryTarget
  /\ mode = "move"
  /\ stream' = "goto"
  /\ UNCHANGED <<pc, running, mode, detector, leaseVars, entryVars, goalKnown,
                 tareVars, resetFailed, commOk, tripped, servos>>

\* init: entry without correction, the self test (which moves the joints), then
\* the standby pose; a failed self test latches REFLEX and freezes.
InitPose ==
  /\ Admitted
  /\ lease = NoClient
  /\ mode \notin Latched
  /\ ~entryTarget
  /\ \/ /\ EnterMoveRaises(FALSE)
        /\ UNCHANGED mode
     \/ /\ EnterMoveDone(FALSE)
        /\ goalReg' = "target"
        /\ mode' = "move"
        /\ stream' \in {"seed", "standby"}  \* "seed": a bus error in the self test
     \/ /\ FreshReflex                    \* the self test fails, the arm freezes
        /\ \/ goalReg' = "held" /\ cap' = [m \in Motors |-> "hold"]
           \/ goalReg' \in {"target", "held"} /\ ApplySafety(Motors)
        /\ en' = [m \in Motors |-> 1]
        /\ mode' = "reflex"
        /\ stream' = "seed"
        /\ NoEntry
        /\ UNCHANGED <<vel, savedSpeed>>
  /\ UNCHANGED <<pc, running, leaseVars, goalKnown, tareVars, resetFailed, commOk, tripped>>

\* shutdown: the cycle in progress is finished first.
Shutdown ==
  /\ pc = "commands"
  /\ running' = FALSE
  /\ UNCHANGED <<pc, mode, detector, leaseVars, stream, entryVars, goalKnown,
                 tareVars, resetFailed, commOk, tripped, servos>>

Command ==
  \/ Reset
  \/ Stop
  \/ TareExt
  \/ \E c \in Clients : Acquire(c)
  \/ \E hold \in BOOLEAN : Release(hold)
  \/ Move
  \/ \E to \in {"idle", "guiding"} : DropTorque(to)
  \/ Recover
  \/ Goto
  \/ InitPose
  \/ Shutdown

----------------------------------------------------------------------------
(* _loop: one cycle.                                                       *)

\* mutant: actions are taken while a joint is being corrected
TakesActionsAlways == lease # NoClient /\ knows

TakesActions == lease # NoClient /\ knows /\ ~entryTarget

\* _drain_actions: only the last message of the socket counts, and only under
\* the token of the lease; a joint being corrected is not given targets.
DrainActions ==
  /\ pc = "commands"
  /\ pc' = "sense"
  /\ \/ TakesActions /\ stream' = lease
     \/ UNCHANGED stream
  /\ UNCHANGED <<running, mode, detector, leaseVars, entryVars, goalKnown,
                 tareVars, resetFailed, commOk, tripped, servos>>

\* mutant: the age of the entry is not bounded
OlderUncapped == IF entryTarget THEN entryAge + 1 ELSE entryAge

\* One more cycle of the entry, counted up to its deadline.
Older == IF entryTarget /\ entryAge < EntryTimeout THEN entryAge + 1 ELSE entryAge

\* The read of the arm raises: nothing else of the try block happens.
SenseFails ==
  /\ pc = "sense"
  /\ pc' = "judge"
  /\ commOk' = FALSE
  /\ entryAge' = Older
  /\ UNCHANGED <<running, mode, detector, leaseVars, stream, entryTarget,
                 savedSpeed, goalKnown, tareVars, resetFailed, tripped, servos>>

\* Outside MOVE the goal follows the arm, except in REFLEX and DAMPED.
SenseAtRest ==
  /\ pc = "sense"
  /\ pc' = "judge"
  /\ mode # "move"
  /\ commOk' = TRUE
  /\ goalKnown' = (goalKnown \/ mode \notin {"reflex", "damped"})
  /\ UNCHANGED <<running, mode, detector, leaseVars, stream, entryVars,
                 tareVars, resetFailed, tripped, servos>>

\* get_action and command_joints; sending may raise.
SenseMove ==
  /\ pc = "sense"
  /\ pc' = "judge"
  /\ mode = "move"
  /\ ~entryTarget
  /\ goalKnown' = TRUE
  /\ \/ commOk' = TRUE /\ goalReg' = "target"
     \/ commOk' = FALSE /\ UNCHANGED goalReg
  /\ UNCHANGED <<running, mode, detector, leaseVars, stream, entryVars, tareVars,
                 resetFailed, tripped, en, cap, vel>>

\* _check_entry: the joints arrived within their limits and the old speed is
\* restored (which may raise, and counts as a failed cycle).
EntryArrives ==
  /\ pc = "sense"
  /\ pc' = "judge"
  /\ mode = "move"
  /\ entryTarget
  /\ goalKnown' = TRUE
  /\ \/ RestoreSpeed(TRUE) /\ NoEntry /\ commOk' = TRUE
     \/ RestoreSpeed(FALSE) /\ commOk' = FALSE /\ entryAge' = Older /\ UNCHANGED entryTarget
  /\ UNCHANGED <<running, mode, detector, leaseVars, stream, tareVars,
                 resetFailed, tripped, en, cap, goalReg>>

\* mutant: an entry has no deadline
NeverOverdue == FALSE

Overdue == entryAge = EntryTimeout

\* _check_entry: not there yet; past the deadline it latches REFLEX and freezes.
EntryWaits ==
  /\ pc = "sense"
  /\ pc' = "judge"
  /\ mode = "move"
  /\ entryTarget
  /\ goalKnown' = TRUE
  /\ commOk' = TRUE
  /\ \/ /\ ~Overdue
        /\ entryAge' = Older
        /\ UNCHANGED <<mode, entryTarget, leaseVars, stream, en, cap, goalReg>>
     \/ /\ Overdue
        /\ mode' = "reflex"
        /\ NoEntry
        /\ \E held \in BOOLEAN : Freeze(held)
        /\ Revoke
  /\ UNCHANGED <<running, detector, savedSpeed, tareVars, resetFailed, tripped, vel>>

Sense == SenseFails \/ SenseAtRest \/ SenseMove \/ EntryArrives \/ EntryWaits

\* The settled test (never during an entry: the soft start lasts through it),
\* and the auto-tare, skipped under load.
Settle ==
  /\ settled' \in IF mode = "move" /\ ~entryTarget /\ goalKnown THEN BOOLEAN ELSE {FALSE}
  /\ tared' \in {tared, tared \/ settled'}

NextPass == pc' = IF running THEN "commands" ELSE "exit"

\* The detector only runs in MOVE and REFLEX, and only once a goal is known.
Supervised == mode \in {"move", "reflex"} /\ goalKnown

\* mutant: consecutive failures are not added up
CountFailureStalls == IF commOk THEN 0 ELSE 1

CountFailure ==
  IF commOk THEN 0 ELSE IF commFails < CommFailMax THEN commFails + 1 ELSE CommFailMax

JudgeSkips ==
  /\ pc = "judge"
  /\ NextPass
  /\ ~Supervised
  /\ Settle
  /\ UNCHANGED <<running, mode, detector, leaseVars, stream, entryVars, goalKnown,
                 resetFailed, commOk, tripped, servos>>

JudgeQuiet ==
  /\ pc = "judge"
  /\ NextPass
  /\ Supervised
  /\ Settle
  /\ CountFailure < CommFailMax
  /\ commFails' = CountFailure
  /\ reflex' = IF reflex = "idle" THEN "move" ELSE reflex
  /\ reflex' = "reflex" => mode = "reflex"
  /\ UNCHANGED <<running, mode, leaseVars, stream, entryVars, goalKnown,
                 resetFailed, commOk, tripped, servos>>

\* A trip: hold where the arm is (the send may raise), then the hold cap (which
\* may raise too), then the lease.  A trip while already latched only latches
\* the detector.
JudgeTrips ==
  /\ pc = "judge"
  /\ NextPass
  /\ Supervised
  /\ Settle
  /\ CountFailure < CommFailMax
  /\ commFails' = CountFailure
  /\ reflex' = "reflex"
  /\ tripped' = TRUE
  /\ \/ /\ mode = "reflex"
        /\ UNCHANGED <<mode, leaseVars, stream, entryTarget, entryAge, cap, goalReg>>
     \/ /\ mode = "move"
        /\ mode' = "reflex"
        /\ NoEntry
        /\ goalReg' \in {goalReg, "held"}
        /\ cap' \in {cap, [m \in Motors |-> "hold"]}
        /\ Revoke
  /\ UNCHANGED <<running, savedSpeed, goalKnown, resetFailed, commOk, en, vel>>

\* COMM_LOSS after comm_fail_max cycles, or a confirmed OVERTEMP (its readings
\* need the bus): STOPPED, frozen as far as the bus lets it.
JudgeStops ==
  /\ pc = "judge"
  /\ NextPass
  /\ Supervised
  /\ Settle
  /\ CountFailure = CommFailMax \/ commOk
  /\ commFails' = CountFailure
  /\ reflex' = "stopped"
  /\ mode' = "stopped"
  /\ tripped' = FALSE
  /\ NoEntry
  /\ \E held \in BOOLEAN : Freeze(held)
  /\ Revoke
  /\ UNCHANGED <<running, savedSpeed, goalKnown, resetFailed, commOk, vel>>

Judge == JudgeSkips \/ JudgeQuiet \/ JudgeTrips \/ JudgeStops

Loop == DrainActions \/ Sense \/ Judge

----------------------------------------------------------------------------
(* The life of the process.                                                *)

\* What a new Daemon object starts from.
Fresh ==
  /\ running' = TRUE
  /\ reflex' = "idle"
  /\ commFails' = 0
  /\ lease' = NoClient
  /\ knows' = FALSE
  /\ stream' = "empty"
  /\ entryTarget' = FALSE
  /\ entryAge' = 0
  /\ savedSpeed' = "none"
  /\ goalKnown' = FALSE
  /\ settled' = FALSE
  /\ tared' = FALSE
  /\ resetFailed' = FALSE
  /\ commOk' = FALSE
  /\ tripped' = FALSE

\* mutant: damping found at start is adopted as a held arm
AdoptedAnyTorque == IF \E m \in Motors : en[m] # 0 THEN "reflex" ELSE "idle"

AdoptedMode ==
  IF \E m \in Motors : en[m] = 2 THEN "damped"
  ELSE IF \E m \in Motors : en[m] = 1 THEN "reflex" ELSE "idle"

\* start: no torque is touched; the mode is adopted from what is energised.
Start ==
  /\ pc = "down"
  /\ pc' = "commands"
  /\ mode' = AdoptedMode
  /\ Fresh
  /\ UNCHANGED servos

\* Ctrl-C, or an exception no handler catches (a non-integer action value in
\* _drain_actions, daemon.py:413), unwinds the loop into the exit path.
Interrupt ==
  /\ pc \in {"commands", "sense", "judge"}
  /\ pc' = "exit"
  /\ UNCHANGED <<process, servos>>

\* The finally clause of start: never energise after DAMPED or a failed reset,
\* torque off when nothing was held (or on request), otherwise hold.
Exit ==
  /\ pc = "exit"
  /\ pc' = "down"
  /\ mode' = "idle"
  /\ Fresh
  /\ \/ /\ resetFailed \/ mode = "damped"
        /\ UNCHANGED servos
     \/ /\ ~resetFailed
        /\ mode # "damped"
        /\ ReleaseOnExit \/ mode \in {"idle", "guiding"}
        /\ \/ TorqueOff(FALSE) /\ UNCHANGED vel
           \/ /\ TorqueOff(TRUE)
              /\ savedSpeed # "none"
              /\ vel' \in {vel, savedSpeed}
        /\ UNCHANGED <<cap, goalReg>>
     \/ /\ ~resetFailed
        /\ ~ReleaseOnExit
        /\ mode \notin {"damped", "idle", "guiding"}
        /\ \/ Freeze(FALSE) /\ UNCHANGED vel
           \/ /\ Freeze(TRUE)
              /\ vel' \in IF savedSpeed = "none" THEN {vel} ELSE {vel, savedSpeed}

\* The process is killed, at any point of the loop.
Crash ==
  /\ pc # "down"
  /\ pc' = "down"
  /\ mode' = "idle"
  /\ Fresh
  /\ UNCHANGED servos

\* While sopod is down a cookbook script may have the bus: 150_torque_off drops
\* torque, motor by motor.
TorqueTool ==
  /\ pc = "down"
  /\ TorqueOff(FALSE)
  /\ UNCHANGED <<pc, process, cap, vel, goalReg>>

Init ==
  /\ pc = "down"
  /\ mode = "idle"
  /\ running = TRUE
  /\ reflex = "idle"
  /\ commFails = 0
  /\ lease = NoClient
  /\ knows = FALSE
  /\ stream = "empty"
  /\ entryTarget = FALSE
  /\ entryAge = 0
  /\ savedSpeed = "none"
  /\ goalKnown = FALSE
  /\ settled = FALSE
  /\ tared = FALSE
  /\ resetFailed = FALSE
  /\ commOk = FALSE
  /\ tripped = FALSE
  /\ en = [m \in Motors |-> 0]
  /\ cap = [m \in Motors |-> "soft"]
  /\ vel = "normal"
  /\ goalReg = "held"

Next ==
  \/ Command
  \/ Loop
  \/ Start
  \/ Interrupt
  \/ Exit
  \/ Crash
  \/ TorqueTool

Spec == Init /\ [][Next]_vars

\* The loop thread keeps running once started: a cycle is bounded (every bus
\* operation times out).  Clients, crashes and restarts owe nothing.
FairSpec == Spec /\ WF_vars(Loop)

----------------------------------------------------------------------------
(* What must hold.                                                         *)

\* Nobody drives a latched arm: whatever happened, the lease is gone while the
\* arm is in REFLEX, STOPPED or DAMPED (daemon.py:132-133, README.md:131), so a
\* client has to notice, recover and acquire again.
LatchedHasNoLease == mode \in {"reflex", "stopped", "damped"} => lease = NoClient

\* The arm only follows an action of the client that holds the lease now: no
\* revocation, release, takeover or restart leaves the action of an earlier
\* holder in the stream (daemon.py:407, 596-600, 691).
StreamBelongsToLease == stream \in Clients => lease = stream

\* While a joint is brought back within its limits the arm is in MOVE, the speed
\* to restore is on record, and no client's action or goto target is in the
\* stream, whoever holds the lease (daemon.py:412, 516, 683, 751, 779).
EntryIsExclusive ==
  entryTarget => /\ mode = "move"
                 /\ savedSpeed # "none"
                 /\ stream \in {"seed", "empty"}

\* A reset that failed leaves the daemon inert: until a reset completes or the
\* process ends, no step resumes motion, grants the lease, fills the stream or
\* energises a motor (daemon.py:603-604, 657-658, 228-230).
FailedResetIsInert ==
  [][resetFailed =>
       /\ resetFailed' => mode' = "stopped"
       /\ lease' = NoClient
       /\ stream' = "empty"
       /\ \A m \in Motors : en[m] = 0 => en'[m] = 0]_vars

\* DAMPED is a latch: no motor that is off is energised by any step taken in
\* DAMPED, the exit of the process included (README.md:149, daemon.py:228-230).
DampedNeverReenergised ==
  [][mode = "damped" => \A m \in Motors : en[m] = 0 => en'[m] = 0]_vars

\* A damped motor goes limp before it can hold a position again, across every
\* crash, exit and restart of the daemon (README.md:149-152, daemon.py:205-207).
DampingOnlyEndsInOff ==
  [][\A m \in Motors : en[m] = 2 => en'[m] \in {0, 2}]_vars

\* A motor that is switched on does not jump: by the time it is energised, under
\* whatever failed before, its goal is a measured pose (or the slow correction of
\* an entry) and its cap is one of this session or the hold cap.  The self test of
\* init moves the joints in the same command (daemon.py:428-442, limits.py:164-174).
TorqueOnIsSafe ==
  [][\A m \in Motors :
       en[m] = 0 /\ en'[m] = 1 =>
         /\ cap'[m] \in {MotionCap, "hold"}
         /\ InitPose \/ goalReg' = "held" \/ vel' = "slow"]_vars

\* In MOVE no motor runs at the power cap unless this session has a tare: not
\* with caps an earlier process left, not after a reset (daemon.py:178-190).
PowerCapNeedsTare ==
  mode = "move" /\ (\E m \in Motors : cap[m] = "power") => tared

\* Entering MOVE, by any way, the arm has a fresh target or none: never a stream
\* or a goto from before the latch or the torque drop (daemon.py:499, 748).
ResumeDropsOldTarget ==
  [][mode # "move" /\ mode' = "move" => stream' \in {"empty", "seed", "standby"}]_vars

\* The loop is alive.
Up == pc \notin {"down", "exit"}

\* A bus that stays dead while the arm is driven or held is latched as STOPPED,
\* whatever the clients keep sending, except recover: each one starts the count
\* of failed cycles again (daemon.py:372-373, 746, reflex.py:150-158).
CommLossIsCaught ==
  <>[][~Recover]_vars => ~<>[](Up /\ mode \in {"move", "reflex"} /\ goalKnown /\ ~commOk)

\* The correction of a joint ends: it arrives, or the deadline, a trip, a dead
\* bus or a command ends it (daemon.py:530-548).
EntryEnds == (entryTarget /\ goalKnown) ~> (~entryTarget \/ ~Up)

\* Daemon implements ControlSession: the phases of the abstract session are
\* groups of modes, its holder is the lease, and the arm follows a client
\* exactly when the stream holds one's action.
Phase ==
  IF pc = "down" THEN "down"
  ELSE IF resetFailed THEN "failed"
  ELSE IF mode \in {"idle", "guiding"} THEN "off"
  ELSE IF mode = "move" THEN "driving"
  ELSE IF mode = "damped" THEN "damped" ELSE "latched"

Session == INSTANCE ControlSession
  WITH phase <- Phase, holder <- lease, Nobody <- NoClient,
       follows <- IF stream \in Clients THEN stream ELSE NoClient

\* Every behaviour of the daemon is one of the abstract session.
KeepsSession == Session!Spec

----------------------------------------------------------------------------
(* What the documentation says and the code does not do.                   *)

\* reflex.py:352-355: a tripped arm goes back to MOVE only if the loads and the
\* distances to the hold are checked.
RecoverChecksHold ==
  [][mode = "reflex" /\ tripped /\ mode' = "move" => reflex = "reflex"]_vars

=============================================================================
