# Verification of the sopo arm controller

TLA+ models of sopo, the control stack of a seven-joint arm on Feetech bus
servos, with TLC runs on small instances and TLAPS proofs for all instances.
Paths are relative to `src/`; `daemon.py` is `sopo/runtime/daemon.py`,
`reflex.py` is `sopo/safety/reflex.py`, `sources.py` is
`sopo/runtime/sources.py`.

## 1. Inventory

| Component | State | Operations | Talks to |
|---|---|---|---|
| **sopod** (`daemon.py`) | mode, lease, stream, entry in progress, saved speed, goal, settled, tare, reset_failed, comm_ok | 13 commands (`_handle`), the 50 Hz cycle (`_loop`), start and exit | clients over ZMQ (REP commands, SUB actions, PUB state); the bus; the detector; the stream buffer |
| **stream buffer** (`StreamSource`) | last action, sticky flag, time of push, stale flag, pinned hold, target of each joint | `push`, `clear`, `get_action` | called by the loop and by commands |
| **fault detector** (`reflex.py`) | its own mode, emitted trips, one timer set per motor, pair and residual timers, counters, last hold | `update` each cycle, `hold_targets`, `recover` | called by the loop, replaced or recovered by commands |
| **safety limits** (`sopo/safety/limits.py`) | none: register sequences | `apply_safety`, `freeze`, `persist`, `verify_eprom` | the bus |
| **servo bus** (`sopo/hal/bus.py`) | port, lock file, error flags; the EEPROM lock of each servo | acknowledged reads and writes, unacknowledged broadcasts, verified torque-off, `eprom_unlocked` | the servos, whose registers outlive every process |
| **joints** (`sopo/motion/joints.py`) | last reading, turn count and home of J1 | read, command, mirror goals | bus, both loops |
| **motion pipeline** (`control.py`, `daemon.py`) | soft start, last goal, correction, hotfix, settled | clamp, one cycle | stream buffer, joints, detector |
| **standalone loop** (`control.py`, `sources.py`, `examples/`) | place in the program, waypoint index and dwell, jog targets | `run_control_loop`, `prompt_recover`, `end_session`, waypoints, keys | joints, detector, bus; never with sopod |
| **client, CLI, bridge** (`client.py`, `cli.py`, `ros2/bridge.py`) | lease token, socket timeouts, busy flag | acquire, stream, release; a trajectory at a time | sopod |
| **self test** (`startup.py`) | none | moves one joint after the other | joints, bus |
| **estimator, payload** (`sopo/model`) | tare, residual filter | residual torques | sopod |
| **cookbook** | the servos' registers, EEPROM ones among them | setup, calibration and measuring tools, started in any terminal | bus, one holder of the lock file at a time |
| **description** | none | geometry, viewer | nothing that moves |

How they interact: one thread owns the daemon's state. It drains all commands,
then takes the last action message, reads the arm, commands it, and gives the
sample to the detector. A reply thread puts commands in a queue and waits for
the answers. Any bus operation may raise, and what it had written until then
stays in the servos.

What is hard, and what makes each part correct:

- *sopod*: a handler fails between two register writes; the process dies
  anywhere and the next adopts what it finds; latches (REFLEX, STOPPED, DAMPED,
  failed reset) must keep clients out until the explicit way back; an entry
  with joints outside their limits must not be disturbed, and must end.
- *lease*: one holder at a time, takeover only under the same name, and no
  action of a former holder in the stream, although tokens are lost with
  replies and messages are late.
- *stream buffer*: silence becomes a hold; a hold or an unnamed joint must not
  follow the measured position (that is an arm that creeps under load).
- *detector*: timers that live across cycles in which they are not judged; an
  episode's record that suppresses repeated events; recover, which must forget
  what latched and no more.
- *command channel, bridge*: time limits on both sides that do not cancel the
  work, leases whose owner is gone, decisions on states that are a cycle old or
  older, a target handed over with the lease.
- *motion pipeline*: rounding near limits must neither pass them nor stop
  short of a target; a hotfix offset, a partial action or a failed send must not
  make the arm jump; a soft start must end; settled must mean arrived.
- *joints*: a turn count that only reads may change, a goal register that does
  not fit the turn, a pair of motors that must never be told different angles.
- *standalone loop*: the goal register keeps what an earlier program sent, a
  trip and its recover may come anywhere in the source's timers, every way out
  leaves the servo with some last command.
- *cookbook*: each tool is a sequence of register writes that Ctrl+C, a kill or
  a bus error may end anywhere, and the next tool finds what it left, with the
  EEPROM lock of a servo open or closed.

`PROJECT.json` lists each hazard at its line with the properties that cover it.

## 2. Modules

| Module | Models | Runs | Proofs |
|---|---|---|---|
| `StreamSource` | the stream buffer as the daemon drives it | through `MotionTarget`; `MCStreamSource` | `MotionTargetProofs` |
| `JointTicks` | the tick arithmetic of clamp, pair, turn counter and self test | through the next two | `JointTicksProofs` |
| `MotionTarget` | sopod's cycle from the buffer to the goals: hotfix, soft start, clamp, settled | `MCMotionTarget` | `MotionTargetProofs` |
| `Daemon` | sopod and the servos' registers | `MCDaemon` | `DaemonProofs`, `DaemonSafetyProofs` |
| `ControlSession` | what sopod promises a client (abstract) | through `Daemon` | through `Daemon` |
| `Reflex` | the detector with its timers, and the daemon's cycles around it | `MCReflex` | `ReflexProofs` |
| `CommandChannel` | sockets, reply thread, queue, and the daemon as a client sees it | through `Bridge` | through `Bridge` |
| `Bridge` | the MoveIt endpoint over the channel, with other clients | `MCBridge` | `BridgeProofs` |
| `ControlLoop` | the programs without sopod, around one continuous joint | `MCControlLoop` | `ControlLoopProofs` |
| `SetupTools` | the cookbook's tools on the bus and its lock file | `MCSetupTools` | `SetupToolsProofs` |

`Daemon`, `StreamSource` with `MotionTarget`, and `Reflex` cut the daemon at its
function calls, each with the other side as a choice:

- In `Daemon` the stream is *who pushed its content* (a client, `goto`, the
  seed of a MOVE entry, the standby pose), because that is what a latch or a
  new lease must get right. `StreamSource` says what the content is. The
  detector is its mode and the count of failed cycles; whether it trips is a
  choice that `Reflex` makes precise.
- In `StreamSource`, `MotionTarget` and `Reflex` the daemon is in MOVE or not,
  and the commands are those that touch the buffer, the goals or the detector.

### Daemon

`pc` is the place in the loop: `commands` (any number of `_handle` calls, then
`DrainActions`), `sense` (the `try` block of `_loop`), `judge` (settled test,
auto-tare, detector and its consequences), `exit` (the `finally` of `start`) and
`down`. A command is one action, because nothing else runs while it does. Its
disjuncts are the prefixes of its bus operations: `EnterMoveRaises`,
`TorqueOff(verified)`, `RestoreSpeed(ok)`, `Freeze(held)` and `ApplySafety(done)`
say which registers each may leave behind. `en`, `cap`, `vel` and `goalReg`
are the servos' registers: `Crash`, `Exit` and `Start` leave or change them,
`Fresh` resets everything else. `TorqueTool` is the torque-off script, which
can only have the bus while sopod is down. The other tools are in `SetupTools`.

Loads, temperatures, positions and the payload are choices. A command that the
code refuses without touching anything is no step. `hotfix` and the soft start
are in `MotionTarget`; the backdrive of damped motors and the publishing of state
are left out. A broadcast may be lost where the code reads
back what it wrote (torque-off, entry speed) and where it does not matter who
notices (damping); elsewhere it reaches every motor or raises.

### ControlSession

Six phases (down, off, driving, latched, damped, failed), who holds the right
to stream and whose action is followed. The refinement mapping is `Phase`, the
lease, and the stream when its content is a client's. Every change of phase
except the start of a drive takes the right away; a newcomer takes over only
under the same name; nothing streamed before survives any of it.

### Reflex

Time is one unit per loop pass; a timer is its age, counted up to the window it
is compared with, which is the only thing the code asks of it. `update` runs on
the primed arm variables (the sample of this cycle): `JudgeStops`, then
`JudgeLatched`, then `ScanMotors` and the four checks in their order, where a
trip ends the scan (`Scanned`) and the checks behind it, so their timers only
age. `Pass` is a cycle in which the daemon does not call the detector. A recover or a MOVE entry
whose caps could not be written has changed the detector and not the mode (`Stays`),
and a reset that fails half way leaves a daemon (`"failed"`) that only another reset
gets going. `trips`
is what was emitted in the episode, since `_emit` passes over it afterwards.
The joint backoff (0 in `configs/arm.yaml`), warnings and per-joint limits are
left out; one pair and one joint's residual stand for those of the arm. History
variables (`driven`, `entry`, `apartRun`) are read by properties only.

### StreamSource

`get_action` is `GetHold` or `GetTarget`; `age` counts cycles since the push up
to the watchdog. A joint not named keeps its target, a joint never named is
pinned where it is. The buffer alone has one run, which refutes a sentence of the
README (below); the others are with the pipeline behind it.

### JointTicks and MotionTarget

`JointTicks` translates the arithmetic: `ClampGoal` is `clamp_joint_goals` of one
joint with its brake zone, `MirrorGoal` and `DualLo`/`DualHi` a pair and its
limits, `TurnAfter`, `HomeOf` and `RawGoal` the continuous joint, `TestTarget` the
self test's move. Python's `round` is `Rounded`, ties included.

`MotionTarget` extends `StreamSource` and puts a cycle behind it: `GoodCycle` is the
whole `try` block, `UnreadCycle` and `UnsentCycle` are the same with the bus
failing before or behind the plan, `CorrectionCycle` is `_check_entry`, and
`OtherCycle` the loop outside MOVE. The `settled` test behind the `try` block
belongs to each (`Judges`), since a failed cycle computes it from what it got to. Commands are
`Streams`, `GoesTo`, `EntersMove`, `Recovers`, `Resets`, `Leaves`, `Initialises`,
`SetsHotfix`. All joints share one pair of limits; the measured pose is a choice
in every cycle, so the arm may sag, be pushed, or not move at all.

### ControlLoop

`program` is which of `init.py`, `run_waypoints.py` (with `--loop` or not) and
`jog.py` runs. The joint is J1, for which all of `JointTicks` matters: `angle` is the
true angle, `Raw` what the servo reports, `goalReg` its goal register, which goes
on acting while nobody sends anything (`Waits`). Torque comes on without a new
goal in these programs (`Begin`), so the first movement may be towards what an
earlier one sent. A cycle is `GoodCycle`, `UnreadCycle`, `UnsentCycle`, `Trips` (the
detector latched: hold sent, user asked) or `Complete`, the one in which the source ends:
it is a whole cycle too, may fail behind the goal and may trip, and then the user is asked
once more (`"last prompt"`) before the loop returns. The detector is a choice here. `Aborts` is every way out with `end_session`, whose freeze may fail
(`Frozen`). `Asks` is `get_action` of the two sources. History (`jumped`, `readAt`,
`arrived`) is read by properties and by the bound `Lost`.

### SetupTools

A tool is the sequence of its bus operations (`todo`), each with what is left to
do when it raises (`fail`): the `finally` and `with` blocks around it. `Demo`,
`Persist`, `SetId`, ... are one definition per script; `Raises` takes the `fail`
branch, with the write carried out or not, `Killed` takes none. `Opens` is the lock
file. A servo ignores an EEPROM write while its Lock is on (`Put`), hears only its
own id at its own baud rate (`Hear`), and two servos may answer to one id. `hurt`
is history, for properties only. `Wanted` is what `320` writes: the cap of every motor, the
position limits only of those that are calibrated and not continuous (`Bounded`).

### CommandChannel

A REQ socket is open, waiting, broken (it timed out between a send and its
receive, and refuses to send) or closed. `RepReceive`, `RepAnswer` and `RepBusy`
are the reply thread, `DrainCommand` and `Cycle` the loop. `Post` puts a reply in
the queue made for its request, which nobody reads once the thread has answered
"daemon busy". Times are choices: a receive may time out when no answer is
there, and the thread may give up when the loop has not answered and the
requester (300 ms) has gone. An action message is on its way until a cycle takes
it as the last one; a message may be overtaken by a change of the lease. The
state message reaches the subscriber in its cycle or never.

The daemon is what a client can tell apart: off, MOVE, latched, or failed (behind a reset
that did not complete, after which only a reset is admitted: `Locked`); entry, lease,
whose stream and whether it is kept, its age, and `stale` of the last time it was
computed. `Bridge!KeepsSession` relates it to the same `ControlSession` that
`Daemon` implements. A refusal without effect stands for bounds and `comm_ok`.

### Bridge

`pc` of a goal is its place in `execute` and `run_trajectory`; `token` is
`client.lease`, `saw` is `saw_action`, `late` says that the first `STATE_TIMEOUT`
is over, `busy` is the lock. Each goal is its own client, since `execute` makes a
`SopoClient` and a holder name of its own. The plan, positions and the age of the
last state are choices, so every check may also fail (`Fail`). A request to
cancel that comes after the final hold was sent is not looked at by the code and
left out. Other clients act on the daemon through the same handlers, at any
moment. History variables (`unheard`, `followed`, `entered`, `held`) are read by
properties only; `followed` is written by what a cycle follows of the stream, never by the
release that hands the final target over.

`SawActionIsMine` has to allow `entered`: `run_trajectory` does not look at
`entering_range` again, and a lease taken in IDLE survives the entry into MOVE
(`daemon.py:720-725`). An operator who drops torque and enters MOVE between the
bridge's check and its lease thus makes it take the seed of the entry for its
own stream until its first action is followed.

## 3. Runs

Passing runs:

| Run | Instance | Shows |
|---|---|---|
| `motion_target` | 1 joint, limits 2 to 4 among positions 0 to 4, brake zone wider than the range, hotfix 0 or 1, watchdog 1, fairness | no cycle passes a limit or jumps; commands do not creep, what is taken up again starts from the measured pose, silence is held; settled means arrived; the soft start ends |
| `daemon_servos` | 2 motors, one damped by Stop and one released, 1 client, power mode, hold on exit | latches have no lease, the entry is exclusive, power cap only behind a tare, failed reset inert, damping only ends limp, torque comes on without a jump, MOVE starts from a fresh target |
| `daemon_session` | 3 processes, 2 of the same name, lost replies, 1 motor, release on exit, fairness | the holder's action only; `Daemon` implements `ControlSession`; a dead bus is latched; an entry ends |
| `reflex_collision` | 1 motor, 3 positions, all goals and loads, fairness | a blocked joint is found; recover grants a full window; no event on record while moving; daemon and detector agree |
| `reflex_limits` | 1 motor within, just outside and beyond its limits, pair sum and residual, fairness | a stray joint is found; a pair mismatch lasted its window |
| `bridge_operator` | 1 goal, an operator with every command and its own stream | `saw_action` and success mean what they say; a held target stays |
| `bridge_goals` | 2 goals, no operator, lost replies, the bridge killed, fairness | replies fit their calls; a lease stays behind only after a loss; the control session is kept; cancellation ends; an abandoned stream stops |
| `control_loop` | all four programs, a servo that counts turns or not, a turn of 8 ticks and a cable range of 7, a joint fast enough to outrun the turn counter, fairness | the cable is never overwound; start and recover are soft; waypoints within reach end |
| `setup_tools` | 3 tools started in 2 terminals, an arm of 2 motors of which 1 or 2 are there, one with position limits and one without, 3 ids, 2 baud rates | protection before power; what a tool reports as done is so; locks are put back; the demo ends limp, as it says of itself |

Bounds. Two motors are enough for `Daemon`: motors differ in their Stop class
only, and every partial failure is a subset of them. Three processes give the
three relations of two holders (same process, same name, other name).
`CommFailMax = 2` and `EntryTimeout = 1` make "not yet", "one short" and "now"
different states; all counters stop at the value they are compared with.
The windows of `Reflex` are two passes, the accel deferral one, and `Top` one
more than the longest, which separates a window that is too short from a full
one. Inputs are varied in groups (`Inputs`), each run with the groups its
properties are about and others that can cut its scan short; what two groups
share (the record of trips, the modes) is in every run. The proofs of
`ReflexProofs` cover all inputs and any number of motors together.

One joint is enough for `MotionTarget`: joints share only the soft start and
settled, which ask for all of them, and the proofs are for any set of joints. Its
five positions put a target at, inside and beyond each limit that is approached,
and a joint outside on one side. `ControlLoop` is limited to a cable range within
one turn, as `configs/arm.yaml` has it (home 2048, range 2000), and does not follow
a program further that lost count of the turns (`Lost`); its waypoints are at both
ends of the range with one in between that leaves the joint out. In `SetupTools`,
`Starts` lets a tool, the one that disturbs it and a repairing third meet;
a motor is renamed to ids of `NewIds`; the tools that take a list of motors take the
first (`Some`), since the demo is run on each; one pose stands for all that
`300` visits. Terminals are interchangeable (`SYMMETRY`; the run has no liveness).
Deadlock is allowed there because users may stop starting tools.
 In the bridge runs a goal runs once, so
two goals are a trajectory and its successor after whatever the first left
behind; goals and operator together are covered by the proofs. Requests need no
bound: a socket carries one at a time. No state constraint is used.

Fairness. `FairSpec` is weak fairness of the loop (`Loop`) and nothing else: the
thread goes on, since bus operations have time limits, but no client is owed a
message, and nothing is owed a crash, a restart or a recover. Because commands
are drained in a loop before the cycle, a daemon flooded with commands is
covered only as far as the loop gets its turn. `CommLossIsCaught` assumes that
`recover` is not repeated for ever: in STOPPED each one makes a new detector whose
count starts again (`daemon.py:746`).

The bridge's `Fairness` adds weak fairness of each `execute` (a thread that is not
blocked for longer than its socket's time limit), of the reply thread, and of
time passing on a stream whose client is gone. That a cycle changes something
in the end means that the bus answers, or the failures latch the arm, which is
`CommLossIsCaught` of `Daemon`. Messages, answers to a call, cancellations and
the operator are not owed.

`MotionFairSpec` and `ControlLoop`'s `FairSpec` (of the programs of waypoints; nothing is
owed to a jog) are weak fairness of a cycle that succeeds: the loop goes on and the bus does not fail in every cycle for ever (that
it does is again `CommLossIsCaught`). What else a liveness property needs is in its
premise: `SoftStartEnds` and `WaypointsEnd` assume that the arm follows its goals in
the end, that what is asked is within reach and that nobody stops it.

Runs that refute what a document or comment says (details under "findings" in
`PROJECT.json`):

| Run | The text | The code |
|---|---|---|
| `stream_stale_hold` | the watchdog pins the position of that moment | the hold of an earlier MOVE session is commanded |
| `daemon_unchecked_recover` | recover checks load and pose | not at the second try |
| `reflex_zero_window` | progress is no collision | position 0 is taken for none |

Further disagreements met while modelling, that have no run of their own (the
models follow the code in each):

- `README.md:177-178` says a fault freezes the goal and then stiffens; the two
  sends are separate, and the cap may be raised at the old goal (`daemon.py:377`).
- `README.md:105` says only joints outside their range return slowly; after an
  interrupted entry the slow speed stays in the servos (`daemon.py:506`).
- `reflex.py:215` says saturated for a full window; the window survives cycles in
  which the motor is not judged (`reflex.py:222`).
- `README.md:130` says torque only comes on by command; the exit freeze
  (`daemon.py:240`, `limits.py:173`) also energises motors that were off.
- `daemon.py:46` says MOVE has torque on; `recover` energises nothing
  (`daemon.py:736`), and an inherited hold may be partly energised.
- `daemon.py:43` says IDLE has torque off; `idle` ignores an unverified
  torque-off (`daemon.py:439-442`), and a failed `move` releases the motors it
  energised only if it had slowed a joint down (`daemon.py:511-514`).
- `daemon.py:48` and `docs/reflex-spec.md:17` say STOPPED is limp;
  `daemon.py:373` and `docs/reflex-spec.md:73` hold.
- `README.md:177` says a bus error ends in a hold; nothing counts the failures
  while no goal is known (`daemon.py:360`).
- `reflex.py:248-249` says a joint is watched only after it was within its
  limits; the arming of an earlier drive is kept (`daemon.py:497`).
- `docs/reflex-spec.md:43` says a residual must last `t_ext`; cycles without
  one leave the timer running (`reflex.py:293`).
- `reflex.py:354-355` says recover compares with the last hold; when the daemon
  latched before the detector, that is an earlier one (`daemon.py:375`).
- `bridge.py:134` leaves a failed release to sopod's watchdog; the watchdog frees
  no lease. When the answer to acquire takes more than 300 ms, the bridge knows no
  lease to release, and later trajectories are refused until torque is dropped, the
  arm reset or latched.
- `control.py:40` says the step shrinks near a limit; the least step of the brake
  zone (30, `limits.py:65-66`) is larger than that of the soft start (20), so that a
  soft start is faster there than elsewhere.
- A streamed target 40 ticks or more beyond a limit keeps the soft start for ever
  (`daemon.py:295`): no settled, no tare, no judgement of external force. An arm that is
  outside its limits, with a target outside, seems settled for the one cycle in which
  its soft start ends.
- When a cycle fails behind the reading of positions, settled is computed from the
  new pose and the old goal while the residual is of an earlier cycle
  (`daemon.py:337-363`): the automatic tare may take the residual of a moving arm.
- The limits are not looked at by `hotfix` in IDLE; the pipeline clamps what comes
  of it.
- `joints.py:120-122` says counting turns is harmless with a servo that counts
  them itself; a joint that turns more than half a turn between two readings is
  counted wrongly there too, and the next command may leave the cable range. A servo
  that does not count takes the long way round if the range crosses its seam, which
  it does not with `arm.yaml`.
- `examples/init.py:54`, `run_waypoints.py:57` and `jog.py:64` switch torque on
  without writing the measured pose as goal, which `daemon.py:434` does.
- `run_waypoints.py` does not shift the waypoints of a continuous joint into the turn
  of this session; `init.py:58-63` does.
- `sources.py:69`: the dwell goes on while the user is asked after a trip.
  `sources.py:74`: an unnamed joint follows its measured position, so it creeps.
  `startup.py:52` does the same with the joints that are not tested. The targets of
  `jog.py` survive a trip and its recover.
- `control.py:290` says "torque off" where `end_session` holds the pose; the hold at
  `control.py:294` and the temperatures at `control.py:274` are outside the `try`.
- `control.py:97` and `config.py:99` leave out the preload of a pair that
  `joints.py:87` adds (`MirrorViewIsClose` bounds what the detector sees of it).
- `limits.py:93-113` says protection before torque; a tool whose write a locked
  motor ignores has none, hence `eprom_unlocked` in each. `120` and `121` do not lock
  again in a `finally`, so an interrupted renaming leaves a servo open; `121` gives
  up the lock file in the middle when it opens the bus anew, and another tool may
  take it. A lost answer to a ping makes `120` and `121` miss a second motor with the
  same id. `320` run again repairs the values, not a lock left open at right values.
- `README.md:177-179` says that the end of a script, like every software fault, is a
  hold, and that torque goes off only by `idle`, `guiding`, `150` or `--release`. Only `140` and
  the three examples end that way (`end_session`). `130`, `200`, `300`, `310`, `330`, `340`, `400`,
  `410` and `430` switch their motors off at their end without being asked to, most of
  them in a `finally`, behind any exception; `310_torque_limits.py:33` promises exactly that
  of itself, which is what `DemoEndsLimp` checks.
- `130` and `410 --scale` set protection and torque outside a `try`: an interruption
  leaves the arm energised. `torque_off_verified` leaves every Lock open.
  `211 --center` interrupted leaves a servo in single-turn mode, which
  `verify_eprom` does not look at. `410` writes its zero ticks without `scale`.
- `bus.py:71`: a port that does not open leaves the lock file held until the
  process ends.

## 4. Proofs

All theorems are about arbitrary sets of motors, joints, clients and positions and
arbitrary limits, steps and bounds, under the named assumptions of the module they
are about. No assumption fixes a value: those of `MotionTarget` order the steps
(`SoftStep <= MaxStep`, `Arrival <= BrakeMin <= MaxStep`), those of `ControlLoop` keep the
cable range below half a turn.

- `DaemonProofs`: `TypeCorrect`, type correctness of `Daemon`, one lemma per
  group of actions. Each sequence of bus writes (`TorqueOff`, `Freeze`, ...) has
  its own lemma, cited by the actions that use it.
- `DaemonSafetyProofs`: the inductive invariant `Inv`. The properties are not
  inductive by themselves. A new process must start without lease and stream
  (`DownIsFresh`); a failed reset must be STOPPED with an empty stream
  (`FailedIsStopped`), or a command could revive it; a damping motor must be
  known to the daemon or be adopted by the next one (`DampingIsKnown`), or a
  step that energises could meet it. `Invariance` proves `Spec => []Inv`; the
  state properties follow from it, and the action properties `DampedStaysOff`,
  `DampedGoesLimpFirst`, `FailedResetStaysInert`, `SwitchedOnSafely` and
  `ResumesClean` from it and one case per action.
  `Refinement` is `Spec => KeepsSession`: under `Inv` each action is a step of
  `ControlSession` or leaves its variables unchanged.
- `ReflexProofs`: `TypeCorrect`; `Agree` (the record is empty and the modes fit) is
  inductive and gives `NothingOnRecord` and `MovingIsSupervised`. The windows
  need a relation of timers to history: after a recover every timer is younger
  than the drive (`RecoverFresh`), and while the detector judges, the pair's
  timer is younger than the unbroken mismatch, or that has lasted the whole
  drive (`PairFollows`); both survive the cycles in which a trip cuts the scan
  short. From them follow `RecoverStartsWindows` and `PairDwells`.
- `BridgeProofs`: `TypeCorrect`; `Owned` (a kept target has no lease beside it, a
  stream is the holder's, a latch has no lease) is inductive and gives
  `HeldTargetStays` and `SessionKept`, by way of `NextArm`, which reduces a step to
  what it does to the arm; `Matched` (the posted reply is for the request being
  served, a socket carries one request, and it is the one its goal's place in
  `execute` sends) is inductive and gives `RepliesFit`. The other three relate a
  goal to messages still on their way. `SuccessIsEarned` rests on `HeldIsKept`: a
  final release that was answered with ok, or is about to be, has put its target in the
  stream, for a goal whose own actions were followed or under whose lease MOVE was entered;
  that it was one of the two is carried from the state the goal saw (`SeenHolds`) to the
  release. `SightIsEvidence` rests on `Silent` (of a
  goal that has not asked yet nothing is with the daemon) and `Evidence` (what the
  stream holds under a running goal's lease was pushed by that goal or by an entry),
  so that the state it sees it from, however old, is of its own trajectory. `LeasesReturn`
  rests on `Returns`, for every goal that missed no reply: its request is queued at
  most once and is the one being served, an answer says truly who has the lease, and
  while the goal holds the lease it knows so or is about to be told.

- `JointTicksProofs`: the clamp never passes a limit and never goes further than its
  step (`ClampIsSafe`), takes a near target exactly (`NearGoalIsTarget`) and gets
  nearer to any other (`ClampGetsOn`); a goal within a pair's limits reaches both
  motors unclamped (`MirrorIsExact`); the counted angle follows the true one below half
  a turn a reading (`TurnCountIsRight`); a register goal lies between the joint and
  its target (`RawGoalBetween`); the self test stays within limits
  (`TestStaysInside`). The remainder and quotient facts they need are proved there
  from the definitions of `%` and `\div`.
- `MotionTargetProofs`: `TypeOK` and `CommandIsKept` (what was commanded last is the hold, or
  the targets of the joints) are inductive for every step the pipeline makes of the
  buffer (`Driven`, which adds to `Next` the cycle of a correction that does not ask
  it). They give `NothingCreeps`. `FreshStart` (a buffer that is
  stale, or from which nothing was commanded yet in this MOVE session, keeps no target) is inductive beside them and gives `ResumesWhereItIs`. `MotionTypeCorrect` and the lemmas of the
  clamp give `StepsAreSafe` and `SettledMeansArrived`.
- `ControlLoopProofs`: `TypeCorrect` needs `TestIsOn` (a self test that is on has a
  move left); `ResumesAreSoft` rests on `SoftUntilArrived`. `CableStaysSafe` needs more:
  as long as the joint never turned more than half a turn unread, no turn was ever
  counted, the home is the relaxed pose in the register's turn, and angle and goal
  register lie in the cable range (`CableInv`), so that wherever the servo stops on its
  way it is inside. It holds for ranges within one turn of the servo (`OneTurn`).

- `SetupToolsProofs`: for any servos, ids, arm, terminals and number of starts. A tool is
  a program that shrinks, and its properties are about what is still to come, so the
  invariants speak of every place of what is left to do (`Places`): `Base` says that each
  operation writes what its register can hold, that behind an error nothing is written but
  locks and torque off, and no lock is opened but of a motor just switched off (`Sound`), and that whoever is past `connect` has the
  bus (`Based`). Each property has its own invariant beside it:
  - `OnInv`: a place that powers a motor has its protection set, and its lock closed, by a
    place in front of it or by the servo already (`Guarded`); a write counts as set only
    behind an open lock. Gives `AlwaysProtected`.
  - `LockInv`: a motor is only unlocked when it is off or when a lock lies ahead on every
    way, those behind an error included except for a renaming, which sets `hurt` there
    (`Relocks`), and whatever is powered and
    unlocked has a program that will lock it (`Minded`), also one that renames it or
    moves it to another speed, where the lock is sent under the new id. It needs
    `OnInv`: a tool may not power a motor that another left unlocked. Gives
    `AlwaysLeftLocked`.
  - `DoneInv`: what is still missing when a tool says "done" is set before it comes there
    (`Truthful`). For `121` it is the ping as the last operation that makes this true,
    since the bus was open to others before. Gives `SuccessIsSet`.
  - `LimpInv`: between its `connect` and its end the demo has a torque-off ahead, on every
    way (`LimpAtEnd`). Gives `DemoIsLimp`.

  A program is `FlattenSeq` of one part per motor, so the lemmas about it need an
  induction over the arm. The library's induction theorems take an operator, which the
  provers cannot instantiate; `LeastOf` is the same principle as a statement about a set
  of numbers (from `WFMin` and `NatLessThanWellFounded`), and `Flattened` uses it to say
  that each place of a flattened list is a place of one of its parts. One lemma per
  script then says which parts it is made of. Each of the four invariants was first
  checked by TLC on the instance of `SetupTools.cfg` with two starts; the names of the
  servos are any, `None` is no terminal (`NoneAssumption`).

Model-checked only: the liveness properties (`SilenceIsHeld`, `SoftStartEnds`,
`WaypointsEnd`, `CommLossIsCaught`, `EntryEnds`, `BlockedIsCaught`, `StrayIsCaught`,
`CancelEnds`, `AbandonedStreamStops`), because the installed provers have no rule for
fairness and ENABLED. Every other property of a passing run is a theorem.

## 5. Plan

1. `Bridge` and `CommandChannel`: the holder whose messages are hidden by those of a
   client without a lease; the mock mode; refinement of the daemon's part by
   `Daemon`.
2. `ControlLoop` with a pair of mirrored motors beside J1, for the self test's checks of
   the others.
3. The cookbook tools that resemble a modelled one (`140`, `211`, `360`, `420`, `430`),
   when one of them changes.

## 6. Not modelled

Real-valued dynamics and estimation (`sopo/model`): only the flags that gate the
power cap and the class of the residual appear. The wire protocol, terminals,
YAML, logging, geometry and viewers carry no property about control. The
cookbook scripts that only read, plot or fit change no state of the arm; those that
resemble a modelled tool have no definition of their own. What the tools leave in a
servo is not carried over into `Daemon`, which writes its own protection and caps
before it energises. The self test's checks of load and position, and the caps it
sets meanwhile, are the choice of failing (`Aborts` of `ControlLoop`, `InitPose` of
`Daemon`); that it runs inside a command, during which neither watchdog nor detector
do (`daemon.py:785`), is no step of a model in which a command is one action. A crash
between slowing a joint down and restoring its speed (`daemon.py:506`) leaves the
register as `Daemon` says, but nothing in the code repairs it, so that there is
no property to state. Hardware below the registers (firmware protection, overload) is outside.
