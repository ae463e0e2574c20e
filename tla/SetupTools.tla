----------------------------- MODULE SetupTools -----------------------------
(***************************************************************************)
(* The setup and measuring tools (cookbook/) on the servo bus              *)
(* (sopo/hal/bus.py): programs that users start in several terminals, that *)
(* take the bus through a lock file, write the servos' registers one by    *)
(* one, and may meet a bus error, Ctrl+C or a kill between any two of them.*)
(* A program is the sequence of its bus operations; each of them carries   *)
(* what is left to do when it raises (the finally blocks around it).       *)
(***************************************************************************)
EXTENDS Integers, Sequences, SequencesExt, FiniteSets

CONSTANTS
  Servos,     \* the servos; the id of a new one is its own number
  Ids,        \* servo ids
  NewIds,     \* bound: those of them a motor is renamed to
  Arm,        \* the sequence of ids the arm configuration names
  Bounded,    \* ids of calibrated joints that do not turn on and on
  Terminals,  \* terminals in which a tool can run
  Speeds,     \* baud rates
  Speed,      \* the one of them the configuration names
  Starts,     \* bound: how many tools are started in all
  None

ASSUME NoneAssumption == None \notin Terminals
ASSUME IdsAssumption == Servos \cup NewIds \subseteq Ids /\ Arm \in Seq(Ids) /\ Arm # <<>>
ASSUME SpeedAssumption == Speed \in Speeds
ASSUME StartsAssumption == Starts \in Nat

VARIABLES
  servo,   \* the registers of each servo on the bus
  holder,  \* the terminal that holds the lock on the lock file, or None
  tool,    \* the tool that runs in each terminal, or Idle
  starts,  \* how many tools were started
  hurt     \* history: a tool was killed, the write of a Lock or a renaming
           \* raised, or a torque-off was reported as not verified

vars == <<servo, holder, tool, starts, hurt>>

\* Registers below address 40 only take a write while Lock is off; here the
\* overload protection (prot), Max_Torque_Limit (cap) and the position limits
\* are as they came or as they are wanted.
Eprom == {"id", "baud", "prot", "cap", "low", "high"}

Registers == [id : Ids, baud : Speeds, lock : BOOLEAN, torque : BOOLEAN,
              prot : BOOLEAN, cap : BOOLEAN, low : BOOLEAN, high : BOOLEAN]

TypeOK ==
  /\ DOMAIN servo \subseteq Servos
  /\ \A s \in DOMAIN servo : servo[s] \in Registers
  /\ holder \in Terminals \cup {None}
  /\ DOMAIN tool = Terminals
  /\ starts \in 0 .. Starts
  /\ hurt \in BOOLEAN

----------------------------------------------------------------------------
(* Programs.                                                               *)

Op(do, id, reg, val, fail) == [do |-> do, id |-> id, reg |-> reg, val |-> val, fail |-> fail]

Write(i, reg, val, fail) == Op("write", i, reg, val, fail)
Open(speed, fail)        == <<Op("open", None, None, speed, fail)>>
Step(do, fail)           == <<Op(do, None, None, None, fail)>>
Close                    == Step("close", <<>>)

Locks(i, on, fail)   == <<Write(i, "lock", on, fail)>>
Torque(i, on, fail)  == <<Write(i, "torque", on, fail)>> \o Locks(i, on, fail)
Each(ids, P(_))      == FlattenSeq([k \in DOMAIN ids |-> P(ids[k])])

\* mutant: the lock is not in a finally block
UnlockedUnguarded(i, regs, fail) ==
  Locks(i, FALSE, fail)
    \o [k \in DOMAIN regs |-> Write(i, regs[k], TRUE, fail)]
    \o Locks(i, TRUE, fail)

\* with bus.eprom_unlocked(i): Lock is set again when a write inside raises,
\* not when taking it off raised.
Unlocked(i, regs, fail) ==
  Locks(i, FALSE, fail)
    \o [k \in DOMAIN regs |-> Write(i, regs[k], TRUE, Locks(i, TRUE, fail) \o fail)]
    \o Locks(i, TRUE, fail)

\* apply_safety and enable_torque.
Safety(ids, fail) == Each(ids, LAMBDA i : Unlocked(i, <<"prot">>, fail))
Enable(ids, fail) == Each(ids, LAMBDA i : Torque(i, TRUE, fail))

\* mutant: torque comes on first
EnergizeFirst(ids, f, g) == Enable(ids, g) \o Safety(ids, f)

\* Every tool that moves the arm sets its motors' protection, then enables them.
Energize(ids, f, g) == Safety(ids, f) \o Enable(ids, g)

\* The finally of a tool that moves the arm.
Disable(ids) == Each(ids, LAMBDA i : Torque(i, FALSE, Close)) \o Close

\* mutant: only the loop is within the try
DemoLate(ids) ==
  Open(Speed, <<>>) \o Energize(ids, Close, Close) \o Step("work", Disable(ids))
    \o Each(ids, LAMBDA i : Unlocked(i, <<"cap">>, Disable(ids))) \o Disable(ids)

\* 310_torque_limits.py: everything behind connect is within the try.
Demo(ids) ==
  Open(Speed, <<>>) \o Energize(ids, Disable(ids), Disable(ids)) \o Step("work", Disable(ids))
    \o Each(ids, LAMBDA i : Unlocked(i, <<"cap">>, Disable(ids))) \o Disable(ids)

\* 130_move_position.py: the try begins behind enable_torque.
Move(ids) ==
  Open(Speed, <<>>) \o Energize(ids, <<>>, <<>>) \o Step("work", Disable(ids)) \o Disable(ids)

\* 400_verify_torque.py: the try begins before enable_torque.
Verify(ids) ==
  Open(Speed, <<>>) \o Energize(ids, <<>>, Disable(ids)) \o Step("work", Disable(ids)) \o Disable(ids)

\* 330_reflex_check.py, and 430_wobble_test.py alike: the arm goes limp by the
\* verified torque-off within disconnect.
Limp == Step("off", Close) \o Close
Check(ids) == Open(Speed, <<>>) \o Energize(ids, Limp, Limp) \o Step("work", Limp) \o Limp

\* How the tools begin that are used by hand, and leave it to the end of the
\* process to close the bus.
ByHand(ids) == Open(Speed, <<>>) \o Each(ids, LAMBDA i : Torque(i, FALSE, <<>>))

\* 300_gravity_load.py: the arm is placed by hand, held, measured and released;
\* one pose stands for all.
Measure(ids) ==
  ByHand(ids) \o Safety(ids, <<>>) \o Step("work", Disable(ids))
    \o Enable(ids, Disable(ids)) \o Step("work", Disable(ids)) \o Disable(ids)

\* 410_gravity_check.py --scale: the same without a try.
Scale(ids) ==
  ByHand(ids) \o Energize(ids, <<>>, <<>>) \o Step("work", <<>>)
    \o Each(ids, LAMBDA i : Torque(i, FALSE, <<>>)) \o Close

\* 200_find_limits.py --write-eprom.
FindLimits(ids) ==
  ByHand(ids) \o Step("work", Each(ids, LAMBDA i : Torque(i, FALSE, <<>>)))
    \o Each(ids, LAMBDA i : Torque(i, FALSE, <<>>))
    \o Each(ids, LAMBDA i : Unlocked(i, <<"low", "high">>, <<>>)) \o Close

\* 320_persist_caps.py up to the question, 121_setup_motor.py up to the scan.
Persist   == Open(Speed, <<>>) \o Step("plan", Close)
Setup(at) == Open(at, <<>>) \o Step("scan", Close)

\* The id is in force at once: the lock goes to the new one.
Rename(i, new) ==
  <<Write(i, "id", new, Close)>> \o Locks(new, TRUE, Close)

\* 120_set_motor_id.py.
SetId(i, new) ==
  Open(Speed, <<>>) \o <<Op("ping", i, None, TRUE, Close), Op("ping", new, None, FALSE, Close)>>
    \o Locks(i, FALSE, Close) \o Rename(i, new)
    \o <<Op("ping", new, None, TRUE, Close)>> \o Step("done", <<>>) \o Close

\* 121 behind the scan: the baud rate is in force at once as well, and the bus
\* is opened anew, lock and all.
SetUp(i, new, at, to) ==
  Locks(i, FALSE, Close)
    \o (IF at = to THEN <<>> ELSE <<Write(i, "baud", to, Close)>> \o Close \o Open(to, Close))
    \o (IF i = new THEN Locks(new, TRUE, Close) ELSE Rename(i, new))
    \o <<Op("ping", new, None, TRUE, Close)>> \o Step("done", <<>>) \o Close

TorqueOff == Open(Speed, <<>>) \o Step("off", Close) \o Close

----------------------------------------------------------------------------
(* One operation of the tool in terminal t.                                *)

\* No tool runs in the terminal.
Idle    == [name |-> "none", todo |-> <<>>, new |-> None, to |-> Speed, speed |-> Speed]
Free(t) == tool[t].name = "none"

Running(t) == tool[t].todo # <<>>
Now(t)     == Head(tool[t].todo)
Does(t, what) == Running(t) /\ Now(t).do = what

Goes(t, todo) == tool' = [tool EXCEPT ![t].todo = todo]
GoesOn(t)     == Goes(t, Tail(tool[t].todo))

\* The servos that hear what is sent to an id at the tool's baud rate.
Hear(t, i) == {s \in DOMAIN servo : servo[s].id = i /\ servo[s].baud = tool[t].speed}

Put(s, reg, val) ==
  IF reg \in Eprom /\ servo[s].lock THEN servo[s] ELSE [servo[s] EXCEPT ![reg] = val]

Put2(heard, reg, val) ==
  servo' = [s \in DOMAIN servo |-> IF s \in heard THEN Put(s, reg, val) ELSE servo[s]]

\* mutant: the lock file is not looked at
OpensAnyway(t) ==
  /\ Does(t, "open")
  /\ holder' = t
  /\ tool' = [tool EXCEPT ![t].todo = Tail(@), ![t].speed = Now(t).val]
  /\ UNCHANGED <<servo, starts, hurt>>

\* connect: the lock file, then the port.
Opens(t) ==
  /\ Does(t, "open")
  /\ holder = None
  /\ holder' = t
  /\ tool' = [tool EXCEPT ![t].todo = Tail(@), ![t].speed = Now(t).val]
  /\ UNCHANGED <<servo, starts, hurt>>

\* disconnect, in the middle of a program or at its end.
Closes(t) ==
  /\ Does(t, "close")
  /\ holder' = IF holder = t THEN None ELSE holder
  /\ GoesOn(t)
  /\ UNCHANGED <<servo, starts, hurt>>

Writes(t) ==
  /\ Does(t, "write")
  /\ Hear(t, Now(t).id) # {}
  /\ Put2(Hear(t, Now(t).id), Now(t).reg, Now(t).val)
  /\ GoesOn(t)
  /\ UNCHANGED <<holder, starts, hurt>>

\* A ping that finds what the program wants; a lost reply looks like no motor.
Pings(t) ==
  /\ Does(t, "ping")
  /\ ~Now(t).val \/ Hear(t, Now(t).id) # {}
  /\ GoesOn(t)
  /\ UNCHANGED <<servo, holder, starts, hurt>>

\* The user watches, or the motors move; or the program says that it is done.
Works(t) ==
  /\ Does(t, "work") \/ Does(t, "done")
  /\ GoesOn(t)
  /\ UNCHANGED <<servo, holder, starts, hurt>>

\* What 320 wants of a motor; the position limits of a continuous joint, and of
\* one that was not calibrated, are kept.
Wanted(i) == {"cap"} \cup IF i \in Bounded THEN {"low", "high"} ELSE {}

Differs(t, i, reg) == reg \in Wanted(i) /\ \E s \in Hear(t, i) : ~servo[s][reg]

Changes(t, i) ==
  (IF Differs(t, i, "cap") THEN Unlocked(i, <<"cap">>, Close) ELSE <<>>)
    \o (IF Differs(t, i, "low") \/ Differs(t, i, "high")
        THEN Unlocked(i, <<"low", "high">>, Close) ELSE <<>>)

\* 320 reads every motor and, unless the user says no, writes what differs.
Plans(t) ==
  /\ Does(t, "plan")
  /\ \A k \in DOMAIN Arm : Hear(t, Arm[k]) # {}
  /\ \/ Goes(t, Each(Arm, LAMBDA i : Changes(t, i)) \o Step("done", <<>>) \o Close)
     \/ Goes(t, Close)
  /\ UNCHANGED <<servo, holder, starts, hurt>>

\* 121 goes on with the only motor that answers at this baud rate.
Finds(t) ==
  /\ Does(t, "scan")
  /\ \E i \in {servo[s].id : s \in DOMAIN servo} :
       /\ Hear(t, i) # {}
       /\ Goes(t, IF i = tool[t].new /\ tool[t].speed = tool[t].to THEN Close
                  ELSE SetUp(i, tool[t].new, tool[t].speed, tool[t].to))
  /\ UNCHANGED <<servo, holder, starts, hurt>>

Arms(t) == {s \in DOMAIN servo : \E k \in DOMAIN Arm : s \in Hear(t, Arm[k])}

\* torque_off_verified never raises: what it could not verify it reports.
TurnsOff(t) ==
  /\ Does(t, "off")
  /\ \E off, open \in SUBSET Arms(t) :
       /\ servo' = [s \in DOMAIN servo |->
                     [servo[s] EXCEPT !.torque = @ /\ s \notin off, !.lock = @ /\ s \notin open]]
       /\ hurt' = (hurt \/ off # Arms(t))
  /\ GoesOn(t)
  /\ UNCHANGED <<holder, starts>>

\* A refused lock, a lost packet, a lost reply, Ctrl+C: an operation that
\* raises may have been carried out.  A port that does not open leaves the lock
\* with the process.
Raises(t) ==
  /\ Running(t) /\ Now(t).do \notin {"close", "done", "off"}
  /\ Goes(t, Now(t).fail)
  /\ IF Does(t, "write") THEN Put2(Hear(t, Now(t).id), Now(t).reg, Now(t).val) \/ UNCHANGED servo
     ELSE UNCHANGED servo
  /\ holder' \in IF Does(t, "open") /\ holder = None THEN {None, t} ELSE {holder}
  /\ hurt' = (hurt \/ Now(t).reg = "lock" \/ tool[t].name \in {"set_id", "setup"})
  /\ UNCHANGED starts

Leaves(t) ==
  /\ tool' = [tool EXCEPT ![t] = Idle]
  /\ holder' = IF holder = t THEN None ELSE holder
  /\ UNCHANGED <<servo, starts>>

\* The program is over, its open files are closed with it.
Exits(t) == ~Free(t) /\ ~Running(t) /\ Leaves(t) /\ UNCHANGED hurt

\* kill -9, a closed terminal, a crash.
Killed(t) == Running(t) /\ Leaves(t) /\ hurt' = TRUE

\* A tool, the id it is about and the baud rate it is to set.
Run(t, name, todo, new, to) ==
  tool' = [tool EXCEPT ![t] = [name |-> name, todo |-> todo, new |-> new, to |-> to, speed |-> Speed]]

\* The motors a user names; bound: one of the arm.
Some == <<Head(Arm)>>

\* What a user may start.
Begins(t) ==
  /\ Free(t) /\ starts < Starts
  /\ starts' = starts + 1
  /\ \/ \E i \in Ids : Run(t, "demo", Demo(<<i>>), i, Speed)
     \/ \E todo \in {Move(Some), Verify(Some), Measure(Some), FindLimits(Some), Check(Arm), Scale(Arm), TorqueOff} :
          Run(t, "any", todo, None, Speed)
     \/ Run(t, "persist", Persist, None, Speed)
     \/ \E i \in Ids, new \in NewIds : i # new /\ Run(t, "set_id", SetId(i, new), new, Speed)
     \/ \E new \in NewIds, at, to \in Speeds : Run(t, "setup", Setup(at), new, to)
  /\ UNCHANGED <<servo, holder, hurt>>

New(s) == [id |-> s, baud |-> Speed, lock |-> TRUE, torque |-> FALSE,
           prot |-> FALSE, cap |-> FALSE, low |-> FALSE, high |-> FALSE]

Init ==
  /\ \E S \in SUBSET Servos : S # {} /\ servo = [s \in S |-> New(s)]
  /\ holder = None
  /\ tool = [t \in Terminals |-> Idle]
  /\ starts = 0
  /\ hurt = FALSE

Next == \E t \in Terminals :
  \/ Begins(t) \/ Opens(t) \/ Closes(t) \/ Writes(t) \/ Pings(t) \/ Works(t)
  \/ Plans(t) \/ Finds(t) \/ TurnsOff(t) \/ Raises(t) \/ Exits(t) \/ Killed(t)

Spec == Init /\ [][Next]_vars

----------------------------------------------------------------------------
(* Properties.                                                             *)

\* A motor is never powered without the overload protection of the limits,
\* whatever tool was interrupted where: limits.py:93-113 "before enabling
\* torque", a write that a locked motor ignores included.
ProtectedWhenOn == \A s \in DOMAIN servo : servo[s].torque => servo[s].prot

\* What a tool says when it is done is true: 320 leaves every motor of the arm
\* with its cap and with both limits if it has any, also when it repairs what an
\* interrupted run left half written, and 120 and 121 a motor with the new id, at the new baud
\* rate, and locked, also when somebody used the bus while 121 opened it anew.
SuccessMeansSet ==
  [][\A t \in Terminals : (Does(t, "done") /\ Works(t)) =>
       IF tool[t].name = "persist"
       THEN \A k \in DOMAIN Arm : \E s \in Hear(t, Arm[k]) : \A reg \in Wanted(Arm[k]) : servo[s][reg]
       ELSE \E s \in Hear(t, tool[t].new) : servo[s].baud = tool[t].to /\ servo[s].lock]_vars

\* A motor that is powered while no tool runs has its configuration locked,
\* unless a tool was killed, the lock itself could not be written, a renaming was
\* cut short (120 and 121 do not lock in a finally), or the user was told that
\* the torque is still on (bus.py:216-242, 89-116).
LeftLocked ==
  (~hurt /\ \A t \in Terminals : Free(t)) =>
    \A s \in DOMAIN servo : servo[s].torque => servo[s].lock

\* "Torque is turned off for certain before the program ends, even when there
\* is an exception" (310_torque_limits.py:33): the demo comes to its end with
\* torque on only when switching it off is what raised.  This is what the demo
\* says of itself; README.md:177-179 says of every script that it ends in a hold
\* unless it is given --release, which 310 and most of the tools here do not.
DemoEndsLimp ==
  [][\A t \in Terminals :
       (/\ tool[t].name = "demo" /\ Len(tool[t].todo) > 1 /\ Len(tool'[t].todo) = 1
        /\ ~(Raises(t) /\ Now(t).reg = "torque" /\ ~Now(t).val))
       => \A s \in Hear(t, tool[t].new) : ~servo'[s].torque]_vars

=============================================================================
