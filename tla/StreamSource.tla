---------------------------- MODULE StreamSource ----------------------------
(***************************************************************************)
(* The target buffer of sopod (sopo/runtime/sources.py, class              *)
(* StreamSource) under the way the daemon uses it: clients push partial    *)
(* actions, the 50 Hz loop asks get_action once per cycle while the arm is *)
(* in MOVE, and a watchdog turns silence into a hold.  A joint position is *)
(* an element of a small set; one Cycle of the loop is one unit of time.   *)
(***************************************************************************)
EXTENDS Integers, FiniteSets, Functions

CONSTANTS
  Joints,     \* joint names
  Positions,  \* positions a joint can be at, or be sent to
  Watchdog,   \* cycles without a push after which an action is too old
  None        \* Python's None

ASSUME WatchdogAssumption == Watchdog \in Nat
ASSUME NoneAssumption ==
  /\ None \notin Positions
  /\ \A S \in SUBSET Joints : None \notin [S -> Positions]

VARIABLES
  action,   \* _action: the last pushed action, or None
  sticky,   \* _sticky: the action is exempt from the watchdog
  age,      \* cycles since _last_push, counted up to Watchdog + 1
  stale,    \* stale: the last get_action answered with the hold
  hold,     \* _hold: the pinned position, or None
  targets,  \* _targets: the last target of each joint named so far
  present,  \* the measured position of every joint
  inMove,   \* the daemon is in MOVE: get_action runs every cycle
  command   \* what the last get_action returned, None before the first of a MOVE

srcVars == <<action, sticky, age, stale, hold, targets>>
vars == <<srcVars, present, inMove, command>>

Poses   == [Joints -> Positions]
Partial == UNION {[S -> Positions] : S \in SUBSET Joints}

TypeOK ==
  /\ action \in Partial \cup {None}
  /\ sticky \in BOOLEAN
  /\ age \in 0 .. Watchdog + 1
  /\ stale \in BOOLEAN
  /\ hold \in Poses \cup {None}
  /\ targets \in Partial
  /\ present \in Poses
  /\ inMove \in BOOLEAN
  /\ command \in Poses \cup {None}

----------------------------------------------------------------------------
(* The methods of StreamSource.                                            *)

NoTargets == [j \in {} |-> None]

Push(a, stick) ==
  /\ action' = a
  /\ sticky' = stick
  /\ age' = 0
  /\ UNCHANGED <<stale, hold, targets>>

\* clear() forgets the action and the per-joint targets, and nothing else.
Clear ==
  /\ action' = None
  /\ targets' = NoTargets
  /\ UNCHANGED <<sticky, age, stale, hold>>

TooOld == action = None \/ (~sticky /\ age > Watchdog)

\* mutant: an unnamed joint follows the measured position every cycle
MergeLive(now) ==
  [j \in Joints |-> IF j \in DOMAIN action THEN action[j] ELSE now[j]]

\* A joint the action does not name keeps its target; one never named is
\* pinned where it is now.
Merge(now) ==
  [j \in Joints |-> IF j \in DOMAIN action THEN action[j]
                    ELSE IF j \in DOMAIN targets THEN targets[j] ELSE now[j]]

\* A hold begins; one that goes on keeps what it pinned.
Pins == ~stale \/ hold = None

\* mutant: a hold forgets nothing of what was asked for before the silence
GetHoldKeeps(now) ==
  /\ hold' = IF Pins THEN now ELSE hold
  /\ stale' = TRUE
  /\ command' = hold'
  /\ UNCHANGED targets

GetHold(now) ==
  /\ hold' = IF Pins THEN now ELSE hold
  /\ targets' = IF Pins THEN NoTargets ELSE targets
  /\ stale' = TRUE
  /\ command' = hold'

GetTarget(now) ==
  /\ stale' = FALSE
  /\ hold' = None
  /\ targets' = Merge(now)
  /\ command' = targets'

\* mutant: an action past its watchdog is still followed
GetForever(now) == IF action = None THEN GetHold(now) ELSE GetTarget(now)

GetAction(now) ==
  IF TooOld THEN GetHold(now) ELSE GetTarget(now)

----------------------------------------------------------------------------
(* How the daemon drives it.                                               *)

Ages == age' = IF age > Watchdog THEN age ELSE age + 1

\* One pass of the loop in MOVE: measure, ask for the target, command it.
Cycle(now) ==
  /\ inMove
  /\ present' = now
  /\ GetAction(now)
  /\ Ages
  /\ UNCHANGED <<action, sticky, inMove>>

\* A pass outside MOVE (idle, guiding, reflex, stopped): the arm may be moved
\* by hand or sag, and get_action is not called.
Pass(now) ==
  /\ ~inMove
  /\ present' = now
  /\ Ages
  /\ UNCHANGED <<action, sticky, stale, hold, targets, inMove, command>>

\* A leased client's action, drained by the loop.
StreamPush(a) ==
  /\ Push(a, FALSE)
  /\ UNCHANGED <<present, inMove, command>>

\* goto, the standby pose of init and release(hold) push single-shot targets.
Goto(a) ==
  /\ inMove
  /\ Push(a, TRUE)
  /\ UNCHANGED <<present, inMove, command>>

\* acquire, or a revoked lease.
ClearStream ==
  /\ Clear
  /\ UNCHANGED <<present, inMove, command>>

\* A reflex, a stop or idle: get_action is no longer called.  With no lease
\* held the latch clears nothing.
Leave(cleared) ==
  /\ inMove
  /\ inMove' = FALSE
  /\ IF cleared THEN Clear ELSE UNCHANGED srcVars
  /\ UNCHANGED <<present, command>>

\* recover: stream.clear() and back to MOVE.
Recover ==
  /\ ~inMove
  /\ inMove' = TRUE
  /\ Clear
  /\ command' = None
  /\ UNCHANGED present

\* What is left of the stream when MOVE is entered with a target of its own.
Enter(a) ==
  /\ inMove' = TRUE
  /\ action' = a
  /\ targets' = NoTargets
  /\ sticky' = TRUE
  /\ age' = 0
  /\ command' = None
  /\ UNCHANGED <<stale, hold, present>>

\* move: stream.clear(), then the pose to move to, the present one unless a
\* joint is outside its limits, as a sticky target.
EnterMove(target) == ~inMove /\ Enter(target)

\* init, in MOVE or not: the same entry with the standby pose behind it,
\* or, when none is configured, with the present one.
InitPose(standby) == DOMAIN standby # {} /\ Enter(standby)

\* reset: a new StreamSource.
NewStream ==
  /\ action' = None
  /\ sticky' = FALSE
  /\ age' = Watchdog + 1
  /\ stale' = TRUE
  /\ hold' = None
  /\ targets' = NoTargets
  /\ inMove' = FALSE
  /\ command' = None
  /\ UNCHANGED present

Init ==
  /\ action = None
  /\ sticky = FALSE
  /\ age = Watchdog + 1
  /\ stale = TRUE
  /\ hold = None
  /\ targets = NoTargets
  /\ present \in Poses
  /\ inMove = FALSE
  /\ command = None

Loop == \E now \in Poses : Cycle(now) \/ Pass(now)

Next ==
  \/ Loop
  \/ \E a \in Partial : StreamPush(a) \/ Goto(a)
  \/ ClearStream
  \/ \E cleared \in BOOLEAN : Leave(cleared)
  \/ Recover
  \/ \E target \in Poses : EnterMove(target)
  \/ \E a \in Partial : InitPose(a)
  \/ NewStream

Spec == Init /\ [][Next]_vars

\* Only the daemon's own loop is owed progress: nobody owes it a push.
FairSpec == Spec /\ WF_vars(Loop)

----------------------------------------------------------------------------
(* Properties.                                                             *)

\* A target only changes because somebody asked: between two cycles of one
\* uninterrupted stretch of MOVE (no push, no clear in between: the action is
\* the same), the command for a joint does not follow the measured position,
\* whether the arm is streaming or holding.  This is the creeping-arm accident
\* the class comment describes (sources.py:172-174, 213-214).
NoCreep ==
  [][(inMove /\ inMove' /\ command # None /\ command' # None /\ command' # command
        /\ (stale' <=> stale) /\ action # None /\ action' = action)
       => \A j \in Joints :
            command'[j] # command[j] =>
              \/ j \in DOMAIN action /\ command'[j] = action[j]
              \/ j \notin DOMAIN targets]_vars

\* What the stream takes up, behind a hold or at the beginning of a MOVE
\* session, it takes up from where the arm is: a joint the action leaves out is
\* commanded to where it was just measured, never to a target it was given
\* before the silence or before the session (sources.py:203-205, 213-218).
ResumesFromPose ==
  [][(inMove /\ inMove' /\ (stale \/ command = None) /\ ~stale' /\ command' # None)
       => \A j \in Joints \ DOMAIN action : command'[j] = present'[j]]_vars

\* Silence ends in a hold: if from some point on the arm stays in MOVE on a
\* streamed action that nobody renews, the watchdog takes over for good
\* (sources.py:211-212).
SilenceIsHeld ==
  <>[](inMove /\ ~sticky /\ age > 0) => <>[]stale

\* What README.md:132 says of the watchdog: silence pins "the position of that
\* moment".  A hold with which a MOVE session begins is where the arm was just
\* measured, not what an earlier session left behind.
HoldIsFromThisSession ==
  [][(inMove /\ inMove' /\ command = None /\ command' # None /\ stale')
       => command' = present']_vars

=============================================================================
