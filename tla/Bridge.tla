------------------------------- MODULE Bridge -------------------------------
(***************************************************************************)
(* The MoveIt endpoint (ros2/bridge.py, class Bridge) in front of sopod:   *)
(* the action server that runs one trajectory at a time under a lease of   *)
(* its own, the timer that keeps the last state of the arm, cancellation,  *)
(* a command channel that may not answer within 300 ms, and the end of the *)
(* process at any moment; beside it other clients of the daemon.           *)
(*                                                                         *)
(* A goal is a trajectory, and the client that execute() makes for it.     *)
(* Three threads serve the callbacks, so two goals interleave at every     *)
(* step but for the lock.  The mock mode, which has no daemon, is not      *)
(* modelled; positions, times and the plan itself are choices.             *)
(***************************************************************************)
EXTENDS CommandChannel

CONSTANTS
  Goals,    \* the trajectories asked for
  Others    \* the operator's command line and jog clients

ASSUME GoalsAssumption ==
  Clients = Goals \cup Others /\ Goals \cap Others = {}

VARIABLES
  pc,        \* where execute() of each goal is
  busy,      \* the lock: a goal was accepted and has not finished
  token,     \* client.lease of each goal is set
  saw,       \* saw_action: the stream was seen live
  late,      \* the first STATE_TIMEOUT of the trajectory is over
  cancel,    \* the goals whose cancellation is requested
  outcome,   \* what the action server reported
  unheard,   \* history: goals a reply was lost for
  followed,  \* history: running goals an action of which the arm followed
  entered,   \* history: running goals under whose lease MOVE was entered
  held       \* history: running goals whose final target was held

history    == <<followed, entered, held>>
goalVars   == <<busy, token, saw, late, cancel, outcome, unheard, history>>
bridgeVars == <<pc, goalVars>>
vars       == <<sopod, bridgeVars>>

Active == {"accepted", "acquiring", "confirming", "streaming", "holding", "closing",
           "releasing", "ending"}
Phases == Active \cup {"none", "rejected", "done"}

BridgeTypeOK ==
  /\ pc \in [Goals -> Phases]
  /\ busy \in BOOLEAN
  /\ token \subseteq Goals
  /\ saw \subseteq Goals
  /\ late \subseteq Goals
  /\ cancel \subseteq Goals
  /\ outcome \in [Goals -> {"none", "succeeded", "canceled", "aborted"}]
  /\ unheard \subseteq Goals
  /\ followed \subseteq Goals
  /\ entered \subseteq Goals
  /\ held \subseteq Goals

TypeOK == ChannelTypeOK /\ ArmTypeOK /\ BridgeTypeOK

Goto(c, phase) == pc' = [pc EXCEPT ![c] = phase]

\* What the daemon sees of a step that talks to it over the command socket.
ArmUntouched == UNCHANGED <<inFlight, arm, view>>

----------------------------------------------------------------------------
(* The action server                                                       *)

\* accept_goal: the lock, or a rejection.
AcceptGoal(g) ==
  /\ pc[g] = "none"
  /\ busy' = TRUE
  /\ Goto(g, IF busy THEN "rejected" ELSE "accepted")
  /\ UNCHANGED <<sopod, token, saw, late, cancel, outcome, unheard, history>>

\* The action client asks to cancel; every request is accepted.
RequestCancel(g) ==
  /\ pc[g] \in {"accepted", "acquiring", "confirming", "streaming"}
  /\ cancel' = cancel \cup {g}
  /\ UNCHANGED <<sopod, pc, busy, token, saw, late, outcome, unheard, history>>

Report(g, what) == outcome' = [outcome EXCEPT ![g] = what]

----------------------------------------------------------------------------
(* execute()                                                               *)

\* Every refusal and every exception but those of the socket ends here.  The age
\* of the last state is a choice, so every user of fresh_state may come here.
Fail(g) ==
  /\ pc[g] \in {"accepted", "confirming", "streaming"}
  /\ Report(g, "aborted")
  /\ Goto(g, "closing")
  /\ UNCHANGED <<sopod, busy, view, token, saw, late, cancel, unheard, history>>

\* The last state is fresh: the arm was put in MOVE by hand, without power mode,
\* and the plan fits.
AskForLease(g) ==
  /\ pc[g] = "accepted"
  /\ view \in InMove
  /\ ~view.entering
  /\ Call(g, "acquire")
  /\ Goto(g, "acquiring")
  /\ ArmUntouched
  /\ UNCHANGED goalVars

HearAcquire(g) ==
  /\ pc[g] = "acquiring"
  /\ Hear(g)
  /\ IF answer[g].ok
       THEN token' = token \cup {g} /\ Goto(g, "confirming") /\ UNCHANGED outcome
       ELSE Report(g, "aborted") /\ Goto(g, "closing") /\ UNCHANGED token
  /\ ArmUntouched
  /\ UNCHANGED <<busy, saw, late, cancel, unheard, history>>

\* 300 ms without a reply to acquire, or to the release that holds: an
\* exception.
MissReply(g) ==
  /\ pc[g] \in {"acquiring", "holding"}
  /\ TimeOut(g)
  /\ unheard' = unheard \cup {g}
  /\ Report(g, "aborted")
  /\ Goto(g, "closing")
  /\ ArmUntouched
  /\ UNCHANGED <<busy, token, saw, late, cancel, history>>

\* The loop that waits for a state with the lease, or for its deadline: the
\* first check of the trajectory tells the two apart.
Confirm(g) ==
  /\ pc[g] = "confirming"
  /\ view \in InMove
  /\ Goto(g, "streaming")
  /\ UNCHANGED <<sopod, goalVars>>

Cancel(g) ==
  /\ pc[g] = "streaming"
  /\ g \in cancel
  /\ Report(g, "canceled")
  /\ Goto(g, "closing")
  /\ UNCHANGED <<sopod, busy, view, token, saw, late, cancel, unheard, history>>

\* mutant: a request to cancel is looked at when the trajectory is over
PermittedOnceStarted(g) ==
  /\ view \in InMove
  /\ view.lease = g

\* The state an iteration of run_trajectory goes on with.
Permitted(g) ==
  /\ g \notin cancel
  /\ view \in InMove
  /\ view.lease = g

\* saw_action, and what it is for: after the first STATE_TIMEOUT, or once it
\* was seen live, the stream must not be stale.
LiveNow(g) == IF view.stale THEN saw ELSE saw \cup {g}
StreamIsLive(g) == view.stale => g \notin LiveNow(g) /\ g \notin late'

Iterate(g) ==
  /\ pc[g] = "streaming"
  /\ Permitted(g)
  /\ late' \in {late, late \cup {g}}
  /\ StreamIsLive(g)
  /\ saw' = LiveNow(g)
  /\ SendAction(g)
  /\ UNCHANGED <<pc, busy, token, cancel, outcome, unheard, history>>

\* The final target was kept for 0.2 s, which is later than STATE_TIMEOUT.
Settle(g) ==
  /\ pc[g] = "streaming"
  /\ Permitted(g)
  /\ late' = late \cup {g}
  /\ StreamIsLive(g)
  /\ saw' = LiveNow(g)
  /\ Call(g, "hold")
  /\ Goto(g, "holding")
  /\ ArmUntouched
  /\ UNCHANGED <<busy, token, cancel, outcome, unheard, history>>

\* mutant: the reply to the final release is not looked at
HearHoldAnyway(g) ==
  /\ pc[g] = "holding"
  /\ Hear(g)
  /\ token' = token \ {g}
  /\ Report(g, "succeeded")
  /\ Goto(g, "closing")
  /\ ArmUntouched
  /\ UNCHANGED <<busy, saw, late, cancel, unheard, history>>

HearHold(g) ==
  /\ pc[g] = "holding"
  /\ Hear(g)
  /\ IF answer[g].ok
       THEN token' = token \ {g} /\ Report(g, "succeeded")
       ELSE Report(g, "aborted") /\ UNCHANGED token
  /\ Goto(g, "closing")
  /\ ArmUntouched
  /\ UNCHANGED <<busy, saw, late, cancel, unheard, history>>

\* finally: the lease is returned if the client knows of one and its socket
\* still sends.
GiveBack(g) ==
  /\ pc[g] = "closing"
  /\ g \in token
  /\ Call(g, "release")
  /\ Goto(g, "releasing")
  /\ ArmUntouched
  /\ UNCHANGED goalVars

HearRelease(g) ==
  /\ pc[g] = "releasing"
  /\ Hear(g)
  /\ token' = IF answer[g].ok THEN token \ {g} ELSE token
  /\ Goto(g, "ending")
  /\ ArmUntouched
  /\ UNCHANGED <<busy, saw, late, cancel, outcome, unheard, history>>

\* "Lease release failed, waiting for sopod watchdog"
MissRelease(g) ==
  /\ pc[g] = "releasing"
  /\ TimeOut(g)
  /\ unheard' = unheard \cup {g}
  /\ Goto(g, "ending")
  /\ ArmUntouched
  /\ UNCHANGED <<busy, token, saw, late, cancel, outcome, history>>

\* mutant: a trajectory that fails does not return its lease
FinishAtOnce(g) ==
  /\ pc[g] \in {"closing", "ending"}
  /\ Close({g})
  /\ busy' = FALSE
  /\ Goto(g, "done")
  /\ token' = token \ {g}
  /\ saw' = saw \ {g}
  /\ late' = late \ {g}
  /\ cancel' = cancel \ {g}
  /\ Report(g, "none")
  /\ followed' = followed \ {g}
  /\ entered' = entered \ {g}
  /\ held' = held \ {g}
  /\ ArmUntouched
  /\ UNCHANGED unheard

\* The sockets are closed and the lock is free again.
Finish(g) ==
  /\ \/ pc[g] = "ending"
     \/ pc[g] = "closing" /\ (g \notin token \/ socket[g] = "broken")
  /\ Close({g})
  /\ busy' = FALSE
  /\ Goto(g, "done")
  /\ token' = token \ {g}
  /\ saw' = saw \ {g}
  /\ late' = late \ {g}
  /\ cancel' = cancel \ {g}
  /\ Report(g, "none")
  /\ followed' = followed \ {g}
  /\ entered' = entered \ {g}
  /\ held' = held \ {g}
  /\ ArmUntouched
  /\ UNCHANGED unheard

\* The bridge process ends without its finally blocks, and is started again.
Running == {g \in Goals : pc[g] \in Active}

Kill ==
  /\ Running # {}
  /\ Close(Running)
  /\ pc' = [g \in Goals |-> IF g \in Running THEN "done" ELSE pc[g]]
  /\ busy' = FALSE
  /\ view' = None
  /\ unheard' = unheard \cup Running
  /\ token' = {}
  /\ saw' = {}
  /\ late' = {}
  /\ cancel' = {}
  /\ outcome' = [g \in Goals |-> "none"]
  /\ followed' = {}
  /\ entered' = {}
  /\ held' = {}
  /\ UNCHANGED <<inFlight, arm>>

----------------------------------------------------------------------------
(* The other clients                                                       *)

\* What becomes of the goals under way when the daemon moves.  A goal is followed
\* when an action it streamed is in the stream; the target that its release
\* leaves to be held is not one of those.
Record ==
  /\ followed' = IF stream'.sticky THEN followed
                                   ELSE followed \cup ({stream'.by} \cap Running)
  /\ entered' = IF mode = "idle" /\ mode' = "move" THEN entered \cup ({lease} \cap Running)
                                                 ELSE entered
  /\ held' = IF stream'.sticky THEN held \cup ({stream'.by} \cap Running) ELSE held
  /\ UNCHANGED <<pc, busy, token, saw, late, cancel, outcome, unheard>>

\* A command of another client.  Its way through the channel is like that of the
\* bridge; what it asks for is done at some moment, whether it hears so or not.
OtherCommand(c) ==
  /\ \E cmd \in Commands \ {"hold"}, ok \in BOOLEAN : Handle([from |-> c, cmd |-> cmd], ok)
  /\ Record
  /\ UNCHANGED <<channel, cmdQ, inFlight, view>>

\* It streams when it likes, with a lease or without.
OtherDrives(c) == SendAction(c) /\ UNCHANGED bridgeVars

----------------------------------------------------------------------------

Init ==
  /\ ChannelInit
  /\ ArmInit
  /\ pc = [g \in Goals |-> "none"]
  /\ busy = FALSE
  /\ token = {}
  /\ saw = {}
  /\ late = {}
  /\ cancel = {}
  /\ outcome = [g \in Goals |-> "none"]
  /\ unheard = {}
  /\ followed = {}
  /\ entered = {}
  /\ held = {}

\* What execute() does by itself.
Step(g) ==
  \/ Fail(g)
  \/ AskForLease(g)
  \/ HearAcquire(g)
  \/ MissReply(g)
  \/ Confirm(g)
  \/ Cancel(g)
  \/ Iterate(g)
  \/ Settle(g)
  \/ HearHold(g)
  \/ GiveBack(g)
  \/ HearRelease(g)
  \/ MissRelease(g)
  \/ Finish(g)

Next ==
  \/ RepReceive /\ UNCHANGED bridgeVars
  \/ RepAnswer /\ UNCHANGED bridgeVars
  \/ RepBusy /\ UNCHANGED bridgeVars
  \/ DrainCommand /\ Record
  \/ Cycle /\ Record
  \/ Age /\ UNCHANGED bridgeVars
  \/ \E g \in Goals : AcceptGoal(g) \/ RequestCancel(g) \/ Step(g)
  \/ \E c \in Others : OtherCommand(c) \/ OtherDrives(c)
  \/ Kill

Spec == Init /\ [][Next]_vars

\* The threads of both processes keep running: execute() comes to its next
\* step, the loop turns, the reply thread serves, and time passes on a stream
\* whose client is gone.  Nobody has to ask for anything, and neither have
\* messages to arrive.
AgeAbandoned == Age /\ socket[stream.by] = "closed" /\ UNCHANGED bridgeVars

Fairness ==
  /\ \A g \in Goals : WF_vars(Step(g))
  /\ WF_vars((RepReceive \/ RepAnswer \/ RepBusy) /\ UNCHANGED bridgeVars)
  /\ WF_vars((DrainCommand \/ Cycle) /\ Record)
  /\ WF_vars(AgeAbandoned)

FairSpec == Spec /\ Fairness

----------------------------------------------------------------------------
(* Properties                                                              *)

\* A client that is answered is answered about the command it has just sent,
\* however late the loop is and whatever was answered "daemon busy" before: the
\* queue made per request (daemon.py 255) throws late replies away, and a socket
\* that timed out never asks again.
CallOf == [acquiring |-> "acquire", holding |-> "hold", releasing |-> "release"]

RepliesMatch ==
  /\ \A c \in Clients : answer[c] # None => answer[c].of.from = c
  /\ \A g \in Goals : answer[g] # None => answer[g].of.cmd = CallOf[pc[g]]

\* saw_action (bridge.py 148, 163) is evidence that the daemon followed this
\* trajectory and not what somebody streamed before, although the state it is
\* read from is a cycle old or older.  The one other way to it is that MOVE was
\* left and entered again under the lease, which pushes the present pose.
SawActionIsMine == saw \subseteq followed \cup entered

\* A goal is reported as reached only when its final target was kept in the
\* stream after its lease was given back, and before that release the arm had
\* followed its own actions and not only what others had left in the stream, or
\* MOVE was entered under its lease (bridge.py 164-207, daemon.py 697-712).
SuccessHolds ==
  \A g \in Goals : outcome[g] = "succeeded" => g \in held /\ g \in followed \cup entered

\* The final target that is held is replaced by a command or dropped with the
\* mode, never by an action that was still on its way when the lease was given
\* back (daemon.py 394-413, 709-711).
HoldSurvives ==
  [][stream.by # Nobody /\ stream.sticky /\ inFlight' # inFlight
       => stream' = stream \/ mode' # mode]_vars

\* A lease is left with the daemon only by a trajectory one of whose replies did
\* not come, or by the end of the process: every other way through execute()
\* returns it, whichever check fails and whatever the daemon answers (bridge.py
\* 128-137).
OrphanNeedsLoss ==
  \A g \in Goals : pc[g] = "done" /\ lease = g => g \in unheard

\* A trajectory that is asked to stop comes to its end, whatever the daemon does
\* and whether or not it answers, and the next one can be accepted (bridge.py
\* 152-154, 100, 137).
CancelEnds == cancel # {} ~> cancel = {}

\* The arm does not follow for ever what a trajectory streamed that is over, or
\* whose process is gone: the stream becomes stale, or is replaced, even if the
\* lease was never returned (sources.py 205-218).
Abandoned ==
  /\ \E g \in Goals : pc[g] = "done" /\ stream = [by |-> g, sticky |-> FALSE]
  /\ mode = "move"
  /\ ~stale

AbandonedStreamStops == Abandoned ~> ~Abandoned

Phase == CASE mode = "idle"   -> "off"
           [] mode = "move"   -> "driving"
           [] mode = "reflex" -> "latched"
           [] mode = "failed" -> "failed"

Session == INSTANCE ControlSession
  WITH phase <- Phase, holder <- lease, NameOf <- [c \in Clients |-> c],
       follows <- IF stream.sticky THEN Nobody ELSE stream.by

\* Whatever the bridge, its goals and the other clients do, in whatever order and
\* with whatever lost replies, the arm under them keeps the control session.
KeepsSession == [][Session!Next]_Session!session
=============================================================================
