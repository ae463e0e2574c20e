---------------------------- MODULE BridgeProofs ----------------------------
(***************************************************************************)
(* Theorems about Bridge.tla and the channel under it, for any number of   *)
(* trajectories and of other clients.                                      *)
(***************************************************************************)
EXTENDS Bridge, TLAPS

LEMMA GoalsAreClients == Goals \subseteq Clients /\ Others \subseteq Clients
BY GoalsAssumption

----------------------------------------------------------------------------
(* Types.                                                                  *)

\* What a command may change, and what a cycle may.
ArmOK ==
  /\ mode \in {"idle", "move", "reflex", "failed"}
  /\ entering \in BOOLEAN
  /\ lease \in Clients \cup {Nobody}
  /\ stream \in Contents
  /\ aged \in BOOLEAN
  /\ stale \in BOOLEAN

LEMMA ContentTypes ==
  /\ Empty \in Contents
  /\ Seed \in Contents
  /\ \A c \in Clients, s \in BOOLEAN : [by |-> c, sticky |-> s] \in Contents
BY DEF Empty, Seed, Contents

\* A command is refused, or goes to one of the handlers, which behind a reset that
\* failed is another reset.
LEMMA HandleCases ==
  ASSUME NEW m \in Requests, NEW ok \in BOOLEAN, Handle(m, ok)
  PROVE  \/ Refuse(ok) \/ HandleReset(ok)
         \/ /\ mode # "failed"
            /\ \/ HandleAcquire(m.from, ok) /\ m.cmd = "acquire"
               \/ HandleRelease(m.from, ok) \/ HandleHold(m.from, ok)
               \/ HandleMove(ok) \/ HandleIdle(ok) \/ HandleRecover(ok) \/ HandleGoto(ok)
<1>1. CASE Locked(m)  BY <1>1 DEF Handle
<1>2. CASE ~Locked(m)
  <2>1. Obey(m, ok) /\ m.cmd \in Commands  BY <1>2 DEF Handle, Requests
  <2> QED  BY <1>2, <2>1 DEF Obey, Commands, Locked
<1> QED  BY <1>1, <1>2

LEMMA HandleTypes ==
  ASSUME ArmOK, NEW m \in Requests, NEW ok \in BOOLEAN, Handle(m, ok)
  PROVE  ArmOK'
<1>0. m.from \in Clients /\ m.cmd \in Commands
  BY DEF Requests
<1>1. CASE HandleAcquire(m.from, ok)
  BY <1>0, <1>1, ContentTypes DEF HandleAcquire, Refuse, ArmOK, arm
<1>2. CASE HandleRelease(m.from, ok) \/ HandleHold(m.from, ok)
  BY <1>0, <1>2, ContentTypes DEF HandleRelease, HandleHold, Released, Refuse, ArmOK, arm
<1>3. CASE HandleMove(ok) /\ mode # "failed"
  BY <1>3, ContentTypes DEF HandleMove, Refuse, ArmOK, arm
<1>4. CASE HandleIdle(ok) \/ HandleRecover(ok) \/ HandleGoto(ok) \/ Refuse(ok)
  BY <1>4, ContentTypes DEF HandleIdle, HandleRecover, HandleGoto, Refuse, ArmOK, arm
<1>5. CASE HandleReset(ok)
  BY <1>5, ContentTypes DEF HandleReset, ArmOK
<1> QED
  BY <1>0, <1>1, <1>2, <1>3, <1>4, <1>5, HandleCases

LEMMA DrainedTypes ==
  ASSUME ArmOK, NEW c \in Clients \cup {Nobody}
  PROVE  /\ Drained(c) \in Contents
         /\ DrainedAge(c) \in BOOLEAN
         /\ \A read \in BOOLEAN : StaleAfter(Drained(c), DrainedAge(c), read) \in BOOLEAN
<1>1. Drained(c) \in Contents
  BY ContentTypes DEF Drained, Accepts, ArmOK
<1>2. DrainedAge(c) \in BOOLEAN
  BY DEF DrainedAge, ArmOK
<1>3. \A read \in BOOLEAN : StaleAfter(Drained(c), DrainedAge(c), read) \in BOOLEAN
  BY DEF StaleAfter, ArmOK
<1> QED
  BY <1>1, <1>2, <1>3

LEMMA JudgeTypes ==
  ASSUME ArmOK, NEW content \in Contents, Judge(content)
  PROVE  /\ mode' \in {"idle", "move", "reflex", "failed"}
         /\ entering' \in BOOLEAN
         /\ lease' \in Clients \cup {Nobody}
         /\ stream' \in Contents
BY ContentTypes DEF Judge, ArmOK

LEMMA CycleTypes ==
  ASSUME ArmTypeOK, Cycle
  PROVE  ArmTypeOK'
<1>1. ArmOK
  BY DEF ArmTypeOK, ArmOK
<1>2. PICK read \in BOOLEAN, c \in inFlight \cup {Nobody} :
        /\ inFlight' = inFlight \ {c}
        /\ aged' = DrainedAge(c)
        /\ stale' = StaleAfter(Drained(c), DrainedAge(c), read)
        /\ Judge(Drained(c))
        /\ Publish(read)
  BY DEF Cycle
<1>3. c \in Clients \cup {Nobody}
  BY DEF ArmTypeOK
<1>4. /\ mode' \in {"idle", "move", "reflex", "failed"}
      /\ entering' \in BOOLEAN
      /\ lease' \in Clients \cup {Nobody}
      /\ stream' \in Contents
  BY <1>1, <1>2, <1>3, DrainedTypes, JudgeTypes
<1>5. aged' \in BOOLEAN /\ stale' \in BOOLEAN
  BY <1>1, <1>2, <1>3, DrainedTypes
<1>6. view' \in InMove \cup {None}
  BY <1>2, <1>4, <1>5 DEF Publish, InMove, ArmTypeOK
<1>7. inFlight' \subseteq Clients
  BY <1>2 DEF ArmTypeOK
<1> QED
  BY <1>4, <1>5, <1>6, <1>7 DEF ArmTypeOK

LEMMA CallTypes ==
  ASSUME ChannelTypeOK, NEW c \in Clients, NEW cmd \in Commands, Call(c, cmd)
  PROVE  ChannelTypeOK'
<1>1. [from |-> c, cmd |-> cmd] \in Requests
  BY DEF Requests
<1> QED
  BY <1>1 DEF Call, ChannelTypeOK

LEMMA HearTypes ==
  ASSUME ChannelTypeOK, NEW c \in Clients, Hear(c) \/ TimeOut(c)
  PROVE  ChannelTypeOK'
BY DEF Hear, TimeOut, ChannelTypeOK

LEMMA CloseTypes ==
  ASSUME ChannelTypeOK, NEW C, Close(C)
  PROVE  ChannelTypeOK'
<1>1. socket' \in [Clients -> {"open", "waiting", "broken", "closed"}]
  BY DEF Close, ChannelTypeOK
<1>2. answer' \in [Clients -> Replies \cup {None}]
  BY DEF Close, ChannelTypeOK
<1> QED
  BY <1>1, <1>2 DEF Close, ChannelTypeOK

LEMMA ReplyThreadTypes ==
  ASSUME ChannelTypeOK, RepReceive \/ RepAnswer \/ RepBusy
  PROVE  ChannelTypeOK'
<1>1. CASE RepReceive
  BY <1>1 DEF RepReceive, ChannelTypeOK
<1>2. CASE RepAnswer
  <2>1. posted \in Replies
    BY <1>2 DEF RepAnswer, ChannelTypeOK
  <2>2. answer' \in [Clients -> Replies \cup {None}]
    BY <1>2, <2>1 DEF RepAnswer, Deliver, ChannelTypeOK
  <2> QED
    BY <1>2, <2>2 DEF RepAnswer, ChannelTypeOK
<1>3. CASE RepBusy
  <2>1. [of |-> serving, ok |-> FALSE] \in Replies
    BY <1>3 DEF RepBusy, ChannelTypeOK, Replies
  <2>2. answer' \in [Clients -> Replies \cup {None}]
    BY <1>3, <2>1 DEF RepBusy, Deliver, ChannelTypeOK
  <2> QED
    BY <1>3, <2>2 DEF RepBusy, ChannelTypeOK
<1> QED
  BY <1>1, <1>2, <1>3

LEMMA DrainCommandTypes ==
  ASSUME ChannelTypeOK, ArmTypeOK, DrainCommand
  PROVE  ChannelTypeOK' /\ ArmTypeOK'
<1>1. Head(cmdQ) \in Requests /\ Tail(cmdQ) \in Seq(Requests)
  BY DEF DrainCommand, ChannelTypeOK
<1>2. PICK ok \in BOOLEAN :
        Handle(Head(cmdQ), ok) /\ Post([of |-> Head(cmdQ), ok |-> ok])
  BY DEF DrainCommand
<1>3. [of |-> Head(cmdQ), ok |-> ok] \in Replies
  BY <1>1 DEF Replies
<1>4. ChannelTypeOK'
  BY <1>1, <1>2, <1>3 DEF DrainCommand, Post, ChannelTypeOK
<1>5. ArmOK'
  BY <1>1, <1>2, HandleTypes DEF ArmTypeOK, ArmOK
<1> QED
  BY <1>4, <1>5 DEF DrainCommand, ArmTypeOK, ArmOK

\* execute() and the action server.
LEMMA StepTypes ==
  ASSUME TypeOK, NEW g \in Goals, AcceptGoal(g) \/ RequestCancel(g) \/ Step(g)
  PROVE  TypeOK'
<1> USE GoalsAreClients DEF TypeOK
<1>1. CASE AcceptGoal(g)
  BY <1>1 DEF AcceptGoal, Goto, BridgeTypeOK, Phases, Active, sopod, channel, arm, history,
              ChannelTypeOK, ArmTypeOK
<1>2. CASE RequestCancel(g)
  BY <1>2 DEF RequestCancel, BridgeTypeOK, sopod, channel, arm, history, ChannelTypeOK, ArmTypeOK
<1>3. CASE Fail(g) \/ Cancel(g)
  BY <1>3 DEF Fail, Cancel, Report, Goto, BridgeTypeOK, Phases, Active, sopod, channel, arm,
              history, ChannelTypeOK, ArmTypeOK
<1>4. CASE Confirm(g)
  BY <1>4 DEF Confirm, Goto, BridgeTypeOK, Phases, Active, sopod, channel, arm, goalVars,
              history, ChannelTypeOK, ArmTypeOK
<1>5. CASE Iterate(g)
  <2>1. BridgeTypeOK'
    BY <1>5 DEF Iterate, LiveNow, BridgeTypeOK, history
  <2> QED
    BY <1>5, <2>1 DEF Iterate, SendAction, sopod, channel, arm, ChannelTypeOK, ArmTypeOK
<1>6. CASE AskForLease(g) \/ Settle(g) \/ GiveBack(g)
  <2>1. ChannelTypeOK'
    BY <1>6, CallTypes DEF AskForLease, Settle, GiveBack, Commands
  <2>2. BridgeTypeOK'
    BY <1>6 DEF AskForLease, Settle, GiveBack, LiveNow, Goto, BridgeTypeOK, Phases, Active,
                goalVars, history
  <2> QED
    BY <1>6, <2>1, <2>2 DEF AskForLease, Settle, GiveBack, ArmUntouched, ArmTypeOK, arm
<1>7. CASE HearAcquire(g) \/ HearHold(g) \/ HearRelease(g)
  <2>1. ChannelTypeOK'
    BY <1>7, HearTypes DEF HearAcquire, HearHold, HearRelease
  <2>2. BridgeTypeOK'
    BY <1>7 DEF HearAcquire, HearHold, HearRelease, Report, Goto, BridgeTypeOK, Phases, Active,
                history
  <2> QED
    BY <1>7, <2>1, <2>2 DEF HearAcquire, HearHold, HearRelease, ArmUntouched, ArmTypeOK, arm
<1>8. CASE MissReply(g) \/ MissRelease(g)
  <2>1. ChannelTypeOK'
    BY <1>8, HearTypes DEF MissReply, MissRelease
  <2>2. BridgeTypeOK'
    BY <1>8 DEF MissReply, MissRelease, Report, Goto, BridgeTypeOK, Phases, Active, history
  <2> QED
    BY <1>8, <2>1, <2>2 DEF MissReply, MissRelease, ArmUntouched, ArmTypeOK, arm
<1>9. CASE Finish(g)
  <2>1. ChannelTypeOK'
    BY <1>9, CloseTypes DEF Finish
  <2>2. BridgeTypeOK'
    BY <1>9 DEF Finish, Report, Goto, BridgeTypeOK, Phases, Active, history
  <2> QED
    BY <1>9, <2>1, <2>2 DEF Finish, ArmUntouched, ArmTypeOK, arm
<1> QED
  BY <1>1, <1>2, <1>3, <1>4, <1>5, <1>6, <1>7, <1>8, <1>9 DEF Step

LEMMA RecordTypes ==
  ASSUME BridgeTypeOK, Record
  PROVE  BridgeTypeOK'
BY DEF Record, BridgeTypeOK, Running

LEMMA NextTypes == TypeOK /\ [Next]_vars => TypeOK'
<1> SUFFICES ASSUME TypeOK, [Next]_vars PROVE TypeOK'
  OBVIOUS
<1> USE DEF TypeOK
<1>1. CASE (RepReceive \/ RepAnswer \/ RepBusy) /\ UNCHANGED bridgeVars
  <2>1. ChannelTypeOK'
    BY <1>1, ReplyThreadTypes
  <2>2. ArmTypeOK'
    BY <1>1 DEF RepReceive, RepAnswer, RepBusy, ArmTypeOK, arm
  <2> QED
    BY <1>1, <2>1, <2>2 DEF bridgeVars, goalVars, history, BridgeTypeOK
<1>2. CASE DrainCommand /\ Record
  BY <1>2, DrainCommandTypes, RecordTypes
<1>3. CASE Cycle /\ Record
  BY <1>3, CycleTypes, RecordTypes DEF Cycle, channel, ChannelTypeOK
<1>4. CASE Age /\ UNCHANGED bridgeVars
  BY <1>4 DEF Age, channel, ChannelTypeOK, ArmTypeOK, bridgeVars, goalVars, history, BridgeTypeOK
<1>5. ASSUME NEW g \in Goals, AcceptGoal(g) \/ RequestCancel(g) \/ Step(g) PROVE TypeOK'
  BY <1>5, StepTypes
<1>6. ASSUME NEW c \in Others, OtherCommand(c) PROVE TypeOK'
  <2>1. PICK cmd \in Commands \ {"hold"}, ok \in BOOLEAN : Handle([from |-> c, cmd |-> cmd], ok)
    BY <1>6 DEF OtherCommand
  <2>2. [from |-> c, cmd |-> cmd] \in Requests
    BY GoalsAreClients DEF Requests
  <2>3. ArmOK'
    BY <2>1, <2>2, HandleTypes DEF ArmTypeOK, ArmOK
  <2> QED
    BY <1>6, <2>3, RecordTypes DEF OtherCommand, ArmTypeOK, ArmOK, channel, ChannelTypeOK
<1>7. ASSUME NEW c \in Others, OtherDrives(c) PROVE TypeOK'
  BY <1>7, GoalsAreClients
     DEF OtherDrives, SendAction, channel, arm, ChannelTypeOK, ArmTypeOK, bridgeVars, goalVars,
         history, BridgeTypeOK
<1>8. CASE Kill
  <2>1. ChannelTypeOK'
    BY <1>8, CloseTypes DEF Kill
  <2>2. BridgeTypeOK'
    BY <1>8 DEF Kill, Running, BridgeTypeOK, Phases, Active
  <2> QED
    BY <1>8, <2>1, <2>2 DEF Kill, ArmTypeOK, arm
<1>9. CASE UNCHANGED vars
  BY <1>9 DEF vars, sopod, channel, arm, bridgeVars, goalVars, history, ChannelTypeOK, ArmTypeOK,
              BridgeTypeOK
<1> QED
  BY <1>1, <1>2, <1>3, <1>4, <1>5, <1>6, <1>7, <1>8, <1>9 DEF Next

\* Every variable of the channel, the daemon's part and the bridge keeps its
\* type (bridge.py, client.py, daemon.py 247-425).
THEOREM TypeCorrect == Spec => []TypeOK
<1>1. Init => TypeOK
  <2> SUFFICES ASSUME Init PROVE TypeOK
    OBVIOUS
  <2>1. ChannelTypeOK
    BY DEF Init, ChannelInit, ChannelTypeOK
  <2>2. ArmTypeOK
    BY ContentTypes DEF Init, ArmInit, ArmTypeOK
  <2>3. BridgeTypeOK
    BY DEF Init, BridgeTypeOK, Phases
  <2> QED
    BY <2>1, <2>2, <2>3 DEF TypeOK
<1> QED
  BY <1>1, NextTypes, PTL DEF Spec

----------------------------------------------------------------------------
(* The arm under its clients.                                              *)

\* What a final target that is held, a stream and a latch say about the lease.
KeptUnowned   == stream.by # Nobody /\ stream.sticky => lease = Nobody
StreamIsOwned == stream.by # Nobody /\ ~stream.sticky => lease = stream.by
LatchedUnowned == mode \in {"reflex", "failed"} => lease = Nobody

Owned == KeptUnowned /\ StreamIsOwned /\ LatchedUnowned

\* All that may happen to the arm in a step.
CycleArm ==
  \E c \in Clients \cup {Nobody} :
    /\ inFlight' = inFlight \ {c}
    /\ Judge(Drained(c))

LEMMA NextArm ==
  ASSUME TypeOK, [Next]_vars
  PROVE  \/ inFlight' = inFlight /\ \E m \in Requests, ok \in BOOLEAN : Handle(m, ok)
         \/ CycleArm
         \/ UNCHANGED <<mode, entering, lease, stream>>
<1>1. CASE DrainCommand /\ Record
  <2>1. Head(cmdQ) \in Requests
    BY <1>1 DEF DrainCommand, TypeOK, ChannelTypeOK
  <2> QED
    BY <1>1, <2>1 DEF DrainCommand
<1>2. CASE Cycle /\ Record
  BY <1>2 DEF Cycle, CycleArm, TypeOK, ArmTypeOK
<1>3. CASE Age /\ UNCHANGED bridgeVars
  BY <1>3 DEF Age
<1>4. CASE (RepReceive \/ RepAnswer \/ RepBusy) /\ UNCHANGED bridgeVars
  BY <1>4 DEF RepReceive, RepAnswer, RepBusy, arm
<1>5. ASSUME NEW g \in Goals, AcceptGoal(g) \/ RequestCancel(g) \/ Step(g)
      PROVE  UNCHANGED <<mode, entering, lease, stream>>
  BY <1>5 DEF AcceptGoal, RequestCancel, Step, Fail, AskForLease, HearAcquire, MissReply, Confirm,
              Cancel, Iterate, Settle, HearHold, GiveBack, HearRelease, MissRelease, Finish,
              SendAction, ArmUntouched, sopod, arm
<1>6. ASSUME NEW c \in Others, OtherCommand(c)
      PROVE  inFlight' = inFlight /\ \E m \in Requests, ok \in BOOLEAN : Handle(m, ok)
  <2>1. PICK cmd \in Commands \ {"hold"}, ok \in BOOLEAN : Handle([from |-> c, cmd |-> cmd], ok)
    BY <1>6 DEF OtherCommand
  <2>2. [from |-> c, cmd |-> cmd] \in Requests
    BY GoalsAreClients DEF Requests
  <2> QED
    BY <1>6, <2>1, <2>2 DEF OtherCommand
<1>7. ASSUME NEW c \in Others, OtherDrives(c) PROVE UNCHANGED <<mode, entering, lease, stream>>
  BY <1>7 DEF OtherDrives, SendAction, arm
<1>8. CASE Kill \/ UNCHANGED vars
  BY <1>8 DEF Kill, vars, sopod, arm
<1> QED
  BY <1>1, <1>2, <1>3, <1>4, <1>5, <1>6, <1>7, <1>8 DEF Next

\* What a command that asks for MOVE does, branch by branch.
LEMMA MoveCases ==
  ASSUME ArmOK, NEW ok \in BOOLEAN, HandleMove(ok), mode # "failed"
  PROVE  \/ mode = "idle" /\ mode' = "move" /\ stream' = Seed /\ lease' = lease
         \/ mode = "idle" /\ stream' \in {stream, Empty} /\ UNCHANGED <<mode, lease>>
         \/ UNCHANGED <<mode, lease, stream>>
<1>1. CASE mode = "idle"
  BY <1>1 DEF HandleMove
<1>2. CASE mode = "move"
  BY <1>2 DEF HandleMove, arm
<1>3. CASE mode = "reflex"
  BY <1>3 DEF HandleMove, Refuse, arm
<1> QED
  BY <1>1, <1>2, <1>3 DEF ArmOK

LEMMA HandleOwned ==
  ASSUME ArmOK, Owned, NEW m \in Requests, NEW ok \in BOOLEAN, Handle(m, ok)
  PROVE  Owned'
<1> USE DEF Owned, KeptUnowned, StreamIsOwned, LatchedUnowned, Empty, Seed
<1>0. m.from \in Clients /\ m.cmd \in Commands
  BY DEF Requests
<1>1. CASE HandleAcquire(m.from, ok) /\ mode # "failed"
  BY <1>0, <1>1 DEF HandleAcquire, Refuse, ArmOK, arm
<1>2. CASE HandleRelease(m.from, ok) \/ HandleHold(m.from, ok)
  BY <1>0, <1>2 DEF HandleRelease, HandleHold, Released, Refuse, ArmOK, arm
<1>3. CASE HandleMove(ok) /\ mode # "failed"
  BY <1>3, MoveCases
<1>4. CASE HandleIdle(ok) \/ HandleRecover(ok) \/ HandleGoto(ok) \/ Refuse(ok)
  BY <1>4 DEF HandleIdle, HandleRecover, HandleGoto, Refuse, ArmOK, arm
<1>5. CASE HandleReset(ok)
  BY <1>5 DEF HandleReset
<1> QED
  BY <1>0, <1>1, <1>2, <1>3, <1>4, <1>5, HandleCases

\* An action is followed only under the lease, so a held target is not replaced.
LEMMA DrainedKept ==
  ASSUME Owned, NEW c \in Clients \cup {Nobody}, stream.by # Nobody, stream.sticky
  PROVE  Drained(c) = stream
BY DEF Owned, KeptUnowned, Drained, Accepts

LEMMA CycleOwned ==
  ASSUME ArmOK, Owned, CycleArm
  PROVE  Owned'
<1> USE DEF Owned, KeptUnowned, StreamIsOwned, LatchedUnowned, Empty
<1>1. PICK c \in Clients \cup {Nobody} : Judge(Drained(c))
  BY DEF CycleArm
<1>2. CASE Accepts(c)
  BY <1>1, <1>2 DEF Judge, Drained, Accepts, ArmOK
<1>3. CASE ~Accepts(c)
  BY <1>1, <1>3 DEF Judge, Drained, ArmOK
<1> QED
  BY <1>2, <1>3

LEMMA OwnedHolds == Spec => [](TypeOK /\ Owned)
<1>1. Init => Owned
  BY DEF Init, ArmInit, Owned, KeptUnowned, StreamIsOwned, LatchedUnowned, Empty, Seed
<1>2. TypeOK /\ Owned /\ [Next]_vars => Owned'
  <2> SUFFICES ASSUME TypeOK, Owned, [Next]_vars PROVE Owned'
    OBVIOUS
  <2>1. ArmOK
    BY DEF TypeOK, ArmTypeOK, ArmOK
  <2>2. UNCHANGED <<mode, entering, lease, stream>> => Owned'
    BY DEF Owned, KeptUnowned, StreamIsOwned, LatchedUnowned
  <2> QED
    BY <2>1, <2>2, NextArm, HandleOwned, CycleOwned
<1> QED
  BY <1>1, <1>2, TypeCorrect, PTL DEF Spec

\* The final target of a trajectory is not replaced by an action that was still
\* on its way when the lease was given back (daemon.py 394-413, 709-711).
THEOREM HeldTargetStays == Spec => HoldSurvives
<1>1. TypeOK /\ Owned /\ [Next]_vars =>
        [stream.by # Nobody /\ stream.sticky /\ inFlight' # inFlight
           => stream' = stream \/ mode' # mode]_vars
  <2> SUFFICES ASSUME TypeOK, Owned, [Next]_vars, stream.by # Nobody, stream.sticky,
                      inFlight' # inFlight
               PROVE  stream' = stream
    OBVIOUS
  <2>1. CASE CycleArm
    <3>1. PICK c \in Clients \cup {Nobody} : Judge(Drained(c))
      BY <2>1 DEF CycleArm
    <3>2. Drained(c) = stream
      BY DrainedKept
    <3> QED
      BY <3>1, <3>2 DEF Judge, Owned, KeptUnowned
  <2> QED
    BY <2>1, NextArm
<1> QED
  BY <1>1, OwnedHolds, PTL DEF Spec, HoldSurvives

----------------------------------------------------------------------------
(* The abstract session.                                                   *)

LEMMA HandleRefines ==
  ASSUME ArmOK, Owned, NEW m \in Requests, NEW ok \in BOOLEAN, Handle(m, ok)
  PROVE  [Session!Next]_Session!session
<1> USE DEF Owned, KeptUnowned, StreamIsOwned, LatchedUnowned, Empty, Seed, Phase, Session!session
<1>0. m.from \in Clients /\ m.cmd \in Commands
  BY DEF Requests
<1>1. CASE HandleAcquire(m.from, ok) /\ mode # "failed"
  <2>1. Session!Grant(m.from) \/ UNCHANGED Session!session
    BY <1>0, <1>1 DEF HandleAcquire, Refuse, ArmOK, arm, Session!Grant
  <2> QED
    BY <1>0, <2>1 DEF Session!Next
<1>2. CASE HandleRelease(m.from, ok) \/ HandleHold(m.from, ok)
  <2>1. Session!Release \/ UNCHANGED Session!session
    BY <1>0, <1>2 DEF HandleRelease, HandleHold, Released, Refuse, ArmOK, arm, Session!Release,
                      Session!NobodyDrives
  <2> QED
    BY <2>1 DEF Session!Next
<1>3. CASE HandleMove(ok) /\ mode # "failed"
  <2>1. Session!Engage \/ Session!Forget \/ UNCHANGED Session!session
    <3>1. CASE mode = "idle" /\ mode' = "move" /\ stream' = Seed /\ lease' = lease
      BY <3>1 DEF Session!Engage
    <3>2. CASE mode = "idle" /\ stream' \in {stream, Empty} /\ UNCHANGED <<mode, lease>>
      <4>1. CASE stream' = stream
        BY <3>2, <4>1
      <4>2. CASE stream' = Empty
        BY <3>2, <4>2 DEF Session!Forget
      <4> QED
        BY <3>2, <4>1, <4>2
    <3>3. CASE UNCHANGED <<mode, lease, stream>>
      BY <3>3
    <3> QED
      BY <1>3, <3>1, <3>2, <3>3, MoveCases
  <2> QED
    BY <2>1 DEF Session!Next
<1>4. CASE HandleIdle(ok) /\ mode # "failed"
  <2>1. Session!DropTorque \/ UNCHANGED Session!session
    BY <1>4 DEF HandleIdle, Refuse, ArmOK, arm, Session!DropTorque, Session!NobodyDrives
  <2> QED
    BY <2>1 DEF Session!Next
<1>5. CASE HandleRecover(ok)
  <2>1. Session!Recover \/ UNCHANGED Session!session
    BY <1>5 DEF HandleRecover, Refuse, ArmOK, arm, Session!Recover, Session!NobodyDrives
  <2> QED
    BY <2>1 DEF Session!Next
<1>6. CASE (HandleGoto(ok) /\ mode # "failed") \/ Refuse(ok)
  <2>1. Session!Forget \/ UNCHANGED Session!session
    BY <1>6 DEF HandleGoto, Refuse, ArmOK, arm, Session!Forget
  <2> QED
    BY <2>1 DEF Session!Next
<1>7. CASE HandleReset(ok)
  <2>1. Session!Reset
    BY <1>7 DEF HandleReset, ArmOK, Session!Reset, Session!NobodyDrives
  <2> QED
    BY <2>1 DEF Session!Next
<1> QED
  BY <1>0, <1>1, <1>2, <1>3, <1>4, <1>5, <1>6, <1>7, HandleCases

LEMMA CycleRefines ==
  ASSUME ArmOK, Owned, CycleArm
  PROVE  [Session!Next]_Session!session
<1> USE DEF Owned, KeptUnowned, StreamIsOwned, LatchedUnowned, Empty, Phase, Session!session
<1>1. PICK c \in Clients \cup {Nobody} : Judge(Drained(c))
  BY DEF CycleArm
<1>2. Session!Follow \/ Session!Latch \/ UNCHANGED Session!session
  <2>1. CASE Accepts(c)
    BY <1>1, <2>1 DEF Judge, Drained, Accepts, ArmOK, Session!Follow, Session!Latch,
                      Session!NobodyDrives
  <2>2. CASE ~Accepts(c)
    BY <1>1, <2>2 DEF Judge, Drained, ArmOK, Session!Latch, Session!NobodyDrives
  <2> QED
    BY <2>1, <2>2
<1> QED
  BY <1>2 DEF Session!Next

\* However the goals, the other clients and lost replies interleave, the arm
\* under them keeps the control session (daemon.py 596-600, 682-749).
THEOREM SessionKept == Spec => KeepsSession
<1>1. TypeOK /\ Owned /\ [Next]_vars => [Session!Next]_Session!session
  <2> SUFFICES ASSUME TypeOK, Owned, [Next]_vars PROVE [Session!Next]_Session!session
    OBVIOUS
  <2>1. ArmOK
    BY DEF TypeOK, ArmTypeOK, ArmOK
  <2>2. UNCHANGED <<mode, entering, lease, stream>> => UNCHANGED Session!session
    BY DEF Session!session, Phase
  <2> QED
    BY <2>1, <2>2, NextArm, HandleRefines, CycleRefines
<1> QED
  BY <1>1, OwnedHolds, PTL DEF Spec, KeepsSession

----------------------------------------------------------------------------
(* Replies.                                                                *)

Calling == {"acquiring", "holding", "releasing"}

LEMMA CallOfTypes ==
  /\ CallOf["acquiring"] = "acquire"
  /\ CallOf["holding"] = "hold"
  /\ CallOf["releasing"] = "release"
BY DEF CallOf

\* What the reply thread will answer is the request it serves.
PostedFits == posted # None => posted.of = serving

\* Nothing of c is on its way to the daemon or in its hands.
NothingAsked(c) ==
  /\ \A m \in inbox : m.from # c
  /\ serving # None => serving.from # c

\* A socket carries one request at a time, and no answer without a request.
OneAtATime ==
  /\ \A c \in Clients : socket[c] = "open" => answer[c] = None /\ NothingAsked(c)
  /\ \A c \in Clients :
       answer[c] # None => socket[c] = "waiting" /\ answer[c].of.from = c /\ NothingAsked(c)
  /\ \A c \in Clients : socket[c] = "waiting" =>
       \A m \in inbox : m.from = c =>
         /\ \A n \in inbox : n.from = c => n = m
         /\ serving # None => serving.from # c

\* What a waiting goal has asked is what its place in execute() asks.
AsksItsCall(g) ==
  /\ pc[g] \in Calling
  /\ \A m \in inbox : m.from = g => m.cmd = CallOf[pc[g]]
  /\ serving # None /\ serving.from = g => serving.cmd = CallOf[pc[g]]
  /\ answer[g] # None => answer[g].of.cmd = CallOf[pc[g]]

CallsFit == \A g \in Goals : socket[g] = "waiting" => AsksItsCall(g)

Matched == PostedFits /\ OneAtATime /\ CallsFit

LEMMA MatchedMeans == TypeOK /\ Matched => RepliesMatch
BY GoalsAreClients
   DEF Matched, OneAtATime, CallsFit, AsksItsCall, RepliesMatch

LEMMA CallMatched ==
  ASSUME TypeOK, Matched, NEW g \in Goals, NEW p \in Calling, Call(g, CallOf[p]), Goto(g, p)
  PROVE  Matched'
<1> USE GoalsAreClients DEF TypeOK, ChannelTypeOK, BridgeTypeOK, Matched
<1>0. CallOf[p] \in Commands
  BY CallOfTypes DEF Calling, Commands
<1>1. PostedFits'
  BY DEF PostedFits, Call
<1>2. OneAtATime'
  BY DEF Call, OneAtATime, NothingAsked
<1>3. CallsFit'
  <2> SUFFICES ASSUME NEW h \in Goals, socket'[h] = "waiting" PROVE AsksItsCall(h)'
    BY DEF CallsFit
  <2>1. CASE h = g
    BY <2>1 DEF Call, Goto, OneAtATime, NothingAsked, AsksItsCall
  <2>2. CASE h # g
    BY <2>2 DEF Call, Goto, CallsFit, AsksItsCall
  <2> QED
    BY <2>1, <2>2
<1> QED
  BY <1>1, <1>2, <1>3

\* A step that ends a call, or is none, of a goal that does not wait afterwards.
EndsCall(g) == Hear(g) \/ TimeOut(g) \/ (UNCHANGED channel /\ socket[g] # "waiting")

LEMMA EndMatched ==
  ASSUME TypeOK, Matched, NEW g \in Goals, EndsCall(g),
         \A h \in Goals : h # g => pc'[h] = pc[h]
  PROVE  Matched'
<1> USE GoalsAreClients DEF TypeOK, ChannelTypeOK, Matched, EndsCall
<1>1. PostedFits'
  BY DEF PostedFits, Hear, TimeOut, channel
<1>2. OneAtATime'
  BY DEF Hear, TimeOut, channel, OneAtATime, NothingAsked
<1>3. CallsFit'
  <2> SUFFICES ASSUME NEW h \in Goals, socket'[h] = "waiting" PROVE AsksItsCall(h)'
    BY DEF CallsFit
  <2>1. h # g /\ socket[h] = "waiting" /\ answer'[h] = answer[h]
    BY DEF Hear, TimeOut, channel
  <2> QED
    BY <2>1 DEF Hear, TimeOut, channel, CallsFit, AsksItsCall
<1> QED
  BY <1>1, <1>2, <1>3

LEMMA CloseMatched ==
  ASSUME TypeOK, Matched, NEW C \in SUBSET Goals, Close(C),
         \A h \in Goals : h \notin C => pc'[h] = pc[h]
  PROVE  Matched'
<1> USE GoalsAreClients DEF TypeOK, ChannelTypeOK, Matched
<1>0. inbox' \subseteq inbox
  BY DEF Close
<1>1. PostedFits'
  BY DEF PostedFits, Close
<1>2. OneAtATime'
  BY <1>0 DEF Close, OneAtATime, NothingAsked
<1>3. CallsFit'
  <2> SUFFICES ASSUME NEW h \in Goals, socket'[h] = "waiting" PROVE AsksItsCall(h)'
    BY DEF CallsFit
  <2>1. h \notin C /\ socket[h] = "waiting" /\ answer'[h] = answer[h]
    BY DEF Close
  <2> QED
    BY <1>0, <2>1 DEF Close, CallsFit, AsksItsCall
<1> QED
  BY <1>1, <1>2, <1>3

LEMMA ReceiveMatched ==
  ASSUME TypeOK, Matched, RepReceive, UNCHANGED pc
  PROVE  Matched'
<1> USE GoalsAreClients DEF TypeOK, ChannelTypeOK, Matched
<1>1. PICK m \in inbox : serving' = m /\ inbox' = inbox \ {m}
  BY DEF RepReceive
<1>2. posted = None /\ m # None
  BY NoneAssumption DEF RepReceive, PostedFits, Replies
<1>3. PostedFits'
  BY <1>2 DEF RepReceive, PostedFits
<1>4. OneAtATime'
  BY <1>1 DEF RepReceive, OneAtATime, NothingAsked
<1>5. CallsFit'
  BY <1>1 DEF RepReceive, CallsFit, AsksItsCall
<1> QED
  BY <1>3, <1>4, <1>5

LEMMA AnswerMatched ==
  ASSUME TypeOK, Matched, serving # None, NEW reply \in Replies, reply.of = serving,
         Deliver(serving.from, reply), serving' = None, posted' = None,
         UNCHANGED <<socket, inbox, pc>>
  PROVE  Matched'
<1> USE GoalsAreClients DEF TypeOK, ChannelTypeOK, Matched
<1>1. serving \in Requests /\ serving.from \in Clients
  BY DEF Requests
<1>2. PostedFits'
  BY DEF PostedFits
<1>3. OneAtATime'
  BY <1>1, NoneAssumption DEF Deliver, OneAtATime, NothingAsked
<1>4. CallsFit'
  BY <1>1 DEF Deliver, CallsFit, AsksItsCall
<1> QED
  BY <1>2, <1>3, <1>4

LEMMA MatchedStep == TypeOK /\ Matched /\ [Next]_vars => Matched'
<1> SUFFICES ASSUME TypeOK, Matched, [Next]_vars PROVE Matched'
  OBVIOUS
<1>0. ASSUME UNCHANGED channel, UNCHANGED pc PROVE Matched'
  BY <1>0 DEF channel, Matched, PostedFits, OneAtATime, NothingAsked, CallsFit, AsksItsCall
<1>1. CASE RepReceive /\ UNCHANGED bridgeVars
  BY <1>1, ReceiveMatched DEF bridgeVars
<1>2. CASE RepAnswer /\ UNCHANGED bridgeVars
  <2>1. posted \in Replies /\ posted.of = serving
    BY <1>2 DEF RepAnswer, TypeOK, ChannelTypeOK, Matched, PostedFits
  <2> QED
    BY <1>2, <2>1, AnswerMatched DEF RepAnswer, bridgeVars
<1>3. CASE RepBusy /\ UNCHANGED bridgeVars
  <2>1. [of |-> serving, ok |-> FALSE] \in Replies
    BY <1>3 DEF RepBusy, TypeOK, ChannelTypeOK, Replies
  <2> QED
    BY <1>3, <2>1, AnswerMatched DEF RepBusy, bridgeVars
<1>4. CASE DrainCommand /\ Record
  BY <1>4 DEF DrainCommand, Post, Record, Matched, PostedFits, OneAtATime, NothingAsked, CallsFit,
              AsksItsCall
<1>5. CASE (Cycle \/ Age) /\ UNCHANGED pc
  BY <1>0, <1>5 DEF Cycle, Age
<1>6. ASSUME NEW g \in Goals, AcceptGoal(g) \/ RequestCancel(g) \/ Step(g) PROVE Matched'
  <2>1. pc[g] \notin Calling => socket[g] # "waiting"
    BY DEF Matched, CallsFit, AsksItsCall
  <2>2. \A p : Goto(g, p) => \A h \in Goals : h # g => pc'[h] = pc[h]
    BY DEF Goto, TypeOK, BridgeTypeOK
  <2>3. CASE AcceptGoal(g) \/ Fail(g) \/ Confirm(g) \/ Cancel(g)
    <3>1. EndsCall(g)
      BY <2>1, <2>3 DEF AcceptGoal, Fail, Confirm, Cancel, sopod, Calling, EndsCall
    <3>2. \A h \in Goals : h # g => pc'[h] = pc[h]
      BY <2>2, <2>3 DEF AcceptGoal, Fail, Confirm, Cancel
    <3> QED
      BY <3>1, <3>2, EndMatched
  <2>4. CASE RequestCancel(g) \/ Iterate(g)
    BY <1>0, <2>4 DEF RequestCancel, Iterate, SendAction, sopod
  <2>5. CASE AskForLease(g) \/ Settle(g) \/ GiveBack(g)
    BY <2>5, CallMatched, CallOfTypes DEF AskForLease, Settle, GiveBack, Calling
  <2>6. CASE HearAcquire(g) \/ HearHold(g) \/ HearRelease(g) \/ MissReply(g) \/ MissRelease(g)
    <3>1. \A h \in Goals : h # g => pc'[h] = pc[h]
      BY <2>2, <2>6 DEF HearAcquire, HearHold, HearRelease, MissReply, MissRelease
    <3>2. HearAcquire(g) \/ HearHold(g) \/ HearRelease(g) => Hear(g)
      BY DEF HearAcquire, HearHold, HearRelease
    <3>3. MissReply(g) \/ MissRelease(g) => TimeOut(g)
      BY DEF MissReply, MissRelease
    <3>4. EndsCall(g)
      BY <2>6, <3>2, <3>3 DEF EndsCall
    <3> QED
      BY <3>1, <3>4, EndMatched
  <2>7. CASE Finish(g)
    <3>1. \A h \in Goals : h \notin {g} => pc'[h] = pc[h]
      BY <2>2, <2>7 DEF Finish
    <3> QED
      BY <2>7, <3>1, CloseMatched DEF Finish
  <2> QED
    BY <1>6, <2>3, <2>4, <2>5, <2>6, <2>7 DEF Step
<1>7. ASSUME NEW c \in Others, OtherCommand(c) \/ OtherDrives(c) PROVE Matched'
  BY <1>0, <1>7 DEF OtherCommand, OtherDrives, SendAction, Record, bridgeVars
<1>8. CASE Kill
  <2>1. Running \in SUBSET Goals /\ \A h \in Goals : h \notin Running => pc'[h] = pc[h]
    BY <1>8 DEF Kill, Running
  <2> QED
    BY <1>8, <2>1, CloseMatched DEF Kill
<1>9. CASE UNCHANGED vars
  BY <1>0, <1>9 DEF vars, sopod, bridgeVars
<1> QED
  BY <1>1, <1>2, <1>3, <1>4, <1>5, <1>6, <1>7, <1>8, <1>9 DEF Next, Record, bridgeVars

\* A client is answered about the command it has just sent, although replies come
\* late, are thrown away or are "daemon busy" (daemon.py 247-264, client.py 33-35).
THEOREM RepliesFit == Spec => []RepliesMatch
<1>1. Init => Matched
  BY NoneAssumption, GoalsAreClients
     DEF Init, ChannelInit, Matched, PostedFits, OneAtATime, NothingAsked, CallsFit, AsksItsCall
<1> QED
  BY <1>1, MatchedStep, MatchedMeans, TypeCorrect, PTL DEF Spec

----------------------------------------------------------------------------
(* What saw_action is evidence of.                                         *)

\* Of a goal that has not asked for anything nothing is with the daemon.
NotYet == {g \in Goals : pc[g] \in {"none", "accepted"}}

Silent ==
  \A g \in NotYet :
    /\ lease # g
    /\ view # None => view.lease # g
    /\ \A m \in inbox : m.from # g
    /\ \A i \in DOMAIN cmdQ : cmdQ[i].from # g

Mine(g) == g \in followed \cup entered

\* What the stream holds under the lease of a running goal was pushed by it, or by an
\* entry of MOVE under its lease, and a state that calls it live was published
\* behind that.
Evidence ==
  \A g \in Running :
    /\ lease = g /\ (entering \/ stream # Empty) => Mine(g)
    /\ view # None => (view.lease = g /\ ~view.stale => Mine(g))

EnteringIsMove == entering => mode = "move"

Seen == Silent /\ Evidence /\ EnteringIsMove /\ SawActionIsMine

LEMMA AppendFacts ==
  ASSUME cmdQ \in Seq(Requests), NEW m \in Requests, NEW i \in DOMAIN Append(cmdQ, m)
  PROVE  Append(cmdQ, m)[i] = m \/ (i \in DOMAIN cmdQ /\ Append(cmdQ, m)[i] = cmdQ[i])
<1>1. DOMAIN cmdQ = 1 .. Len(cmdQ) /\ Len(cmdQ) \in Nat  OBVIOUS
<1>2. i \in 1 .. Len(cmdQ) + 1  OBVIOUS
<1>3. CASE i = Len(cmdQ) + 1  BY <1>3
<1>4. CASE i \in 1 .. Len(cmdQ)  BY <1>1, <1>4
<1> QED  BY <1>1, <1>2, <1>3, <1>4

LEMMA HeadFacts ==
  ASSUME cmdQ \in Seq(Requests), cmdQ # << >>
  PROVE  Head(cmdQ) \in Requests /\ 1 \in DOMAIN cmdQ /\ Head(cmdQ) = cmdQ[1]
OBVIOUS

LEMMA TailFacts ==
  ASSUME cmdQ \in Seq(Requests), cmdQ # << >>, NEW i \in DOMAIN Tail(cmdQ)
  PROVE  i \in Nat \ {0} /\ i + 1 \in DOMAIN cmdQ /\ Tail(cmdQ)[i] = cmdQ[i + 1]
OBVIOUS

\* What a command leaves of lease, stream and entry.
LEMMA HandleLeaves ==
  ASSUME ArmOK, EnteringIsMove, NEW m \in Requests, NEW ok \in BOOLEAN, Handle(m, ok)
  PROVE  /\ EnteringIsMove'
         /\ \/ lease' = Nobody
            \/ lease' = m.from /\ m.cmd = "acquire" /\ stream' = Empty /\ ~entering'
            \/ lease' = lease /\ \/ lease = Nobody
                                 \/ mode = "idle" /\ mode' = "move"
                                 \/ stream' \in {stream, Empty} /\ (entering' => entering)
<1> USE DEF EnteringIsMove, ArmOK
<1>0. m.from \in Clients /\ m.cmd \in Commands  BY DEF Requests
<1>1. CASE HandleAcquire(m.from, ok) /\ m.cmd = "acquire"
  BY <1>1 DEF HandleAcquire, Refuse, arm
<1>2. CASE HandleRelease(m.from, ok) \/ HandleHold(m.from, ok)
  BY <1>2 DEF HandleRelease, HandleHold, Released, Refuse, arm
<1>3. CASE HandleMove(ok) /\ mode # "failed"
  <2>1. CASE mode = "idle"  BY <1>3, <2>1 DEF HandleMove
  <2>2. CASE mode # "idle"  BY <1>3, <2>2 DEF HandleMove, Refuse, arm
  <2> QED  BY <2>1, <2>2
<1>4. CASE HandleIdle(ok) \/ HandleRecover(ok) \/ HandleGoto(ok) \/ Refuse(ok)
  BY <1>4 DEF HandleIdle, HandleRecover, HandleGoto, Refuse, arm
<1>5. CASE HandleReset(ok)
  BY <1>5 DEF HandleReset
<1> QED  BY <1>0, <1>1, <1>2, <1>3, <1>4, <1>5, HandleCases

LEMMA RecordKeepsMine ==
  ASSUME Record
  PROVE  /\ Running' = Running /\ NotYet' = NotYet
         /\ \A g : Mine(g) => Mine(g)'
         /\ SawActionIsMine => SawActionIsMine'
         /\ \A g \in Running : stream'.by = g /\ ~stream'.sticky => Mine(g)'
BY DEF Record, Running, NotYet, Mine, SawActionIsMine

LEMMA EvidenceInHandle ==
  ASSUME TypeOK, Seen, Record, UNCHANGED view,
         NEW m \in Requests, m.from \notin NotYet, NEW ok \in BOOLEAN, Handle(m, ok)
  PROVE  Evidence' /\ EnteringIsMove' /\ SawActionIsMine' /\ \A g \in NotYet : lease' # g
<1>0. ArmOK  BY DEF TypeOK, ArmTypeOK, ArmOK
<1>1. /\ EnteringIsMove'
      /\ \/ lease' = Nobody
         \/ lease' = m.from /\ m.cmd = "acquire" /\ stream' = Empty /\ ~entering'
         \/ lease' = lease /\ \/ lease = Nobody
                              \/ mode = "idle" /\ mode' = "move"
                              \/ stream' \in {stream, Empty} /\ (entering' => entering)
  BY <1>0, HandleLeaves DEF Seen
<1>2. \A g \in Goals : g # Nobody  BY GoalsAreClients, ClientsAssumption
<1>3. \A g \in NotYet : lease' # g  BY <1>1, <1>2 DEF Seen, Silent, NotYet
<1>4. ASSUME NEW g \in Running, lease' = g, entering' \/ stream' # Empty PROVE Mine(g)'
  <2>1. g # Nobody  BY <1>2 DEF Running
  <2>2. CASE mode = "idle" /\ mode' = "move" /\ lease' = lease
    BY <1>4, <2>2 DEF Record, Mine
  <2>3. CASE lease' = lease /\ stream' \in {stream, Empty} /\ (entering' => entering)
    BY <1>4, <2>3, RecordKeepsMine DEF Seen, Evidence
  <2> QED  BY <1>1, <1>4, <2>1, <2>2, <2>3
<1>5. ASSUME NEW g \in Running, view # None, view.lease = g, ~view.stale PROVE Mine(g)'
  BY <1>5, RecordKeepsMine DEF Seen, Evidence
<1>6. Evidence'
  BY <1>4, <1>5, RecordKeepsMine DEF Evidence
<1> QED  BY <1>1, <1>3, <1>6, RecordKeepsMine DEF Seen

LEMMA SeenInCycle ==
  ASSUME TypeOK, Seen, Cycle, Record
  PROVE  Seen'
<1>1. PICK read \in BOOLEAN, c \in inFlight \cup {Nobody} :
        /\ stale' = StaleAfter(Drained(c), DrainedAge(c), read)
        /\ Judge(Drained(c))
        /\ Publish(read)
  BY DEF Cycle
<1>2. \A g \in Goals : g # Nobody  BY GoalsAreClients, ClientsAssumption
<1>3. /\ lease' \in {lease, Nobody} /\ (entering' => entering)
      /\ lease' = lease /\ lease # Nobody => stream' = Drained(c) /\ mode' = mode
  BY <1>1 DEF Judge
<1>4. EnteringIsMove'
  BY <1>1 DEF Judge, Seen, EnteringIsMove
<1>5. ASSUME NEW g \in Running, lease' = g, entering' \/ stream' # Empty PROVE Mine(g)'
  <2>1. lease = g /\ lease # Nobody  BY <1>2, <1>3, <1>5 DEF Running
  <2>2. stream' = Drained(c)  BY <1>3, <1>5, <2>1
  <2>3. CASE Accepts(c)
    <3>1. stream'.by = g /\ ~stream'.sticky  BY <2>1, <2>2, <2>3 DEF Drained, Accepts
    <3> QED  BY <3>1, RecordKeepsMine
  <2>4. CASE ~Accepts(c)
    <3>1. stream' = stream  BY <2>2, <2>4 DEF Drained
    <3> QED  BY <1>3, <1>5, <2>1, <3>1, RecordKeepsMine DEF Seen, Evidence
  <2> QED  BY <2>3, <2>4
<1>6. ASSUME NEW g \in Running, view' # None, view'.lease = g, ~view'.stale PROVE Mine(g)'
  <2>1. CASE view' = view
    BY <1>6, <2>1, RecordKeepsMine DEF Seen, Evidence
  <2>2. CASE /\ read /\ mode' = "move"
             /\ view' = [entering |-> entering', lease |-> lease', stale |-> stale']
    <3>1. lease' = g /\ ~stale'  BY <1>6, <2>2
    <3>2. lease = g /\ lease # Nobody  BY <1>2, <1>3, <3>1 DEF Running
    <3>3. CASE entering
      BY <3>2, <3>3, RecordKeepsMine DEF Seen, Evidence
    <3>4. CASE ~entering
      <4>1. Drained(c) # Empty
        BY <1>1, <1>3, <2>2, <3>1, <3>2, <3>4 DEF StaleAfter
      <4> QED  BY <1>3, <1>5, <3>1, <3>2, <4>1
    <3> QED  BY <3>3, <3>4
  <2> QED  BY <1>1, <1>6, <2>1, <2>2 DEF Publish
<1>7. Evidence'
  BY <1>5, <1>6, RecordKeepsMine DEF Evidence
<1>8. ASSUME NEW g \in NotYet
      PROVE  /\ lease' # g
             /\ view' # None => view'.lease # g
  <2>1. lease' # g  BY <1>2, <1>3 DEF Seen, Silent, NotYet
  <2> QED  BY <1>1, <2>1 DEF Publish, Seen, Silent
<1>9. Silent'
  BY <1>8, RecordKeepsMine DEF Cycle, channel, Seen, Silent
<1> QED  BY <1>4, <1>7, <1>9, RecordKeepsMine DEF Seen

LEMMA SeenInDrain ==
  ASSUME TypeOK, Seen, DrainCommand, Record
  PROVE  Seen'
<1>1. /\ Head(cmdQ) \in Requests /\ 1 \in DOMAIN cmdQ /\ Head(cmdQ) = cmdQ[1]
      /\ \A i \in DOMAIN Tail(cmdQ) : i + 1 \in DOMAIN cmdQ /\ Tail(cmdQ)[i] = cmdQ[i + 1]
  BY HeadFacts, TailFacts DEF DrainCommand, TypeOK, ChannelTypeOK
<1>2. PICK ok \in BOOLEAN : Handle(Head(cmdQ), ok)
  BY DEF DrainCommand
<1>3. Head(cmdQ).from \notin NotYet
  BY <1>1 DEF Seen, Silent
<1>4. Evidence' /\ EnteringIsMove' /\ SawActionIsMine' /\ \A g \in NotYet : lease' # g
  BY <1>1, <1>2, <1>3, EvidenceInHandle DEF DrainCommand
<1>5. Silent'
  BY <1>1, <1>4, RecordKeepsMine DEF DrainCommand, Seen, Silent
<1> QED  BY <1>4, <1>5 DEF Seen

LEMMA SeenInOther ==
  ASSUME TypeOK, Seen, NEW c \in Others, OtherCommand(c)
  PROVE  Seen'
<1>1. PICK cmd \in Commands \ {"hold"}, ok \in BOOLEAN : Handle([from |-> c, cmd |-> cmd], ok)
  BY DEF OtherCommand
<1>2. [from |-> c, cmd |-> cmd] \in Requests /\ c \notin NotYet
  BY GoalsAssumption DEF Requests, NotYet
<1>3. Record /\ UNCHANGED <<channel, cmdQ, view>>  BY DEF OtherCommand
<1>4. Evidence' /\ EnteringIsMove' /\ SawActionIsMine' /\ \A g \in NotYet : lease' # g
  BY <1>1, <1>2, <1>3, EvidenceInHandle
<1>5. Silent'
  BY <1>3, <1>4, RecordKeepsMine DEF channel, Seen, Silent
<1> QED  BY <1>4, <1>5 DEF Seen

LEMMA SeenInStep ==
  ASSUME TypeOK, Seen, NEW g \in Goals, AcceptGoal(g) \/ RequestCancel(g) \/ Step(g)
  PROVE  Seen'
<1> USE DEF Seen, Silent, Evidence, EnteringIsMove, SawActionIsMine, Mine
<1>t. pc \in [Goals -> Phases]  BY DEF TypeOK, BridgeTypeOK
<1>a. UNCHANGED <<mode, entering, lease, stream, view>>
  BY DEF AcceptGoal, RequestCancel, Step, Fail, AskForLease, HearAcquire, MissReply, Confirm,
         Cancel, Iterate, Settle, HearHold, GiveBack, HearRelease, MissRelease, Finish,
         SendAction, ArmUntouched, sopod, arm
<1>1. CASE AcceptGoal(g)
  <2>1. UNCHANGED <<inbox, cmdQ, saw, followed, entered>>
    BY <1>1 DEF AcceptGoal, sopod, channel, history
  <2>2. NotYet' \subseteq NotYet /\ Running' \subseteq Running \cup {g} /\ g \in NotYet
    BY <1>1, <1>t DEF AcceptGoal, Goto, NotYet, Running, Active
  <2> QED  BY <1>a, <2>1, <2>2
<1>2. CASE Fail(g) \/ Cancel(g) \/ Confirm(g) \/ RequestCancel(g)
  <2>1. UNCHANGED <<inbox, cmdQ, saw, followed, entered>>
    BY <1>2 DEF Fail, Cancel, Confirm, RequestCancel, sopod, channel, goalVars, history
  <2>2. NotYet' \subseteq NotYet /\ Running' \subseteq Running
    BY <1>2, <1>t DEF Fail, Cancel, Confirm, RequestCancel, Goto, NotYet, Running, Active
  <2> QED  BY <1>a, <2>1, <2>2
<1>3. CASE Iterate(g) \/ Settle(g)
  <2>1. g \in Running  BY <1>3 DEF Iterate, Settle, Running, Active
  <2>2. view # None /\ view.lease = g
    BY <1>3, NoneAssumption DEF Iterate, Settle, Permitted
  <2>3. SawActionIsMine'
    BY <1>3, <2>1, <2>2 DEF Iterate, Settle, LiveNow, history
  <2>4. NotYet' \subseteq NotYet \ {g} /\ Running' \subseteq Running
    BY <1>3, <1>t DEF Iterate, Settle, Goto, NotYet, Running, Active
  <2>5. /\ \A m \in inbox' : m \in inbox \/ m.from = g
        /\ UNCHANGED <<cmdQ, followed, entered>>
    BY <1>3 DEF Iterate, Settle, SendAction, Call, channel, history
  <2> QED  BY <1>a, <2>3, <2>4, <2>5
<1>4. CASE AskForLease(g) \/ GiveBack(g)
  <2>1. NotYet' \subseteq NotYet \ {g} /\ Running' \subseteq Running
    BY <1>4, <1>t DEF AskForLease, GiveBack, Goto, NotYet, Running, Active
  <2>2. /\ \A m \in inbox' : m \in inbox \/ m.from = g
        /\ UNCHANGED <<cmdQ, saw, followed, entered>>
    BY <1>4 DEF AskForLease, GiveBack, Call, goalVars, history
  <2> QED  BY <1>a, <2>1, <2>2
<1>5. CASE HearAcquire(g) \/ HearHold(g) \/ HearRelease(g) \/ MissReply(g) \/ MissRelease(g)
  <2>1. NotYet' \subseteq NotYet /\ Running' \subseteq Running
    BY <1>5, <1>t DEF HearAcquire, HearHold, HearRelease, MissReply, MissRelease, Goto, NotYet,
                      Running, Active
  <2>2. UNCHANGED <<inbox, cmdQ, saw, followed, entered>>
    BY <1>5 DEF HearAcquire, HearHold, HearRelease, MissReply, MissRelease, Hear, TimeOut, history
  <2> QED  BY <1>a, <2>1, <2>2
<1>6. CASE Finish(g)
  <2>1. NotYet' \subseteq NotYet /\ Running' \subseteq Running \ {g}
    BY <1>6, <1>t DEF Finish, Goto, NotYet, Running, Active
  <2>2. inbox' \subseteq inbox /\ cmdQ' = cmdQ  BY <1>6 DEF Finish, Close
  <2>3. saw' = saw \ {g} /\ followed' = followed \ {g} /\ entered' = entered \ {g}
    BY <1>6 DEF Finish
  <2> QED  BY <1>a, <2>1, <2>2, <2>3
<1> QED  BY <1>1, <1>2, <1>3, <1>4, <1>5, <1>6 DEF Step

LEMMA SeenStep == TypeOK /\ Seen /\ [Next]_vars => Seen'
<1> SUFFICES ASSUME TypeOK, Seen, [Next]_vars PROVE Seen'
  OBVIOUS
<1>0. ASSUME UNCHANGED <<inbox, cmdQ, mode, entering, lease, stream, view, bridgeVars>> PROVE Seen'
  BY <1>0 DEF Seen, Silent, NotYet, Evidence, Running, Mine, EnteringIsMove, SawActionIsMine,
              bridgeVars, goalVars, history
<1>1. CASE (RepAnswer \/ RepBusy \/ Age) /\ UNCHANGED bridgeVars
  BY <1>0, <1>1 DEF RepAnswer, RepBusy, Age, channel, arm
<1>2. CASE RepReceive /\ UNCHANGED bridgeVars
  <2>1. PICK m \in inbox : inbox' = inbox \ {m} /\ cmdQ' = Append(cmdQ, m)
    BY <1>2 DEF RepReceive
  <2>2. \A i \in DOMAIN cmdQ' : cmdQ'[i] = m \/ (i \in DOMAIN cmdQ /\ cmdQ'[i] = cmdQ[i])
    <3>1. m \in Requests /\ cmdQ \in Seq(Requests)  BY DEF TypeOK, ChannelTypeOK
    <3>2. ASSUME NEW i \in DOMAIN cmdQ'
          PROVE  cmdQ'[i] = m \/ (i \in DOMAIN cmdQ /\ cmdQ'[i] = cmdQ[i])
      BY <2>1, <3>1, AppendFacts
    <3> QED  BY <3>2
  <2>3. UNCHANGED <<mode, entering, lease, stream, view, bridgeVars>>
    BY <1>2 DEF RepReceive, arm
  <2>4. Silent'
    BY <2>1, <2>2, <2>3 DEF Seen, Silent, NotYet, bridgeVars
  <2> QED
    BY <2>3, <2>4 DEF Seen, Evidence, Running, Mine, EnteringIsMove, SawActionIsMine, bridgeVars,
                      goalVars, history
<1>3. CASE DrainCommand /\ Record  BY <1>3, SeenInDrain
<1>4. CASE Cycle /\ Record  BY <1>4, SeenInCycle
<1>5. ASSUME NEW g \in Goals, AcceptGoal(g) \/ RequestCancel(g) \/ Step(g) PROVE Seen'
  BY <1>5, SeenInStep
<1>6. ASSUME NEW c \in Others, OtherCommand(c) PROVE Seen'
  BY <1>6, SeenInOther
<1>7. ASSUME NEW c \in Others, OtherDrives(c) PROVE Seen'
  BY <1>0, <1>7 DEF OtherDrives, SendAction, channel, arm
<1>8. CASE Kill
  <2>1. Running' = {} /\ NotYet' \subseteq NotYet
    BY <1>8 DEF Kill, Running, NotYet, Active
  <2>2. inbox' \subseteq inbox /\ UNCHANGED <<cmdQ, mode, entering, lease>> /\ view' = None /\ saw' = {}
    BY <1>8 DEF Kill, Close, arm
  <2> QED
    BY <2>1, <2>2 DEF Seen, Silent, Evidence, EnteringIsMove, SawActionIsMine
<1>9. CASE UNCHANGED vars
  BY <1>0, <1>9 DEF vars, sopod, channel, arm
<1> QED
  BY <1>1, <1>2, <1>3, <1>4, <1>5, <1>6, <1>7, <1>8, <1>9 DEF Next

\* What is known of the stream under the lease of a goal holds throughout.
LEMMA SeenHolds == Spec => []Seen
<1>1. Init => Seen
  <2> SUFFICES ASSUME Init PROVE Seen
    OBVIOUS
  <2>1. \A g \in Goals : g # Nobody  BY GoalsAreClients, ClientsAssumption
  <2>2. Running = {}  BY DEF Init, Running, Active
  <2>3. Silent  BY <2>1 DEF Init, ChannelInit, ArmInit, Silent, NotYet
  <2> QED
    BY <2>2, <2>3 DEF Init, ArmInit, Seen, Evidence, EnteringIsMove, SawActionIsMine
<1> QED  BY <1>1, SeenStep, TypeCorrect, PTL DEF Spec

\* Although the state is read a cycle late or later, a live stream under the own
\* lease is evidence that the daemon followed this trajectory, or entered MOVE
\* under it (SawActionIsMine; bridge.py 148, 163).
THEOREM SightIsEvidence == Spec => []SawActionIsMine
<1>1. Seen => SawActionIsMine  BY DEF Seen
<1> QED  BY <1>1, SeenHolds, PTL

----------------------------------------------------------------------------
(* What success means.                                                     *)

Kept(g) == g \in held /\ Mine(g)

\* A goal that asks for its final release was followed, and a release that was
\* answered with ok, or is about to be, has put its target in the stream.
HeldIsKept ==
  \A g \in Goals : pc[g] = "holding" =>
    /\ Mine(g)
    /\ posted # None => (posted.of.from = g /\ posted.of.cmd = "hold" /\ posted.ok => Kept(g))
    /\ answer[g] # None => (answer[g].of.cmd = "hold" /\ answer[g].ok => Kept(g))

Success == HeldIsKept /\ SuccessHolds

\* What the daemon does adds to the history of the running goals.
LEMMA RecordKeeps ==
  ASSUME Record, NEW g \in Goals
  PROVE  /\ Kept(g) => Kept(g)'
         /\ Mine(g) => Mine(g)'
BY DEF Record, Kept, Mine

\* A release that is taken puts the target in the stream.
LEMMA HoldIsKept ==
  ASSUME TypeOK, Record, NEW m \in Requests, m.cmd = "hold", m.from \in Running, Mine(m.from),
         Handle(m, TRUE)
  PROVE  Kept(m.from)'
<1>1. HandleHold(m.from, TRUE)  BY DEF Handle, Obey, Refuse
<1>2. stream' = [by |-> m.from, sticky |-> TRUE]
  BY <1>1 DEF HandleHold, Released, Refuse
<1> QED  BY <1>2 DEF Record, Kept, Mine

LEMMA SuccessInDrain ==
  ASSUME TypeOK, Matched, Success, DrainCommand, Record
  PROVE  Success'
<1> USE DEF Success
<1>1. SuccessHolds'
  BY RecordKeeps DEF Record, SuccessHolds, Kept, Mine
<1>2. Head(cmdQ) \in Requests
  BY DEF DrainCommand, TypeOK, ChannelTypeOK
<1>3. PICK ok \in BOOLEAN : Handle(Head(cmdQ), ok) /\ Post([of |-> Head(cmdQ), ok |-> ok])
  BY DEF DrainCommand
<1>4. ASSUME NEW g \in Goals, pc[g] = "holding"
      PROVE  /\ Mine(g)'
             /\ posted' # None =>
                  (posted'.of.from = g /\ posted'.of.cmd = "hold" /\ posted'.ok => Kept(g)')
             /\ answer[g] # None => (answer[g].of.cmd = "hold" /\ answer[g].ok => Kept(g)')
  <2>1. g \in Running /\ Mine(g) /\ Mine(g)'
    BY <1>4, RecordKeeps DEF Running, Active, HeldIsKept
  <2>2. CASE posted' = posted
    BY <1>4, <2>1, <2>2, RecordKeeps DEF HeldIsKept
  <2>3. CASE posted' = [of |-> Head(cmdQ), ok |-> ok]
    <3>1. Head(cmdQ).from = g /\ Head(cmdQ).cmd = "hold" /\ ok => Kept(g)'
      BY <1>2, <1>3, <2>1, HoldIsKept
    <3> QED  BY <1>4, <2>1, <2>3, <3>1, RecordKeeps DEF HeldIsKept
  <2> QED  BY <1>3, <2>2, <2>3 DEF Post
<1>5. HeldIsKept'
  BY <1>4 DEF HeldIsKept, DrainCommand, Record
<1> QED  BY <1>1, <1>5

LEMMA SuccessInStep ==
  ASSUME TypeOK, Matched, Seen, Success, NEW g \in Goals, AcceptGoal(g) \/ RequestCancel(g) \/ Step(g)
  PROVE  Success'
<1> USE DEF Success, HeldIsKept, SuccessHolds, Kept, Mine
<1>t. pc \in [Goals -> Phases] /\ outcome \in [Goals -> {"none", "succeeded", "canceled", "aborted"}]
  BY DEF TypeOK, BridgeTypeOK
<1>a. answer \in [Clients -> Replies \cup {None}] /\ g \in Clients
  BY GoalsAreClients DEF TypeOK, ChannelTypeOK
<1>1. CASE AcceptGoal(g) \/ RequestCancel(g) \/ Confirm(g) \/ Iterate(g)
  BY <1>1, <1>t DEF AcceptGoal, RequestCancel, Confirm, Iterate, Goto, SendAction, sopod, channel,
                    goalVars, history
<1>2. CASE Fail(g) \/ Cancel(g)
  BY <1>2, <1>t DEF Fail, Cancel, Report, Goto, sopod, channel, history
<1>3. CASE AskForLease(g) \/ GiveBack(g)
  BY <1>3, <1>t DEF AskForLease, GiveBack, Call, Goto, goalVars, history
<1>4. CASE Settle(g)
  <2>1. answer[g] = None /\ (posted # None => posted.of.from # g)
    <3>1. answer[g] = None /\ NothingAsked(g)
      BY <1>4, <1>a DEF Settle, Call, Matched, OneAtATime
    <3>2. posted # None => posted.of = serving /\ serving # None
      BY NoneAssumption DEF Matched, PostedFits, TypeOK, ChannelTypeOK, Replies
    <3> QED  BY <3>1, <3>2 DEF NothingAsked
  <2>2. Mine(g)
    <3>1. view # None /\ view.lease = g /\ ~view.stale /\ g \in Running
      BY <1>4, NoneAssumption DEF Settle, Permitted, StreamIsLive, Running, Active
    <3> QED  BY <3>1 DEF Seen, Evidence
  <2> QED  BY <1>4, <1>t, <2>1, <2>2 DEF Settle, Call, Goto, history
<1>5. CASE HearAcquire(g) \/ HearRelease(g) \/ MissReply(g) \/ MissRelease(g)
  <2>1. CASE HearAcquire(g) \/ HearRelease(g)
    <3>1. posted' = posted /\ \A h \in Goals : h # g => answer'[h] = answer[h] /\ pc'[h] = pc[h]
      BY <1>t, <1>a, <2>1, GoalsAreClients DEF HearAcquire, HearRelease, Hear, Goto
    <3>2. pc'[g] # "holding" /\ UNCHANGED history
      BY <1>t, <2>1 DEF HearAcquire, HearRelease, Goto
    <3>3. \A h \in Goals : outcome'[h] \in {outcome[h], "aborted"}
      BY <1>t, <2>1 DEF HearAcquire, HearRelease, Report
    <3> QED  BY <3>1, <3>2, <3>3 DEF history
  <2>2. CASE MissReply(g) \/ MissRelease(g)
    BY <1>t, <2>2 DEF MissReply, MissRelease, TimeOut, Report, Goto, history
  <2> QED  BY <1>5, <2>1, <2>2
<1>6. CASE HearHold(g)
  <2>1. answer[g] # None /\ answer[g].of.cmd = "hold"
    BY <1>6, CallOfTypes DEF HearHold, Hear, Matched, CallsFit, AsksItsCall
  <2>2. answer[g].ok => g \in held /\ g \in followed \cup entered
    BY <1>6, <2>1 DEF HearHold
  <2> QED  BY <1>6, <1>t, <1>a, <2>2 DEF HearHold, Hear, Report, Goto, history
<1>7. CASE Finish(g)
  BY <1>7, <1>t, <1>a, GoalsAreClients DEF Finish, Close, Report, Goto
<1> QED  BY <1>1, <1>2, <1>3, <1>4, <1>5, <1>6, <1>7 DEF Step

LEMMA SuccessStep == TypeOK /\ Matched /\ Seen /\ Success /\ [Next]_vars => Success'
<1> SUFFICES ASSUME TypeOK, Matched, Seen, Success, [Next]_vars PROVE Success'
  OBVIOUS
<1> USE GoalsAreClients DEF TypeOK, ChannelTypeOK
<1>0. ASSUME UNCHANGED <<answer, posted, pc, outcome, history>> PROVE Success'
  BY <1>0 DEF Success, HeldIsKept, SuccessHolds, Kept, Mine, history
<1>1. CASE (RepReceive \/ Age) /\ UNCHANGED bridgeVars
  BY <1>0, <1>1 DEF RepReceive, Age, channel, bridgeVars, goalVars
<1>2. CASE RepAnswer /\ UNCHANGED bridgeVars
  <2>1. posted.of = serving /\ serving.from \in Clients
    BY <1>2 DEF RepAnswer, Matched, PostedFits, Requests
  <2>2. \A g \in Goals : answer'[g] = answer[g] \/ (posted.of.from = g /\ answer'[g] = posted)
    BY <1>2, <2>1 DEF RepAnswer, Deliver
  <2> QED
    BY <1>2, <2>2 DEF RepAnswer, Success, HeldIsKept, SuccessHolds, Kept, Mine, bridgeVars, goalVars, history
<1>3. CASE RepBusy /\ UNCHANGED bridgeVars
  BY <1>0, <1>3 DEF RepBusy, Deliver, bridgeVars, goalVars
<1>4. CASE DrainCommand /\ Record
  BY <1>4, SuccessInDrain
<1>5. CASE UNCHANGED channel /\ Record
  BY <1>5, RecordKeeps DEF channel, Record, Success, HeldIsKept, SuccessHolds, Kept, Mine
<1>6. ASSUME NEW g \in Goals, AcceptGoal(g) \/ RequestCancel(g) \/ Step(g) PROVE Success'
  BY <1>6, SuccessInStep
<1>7. ASSUME NEW c \in Others, OtherDrives(c) PROVE Success'
  BY <1>0, <1>7 DEF OtherDrives, SendAction, channel, bridgeVars, goalVars
<1>8. CASE Kill
  BY <1>8 DEF Kill, Running, Active, Success, HeldIsKept, SuccessHolds
<1>9. CASE UNCHANGED vars
  BY <1>0, <1>9 DEF vars, sopod, channel, bridgeVars, goalVars
<1> QED
  BY <1>1, <1>2, <1>3, <1>4, <1>5, <1>6, <1>7, <1>8, <1>9 DEF Next, Cycle, OtherCommand

\* A trajectory is reported as reached only when its target was kept in the stream
\* and the arm had followed its own actions before it was released, or had entered
\* MOVE under its lease, whatever late replies and other clients do
\* (SuccessHolds; bridge.py 164-207, daemon.py 697-712).
THEOREM SuccessIsEarned == Spec => []SuccessHolds
<1>1. Init => Matched /\ Success
  BY NoneAssumption, GoalsAreClients
     DEF Init, ChannelInit, Matched, PostedFits, OneAtATime, NothingAsked, CallsFit, AsksItsCall,
         Success, HeldIsKept, SuccessHolds
<1>2. Success => SuccessHolds  BY DEF Success
<1> QED  BY <1>1, <1>2, MatchedStep, SeenHolds, SuccessStep, TypeCorrect, PTL DEF Spec

----------------------------------------------------------------------------
(* Leases that stay behind.                                                *)

NoneQueued(g) == \A i \in DOMAIN cmdQ : cmdQ[i].from # g

\* A request of g in the queue is the one the reply thread serves; g waits for
\* it, and no other one of g is queued.
QueuedOnce(g) ==
  /\ socket[g] # "broken"
  /\ \A m \in inbox : m.from = g => socket[g] = "waiting"
  /\ \A i \in DOMAIN cmdQ : cmdQ[i].from = g =>
       /\ serving = cmdQ[i] /\ posted = None /\ socket[g] = "waiting"
       /\ \A j \in DOMAIN cmdQ : cmdQ[j].from = g => j = i

\* What an answer to g says about the lease.
TellsLease(g, r) ==
  /\ r.of.cmd = "acquire" /\ ~r.ok => lease # g
  /\ r.of.cmd = "hold" /\ r.ok     => lease # g
  /\ r.of.cmd = "release"          => lease # g

AnswersTell(g) ==
  /\ posted # None => (posted.of.from = g => TellsLease(g, posted))
  /\ answer[g] # None => TellsLease(g, answer[g])

Holding == {"confirming", "streaming", "holding", "closing", "releasing"}

\* While g holds the lease it knows so, or is about to be told.
LeaseIsKnown(g) ==
  lease = g => \/ pc[g] = "acquiring" /\ NoneQueued(g) /\ \A m \in inbox : m.from # g
               \/ pc[g] \in Holding /\ g \in token

Returning(g) == QueuedOnce(g) /\ AnswersTell(g) /\ LeaseIsKnown(g)

Returns == \A g \in Goals \ unheard : Returning(g)

LEMMA WhenNoneQueued ==
  ASSUME TypeOK, Matched, NEW g \in Goals, QueuedOnce(g),
         socket[g] # "waiting" \/ answer[g] # None \/ posted # None \/ serving = None
  PROVE  NoneQueued(g)
<1> SUFFICES ASSUME NEW i \in DOMAIN cmdQ, cmdQ[i].from = g PROVE FALSE
  BY DEF NoneQueued
<1>1. cmdQ[i] \in Requests  BY DEF TypeOK, ChannelTypeOK
<1>2. serving = cmdQ[i] /\ posted = None /\ socket[g] = "waiting" /\ serving # None
  BY <1>1, NoneAssumption DEF QueuedOnce
<1>3. answer[g] # None => serving.from # g
  BY <1>2, GoalsAreClients DEF Matched, OneAtATime, NothingAsked
<1> QED  BY <1>2, <1>3

\* A step that neither g nor the daemon's arm nor the reply thread takes part in.
LEMMA ReturningElsewhere ==
  ASSUME NEW g \in Goals, Returning(g), UNCHANGED <<lease, serving, posted, cmdQ>>,
         pc'[g] = pc[g], socket'[g] = socket[g], answer'[g] = answer[g], g \in token => g \in token',
         \A m \in inbox' : m.from = g => m \in inbox
  PROVE  Returning(g)'
BY DEF Returning, QueuedOnce, AnswersTell, TellsLease, LeaseIsKnown, NoneQueued

\* Nothing of g is on its way, and its lease is gone.
LEMMA ReturningAtRest ==
  ASSUME NEW g \in Goals, lease' # g, socket'[g] # "broken", NoneQueued(g), cmdQ' = cmdQ,
         \A m \in inbox' : m.from # g
  PROVE  Returning(g)'
BY DEF Returning, QueuedOnce, AnswersTell, TellsLease, LeaseIsKnown, NoneQueued

LEMMA ReturningInArm ==
  ASSUME TypeOK, Matched, NEW g \in Goals, Returning(g),
         UNCHANGED <<channel, cmdQ, pc, token>>, lease' = g => lease = g
  PROVE  Returning(g)'
BY DEF Returning, QueuedOnce, AnswersTell, TellsLease, LeaseIsKnown, NoneQueued, channel

LEMMA ReturningInReceive ==
  ASSUME TypeOK, Matched, NEW g \in Goals, Returning(g), RepReceive, UNCHANGED <<pc, token>>
  PROVE  Returning(g)'
<1>1. PICK m \in inbox : serving' = m /\ inbox' = inbox \ {m} /\ cmdQ' = Append(cmdQ, m)
  BY DEF RepReceive
<1>2. m \in Requests /\ cmdQ \in Seq(Requests) /\ m # None
  BY NoneAssumption DEF TypeOK, ChannelTypeOK
<1>3. posted = None
  BY NoneAssumption DEF RepReceive, Matched, PostedFits, TypeOK, ChannelTypeOK, Replies
<1>4. UNCHANGED <<socket, answer, posted, lease, pc, token>>
  BY DEF RepReceive, arm
<1>5. NoneQueued(g)
  BY WhenNoneQueued DEF RepReceive, Returning
<1>6. ASSUME NEW i \in DOMAIN cmdQ' PROVE cmdQ'[i] = m \/ cmdQ'[i].from # g
  BY <1>1, <1>2, <1>5, <1>6, AppendFacts DEF NoneQueued
<1>7. ASSUME NEW i \in DOMAIN cmdQ', cmdQ'[i].from = g PROVE i = Len(cmdQ) + 1
  <2>1. i \in 1 .. Len(cmdQ) + 1 /\ Len(cmdQ) \in Nat  BY <1>1, <1>2, <1>7
  <2>2. i \in 1 .. Len(cmdQ) => i \in DOMAIN cmdQ /\ cmdQ'[i] = cmdQ[i]  BY <1>1, <1>2
  <2> QED  BY <1>5, <1>7, <2>1, <2>2 DEF NoneQueued
<1>8. QueuedOnce(g)'
  BY <1>1, <1>3, <1>4, <1>6, <1>7 DEF QueuedOnce, Returning
<1>9. LeaseIsKnown(g)'
  BY <1>1, <1>4, <1>6 DEF LeaseIsKnown, NoneQueued, Returning
<1> QED  BY <1>3, <1>4, <1>8, <1>9 DEF Returning, AnswersTell, TellsLease

\* The reply thread answers, with what was posted or with "daemon busy".
LEMMA ReturningInAnswer ==
  ASSUME TypeOK, Matched, NEW g \in Goals, Returning(g), RepAnswer \/ RepBusy, UNCHANGED <<pc, token>>
  PROVE  Returning(g)'
<1>1. serving \in Requests /\ serving.from \in Clients
  BY DEF RepAnswer, RepBusy, TypeOK, ChannelTypeOK, Requests
<1>2. UNCHANGED <<socket, inbox, cmdQ, lease>> /\ posted' = None
  BY DEF RepAnswer, RepBusy, arm
<1>3. NoneQueued(g)
  <2>1. CASE RepAnswer  BY <2>1, WhenNoneQueued DEF RepAnswer, Returning
  <2>2. CASE RepBusy
    <3>1. \A i \in DOMAIN cmdQ : cmdQ[i].from = g => serving = cmdQ[i] /\ socket[g] = "waiting"
      BY DEF Returning, QueuedOnce
    <3> QED  BY <2>2, <3>1 DEF RepBusy, NoneQueued
  <2> QED  BY <2>1, <2>2
<1>4. answer'[g] = answer[g] \/ (posted # None /\ posted.of.from = g /\ answer'[g] = posted)
  <2>1. CASE RepBusy  BY <2>1 DEF RepBusy, Deliver
  <2>2. CASE RepAnswer
    <3>1. posted # None /\ posted.of = serving  BY <2>2 DEF RepAnswer, Matched, PostedFits
    <3>2. answer' = answer \/ answer' = [answer EXCEPT ![serving.from] = posted]
      BY <2>2 DEF RepAnswer, Deliver
    <3> QED  BY <1>1, <3>1, <3>2, GoalsAreClients DEF TypeOK, ChannelTypeOK
  <2> QED  BY <2>1, <2>2
<1> QED
  BY <1>2, <1>3, <1>4 DEF Returning, QueuedOnce, AnswersTell, TellsLease, LeaseIsKnown, NoneQueued

\* What the daemon makes of a request of g, and what it posts.
LEMMA HandleTells ==
  ASSUME TypeOK, Owned, NEW m \in Requests, NEW ok \in BOOLEAN, Handle(m, ok), m.from # Nobody,
         m.cmd = "acquire" => lease # m.from
  PROVE  /\ m.cmd = "acquire" /\ ~ok => lease' # m.from
         /\ m.cmd = "hold" /\ ok     => lease' # m.from
         /\ m.cmd = "release"        => lease' # m.from
<1>0. Locked(m) => Refuse(ok) /\ lease = Nobody
  BY DEF Handle, Locked, Owned, LatchedUnowned
<1>1. CASE m.cmd = "acquire"
  BY <1>0, <1>1 DEF Handle, Obey, HandleAcquire, Refuse, arm
<1>2. CASE m.cmd = "hold"
  BY <1>0, <1>2 DEF Handle, Obey, HandleHold, Released, Refuse, arm
<1>3. CASE m.cmd = "release"
  BY <1>0, <1>3 DEF Handle, Obey, HandleRelease, Released, Refuse, arm
<1> QED  BY <1>1, <1>2, <1>3

LEMMA ReturningInDrain ==
  ASSUME TypeOK, Owned, Matched, EnteringIsMove, NEW g \in Goals, Returning(g), DrainCommand,
         UNCHANGED <<pc, token>>
  PROVE  Returning(g)'
<1>1. /\ cmdQ # << >> /\ cmdQ' = Tail(cmdQ) /\ cmdQ \in Seq(Requests)
      /\ UNCHANGED <<socket, answer, inbox, serving>>
  BY DEF DrainCommand, TypeOK, ChannelTypeOK
<1> DEFINE m == Head(cmdQ)
<1>2. m \in Requests /\ 1 \in DOMAIN cmdQ /\ m = cmdQ[1]
  BY <1>1, HeadFacts
<1>3. PICK ok \in BOOLEAN : Handle(m, ok) /\ Post([of |-> m, ok |-> ok])
  BY DEF DrainCommand
<1>4. ASSUME NEW i \in DOMAIN cmdQ'
      PROVE  i \in Nat \ {0} /\ i + 1 \in DOMAIN cmdQ /\ cmdQ'[i] = cmdQ[i + 1]
  BY <1>1, <1>4, TailFacts
<1>5. lease' = g => lease = g \/ (m.from = g /\ m.cmd = "acquire")
  <2>1. g # Nobody  BY GoalsAreClients, ClientsAssumption
  <2>2. ArmOK  BY DEF TypeOK, ArmTypeOK, ArmOK
  <2> QED  BY <1>2, <1>3, <2>1, <2>2, HandleLeaves
<1>6. CASE m.from # g
  <2>1. lease' = g => lease = g  BY <1>5, <1>6
  <2>2. QueuedOnce(g)'
    <3>1. posted' = posted \/ serving = m  BY <1>3 DEF Post
    <3>2. \A i \in DOMAIN cmdQ' : cmdQ'[i].from = g => posted' = None
      BY <1>4, <1>6, <3>1 DEF Returning, QueuedOnce
    <3>3. \A i, j \in DOMAIN cmdQ' : cmdQ'[i].from = g /\ cmdQ'[j].from = g => j = i
      <4> SUFFICES ASSUME NEW i \in DOMAIN cmdQ', NEW j \in DOMAIN cmdQ',
                          cmdQ'[i].from = g, cmdQ'[j].from = g
                   PROVE  j = i
        OBVIOUS
      <4>1. i \in Nat /\ i + 1 \in DOMAIN cmdQ /\ cmdQ[i + 1].from = g  BY <1>4
      <4>2. j \in Nat /\ j + 1 \in DOMAIN cmdQ /\ cmdQ[j + 1].from = g  BY <1>4
      <4>3. j + 1 = i + 1  BY <4>1, <4>2 DEF Returning, QueuedOnce
      <4> QED  BY <4>1, <4>2, <4>3
    <3>4. \A i \in DOMAIN cmdQ' : cmdQ'[i].from = g => serving = cmdQ'[i] /\ socket[g] = "waiting"
      BY <1>4 DEF Returning, QueuedOnce
    <3> QED  BY <1>1, <3>2, <3>3, <3>4 DEF Returning, QueuedOnce
  <2>3. AnswersTell(g)'
    <3>1. posted' # None /\ posted'.of.from = g => posted' = posted
      BY <1>3, <1>6 DEF Post
    <3> QED  BY <1>1, <2>1, <3>1 DEF Returning, AnswersTell, TellsLease
  <2>4. LeaseIsKnown(g)'
    BY <1>1, <1>4, <2>1 DEF Returning, LeaseIsKnown, NoneQueued
  <2> QED  BY <2>2, <2>3, <2>4 DEF Returning
<1>7. CASE m.from = g
  <2>1. serving = m /\ posted = None /\ socket[g] = "waiting"
    BY <1>2, <1>7 DEF Returning, QueuedOnce
  <2>2. pc[g] \in Calling /\ m.cmd = CallOf[pc[g]] /\ answer[g] = None /\ \A n \in inbox : n.from # g
    <3>1. serving # None  BY <1>2, <2>1, NoneAssumption
    <3>2. pc[g] \in Calling /\ m.cmd = CallOf[pc[g]]
      BY <1>7, <2>1, <3>1 DEF Matched, CallsFit, AsksItsCall
    <3>3. answer[g] = None
      BY <1>7, <2>1, <3>1, GoalsAreClients DEF Matched, OneAtATime, NothingAsked
    <3>4. \A n \in inbox : n.from # g
      BY <1>7, <2>1, <3>1, GoalsAreClients DEF Matched, OneAtATime
    <3> QED  BY <3>2, <3>3, <3>4
  <2>3. NoneQueued(g)'
    <3> SUFFICES ASSUME NEW i \in DOMAIN cmdQ', cmdQ'[i].from = g PROVE FALSE
      BY DEF NoneQueued
    <3>1. i \in Nat \ {0} /\ i + 1 \in DOMAIN cmdQ /\ cmdQ[i + 1].from = g  BY <1>4
    <3>2. i + 1 = 1  BY <1>2, <1>7, <3>1 DEF Returning, QueuedOnce
    <3> QED  BY <3>1, <3>2
  <2>4. QueuedOnce(g)'
    BY <1>1, <2>3 DEF Returning, QueuedOnce, NoneQueued
  <2>5. m.cmd = "acquire" => pc[g] = "acquiring"
    BY <2>2, CallOfTypes DEF Calling
  <2>6. m.cmd = "acquire" => lease # g
    <3>1. lease = g /\ pc[g] = "acquiring" => NoneQueued(g)
      BY DEF Returning, LeaseIsKnown, Holding
    <3> QED  BY <1>2, <1>7, <2>5, <3>1 DEF NoneQueued
  <2>7. posted' = [of |-> m, ok |-> ok]  BY <1>3, <2>1 DEF Post
  <2>8. AnswersTell(g)'
    <3>1. g # Nobody  BY GoalsAreClients, ClientsAssumption
    <3>2. /\ m.cmd = "acquire" /\ ~ok => lease' # g
          /\ m.cmd = "hold" /\ ok     => lease' # g
          /\ m.cmd = "release"        => lease' # g
      BY <1>2, <1>3, <1>7, <2>6, <3>1, HandleTells
    <3>3. posted'.of = m /\ posted'.ok = ok /\ answer'[g] = None  BY <1>1, <2>2, <2>7
    <3> QED  BY <3>2, <3>3 DEF AnswersTell, TellsLease
  <2>9. LeaseIsKnown(g)'
    BY <1>1, <1>5, <2>2, <2>3, <2>5 DEF Returning, LeaseIsKnown, NoneQueued
  <2> QED  BY <2>4, <2>8, <2>9 DEF Returning
<1> QED  BY <1>6, <1>7

\* The steps of execute() and the action server.
LEMMA ReturnsInStep ==
  ASSUME TypeOK, Matched, Returns, NEW g \in Goals, AcceptGoal(g) \/ RequestCancel(g) \/ Step(g),
         NEW h \in Goals \ unheard'
  PROVE  Returning(h)'
<1>t. /\ pc \in [Goals -> Phases] /\ g \in Clients /\ h \in Clients
      /\ socket \in [Clients -> {"open", "waiting", "broken", "closed"}]
      /\ answer \in [Clients -> Replies \cup {None}]
  BY GoalsAreClients DEF TypeOK, BridgeTypeOK, ChannelTypeOK
<1>0. UNCHANGED <<lease, serving, posted, cmdQ>>
  BY DEF AcceptGoal, RequestCancel, Step, Fail, AskForLease, HearAcquire, MissReply, Confirm,
         Cancel, Iterate, Settle, HearHold, GiveBack, HearRelease, MissRelease, Finish, Call, Hear,
         TimeOut, Close, SendAction, ArmUntouched, sopod, channel, arm
<1>1. h \notin unheard /\ Returning(h)
  <2>1. unheard \subseteq unheard'
    BY DEF AcceptGoal, RequestCancel, Step, Fail, AskForLease, HearAcquire, MissReply, Confirm,
           Cancel, Iterate, Settle, HearHold, GiveBack, HearRelease, MissRelease, Finish, goalVars
  <2> QED  BY <2>1 DEF Returns
<1>2. CASE h # g
  <2>1. /\ pc'[h] = pc[h] /\ socket'[h] = socket[h] /\ answer'[h] = answer[h]
    BY <1>t, <1>2 DEF AcceptGoal, RequestCancel, Step, Fail, AskForLease, HearAcquire, MissReply,
           Confirm, Cancel, Iterate, Settle, HearHold, GiveBack, HearRelease, MissRelease, Finish,
           Call, Hear, TimeOut, Close, SendAction, sopod, channel, Goto
  <2>2. h \in token => h \in token'
    BY <1>2 DEF AcceptGoal, RequestCancel, Step, Fail, AskForLease, HearAcquire, MissReply,
           Confirm, Cancel, Iterate, Settle, HearHold, GiveBack, HearRelease, MissRelease, Finish,
           goalVars
  <2>3. \A m \in inbox' : m.from = h => m \in inbox
    BY <1>2 DEF AcceptGoal, RequestCancel, Step, Fail, AskForLease, HearAcquire, MissReply,
           Confirm, Cancel, Iterate, Settle, HearHold, GiveBack, HearRelease, MissRelease, Finish,
           Call, Hear, TimeOut, Close, SendAction, sopod, channel
  <2> QED  BY <1>0, <1>1, <2>1, <2>2, <2>3, ReturningElsewhere
<1>3. CASE h = g
  <2>k. lease = g => \/ pc[g] = "acquiring"
                     \/ pc[g] \in Holding /\ g \in token
    BY <1>1, <1>3 DEF Returning, LeaseIsKnown
  <2>1. CASE AcceptGoal(g) \/ RequestCancel(g) \/ Fail(g) \/ Confirm(g) \/ Cancel(g) \/ Iterate(g)
    <3>1. UNCHANGED <<socket, answer, inbox, token>>
      BY <2>1 DEF AcceptGoal, RequestCancel, Fail, Confirm, Cancel, Iterate, SendAction, sopod,
                  channel, goalVars
    <3>2. QueuedOnce(g)' /\ AnswersTell(g)'
      BY <1>0, <1>1, <1>3, <3>1 DEF Returning, QueuedOnce, AnswersTell, TellsLease
    <3>3. \/ pc' = pc
          \/ pc[g] \notin {"acquiring"} \cup Holding
          \/ pc[g] \in Holding /\ pc'[g] \in Holding
      BY <1>t, <2>1 DEF AcceptGoal, RequestCancel, Fail, Confirm, Cancel, Iterate, Goto, Holding
    <3>4. LeaseIsKnown(g)'
      BY <1>0, <1>1, <1>3, <2>k, <3>1, <3>3 DEF Returning, LeaseIsKnown, NoneQueued, Holding
    <3> QED  BY <1>3, <3>2, <3>4 DEF Returning
  <2>2. CASE AskForLease(g) \/ Settle(g) \/ GiveBack(g)
    <3>1. /\ socket[g] = "open" /\ socket'[g] = "waiting" /\ answer' = answer /\ token' = token
          /\ answer[g] = None
      BY <1>t, <2>2 DEF AskForLease, Settle, GiveBack, Call, goalVars, Matched, OneAtATime
    <3>2. NoneQueued(g)
      BY <1>1, <1>3, <3>1, WhenNoneQueued DEF Returning
    <3>3. posted # None => posted.of.from # g
      <4>1. serving # None => serving.from # g
        BY <1>t, <3>1 DEF Matched, OneAtATime, NothingAsked
      <4>2. posted # None => posted.of = serving /\ serving # None
        BY NoneAssumption DEF Matched, PostedFits, TypeOK, ChannelTypeOK, Replies
      <4> QED  BY <4>1, <4>2
    <3>4. QueuedOnce(g)' /\ AnswersTell(g)'
      BY <1>0, <3>1, <3>2, <3>3 DEF QueuedOnce, AnswersTell, NoneQueued
    <3>5. LeaseIsKnown(g)'
      BY <1>0, <1>t, <2>2, <2>k, <3>1 DEF AskForLease, Settle, GiveBack, Goto, LeaseIsKnown, Holding
    <3> QED  BY <1>3, <3>4, <3>5 DEF Returning
  <2>3. CASE HearAcquire(g) \/ HearHold(g) \/ HearRelease(g)
    <3>1. /\ socket[g] = "waiting" /\ answer[g] # None /\ inbox' = inbox
          /\ socket'[g] = "open" /\ answer'[g] = None
      BY <1>t, <2>3 DEF HearAcquire, HearHold, HearRelease, Hear
    <3>2. NoneQueued(g) /\ NothingAsked(g)
      BY <1>t, <1>1, <1>3, <3>1, WhenNoneQueued DEF Returning, Matched, OneAtATime
    <3>3. posted # None => posted.of.from # g
      BY <3>2, NoneAssumption
         DEF NothingAsked, Matched, PostedFits, TypeOK, ChannelTypeOK, Replies
    <3>4. QueuedOnce(g)' /\ AnswersTell(g)'
      BY <1>0, <3>1, <3>2, <3>3 DEF QueuedOnce, AnswersTell, NoneQueued, NothingAsked
    <3>5. answer[g].of.cmd = CallOf[pc[g]] /\ TellsLease(g, answer[g])
      BY <1>1, <1>3, <3>1 DEF Matched, CallsFit, AsksItsCall, Returning, AnswersTell
    <3>6. lease' = lease  BY <1>0
    <3>7. lease = g => pc'[g] \in Holding /\ g \in token'
      <4> SUFFICES ASSUME lease = g PROVE pc'[g] \in Holding /\ g \in token'
        OBVIOUS
      <4>1. CASE HearAcquire(g)
        <5>1. pc[g] = "acquiring"  BY <4>1 DEF HearAcquire
        <5>2. answer[g].ok  BY <3>5, <5>1, CallOfTypes DEF TellsLease
        <5>3. pc' = [pc EXCEPT ![g] = "confirming"] /\ token' = token \cup {g}
          BY <4>1, <5>2 DEF HearAcquire, Goto
        <5> QED  BY <1>t, <5>3 DEF Holding
      <4>2. CASE HearHold(g)
        <5>1. pc[g] = "holding"  BY <4>2 DEF HearHold
        <5>2. ~answer[g].ok  BY <3>5, <5>1, CallOfTypes DEF TellsLease
        <5>3. pc' = [pc EXCEPT ![g] = "closing"] /\ token' = token
          BY <4>2, <5>2 DEF HearHold, Goto
        <5>4. g \in token  BY <2>k, <5>1
        <5> QED  BY <1>t, <5>3, <5>4 DEF Holding
      <4>3. CASE HearRelease(g)
        <5>1. pc[g] = "releasing"  BY <4>3 DEF HearRelease
        <5> QED  BY <3>5, <5>1, CallOfTypes DEF TellsLease
      <4> QED  BY <2>3, <4>1, <4>2, <4>3
    <3>9. LeaseIsKnown(g)'  BY <3>6, <3>7 DEF LeaseIsKnown
    <3> QED  BY <1>3, <3>4, <3>9 DEF Returning
  <2>4. CASE MissReply(g) \/ MissRelease(g)
    BY <1>3, <2>4 DEF MissReply, MissRelease
  <2>5. CASE Finish(g)
    <3>1. pc[g] \notin Calling /\ socket[g] # "broken"
      BY <1>1, <1>3, <2>5 DEF Finish, Calling, Returning, QueuedOnce
    <3>2. socket[g] # "waiting"
      BY <3>1 DEF Matched, CallsFit, AsksItsCall
    <3>3. lease # g
      BY <2>5, <2>k, <3>1 DEF Finish, Holding
    <3>4. NoneQueued(g)
      BY <1>1, <1>3, <3>2, WhenNoneQueued DEF Returning
    <3>5. socket'[g] = "closed" /\ \A m \in inbox' : m.from # g
      BY <1>1, <1>3, <1>t, <2>5, <3>2 DEF Finish, Close, Returning, QueuedOnce
    <3> QED  BY <1>0, <1>3, <3>3, <3>4, <3>5 DEF Returning, QueuedOnce, AnswersTell, TellsLease,
                 LeaseIsKnown, NoneQueued, Finish, Close
  <2> QED  BY <2>1, <2>2, <2>3, <2>4, <2>5 DEF Step
<1> QED  BY <1>2, <1>3

LEMMA ReturnsStep ==
  TypeOK /\ Owned /\ Matched /\ EnteringIsMove /\ Returns /\ [Next]_vars => Returns'
<1> SUFFICES ASSUME TypeOK, Owned, Matched, EnteringIsMove, Returns, [Next]_vars,
                    NEW h \in Goals \ unheard'
             PROVE  Returning(h)'
  BY DEF Returns
<1>0. unheard' = unheard => Returning(h)  BY DEF Returns
<1>1. CASE RepReceive /\ UNCHANGED bridgeVars
  BY <1>0, <1>1, ReturningInReceive DEF bridgeVars, goalVars
<1>2. CASE (RepAnswer \/ RepBusy) /\ UNCHANGED bridgeVars
  BY <1>0, <1>2, ReturningInAnswer DEF bridgeVars, goalVars
<1>3. CASE DrainCommand /\ Record
  BY <1>0, <1>3, ReturningInDrain DEF Record
<1>4. CASE Cycle /\ Record
  <2>1. UNCHANGED <<channel, cmdQ, pc, token, unheard>>  BY <1>4 DEF Cycle, Record
  <2>2. lease' = h => lease = h
    BY <1>4, GoalsAreClients, ClientsAssumption DEF Cycle, Judge
  <2> QED  BY <1>0, <2>1, <2>2, ReturningInArm
<1>5. CASE Age /\ UNCHANGED bridgeVars
  BY <1>0, <1>5, ReturningInArm DEF Age, bridgeVars, goalVars
<1>6. ASSUME NEW g \in Goals, AcceptGoal(g) \/ RequestCancel(g) \/ Step(g) PROVE Returning(h)'
  BY <1>6, ReturnsInStep
<1>7. ASSUME NEW c \in Others, OtherCommand(c) PROVE Returning(h)'
  <2>1. PICK cmd \in Commands \ {"hold"}, ok \in BOOLEAN : Handle([from |-> c, cmd |-> cmd], ok)
    BY <1>7 DEF OtherCommand
  <2>2. [from |-> c, cmd |-> cmd] \in Requests /\ c # h /\ h # Nobody
    BY GoalsAssumption, ClientsAssumption DEF Requests
  <2>3. ArmOK  BY DEF TypeOK, ArmTypeOK, ArmOK
  <2>4. lease' = h => lease = h
    BY <2>1, <2>2, <2>3, HandleLeaves
  <2>5. UNCHANGED <<channel, cmdQ, pc, token, unheard>>  BY <1>7 DEF OtherCommand, Record
  <2> QED  BY <1>0, <2>4, <2>5, ReturningInArm
<1>8. ASSUME NEW c \in Others, OtherDrives(c) PROVE Returning(h)'
  BY <1>0, <1>8, ReturningInArm DEF OtherDrives, SendAction, arm, bridgeVars, goalVars
<1>9. CASE Kill
  <2>1. h \notin Running /\ h \notin unheard /\ Returning(h)
    BY <1>9 DEF Kill, Returns
  <2>2. pc'[h] = pc[h] /\ UNCHANGED <<lease, serving, posted, cmdQ>>
    BY <1>9, <2>1 DEF Kill, Close, arm
  <2>3. socket'[h] = socket[h] /\ answer'[h] = answer[h] /\ inbox' \subseteq inbox
    BY <1>9, <2>1, GoalsAreClients DEF Kill, Close
  <2>4. lease # h
    BY <2>1 DEF Running, Active, Returning, LeaseIsKnown, Holding
  <2> QED
    BY <2>1, <2>2, <2>3, <2>4
       DEF Returning, QueuedOnce, AnswersTell, TellsLease, LeaseIsKnown
<1>10. CASE UNCHANGED vars
  BY <1>0, <1>10, ReturningInArm DEF vars, sopod, arm, bridgeVars, goalVars
<1> QED
  BY <1>1, <1>2, <1>3, <1>4, <1>5, <1>6, <1>7, <1>8, <1>9, <1>10 DEF Next

\* A lease stays behind only when a reply of its trajectory was lost or its process
\* was killed (OrphanNeedsLoss; bridge.py 128-137).
THEOREM LeasesReturn == Spec => []OrphanNeedsLoss
<1>1. Init => Matched /\ Returns /\ EnteringIsMove
  <2> SUFFICES ASSUME Init PROVE Matched /\ Returns /\ EnteringIsMove
    OBVIOUS
  <2>1. Matched
    BY NoneAssumption, GoalsAreClients
       DEF Init, ChannelInit, Matched, PostedFits, OneAtATime, NothingAsked, CallsFit, AsksItsCall
  <2>2. \A g \in Goals : g # Nobody /\ g \in Clients  BY GoalsAreClients, ClientsAssumption
  <2>3. Returns
    BY <2>2 DEF Init, ChannelInit, ArmInit, Returns, Returning, QueuedOnce, AnswersTell, LeaseIsKnown
  <2> QED  BY <2>1, <2>3 DEF Init, ArmInit, EnteringIsMove
<1>2. Returns => OrphanNeedsLoss
  BY DEF Returns, Returning, LeaseIsKnown, Holding, OrphanNeedsLoss
<1>3. TypeOK /\ EnteringIsMove /\ [Next]_vars => EnteringIsMove'
  <2> SUFFICES ASSUME TypeOK, EnteringIsMove, [Next]_vars PROVE EnteringIsMove'
    OBVIOUS
  <2>1. ArmOK  BY DEF TypeOK, ArmTypeOK, ArmOK
  <2>2. CycleArm => EnteringIsMove'
    BY DEF CycleArm, Judge, EnteringIsMove
  <2>3. UNCHANGED <<mode, entering, lease, stream>> => EnteringIsMove'
    BY DEF EnteringIsMove
  <2> QED  BY <2>1, <2>2, <2>3, NextArm, HandleLeaves
<1> QED  BY <1>1, <1>2, <1>3, MatchedStep, ReturnsStep, OwnedHolds, PTL DEF Spec

=============================================================================
