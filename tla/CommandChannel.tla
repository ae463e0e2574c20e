--------------------------- MODULE CommandChannel ---------------------------
(***************************************************************************)
(* What lies between a client process and sopod: the REQ socket of         *)
(* SopoClient (sopo/runtime/client.py), the reply thread of the daemon     *)
(* with its command queue, the action socket of which the last message     *)
(* counts, and the state topic (sopo/runtime/daemon.py).                   *)
(*                                                                         *)
(* Deadlines are abstracted to choices: a receive may time out whenever no *)
(* answer is there, the reply thread may say "daemon busy" whenever the    *)
(* loop has not answered yet.  The daemon is as much of Daemon.tla as a    *)
(* client can tell apart: REFLEX stands for every mode that latches, idle  *)
(* for guiding too, init is a move or a goto that may end in a trip; a     *)
(* reset that did not complete is a mode of its own.                       *)
(***************************************************************************)
EXTENDS Naturals, FiniteSets, Sequences

CONSTANTS
  Clients,   \* processes with a SopoClient, each acquiring under its own name
  Nobody,    \* no client
  None       \* Python's None: no request, no reply, no state to go by

ASSUME ClientsAssumption == Nobody \notin Clients

VARIABLES
  socket,     \* the REQ socket of each client
  answer,     \* the reply each open REQ socket has received
  inbox,      \* requests that reached the REP socket, or are on their way
  serving,    \* the request the reply thread waits for
  cmdQ,       \* cmd_q
  posted,     \* what lies in reply_q, the queue made for that request
  inFlight,   \* whose actions are on their way to the action socket
  mode,       \* self.mode
  entering,   \* self.entry_target is not None
  lease,      \* the client whose token self.lease holds
  stream,     \* the stream's action: who pushed it and whether it is sticky
  aged,       \* the watchdog time has passed since the last push
  stale,      \* self.stream.stale
  view        \* the last state message that reached the bridge, if it may go by it

channel == <<socket, answer, inbox, serving, posted>>
arm     == <<mode, entering, lease, stream, aged, stale>>
sopod   == <<channel, cmdQ, inFlight, arm, view>>

Commands == {"acquire", "release", "hold", "move", "idle", "recover", "goto", "reset"}
Requests == [from : Clients, cmd : Commands]
Replies  == [of : Requests, ok : BOOLEAN]
Contents == [by : Clients \cup {Nobody}, sticky : BOOLEAN]
\* What else a state message says that says comm_ok, MOVE and no power mode; any
\* other one stops a trajectory wherever it is read.
InMove   == [entering : BOOLEAN, lease : Clients \cup {Nobody}, stale : BOOLEAN]

ASSUME NoneAssumption == None \notin Requests \cup Replies \cup InMove

Empty == [by |-> Nobody, sticky |-> FALSE]
Seed  == [by |-> Nobody, sticky |-> TRUE]     \* what a command pushed

ChannelTypeOK ==
  /\ socket \in [Clients -> {"open", "waiting", "broken", "closed"}]
  /\ answer \in [Clients -> Replies \cup {None}]
  /\ inbox \subseteq Requests
  /\ serving \in Requests \cup {None}
  /\ cmdQ \in Seq(Requests)
  /\ posted \in Replies \cup {None}

ArmTypeOK ==
  /\ inFlight \subseteq Clients
  /\ mode \in {"idle", "move", "reflex", "failed"}
  /\ entering \in BOOLEAN
  /\ lease \in Clients \cup {Nobody}
  /\ stream \in Contents
  /\ aged \in BOOLEAN
  /\ stale \in BOOLEAN
  /\ view \in InMove \cup {None}

ChannelInit ==
  /\ socket = [c \in Clients |-> "open"]
  /\ answer = [c \in Clients |-> None]
  /\ inbox = {}
  /\ serving = None
  /\ cmdQ = << >>
  /\ posted = None

\* sopod is up; it may have been anywhere since it started.
ArmInit ==
  /\ inFlight = {}
  /\ mode \in {"idle", "move"}
  /\ entering = FALSE
  /\ lease = Nobody
  /\ stream = IF mode = "move" THEN Seed ELSE Empty
  /\ aged = FALSE
  /\ stale = (mode = "idle")
  /\ view = None

----------------------------------------------------------------------------
(* SopoClient                                                              *)

\* command(): a REQ socket sends only when it is not waiting for a reply.
Call(c, cmd) ==
  /\ socket[c] = "open"
  /\ socket' = [socket EXCEPT ![c] = "waiting"]
  /\ inbox' = inbox \cup {[from |-> c, cmd |-> cmd]}
  /\ UNCHANGED <<answer, serving, posted, cmdQ>>

Hear(c) ==
  /\ socket[c] = "waiting"
  /\ answer[c] # None
  /\ socket' = [socket EXCEPT ![c] = "open"]
  /\ answer' = [answer EXCEPT ![c] = None]
  /\ UNCHANGED <<inbox, serving, posted, cmdQ>>

\* RCVTIMEO: the socket is left between a send and its receive, and refuses
\* every later send.
TimeOut(c) ==
  /\ socket[c] = "waiting"
  /\ answer[c] = None
  /\ socket' = [socket EXCEPT ![c] = "broken"]
  /\ UNCHANGED <<answer, inbox, serving, posted, cmdQ>>

\* close(linger=0), or the end of the process: what has not left may be lost,
\* what comes back is dropped.
Close(C) ==
  /\ socket' = [c \in Clients |-> IF c \in C THEN "closed" ELSE socket[c]]
  /\ answer' = [c \in Clients |-> IF c \in C THEN None ELSE answer[c]]
  /\ \E left \in SUBSET {m \in inbox : m.from \in C} : inbox' = inbox \ left
  /\ UNCHANGED <<serving, posted, cmdQ>>

SendAction(c) ==
  /\ inFlight' = inFlight \cup {c}
  /\ UNCHANGED <<channel, cmdQ, arm, view>>

----------------------------------------------------------------------------
(* The reply thread                                                        *)

RepReceive ==
  /\ serving = None
  /\ \E m \in inbox :
       /\ serving' = m
       /\ inbox' = inbox \ {m}
       /\ cmdQ' = Append(cmdQ, m)
  /\ UNCHANGED <<socket, answer, posted, inFlight, arm, view>>

\* rep.send_json: it reaches the requester if that still waits for it.
Deliver(c, reply) ==
  answer' = IF socket[c] = "waiting" THEN [answer EXCEPT ![c] = reply] ELSE answer

RepAnswer ==
  /\ serving # None
  /\ posted # None
  /\ Deliver(serving.from, posted)
  /\ serving' = None
  /\ posted' = None
  /\ UNCHANGED <<socket, inbox, cmdQ, inFlight, arm, view>>

\* reply_q.get(timeout=60): "daemon busy"; the command stays queued.  The
\* requester has given up by then: its own deadline is 300 ms.
RepBusy ==
  /\ serving # None
  /\ socket[serving.from] # "waiting"
  /\ posted = None
  /\ Deliver(serving.from, [of |-> serving, ok |-> FALSE])
  /\ serving' = None
  /\ UNCHANGED <<socket, inbox, posted, cmdQ, inFlight, arm, view>>

----------------------------------------------------------------------------
(* The command handlers                                                    *)

Refuse(ok) == ~ok /\ UNCHANGED arm

\* mutant: the stream of whoever streamed last is kept
HandleAcquireKeeping(c, ok) ==
  \/ /\ ok
     /\ ~entering
     /\ mode # "reflex"
     /\ lease \in {Nobody, c}
     /\ lease' = c
     /\ UNCHANGED <<stream, mode, entering, aged, stale>>
  \/ /\ entering \/ mode = "reflex" \/ lease \notin {Nobody, c}
     /\ Refuse(ok)

HandleAcquire(c, ok) ==
  \/ /\ ok
     /\ ~entering
     /\ mode # "reflex"
     /\ lease \in {Nobody, c}
     /\ lease' = c
     /\ stream' = Empty
     /\ aged' = FALSE
     /\ UNCHANGED <<mode, entering, stale>>
  \/ /\ entering \/ mode = "reflex" \/ lease \notin {Nobody, c}
     /\ Refuse(ok)

\* _revoke, and what a release that holds pushes afterwards.
Released(content) ==
  /\ lease' = Nobody
  /\ stream' = content
  /\ aged' = FALSE
  /\ UNCHANGED <<mode, entering, stale>>

HandleRelease(c, ok) ==
  IF lease = c THEN ok /\ Released(Empty) ELSE Refuse(ok)

\* release(hold=...): the final target is kept without a stream.
HandleHold(c, ok) ==
  IF lease = c /\ mode = "move" /\ ~entering /\ ~stale
    THEN \/ ok /\ Released([by |-> c, sticky |-> TRUE])
         \/ Refuse(ok)                       \* out of bounds, or not comm_ok
    ELSE Refuse(ok)

\* _enter_move, possibly with joints to bring within their limits; it may
\* raise after it has dropped the stream.
HandleMove(ok) ==
  CASE mode = "reflex" -> Refuse(ok)
    [] mode = "move"   -> ok /\ UNCHANGED arm
    [] mode = "idle"   ->
         \/ /\ ok
            /\ mode' = "move"
            /\ stream' = Seed
            /\ entering' \in BOOLEAN
            /\ aged' = FALSE
            /\ UNCHANGED <<lease, stale>>
         \/ /\ ~ok
            /\ stream' \in {stream, Empty}
            /\ UNCHANGED <<mode, entering, lease, aged, stale>>

\* Dropping torque is always allowed.  It may raise before or after the mode
\* has changed.
HandleIdle(ok) ==
  \/ /\ mode' = "idle"
     /\ entering' = FALSE
     /\ lease' = Nobody
     /\ stream' = Empty
     /\ aged' = FALSE
     /\ UNCHANGED <<stale>>
  \/ Refuse(ok)

HandleRecover(ok) ==
  \/ /\ ok
     /\ mode = "reflex"
     /\ mode' = "move"
     /\ stream' = Empty
     /\ aged' = FALSE
     /\ UNCHANGED <<entering, lease, stale>>
  \/ Refuse(ok)

\* goto and init: not while somebody holds the lease.
HandleGoto(ok) ==
  \/ /\ ok
     /\ lease = Nobody
     /\ mode = "move"
     /\ ~entering
     /\ stream' = Seed
     /\ aged' = FALSE
     /\ UNCHANGED <<mode, entering, lease, stale>>
  \/ Refuse(ok)

\* Whatever it finds, a reset ends the lease and begins with a new stream, stale
\* until its first target; when it cannot verify that torque is off, or raises,
\* it leaves the arm STOPPED.
HandleReset(ok) ==
  /\ mode' = IF ok THEN "idle" ELSE "failed"
  /\ entering' = FALSE
  /\ lease' = Nobody
  /\ stream' = Empty
  /\ aged' = FALSE
  /\ stale' = TRUE

\* After a reset that did not complete nothing is obeyed but another one.
Locked(m) == mode = "failed" /\ m.cmd # "reset"

Obey(m, ok) ==
  CASE m.cmd = "acquire" -> HandleAcquire(m.from, ok)
    [] m.cmd = "release" -> HandleRelease(m.from, ok)
    [] m.cmd = "hold"    -> HandleHold(m.from, ok)
    [] m.cmd = "move"    -> HandleMove(ok)
    [] m.cmd = "idle"    -> HandleIdle(ok)
    [] m.cmd = "recover" -> HandleRecover(ok)
    [] m.cmd = "goto"    -> HandleGoto(ok)
    [] m.cmd = "reset"   -> HandleReset(ok)

Handle(m, ok) == IF Locked(m) THEN Refuse(ok) ELSE Obey(m, ok)

\* mutant: one reply queue for all requests
PostAnywhere(r) == posted' = r

\* The reply goes to the queue of its request, which may be gone.
Post(r) == posted' = IF serving = r.of THEN r ELSE posted

\* _drain_commands, one command at a time; an exception is a refusal.
DrainCommand ==
  /\ cmdQ # << >>
  /\ cmdQ' = Tail(cmdQ)
  /\ \E ok \in BOOLEAN : Handle(Head(cmdQ), ok) /\ Post([of |-> Head(cmdQ), ok |-> ok])
  /\ UNCHANGED <<socket, answer, inbox, serving, inFlight, view>>

----------------------------------------------------------------------------
(* The rest of a cycle of the loop                                         *)

\* mutant: whoever sends is followed
AcceptsAll(c) == c # Nobody /\ ~entering

\* _drain_actions: of all that has arrived the last message counts, and only
\* with the token of the lease in force.
Accepts(c) == c # Nobody /\ c = lease /\ ~entering

\* The stream and its age after an action of c was drained, or none.
Drained(c)    == IF Accepts(c) THEN [by |-> c, sticky |-> FALSE] ELSE stream
DrainedAge(c) == aged /\ ~Accepts(c)

\* mutant: a stream once pushed is never too old
StaleWhenEmpty(content, old, read) ==
  IF read /\ mode = "move" /\ ~entering THEN content = Empty ELSE stale

\* get_action runs in MOVE outside an entry, once the positions are read.
StaleAfter(content, old, read) ==
  IF read /\ mode = "move" /\ ~entering
    THEN content = Empty \/ (~content.sticky /\ old)
    ELSE stale

\* mutant: a trip latches and leaves the lease where it is
JudgeKeepsLease(content) ==
  \/ stream' = content /\ UNCHANGED <<mode, lease, entering>>
  \/ entering /\ entering' = FALSE /\ stream' = content /\ UNCHANGED <<mode, lease>>
  \/ /\ mode = "move"
     /\ mode' = "reflex"
     /\ entering' = FALSE
     /\ stream' = content
     /\ UNCHANGED lease

\* What the end of a cycle leaves: everything as it is, an entry at its end, or
\* a trip, which revokes the lease and the stream that came with it.
Judge(content) ==
  \/ stream' = content /\ UNCHANGED <<mode, lease, entering>>
  \/ entering /\ entering' = FALSE /\ stream' = content /\ UNCHANGED <<mode, lease>>
  \/ /\ mode = "move"
     /\ mode' = "reflex"
     /\ entering' = FALSE
     /\ lease' = Nobody
     /\ stream' = IF lease = Nobody THEN content ELSE Empty

\* _state, sent at the end of the cycle: without comm_ok, or with power mode, it
\* is nothing to go by.  The subscriber keeps the last message, and may miss any.
Publish(read) ==
  \/ UNCHANGED view
  \/ view' = None
  \/ /\ read
     /\ mode' = "move"
     /\ view' = [entering |-> entering', lease |-> lease', stale |-> stale']

Cycle ==
  /\ cmdQ = << >>
  /\ \E read \in BOOLEAN, c \in inFlight \cup {Nobody} :
       /\ inFlight' = inFlight \ {c}
       /\ aged' = DrainedAge(c)
       /\ stale' = StaleAfter(Drained(c), DrainedAge(c), read)
       /\ Judge(Drained(c))
       /\ Publish(read)
  /\ UNCHANGED <<channel, cmdQ>>

\* The watchdog runs out on what a client streamed.
Age ==
  /\ stream.by # Nobody
  /\ ~stream.sticky
  /\ ~aged
  /\ aged' = TRUE
  /\ UNCHANGED <<channel, cmdQ, mode, entering, lease, stream, stale,
                 inFlight, view>>

=============================================================================
