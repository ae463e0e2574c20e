--------------------------- MODULE ControlSession ---------------------------
(***************************************************************************)
(* What sopod promises to those who drive the arm through it: who may make *)
(* the arm follow a stream, what takes that right away, and the only way   *)
(* back.  This is the abstract specification that Daemon.tla implements;   *)
(* the phases group the modes and latches of sopo/runtime/daemon.py.       *)
(***************************************************************************)
CONSTANTS
  Clients,   \* client processes
  NameOf,    \* the name each of them asks for the right under
  Nobody     \* no client: not one of Clients

VARIABLES
  phase,     \* "down", "off", "driving", "latched", "damped" or "failed"
  holder,    \* who holds the right to stream
  follows    \* whose action is in the stream

session == <<phase, holder, follows>>

Phases == {"down", "off", "driving", "latched", "damped", "failed"}

TypeOK ==
  /\ phase \in Phases
  /\ holder \in Clients \cup {Nobody}
  /\ follows \in Clients \cup {Nobody}

Init == phase = "down" /\ holder = Nobody /\ follows = Nobody

\* Every change of phase below that is not the start of a drive ends the right
\* to stream, and with it the stream.
NobodyDrives == holder' = Nobody /\ follows' = Nobody

\* The arm is never driven right after a boot.
Boot == phase = "down" /\ phase' \in {"off", "latched", "damped"} /\ NobodyDrives

Die == phase' = "down" /\ NobodyDrives

\* Streaming is granted to one at a time; a newcomer takes over under the same
\* name only, and what was streamed before is forgotten.
Grant(c) ==
  /\ phase \in {"off", "driving"}
  /\ holder \in {Nobody} \cup {d \in Clients : NameOf[d] = NameOf[c]}
  /\ holder' = c
  /\ follows' = Nobody
  /\ UNCHANGED phase

Release == phase \in {"off", "driving"} /\ NobodyDrives /\ UNCHANGED phase

Follow == holder # Nobody /\ follows' = holder /\ UNCHANGED <<phase, holder>>

\* MOVE, by the front door: with or without a holder, on a fresh target.
Engage == phase = "off" /\ phase' = "driving" /\ follows' = Nobody /\ UNCHANGED holder

\* A MOVE entry that fails, or a goto, also drops what was streamed.
Forget == phase \in {"off", "driving"} /\ follows' = Nobody /\ UNCHANGED <<phase, holder>>

Latch == phase \in {"off", "driving"} /\ phase' = "latched" /\ NobodyDrives

\* A latch is left by an explicit recovery, or by dropping torque.
Recover == phase = "latched" /\ phase' = "driving" /\ NobodyDrives
DropTorque ==
  phase \in {"off", "driving", "latched"} /\ phase' = "off" /\ NobodyDrives

\* Damping is left by a reset only, and a failed reset by another reset only.
Damp == phase \in {"driving", "latched", "damped"} /\ phase' = "damped" /\ NobodyDrives
Reset == phase # "down" /\ phase' \in {"off", "failed"} /\ NobodyDrives

Next ==
  \/ Boot
  \/ Die
  \/ \E c \in Clients : Grant(c)
  \/ Release
  \/ Follow
  \/ Engage
  \/ Forget
  \/ Latch
  \/ Recover
  \/ DropTorque
  \/ Damp
  \/ Reset

Spec == Init /\ [][Next]_session

=============================================================================
