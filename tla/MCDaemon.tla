------------------------------ MODULE MCDaemon ------------------------------
(* The constants of the Daemon runs: one motor of each Stop class, two       *)
(* processes that acquire under one name and one under another.              *)
EXTENDS Daemon

CONSTANTS jog1, jog2, policy

const_Clients == {jog1, jog2, policy}
one_Client == {jog1}
const_NameOf == [c \in const_Clients |-> IF c = policy THEN "policy" ELSE "jog"]

=============================================================================
