--------------------------- MODULE MCStreamSource ---------------------------
(* The constants of the stale-hold run: two joints, two positions each, and a *)
(* watchdog of one cycle.                                                   *)
EXTENDS StreamSource

const_Joints == {"J2", "J4"}
const_Positions == {0, 1}

=============================================================================
