--------------------------- MODULE MCMotionTarget ---------------------------
(* One joint, whose limits are 2 and 4, and a target out of their reach.     *)
EXTENDS MotionTarget

const_Joints == {"J2"}
const_Positions == 0 .. 4

=============================================================================
