--------------------------- MODULE MCControlLoop ---------------------------
(* A turn of 8 ticks, a cable range of 3 to either side of 4, and waypoints *)
(* at both ends of it, with one that does not name the joint in between.    *)
EXTENDS ControlLoop

const_Waypoints == <<2, None, 7>>

=============================================================================
