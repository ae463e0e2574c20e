------------------------------ MODULE MCReflex ------------------------------
(* Positions of the Reflex runs: enough to gain ground, to jump and to come   *)
(* back (three), or to be just outside the limits and beyond their margin (four). *)
EXTENDS Reflex

three_Positions == 0 .. 2
four_Positions  == {0, 1, 2, 4}

=============================================================================
