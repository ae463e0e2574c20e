---------------------------- MODULE MCSetupTools ----------------------------
(* An arm of two motors, of which one or both are on the bus, and a third id; *)
(* terminals are interchangeable.                                            *)
EXTENDS SetupTools, TLC

const_Servos == {1, 2}
const_Arm == <<1, 2>>
const_Symmetry == Permutations(Terminals)

=============================================================================
