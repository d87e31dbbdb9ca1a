------------------------- MODULE MCSequentialDurable -------------------------
(* A workflow of function steps 0, 2, 4 and gates 1, 3.                     *)
EXTENDS SequentialDurable

MCGates == {1, 3}
=============================================================================
