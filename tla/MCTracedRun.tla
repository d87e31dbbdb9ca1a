------------------------------ MODULE MCTracedRun ------------------------------
(* Four events, the third of which the store rejects.                       *)
EXTENDS TracedRun

MCPoison == {3}
=============================================================================
