------------------------------- MODULE MCHumanCall -------------------------------
(* Two calls under one request id - a repeated call, or the same gate of two    *)
(* parallel runs - and two people who answer it.                               *)
EXTENDS HumanCall, TLC

MCCalls == {"c1", "c2"}
MCResolvers == {"r1", "r2"}
MCIds == {"p"}
MCIdOf == [x \in MCCalls \cup MCResolvers |-> "p"]
=============================================================================
