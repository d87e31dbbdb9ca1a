----------------------------- MODULE MCDagDurable -----------------------------
(* A gate g beside a step b and a gate d that reads b; the step n reads both *)
(* gates.  In the variant b runs beside the gate g, and d reads b.           *)
EXTENDS DagDurable, TLC

MCNodes == {"b", "d", "g", "n"}
MCDeps == "b" :> {} @@ "g" :> {} @@ "d" :> {"b"} @@ "n" :> {"d", "g"}

ReaderNodes == {"b", "d", "g"}
ReaderDeps == "b" :> {} @@ "d" :> {"b"} @@ "g" :> {}
=============================================================================
