-------------------------- MODULE MCCompositeDurable --------------------------
(* Two iterations, stages, branches or items, which ask a human up to twice. *)
(* Both branches of a Parallel ask; the items of a MapReduce ask once.       *)
EXTENDS CompositeDurable

Once == <<"work", "gate">>
Twice == <<"work", "gate", "work", "gate">>

MCKinds == {"loop", "pipeline", "conditional", "parallel", "map_reduce"}

MCBodies ==
    [k \in MCKinds |->
        CASE k = "loop" -> <<Twice, Twice>>
          [] k = "pipeline" -> <<Twice, Once>>
          [] k = "conditional" -> <<Once, Twice>>
          [] k = "parallel" -> <<Twice, Once>>
          [] k = "map_reduce" -> <<Once, Once>>]
=============================================================================
