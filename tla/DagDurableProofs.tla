----------------------------- MODULE DagDurableProofs -----------------------------
(***************************************************************************)
(* Proofs about DagDurable, for every acyclic graph, every set of gates    *)
(* and every bound.                                                        *)
(***************************************************************************)
EXTENDS DagDurable, FiniteSetTheorems, TLAPS

----------------------------------------------------------------------------
(* The graph.                                                              *)

\* Below is closed under dependents.
LEMMA BelowClosed ==
    ASSUME NEW n \in Nodes
    PROVE  /\ Below[n] \subseteq Nodes
           /\ Dependents(n) \subseteq Below[n]
           /\ \A m \in Below[n] : Dependents(m) \subseteq Below[n]
BY DEF Below, Closed, Dependents

\* Below is the least set that is.
LEMMA BelowLeast ==
    ASSUME NEW n \in Nodes, NEW S \in SUBSET Nodes, Closed(S, n)
    PROVE  Below[n] \subseteq S
BY DEF Below

\* Whatever is below a node has a dependency that is that node or is below it.
LEMMA BelowHasDependency ==
    ASSUME NEW n \in Nodes, NEW m \in Below[n]
    PROVE  \E d \in Deps[m] : d = n \/ d \in Below[n]
<1> DEFINE S == {k \in Nodes : \E d \in Deps[k] : d = n \/ d \in Below[n]}
<1>1. \A k \in S : k \in Below[n]
  BY BelowClosed, GraphAssumption DEF Dependents
<1>2. Closed(S, n)
  BY <1>1, GraphAssumption DEF Closed, Dependents
<1>3. Below[n] \subseteq S
  BY <1>2, BelowLeast
<1> QED BY <1>3

\* A node that reads a drained or a tainted one is tainted.
LEMMA TaintSpreads ==
    ASSUME drained \subseteq Nodes, NEW n \in Nodes, Deps[n] \cap (drained \cup Tainted) # {}
    PROVE  n \in Tainted
<1>1. PICK d \in Deps[n] : d \in drained \cup Tainted
  OBVIOUS
<1>2. d \in Nodes /\ n \in Dependents(d)
  BY GraphAssumption DEF Dependents
<1>3. CASE d \in drained
  BY <1>2, <1>3, BelowClosed DEF Tainted
<1>4. CASE d \in Tainted
  <2>1. PICK b \in drained : d \in Below[b]
    BY <1>4 DEF Tainted
  <2> QED BY <1>2, <2>1, BelowClosed DEF Tainted
<1> QED BY <1>1, <1>3, <1>4

\* No node depends on itself.
LEMMA NoSelfDependency == \A n \in Nodes : n \notin Deps[n]
<1> SUFFICES ASSUME NEW n \in Nodes, n \in Deps[n] PROVE FALSE
  OBVIOUS
<1>1. {n} \in SUBSET Nodes /\ {n} # {}
  OBVIOUS
<1> QED BY <1>1, AcyclicAssumption

----------------------------------------------------------------------------
(* Types.                                                                  *)

\* The main coroutine runs DAG._run.
Driving == pc \notin {"idle", "enter", "restore"}
InLoop == pc \in {"loop", "wait", "process", "cursor", "journal", "unblock", "drain"}

\* What each place of the main coroutine knows of the node it is about, and what a
\* task's state says of its node.
Stage ==
    /\ pc \in {"cursor", "journal", "unblock"} => node \in In(completed)
    /\ pc \in {"cursor", "journal"} => stepCheckpoints = "on"
    /\ pc \in {"drain", "surface", "park", "handle"} => node \in Gates \cap requests
    /\ ~Driving => completed = Nothing /\ failed = {} /\ skipped = {} /\ ready = {}
    /\ ~InLoop => task = NoTask
    /\ \A n \in Nodes :
          /\ task[n] \in {"running", "ok", "refused", "suspended"} => HasInput(n)
          /\ task[n] = "suspended" => n \in Gates \cap requests
          /\ task[n] = "ok" /\ n \in Gates => n \in answered
          /\ task[n] = "refused" => token = "set"

\* The result of a task whose node has its input is a result.
LEMMA ResultType ==
    ASSUME TypeOK, NEW n \in Nodes, HasInput(n)
    PROVE  ResultOf(n) \in Result /\ ResultOf(n) # NoResult
<1>1. \A d \in Deps[n] : d \in Nodes /\ completed[d] \in Result
  BY GraphAssumption DEF TypeOK, Results, HasInput, In
<1>2. \A d \in Deps[n] : completed[d].run \in Nat
  BY <1>1 DEF Result
<1>3. runs[n] \in Nat
  BY DEF TypeOK
<1>4. [d \in Nodes |-> IF d \in Deps[n] THEN completed[d].run ELSE 0] \in [Nodes -> Nat]
  BY <1>2
<1> QED BY <1>3, <1>4 DEF ResultOf, Result, NoResult

\* Nothing and a refusal are what they are called.
LEMMA ConstantResults ==
    /\ Nothing \in Results /\ In(Nothing) = {}
    /\ Refused \in Result /\ Refused # NoResult
    /\ NoReport \in [completed : Results, failed : SUBSET Nodes, skipped : SUBSET Nodes]
BY DEF Nothing, Results, In, Refused, Result, NoResult, NoReport

\* Every variable has its type initially ...
LEMMA InitTypeOK == Init => TypeOK /\ Stage
<1> SUFFICES ASSUME Init PROVE TypeOK /\ Stage
  OBVIOUS
<1>1. TypeOK
  BY ConstantResults DEF Init, TypeOK, NoTask
<1>2. Stage
  BY DEF Init, Stage, NoTask, Driving, InLoop
<1> QED BY <1>1, <1>2

\* ... and keeps it in every step.
LEMMA TypeStep == TypeOK /\ Stage /\ [Next]_vars => TypeOK'
<1> SUFFICES ASSUME TypeOK, Stage, [Next]_vars PROVE TypeOK'
  OBVIOUS
<1> USE GraphAssumption, BoundAssumption, ConstantResults
    DEF TypeOK, config, stores, results, graph, tasks, worker, host, bounds, history, NoTask
<1>1. CASE Start
  BY <1>1 DEF Start, Begin
<1>2. CASE ResumeInterrupted
  BY <1>2 DEF ResumeInterrupted, Begin
<1>3. CASE Resume
  BY <1>3 DEF Resume, Begin, Suspended, NoCkpt
<1>4. CASE EnterRefused
  BY <1>4 DEF EnterRefused, Return
<1>5. CASE RegisterRun
  BY <1>5 DEF RegisterRun
<1>6. CASE Restore
  <2>1. Restored \in Results
    BY DEF Restored, Suspended, NoCkpt
  <2>2. MissingDeps(Restored) \in [Nodes -> Int]
    <3>1. \A n \in Nodes : Cardinality(Deps[n] \ In(Restored)) \in Nat
      BY FS_Subset, FS_CardinalityType
    <3> QED BY <3>1 DEF MissingDeps
  <2> QED BY <1>6, <2>1, <2>2 DEF Restore
<1>7. CASE LaunchReady
  BY <1>7 DEF LaunchReady
<1>8. CASE LoopEnds
  BY <1>8 DEF LoopEnds
<1>9. CASE Collect
  BY <1>9 DEF Collect
<1>10. CASE BatchDone
  BY <1>10 DEF BatchDone
<1>11. ASSUME NEW n \in Nodes, TakeResult(n) PROVE TypeOK'
  <2>1. ResultOf(n) \in Result
    BY <1>11, ResultType DEF TakeResult, Stage
  <2> QED BY <1>11, <2>1 DEF TakeResult, Take, Results
<1>12. ASSUME NEW n \in Nodes, TakeRefusal(n) PROVE TypeOK'
  BY <1>12 DEF TakeRefusal, Take
<1>13. ASSUME NEW n \in Nodes, AbortAll(n) PROVE TypeOK'
  BY <1>13 DEF AbortAll, Take
<1>14. ASSUME NEW n \in Nodes, RecordFailure(n) PROVE TypeOK'
  <2>1. Below[n] \subseteq Nodes
    BY BelowClosed
  <2> QED BY <1>14, <2>1 DEF RecordFailure, Take
<1>15. ASSUME NEW n \in Nodes, TakeForgotten(n) PROVE TypeOK'
  BY <1>15 DEF TakeForgotten, Take
<1>16. ASSUME NEW n \in Nodes, TakeSuspension(n) PROVE TypeOK'
  BY <1>16 DEF TakeSuspension, Take
<1>17. ASSUME NEW n \in Nodes, SecondSuspension(n) PROVE TypeOK'
  BY <1>17 DEF SecondSuspension, Drained
<1>18. CASE SaveCursor
  BY <1>18 DEF SaveCursor
<1>19. CASE AppendStep
  BY <1>19 DEF AppendStep, Stage, Results, In
<1>20. CASE Unblock
  BY <1>20 DEF Unblock, Dependents
<1>21. CASE DrainAll
  <2>1. \A n \in Nodes : task[n] = "ok" => ResultOf(n) \in Result
    BY ResultType DEF Stage
  <2>2. completed' \in Results
    <3>1. \A n \in Nodes : (CASE task[n] = "ok" -> ResultOf(n)
                               [] task[n] = "refused" -> Refused
                               [] OTHER -> completed[n]) \in Result \cup {NoResult}
      BY <2>1 DEF Results
    <3> QED BY <1>21, <3>1 DEF DrainAll, Results
  <2> QED BY <1>21, <2>2 DEF DrainAll, Drained
<1>22. CASE SurfaceSuspension
  BY <1>22 DEF SurfaceSuspension, Stage
<1>23. CASE SuspendRun
  BY <1>23 DEF SuspendRun
<1>24. CASE BuildSuspendedRun
  BY <1>24 DEF BuildSuspendedRun, Return
<1>25. CASE CompleteRun
  BY <1>25 DEF CompleteRun, Return
<1>26. CASE FailRun
  BY <1>26 DEF FailRun, Return
<1>27. ASSUME NEW n \in Nodes, TaskMissesInput(n) PROVE TypeOK'
  BY <1>27 DEF TaskMissesInput, SetTask
<1>28. ASSUME NEW n \in Nodes, TaskStarts(n) PROVE TypeOK'
  BY <1>28 DEF TaskStarts, SetTask
<1>29. ASSUME NEW n \in Nodes, TaskRefused(n) PROVE TypeOK'
  BY <1>29 DEF TaskRefused, SetTask
<1>30. ASSUME NEW n \in Nodes, TaskReturns(n) PROVE TypeOK'
  BY <1>30 DEF TaskReturns, SetTask
<1>31. ASSUME NEW n \in Nodes, GateAsks(n) PROVE TypeOK'
  BY <1>31 DEF GateAsks, SetTask
<1>32. ASSUME NEW n \in Nodes, TaskRaises(n) PROVE TypeOK'
  BY <1>32 DEF TaskRaises, SetTask
<1>33. CASE StoreRaises
  BY <1>33 DEF StoreRaises, Interrupt
<1>34. CASE HostSeesStoreError
  BY <1>34 DEF HostSeesStoreError, Interrupt, Return
<1>35. CASE Crash
  BY <1>35 DEF Crash, Interrupt, Return
<1>36. CASE Cancel
  BY <1>36 DEF Cancel, Interrupt
<1>37. ASSUME NEW g \in Gates, Respond(g) PROVE TypeOK'
  BY <1>37 DEF Respond
<1>38. CASE UNCHANGED vars
  BY <1>38 DEF vars
<1> QED
  BY <1>1, <1>2, <1>3, <1>4, <1>5, <1>6, <1>7, <1>8, <1>9, <1>10, <1>11, <1>12, <1>13, <1>14,
     <1>15, <1>16, <1>17, <1>18, <1>19, <1>20, <1>21, <1>22, <1>23, <1>24, <1>25, <1>26, <1>27,
     <1>28, <1>29, <1>30, <1>31, <1>32, <1>33, <1>34, <1>35, <1>36, <1>37, <1>38
     DEF Next, Drive, Main, Task, Trouble

\* Stage is kept in every step.
LEMMA StageStep == TypeOK /\ Stage /\ [Next]_vars => Stage'
<1> SUFFICES ASSUME TypeOK, Stage, [Next]_vars PROVE Stage'
  OBVIOUS
<1> USE GraphAssumption
    DEF TypeOK, Stage, Driving, InLoop, In, HasInput, config, stores, results, graph, tasks, worker,
        host, bounds, history, NoTask
<1>1. CASE Start
  BY <1>1 DEF Start, Begin
<1>2. CASE ResumeInterrupted
  BY <1>2 DEF ResumeInterrupted, Begin
<1>3. CASE Resume
  BY <1>3 DEF Resume, Begin
<1>4. CASE EnterRefused
  BY <1>4 DEF EnterRefused, Return
<1>5. CASE RegisterRun
  BY <1>5 DEF RegisterRun
<1>6. CASE Restore
  BY <1>6 DEF Restore
<1>7. CASE LaunchReady
  BY <1>7 DEF LaunchReady
<1>8. CASE LoopEnds
  BY <1>8 DEF LoopEnds, InFlight
<1>9. CASE Collect
  BY <1>9 DEF Collect
<1>10. CASE BatchDone
  BY <1>10 DEF BatchDone
<1>11. ASSUME NEW n \in Nodes, TakeResult(n) PROVE Stage'
  <2>1. ResultOf(n) # NoResult
    BY <1>11, ResultType DEF TakeResult
  <2> QED BY <1>11, <2>1 DEF TakeResult, Take, Results
<1>12. ASSUME NEW n \in Nodes, TakeRefusal(n) PROVE Stage'
  BY <1>12 DEF TakeRefusal, Take
<1>13. ASSUME NEW n \in Nodes, AbortAll(n) PROVE Stage'
  BY <1>13 DEF AbortAll, Take
<1>14. ASSUME NEW n \in Nodes, RecordFailure(n) PROVE Stage'
  BY <1>14 DEF RecordFailure, Take
<1>15. ASSUME NEW n \in Nodes, TakeForgotten(n) PROVE Stage'
  BY <1>15 DEF TakeForgotten, Take
<1>16. ASSUME NEW n \in Nodes, TakeSuspension(n) PROVE Stage'
  BY <1>16 DEF TakeSuspension, Take
<1>17. ASSUME NEW n \in Nodes, SecondSuspension(n) PROVE Stage'
  BY <1>17 DEF SecondSuspension, Drained
<1>18. CASE SaveCursor
  BY <1>18 DEF SaveCursor
<1>19. CASE AppendStep
  BY <1>19 DEF AppendStep
<1>20. CASE Unblock
  BY <1>20 DEF Unblock
<1>21. CASE DrainAll
  BY <1>21 DEF DrainAll, Drained
<1>22. CASE SurfaceSuspension
  BY <1>22 DEF SurfaceSuspension
<1>23. CASE SuspendRun
  BY <1>23 DEF SuspendRun
<1>24. CASE BuildSuspendedRun
  BY <1>24 DEF BuildSuspendedRun, Return
<1>25. CASE CompleteRun
  BY <1>25 DEF CompleteRun, Return
<1>26. CASE FailRun
  BY <1>26 DEF FailRun, Return
<1>27. ASSUME NEW n \in Nodes, TaskMissesInput(n) PROVE Stage'
  BY <1>27 DEF TaskMissesInput, SetTask
<1>28. ASSUME NEW n \in Nodes, TaskStarts(n) PROVE Stage'
  BY <1>28 DEF TaskStarts, SetTask
<1>29. ASSUME NEW n \in Nodes, TaskRefused(n) PROVE Stage'
  BY <1>29 DEF TaskRefused, SetTask
<1>30. ASSUME NEW n \in Nodes, TaskReturns(n) PROVE Stage'
  BY <1>30 DEF TaskReturns, SetTask
<1>31. ASSUME NEW n \in Nodes, GateAsks(n) PROVE Stage'
  BY <1>31 DEF GateAsks, SetTask
<1>32. ASSUME NEW n \in Nodes, TaskRaises(n) PROVE Stage'
  BY <1>32 DEF TaskRaises, SetTask
<1>33. CASE StoreRaises
  BY <1>33 DEF StoreRaises, Interrupt
<1>34. CASE HostSeesStoreError
  BY <1>34 DEF HostSeesStoreError, Interrupt, Return
<1>35. CASE Crash
  BY <1>35 DEF Crash, Interrupt, Return
<1>36. CASE Cancel
  BY <1>36 DEF Cancel, Interrupt
<1>37. ASSUME NEW g \in Gates, Respond(g) PROVE Stage'
  BY <1>37 DEF Respond
<1>38. CASE UNCHANGED vars
  BY <1>38 DEF vars
<1> QED
  BY <1>1, <1>2, <1>3, <1>4, <1>5, <1>6, <1>7, <1>8, <1>9, <1>10, <1>11, <1>12, <1>13, <1>14,
     <1>15, <1>16, <1>17, <1>18, <1>19, <1>20, <1>21, <1>22, <1>23, <1>24, <1>25, <1>26, <1>27,
     <1>28, <1>29, <1>30, <1>31, <1>32, <1>33, <1>34, <1>35, <1>36, <1>37, <1>38
     DEF Next, Drive, Main, Task, Trouble

\* Every variable has its type in every reachable state.
THEOREM TypeCorrect == Spec => []TypeOK
BY InitTypeOK, TypeStep, StageStep, PTL DEF Spec

----------------------------------------------------------------------------
(* The inductive invariant, in layers: each is inductive given the ones    *)
(* above it.                                                               *)

\* A journaled or restored node may run again only if it reads a drained one, and
\* as a gate only with its answer.
Repeats(n) == Deps[n] \cap drained # {} /\ (n \in Gates => n \in answered)

\* The node whose completion is not in the journal yet.
Unsaved == IF pc \in {"cursor", "journal"} THEN {node} ELSE {}

\* The drive has restored what the stores had, and has not failed.
Holding == Driving /\ pc # "fail"

\* What the journal, the suspension checkpoint and the drive's own results have of
\* each other: a drain's results are in the checkpoint alone.
Records ==
    /\ ckpt = NoCkpt \/ stepCheckpoints = "off" => In(journal) = {}
    /\ pc = "journal" => ckpt = [kind |-> "step"]
    /\ Holding => In(journal) \subseteq In(completed)
    /\ (InLoop \/ pc = "surface") /\ stepCheckpoints = "on" =>
          In(completed) \subseteq In(journal) \cup drained \cup Unsaved
    /\ Suspended(ckpt) =>
          /\ In(journal) \subseteq In(ckpt.completed)
          /\ stepCheckpoints = "on" => In(ckpt.completed) \subseteq In(journal) \cup drained

\* A gate has a result only with its answer, or from a drain.
Answers ==
    /\ \A g \in Gates \cap In(completed) : g \in answered \cup drained
    /\ \A g \in Gates \cap In(journal) : g \in answered
    /\ Suspended(ckpt) => \A g \in Gates \cap In(ckpt.completed) : g \in answered \cup drained
    /\ pc \in {"cursor", "journal"} /\ node \in Gates => node \in answered

\* A node has run, and has a result, only when every gate above it has.
Cleared(n) == \A g \in Gates : n \in Below[g] => g \in answered \cup drained

Clearance ==
    /\ \A n \in In(completed) \cup In(journal) : Cleared(n)
    /\ Suspended(ckpt) => \A n \in In(ckpt.completed) : Cleared(n)
    /\ GatesHold

\* Results come with those they were made from - but for the nodes that repeat,
\* whose drained dependencies the journal does not have.
Complete(S) ==
    \A n \in S : /\ Deps[n] \subseteq S \cup drained
                 /\ ~Repeats(n) => Deps[n] \subseteq S

Closure ==
    /\ Complete(In(completed)) /\ Complete(In(journal))
    /\ Suspended(ckpt) => Complete(In(ckpt.completed))

\* A node is launched when its in-degree reaches 0, and at most once in a drive;
\* one that has a result is not, nor does it fail, unless it repeats.
Launches ==
    /\ \A n \in ready \cup InFlight \cup failed : inDegree[n] <= 0
    /\ \A n \in In(completed) :
          ~Repeats(n) => inDegree[n] <= 0 /\ n \notin ready \cup InFlight \cup failed
    /\ ready \cap InFlight = {} /\ failed \cap (ready \cup InFlight) = {}

\* A gate that asks has no result; the suspension that it raises reaches the host
\* with its checkpoint, unless another gate's has replaced it.
Suspensions ==
    /\ \A n \in Nodes : task[n] = "suspended" => n \notin In(completed)
    /\ pc = "drain" => task[node] = "none"
    /\ pc \in {"drain", "surface"} => node \notin In(completed)
    /\ pc \in {"park", "handle"} /\ collided = "no" => Suspended(ckpt)
    /\ pc \notin {"idle", "enter", "handle"} => status = "running"
    /\ pc # "idle" => outcome = "running"
    /\ SuspensionIsResumable

\* The dependencies that in_degree has been lowered for.
Counted == In(completed) \ (IF pc \in {"cursor", "journal", "unblock"} THEN {node} ELSE {})

\* Where the main coroutine still counts what is missing.
Scheduling == pc \in {"loop", "wait", "process", "cursor", "journal", "unblock", "complete"}

\* in_degree is at most what is missing, and while the token is clear a node whose
\* in-degree has reached 0 is accounted for.
Accounts ==
    /\ skipped = UNION {Below[n] : n \in failed}
    /\ Scheduling =>
          /\ \A n \in Nodes \ skipped : inDegree[n] <= Cardinality(Deps[n] \ Counted)
          /\ token = "clear" =>
                \A n \in Nodes : inDegree[n] <= 0 =>
                    n \in ready \cup InFlight \cup In(completed) \cup failed \cup skipped
    /\ pc = "complete" => ready = {}
    /\ ResultAccountsForEveryNode

\* Results agree, those of the stores with themselves and with the drive's.
Agreed(results_) ==
    \A n \in In(results_) \ Tainted : \A d \in Deps[n] :
        results_[n] # Refused => results_[n].saw[d] = results_[d].run

Agreement ==
    /\ Agreed(completed) /\ Agreed(journal)
    /\ Holding => \A n \in In(journal) \ Tainted : completed[n] = journal[n]
    /\ Suspended(ckpt) =>
          /\ Agreed(ckpt.completed)
          /\ \A n \in In(journal) \ Tainted : ckpt.completed[n] = journal[n]
    /\ ResultsAgree

----------------------------------------------------------------------------
(* What the steps add to the results.                                      *)

\* A result that is taken is added to the drive's.
LEMMA TakeAdds ==
    ASSUME TypeOK, Stage, NEW n \in Nodes, TakeResult(n)
    PROVE  In(completed)' = In(completed) \cup {n} /\ HasInput(n)
<1>1. HasInput(n)
  BY DEF TakeResult, Stage
<1>2. ResultOf(n) # NoResult
  BY <1>1, ResultType
<1>3. completed' = [completed EXCEPT ![n] = ResultOf(n)]
  BY DEF TakeResult
<1> QED BY <1>1, <1>2, <1>3 DEF TypeOK, Results, In

\* What a drain takes.
Takings == {n \in Nodes : task[n] \in {"ok", "refused"}}

\* They are added to the drive's results.
LEMMA DrainAdds ==
    ASSUME TypeOK, Stage, DrainAll
    PROVE  /\ In(completed)' = In(completed) \cup Takings
           /\ drained' = drained \cup Takings
           /\ \A n \in Takings : HasInput(n)
           /\ \A n \in Nodes \ Takings : completed'[n] = completed[n]
           /\ \A n \in Takings : completed'[n] \in {ResultOf(n), Refused}
<1>1. \A n \in Takings : HasInput(n) /\ n \in Nodes
  BY DEF Takings, Stage
<1>2. \A n \in Takings : ResultOf(n) # NoResult
  BY <1>1, ResultType
<1>3. completed' = [n \in Nodes |->
           CASE task[n] = "ok" -> ResultOf(n)
             [] task[n] = "refused" -> Refused
             [] OTHER -> completed[n]]
      /\ drained' = drained \cup Takings
  BY DEF DrainAll, Takings
<1>4. \A n \in Takings : completed'[n] \in {ResultOf(n), Refused}
  BY <1>3 DEF Takings
<1>5. \A n \in Nodes \ Takings : completed'[n] = completed[n]
  BY <1>3 DEF Takings
<1>6. In(completed)' = In(completed) \cup Takings
  BY <1>1, <1>2, <1>4, <1>5, ConstantResults DEF In
<1> QED BY <1>1, <1>3, <1>4, <1>5, <1>6

\* A journal append adds the node's result.
LEMMA AppendAdds ==
    ASSUME TypeOK, Stage, AppendStep
    PROVE  In(journal)' = In(journal) \cup {node} /\ node \in In(completed)
<1>1. node \in In(completed) /\ journal' = [journal EXCEPT ![node] = completed[node]]
  BY DEF AppendStep, Stage
<1> QED BY <1>1 DEF TypeOK, Results, In

\* The three sources of a restored drive.
LEMMA RestoredFrom ==
    ASSUME TypeOK
    PROVE  \/ ckpt = NoCkpt /\ Restored = Nothing
           \/ Suspended(ckpt) /\ ckpt # NoCkpt /\ Restored = ckpt.completed
           \/ ~Suspended(ckpt) /\ ckpt # NoCkpt /\ Restored = journal
BY DEF Restored, Suspended, NoCkpt

----------------------------------------------------------------------------
(* Records.                                                                *)

\* The records agree initially ...
LEMMA InitRecords == Init => Records
BY ConstantResults DEF Init, Records, Holding, Driving, InLoop, Suspended, NoCkpt

\* ... and in every step.
LEMMA RecordsStep == TypeOK /\ Stage /\ Records /\ [Next]_vars => Records'
<1> SUFFICES ASSUME TypeOK, Stage, Records, [Next]_vars PROVE Records'
  OBVIOUS
<1> USE ConstantResults
    DEF Records, Holding, Driving, InLoop, Unsaved, config, stores, results, tasks, worker, history
<1>1. CASE Start
  BY <1>1 DEF Start, Begin
<1>2. CASE ResumeInterrupted
  BY <1>2 DEF ResumeInterrupted, Begin
<1>3. CASE Resume
  BY <1>3 DEF Resume, Begin
<1>4. CASE EnterRefused
  BY <1>4 DEF EnterRefused, Return
<1>5. CASE RegisterRun
  BY <1>5 DEF RegisterRun
<1>6. CASE Restore
  <2>1. In(journal) \subseteq In(Restored)
    BY RestoredFrom, ConstantResults DEF Records
  <2>2. stepCheckpoints = "on" => In(Restored) \subseteq In(journal) \cup drained
    BY RestoredFrom, ConstantResults DEF Records
  <2> QED BY <1>6, <2>1, <2>2 DEF Restore
<1>7. CASE LaunchReady
  BY <1>7 DEF LaunchReady
<1>8. CASE LoopEnds
  BY <1>8 DEF LoopEnds
<1>9. CASE Collect
  BY <1>9 DEF Collect
<1>10. CASE BatchDone
  BY <1>10 DEF BatchDone
<1>11. ASSUME NEW n \in Nodes, TakeResult(n) PROVE Records'
  <2>1. In(completed)' = In(completed) \cup {n}
    BY <1>11, TakeAdds
  <2> QED BY <1>11, <2>1 DEF TakeResult, Take, Stage, TypeOK
<1>12. ASSUME NEW n \in Nodes, TakeRefusal(n) PROVE Records'
  BY <1>12 DEF TakeRefusal, Take
<1>13. ASSUME NEW n \in Nodes, AbortAll(n) PROVE Records'
  BY <1>13 DEF AbortAll, Take
<1>14. ASSUME NEW n \in Nodes, RecordFailure(n) PROVE Records'
  BY <1>14 DEF RecordFailure, Take
<1>15. ASSUME NEW n \in Nodes, TakeForgotten(n) PROVE Records'
  BY <1>15 DEF TakeForgotten, Take
<1>16. ASSUME NEW n \in Nodes, TakeSuspension(n) PROVE Records'
  BY <1>16 DEF TakeSuspension, Take
<1>17. ASSUME NEW n \in Nodes, SecondSuspension(n) PROVE Records'
  BY <1>17 DEF SecondSuspension, Drained
<1>18. CASE SaveCursor
  BY <1>18 DEF SaveCursor, Suspended, NoCkpt, Stage
<1>19. CASE AppendStep
  <2>1. In(journal)' = In(journal) \cup {node} /\ node \in In(completed)
    BY <1>19, AppendAdds
  <2>2. stepCheckpoints = "on" /\ ckpt # NoCkpt /\ ~Suspended(ckpt)
    BY <1>19 DEF AppendStep, Stage, Records, Suspended, NoCkpt
  <2> QED BY <1>19, <2>1, <2>2 DEF AppendStep
<1>20. CASE Unblock
  BY <1>20 DEF Unblock
<1>21. CASE DrainAll
  <2>1. In(completed)' = In(completed) \cup Takings /\ drained' = drained \cup Takings
    BY <1>21, DrainAdds
  <2> QED BY <1>21, <2>1 DEF DrainAll, Drained
<1>22. CASE SurfaceSuspension
  BY <1>22 DEF SurfaceSuspension, Suspended, NoCkpt
<1>23. CASE SuspendRun
  BY <1>23 DEF SuspendRun
<1>24. CASE BuildSuspendedRun
  BY <1>24 DEF BuildSuspendedRun, Return
<1>25. CASE CompleteRun
  BY <1>25 DEF CompleteRun, Return
<1>26. CASE FailRun
  BY <1>26 DEF FailRun, Return
<1>27. ASSUME NEW n \in Nodes, TaskMissesInput(n) PROVE Records'
  BY <1>27 DEF TaskMissesInput, SetTask
<1>28. ASSUME NEW n \in Nodes, TaskStarts(n) PROVE Records'
  BY <1>28 DEF TaskStarts, SetTask
<1>29. ASSUME NEW n \in Nodes, TaskRefused(n) PROVE Records'
  BY <1>29 DEF TaskRefused, SetTask
<1>30. ASSUME NEW n \in Nodes, TaskReturns(n) PROVE Records'
  BY <1>30 DEF TaskReturns, SetTask
<1>31. ASSUME NEW n \in Nodes, GateAsks(n) PROVE Records'
  BY <1>31 DEF GateAsks, SetTask
<1>32. ASSUME NEW n \in Nodes, TaskRaises(n) PROVE Records'
  BY <1>32 DEF TaskRaises, SetTask
<1>33. CASE StoreRaises
  BY <1>33 DEF StoreRaises, Interrupt
<1>34. CASE HostSeesStoreError
  BY <1>34 DEF HostSeesStoreError, Interrupt, Return
<1>35. CASE Crash
  BY <1>35 DEF Crash, Interrupt, Return
<1>36. CASE Cancel
  BY <1>36 DEF Cancel, Interrupt
<1>37. ASSUME NEW g \in Gates, Respond(g) PROVE Records'
  BY <1>37 DEF Respond
<1>38. CASE UNCHANGED vars
  BY <1>38 DEF vars
<1> QED
  BY <1>1, <1>2, <1>3, <1>4, <1>5, <1>6, <1>7, <1>8, <1>9, <1>10, <1>11, <1>12, <1>13, <1>14,
     <1>15, <1>16, <1>17, <1>18, <1>19, <1>20, <1>21, <1>22, <1>23, <1>24, <1>25, <1>26, <1>27,
     <1>28, <1>29, <1>30, <1>31, <1>32, <1>33, <1>34, <1>35, <1>36, <1>37, <1>38
     DEF Next, Drive, Main, Task, Trouble

----------------------------------------------------------------------------
(* Gates.                                                                  *)

\* Answers and drained nodes are never taken back.
LEMMA HistoryGrows ==
    ASSUME [Next]_vars
    PROVE  answered \subseteq answered' /\ drained \subseteq drained'
<1> DEFINE Grows == answered \subseteq answered' /\ drained \subseteq drained'
<1> USE DEF stores, history
<1>1. CASE Start
  BY <1>1 DEF Start, Begin
<1>2. CASE ResumeInterrupted
  BY <1>2 DEF ResumeInterrupted, Begin
<1>3. CASE Resume
  BY <1>3 DEF Resume, Begin
<1>4. CASE EnterRefused
  BY <1>4 DEF EnterRefused, Return
<1>5. CASE RegisterRun
  BY <1>5 DEF RegisterRun
<1>6. CASE Restore
  BY <1>6 DEF Restore
<1>7. CASE LaunchReady
  BY <1>7 DEF LaunchReady
<1>8. CASE LoopEnds
  BY <1>8 DEF LoopEnds
<1>9. CASE Collect
  BY <1>9 DEF Collect
<1>10. CASE BatchDone
  BY <1>10 DEF BatchDone
<1>11. ASSUME NEW n \in Nodes, TakeResult(n) PROVE Grows
  BY <1>11 DEF TakeResult, Take
<1>12. ASSUME NEW n \in Nodes, TakeRefusal(n) PROVE Grows
  BY <1>12 DEF TakeRefusal, Take
<1>13. ASSUME NEW n \in Nodes, AbortAll(n) PROVE Grows
  BY <1>13 DEF AbortAll, Take
<1>14. ASSUME NEW n \in Nodes, RecordFailure(n) PROVE Grows
  BY <1>14 DEF RecordFailure, Take
<1>15. ASSUME NEW n \in Nodes, TakeForgotten(n) PROVE Grows
  BY <1>15 DEF TakeForgotten, Take
<1>16. ASSUME NEW n \in Nodes, TakeSuspension(n) PROVE Grows
  BY <1>16 DEF TakeSuspension, Take
<1>17. ASSUME NEW n \in Nodes, SecondSuspension(n) PROVE Grows
  BY <1>17 DEF SecondSuspension, Drained
<1>18. CASE SaveCursor
  BY <1>18 DEF SaveCursor
<1>19. CASE AppendStep
  BY <1>19 DEF AppendStep
<1>20. CASE Unblock
  BY <1>20 DEF Unblock
<1>21. CASE DrainAll
  BY <1>21 DEF DrainAll, Drained
<1>22. CASE SurfaceSuspension
  BY <1>22 DEF SurfaceSuspension
<1>23. CASE SuspendRun
  BY <1>23 DEF SuspendRun
<1>24. CASE BuildSuspendedRun
  BY <1>24 DEF BuildSuspendedRun, Return
<1>25. CASE CompleteRun
  BY <1>25 DEF CompleteRun, Return
<1>26. CASE FailRun
  BY <1>26 DEF FailRun, Return
<1>27. ASSUME NEW n \in Nodes, TaskMissesInput(n) PROVE Grows
  BY <1>27 DEF TaskMissesInput, SetTask
<1>28. ASSUME NEW n \in Nodes, TaskStarts(n) PROVE Grows
  BY <1>28 DEF TaskStarts, SetTask
<1>29. ASSUME NEW n \in Nodes, TaskRefused(n) PROVE Grows
  BY <1>29 DEF TaskRefused, SetTask
<1>30. ASSUME NEW n \in Nodes, TaskReturns(n) PROVE Grows
  BY <1>30 DEF TaskReturns, SetTask
<1>31. ASSUME NEW n \in Nodes, GateAsks(n) PROVE Grows
  BY <1>31 DEF GateAsks, SetTask
<1>32. ASSUME NEW n \in Nodes, TaskRaises(n) PROVE Grows
  BY <1>32 DEF TaskRaises, SetTask
<1>33. CASE StoreRaises
  BY <1>33 DEF StoreRaises, Interrupt
<1>34. CASE HostSeesStoreError
  BY <1>34 DEF HostSeesStoreError, Interrupt, Return
<1>35. CASE Crash
  BY <1>35 DEF Crash, Interrupt, Return
<1>36. CASE Cancel
  BY <1>36 DEF Cancel, Interrupt
<1>37. ASSUME NEW g \in Gates, Respond(g) PROVE Grows
  BY <1>37 DEF Respond
<1>38. CASE UNCHANGED vars
  BY <1>38 DEF vars
<1> QED
  BY <1>1, <1>2, <1>3, <1>4, <1>5, <1>6, <1>7, <1>8, <1>9, <1>10, <1>11, <1>12, <1>13, <1>14,
     <1>15, <1>16, <1>17, <1>18, <1>19, <1>20, <1>21, <1>22, <1>23, <1>24, <1>25, <1>26, <1>27,
     <1>28, <1>29, <1>30, <1>31, <1>32, <1>33, <1>34, <1>35, <1>36, <1>37, <1>38
     DEF Next, Drive, Main, Task, Trouble

\* No gate has a result initially ...
LEMMA InitAnswers == Init => Answers
BY ConstantResults DEF Init, Answers, Suspended, NoCkpt

\* ... and none gets one without its answer, unless a drain records it.
LEMMA AnswersStep == TypeOK /\ Stage /\ Answers /\ [Next]_vars => Answers'
<1> SUFFICES ASSUME TypeOK, Stage, Answers, [Next]_vars PROVE Answers'
  OBVIOUS
<1> USE ConstantResults DEF Answers, config, stores, results, tasks, worker, history
<1>1. CASE Start
  BY <1>1 DEF Start, Begin
<1>2. CASE ResumeInterrupted
  BY <1>2 DEF ResumeInterrupted, Begin
<1>3. CASE Resume
  BY <1>3 DEF Resume, Begin
<1>4. CASE EnterRefused
  BY <1>4 DEF EnterRefused, Return
<1>5. CASE RegisterRun
  BY <1>5 DEF RegisterRun
<1>6. CASE Restore
  <2>1. \A g \in Gates \cap In(Restored) : g \in answered \cup drained
    BY RestoredFrom, ConstantResults DEF Answers
  <2> QED BY <1>6, <2>1 DEF Restore
<1>7. CASE LaunchReady
  BY <1>7 DEF LaunchReady
<1>8. CASE LoopEnds
  BY <1>8 DEF LoopEnds
<1>9. CASE Collect
  BY <1>9 DEF Collect
<1>10. CASE BatchDone
  BY <1>10 DEF BatchDone
<1>11. ASSUME NEW n \in Nodes, TakeResult(n) PROVE Answers'
  <2>1. In(completed)' = In(completed) \cup {n}
    BY <1>11, TakeAdds
  <2>2. n \in Gates => n \in answered
    BY <1>11 DEF TakeResult, Stage
  <2> QED BY <1>11, <2>1, <2>2 DEF TakeResult, Take
<1>12. ASSUME NEW n \in Nodes, TakeRefusal(n) PROVE Answers'
  BY <1>12 DEF TakeRefusal, Take
<1>13. ASSUME NEW n \in Nodes, AbortAll(n) PROVE Answers'
  BY <1>13 DEF AbortAll, Take
<1>14. ASSUME NEW n \in Nodes, RecordFailure(n) PROVE Answers'
  BY <1>14 DEF RecordFailure, Take
<1>15. ASSUME NEW n \in Nodes, TakeForgotten(n) PROVE Answers'
  BY <1>15 DEF TakeForgotten, Take
<1>16. ASSUME NEW n \in Nodes, TakeSuspension(n) PROVE Answers'
  BY <1>16 DEF TakeSuspension, Take
<1>17. ASSUME NEW n \in Nodes, SecondSuspension(n) PROVE Answers'
  BY <1>17 DEF SecondSuspension, Drained
<1>18. CASE SaveCursor
  BY <1>18 DEF SaveCursor, Suspended, NoCkpt, Stage
<1>19. CASE AppendStep
  <2>1. In(journal)' = In(journal) \cup {node} /\ node \in In(completed)
    BY <1>19, AppendAdds
  <2> QED BY <1>19, <2>1 DEF AppendStep
<1>20. CASE Unblock
  BY <1>20 DEF Unblock
<1>21. CASE DrainAll
  <2>1. In(completed)' = In(completed) \cup Takings /\ drained' = drained \cup Takings
    BY <1>21, DrainAdds
  <2> QED BY <1>21, <2>1 DEF DrainAll, Drained
<1>22. CASE SurfaceSuspension
  BY <1>22 DEF SurfaceSuspension, Suspended, NoCkpt
<1>23. CASE SuspendRun
  BY <1>23 DEF SuspendRun
<1>24. CASE BuildSuspendedRun
  BY <1>24 DEF BuildSuspendedRun, Return
<1>25. CASE CompleteRun
  BY <1>25 DEF CompleteRun, Return
<1>26. CASE FailRun
  BY <1>26 DEF FailRun, Return
<1>27. ASSUME NEW n \in Nodes, TaskMissesInput(n) PROVE Answers'
  BY <1>27 DEF TaskMissesInput, SetTask
<1>28. ASSUME NEW n \in Nodes, TaskStarts(n) PROVE Answers'
  BY <1>28 DEF TaskStarts, SetTask
<1>29. ASSUME NEW n \in Nodes, TaskRefused(n) PROVE Answers'
  BY <1>29 DEF TaskRefused, SetTask
<1>30. ASSUME NEW n \in Nodes, TaskReturns(n) PROVE Answers'
  BY <1>30 DEF TaskReturns, SetTask
<1>31. ASSUME NEW n \in Nodes, GateAsks(n) PROVE Answers'
  BY <1>31 DEF GateAsks, SetTask
<1>32. ASSUME NEW n \in Nodes, TaskRaises(n) PROVE Answers'
  BY <1>32 DEF TaskRaises, SetTask
<1>33. CASE StoreRaises
  BY <1>33 DEF StoreRaises, Interrupt
<1>34. CASE HostSeesStoreError
  BY <1>34 DEF HostSeesStoreError, Interrupt, Return
<1>35. CASE Crash
  BY <1>35 DEF Crash, Interrupt, Return
<1>36. CASE Cancel
  BY <1>36 DEF Cancel, Interrupt
<1>37. ASSUME NEW g \in Gates, Respond(g) PROVE Answers'
  BY <1>37 DEF Respond
<1>38. CASE UNCHANGED vars
  BY <1>38 DEF vars
<1> QED
  BY <1>1, <1>2, <1>3, <1>4, <1>5, <1>6, <1>7, <1>8, <1>9, <1>10, <1>11, <1>12, <1>13, <1>14,
     <1>15, <1>16, <1>17, <1>18, <1>19, <1>20, <1>21, <1>22, <1>23, <1>24, <1>25, <1>26, <1>27,
     <1>28, <1>29, <1>30, <1>31, <1>32, <1>33, <1>34, <1>35, <1>36, <1>37, <1>38
     DEF Next, Drive, Main, Task, Trouble

\* A node whose input is there is below gates that have their results only.
LEMMA InputCleared ==
    ASSUME TypeOK, Answers, Clearance, NEW n \in Nodes, HasInput(n)
    PROVE  Cleared(n)
<1> SUFFICES ASSUME NEW g \in Gates, n \in Below[g] PROVE g \in answered \cup drained
  BY DEF Cleared
<1>1. g \in Nodes
  BY GraphAssumption
<1>2. PICK d \in Deps[n] : d = g \/ d \in Below[g]
  BY <1>1, BelowHasDependency
<1>3. d \in In(completed)
  BY <1>2 DEF HasInput
<1>4. CASE d = g
  BY <1>3, <1>4 DEF Answers
<1>5. CASE d \in Below[g]
  BY <1>3, <1>5 DEF Clearance, Cleared
<1> QED BY <1>2, <1>4, <1>5

\* Nothing has run initially ...
LEMMA InitClearance == Init => Clearance
BY ConstantResults DEF Init, Clearance, GatesHold, Suspended, NoCkpt

\* ... and nothing starts before the gates above it have their results.
LEMMA ClearanceStep == TypeOK /\ Stage /\ Answers /\ Clearance /\ [Next]_vars => Clearance'
<1> SUFFICES ASSUME TypeOK, Stage, Answers, Clearance, [Next]_vars PROVE Clearance'
  OBVIOUS
<1>a. \A n \in Nodes : Cleared(n) => Cleared(n)'
  BY HistoryGrows DEF Cleared
<1>b. \A n \in Nodes : n \in In(completed) \cup In(journal) \/ runs[n] > 0 => Cleared(n)'
  BY <1>a DEF Clearance, GatesHold, Cleared
<1>c. Suspended(ckpt) => \A n \in In(ckpt.completed) : Cleared(n)'
  BY <1>a DEF Clearance, In
<1>d. GatesHold' <=> \A n \in Nodes : runs'[n] > 0 => Cleared(n)'
  BY DEF GatesHold, Cleared
<1>e. In(completed) \subseteq Nodes /\ In(journal) \subseteq Nodes
  BY DEF In
<1> USE <1>b, <1>c, <1>d, <1>e, ConstantResults
    DEF Clearance, config, stores, results, tasks, worker, history
<1>1. CASE Start
  BY <1>1 DEF Start, Begin
<1>2. CASE ResumeInterrupted
  BY <1>2 DEF ResumeInterrupted, Begin
<1>3. CASE Resume
  BY <1>3 DEF Resume, Begin
<1>4. CASE EnterRefused
  BY <1>4 DEF EnterRefused, Return
<1>5. CASE RegisterRun
  BY <1>5 DEF RegisterRun
<1>6. CASE Restore
  <2>1. \A n \in In(Restored) : Cleared(n)'
    BY <1>b, <1>c, RestoredFrom, ConstantResults
  <2> QED BY <1>6, <2>1 DEF Restore
<1>7. CASE LaunchReady
  BY <1>7 DEF LaunchReady
<1>8. CASE LoopEnds
  BY <1>8 DEF LoopEnds
<1>9. CASE Collect
  BY <1>9 DEF Collect
<1>10. CASE BatchDone
  BY <1>10 DEF BatchDone
<1>11. ASSUME NEW n \in Nodes, TakeResult(n) PROVE Clearance'
  <2>1. In(completed)' = In(completed) \cup {n} /\ HasInput(n)
    BY <1>11, TakeAdds
  <2>2. Cleared(n)'
    BY <1>a, <2>1, InputCleared
  <2> QED BY <1>11, <2>1, <2>2 DEF TakeResult, Take
<1>12. ASSUME NEW n \in Nodes, TakeRefusal(n) PROVE Clearance'
  BY <1>12 DEF TakeRefusal, Take
<1>13. ASSUME NEW n \in Nodes, AbortAll(n) PROVE Clearance'
  BY <1>13 DEF AbortAll, Take
<1>14. ASSUME NEW n \in Nodes, RecordFailure(n) PROVE Clearance'
  BY <1>14 DEF RecordFailure, Take
<1>15. ASSUME NEW n \in Nodes, TakeForgotten(n) PROVE Clearance'
  BY <1>15 DEF TakeForgotten, Take
<1>16. ASSUME NEW n \in Nodes, TakeSuspension(n) PROVE Clearance'
  BY <1>16 DEF TakeSuspension, Take
<1>17. ASSUME NEW n \in Nodes, SecondSuspension(n) PROVE Clearance'
  BY <1>17 DEF SecondSuspension, Drained
<1>18. CASE SaveCursor
  BY <1>18 DEF SaveCursor, Suspended, NoCkpt, Stage
<1>19. CASE AppendStep
  <2>1. In(journal)' = In(journal) \cup {node} /\ node \in In(completed)
    BY <1>19, AppendAdds
  <2> QED BY <1>19, <2>1 DEF AppendStep
<1>20. CASE Unblock
  BY <1>20 DEF Unblock
<1>21. CASE DrainAll
  <2>1. In(completed)' = In(completed) \cup Takings /\ \A n \in Takings : HasInput(n)
    BY <1>21, DrainAdds
  <2>2. \A n \in Takings : Cleared(n)'
    BY <1>a, <2>1, InputCleared DEF Takings
  <2> QED BY <1>21, <2>1, <2>2 DEF DrainAll
<1>22. CASE SurfaceSuspension
  BY <1>22 DEF SurfaceSuspension, Suspended, NoCkpt
<1>23. CASE SuspendRun
  BY <1>23 DEF SuspendRun
<1>24. CASE BuildSuspendedRun
  BY <1>24 DEF BuildSuspendedRun, Return
<1>25. CASE CompleteRun
  BY <1>25 DEF CompleteRun, Return
<1>26. CASE FailRun
  BY <1>26 DEF FailRun, Return
<1>27. ASSUME NEW n \in Nodes, TaskMissesInput(n) PROVE Clearance'
  BY <1>27 DEF TaskMissesInput, SetTask
<1>28. ASSUME NEW n \in Nodes, TaskStarts(n) PROVE Clearance'
  <2>1. Cleared(n)'
    BY <1>28, <1>a, InputCleared DEF TaskStarts
  <2>2. \A m \in Nodes \ {n} : runs'[m] = runs[m]
    BY <1>28 DEF TaskStarts, TypeOK
  <2> QED BY <1>28, <2>1, <2>2 DEF TaskStarts, SetTask
<1>29. ASSUME NEW n \in Nodes, TaskRefused(n) PROVE Clearance'
  BY <1>29 DEF TaskRefused, SetTask
<1>30. ASSUME NEW n \in Nodes, TaskReturns(n) PROVE Clearance'
  BY <1>30 DEF TaskReturns, SetTask
<1>31. ASSUME NEW n \in Nodes, GateAsks(n) PROVE Clearance'
  BY <1>31 DEF GateAsks, SetTask
<1>32. ASSUME NEW n \in Nodes, TaskRaises(n) PROVE Clearance'
  BY <1>32 DEF TaskRaises, SetTask
<1>33. CASE StoreRaises
  BY <1>33 DEF StoreRaises, Interrupt
<1>34. CASE HostSeesStoreError
  BY <1>34 DEF HostSeesStoreError, Interrupt, Return
<1>35. CASE Crash
  BY <1>35 DEF Crash, Interrupt, Return
<1>36. CASE Cancel
  BY <1>36 DEF Cancel, Interrupt
<1>37. ASSUME NEW g \in Gates, Respond(g) PROVE Clearance'
  BY <1>37 DEF Respond
<1>38. CASE UNCHANGED vars
  BY <1>38 DEF vars
<1> QED
  BY <1>1, <1>2, <1>3, <1>4, <1>5, <1>6, <1>7, <1>8, <1>9, <1>10, <1>11, <1>12, <1>13, <1>14,
     <1>15, <1>16, <1>17, <1>18, <1>19, <1>20, <1>21, <1>22, <1>23, <1>24, <1>25, <1>26, <1>27,
     <1>28, <1>29, <1>30, <1>31, <1>32, <1>33, <1>34, <1>35, <1>36, <1>37, <1>38
     DEF Next, Drive, Main, Task, Trouble

\* In every acyclic graph, however tasks finish, drives fail and runs are resumed, no
\* node below a gate runs before the gate is answered or, refused under a set
\* token, recorded by a drain: reading the inputs enforces it, whatever in_degree says.
THEOREM GatesCorrect == Spec => []GatesHold
<1>1. Clearance => GatesHold
  BY DEF Clearance
<1> QED
  BY <1>1, InitTypeOK, TypeStep, StageStep, InitAnswers, AnswersStep, InitClearance, ClearanceStep,
     PTL DEF Spec

----------------------------------------------------------------------------
(* Nodes run once.                                                         *)

\* Nothing has a result initially ...
LEMMA InitClosure == Init => Closure
BY ConstantResults DEF Init, Closure, Complete, Suspended, NoCkpt

\* ... and results are added, journaled and saved behind those they were made from.
LEMMA ClosureStep ==
    TypeOK /\ Stage /\ Records /\ Answers /\ Closure /\ [Next]_vars => Closure'
<1> SUFFICES ASSUME TypeOK, Stage, Records, Answers, Closure, [Next]_vars PROVE Closure'
  OBVIOUS
<1>g. answered \subseteq answered' /\ drained \subseteq drained'
  BY HistoryGrows
<1>r. \A n \in Nodes : Repeats(n) => Repeats(n)'
  BY <1>g DEF Repeats
<1>n. In(completed) \subseteq Nodes /\ In(journal) \subseteq Nodes
  BY DEF In
<1>a. \A n \in In(completed) : /\ Deps[n] \subseteq In(completed) \cup drained'
                               /\ ~Repeats(n)' => Deps[n] \subseteq In(completed)
  BY <1>g, <1>r, <1>n DEF Closure, Complete
<1>b. \A n \in In(journal) : /\ Deps[n] \subseteq In(journal) \cup drained'
                             /\ ~Repeats(n)' => Deps[n] \subseteq In(journal)
  BY <1>g, <1>r, <1>n DEF Closure, Complete
<1>c. Suspended(ckpt) =>
          \A n \in In(ckpt.completed) :
              /\ Deps[n] \subseteq In(ckpt.completed) \cup drained'
              /\ ~Repeats(n)' => Deps[n] \subseteq In(ckpt.completed)
  BY <1>g, <1>r DEF Closure, Complete, In
<1> USE <1>a, <1>b, <1>c, ConstantResults
    DEF Closure, Complete, config, stores, results, tasks, worker, history
<1>1. CASE Start
  BY <1>1 DEF Start, Begin
<1>2. CASE ResumeInterrupted
  BY <1>2 DEF ResumeInterrupted, Begin
<1>3. CASE Resume
  BY <1>3 DEF Resume, Begin
<1>4. CASE EnterRefused
  BY <1>4 DEF EnterRefused, Return
<1>5. CASE RegisterRun
  BY <1>5 DEF RegisterRun
<1>6. CASE Restore
  <2>1. \A n \in In(Restored) : /\ Deps[n] \subseteq In(Restored) \cup drained'
                                /\ ~Repeats(n)' => Deps[n] \subseteq In(Restored)
    BY <1>a, <1>b, <1>c, RestoredFrom, ConstantResults
  <2> QED BY <1>6, <2>1 DEF Restore
<1>7. CASE LaunchReady
  BY <1>7 DEF LaunchReady
<1>8. CASE LoopEnds
  BY <1>8 DEF LoopEnds
<1>9. CASE Collect
  BY <1>9 DEF Collect
<1>10. CASE BatchDone
  BY <1>10 DEF BatchDone
<1>11. ASSUME NEW n \in Nodes, TakeResult(n) PROVE Closure'
  <2>1. In(completed)' = In(completed) \cup {n} /\ Deps[n] \subseteq In(completed)
    BY <1>11, TakeAdds DEF HasInput
  <2> QED BY <1>11, <2>1 DEF TakeResult, Take
<1>12. ASSUME NEW n \in Nodes, TakeRefusal(n) PROVE Closure'
  BY <1>12 DEF TakeRefusal, Take
<1>13. ASSUME NEW n \in Nodes, AbortAll(n) PROVE Closure'
  BY <1>13 DEF AbortAll, Take
<1>14. ASSUME NEW n \in Nodes, RecordFailure(n) PROVE Closure'
  BY <1>14 DEF RecordFailure, Take
<1>15. ASSUME NEW n \in Nodes, TakeForgotten(n) PROVE Closure'
  BY <1>15 DEF TakeForgotten, Take
<1>16. ASSUME NEW n \in Nodes, TakeSuspension(n) PROVE Closure'
  BY <1>16 DEF TakeSuspension, Take
<1>17. ASSUME NEW n \in Nodes, SecondSuspension(n) PROVE Closure'
  BY <1>17 DEF SecondSuspension, Drained
<1>18. CASE SaveCursor
  BY <1>18 DEF SaveCursor, Suspended, NoCkpt, Stage
<1>19. CASE AppendStep
  <2>1. In(journal)' = In(journal) \cup {node} /\ node \in In(completed)
    BY <1>19, AppendAdds
  <2>2. In(completed) \subseteq In(journal)' \cup drained
    BY <1>19, <2>1 DEF AppendStep, Stage, Records, InLoop, Unsaved
  <2>3. Deps[node] \subseteq In(journal)' \cup drained
    BY <2>1, <2>2 DEF Closure, Complete
  <2>4. ASSUME NEW k \in Nodes, k = node, ~Repeats(k)' PROVE Deps[k] \subseteq In(journal)'
    BY <1>19, <2>1, <2>3, <2>4 DEF AppendStep, Stage, Answers, Repeats, history
  <2>5. UNCHANGED <<completed, ckpt, drained>>
    BY <1>19 DEF AppendStep, worker, results, history
  <2>6. \A n \in In(journal)' : /\ Deps[n] \subseteq In(journal)' \cup drained'
                                /\ ~Repeats(n)' => Deps[n] \subseteq In(journal)'
    <3>1. drained' = drained
      BY <2>5
    <3> QED BY ONLY <1>b, <1>n, <2>1, <2>3, <2>4, <3>1
  <2> QED BY <2>5, <2>6
<1>20. CASE Unblock
  BY <1>20 DEF Unblock
<1>21. CASE DrainAll
  <2>1. /\ In(completed)' = In(completed) \cup Takings
        /\ \A n \in Takings : Deps[n] \subseteq In(completed)
    BY <1>21, DrainAdds DEF HasInput
  <2> QED BY <1>21, <2>1 DEF DrainAll
<1>22. CASE SurfaceSuspension
  BY <1>22 DEF SurfaceSuspension, Suspended, NoCkpt
<1>23. CASE SuspendRun
  BY <1>23 DEF SuspendRun
<1>24. CASE BuildSuspendedRun
  BY <1>24 DEF BuildSuspendedRun, Return
<1>25. CASE CompleteRun
  BY <1>25 DEF CompleteRun, Return
<1>26. CASE FailRun
  BY <1>26 DEF FailRun, Return
<1>27. ASSUME NEW n \in Nodes, TaskMissesInput(n) PROVE Closure'
  BY <1>27 DEF TaskMissesInput, SetTask
<1>28. ASSUME NEW n \in Nodes, TaskStarts(n) PROVE Closure'
  BY <1>28 DEF TaskStarts, SetTask
<1>29. ASSUME NEW n \in Nodes, TaskRefused(n) PROVE Closure'
  BY <1>29 DEF TaskRefused, SetTask
<1>30. ASSUME NEW n \in Nodes, TaskReturns(n) PROVE Closure'
  BY <1>30 DEF TaskReturns, SetTask
<1>31. ASSUME NEW n \in Nodes, GateAsks(n) PROVE Closure'
  BY <1>31 DEF GateAsks, SetTask
<1>32. ASSUME NEW n \in Nodes, TaskRaises(n) PROVE Closure'
  BY <1>32 DEF TaskRaises, SetTask
<1>33. CASE StoreRaises
  BY <1>33 DEF StoreRaises, Interrupt
<1>34. CASE HostSeesStoreError
  BY <1>34 DEF HostSeesStoreError, Interrupt, Return
<1>35. CASE Crash
  BY <1>35 DEF Crash, Interrupt, Return
<1>36. CASE Cancel
  BY <1>36 DEF Cancel, Interrupt
<1>37. ASSUME NEW g \in Gates, Respond(g) PROVE Closure'
  BY <1>37 DEF Respond
<1>38. CASE UNCHANGED vars
  BY <1>38 DEF vars
<1> QED
  BY <1>1, <1>2, <1>3, <1>4, <1>5, <1>6, <1>7, <1>8, <1>9, <1>10, <1>11, <1>12, <1>13, <1>14,
     <1>15, <1>16, <1>17, <1>18, <1>19, <1>20, <1>21, <1>22, <1>23, <1>24, <1>25, <1>26, <1>27,
     <1>28, <1>29, <1>30, <1>31, <1>32, <1>33, <1>34, <1>35, <1>36, <1>37, <1>38
     DEF Next, Drive, Main, Task, Trouble

\* Nothing is launched initially ...
LEMMA InitLaunches == Init => Launches
BY ConstantResults DEF Init, Launches, InFlight, NoTask

\* Lowering in_degree never undoes what Launches says of nodes that are not added.
LEMMA LaunchesStep ==
    TypeOK /\ Stage /\ Closure /\ Launches /\ [Next]_vars => Launches'
<1> SUFFICES ASSUME TypeOK, Stage, Closure, Launches, [Next]_vars PROVE Launches'
  OBVIOUS
<1>r. \A n \in Nodes : Repeats(n) => Repeats(n)'
  BY HistoryGrows DEF Repeats
<1>n. In(completed) \subseteq Nodes
  BY DEF In
<1>a. \A n \in In(completed) :
          ~Repeats(n)' => inDegree[n] <= 0 /\ n \notin ready \cup InFlight \cup failed
  BY <1>r, <1>n DEF Launches
<1> USE <1>a, <1>n, ConstantResults
    DEF Launches, config, stores, results, graph, tasks, worker, history
<1>1. CASE Start
  BY <1>1 DEF Start, Begin, InFlight
<1>2. CASE ResumeInterrupted
  BY <1>2 DEF ResumeInterrupted, Begin, InFlight
<1>3. CASE Resume
  BY <1>3 DEF Resume, Begin, InFlight
<1>4. CASE EnterRefused
  <2>1. completed' = Nothing /\ ready' = {} /\ failed' = {} /\ InFlight' = {}
    BY <1>4 DEF EnterRefused, Return, InFlight, NoTask
  <2> QED BY <2>1
<1>5. CASE RegisterRun
  BY <1>5 DEF RegisterRun, InFlight
<1>6. CASE Restore
  <2>1. InFlight = {} /\ failed = {}
    BY <1>6 DEF Restore, Stage, InLoop, Driving, InFlight, NoTask
  <2>2. Complete(In(Restored))
    BY RestoredFrom, ConstantResults DEF Closure, Complete
  <2>3. ASSUME NEW n \in In(Restored), ~Repeats(n)'
        PROVE  inDegree'[n] <= 0
    <3>1. n \in Nodes /\ ~Repeats(n)
      BY <1>r, <2>3 DEF In
    <3>2. Deps[n] \ In(Restored) = {}
      BY <2>2, <2>3, <3>1 DEF Complete
    <3>3. inDegree'[n] = Cardinality({})
      BY <1>6, <3>1, <3>2 DEF Restore, MissingDeps
    <3> QED BY <3>3, FS_EmptySet
  <2>4. /\ completed' = Restored /\ failed' = failed /\ task' = task
        /\ ready' = {n \in Nodes : inDegree'[n] = 0} \ In(Restored)
    BY <1>6 DEF Restore
  <2>5. InFlight' = {}
    BY <2>1, <2>4 DEF InFlight
  <2> QED BY <2>1, <2>3, <2>4, <2>5
<1>7. CASE LaunchReady
  <2>1. InFlight' = InFlight \cup ready
    BY <1>7 DEF LaunchReady, InFlight, TypeOK
  <2> QED BY <1>7, <2>1 DEF LaunchReady
<1>8. CASE LoopEnds
  BY <1>8 DEF LoopEnds, InFlight
<1>9. CASE Collect
  BY <1>9 DEF Collect, InFlight
<1>10. CASE BatchDone
  BY <1>10 DEF BatchDone, InFlight
<1>11. ASSUME NEW n \in Nodes, TakeResult(n) PROVE Launches'
  <2>1. In(completed)' = In(completed) \cup {n}
    BY <1>11, TakeAdds
  <2>2. InFlight' = InFlight \ {n} /\ n \in InFlight
    BY <1>11 DEF TakeResult, TypeOK, InFlight
  <2> QED BY <1>11, <2>1, <2>2 DEF TakeResult
<1>12. ASSUME NEW n \in Nodes, TakeRefusal(n) PROVE Launches'
  <2>1. InFlight' = {}
    BY <1>12 DEF TakeRefusal, InFlight, NoTask
  <2> QED BY <1>12, <2>1 DEF TakeRefusal
<1>13. ASSUME NEW n \in Nodes, AbortAll(n) PROVE Launches'
  <2>1. InFlight' = {}
    BY <1>13 DEF AbortAll, InFlight, NoTask
  <2> QED BY <1>13, <2>1 DEF AbortAll
<1>14. ASSUME NEW n \in Nodes, RecordFailure(n) PROVE Launches'
  <2>1. InFlight' \subseteq InFlight \ {n} /\ n \in InFlight
    BY <1>14 DEF RecordFailure, TypeOK, InFlight
  <2> QED BY <1>14, <2>1 DEF RecordFailure
<1>15. ASSUME NEW n \in Nodes, TakeForgotten(n) PROVE Launches'
  <2>1. InFlight' = {}
    BY <1>15 DEF TakeForgotten, InFlight, NoTask
  <2> QED BY <1>15, <2>1 DEF TakeForgotten
<1>16. ASSUME NEW n \in Nodes, TakeSuspension(n) PROVE Launches'
  <2>1. InFlight' = InFlight \ {n} /\ n \in InFlight
    BY <1>16 DEF TakeSuspension, TypeOK, InFlight
  <2> QED BY <1>16, <2>1 DEF TakeSuspension, Take
<1>17. ASSUME NEW n \in Nodes, SecondSuspension(n) PROVE Launches'
  <2>1. InFlight' = {}
    BY <1>17 DEF SecondSuspension, InFlight, NoTask
  <2> QED BY <1>17, <2>1 DEF SecondSuspension
<1>18. CASE SaveCursor
  BY <1>18 DEF SaveCursor, InFlight
<1>19. CASE AppendStep
  BY <1>19 DEF AppendStep, InFlight
<1>20. CASE Unblock
  <2> DEFINE live == Dependents(node) \ skipped
  <2>1. /\ \A n \in Nodes : inDegree'[n] = IF n \in live THEN inDegree[n] - 1 ELSE inDegree[n]
        /\ ready' = ready \cup {n \in live : inDegree[n] = 1}
        /\ UNCHANGED <<completed, failed, task, answered, drained>>
    BY <1>20 DEF Unblock
  <2>2. live \subseteq Nodes /\ InFlight \subseteq Nodes /\ InFlight' = InFlight
    BY <2>1 DEF Dependents, InFlight
  <2>3. \A n \in Nodes : inDegree[n] \in Int /\ inDegree'[n] \in Int /\ inDegree'[n] <= inDegree[n]
    BY <2>1 DEF TypeOK
  <2>4. \A n \in ready' \cup InFlight \cup failed : inDegree'[n] <= 0
    BY <2>1, <2>2, <2>3 DEF TypeOK
  <2>5. \A n \in In(completed) :
            ~Repeats(n)' => inDegree'[n] <= 0 /\ n \notin ready' \cup InFlight \cup failed
    BY <2>1, <2>2, <2>3
  <2>6. ready' \cap InFlight = {} /\ failed \cap ready' = {}
    BY <2>1, <2>2, <2>3
  <2> QED BY <2>1, <2>2, <2>4, <2>5, <2>6
<1>21. CASE DrainAll
  <2>1. In(completed)' = In(completed) \cup Takings
    BY <1>21, DrainAdds
  <2>2. InFlight' = {} /\ Takings \subseteq InFlight
    BY <1>21 DEF DrainAll, InFlight, NoTask, Takings
  <2> QED BY <1>21, <2>1, <2>2 DEF DrainAll
<1>22. CASE SurfaceSuspension
  BY <1>22 DEF SurfaceSuspension, InFlight
<1>23. CASE SuspendRun
  BY <1>23 DEF SuspendRun, InFlight
<1>24. CASE BuildSuspendedRun
  <2>1. completed' = Nothing /\ ready' = {} /\ failed' = {} /\ InFlight' = {}
    BY <1>24 DEF BuildSuspendedRun, Return, InFlight, NoTask
  <2> QED BY <2>1
<1>25. CASE CompleteRun
  <2>1. completed' = Nothing /\ ready' = {} /\ failed' = {} /\ InFlight' = {}
    BY <1>25 DEF CompleteRun, Return, InFlight, NoTask
  <2> QED BY <2>1
<1>26. CASE FailRun
  <2>1. completed' = Nothing /\ ready' = {} /\ failed' = {} /\ InFlight' = {}
    BY <1>26 DEF FailRun, Return, InFlight, NoTask
  <2> QED BY <2>1
<1>27. ASSUME NEW n \in Nodes, TaskMissesInput(n) PROVE Launches'
  <2>1. InFlight' = InFlight
    BY <1>27 DEF TaskMissesInput, SetTask, TypeOK, InFlight
  <2> QED BY <1>27, <2>1 DEF TaskMissesInput, SetTask
<1>28. ASSUME NEW n \in Nodes, TaskStarts(n) PROVE Launches'
  <2>1. InFlight' = InFlight
    BY <1>28 DEF TaskStarts, SetTask, TypeOK, InFlight
  <2> QED BY <1>28, <2>1 DEF TaskStarts, SetTask
<1>29. ASSUME NEW n \in Nodes, TaskRefused(n) PROVE Launches'
  <2>1. InFlight' = InFlight
    BY <1>29 DEF TaskRefused, SetTask, TypeOK, InFlight
  <2> QED BY <1>29, <2>1 DEF TaskRefused, SetTask
<1>30. ASSUME NEW n \in Nodes, TaskReturns(n) PROVE Launches'
  <2>1. InFlight' = InFlight
    BY <1>30 DEF TaskReturns, SetTask, TypeOK, InFlight
  <2> QED BY <1>30, <2>1 DEF TaskReturns, SetTask
<1>31. ASSUME NEW n \in Nodes, GateAsks(n) PROVE Launches'
  <2>1. InFlight' = InFlight
    BY <1>31 DEF GateAsks, SetTask, TypeOK, InFlight
  <2> QED BY <1>31, <2>1 DEF GateAsks, SetTask
<1>32. ASSUME NEW n \in Nodes, TaskRaises(n) PROVE Launches'
  <2>1. InFlight' = InFlight
    BY <1>32 DEF TaskRaises, SetTask, TypeOK, InFlight
  <2> QED BY <1>32, <2>1 DEF TaskRaises, SetTask
<1>33. CASE StoreRaises
  <2>1. InFlight' = {}
    BY <1>33 DEF StoreRaises, InFlight, NoTask
  <2> QED BY <1>33, <2>1 DEF StoreRaises
<1>34. CASE HostSeesStoreError
  <2>1. completed' = Nothing /\ ready' = {} /\ failed' = {} /\ InFlight' = {}
    BY <1>34 DEF HostSeesStoreError, Return, InFlight, NoTask
  <2> QED BY <2>1
<1>35. CASE Crash
  <2>1. completed' = Nothing /\ ready' = {} /\ failed' = {} /\ InFlight' = {}
    BY <1>35 DEF Crash, Return, InFlight, NoTask
  <2> QED BY <2>1
<1>36. CASE Cancel
  BY <1>36 DEF Cancel, Interrupt, InFlight
<1>37. ASSUME NEW g \in Gates, Respond(g) PROVE Launches'
  BY <1>37 DEF Respond, InFlight
<1>38. CASE UNCHANGED vars
  BY <1>38 DEF vars, InFlight
<1> QED
  BY <1>1, <1>2, <1>3, <1>4, <1>5, <1>6, <1>7, <1>8, <1>9, <1>10, <1>11, <1>12, <1>13, <1>14,
     <1>15, <1>16, <1>17, <1>18, <1>19, <1>20, <1>21, <1>22, <1>23, <1>24, <1>25, <1>26, <1>27,
     <1>28, <1>29, <1>30, <1>31, <1>32, <1>33, <1>34, <1>35, <1>36, <1>37, <1>38
     DEF Next, Drive, Main, Task, Trouble

\* In every acyclic graph, across all resumes, a journaled node none of whose
\* dependencies a drain has recorded is never executed again.
THEOREM JournaledNodesCorrect == Spec => JournaledNodesRunOnce
<1> DEFINE Once == \A n \in In(journal) : Deps[n] \cap drained = {} => runs'[n] = runs[n]
<1>1. ASSUME TypeOK, Stage, Records, Launches, Next PROVE Once
  <2> SUFFICES ASSUME NEW n \in In(journal), Deps[n] \cap drained = {}, runs'[n] # runs[n]
               PROVE  FALSE
    OBVIOUS
  <2>1. n \in Nodes
    BY DEF In
  <2>2. PICK m \in Nodes : TaskStarts(m)
    <3> USE <1>1 DEF history
    <3>1. CASE Start
      BY <3>1 DEF Start, Begin
    <3>2. CASE ResumeInterrupted
      BY <3>2 DEF ResumeInterrupted, Begin
    <3>3. CASE Resume
      BY <3>3 DEF Resume, Begin
    <3>4. CASE EnterRefused
      BY <3>4 DEF EnterRefused, Return
    <3>5. CASE RegisterRun
      BY <3>5 DEF RegisterRun
    <3>6. CASE Restore
      BY <3>6 DEF Restore
    <3>7. CASE LaunchReady
      BY <3>7 DEF LaunchReady
    <3>8. CASE LoopEnds
      BY <3>8 DEF LoopEnds
    <3>9. CASE Collect
      BY <3>9 DEF Collect
    <3>10. CASE BatchDone
      BY <3>10 DEF BatchDone
    <3>11. ASSUME NEW m \in Nodes, TakeResult(m) PROVE FALSE
      BY <3>11 DEF TakeResult, Take
    <3>12. ASSUME NEW m \in Nodes, TakeRefusal(m) PROVE FALSE
      BY <3>12 DEF TakeRefusal, Take
    <3>13. ASSUME NEW m \in Nodes, AbortAll(m) PROVE FALSE
      BY <3>13 DEF AbortAll, Take
    <3>14. ASSUME NEW m \in Nodes, RecordFailure(m) PROVE FALSE
      BY <3>14 DEF RecordFailure, Take
    <3>15. ASSUME NEW m \in Nodes, TakeForgotten(m) PROVE FALSE
      BY <3>15 DEF TakeForgotten, Take
    <3>16. ASSUME NEW m \in Nodes, TakeSuspension(m) PROVE FALSE
      BY <3>16 DEF TakeSuspension, Take
    <3>17. ASSUME NEW m \in Nodes, SecondSuspension(m) PROVE FALSE
      BY <3>17 DEF SecondSuspension, Drained
    <3>18. CASE SaveCursor
      BY <3>18 DEF SaveCursor
    <3>19. CASE AppendStep
      BY <3>19 DEF AppendStep
    <3>20. CASE Unblock
      BY <3>20 DEF Unblock
    <3>21. CASE DrainAll
      BY <3>21 DEF DrainAll, Drained
    <3>22. CASE SurfaceSuspension
      BY <3>22 DEF SurfaceSuspension
    <3>23. CASE SuspendRun
      BY <3>23 DEF SuspendRun
    <3>24. CASE BuildSuspendedRun
      BY <3>24 DEF BuildSuspendedRun, Return
    <3>25. CASE CompleteRun
      BY <3>25 DEF CompleteRun, Return
    <3>26. CASE FailRun
      BY <3>26 DEF FailRun, Return
    <3>27. ASSUME NEW m \in Nodes, TaskMissesInput(m) PROVE FALSE
      BY <3>27 DEF TaskMissesInput, SetTask
    <3>29. ASSUME NEW m \in Nodes, TaskRefused(m) PROVE FALSE
      BY <3>29 DEF TaskRefused, SetTask
    <3>30. ASSUME NEW m \in Nodes, TaskReturns(m) PROVE FALSE
      BY <3>30 DEF TaskReturns, SetTask
    <3>31. ASSUME NEW m \in Nodes, GateAsks(m) PROVE FALSE
      BY <3>31 DEF GateAsks, SetTask
    <3>32. ASSUME NEW m \in Nodes, TaskRaises(m) PROVE FALSE
      BY <3>32 DEF TaskRaises, SetTask
    <3>33. CASE StoreRaises
      BY <3>33 DEF StoreRaises, Interrupt
    <3>34. CASE HostSeesStoreError
      BY <3>34 DEF HostSeesStoreError, Interrupt, Return
    <3>35. CASE Crash
      BY <3>35 DEF Crash, Interrupt, Return
    <3>36. CASE Cancel
      BY <3>36 DEF Cancel, Interrupt
    <3>37. ASSUME NEW g \in Gates, Respond(g) PROVE FALSE
      BY <3>37 DEF Respond
    <3> QED
      BY <3>1, <3>2, <3>3, <3>4, <3>5, <3>6, <3>7, <3>8, <3>9, <3>10, <3>11, <3>12, <3>13,
         <3>14, <3>15, <3>16, <3>17, <3>18, <3>19, <3>20, <3>21, <3>22, <3>23, <3>24, <3>25,
         <3>26, <3>27, <3>29, <3>30, <3>31, <3>32, <3>33, <3>34, <3>35, <3>36, <3>37
         DEF Next, Drive, Main, Task, Trouble
  <2>3. m = n /\ task[n] = "queued"
    BY <2>1, <2>2 DEF TaskStarts, SetTask, TypeOK
  <2>4. n \in In(completed)
    BY <1>1, <2>2 DEF TaskStarts, SetTask, Awaiting, Records, Holding, Driving
  <2>5. n \notin InFlight
    BY <1>1, <2>4 DEF Launches, Repeats
  <2> QED BY <2>1, <2>3, <2>5 DEF InFlight
<1>2. ASSUME TypeOK, Stage, Records, Launches, [Next]_vars PROVE [Once]_vars
  BY <1>1, <1>2
<1> QED
  BY <1>2, InitTypeOK, TypeStep, StageStep, InitRecords, RecordsStep, InitAnswers, AnswersStep,
     InitClosure, ClosureStep, InitLaunches, LaunchesStep, PTL DEF Spec, JournaledNodesRunOnce

----------------------------------------------------------------------------
(* Suspensions.                                                            *)

\* Nobody has asked initially ...
LEMMA InitSuspensions == Init => Suspensions
BY DEF Init, Suspensions, SuspensionIsResumable, Suspended, NoCkpt, NoTask

\* ... and what a gate asks reaches the checkpoint.
LEMMA SuspensionsStep ==
    TypeOK /\ Stage /\ Launches /\ Suspensions /\ [Next]_vars => Suspensions'
<1> SUFFICES ASSUME TypeOK, Stage, Launches, Suspensions, [Next]_vars PROVE Suspensions'
  OBVIOUS
<1>n. Gates \subseteq Nodes
  BY GraphAssumption
<1> USE DEF Suspensions, SuspensionIsResumable, config, stores, results, tasks, worker, host,
            history
<1>1. CASE Start
  BY <1>1 DEF Start, Begin
<1>2. CASE ResumeInterrupted
  BY <1>2 DEF ResumeInterrupted, Begin
<1>3. CASE Resume
  BY <1>3 DEF Resume, Begin
<1>4. CASE EnterRefused
  BY <1>4 DEF EnterRefused, Return, Suspended, NoCkpt, In, Nothing
<1>5. CASE RegisterRun
  BY <1>5 DEF RegisterRun
<1>6. CASE Restore
  <2>1. \A n \in Nodes : task[n] = "none"
    BY <1>6 DEF Restore, Stage, InLoop, NoTask
  <2> QED BY <1>6, <2>1 DEF Restore
<1>7. CASE LaunchReady
  BY <1>7 DEF LaunchReady, TypeOK
<1>8. CASE LoopEnds
  BY <1>8 DEF LoopEnds
<1>9. CASE Collect
  BY <1>9 DEF Collect
<1>10. CASE BatchDone
  BY <1>10 DEF BatchDone
<1>11. ASSUME NEW n \in Nodes, TakeResult(n) PROVE Suspensions'
  <2>1. In(completed)' = In(completed) \cup {n}
    BY <1>11, TakeAdds
  <2>2. \A m \in Nodes : task'[m] = "suspended" => m # n /\ task[m] = "suspended"
    BY <1>11 DEF TakeResult, TypeOK
  <2>3. pc = "process" /\ pc' \in {"cursor", "unblock"}
    BY <1>11 DEF TakeResult, Take
  <2>4. UNCHANGED <<config, stores, failed, skipped, graph, token, host, history, bounds>>
    BY <1>11 DEF TakeResult
  <2>5. SuspensionIsResumable'
    BY <2>3, <2>4
  <2> QED BY <2>1, <2>2, <2>3, <2>4, <2>5
<1>12. ASSUME NEW n \in Nodes, TakeRefusal(n) PROVE Suspensions'
  BY <1>12 DEF TakeRefusal, Take, NoTask
<1>13. ASSUME NEW n \in Nodes, AbortAll(n) PROVE Suspensions'
  BY <1>13 DEF AbortAll, Take, NoTask
<1>14. ASSUME NEW n \in Nodes, RecordFailure(n) PROVE Suspensions'
  BY <1>14 DEF RecordFailure, Take, TypeOK
<1>15. ASSUME NEW n \in Nodes, TakeForgotten(n) PROVE Suspensions'
  BY <1>15 DEF TakeForgotten, Take, NoTask
<1>16. ASSUME NEW n \in Nodes, TakeSuspension(n) PROVE Suspensions'
  <2>1. task' = [task EXCEPT ![n] = "none"] /\ n \notin In(completed)
    BY <1>16 DEF TakeSuspension
  <2>2. /\ \A m \in Nodes : task'[m] = "suspended" => task[m] = "suspended"
        /\ task'[n] = "none" /\ node' = n /\ pc = "process" /\ pc' = "drain"
        /\ UNCHANGED <<config, stores, results, token, host, history>>
    BY <1>16 DEF TakeSuspension, Take, TypeOK
  <2>3. SuspensionIsResumable'
    BY <2>2
  <2>4. In(completed)' = In(completed)
    BY <2>2
  <2> QED BY <2>1, <2>2, <2>3, <2>4
<1>17. ASSUME NEW n \in Nodes, SecondSuspension(n) PROVE Suspensions'
  BY <1>17 DEF SecondSuspension, Drained, NoTask
<1>18. CASE SaveCursor
  BY <1>18 DEF SaveCursor, Suspended
<1>19. CASE AppendStep
  BY <1>19 DEF AppendStep
<1>20. CASE Unblock
  BY <1>20 DEF Unblock
<1>21. CASE DrainAll
  <2>1. In(completed)' = In(completed) \cup Takings
    BY <1>21, DrainAdds
  <2>2. node \notin Takings
    BY <1>21 DEF DrainAll, Drained, Takings
  <2>3. /\ \A m \in Nodes : task'[m] = "none"
        /\ pc = "drain" /\ pc' = "surface"
        /\ UNCHANGED <<config, stores, node, host, collided>>
    BY <1>21 DEF DrainAll, Drained, NoTask
  <2>4. SuspensionIsResumable'
    BY <2>3
  <2> QED BY <2>1, <2>2, <2>3, <2>4
<1>22. CASE SurfaceSuspension
  <2>1. node \in Gates \cap requests /\ completed[node] = NoResult
    BY <1>22, <1>n DEF SurfaceSuspension, Stage, In
  <2> QED BY <1>22, <2>1 DEF SurfaceSuspension, Suspended
<1>23. CASE SuspendRun
  BY <1>23 DEF SuspendRun
<1>24. CASE BuildSuspendedRun
  BY <1>24 DEF BuildSuspendedRun, Return, Suspended, NoCkpt, In, Nothing
<1>25. CASE CompleteRun
  BY <1>25 DEF CompleteRun, Return, Suspended, NoCkpt, In, Nothing
<1>26. CASE FailRun
  BY <1>26 DEF FailRun, Return, Suspended, NoCkpt, In, Nothing
<1>27. ASSUME NEW n \in Nodes, TaskMissesInput(n) PROVE Suspensions'
  BY <1>27 DEF TaskMissesInput, SetTask, TypeOK
<1>28. ASSUME NEW n \in Nodes, TaskStarts(n) PROVE Suspensions'
  BY <1>28 DEF TaskStarts, SetTask, TypeOK
<1>29. ASSUME NEW n \in Nodes, TaskRefused(n) PROVE Suspensions'
  BY <1>29 DEF TaskRefused, SetTask, TypeOK
<1>30. ASSUME NEW n \in Nodes, TaskReturns(n) PROVE Suspensions'
  BY <1>30 DEF TaskReturns, SetTask, TypeOK
<1>31. ASSUME NEW n \in Nodes, GateAsks(n) PROVE Suspensions'
  <2>1. n \in InFlight /\ ~Repeats(n)
    BY <1>31 DEF GateAsks, SetTask, InFlight, Repeats
  <2>2. n \notin In(completed)
    BY <2>1 DEF Launches
  <2> QED BY <1>31, <2>2 DEF GateAsks, SetTask, TypeOK
<1>32. ASSUME NEW n \in Nodes, TaskRaises(n) PROVE Suspensions'
  BY <1>32 DEF TaskRaises, SetTask, TypeOK
<1>33. CASE StoreRaises
  BY <1>33 DEF StoreRaises, Interrupt, NoTask
<1>34. CASE HostSeesStoreError
  BY <1>34 DEF HostSeesStoreError, Interrupt, Return, Suspended, NoCkpt, In, Nothing
<1>35. CASE Crash
  BY <1>35 DEF Crash, Interrupt, Return, Suspended, NoCkpt, In, Nothing
<1>36. CASE Cancel
  BY <1>36 DEF Cancel, Interrupt
<1>37. ASSUME NEW g \in Gates, Respond(g) PROVE Suspensions'
  BY <1>37 DEF Respond
<1>38. CASE UNCHANGED vars
  BY <1>38 DEF vars
<1> QED
  BY <1>1, <1>2, <1>3, <1>4, <1>5, <1>6, <1>7, <1>8, <1>9, <1>10, <1>11, <1>12, <1>13, <1>14,
     <1>15, <1>16, <1>17, <1>18, <1>19, <1>20, <1>21, <1>22, <1>23, <1>24, <1>25, <1>26, <1>27,
     <1>28, <1>29, <1>30, <1>31, <1>32, <1>33, <1>34, <1>35, <1>36, <1>37, <1>38
     DEF Next, Drive, Main, Task, Trouble

\* For every graph and every set of gates: unless two gates suspend together, a run
\* that is called suspended has a checkpoint that resume accepts, and whatever
\* checkpoint a suspension leaves is for a gate that is asked and has no result.
THEOREM SuspensionsCorrect == Spec => []SuspensionIsResumable
<1>1. Suspensions => SuspensionIsResumable
  BY DEF Suspensions
<1> QED
  BY <1>1, InitTypeOK, TypeStep, StageStep, InitRecords, RecordsStep, InitAnswers, AnswersStep,
     InitClosure, ClosureStep, InitLaunches, LaunchesStep, InitSuspensions, SuspensionsStep,
     PTL DEF Spec

----------------------------------------------------------------------------
(* What a result accounts for.                                             *)

\* A node that has a result as well as having failed or been skipped is tainted.
LEMMA TwiceIsTainted ==
    ASSUME TypeOK, Closure, Launches, skipped = UNION {Below[n] : n \in failed}
    PROVE  In(completed) \cap (failed \cup skipped) \subseteq Tainted
<1>1. \A n \in In(completed) \ Tainted : n \in Nodes /\ Deps[n] \subseteq In(completed) \ Tainted
  <2> SUFFICES ASSUME NEW n \in In(completed) \ Tainted
               PROVE  n \in Nodes /\ Deps[n] \subseteq In(completed) \ Tainted
    OBVIOUS
  <2>1. n \in Nodes /\ drained \subseteq Nodes
    BY DEF In, TypeOK
  <2>2. Deps[n] \cap (drained \cup Tainted) = {}
    BY <2>1, TaintSpreads
  <2>3. Deps[n] \subseteq In(completed)
    BY <2>2 DEF Closure, Complete, Repeats
  <2> QED BY <2>1, <2>2, <2>3
<1>2. \A n \in failed \cap In(completed) : n \in Tainted
  <2> SUFFICES ASSUME NEW n \in failed \cap In(completed) PROVE n \in Tainted
    OBVIOUS
  <2>1. n \in Nodes /\ drained \subseteq Nodes
    BY DEF TypeOK
  <2>2. Deps[n] \cap drained # {}
    BY DEF Launches, Repeats
  <2> QED BY <2>1, <2>2, TaintSpreads
<1>3. ASSUME NEW f \in failed PROVE In(completed) \cap Below[f] \subseteq Tainted
  <2> DEFINE S == Nodes \ (In(completed) \ Tainted)
  <2>1. f \in S /\ f \in Nodes
    BY <1>2, <1>3 DEF TypeOK
  <2>2. Closed(S, f)
    BY <1>1, <2>1 DEF Closed, Dependents
  <2>3. Below[f] \subseteq S
    BY <2>1, <2>2, BelowLeast
  <2> QED BY <2>3
<1> QED BY <1>2, <1>3

\* While the token is clear a loop that has ended has accounted for every node: of
\* those it had not, one would depend on none of the others, and be ready.
LEMMA LoopAccounts ==
    ASSUME TypeOK, Stage, Accounts, pc = "complete", token = "clear"
    PROVE  In(completed) \cup failed \cup skipped = Nodes
<1> DEFINE U == Nodes \ (In(completed) \cup failed \cup skipped)
<1>1. In(completed) \cup failed \cup skipped \subseteq Nodes
  BY DEF TypeOK, In
<1> SUFFICES ASSUME U # {} PROVE FALSE
  BY <1>1
<1>2. PICK n \in U : Deps[n] \cap U = {}
  BY AcyclicAssumption
<1>3. Deps[n] \subseteq Nodes /\ failed \subseteq Nodes /\ skipped = UNION {Below[f] : f \in failed}
  BY GraphAssumption DEF TypeOK, Accounts
<1>4. Deps[n] \cap (failed \cup skipped) = {}
  <2> SUFFICES ASSUME NEW d \in Deps[n], d \in failed \cup skipped PROVE FALSE
    OBVIOUS
  <2>1. n \in Dependents(d)
    BY DEF Dependents
  <2>2. PICK f \in failed : d = f \/ d \in Below[f]
    BY <1>3
  <2>3. n \in Below[f]
    BY <1>3, <2>1, <2>2, BelowClosed
  <2> QED BY <1>3, <2>3
<1>5. Deps[n] \subseteq Counted
  BY <1>2, <1>3, <1>4 DEF Counted
<1>6. inDegree[n] <= Cardinality({})
  <2>1. Deps[n] \ Counted = {} /\ n \in Nodes \ skipped
    BY <1>5
  <2> QED BY <2>1 DEF Accounts, Scheduling
<1>7. inDegree[n] <= 0
  BY <1>6, FS_EmptySet
<1>8. n \in ready \cup InFlight
  BY <1>7 DEF Accounts, Scheduling
<1>9. ready = {} /\ InFlight = {}
  BY DEF Accounts, Stage, InLoop, InFlight, NoTask
<1> QED BY <1>8, <1>9

\* Nothing is accounted for initially ...
LEMMA InitAccounts == Init => Accounts
BY DEF Init, Accounts, Scheduling, ResultAccountsForEveryNode

\* ... and every step keeps the account.
LEMMA AccountsStep ==
    TypeOK /\ Stage /\ Closure /\ Launches /\ Suspensions /\ Accounts /\ [Next]_vars => Accounts'
<1> SUFFICES ASSUME TypeOK, Stage, Closure, Launches, Suspensions, Accounts, [Next]_vars
             PROVE  Accounts'
  OBVIOUS
<1>r. /\ outcome' # "result" => ResultAccountsForEveryNode'
      /\ UNCHANGED <<outcome, report, drained>> => ResultAccountsForEveryNode'
  BY DEF Accounts, ResultAccountsForEveryNode, Tainted
<1>p. pc # "idle" => outcome = "running"
  BY DEF Suspensions
\* Nothing that the account is about changes ...
<1>k. ASSUME UNCHANGED <<completed, failed, skipped, inDegree, ready>>,
             InFlight' = InFlight, Counted' = Counted,
             token' = "clear" => token = "clear", Scheduling' => Scheduling,
             pc' = "complete" => pc = "complete" \/ ready = {},
             ResultAccountsForEveryNode'
      PROVE  Accounts'
  BY <1>k DEF Accounts
\* ... or the drive ends, and with it the account.
<1>o. ASSUME ~Scheduling', UNCHANGED <<failed, skipped>> \/ (failed' = {} /\ skipped' = {}),
             ResultAccountsForEveryNode'
      PROVE  Accounts'
  <2>1. (skipped = UNION {Below[n] : n \in failed})'
    BY <1>o DEF Accounts
  <2> QED BY <1>o, <2>1 DEF Accounts, Scheduling
<1> USE <1>r, <1>p DEF config, stores, results, graph, tasks, worker, host, history
<1>1. CASE Start
  BY <1>1, <1>o DEF Start, Begin, Scheduling
<1>2. CASE ResumeInterrupted
  BY <1>2, <1>o DEF ResumeInterrupted, Begin, Scheduling
<1>3. CASE Resume
  BY <1>3, <1>o DEF Resume, Begin, Scheduling
<1>4. CASE EnterRefused
  BY <1>4, <1>o DEF EnterRefused, Return, Scheduling
<1>5. CASE RegisterRun
  BY <1>5, <1>o DEF RegisterRun, Scheduling
<1>6. CASE Restore
  <2>1. /\ failed' = {} /\ skipped' = {} /\ pc' = "loop" /\ In(completed)' = In(Restored)
        /\ inDegree' = MissingDeps(Restored) /\ UNCHANGED <<outcome, report, drained>>
        /\ ready' = {n \in Nodes : inDegree'[n] = 0} \ In(Restored)
    BY <1>6 DEF Restore, Stage, Driving
  <2>2. Counted' = In(Restored)
    BY <2>1 DEF Counted
  <2>3. \A n \in Nodes : /\ inDegree'[n] = Cardinality(Deps[n] \ In(Restored))
                         /\ inDegree'[n] \in Nat
    <3>1. \A n \in Nodes : Cardinality(Deps[n] \ In(Restored)) \in Nat
      BY GraphAssumption, FS_Subset, FS_CardinalityType
    <3> QED BY <2>1, <3>1 DEF MissingDeps
  <2>4. \A n \in Nodes : inDegree'[n] <= Cardinality(Deps[n] \ Counted)'
    BY <2>2, <2>3
  <2>5. \A n \in Nodes : inDegree'[n] <= 0 => n \in ready' \cup In(completed)'
    <3> SUFFICES ASSUME NEW n \in Nodes, inDegree'[n] <= 0
                 PROVE  n \in ready' \cup In(Restored)
      BY <2>1
    <3>1. inDegree'[n] \in Nat
      BY <2>3
    <3>2. inDegree'[n] = 0
      BY ONLY <3>1, inDegree'[n] <= 0
    <3> QED BY <2>1, <3>2
  <2> QED BY <2>1, <2>4, <2>5 DEF Accounts
<1>7. CASE LaunchReady
  <2>1. InFlight' = InFlight \cup ready /\ Counted' = Counted
    BY <1>7 DEF LaunchReady, InFlight, Counted, TypeOK
  <2>2. /\ ready' = {} /\ Scheduling /\ pc' = "wait"
        /\ UNCHANGED <<completed, failed, skipped, inDegree, token, outcome, report, drained>>
    BY <1>7 DEF LaunchReady, Scheduling
  <2> QED BY <2>1, <2>2 DEF Accounts
<1>8. CASE LoopEnds
  <2>1. InFlight' = InFlight /\ Counted' = Counted
    BY <1>8 DEF LoopEnds, InFlight, Counted, TypeOK
  <2> QED BY <1>8, <2>1, <1>k DEF LoopEnds, Scheduling
<1>9. CASE Collect
  <2>1. InFlight' = InFlight /\ Counted' = Counted
    BY <1>9 DEF Collect, InFlight, Counted, TypeOK
  <2> QED BY <1>9, <2>1, <1>k DEF Collect, Scheduling
<1>10. CASE BatchDone
  <2>1. InFlight' = InFlight /\ Counted' = Counted
    BY <1>10 DEF BatchDone, InFlight, Counted, TypeOK
  <2> QED BY <1>10, <2>1, <1>k DEF BatchDone, Scheduling
<1>11. ASSUME NEW n \in Nodes, TakeResult(n) PROVE Accounts'
  <2>1. In(completed)' = In(completed) \cup {n}
    BY <1>11, TakeAdds
  <2>2. InFlight' = InFlight \ {n}
    BY <1>11 DEF TakeResult, TypeOK, InFlight
  <2>3. Counted' = Counted \ {n} /\ Scheduling
    BY <1>11, <2>1 DEF TakeResult, Take, Counted, Scheduling
  <2>4. /\ pc' \in {"cursor", "unblock"}
        /\ UNCHANGED <<failed, skipped, inDegree, ready, token, outcome, report, drained>>
    BY <1>11 DEF TakeResult
  <2>5. ASSUME NEW m \in Nodes \ skipped PROVE inDegree[m] <= Cardinality(Deps[m] \ Counted)'
    <3>1. Cardinality(Deps[m] \ Counted) <= Cardinality(Deps[m] \ (Counted \ {n}))
      <4>1. IsFiniteSet(Deps[m] \ (Counted \ {n}))
        BY GraphAssumption, FS_Subset
      <4> QED BY <4>1, FS_Subset
    <3>2. inDegree[m] <= Cardinality(Deps[m] \ Counted)
      BY <2>3 DEF Accounts
    <3>3. /\ inDegree[m] \in Int /\ Cardinality(Deps[m] \ Counted) \in Int
          /\ Cardinality(Deps[m] \ (Counted \ {n})) \in Int
      BY GraphAssumption, FS_Subset, FS_CardinalityType DEF TypeOK
    <3> QED BY <2>3, <3>1, <3>2, <3>3
  <2> QED BY <2>1, <2>2, <2>3, <2>4, <2>5 DEF Accounts
<1>12. ASSUME NEW n \in Nodes, TakeRefusal(n) PROVE Accounts'
  <2>1. token = "set" /\ Counted' = Counted /\ Scheduling
    BY <1>12 DEF TakeRefusal, Take, Stage, Counted, Scheduling
  <2>2. pc' = "loop" /\ UNCHANGED <<results, graph, token, host, history>>
    BY <1>12 DEF TakeRefusal
  <2> QED BY <2>1, <2>2 DEF Accounts
<1>13. ASSUME NEW n \in Nodes, AbortAll(n) PROVE Accounts'
  BY <1>13, <1>o DEF AbortAll, Take, Scheduling
<1>14. ASSUME NEW n \in Nodes, RecordFailure(n) PROVE Accounts'
  <2>1. InFlight \subseteq InFlight' \cup {n} \cup Below[n]
    BY <1>14 DEF RecordFailure, TypeOK, InFlight
  <2>2. /\ failed' = failed \cup {n} /\ skipped' = skipped \cup Below[n]
        /\ pc = "process" /\ UNCHANGED <<pc, completed, graph, node, token, host, drained>>
    BY <1>14 DEF RecordFailure, Take
  <2>3. Counted' = Counted /\ Scheduling /\ Scheduling'
    BY <2>2 DEF Counted, Scheduling
  <2>4. (skipped = UNION {Below[m] : m \in failed})'
    BY <2>2 DEF Accounts
  <2>5. \A m \in Nodes \ skipped' : inDegree[m] <= Cardinality(Deps[m] \ Counted)
    BY <2>2, <2>3 DEF Accounts
  <2>6. token = "clear" =>
            \A m \in Nodes : inDegree[m] <= 0 =>
                m \in ready \cup InFlight' \cup In(completed) \cup failed' \cup skipped'
    BY <2>1, <2>2, <2>3 DEF Accounts
  <2>7. In(completed)' = In(completed)
    BY <2>2
  <2> QED BY <2>2, <2>3, <2>4, <2>5, <2>6, <2>7 DEF Accounts
<1>15. ASSUME NEW n \in Nodes, TakeForgotten(n) PROVE Accounts'
  BY <1>15, <1>o DEF TakeForgotten, Take, Scheduling
<1>16. ASSUME NEW n \in Nodes, TakeSuspension(n) PROVE Accounts'
  BY <1>16, <1>o DEF TakeSuspension, Take, Scheduling
<1>17. ASSUME NEW n \in Nodes, SecondSuspension(n) PROVE Accounts'
  BY <1>17, <1>o DEF SecondSuspension, Drained, Scheduling
<1>18. CASE SaveCursor
  <2>1. InFlight' = InFlight /\ Counted' = Counted
    BY <1>18 DEF SaveCursor, InFlight, Counted, TypeOK
  <2> QED BY <1>18, <2>1, <1>k DEF SaveCursor, Scheduling
<1>19. CASE AppendStep
  <2>1. InFlight' = InFlight /\ Counted' = Counted
    BY <1>19 DEF AppendStep, InFlight, Counted, TypeOK
  <2> QED BY <1>19, <2>1, <1>k DEF AppendStep, Scheduling
<1>20. CASE Unblock
  <2> DEFINE live == Dependents(node) \ skipped
  <2>1. /\ \A n \in Nodes : inDegree'[n] = IF n \in live THEN inDegree[n] - 1 ELSE inDegree[n]
        /\ ready' = ready \cup {n \in live : inDegree[n] = 1}
        /\ pc = "unblock" /\ pc' = "process"
        /\ UNCHANGED <<completed, failed, skipped, task, token, outcome, report, drained>>
    BY <1>20 DEF Unblock
  <2>2. /\ Counted = In(completed) \ {node} /\ Counted' = In(completed) /\ node \in In(completed)
        /\ Scheduling /\ InFlight' = InFlight
    BY <2>1 DEF Counted, Scheduling, Stage, InFlight
  <2>3. ASSUME NEW n \in Nodes \ skipped
        PROVE  inDegree'[n] <= Cardinality(Deps[n] \ Counted)'
    <3> DEFINE D == Deps[n] \ Counted
    <3>1. IsFiniteSet(D) /\ Cardinality(D) \in Nat /\ inDegree[n] \in Int
      BY GraphAssumption, FS_Subset, FS_CardinalityType DEF TypeOK
    <3>2. inDegree[n] <= Cardinality(D)
      BY <2>2 DEF Accounts
    <3>3. (Deps[n] \ Counted)' = D \ {node}
      BY <2>2
    <3>4. Cardinality(D \ {node}) = IF node \in D THEN Cardinality(D) - 1 ELSE Cardinality(D)
      BY <3>1, FS_RemoveElement
    <3>5. node \in D <=> n \in live
      BY <2>2 DEF Dependents, In
    <3> HIDE DEF D, live
    <3>6. inDegree'[n] <= Cardinality(D \ {node})
      BY <2>1, <3>1, <3>2, <3>4, <3>5
    <3> QED BY <3>3, <3>6
  <2>4. token = "clear" =>
            \A n \in Nodes : inDegree'[n] <= 0 =>
                n \in ready' \cup InFlight \cup In(completed) \cup failed \cup skipped
    <3> SUFFICES ASSUME token = "clear", NEW n \in Nodes, inDegree'[n] <= 0
                 PROVE  n \in ready' \cup InFlight \cup In(completed) \cup failed \cup skipped
      OBVIOUS
    <3>1. inDegree[n] \in Int
      BY DEF TypeOK
    <3>2. inDegree[n] <= 0 \/ (n \in live /\ inDegree[n] = 1)
      BY <2>1, <3>1
    <3> QED BY <2>1, <2>2, <3>2 DEF Accounts
  <2> QED BY <2>1, <2>2, <2>3, <2>4 DEF Accounts
<1>21. CASE DrainAll
  <2>1. /\ pc' = "surface" /\ outcome' = "running" /\ UNCHANGED <<failed, skipped>>
    BY <1>21 DEF DrainAll, Drained
  <2> QED BY <2>1, <1>o DEF Scheduling
<1>22. CASE SurfaceSuspension
  BY <1>22, <1>o DEF SurfaceSuspension, Scheduling
<1>23. CASE SuspendRun
  BY <1>23, <1>o DEF SuspendRun, Scheduling
<1>24. CASE BuildSuspendedRun
  BY <1>24, <1>o DEF BuildSuspendedRun, Return, Scheduling
<1>25. CASE CompleteRun
  <2>1. token = "clear" =>
            /\ In(completed) \cup failed \cup skipped = Nodes
            /\ In(completed) \cap (failed \cup skipped) \subseteq Tainted
    BY <1>25, LoopAccounts, TwiceIsTainted DEF CompleteRun, Accounts
  <2>2. /\ outcome' = IF token = "set" THEN "cancelled" ELSE "result"
        /\ report' = [completed |-> completed, failed |-> failed, skipped |-> skipped]
        /\ drained' = drained /\ pc' = "idle" /\ failed' = {} /\ skipped' = {}
    BY <1>25 DEF CompleteRun, Return
  <2>3. Tainted' = Tainted /\ In(report.completed)' = In(completed)
    BY <2>2 DEF Tainted
  <2>4. skipped = UNION {Below[n] : n \in failed}
    BY DEF Accounts
  <2>5. outcome' = "result" => token = "clear"
    BY <2>2 DEF TypeOK
  <2>6. report'.failed = failed /\ report'.skipped = skipped
    BY <2>2
  <2>7. ResultAccountsForEveryNode'
    BY ONLY <2>1, <2>3, <2>4, <2>5, <2>6 DEF ResultAccountsForEveryNode
  <2> QED BY <2>2, <2>7, <1>o DEF Scheduling
<1>26. CASE FailRun
  BY <1>26, <1>o DEF FailRun, Return, Scheduling
<1>27. ASSUME NEW n \in Nodes, TaskMissesInput(n) PROVE Accounts'
  <2>1. InFlight' = InFlight /\ Counted' = Counted
    BY <1>27 DEF TaskMissesInput, SetTask, InFlight, Counted, TypeOK
  <2> QED BY <1>27, <2>1, <1>k DEF TaskMissesInput, SetTask, Scheduling
<1>28. ASSUME NEW n \in Nodes, TaskStarts(n) PROVE Accounts'
  <2>1. InFlight' = InFlight /\ Counted' = Counted
    BY <1>28 DEF TaskStarts, SetTask, InFlight, Counted, TypeOK
  <2> QED BY <1>28, <2>1, <1>k DEF TaskStarts, SetTask, Scheduling
<1>29. ASSUME NEW n \in Nodes, TaskRefused(n) PROVE Accounts'
  <2>1. InFlight' = InFlight /\ Counted' = Counted
    BY <1>29 DEF TaskRefused, SetTask, InFlight, Counted, TypeOK
  <2> QED BY <1>29, <2>1, <1>k DEF TaskRefused, SetTask, Scheduling
<1>30. ASSUME NEW n \in Nodes, TaskReturns(n) PROVE Accounts'
  <2>1. InFlight' = InFlight /\ Counted' = Counted
    BY <1>30 DEF TaskReturns, SetTask, InFlight, Counted, TypeOK
  <2> QED BY <1>30, <2>1, <1>k DEF TaskReturns, SetTask, Scheduling
<1>31. ASSUME NEW n \in Nodes, GateAsks(n) PROVE Accounts'
  <2>1. InFlight' = InFlight /\ Counted' = Counted
    BY <1>31 DEF GateAsks, SetTask, InFlight, Counted, TypeOK
  <2> QED BY <1>31, <2>1, <1>k DEF GateAsks, SetTask, Scheduling
<1>32. ASSUME NEW n \in Nodes, TaskRaises(n) PROVE Accounts'
  <2>1. InFlight' = InFlight /\ Counted' = Counted
    BY <1>32 DEF TaskRaises, SetTask, InFlight, Counted, TypeOK
  <2> QED BY <1>32, <2>1, <1>k DEF TaskRaises, SetTask, Scheduling
<1>33. CASE StoreRaises
  BY <1>33, <1>o DEF StoreRaises, Interrupt, Scheduling
<1>34. CASE HostSeesStoreError
  BY <1>34, <1>o DEF HostSeesStoreError, Interrupt, Return, Scheduling
<1>35. CASE Crash
  BY <1>35, <1>o DEF Crash, Interrupt, Return, Scheduling
<1>36. CASE Cancel
  <2>1. InFlight' = InFlight /\ Counted' = Counted
    BY <1>36 DEF Cancel, Interrupt, InFlight, Counted, TypeOK
  <2> QED BY <1>36, <2>1, <1>k DEF Cancel, Interrupt, Scheduling
<1>37. ASSUME NEW g \in Gates, Respond(g) PROVE Accounts'
  <2>1. InFlight' = InFlight /\ Counted' = Counted
    BY <1>37 DEF Respond, InFlight, Counted, TypeOK
  <2> QED BY <1>37, <2>1, <1>k DEF Respond, Scheduling
<1>38. CASE UNCHANGED vars
  <2>1. InFlight' = InFlight /\ Counted' = Counted
    BY <1>38 DEF vars, InFlight, Counted, TypeOK
  <2> QED BY <1>38, <2>1, <1>k DEF vars, Scheduling
<1> QED
  BY <1>1, <1>2, <1>3, <1>4, <1>5, <1>6, <1>7, <1>8, <1>9, <1>10, <1>11, <1>12, <1>13, <1>14,
     <1>15, <1>16, <1>17, <1>18, <1>19, <1>20, <1>21, <1>22, <1>23, <1>24, <1>25, <1>26, <1>27,
     <1>28, <1>29, <1>30, <1>31, <1>32, <1>33, <1>34, <1>35, <1>36, <1>37, <1>38
     DEF Next, Drive, Main, Task, Trouble

\* In every acyclic graph, whatever was suspended, restored, cancelled or failed on the
\* way: a result accounts for every node, and for none twice but downstream of a
\* drained one.
THEOREM ResultAccountsCorrect == Spec => []ResultAccountsForEveryNode
<1>1. Accounts => ResultAccountsForEveryNode
  BY DEF Accounts
<1> QED
  BY <1>1, InitTypeOK, TypeStep, StageStep, InitRecords, RecordsStep, InitAnswers, AnswersStep,
     InitClosure, ClosureStep, InitLaunches, LaunchesStep,
     InitSuspensions, SuspensionsStep, InitAccounts, AccountsStep, PTL DEF Spec

----------------------------------------------------------------------------
(* Agreement of results.                                                   *)

\* A node that has a result and is in flight is tainted, and what is not tainted
\* depends on nothing that is, or that a drain has recorded.
LEMMA RepeatedIsTainted ==
    ASSUME TypeOK, Launches
    PROVE  /\ In(completed) \cap InFlight \subseteq Tainted
           /\ \A n \in Nodes \ Tainted : Deps[n] \cap (drained \cup Tainted) = {} /\ ~Repeats(n)
<1>1. drained \subseteq Nodes /\ In(completed) \subseteq Nodes
  BY DEF TypeOK, In
<1>2. \A n \in Nodes \ Tainted : Deps[n] \cap (drained \cup Tainted) = {} /\ ~Repeats(n)
  BY <1>1, TaintSpreads DEF Repeats
<1>3. In(completed) \cap InFlight \subseteq Tainted
  BY <1>1, <1>2 DEF Launches
<1> QED BY <1>2, <1>3

\* Nothing disagrees initially ...
LEMMA InitAgreement == Init => Agreement
<1> SUFFICES ASSUME Init PROVE Agreement
  OBVIOUS
<1>1. In(completed) = {} /\ In(journal) = {}
  BY ConstantResults DEF Init
<1> QED
  BY <1>1 DEF Init, Agreement, Agreed, ResultsAgree, Suspended, NoCkpt

\* ... and a result that is replaced has been read by nothing that is not tainted.
LEMMA AgreementStep ==
    TypeOK /\ Stage /\ Records /\ Closure /\ Launches /\ Suspensions /\ Agreement /\ [Next]_vars
        => Agreement'
<1> SUFFICES ASSUME TypeOK, Stage, Records, Closure, Launches, Suspensions, Agreement, [Next]_vars
             PROVE  Agreement'
  OBVIOUS
<1>r. /\ outcome' # "result" => ResultsAgree'
      /\ UNCHANGED <<outcome, report, drained>> => ResultsAgree'
  BY DEF Agreement, ResultsAgree, Tainted
<1>p. pc # "idle" => outcome = "running"
  BY DEF Suspensions
<1>k. ASSUME UNCHANGED <<completed, journal, ckpt, drained>>, Holding' => Holding, ResultsAgree'
      PROVE  Agreement'
  <2>1. Tainted' = Tainted
    BY <1>k DEF Tainted
  <2> QED BY <1>k, <2>1 DEF Agreement, Agreed, Suspended
<1>o. ASSUME completed' = Nothing, UNCHANGED <<journal, ckpt, drained>>, ~Holding', ResultsAgree'
      PROVE  Agreement'
  <2>1. Tainted' = Tainted
    BY <1>o DEF Tainted
  <2>2. Agreed(completed)'
    BY <1>o, ConstantResults DEF Agreed
  <2> QED BY <1>o, <2>1, <2>2 DEF Agreement, Agreed, Suspended
<1>t. /\ In(completed) \subseteq Nodes /\ In(journal) \subseteq Nodes
      /\ In(completed) \cap InFlight \subseteq Tainted
      /\ \A n \in Nodes \ Tainted : Deps[n] \cap (drained \cup Tainted) = {} /\ ~Repeats(n)
  BY RepeatedIsTainted DEF In
<1>c. /\ \A n \in In(completed) \ Tainted : Deps[n] \subseteq In(completed)
      /\ \A n \in In(journal) \ Tainted : Deps[n] \subseteq In(journal)
  BY <1>t DEF Closure, Complete
<1>h. Holding /\ In(journal) \subseteq In(completed)
          => \A n \in In(journal) \ Tainted : completed[n] = journal[n] /\ n \notin InFlight
  BY <1>t DEF Agreement
<1> USE <1>r, <1>p DEF config, stores, results, graph, tasks, worker, host, history
<1>1. CASE Start
  BY <1>1, <1>k DEF Start, Begin, Holding, Driving
<1>2. CASE ResumeInterrupted
  BY <1>2, <1>k DEF ResumeInterrupted, Begin, Holding, Driving
<1>3. CASE Resume
  BY <1>3, <1>k DEF Resume, Begin, Holding, Driving
<1>4. CASE EnterRefused
  BY <1>4, <1>o DEF EnterRefused, Return, Holding, Driving
<1>5. CASE RegisterRun
  BY <1>5, <1>k DEF RegisterRun, Holding, Driving
<1>6. CASE Restore
  <2>1. completed' = Restored /\ Tainted' = Tainted
        /\ UNCHANGED <<journal, ckpt, drained, outcome, report>>
    BY <1>6 DEF Restore, Tainted
  <2>2. Agreed(Restored) /\ \A n \in In(journal) \ Tainted : Restored[n] = journal[n]
    <3>1. Agreed(Nothing)
      BY ConstantResults DEF Agreed
    <3> QED BY <3>1 DEF Restored, Agreement, Records
  <2>3. Agreed(completed)'
    BY <2>1, <2>2 DEF Agreed
  <2>4. (Agreed(journal) /\ (Suspended(ckpt) => Agreed(ckpt.completed)))'
    BY <2>1 DEF Agreement, Agreed, Suspended
  <2>5. (Suspended(ckpt) => \A n \in In(journal) \ Tainted : ckpt.completed[n] = journal[n])'
    BY <2>1 DEF Agreement, Suspended
  <2> QED BY <2>1, <2>2, <2>3, <2>4, <2>5 DEF Agreement
<1>7. CASE LaunchReady
  BY <1>7, <1>k DEF LaunchReady, Holding, Driving
<1>8. CASE LoopEnds
  BY <1>8, <1>k DEF LoopEnds, Holding, Driving
<1>9. CASE Collect
  BY <1>9, <1>k DEF Collect, Holding, Driving
<1>10. CASE BatchDone
  BY <1>10, <1>k DEF BatchDone, Holding, Driving
<1>11. ASSUME NEW n \in Nodes, TakeResult(n) PROVE Agreement'
  <2>1. /\ In(completed)' = In(completed) \cup {n} /\ Tainted' = Tainted
        /\ completed' = [completed EXCEPT ![n] = ResultOf(n)]
        /\ UNCHANGED <<journal, ckpt, drained, outcome, report>> /\ pc = "process"
    BY <1>11, TakeAdds DEF TakeResult, Take, Tainted
  <2>2. n \in InFlight
    BY <1>11 DEF TakeResult, InFlight
  <2>3. \A d \in Deps[n] : d \in Nodes /\ ResultOf(n).saw[d] = completed[d].run
    BY GraphAssumption DEF ResultOf
  <2>4. \A m \in Nodes : completed'[m] = IF m = n THEN ResultOf(n) ELSE completed[m]
    BY <2>1 DEF TypeOK, Results
  <2>5. ASSUME NEW m \in In(completed)' \ Tainted, NEW d \in Deps[m], completed'[m] # Refused
        PROVE  completed'[m].saw[d] = completed'[d].run
    <3>1. CASE m = n
      <4>1. d # n /\ d \in Nodes
        BY <3>1, NoSelfDependency, GraphAssumption
      <4> QED BY <2>3, <2>4, <3>1, <4>1
    <3>2. CASE m # n
      <4>1. m \in In(completed) \ Tainted /\ m \in Nodes
        BY <1>t, <2>1, <2>5, <3>2
      <4>2. d # n /\ d \in Nodes
        BY <1>t, <1>c, <2>2, <4>1
      <4>3. completed[m].saw[d] = completed[d].run
        BY <2>4, <2>5, <3>2, <4>1 DEF Agreement, Agreed
      <4> QED BY <2>4, <3>2, <4>1, <4>2, <4>3
    <3> QED BY <3>1, <3>2
  <2>6. Agreed(completed)'
    BY <2>1, <2>5 DEF Agreed
  <2>7. \A m \in In(journal) \ Tainted : completed'[m] = journal[m]
    BY <1>t, <1>h, <2>1, <2>2, <2>4 DEF Records, Holding, Driving
  <2>8. (Agreed(journal) /\ (Suspended(ckpt) => Agreed(ckpt.completed)))'
    BY <2>1 DEF Agreement, Agreed, Suspended
  <2>9. (Suspended(ckpt) => \A m \in In(journal) \ Tainted : ckpt.completed[m] = journal[m])'
    BY <2>1 DEF Agreement, Suspended
  <2> QED BY <2>1, <2>6, <2>7, <2>8, <2>9 DEF Agreement
<1>12. ASSUME NEW n \in Nodes, TakeRefusal(n) PROVE Agreement'
  BY <1>12, <1>k DEF TakeRefusal, Take, Holding, Driving
<1>13. ASSUME NEW n \in Nodes, AbortAll(n) PROVE Agreement'
  BY <1>13, <1>k DEF AbortAll, Take, Holding, Driving
<1>14. ASSUME NEW n \in Nodes, RecordFailure(n) PROVE Agreement'
  BY <1>14, <1>k DEF RecordFailure, Take, Holding, Driving
<1>15. ASSUME NEW n \in Nodes, TakeForgotten(n) PROVE Agreement'
  BY <1>15, <1>k DEF TakeForgotten, Take, Holding, Driving
<1>16. ASSUME NEW n \in Nodes, TakeSuspension(n) PROVE Agreement'
  BY <1>16, <1>k DEF TakeSuspension, Take, Holding, Driving
<1>17. ASSUME NEW n \in Nodes, SecondSuspension(n) PROVE Agreement'
  BY <1>17, <1>k DEF SecondSuspension, Drained, Holding, Driving
<1>18. CASE SaveCursor
  <2>1. /\ Tainted' = Tainted /\ ~Suspended(ckpt)' /\ Holding
        /\ UNCHANGED <<completed, journal, outcome, report, drained>>
    BY <1>18 DEF SaveCursor, Suspended, Tainted, Holding, Driving
  <2> QED BY <2>1 DEF Agreement, Agreed
<1>19. CASE AppendStep
  <2>1. /\ journal' = [journal EXCEPT ![node] = completed[node]] /\ pc = "journal"
        /\ Tainted' = Tainted /\ UNCHANGED <<completed, ckpt, drained, outcome, report>>
    BY <1>19 DEF AppendStep, Tainted
  <2>2. In(journal)' = In(journal) \cup {node} /\ node \in In(completed) /\ ~Suspended(ckpt)
    <3>1. ckpt = [kind |-> "step"]
      BY <2>1 DEF Records
    <3> QED BY <1>19, <3>1, AppendAdds DEF Suspended
  <2>3. \A m \in Nodes : journal'[m] = IF m = node THEN completed[node] ELSE journal[m]
    BY <2>1 DEF TypeOK, Results
  <2>4. /\ In(journal) \subseteq In(completed)
        /\ In(completed) \subseteq In(journal) \cup drained \cup {node}
        /\ Holding
    BY <2>1 DEF Records, Stage, Holding, Driving, InLoop, Unsaved
  <2>5. \A m \in In(journal)' \ Tainted : journal'[m] = completed[m]
    BY <1>t, <1>h, <2>2, <2>3, <2>4
  <2>6. ASSUME NEW m \in In(journal)' \ Tainted, NEW d \in Deps[m], journal'[m] # Refused
        PROVE  journal'[m].saw[d] = journal'[d].run
    <3>1. m \in In(completed) \ Tainted /\ m \in Nodes
      BY <1>t, <2>2, <2>4, <2>6
    <3>2. d \in In(completed) \ Tainted /\ d \notin drained
      BY <1>t, <1>c, <3>1
    <3>3. d \in In(journal)' \ Tainted
      BY <2>2, <2>4, <3>2
    <3>4. completed[m].saw[d] = completed[d].run
      BY <2>5, <2>6, <3>1 DEF Agreement, Agreed
    <3> QED BY <2>5, <2>6, <3>3, <3>4
  <2>7. Agreed(journal)'
    BY <2>1, <2>6 DEF Agreed
  <2>8. Agreed(completed)' /\ ~Suspended(ckpt)'
    BY <2>1, <2>2 DEF Agreement, Agreed, Suspended
  <2> QED BY <2>1, <2>5, <2>7, <2>8 DEF Agreement
<1>20. CASE Unblock
  BY <1>20, <1>k DEF Unblock, Holding, Driving
<1>21. CASE DrainAll
  <2>1. /\ In(completed)' = In(completed) \cup Takings
        /\ drained' = drained \cup Takings /\ pc = "drain" /\ outcome' # "result"
        /\ UNCHANGED <<journal, ckpt>>
    BY <1>21, DrainAdds DEF DrainAll, Drained, Takings
  <2>2. /\ Tainted' = Tainted \cup UNION {Below[n] : n \in Takings}
        /\ Takings \subseteq InFlight /\ InFlight \subseteq Nodes
    BY <2>1 DEF Tainted, Takings, InFlight
  <2>3. \A m \in Nodes : completed'[m] = CASE task[m] = "ok" -> ResultOf(m)
                                           [] task[m] = "refused" -> Refused
                                           [] OTHER -> completed[m]
    BY <1>21 DEF DrainAll
  <2>4. ASSUME NEW m \in In(completed)' \ Tainted', NEW d \in Deps[m], completed'[m] # Refused
        PROVE  completed'[m].saw[d] = completed'[d].run
    <3>1. m \in Nodes /\ d \in Nodes /\ m \in Dependents(d) /\ m \notin Tainted
      BY <1>t, <2>1, <2>2, <2>4, GraphAssumption DEF Dependents
    <3>2. d \notin Takings
      BY <2>2, <3>1, BelowClosed
    <3>3. completed'[d] = completed[d]
      BY <2>3, <3>1, <3>2 DEF Takings
    <3>4. CASE m \in Takings
      <4>1. completed'[m] = ResultOf(m)
        BY <2>3, <2>4, <3>1, <3>4 DEF Takings
      <4>2. ResultOf(m).saw[d] = completed[d].run
        BY <3>1 DEF ResultOf
      <4> QED BY <3>3, <4>1, <4>2
    <3>5. CASE m \notin Takings
      <4>1. completed'[m] = completed[m] /\ m \in In(completed)
        BY <2>1, <2>3, <3>1, <3>5 DEF Takings
      <4> QED BY <2>4, <3>1, <3>3, <4>1 DEF Agreement, Agreed
    <3> QED BY <3>4, <3>5
  <2>5. Agreed(completed)'
    BY <2>4 DEF Agreed
  <2>6. \A m \in In(journal) \ Tainted' : completed'[m] = journal[m]
    <3> SUFFICES ASSUME NEW m \in In(journal) \ Tainted' PROVE completed'[m] = journal[m]
      OBVIOUS
    <3>1. m \in Nodes /\ completed[m] = journal[m] /\ m \notin InFlight
      BY <1>t, <1>h, <2>1, <2>2 DEF Records, Holding, Driving
    <3> QED BY <2>2, <2>3, <3>1 DEF Takings
  <2>7. (Agreed(journal) /\ (Suspended(ckpt) => Agreed(ckpt.completed)))'
    BY <2>1, <2>2 DEF Agreement, Agreed, Suspended
  <2>8. (Suspended(ckpt) => \A m \in In(journal) \ Tainted : ckpt.completed[m] = journal[m])'
    BY <2>1, <2>2 DEF Agreement, Suspended
  <2>9. (\A m \in In(journal) \ Tainted : completed[m] = journal[m])'
    BY <2>1, <2>6
  <2> QED BY <2>1, <2>5, <2>7, <2>8, <2>9 DEF Agreement
<1>22. CASE SurfaceSuspension
  <2>1. /\ Tainted' = Tainted /\ Holding /\ ckpt'.completed = completed
        /\ UNCHANGED <<completed, journal, outcome, report, drained>>
    BY <1>22 DEF SurfaceSuspension, Tainted, Holding, Driving
  <2> QED BY <2>1 DEF Agreement, Agreed
<1>23. CASE SuspendRun
  BY <1>23, <1>k DEF SuspendRun, Holding, Driving
<1>24. CASE BuildSuspendedRun
  BY <1>24, <1>o DEF BuildSuspendedRun, Return, Holding, Driving
<1>25. CASE CompleteRun
  <2>1. /\ report'.completed = completed /\ completed' = Nothing /\ pc' = "idle"
        /\ UNCHANGED <<journal, ckpt, drained>> /\ Tainted' = Tainted
    BY <1>25 DEF CompleteRun, Return, Tainted
  <2>2. ResultsAgree'
    BY <2>1 DEF ResultsAgree, Agreement, Agreed
  <2> QED BY <2>1, <2>2, <1>o DEF Holding, Driving
<1>26. CASE FailRun
  BY <1>26, <1>o DEF FailRun, Return, Holding, Driving
<1>27. ASSUME NEW n \in Nodes, TaskMissesInput(n) PROVE Agreement'
  BY <1>27, <1>k DEF TaskMissesInput, SetTask, Holding, Driving
<1>28. ASSUME NEW n \in Nodes, TaskStarts(n) PROVE Agreement'
  BY <1>28, <1>k DEF TaskStarts, SetTask, Holding, Driving
<1>29. ASSUME NEW n \in Nodes, TaskRefused(n) PROVE Agreement'
  BY <1>29, <1>k DEF TaskRefused, SetTask, Holding, Driving
<1>30. ASSUME NEW n \in Nodes, TaskReturns(n) PROVE Agreement'
  BY <1>30, <1>k DEF TaskReturns, SetTask, Holding, Driving
<1>31. ASSUME NEW n \in Nodes, GateAsks(n) PROVE Agreement'
  BY <1>31, <1>k DEF GateAsks, SetTask, Holding, Driving
<1>32. ASSUME NEW n \in Nodes, TaskRaises(n) PROVE Agreement'
  BY <1>32, <1>k DEF TaskRaises, SetTask, Holding, Driving
<1>33. CASE StoreRaises
  BY <1>33, <1>k DEF StoreRaises, Interrupt, Holding, Driving
<1>34. CASE HostSeesStoreError
  BY <1>34, <1>o DEF HostSeesStoreError, Interrupt, Return, Holding, Driving
<1>35. CASE Crash
  BY <1>35, <1>o DEF Crash, Interrupt, Return, Holding, Driving
<1>36. CASE Cancel
  BY <1>36, <1>k DEF Cancel, Interrupt, Holding, Driving
<1>37. ASSUME NEW g \in Gates, Respond(g) PROVE Agreement'
  BY <1>37, <1>k DEF Respond, Holding, Driving
<1>38. CASE UNCHANGED vars
  BY <1>38, <1>k DEF vars, Holding, Driving
<1> QED
  BY <1>1, <1>2, <1>3, <1>4, <1>5, <1>6, <1>7, <1>8, <1>9, <1>10, <1>11, <1>12, <1>13, <1>14,
     <1>15, <1>16, <1>17, <1>18, <1>19, <1>20, <1>21, <1>22, <1>23, <1>24, <1>25, <1>26, <1>27,
     <1>28, <1>29, <1>30, <1>31, <1>32, <1>33, <1>34, <1>35, <1>36, <1>37, <1>38
     DEF Next, Drive, Main, Task, Trouble

\* In every acyclic graph, whatever was suspended, restored and run again: in a result
\* nothing that is not downstream of a drained node was computed from another execution
\* of a dependency than the one the result holds.
THEOREM ResultsAgreeCorrect == Spec => []ResultsAgree
<1>1. Agreement => ResultsAgree
  BY DEF Agreement
<1> QED
  BY <1>1, InitTypeOK, TypeStep, StageStep, InitRecords, RecordsStep, InitAnswers, AnswersStep,
     InitClosure, ClosureStep, InitLaunches, LaunchesStep,
     InitSuspensions, SuspensionsStep, InitAgreement, AgreementStep, PTL DEF Spec
=============================================================================
