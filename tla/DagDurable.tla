------------------------------ MODULE DagDurable ------------------------------
(***************************************************************************)
(* One durable run of a DAG workflow: DAG._run under Workflow.execute,     *)
(* driven by DurableRun and ResumeService, without max_concurrency.        *)
(*                                                                         *)
(* The main coroutine launches a task per ready node, waits for the first  *)
(* to finish and processes all that have, journaling each; tasks run on    *)
(* whenever it waits.  A gate that nobody answered suspends the run: the   *)
(* main coroutine drains the other tasks and saves what they returned.     *)
(* What a request shows, and the gap between asking and suspending, are    *)
(* SequentialDurable's; here a gate is answered or it is not.              *)
(***************************************************************************)
EXTENDS Integers, FiniteSets

CONSTANTS Nodes,
          Deps,              \* node -> the nodes it depends on
          Gates,             \* the nodes that are ApprovalGates
          MaxInterruptions,  \* bound: crashes, failures and cancellations
          MaxDrives          \* bound: calls of start / resume / resume_interrupted

ASSUME GraphAssumption ==
    /\ IsFiniteSet(Nodes)
    /\ Deps \in [Nodes -> SUBSET Nodes]
    /\ Gates \subseteq Nodes
\* _validate_no_cycles: of any nodes, some depend on none of the others.
ASSUME AcyclicAssumption ==
    \A S \in SUBSET Nodes : S # {} => \E n \in S : Deps[n] \cap S = {}
ASSUME BoundAssumption == MaxInterruptions \in Nat /\ MaxDrives \in Nat

VARIABLES
    stepCheckpoints,  \* the workflow's step_checkpoints flag
    policy,           \* its failure_policy
    ckpt,             \* what CheckpointStore.load returns for the run
    journal,          \* node -> its journaled result
    requests,         \* gates whose request is stored
    answered,         \* gates whose response is stored
    status,           \* the run's status in the trace store
    pc,               \* the main coroutine: where it is between two awaits
    completed,        \* node -> its result in this drive
    failed,           \* failed_nodes
    skipped,          \* skipped_nodes
    inDegree,         \* node -> dependencies still missing
    ready,            \* nodes to launch
    task,             \* node -> the state of its task
    batch,            \* finished tasks not yet processed
    node,             \* the node being processed
    token,            \* the CancellationToken
    outcome,          \* what the last call returned to the host
    report,           \* and what its result accounts for
    runs,             \* history: executions of each node's step
    drained,          \* history: nodes that a suspension's drain has recorded
    collided,         \* history: two gates have suspended together
    interruptions,    \* crashes, failures and cancellations so far
    drives            \* calls by the host so far

config == <<stepCheckpoints, policy>>
stores == <<ckpt, journal, requests, answered, status>>
results == <<completed, failed, skipped>>
graph == <<inDegree, ready>>
tasks == <<task, batch, node>>
worker == <<results, graph, tasks, token>>
host == <<outcome, report>>
bounds == <<interruptions, drives>>
history == <<runs, drained, collided>>
vars == <<config, stores, pc, worker, host, history, bounds>>

----------------------------------------------------------------------------
(* Data.  A result is tagged with the execution that made it and with the  *)
(* executions of its dependencies it was made from.                        *)

Result == [run : Nat, saw : [Nodes -> Nat]]
NoResult == [run |-> -1, saw |-> [n \in Nodes |-> 0]]

\* StepResult(output=None, metadata={"terminated": "cancelled"}).
Refused == [run |-> 0, saw |-> [n \in Nodes |-> 0]]

Nothing == [n \in Nodes |-> NoResult]
In(results_) == {n \in Nodes : results_[n] # NoResult}

NoReport == [completed |-> Nothing, failed |-> {}, skipped |-> {}]

NoCkpt == [kind |-> "absent"]
Suspended(c) == c.kind = "hitl_suspend"

NoNode == "none"
NoTask == [n \in Nodes |-> "none"]
InFlight == {n \in Nodes : task[n] # "none"}
Finished(state) == state \in {"ok", "refused", "raised", "suspended"}

Dependents(n) == {m \in Nodes : n \in Deps[m]}

\* _skip_dependents: everything downstream of a node - the least set with its
\* dependents and theirs.
Closed(S, n) == Dependents(n) \subseteq S /\ \A m \in S : Dependents(m) \subseteq S
Below == [n \in Nodes |-> {m \in Nodes : \A S \in SUBSET Nodes : Closed(S, n) => m \in S}]

\* in_degree after the results of a checkpoint or of the journal are restored.
MissingDeps(restored) == [n \in Nodes |-> Cardinality(Deps[n] \ In(restored))]

Init ==
    /\ stepCheckpoints \in {"on", "off"}
    /\ policy \in {"all_or_nothing", "best_effort"}
    /\ ckpt = NoCkpt /\ journal = Nothing
    /\ requests = {} /\ answered = {} /\ status = "unregistered"
    /\ pc = "idle"
    /\ completed = Nothing /\ failed = {} /\ skipped = {}
    /\ inDegree = [n \in Nodes |-> 0] /\ ready = {}
    /\ task = NoTask /\ batch = {} /\ node = NoNode
    /\ token = "clear"
    /\ outcome = "none" /\ report = NoReport
    /\ runs = [n \in Nodes |-> 0] /\ drained = {} /\ collided = "no"
    /\ interruptions = 0 /\ drives = 0

----------------------------------------------------------------------------
(* The host: DurableRun.start, ResumeService.resume, resume_interrupted.   *)

Begin ==
    /\ pc = "idle"
    /\ drives < MaxDrives
    /\ drives' = drives + 1
    /\ pc' = "enter"
    /\ outcome' = "running" /\ report' = NoReport
    /\ UNCHANGED <<config, worker, history, interruptions>>

Start ==
    /\ ckpt = NoCkpt
    /\ Begin
    /\ UNCHANGED stores

ResumeInterrupted ==
    /\ ckpt # NoCkpt
    /\ ~Suspended(ckpt)
    /\ Begin
    /\ UNCHANGED stores

\* Mutant: a second resume fails on the response the first one stored.
ResumeRejectsDuplicate ==
    /\ ckpt # NoCkpt
    /\ Suspended(ckpt) /\ ckpt.node \notin answered
    /\ Begin
    /\ answered' = answered \cup {ckpt.node}
    /\ UNCHANGED <<ckpt, journal, requests, status>>

Resume ==
    /\ ckpt # NoCkpt
    /\ Suspended(ckpt)
    /\ Begin
    /\ answered' = answered \cup {ckpt.node}
    /\ UNCHANGED <<ckpt, journal, requests, status>>

\* The response is saved by another system, or by a resume that then crashes.
Respond(g) ==
    /\ g \in requests \ answered
    /\ answered' = answered \cup {g}
    /\ UNCHANGED <<config, ckpt, journal, requests, status, pc, worker, host, history, bounds>>

----------------------------------------------------------------------------
(* Workflow.execute and the main coroutine of DAG._run.                    *)

Return(result) ==
    /\ pc' = "idle"
    /\ outcome' = result
    /\ completed' = Nothing /\ failed' = {} /\ skipped' = {}
    /\ inDegree' = [n \in Nodes |-> 0] /\ ready' = {}
    /\ task' = NoTask /\ batch' = {} /\ node' = NoNode /\ token' = "clear"

EnterRefused ==
    /\ pc = "enter"
    /\ token = "set"
    /\ Return("error")
    /\ UNCHANGED <<config, stores, report, history, bounds>>

RegisterRun ==
    /\ pc = "enter"
    /\ token = "clear"
    /\ status' = "running"
    /\ pc' = "restore"
    /\ UNCHANGED <<config, ckpt, journal, requests, answered, worker, host, history, bounds>>

\* A suspension restores the nodes its checkpoint names, a cursor those the
\* journal names.
Restored ==
    IF ckpt = NoCkpt THEN Nothing
    ELSE IF Suspended(ckpt) THEN ckpt.completed
    ELSE journal

\* Mutant: the cursor path forgets that the restored nodes need not run.
RestoreAllReady ==
    /\ pc = "restore"
    /\ completed' = Restored
    /\ inDegree' = MissingDeps(Restored)
    /\ ready' = {n \in Nodes : inDegree'[n] = 0}
    /\ pc' = "loop"
    /\ UNCHANGED <<config, stores, failed, skipped, tasks, token, host, history, bounds>>

Restore ==
    /\ pc = "restore"
    /\ completed' = Restored
    /\ inDegree' = MissingDeps(Restored)
    /\ ready' = {n \in Nodes : inDegree'[n] = 0} \ In(Restored)
    /\ pc' = "loop"
    /\ UNCHANGED <<config, stores, failed, skipped, tasks, token, host, history, bounds>>

LaunchReady ==
    /\ pc = "loop"
    /\ ready # {} \/ InFlight # {}
    /\ task' = [n \in Nodes |-> IF n \in ready THEN "queued" ELSE task[n]]
    /\ ready' = {}
    /\ pc' = "wait"
    /\ UNCHANGED <<config, stores, results, inDegree, batch, node, token, host, history, bounds>>

LoopEnds ==
    /\ pc = "loop"
    /\ ready = {} /\ InFlight = {}
    /\ pc' = "complete"
    /\ UNCHANGED <<config, stores, worker, host, history, bounds>>

\* asyncio.wait(FIRST_COMPLETED): a launched task starts before the main
\* coroutine is woken by one that finished.
Collect ==
    /\ pc = "wait"
    /\ \A n \in Nodes : task[n] # "queued"
    /\ batch' = {n \in Nodes : Finished(task[n])}
    /\ batch' # {}
    /\ pc' = "process"
    /\ UNCHANGED <<config, stores, results, graph, task, node, token, host, history, bounds>>

BatchDone ==
    /\ pc = "process"
    /\ batch = {}
    /\ pc' = "loop"
    /\ UNCHANGED <<config, stores, worker, host, history, bounds>>

Take(n) ==
    /\ pc = "process"
    /\ n \in batch

ResultOf(n) ==
    [run |-> runs[n],
     saw |-> [d \in Nodes |-> IF d \in Deps[n] THEN completed[d].run ELSE 0]]

TakeResult(n) ==
    /\ Take(n)
    /\ task[n] = "ok"
    /\ completed' = [completed EXCEPT ![n] = ResultOf(n)]
    /\ task' = [task EXCEPT ![n] = "none"]
    /\ batch' = batch \ {n}
    /\ node' = n
    /\ pc' = IF stepCheckpoints = "on" THEN "cursor" ELSE "unblock"
    /\ UNCHANGED <<config, stores, failed, skipped, graph, token, host, history, bounds>>

SaveCursor ==
    /\ pc = "cursor"
    /\ ckpt' = [kind |-> "step"]
    /\ pc' = "journal"
    /\ UNCHANGED <<config, journal, requests, answered, status, worker, host, history, bounds>>

AppendStep ==
    /\ pc = "journal"
    /\ journal' = [journal EXCEPT ![node] = completed[node]]
    /\ pc' = "unblock"
    /\ UNCHANGED <<config, ckpt, requests, answered, status, worker, host, history, bounds>>

Unblock ==
    /\ pc = "unblock"
    /\ LET live == Dependents(node) \ skipped IN
       /\ inDegree' = [n \in Nodes |-> IF n \in live THEN inDegree[n] - 1 ELSE inDegree[n]]
       /\ ready' = ready \cup {n \in live : inDegree[n] = 1}
    /\ node' = NoNode
    /\ pc' = "process"
    /\ UNCHANGED <<config, stores, results, task, batch, token, host, history, bounds>>

\* A node that found the token set ends the loop: the other tasks, finished
\* ones too, are dropped.
TakeRefusal(n) ==
    /\ Take(n)
    /\ task[n] = "refused"
    /\ task' = NoTask /\ batch' = {}
    /\ pc' = "loop"
    /\ UNCHANGED <<config, stores, results, graph, node, token, host, history, bounds>>

AbortAll(n) ==
    /\ Take(n)
    /\ task[n] = "raised"
    /\ policy = "all_or_nothing"
    /\ task' = NoTask /\ batch' = {}
    /\ pc' = "fail"
    /\ UNCHANGED <<config, stores, results, graph, node, token, host, history, bounds>>

\* Mutant: only the direct dependents of a failed node are skipped.
RecordFailureShallow(n) ==
    /\ Take(n)
    /\ task[n] = "raised"
    /\ policy = "best_effort"
    /\ failed' = failed \cup {n}
    /\ skipped' = skipped \cup Dependents(n)
    /\ task' = [m \in Nodes |-> IF m = n \/ m \in Dependents(n) \ skipped THEN "none" ELSE task[m]]
    /\ batch' = batch \ {n}
    /\ UNCHANGED <<config, stores, pc, completed, graph, node, token, host, history, bounds>>

\* Those below that are in flight are cancelled and forgotten.
RecordFailure(n) ==
    /\ Take(n)
    /\ task[n] = "raised"
    /\ policy = "best_effort"
    /\ failed' = failed \cup {n}
    /\ skipped' = skipped \cup Below[n]
    /\ task' = [m \in Nodes |-> IF m = n \/ m \in Below[n] \ skipped THEN "none" ELSE task[m]]
    /\ batch' = batch \ {n}
    /\ UNCHANGED <<config, stores, pc, completed, graph, node, token, host, history, bounds>>

\* One of them had finished in the same batch: its name is not found (an assertion).
TakeForgotten(n) ==
    /\ Take(n)
    /\ task[n] = "none"
    /\ task' = NoTask /\ batch' = {}
    /\ pc' = "fail"
    /\ UNCHANGED <<config, stores, results, graph, node, token, host, history, bounds>>

\* Mutant: the name of the suspended node is lost in the drain.
TakeSuspensionUnnamed(n) ==
    /\ Take(n)
    /\ task[n] = "suspended"
    /\ task' = [task EXCEPT ![n] = "none"]
    /\ pc' = "drain"
    /\ UNCHANGED <<config, stores, results, graph, batch, node, token, host, history, bounds>>

TakeSuspension(n) ==
    /\ Take(n)
    /\ task[n] = "suspended"
    /\ task' = [task EXCEPT ![n] = "none"]
    /\ node' = n
    /\ pc' = "drain"
    /\ UNCHANGED <<config, stores, results, graph, batch, token, host, history, bounds>>

Drained == pc = "drain" /\ \A n \in InFlight : Finished(task[n])

\* Every returned result counts as completed, a refusal's too; failures are
\* suppressed.
DrainAll ==
    /\ Drained
    /\ \A n \in Nodes : task[n] # "suspended"
    /\ completed' = [n \in Nodes |->
           CASE task[n] = "ok" -> ResultOf(n)
             [] task[n] = "refused" -> Refused
             [] OTHER -> completed[n]]
    /\ drained' = drained \cup {n \in Nodes : task[n] \in {"ok", "refused"}}
    /\ task' = NoTask /\ batch' = {}
    /\ pc' = "surface"
    /\ UNCHANGED <<config, stores, failed, skipped, graph, node, token, host, runs, collided, bounds>>

\* suppress(Exception) does not stop a second SuspendExecution: it leaves _run
\* in place of the first, before the checkpoint is written.
SecondSuspension(n) ==
    /\ Drained
    /\ task[n] = "suspended"
    /\ task' = NoTask /\ batch' = {}
    /\ node' = n
    /\ pc' = "park"
    /\ collided' = "yes"
    /\ UNCHANGED <<config, stores, results, graph, token, host, runs, drained, bounds>>

SurfaceSuspension ==
    /\ pc = "surface"
    /\ ckpt' = [kind |-> "hitl_suspend", node |-> node, completed |-> completed]
    /\ pc' = "park"
    /\ UNCHANGED <<config, journal, requests, answered, status, worker, host, history, bounds>>

SuspendRun ==
    /\ pc = "park"
    /\ status' = "suspended"
    /\ pc' = "handle"
    /\ UNCHANGED <<config, ckpt, journal, requests, answered, worker, host, history, bounds>>

\* A SuspendedRun needs a checkpoint and a pending request; else RuntimeError.
BuildSuspendedRun ==
    /\ pc = "handle"
    /\ Return(IF ckpt = NoCkpt \/ node \in answered THEN "lost" ELSE "suspended")
    /\ UNCHANGED <<config, stores, report, history, bounds>>

CompleteRun ==
    /\ pc = "complete"
    /\ status' = "completed"
    /\ Return(IF token = "set" THEN "cancelled" ELSE "result")
    /\ report' = [completed |-> completed, failed |-> failed, skipped |-> skipped]
    /\ UNCHANGED <<config, ckpt, journal, requests, answered, history, bounds>>

FailRun ==
    /\ pc = "fail"
    /\ status' = "failed"
    /\ Return("error")
    /\ UNCHANGED <<config, ckpt, journal, requests, answered, report, history, bounds>>

----------------------------------------------------------------------------
(* The tasks: _run_node.  They run while the main coroutine waits.         *)

Awaiting == pc \in {"wait", "cursor", "journal", "drain"}

SetTask(n, from, to) ==
    /\ Awaiting
    /\ task[n] = from
    /\ task' = [task EXCEPT ![n] = to]
    /\ UNCHANGED <<config, ckpt, journal, answered, status, pc, results, graph, batch, node,
                   token, host, drained, collided, drives>>

\* The node's input is read first, a missing one raises KeyError ...
HasInput(n) == Deps[n] \subseteq In(completed)

TaskMissesInput(n) ==
    /\ ~HasInput(n)
    /\ SetTask(n, "queued", "raised")
    /\ UNCHANGED <<requests, runs, interruptions>>

\* ... and then the token.
TaskStarts(n) ==
    /\ HasInput(n) /\ token = "clear"
    /\ SetTask(n, "queued", "running")
    /\ runs' = IF n \in Gates THEN runs ELSE [runs EXCEPT ![n] = @ + 1]
    /\ UNCHANGED <<requests, interruptions>>

TaskRefused(n) ==
    /\ HasInput(n) /\ token = "set"
    /\ SetTask(n, "queued", "refused")
    /\ UNCHANGED <<requests, runs, interruptions>>

\* Mutant: an unanswered gate is treated as approved.
TaskReturnsUnasked(n) ==
    /\ SetTask(n, "running", "ok")
    /\ UNCHANGED <<requests, runs, interruptions>>

TaskReturns(n) ==
    /\ n \in Gates => n \in answered
    /\ SetTask(n, "running", "ok")
    /\ UNCHANGED <<requests, runs, interruptions>>

\* Mutant: the request is not stored before the run suspends.
GateAsksUnsaved(n) ==
    /\ n \in Gates \ answered
    /\ SetTask(n, "running", "suspended")
    /\ UNCHANGED <<requests, runs, interruptions>>

GateAsks(n) ==
    /\ n \in Gates \ answered
    /\ SetTask(n, "running", "suspended")
    /\ requests' = requests \cup {n}
    /\ UNCHANGED <<runs, interruptions>>

TaskRaises(n) ==
    /\ interruptions < MaxInterruptions
    /\ interruptions' = interruptions + 1
    /\ SetTask(n, "running", "raised")
    /\ UNCHANGED <<requests, runs>>

----------------------------------------------------------------------------
(* What goes wrong.                                                        *)

Interrupt ==
    /\ interruptions < MaxInterruptions
    /\ interruptions' = interruptions + 1
    /\ UNCHANGED drives

\* A store call raises inside execute's try block.
StoreRaises ==
    /\ pc \in {"restore", "cursor", "journal", "surface", "complete"}
    /\ pc = "restore" => ckpt # NoCkpt /\ ~Suspended(ckpt)
    /\ Interrupt
    /\ task' = NoTask /\ batch' = {}
    /\ pc' = "fail"
    /\ UNCHANGED <<config, stores, results, graph, node, token, host, history>>

\* A store call raises outside that try block: the host gets the exception.
HostSeesStoreError ==
    /\ pc \in {"enter", "park", "handle", "fail"}
    /\ Interrupt
    /\ Return("error")
    /\ UNCHANGED <<config, stores, report, history>>

Crash ==
    /\ pc # "idle"
    /\ Interrupt
    /\ Return("crashed")
    /\ UNCHANGED <<config, stores, report, history>>

Cancel ==
    /\ pc # "idle"
    /\ token = "clear"
    /\ Interrupt
    /\ token' = "set"
    /\ UNCHANGED <<config, stores, pc, results, graph, tasks, host, history>>

----------------------------------------------------------------------------
Drive == Start \/ ResumeInterrupted \/ Resume

Main ==
    \/ EnterRefused \/ RegisterRun \/ Restore \/ LaunchReady \/ LoopEnds \/ Collect \/ BatchDone
    \/ \E n \in Nodes :
          \/ TakeResult(n) \/ TakeRefusal(n) \/ AbortAll(n) \/ RecordFailure(n)
          \/ TakeForgotten(n) \/ TakeSuspension(n) \/ SecondSuspension(n)
    \/ SaveCursor \/ AppendStep \/ Unblock
    \/ DrainAll \/ SurfaceSuspension \/ SuspendRun \/ BuildSuspendedRun
    \/ CompleteRun \/ FailRun

Task(n) == TaskMissesInput(n) \/ TaskStarts(n) \/ TaskRefused(n) \/ TaskReturns(n) \/ GateAsks(n)

Trouble == StoreRaises \/ HostSeesStoreError \/ Crash \/ Cancel \/ \E n \in Nodes : TaskRaises(n)

Next ==
    \/ Drive \/ Main \/ Trouble
    \/ \E n \in Nodes : Task(n)
    \/ \E g \in Gates : Respond(g)

Spec == Init /\ [][Next]_vars

\* The event loop runs the main coroutine and every task; the host drives an
\* idle run, and calls resume once a human has decided.
FairSpec ==
    /\ Spec
    /\ WF_vars(Main) /\ WF_vars(Drive)
    /\ \A n \in Nodes : WF_vars(Task(n))

----------------------------------------------------------------------------
(* Properties.                                                             *)

\* The types of all variables; in_degree is an integer, it has no lower bound.
Results == [Nodes -> Result \cup {NoResult}]
TypeOK ==
    /\ stepCheckpoints \in {"on", "off"}
    /\ policy \in {"all_or_nothing", "best_effort"}
    /\ \/ ckpt \in {NoCkpt, [kind |-> "step"]}
       \/ ckpt \in [kind : {"hitl_suspend"}, node : Gates, completed : Results]
    /\ journal \in Results
    /\ requests \subseteq Gates /\ answered \subseteq Gates
    /\ status \in {"unregistered", "running", "completed", "failed", "suspended"}
    /\ pc \in {"idle", "enter", "restore", "loop", "wait", "process", "cursor", "journal",
               "unblock", "drain", "surface", "park", "handle", "complete", "fail"}
    /\ completed \in Results /\ failed \subseteq Nodes /\ skipped \subseteq Nodes
    /\ inDegree \in [Nodes -> Int] /\ ready \subseteq Nodes
    /\ task \in [Nodes -> {"none", "queued", "running", "ok", "refused", "raised", "suspended"}]
    /\ batch \subseteq Nodes /\ node \in Nodes \cup {NoNode}
    /\ token \in {"clear", "set"}
    /\ outcome \in {"none", "running", "result", "cancelled", "suspended", "lost", "error",
                    "crashed"}
    /\ report \in [completed : Results, failed : SUBSET Nodes, skipped : SUBSET Nodes]
    /\ runs \in [Nodes -> Nat] /\ drained \subseteq Nodes /\ collided \in {"no", "yes"}
    /\ interruptions \in Nat /\ drives \in Nat

\* What the result of a drained node can be seen in.
Tainted == UNION {Below[n] : n \in drained}

\* No node below a gate runs before a human has answered the gate, in whatever
\* order tasks finish and however the run is resumed (in_degree, ready set, the
\* reading of inputs) - but for a gate that refused to start under a set token: a
\* drain takes its empty result for one.
GatesHold ==
    \A g \in Gates, n \in Nodes :
        n \in Below[g] /\ runs[n] > 0 => g \in answered \cup drained

\* Across all resumes a journaled node runs once, unless it reads a drained one.
JournaledNodesRunOnce ==
    [][\A n \in In(journal) : Deps[n] \cap drained = {} => runs'[n] = runs[n]]_vars

\* A result the host is given accounts for every node: it completed, it failed, or
\* it is downstream of a failed one and was skipped; and for none of them twice,
\* unless it is downstream of a drained one.
ResultAccountsForEveryNode ==
    outcome = "result" =>
        LET done == In(report.completed) IN
        /\ done \cup report.failed \cup report.skipped = Nodes
        /\ done \cap (report.failed \cup report.skipped) \subseteq Tainted
        /\ report.skipped = UNION {Below[n] : n \in report.failed}

\* No result mixes two executions of a dependency: what a node was computed from
\* is what the final result holds for that dependency.
ResultsAgree ==
    outcome = "result" =>
        \A n \in In(report.completed) \ Tainted : \A d \in Deps[n] :
            report.completed[n] # Refused =>
                report.completed[n].saw[d] = report.completed[d].run

\* A run that the host or the trace store calls suspended has a checkpoint resume
\* accepts, for a gate whose request the human can see and that the checkpoint does
\* not count as completed - if no two gates have suspended together.
SuspensionIsResumable ==
    /\ collided = "no" =>
          (status = "suspended" \/ outcome \in {"suspended", "lost"} => Suspended(ckpt))
    /\ Suspended(ckpt) => ckpt.node \in requests /\ ckpt.completed[ckpt.node] = NoResult

\* Whatever is crashed, cancelled or failed, a driven run whose gates do not
\* suspend together returns a result.
RunFinishes == <>(outcome = "result" \/ collided = "yes")

\* What the documentation says and the code does not do.
\* "Every completed+journaled branch/node runs at most once" across all resumes.
EveryJournaledNodeRunsOnce == [][\A n \in In(journal) : runs'[n] = runs[n]]_vars
=============================================================================
