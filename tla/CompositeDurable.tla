--------------------------- MODULE CompositeDurable ---------------------------
(***************************************************************************)
(* A durable run of a workflow whose steps are themselves resumable or ask *)
(* a human more than once: Loop, Pipeline, Conditional, Parallel and       *)
(* MapReduce (`kind`) over children that are either nested Sequential      *)
(* workflows (WorkflowStep) or RevisionGates (`body`).                     *)
(*                                                                         *)
(* A child is a sequence of "work" (a step with a side effect) and "gate"  *)
(* (an ApprovalGate on a durable provider).  The parent's suspension       *)
(* checkpoint embeds the suspended child's frame when the child is a       *)
(* workflow; a RevisionGate is executed again from its start.  Only the    *)
(* parent owns a checkpoint store and polls a cancellation token.  The     *)
(* frame of Workflow.execute (tasks, status, spans) and the awaits inside  *)
(* a gate are SequentialDurable's; here they are one action.               *)
(***************************************************************************)
EXTENDS Integers, Sequences, FiniteSets

CONSTANTS Kinds,             \* the kinds of workflow to consider
          K,                 \* stages, branches, items, or max_iterations
          L,                 \* the longest body
          Bodies,            \* kind -> child -> its sequence of "work" and "gate"
          MaxConcurrency,    \* MapReduce: items processed at once
          MaxInterruptions,  \* bound: crashes, failures and cancellations
          MaxDrives          \* bound: calls of start / resume / resume_interrupted

Children == 1..K
Places == Children \X (1..L)
OneByOne == {"loop", "pipeline", "conditional"}
Shared == {"loop", "map_reduce"}     \* one child object serves every execution

ASSUME SizeAssumption == K \in Nat \ {0} /\ L \in Nat \ {0} /\ MaxConcurrency \in Nat \ {0}
ASSUME KindAssumption ==
    /\ Kinds \subseteq OneByOne \cup {"parallel", "map_reduce"}
    /\ \A k \in Kinds, c \in Children :
          /\ Bodies[k][c] \in Seq({"work", "gate"})
          /\ Len(Bodies[k][c]) \in 1..L
          /\ k \in Shared => Bodies[k][c] = Bodies[k][1]
ASSUME BoundAssumption == MaxInterruptions \in Nat /\ MaxDrives \in Nat

VARIABLES
    kind, body, policy, stepCheckpoints,   \* the configuration
    ckpt,             \* what CheckpointStore.load returns for the run
    journal,          \* child -> its journaled result
    requests,         \* request key -> the value the saved request shows
    responses,        \* request key -> the stored decision
    pc,               \* the parent: where it is between two awaits
    cur,              \* the child being executed, or whose result is saved
    task,             \* child -> the state of its execution
    frame,            \* child -> its position, input and current_input
    results,          \* child -> its result in this drive
    prior,            \* MapReduce: completed_items of the checkpoint resumed
    failed,           \* failed branches or items
    susp,             \* the first child found suspended, or 0
    batch,            \* finished tasks not yet processed
    pending,          \* key of the request the SuspendExecution carries
    token,            \* the CancellationToken
    outcome,          \* what the last call returned to the host
    report,           \* the results and failures that result accounts for
    effects,          \* history: executions of each work step
    yield,            \* history: the last value each child returned
    interruptions, drives

config == <<kind, body, policy, stepCheckpoints>>
stores == <<ckpt, journal, requests, responses>>
children == <<task, frame>>
collected == <<results, prior, failed, susp, batch>>
local == <<cur, children, collected, pending, token>>
host == <<outcome, report>>
history == <<effects, yield>>
bounds == <<interruptions, drives>>
vars == <<config, stores, pc, local, host, history, bounds>>

----------------------------------------------------------------------------
(* Data.  A work step's output is tagged with the execution that made it.  *)

Value == [src : Places \cup {<<0, 0>>}, run : Nat]
NoValue == [src |-> <<0, 0>>, run |-> -1]
Original == [src |-> <<0, 0>>, run |-> 1]
None == [src |-> <<0, 0>>, run |-> 0]

Nothing == [c \in Children |-> NoValue]
In(r) == {c \in Children : r[c] # NoValue}
Merge(r, s) == [c \in Children |-> IF r[c] # NoValue THEN r[c] ELSE s[c]]

Body(c) == Bodies[kind][c]
Holds(what) == {p \in Places : p[2] <= Len(Body(p[1])) /\ Body(p[1])[p[2]] = what}

\* What a RevisionGate's body looks like: worker, gate, worker, gate, ...
Alternates(b) ==
    \A i \in DOMAIN b : b[i] = (IF i % 2 = 1 THEN "work" ELSE "gate")

Decisions == {"approve", "reject"} \cup (IF body = "revision" THEN {"revise"} ELSE {})
NoDecision == "unanswered"

\* request_id is "{run_id}:{gate name}:{attempt}": the executions of a child
\* that is one object, hence one gate, share it.
Keys == (0..K) \X (1..L)
NoKey == <<0, 0>>
Key(c, s) == IF kind \in Shared THEN <<0, s>> ELSE <<c, s>>

Frame(input) == [at |-> 1, inp |-> input, val |-> input]
Frames == [c \in Children |-> Frame(Original)]
NoFrame == [at |-> 0, inp |-> NoValue, val |-> NoValue]

NoCkpt == [kind |-> "absent"]
Suspended(c) == c.kind = "suspend"

NoTask == [c \in Children |-> "none"]
Ended == {c \in Children : task[c] \in {"returned", "refused", "raised", "suspended"}}
InFlight == {c \in Children : task[c] # "none"}

Init ==
    /\ kind \in Kinds
    /\ body \in {"workflow", "revision"}
    /\ body = "revision" => \A c \in Children : Alternates(Body(c))
    /\ policy \in {"all_or_nothing", "best_effort"}
    /\ policy = "best_effort" => kind \notin OneByOne
    /\ stepCheckpoints \in {"on", "off"}
    /\ stepCheckpoints = "on" => kind \in {"loop", "parallel"}
    /\ ckpt = NoCkpt /\ journal = Nothing
    /\ requests = [k \in Keys |-> NoValue]
    /\ responses = [k \in Keys |-> NoDecision]
    /\ pc = "idle" /\ cur = 0
    /\ task = NoTask /\ frame = Frames
    /\ results = Nothing /\ prior = Nothing /\ failed = {}
    /\ susp = 0 /\ batch = {} /\ pending = NoKey /\ token = "clear"
    /\ outcome = "none" /\ report = [results |-> Nothing, failed |-> {}]
    /\ effects = [p \in Places |-> 0] /\ yield = Nothing
    /\ interruptions = 0 /\ drives = 0

----------------------------------------------------------------------------
(* The host, and how each _run begins: afresh, from a cursor, or from a    *)
(* suspension.                                                             *)

Begin ==
    /\ pc = "idle"
    /\ drives < MaxDrives
    /\ drives' = drives + 1
    /\ outcome' = "running"
    /\ failed' = {} /\ susp' = 0 /\ batch' = {} /\ pending' = NoKey /\ token' = "clear"
    /\ UNCHANGED <<config, journal, requests, report, history, interruptions>>

\* A loop, pipeline or conditional at child c, which starts from frame f.
EnterChild(c, f, restored) ==
    /\ pc' = "top" /\ cur' = c
    /\ task' = NoTask
    /\ frame' = [d \in Children |-> IF d = c THEN f ELSE Frame(Original)]
    /\ results' = restored /\ prior' = Nothing

\* A parallel or map-reduce with a task for each child of `todo`.
LaunchTasks(todo, at, frames, restored, before) ==
    /\ pc' = at /\ cur' = 0
    /\ task' = [c \in Children |-> IF c \notin todo THEN "none"
                                   ELSE IF kind = "map_reduce" THEN "queued" ELSE "run"]
    /\ frame' = frames
    /\ results' = restored /\ prior' = before

Start ==
    /\ ckpt = NoCkpt
    /\ Begin
    /\ \/ /\ kind \in OneByOne
          /\ \E c \in IF kind = "conditional" THEN Children ELSE {1} :
                EnterChild(c, Frame(Original), Nothing)
       \/ /\ kind \notin OneByOne
          /\ LaunchTasks(Children, "wait", Frames, Nothing, Nothing)
    /\ UNCHANGED <<ckpt, responses>>

\* Input of the iteration or stage c that a checkpoint names.
InputAfter(c, saved) ==
    IF c > 1 /\ saved[c - 1] # NoValue THEN saved[c - 1] ELSE Original

\* Only Loop and Parallel write cursors; Parallel restores from the journal.
ResumeInterrupted ==
    /\ ckpt # NoCkpt
    /\ ~Suspended(ckpt)
    /\ Begin
    /\ IF kind = "loop"
       THEN EnterChild(ckpt.child, Frame(InputAfter(ckpt.child, ckpt.results)), Nothing)
       ELSE LaunchTasks(Children \ In(journal), "wait", Frames, journal, Nothing)
    /\ UNCHANGED <<ckpt, responses>>

\* Mutant: the nested workflow is not given its frame.
ResumedFrameLost == Frame(InputAfter(ckpt.child, ckpt.results))

\* The suspended child re-enters its own frame if it is a workflow; any other
\* step is executed again from its start.
ResumedFrame ==
    IF body = "workflow" THEN ckpt.frame
    ELSE IF kind \in {"loop", "pipeline"} THEN Frame(InputAfter(ckpt.child, ckpt.results))
    ELSE Frame(Original)

\* Mutant: an answer that was already stored is refused, not reused.
ResumeUnanswered(decision) ==
    /\ ckpt # NoCkpt
    /\ Suspended(ckpt)
    /\ responses[ckpt.request] = NoDecision
    /\ Begin
    /\ responses' = [responses EXCEPT ![ckpt.request] = decision]
    /\ IF kind \in OneByOne THEN EnterChild(ckpt.child, ResumedFrame, ckpt.results)
       ELSE LaunchTasks(Children \ In(ckpt.results), "wait",
                        [Frames EXCEPT ![ckpt.child] = ResumedFrame], ckpt.results, Nothing)
    /\ UNCHANGED ckpt

Resume(decision) ==
    /\ ckpt # NoCkpt
    /\ Suspended(ckpt)
    /\ Begin
    /\ responses' = IF responses[ckpt.request] = NoDecision
                    THEN [responses EXCEPT ![ckpt.request] = decision]
                    ELSE responses
    /\ CASE kind \in {"loop", "conditional"} -> EnterChild(ckpt.child, ResumedFrame, Nothing)
         [] kind = "pipeline" -> EnterChild(ckpt.child, ResumedFrame, ckpt.results)
         [] kind = "parallel" ->
              LaunchTasks({ckpt.child}, "again",
                          [Frames EXCEPT ![ckpt.child] = ResumedFrame], ckpt.results, Nothing)
         [] kind = "map_reduce" ->
              LaunchTasks(Children \ In(ckpt.results), "wait",
                          [Frames EXCEPT ![ckpt.child] = ResumedFrame], Nothing, ckpt.results)
    /\ UNCHANGED ckpt

\* An external system saves the human's answer to a pending request.
Respond(k, decision) ==
    /\ requests[k] # NoValue
    /\ responses[k] = NoDecision
    /\ responses' = [responses EXCEPT ![k] = decision]
    /\ UNCHANGED <<config, ckpt, journal, requests, pc, local, host, history, bounds>>

----------------------------------------------------------------------------
(* A child: the steps of a nested Sequential, or a RevisionGate's loop.    *)

At(c, what) == task[c] = "run" /\ Body(c)[frame[c].at] = what
Here(c) == <<c, frame[c].at>>
GateKey(c) == Key(c, frame[c].at)

Return(result) ==
    /\ pc' = "idle"
    /\ outcome' = result
    /\ cur' = 0 /\ task' = NoTask /\ frame' = Frames
    /\ results' = Nothing /\ prior' = Nothing /\ failed' = {} /\ susp' = 0 /\ batch' = {}
    /\ pending' = NoKey /\ token' = "clear"

\* The child returns v.
Leave(c, v) ==
    /\ frame' = [frame EXCEPT ![c].val = v]
    /\ task' = [task EXCEPT ![c] = "returned"]

\* The current step of the child returned v, and the child goes on if it can.
Proceed(c, v) ==
    IF frame[c].at = Len(Body(c)) THEN Leave(c, v)
    ELSE /\ frame' = [frame EXCEPT ![c].at = @ + 1, ![c].val = v]
         /\ UNCHANGED task

\* MapReduce: a task gets the semaphore; _execute_item looks at the token first.
StartItem(c) ==
    /\ task[c] = "queued"
    /\ Cardinality({d \in Children : task[d] = "run"}) < MaxConcurrency
    /\ task' = [task EXCEPT ![c] = IF token = "set" THEN "refused" ELSE "run"]
    /\ UNCHANGED <<config, stores, pc, cur, frame, collected, pending, token, host, history, bounds>>

WorkStep(c) ==
    /\ At(c, "work")
    /\ effects' = [effects EXCEPT ![Here(c)] = @ + 1]
    /\ Proceed(c, [src |-> Here(c), run |-> effects[Here(c)] + 1])
    /\ UNCHANGED <<config, stores, pc, cur, collected, pending, token, host, yield, bounds>>

\* Mutant: an unanswered gate lets its input pass.
GatePasses(c) ==
    /\ At(c, "gate")
    /\ Proceed(c, frame[c].val)
    /\ UNCHANGED <<config, stores, pc, cur, collected, pending, token, host, history, bounds>>

\* ApprovalGate.execute with a stored response.  Inside a Sequential whatever the
\* decision the next step runs; a RevisionGate returns on approve and reject, and
\* on revise runs its workers again unless max_revisions is reached.
GateAnswered(c) ==
    /\ At(c, "gate")
    /\ LET decision == responses[GateKey(c)] IN
       \/ decision = "approve" /\ body = "workflow" /\ Proceed(c, frame[c].val)
       \/ decision = "reject" /\ body = "workflow" /\ Proceed(c, None)
       \/ decision = "approve" /\ body = "revision" /\ Leave(c, frame[c].val)
       \/ decision = "reject" /\ body = "revision" /\ Leave(c, None)
       \/ decision = "revise" /\ frame[c].at < Len(Body(c)) /\ Proceed(c, frame[c].val)
       \/ decision = "revise" /\ frame[c].at = Len(Body(c)) /\ Leave(c, None)
    /\ UNCHANGED <<config, stores, pc, cur, collected, pending, token, host, history, bounds>>

\* No response: the request is saved unless it already is, and the gate suspends.
GateAsks(c) ==
    /\ At(c, "gate")
    /\ responses[GateKey(c)] = NoDecision
    /\ requests' = IF requests[GateKey(c)] = NoValue
                   THEN [requests EXCEPT ![GateKey(c)] = frame[c].val]
                   ELSE requests
    /\ task' = [task EXCEPT ![c] = "suspended"]
    /\ UNCHANGED <<config, ckpt, journal, responses, pc, cur, frame, collected, pending,
                   token, host, history, bounds>>

----------------------------------------------------------------------------
(* Loop, Pipeline and Conditional: one child after the other.              *)

\* What a result reports: `completed` in order, and the failures it lists.
Report(completed, failures) == report' = [results |-> completed, failed |-> failures]

\* Only the iterative patterns look at the token between children.
StopCancelled ==
    /\ pc = "top" /\ cur <= K
    /\ kind # "conditional" /\ token = "set"
    /\ Return("cancelled")
    /\ UNCHANGED <<config, stores, report, history, bounds>>

RunChild ==
    /\ pc = "top" /\ cur <= K
    /\ kind = "conditional" \/ token = "clear"
    /\ task' = [task EXCEPT ![cur] = "run"]
    /\ pc' = "wait"
    /\ UNCHANGED <<config, stores, cur, frame, collected, pending, token, host, history, bounds>>

\* All stages ran, or max_iterations is reached.
EndOfChildren ==
    /\ pc = "top" /\ cur > K
    /\ Return("result")
    /\ Report(results, {})
    /\ UNCHANGED <<config, stores, history, bounds>>

ChildReturned == kind \in OneByOne /\ pc = "wait" /\ task[cur] = "returned"

\* The branch of a conditional is all there is, and a loop's condition may stop it.
StopAfterChild ==
    /\ ChildReturned
    /\ kind \in {"loop", "conditional"}
    /\ Return("result")
    /\ Report([results EXCEPT ![cur] = frame[cur].val], {})
    /\ yield' = [yield EXCEPT ![cur] = frame[cur].val]
    /\ UNCHANGED <<config, stores, effects, bounds>>

EnterNext(c, v) ==
    /\ pc' = "top" /\ cur' = c + 1
    /\ frame' = [d \in Children |-> IF d = c + 1 THEN Frame(v) ELSE Frame(Original)]

\* The loop goes on, or the pipeline does: the output is the next one's input.
GoOn ==
    /\ ChildReturned
    /\ kind \in {"loop", "pipeline"}
    /\ results' = [results EXCEPT ![cur] = frame[cur].val]
    /\ yield' = [yield EXCEPT ![cur] = frame[cur].val]
    /\ task' = NoTask
    /\ IF stepCheckpoints = "on" THEN pc' = "cursor" /\ UNCHANGED <<cur, frame>>
       ELSE EnterNext(cur, frame[cur].val)
    /\ UNCHANGED <<config, stores, prior, failed, susp, batch, pending, token, host, effects, bounds>>

ChildSuspended ==
    /\ kind \in OneByOne /\ pc = "wait" /\ task[cur] = "suspended"
    /\ susp' = cur /\ pending' = GateKey(cur)
    /\ pc' = "surface"
    /\ UNCHANGED <<config, stores, cur, children, results, prior, failed, batch, token,
                   host, history, bounds>>

ChildRaised ==
    /\ kind \in OneByOne /\ pc = "wait" /\ task[cur] = "raised"
    /\ Return("error")
    /\ UNCHANGED <<config, stores, report, history, bounds>>

----------------------------------------------------------------------------
(* Parallel and MapReduce: the loop over asyncio.wait.                     *)

Fans == kind \notin OneByOne /\ pc = "wait"

\* asyncio.wait returns the set of finished tasks, processed in any order.
Collect ==
    /\ Fans /\ batch = {} /\ Ended # {}
    /\ batch' = Ended
    /\ UNCHANGED <<config, stores, pc, cur, children, results, prior, failed, susp,
                   pending, token, host, history, bounds>>

Take(c, state) ==
    /\ Fans /\ c \in batch /\ task[c] = state
    /\ batch' = batch \ {c}
    /\ task' = [task EXCEPT ![c] = "none"]
    /\ UNCHANGED <<config, stores, frame, prior, token, host, effects, bounds>>

TakeResult(c) ==
    /\ Take(c, "returned")
    /\ results' = [results EXCEPT ![c] = frame[c].val]
    /\ yield' = [yield EXCEPT ![c] = frame[c].val]
    /\ IF stepCheckpoints = "on" THEN pc' = "cursor" /\ cur' = c ELSE UNCHANGED <<pc, cur>>
    /\ UNCHANGED <<failed, susp, pending>>

\* MapReduce: metadata terminated=cancelled counts as failed under any policy.
TakeRefused(c) ==
    /\ Take(c, "refused")
    /\ failed' = failed \cup {c}
    /\ UNCHANGED <<pc, cur, results, susp, pending, yield>>

\* Only the first suspension is remembered.
TakeSuspension(c) ==
    /\ Take(c, "suspended")
    /\ IF susp = 0 THEN susp' = c /\ pending' = GateKey(c) ELSE UNCHANGED <<susp, pending>>
    /\ UNCHANGED <<pc, cur, results, failed, yield>>

TakeFailure(c) ==
    /\ policy = "best_effort"
    /\ Take(c, "raised")
    /\ failed' = failed \cup {c}
    /\ UNCHANGED <<pc, cur, results, susp, pending, yield>>

\* ALL_OR_NOTHING: the other tasks are cancelled and the exception is raised.
AbortAll(c) ==
    /\ policy = "all_or_nothing"
    /\ Fans /\ c \in batch /\ task[c] = "raised"
    /\ Return("error")
    /\ UNCHANGED <<config, stores, report, history, bounds>>

AllCollected == Fans /\ InFlight = {} /\ batch = {}

\* Mutant: failed items are dropped from the result's metadata.
FanCompletesSilently ==
    /\ AllCollected /\ susp = 0
    /\ Return(IF kind = "map_reduce" /\ token = "set" THEN "cancelled" ELSE "result")
    /\ Report(Merge(prior, results), {})
    /\ UNCHANGED <<config, stores, history, bounds>>

\* A MapReduce whose token is set reports terminated=cancelled; Parallel never looks.
FanCompletes ==
    /\ AllCollected /\ susp = 0
    /\ Return(IF kind = "map_reduce" /\ token = "set" THEN "cancelled" ELSE "result")
    /\ Report(Merge(prior, results), failed)
    /\ UNCHANGED <<config, stores, history, bounds>>

FanSuspends ==
    /\ AllCollected /\ susp # 0
    /\ pc' = "surface"
    /\ UNCHANGED <<config, stores, local, host, history, bounds>>

\* Parallel after a suspension executes that branch alone, outside the loop, and
\* merges its result with those of the checkpoint.
BranchReturned(c) ==
    /\ pc = "again" /\ task[c] = "returned"
    /\ Return("result")
    /\ Report([results EXCEPT ![c] = frame[c].val], {})
    /\ yield' = [yield EXCEPT ![c] = frame[c].val]
    /\ UNCHANGED <<config, stores, effects, bounds>>

\* Nothing on that path catches a second suspension: no checkpoint is saved.
BranchSuspendedAgain(c) ==
    /\ pc = "again" /\ task[c] = "suspended"
    /\ pending' = GateKey(c)
    /\ pc' = "handle"
    /\ UNCHANGED <<config, stores, cur, children, collected, token, host, history, bounds>>

BranchRaised(c) ==
    /\ pc = "again" /\ task[c] = "raised"
    /\ Return("error")
    /\ UNCHANGED <<config, stores, report, history, bounds>>

----------------------------------------------------------------------------
(* Cursors, journal and suspension checkpoints.                            *)

Cursor(c, saved) ==
    [kind |-> "step", child |-> c, results |-> saved, frame |-> NoFrame, request |-> NoKey]

\* Mutant: the cursor of a loop forgets last_result.
SaveCursorBare ==
    /\ pc = "cursor"
    /\ ckpt' = Cursor(cur + 1, Nothing)
    /\ pc' = "journal"
    /\ UNCHANGED <<config, journal, requests, responses, local, host, history, bounds>>

\* A loop's cursor holds the next iteration and last_result, Parallel's only the input.
SaveCursor ==
    /\ pc = "cursor"
    /\ ckpt' = IF kind = "loop"
               THEN Cursor(cur + 1, [Nothing EXCEPT ![cur] = results[cur]])
               ELSE Cursor(0, Nothing)
    /\ pc' = "journal"
    /\ UNCHANGED <<config, journal, requests, responses, local, host, history, bounds>>

AppendStep ==
    /\ pc = "journal"
    /\ journal' = [journal EXCEPT ![cur] = results[cur]]
    /\ IF kind = "loop" THEN EnterNext(cur, results[cur])
       ELSE pc' = "wait" /\ UNCHANGED <<cur, frame>>
    /\ UNCHANGED <<config, ckpt, requests, responses, task, collected, pending, token,
                   host, history, bounds>>

\* What each kind puts into its suspension checkpoint of this drive's results.
SavedResults ==
    CASE kind = "loop" ->
           [c \in Children |-> IF c = susp - 1 THEN results[c] ELSE NoValue]
      [] kind = "conditional" -> Nothing
      [] OTHER -> results

Surface ==
    /\ pc = "surface"
    /\ ckpt' = [kind |-> "suspend", child |-> susp, results |-> SavedResults,
                frame |-> IF body = "workflow" THEN frame[susp] ELSE NoFrame,
                request |-> pending]
    /\ pc' = "handle"
    /\ UNCHANGED <<config, journal, requests, responses, local, host, history, bounds>>

\* SuspendedRun needs the request still pending; else RuntimeError.
BuildSuspendedRun ==
    /\ pc = "handle"
    /\ pc' = "idle"
    /\ outcome' = IF responses[pending] = NoDecision THEN "suspended" ELSE "lost"
    /\ cur' = 0 /\ task' = NoTask /\ frame' = Frames
    /\ results' = Nothing /\ prior' = Nothing /\ failed' = {} /\ susp' = 0 /\ batch' = {}
    /\ token' = "clear"
    /\ UNCHANGED <<config, stores, pending, report, history, bounds>>

----------------------------------------------------------------------------
(* What goes wrong.                                                        *)

Interrupt ==
    /\ interruptions < MaxInterruptions
    /\ interruptions' = interruptions + 1
    /\ UNCHANGED drives

\* A work step raises, before or after its side effect took place.
StepRaises(c) ==
    /\ At(c, "work")
    /\ Interrupt
    /\ \/ UNCHANGED effects
       \/ effects' = [effects EXCEPT ![Here(c)] = @ + 1]
    /\ task' = [task EXCEPT ![c] = "raised"]
    /\ UNCHANGED <<config, stores, pc, cur, frame, collected, pending, token, host, yield>>

Crash ==
    /\ pc # "idle"
    /\ Interrupt
    /\ Return("crashed")
    /\ UNCHANGED <<config, stores, report, history>>

Cancel ==
    /\ pc # "idle"
    /\ token = "clear"
    /\ Interrupt
    /\ token' = "set"
    /\ UNCHANGED <<config, stores, pc, cur, children, collected, pending, host, history>>

----------------------------------------------------------------------------
Drive == Start \/ ResumeInterrupted \/ \E d \in Decisions : Resume(d)

Child(c) == StartItem(c) \/ WorkStep(c) \/ GateAnswered(c) \/ GateAsks(c)

Parent ==
    \/ StopCancelled \/ RunChild \/ EndOfChildren \/ StopAfterChild \/ GoOn
    \/ ChildSuspended \/ ChildRaised
    \/ Collect \/ FanCompletes \/ FanSuspends
    \/ \E c \in Children :
          \/ TakeResult(c) \/ TakeRefused(c) \/ TakeSuspension(c) \/ TakeFailure(c)
          \/ AbortAll(c)
          \/ BranchReturned(c) \/ BranchSuspendedAgain(c) \/ BranchRaised(c)
    \/ SaveCursor \/ AppendStep \/ Surface \/ BuildSuspendedRun

Work == Parent \/ \E c \in Children : Child(c)

Trouble == Crash \/ Cancel \/ \E c \in Children : StepRaises(c)

Human == \E k \in Keys, d \in Decisions : Respond(k, d)

Next == Drive \/ Work \/ Trouble \/ Human

Spec == Init /\ [][Next]_vars

\* The event loop runs what is ready, and the host drives an idle run.
FairSpec == Spec /\ WF_vars(Work) /\ WF_vars(Drive)

----------------------------------------------------------------------------
(* Properties.                                                             *)

\* No effect behind a gate of a child before a human has decided at that gate, in
\* whatever frame of whatever drive the child runs.
GatesHold ==
    \A p \in Holds("work"), g \in Holds("gate") :
        p[1] = g[1] /\ g[2] < p[2] /\ effects[p] > 0 => responses[Key(g[1], g[2])] # NoDecision

\* The result of a fan-out accounts for every branch or item, as completed or as
\* failed and never both, over every suspension and resume; under ALL_OR_NOTHING
\* nothing has failed.  The exceptions are those of a Parallel resumed from its
\* suspension: a branch that asked a human too, or had failed, is not mentioned.
Unmentioned(c) ==
    /\ kind = "parallel" /\ Suspended(ckpt)
    /\ \/ policy = "best_effort"
       \/ \E g \in Holds("gate") : g[1] = c /\ requests[Key(c, g[2])] # NoValue

ResultIsComplete ==
    outcome = "result" /\ kind \notin OneByOne =>
        /\ In(report.results) \cap report.failed = {}
        /\ \A c \in Children \ (In(report.results) \cup report.failed) : Unmentioned(c)
        /\ policy = "all_or_nothing" => report.failed = {}

\* The work that the latest checkpoint, or the journal of a Parallel, has recorded.
Recorded(p) ==
    \/ ckpt # NoCkpt /\ \/ kind \in {"loop", "pipeline"} /\ p[1] < ckpt.child
                        \/ ckpt.results[p[1]] # NoValue
                        \/ Suspended(ckpt) /\ p[1] = ckpt.child /\ p[2] < ckpt.frame.at
    \/ kind = "parallel" /\ journal[p[1]] # NoValue

\* "No step before the suspension point in the nested workflow re-runs", and no
\* completed, recorded iteration, stage, branch or item does.
RecordedWorkRunsOnce ==
    [][\A p \in Holds("work") : Recorded(p) => effects'[p] = effects[p]]_vars

\* Each iteration and stage works on what the one before it last returned, through
\* cursors, suspensions and frames restored.
InputsChain ==
    kind \in {"loop", "pipeline"} =>
        \A c \in Children \ {1} : task[c] # "none" => frame[c].inp = yield[c - 1]

\* A run handed to the host as suspended can be resumed with the answer to the
\* request it was handed with.
SuspensionIsResumable ==
    outcome = "suspended" => ckpt # NoCkpt /\ Suspended(ckpt) /\ ckpt.request = pending

\* A human who decides and a host that drives bring every run to a result, unless
\* a Parallel suspended again on the path that saves no checkpoint.
RunFinishes ==
    <>(outcome = "result" \/ (kind = "parallel" /\ ~SuspensionIsResumable))
=============================================================================
