# A verification project for nanitics

TLA+ models of the run-time core of the nanitics Python SDK: TLC checks them on
small instances, and TLAPS proves their safety properties for every instance.
Definitions are translated from the code under `src/nanitics`; `PROJECT.json` gives
the lines of each, the mutants that show each property can fail, the hazards each
property is for, and the findings.

| file | what it is |
| --- | --- |
| `DurableLog.tla` | abstract: what a durable run promises its host |
| `SequentialDurable.tla` | a durable `Sequential` run with gates, host, human, crashes |
| `DagDurable.tla` | a durable `DAG` run: concurrent nodes, failures, gates, draining |
| `CompositeDurable.tla` | Loop, Pipeline, Conditional, Parallel and MapReduce over nested workflows and revision gates |
| `ReActDurable.tla` | a ReAct agent in a durable run: tool batches, limits, parked budgets |
| `HumanCall.tla` | cancellable tool calls that wait for a human within the process, and the cancellation token |
| `MessageBus.tla` | the message bus: queue, concurrent subscribers that share agents |
| `TracedRun.tla` | a traced run: `TracedExecutor` and `TraceCollector` over a failing store |
| `*Proofs.tla` | one for each module above but the first: theorems about it, for every value of its constants |
| `MC*.tla`, `MC*.cfg` | instances for the passing runs |
| `V*.cfg` | instances for the runs that show a documented claim violated |

## 1. The system

nanitics runs LLM agents and compositions of them in one asyncio event loop.
Nothing is preempted between two `await`s; everything may be interleaved,
cancelled or killed at one.  State that survives a process lives in stores
(in-memory or Postgres) that the caller passes in.

### Inventory

| component (under `src/nanitics`) | state it keeps | operations | correct when |
| --- | --- | --- | --- |
| durability (`composition/durability`) | checkpoints and a step journal per run | `start`, `resume`, `resume_interrupted`, `continue_run`; `save`, `load`, `append_step` | a run is resumable after any crash; journaled steps are not repeated; every suspension is a value |
| orchestration (`composition/orchestration`) | results so far, loop position, tasks in flight; cursor and suspension checkpoints | `execute` of Sequential, Parallel, DAG, Loop, MapReduce, Conditional, Pipeline | order and dependencies respected over resumes; the result accounts for every step |
| human input (`collaboration`) | requests, first response per request; futures in process | `request_input`, `save_request`, `save_response`, `resolve`, gates | nothing behind a gate runs undecided; the decision applies to what was shown |
| safety (`safety`) | cancellation flag, iteration and tool-call counters | `cancel`, `wait_async`, `run_cancellable`, `step`, `restore` | a cancellation is never missed; limits hold across resume |
| agents (`strategies/agents`) | messages, counters, working memory; one completed-batch snapshot | ReAct loop, tool batches, suspend, resume, park | a tool batch is replayed at most once per crash; resumed history is well formed |
| threads (`composition/threads`) | message list and lock per thread key | `load`, `append`, `hold` | no two runs of a key at once; only successful runs append |
| tracing (`infrastructure/observability`) | buffer, in-flight batch, failure counter; runs and events | `handle`, `flush`, `close`, `execute`, `update_run_status` | events are stored once, in order, before the final status |
| message bus and other patterns (`composition/multi_agent`) | queue, logs, votes, bids, board | `run`, publish, vote, award | bounds end the run; each message delivered as routed; votes counted once |
| memory, planning, context, evaluation (`capabilities`) | entries with a status, plan steps, summaries | write, supersede, retract, trim, score | one active successor per entry; budgets hold |
| clients (`infrastructure/llm`, `embeddings`, `mcp`), ready-made tools, sandbox | connections, processes | external calls | - (I/O) |
| observatory (`observatory`, and the UI in `src/observatory`) | none of its own | queries, event stream | a reader sees every event once |

How they interact: the **host** (the program using the SDK) calls `DurableRun`,
which executes a **workflow**; the workflow executes **steps** (functions,
agents, gates, nested workflows), writes checkpoints and the journal, and keeps
the run's status in the trace store.  A gate asks its **provider**, which reads
and writes the **request store**; no answer means a `SuspendExecution` (a
`BaseException`) that unwinds to the workflow, which saves a suspension
checkpoint, and to `DurableRun`, which turns it into a `SuspendedRun`.  A
**human** answers through the host (`ResumeService.resume`) or by another route
into the request store.  Events go to listeners by plain call; the **collector**
is one, and saves them from a task of its own.

The hard behaviours are: a crash between any two store calls; the human, the
host and the worker racing; concurrent tasks that finish, fail, suspend and are
cancelled in any order; a `CancelledError` or `SuspendExecution` passing clauses
written for `Exception`; and saves whose outcome is unknown.  `PROJECT.json`
lists them at their lines under "hazards".

## 2. The models and the code

An action is the code between two `await`s.  Program counters are named for what
comes next.  Values are abstract: a result is the identity of the execution that
produced it, so that two executions of a step can be told apart.

### SequentialDurable

`Sequential._run` under `Workflow.execute`, `DurableRun` and `ResumeService`.

| in the model | in the code |
| --- | --- |
| `ckpt`, `journal` | `CheckpointStore.load(run_id)`, `load_journal` |
| `requests`, `responses` | the HITL store; `requests[g]` is the value the saved request shows |
| `status` | the run record in the trace store |
| `pc`, `index`, `done`, `token` | the worker's position, loop index, `intermediate_results`, `CancellationToken` |
| `Start`, `Resume`, `ResumeInterrupted` | `DurableRun.start`, `ResumeService.resume`, `resume_interrupted` |
| `RegisterRun` ... `CompleteRun`, `FailRun` | `Workflow.execute` and its `except` clauses |
| `FunctionStep`, `GateAnswered`, `GateUnanswered`, `SaveRequest` | a step's execution; `DurableHumanInputProvider.request_input` |
| `SaveCursor`, `AppendStep` | the two writes of `_save_step_checkpoint` |
| `SurfaceSuspension`, `SuspendRun`, `BuildSuspendedRun` | the way of a `SuspendExecution` out to the host |
| `StepRaises`, `StoreRaises`, `HostSeesStoreError`, `Crash`, `Cancel` | what goes wrong, and whether `execute`'s `try` block sees it |

The host starts a run only while it has no checkpoint, and drives a run from one
worker at a time: the guide says the SDK does not lock and makes this the
caller's part.  After a crash without any checkpoint it starts again from the
original input, which is what runs without step checkpoints always do.

`answer` is the result the host was given last: its output and how many steps
executed for it.  A cancelled run returns one too, with the output of the last step it
completed (`sequential.py:126-141`), and so does `CompleteRun`.

`DurableLog` is the promise to the host: results recorded are a log that only grows
and is never rewritten and, with step checkpoints, an answer is the length of the log
and its last entry, a cancelled run's as well as the final one.  Answers never get
shorter, and two of the same length are equal.  Without step checkpoints an answer may
count steps that the log does not have.  `PromiseKept` is the refinement, with the log
mapped to the results of the latest checkpoint.

### DagDurable

The main coroutine of `DAG._run` and one task per node.  `task[n]` goes from
queued (created) to running (started) to finished; `LaunchReady`, `Collect`,
`TakeResult`, `TakeRefusal`, `RecordFailure`, `AbortAll`, `TakeSuspension` and
`Unblock` are the parts of its loop, `DrainAll` and `SecondSuspension` are
`_drain_in_flight`, `Restore` is the resume path.  A result carries the
executions of the dependencies it was computed from, so that a mixture of two
executions would show.  A finished batch may be processed in any order, as
`asyncio.wait` returns a set.

A drain takes every result for a completion, that of a gate which refused to start
under a set token too (`dag.py:283`), and `drained` records for which nodes.  It has
consequences that the model follows: the dependents of such a gate run after a
resume without a human's answer; a drained node that the journal does not have is
launched again and lowers the in-degrees of its dependents once more, so that one of
them may start before another of its dependencies has completed and raise `KeyError`
(`TaskMissesInput`); and a dependent of a failed node can be in flight, against the
comment at `dag.py:463` - when it had finished in the same batch, the main loop
does not find its name and stops at an assertion (`TakeForgotten`).

What a request shows and the steps between asking
and suspending are in SequentialDurable and not repeated here.

### CompositeDurable

`_run` of the other workflows (`kind`), over children that are workflow steps with
gates or `RevisionGate`s (`body`).  Both kinds of child are a sequence of "work" and
"gate"; what differs is what a decision does (`GateAnswered`) and what a resume
re-enters (`ResumedFrame`): a nested workflow its own frame, embedded in the
parent's checkpoint, a revision gate its beginning.

| in the model | in the code |
| --- | --- |
| `EnterChild`, `RunChild`, `GoOn`, `EnterNext`, `StopAfterChild` | the loops of `Loop._run`, `Pipeline._run`, and the branch of `Conditional._run` |
| `LaunchTasks`, `StartItem`, `Collect`, `Take...`, `AbortAll`, `FanCompletes` | tasks, semaphore and the `asyncio.wait` loop of `Parallel._run` and MapReduce |
| `pc = "again"`, `Branch...` | Parallel's resume of a suspension: the one branch, outside that loop |
| `SavedResults`, `Surface`, `SaveCursor`, `AppendStep` | what each kind puts into its checkpoints |
| `Key` | `request_id`: a body that is one object shares it over iterations and items |

The writes and awaits around a run are SequentialDurable's and single actions here.

### ReActDurable

The tool loop of `ReActAgent` as the one step of a durable `Sequential`.  The message
list is the batches it holds and the number of results per call; `Snapshot` is what
a completed batch, a suspension or a parked budget saves of it.  `Start`,
`ResumeInterrupted`, `Resume` and `Continue` are the ways in, `_execute`,
`_execute_crash_resume`, `_execute_resume` and `continue_run` with a factory that
grants more iterations and tool calls, or nothing (`LimiterRefuses`).  A turn is
`NextTurn`, then the LLM's choice (`TextAnswer`, `Nudge`, `AskForTools`), then
`_dispatch_tool_batch` call by call (`CallReturns`, `CallSuspends`,
`CallCancelled`), `CountTools`, `SaveBatch`, `JudgeBatch`.  With an `output_schema`
(`schema`) a text answer is not judged and the loop goes to `StructuredAnswer`, the
final call outside the tool loop: a step of its own that the iteration limiter does
not count and the token does not interrupt, and that a revision sends back to the top.
In explicit-finish mode no run ends "complete", so a schema changes nothing there.  A call's error that the
handler corrects is a return: it answers the call.  An uncorrected one is a crash,
as the run has to be driven again from its last snapshot either way.

### HumanCall

Three tasks per call: `main` is `run_cancellable`, `inner` the tool in
`AsyncHumanInputProvider.request_input`, `waiter` `CancellationToken.wait_async`.
The store and the timeout are optional, as in the code.  `cancel()` runs on another
thread, so it is taken apart into its accesses (`SetFlag`, `ReadLoop`, `ReadEvent`)
and so is the binding in `wait_async` (`WaitAsync`, `CreateEvent`, `MirrorFlag`,
`Bound`), during which the loop runs nothing else; or it runs on the loop's own
thread in one step (`CancelOnLoop`).

### MessageBus

`MessageBus.run` and `_run_subscriber`.  `Deliver` pops a message, matches it and
begins all its executions, whose first stretch up to the agent's run has no `await`;
`Collect` takes what `gather` returns and makes the checks behind it; `Skip` is the
`continue` past them.  `registered` and `injected` are the tool registry, context
providers and prompt sections of the agents, which subscriptions may share.  An
execution that outlives a `run()` which raised goes on beside the next one.

### TracedRun

`TracedExecutor.execute` and its `TraceCollector`.  A save is two steps,
`Commit` by the store and `SaveReturns` or `SaveFails` at the collector, so that
it may be cancelled before or after the commit, and may fail after it.  There
are up to three flushers: the periodic task, one that `close` cancelled and that
has not run since, and `close` itself; `Close` cancels and takes its last batch in
one action, as there is no `await` between.  The collector's lock is never held
across an `await` and so never contended: it does not appear.  `Handle` may come
after `Close`, from a task that outlives the run.

## 3. What is checked

| run | result | instance |
| --- | --- | --- |
| `sequential_durable` | 8 properties hold, 55 450 states | 5 steps, gates at 1 and 3, 2 interruptions, 5 drives |
| `dag_durable` | 7 properties hold, 495 876 states | step `b`, a gate `d` that reads it, a gate `g`, a step `n` that reads both gates; 2 interruptions, 6 drives |
| `composite_durable` | 5 properties hold, 343 705 states | 5 kinds, 2 children that ask up to twice, 1 interruption, 6 drives |
| `react_durable` | 5 properties hold, 356 474 states | 5 batches of up to 3 calls, 2 turns, an output schema or none, limits 2 and 1, 1 revision, 2 interruptions |
| `human_call` | 3 properties hold, 168 341 states | 2 calls and 2 resolves of one id, 1 failing save |
| `message_bus` | 6 properties hold, 106 113 states | 2 agents, 3 subscriptions, 2 topics, caps 4, 2 and 3, 2 runs, 1 fault |
| `traced_run` | 6 properties hold, 198 973 states | 4 events, the third un-storable, buffer of 3, 2 outages, 3 attempts |
| `dag_journaled_twice` | `EveryJournaledNodeRunsOnce` violated | a step `b` beside a gate and a step `d` that reads `b`; 1 interruption |
| `composite_second_gate` | `SuspensionIsResumable` violated | Parallel only, no interruption |
| `react_tool_cap` | `TotalToolCallsCapped` violated | as `react_durable` |
| `traced_run_close` | `TraceIsComplete` violated | as `traced_run` |
| `bus_message_cap` | `HardMessageCap` violated | as `message_bus`, with a cap of one message |

**Sequential.** `GatesHold`: no effect behind an undecided gate.
`GateAppliesStoredDecision`: with step checkpoints, what the run records for a
gate is the stored decision applied to the value shown - the property that
repeated starts, duplicate responses and re-runs threaten.  `ReplayWindow` and
`JournaledStepsRunOnce` are the guide's at-least-once guarantee, as a count and
as a step property.  `SuspensionIsResumable`: a run called suspended can be
resumed.  `PromiseKept`: the refinement.  `RunFinishes`: liveness.

**DAG.** The same questions where tasks run concurrently, and
`ResultAccountsForEveryNode` (completed, failed or below a failure) and
`ResultsAgree` (no result computed from an execution of a dependency other than the
one reported).  They hold in every graph, with what a drain does to them as the
exact exception: `GatesHold` but for a gate in `drained`, `JournaledNodesRunOnce`
but for a node that reads a drained one, the two accounts of the result but for what
is below a drained node (`Tainted`).  `SuspensionIsResumable` and `RunFinishes` are
stated up to the collision of two suspending gates.  Outside these limits they do
not hold: `dag_journaled_twice` shows it for the first, section "Where documentation
and code differ" for the collision.

**Composites.** `GatesHold` in every frame.  `RecordedWorkRunsOnce`: no work that the
latest checkpoint or the journal has recorded runs again - iterations, stages,
branches, items and the steps before the suspension point of a nested workflow.
`InputsChain`: an iteration or stage works on what the one before last returned,
through every checkpoint.  `ResultIsComplete`: a fan-out's result mentions every
branch or item, with `Unmentioned` as the exact exception: a Parallel resumed from
its suspension forgets branches that had asked too, or had failed.  `RunFinishes`.

**Agent.** `HistoryIsAnswered`: whenever the LLM is called, the message list answers
every tool call it holds, once, except before a call of the batch that suspended
(`_execute_resume` adds results the saved messages already hold).
`RecordedCallsRunOnce` is the guide's at-most-once guarantee for tool batches, and
the same for the calls of a suspended one.  `CountersMatchHistory`: the restored
limiters agree with the message list and the step number.  The step number is the
iterations counted plus the structured final calls that were sent back, the tool count
is the calls of the batches that never suspended, and both stay below their ceilings
through every snapshot, park and grant.  That the batches which suspended are never
counted is what the code does and not what it says: `TotalToolCallsCapped` is the
documented cap, and fails.  `RunFinishes`, over limits, parks and grants.

**Human calls.** `CancelEndsEveryCall`: no wake-up is lost between a cancelling thread
and the binding of the token, and both tasks of every call end.
`WaitersCanBeAnswered`: a waiting call is reachable by `resolve`, unless a `resolve`
popped its entry and its save failed, or the expiry of an earlier call with the
same id popped it.  `DecisionsAreOnRecord`: a decision a call returns is stored
first, and reported to exactly the `resolve` that brought it.

**Bus.** `DeliveredOnceToEachSubscriber`, `NothingLostOrInvented` and
`ProcessedInCausalOrder` relate the whole log to the executions and to the seeds of the
run that returned: nothing processed that was neither, and none of either missing -
also when executions of a run that raised are still going on.  `AgentsAsConfigured`: a shared agent carries the injections of its one running
execution, and none when it rests.  `HardMessageCap` is the documented cap on the
messages of a run, and fails; `StopsArePrompt` is what is left of it and of the token,
at most one delivery past either.  `RunsEnd`.

**Tracing.** `ShortOutageLosesNothing`: while fewer saves failed than the attempts
allowed, no event is lost except by overflow of the buffer, by a cancelled save, or in
the buffer of a closed collector that nothing flushes again (`stranded`).  The last two
are against what the docstring says, which `TraceIsComplete` states and the second
tracing run refutes.  `NoEventStoredTwice`, `StoredInEmissionOrder`: retries neither
repeat nor reorder, except after a committed save reported as failed, against
which the insert has no key.  `FinalStatusMeansSettled`: who sees a final status
sees the events.  `PoisonDoesNotBlock`: an event that can never be stored does not
keep others in memory for ever.

### Where documentation and code differ

Five statements of the documentation or of docstrings are refuted by a run each, and
are findings in `PROJECT.json`:

1. `EveryJournaledNodeRunsOnce`: results a DAG drains at a suspension are only in that
   checkpoint, not in the journal; after a crash behind a later cursor the node
   runs again and its completed, journaled dependent is launched again.
2. `SuspensionIsResumable`: a Parallel branch that reaches a second gate suspends on
   the resume path, which saves no checkpoint: the host gets a `SuspendedRun` whose
   answer `resume` refuses (`parallel.py:134`).
3. `TotalToolCallsCapped`: "Maximum total tool calls across all reasoning steps"
   (`react.py:101`).  A batch that suspends leaves before the limiter is stepped, and
   the resume completes it without (`react.py:1228-1268`): its calls are never counted.
4. `TraceIsComplete`: "a transient store outage loses nothing" (`collector.py:135-136`).
   One failed save in the closing flush puts its batch into a buffer that nothing
   flushes again, and the final status follows.  It fails in a second way with no
   failed save at all (set `MaxOutages = 0` in the cfg): `close` cancels a periodic
   flush that waits for its save, and the batch is neither stored nor put back.
5. `HardMessageCap`: "Hard safety cap on total messages processed"
   (`message_bus.py:434`).  A message that nobody subscribes to, or that no filter lets
   through, is processed and counted but skips the check (`message_bus.py:526`), so the
   total is unbounded, and one more delivery comes behind it.

Two more are exact exceptions that passing properties name:

6. In SequentialDurable the outcome `"lost"`.  "Every suspension is a value"
   (`resume.py:148-149`, `docs/guides/human-in-the-loop.md:184`), but a human's answer
   that another route stores between `SaveRequest` and `BuildSuspendedRun` empties the
   list of pending requests, and `start` or `resume` raises `RuntimeError`
   (`resume.py:347`).  `SuspensionIsResumable` says that the run can be resumed all the
   same.
7. In DagDurable `collided`.  "Only the first concurrent HITL suspension is captured"
   (`docs/guides/orchestration.md:178`), but when two gates suspend together none may be:
   the second `SuspendExecution`, a `BaseException`, escapes `suppress(Exception)` in the
   drain (`dag.py:399`) before `_surface_suspension` has saved the first, and the run is
   marked suspended without a suspension checkpoint.  `SuspensionIsResumable` and
   `RunFinishes` say what holds while this has not happened.

Stated as exceptions of properties that hold, or as hazards with a note, because they
contradict no sentence precisely or are the caller's part: a drained DAG node that
refused to start counts as completed (`dag.py:283`); a resumed Parallel omits other
branches that asked (`parallel.py:229`); a `RevisionGate` runs its workers again on
resume, so that the approval applies to an output the human has not seen
(`revision_gate.py:86`); tool results appear twice after a suspension behind them, and
a `finish` in a batch that suspended does not end the run (`react.py:1210`,
`react.py:1246-1268`); expiry removes another call's entry (`async_provider.py:95`), and
a cancelled wait leaves its own, so that the id is refused until a `resolve` pops it; a
`resolve` is told TRUE although its call expires or is cancelled in the same round of
the loop.

The guide's sentence that a rejection "halts the workflow" is no property here:
the gate returns `None` and the next step runs, as the repository's own tests of
`ApprovalGate` expect.

### Bounds

`MaxInterruptions` bounds crashes, failures and cancellations together.  Two are
enough for one to hit the recovery from another; `MaxDrives` leaves room for a
start, one resume per gate and one further drive per interruption, so that it
never is what stops a run (else `RunFinishes` would fail); in the DAG one more, for
the drive that a `KeyError` behind a drained node ends.  Five steps put
function steps before, between and behind two gates.  Histories (`effects`,
`runs`, `replays`, `outages`) are bounded by these.  In TracedRun two outages and
the poison event together reach all three attempts, and four events overflow the
buffer of three.

CompositeDurable has two children of each kind because every rule of the code
relates a child to the next one or to a sibling, one interruption to hit any point
of a run, and drives for two suspensions per child.  In ReActDurable a limit is
reached in the first turns, so that runs park, are refused and are continued; the
ceiling leaves room for all grants, and one batch more than `MaxTurns` may be
`finish`.  HumanCall needs two calls and two resolves for each race it names, and
all of them are over one id; the token is shared.  The bus's cap of four messages
and depth of two are reached with two seeds, and two runs let executions of the
first meet the second.  Deadlock is not checked (`CHECK_DEADLOCK FALSE`): a run ends,
and the host's drives are bounded.

### Fairness

Weak fairness only, and only for what is scheduled: the event loop runs a worker
or task that is ready, and wakes the periodic flush; a store answers a save.  For
durable runs the host drives an idle run, and calls `resume` on a suspended one,
which includes that a human decides - `RunFinishes` says nothing of a host that
gives up; for a parked agent the host continues with a larger grant in the end, as
the bound on empty grants says.  In HumanCall one condition is enough, as no call
repeats a step; nobody has to call, answer or cancel, and `CancelEndsEveryCall`
needs no human.  On the bus every agent run ends, as the bus has no timeout of its
own.  Nothing is assumed of crashes, failures, cancellations, stray events, or of
the traced function's ever ending.

### Mutants

Each property of a passing run has a mutant: an operator defined before the one it
changes, a bug someone could write (a cursor off by one, results not restored, a
response that overwrites, a batch put back at the wrong end).  With the mutant in
place of the definition TLC finds the property violated in the same instance.

## 4. What is proved

Each component has a module of theorems, proved for every value of its constants.
None of the properties below is inductive by itself.  What a module proves by
induction is a conjunction of layers, each a state predicate that says one thing,
inductive given the ones before it, and with a lemma of its own in which each action
is a step.  The layers hold as invariants of the runs' instances: TLC checks them in a
module that extends the `MC` module and the proofs.

**SequentialDurableProofs**, for every number of steps, set of gates and bounds
(`NAssumption`, `BoundAssumption`).

| theorem | statement |
| --- | --- |
| `TypeCorrect`, `Inductive` | `Spec => []TypeOK`, `Spec => []IInv` |
| `GatesAlwaysHold` | `Spec => []GatesHold` |
| `DecisionIsApplied` | `Spec => []GateAppliesStoredDecision` |
| `ReplaysAreBounded` | `Spec => []ReplayWindow` |
| `SuspensionsAreResumable` | `Spec => []SuspensionIsResumable` |
| `JournaledStepsAreNotRepeated` | `Spec => JournaledStepsRunOnce` |
| `PromiseIsKept` | `Spec => PromiseKept`, the refinement of `DurableLog` |

`GatesHold` speaks of effects and answers; to keep it a step needs that the worker's
index is behind answered gates, which needs that checkpoints are, which needs that
the worker that wrote them was.  `IInv` is that argument: where the worker is and how
many results it holds; what each stage of a suspension has already saved; that
checkpoint and worker agree on a common prefix of results; that gates behind either
are answered; that what is recorded for a gate is its decision on the value shown;
that effects, journal and cursor are never more than one step apart; the count of
replays; and that an answer of k steps carries the k-th entry of the log.

**DagDurableProofs**, for every finite acyclic graph, set of gates and bounds
(`GraphAssumption`, `BoundAssumption`, and `AcyclicAssumption`, which
`_validate_no_cycles` enforces when a DAG is built).

| theorem | statement |
| --- | --- |
| `TypeCorrect` | `Spec => []TypeOK` |
| `GatesCorrect` | `Spec => []GatesHold` |
| `JournaledNodesCorrect` | `Spec => JournaledNodesRunOnce` |
| `SuspensionsCorrect` | `Spec => []SuspensionIsResumable` |
| `ResultAccountsCorrect` | `Spec => []ResultAccountsForEveryNode` |
| `ResultsAgreeCorrect` | `Spec => []ResultsAgree` |

`Below` is defined as a least closed set, so closure and induction along the graph
are lemmas (`BelowClosed`, `BelowLeast`).  The layers: where the main coroutine is
(`Stage`); what journal, checkpoint and the drive's results have of each other
(`Records`); that a gate's result has its answer or a drain behind it (`Answers`) and
so has everything below it (`Clearance`); that results come with those they were made
from (`Closure`); that a node is launched at most once in a drive (`Launches`);
`Suspensions`; that in-degrees are at most what is missing, and a node whose
in-degree is 0 is accounted for (`Accounts`); `Agreement` of stores and drive.  The
exceptions for drained nodes came out of this proof: without them `Answers`,
`Launches` and `Agreement` are not inductive, and TLC then found the executions.

**CompositeDurableProofs**, for any number of children, bodies, items at a time and
bounds (`SizeAssumption`, `KindAssumption`, `BoundAssumption`).

| theorem | statement |
| --- | --- |
| `TypeCorrect` | `Spec => []TypeOK` |
| `GatesCorrect` | `Spec => []GatesHold` |
| `InputsCorrect` | `Spec => []InputsChain` |
| `RecordedWorkCorrect` | `Spec => RecordedWorkRunsOnce` |
| `ResultCorrect` | `Spec => []ResultIsComplete` |
| `SuspensionsCorrect` | `Spec => [](kind # "parallel" => SuspensionIsResumable)` |

`InputsCorrect` needs that a loop asks only in its first iteration (`Asking`): the
later ones find the same request ids answered, so no suspension is ever restored into
an iteration whose predecessor's value the checkpoint does not have.
`SuspensionsCorrect` is the complement of the second finding: no kind but Parallel has such a
run.  `Saved`, `Restored`, `ChainSaved`, `ChainHeld` and `Fan` say what checkpoints
and parents hold of their children.

**ReActDurableProofs**, for any set of batches, limits, grants and bounds
(`BatchAssumption`, `LimitAssumption`, `BoundAssumption`).

| theorem | statement |
| --- | --- |
| `TypeCorrect` | `Spec => []TypeOK`; a call never has more than two answers |
| `HistoryCorrect` | `Spec => []HistoryIsAnswered` |
| `RecordedCallsCorrect` | `Spec => RecordedCallsRunOnce` |
| `CountersCorrect` | `Spec => []CountersMatchHistory` |

A message list is `Whole` between batches and `Broken` at the call the agent is at
within one, in memory and in every snapshot (`History`); the agent dispatches a batch
the checkpoint holds only behind the point of its suspension (`Own`).  `Turns` says, of
the agent and of every snapshot, that the step number is the iterations counted plus
what structured final calls added (`Extra`), and bounds the iterations by the ceiling;
`Tools` counts the calls of the batches that never suspended.

**TracedRunProofs**, for any number of events and outages, buffer size, attempts and
set of un-storable events (`EventAssumption`).

| theorem | statement |
| --- | --- |
| `TypeCorrect` | `Spec => []TypeOK` |
| `ShortOutageCorrect` | `Spec => []ShortOutageLosesNothing` |
| `FinalStatusCorrect` | `Spec => []FinalStatusMeansSettled` |
| `StoredOnceCorrect` | `Spec => []NoEventStoredTwice` |
| `OrderCorrect` | `Spec => []StoredInEmissionOrder` |

The layers say which events the buffer and the batches in flight hold (`Kept`), that
a buffer nobody flushes holds only what the failed flush of `close` put back
(`Stranded`), that what was emitted before `close` is settled (`Settled`), that no two places hold the same event (`Distinct`), and
that table, batch and buffer follow each other in order of emission (`Ordered`).

**HumanCallProofs**, for any calls, resolvers, ids and faults (`IdAssumption`,
`NamesAssumption`, `FaultAssumption`).

| theorem | statement |
| --- | --- |
| `TypeCorrect` | `Spec => []TypeOK` |
| `DecisionsCorrect` | `Spec => []DecisionsAreOnRecord` |
| `WaitersCorrect` | `Spec => []WaitersCanBeAnswered` |
| `NoWakeUpLost` | `Spec => []NoWakeUpIsLost` |

`NoWakeUpLost` is the safety half of `CancelEndsEveryCall`: a waiter that sleeps after
a completed `cancel()` has its wake-up scheduled or its event set, wherever the
cancelling thread was while the token was bound.

**MessageBusProofs**, for any agents, subscriptions, seeds and limits
(`SubsAssumption`, `SeedsAssumption`, `LimitAssumption`).

| theorem | statement |
| --- | --- |
| `TypeCorrect` | `Spec => []TypeOK` |
| `AgentsCorrect` | `Spec => []AgentsAsConfigured` |
| `StopsCorrect` | `Spec => []StopsArePrompt` |
| `DeliveriesCorrect` | `Spec => []DeliveredOnceToEachSubscriber` |
| `OrderCorrect` | `Spec => []ProcessedInCausalOrder` |
| `ProcessedCorrect` | `Spec => []NothingLostOrInvented` |

`Located` is the layer the others rest on: the executions of the present delivery are
those of its message's matches, only they are kept when they end, and all others
belong to runs that raised.  `Accounted` says that each pair of a settled message and
a subscription that wants it has one outcome, `Ordered` that log and queue, one behind
the other, are in the order of causes and that what waits was caused by a settled
message, `Passed` that they hold what executions published and the seeds of the run, each once, `Shared` what
agents carry, `LastDelivery` where the cap and the token are noticed.  `Collect`
describes the sequences it appends by their elements and their order
(`InSubscriptionOrder`, `AsGathered`) rather than by sorting and flattening, which the
prover could not reason about; there is exactly one such sequence.

**Only model-checked**: liveness (`RunFinishes` of the four durable modules,
`PoisonDoesNotBlock`, `RunsEnd`, `CancelEndsEveryCall`), which is out of the
prover's reach; of the cancellation of calls the safety half is proved.  The claims
of the runs that expect a violation are false; `SuspensionsCorrect` of
CompositeDurableProofs proves one of them where it is true.

## 5. What is not modelled

`PROJECT.json` names every component and its status.  Left out for good: network
clients, SQL, the sandbox, the UI, and search strategies that are one step to
everything around them.  Left out of modelled components so far: agents as
children of anything but a durable `Sequential`, and with them bodies that ask under
request ids of their own; `max_concurrency` of a DAG and of the tasks an error in a
workflow's loop leaves running; equal checkpoint timestamps; the thread append and
memory hooks of an agent; an outer `run_cancellable` around another; two `run()`
calls at once on one bus; the redaction hook and the live queue of a collector.

## 6. Plan

In order; each item is a module with its instance, properties, mutants, hazards and
proofs.

1. *(done)* SequentialDurable, DurableLog.
2. *(done)* DagDurable.
3. *(done)* TracedRun.
4. *(done)* CompositeDurable: Parallel, Loop, MapReduce, Conditional and Pipeline
   over nested workflows and revision gates.
5. *(done)* ReActDurable: the agent in a durable run.
6. *(done)* HumanCall: the in-process provider and the cancellation token.
7. *(done)* MessageBus.
8. DagDurable with `max_concurrency`, and tasks that outlive an error of the main
   coroutine.
9. Shared memory, voting and award rules as pure operators with reference
   definitions; conversation threads.

Theorems: every invariant and action property the passing runs check is proved.  To
come with items 8 and 9: that `max_concurrency` keeps what `DagDurableProofs` proves,
and facts about the operators for votes and awards.
