------------------------------ MODULE ReActDurable ------------------------------
(***************************************************************************)
(* A ReActAgent inside a DurableRun: turns of an LLM that ask for batches  *)
(* of tool calls, the iteration and the tool call limiter, tools that ask  *)
(* a human and suspend in the middle of a batch, runs parked on a limiter, *)
(* snapshots after completed batches, the structured final call of an      *)
(* output_schema, and the three ways back into the loop (_execute,         *)
(* _execute_resume and _execute_crash_resume).                             *)
(*                                                                         *)
(* The message list is `thread`, the batches it holds, with `answers`, the *)
(* number of tool results per call.  A batch is a sequence of "act" (a     *)
(* tool with a side effect), "ask" (a tool on the durable human provider), *)
(* "finish" and "direct" (a return_direct tool).  DurableRun wraps the     *)
(* agent in a Sequential with this one step; its frame is that of          *)
(* SequentialDurable, its writes are single actions here.                  *)
(***************************************************************************)
EXTENDS Integers, Sequences, FiniteSets

CONSTANTS Batches,           \* the batches the LLM may ask for
          L,                 \* the longest of them
          MaxIterations,     \* the agent's first limits
          MaxToolCalls,
          Grant,             \* what a continued run is granted more
          MaxCeiling,        \* bound: iterations granted in all
          MaxRevisions,      \* of the output evaluator
          MaxTurns,          \* bound: batches before the LLM only ends the run
          MaxInterruptions   \* bound: crashes, cancellations, nudges, empty grants

ASSUME BatchAssumption ==
    \A b \in Batches : b \in Seq({"act", "ask", "finish", "direct"}) /\ Len(b) \in 1..L
ASSUME LimitAssumption ==
    /\ MaxIterations \in Nat \ {0} /\ MaxToolCalls \in Nat /\ Grant \in Nat \ {0}
    /\ MaxCeiling \in Nat /\ MaxRevisions \in Nat
ASSUME BoundAssumption ==
    L \in Nat \ {0} /\ MaxTurns \in Nat \ {0} /\ MaxInterruptions \in Nat

VARIABLES
    stepCheckpoints, parks, explicit, evaluates, schema,   \* the configuration
    ckpt,             \* what CheckpointStore.load returns for the run
    requested,        \* calls whose human request is saved
    answered,         \* those with a stored response
    ceiling,          \* max_iterations and max_tool_calls the factory builds with
    toolCeiling,
    pc,               \* where the agent is between two awaits
    thread,           \* the batches in the message list
    answers,          \* call -> its tool results in the message list
    turn,             \* step_number
    iter, tools,      \* the limiters' counts
    rev,              \* revision_count
    at, done, hit,    \* the dispatch: position, its own results, return_direct hit
    resumed,          \* the dispatch was entered from a suspension
    susp,             \* why the SuspendExecution was raised
    token,            \* the CancellationToken
    reason,           \* termination_reason
    outcome,          \* what the last call returned to the host
    batches,          \* history: every batch the LLM asked for
    effects,          \* history: executions of each call
    interruptions

config == <<stepCheckpoints, parks, explicit, evaluates, schema>>
stores == <<ckpt, requested, answered>>
limits == <<ceiling, toolCeiling>>
messages == <<thread, answers>>
counters == <<turn, iter, tools, rev>>
dispatch == <<at, done, hit, resumed>>
history == <<batches, effects>>
vars == <<config, stores, limits, pc, messages, counters, dispatch, susp, token, reason,
          outcome, history, interruptions>>

----------------------------------------------------------------------------
Ids == 1..(MaxTurns + MaxInterruptions + MaxRevisions + 1)
Calls == Ids \X (1..L)
Batch(n) == batches[n]
Current == thread[Len(thread)]
Here == <<Current, at>>
Tool == Batch(Current)[at]
InThread(n) == \E k \in DOMAIN thread : thread[k] = n
Holds(n, tool) == \E i \in DOMAIN Batch(n) : Batch(n)[i] = tool

Unanswered == [c \in Calls |-> 0]
NoCkpt == [kind |-> "absent"]

\* _completed_step_state and _build_checkpoint_state: after a completed batch, or
\* in the middle of the one whose call `at` suspended.
Snapshot(limiterCount) ==
    [thread |-> thread, answers |-> answers, turn |-> turn, iter |-> limiterCount,
     tools |-> tools, rev |-> rev, at |-> at, done |-> done, hit |-> hit]

HasAgent(c) == c.kind \in {"step", "suspend", "park"}
Pending == <<ckpt.agent.thread[Len(ckpt.agent.thread)], ckpt.agent.at>>

\* In explicit-finish mode no run ends "complete", so an output_schema has no effect.
Init ==
    /\ stepCheckpoints \in {"on", "off"}
    /\ parks \in {"on", "off"} /\ (parks = "on" => stepCheckpoints = "on")
    /\ explicit \in {"on", "off"} /\ evaluates \in {"on", "off"}
    /\ schema \in {"on", "off"} /\ (schema = "on" => explicit = "off")
    /\ ckpt = NoCkpt /\ requested = {} /\ answered = {}
    /\ ceiling = MaxIterations /\ toolCeiling = MaxToolCalls
    /\ pc = "idle" /\ thread = <<>> /\ answers = Unanswered
    /\ turn = 0 /\ iter = 0 /\ tools = 0 /\ rev = 0
    /\ at = 1 /\ done = {} /\ hit = 0 /\ resumed = "no" /\ susp = "none"
    /\ token = "clear" /\ reason = "none" /\ outcome = "none"
    /\ batches = <<>> /\ effects = Unanswered
    /\ interruptions = 0

----------------------------------------------------------------------------
(* The host: start, resume with an answer, resume_interrupted, continue.   *)

Begin ==
    /\ pc = "idle"
    /\ outcome # "result"
    /\ outcome' = "running"
    /\ susp' = "none" /\ token' = "clear"
    /\ UNCHANGED <<config, history>>

Idle ==
    /\ pc' = "idle"
    /\ thread' = <<>> /\ answers' = Unanswered
    /\ turn' = 0 /\ iter' = 0 /\ tools' = 0 /\ rev' = 0
    /\ at' = 1 /\ done' = {} /\ hit' = 0 /\ resumed' = "no"

Start ==
    /\ ckpt = NoCkpt
    /\ Begin
    /\ pc' = "loop"
    /\ reason' = "none"
    /\ UNCHANGED <<stores, limits, messages, counters, dispatch, interruptions>>

Restore(a) ==
    /\ thread' = a.thread /\ answers' = a.answers
    /\ turn' = a.turn /\ iter' = a.iter /\ tools' = a.tools /\ rev' = a.rev

\* _execute_crash_resume: a checkpointed batch with a finish call ends the run.
ReEnterLoop(a) ==
    /\ Restore(a)
    /\ at' = 1 /\ done' = {} /\ hit' = 0 /\ resumed' = "no"
    /\ IF explicit = "on" /\ a.thread # <<>> /\ Holds(a.thread[Len(a.thread)], "finish")
       THEN pc' = "return" /\ reason' = "finished"
       ELSE pc' = "loop" /\ reason' = "none"

ResumeInterrupted ==
    /\ ckpt.kind = "step"
    /\ Begin
    /\ ReEnterLoop(ckpt.agent)
    /\ UNCHANGED <<stores, limits, interruptions>>

\* The cursor behind the agent step: Sequential finalizes from it.
ResumeEnded ==
    /\ ckpt.kind = "end"
    /\ Begin
    /\ pc' = "return" /\ reason' = "none"
    /\ UNCHANGED <<stores, limits, messages, counters, dispatch, interruptions>>

\* continue_run with a factory that grants more, or nothing: the limiter's restore
\* refuses a count above its ceiling, and the run stays parked.
Continue(g) ==
    /\ ckpt.kind = "park"
    /\ Begin
    /\ ceiling + g <= MaxCeiling
    /\ ceiling' = ceiling + g /\ toolCeiling' = toolCeiling + g
    /\ interruptions' = interruptions + (IF g = 0 THEN 1 ELSE 0)
    /\ interruptions' <= MaxInterruptions
    /\ IF ckpt.agent.iter > ceiling' \/ ckpt.agent.tools > toolCeiling'
       THEN pc' = "refused" /\ UNCHANGED <<messages, counters, dispatch, reason>>
       ELSE ReEnterLoop(ckpt.agent)
    /\ UNCHANGED stores

LimiterRefuses ==
    /\ pc = "refused"
    /\ Idle
    /\ outcome' = "error"
    /\ UNCHANGED <<config, stores, limits, susp, token, reason, history, interruptions>>

\* Mutant: the whole batch is dispatched again.
ResumeFromTop ==
    /\ ckpt.kind = "suspend"
    /\ Begin
    /\ answered' = answered \cup {Pending}
    /\ Restore(ckpt.agent)
    /\ at' = 1 /\ done' = {} /\ hit' = ckpt.agent.hit /\ resumed' = "yes"
    /\ pc' = "dispatch" /\ reason' = "none"
    /\ UNCHANGED <<ckpt, requested, limits, interruptions>>

\* The response is saved and _execute_resume restores the snapshot, adds the
\* results this dispatch had before the suspended call, and dispatches from there.
Resume ==
    /\ ckpt.kind = "suspend"
    /\ Begin
    /\ answered' = answered \cup {Pending}
    /\ Restore([ckpt.agent EXCEPT
           !.answers = [c \in Calls |->
               @[c] + (IF c[1] = Pending[1] /\ c[2] \in ckpt.agent.done THEN 1 ELSE 0)]])
    /\ at' = ckpt.agent.at /\ done' = {} /\ hit' = ckpt.agent.hit /\ resumed' = "yes"
    /\ pc' = "dispatch" /\ reason' = "none"
    /\ UNCHANGED <<ckpt, requested, limits, interruptions>>

\* An external system saves the human's answer to a pending request.
Respond(c) ==
    /\ c \in requested \ answered
    /\ answered' = answered \cup {c}
    /\ UNCHANGED <<config, ckpt, requested, limits, pc, messages, counters, dispatch, susp,
                   token, reason, outcome, history, interruptions>>

----------------------------------------------------------------------------
(* The tool loop of _run_loop.                                             *)

EndAgent(why) == pc' = "return" /\ reason' = why

\* _maybe_suspend_on_budget, or the run ends with the limit as its reason.
LimitReached(why) ==
    IF parks = "on"
    THEN pc' = "surface" /\ susp' = why /\ UNCHANGED reason
    ELSE EndAgent(why) /\ UNCHANGED susp

EndDirect ==
    /\ pc = "loop" /\ hit # 0
    /\ EndAgent("return_direct")
    /\ UNCHANGED <<config, stores, limits, messages, counters, dispatch, susp, token,
                   outcome, history, interruptions>>

StopCancelled ==
    /\ pc \in {"loop", "llm"} /\ token = "set"
    /\ pc = "loop" => hit = 0
    /\ EndAgent("cancelled")
    /\ UNCHANGED <<config, stores, limits, messages, counters, dispatch, susp, token,
                   outcome, history, interruptions>>

NextTurn ==
    /\ pc = "loop" /\ hit = 0 /\ token = "clear"
    /\ iter' = iter + 1
    /\ IF iter < ceiling
       THEN turn' = turn + 1 /\ pc' = "llm" /\ UNCHANGED <<reason, susp>>
       ELSE LimitReached("iteration_limit") /\ UNCHANGED turn
    /\ UNCHANGED <<config, stores, limits, messages, tools, rev, dispatch, token, outcome,
                   history, interruptions>>

\* Mutant: one revision more than max_revisions.
JudgeOnceMore(ending) ==
    \/ /\ evaluates = "on" /\ rev <= MaxRevisions
       /\ rev' = rev + 1 /\ pc' = "loop" /\ UNCHANGED reason
    \/ /\ EndAgent(ending) /\ UNCHANGED rev
    \/ /\ evaluates = "on"
       /\ EndAgent("evaluation_failed") /\ UNCHANGED rev

\* _evaluate_candidate: a revision while the evaluator has some left, else the end
\* (evaluation_failed stands for evaluation_skipped too).
Judge(ending) ==
    \/ /\ evaluates = "on" /\ rev < MaxRevisions
       /\ rev' = rev + 1 /\ pc' = "loop" /\ UNCHANGED reason
    \/ /\ EndAgent(ending) /\ UNCHANGED rev
    \/ /\ evaluates = "on"
       /\ EndAgent("evaluation_failed") /\ UNCHANGED rev

\* With an output_schema the text is not judged: the loop ends "complete", and the
\* structured final call follows.
TextAnswer ==
    /\ pc = "llm" /\ token = "clear" /\ explicit = "off"
    /\ IF schema = "on" THEN pc' = "final" /\ UNCHANGED <<rev, reason>> ELSE Judge("complete")
    /\ UNCHANGED <<config, stores, limits, messages, turn, iter, tools, dispatch, susp,
                   token, outcome, history, interruptions>>

\* The structured final call: a step that the limiter does not count and the token
\* does not interrupt.  Its revision goes back to the top of the tool loop.
StructuredAnswer ==
    /\ pc = "final"
    /\ turn' = turn + 1
    /\ Judge("complete")
    /\ UNCHANGED <<config, stores, limits, messages, iter, tools, dispatch, susp, token,
                   outcome, history, interruptions>>

\* A bare-text turn delivers nothing in explicit-finish mode.
Nudge ==
    /\ pc = "llm" /\ token = "clear" /\ explicit = "on"
    /\ interruptions < MaxInterruptions
    /\ interruptions' = interruptions + 1
    /\ pc' = "loop"
    /\ UNCHANGED <<config, stores, limits, messages, counters, dispatch, susp, token,
                   reason, outcome, history>>

AskForTools(b) ==
    /\ pc = "llm" /\ token = "clear"
    /\ \/ Len(batches) < MaxTurns
       \/ b = <<"finish">>
    /\ (\E i \in DOMAIN b : b[i] = "finish") => explicit = "on"
    /\ Len(batches) + 1 \in Ids
    /\ batches' = Append(batches, b)
    /\ thread' = Append(thread, Len(batches) + 1)
    /\ at' = 1 /\ done' = {} /\ hit' = 0 /\ resumed' = "no"
    /\ pc' = "dispatch"
    /\ UNCHANGED <<config, stores, limits, answers, counters, susp, token, reason, outcome,
                   effects, interruptions>>

----------------------------------------------------------------------------
(* _dispatch_tool_batch.                                                   *)

Dispatching == pc = "dispatch"

\* After the last call: a resumed batch re-enters the loop at once.
Advance ==
    IF at < Len(Batch(Current)) THEN at' = at + 1 /\ UNCHANGED pc
    ELSE /\ pc' = IF resumed = "yes" THEN "loop" ELSE "limit"
         /\ UNCHANGED at

\* Mutant: a call that was corrected leaves no result.
CallReturnsSilently ==
    /\ Dispatching /\ token = "clear"
    /\ Tool = "ask" => Here \in answered
    /\ effects' = [effects EXCEPT ![Here] = @ + 1]
    /\ done' = done \cup {at}
    /\ \/ Tool = "direct" /\ hit = 0 /\ hit' = at /\ answers' = [answers EXCEPT ![Here] = @ + 1]
       \/ UNCHANGED <<hit, answers>>
    /\ Advance
    /\ UNCHANGED <<config, stores, limits, thread, counters, resumed, susp, token, reason,
                   outcome, batches, interruptions>>

\* The tool returns, or raises and the error handler answers for it, in which case
\* a return_direct tool does not count.
CallReturns ==
    /\ Dispatching /\ token = "clear"
    /\ Tool = "ask" => Here \in answered
    /\ effects' = [effects EXCEPT ![Here] = @ + 1]
    /\ answers' = [answers EXCEPT ![Here] = @ + 1]
    /\ done' = done \cup {at}
    /\ \/ Tool = "direct" /\ hit = 0 /\ hit' = at
       \/ UNCHANGED hit
    /\ Advance
    /\ UNCHANGED <<config, stores, limits, thread, counters, resumed, susp, token, reason,
                   outcome, batches, interruptions>>

CallSuspends ==
    /\ Dispatching /\ token = "clear"
    /\ Tool = "ask" /\ Here \notin answered
    /\ requested' = requested \cup {Here}
    /\ susp' = "hitl" /\ pc' = "surface"
    /\ UNCHANGED <<config, ckpt, answered, limits, messages, counters, dispatch, token,
                   reason, outcome, history, interruptions>>

\* run_cancellable: the token wins; what the tool did in the meantime is done.
CallCancelled ==
    /\ Dispatching /\ token = "set"
    /\ EndAgent("cancelled")
    /\ \/ UNCHANGED effects
       \/ Tool # "ask" /\ effects' = [effects EXCEPT ![Here] = @ + 1]
    /\ UNCHANGED <<config, stores, limits, messages, counters, dispatch, susp, token,
                   outcome, batches, interruptions>>

----------------------------------------------------------------------------
(* After a batch that was not resumed: limiter, snapshot, finish, direct.  *)

CountTools ==
    /\ pc = "limit"
    /\ tools' = tools + Len(Batch(Current))
    /\ IF tools' > toolCeiling THEN LimitReached("tool_call_limit")
       ELSE /\ pc' = IF stepCheckpoints = "on" THEN "save" ELSE "judge"
            /\ UNCHANGED <<reason, susp>>
    /\ UNCHANGED <<config, stores, limits, messages, turn, iter, rev, dispatch, token,
                   outcome, history, interruptions>>

\* Mutant: the snapshot's tool call count is the one before this batch.
SaveBatchUncounted ==
    /\ pc = "save"
    /\ ckpt' = [kind |-> "step",
                agent |-> [Snapshot(iter) EXCEPT !.tools = @ - Len(Batch(Current))]]
    /\ pc' = "judge"
    /\ UNCHANGED <<config, requested, answered, limits, messages, counters, dispatch, susp,
                   token, reason, outcome, history, interruptions>>

\* _AgentStepCheckpointSink.save_step: a cursor that points at this step.
SaveBatch ==
    /\ pc = "save"
    /\ ckpt' = [kind |-> "step", agent |-> Snapshot(iter)]
    /\ pc' = "judge"
    /\ UNCHANGED <<config, requested, answered, limits, messages, counters, dispatch, susp,
                   token, reason, outcome, history, interruptions>>

JudgeBatch ==
    /\ pc = "judge"
    /\ IF explicit = "on" /\ Holds(Current, "finish") THEN Judge("finished") /\ hit' = 0
       ELSE IF hit # 0 THEN EndAgent("return_direct") /\ UNCHANGED <<rev, hit>>
       ELSE pc' = "loop" /\ UNCHANGED <<rev, reason, hit>>
    /\ UNCHANGED <<config, stores, limits, messages, turn, iter, tools, at, done, resumed,
                   susp, token, outcome, history, interruptions>>

----------------------------------------------------------------------------
(* The Sequential and the DurableRun around the agent.                     *)

\* Mutant: a parked run saves the limiter's own count, one past its ceiling.
SurfaceOnePast ==
    /\ pc = "surface"
    /\ ckpt' = [kind |-> IF susp = "hitl" THEN "suspend" ELSE "park", agent |-> Snapshot(iter)]
    /\ pc' = "handle"
    /\ UNCHANGED <<config, requested, answered, limits, messages, counters, dispatch, susp,
                   token, reason, outcome, history, interruptions>>

Surface ==
    /\ pc = "surface"
    /\ ckpt' = IF susp = "hitl" THEN [kind |-> "suspend", agent |-> Snapshot(iter)]
               ELSE [kind |-> "park",
                     agent |-> Snapshot(IF susp = "iteration_limit" THEN ceiling ELSE iter)]
    /\ pc' = "handle"
    /\ UNCHANGED <<config, requested, answered, limits, messages, counters, dispatch, susp,
                   token, reason, outcome, history, interruptions>>

\* SuspendedRun needs the request still pending; else RuntimeError.
WrapSuspension ==
    /\ pc = "handle"
    /\ outcome' = IF susp # "hitl" THEN "parked"
                  ELSE IF Here \in answered THEN "lost" ELSE "suspended"
    /\ Idle
    /\ token' = "clear"
    /\ UNCHANGED <<config, stores, limits, susp, reason, history, interruptions>>

\* The agent step completed; the cursor behind it is saved before the run returns.
SaveEnd ==
    /\ pc = "return" /\ stepCheckpoints = "on" /\ ckpt.kind # "end"
    /\ ckpt' = [kind |-> "end"]
    /\ UNCHANGED <<config, requested, answered, limits, pc, messages, counters, dispatch, susp,
                   token, reason, outcome, history, interruptions>>

ReturnResult ==
    /\ pc = "return" /\ (stepCheckpoints = "on" => ckpt.kind = "end")
    /\ outcome' = "result"
    /\ Idle
    /\ token' = "clear"
    /\ UNCHANGED <<config, stores, limits, susp, reason, history, interruptions>>

Interrupt == interruptions < MaxInterruptions /\ interruptions' = interruptions + 1

\* The process ends, or an LLM call or a tool raises what nobody corrects.
Crash ==
    /\ pc # "idle"
    /\ Interrupt
    /\ outcome' = "crashed"
    /\ Idle
    /\ susp' = "none" /\ token' = "clear" /\ reason' = "none"
    /\ \/ UNCHANGED effects
       \/ Dispatching /\ Tool # "ask" /\ effects' = [effects EXCEPT ![Here] = @ + 1]
    /\ UNCHANGED <<config, stores, limits, batches>>

Cancel ==
    /\ pc # "idle" /\ token = "clear"
    /\ Interrupt
    /\ token' = "set"
    /\ UNCHANGED <<config, stores, limits, pc, messages, counters, dispatch, susp, reason,
                   outcome, history>>

----------------------------------------------------------------------------
Drive == Start \/ ResumeInterrupted \/ ResumeEnded \/ Resume \/ \E g \in {0, Grant} : Continue(g)

Agent ==
    \/ EndDirect \/ StopCancelled \/ NextTurn \/ TextAnswer \/ StructuredAnswer
    \/ \E b \in Batches : AskForTools(b)
    \/ CallReturns \/ CallSuspends \/ CallCancelled \/ CountTools \/ SaveBatch \/ JudgeBatch

Frame == Surface \/ WrapSuspension \/ SaveEnd \/ ReturnResult \/ LimiterRefuses

Next == Drive \/ Agent \/ Frame \/ Nudge \/ Crash \/ Cancel \/ \E c \in Calls : Respond(c)

Spec == Init /\ [][Next]_vars

\* The event loop runs the agent, the host drives an idle run, and a run that is
\* parked again and again is granted more in the end.
FairSpec == Spec /\ WF_vars(Agent \/ Frame) /\ WF_vars(Drive)

----------------------------------------------------------------------------
\* The types of all variables.
AgentOK(a) ==
    /\ a.thread \in Seq(Ids) /\ a.answers \in [Calls -> 0..2]
    /\ a.turn \in Nat /\ a.iter \in Nat /\ a.tools \in Nat /\ a.rev \in 0..MaxRevisions
    /\ a.at \in 1..L /\ a.done \subseteq 1..L /\ a.hit \in 0..L

TypeOK ==
    /\ {stepCheckpoints, parks, explicit, evaluates, schema} \subseteq {"on", "off"}
    /\ ckpt.kind \in {"absent", "step", "suspend", "park", "end"}
    /\ HasAgent(ckpt) => AgentOK(ckpt.agent)
    /\ answered \subseteq requested /\ requested \subseteq Calls
    /\ ceiling \in Nat /\ toolCeiling \in Nat
    /\ pc \in {"idle", "loop", "llm", "final", "dispatch", "limit", "save", "judge", "surface",
               "handle", "return", "refused"}
    /\ AgentOK(Snapshot(iter))
    /\ resumed \in {"yes", "no"} /\ token \in {"clear", "set"}
    /\ susp \in {"none", "hitl", "iteration_limit", "tool_call_limit"}
    /\ reason \in {"none", "complete", "finished", "return_direct", "cancelled",
                   "evaluation_failed", "iteration_limit", "tool_call_limit"}
    /\ outcome \in {"none", "running", "result", "suspended", "parked", "lost", "error", "crashed"}
    /\ batches \in Seq(Batches) /\ effects \in [Calls -> Nat] /\ interruptions \in Nat

\* Whenever the LLM is called, through suspensions, parks and crashes, the message
\* list answers every tool call it holds and no other; a call is answered twice
\* only if a later call of its batch suspended.
HistoryIsAnswered ==
    pc = "llm" =>
        \A c \in Calls :
            IF InThread(c[1]) /\ c[2] \in DOMAIN Batch(c[1])
            THEN /\ answers[c] > 0
                 /\ answers[c] > 1 => \E d \in requested : d[1] = c[1] /\ d[2] > c[2]
            ELSE answers[c] = 0

\* "A completed, journaled tool batch runs at most once across the run and all its
\* resumes", and so does every call of a suspended batch that a checkpoint holds.
RecordedCallsRunOnce ==
    [][\A c \in Calls : HasAgent(ckpt) /\ ckpt.agent.answers[c] > 0 => effects'[c] = effects[c]]_vars

\* Whenever the LLM is called, the restored limiters agree with the message list and
\* the step number: one iteration per turn but for the structured final calls that
\* were sent back, and one tool call per call of each batch that never suspended
\* (_execute_resume counts none), neither above its ceiling.
Counted == {c \in Calls : /\ InThread(c[1]) /\ c[2] \in DOMAIN Batch(c[1])
                          /\ \A d \in requested : d[1] # c[1]}
Uncounted == IF schema = "on" THEN rev ELSE 0

CountersMatchHistory ==
    pc = "llm" => /\ turn = iter + Uncounted
                  /\ Len(thread) < iter /\ iter <= ceiling
                  /\ tools = Cardinality(Counted) /\ tools <= toolCeiling

\* "Maximum total tool calls across all reasoning steps": whenever the LLM is called,
\* the message list holds no more calls than the factory grants.
TotalToolCallsCapped ==
    pc = "llm" =>
        Cardinality({c \in Calls : InThread(c[1]) /\ c[2] \in DOMAIN Batch(c[1])}) <= toolCeiling

\* A host that answers, resumes, continues and restarts gets the result.
RunFinishes == <>(outcome = "result")
=============================================================================
