--------------------------- MODULE SequentialDurable ---------------------------
(***************************************************************************)
(* One durable run of a Sequential workflow: Sequential._run under         *)
(* Workflow.execute, driven by DurableRun and ResumeService, with          *)
(* FunctionSteps that have side effects and ApprovalGates that ask a human *)
(* through DurableHumanInputProvider.                                      *)
(*                                                                         *)
(* Persistent state (checkpoint store, journal, HITL store, trace store)   *)
(* survives a crash; the worker's local variables do not.  An action is    *)
(* the code between two awaits, so the human, the host and a crash may     *)
(* come between any two store calls.  One worker drives the run at a time: *)
(* the SDK does not lock and leaves that to its caller.                    *)
(***************************************************************************)
EXTENDS Integers, Sequences

CONSTANTS N,                 \* number of steps, numbered from 0 as in the code
          Gates,             \* the steps that are ApprovalGates
          MaxInterruptions,  \* bound: crashes, failures and cancellations
          MaxDrives          \* bound: calls of start / resume / resume_interrupted

Steps == 0..(N - 1)

ASSUME NAssumption == N \in Nat /\ Gates \subseteq Steps
ASSUME BoundAssumption == MaxInterruptions \in Nat /\ MaxDrives \in Nat

VARIABLES
    stepCheckpoints,  \* the workflow's step_checkpoints flag
    ckpt,             \* what CheckpointStore.load returns for the run
    journal,          \* steps with a StepRecord
    requests,         \* gate -> the value its saved request shows the human
    responses,        \* gate -> the stored decision
    status,           \* the run's status in the trace store
    pc,               \* the worker: where it is between two awaits
    index,            \* its loop index
    done,             \* its intermediate_results, in step order
    token,            \* its CancellationToken
    outcome,          \* what the last call returned to the host
    answer,           \* the last ResumeResult: output and total_steps_executed
    effects,          \* history: executions of each step's side effect
    replays,          \* history: executions of an already executed step
    interruptions,    \* crashes, failures and cancellations so far
    drives            \* calls by the host so far

stores == <<ckpt, journal, requests, responses, status>>
worker == <<index, done, token>>
history == <<effects, replays, interruptions, drives>>
host == <<outcome, answer>>
vars == <<stepCheckpoints, stores, pc, worker, host, history>>

----------------------------------------------------------------------------
(* Data.  A function step's output is tagged with the execution that made  *)
(* it (an agent does not answer twice alike); a gate passes its input on,  *)
(* substitutes the human's content, or returns None.  A revise outside a   *)
(* RevisionGate returns None too, and an override without content passes   *)
(* its input on: "reject" and "approve" stand for them.                    *)

Value == [src : Steps \cup {-1}, run : Nat]
OriginalInput == [src |-> -1, run |-> 1]
None == [src |-> -1, run |-> 0]
NoValue == [src |-> -2, run |-> 0]

Answer == [output : Value, executed : 0..N]
NoAnswer == [output |-> NoValue, executed |-> -1]

Decisions == {"approve", "override", "reject"}
NoDecision == "unanswered"

NoCkpt == [kind |-> "absent"]
Ckpt == [kind : {"step", "hitl_suspend"}, next : 0..N, results : Seq(Value)]

Suspended(c) == c.kind = "hitl_suspend"

\* current_input: the last completed step's output, else the original input.
CurrentInput(results) ==
    IF results = <<>> THEN OriginalInput ELSE results[Len(results)]

GateOutput(g, decision, input) ==
    CASE decision = "approve"  -> input
      [] decision = "override" -> [src |-> g, run |-> 0]
      [] decision = "reject"   -> None

Init ==
    /\ stepCheckpoints \in {"on", "off"}
    /\ ckpt = NoCkpt
    /\ journal = {}
    /\ requests = [g \in Gates |-> NoValue]
    /\ responses = [g \in Gates |-> NoDecision]
    /\ status = "unregistered"
    /\ pc = "idle"
    /\ index = 0 /\ done = <<>> /\ token = "clear"
    /\ outcome = "none" /\ answer = NoAnswer
    /\ effects = [i \in Steps |-> 0]
    /\ replays = 0 /\ interruptions = 0 /\ drives = 0

----------------------------------------------------------------------------
(* The host: DurableRun.start, ResumeService.resume, resume_interrupted.   *)

BeginAt(i, results) ==
    /\ pc = "idle"
    /\ drives < MaxDrives
    /\ drives' = drives + 1
    /\ pc' = "enter"
    /\ index' = i /\ done' = results /\ token' = "clear"
    /\ outcome' = "running"
    /\ UNCHANGED <<stepCheckpoints, answer, effects, replays, interruptions>>

Start ==
    /\ ckpt = NoCkpt
    /\ BeginAt(0, <<>>)
    /\ UNCHANGED stores

\* Mutant: completed_results are not restored from the checkpoint.
ResumeInterruptedForgetsResults ==
    /\ ckpt # NoCkpt
    /\ ~Suspended(ckpt)
    /\ BeginAt(ckpt.next, <<>>)
    /\ UNCHANGED stores

ResumeInterrupted ==
    /\ ckpt # NoCkpt
    /\ ~Suspended(ckpt)
    /\ BeginAt(ckpt.next, ckpt.results)
    /\ UNCHANGED stores

\* The first response stored wins: a duplicate save is suppressed.
Resume(decision) ==
    /\ ckpt # NoCkpt
    /\ Suspended(ckpt)
    /\ BeginAt(ckpt.next, ckpt.results)
    /\ responses' = IF responses[ckpt.next] = NoDecision
                    THEN [responses EXCEPT ![ckpt.next] = decision]
                    ELSE responses
    /\ UNCHANGED <<ckpt, journal, requests, status>>

\* Mutant: save_response overwrites instead of raising on a duplicate.
RespondOverwrites(g, decision) ==
    /\ requests[g] # NoValue
    /\ responses' = [responses EXCEPT ![g] = decision]
    /\ UNCHANGED <<stepCheckpoints, ckpt, journal, requests, status, pc, worker, host, history>>

\* An external system saves the human's answer to a pending request; a resume
\* that crashes between saving the response and driving the run is this too.
Respond(g, decision) ==
    /\ requests[g] # NoValue
    /\ responses[g] = NoDecision
    /\ responses' = [responses EXCEPT ![g] = decision]
    /\ UNCHANGED <<stepCheckpoints, ckpt, journal, requests, status, pc, worker, host, history>>

----------------------------------------------------------------------------
(* Workflow.execute and Sequential._run.                                   *)

Return(result) ==
    /\ pc' = "idle"
    /\ outcome' = result
    /\ index' = 0 /\ done' = <<>> /\ token' = "clear"

EnterRefused ==
    /\ pc = "enter"
    /\ token = "set"
    /\ Return("error")
    /\ UNCHANGED <<stepCheckpoints, stores, answer, history>>

RegisterRun ==
    /\ pc = "enter"
    /\ token = "clear"
    /\ status' = "running"
    /\ pc' = "top"
    /\ UNCHANGED <<stepCheckpoints, ckpt, journal, requests, responses, worker, host, history>>

Finish ==
    /\ pc = "top"
    /\ index = N \/ token = "set"
    /\ pc' = "complete"
    /\ UNCHANGED <<stepCheckpoints, stores, worker, host, history>>

\* A step returned: its result is in hand, and the cursor write comes next.
StepReturns(output) ==
    /\ done' = Append(done, output)
    /\ pc' = "cursor"
    /\ UNCHANGED <<stepCheckpoints, stores, index, token, host, interruptions, drives>>

AtStep == pc = "top" /\ index < N /\ token = "clear"

RecordEffect ==
    /\ effects' = [effects EXCEPT ![index] = @ + 1]
    /\ replays' = IF effects[index] > 0 THEN replays + 1 ELSE replays

FunctionStep ==
    /\ AtStep
    /\ index \notin Gates
    /\ RecordEffect
    /\ StepReturns([src |-> index, run |-> effects[index] + 1])

\* The provider finds a stored response and the gate turns it into a result.
GateAnswered ==
    /\ AtStep
    /\ index \in Gates
    /\ responses[index] # NoDecision
    /\ StepReturns(GateOutput(index, responses[index], CurrentInput(done)))
    /\ UNCHANGED <<effects, replays>>

GateUnanswered ==
    /\ AtStep
    /\ index \in Gates
    /\ responses[index] = NoDecision
    /\ pc' = "ask"
    /\ UNCHANGED <<stepCheckpoints, stores, worker, host, history>>

\* Mutant: a duplicate request is not suppressed and fails the gate.
SaveRequestRejectsDuplicate ==
    /\ pc = "ask"
    /\ requests' = [requests EXCEPT ![index] = CurrentInput(done)]
    /\ pc' = IF requests[index] = NoValue THEN "surface" ELSE "fail"
    /\ UNCHANGED <<stepCheckpoints, ckpt, journal, responses, status, worker, host, history>>

\* save_request with DuplicateHitlRequestError suppressed, then SuspendExecution.
SaveRequest ==
    /\ pc = "ask"
    /\ requests' = IF requests[index] = NoValue
                   THEN [requests EXCEPT ![index] = CurrentInput(done)]
                   ELSE requests
    /\ pc' = "surface"
    /\ UNCHANGED <<stepCheckpoints, ckpt, journal, responses, status, worker, host, history>>

\* Mutant: the frame does not own the store, so nothing is persisted.
SurfaceSuspensionUnsaved ==
    /\ pc = "surface"
    /\ pc' = "park"
    /\ UNCHANGED <<stepCheckpoints, stores, worker, host, history>>

SurfaceSuspension ==
    /\ pc = "surface"
    /\ ckpt' = [kind |-> "hitl_suspend", next |-> index, results |-> done]
    /\ pc' = "park"
    /\ UNCHANGED <<stepCheckpoints, journal, requests, responses, status, worker, host, history>>

SuspendRun ==
    /\ pc = "park"
    /\ status' = "suspended"
    /\ pc' = "handle"
    /\ UNCHANGED <<stepCheckpoints, ckpt, journal, requests, responses, worker, host, history>>

\* SuspendedRun needs the request still pending; else RuntimeError.
BuildSuspendedRun ==
    /\ pc = "handle"
    /\ Return(IF responses[index] = NoDecision THEN "suspended" ELSE "lost")
    /\ UNCHANGED <<stepCheckpoints, stores, answer, history>>

\* Mutants: the cursor names the step just completed, or skips the next one.
SaveCursorBehind ==
    /\ pc = "cursor"
    /\ stepCheckpoints = "on"
    /\ ckpt' = [kind |-> "step", next |-> index, results |-> done]
    /\ pc' = "journal"
    /\ UNCHANGED <<stepCheckpoints, journal, requests, responses, status, worker, host, history>>

SaveCursorAhead ==
    /\ pc = "cursor"
    /\ stepCheckpoints = "on"
    /\ ckpt' = [kind |-> "step", next |-> index + 2, results |-> done]
    /\ pc' = "journal"
    /\ UNCHANGED <<stepCheckpoints, journal, requests, responses, status, worker, host, history>>

\* The two writes of _save_step_checkpoint, the cursor first.
SaveCursor ==
    /\ pc = "cursor"
    /\ stepCheckpoints = "on"
    /\ ckpt' = [kind |-> "step", next |-> index + 1, results |-> done]
    /\ pc' = "journal"
    /\ UNCHANGED <<stepCheckpoints, journal, requests, responses, status, worker, host, history>>

AppendStep ==
    /\ pc = "journal"
    /\ journal' = journal \cup {index}
    /\ index' = index + 1
    /\ pc' = "top"
    /\ UNCHANGED <<stepCheckpoints, ckpt, requests, responses, status, done, token, host, history>>

NoStepCheckpoint ==
    /\ pc = "cursor"
    /\ stepCheckpoints = "off"
    /\ index' = index + 1
    /\ pc' = "top"
    /\ UNCHANGED <<stepCheckpoints, stores, done, token, host, history>>

\* The run is completed and its result returned, also when the loop ended early
\* because of a cancellation: the result is then the last completed step's, marked
\* "terminated", and total_steps_executed is less than N.
CompleteRun ==
    /\ pc = "complete"
    /\ status' = "completed"
    /\ Return(IF index = N THEN "result" ELSE "cancelled")
    /\ answer' = [output |-> CurrentInput(done), executed |-> index]
    /\ UNCHANGED <<stepCheckpoints, ckpt, journal, requests, responses, history>>

FailRun ==
    /\ pc = "fail"
    /\ status' = "failed"
    /\ Return("error")
    /\ UNCHANGED <<stepCheckpoints, ckpt, journal, requests, responses, answer, history>>

----------------------------------------------------------------------------
(* What goes wrong.                                                        *)

Interrupt ==
    /\ interruptions < MaxInterruptions
    /\ interruptions' = interruptions + 1
    /\ UNCHANGED drives

\* A function step raises, before or after its side effect took place.
StepRaises ==
    /\ AtStep
    /\ index \notin Gates
    /\ Interrupt
    /\ RecordEffect \/ UNCHANGED <<effects, replays>>
    /\ pc' = "fail"
    /\ UNCHANGED <<stepCheckpoints, stores, worker, host>>

\* A store call raises inside execute's try block: `except Exception`.
StoreRaises ==
    /\ \/ pc \in {"ask", "surface", "cursor", "journal", "complete"}
       \/ AtStep /\ index \in Gates
    /\ pc = "cursor" => stepCheckpoints = "on"
    /\ Interrupt
    /\ pc' = "fail"
    /\ UNCHANGED <<stepCheckpoints, stores, worker, host, effects, replays>>

\* A store call raises outside that try block: the host gets the exception.
HostSeesStoreError ==
    /\ pc \in {"enter", "park", "handle", "fail"}
    /\ Interrupt
    /\ Return("error")
    /\ UNCHANGED <<stepCheckpoints, stores, answer, effects, replays>>

Crash ==
    /\ pc # "idle"
    /\ Interrupt
    /\ Return("crashed")
    /\ UNCHANGED <<stepCheckpoints, stores, answer, effects, replays>>

Cancel ==
    /\ pc # "idle"
    /\ token = "clear"
    /\ Interrupt
    /\ token' = "set"
    /\ UNCHANGED <<stepCheckpoints, stores, pc, index, done, host, effects, replays>>

----------------------------------------------------------------------------
Drive == Start \/ ResumeInterrupted \/ \E d \in Decisions : Resume(d)

Work ==
    \/ EnterRefused \/ RegisterRun \/ Finish
    \/ FunctionStep \/ GateAnswered \/ GateUnanswered
    \/ SaveRequest \/ SurfaceSuspension \/ SuspendRun \/ BuildSuspendedRun
    \/ SaveCursor \/ AppendStep \/ NoStepCheckpoint
    \/ CompleteRun \/ FailRun

Trouble == StepRaises \/ StoreRaises \/ HostSeesStoreError \/ Crash \/ Cancel

Human == \E g \in Gates, d \in Decisions : Respond(g, d)

Next == Drive \/ Work \/ Trouble \/ Human

Spec == Init /\ [][Next]_vars

\* The event loop runs a ready worker, and the host drives an idle run: it calls
\* start or resume_interrupted, and resume once a human has decided.
FairSpec == Spec /\ WF_vars(Work) /\ WF_vars(Drive)

----------------------------------------------------------------------------
(* Properties.                                                             *)

Recorded == IF ckpt = NoCkpt THEN <<>> ELSE ckpt.results

\* The types of all variables, and how far each part of the state has come.
TypeOK ==
    /\ stepCheckpoints \in {"on", "off"}
    /\ ckpt \in Ckpt \cup {NoCkpt}
    /\ journal \subseteq Steps
    /\ requests \in [Gates -> Value \cup {NoValue}]
    /\ responses \in [Gates -> Decisions \cup {NoDecision}]
    /\ status \in {"unregistered", "running", "completed", "failed", "suspended"}
    /\ pc \in {"idle", "enter", "top", "ask", "surface", "park", "handle",
               "cursor", "journal", "complete", "fail"}
    /\ index \in 0..N
    /\ pc \in {"cursor", "journal"} => index < N
    /\ done \in Seq(Value)
    /\ token \in {"clear", "set"}
    /\ outcome \in {"none", "running", "result", "cancelled", "suspended", "lost",
                    "error", "crashed"}
    /\ answer \in Answer \cup {NoAnswer}
    /\ effects \in [Steps -> Nat]
    /\ replays \in Nat /\ interruptions \in Nat /\ drives \in Nat

\* No side effect behind a gate happens before a human has decided at the gate,
\* whatever is crashed, retried or re-driven (Sequential's order, fail-closed
\* request_input).
GatesHold ==
    \A g \in Gates, i \in Steps :
        g < i /\ effects[i] > 0 => responses[g] # NoDecision

\* With step checkpoints, what the run records for a gate is the stored decision
\* applied to the very value the stored request shows the human: neither a re-run
\* of the steps before the gate nor a second answer can come in between.
GateAppliesStoredDecision ==
    stepCheckpoints = "on" =>
        \A g \in Gates :
            g < Len(Recorded) =>
                /\ responses[g] # NoDecision
                /\ Recorded[g + 1] = GateOutput(g, responses[g], requests[g])

\* "At-least-once with a one-step replay window": each interruption of a run with
\* step checkpoints costs at most one repeated step.
ReplayWindow == stepCheckpoints = "on" => replays <= interruptions

\* A run that the host or the trace store calls suspended has a checkpoint resume
\* accepts, and the request it waits for is one the human can see.
SuspensionIsResumable ==
    /\ status = "suspended" \/ outcome \in {"suspended", "lost"} => Suspended(ckpt)
    /\ Suspended(ckpt) => ckpt.next \in Gates /\ requests[ckpt.next] # NoValue

\* "A completed, journaled step runs at most once across the run and all its
\* resumes": no action repeats the side effect of a step the journal holds.
JournaledStepsRunOnce ==
    [][\A i \in journal : effects'[i] = effects[i]]_vars

\* The run implements the promise of DurableLog: a log that only grows, and answers,
\* those of cancelled runs included, that say what the log says.
Promise == INSTANCE DurableLog WITH log <- Recorded, Input <- OriginalInput
PromiseKept == Promise!LogSpec

\* No crash, store failure or cancellation leaves the run stuck: with a host that
\* drives it and a human who decides, it returns a result.
RunFinishes == <>(outcome = "result")
=============================================================================
