-------------------------------- MODULE HumanCall --------------------------------
(***************************************************************************)
(* Tool calls that wait for a human in the process: run_cancellable races  *)
(* a tool, which waits in AsyncHumanInputProvider.request_input, against   *)
(* the CancellationToken, while resolve() brings answers, timeouts expire  *)
(* and cancel() runs on another thread.                                    *)
(*                                                                         *)
(* The steps of one coroutine between two awaits are one action.  cancel() *)
(* interleaves with the loop's thread between any two of its accesses, so  *)
(* that wait_async's binding is taken apart too: while `binder` is inside  *)
(* it, the loop runs nothing else.                                         *)
(***************************************************************************)
EXTENDS Integers, FiniteSets

CONSTANTS Calls, Resolvers,   \* calls of request_input and of resolve
          Ids, IdOf,          \* request ids, and the one of each call and resolver
          MaxFaults           \* bound: saves of the store that fail

ASSUME IdAssumption == \A x \in Calls \cup Resolvers : IdOf[x] \in Ids
ASSUME FaultAssumption == MaxFaults \in Nat
ASSUME NamesAssumption ==
    /\ Calls \cap Resolvers = {} /\ "none" \notin Calls
    /\ {"none", "pending", "cancelled", "timeout", "error"} \cap Resolvers = {}

VARIABLES
    store, timed,      \* the configuration: a store, a timeout
    flag,              \* the token's threading.Event
    bound, event,      \* _bound_loop and _asyncio_event
    signalled,         \* call_soon_threadsafe(event.set) waits in the loop
    canceller,         \* where the thread in cancel() is
    binder,            \* the waiter inside wait_async's binding, and where
    main, inner, waiter,   \* the three tasks of each call of run_cancellable
    fut,               \* its future: a response, or its state
    outcome,           \* what run_cancellable returned or raised
    pending,           \* _pending: id -> call
    requests, responses,   \* the store: saved ids, id -> response
    resolver, held,    \* where each resolve() is, and the entry it popped
    faults

config == <<store, timed>>
token == <<flag, bound, event, signalled>>
tasks == <<main, inner, waiter>>
saved == <<requests, responses>>
resolving == <<resolver, held>>
vars == <<config, token, canceller, binder, tasks, fut, outcome, pending, saved, resolving, faults>>

----------------------------------------------------------------------------
\* What is the human to answer: saved in the store, or listed by get_pending.
Visible(id) == IF store = "on" THEN id \in requests ELSE pending[id] # "none"
InnerDone(i) == inner[i] \in {"returned", "timeout", "error", "cancelled"}
LoopFree == binder = "none"
Fault == faults < MaxFaults /\ faults' = faults + 1

Init ==
    /\ store \in {"on", "off"} /\ timed \in {"on", "off"}
    /\ flag = "clear" /\ bound = "no" /\ event = "none" /\ signalled = "no"
    /\ canceller = "idle" /\ binder = "none"
    /\ main = [i \in Calls |-> "ready"]
    /\ inner = [i \in Calls |-> "none"] /\ waiter = [i \in Calls |-> "none"]
    /\ fut = [i \in Calls |-> "none"] /\ outcome = [i \in Calls |-> "none"]
    /\ pending = [id \in Ids |-> "none"]
    /\ requests = {} /\ responses = [id \in Ids |-> "none"]
    /\ resolver = [r \in Resolvers |-> "ready"] /\ held = [r \in Resolvers |-> "none"]
    /\ faults = 0

----------------------------------------------------------------------------
(* run_cancellable.                                                        *)

Enter(i) ==
    /\ LoopFree /\ main[i] = "ready"
    /\ IF flag = "set"
       THEN /\ main' = [main EXCEPT ![i] = "done"]
            /\ outcome' = [outcome EXCEPT ![i] = "cancelled"]
            /\ UNCHANGED <<inner, waiter>>
       ELSE /\ main' = [main EXCEPT ![i] = "racing"]
            /\ inner' = [inner EXCEPT ![i] = "start"]
            /\ waiter' = [waiter EXCEPT ![i] = "start"]
            /\ UNCHANGED outcome
    /\ UNCHANGED <<config, token, canceller, binder, fut, pending, saved, resolving, faults>>

\* The tool finished first - or as well: its result counts, the waiter is unwound.
TakeResult(i) ==
    /\ LoopFree /\ main[i] = "racing" /\ InnerDone(i)
    /\ main' = [main EXCEPT ![i] = "done"]
    /\ waiter' = [waiter EXCEPT ![i] = "done"]
    /\ outcome' = [outcome EXCEPT ![i] = IF inner[i] = "returned" THEN fut[i] ELSE inner[i]]
    /\ UNCHANGED <<config, token, canceller, binder, inner, fut, pending, saved, resolving, faults>>

\* The token won: the tool's task is cancelled, and with it the future it awaits.
CancelTool(i) ==
    /\ LoopFree /\ main[i] = "racing" /\ ~InnerDone(i) /\ waiter[i] = "done"
    /\ main' = [main EXCEPT ![i] = "draining"]
    /\ inner' = [inner EXCEPT ![i] = "cancelling"]
    /\ fut' = [fut EXCEPT ![i] = IF @ = "pending" THEN "cancelled" ELSE @]
    /\ UNCHANGED <<config, token, canceller, binder, waiter, outcome, pending, saved, resolving,
                   faults>>

\* The CancelledError leaves request_input; no clause takes its entry out.
ToolUnwinds(i) ==
    /\ LoopFree /\ inner[i] = "cancelling"
    /\ inner' = [inner EXCEPT ![i] = "cancelled"]
    /\ main' = [main EXCEPT ![i] = "done"]
    /\ outcome' = [outcome EXCEPT ![i] = "cancelled"]
    /\ UNCHANGED <<config, token, canceller, binder, waiter, fut, pending, saved, resolving, faults>>

----------------------------------------------------------------------------
(* AsyncHumanInputProvider.request_input.                                  *)

Register(i) ==
    /\ pending' = [pending EXCEPT ![IdOf[i]] = i]
    /\ fut' = [fut EXCEPT ![i] = "pending"]
    /\ inner' = [inner EXCEPT ![i] = "waiting"]

\* Mutant: a pending request with the same id is replaced.
RequestReplacing(i) ==
    /\ LoopFree /\ inner[i] = "start"
    /\ IF store = "on" THEN inner' = [inner EXCEPT ![i] = "saving"] /\ UNCHANGED <<pending, fut>>
       ELSE Register(i)
    /\ UNCHANGED <<config, token, canceller, binder, main, waiter, outcome, saved, resolving, faults>>

Request(i) ==
    /\ LoopFree /\ inner[i] = "start"
    /\ IF pending[IdOf[i]] # "none"
       THEN inner' = [inner EXCEPT ![i] = "error"] /\ UNCHANGED <<pending, fut>>
       ELSE IF store = "on" THEN inner' = [inner EXCEPT ![i] = "saving"] /\ UNCHANGED <<pending, fut>>
       ELSE Register(i)
    /\ UNCHANGED <<config, token, canceller, binder, main, waiter, outcome, saved, resolving, faults>>

\* The insert, on the store's side; the key refuses an id it holds.
SaveRequest(i) ==
    /\ inner[i] = "saving" /\ IdOf[i] \notin requests
    /\ requests' = requests \cup {IdOf[i]}
    /\ inner' = [inner EXCEPT ![i] = "saved"]
    /\ UNCHANGED <<config, token, canceller, binder, main, waiter, fut, outcome, pending, responses,
                   resolving, faults>>

SaveRequestFails(i) ==
    /\ inner[i] = "saving"
    /\ \/ IdOf[i] \in requests /\ UNCHANGED faults
       \/ Fault
    /\ inner' = [inner EXCEPT ![i] = "error"]
    /\ UNCHANGED <<config, token, canceller, binder, main, waiter, fut, outcome, pending, saved,
                   resolving>>

RegisterSaved(i) ==
    /\ LoopFree /\ inner[i] = "saved"
    /\ Register(i)
    /\ UNCHANGED <<config, token, canceller, binder, main, waiter, outcome, saved, resolving, faults>>

Answered(i) ==
    /\ LoopFree /\ inner[i] = "waiting" /\ fut[i] \in Resolvers
    /\ inner' = [inner EXCEPT ![i] = "returned"]
    /\ UNCHANGED <<config, token, canceller, binder, main, waiter, fut, outcome, pending, saved,
                   resolving, faults>>

\* wait_for cancels the wait even if the answer has just been set.
Expire(i) ==
    /\ LoopFree /\ timed = "on" /\ inner[i] = "waiting"
    /\ fut' = [fut EXCEPT ![i] = IF @ = "pending" THEN "cancelled" ELSE @]
    /\ inner' = [inner EXCEPT ![i] = "expiring"]
    /\ UNCHANGED <<config, token, canceller, binder, main, waiter, outcome, pending, saved, resolving,
                   faults>>

TimeOut(i) ==
    /\ LoopFree /\ inner[i] = "expiring"
    /\ pending' = [pending EXCEPT ![IdOf[i]] = "none"]
    /\ inner' = [inner EXCEPT ![i] = "timeout"]
    /\ UNCHANGED <<config, token, canceller, binder, main, waiter, fut, outcome, saved, resolving,
                   faults>>

----------------------------------------------------------------------------
(* resolve, called for a request the human sees.                           *)

Resolved(r, result) == resolver' = [resolver EXCEPT ![r] = result]

\* Mutant: the response reaches the waiter before the store has it.
ResolveUnsaved(r) ==
    LET id == IdOf[r]  i == pending[id] IN
    /\ LoopFree /\ resolver[r] = "ready" /\ Visible(id)
    /\ pending' = [pending EXCEPT ![id] = "none"]
    /\ IF i = "none" \/ fut[i] # "pending" THEN Resolved(r, "false") /\ UNCHANGED <<held, fut>>
       ELSE /\ held' = [held EXCEPT ![r] = i]
            /\ fut' = [fut EXCEPT ![i] = r]
            /\ Resolved(r, IF store = "on" THEN "saving" ELSE "true")
    /\ UNCHANGED <<config, token, canceller, binder, tasks, outcome, saved, faults>>

Resolve(r) ==
    LET id == IdOf[r]  i == pending[id] IN
    /\ LoopFree /\ resolver[r] = "ready" /\ Visible(id)
    /\ pending' = [pending EXCEPT ![id] = "none"]
    /\ IF i = "none" \/ fut[i] # "pending" THEN Resolved(r, "false") /\ UNCHANGED <<held, fut>>
       ELSE /\ held' = [held EXCEPT ![r] = i]
            /\ IF store = "on" THEN Resolved(r, "saving") /\ UNCHANGED fut
               ELSE Resolved(r, "true") /\ fut' = [fut EXCEPT ![i] = r]
    /\ UNCHANGED <<config, token, canceller, binder, tasks, outcome, saved, faults>>

SaveResponse(r) ==
    /\ resolver[r] = "saving" /\ responses[IdOf[r]] = "none"
    /\ responses' = [responses EXCEPT ![IdOf[r]] = r]
    /\ Resolved(r, "saved")
    /\ UNCHANGED <<config, token, canceller, binder, tasks, fut, outcome, pending, requests, held,
                   faults>>

\* The store fails: the entry is popped, and the caller has the exception.
SaveResponseFails(r) ==
    /\ resolver[r] = "saving"
    /\ Fault
    /\ Resolved(r, "raised")
    /\ UNCHANGED <<config, token, canceller, binder, tasks, fut, outcome, pending, saved, held>>

\* set_result, which raises InvalidStateError on a future cancelled meanwhile.
SetResult(r) ==
    /\ LoopFree /\ resolver[r] = "saved"
    /\ IF fut[held[r]] = "pending"
       THEN Resolved(r, "true") /\ fut' = [fut EXCEPT ![held[r]] = r]
       ELSE Resolved(r, "raised") /\ UNCHANGED fut
    /\ UNCHANGED <<config, token, canceller, binder, tasks, outcome, pending, saved, held, faults>>

----------------------------------------------------------------------------
(* CancellationToken.wait_async, on the loop's thread.                     *)

Waiting(i) ==
    waiter' = [waiter EXCEPT ![i] = IF flag = "set" THEN "done" ELSE "waiting"]

WaitAsync(i) ==
    /\ LoopFree /\ waiter[i] = "start" /\ inner[i] # "start"
    /\ IF bound = "yes" THEN Waiting(i) /\ UNCHANGED <<bound, binder>>
       ELSE bound' = "yes" /\ binder' = "loop" /\ waiter' = [waiter EXCEPT ![i] = "binding"]
    /\ UNCHANGED <<config, flag, event, signalled, canceller, main, inner, fut, outcome, pending,
                   saved, resolving, faults>>

CreateEvent ==
    /\ binder = "loop"
    /\ event' = "clear" /\ binder' = "event"
    /\ UNCHANGED <<config, flag, bound, signalled, canceller, tasks, fut, outcome, pending, saved,
                   resolving, faults>>

MirrorFlag ==
    /\ binder = "event"
    /\ event' = IF flag = "set" THEN "set" ELSE event
    /\ binder' = "bound"
    /\ UNCHANGED <<config, flag, bound, signalled, canceller, tasks, fut, outcome, pending, saved,
                   resolving, faults>>

Bound(i) ==
    /\ binder = "bound" /\ waiter[i] = "binding"
    /\ binder' = "none"
    /\ Waiting(i)
    /\ UNCHANGED <<config, token, canceller, main, inner, fut, outcome, pending, saved, resolving,
                   faults>>

WaiterWakes(i) ==
    /\ LoopFree /\ waiter[i] = "waiting" /\ event = "set"
    /\ waiter' = [waiter EXCEPT ![i] = "done"]
    /\ UNCHANGED <<config, token, canceller, binder, main, inner, fut, outcome, pending, saved,
                   resolving, faults>>

RunSignal ==
    /\ LoopFree /\ signalled = "yes"
    /\ signalled' = "no" /\ event' = "set"
    /\ UNCHANGED <<config, flag, bound, canceller, binder, tasks, fut, outcome, pending, saved,
                   resolving, faults>>

----------------------------------------------------------------------------
(* CancellationToken.cancel, on a thread of its own or on the loop's.      *)

SetFlag ==
    /\ canceller = "idle"
    /\ flag' = "set" /\ canceller' = "flagged"
    /\ UNCHANGED <<config, bound, event, signalled, binder, tasks, fut, outcome, pending, saved,
                   resolving, faults>>

ReadLoop ==
    /\ canceller = "flagged"
    /\ canceller' = IF bound = "yes" THEN "bound" ELSE "done"
    /\ UNCHANGED <<config, token, binder, tasks, fut, outcome, pending, saved, resolving, faults>>

\* Mutant: event.set() from the other thread, which does not wake the loop.
ReadEventUnsafe ==
    /\ canceller = "bound"
    /\ canceller' = "done"
    /\ UNCHANGED <<config, token, binder, tasks, fut, outcome, pending, saved, resolving, faults>>

ReadEvent ==
    /\ canceller = "bound"
    /\ canceller' = "done"
    /\ signalled' = IF event # "none" THEN "yes" ELSE signalled
    /\ UNCHANGED <<config, flag, bound, event, binder, tasks, fut, outcome, pending, saved, resolving,
                   faults>>

CancelOnLoop ==
    /\ LoopFree /\ canceller = "idle"
    /\ flag' = "set" /\ canceller' = "done"
    /\ event' = IF bound = "yes" THEN "set" ELSE event
    /\ UNCHANGED <<config, bound, signalled, binder, tasks, fut, outcome, pending, saved, resolving,
                   faults>>

----------------------------------------------------------------------------
\* What the loop, the store and the cancelling thread go on with by themselves.
Proceeds(i) ==
    \/ TakeResult(i) \/ CancelTool(i) \/ ToolUnwinds(i)
    \/ Request(i) \/ SaveRequest(i) \/ SaveRequestFails(i) \/ RegisterSaved(i) \/ Answered(i)
    \/ Expire(i) \/ TimeOut(i) \/ WaitAsync(i) \/ Bound(i) \/ WaiterWakes(i)

Delivers(r) == SaveResponse(r) \/ SaveResponseFails(r) \/ SetResult(r)

Signals == CreateEvent \/ MirrorFlag \/ RunSignal \/ ReadLoop \/ ReadEvent

Progress == Signals \/ (\E i \in Calls : Proceeds(i)) \/ \E r \in Resolvers : Delivers(r)

Next ==
    \/ Progress
    \/ \E i \in Calls : Enter(i)
    \/ \E r \in Resolvers : Resolve(r)
    \/ SetFlag \/ CancelOnLoop

Spec == Init /\ [][Next]_vars

\* The event loop, the store and a thread inside cancel() go on; nobody has to call,
\* answer or cancel.  No call repeats a step, so one fairness condition is enough.
FairSpec == Spec /\ WF_vars(Progress)

----------------------------------------------------------------------------
\* A cancelled token ends every call of run_cancellable with both of its tasks,
\* wherever the cancelling thread and the binding of the token to its loop meet:
\* no wake-up is lost and nothing goes on waiting for the human.
Ended(i) == main[i] = "done" /\ (InnerDone(i) \/ inner[i] = "none") /\ waiter[i] \in {"none", "done"}

CancelEndsEveryCall ==
    \A i \in Calls : (flag = "set" /\ main[i] # "ready") ~> Ended(i)

\* Whoever waits for a human can be answered: its id is listed as pending under its
\* own future, or a resolve() has taken the entry (and may have failed to save it).
\* The one exception: the expiry of an earlier call under the same id takes out
\* whatever entry is there by then, its own or the next call's.
TakenByExpiry(i) == \E j \in Calls \ {i} : IdOf[j] = IdOf[i] /\ inner[j] = "timeout"

WaitersCanBeAnswered ==
    \A i \in Calls :
        inner[i] = "waiting" /\ fut[i] = "pending" =>
            \/ pending[IdOf[i]] = i
            \/ \E r \in Resolvers : held[r] = i /\ resolver[r] # "true"
            \/ TakenByExpiry(i)

\* A decision a call returns with is the stored one and its resolve() knows it: TRUE
\* is told to one resolver per request, and what it delivered is on record.
DecisionsAreOnRecord ==
    /\ \A i \in Calls : outcome[i] \in Resolvers => resolver[outcome[i]] = "true"
    /\ \A r \in Resolvers :
          resolver[r] = "true" => /\ fut[held[r]] = r
                                  /\ (store = "on" => responses[IdOf[r]] = r)
=============================================================================
