------------------------------- MODULE TracedRun -------------------------------
(***************************************************************************)
(* One run traced by TracedExecutor.execute: a TraceCollector buffers the  *)
(* events the run emits, a periodic task and the closing flush save them   *)
(* in batches to a PersistentTraceStore, and the run's status is written   *)
(* last.  Saving a batch is asynchronous: the store may have committed it  *)
(* before the collector learns so, and the task that waits for it may be   *)
(* cancelled at any point.  Events are numbered in the order emitted.  The *)
(* live SSE queue and the redaction hook touch none of this and are left   *)
(* out; tasks that outlive the run may emit after it has closed.           *)
(***************************************************************************)
EXTENDS Integers, Sequences, SequencesExt

CONSTANTS MaxEvents,         \* bound: events emitted
          MaxOutages,        \* bound: saves refused by a store that is down
          MaxBufferSize,     \* the collector's max_buffer_size
          MaxFlushAttempts,  \* MAX_FLUSH_ATTEMPTS
          Poison             \* the events the store can never save

ASSUME EventAssumption ==
    /\ MaxEvents \in Nat /\ MaxOutages \in Nat
    /\ MaxBufferSize \in Nat \ {0} /\ MaxFlushAttempts \in Nat \ {0}
    /\ Poison \subseteq 1..MaxEvents

VARIABLES
    emitted,    \* number of events emitted
    buffer,     \* _buffer
    batch,      \* flusher -> the batch whose save it awaits, <<>> if none
    committed,  \* flusher -> the store has committed that batch
    failures,   \* _consecutive_failures
    loop,       \* _flush_task is set
    stored,     \* the event table, in insertion order
    pc,         \* TracedExecutor.execute
    result,     \* how the traced function ended
    status,     \* the run's status in the trace store
    closedAt,   \* history: events emitted when close() ran
    outages,    \* history: store calls that failed in an outage
    refused,    \* history: saves reported as failed, up to MaxFlushAttempts
    ambiguous,  \* history: a save was committed and reported as failed
    cut,        \* history: events of saves cancelled before they committed
    stranded    \* history: events whose save by close() failed, with no loop to retry it

collector == <<buffer, batch, committed, failures, loop>>
executor == <<pc, result, status, closedAt>>
troubles == <<outages, refused, ambiguous, cut, stranded>>
vars == <<emitted, collector, stored, executor, troubles>>

\* "loop": the periodic task; "old": one that close() cancelled and that has not
\* run since; "close": execute itself, in close().
Flushers == {"loop", "old", "close"}
Results == {"completed", "failed", "suspended"}

Init ==
    /\ emitted = 0
    /\ buffer = <<>>
    /\ batch = [f \in Flushers |-> <<>>]
    /\ committed = [f \in Flushers |-> FALSE]
    /\ failures = 0
    /\ loop = FALSE
    /\ stored = <<>>
    /\ pc = "register" /\ result = "none" /\ status = "unregistered" /\ closedAt = 0
    /\ outages = 0 /\ refused = 0 /\ ambiguous = FALSE /\ cut = {} /\ stranded = {}

Closed == pc \in {"flushing", "finalise", "returned"}

\* What is still going to be saved.  Once close() has run nobody flushes the buffer,
\* unless a task that outlives the run emits and starts the flush loop again.
Pending ==
    {e \in ToSet(buffer) : loop \/ ~Closed} \cup UNION {ToSet(batch[f]) : f \in Flushers}

----------------------------------------------------------------------------
(* TracedExecutor.execute.                                                 *)

RegisterRun ==
    /\ pc = "register"
    /\ pc' = "running"
    /\ status' = "running"
    /\ UNCHANGED <<emitted, collector, stored, result, closedAt, troubles>>

\* Mutant: close() cancels the periodic task and does not flush.
CloseWithoutFlush(r) ==
    /\ pc = "running"
    /\ result' = r
    /\ closedAt' = emitted
    /\ pc' = "finalise"
    /\ loop' = FALSE
    /\ batch' = [batch EXCEPT !["old"] = batch["loop"], !["loop"] = <<>>]
    /\ committed' = [committed EXCEPT !["old"] = committed["loop"], !["loop"] = FALSE]
    /\ UNCHANGED <<emitted, buffer, failures, stored, status, troubles>>

\* The traced function is over and close() starts: the periodic task is
\* cancelled, and the last batch taken before anything else can run.
Close(r) ==
    /\ pc = "running"
    /\ result' = r
    /\ closedAt' = emitted
    /\ pc' = IF buffer = <<>> THEN "finalise" ELSE "flushing"
    /\ loop' = FALSE
    /\ batch' = [batch EXCEPT !["old"] = batch["loop"],
                              !["loop"] = <<>>,
                              !["close"] = buffer]
    /\ committed' = [committed EXCEPT !["old"] = committed["loop"], !["loop"] = FALSE]
    /\ buffer' = <<>>
    /\ UNCHANGED <<emitted, failures, stored, status, troubles>>

\* A CancelledError is no Exception: the run stays "running", uncollected.
FunctionCancelled ==
    /\ pc = "running"
    /\ pc' = "abandoned"
    /\ UNCHANGED <<emitted, collector, stored, result, status, closedAt, troubles>>

UpdateRunStatus ==
    /\ pc = "finalise"
    /\ pc' = "returned"
    /\ status' = result
    /\ UNCHANGED <<emitted, collector, stored, result, closedAt, troubles>>

\* register_run or update_run_status raises to the caller.
StatusWriteFails ==
    /\ pc \in {"register", "finalise"}
    /\ outages < MaxOutages
    /\ outages' = outages + 1
    /\ pc' = "returned"
    /\ UNCHANGED <<emitted, collector, stored, result, status, closedAt, refused, ambiguous, cut, stranded>>

----------------------------------------------------------------------------
(* TraceCollector.                                                         *)

\* Also after close(): the flush loop is started again.
Handle ==
    /\ pc # "register" /\ status # "unregistered"
    /\ emitted < MaxEvents
    /\ emitted' = emitted + 1
    /\ buffer' = Append(buffer, emitted + 1)
    /\ loop' = TRUE
    /\ UNCHANGED <<batch, committed, failures, stored, executor, troubles>>

\* Mutant: the snapshot is not taken out of the buffer.
PeriodicFlushKeepsBuffer ==
    /\ loop
    /\ batch["loop"] = <<>>
    /\ buffer # <<>>
    /\ batch' = [batch EXCEPT !["loop"] = buffer]
    /\ UNCHANGED <<emitted, buffer, committed, failures, loop, stored, executor, troubles>>

\* The interval is over: flush takes the buffer and starts to save it.
PeriodicFlush ==
    /\ loop
    /\ batch["loop"] = <<>>
    /\ buffer # <<>>
    /\ batch' = [batch EXCEPT !["loop"] = buffer]
    /\ buffer' = <<>>
    /\ UNCHANGED <<emitted, committed, failures, loop, stored, executor, troubles>>

\* The store inserts the batch, all of it or nothing.
Commit(f) ==
    /\ batch[f] # <<>>
    /\ ~committed[f]
    /\ ToSet(batch[f]) \cap Poison = {}
    /\ stored' = stored \o batch[f]
    /\ committed' = [committed EXCEPT ![f] = TRUE]
    /\ UNCHANGED <<emitted, buffer, batch, failures, loop, executor, troubles>>

\* flush is over, and with it close() when it was the one that flushed.
EndFlush(f) ==
    /\ batch' = [batch EXCEPT ![f] = <<>>]
    /\ committed' = [committed EXCEPT ![f] = FALSE]
    /\ pc' = IF f = "close" THEN "finalise" ELSE pc
    /\ UNCHANGED <<emitted, loop, stored, result, status, closedAt, cut>>

SaveReturns(f) ==
    /\ f # "old"
    /\ committed[f]
    /\ failures' = 0
    /\ EndFlush(f)
    /\ UNCHANGED <<buffer, outages, refused, ambiguous, stranded>>

Newest(events) == SubSeq(events, Len(events) - MaxBufferSize + 1, Len(events))
Truncate(events) == IF Len(events) > MaxBufferSize THEN Newest(events) ELSE events

\* Mutants: the attempts are counted one too far; the batch goes behind the events
\* that arrived meanwhile; these events are overwritten; no batch is ever dropped.
RecordFailureLate(f) ==
    IF failures + 1 > MaxFlushAttempts
    THEN failures' = 0 /\ UNCHANGED buffer
    ELSE failures' = failures + 1 /\ buffer' = Truncate(batch[f] \o buffer)

RecordFailureBehind(f) ==
    IF failures + 1 >= MaxFlushAttempts
    THEN failures' = 0 /\ UNCHANGED buffer
    ELSE failures' = failures + 1 /\ buffer' = Truncate(buffer \o batch[f])

RecordFailureOverwrites(f) ==
    IF failures + 1 >= MaxFlushAttempts
    THEN failures' = 0 /\ UNCHANGED buffer
    ELSE failures' = failures + 1 /\ buffer' = Truncate(batch[f])

RecordFailureForever(f) ==
    /\ failures' = IF failures + 1 >= MaxFlushAttempts THEN 0 ELSE failures + 1
    /\ buffer' = Truncate(batch[f] \o buffer)

\* flush's except clause: drop the batch, or put it back in front.
RecordFailure(f) ==
    IF failures + 1 >= MaxFlushAttempts
    THEN failures' = 0 /\ UNCHANGED buffer
    ELSE failures' = failures + 1 /\ buffer' = Truncate(batch[f] \o buffer)

CountRefusal ==
    refused' = IF refused < MaxFlushAttempts THEN refused + 1 ELSE refused

\* History: the one flush of close() failed, and the flush loop is gone.
RecordStranded(f) ==
    stranded' = IF f = "close" /\ ~loop THEN stranded \cup ToSet(batch[f]) ELSE stranded

PoisonRefused(f) ==
    /\ f # "old"
    /\ ToSet(batch[f]) \cap Poison # {}
    /\ RecordFailure(f)
    /\ CountRefusal
    /\ RecordStranded(f)
    /\ EndFlush(f)
    /\ UNCHANGED <<outages, ambiguous>>

\* The store is down, or the answer to a committed save is lost.
SaveFails(f) ==
    /\ f # "old"
    /\ batch[f] # <<>>
    /\ outages < MaxOutages
    /\ outages' = outages + 1
    /\ ambiguous' = (ambiguous \/ committed[f])
    /\ RecordFailure(f)
    /\ CountRefusal
    /\ RecordStranded(f)
    /\ EndFlush(f)

\* The cancelled periodic task runs: CancelledError ends it inside its save and
\* passes by flush's `except Exception`, so that its batch is not put back.
CancelledTaskEnds ==
    /\ batch["old"] # <<>>
    /\ cut' = IF committed["old"] THEN cut ELSE cut \cup ToSet(batch["old"])
    /\ batch' = [batch EXCEPT !["old"] = <<>>]
    /\ committed' = [committed EXCEPT !["old"] = FALSE]
    /\ UNCHANGED <<emitted, buffer, failures, loop, stored, executor, outages, refused, ambiguous, stranded>>

----------------------------------------------------------------------------
Execute == RegisterRun \/ (\E r \in Results : Close(r)) \/ UpdateRunStatus

Flush(f) == SaveReturns(f) \/ PoisonRefused(f)

Trouble == FunctionCancelled \/ StatusWriteFails \/ \E f \in Flushers : SaveFails(f)

Next ==
    \/ Execute \/ Handle \/ PeriodicFlush \/ CancelledTaskEnds \/ Trouble
    \/ \E f \in Flushers : Commit(f) \/ Flush(f)

Spec == Init /\ [][Next]_vars

\* The event loop wakes the periodic task and runs ready tasks, and the store
\* answers each save.  Nothing makes the traced function end.
FairSpec ==
    /\ Spec
    /\ WF_vars(RegisterRun) /\ WF_vars(UpdateRunStatus)
    /\ WF_vars(PeriodicFlush) /\ WF_vars(CancelledTaskEnds)
    /\ \A f \in Flushers : WF_vars(Commit(f)) /\ WF_vars(Flush(f))

----------------------------------------------------------------------------
(* Properties.                                                             *)

Events == 1..MaxEvents

\* The types of all variables; the failure counter stays below the attempts.
TypeOK ==
    /\ emitted \in 0..MaxEvents
    /\ buffer \in Seq(Events)
    /\ batch \in [Flushers -> Seq(Events)]
    /\ committed \in [Flushers -> BOOLEAN]
    /\ failures \in 0..(MaxFlushAttempts - 1)
    /\ loop \in BOOLEAN
    /\ stored \in Seq(Events)
    /\ pc \in {"register", "running", "flushing", "finalise", "returned", "abandoned"}
    /\ result \in Results \cup {"none"}
    /\ status \in Results \cup {"unregistered", "running"}
    /\ closedAt \in 0..emitted
    /\ outages \in 0..MaxOutages
    /\ refused \in 0..MaxFlushAttempts
    /\ ambiguous \in BOOLEAN
    /\ cut \subseteq Events
    /\ stranded \subseteq Events

Missing == 1..emitted \ (Pending \cup ToSet(stored) \cup cut)

\* Fewer failed saves than the attempts, whatever made them fail, lose no event
\* unless the buffer overflowed, close() cancelled its save, or the save that failed
\* was the one close() makes itself, which nothing retries: TraceIsComplete below is
\* what the docstring says, without these last two.
ShortOutageLosesNothing ==
    /\ refused < MaxFlushAttempts
    /\ emitted <= MaxBufferSize
    => Missing \subseteq stranded

\* Retries do not repeat events: one is twice in the table, or in the table and
\* about to be saved again, only after a save that was committed but reported as
\* failed (the insert has no key to recognise it by).
NoEventStoredTwice ==
    ~ambiguous =>
        /\ IsInjective(stored)
        /\ \A f \in Flushers :
              ~committed[f] => ToSet(stored) \cap ToSet(batch[f]) = {}
        /\ ToSet(stored) \cap ToSet(buffer) = {}

\* Until the run closes there is one flusher, and the table is in emission order
\* whatever fails: query_events pages through it by insertion id.
StoredInEmissionOrder ==
    ~Closed /\ ~ambiguous =>
        \A i, j \in DOMAIN stored : i < j => stored[i] < stored[j]

\* A final status is written after the last batch was settled: without failures,
\* a reader who sees it finds every event of the run, but for a cancelled save.
FinalStatusMeansSettled ==
    /\ status \in Results
    /\ refused = 0
    => 1..closedAt \subseteq ToSet(stored) \cup ToSet(batch["old"]) \cup cut

\* One un-storable event costs its batch, not the rest of the trace: while the run
\* is open no event stays in memory for ever.
PoisonDoesNotBlock ==
    \A e \in Events : e \in Pending ~> e \notin Pending \/ Closed

\* What the documentation says and the code does not do.
\* "A transient store outage loses nothing": with fewer failed saves than attempts
\* and room in the buffer, the trace of an ended run holds every event it emitted, or
\* will.  It fails in two ways: a failed save by close() puts its batch into a buffer
\* nobody flushes, and close() cancels a periodic flush in the middle of its save.
TraceIsComplete ==
    /\ status \in Results
    /\ refused < MaxFlushAttempts
    /\ emitted <= MaxBufferSize
    => 1..closedAt \subseteq Pending \cup ToSet(stored)
=============================================================================
