----------------------------- MODULE HumanCallProofs -----------------------------
(***************************************************************************)
(* Proofs about HumanCall, for any number of calls and resolvers, any      *)
(* assignment of request ids to them, and any number of failing saves.     *)
(***************************************************************************)
EXTENDS HumanCall, TLAPS

InnerState ==
    {"none", "start", "saving", "saved", "waiting", "expiring", "cancelling",
     "returned", "timeout", "error", "cancelled"}

TypeOK ==
    /\ store \in {"on", "off"} /\ timed \in {"on", "off"}
    /\ flag \in {"clear", "set"} /\ bound \in {"yes", "no"}
    /\ event \in {"none", "clear", "set"} /\ signalled \in {"yes", "no"}
    /\ canceller \in {"idle", "flagged", "bound", "done"}
    /\ binder \in {"none", "loop", "event", "bound"}
    /\ main \in [Calls -> {"ready", "racing", "draining", "done"}]
    /\ inner \in [Calls -> InnerState]
    /\ waiter \in [Calls -> {"none", "start", "binding", "waiting", "done"}]
    /\ fut \in [Calls -> Resolvers \cup {"none", "pending", "cancelled"}]
    /\ outcome \in [Calls -> Resolvers \cup {"none", "pending", "cancelled", "timeout", "error"}]
    /\ pending \in [Ids -> Calls \cup {"none"}]
    /\ requests \subseteq Ids
    /\ responses \in [Ids -> Resolvers \cup {"none"}]
    /\ resolver \in [Resolvers -> {"ready", "saving", "saved", "true", "false", "raised"}]
    /\ held \in [Resolvers -> Calls \cup {"none"}]
    /\ faults \in Nat

\* Every variable has its type initially ...
LEMMA InitTypeOK == Init => TypeOK
BY DEF Init, TypeOK, InnerState

\* ... and keeps it in every step.
LEMMA TypeStep == TypeOK /\ [Next]_vars => TypeOK'
<1> SUFFICES ASSUME TypeOK, [Next]_vars PROVE TypeOK'
  OBVIOUS
<1> USE IdAssumption, NamesAssumption, FaultAssumption
    DEF TypeOK, InnerState, config, token, tasks, saved, resolving
<1>1. ASSUME NEW i \in Calls, Enter(i) PROVE TypeOK'
  BY <1>1 DEF Enter
<1>2. ASSUME NEW i \in Calls, TakeResult(i) PROVE TypeOK'
  <2>1. outcome' \in [Calls -> Resolvers \cup {"none", "pending", "cancelled", "timeout", "error"}]
    BY <1>2 DEF TakeResult, InnerDone
  <2> QED BY <1>2, <2>1 DEF TakeResult
<1>3. ASSUME NEW i \in Calls, CancelTool(i) PROVE TypeOK'
  BY <1>3 DEF CancelTool
<1>4. ASSUME NEW i \in Calls, ToolUnwinds(i) PROVE TypeOK'
  BY <1>4 DEF ToolUnwinds
<1>5. ASSUME NEW i \in Calls, Request(i) PROVE TypeOK'
  BY <1>5 DEF Request, Register
<1>6. ASSUME NEW i \in Calls, SaveRequest(i) PROVE TypeOK'
  BY <1>6 DEF SaveRequest
<1>7. ASSUME NEW i \in Calls, SaveRequestFails(i) PROVE TypeOK'
  BY <1>7 DEF SaveRequestFails, Fault
<1>8. ASSUME NEW i \in Calls, RegisterSaved(i) PROVE TypeOK'
  BY <1>8 DEF RegisterSaved, Register
<1>9. ASSUME NEW i \in Calls, Answered(i) PROVE TypeOK'
  BY <1>9 DEF Answered
<1>10. ASSUME NEW i \in Calls, Expire(i) PROVE TypeOK'
  BY <1>10 DEF Expire
<1>11. ASSUME NEW i \in Calls, TimeOut(i) PROVE TypeOK'
  BY <1>11 DEF TimeOut
<1>12. ASSUME NEW i \in Calls, WaitAsync(i) PROVE TypeOK'
  BY <1>12 DEF WaitAsync, Waiting
<1>13. ASSUME NEW i \in Calls, Bound(i) PROVE TypeOK'
  BY <1>13 DEF Bound, Waiting
<1>14. ASSUME NEW i \in Calls, WaiterWakes(i) PROVE TypeOK'
  BY <1>14 DEF WaiterWakes
<1>15. ASSUME NEW r \in Resolvers, Resolve(r) PROVE TypeOK'
  BY <1>15 DEF Resolve, Resolved
<1>16. ASSUME NEW r \in Resolvers, SaveResponse(r) PROVE TypeOK'
  BY <1>16 DEF SaveResponse, Resolved
<1>17. ASSUME NEW r \in Resolvers, SaveResponseFails(r) PROVE TypeOK'
  BY <1>17 DEF SaveResponseFails, Resolved, Fault
<1>18. ASSUME NEW r \in Resolvers, SetResult(r) PROVE TypeOK'
  BY <1>18 DEF SetResult, Resolved
<1>19. CASE CreateEvent
  BY <1>19 DEF CreateEvent
<1>20. CASE MirrorFlag
  BY <1>20 DEF MirrorFlag
<1>21. CASE RunSignal
  BY <1>21 DEF RunSignal
<1>22. CASE ReadLoop
  BY <1>22 DEF ReadLoop
<1>23. CASE ReadEvent
  BY <1>23 DEF ReadEvent
<1>24. CASE SetFlag
  BY <1>24 DEF SetFlag
<1>25. CASE CancelOnLoop
  BY <1>25 DEF CancelOnLoop
<1>26. CASE UNCHANGED vars
  BY <1>26 DEF vars
<1> QED
  BY <1>1, <1>2, <1>3, <1>4, <1>5, <1>6, <1>7, <1>8, <1>9, <1>10, <1>11, <1>12, <1>13, <1>14,
     <1>15, <1>16, <1>17, <1>18, <1>19, <1>20, <1>21, <1>22, <1>23, <1>24, <1>25, <1>26
     DEF Next, Progress, Signals, Proceeds, Delivers

\* Every variable has its type in every reachable state.
THEOREM TypeCorrect == Spec => []TypeOK
BY InitTypeOK, TypeStep, PTL DEF Spec

----------------------------------------------------------------------------
(* What a call returns with is on record.                                  *)

\* A future is created once, and an answered one is never touched again: the call
\* holds what its resolver delivered.
Futures ==
    \A i \in Calls :
        /\ main[i] = "ready" => inner[i] = "none"
        /\ inner[i] \in {"none", "start", "saving", "saved"} => fut[i] = "none"
        /\ inner[i] = "returned" => fut[i] \in Resolvers
        /\ outcome[i] \in Resolvers => fut[i] = outcome[i]
        /\ fut[i] \in Resolvers => held[fut[i]] = i /\ resolver[fut[i]] = "true"

\* A resolver holds the call it took from _pending until it has told it, and with
\* a store it tells it what the store has.
Resolutions ==
    \A r \in Resolvers :
        /\ resolver[r] = "ready" => held[r] = "none"
        /\ resolver[r] \in {"saving", "saved", "true"} => held[r] \in Calls
        /\ resolver[r] = "true" => fut[held[r]] = r
        /\ resolver[r] \in {"saved", "true"} /\ store = "on" => responses[IdOf[r]] = r

Recorded == Futures /\ Resolutions

\* Futures and resolutions hold initially ...
LEMMA InitRecorded == Init => Recorded
BY NamesAssumption DEF Init, Recorded, Futures, Resolutions

\* ... and keep holding in every step.
LEMMA RecordedStep == TypeOK /\ Recorded /\ [Next]_vars => Recorded'
<1> SUFFICES ASSUME TypeOK, Recorded, [Next]_vars PROVE Recorded'
  OBVIOUS
<1> USE IdAssumption, NamesAssumption
    DEF TypeOK, InnerState, Recorded, Futures, Resolutions, config, token, tasks, saved, resolving
<1>1. ASSUME NEW i \in Calls, Enter(i) PROVE Recorded'
  BY <1>1 DEF Enter
<1>2. ASSUME NEW i \in Calls, TakeResult(i) PROVE Recorded'
  BY <1>2 DEF TakeResult, InnerDone
<1>3. ASSUME NEW i \in Calls, CancelTool(i) PROVE Recorded'
  BY <1>3 DEF CancelTool, InnerDone
<1>4. ASSUME NEW i \in Calls, ToolUnwinds(i) PROVE Recorded'
  BY <1>4 DEF ToolUnwinds
<1>5. ASSUME NEW i \in Calls, Request(i) PROVE Recorded'
  BY <1>5 DEF Request, Register
<1>6. ASSUME NEW i \in Calls, SaveRequest(i) PROVE Recorded'
  BY <1>6 DEF SaveRequest
<1>7. ASSUME NEW i \in Calls, SaveRequestFails(i) PROVE Recorded'
  BY <1>7 DEF SaveRequestFails
<1>8. ASSUME NEW i \in Calls, RegisterSaved(i) PROVE Recorded'
  BY <1>8 DEF RegisterSaved, Register
<1>9. ASSUME NEW i \in Calls, Answered(i) PROVE Recorded'
  BY <1>9 DEF Answered
<1>10. ASSUME NEW i \in Calls, Expire(i) PROVE Recorded'
  BY <1>10 DEF Expire
<1>11. ASSUME NEW i \in Calls, TimeOut(i) PROVE Recorded'
  BY <1>11 DEF TimeOut
<1>12. ASSUME NEW i \in Calls, WaitAsync(i) PROVE Recorded'
  BY <1>12 DEF WaitAsync
<1>13. ASSUME NEW i \in Calls, Bound(i) PROVE Recorded'
  BY <1>13 DEF Bound
<1>14. ASSUME NEW i \in Calls, WaiterWakes(i) PROVE Recorded'
  BY <1>14 DEF WaiterWakes
<1>15. ASSUME NEW r \in Resolvers, Resolve(r) PROVE Recorded'
  BY <1>15 DEF Resolve, Resolved
<1>16. ASSUME NEW r \in Resolvers, SaveResponse(r) PROVE Recorded'
  BY <1>16 DEF SaveResponse, Resolved
<1>17. ASSUME NEW r \in Resolvers, SaveResponseFails(r) PROVE Recorded'
  BY <1>17 DEF SaveResponseFails, Resolved
<1>18. ASSUME NEW r \in Resolvers, SetResult(r) PROVE Recorded'
  BY <1>18 DEF SetResult, Resolved
<1>19. CASE CreateEvent
  BY <1>19 DEF CreateEvent
<1>20. CASE MirrorFlag
  BY <1>20 DEF MirrorFlag
<1>21. CASE RunSignal
  BY <1>21 DEF RunSignal
<1>22. CASE ReadLoop
  BY <1>22 DEF ReadLoop
<1>23. CASE ReadEvent
  BY <1>23 DEF ReadEvent
<1>24. CASE SetFlag
  BY <1>24 DEF SetFlag
<1>25. CASE CancelOnLoop
  BY <1>25 DEF CancelOnLoop
<1>26. CASE UNCHANGED vars
  BY <1>26 DEF vars
<1> QED
  BY <1>1, <1>2, <1>3, <1>4, <1>5, <1>6, <1>7, <1>8, <1>9, <1>10, <1>11, <1>12, <1>13, <1>14,
     <1>15, <1>16, <1>17, <1>18, <1>19, <1>20, <1>21, <1>22, <1>23, <1>24, <1>25, <1>26
     DEF Next, Progress, Signals, Proceeds, Delivers

\* A decision that a call returns with is the stored one, its resolve() was told
\* TRUE, and whoever is told TRUE has delivered: run_cancellable, request_input and
\* resolve agree on every answer, whatever fails, expires or is cancelled.
THEOREM DecisionsCorrect == Spec => []DecisionsAreOnRecord
<1>1. TypeOK /\ Recorded => DecisionsAreOnRecord
  BY DEF Recorded, Futures, Resolutions, DecisionsAreOnRecord, TypeOK
<1> QED BY <1>1, InitTypeOK, TypeStep, InitRecorded, RecordedStep, PTL DEF Spec

----------------------------------------------------------------------------
(* Who waits can be answered.                                              *)

\* The request table's key: a call saved under an id is the only one between its save
\* and its registration, and nothing is pending under an id nobody saved.
Keyed ==
    /\ \A i \in Calls :
          /\ inner[i] \in {"saving", "saved"} => store = "on"
          /\ inner[i] = "saved" =>
                /\ IdOf[i] \in requests /\ pending[IdOf[i]] = "none"
                /\ \A j \in Calls : inner[j] = "saved" /\ IdOf[j] = IdOf[i] => j = i
    /\ \A id \in Ids : store = "on" /\ pending[id] # "none" => id \in requests

Answerable == Keyed /\ WaitersCanBeAnswered

\* Nobody waits initially ...
LEMMA InitAnswerable == Init => Answerable
BY DEF Init, Answerable, Keyed, WaitersCanBeAnswered

\* ... and no step strands a waiter.
LEMMA AnswerableStep == TypeOK /\ Recorded /\ Answerable /\ [Next]_vars => Answerable'
<1> SUFFICES ASSUME TypeOK, Recorded, Answerable, [Next]_vars PROVE Answerable'
  OBVIOUS
<1> USE IdAssumption, NamesAssumption
    DEF TypeOK, InnerState, Recorded, Futures, Resolutions, Answerable, Keyed, WaitersCanBeAnswered,
        TakenByExpiry, config, token, tasks, saved, resolving
<1>1. ASSUME NEW i \in Calls, Enter(i) PROVE Answerable'
  BY <1>1 DEF Enter
<1>2. ASSUME NEW i \in Calls, TakeResult(i) PROVE Answerable'
  BY <1>2 DEF TakeResult, InnerDone
<1>3. ASSUME NEW i \in Calls, CancelTool(i) PROVE Answerable'
  BY <1>3 DEF CancelTool, InnerDone
<1>4. ASSUME NEW i \in Calls, ToolUnwinds(i) PROVE Answerable'
  BY <1>4 DEF ToolUnwinds
<1>5. ASSUME NEW i \in Calls, Request(i) PROVE Answerable'
  BY <1>5 DEF Request, Register
<1>6. ASSUME NEW i \in Calls, SaveRequest(i) PROVE Answerable'
  BY <1>6 DEF SaveRequest
<1>7. ASSUME NEW i \in Calls, SaveRequestFails(i) PROVE Answerable'
  BY <1>7 DEF SaveRequestFails
<1>8. ASSUME NEW i \in Calls, RegisterSaved(i) PROVE Answerable'
  BY <1>8 DEF RegisterSaved, Register
<1>9. ASSUME NEW i \in Calls, Answered(i) PROVE Answerable'
  BY <1>9 DEF Answered
<1>10. ASSUME NEW i \in Calls, Expire(i) PROVE Answerable'
  BY <1>10 DEF Expire
<1>11. ASSUME NEW i \in Calls, TimeOut(i) PROVE Answerable'
  BY <1>11 DEF TimeOut
<1>12. ASSUME NEW i \in Calls, WaitAsync(i) PROVE Answerable'
  BY <1>12 DEF WaitAsync
<1>13. ASSUME NEW i \in Calls, Bound(i) PROVE Answerable'
  BY <1>13 DEF Bound
<1>14. ASSUME NEW i \in Calls, WaiterWakes(i) PROVE Answerable'
  BY <1>14 DEF WaiterWakes
<1>15. ASSUME NEW r \in Resolvers, Resolve(r) PROVE Answerable'
  BY <1>15 DEF Resolve, Resolved
<1>16. ASSUME NEW r \in Resolvers, SaveResponse(r) PROVE Answerable'
  BY <1>16 DEF SaveResponse, Resolved
<1>17. ASSUME NEW r \in Resolvers, SaveResponseFails(r) PROVE Answerable'
  BY <1>17 DEF SaveResponseFails, Resolved
<1>18. ASSUME NEW r \in Resolvers, SetResult(r) PROVE Answerable'
  BY <1>18 DEF SetResult, Resolved
<1>19. CASE CreateEvent
  BY <1>19 DEF CreateEvent
<1>20. CASE MirrorFlag
  BY <1>20 DEF MirrorFlag
<1>21. CASE RunSignal
  BY <1>21 DEF RunSignal
<1>22. CASE ReadLoop
  BY <1>22 DEF ReadLoop
<1>23. CASE ReadEvent
  BY <1>23 DEF ReadEvent
<1>24. CASE SetFlag
  BY <1>24 DEF SetFlag
<1>25. CASE CancelOnLoop
  BY <1>25 DEF CancelOnLoop
<1>26. CASE UNCHANGED vars
  BY <1>26 DEF vars
<1> QED
  BY <1>1, <1>2, <1>3, <1>4, <1>5, <1>6, <1>7, <1>8, <1>9, <1>10, <1>11, <1>12, <1>13, <1>14,
     <1>15, <1>16, <1>17, <1>18, <1>19, <1>20, <1>21, <1>22, <1>23, <1>24, <1>25, <1>26
     DEF Next, Progress, Signals, Proceeds, Delivers

\* A call that waits for a human is listed under its id, or a resolve() has taken its
\* entry, or the expiry of another call under the same id took the entry out: no
\* call replaces the entry of another in _pending.
THEOREM WaitersCorrect == Spec => []WaitersCanBeAnswered
<1>1. Answerable => WaitersCanBeAnswered
  BY DEF Answerable
<1> QED
  BY <1>1, InitTypeOK, TypeStep, InitRecorded, RecordedStep, InitAnswerable, AnswerableStep, PTL
     DEF Spec

----------------------------------------------------------------------------
(* No wake-up is lost.                                                     *)

\* The token is bound to its loop, event and all, before anybody waits on it; it is
\* set only by cancel(), which is not over before the waiters have their wake-up.
Wakes ==
    /\ canceller = "idle" => flag = "clear"
    /\ binder \in {"event", "bound"} => event # "none"
    /\ binder # "none" => bound = "yes"
    /\ binder = "none" /\ bound = "yes" => event # "none"
    /\ \A i \in Calls :
          waiter[i] = "waiting" =>
              /\ binder = "none" /\ bound = "yes"
              /\ flag = "set" =>
                    canceller \in {"flagged", "bound"} \/ event = "set" \/ signalled = "yes"

\* What cancel() promises the waiters: once it returned, one that waits has its
\* event set, or the callback that sets it is in the loop's queue.  The safety half
\* of CancelEndsEveryCall.
NoWakeUpIsLost ==
    \A i \in Calls :
        flag = "set" /\ canceller = "done" /\ waiter[i] = "waiting" =>
            event = "set" \/ signalled = "yes"

\* Nobody waits initially ...
LEMMA InitWakes == Init => Wakes
BY DEF Init, Wakes

\* ... and neither the binding nor cancel() loses a waiter, wherever they meet.
LEMMA WakesStep == TypeOK /\ Wakes /\ [Next]_vars => Wakes'
<1> SUFFICES ASSUME TypeOK, Wakes, [Next]_vars PROVE Wakes'
  OBVIOUS
<1> USE DEF TypeOK, Wakes, LoopFree, config, token, tasks, saved, resolving
<1>1. ASSUME NEW i \in Calls, Enter(i) PROVE Wakes'
  BY <1>1 DEF Enter
<1>2. ASSUME NEW i \in Calls, TakeResult(i) PROVE Wakes'
  BY <1>2 DEF TakeResult, InnerDone
<1>3. ASSUME NEW i \in Calls, CancelTool(i) PROVE Wakes'
  BY <1>3 DEF CancelTool, InnerDone
<1>4. ASSUME NEW i \in Calls, ToolUnwinds(i) PROVE Wakes'
  BY <1>4 DEF ToolUnwinds
<1>5. ASSUME NEW i \in Calls, Request(i) PROVE Wakes'
  BY <1>5 DEF Request, Register
<1>6. ASSUME NEW i \in Calls, SaveRequest(i) PROVE Wakes'
  BY <1>6 DEF SaveRequest
<1>7. ASSUME NEW i \in Calls, SaveRequestFails(i) PROVE Wakes'
  BY <1>7 DEF SaveRequestFails
<1>8. ASSUME NEW i \in Calls, RegisterSaved(i) PROVE Wakes'
  BY <1>8 DEF RegisterSaved, Register
<1>9. ASSUME NEW i \in Calls, Answered(i) PROVE Wakes'
  BY <1>9 DEF Answered
<1>10. ASSUME NEW i \in Calls, Expire(i) PROVE Wakes'
  BY <1>10 DEF Expire
<1>11. ASSUME NEW i \in Calls, TimeOut(i) PROVE Wakes'
  BY <1>11 DEF TimeOut
<1>12. ASSUME NEW i \in Calls, WaitAsync(i) PROVE Wakes'
  BY <1>12 DEF WaitAsync, Waiting
<1>13. ASSUME NEW i \in Calls, Bound(i) PROVE Wakes'
  BY <1>13 DEF Bound, Waiting
<1>14. ASSUME NEW i \in Calls, WaiterWakes(i) PROVE Wakes'
  BY <1>14 DEF WaiterWakes
<1>15. ASSUME NEW r \in Resolvers, Resolve(r) PROVE Wakes'
  BY <1>15 DEF Resolve, Resolved
<1>16. ASSUME NEW r \in Resolvers, SaveResponse(r) PROVE Wakes'
  BY <1>16 DEF SaveResponse, Resolved
<1>17. ASSUME NEW r \in Resolvers, SaveResponseFails(r) PROVE Wakes'
  BY <1>17 DEF SaveResponseFails, Resolved
<1>18. ASSUME NEW r \in Resolvers, SetResult(r) PROVE Wakes'
  BY <1>18 DEF SetResult, Resolved
<1>19. CASE CreateEvent
  BY <1>19 DEF CreateEvent
<1>20. CASE MirrorFlag
  BY <1>20 DEF MirrorFlag
<1>21. CASE RunSignal
  BY <1>21 DEF RunSignal
<1>22. CASE ReadLoop
  BY <1>22 DEF ReadLoop
<1>23. CASE ReadEvent
  BY <1>23 DEF ReadEvent
<1>24. CASE SetFlag
  BY <1>24 DEF SetFlag
<1>25. CASE CancelOnLoop
  BY <1>25 DEF CancelOnLoop
<1>26. CASE UNCHANGED vars
  BY <1>26 DEF vars
<1> QED
  BY <1>1, <1>2, <1>3, <1>4, <1>5, <1>6, <1>7, <1>8, <1>9, <1>10, <1>11, <1>12, <1>13, <1>14,
     <1>15, <1>16, <1>17, <1>18, <1>19, <1>20, <1>21, <1>22, <1>23, <1>24, <1>25, <1>26
     DEF Next, Progress, Signals, Proceeds, Delivers

\* cancel(), on whatever thread and wherever it meets wait_async's binding of the
\* token to the loop, leaves nobody waiting on an event that nothing sets.
THEOREM NoWakeUpLost == Spec => []NoWakeUpIsLost
<1>1. Wakes => NoWakeUpIsLost
  BY DEF Wakes, NoWakeUpIsLost
<1> QED BY <1>1, InitTypeOK, TypeStep, InitWakes, WakesStep, PTL DEF Spec
=============================================================================
