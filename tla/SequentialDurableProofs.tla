------------------------ MODULE SequentialDurableProofs ------------------------
(***************************************************************************)
(* Proofs about SequentialDurable, for every N, every set of gates and     *)
(* every bound.                                                            *)
(***************************************************************************)
EXTENDS SequentialDurable, SequenceTheorems, TLAPS

\* The input of the next step is a value, also of the very first one.
LEMMA CurrentInputType ==
    ASSUME NEW results \in Seq(Value) PROVE CurrentInput(results) \in Value
<1>1. CASE results = <<>>
  BY <1>1 DEF CurrentInput, OriginalInput, Value
<1>2. CASE results # <<>>
  <2>1. Len(results) \in 1..Len(results)
    BY <1>2, EmptySeq, LenProperties
  <2> QED BY <1>2, <2>1, ElementOfSeq DEF CurrentInput
<1> QED BY <1>1, <1>2

\* Every variable has its type initially ...
LEMMA InitTypeOK == Init => TypeOK
<1> SUFFICES ASSUME Init PROVE TypeOK
  OBVIOUS
<1>1. index \in 0..N /\ done \in Seq(Value) /\ journal \subseteq Steps
  BY NAssumption DEF Init
<1>2. effects \in [Steps -> Nat]
  BY DEF Init
<1>3. requests \in [Gates -> Value \cup {NoValue}] /\ responses \in [Gates -> Decisions \cup {NoDecision}]
  BY DEF Init
<1> QED
  BY <1>1, <1>2, <1>3 DEF Init, TypeOK

\* ... and keeps it in every step.
LEMMA TypeStep == TypeOK /\ [Next]_vars => TypeOK'
<1> SUFFICES ASSUME TypeOK, [Next]_vars PROVE TypeOK'
  OBVIOUS
<1> USE NAssumption DEF TypeOK, Steps, stores, worker, host, history
<1>1. CASE Start
  BY <1>1 DEF Start, BeginAt
<1>2. CASE ResumeInterrupted
  BY <1>2 DEF ResumeInterrupted, BeginAt, Ckpt
<1>3. ASSUME NEW d \in Decisions, Resume(d) PROVE TypeOK'
  <2>1. ckpt \in Ckpt /\ ckpt.next \in 0..N /\ ckpt.results \in Seq(Value)
    BY <1>3 DEF Resume, Ckpt, NoCkpt
  <2>2. responses' \in [Gates -> Decisions \cup {NoDecision}]
    BY <1>3 DEF Resume
  <2> QED BY <1>3, <2>1, <2>2 DEF Resume, BeginAt
<1>4. CASE EnterRefused
  BY <1>4 DEF EnterRefused, Return
<1>5. CASE RegisterRun
  BY <1>5 DEF RegisterRun
<1>6. CASE Finish
  BY <1>6 DEF Finish
<1>7. CASE FunctionStep
  <2>1. [src |-> index, run |-> effects[index] + 1] \in Value
    BY <1>7 DEF FunctionStep, AtStep, Value
  <2> QED BY <1>7, <2>1 DEF FunctionStep, AtStep, StepReturns, RecordEffect
<1>8. CASE GateAnswered
  <2>1. CurrentInput(done) \in Value
    BY CurrentInputType
  <2>2. GateOutput(index, responses[index], CurrentInput(done)) \in Value
    BY <1>8, <2>1 DEF GateAnswered, AtStep, GateOutput, Decisions, NoDecision, Value, None
  <2> QED BY <1>8, <2>2 DEF GateAnswered, AtStep, StepReturns
<1>9. CASE GateUnanswered
  BY <1>9 DEF GateUnanswered
<1>10. CASE SaveRequest
  <2>1. CurrentInput(done) \in Value
    BY CurrentInputType
  <2> QED BY <1>10, <2>1 DEF SaveRequest
<1>11. CASE SurfaceSuspension
  BY <1>11 DEF SurfaceSuspension, Ckpt
<1>12. CASE SuspendRun
  BY <1>12 DEF SuspendRun
<1>13. CASE BuildSuspendedRun
  BY <1>13 DEF BuildSuspendedRun, Return
<1>14. CASE SaveCursor
  BY <1>14 DEF SaveCursor, Ckpt
<1>15. CASE AppendStep
  BY <1>15 DEF AppendStep
<1>16. CASE NoStepCheckpoint
  BY <1>16 DEF NoStepCheckpoint
<1>17. CASE CompleteRun
  <2>1. CurrentInput(done) \in Value
    BY CurrentInputType
  <2>2. [output |-> CurrentInput(done), executed |-> index] \in Answer
    BY <2>1 DEF Answer
  <2> QED BY <1>17, <2>2 DEF CompleteRun, Return
<1>18. CASE FailRun
  BY <1>18 DEF FailRun, Return
<1>19. CASE StepRaises
  <2>1. CASE RecordEffect
    BY <1>19, <2>1 DEF StepRaises, AtStep, Interrupt, RecordEffect
  <2>2. CASE UNCHANGED <<effects, replays>>
    BY <1>19, <2>2 DEF StepRaises, AtStep, Interrupt
  <2> QED BY <1>19, <2>1, <2>2 DEF StepRaises
<1>20. CASE StoreRaises
  BY <1>20 DEF StoreRaises, Interrupt
<1>21. CASE HostSeesStoreError
  BY <1>21 DEF HostSeesStoreError, Interrupt, Return
<1>22. CASE Crash
  BY <1>22 DEF Crash, Interrupt, Return
<1>23. CASE Cancel
  BY <1>23 DEF Cancel, Interrupt
<1>24. ASSUME NEW g \in Gates, NEW d \in Decisions, Respond(g, d) PROVE TypeOK'
  BY <1>24 DEF Respond
<1>25. CASE UNCHANGED vars
  BY <1>25 DEF vars
<1> QED
  BY <1>1, <1>2, <1>3, <1>4, <1>5, <1>6, <1>7, <1>8, <1>9, <1>10, <1>11, <1>12, <1>13, <1>14,
     <1>15, <1>16, <1>17, <1>18, <1>19, <1>20, <1>21, <1>22, <1>23, <1>24, <1>25
     DEF Next, Drive, Work, Trouble, Human

\* Every variable has its type in every reachable state.
THEOREM TypeCorrect == Spec => []TypeOK
BY InitTypeOK, TypeStep, PTL DEF Spec

----------------------------------------------------------------------------
(* The inductive invariant, in layers: each is inductive given the ones    *)
(* above it.                                                               *)

Driving == pc \notin {"idle", "fail"}
InCursorWrite == pc \in {"cursor", "journal"}

\* The loop index and the checkpoint's cursor count the results they go with.
Position ==
    /\ InCursorWrite => index < N /\ Len(done) = index + 1
    /\ Driving /\ ~InCursorWrite => Len(done) = index
    /\ ckpt # NoCkpt => Len(ckpt.results) = ckpt.next

\* What has been written when the worker stands between two writes of the
\* suspend path, and what status and outcome say of it.
Stage ==
    /\ pc \in {"ask", "surface", "park", "handle"} => index \in Gates
    /\ pc \in {"surface", "park", "handle"} => requests[index] # NoValue
    /\ pc \in {"park", "handle"} => Suspended(ckpt) /\ ckpt.next = index
    /\ Suspended(ckpt) => ckpt.next \in Gates /\ requests[ckpt.next] # NoValue
    /\ pc \notin {"idle", "enter", "handle"} => status = "running"
    /\ pc # "idle" => outcome = "running"
    /\ status = "suspended" => Suspended(ckpt)
    /\ outcome \in {"suspended", "lost"} => Suspended(ckpt)

\* The worker's results extend the recorded ones; with step checkpoints they
\* are the same but for the step whose cursor is being written.
Prefix ==
    Driving =>
        /\ Len(Recorded) <= Len(done)
        /\ \A k \in 1..Len(Recorded) : done[k] = Recorded[k]
        /\ stepCheckpoints = "on" =>
              Len(Recorded) = IF pc = "cursor" THEN index ELSE Len(done)

\* A gate is passed, in memory, in the checkpoint and in the world, only with a
\* stored decision; a decision is stored only for a request that was saved.
Answered ==
    /\ \A g \in Gates : responses[g] # NoDecision => requests[g] # NoValue
    /\ \A g \in Gates : g < Len(Recorded) => responses[g] # NoDecision
    /\ \A g \in Gates : Driving /\ g < Len(done) => responses[g] # NoDecision
    /\ GatesHold

\* With step checkpoints a saved request shows the recorded result before its
\* gate, and the gate's own result is the decision applied to it.
InputAt(results, i) == IF i = 0 THEN OriginalInput ELSE results[i]
GateResultOK(results, g) ==
    g < Len(results) => results[g + 1] = GateOutput(g, responses[g], requests[g])

Shown ==
    stepCheckpoints = "on" =>
        \A g \in Gates :
            /\ requests[g] # NoValue =>
                  g <= Len(Recorded) /\ requests[g] = InputAt(Recorded, g)
            /\ GateResultOK(Recorded, g)
            /\ Driving => GateResultOK(done, g)

\* The journal stays behind the cursor; without step checkpoints it is empty.
JournalBehind ==
    /\ stepCheckpoints = "off" => journal = {} /\ pc # "journal"
    /\ \A i \in journal : i < Len(Recorded)

\* Only the step at the cursor can have run without being recorded.  It is a
\* debt until it runs again, and an interruption has paid for it.
Debt ==
    IF Len(Recorded) < N /\ effects[Len(Recorded)] > 0 /\ pc # "cursor" THEN 1 ELSE 0
Replays ==
    stepCheckpoints = "on" =>
        /\ \A i \in Steps : i > Len(Recorded) => effects[i] = 0
        /\ replays + Debt <= interruptions

\* With step checkpoints an answer of k steps carries the k-th entry of the log.
AnswerOK ==
    stepCheckpoints = "on" /\ answer # NoAnswer =>
        /\ answer.executed <= Len(Recorded)
        /\ answer.output = InputAt(Recorded, answer.executed)

IInv == /\ TypeOK /\ Position /\ Stage /\ Prefix /\ Answered
        /\ Shown /\ JournalBehind /\ Replays /\ AnswerOK

----------------------------------------------------------------------------
\* No value of a run is mistaken for "no value".
LEMMA NoValueIsNone == \A v \in Value : v # NoValue
BY NAssumption DEF Value, NoValue, Steps

\* The input of the next step is the entry of the log at its position.
LEMMA CurrentInputAt ==
    ASSUME NEW results \in Seq(Value)
    PROVE  CurrentInput(results) = InputAt(results, Len(results))
BY EmptySeq, LenProperties DEF CurrentInput, InputAt

\* Every step keeps the loop index and the cursor in line with their results.
LEMMA PositionStep ==
    ASSUME TypeOK, TypeOK', Position, [Next]_vars
    PROVE  Position'
<1> USE NAssumption DEF TypeOK, Position, Driving, InCursorWrite, Ckpt, NoCkpt, stores, worker, host, history
<1>1. CASE Start
  BY <1>1 DEF Start, BeginAt
<1>2. CASE ResumeInterrupted
  BY <1>2 DEF ResumeInterrupted, BeginAt
<1>3. ASSUME NEW d \in Decisions, Resume(d)
      PROVE  Position'
  BY <1>3 DEF Resume, BeginAt
<1>4. CASE EnterRefused
  BY <1>4 DEF EnterRefused, Return
<1>5. CASE RegisterRun
  BY <1>5 DEF RegisterRun
<1>6. CASE Finish
  BY <1>6 DEF Finish
<1>7. CASE FunctionStep
  BY <1>7 DEF FunctionStep, AtStep, StepReturns
<1>8. CASE GateAnswered
  BY <1>8 DEF GateAnswered, AtStep, StepReturns
<1>9. CASE GateUnanswered
  BY <1>9 DEF GateUnanswered, AtStep
<1>10. CASE SaveRequest
  BY <1>10 DEF SaveRequest
<1>11. CASE SurfaceSuspension
  BY <1>11 DEF SurfaceSuspension
<1>12. CASE SuspendRun
  BY <1>12 DEF SuspendRun
<1>13. CASE BuildSuspendedRun
  BY <1>13 DEF BuildSuspendedRun, Return
<1>14. CASE SaveCursor
  BY <1>14 DEF SaveCursor
<1>15. CASE AppendStep
  BY <1>15 DEF AppendStep
<1>16. CASE NoStepCheckpoint
  BY <1>16 DEF NoStepCheckpoint
<1>17. CASE CompleteRun
  BY <1>17 DEF CompleteRun, Return
<1>18. CASE FailRun
  BY <1>18 DEF FailRun, Return
<1>19. CASE StepRaises
  BY <1>19 DEF StepRaises, AtStep
<1>20. CASE StoreRaises
  BY <1>20 DEF StoreRaises
<1>21. CASE HostSeesStoreError
  BY <1>21 DEF HostSeesStoreError, Return
<1>22. CASE Crash
  BY <1>22 DEF Crash, Return
<1>23. CASE Cancel
  BY <1>23 DEF Cancel
<1>24. ASSUME NEW g \in Gates, NEW d \in Decisions, Respond(g, d) PROVE Position'
  BY <1>24 DEF Respond
<1>25. CASE UNCHANGED vars
  BY <1>25 DEF vars
<1> QED
  BY <1>1, <1>2, <1>3, <1>4, <1>5, <1>6, <1>7, <1>8, <1>9, <1>10, <1>11, <1>12,
     <1>13, <1>14, <1>15, <1>16, <1>17, <1>18, <1>19, <1>20, <1>21, <1>22, <1>23, <1>24, <1>25
     DEF Next, Drive, Work, Trouble, Human

\* Every step keeps the order of the suspend path's writes.
LEMMA StageStep ==
    ASSUME TypeOK, TypeOK', Position, Stage, [Next]_vars
    PROVE  Stage'
<1> USE NAssumption DEF TypeOK, Stage, Suspended, Ckpt, NoCkpt, stores, worker, host, history
<1>1. CASE Start
  BY <1>1 DEF Start, BeginAt
<1>2. CASE ResumeInterrupted
  BY <1>2 DEF ResumeInterrupted, BeginAt
<1>3. ASSUME NEW d \in Decisions, Resume(d)
      PROVE  Stage'
  BY <1>3 DEF Resume, BeginAt
<1>4. CASE EnterRefused
  BY <1>4 DEF EnterRefused, Return
<1>5. CASE RegisterRun
  BY <1>5 DEF RegisterRun
<1>6. CASE Finish
  BY <1>6 DEF Finish
<1>7. CASE FunctionStep
  BY <1>7 DEF FunctionStep, AtStep, StepReturns
<1>8. CASE GateAnswered
  BY <1>8 DEF GateAnswered, AtStep, StepReturns
<1>9. CASE GateUnanswered
  BY <1>9 DEF GateUnanswered, AtStep
<1>10. CASE SaveRequest
  BY <1>10, CurrentInputType, NoValueIsNone DEF SaveRequest
<1>11. CASE SurfaceSuspension
  BY <1>11 DEF SurfaceSuspension
<1>12. CASE SuspendRun
  BY <1>12 DEF SuspendRun
<1>13. CASE BuildSuspendedRun
  BY <1>13 DEF BuildSuspendedRun, Return
<1>14. CASE SaveCursor
  BY <1>14 DEF SaveCursor
<1>15. CASE AppendStep
  BY <1>15 DEF AppendStep
<1>16. CASE NoStepCheckpoint
  BY <1>16 DEF NoStepCheckpoint
<1>17. CASE CompleteRun
  BY <1>17 DEF CompleteRun, Return
<1>18. CASE FailRun
  BY <1>18 DEF FailRun, Return
<1>19. CASE StepRaises
  BY <1>19 DEF StepRaises, AtStep
<1>20. CASE StoreRaises
  BY <1>20 DEF StoreRaises, AtStep
<1>21. CASE HostSeesStoreError
  BY <1>21 DEF HostSeesStoreError, Return
<1>22. CASE Crash
  BY <1>22 DEF Crash, Return
<1>23. CASE Cancel
  BY <1>23 DEF Cancel
<1>24. ASSUME NEW g \in Gates, NEW d \in Decisions, Respond(g, d) PROVE Stage'
  BY <1>24 DEF Respond
<1>25. CASE UNCHANGED vars
  BY <1>25 DEF vars
<1> QED
  BY <1>1, <1>2, <1>3, <1>4, <1>5, <1>6, <1>7, <1>8, <1>9, <1>10, <1>11, <1>12,
     <1>13, <1>14, <1>15, <1>16, <1>17, <1>18, <1>19, <1>20, <1>21, <1>22, <1>23, <1>24, <1>25
     DEF Next, Drive, Work, Trouble, Human

\* Every step keeps the worker's results an extension of the recorded ones.
LEMMA PrefixStep ==
    ASSUME TypeOK, TypeOK', Position, Position', Stage, Prefix, [Next]_vars
    PROVE  Prefix'
<1> USE NAssumption DEF TypeOK, Prefix, Position, Driving, InCursorWrite, Recorded, Ckpt, NoCkpt, stores, worker, host, history
<1>1. CASE Start
  BY <1>1 DEF Start, BeginAt
<1>2. CASE ResumeInterrupted
  BY <1>2 DEF ResumeInterrupted, BeginAt
<1>3. ASSUME NEW d \in Decisions, Resume(d)
      PROVE  Prefix'
  BY <1>3 DEF Resume, BeginAt
<1>4. CASE EnterRefused
  BY <1>4 DEF EnterRefused, Return
<1>5. CASE RegisterRun
  BY <1>5 DEF RegisterRun
<1>6. CASE Finish
  BY <1>6 DEF Finish
<1>7. CASE FunctionStep
  BY <1>7 DEF FunctionStep, AtStep, StepReturns
<1>8. CASE GateAnswered
  BY <1>8 DEF GateAnswered, AtStep, StepReturns
<1>9. CASE GateUnanswered
  BY <1>9 DEF GateUnanswered, AtStep
<1>10. CASE SaveRequest
  BY <1>10 DEF SaveRequest
<1>11. CASE SurfaceSuspension
  BY <1>11 DEF SurfaceSuspension
<1>12. CASE SuspendRun
  BY <1>12 DEF SuspendRun
<1>13. CASE BuildSuspendedRun
  BY <1>13 DEF BuildSuspendedRun, Return
<1>14. CASE SaveCursor
  BY <1>14 DEF SaveCursor
<1>15. CASE AppendStep
  BY <1>15 DEF AppendStep
<1>16. CASE NoStepCheckpoint
  BY <1>16 DEF NoStepCheckpoint
<1>17. CASE CompleteRun
  BY <1>17 DEF CompleteRun, Return
<1>18. CASE FailRun
  BY <1>18 DEF FailRun, Return
<1>19. CASE StepRaises
  BY <1>19 DEF StepRaises, AtStep
<1>20. CASE StoreRaises
  BY <1>20 DEF StoreRaises
<1>21. CASE HostSeesStoreError
  BY <1>21 DEF HostSeesStoreError, Return
<1>22. CASE Crash
  BY <1>22 DEF Crash, Return
<1>23. CASE Cancel
  BY <1>23 DEF Cancel
<1>24. ASSUME NEW g \in Gates, NEW d \in Decisions, Respond(g, d) PROVE Prefix'
  BY <1>24 DEF Respond
<1>25. CASE UNCHANGED vars
  BY <1>25 DEF vars
<1> QED
  BY <1>1, <1>2, <1>3, <1>4, <1>5, <1>6, <1>7, <1>8, <1>9, <1>10, <1>11, <1>12,
     <1>13, <1>14, <1>15, <1>16, <1>17, <1>18, <1>19, <1>20, <1>21, <1>22, <1>23, <1>24, <1>25
     DEF Next, Drive, Work, Trouble, Human

\* No step passes a gate without a stored decision.
LEMMA AnsweredStep ==
    ASSUME TypeOK, TypeOK', Position, Position', Stage, Prefix, Answered, [Next]_vars
    PROVE  Answered'
<1> USE NAssumption DEF TypeOK, Answered, Prefix, Position, Driving, InCursorWrite, Recorded, GatesHold, Ckpt, NoCkpt, stores, worker, host, history
<1>1. CASE Start
  BY <1>1 DEF Start, BeginAt
<1>2. CASE ResumeInterrupted
  BY <1>2 DEF ResumeInterrupted, BeginAt
<1>3. ASSUME NEW d \in Decisions, Resume(d)
      PROVE  Answered'
  BY <1>3 DEF Resume, BeginAt, Stage, Suspended, Decisions, NoDecision
<1>4. CASE EnterRefused
  BY <1>4 DEF EnterRefused, Return
<1>5. CASE RegisterRun
  BY <1>5 DEF RegisterRun
<1>6. CASE Finish
  BY <1>6 DEF Finish
<1>7. CASE FunctionStep
  <2>1. \A g \in Gates : g < index => responses[g] # NoDecision
    BY <1>7 DEF FunctionStep, AtStep
  <2>2. GatesHold'
    <3> SUFFICES ASSUME NEW g \in Gates, NEW i \in Steps, g < i, effects'[i] > 0
                 PROVE  responses'[g] # NoDecision
      OBVIOUS
    <3>1. CASE i = index
      BY <1>7, <2>1, <3>1 DEF FunctionStep, StepReturns
    <3>2. CASE i # index
      BY <1>7, <3>2 DEF FunctionStep, StepReturns, RecordEffect
    <3> QED BY <3>1, <3>2
  <2>3. \A g \in Gates : g \in Nat /\ (g < index + 1 => g < index)
    BY <1>7 DEF FunctionStep, AtStep, Steps
  <2> QED BY <1>7, <2>1, <2>2, <2>3 DEF FunctionStep, AtStep, StepReturns
<1>8. CASE GateAnswered
  BY <1>8 DEF GateAnswered, AtStep, StepReturns, Steps
<1>9. CASE GateUnanswered
  BY <1>9 DEF GateUnanswered, AtStep
<1>10. CASE SaveRequest
  BY <1>10 DEF SaveRequest
<1>11. CASE SurfaceSuspension
  BY <1>11 DEF SurfaceSuspension
<1>12. CASE SuspendRun
  BY <1>12 DEF SuspendRun
<1>13. CASE BuildSuspendedRun
  BY <1>13 DEF BuildSuspendedRun, Return
<1>14. CASE SaveCursor
  BY <1>14 DEF SaveCursor
<1>15. CASE AppendStep
  BY <1>15 DEF AppendStep
<1>16. CASE NoStepCheckpoint
  BY <1>16 DEF NoStepCheckpoint
<1>17. CASE CompleteRun
  BY <1>17 DEF CompleteRun, Return
<1>18. CASE FailRun
  BY <1>18 DEF FailRun, Return
<1>19. CASE StepRaises
  BY <1>19 DEF StepRaises, AtStep, RecordEffect
<1>20. CASE StoreRaises
  BY <1>20 DEF StoreRaises
<1>21. CASE HostSeesStoreError
  BY <1>21 DEF HostSeesStoreError, Return
<1>22. CASE Crash
  BY <1>22 DEF Crash, Return
<1>23. CASE Cancel
  BY <1>23 DEF Cancel
<1>24. ASSUME NEW g \in Gates, NEW d \in Decisions, Respond(g, d) PROVE Answered'
  BY <1>24 DEF Respond
<1>25. CASE UNCHANGED vars
  BY <1>25 DEF vars
<1> QED
  BY <1>1, <1>2, <1>3, <1>4, <1>5, <1>6, <1>7, <1>8, <1>9, <1>10, <1>11, <1>12,
     <1>13, <1>14, <1>15, <1>16, <1>17, <1>18, <1>19, <1>20, <1>21, <1>22, <1>23, <1>24, <1>25
     DEF Next, Drive, Work, Trouble, Human

\* Every step keeps requests and gate results in line with the log.
LEMMA ShownStep ==
    ASSUME TypeOK, TypeOK', Position, Position', Stage, Prefix, Answered, Shown, [Next]_vars
    PROVE  Shown'
<1> USE NAssumption DEF TypeOK, Shown, GateResultOK, InputAt, Prefix, Position, Driving, InCursorWrite, Recorded, Ckpt, NoCkpt, stores, worker, host, history
<1>1. CASE Start
  BY <1>1 DEF Start, BeginAt
<1>2. CASE ResumeInterrupted
  BY <1>2 DEF ResumeInterrupted, BeginAt
<1>3. ASSUME NEW d \in Decisions, Resume(d)
      PROVE  Shown'
  BY <1>3 DEF Resume, BeginAt
<1>4. CASE EnterRefused
  BY <1>4 DEF EnterRefused, Return
<1>5. CASE RegisterRun
  BY <1>5 DEF RegisterRun
<1>6. CASE Finish
  BY <1>6 DEF Finish
<1>7. CASE FunctionStep
  <2>1. Len(done') = index + 1 /\ \A k \in 1..index : done'[k] = done[k]
    BY <1>7 DEF FunctionStep, AtStep, StepReturns
  <2>2. \A g \in Gates : g \in Nat /\ g # index
    BY <1>7 DEF FunctionStep, AtStep, Steps
  <2>3. UNCHANGED <<stepCheckpoints, ckpt, requests, responses>> /\ pc = "top"
    BY <1>7 DEF FunctionStep, AtStep, StepReturns
  <2>4. \A g \in Gates : stepCheckpoints = "on" => GateResultOK(done, g)'
    BY <2>1, <2>2, <2>3
  <2> QED BY <2>3, <2>4
<1>8. CASE GateAnswered
  <2>1. Len(done') = index + 1 /\ \A k \in 1..index : done'[k] = done[k]
    BY <1>8 DEF GateAnswered, AtStep, StepReturns
  <2>2. \A g \in Gates : g \in Nat
    BY DEF Steps
  <2>3. UNCHANGED <<stepCheckpoints, ckpt, requests, responses>> /\ pc = "top" /\ index \in Gates
    BY <1>8 DEF GateAnswered, AtStep, StepReturns
  <2>4. ASSUME stepCheckpoints = "on"
        PROVE  done'[index + 1] = GateOutput(index, responses[index], requests[index])
    <3>1. requests[index] = InputAt(Recorded, index)
      BY <1>8, <2>3, <2>4 DEF GateAnswered, Answered
    <3>2. CurrentInput(done) = InputAt(done, index)
      BY <2>3, CurrentInputAt
    <3>3. InputAt(done, index) = InputAt(Recorded, index)
      BY <2>3, <2>4
    <3> QED BY <1>8, <2>3, <3>1, <3>2, <3>3 DEF GateAnswered, AtStep, StepReturns
  <2>5. ASSUME NEW g \in Gates, stepCheckpoints = "on", g < index + 1
        PROVE  done'[g + 1] = GateOutput(g, responses[g], requests[g])
    <3>1. CASE g = index
      BY <2>4, <2>5, <3>1
    <3>2. CASE g # index
      BY <2>1, <2>2, <2>3, <2>5, <3>2
    <3> QED BY <3>1, <3>2
  <2> QED BY <2>1, <2>2, <2>3, <2>5
<1>9. CASE GateUnanswered
  BY <1>9 DEF GateUnanswered, AtStep
<1>10. CASE SaveRequest
  <2>1. UNCHANGED <<stepCheckpoints, ckpt, responses, done>> /\ pc = "ask" /\ index \in Gates
    BY <1>10 DEF SaveRequest, Stage
  <2>2. ASSUME stepCheckpoints = "on"
        PROVE  Len(Recorded) = index /\ CurrentInput(done) = InputAt(Recorded, index)
    <3>1. CurrentInput(done) = InputAt(done, index)
      BY <2>1, CurrentInputAt
    <3> QED BY <2>1, <2>2, <3>1
  <2>3. ASSUME NEW g \in Gates, stepCheckpoints = "on", requests'[g] # NoValue
        PROVE  g <= Len(Recorded) /\ requests'[g] = InputAt(Recorded, g)
    BY <1>10, <2>1, <2>2, <2>3 DEF SaveRequest
  <2>4. ASSUME NEW g \in Gates, stepCheckpoints = "on"
        PROVE  GateResultOK(Recorded, g)' /\ GateResultOK(done, g)'
    <3>1. g < Len(Recorded) => requests[g] # NoValue
      BY <2>4 DEF Answered
    <3>2. g < Len(Recorded) => requests'[g] = requests[g]
      BY <1>10, <3>1 DEF SaveRequest
    <3> QED BY <2>1, <2>2, <2>4, <3>2
  <2> QED BY <2>1, <2>3, <2>4
<1>11. CASE SurfaceSuspension
  <2>1. UNCHANGED <<stepCheckpoints, requests, responses, done>> /\ Recorded' = done
    BY <1>11 DEF SurfaceSuspension
  <2>2. pc = "surface" /\ (stepCheckpoints = "on" => Len(done) = Len(Recorded))
    BY <1>11 DEF SurfaceSuspension
  <2>3. Driving /\ \A k \in 1..Len(Recorded) : done[k] = Recorded[k]
    BY <2>2
  <2>4. ASSUME NEW g \in Gates, g <= Len(Recorded)
        PROVE  InputAt(done, g) = InputAt(Recorded, g)
    <3>1. g \in Nat
      BY DEF Steps
    <3> QED BY <2>3, <2>4, <3>1
  <2> QED BY <2>1, <2>2, <2>3, <2>4
<1>12. CASE SuspendRun
  BY <1>12 DEF SuspendRun
<1>13. CASE BuildSuspendedRun
  BY <1>13 DEF BuildSuspendedRun, Return
<1>14. CASE SaveCursor
  <2>1. UNCHANGED <<stepCheckpoints, requests, responses, done>> /\ Recorded' = done
    BY <1>14 DEF SaveCursor
  <2>2. pc = "cursor" /\ stepCheckpoints = "on" /\ Len(done) = index + 1 /\ Len(Recorded) = index
    BY <1>14 DEF SaveCursor
  <2>3. ASSUME NEW g \in Gates, g <= Len(Recorded)
        PROVE  InputAt(done, g) = InputAt(Recorded, g)
    <3>1. Driving /\ \A k \in 1..Len(Recorded) : done[k] = Recorded[k]
      BY <2>2
    <3>2. g \in Nat
      BY DEF Steps
    <3> QED BY <2>3, <3>1, <3>2
  <2>4. ASSUME NEW g \in Gates, requests[g] # NoValue
        PROVE  g <= Len(done) /\ requests[g] = InputAt(done, g)
    <3>1. g \in Nat
      BY DEF Steps
    <3>2. g <= Len(Recorded) /\ requests[g] = InputAt(Recorded, g)
      BY <2>2, <2>4
    <3>3. InputAt(done, g) = InputAt(Recorded, g)
      BY <2>3, <3>2
    <3> QED BY <2>2, <3>1, <3>2, <3>3
  <2>5. \A g \in Gates : GateResultOK(done, g)
    BY <2>2
  <2> QED BY <2>1, <2>4, <2>5
<1>15. CASE AppendStep
  BY <1>15 DEF AppendStep
<1>16. CASE NoStepCheckpoint
  BY <1>16 DEF NoStepCheckpoint
<1>17. CASE CompleteRun
  BY <1>17 DEF CompleteRun, Return
<1>18. CASE FailRun
  BY <1>18 DEF FailRun, Return
<1>19. CASE StepRaises
  BY <1>19 DEF StepRaises, AtStep
<1>20. CASE StoreRaises
  BY <1>20 DEF StoreRaises
<1>21. CASE HostSeesStoreError
  BY <1>21 DEF HostSeesStoreError, Return
<1>22. CASE Crash
  BY <1>22 DEF Crash, Return
<1>23. CASE Cancel
  BY <1>23 DEF Cancel
<1>24. ASSUME NEW g \in Gates, NEW d \in Decisions, Respond(g, d) PROVE Shown'
  <2>1. UNCHANGED <<stepCheckpoints, ckpt, requests, pc, done>>
    BY <1>24 DEF Respond
  <2>2. responses[g] = NoDecision /\ responses' = [responses EXCEPT ![g] = d]
    BY <1>24 DEF Respond
  <2>3. ~(g < Len(Recorded)) /\ (Driving => ~(g < Len(done)))
    BY <2>2 DEF Answered
  <2>4. \A h \in Gates : h # g => responses'[h] = responses[h]
    BY <2>2
  <2> QED BY <2>1, <2>3, <2>4
<1>25. CASE UNCHANGED vars
  BY <1>25 DEF vars
<1> QED
  BY <1>1, <1>2, <1>3, <1>4, <1>5, <1>6, <1>7, <1>8, <1>9, <1>10, <1>11, <1>12,
     <1>13, <1>14, <1>15, <1>16, <1>17, <1>18, <1>19, <1>20, <1>21, <1>22, <1>23, <1>24, <1>25
     DEF Next, Drive, Work, Trouble, Human

\* The journal never overtakes the cursor.
LEMMA JournalStep ==
    ASSUME TypeOK, TypeOK', Position, Position', Prefix, JournalBehind, [Next]_vars
    PROVE  JournalBehind'
<1> USE NAssumption DEF TypeOK, JournalBehind, Prefix, Position, Driving, InCursorWrite, Recorded, Ckpt, NoCkpt, stores, worker, host, history
<1>1. CASE Start
  BY <1>1 DEF Start, BeginAt
<1>2. CASE ResumeInterrupted
  BY <1>2 DEF ResumeInterrupted, BeginAt
<1>3. ASSUME NEW d \in Decisions, Resume(d)
      PROVE  JournalBehind'
  BY <1>3 DEF Resume, BeginAt
<1>4. CASE EnterRefused
  BY <1>4 DEF EnterRefused, Return
<1>5. CASE RegisterRun
  BY <1>5 DEF RegisterRun
<1>6. CASE Finish
  BY <1>6 DEF Finish
<1>7. CASE FunctionStep
  BY <1>7 DEF FunctionStep, AtStep, StepReturns
<1>8. CASE GateAnswered
  BY <1>8 DEF GateAnswered, AtStep, StepReturns
<1>9. CASE GateUnanswered
  BY <1>9 DEF GateUnanswered, AtStep
<1>10. CASE SaveRequest
  BY <1>10 DEF SaveRequest
<1>11. CASE SurfaceSuspension
  BY <1>11 DEF SurfaceSuspension
<1>12. CASE SuspendRun
  BY <1>12 DEF SuspendRun
<1>13. CASE BuildSuspendedRun
  BY <1>13 DEF BuildSuspendedRun, Return
<1>14. CASE SaveCursor
  <2>1. Len(Recorded) = index /\ Len(Recorded') = index + 1
    BY <1>14 DEF SaveCursor
  <2>2. \A i \in journal : i \in Nat /\ i < index
    BY <2>1 DEF Steps
  <2>3. \A i \in journal' : i < index + 1
    BY <1>14, <2>2 DEF SaveCursor
  <2> QED BY <1>14, <2>1, <2>3 DEF SaveCursor
<1>15. CASE AppendStep
  <2>1. Len(Recorded) = index + 1 /\ UNCHANGED ckpt
    BY <1>15 DEF AppendStep
  <2>2. \A i \in journal' : i < Len(Recorded)
    BY <1>15, <2>1 DEF AppendStep
  <2> QED BY <1>15, <2>1, <2>2 DEF AppendStep
<1>16. CASE NoStepCheckpoint
  BY <1>16 DEF NoStepCheckpoint
<1>17. CASE CompleteRun
  BY <1>17 DEF CompleteRun, Return
<1>18. CASE FailRun
  BY <1>18 DEF FailRun, Return
<1>19. CASE StepRaises
  BY <1>19 DEF StepRaises, AtStep
<1>20. CASE StoreRaises
  BY <1>20 DEF StoreRaises
<1>21. CASE HostSeesStoreError
  BY <1>21 DEF HostSeesStoreError, Return
<1>22. CASE Crash
  BY <1>22 DEF Crash, Return
<1>23. CASE Cancel
  BY <1>23 DEF Cancel
<1>24. ASSUME NEW g \in Gates, NEW d \in Decisions, Respond(g, d) PROVE JournalBehind'
  BY <1>24 DEF Respond
<1>25. CASE UNCHANGED vars
  BY <1>25 DEF vars
<1> QED
  BY <1>1, <1>2, <1>3, <1>4, <1>5, <1>6, <1>7, <1>8, <1>9, <1>10, <1>11, <1>12,
     <1>13, <1>14, <1>15, <1>16, <1>17, <1>18, <1>19, <1>20, <1>21, <1>22, <1>23, <1>24, <1>25
     DEF Next, Drive, Work, Trouble, Human

\* A replay is always paid for by an interruption.
LEMMA ReplaysStep ==
    ASSUME TypeOK, TypeOK', Position, Position', Prefix, Replays, [Next]_vars
    PROVE  Replays'
<1> USE NAssumption DEF TypeOK, Replays, Debt, Prefix, Position, Driving, InCursorWrite, Recorded, Interrupt, RecordEffect, Ckpt, NoCkpt, stores, worker, host, history
<1>1. CASE Start
  BY <1>1 DEF Start, BeginAt
<1>2. CASE ResumeInterrupted
  BY <1>2 DEF ResumeInterrupted, BeginAt
<1>3. ASSUME NEW d \in Decisions, Resume(d)
      PROVE  Replays'
  BY <1>3 DEF Resume, BeginAt
<1>4. CASE EnterRefused
  BY <1>4 DEF EnterRefused, Return
<1>5. CASE RegisterRun
  BY <1>5 DEF RegisterRun
<1>6. CASE Finish
  BY <1>6 DEF Finish
<1>7. CASE FunctionStep
  BY <1>7 DEF FunctionStep, AtStep, StepReturns
<1>8. CASE GateAnswered
  BY <1>8 DEF GateAnswered, AtStep, StepReturns
<1>9. CASE GateUnanswered
  BY <1>9 DEF GateUnanswered, AtStep
<1>10. CASE SaveRequest
  BY <1>10 DEF SaveRequest
<1>11. CASE SurfaceSuspension
  BY <1>11 DEF SurfaceSuspension
<1>12. CASE SuspendRun
  BY <1>12 DEF SuspendRun
<1>13. CASE BuildSuspendedRun
  BY <1>13 DEF BuildSuspendedRun, Return
<1>14. CASE SaveCursor
  <2> SUFFICES ASSUME stepCheckpoints = "on" PROVE Replays'
    BY <1>14 DEF SaveCursor
  <2>1. UNCHANGED <<effects, replays, interruptions>> /\ Len(Recorded) = index /\ Len(Recorded') = index + 1
    BY <1>14 DEF SaveCursor
  <2>2. \A i \in Steps : i > index => effects[i] = 0
    BY <2>1
  <2>3. Debt' = 0
    BY <2>1, <2>2 DEF Steps
  <2> QED BY <1>14, <2>1, <2>2, <2>3 DEF SaveCursor, Steps
<1>15. CASE AppendStep
  BY <1>15 DEF AppendStep
<1>16. CASE NoStepCheckpoint
  BY <1>16 DEF NoStepCheckpoint
<1>17. CASE CompleteRun
  BY <1>17 DEF CompleteRun, Return
<1>18. CASE FailRun
  BY <1>18 DEF FailRun, Return
<1>19. CASE StepRaises
  <2>1. CASE UNCHANGED <<effects, replays>>
    BY <1>19, <2>1 DEF StepRaises, AtStep
  <2>2. CASE RecordEffect
    <3> SUFFICES ASSUME stepCheckpoints = "on" PROVE Replays'
      BY <1>19 DEF StepRaises
    <3>1. UNCHANGED Recorded /\ Len(Recorded) = index /\ pc = "top" /\ index < N /\ index \in Steps
      BY <1>19 DEF StepRaises, AtStep, Steps
    <3>2. \A i \in Steps : i > index => effects'[i] = 0
      BY <1>19, <2>2, <3>1 DEF StepRaises, Steps
    <3>3. Debt' <= 1 /\ Debt' \in Nat
      OBVIOUS
    <3>4. replays' = replays + Debt /\ interruptions' = interruptions + 1
      BY <1>19, <2>2, <3>1 DEF StepRaises
    <3> QED BY <3>1, <3>2, <3>3, <3>4
  <2> QED BY <1>19, <2>1, <2>2 DEF StepRaises
<1>20. CASE StoreRaises
  BY <1>20 DEF StoreRaises
<1>21. CASE HostSeesStoreError
  BY <1>21 DEF HostSeesStoreError, Return
<1>22. CASE Crash
  BY <1>22 DEF Crash, Return
<1>23. CASE Cancel
  BY <1>23 DEF Cancel
<1>24. ASSUME NEW g \in Gates, NEW d \in Decisions, Respond(g, d) PROVE Replays'
  BY <1>24 DEF Respond
<1>25. CASE UNCHANGED vars
  BY <1>25 DEF vars
<1> QED
  BY <1>1, <1>2, <1>3, <1>4, <1>5, <1>6, <1>7, <1>8, <1>9, <1>10, <1>11, <1>12,
     <1>13, <1>14, <1>15, <1>16, <1>17, <1>18, <1>19, <1>20, <1>21, <1>22, <1>23, <1>24, <1>25
     DEF Next, Drive, Work, Trouble, Human

\* What the worker of a run with step checkpoints holds between two steps is what
\* the log ends with.
LEMMA AnswerIsLastEntry ==
    ASSUME TypeOK, Position, Prefix, pc = "complete", stepCheckpoints = "on"
    PROVE  Len(Recorded) = index /\ CurrentInput(done) = InputAt(Recorded, index)
<1>1. done \in Seq(Value) /\ Len(done) = index /\ Len(Recorded) = index /\ index \in Nat
  BY NAssumption DEF TypeOK, Position, Prefix, Driving, InCursorWrite
<1>2. \A k \in 1..index : done[k] = Recorded[k]
  BY <1>1 DEF Prefix, Driving
<1>3. InputAt(done, index) = InputAt(Recorded, index)
  BY <1>1, <1>2 DEF InputAt
<1> QED BY <1>1, <1>3, CurrentInputAt

\* What an answer says of the log stays true.
LEMMA AnswerStep ==
    ASSUME TypeOK, TypeOK', Position, Position', Prefix, AnswerOK, [Next]_vars
    PROVE  AnswerOK'
<1> USE NAssumption DEF TypeOK, AnswerOK, InputAt, CurrentInput, Prefix, Position, Driving, InCursorWrite, Recorded, Interrupt, RecordEffect, Ckpt, NoCkpt, stores, worker, host, history
<1>1. CASE Start
  BY <1>1 DEF Start, BeginAt
<1>2. CASE ResumeInterrupted
  BY <1>2 DEF ResumeInterrupted, BeginAt
<1>3. ASSUME NEW d \in Decisions, Resume(d)
      PROVE  AnswerOK'
  BY <1>3 DEF Resume, BeginAt
<1>4. CASE EnterRefused
  BY <1>4 DEF EnterRefused, Return
<1>5. CASE RegisterRun
  BY <1>5 DEF RegisterRun
<1>6. CASE Finish
  BY <1>6 DEF Finish
<1>7. CASE FunctionStep
  BY <1>7 DEF FunctionStep, AtStep, StepReturns
<1>8. CASE GateAnswered
  BY <1>8 DEF GateAnswered, AtStep, StepReturns
<1>9. CASE GateUnanswered
  BY <1>9 DEF GateUnanswered, AtStep
<1>10. CASE SaveRequest
  BY <1>10 DEF SaveRequest
<1>11. CASE SurfaceSuspension
  <2> SUFFICES ASSUME stepCheckpoints = "on", answer # NoAnswer PROVE AnswerOK'
    BY <1>11 DEF SurfaceSuspension
  <2>1. Recorded' = done /\ UNCHANGED <<stepCheckpoints, answer>> /\ Driving
    BY <1>11 DEF SurfaceSuspension
  <2>2. answer.executed \in Nat /\ answer.executed <= Len(Recorded)
    BY DEF Answer
  <2>3. InputAt(done, answer.executed) = InputAt(Recorded, answer.executed)
    BY <2>1, <2>2
  <2> QED BY <2>1, <2>2, <2>3
<1>12. CASE SuspendRun
  BY <1>12 DEF SuspendRun
<1>13. CASE BuildSuspendedRun
  BY <1>13 DEF BuildSuspendedRun, Return
<1>14. CASE SaveCursor
  <2> SUFFICES ASSUME stepCheckpoints = "on", answer # NoAnswer PROVE AnswerOK'
    BY <1>14 DEF SaveCursor
  <2>1. Recorded' = done /\ UNCHANGED <<stepCheckpoints, answer>> /\ Driving
    BY <1>14 DEF SaveCursor
  <2>2. answer.executed \in Nat /\ answer.executed <= Len(Recorded)
    BY DEF Answer
  <2>3. InputAt(done, answer.executed) = InputAt(Recorded, answer.executed)
    BY <2>1, <2>2
  <2> QED BY <2>1, <2>2, <2>3
<1>15. CASE AppendStep
  BY <1>15 DEF AppendStep
<1>16. CASE NoStepCheckpoint
  BY <1>16 DEF NoStepCheckpoint
<1>17. CASE CompleteRun
  BY <1>17 DEF CompleteRun, Return
<1>18. CASE FailRun
  BY <1>18 DEF FailRun, Return
<1>19. CASE StepRaises
  BY <1>19 DEF StepRaises, AtStep
<1>20. CASE StoreRaises
  BY <1>20 DEF StoreRaises
<1>21. CASE HostSeesStoreError
  BY <1>21 DEF HostSeesStoreError, Return
<1>22. CASE Crash
  BY <1>22 DEF Crash, Return
<1>23. CASE Cancel
  BY <1>23 DEF Cancel
<1>24. ASSUME NEW g \in Gates, NEW d \in Decisions, Respond(g, d) PROVE AnswerOK'
  BY <1>24 DEF Respond
<1>25. CASE UNCHANGED vars
  BY <1>25 DEF vars
<1> QED
  BY <1>1, <1>2, <1>3, <1>4, <1>5, <1>6, <1>7, <1>8, <1>9, <1>10, <1>11, <1>12,
     <1>13, <1>14, <1>15, <1>16, <1>17, <1>18, <1>19, <1>20, <1>21, <1>22, <1>23, <1>24, <1>25
     DEF Next, Drive, Work, Trouble, Human

----------------------------------------------------------------------------
\* The inductive invariant holds in every reachable state.
THEOREM Inductive == Spec => []IInv
<1>1. Init => IInv
  <2> SUFFICES ASSUME Init PROVE IInv
    OBVIOUS
  <2>1. TypeOK
    BY InitTypeOK
  <2> QED
    BY <2>1, NAssumption
       DEF Init, IInv, Position, Stage, Prefix, Answered, Shown, JournalBehind, Replays,
           AnswerOK, Debt, GatesHold, GateResultOK, Driving, InCursorWrite, Recorded,
           NoCkpt, Suspended, Steps
<1>2. IInv /\ [Next]_vars => IInv'
  <2> SUFFICES ASSUME IInv, [Next]_vars PROVE IInv'
    OBVIOUS
  <2>1. TypeOK /\ TypeOK'
    BY TypeStep DEF IInv
  <2>2. Position /\ Position'
    BY <2>1, PositionStep DEF IInv
  <2>3. Stage /\ Stage'
    BY <2>1, <2>2, StageStep DEF IInv
  <2>4. Prefix /\ Prefix'
    BY <2>1, <2>2, <2>3, PrefixStep DEF IInv
  <2>5. Answered /\ Answered'
    BY <2>1, <2>2, <2>3, <2>4, AnsweredStep DEF IInv
  <2>6. Shown'
    BY <2>1, <2>2, <2>3, <2>4, <2>5, ShownStep DEF IInv
  <2>7. JournalBehind'
    BY <2>1, <2>2, <2>4, JournalStep DEF IInv
  <2>8. Replays'
    BY <2>1, <2>2, <2>4, ReplaysStep DEF IInv
  <2>9. AnswerOK'
    BY <2>1, <2>2, <2>4, AnswerStep DEF IInv
  <2> QED
    BY <2>1, <2>2, <2>3, <2>4, <2>5, <2>6, <2>7, <2>8, <2>9 DEF IInv
<1> QED BY <1>1, <1>2, PTL DEF Spec

\* No side effect behind a gate happens before a human decided at the gate.
THEOREM GatesAlwaysHold == Spec => []GatesHold
<1>1. IInv => GatesHold
  BY DEF IInv, Answered
<1> QED BY <1>1, Inductive, PTL

\* With step checkpoints a recorded gate result is the stored decision applied to
\* the value the stored request shows the human.
THEOREM DecisionIsApplied == Spec => []GateAppliesStoredDecision
<1>1. IInv => GateAppliesStoredDecision
  BY DEF IInv, Answered, Shown, GateResultOK, GateAppliesStoredDecision
<1> QED BY <1>1, Inductive, PTL

\* Each interruption of a run with step checkpoints costs at most one repeated step.
THEOREM ReplaysAreBounded == Spec => []ReplayWindow
<1>1. IInv => ReplayWindow
  <2> SUFFICES ASSUME IInv, stepCheckpoints = "on" PROVE replays <= interruptions
    BY DEF ReplayWindow
  <2>1. Debt \in Nat /\ replays \in Nat /\ interruptions \in Nat
    BY DEF Debt, IInv, TypeOK
  <2>2. replays + Debt <= interruptions
    BY DEF IInv, Replays
  <2> QED BY <2>1, <2>2
<1> QED BY <1>1, Inductive, PTL

\* Whatever calls itself suspended has a checkpoint that resume accepts.
THEOREM SuspensionsAreResumable == Spec => []SuspensionIsResumable
<1>1. IInv => SuspensionIsResumable
  BY DEF IInv, Stage, SuspensionIsResumable
<1> QED BY <1>1, Inductive, PTL

\* No step repeats the side effect of a journaled step.
THEOREM JournaledStepsAreNotRepeated == Spec => JournaledStepsRunOnce
<1>1. IInv /\ [Next]_vars => [\A i \in journal : effects'[i] = effects[i]]_vars
  <2> SUFFICES ASSUME IInv, Next, NEW i \in journal PROVE effects'[i] = effects[i]
    BY DEF vars
  <2>1. TypeOK /\ i \in Steps
    BY DEF IInv, TypeOK
  <2>2. CASE UNCHANGED effects
    BY <2>2
  <2>3. CASE AtStep /\ RecordEffect
    <3>1. i < Len(Recorded) /\ Len(Recorded) <= Len(done) /\ Len(done) = index
      BY <2>3 DEF IInv, JournalBehind, Prefix, Position, AtStep, Driving, InCursorWrite
    <3>2. Len(Recorded) \in Nat /\ index \in Nat /\ i \in Nat
      BY <2>1, NAssumption DEF TypeOK, Recorded, Ckpt, NoCkpt, Steps
    <3>3. i # index
      BY <3>1, <3>2
    <3> QED BY <2>1, <2>3, <3>3 DEF RecordEffect, TypeOK
  <2>4. UNCHANGED effects \/ (AtStep /\ RecordEffect)
    BY DEF Next, Drive, Work, Trouble, Human, Start, ResumeInterrupted, Resume, BeginAt,
       EnterRefused, RegisterRun, Finish, FunctionStep, GateAnswered, GateUnanswered, SaveRequest,
       SurfaceSuspension, SuspendRun, BuildSuspendedRun, SaveCursor, AppendStep,
       NoStepCheckpoint, CompleteRun, FailRun, StepRaises, StoreRaises, HostSeesStoreError,
       Crash, Cancel, Respond, StepReturns, history
  <2> QED BY <2>2, <2>3, <2>4
<1> QED BY <1>1, Inductive, PTL DEF Spec, JournaledStepsRunOnce

\* Every run implements the promise of DurableLog: the results of completed steps
\* are a log that only grows, and every answer, a cancelled run's too, says what the
\* log says.
THEOREM PromiseIsKept == Spec => PromiseKept
<1>1. Init => Promise!LogInit
  BY DEF Init, Promise!LogInit, Recorded
<1>2. IInv /\ IInv' /\ [Next]_vars => [Promise!LogNext]_(Promise!logVars)
  <2> SUFFICES ASSUME IInv, IInv', [Next]_vars PROVE [Promise!LogNext]_(Promise!logVars)
    OBVIOUS
  <2>1. CASE UNCHANGED <<stepCheckpoints, ckpt, answer>>
    BY <2>1 DEF Promise!logVars, Recorded
  <2>2. CASE SurfaceSuspension \/ SaveCursor
    <3>1. Recorded' = done /\ Driving /\ UNCHANGED <<stepCheckpoints, answer>>
      BY <2>2 DEF SurfaceSuspension, SaveCursor, Recorded, NoCkpt, Driving, host
    <3>2. Len(Recorded) <= Len(done) /\ \A k \in 1..Len(Recorded) : done[k] = Recorded[k]
      BY <3>1 DEF IInv, Prefix
    <3>3. Len(done) <= N
      BY <2>2, NAssumption
         DEF SurfaceSuspension, SaveCursor, IInv, TypeOK, Position, Driving, InCursorWrite
    <3> QED BY <3>1, <3>2, <3>3 DEF Promise!LogNext, Promise!Extend
  <2>3. CASE CompleteRun
    <3>1. /\ UNCHANGED <<stepCheckpoints, Recorded>> /\ pc = "complete"
          /\ answer' = [output |-> CurrentInput(done), executed |-> index]
      BY <2>3 DEF CompleteRun, Recorded
    <3>2. answer'.executed \in Len(Recorded)..N
      BY <3>1, NAssumption
         DEF IInv, TypeOK, Position, Prefix, Driving, InCursorWrite, Recorded, Ckpt, NoCkpt
    <3>3. ASSUME stepCheckpoints = "on"
          PROVE  answer' = [output |-> Promise!LastEntry, executed |-> Len(Recorded)]
      <4>1. Len(Recorded) = index /\ CurrentInput(done) = InputAt(Recorded, index)
        BY <3>1, <3>3, AnswerIsLastEntry DEF IInv
      <4>2. Recorded \in Seq(Value)
        BY DEF IInv, TypeOK, Recorded, Ckpt, NoCkpt
      <4>3. Promise!LastEntry = InputAt(Recorded, Len(Recorded))
        BY <4>2, EmptySeq DEF Promise!LastEntry, InputAt
      <4> QED BY <3>1, <4>1, <4>3
    <3>4. ASSUME stepCheckpoints = "on", answer # NoAnswer
          PROVE  /\ answer.executed <= answer'.executed
                 /\ answer.executed = answer'.executed => answer' = answer
      <4>1. answer \in Answer /\ answer' \in Answer
        BY <3>1, <3>4, CurrentInputType DEF IInv, TypeOK, Answer
      <4>2. /\ answer.executed <= Len(Recorded) /\ answer.output = InputAt(Recorded, answer.executed)
            /\ answer'.executed <= Len(Recorded') /\ answer'.output = InputAt(Recorded', answer'.executed)
        BY <3>1, <3>4, <4>1, AnswerIsLastEntry DEF IInv, AnswerOK, InputAt
      <4>3. answer.executed <= answer'.executed
        BY <3>1, <3>3, <3>4, <4>2
      <4>4. ASSUME answer.executed = answer'.executed PROVE answer' = answer
        BY <3>1, <4>1, <4>2, <4>4 DEF Answer, InputAt
      <4> QED BY <4>3, <4>4
    <3> QED BY <3>1, <3>2, <3>3, <3>4 DEF Promise!LogNext, Promise!Report
  <2>4. \/ UNCHANGED <<stepCheckpoints, ckpt, answer>>
        \/ SurfaceSuspension \/ SaveCursor
        \/ CompleteRun
    BY DEF Next, Drive, Work, Trouble, Human, Start, ResumeInterrupted, Resume, BeginAt,
       EnterRefused, RegisterRun, Finish, FunctionStep, GateAnswered, GateUnanswered, SaveRequest,
       SuspendRun, BuildSuspendedRun, AppendStep, NoStepCheckpoint, CompleteRun, FailRun,
       StepRaises, StoreRaises, HostSeesStoreError, Crash, Cancel, Respond, StepReturns,
       stores, host, vars
  <2> QED BY <2>1, <2>2, <2>3, <2>4
<1> QED BY <1>1, <1>2, Inductive, PTL DEF Spec, PromiseKept, Promise!LogSpec
=============================================================================
