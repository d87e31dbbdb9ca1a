--------------------------- MODULE ReActDurableProofs ---------------------------
(***************************************************************************)
(* Proofs about ReActDurable, for any batches the LLM may ask for, any     *)
(* limits and grants and any number of crashes, cancellations, parks and   *)
(* suspensions: every call is answered when the LLM is asked again,        *)
(* recorded calls run once, and the limiters agree with the messages.      *)
(***************************************************************************)
EXTENDS ReActDurable, FiniteSetTheorems, TLAPS

----------------------------------------------------------------------------
(* The inductive invariant, in layers.                                     *)

Elems(th) == {th[k] : k \in DOMAIN th}
Latest(th) == th[Len(th)]

AgentType ==
    [thread : Seq(Ids), answers : [Calls -> 0..2], turn : Nat, iter : Nat, tools : Nat,
     rev : 0..MaxRevisions, at : 1..L, done : SUBSET (1..L), hit : 0..L]

\* TypeOK in two parts: what a snapshot has, and the rest.
Fields ==
    /\ thread \in Seq(Ids) /\ answers \in [Calls -> 0..2]
    /\ turn \in Nat /\ iter \in Nat /\ tools \in Nat /\ rev \in 0..MaxRevisions
    /\ at \in 1..L /\ done \subseteq 1..L /\ hit \in 0..L

Others ==
    /\ {stepCheckpoints, parks, explicit, evaluates, schema} \subseteq {"on", "off"}
    /\ ckpt.kind \in {"absent", "step", "suspend", "park", "end"}
    /\ answered \subseteq requested /\ requested \subseteq Calls
    /\ ceiling \in Nat /\ toolCeiling \in Nat
    /\ pc \in {"idle", "loop", "llm", "final", "dispatch", "limit", "save", "judge", "surface",
               "handle", "return", "refused"}
    /\ resumed \in {"yes", "no"} /\ token \in {"clear", "set"}
    /\ susp \in {"none", "hitl", "iteration_limit", "tool_call_limit"}
    /\ reason \in {"none", "complete", "finished", "return_direct", "cancelled",
                   "evaluation_failed", "iteration_limit", "tool_call_limit"}
    /\ outcome \in {"none", "running", "result", "suspended", "parked", "lost", "error", "crashed"}
    /\ batches \in Seq(Batches) /\ effects \in [Calls -> Nat] /\ interruptions \in Nat

\* A checkpoint of the agent is a record with exactly these fields.
Shape == HasAgent(ckpt) => ckpt.agent \in AgentType

\* The agent is inside a batch, or suspended there.
InBatch == pc = "dispatch" \/ (pc \in {"surface", "handle"} /\ susp = "hitl")
Parking == pc \in {"surface", "handle"} /\ susp # "hitl"

\* Which batches messages and checkpoint hold, and where in them the agent is.
Stage ==
    /\ pc \in {"idle", "refused"} =>
          /\ thread = <<>> /\ answers = Unanswered
          /\ turn = 0 /\ iter = 0 /\ tools = 0 /\ rev = 0
    /\ Elems(thread) \subseteq 1..Len(batches)
    /\ HasAgent(ckpt) => Elems(ckpt.agent.thread) \subseteq 1..Len(batches)
    /\ \A d \in requested : d[1] \in 1..Len(batches)
    /\ InBatch \/ pc = "limit" => thread # <<>> /\ at \in DOMAIN Batch(Current)
    /\ InBatch => done \subseteq 1..(at - 1)
    /\ InBatch /\ pc # "dispatch" => Here \in requested
    /\ ckpt.kind = "suspend" =>
          /\ ckpt.agent.thread # <<>> /\ Pending \in requested
          /\ ckpt.agent.at \in DOMAIN Batch(Pending[1])
          /\ ckpt.agent.done \subseteq 1..(ckpt.agent.at - 1)
    /\ pc = "limit" => resumed = "no"
    /\ pc \in {"dispatch", "limit"} =>
          (resumed = "yes" <=> \E d \in requested : d[1] = Current)

\* An answer beyond the first has a reason: a later call of the batch suspended.
Justified(c, n, req) == n > 0 /\ (n > 1 => \E d \in req : d[1] = c[1] /\ d[2] > c[2])

\* A message list in which every call is answered, and one that ends inside a batch.
Whole(th, ans, req, bs) ==
    \A c \in Calls :
        IF c[1] \in Elems(th) /\ c[2] \in DOMAIN bs[c[1]] THEN Justified(c, ans[c], req)
        ELSE ans[c] = 0

Broken(th, ans, pos, made, req, bs) ==
    \A c \in Calls :
        IF c[1] \in Elems(th) /\ c[2] \in DOMAIN bs[c[1]] /\ (c[1] = Latest(th) => c[2] < pos)
        THEN Justified(c, ans[c], req) /\ (c[1] = Latest(th) /\ c[2] \in made => ans[c] = 1)
        ELSE ans[c] = 0

History ==
    /\ pc \in {"loop", "llm", "final", "limit", "save", "judge"} \/ Parking =>
          Whole(thread, answers, requested, batches)
    /\ InBatch => Broken(thread, answers, at, done, requested, batches)
    /\ ckpt.kind \in {"step", "park"} =>
          Whole(ckpt.agent.thread, ckpt.agent.answers, requested, batches)
    /\ ckpt.kind = "suspend" =>
          Broken(ckpt.agent.thread, ckpt.agent.answers, ckpt.agent.at, ckpt.agent.done,
                 requested, batches)

\* The agent dispatches a batch that the checkpoint holds only behind its suspension.
Own ==
    pc = "dispatch" /\ HasAgent(ckpt) /\ Current \in Elems(ckpt.agent.thread) =>
        /\ ckpt.kind = "suspend" /\ Current = Latest(ckpt.agent.thread)
        /\ at >= ckpt.agent.at

\* The structured final calls that were sent back: the steps that no limiter counts.
Extra(s, n) == IF s = "on" THEN n ELSE 0

\* The limiters count turns, and the calls of batches that never suspended.
Turns ==
    /\ schema = "on" => explicit = "off"
    /\ pc \in {"loop", "llm", "final", "limit", "save", "judge"} \/ InBatch \/ Parking =>
          IF Parking /\ susp = "iteration_limit"
          THEN turn = ceiling + Extra(schema, rev) /\ Len(thread) <= ceiling
          ELSE turn = iter + Extra(schema, rev) /\ Len(thread) <= iter /\ iter <= ceiling
    /\ pc = "llm" => Len(thread) < iter
    /\ pc = "final" => schema = "on"
    /\ HasAgent(ckpt) => /\ ckpt.agent.turn = ckpt.agent.iter + Extra(schema, ckpt.agent.rev)
                         /\ Len(ckpt.agent.thread) <= ckpt.agent.iter /\ ckpt.agent.iter <= ceiling

\* The calls of the batches in S none of which has a request.
CallsOf(S, req, bs) ==
    {c \in Calls : /\ c[1] \in S /\ c[2] \in DOMAIN bs[c[1]]
                   /\ \A d \in req : d[1] # c[1]}
Count(S) == Cardinality(CallsOf(S, requested, batches))

Tools ==
    /\ pc \in {"loop", "llm", "final", "save", "judge"} \/ Parking => tools = Count(Elems(thread))
    /\ InBatch \/ pc = "limit" => tools = Count(Elems(thread) \ {Current})
    /\ pc \in {"loop", "llm", "final", "limit", "save", "judge"} \/ InBatch => tools <= toolCeiling
    /\ ckpt.kind \in {"step", "park"} => ckpt.agent.tools = Count(Elems(ckpt.agent.thread))
    /\ ckpt.kind = "suspend" =>
          ckpt.agent.tools = Count(Elems(ckpt.agent.thread) \ {Pending[1]})
    /\ ckpt.kind \in {"step", "suspend"} => ckpt.agent.tools <= toolCeiling

----------------------------------------------------------------------------
(* Types.                                                                  *)

\* The parts make up the whole.
LEMMA Parts == Fields /\ Others /\ Shape <=> TypeOK /\ Shape
<1>1. Fields <=> AgentOK(Snapshot(iter))
  BY DEF Fields, AgentOK, Snapshot
<1>2. Shape => (HasAgent(ckpt) => AgentOK(ckpt.agent))
  BY DEF Shape, AgentType, AgentOK
<1> QED BY <1>1, <1>2 DEF TypeOK, Others

\* The batches that were asked for.
LEMMA AskedFor ==
    ASSUME Others, NEW n \in 1..Len(batches)
    PROVE  /\ Batch(n) \in Batches /\ Batch(n) \in Seq({"act", "ask", "finish", "direct"})
           /\ Len(Batch(n)) \in 1..L /\ DOMAIN Batch(n) = 1..Len(Batch(n))
           /\ DOMAIN Batch(n) \subseteq 1..L
<1>1. Batch(n) \in Batches
  BY DEF Others, Batch
<1>2. Batch(n) \in Seq({"act", "ask", "finish", "direct"}) /\ Len(Batch(n)) \in 1..L
  BY <1>1, BatchAssumption
<1> QED BY <1>1, <1>2, BoundAssumption

\* A sequence that is not empty has a last element.
LEMMA LatestIn ==
    ASSUME NEW th \in Seq(Ids), th # <<>>
    PROVE  Len(th) \in DOMAIN th /\ Latest(th) \in Elems(th) /\ Latest(th) \in Ids
<1>1. Len(th) \in 1..Len(th) /\ DOMAIN th = 1..Len(th)
  OBVIOUS
<1> QED BY <1>1 DEF Latest, Elems

\* The call that the agent is at.
LEMMA Inside ==
    ASSUME Fields, Others, Stage, InBatch \/ pc = "limit"
    PROVE  /\ thread # <<>> /\ Current = Latest(thread) /\ Current \in Elems(thread)
           /\ Current \in 1..Len(batches) /\ Current \in Ids /\ at \in 1..L
           /\ at \in DOMAIN Batch(Current) /\ DOMAIN Batch(Current) = 1..Len(Batch(Current))
           /\ Here \in Calls /\ Here[1] = Current /\ Here[2] = at
           /\ Len(Batch(Current)) \in 1..L
<1>1. thread # <<>> /\ at \in DOMAIN Batch(Current) /\ Elems(thread) \subseteq 1..Len(batches)
  BY DEF Stage
<1>2. Current = Latest(thread)
  BY DEF Current, Latest
<1>3. Current \in Elems(thread) /\ Current \in Ids
  BY <1>1, <1>2, LatestIn DEF Fields
<1>4. Current \in 1..Len(batches)
  BY <1>1, <1>3
<1>5. at \in 1..L
  BY DEF Fields
<1> QED BY <1>1, <1>2, <1>3, <1>4, <1>5, AskedFor DEF Here, Calls

\* The call that a suspension is at.
LEMMA Saved ==
    ASSUME Others, Shape, Stage, ckpt.kind = "suspend"
    PROVE  /\ ckpt.agent \in AgentType /\ ckpt.agent.thread # <<>>
           /\ Pending[1] = Latest(ckpt.agent.thread) /\ Pending[2] = ckpt.agent.at
           /\ Pending[1] \in Elems(ckpt.agent.thread) /\ Pending[1] \in 1..Len(batches)
           /\ Pending \in requested /\ Pending \in Calls
<1>1. ckpt.agent \in AgentType
  BY DEF Shape, HasAgent
<1>2. ckpt.agent.thread # <<>> /\ ckpt.agent.thread \in Seq(Ids) /\ Pending \in requested
  BY <1>1 DEF Stage, AgentType
<1>3. Pending[1] = Latest(ckpt.agent.thread) /\ Pending[2] = ckpt.agent.at
  BY DEF Pending, Latest
<1>4. Elems(ckpt.agent.thread) \subseteq 1..Len(batches)
  BY DEF Stage, HasAgent
<1> QED BY <1>1, <1>2, <1>3, <1>4, LatestIn DEF Others

\* What a restored snapshot gives the agent.
LEMMA RestoredFields ==
    ASSUME NEW a \in AgentType, Restore(a), at' \in 1..L, done' \subseteq 1..L, hit' \in 0..L
    PROVE  Fields'
BY DEF AgentType, Restore, Fields

\* A snapshot of typed fields is typed.
LEMMA SnapshotTyped ==
    ASSUME Fields, NEW n \in Nat
    PROVE  Snapshot(n) \in AgentType
BY DEF Fields, Snapshot, AgentType

\* The results of a dispatch that suspended are added when it is resumed: none of
\* these calls had an answer from an earlier dispatch.
Added(a) == [a EXCEPT !.answers =
               [c \in Calls |-> @[c] + (IF c[1] = Pending[1] /\ c[2] \in a.done THEN 1 ELSE 0)]]

\* Its types, and what it changes.
LEMMA AddedTyped ==
    ASSUME Others, Shape, Stage, History, ckpt.kind = "suspend"
    PROVE  /\ Added(ckpt.agent) \in AgentType
           /\ Added(ckpt.agent).thread = ckpt.agent.thread
           /\ Added(ckpt.agent).turn = ckpt.agent.turn /\ Added(ckpt.agent).iter = ckpt.agent.iter
           /\ Added(ckpt.agent).tools = ckpt.agent.tools /\ Added(ckpt.agent).rev = ckpt.agent.rev
           /\ \A c \in Calls : Added(ckpt.agent).answers[c] =
                  IF c[1] = Pending[1] /\ c[2] \in ckpt.agent.done THEN 2 ELSE ckpt.agent.answers[c]
<1> DEFINE a == ckpt.agent
<1> DEFINE new == [c \in Calls |-> a.answers[c] + (IF c[1] = Pending[1] /\ c[2] \in a.done THEN 1 ELSE 0)]
<1>1. a \in AgentType /\ Pending[1] = Latest(a.thread) /\ Pending[1] \in Elems(a.thread)
      /\ Pending[1] \in 1..Len(batches) /\ Pending[2] = a.at
  BY Saved
<1>2. Broken(a.thread, a.answers, a.at, a.done, requested, batches) /\ a.done \subseteq 1..(a.at - 1) /\ a.at \in DOMAIN Batch(Pending[1])
  BY DEF History, Stage
<1>3. ASSUME NEW c \in Calls, c[1] = Pending[1], c[2] \in a.done PROVE a.answers[c] = 1
  <2>1. DOMAIN Batch(Pending[1]) = 1..Len(Batch(Pending[1])) /\ Len(Batch(Pending[1])) \in Nat
    BY <1>1, AskedFor, BoundAssumption
  <2>2. c[2] < a.at /\ c[2] \in DOMAIN Batch(Pending[1])
    BY <1>2, <1>3, <2>1
  <2> QED BY <1>1, <1>2, <1>3, <2>2 DEF Broken, Batch
<1>4. \A c \in Calls : a.answers[c] \in 0..2
  BY <1>1 DEF AgentType
<1>5. \A c \in Calls : new[c] = IF c[1] = Pending[1] /\ c[2] \in a.done THEN 2 ELSE a.answers[c]
  BY <1>3, <1>4
<1>6. new \in [Calls -> 0..2]
  BY <1>4, <1>5
<1>7. Added(a) = [a EXCEPT !.answers = new]
  BY DEF Added
<1> HIDE DEF new
<1>8. ASSUME NEW x \in AgentType, NEW v \in [Calls -> 0..2], NEW y, y = [x EXCEPT !.answers = v]
      PROVE  /\ y \in AgentType /\ y.answers = v
             /\ y.thread = x.thread /\ y.turn = x.turn /\ y.iter = x.iter
             /\ y.tools = x.tools /\ y.rev = x.rev
  BY <1>8 DEF AgentType
<1>9. /\ Added(a) \in AgentType /\ Added(a).answers = new
      /\ Added(a).thread = a.thread /\ Added(a).turn = a.turn /\ Added(a).iter = a.iter
      /\ Added(a).tools = a.tools /\ Added(a).rev = a.rev
  BY <1>1, <1>6, <1>7, <1>8
<1> QED BY <1>5, <1>9

\* The types hold at first and are kept in every step.
LEMMA InitTypes == Init => Fields /\ Others /\ Shape
<1>1. 0 \in 0..2 /\ 0 \in 0..MaxRevisions /\ 0 \in 0..L /\ 1 \in 1..L
  BY BoundAssumption, LimitAssumption
<1> QED BY <1>1, LimitAssumption DEF Init, Fields, Others, Shape, HasAgent, NoCkpt, Unanswered

\* They are kept in every step.
LEMMA TypesStep ==
    Fields /\ Others /\ Shape /\ Stage /\ History /\ [Next]_vars => Fields' /\ Others' /\ Shape'
<1> SUFFICES ASSUME Fields, Others, Shape, Stage, History, [Next]_vars PROVE Fields' /\ Others' /\ Shape'
  OBVIOUS
<1>0. 0 \in 0..2 /\ 0 \in 0..MaxRevisions /\ 0 \in 0..L /\ 1 \in 1..L
      /\ \A c \in Calls : Unanswered[c] = 0
  BY BoundAssumption, LimitAssumption DEF Unanswered
<1>a. UNCHANGED ckpt => Shape'
  BY DEF Shape, HasAgent
<1>i. Idle => Fields'
  BY <1>0 DEF Idle, Fields, Unanswered
<1>f. UNCHANGED <<messages, counters, at, done, hit>> => Fields'
  BY DEF messages, counters, Fields
<1>e. ASSUME effects' = [effects EXCEPT ![Here] = @ + 1], InBatch PROVE effects' \in [Calls -> Nat]
  <2>1. Here \in Calls
    BY <1>e, Inside
  <2>2. effects \in [Calls -> Nat] /\ effects[Here] + 1 \in Nat
    BY <2>1 DEF Others
  <2> QED BY <1>e, <2>1, <2>2
<1> USE DEF config, stores, limits, messages, counters, dispatch, history
<1>1. CASE Start
  BY <1>1, <1>a, <1>f DEF Start, Begin, Others
<1>2. CASE ResumeInterrupted
  <2>1. ReEnterLoop(ckpt.agent) => Fields' /\ pc' \in {"loop", "return"} /\ reason' \in {"none", "finished"} /\ resumed' = "no"
    <3>1. ckpt.agent \in AgentType
      BY <1>2 DEF ResumeInterrupted, Begin, ReEnterLoop, Restore, Shape, HasAgent
    <3> QED BY <3>1, <1>0, RestoredFields DEF ReEnterLoop
  <2> QED BY <1>2, <2>1, <1>a DEF ResumeInterrupted, Begin, Others
<1>3. CASE ResumeEnded
  BY <1>3, <1>a, <1>f DEF ResumeEnded, Begin, Others
<1>4. CASE Resume
  <2>1. ckpt.kind = "suspend" /\ Restore(Added(ckpt.agent)) /\ Begin
        /\ answered' = answered \cup {Pending} /\ UNCHANGED <<ckpt, requested, limits, interruptions>>
        /\ at' = ckpt.agent.at /\ done' = {} /\ hit' = ckpt.agent.hit /\ resumed' = "yes"
        /\ pc' = "dispatch" /\ reason' = "none"
    BY <1>4 DEF Resume, Added
  <2>2. Added(ckpt.agent) \in AgentType /\ ckpt.agent \in AgentType /\ Pending \in requested
    BY <2>1, AddedTyped, Saved
  <2>3. at' \in 1..L /\ hit' \in 0..L
    BY <2>1, <2>2 DEF AgentType
  <2>4. Fields'
    BY <2>1, <2>2, <2>3, RestoredFields
  <2> QED BY <2>1, <2>2, <2>4, <1>a DEF Begin, Others
<1>5. ASSUME NEW g \in {0, Grant}, Continue(g) PROVE (Fields' /\ Others' /\ Shape')
  <2>1. ReEnterLoop(ckpt.agent) => Fields' /\ pc' \in {"loop", "return"} /\ reason' \in {"none", "finished"} /\ resumed' = "no"
    <3>1. ckpt.agent \in AgentType
      BY <1>5 DEF Continue, Begin, ReEnterLoop, Restore, Shape, HasAgent
    <3> QED BY <3>1, <1>0, RestoredFields DEF ReEnterLoop
  <2>2. ceiling' \in Nat /\ toolCeiling' \in Nat /\ interruptions' \in Nat
    BY <1>5, LimitAssumption DEF Continue, Others
  <2>3. UNCHANGED <<messages, counters, dispatch>> => Fields' /\ UNCHANGED resumed
    BY <1>f
  <2>4. \/ pc' = "refused" /\ UNCHANGED <<messages, counters, dispatch, reason>>
        \/ ReEnterLoop(ckpt.agent)
    BY <1>5 DEF Continue
  <2>5. /\ UNCHANGED <<config, stores, history>> /\ outcome' = "running" /\ susp' = "none" /\ token' = "clear"
    BY <1>5 DEF Continue, Begin
  <2>6. Fields' /\ pc' \in {"loop", "return", "refused"} /\ resumed' \in {"yes", "no"}
        /\ reason' \in {"none", "complete", "finished", "return_direct", "cancelled",
                        "evaluation_failed", "iteration_limit", "tool_call_limit"}
    BY <2>1, <2>3, <2>4 DEF Others
  <2> QED BY <2>2, <2>5, <2>6, <1>a DEF Others
<1>6. CASE EndDirect
  BY <1>6, <1>a, <1>f DEF EndDirect, EndAgent, Others
<1>7. CASE StopCancelled
  BY <1>7, <1>a, <1>f DEF StopCancelled, EndAgent, Others
<1>8. CASE NextTurn
  <2>1. iter' \in Nat /\ turn' \in Nat
    BY <1>8 DEF NextTurn, LimitReached, EndAgent, Fields
  <2> QED BY <1>8, <2>1, <1>a DEF NextTurn, LimitReached, EndAgent, Others, Fields
<1>9. CASE TextAnswer
  <2>1. rev' \in 0..MaxRevisions
    BY <1>9, LimitAssumption DEF TextAnswer, Judge, EndAgent, Fields
  <2>2. reason' \in {"none", "complete", "evaluation_failed"} \/ UNCHANGED reason
    BY <1>9 DEF TextAnswer, Judge, EndAgent
  <2>3. pc' \in {"loop", "return", "final"}
    BY <1>9 DEF TextAnswer, Judge, EndAgent
  <2> QED BY <1>9, <2>1, <2>2, <2>3, <1>a DEF TextAnswer, Others, Fields
<1>10. ASSUME NEW b \in Batches, AskForTools(b) PROVE (Fields' /\ Others' /\ Shape')
  <2>1. batches' \in Seq(Batches) /\ thread' \in Seq(Ids)
    BY <1>10 DEF AskForTools, Others, Fields
  <2> QED BY <1>10, <2>1, <1>0, <1>a DEF AskForTools, Others, Fields
<1>11. CASE CallReturns
  <2>1. InBatch
    BY <1>11 DEF CallReturns, Dispatching, InBatch
  <2>2. answers[Here] = 0
    <3>1. Broken(thread, answers, at, done, requested, batches) /\ Here \in Calls /\ Here[1] = Latest(thread) /\ Here[2] = at
      BY <2>1, Inside DEF History
    <3>2. ~(at < at)
      BY DEF Fields
    <3> QED BY <3>1, <3>2 DEF Broken
  <2>3. answers' \in [Calls -> 0..2]
    BY <1>11, <2>1, <2>2, Inside DEF CallReturns, Fields
  <2>4. effects' \in [Calls -> Nat]
    BY <1>11, <2>1, <1>e DEF CallReturns
  <2>5. at' \in 1..L /\ done' \subseteq 1..L /\ hit' \in 0..L
    <3>1. at < Len(Batch(Current)) => at + 1 \in 1..L
      BY <2>1, Inside, BoundAssumption
    <3> QED BY <1>11, <3>1, BoundAssumption DEF CallReturns, Dispatching, Advance, Fields
  <2>6. pc' \in {"dispatch", "loop", "limit"}
    BY <1>11 DEF CallReturns, Dispatching, Advance
  <2> QED BY <1>11, <2>3, <2>4, <2>5, <2>6, <1>a DEF CallReturns, Others, Fields
<1>12. CASE CallSuspends
  <2>1. Here \in Calls
    BY <1>12, Inside DEF CallSuspends, Dispatching, InBatch
  <2> QED BY <1>12, <2>1, <1>a, <1>f DEF CallSuspends, Dispatching, Others
<1>13. CASE CallCancelled
  <2>1. effects' \in [Calls -> Nat]
    BY <1>13, <1>e DEF CallCancelled, Dispatching, InBatch, Others
  <2> QED BY <1>13, <2>1, <1>a, <1>f DEF CallCancelled, Dispatching, EndAgent, Others
<1>14. CASE CountTools
  <2>1. tools' \in Nat
    BY <1>14, Inside, BoundAssumption DEF CountTools, Fields
  <2>2. pc' \in {"surface", "return", "save", "judge"}
    BY <1>14 DEF CountTools, LimitReached, EndAgent
  <2>3. reason' \in {"tool_call_limit", reason} /\ susp' \in {"tool_call_limit", susp}
    BY <1>14 DEF CountTools, LimitReached, EndAgent
  <2> QED BY <1>14, <2>1, <2>2, <2>3, <1>a DEF CountTools, Others, Fields
<1>15. CASE SaveBatch
  <2>1. ckpt'.kind \in {"step", "suspend", "park"} /\ ckpt'.agent \in AgentType
    BY <1>15, SnapshotTyped DEF SaveBatch, Fields, Others
  <2> QED BY <1>15, <2>1, <1>f DEF SaveBatch, Others, Shape
<1>16. CASE JudgeBatch
  <2>1. rev' \in 0..MaxRevisions /\ hit' \in 0..L
    BY <1>16, <1>0, LimitAssumption DEF JudgeBatch, Judge, EndAgent, Fields
  <2>2. reason' \in {"none", "complete", "finished", "return_direct", "evaluation_failed"} \/ UNCHANGED reason
    BY <1>16 DEF JudgeBatch, Judge, EndAgent
  <2>3. pc' \in {"loop", "return"}
    BY <1>16 DEF JudgeBatch, Judge, EndAgent
  <2> QED BY <1>16, <2>1, <2>2, <2>3, <1>a DEF JudgeBatch, Others, Fields
<1>17. CASE Surface
  <2>1. \A n \in Nat : Snapshot(n) \in AgentType
    BY SnapshotTyped
  <2>2. iter \in Nat /\ ceiling \in Nat
    BY DEF Fields, Others
  <2>3. ckpt'.kind \in {"step", "suspend", "park"} /\ ckpt'.agent \in AgentType
    BY <1>17, <2>1, <2>2 DEF Surface
  <2> QED BY <1>17, <2>3, <1>f DEF Surface, Others, Shape
<1>18. CASE WrapSuspension
  BY <1>18, <1>a, <1>i DEF WrapSuspension, Idle, Others
<1>19. CASE SaveEnd
  <2>1. ckpt'.kind = "end"
    BY <1>19 DEF SaveEnd
  <2> QED BY <1>19, <2>1, <1>f DEF SaveEnd, Others, Shape, HasAgent
<1>20. CASE ReturnResult
  BY <1>20, <1>a, <1>i DEF ReturnResult, Idle, Others
<1>21. CASE LimiterRefuses
  BY <1>21, <1>a, <1>i DEF LimiterRefuses, Idle, Others
<1>22. CASE Nudge
  BY <1>22, <1>a, <1>f DEF Nudge, Others
<1>23. CASE Crash
  <2>1. effects' \in [Calls -> Nat]
    BY <1>23, <1>e DEF Crash, Dispatching, InBatch, Others
  <2> QED BY <1>23, <2>1, <1>a, <1>i DEF Crash, Interrupt, Others, Idle
<1>24. CASE Cancel
  BY <1>24, <1>a, <1>f DEF Cancel, Interrupt, Others
<1>25. ASSUME NEW c \in Calls, Respond(c) PROVE (Fields' /\ Others' /\ Shape')
  BY <1>25, <1>a, <1>f DEF Respond, Others
<1>26. CASE UNCHANGED vars
  BY <1>26, <1>a, <1>f DEF vars, Others
<1>27. CASE StructuredAnswer
  <2>1. rev' \in 0..MaxRevisions /\ turn' \in Nat
    BY <1>27, LimitAssumption DEF StructuredAnswer, Judge, EndAgent, Fields
  <2>2. reason' \in {"none", "complete", "evaluation_failed"} \/ UNCHANGED reason
    BY <1>27 DEF StructuredAnswer, Judge, EndAgent
  <2>3. pc' \in {"loop", "return"}
    BY <1>27 DEF StructuredAnswer, Judge, EndAgent
  <2> QED BY <1>27, <2>1, <2>2, <2>3, <1>a DEF StructuredAnswer, Others, Fields
<1> QED
  BY <1>1, <1>2, <1>3, <1>4, <1>5, <1>6, <1>7, <1>8, <1>9, <1>10, <1>11, <1>12, <1>13,
     <1>14, <1>15, <1>16, <1>17, <1>18, <1>19, <1>20, <1>21, <1>22, <1>23, <1>24, <1>25,
     <1>26, <1>27
     DEF Next, Drive, Agent, Frame

----------------------------------------------------------------------------
(* Where the agent is.                                                     *)

\* Batches are only added, and a request stays.
LEMMA Grown ==
    ASSUME Fields, Others, Shape, Stage, [Next]_vars
    PROVE  /\ Len(batches) \in Nat /\ Len(batches') \in Nat /\ Len(batches) <= Len(batches')
           /\ \A n \in 1..Len(batches) : n \in 1..Len(batches') /\ Batch(n)' = Batch(n)
           /\ requested \subseteq requested' /\ (pc # "dispatch" => UNCHANGED requested)
           /\ ceiling <= ceiling' /\ toolCeiling <= toolCeiling' /\ UNCHANGED config
<1> DEFINE Grows == /\ UNCHANGED batches \/ \E b \in Batches : batches' = Append(batches, b)
                    /\ requested \subseteq requested' /\ (pc # "dispatch" => UNCHANGED requested)
                    /\ ceiling <= ceiling' /\ toolCeiling <= toolCeiling' /\ UNCHANGED config
<1>n. ceiling \in Nat /\ toolCeiling \in Nat
  BY DEF Others
<1> USE <1>n DEF config, stores, limits, messages, counters, dispatch, history
<1>g. Grows
  <2>1. CASE Start
    BY <2>1 DEF Start, Begin
  <2>2. CASE ResumeInterrupted
    BY <2>2 DEF ResumeInterrupted, Begin, ReEnterLoop, Restore
  <2>3. CASE ResumeEnded
    BY <2>3 DEF ResumeEnded, Begin
  <2>4. CASE Resume
    BY <2>4 DEF Resume, Begin, Restore
  <2>5. ASSUME NEW g \in {0, Grant}, Continue(g) PROVE Grows
    <3>1. g \in Nat
      BY <2>5, LimitAssumption
    <3> QED BY <2>5, <3>1 DEF Continue, Begin, ReEnterLoop, Restore
  <2>6. CASE EndDirect
    BY <2>6 DEF EndDirect, EndAgent
  <2>7. CASE StopCancelled
    BY <2>7 DEF StopCancelled, EndAgent
  <2>8. CASE NextTurn
    BY <2>8 DEF NextTurn, LimitReached, EndAgent
  <2>9. CASE TextAnswer
    BY <2>9 DEF TextAnswer, Judge, EndAgent
  <2>10. ASSUME NEW b \in Batches, AskForTools(b) PROVE Grows
    BY <2>10 DEF AskForTools
  <2>11. CASE CallReturns
    BY <2>11 DEF CallReturns, Dispatching, Advance
  <2>12. CASE CallSuspends
    BY <2>12 DEF CallSuspends, Dispatching
  <2>13. CASE CallCancelled
    BY <2>13 DEF CallCancelled, Dispatching, EndAgent
  <2>14. CASE CountTools
    BY <2>14 DEF CountTools, LimitReached, EndAgent
  <2>15. CASE SaveBatch
    BY <2>15 DEF SaveBatch
  <2>16. CASE JudgeBatch
    BY <2>16 DEF JudgeBatch, Judge, EndAgent
  <2>17. CASE Surface
    BY <2>17 DEF Surface
  <2>18. CASE WrapSuspension
    BY <2>18 DEF WrapSuspension, Idle
  <2>19. CASE SaveEnd
    BY <2>19 DEF SaveEnd
  <2>20. CASE ReturnResult
    BY <2>20 DEF ReturnResult, Idle
  <2>21. CASE LimiterRefuses
    BY <2>21 DEF LimiterRefuses, Idle
  <2>22. CASE Nudge
    BY <2>22 DEF Nudge
  <2>23. CASE Crash
    BY <2>23 DEF Crash, Interrupt, Idle, Dispatching
  <2>24. CASE Cancel
    BY <2>24 DEF Cancel, Interrupt
  <2>25. ASSUME NEW c \in Calls, Respond(c) PROVE Grows
    BY <2>25 DEF Respond
  <2>26. CASE UNCHANGED vars
    BY <2>26 DEF vars
  <2>27. CASE StructuredAnswer
    BY <2>27 DEF StructuredAnswer, Judge, EndAgent
  <2> QED
    BY <2>1, <2>2, <2>3, <2>4, <2>5, <2>6, <2>7, <2>8, <2>9, <2>10, <2>11, <2>12, <2>13,
       <2>14, <2>15, <2>16, <2>17, <2>18, <2>19, <2>20, <2>21, <2>22, <2>23, <2>24, <2>25,
       <2>26, <2>27
       DEF Next, Drive, Agent, Frame
<1>1. Len(batches) \in Nat /\ batches \in Seq(Batches)
  BY DEF Others
<1>2. ASSUME NEW b \in Batches, batches' = Append(batches, b)
      PROVE  /\ Len(batches') \in Nat /\ Len(batches) <= Len(batches')
             /\ \A n \in 1..Len(batches) : n \in 1..Len(batches') /\ batches'[n] = batches[n]
  BY <1>1, <1>2
<1> QED BY <1>g, <1>1, <1>2 DEF Batch

\* Where the agent is is kept in every step.
LEMMA StageStep ==
    Fields /\ Others /\ Shape /\ Stage /\ History /\ [Next]_vars => Stage'
<1> SUFFICES ASSUME Fields, Others, Shape, Stage, History, [Next]_vars PROVE Stage'
  OBVIOUS
<1>t. Fields' /\ Others' /\ Shape'
  BY TypesStep
<1>g. /\ Len(batches) \in Nat /\ Len(batches') \in Nat /\ Len(batches) <= Len(batches')
      /\ \A n \in 1..Len(batches) : n \in 1..Len(batches') /\ Batch(n)' = Batch(n)
      /\ requested \subseteq requested' /\ (pc # "dispatch" => UNCHANGED requested)
  BY Grown
<1> DEFINE Mine == /\ pc \in {"idle", "refused"} =>
                          /\ thread = <<>> /\ answers = Unanswered
                          /\ turn = 0 /\ iter = 0 /\ tools = 0 /\ rev = 0
                   /\ InBatch \/ pc = "limit" => thread # <<>> /\ at \in DOMAIN Batch(Current)
                   /\ InBatch => done \subseteq 1..(at - 1)
                   /\ InBatch /\ pc # "dispatch" => Here \in requested
                   /\ pc = "limit" => resumed = "no"
                   /\ pc \in {"dispatch", "limit"} =>
                         (resumed = "yes" <=> \E d \in requested : d[1] = Current)
<1> DEFINE Theirs == ckpt.kind = "suspend" =>
                        /\ ckpt.agent.thread # <<>> /\ Pending \in requested
                        /\ ckpt.agent.at \in DOMAIN Batch(Pending[1])
                        /\ ckpt.agent.done \subseteq 1..(ckpt.agent.at - 1)
<1>m. Mine /\ Theirs
  BY DEF Stage
<1>q. ASSUME Mine', Theirs', Elems(thread') \subseteq 1..Len(batches'),
             HasAgent(ckpt)' => Elems(ckpt'.agent.thread) \subseteq 1..Len(batches'),
             \A d \in requested' : d[1] \in 1..Len(batches')
      PROVE  Stage'
  BY <1>q DEF Stage, HasAgent, Elems
<1>c. ASSUME UNCHANGED ckpt
      PROVE  Theirs' /\ (HasAgent(ckpt)' => Elems(ckpt'.agent.thread) \subseteq 1..Len(batches'))
  <2>1. Theirs'
    <3> SUFFICES ASSUME ckpt.kind = "suspend" PROVE Theirs'
      BY <1>c
    <3>1. Pending[1] \in 1..Len(batches) /\ Pending \in requested
      BY Saved
    <3> QED BY <1>c, <1>g, <1>m, <3>1 DEF Pending, Batch
  <2> QED BY <1>c, <1>g, <2>1 DEF HasAgent, Stage
<1>r. ASSUME UNCHANGED requested PROVE \A d \in requested' : d[1] \in 1..Len(batches')
  BY <1>r, <1>g DEF Stage
<1>w. ASSUME UNCHANGED thread PROVE Elems(thread') \subseteq 1..Len(batches')
  BY <1>w, <1>g DEF Stage
<1>n. <<>> = thread' => Elems(thread') \subseteq 1..Len(batches')
  BY DEF Elems
<1>o. ASSUME UNCHANGED <<ckpt, requested>>, Mine', Elems(thread') \subseteq 1..Len(batches') PROVE Stage'
  BY <1>o, <1>q, <1>c, <1>r
<1>k. ASSUME UNCHANGED <<ckpt, requested, thread>>, Mine' PROVE Stage'
  BY <1>k, <1>o, <1>w
<1>v. ASSUME UNCHANGED <<requested, thread, answers, turn, iter, tools, rev, at, done, resumed, susp, batches, pc>> PROVE Mine'
  BY <1>v, <1>m DEF InBatch, Current, Here, Batch
\* steps out of a batch
<1>x. ASSUME UNCHANGED <<ckpt, requested, thread>>, pc' \notin {"idle", "refused", "dispatch", "limit"},
             pc' \in {"surface", "handle"} => susp' # "hitl"
      PROVE  Stage'
  <2>1. Mine'
    BY <1>x DEF InBatch
  <2> QED BY <1>x, <2>1, <1>k
<1>y. ASSUME UNCHANGED <<ckpt, requested>>, Idle PROVE Stage'
  <2>1. Mine' /\ thread' = <<>>
    BY <1>y DEF InBatch, Idle
  <2> QED BY <1>y, <2>1, <1>n, <1>o
<1>z. ASSUME UNCHANGED <<ckpt, requested>>, ReEnterLoop(ckpt.agent), HasAgent(ckpt) PROVE Stage'
  <2>1. thread' = ckpt.agent.thread /\ pc' \in {"loop", "return"}
    BY <1>z DEF ReEnterLoop, Restore
  <2>2. Mine' /\ Elems(thread') \subseteq 1..Len(batches')
    BY <1>c, <1>z, <2>1 DEF InBatch, HasAgent
  <2> QED BY <1>z, <2>2, <1>o
<1> HIDE DEF Mine, Theirs
<1> USE DEF config, stores, limits, messages, counters, dispatch, history
<1>1. CASE Start
  BY <1>1, <1>x DEF Start, Begin
<1>2. CASE ResumeInterrupted
  BY <1>2, <1>z DEF ResumeInterrupted, HasAgent
<1>3. CASE ResumeEnded
  BY <1>3, <1>x DEF ResumeEnded, Begin
<1>4. CASE Resume
  <2>1. ckpt.kind = "suspend" /\ UNCHANGED <<ckpt, requested, batches>> /\ Restore(Added(ckpt.agent))
        /\ at' = ckpt.agent.at /\ done' = {} /\ resumed' = "yes" /\ pc' = "dispatch"
    BY <1>4 DEF Resume, Added, Begin
  <2>2. thread' = ckpt.agent.thread
    BY <2>1, AddedTyped DEF Restore
  <2>3. Current' = Pending[1] /\ Pending \in requested /\ Pending[1] \in 1..Len(batches)
        /\ ckpt.agent.thread # <<>> /\ ckpt.agent.at \in DOMAIN Batch(Pending[1])
    BY <2>1, <2>2, <1>m, Saved DEF Current, Pending, Theirs
  <2>4. Batch(Current)' = Batch(Pending[1])
    BY <2>1, <2>3 DEF Batch
  <2>5. Mine'
    BY <2>1, <2>2, <2>3, <2>4 DEF Mine, InBatch
  <2>6. Elems(thread') \subseteq 1..Len(batches')
    BY <2>1, <2>2 DEF Stage, HasAgent
  <2> QED BY <2>1, <2>5, <2>6, <1>o
<1>5. ASSUME NEW g \in {0, Grant}, Continue(g) PROVE Stage'
  <2>1. UNCHANGED <<ckpt, requested>> /\ HasAgent(ckpt) /\ pc = "idle"
    BY <1>5 DEF Continue, Begin, HasAgent
  <2>2. CASE pc' = "refused" /\ UNCHANGED <<thread, answers, turn, iter, tools, rev>>
    <3>1. Mine'
      BY <1>m, <2>1, <2>2 DEF Mine, InBatch
    <3> QED BY <2>1, <2>2, <3>1, <1>k
  <2> QED BY <1>5, <2>1, <2>2, <1>z DEF Continue
<1>6. CASE EndDirect
  BY <1>6, <1>x DEF EndDirect, EndAgent
<1>7. CASE StopCancelled
  BY <1>7, <1>x DEF StopCancelled, EndAgent
<1>8. CASE NextTurn
  <2>1. pc' \in {"llm", "surface", "return"} /\ (pc' = "surface" => susp' = "iteration_limit")
    BY <1>8 DEF NextTurn, LimitReached, EndAgent
  <2> QED BY <1>8, <2>1, <1>x DEF NextTurn
<1>9. CASE TextAnswer
  BY <1>9, <1>x DEF TextAnswer, Judge, EndAgent
<1>10. ASSUME NEW b \in Batches, AskForTools(b) PROVE Stage'
  <2>1. /\ thread' = Append(thread, Len(batches) + 1) /\ batches' = Append(batches, b)
        /\ at' = 1 /\ done' = {} /\ resumed' = "no" /\ pc' = "dispatch" /\ UNCHANGED <<ckpt, requested>>
    BY <1>10 DEF AskForTools
  <2>2. thread \in Seq(Ids) /\ batches \in Seq(Batches) /\ Elems(thread) \subseteq 1..Len(batches)
    BY DEF Fields, Others, Stage
  <2>3. Len(batches') = Len(batches) + 1 /\ batches'[Len(batches) + 1] = b
    BY <2>1, <2>2
  <2>4. thread' # <<>> /\ Len(thread') = Len(thread) + 1 /\ thread'[Len(thread')] = Len(batches) + 1
    BY <2>1, <2>2
  <2>5. Current' = Len(batches) + 1 /\ Batch(Current)' = b
    BY <2>3, <2>4 DEF Current, Batch
  <2>6. 1 \in DOMAIN b
    BY BatchAssumption, BoundAssumption
  <2>7. Elems(thread') \subseteq 1..Len(batches')
    <3>1. \A k \in DOMAIN thread' : thread'[k] = Len(batches) + 1 \/ (k \in DOMAIN thread /\ thread'[k] = thread[k])
      BY <2>1, <2>2
    <3> QED BY <1>g, <2>2, <2>3, <3>1 DEF Elems
  <2>8. \A d \in requested : d[1] # Len(batches) + 1
    BY <1>g DEF Stage
  <2>9. Mine'
    BY <2>1, <2>4, <2>5, <2>6, <2>8 DEF Mine, InBatch
  <2> QED BY <2>1, <2>7, <2>9, <1>o
<1>11. CASE CallReturns
  <2>1. InBatch /\ pc = "dispatch" /\ UNCHANGED <<ckpt, requested, thread, batches, resumed>> /\ done' = done \cup {at}
        /\ \/ at < Len(Batch(Current)) /\ at' = at + 1 /\ UNCHANGED pc
           \/ pc' = (IF resumed = "yes" THEN "loop" ELSE "limit") /\ UNCHANGED at
    BY <1>11 DEF CallReturns, Dispatching, Advance, InBatch
  <2>2. Current' = Current /\ Batch(Current)' = Batch(Current)
    BY <2>1 DEF Current, Batch
  <2>3. at \in DOMAIN Batch(Current) /\ DOMAIN Batch(Current) = 1..Len(Batch(Current)) /\ thread # <<>>
        /\ Len(Batch(Current)) \in Nat /\ done \subseteq 1..(at - 1)
    BY <2>1, <1>m, Inside, BoundAssumption DEF Mine
  <2>4. at < Len(Batch(Current)) => at + 1 \in DOMAIN Batch(Current) /\ done \cup {at} \subseteq 1..((at + 1) - 1)
    <3>1. at \in Nat /\ at >= 1
      BY <2>3
    <3>2. at < Len(Batch(Current)) => at + 1 \in DOMAIN Batch(Current)
      BY <2>3, <3>1
    <3>3. \A i \in 1..(at - 1) : i \in 1..((at + 1) - 1)
      BY <3>1
    <3>4. at \in 1..((at + 1) - 1)
      BY <3>1
    <3> QED BY <2>3, <3>2, <3>3, <3>4
  <2>5. resumed \in {"yes", "no"}
    BY DEF Others
  <2>6. Mine'
    BY <1>m, <2>1, <2>2, <2>3, <2>4, <2>5 DEF Mine, InBatch
  <2> QED BY <2>1, <2>6, <1>k
<1>12. CASE CallSuspends
  <2>1. InBatch /\ UNCHANGED <<ckpt, thread, batches, at, done>> /\ requested' = requested \cup {Here}
        /\ pc' = "surface"
    BY <1>12 DEF CallSuspends, Dispatching, InBatch
  <2>2. Here' = Here /\ Current' = Current /\ Batch(Current)' = Batch(Current)
    BY <2>1 DEF Current, Batch, Here
  <2>3. Here[1] \in 1..Len(batches)
    BY <2>1, Inside
  <2>4. \A d \in requested' : d[1] \in 1..Len(batches')
    BY <2>1, <2>3 DEF Stage
  <2>5. Mine'
    BY <1>m, <2>1, <2>2 DEF Mine, InBatch
  <2> QED BY <2>1, <2>4, <2>5, <1>c, <1>w, <1>q
<1>13. CASE CallCancelled
  BY <1>13, <1>x DEF CallCancelled, Dispatching, EndAgent
<1>14. CASE CountTools
  <2>1. pc' \in {"surface", "return", "save", "judge"} /\ (pc' = "surface" => susp' = "tool_call_limit")
    BY <1>14 DEF CountTools, LimitReached, EndAgent
  <2> QED BY <1>14, <2>1, <1>x DEF CountTools
<1>15. CASE SaveBatch
  <2>1. ckpt'.kind = "step" /\ ckpt'.agent.thread = thread /\ UNCHANGED <<thread, requested>> /\ pc' = "judge"
    BY <1>15 DEF SaveBatch, Snapshot
  <2>2. Mine' /\ Theirs'
    BY <2>1 DEF Mine, Theirs, InBatch
  <2> QED BY <2>1, <2>2, <1>w, <1>r, <1>q
<1>16. CASE JudgeBatch
  BY <1>16, <1>x DEF JudgeBatch, Judge, EndAgent
<1>17. CASE Surface
  <2>1. /\ UNCHANGED <<requested, thread, answers, turn, iter, tools, rev, at, done, resumed, susp, batches>>
        /\ pc = "surface" /\ pc' = "handle"
        /\ ckpt'.agent.thread = thread /\ ckpt'.agent.at = at /\ ckpt'.agent.done = done
        /\ ckpt'.kind = IF susp = "hitl" THEN "suspend" ELSE "park"
    BY <1>17 DEF Surface, Snapshot
  <2>2. Mine'
    BY <1>m, <2>1 DEF Mine, InBatch, Current, Here, Batch
  <2>3. Theirs'
    <3> SUFFICES ASSUME susp = "hitl" PROVE Theirs'
      BY <2>1 DEF Theirs
    <3>1. InBatch /\ pc # "dispatch"
      BY <2>1 DEF InBatch
    <3>2. Pending' = Here /\ Here \in requested /\ Here[1] = Current
      BY <1>m, <2>1, <3>1, Inside DEF Pending, Here, Current, Mine
    <3>3. Batch(Pending[1])' = Batch(Current)
      BY <2>1, <3>2 DEF Batch
    <3> QED BY <1>m, <2>1, <3>1, <3>2, <3>3 DEF Theirs, Mine
  <2> QED BY <2>1, <2>2, <2>3, <1>w, <1>r, <1>q
<1>18. CASE WrapSuspension
  BY <1>18, <1>y DEF WrapSuspension
<1>19. CASE SaveEnd
  <2>1. ckpt'.kind = "end" /\ UNCHANGED <<thread, requested>> /\ pc' = "return"
    BY <1>19 DEF SaveEnd
  <2>2. Mine' /\ Theirs'
    BY <2>1 DEF Mine, Theirs, InBatch
  <2> QED BY <2>1, <2>2, <1>w, <1>r, <1>q DEF HasAgent
<1>20. CASE ReturnResult
  BY <1>20, <1>y DEF ReturnResult
<1>21. CASE LimiterRefuses
  BY <1>21, <1>y DEF LimiterRefuses
<1>22. CASE Nudge
  BY <1>22, <1>x DEF Nudge
<1>23. CASE Crash
  BY <1>23, <1>y DEF Crash
<1>24. CASE Cancel
  BY <1>24, <1>v, <1>k DEF Cancel, Interrupt
<1>25. ASSUME NEW c \in Calls, Respond(c) PROVE Stage'
  BY <1>25, <1>v, <1>k DEF Respond
<1>26. CASE UNCHANGED vars
  BY <1>26, <1>v, <1>k DEF vars
<1>27. CASE StructuredAnswer
  BY <1>27, <1>x DEF StructuredAnswer, Judge, EndAgent
<1> QED
  BY <1>1, <1>2, <1>3, <1>4, <1>5, <1>6, <1>7, <1>8, <1>9, <1>10, <1>11, <1>12, <1>13,
     <1>14, <1>15, <1>16, <1>17, <1>18, <1>19, <1>20, <1>21, <1>22, <1>23, <1>24, <1>25,
     <1>26, <1>27
     DEF Next, Drive, Agent, Frame

----------------------------------------------------------------------------
(* What is answered.                                                       *)

\* A message list is judged by the batches it holds, and more requests justify more.
LEMMA WholeKept ==
    ASSUME NEW th, NEW ans, NEW req, NEW req2, NEW bs, NEW bs2, NEW S,
           Elems(th) \subseteq S, \A n \in S : bs2[n] = bs[n], req \subseteq req2,
           Whole(th, ans, req, bs)
    PROVE  Whole(th, ans, req2, bs2)
<1> SUFFICES ASSUME NEW c \in Calls
             PROVE  IF c[1] \in Elems(th) /\ c[2] \in DOMAIN bs2[c[1]] THEN Justified(c, ans[c], req2)
                    ELSE ans[c] = 0
  BY DEF Whole
<1>1. c[1] \in Elems(th) => bs2[c[1]] = bs[c[1]]
  OBVIOUS
<1>2. Justified(c, ans[c], req) => Justified(c, ans[c], req2)
  BY DEF Justified
<1>3. IF c[1] \in Elems(th) /\ c[2] \in DOMAIN bs[c[1]] THEN Justified(c, ans[c], req)
      ELSE ans[c] = 0
  BY DEF Whole
<1> QED BY <1>1, <1>2, <1>3

\* The same for one that ends inside a batch.
LEMMA BrokenKept ==
    ASSUME NEW th, NEW ans, NEW pos, NEW made, NEW req, NEW req2, NEW bs, NEW bs2, NEW S,
           Elems(th) \subseteq S, \A n \in S : bs2[n] = bs[n], req \subseteq req2,
           Broken(th, ans, pos, made, req, bs)
    PROVE  Broken(th, ans, pos, made, req2, bs2)
<1> SUFFICES ASSUME NEW c \in Calls
             PROVE  IF c[1] \in Elems(th) /\ c[2] \in DOMAIN bs2[c[1]] /\ (c[1] = Latest(th) => c[2] < pos)
                    THEN Justified(c, ans[c], req2) /\ (c[1] = Latest(th) /\ c[2] \in made => ans[c] = 1)
                    ELSE ans[c] = 0
  BY DEF Broken
<1>1. c[1] \in Elems(th) => bs2[c[1]] = bs[c[1]]
  OBVIOUS
<1>2. Justified(c, ans[c], req) => Justified(c, ans[c], req2)
  BY DEF Justified
<1>3. IF c[1] \in Elems(th) /\ c[2] \in DOMAIN bs[c[1]] /\ (c[1] = Latest(th) => c[2] < pos)
      THEN Justified(c, ans[c], req) /\ (c[1] = Latest(th) /\ c[2] \in made => ans[c] = 1)
      ELSE ans[c] = 0
  BY DEF Broken
<1> QED BY <1>1, <1>2, <1>3

\* A new batch at the end of a message list that answers everything.
LEMMA BatchAdded ==
    ASSUME NEW th \in Seq(Ids), NEW ans, NEW req, NEW bs, NEW n, n \notin Elems(th),
           Whole(th, ans, req, bs)
    PROVE  Broken(Append(th, n), ans, 1, {}, req, bs)
<1> DEFINE new == Append(th, n)
<1>1. Latest(new) = n /\ Elems(new) = Elems(th) \cup {n}
  <2>1. Len(new) = Len(th) + 1 /\ new[Len(th) + 1] = n /\ DOMAIN new = 1..(Len(th) + 1)
        /\ \A k \in 1..Len(th) : new[k] = th[k]
    OBVIOUS
  <2>2. \A k \in 1..(Len(th) + 1) : k = Len(th) + 1 \/ k \in 1..Len(th)
    OBVIOUS
  <2>3. \A k \in 1..Len(th) : k \in 1..(Len(th) + 1)
    OBVIOUS
  <2>4. Len(th) + 1 \in 1..(Len(th) + 1) /\ DOMAIN th = 1..Len(th)
    OBVIOUS
  <2> HIDE DEF new
  <2> QED BY <2>1, <2>2, <2>3, <2>4 DEF Latest, Elems
<1> HIDE DEF new
<1> SUFFICES ASSUME NEW c \in Calls
             PROVE  IF c[1] \in Elems(new) /\ c[2] \in DOMAIN bs[c[1]] /\ (c[1] = Latest(new) => c[2] < 1)
                    THEN Justified(c, ans[c], req) /\ (c[1] = Latest(new) /\ c[2] \in {} => ans[c] = 1)
                    ELSE ans[c] = 0
  BY DEF Broken, new
<1>2. IF c[1] \in Elems(th) /\ c[2] \in DOMAIN bs[c[1]] THEN Justified(c, ans[c], req)
      ELSE ans[c] = 0
  BY DEF Whole
<1>3. ~(c[2] < 1)
  BY BoundAssumption DEF Calls
<1> QED BY <1>1, <1>2, <1>3

\* One more call of the last batch is answered.
LEMMA CallAdded ==
    ASSUME NEW th, NEW ans, NEW ans2, NEW pos \in Nat, NEW made, NEW req, NEW bs, NEW len \in Nat,
           Latest(th) \in Elems(th), DOMAIN bs[Latest(th)] = 1..len, pos \in 1..len,
           Broken(th, ans, pos, made, req, bs),
           \A c \in Calls : ans2[c] = IF c = <<Latest(th), pos>> THEN 1 ELSE ans[c]
    PROVE  /\ Broken(th, ans2, pos + 1, made \cup {pos}, req, bs)
           /\ pos = len => Whole(th, ans2, req, bs)
<1>1. ASSUME NEW c \in Calls
      PROVE  /\ IF c[1] \in Elems(th) /\ c[2] \in DOMAIN bs[c[1]] /\ (c[1] = Latest(th) => c[2] < pos + 1)
                THEN Justified(c, ans2[c], req) /\ (c[1] = Latest(th) /\ c[2] \in made \cup {pos} => ans2[c] = 1)
                ELSE ans2[c] = 0
             /\ pos = len =>
                  IF c[1] \in Elems(th) /\ c[2] \in DOMAIN bs[c[1]] THEN Justified(c, ans2[c], req)
                  ELSE ans2[c] = 0
  <2>1. c[2] \in Nat /\ (c = <<Latest(th), pos>> <=> c[1] = Latest(th) /\ c[2] = pos)
    BY BoundAssumption DEF Calls
  <2>2. CASE c[1] = Latest(th) /\ c[2] = pos
    <3>1. ans2[c] = 1 /\ Justified(c, 1, req)
      BY <2>1, <2>2 DEF Justified
    <3>2. pos < pos + 1 /\ c[2] \in DOMAIN bs[c[1]]
      BY <2>2
    <3> QED BY <2>2, <3>1, <3>2
  <2>3. CASE ~(c[1] = Latest(th) /\ c[2] = pos)
    <3>1. ans2[c] = ans[c]
      BY <2>1, <2>3
    <3>2. IF c[1] \in Elems(th) /\ c[2] \in DOMAIN bs[c[1]] /\ (c[1] = Latest(th) => c[2] < pos)
          THEN Justified(c, ans[c], req) /\ (c[1] = Latest(th) /\ c[2] \in made => ans[c] = 1)
          ELSE ans[c] = 0
      BY DEF Broken
    <3>3. c[2] # pos => (c[2] < pos + 1 <=> c[2] < pos)
      BY <2>1
    <3>4. c[2] # pos /\ pos = len /\ c[2] \in 1..len => c[2] < pos
      BY <2>1
    <3> QED BY <2>3, <3>1, <3>2, <3>3, <3>4
  <2> QED BY <2>2, <2>3
<1> QED BY <1>1 DEF Broken, Whole

\* A resumed dispatch counts what it had answered before it suspended.
LEMMA DispatchResumed ==
    ASSUME NEW th, NEW ans, NEW ans2, NEW pos \in Nat, NEW made, NEW req, NEW bs,
           <<Latest(th), pos>> \in req, made \subseteq 1..(pos - 1),
           Latest(th) \in Elems(th), made \subseteq DOMAIN bs[Latest(th)],
           Broken(th, ans, pos, made, req, bs),
           \A c \in Calls : ans2[c] = IF c[1] = Latest(th) /\ c[2] \in made THEN 2 ELSE ans[c]
    PROVE  Broken(th, ans2, pos, {}, req, bs)
<1> SUFFICES ASSUME NEW c \in Calls
             PROVE  IF c[1] \in Elems(th) /\ c[2] \in DOMAIN bs[c[1]] /\ (c[1] = Latest(th) => c[2] < pos)
                    THEN Justified(c, ans2[c], req) /\ (c[1] = Latest(th) /\ c[2] \in {} => ans2[c] = 1)
                    ELSE ans2[c] = 0
  BY DEF Broken
<1>1. IF c[1] \in Elems(th) /\ c[2] \in DOMAIN bs[c[1]] /\ (c[1] = Latest(th) => c[2] < pos)
      THEN Justified(c, ans[c], req) /\ (c[1] = Latest(th) /\ c[2] \in made => ans[c] = 1)
      ELSE ans[c] = 0
  BY DEF Broken
<1>2. CASE c[1] = Latest(th) /\ c[2] \in made
  <2>1. c[2] < pos /\ pos > c[2]
    BY <1>2, BoundAssumption DEF Calls
  <2>2. ans2[c] = 2 /\ Justified(c, 2, req)
    BY <1>2, <2>1 DEF Justified
  <2>3. c[1] \in Elems(th) /\ c[2] \in DOMAIN bs[c[1]]
    BY <1>2
  <2> QED BY <2>1, <2>2, <2>3
<1>3. CASE ~(c[1] = Latest(th) /\ c[2] \in made)
  BY <1>1, <1>3
<1> QED BY <1>2, <1>3

\* What is answered is kept in every step.
LEMMA HistoryStep ==
    Fields /\ Others /\ Shape /\ Stage /\ History /\ [Next]_vars => History'
<1> SUFFICES ASSUME Fields, Others, Shape, Stage, History, [Next]_vars PROVE History'
  OBVIOUS
<1>g. /\ Len(batches) \in Nat /\ Len(batches') \in Nat
      /\ \A n \in 1..Len(batches) : batches'[n] = batches[n]
      /\ requested \subseteq requested'
  BY Grown DEF Batch
<1>e. Elems(thread) \subseteq 1..Len(batches) /\ (HasAgent(ckpt) => Elems(ckpt.agent.thread) \subseteq 1..Len(batches))
  BY DEF Stage
<1> DEFINE Mine == /\ pc \in {"loop", "llm", "final", "limit", "save", "judge"} \/ Parking =>
                          Whole(thread, answers, requested, batches)
                   /\ InBatch => Broken(thread, answers, at, done, requested, batches)
<1> DEFINE Theirs == /\ ckpt.kind \in {"step", "park"} =>
                            Whole(ckpt.agent.thread, ckpt.agent.answers, requested, batches)
                     /\ ckpt.kind = "suspend" =>
                            Broken(ckpt.agent.thread, ckpt.agent.answers, ckpt.agent.at, ckpt.agent.done,
                                   requested, batches)
<1>m. Mine /\ Theirs
  BY DEF History
<1>q. ASSUME Mine', Theirs' PROVE History'
  BY <1>q DEF History
<1>w. ASSUME UNCHANGED <<thread, answers>>, Whole(thread, answers, requested, batches)
      PROVE  Whole(thread', answers', requested', batches')
  BY <1>w, <1>g, <1>e, WholeKept
<1>b. ASSUME UNCHANGED <<thread, answers, at, done>>, Broken(thread, answers, at, done, requested, batches)
      PROVE  Broken(thread', answers', at', done', requested', batches')
  <2>1. Broken(thread, answers, at, done, requested', batches')
    BY <1>b, <1>g, <1>e, BrokenKept
  <2> QED BY <1>b, <2>1
<1>c. ASSUME UNCHANGED ckpt
      PROVE  Theirs'
  <2>1. CASE ckpt.kind \in {"step", "park"}
    <3>1. Whole(ckpt.agent.thread, ckpt.agent.answers, requested', batches')
      BY <2>1, <1>g, <1>e, <1>m, WholeKept DEF HasAgent
    <3> QED BY <1>c, <2>1, <3>1
  <2>2. CASE ckpt.kind = "suspend"
    <3>1. Broken(ckpt.agent.thread, ckpt.agent.answers, ckpt.agent.at, ckpt.agent.done, requested', batches')
      BY <2>2, <1>g, <1>e, <1>m, BrokenKept DEF HasAgent
    <3> QED BY <1>c, <2>2, <3>1
  <2> QED BY <1>c, <2>1, <2>2
<1> HIDE DEF Theirs
\* the agent goes on with a message list that answers everything, or has stopped
<1>h. ASSUME UNCHANGED ckpt, Whole(thread, answers, requested, batches), UNCHANGED <<thread, answers>>,
             pc' \notin {"dispatch"}, pc' \in {"surface", "handle"} => susp' # "hitl"
      PROVE  History'
  <2>1. Mine'
    BY <1>h, <1>w DEF InBatch
  <2> QED BY <1>h, <2>1, <1>c, <1>q
<1>i. ASSUME UNCHANGED ckpt, pc' \in {"idle", "refused", "return"} PROVE History'
  <2>1. Mine'
    BY <1>i DEF InBatch, Parking
  <2> QED BY <1>i, <2>1, <1>c, <1>q
<1>k. ASSUME UNCHANGED <<ckpt, thread, answers, at, done, pc, susp>> PROVE History'
  <2>1. Mine'
    BY <1>k, <1>m, <1>w, <1>b DEF InBatch, Parking
  <2> QED BY <1>k, <2>1, <1>c, <1>q
<1>z. ASSUME UNCHANGED <<ckpt, requested, batches>>, ReEnterLoop(ckpt.agent), ckpt.kind \in {"step", "park"}
      PROVE  History'
  <2>1. thread' = ckpt.agent.thread /\ answers' = ckpt.agent.answers /\ pc' \in {"loop", "return"}
    BY <1>z DEF ReEnterLoop, Restore
  <2>2. Whole(thread', answers', requested', batches')
    BY <2>1, <1>m, <1>z DEF Theirs
  <2>3. Mine'
    BY <2>1, <2>2 DEF InBatch
  <2> QED BY <1>z, <2>3, <1>c, <1>q
<1> HIDE DEF Mine
<1> USE DEF config, stores, limits, messages, counters, dispatch, history
<1>1. CASE Start
  <2>1. pc = "idle" /\ pc' = "loop" /\ UNCHANGED <<ckpt, thread, answers>>
    BY <1>1 DEF Start, Begin
  <2>2. thread = <<>> /\ answers = Unanswered
    BY <2>1 DEF Stage
  <2>3. Elems(thread) = {} /\ \A c \in Calls : answers[c] = 0
    BY <2>2 DEF Elems, Unanswered
  <2>4. Whole(thread, answers, requested, batches)
    BY <2>3 DEF Whole
  <2> QED BY <2>1, <2>4, <1>h
<1>2. CASE ResumeInterrupted
  <2>1. UNCHANGED <<ckpt, requested, batches>> /\ ReEnterLoop(ckpt.agent) /\ ckpt.kind = "step"
    BY <1>2 DEF ResumeInterrupted, Begin
  <2> QED BY <2>1, <1>z
<1>3. CASE ResumeEnded
  <2>1. UNCHANGED ckpt /\ pc' \in {"idle", "refused", "return"}
    BY <1>3 DEF ResumeEnded, Begin
  <2> QED BY <2>1, <1>i
<1>4. CASE Resume
  <2>1. ckpt.kind = "suspend" /\ UNCHANGED <<ckpt, requested, batches>> /\ Restore(Added(ckpt.agent))
        /\ at' = ckpt.agent.at /\ done' = {} /\ pc' = "dispatch"
    BY <1>4 DEF Resume, Added, Begin
  <2>2. thread' = ckpt.agent.thread
        /\ \A c \in Calls : answers'[c] = IF c[1] = Pending[1] /\ c[2] \in ckpt.agent.done THEN 2
                                          ELSE ckpt.agent.answers[c]
    BY <2>1, AddedTyped DEF Restore
  <2>3. Pending[1] = Latest(thread') /\ Pending \in requested /\ Pending[1] \in 1..Len(batches)
        /\ Latest(thread') \in Elems(thread') /\ Pending = <<Latest(thread'), at'>>
        /\ at' \in DOMAIN Batch(Pending[1]) /\ ckpt.agent.done \subseteq 1..(at' - 1)
    BY <2>1, <2>2, Saved DEF Pending, Latest, Stage
  <2>4. DOMAIN batches[Latest(thread')] = 1..Len(Batch(Pending[1])) /\ Len(Batch(Pending[1])) \in Nat
        /\ at' \in 1..Len(Batch(Pending[1])) /\ at' \in Nat
    BY <2>3, AskedFor, BoundAssumption DEF Batch
  <2>5. ckpt.agent.done \subseteq 1..(at' - 1) /\ ckpt.agent.done \subseteq DOMAIN batches[Latest(thread')]
    <3>1. \A len \in Nat : \A p \in 1..len : \A i \in 1..(p - 1) : i \in 1..len
      OBVIOUS
    <3>2. \A i \in 1..(at' - 1) : i \in 1..Len(Batch(Pending[1]))
      BY <2>4, <3>1
    <3> QED BY <2>3, <2>4, <3>2
  <2>6. Broken(thread', ckpt.agent.answers, at', ckpt.agent.done, requested', batches')
    BY <1>m, <2>1, <2>2 DEF Theirs
  <2>7. Broken(thread', answers', at', {}, requested', batches')
    <3>1. \A c \in Calls : answers'[c] = IF c[1] = Latest(thread') /\ c[2] \in ckpt.agent.done THEN 2
                                         ELSE ckpt.agent.answers[c]
      BY <2>2, <2>3
    <3>2. <<Latest(thread'), at'>> \in requested' /\ UNCHANGED batches
      BY <2>1, <2>3
    <3> QED BY <2>3, <2>4, <2>5, <2>6, <3>1, <3>2, DispatchResumed
  <2>8. Mine'
    BY <2>1, <2>7 DEF Mine, Parking
  <2> QED BY <2>1, <2>8, <1>c, <1>q
<1>5. ASSUME NEW g \in {0, Grant}, Continue(g) PROVE History'
  <2>1. UNCHANGED <<ckpt, requested, batches>> /\ ckpt.kind = "park" /\ (pc' = "refused" \/ ReEnterLoop(ckpt.agent))
    BY <1>5 DEF Continue, Begin
  <2> QED BY <2>1, <1>z, <1>i
<1>6. CASE EndDirect
  <2>1. UNCHANGED ckpt /\ pc' \in {"idle", "refused", "return"}
    BY <1>6 DEF EndDirect, EndAgent
  <2> QED BY <2>1, <1>i
<1>7. CASE StopCancelled
  <2>1. UNCHANGED ckpt /\ pc' \in {"idle", "refused", "return"}
    BY <1>7 DEF StopCancelled, EndAgent
  <2> QED BY <2>1, <1>i
<1>8. CASE NextTurn
  <2>1. Whole(thread, answers, requested, batches)
    BY <1>8, <1>m DEF Mine, NextTurn, LimitReached, EndAgent
  <2>2. UNCHANGED <<ckpt, thread, answers>> /\ pc' \notin {"dispatch"} /\ (pc' \in {"surface", "handle"} => susp' # "hitl")
    BY <1>8 DEF NextTurn, LimitReached, EndAgent
  <2> QED BY <2>1, <2>2, <1>h
<1>9. CASE TextAnswer
  <2>1. Whole(thread, answers, requested, batches)
    BY <1>9, <1>m DEF Mine, TextAnswer, Judge, EndAgent
  <2>2. UNCHANGED <<ckpt, thread, answers>> /\ pc' \notin {"dispatch"} /\ (pc' \in {"surface", "handle"} => susp' # "hitl")
    BY <1>9 DEF TextAnswer, Judge, EndAgent
  <2> QED BY <2>1, <2>2, <1>h
<1>10. ASSUME NEW b \in Batches, AskForTools(b) PROVE History'
  <2>1. /\ thread' = Append(thread, Len(batches) + 1) /\ pc = "llm"
        /\ at' = 1 /\ done' = {} /\ pc' = "dispatch" /\ UNCHANGED <<ckpt, requested, answers>>
    BY <1>10 DEF AskForTools
  <2>2. Len(batches) + 1 \notin Elems(thread) /\ thread \in Seq(Ids)
    BY <1>e, <1>g DEF Fields
  <2>3. Whole(thread, answers, requested', batches')
    BY <2>1, <1>m, <1>g, <1>e, WholeKept DEF Mine
  <2>4. Broken(thread', answers', at', done', requested', batches')
    BY <2>1, <2>2, <2>3, BatchAdded
  <2>5. Mine'
    BY <2>1, <2>4 DEF Mine, Parking
  <2> QED BY <2>1, <2>5, <1>c, <1>q
<1>11. CASE CallReturns
  <2>1. InBatch /\ pc = "dispatch" /\ UNCHANGED <<ckpt, requested, thread, batches>> /\ done' = done \cup {at}
        /\ answers' = [answers EXCEPT ![Here] = answers[Here] + 1]
        /\ \/ at < Len(Batch(Current)) /\ at' = at + 1 /\ UNCHANGED pc
           \/ ~(at < Len(Batch(Current))) /\ pc' \in {"loop", "limit"} /\ UNCHANGED at
    BY <1>11 DEF CallReturns, Dispatching, Advance, InBatch
  <2>2. /\ Latest(thread) \in Elems(thread) /\ Len(Batch(Current)) \in Nat /\ at \in Nat
        /\ DOMAIN batches[Latest(thread)] = 1..Len(Batch(Current)) /\ at \in 1..Len(Batch(Current))
        /\ Here = <<Latest(thread), at>> /\ Here \in Calls
        /\ Here[1] = Latest(thread) /\ Here[2] = at
    BY <2>1, Inside, BoundAssumption DEF Batch, Here
  <2>3. Broken(thread, answers, at, done, requested, batches)
    BY <2>1, <1>m DEF Mine
  <2>4. answers[Here] = 0 /\ answers \in [Calls -> 0..2]
    <3>1. ~(at < at)
      BY <2>2
    <3> QED BY <2>2, <2>3, <3>1 DEF Broken, Fields
  <2>5. \A c \in Calls : answers'[c] = IF c = <<Latest(thread), at>> THEN 1 ELSE answers[c]
    BY <2>1, <2>2, <2>4
  <2>6. /\ Broken(thread, answers', at + 1, done \cup {at}, requested, batches)
        /\ at = Len(Batch(Current)) => Whole(thread, answers', requested, batches)
    BY <2>2, <2>3, <2>5, CallAdded
  <2>7. ~(at < Len(Batch(Current))) => at = Len(Batch(Current))
    BY <2>2
  <2>8. Mine'
    BY <2>1, <2>6, <2>7 DEF Mine, InBatch, Parking
  <2> QED BY <2>1, <2>8, <1>c, <1>q
<1>12. CASE CallSuspends
  <2>1. InBatch /\ UNCHANGED <<ckpt, thread, answers, at, done>> /\ pc' = "surface" /\ susp' = "hitl"
    BY <1>12 DEF CallSuspends, Dispatching, InBatch
  <2>2. Broken(thread', answers', at', done', requested', batches')
    BY <2>1, <1>m, <1>b DEF Mine
  <2>3. Mine'
    BY <2>1, <2>2 DEF Mine, Parking
  <2> QED BY <2>1, <2>3, <1>c, <1>q
<1>13. CASE CallCancelled
  <2>1. UNCHANGED ckpt /\ pc' \in {"idle", "refused", "return"}
    BY <1>13 DEF CallCancelled, Dispatching, EndAgent
  <2> QED BY <2>1, <1>i
<1>14. CASE CountTools
  <2>1. Whole(thread, answers, requested, batches)
    BY <1>14, <1>m DEF Mine, CountTools, LimitReached, EndAgent
  <2>2. UNCHANGED <<ckpt, thread, answers>> /\ pc' \notin {"dispatch"} /\ (pc' \in {"surface", "handle"} => susp' # "hitl")
    BY <1>14 DEF CountTools, LimitReached, EndAgent
  <2> QED BY <2>1, <2>2, <1>h
<1>15. CASE SaveBatch
  <2>1. ckpt'.kind = "step" /\ ckpt'.agent.thread = thread /\ ckpt'.agent.answers = answers
        /\ UNCHANGED <<thread, answers>> /\ pc' = "judge" /\ pc = "save"
    BY <1>15 DEF SaveBatch, Snapshot
  <2>2. Whole(thread, answers, requested', batches')
    BY <2>1, <1>m, <1>w DEF Mine
  <2>3. Mine' /\ Theirs'
    BY <2>1, <2>2 DEF Mine, Theirs, InBatch
  <2> QED BY <2>3, <1>q
<1>16. CASE JudgeBatch
  <2>1. Whole(thread, answers, requested, batches)
    BY <1>16, <1>m DEF Mine, JudgeBatch, Judge, EndAgent
  <2>2. UNCHANGED <<ckpt, thread, answers>> /\ pc' \notin {"dispatch"} /\ (pc' \in {"surface", "handle"} => susp' # "hitl")
    BY <1>16 DEF JudgeBatch, Judge, EndAgent
  <2> QED BY <2>1, <2>2, <1>h
<1>17. CASE Surface
  <2>1. /\ UNCHANGED <<thread, answers, at, done, susp>> /\ pc = "surface" /\ pc' = "handle"
        /\ ckpt'.agent.thread = thread /\ ckpt'.agent.answers = answers
        /\ ckpt'.agent.at = at /\ ckpt'.agent.done = done
        /\ ckpt'.kind = IF susp = "hitl" THEN "suspend" ELSE "park"
    BY <1>17 DEF Surface, Snapshot
  <2>2. CASE susp = "hitl"
    <3>1. Broken(thread, answers, at, done, requested', batches')
      BY <2>1, <2>2, <1>m, <1>b DEF Mine, InBatch
    <3> QED BY <2>1, <2>2, <3>1, <1>q DEF Mine, Theirs, Parking
  <2>3. CASE susp # "hitl"
    <3>1. Whole(thread, answers, requested', batches')
      BY <2>1, <2>3, <1>m, <1>w DEF Mine, Parking
    <3> QED BY <2>1, <2>3, <3>1, <1>q DEF Mine, Theirs, InBatch
  <2> QED BY <2>2, <2>3
<1>18. CASE WrapSuspension
  <2>1. UNCHANGED ckpt /\ pc' \in {"idle", "refused", "return"}
    BY <1>18 DEF WrapSuspension, Idle
  <2> QED BY <2>1, <1>i
<1>19. CASE SaveEnd
  <2>1. ckpt'.kind = "end" /\ pc' = "return"
    BY <1>19 DEF SaveEnd
  <2> QED BY <2>1, <1>q DEF Mine, Theirs, InBatch, Parking
<1>20. CASE ReturnResult
  <2>1. UNCHANGED ckpt /\ pc' \in {"idle", "refused", "return"}
    BY <1>20 DEF ReturnResult, Idle
  <2> QED BY <2>1, <1>i
<1>21. CASE LimiterRefuses
  <2>1. UNCHANGED ckpt /\ pc' \in {"idle", "refused", "return"}
    BY <1>21 DEF LimiterRefuses, Idle
  <2> QED BY <2>1, <1>i
<1>22. CASE Nudge
  <2>1. Whole(thread, answers, requested, batches)
    BY <1>22, <1>m DEF Mine, Nudge
  <2>2. UNCHANGED <<ckpt, thread, answers>> /\ pc' \notin {"dispatch"} /\ (pc' \in {"surface", "handle"} => susp' # "hitl")
    BY <1>22 DEF Nudge
  <2> QED BY <2>1, <2>2, <1>h
<1>23. CASE Crash
  <2>1. UNCHANGED ckpt /\ pc' \in {"idle", "refused", "return"}
    BY <1>23 DEF Crash, Interrupt, Idle, Dispatching
  <2> QED BY <2>1, <1>i
<1>24. CASE Cancel
  <2>1. UNCHANGED <<ckpt, thread, answers, at, done, pc, susp>>
    BY <1>24 DEF Cancel, Interrupt
  <2> QED BY <2>1, <1>k
<1>25. ASSUME NEW c \in Calls, Respond(c) PROVE History'
  <2>1. UNCHANGED <<ckpt, thread, answers, at, done, pc, susp>>
    BY <1>25 DEF Respond
  <2> QED BY <2>1, <1>k
<1>26. CASE UNCHANGED vars
  <2>1. UNCHANGED <<ckpt, thread, answers, at, done, pc, susp>>
    BY <1>26 DEF vars
  <2> QED BY <2>1, <1>k
<1>27. CASE StructuredAnswer
  <2>1. Whole(thread, answers, requested, batches)
    BY <1>27, <1>m DEF Mine, StructuredAnswer
  <2>2. UNCHANGED <<ckpt, thread, answers>> /\ pc' \notin {"dispatch"} /\ (pc' \in {"surface", "handle"} => susp' # "hitl")
    BY <1>27 DEF StructuredAnswer, Judge, EndAgent
  <2> QED BY <2>1, <2>2, <1>h
<1> QED
  BY <1>1, <1>2, <1>3, <1>4, <1>5, <1>6, <1>7, <1>8, <1>9, <1>10, <1>11, <1>12, <1>13,
     <1>14, <1>15, <1>16, <1>17, <1>18, <1>19, <1>20, <1>21, <1>22, <1>23, <1>24, <1>25,
     <1>26, <1>27
     DEF Next, Drive, Agent, Frame

----------------------------------------------------------------------------
(* What runs once.                                                         *)

\* What the agent dispatches is kept in every step.
LEMMA OwnStep ==
    Fields /\ Others /\ Shape /\ Stage /\ Own /\ [Next]_vars => Own'
<1> SUFFICES ASSUME Fields, Others, Shape, Stage, Own, [Next]_vars PROVE Own'
  OBVIOUS
<1>x. ASSUME pc' # "dispatch" PROVE Own'
  BY <1>x DEF Own
<1>k. ASSUME UNCHANGED <<ckpt, pc, thread, at>> PROVE Own'
  BY <1>k DEF Own, HasAgent, Current
<1> USE DEF config, stores, limits, messages, counters, dispatch, history
<1>1. CASE Start
  <2>1. pc' # "dispatch"
    BY <1>1 DEF Start, Begin
  <2> QED BY <2>1, <1>x
<1>2. CASE ResumeInterrupted
  <2>1. pc' # "dispatch"
    BY <1>2 DEF ResumeInterrupted, Begin, ReEnterLoop, Restore
  <2> QED BY <2>1, <1>x
<1>3. CASE ResumeEnded
  <2>1. pc' # "dispatch"
    BY <1>3 DEF ResumeEnded, Begin
  <2> QED BY <2>1, <1>x
<1>4. CASE Resume
  <2>1. ckpt.kind = "suspend" /\ UNCHANGED ckpt /\ Restore(Added(ckpt.agent)) /\ at' = ckpt.agent.at
    BY <1>4 DEF Resume, Added, Begin
  <2>2. ckpt.agent \in AgentType /\ at' \in Nat
    BY <2>1, Saved, BoundAssumption DEF AgentType
  <2>3. thread' = ckpt.agent.thread
    BY <2>1, <2>2 DEF Restore, Added, AgentType
  <2> QED BY <2>1, <2>2, <2>3 DEF Own, Current, Latest
<1>5. ASSUME NEW g \in {0, Grant}, Continue(g) PROVE Own'
  <2>1. pc' # "dispatch"
    BY <1>5 DEF Continue, Begin, ReEnterLoop, Restore
  <2> QED BY <2>1, <1>x
<1>6. CASE EndDirect
  <2>1. pc' # "dispatch"
    BY <1>6 DEF EndDirect, EndAgent
  <2> QED BY <2>1, <1>x
<1>7. CASE StopCancelled
  <2>1. pc' # "dispatch"
    BY <1>7 DEF StopCancelled, EndAgent
  <2> QED BY <2>1, <1>x
<1>8. CASE NextTurn
  <2>1. pc' # "dispatch"
    BY <1>8 DEF NextTurn, LimitReached, EndAgent
  <2> QED BY <2>1, <1>x
<1>9. CASE TextAnswer
  <2>1. pc' # "dispatch"
    BY <1>9 DEF TextAnswer, Judge, EndAgent
  <2> QED BY <2>1, <1>x
<1>10. ASSUME NEW b \in Batches, AskForTools(b) PROVE Own'
  <2>1. thread' = Append(thread, Len(batches) + 1) /\ UNCHANGED ckpt
    BY <1>10 DEF AskForTools
  <2>2. Current' = Len(batches) + 1
    BY <2>1 DEF Current, Fields
  <2>3. HasAgent(ckpt) => Len(batches) + 1 \notin Elems(ckpt.agent.thread)
    <3>1. Len(batches) + 1 \notin 1..Len(batches)
      BY DEF Others
    <3> QED BY <3>1 DEF Stage
  <2> QED BY <2>1, <2>2, <2>3 DEF Own, HasAgent
<1>11. CASE CallReturns
  <2>1. pc = "dispatch" /\ UNCHANGED <<ckpt, thread>> /\ (at' = at + 1 \/ at' = at)
    BY <1>11 DEF CallReturns, Dispatching, Advance
  <2>2. HasAgent(ckpt) => ckpt.agent.at \in Nat
    BY BoundAssumption DEF Shape, AgentType
  <2>3. at \in Nat
    BY BoundAssumption DEF Fields
  <2>4. HasAgent(ckpt) /\ at >= ckpt.agent.at => at' >= ckpt.agent.at
    BY <2>1, <2>2, <2>3
  <2> QED BY <2>1, <2>4 DEF Own, Current, HasAgent
<1>12. CASE CallSuspends
  <2>1. pc' # "dispatch"
    BY <1>12 DEF CallSuspends, Dispatching
  <2> QED BY <2>1, <1>x
<1>13. CASE CallCancelled
  <2>1. pc' # "dispatch"
    BY <1>13 DEF CallCancelled, Dispatching, EndAgent
  <2> QED BY <2>1, <1>x
<1>14. CASE CountTools
  <2>1. pc' # "dispatch"
    BY <1>14 DEF CountTools, LimitReached, EndAgent
  <2> QED BY <2>1, <1>x
<1>15. CASE SaveBatch
  <2>1. pc' # "dispatch"
    BY <1>15 DEF SaveBatch
  <2> QED BY <2>1, <1>x
<1>16. CASE JudgeBatch
  <2>1. pc' # "dispatch"
    BY <1>16 DEF JudgeBatch, Judge, EndAgent
  <2> QED BY <2>1, <1>x
<1>17. CASE Surface
  <2>1. pc' # "dispatch"
    BY <1>17 DEF Surface
  <2> QED BY <2>1, <1>x
<1>18. CASE WrapSuspension
  <2>1. pc' # "dispatch"
    BY <1>18 DEF WrapSuspension, Idle
  <2> QED BY <2>1, <1>x
<1>19. CASE SaveEnd
  <2>1. pc' # "dispatch"
    BY <1>19 DEF SaveEnd
  <2> QED BY <2>1, <1>x
<1>20. CASE ReturnResult
  <2>1. pc' # "dispatch"
    BY <1>20 DEF ReturnResult, Idle
  <2> QED BY <2>1, <1>x
<1>21. CASE LimiterRefuses
  <2>1. pc' # "dispatch"
    BY <1>21 DEF LimiterRefuses, Idle
  <2> QED BY <2>1, <1>x
<1>22. CASE Nudge
  <2>1. pc' # "dispatch"
    BY <1>22 DEF Nudge
  <2> QED BY <2>1, <1>x
<1>23. CASE Crash
  <2>1. pc' # "dispatch"
    BY <1>23 DEF Crash, Interrupt, Idle, Dispatching
  <2> QED BY <2>1, <1>x
<1>24. CASE Cancel
  <2>1. UNCHANGED <<ckpt, pc, thread, at>>
    BY <1>24 DEF Cancel, Interrupt
  <2> QED BY <2>1, <1>k
<1>25. ASSUME NEW c \in Calls, Respond(c) PROVE Own'
  <2>1. UNCHANGED <<ckpt, pc, thread, at>>
    BY <1>25 DEF Respond
  <2> QED BY <2>1, <1>k
<1>26. CASE UNCHANGED vars
  <2>1. UNCHANGED <<ckpt, pc, thread, at>>
    BY <1>26 DEF vars
  <2> QED BY <2>1, <1>k
<1>27. CASE StructuredAnswer
  <2>1. pc' # "dispatch"
    BY <1>27 DEF StructuredAnswer, Judge, EndAgent
  <2> QED BY <2>1, <1>x
<1> QED
  BY <1>1, <1>2, <1>3, <1>4, <1>5, <1>6, <1>7, <1>8, <1>9, <1>10, <1>11, <1>12, <1>13,
     <1>14, <1>15, <1>16, <1>17, <1>18, <1>19, <1>20, <1>21, <1>22, <1>23, <1>24, <1>25,
     <1>26, <1>27
     DEF Next, Drive, Agent, Frame

\* A call that the agent is at has no answer in the checkpoint.
LEMMA NotRecorded ==
    ASSUME Fields, Others, Shape, Stage, History, Own, pc = "dispatch", HasAgent(ckpt)
    PROVE  Here \in Calls /\ ckpt.agent.answers[Here] = 0
<1>1. InBatch
  BY DEF InBatch
<1>2. Here \in Calls /\ Here[1] = Current /\ Here[2] = at /\ at \in Nat
  BY <1>1, Inside, BoundAssumption
<1>3. CASE Current \notin Elems(ckpt.agent.thread)
  <2>1. Whole(ckpt.agent.thread, ckpt.agent.answers, requested, batches) => ckpt.agent.answers[Here] = 0
    BY <1>2, <1>3 DEF Whole
  <2>2. Broken(ckpt.agent.thread, ckpt.agent.answers, ckpt.agent.at, ckpt.agent.done, requested, batches)
           => ckpt.agent.answers[Here] = 0
    BY <1>2, <1>3 DEF Broken
  <2> QED BY <1>2, <2>1, <2>2 DEF History, HasAgent
<1>4. CASE Current \in Elems(ckpt.agent.thread)
  <2>1. ckpt.kind = "suspend" /\ Current = Latest(ckpt.agent.thread) /\ at >= ckpt.agent.at
    BY <1>4 DEF Own
  <2>2. ckpt.agent.at \in Nat
    BY BoundAssumption DEF Shape, AgentType
  <2>3. ~(at < ckpt.agent.at)
    BY <1>2, <2>1, <2>2
  <2>4. Broken(ckpt.agent.thread, ckpt.agent.answers, ckpt.agent.at, ckpt.agent.done, requested, batches)
    BY <2>1 DEF History
  <2> QED BY <1>2, <2>1, <2>3, <2>4 DEF Broken
<1> QED BY <1>3, <1>4

\* A tool runs only where the agent is.
LEMMA RunsHere ==
    ASSUME Others, [Next]_vars, NEW x \in Calls, effects'[x] # effects[x]
    PROVE  pc = "dispatch" /\ x = Here
<1> DEFINE Runs == UNCHANGED effects \/ (pc = "dispatch" /\ effects' = [effects EXCEPT ![Here] = @ + 1])
<1>e. Runs
  <2> USE DEF config, stores, limits, messages, counters, dispatch, history
  <2>1. CASE Start
    BY <2>1 DEF Start, Begin
  <2>2. CASE ResumeInterrupted
    BY <2>2 DEF ResumeInterrupted, Begin, ReEnterLoop, Restore
  <2>3. CASE ResumeEnded
    BY <2>3 DEF ResumeEnded, Begin
  <2>4. CASE Resume
    BY <2>4 DEF Resume, Begin, Restore
  <2>5. ASSUME NEW g \in {0, Grant}, Continue(g) PROVE Runs
    BY <2>5 DEF Continue, Begin, ReEnterLoop, Restore
  <2>6. CASE EndDirect
    BY <2>6 DEF EndDirect, EndAgent
  <2>7. CASE StopCancelled
    BY <2>7 DEF StopCancelled, EndAgent
  <2>8. CASE NextTurn
    BY <2>8 DEF NextTurn, LimitReached, EndAgent
  <2>9. CASE TextAnswer
    BY <2>9 DEF TextAnswer, Judge, EndAgent
  <2>10. ASSUME NEW b \in Batches, AskForTools(b) PROVE Runs
    BY <2>10 DEF AskForTools
  <2>11. CASE CallReturns
    BY <2>11 DEF CallReturns, Dispatching, Advance
  <2>12. CASE CallSuspends
    BY <2>12 DEF CallSuspends, Dispatching
  <2>13. CASE CallCancelled
    BY <2>13 DEF CallCancelled, Dispatching, EndAgent
  <2>14. CASE CountTools
    BY <2>14 DEF CountTools, LimitReached, EndAgent
  <2>15. CASE SaveBatch
    BY <2>15 DEF SaveBatch
  <2>16. CASE JudgeBatch
    BY <2>16 DEF JudgeBatch, Judge, EndAgent
  <2>17. CASE Surface
    BY <2>17 DEF Surface
  <2>18. CASE WrapSuspension
    BY <2>18 DEF WrapSuspension, Idle
  <2>19. CASE SaveEnd
    BY <2>19 DEF SaveEnd
  <2>20. CASE ReturnResult
    BY <2>20 DEF ReturnResult, Idle
  <2>21. CASE LimiterRefuses
    BY <2>21 DEF LimiterRefuses, Idle
  <2>22. CASE Nudge
    BY <2>22 DEF Nudge
  <2>23. CASE Crash
    BY <2>23 DEF Crash, Interrupt, Idle, Dispatching
  <2>24. CASE Cancel
    BY <2>24 DEF Cancel, Interrupt
  <2>25. ASSUME NEW c \in Calls, Respond(c) PROVE Runs
    BY <2>25 DEF Respond
  <2>26. CASE UNCHANGED vars
    BY <2>26 DEF vars
  <2>27. CASE StructuredAnswer
    BY <2>27 DEF StructuredAnswer, Judge, EndAgent
  <2> QED
    BY <2>1, <2>2, <2>3, <2>4, <2>5, <2>6, <2>7, <2>8, <2>9, <2>10, <2>11, <2>12, <2>13,
       <2>14, <2>15, <2>16, <2>17, <2>18, <2>19, <2>20, <2>21, <2>22, <2>23, <2>24, <2>25,
       <2>26, <2>27
       DEF Next, Drive, Agent, Frame
<1> QED BY <1>e DEF Others

----------------------------------------------------------------------------
(* What the limiters count.                                                *)

\* The turns are counted in every step.
LEMMA TurnsStep ==
    Fields /\ Others /\ Shape /\ Stage /\ History /\ Turns /\ [Next]_vars => Turns'
<1> SUFFICES ASSUME Fields, Others, Shape, Stage, History, Turns, [Next]_vars PROVE Turns'
  OBVIOUS
<1>t. /\ thread \in Seq(Ids) /\ Len(thread) \in Nat /\ turn \in Nat /\ iter \in Nat /\ ceiling \in Nat
      /\ ceiling' \in Nat /\ ceiling <= ceiling'
  <2>1. ceiling' \in Nat
    BY TypesStep DEF Others
  <2> QED BY <2>1, Grown DEF Fields, Others
<1>o. UNCHANGED schema /\ (schema = "on" => explicit = "off") /\ (schema' = "on" => explicit' = "off")
  <2>1. UNCHANGED config
    BY Grown
  <2> QED BY <2>1 DEF config, Turns
<1>x. Extra(schema, rev) \in Nat /\ Extra(schema, rev') \in Nat
  <2>1. rev \in Nat /\ rev' \in Nat
    BY TypesStep, LimitAssumption DEF Fields
  <2> QED BY <2>1 DEF Extra
<1> DEFINE Active == pc \in {"loop", "llm", "final", "limit", "save", "judge"} \/ InBatch \/ Parking
<1> DEFINE Mine == /\ Active =>
                          IF Parking /\ susp = "iteration_limit"
                          THEN turn = ceiling + Extra(schema, rev) /\ Len(thread) <= ceiling
                          ELSE turn = iter + Extra(schema, rev) /\ Len(thread) <= iter /\ iter <= ceiling
                   /\ pc = "llm" => Len(thread) < iter
                   /\ pc = "final" => schema = "on"
<1> DEFINE Theirs == HasAgent(ckpt) => /\ ckpt.agent.turn = ckpt.agent.iter + Extra(schema, ckpt.agent.rev)
                                       /\ Len(ckpt.agent.thread) <= ckpt.agent.iter /\ ckpt.agent.iter <= ceiling
<1>m. Mine /\ Theirs
  BY DEF Turns
<1>q. ASSUME Mine', Theirs' PROVE Turns'
  BY <1>q, <1>o DEF Turns
<1>c. ASSUME UNCHANGED ckpt PROVE Theirs'
  <2>1. HasAgent(ckpt) => ckpt.agent.iter \in Nat
    BY DEF Shape, AgentType
  <2>2. HasAgent(ckpt) /\ ckpt.agent.iter <= ceiling => ckpt.agent.iter <= ceiling'
    BY <2>1, <1>t
  <2> QED BY <1>c, <1>m, <1>o, <2>2 DEF HasAgent
<1> HIDE DEF Theirs
\* nothing counted changes, and the agent stays with its counts or stops
<1>k. ASSUME UNCHANGED <<ckpt, thread, turn, iter, ceiling>>, Extra(schema, rev') = Extra(schema, rev), Active,
             pc' = "final" => schema = "on",
             ~(Parking /\ susp = "iteration_limit"), pc' = "llm" => pc = "llm",
             ~(Parking' /\ susp' = "iteration_limit")
      PROVE  Turns'
  <2>1. Mine'
    BY <1>k, <1>m, <1>o
  <2> QED BY <1>k, <2>1, <1>c, <1>q
<1>v. ASSUME UNCHANGED <<ckpt, thread, turn, iter, rev, ceiling, pc, susp>> PROVE Turns'
  <2>1. Mine'
    BY <1>v, <1>m, <1>o DEF InBatch, Parking
  <2> QED BY <1>v, <2>1, <1>c, <1>q
<1>i. ASSUME UNCHANGED ckpt, pc' \in {"idle", "refused", "return"} PROVE Turns'
  <2>1. ~Active' /\ pc' # "llm"
    BY <1>i DEF InBatch, Parking
  <2> QED BY <1>i, <2>1, <1>c, <1>q
<1>z. ASSUME UNCHANGED ckpt, HasAgent(ckpt), Restore(ckpt.agent), pc' \in {"loop", "return"}
      PROVE  Turns'
  <2>1. thread' = ckpt.agent.thread /\ turn' = ckpt.agent.turn /\ iter' = ckpt.agent.iter /\ rev' = ckpt.agent.rev
    BY <1>z DEF Restore
  <2>2. turn' = iter' + Extra(schema', rev') /\ Len(thread') <= iter' /\ iter' <= ceiling'
    BY <1>z, <2>1, <1>c DEF Theirs, HasAgent
  <2>3. Mine'
    BY <1>z, <2>2 DEF Parking
  <2> QED BY <1>z, <2>3, <1>c, <1>q
<1> HIDE DEF Mine, Active
<1> USE DEF config, stores, limits, messages, counters, dispatch, history
<1>1. CASE Start
  <2>1. pc = "idle" /\ pc' = "loop" /\ UNCHANGED <<ckpt, thread, turn, iter, rev, ceiling>>
    BY <1>1 DEF Start, Begin
  <2>2. thread = <<>> /\ turn = 0 /\ iter = 0 /\ rev = 0
    BY <2>1 DEF Stage
  <2>3. turn' = iter' + Extra(schema', rev') /\ Len(thread') <= iter' /\ iter' <= ceiling'
    BY <2>1, <2>2, <1>t DEF Extra
  <2>4. Mine'
    BY <2>1, <2>3 DEF Mine, Parking
  <2> QED BY <2>1, <2>4, <1>c, <1>q
<1>2. CASE ResumeInterrupted
  <2>1. UNCHANGED ckpt /\ HasAgent(ckpt) /\ Restore(ckpt.agent) /\ pc' \in {"loop", "return"}
    BY <1>2 DEF ResumeInterrupted, ReEnterLoop, HasAgent
  <2> QED BY <2>1, <1>z
<1>3. CASE ResumeEnded
  <2>1. UNCHANGED ckpt /\ pc' \in {"idle", "refused", "return"}
    BY <1>3 DEF ResumeEnded, Begin
  <2> QED BY <2>1, <1>i
<1>4. CASE Resume
  <2>1. ckpt.kind = "suspend" /\ UNCHANGED <<ckpt, ceiling>> /\ Restore(Added(ckpt.agent)) /\ pc' = "dispatch"
    BY <1>4 DEF Resume, Added, Begin
  <2>2. thread' = ckpt.agent.thread /\ turn' = ckpt.agent.turn /\ iter' = ckpt.agent.iter /\ rev' = ckpt.agent.rev
    BY <2>1, AddedTyped DEF Restore
  <2>3. turn' = iter' + Extra(schema', rev') /\ Len(thread') <= iter' /\ iter' <= ceiling'
    BY <2>1, <2>2, <1>c DEF Theirs, HasAgent
  <2>4. Mine'
    BY <2>1, <2>3 DEF Mine, Parking
  <2> QED BY <2>1, <2>4, <1>c, <1>q
<1>5. ASSUME NEW g \in {0, Grant}, Continue(g) PROVE Turns'
  <2>1. UNCHANGED ckpt /\ HasAgent(ckpt) /\ (pc' = "refused" \/ (Restore(ckpt.agent) /\ pc' \in {"loop", "return"}))
    BY <1>5 DEF Continue, ReEnterLoop, HasAgent
  <2> QED BY <2>1, <1>z, <1>i
<1>6. CASE EndDirect
  <2>1. UNCHANGED ckpt /\ pc' \in {"idle", "refused", "return"}
    BY <1>6 DEF EndDirect, EndAgent
  <2> QED BY <2>1, <1>i
<1>7. CASE StopCancelled
  <2>1. UNCHANGED ckpt /\ pc' \in {"idle", "refused", "return"}
    BY <1>7 DEF StopCancelled, EndAgent
  <2> QED BY <2>1, <1>i
<1>8. CASE NextTurn
  <2>1. pc = "loop" /\ UNCHANGED <<ckpt, thread, rev, ceiling>> /\ iter' = iter + 1
        /\ (IF iter < ceiling THEN turn' = turn + 1 /\ pc' = "llm"
            ELSE UNCHANGED turn /\ (pc' = "return" \/ (pc' = "surface" /\ susp' = "iteration_limit")))
    <3>1. pc = "loop" /\ UNCHANGED <<ckpt, thread, rev, ceiling>> /\ iter' = iter + 1
      BY <1>8 DEF NextTurn
    <3>2. iter < ceiling => turn' = turn + 1 /\ pc' = "llm"
      BY <1>8 DEF NextTurn
    <3>3. ~(iter < ceiling) => UNCHANGED turn /\ LimitReached("iteration_limit")
      BY <1>8 DEF NextTurn
    <3>4. LimitReached("iteration_limit") => pc' = "return" \/ (pc' = "surface" /\ susp' = "iteration_limit")
      BY DEF LimitReached, EndAgent
    <3> QED BY <3>1, <3>2, <3>3, <3>4
  <2>2. turn = iter + Extra(schema, rev) /\ Len(thread) <= iter /\ iter <= ceiling
    BY <2>1, <1>m DEF Mine, Active, Parking
  <2>3. CASE pc' = "llm"
    <3>0. Extra(schema', rev') = Extra(schema, rev)
      BY <2>1, <1>o
    <3>1. Len(thread') < iter' /\ Len(thread') <= iter' /\ iter' <= ceiling'
      BY <2>1, <2>2, <2>3, <1>t
    <3>3. turn' = iter' + Extra(schema', rev')
      BY <2>1, <2>2, <2>3, <3>0, <1>t, <1>x
    <3>2. Mine'
      BY <2>3, <3>1, <3>3 DEF Mine, Parking
    <3> QED BY <2>1, <3>2, <1>c, <1>q
  <2>4. CASE pc' = "surface" /\ susp' = "iteration_limit"
    <3>1. Len(thread') <= ceiling' /\ turn' = ceiling' + Extra(schema', rev')
      BY <2>1, <2>2, <2>4, <1>t, <1>o
    <3>2. Mine'
      BY <2>4, <3>1 DEF Mine, Parking
    <3> QED BY <2>1, <3>2, <1>c, <1>q
  <2> QED BY <2>1, <2>3, <2>4, <1>i
<1>9. CASE TextAnswer
  <2>1. /\ UNCHANGED <<ckpt, thread, turn, iter, ceiling>> /\ Extra(schema, rev') = Extra(schema, rev)
        /\ (pc' = "final" => schema = "on") /\ Active /\ ~(Parking /\ susp = "iteration_limit")
        /\ pc' # "llm" /\ ~(Parking' /\ susp' = "iteration_limit")
    BY <1>9, <1>o DEF Active, InBatch, Parking, TextAnswer, Judge, EndAgent, Extra
  <2> QED BY <2>1, <1>k
<1>10. ASSUME NEW b \in Batches, AskForTools(b) PROVE Turns'
  <2>1. pc = "llm" /\ pc' = "dispatch" /\ UNCHANGED <<ckpt, turn, iter, rev, ceiling>>
        /\ thread' = Append(thread, Len(batches) + 1)
    BY <1>10 DEF AskForTools
  <2>2. Len(thread') = Len(thread) + 1
    BY <2>1, <1>t
  <2>3. Len(thread) < iter /\ turn = iter + Extra(schema, rev) /\ iter <= ceiling
    BY <2>1, <1>m DEF Mine, Active, Parking
  <2>4. turn' = iter' + Extra(schema', rev') /\ Len(thread') <= iter' /\ iter' <= ceiling'
    BY <2>1, <2>2, <2>3, <1>t, <1>o
  <2>5. Mine'
    BY <2>1, <2>4 DEF Mine, Parking
  <2> QED BY <2>1, <2>5, <1>c, <1>q
<1>11. CASE CallReturns
  <2>1. /\ UNCHANGED <<ckpt, thread, turn, iter, ceiling>> /\ Extra(schema, rev') = Extra(schema, rev)
        /\ (pc' = "final" => schema = "on") /\ Active /\ ~(Parking /\ susp = "iteration_limit")
        /\ pc' # "llm" /\ ~(Parking' /\ susp' = "iteration_limit")
    BY <1>11 DEF Active, InBatch, Parking, CallReturns, Dispatching, Advance
  <2> QED BY <2>1, <1>k
<1>12. CASE CallSuspends
  <2>1. /\ UNCHANGED <<ckpt, thread, turn, iter, ceiling>> /\ Extra(schema, rev') = Extra(schema, rev)
        /\ (pc' = "final" => schema = "on") /\ Active /\ ~(Parking /\ susp = "iteration_limit")
        /\ pc' # "llm" /\ ~(Parking' /\ susp' = "iteration_limit")
    BY <1>12 DEF Active, InBatch, Parking, CallSuspends, Dispatching
  <2> QED BY <2>1, <1>k
<1>13. CASE CallCancelled
  <2>1. UNCHANGED ckpt /\ pc' \in {"idle", "refused", "return"}
    BY <1>13 DEF CallCancelled, Dispatching, EndAgent
  <2> QED BY <2>1, <1>i
<1>14. CASE CountTools
  <2>1. /\ UNCHANGED <<ckpt, thread, turn, iter, ceiling>> /\ Extra(schema, rev') = Extra(schema, rev)
        /\ (pc' = "final" => schema = "on") /\ Active /\ ~(Parking /\ susp = "iteration_limit")
        /\ pc' # "llm" /\ ~(Parking' /\ susp' = "iteration_limit")
    BY <1>14 DEF Active, InBatch, Parking, CountTools, LimitReached, EndAgent
  <2> QED BY <2>1, <1>k
<1>15. CASE SaveBatch
  <2>1. /\ UNCHANGED <<thread, turn, iter, rev, ceiling>> /\ pc = "save" /\ pc' = "judge"
        /\ ckpt'.agent.thread = thread /\ ckpt'.agent.turn = turn /\ ckpt'.agent.iter = iter
        /\ ckpt'.agent.rev = rev
    BY <1>15 DEF SaveBatch, Snapshot
  <2>2. turn = iter + Extra(schema, rev) /\ Len(thread) <= iter /\ iter <= ceiling
    BY <2>1, <1>m DEF Mine, Active, Parking
  <2>3. Mine' /\ Theirs'
    BY <2>1, <2>2, <1>o DEF Mine, Theirs, Parking
  <2> QED BY <2>3, <1>q
<1>16. CASE JudgeBatch
  <2>1. /\ UNCHANGED <<ckpt, thread, turn, iter, ceiling>> /\ Extra(schema, rev') = Extra(schema, rev)
        /\ (pc' = "final" => schema = "on") /\ Active /\ ~(Parking /\ susp = "iteration_limit")
        /\ pc' # "llm" /\ ~(Parking' /\ susp' = "iteration_limit")
    BY <1>16, <1>o DEF Active, InBatch, Parking, JudgeBatch, Judge, EndAgent, Extra
  <2> QED BY <2>1, <1>k
<1>17. CASE Surface
  <2>1. /\ UNCHANGED <<thread, turn, iter, rev, ceiling, susp>> /\ pc = "surface" /\ pc' = "handle"
        /\ ckpt'.agent.thread = thread /\ ckpt'.agent.turn = turn /\ ckpt'.agent.rev = rev
        /\ ckpt'.agent.iter = IF susp = "iteration_limit" THEN ceiling ELSE iter
    BY <1>17 DEF Surface, Snapshot
  <2>2. Active /\ Active' /\ (Parking <=> susp # "hitl") /\ (Parking' <=> susp # "hitl")
    BY <2>1 DEF Active, InBatch, Parking
  <2>3. IF susp = "iteration_limit"
        THEN turn = ceiling + Extra(schema, rev) /\ Len(thread) <= ceiling
        ELSE turn = iter + Extra(schema, rev) /\ Len(thread) <= iter /\ iter <= ceiling
    BY <2>1, <2>2, <1>m DEF Mine
  <2>4. Mine'
    BY <2>1, <2>2, <2>3, <1>o DEF Mine
  <2>5. Theirs'
    BY <2>1, <2>3, <1>t, <1>o DEF Theirs
  <2> QED BY <2>4, <2>5, <1>q
<1>18. CASE WrapSuspension
  <2>1. UNCHANGED ckpt /\ pc' \in {"idle", "refused", "return"}
    BY <1>18 DEF WrapSuspension, Idle
  <2> QED BY <2>1, <1>i
<1>19. CASE SaveEnd
  <2>1. ckpt'.kind = "end" /\ pc' = "return"
    BY <1>19 DEF SaveEnd
  <2> QED BY <2>1, <1>q DEF Mine, Theirs, HasAgent, Active, InBatch, Parking
<1>20. CASE ReturnResult
  <2>1. UNCHANGED ckpt /\ pc' \in {"idle", "refused", "return"}
    BY <1>20 DEF ReturnResult, Idle
  <2> QED BY <2>1, <1>i
<1>21. CASE LimiterRefuses
  <2>1. UNCHANGED ckpt /\ pc' \in {"idle", "refused", "return"}
    BY <1>21 DEF LimiterRefuses, Idle
  <2> QED BY <2>1, <1>i
<1>22. CASE Nudge
  <2>1. /\ UNCHANGED <<ckpt, thread, turn, iter, ceiling>> /\ Extra(schema, rev') = Extra(schema, rev)
        /\ (pc' = "final" => schema = "on") /\ Active /\ ~(Parking /\ susp = "iteration_limit")
        /\ pc' # "llm" /\ ~(Parking' /\ susp' = "iteration_limit")
    BY <1>22 DEF Active, InBatch, Parking, Nudge
  <2> QED BY <2>1, <1>k
<1>23. CASE Crash
  <2>1. UNCHANGED ckpt /\ pc' \in {"idle", "refused", "return"}
    BY <1>23 DEF Crash, Interrupt, Idle, Dispatching
  <2> QED BY <2>1, <1>i
<1>24. CASE Cancel
  <2>1. UNCHANGED <<ckpt, thread, turn, iter, rev, ceiling, pc, susp>>
    BY <1>24 DEF Cancel, Interrupt
  <2> QED BY <2>1, <1>v
<1>25. ASSUME NEW c \in Calls, Respond(c) PROVE Turns'
  <2>1. UNCHANGED <<ckpt, thread, turn, iter, rev, ceiling, pc, susp>>
    BY <1>25 DEF Respond
  <2> QED BY <2>1, <1>v
<1>26. CASE UNCHANGED vars
  <2>1. UNCHANGED <<ckpt, thread, turn, iter, rev, ceiling, pc, susp>>
    BY <1>26 DEF vars
  <2> QED BY <2>1, <1>v
<1>27. CASE StructuredAnswer
  <2>1. /\ UNCHANGED <<ckpt, thread, iter, ceiling>> /\ turn' = turn + 1 /\ pc = "final"
        /\ (pc' = "return" \/ (pc' = "loop" /\ rev' = rev + 1))
    BY <1>27 DEF StructuredAnswer, Judge, EndAgent
  <2>2. schema = "on" /\ turn = iter + Extra(schema, rev) /\ Len(thread) <= iter /\ iter <= ceiling
    BY <2>1, <1>m DEF Mine, Active, Parking
  <2>3. CASE pc' = "loop" /\ rev' = rev + 1
    <3>1. Extra(schema, rev') = Extra(schema, rev) + 1
      BY <2>2, <2>3 DEF Extra
    <3>2. turn' = iter' + Extra(schema', rev') /\ Len(thread') <= iter' /\ iter' <= ceiling'
      BY <2>1, <2>2, <3>1, <1>t, <1>x, <1>o
    <3>3. Mine'
      BY <2>3, <3>2 DEF Mine, Parking
    <3> QED BY <2>1, <3>3, <1>c, <1>q
  <2> QED BY <2>1, <2>3, <1>i
<1> QED
  BY <1>1, <1>2, <1>3, <1>4, <1>5, <1>6, <1>7, <1>8, <1>9, <1>10, <1>11, <1>12, <1>13,
     <1>14, <1>15, <1>16, <1>17, <1>18, <1>19, <1>20, <1>21, <1>22, <1>23, <1>24, <1>25,
     <1>26, <1>27
     DEF Next, Drive, Agent, Frame

\* The calls of batches that are the same, and suspended or not as before.
LEMMA CallsKept ==
    ASSUME NEW S, NEW req, NEW req2, NEW bs, NEW bs2, \A n \in S : bs2[n] = bs[n],
           req \subseteq req2, \A d \in req2 : d \in req \/ d[1] \notin S
    PROVE  CallsOf(S, req2, bs2) = CallsOf(S, req, bs)
<1>1. ASSUME NEW c \in Calls, c[1] \in S
      PROVE  (\A d \in req2 : d[1] # c[1]) <=> (\A d \in req : d[1] # c[1])
  BY <1>1
<1>2. \A c \in Calls : c[1] \in S => bs2[c[1]] = bs[c[1]]
  OBVIOUS
<1> QED BY <1>1, <1>2 DEF CallsOf

\* A batch with a request does not count.
LEMMA CallsWithout ==
    ASSUME NEW S, NEW req, NEW bs, NEW n, \E d \in req : d[1] = n
    PROVE  CallsOf(S \ {n}, req, bs) = CallsOf(S, req, bs)
BY DEF CallsOf

\* A batch without one counts with every call.
LEMMA CallsWith ==
    ASSUME NEW S, NEW req, NEW bs, NEW n \in Ids, NEW len \in 1..L, n \in S,
           DOMAIN bs[n] = 1..len, \A d \in req : d[1] # n
    PROVE  /\ Cardinality(CallsOf(S, req, bs)) \in Nat /\ Cardinality(CallsOf(S \ {n}, req, bs)) \in Nat
           /\ Cardinality(CallsOf(S, req, bs)) = Cardinality(CallsOf(S \ {n}, req, bs)) + len
<1> DEFINE A == CallsOf(S \ {n}, req, bs)
<1> DEFINE B == {n} \X (1..len)
<1>1. IsFiniteSet(Calls)
  <2>1. MaxTurns + MaxInterruptions + MaxRevisions + 1 \in Int /\ L \in Int
    BY BoundAssumption, LimitAssumption
  <2>2. IsFiniteSet(Ids) /\ IsFiniteSet(1..L)
    BY <2>1, FS_Interval DEF Ids
  <2> QED BY <2>2, FS_Product DEF Calls
<1>2. IsFiniteSet(A) /\ Cardinality(A) \in Nat
  <2>1. A \in SUBSET Calls
    BY DEF CallsOf
  <2> QED BY <1>1, <2>1, FS_Subset, FS_CardinalityType
<1>3. IsFiniteSet(B) /\ Cardinality(B) = len
  <2>1. len \in Int /\ len >= 1
    BY BoundAssumption
  <2>2. IsFiniteSet(1..len) /\ Cardinality(1..len) = len
    <3>1. IsFiniteSet(1..len) /\ Cardinality(1..len) = IF 1 > len THEN 0 ELSE len - 1 + 1
      BY <2>1, FS_Interval
    <3> QED BY <2>1, <3>1
  <2>3. IsFiniteSet({n}) /\ Cardinality({n}) = 1
    BY FS_Singleton
  <2>4. IsFiniteSet(B) /\ Cardinality(B) = 1 * len
    BY <2>2, <2>3, FS_Product
  <2> QED BY <2>1, <2>4
<1>4. CallsOf(S, req, bs) = A \cup B
  <2>1. \A i \in 1..len : i \in 1..L
    BY BoundAssumption
  <2>2. ASSUME NEW c \in B PROVE c \in CallsOf(S, req, bs)
    <3>1. c \in Calls /\ c[1] = n /\ c[2] \in 1..len
      BY <2>1 DEF Calls
    <3> QED BY <3>1 DEF CallsOf
  <2>3. ASSUME NEW c \in CallsOf(S, req, bs), c[1] = n PROVE c \in B
    <3>1. c \in Calls /\ c[2] \in 1..len
      BY <2>3 DEF CallsOf
    <3>2. c = <<c[1], c[2]>>
      BY <3>1 DEF Calls
    <3> QED BY <2>3, <3>1, <3>2
  <2>4. \A c \in CallsOf(S, req, bs) : c[1] # n => c \in A
    BY DEF CallsOf
  <2>5. A \subseteq CallsOf(S, req, bs)
    BY DEF CallsOf
  <2> QED BY <2>2, <2>3, <2>4, <2>5
<1>5. A \cap B = {}
  BY DEF CallsOf
<1>6. Cardinality(A \cap B) = 0
  BY <1>5, FS_EmptySet
<1> HIDE DEF A, B
<1>7. Cardinality(A \cup B) = Cardinality(A) + Cardinality(B) - Cardinality(A \cap B)
  BY <1>2, <1>3, FS_Union
<1>8. Cardinality(A \cup B) = Cardinality(A) + len
  BY <1>2, <1>3, <1>6, <1>7, BoundAssumption
<1>9. Cardinality(A) + len \in Nat
  BY <1>2, BoundAssumption
<1> QED BY <1>2, <1>4, <1>8, <1>9 DEF A

\* The tool calls are counted in every step.
LEMMA ToolsStep ==
    Fields /\ Others /\ Shape /\ Stage /\ History /\ Own /\ Tools /\ [Next]_vars => Tools'
<1> SUFFICES ASSUME Fields, Others, Shape, Stage, History, Own, Tools, [Next]_vars PROVE Tools'
  OBVIOUS
<1>t. /\ thread \in Seq(Ids) /\ tools \in Nat /\ toolCeiling \in Nat
      /\ toolCeiling' \in Nat /\ toolCeiling <= toolCeiling' /\ tools' \in Nat
  BY TypesStep, Grown DEF Fields, Others
<1>g. \A n \in 1..Len(batches) : batches'[n] = batches[n]
  BY Grown DEF Batch
<1>e. Elems(thread) \subseteq 1..Len(batches) /\ (HasAgent(ckpt) => Elems(ckpt.agent.thread) \subseteq 1..Len(batches))
  BY DEF Stage
<1> DEFINE Still == pc \in {"loop", "llm", "final", "save", "judge"} \/ Parking
<1> DEFINE Mid == InBatch \/ pc = "limit"
<1> DEFINE Below == pc \in {"loop", "llm", "final", "limit", "save", "judge"} \/ InBatch
<1> DEFINE Mine == /\ Still => tools = Count(Elems(thread))
                   /\ Mid => tools = Count(Elems(thread) \ {Current})
                   /\ Below => tools <= toolCeiling
<1> DEFINE Theirs == /\ ckpt.kind \in {"step", "park"} => ckpt.agent.tools = Count(Elems(ckpt.agent.thread))
                     /\ ckpt.kind = "suspend" =>
                           ckpt.agent.tools = Count(Elems(ckpt.agent.thread) \ {Pending[1]})
                     /\ ckpt.kind \in {"step", "suspend"} => ckpt.agent.tools <= toolCeiling
<1>m. Mine /\ Theirs
  BY DEF Tools
<1>q. ASSUME Mine', Theirs' PROVE Tools'
  BY <1>q DEF Tools
<1>a. ASSUME UNCHANGED requested, NEW S, \A n \in S : batches'[n] = batches[n]
      PROVE  CallsOf(S, requested', batches') = CallsOf(S, requested, batches)
  <2>1. requested \subseteq requested' /\ \A d \in requested' : d \in requested \/ d[1] \notin S
    BY <1>a
  <2> QED BY ONLY <2>1, <1>a, CallsKept
<1>s. ASSUME UNCHANGED requested, NEW S \in SUBSET (1..Len(batches))
      PROVE  Cardinality(CallsOf(S, requested', batches')) = Cardinality(CallsOf(S, requested, batches))
  <2>1. CallsOf(S, requested', batches') = CallsOf(S, requested, batches)
    BY <1>s, <1>g, <1>a
  <2> QED BY <2>1
<1>b. HasAgent(ckpt) /\ ckpt.agent.tools <= toolCeiling => ckpt.agent.tools <= toolCeiling'
  BY <1>t DEF Shape, AgentType
<1>c. ASSUME UNCHANGED ckpt, UNCHANGED requested PROVE Theirs'
  <2>1. CASE ckpt.kind \in {"step", "park"}
    <3>1. Cardinality(CallsOf(Elems(ckpt.agent.thread), requested', batches'))
          = Cardinality(CallsOf(Elems(ckpt.agent.thread), requested, batches))
      BY <1>c, <1>s, <1>e, <2>1 DEF HasAgent
    <3> QED BY <1>c, <1>m, <1>b, <2>1, <3>1 DEF Count, HasAgent
  <2>2. CASE ckpt.kind = "suspend"
    <3>1. Cardinality(CallsOf(Elems(ckpt.agent.thread) \ {Pending[1]}, requested', batches'))
          = Cardinality(CallsOf(Elems(ckpt.agent.thread) \ {Pending[1]}, requested, batches))
      BY <1>c, <1>s, <1>e, <2>2 DEF HasAgent
    <3>2. Pending' = Pending
      BY <1>c DEF Pending
    <3> QED BY <1>c, <1>m, <1>b, <2>2, <3>1, <3>2 DEF Count, HasAgent
  <2> QED BY <1>c, <2>1, <2>2
<1> HIDE DEF Theirs
<1>w. ASSUME UNCHANGED <<requested, thread>>
      PROVE  /\ Cardinality(CallsOf(Elems(thread'), requested', batches'))
                = Cardinality(CallsOf(Elems(thread), requested, batches))
             /\ Cardinality(CallsOf(Elems(thread') \ {Current'}, requested', batches'))
                = Cardinality(CallsOf(Elems(thread) \ {Current}, requested, batches))
  <2>1. Current' = Current /\ Elems(thread) \ {Current} \subseteq 1..Len(batches)
    BY <1>w, <1>e DEF Current
  <2> QED BY <1>w, <1>s, <1>e, <2>1
\* nothing counted changes, and the agent stays with its counts or stops
<1>k. ASSUME UNCHANGED <<ckpt, requested, thread, tools, toolCeiling>>,
             Still' => Still, Mid' => Mid, Below' => Below
      PROVE  Tools'
  <2>1. Mine'
    BY <1>k, <1>m, <1>w DEF Count
  <2> QED BY <1>k, <2>1, <1>c, <1>q
<1>i. ASSUME UNCHANGED <<ckpt, requested>>, pc' \in {"idle", "refused", "return"} PROVE Tools'
  <2>1. ~Still' /\ ~Mid' /\ ~Below'
    BY <1>i DEF InBatch, Parking
  <2> QED BY <1>i, <2>1, <1>c, <1>q
<1>z. ASSUME UNCHANGED <<ckpt, requested, batches>>, ckpt.kind \in {"step", "park"}, Restore(ckpt.agent),
             pc' \in {"loop", "return"}, ckpt.agent.tools <= toolCeiling'
      PROVE  Tools'
  <2>1. thread' = ckpt.agent.thread /\ tools' = ckpt.agent.tools
    BY <1>z DEF Restore
  <2>2. tools' = Count(Elems(thread))' /\ tools' <= toolCeiling'
    BY <1>z, <1>m, <2>1 DEF Theirs, Count
  <2>3. ~Mid'
    BY <1>z DEF InBatch
  <2>4. Mine'
    BY <2>2, <2>3
  <2> QED BY <1>z, <2>4, <1>c, <1>q
<1> HIDE DEF Mine, Still, Mid, Below
<1> USE DEF config, stores, limits, messages, counters, dispatch, history
<1>1. CASE Start
  <2>1. pc = "idle" /\ pc' = "loop" /\ UNCHANGED <<ckpt, requested, thread, tools, toolCeiling, batches>>
    BY <1>1 DEF Start, Begin
  <2>2. thread = <<>> /\ tools = 0
    BY <2>1 DEF Stage
  <2>3. CallsOf(Elems(thread'), requested', batches') = {}
    BY <2>1, <2>2 DEF CallsOf, Elems
  <2>4. tools' = Count(Elems(thread))' /\ tools' <= toolCeiling'
    BY <2>1, <2>2, <2>3, <1>t, FS_EmptySet DEF Count
  <2>5. Mine'
    BY <2>1, <2>4 DEF Mine, Mid, InBatch
  <2> QED BY <2>1, <2>5, <1>c, <1>q
<1>2. CASE ResumeInterrupted
  <2>1. UNCHANGED <<ckpt, requested, batches, toolCeiling>> /\ ckpt.kind = "step"
        /\ Restore(ckpt.agent) /\ pc' \in {"loop", "return"}
    BY <1>2 DEF ResumeInterrupted, Begin, ReEnterLoop
  <2>2. ckpt.agent.tools <= toolCeiling'
    BY <2>1, <1>m DEF Theirs
  <2> QED BY <2>1, <2>2, <1>z
<1>3. CASE ResumeEnded
  <2>1. UNCHANGED <<ckpt, requested>> /\ pc' \in {"idle", "refused", "return"}
    BY <1>3 DEF ResumeEnded, Begin
  <2> QED BY <2>1, <1>i
<1>4. CASE Resume
  <2>1. ckpt.kind = "suspend" /\ UNCHANGED <<ckpt, requested, batches, toolCeiling>> /\ Restore(Added(ckpt.agent))
        /\ pc' = "dispatch"
    BY <1>4 DEF Resume, Added, Begin
  <2>2. thread' = ckpt.agent.thread /\ tools' = ckpt.agent.tools
    BY <2>1, AddedTyped DEF Restore
  <2>3. Current' = Pending[1]
    BY <2>2 DEF Current, Pending
  <2>4. tools' = Count(Elems(thread) \ {Current})' /\ tools' <= toolCeiling'
    BY <2>1, <2>2, <2>3, <1>m DEF Theirs, Count
  <2>5. Mine'
    BY <2>1, <2>4 DEF Mine, Still, Parking
  <2> QED BY <2>1, <2>5, <1>c, <1>q
<1>5. ASSUME NEW g \in {0, Grant}, Continue(g) PROVE Tools'
  <2>1. UNCHANGED <<ckpt, requested, batches>> /\ ckpt.kind = "park"
    BY <1>5 DEF Continue, Begin
  <2>2. CASE pc' = "refused"
    BY <2>1, <2>2, <1>i
  <2>3. CASE pc' # "refused"
    <3>1. Restore(ckpt.agent) /\ pc' \in {"loop", "return"} /\ ~(ckpt.agent.tools > toolCeiling')
      BY <1>5, <2>3 DEF Continue, ReEnterLoop
    <3>2. ckpt.agent.tools \in Nat
      BY <2>1 DEF Shape, HasAgent, AgentType
    <3>3. ckpt.agent.tools <= toolCeiling'
      BY <3>1, <3>2, <1>t
    <3> QED BY <2>1, <3>1, <3>3, <1>z
  <2> QED BY <2>2, <2>3
<1>6. CASE EndDirect
  <2>1. UNCHANGED <<ckpt, requested>> /\ pc' \in {"idle", "refused", "return"}
    BY <1>6 DEF EndDirect, EndAgent
  <2> QED BY <2>1, <1>i
<1>7. CASE StopCancelled
  <2>1. UNCHANGED <<ckpt, requested>> /\ pc' \in {"idle", "refused", "return"}
    BY <1>7 DEF StopCancelled, EndAgent
  <2> QED BY <2>1, <1>i
<1>8. CASE NextTurn
  <2>1. UNCHANGED <<ckpt, requested, thread, tools, toolCeiling>> /\ (Still' => Still) /\ (Mid' => Mid) /\ (Below' => Below)
    BY <1>8 DEF Still, Mid, Below, InBatch, Parking, NextTurn, LimitReached, EndAgent
  <2> QED BY <2>1, <1>k
<1>9. CASE TextAnswer
  <2>1. UNCHANGED <<ckpt, requested, thread, tools, toolCeiling>> /\ (Still' => Still) /\ (Mid' => Mid) /\ (Below' => Below)
    BY <1>9 DEF Still, Mid, Below, InBatch, Parking, TextAnswer, Judge, EndAgent
  <2> QED BY <2>1, <1>k
<1>10. ASSUME NEW b \in Batches, AskForTools(b) PROVE Tools'
  <2>1. pc = "llm" /\ pc' = "dispatch" /\ UNCHANGED <<ckpt, requested, tools, toolCeiling>>
        /\ thread' = Append(thread, Len(batches) + 1)
    BY <1>10 DEF AskForTools
  <2>2. Current' = Len(batches) + 1 /\ Elems(thread') \ {Current'} = Elems(thread)
    <3>1. Len(batches) + 1 \notin Elems(thread)
      <4>1. Len(batches) + 1 \notin 1..Len(batches)
        BY DEF Others
      <4> QED BY <4>1, <1>e
    <3>2. /\ Len(thread') = Len(thread) + 1 /\ thread'[Len(thread) + 1] = Len(batches) + 1
          /\ DOMAIN thread' = 1..(Len(thread) + 1) /\ DOMAIN thread = 1..Len(thread)
          /\ \A k \in 1..Len(thread) : thread'[k] = thread[k]
      BY <2>1, <1>t
    <3>3. \A k \in 1..(Len(thread) + 1) : k = Len(thread) + 1 \/ k \in 1..Len(thread)
      BY <1>t
    <3>4. \A k \in 1..Len(thread) : k \in 1..(Len(thread) + 1)
      BY <1>t
    <3> QED BY <3>1, <3>2, <3>3, <3>4 DEF Current, Elems
  <2>3. tools = Count(Elems(thread)) /\ tools <= toolCeiling
    BY <2>1, <1>m DEF Mine, Still, Below
  <2>4. tools' = Count(Elems(thread) \ {Current})' /\ tools' <= toolCeiling'
    BY <2>1, <2>2, <2>3, <1>s, <1>e DEF Count
  <2>5. Mine'
    BY <2>1, <2>4 DEF Mine, Still, Parking
  <2> QED BY <2>1, <2>5, <1>c, <1>q
<1>11. CASE CallReturns
  <2>1. pc = "dispatch" /\ UNCHANGED <<ckpt, requested, thread, tools, toolCeiling, batches, susp>>
        /\ (pc' = "dispatch" \/ pc' = (IF resumed = "yes" THEN "loop" ELSE "limit"))
    BY <1>11 DEF CallReturns, Dispatching, Advance
  <2>2. tools = Count(Elems(thread) \ {Current}) /\ tools <= toolCeiling
    BY <2>1, <1>m DEF Mine, Mid, Below, InBatch
  <2>3. tools' = Count(Elems(thread) \ {Current})' /\ tools' <= toolCeiling'
    BY <2>1, <2>2, <1>w DEF Count
  <2>4. CASE pc' = "loop"
    <3>1. \E d \in requested : d[1] = Current
      BY <2>1, <2>4 DEF Stage
    <3>2. Current' = Current
      BY <2>1 DEF Current
    <3>3. tools' = Count(Elems(thread))'
      <4>1. \E d \in requested' : d[1] = Current'
        BY <2>1, <3>1, <3>2
      <4>2. CallsOf(Elems(thread') \ {Current'}, requested', batches') = CallsOf(Elems(thread'), requested', batches')
        BY <4>1, CallsWithout
      <4> QED BY <2>3, <4>2 DEF Count
    <3> QED BY <2>1, <2>3, <2>4, <3>3, <1>c, <1>q DEF Mine, Still, Mid, Below, InBatch
  <2>5. CASE pc' # "loop"
    BY <2>1, <2>3, <2>5, <1>c, <1>q DEF Mine, Still, Mid, Below, InBatch, Parking
  <2> QED BY <2>4, <2>5
<1>12. CASE CallSuspends
  <2>1. pc = "dispatch" /\ UNCHANGED <<ckpt, thread, tools, toolCeiling, batches>>
        /\ requested' = requested \cup {Here} /\ pc' = "surface" /\ susp' = "hitl"
    BY <1>12 DEF CallSuspends, Dispatching
  <2>2. Here[1] = Current /\ Current' = Current
    BY <2>1 DEF Here, Current
  <2>3. tools = Count(Elems(thread) \ {Current}) /\ tools <= toolCeiling
    BY <2>1, <1>m DEF Mine, Mid, Below, InBatch
  <2>4. ASSUME NEW S, Current \notin S
        PROVE  CallsOf(S, requested', batches') = CallsOf(S, requested, batches)
    BY <2>1, <2>2, <2>4, CallsKept
  <2>5. Mine'
    <3>1. CallsOf(Elems(thread') \ {Current'}, requested', batches') = CallsOf(Elems(thread) \ {Current}, requested, batches)
      BY <2>1, <2>2, <2>4
    <3>2. tools' = Count(Elems(thread) \ {Current})'
      BY <2>1, <2>3, <3>1 DEF Count
    <3> QED BY <2>1, <2>3, <3>2 DEF Mine, Still, Parking
  <2>6. Theirs'
    <3>1. CASE ckpt.kind \in {"step", "park"}
      <4>1. Current \notin Elems(ckpt.agent.thread)
        BY <2>1, <3>1 DEF Own, HasAgent
      <4>2. CallsOf(Elems(ckpt.agent.thread), requested', batches') = CallsOf(Elems(ckpt.agent.thread), requested, batches)
        BY <2>4, <4>1
      <4> QED BY <2>1, <1>m, <3>1, <4>2 DEF Theirs, Count
    <3>2. CASE ckpt.kind = "suspend"
      <4>1. Pending[1] = Latest(ckpt.agent.thread) /\ Pending' = Pending
        BY <2>1 DEF Pending, Latest
      <4>2. Current \notin Elems(ckpt.agent.thread) \ {Pending[1]}
        BY <2>1, <3>2, <4>1 DEF Own, HasAgent
      <4>3. CallsOf(Elems(ckpt.agent.thread) \ {Pending[1]}, requested', batches')
            = CallsOf(Elems(ckpt.agent.thread) \ {Pending[1]}, requested, batches)
        BY <2>4, <4>2
      <4> QED BY <2>1, <1>m, <3>2, <4>1, <4>3 DEF Theirs, Count
    <3> QED BY <2>1, <3>1, <3>2 DEF Theirs
  <2> QED BY <2>5, <2>6, <1>q
<1>13. CASE CallCancelled
  <2>1. UNCHANGED <<ckpt, requested>> /\ pc' \in {"idle", "refused", "return"}
    BY <1>13 DEF CallCancelled, Dispatching, EndAgent
  <2> QED BY <2>1, <1>i
<1>14. CASE CountTools
  <2>1. /\ pc = "limit" /\ UNCHANGED <<ckpt, requested, thread, toolCeiling, batches>>
        /\ tools' = tools + Len(Batch(Current))
    BY <1>14 DEF CountTools
  <2>2. (pc' \in {"return", "surface"} /\ (pc' = "surface" => susp' = "tool_call_limit"))
        \/ (pc' \in {"save", "judge"} /\ ~(tools' > toolCeiling))
    BY <1>14 DEF CountTools, LimitReached, EndAgent
  <2>3. ~(tools' > toolCeiling) => tools' <= toolCeiling'
    BY <2>1, <1>t
  <2>4. tools = Count(Elems(thread) \ {Current})
    BY <2>1, <1>m DEF Mine, Mid
  <2>5. /\ Current \in Elems(thread) /\ Current \in Ids /\ Len(Batch(Current)) \in 1..L
        /\ DOMAIN batches[Current] = 1..Len(Batch(Current))
    BY <2>1, Inside DEF Batch
  <2>6. \A d \in requested : d[1] # Current
    BY <2>1 DEF Stage
  <2>7. Count(Elems(thread)) = Count(Elems(thread) \ {Current}) + Len(Batch(Current))
    BY <2>5, <2>6, CallsWith DEF Count
  <2>8. tools' = Count(Elems(thread))'
    BY <2>1, <2>4, <2>7 DEF Count
  <2>9. Mine'
    BY <2>2, <2>3, <2>8 DEF Mine, Still, Mid, Below, InBatch
  <2> QED BY <2>1, <2>9, <1>c, <1>q
<1>15. CASE SaveBatch
  <2>1. /\ UNCHANGED <<requested, thread, tools, toolCeiling, batches>> /\ pc = "save" /\ pc' = "judge"
        /\ ckpt'.kind = "step" /\ ckpt'.agent.thread = thread /\ ckpt'.agent.tools = tools
    BY <1>15 DEF SaveBatch, Snapshot
  <2>2. tools = Count(Elems(thread)) /\ tools <= toolCeiling
    BY <2>1, <1>m DEF Mine, Still, Below
  <2>3. tools' = Count(Elems(thread))' /\ tools' <= toolCeiling'
    BY <2>1, <2>2 DEF Count
  <2>4. Mine'
    BY <2>1, <2>3 DEF Mine, Mid, InBatch
  <2>5. Theirs'
    BY <2>1, <2>2 DEF Theirs, Count
  <2> QED BY <2>4, <2>5, <1>q
<1>16. CASE JudgeBatch
  <2>1. UNCHANGED <<ckpt, requested, thread, tools, toolCeiling>> /\ (Still' => Still) /\ (Mid' => Mid) /\ (Below' => Below)
    BY <1>16 DEF Still, Mid, Below, InBatch, Parking, JudgeBatch, Judge, EndAgent
  <2> QED BY <2>1, <1>k
<1>17. CASE Surface
  <2>1. /\ UNCHANGED <<requested, thread, tools, toolCeiling, batches, susp, at>> /\ pc = "surface" /\ pc' = "handle"
        /\ ckpt'.agent.thread = thread /\ ckpt'.agent.tools = tools /\ ckpt'.agent.at = at
        /\ ckpt'.kind = IF susp = "hitl" THEN "suspend" ELSE "park"
    BY <1>17 DEF Surface, Snapshot
  <2>2. (Still' => Still) /\ (Mid' => Mid) /\ (Below' => Below)
    BY <2>1 DEF Still, Mid, Below, InBatch, Parking
  <2>3. Mine'
    BY <2>1, <2>2, <1>m, <1>w DEF Mine, Count
  <2>4. CASE susp = "hitl"
    <3>1. tools = Count(Elems(thread) \ {Current}) /\ tools <= toolCeiling
      BY <2>1, <2>4, <1>m DEF Mine, Mid, Below, InBatch
    <3>2. Pending[1]' = Current
      BY <2>1 DEF Pending, Current
    <3>3. Theirs'
      BY <2>1, <2>4, <3>1, <3>2 DEF Theirs, Count
    <3> QED BY <2>3, <3>3, <1>q
  <2>5. CASE susp # "hitl"
    <3>1. tools = Count(Elems(thread))
      BY <2>1, <2>5, <1>m DEF Mine, Still, Parking
    <3>2. Theirs'
      BY <2>1, <2>5, <3>1 DEF Theirs, Count
    <3> QED BY <2>3, <3>2, <1>q
  <2> QED BY <2>4, <2>5
<1>18. CASE WrapSuspension
  <2>1. UNCHANGED <<ckpt, requested>> /\ pc' \in {"idle", "refused", "return"}
    BY <1>18 DEF WrapSuspension, Idle
  <2> QED BY <2>1, <1>i
<1>19. CASE SaveEnd
  <2>1. ckpt'.kind = "end" /\ pc' = "return"
    BY <1>19 DEF SaveEnd
  <2> QED BY <2>1, <1>q DEF Mine, Theirs, Still, Mid, Below, InBatch, Parking
<1>20. CASE ReturnResult
  <2>1. UNCHANGED <<ckpt, requested>> /\ pc' \in {"idle", "refused", "return"}
    BY <1>20 DEF ReturnResult, Idle
  <2> QED BY <2>1, <1>i
<1>21. CASE LimiterRefuses
  <2>1. UNCHANGED <<ckpt, requested>> /\ pc' \in {"idle", "refused", "return"}
    BY <1>21 DEF LimiterRefuses, Idle
  <2> QED BY <2>1, <1>i
<1>22. CASE Nudge
  <2>1. UNCHANGED <<ckpt, requested, thread, tools, toolCeiling>> /\ (Still' => Still) /\ (Mid' => Mid) /\ (Below' => Below)
    BY <1>22 DEF Still, Mid, Below, InBatch, Parking, Nudge
  <2> QED BY <2>1, <1>k
<1>23. CASE Crash
  <2>1. UNCHANGED <<ckpt, requested>> /\ pc' \in {"idle", "refused", "return"}
    BY <1>23 DEF Crash, Interrupt, Idle, Dispatching
  <2> QED BY <2>1, <1>i
<1>24. CASE Cancel
  <2>1. UNCHANGED <<ckpt, requested, thread, tools, toolCeiling>> /\ (Still' => Still) /\ (Mid' => Mid) /\ (Below' => Below)
    BY <1>24 DEF Still, Mid, Below, InBatch, Parking, Cancel, Interrupt
  <2> QED BY <2>1, <1>k
<1>25. ASSUME NEW c \in Calls, Respond(c) PROVE Tools'
  <2>1. UNCHANGED <<ckpt, requested, thread, tools, toolCeiling>> /\ (Still' => Still) /\ (Mid' => Mid) /\ (Below' => Below)
    BY <1>25 DEF Still, Mid, Below, InBatch, Parking, Respond
  <2> QED BY <2>1, <1>k
<1>26. CASE UNCHANGED vars
  <2>1. UNCHANGED <<ckpt, requested, thread, tools, toolCeiling>> /\ (Still' => Still) /\ (Mid' => Mid) /\ (Below' => Below)
    BY <1>26 DEF Still, Mid, Below, InBatch, Parking, vars
  <2> QED BY <2>1, <1>k
<1>27. CASE StructuredAnswer
  <2>1. UNCHANGED <<ckpt, requested, thread, tools, toolCeiling>> /\ (Still' => Still) /\ (Mid' => Mid) /\ (Below' => Below)
    BY <1>27 DEF Still, Mid, Below, InBatch, Parking, StructuredAnswer, Judge, EndAgent
  <2> QED BY <2>1, <1>k
<1> QED
  BY <1>1, <1>2, <1>3, <1>4, <1>5, <1>6, <1>7, <1>8, <1>9, <1>10, <1>11, <1>12, <1>13,
     <1>14, <1>15, <1>16, <1>17, <1>18, <1>19, <1>20, <1>21, <1>22, <1>23, <1>24, <1>25,
     <1>26, <1>27
     DEF Next, Drive, Agent, Frame

----------------------------------------------------------------------------
(* The theorems.                                                           *)

IInv == Fields /\ Others /\ Shape /\ Stage /\ History /\ Own /\ Turns /\ Tools

\* The inductive invariant holds at first.
LEMMA InitIInv == Init => IInv
<1> SUFFICES ASSUME Init PROVE IInv
  OBVIOUS
<1>1. Fields /\ Others /\ Shape
  BY InitTypes
<1>2. pc = "idle" /\ ckpt.kind = "absent" /\ ~HasAgent(ckpt) /\ ~InBatch /\ ~Parking
  BY DEF Init, NoCkpt, HasAgent, InBatch, Parking
<1>3. Stage
  <2>1. Elems(thread) = {}
    BY DEF Init, Elems
  <2> QED BY <1>2, <2>1 DEF Init, Stage
<1>4. Turns
  BY <1>2 DEF Init, Turns
<1> QED BY <1>1, <1>2, <1>3, <1>4 DEF IInv, History, Own, Tools, HasAgent

\* It is kept in every step.
LEMMA StepIInv == IInv /\ [Next]_vars => IInv'
BY TypesStep, StageStep, HistoryStep, OwnStep, TurnsStep, ToolsStep DEF IInv

\* It holds in every reachable state.
LEMMA Invariance == Spec => []IInv
BY InitIInv, StepIInv, PTL DEF Spec

\* Every variable keeps its type, for all batches, limits and bounds: TypeOK.
THEOREM TypeCorrect == Spec => []TypeOK
<1>1. IInv => TypeOK
  BY Parts DEF IInv
<1> QED BY <1>1, Invariance, PTL

\* HistoryIsAnswered for every choice of batches and limits: _run_loop never calls the
\* LLM with a tool call left unanswered, whichever of the three ways it was entered by.
THEOREM HistoryCorrect == Spec => []HistoryIsAnswered
<1>1. IInv => HistoryIsAnswered
  <2> SUFFICES ASSUME IInv, pc = "llm", NEW c \in Calls
               PROVE  IF InThread(c[1]) /\ c[2] \in DOMAIN Batch(c[1])
                      THEN /\ answers[c] > 0
                           /\ answers[c] > 1 => \E d \in requested : d[1] = c[1] /\ d[2] > c[2]
                      ELSE answers[c] = 0
    BY DEF HistoryIsAnswered
  <2>1. Whole(thread, answers, requested, batches)
    BY DEF IInv, History
  <2>2. InThread(c[1]) <=> c[1] \in Elems(thread)
    BY DEF InThread, Elems
  <2> QED BY <2>1, <2>2 DEF Whole, Justified, Batch
<1> QED BY <1>1, Invariance, PTL

\* RecordedCallsRunOnce for every choice of batches and limits: no call that a checkpoint
\* holds an answer of runs again, through _execute_resume, _execute_crash_resume and
\* continue_run.
THEOREM RecordedCallsCorrect == Spec => RecordedCallsRunOnce
<1>1. IInv /\ [Next]_vars =>
        [\A c \in Calls : HasAgent(ckpt) /\ ckpt.agent.answers[c] > 0 => effects'[c] = effects[c]]_vars
  <2> SUFFICES ASSUME IInv, [Next]_vars, NEW c \in Calls, HasAgent(ckpt), ckpt.agent.answers[c] > 0,
                      effects'[c] # effects[c]
               PROVE  FALSE
    OBVIOUS
  <2>1. pc = "dispatch" /\ c = Here
    BY RunsHere DEF IInv
  <2>2. ckpt.agent.answers[c] = 0
    BY <2>1, NotRecorded DEF IInv
  <2> QED BY <2>2
<1> QED BY <1>1, Invariance, PTL DEF RecordedCallsRunOnce, Spec

\* CountersMatchHistory for every choice of batches and limits: the limiters that the LLM
\* is called under agree with the message list, after every restore of their counts.
THEOREM CountersCorrect == Spec => []CountersMatchHistory
<1>1. IInv => CountersMatchHistory
  <2> SUFFICES ASSUME IInv, pc = "llm"
               PROVE  /\ turn = iter + Uncounted /\ Len(thread) < iter /\ iter <= ceiling
                      /\ tools = Cardinality(Counted) /\ tools <= toolCeiling
    BY DEF CountersMatchHistory
  <2>1. turn = iter + Uncounted /\ Len(thread) < iter /\ iter <= ceiling
    BY DEF IInv, Turns, Parking, Extra, Uncounted
  <2>2. tools = Count(Elems(thread)) /\ tools <= toolCeiling
    BY DEF IInv, Tools
  <2>3. Counted = CallsOf(Elems(thread), requested, batches)
    BY DEF Counted, CallsOf, InThread, Elems, Batch
  <2> QED BY <2>1, <2>2, <2>3 DEF Count
<1> QED BY <1>1, Invariance, PTL
=============================================================================
