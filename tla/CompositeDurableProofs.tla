----------------------- MODULE CompositeDurableProofs -----------------------
(***************************************************************************)
(* Proofs about CompositeDurable, for any number of iterations, stages,    *)
(* branches or items, any bodies they are made of and any number of        *)
(* crashes, failures, cancellations and drives: gates hold, inputs are     *)
(* handed on, recorded work runs once, results account for every child.    *)
(***************************************************************************)
EXTENDS CompositeDurable, TLAPS

----------------------------------------------------------------------------
(* The inductive invariant, in layers.                                     *)

Results == [Children -> Value \cup {NoValue}]
FrameType == [at : 1..L, inp : Value, val : Value]
CkptType ==
    [kind : {"step", "suspend"}, child : 0..(K + 1), results : Results,
     frame : FrameType \cup {NoFrame}, request : Keys \cup {NoKey}]

\* The types of all variables.
TypeOK ==
    /\ kind \in Kinds /\ body \in {"workflow", "revision"}
    /\ policy \in {"all_or_nothing", "best_effort"} /\ stepCheckpoints \in {"on", "off"}
    /\ ckpt \in CkptType \cup {NoCkpt}
    /\ journal \in Results
    /\ requests \in [Keys -> Value \cup {NoValue}]
    /\ responses \in [Keys -> {"approve", "reject", "revise", NoDecision}]
    /\ pc \in {"idle", "top", "wait", "again", "surface", "handle", "cursor", "journal"}
    /\ cur \in 0..(K + 1)
    /\ task \in [Children -> {"none", "queued", "run", "returned", "refused", "raised", "suspended"}]
    /\ frame \in [Children -> FrameType]
    /\ results \in Results /\ prior \in Results
    /\ failed \subseteq Children /\ susp \in 0..K /\ batch \subseteq Children
    /\ pending \in Keys \cup {NoKey} /\ token \in {"clear", "set"}
    /\ outcome \in {"none", "running", "result", "suspended", "lost", "error", "cancelled", "crashed"}
    /\ report \in [results : Results, failed : SUBSET Children]
    /\ effects \in [Places -> Nat] /\ yield \in Results
    /\ interruptions \in Nat /\ drives \in Nat

\* A child stands at a step of its body, in memory and in a saved frame, and its
\* configuration is one that the builders accept.
Positions ==
    /\ policy = "best_effort" => kind \notin OneByOne
    /\ stepCheckpoints = "on" => kind \in {"loop", "parallel"}
    /\ \A c \in Children : frame[c].at <= Len(Body(c))
    /\ ckpt # NoCkpt /\ ~Suspended(ckpt) => stepCheckpoints = "on"
    /\ ckpt # NoCkpt /\ kind \in OneByOne => ckpt.child # 0
    /\ Suspended(ckpt) =>
          /\ ckpt.child \in Children /\ ckpt.request \in Keys
          /\ IF body = "workflow" THEN ckpt.frame \in FrameType /\ ckpt.frame.at <= Len(Body(ckpt.child))
             ELSE ckpt.frame = NoFrame

\* What the parent holds between two awaits.
Stage ==
    /\ IF pc = "idle" THEN task = NoTask ELSE outcome = "running"
    /\ pc = "top" => kind \in OneByOne /\ cur # 0 /\ task = NoTask
    /\ pc \in {"wait", "surface", "handle"} /\ kind \in OneByOne =>
          cur \in Children /\ \A c \in Children \ {cur} : task[c] = "none"
    /\ pc \in {"cursor", "journal"} =>
          /\ stepCheckpoints = "on" /\ cur \in Children /\ results[cur] # NoValue
          /\ IF kind = "loop" THEN task = NoTask ELSE task[cur] = "none"
    /\ pc = "journal" => ckpt # NoCkpt /\ ~Suspended(ckpt)
    /\ pc \in {"surface", "handle"} => \A c \in Children : task[c] \in {"none", "suspended"}
    /\ susp # 0 => pending \in Keys
    /\ pc = "surface" => susp # 0 /\ (kind \in OneByOne => susp = cur /\ task[cur] = "suspended")
    /\ pc = "again" => /\ kind = "parallel" /\ Suspended(ckpt) /\ results = ckpt.results
                       /\ \A c \in Children \ {ckpt.child} : task[c] = "none"

\* The human has decided at every gate that was passed; a RevisionGate went on
\* because the decision was to revise.
Passed(c, f) ==
    \A s \in 1..(f.at - 1) : Body(c)[s] = "gate" =>
        /\ responses[Key(c, s)] # NoDecision
        /\ body = "revision" => responses[Key(c, s)] = "revise"

Clearance ==
    /\ \A c \in Children : Passed(c, frame[c])
    /\ Suspended(ckpt) /\ body = "workflow" => Passed(ckpt.child, ckpt.frame)
    /\ GatesHold

\* A loop asks only in its first iteration: the later ones meet the same answers.
PathAnswered ==
    \A s \in 1..Len(Body(1)) :
        Body(1)[s] = "gate" /\ Passed(1, [at |-> s]) => responses[Key(1, s)] # NoDecision

Later ==
    \/ cur > 1 \/ pc \in {"cursor", "journal"}
    \/ \E c \in Children : task[c] = "returned"
    \/ ckpt # NoCkpt /\ ckpt.child > 1

Asking ==
    kind = "loop" =>
        /\ Later => PathAnswered
        /\ \A c \in Children : task[c] = "suspended" => c = 1
        /\ Suspended(ckpt) => ckpt.child = 1

\* Each iteration or stage has the value that the one before it returned.
ChainSaved ==
    kind \in {"loop", "pipeline"} /\ ckpt # NoCkpt =>
        /\ pc \in {"top", "wait", "surface", "cursor"} => cur >= ckpt.child
        /\ pc = "journal" => cur + 1 = ckpt.child
        /\ \A c \in Children :
              /\ c >= ckpt.child => ckpt.results[c] = NoValue
              /\ c + 1 = ckpt.child \/ (c < ckpt.child /\ kind = "pipeline") =>
                    ckpt.results[c] # NoValue /\ ckpt.results[c] = yield[c]
              /\ c + 1 = ckpt.child /\ Suspended(ckpt) /\ body = "workflow" =>
                    ckpt.frame.inp = yield[c]

ChainHeld ==
    kind \in {"loop", "pipeline"} =>
        \A c \in Children :
            /\ pc \in {"top", "wait", "surface", "handle"} =>
                  /\ c >= cur => results[c] = NoValue
                  /\ c + 1 \in Children /\ c + 1 = cur => frame[c + 1].inp = yield[c]
                  /\ c < cur /\ kind = "pipeline" => results[c] # NoValue /\ results[c] = yield[c]
            /\ pc \in {"cursor", "journal"} =>
                  /\ c > cur => results[c] = NoValue
                  /\ c = cur => results[c] = yield[c]

\* A child resumed from a saved frame stands where it stood then or behind that.
Restored ==
    Suspended(ckpt) /\ body = "workflow"
        /\ (task[ckpt.child] # "none" \/ (pc = "top" /\ cur = ckpt.child))
    => frame[ckpt.child].at >= ckpt.frame.at

Asked(c) == \E g \in Holds("gate") : g[1] = c /\ requests[Key(c, g[2])] # NoValue

\* A fan-out knows of every branch or item: it runs, or it is accounted for, or it
\* asked a human.
Fan ==
    kind \notin OneByOne /\ pc \in {"wait", "cursor", "journal", "surface"} =>
        /\ \A c \in Children :
              IF task[c] # "none" THEN c \notin In(results) \cup In(prior) \cup failed
              ELSE c \in In(results) \cup In(prior) \cup failed \/ (susp # 0 /\ Asked(c))
        /\ In(results) \cap failed = {} /\ In(prior) \cap failed = {}
        /\ failed # {} => policy = "best_effort" \/ (kind = "map_reduce" /\ token = "set")
        /\ \A c \in Children : /\ task[c] \in {"queued", "refused"} => kind = "map_reduce"
                               /\ task[c] = "refused" => token = "set"
                               /\ task[c] = "suspended" => Asked(c)
        /\ susp # 0 => task[susp] = "none" /\ results[susp] = NoValue
        /\ IF kind = "parallel"
           THEN prior = Nothing /\ ~Suspended(ckpt) /\ In(journal) \subseteq In(results)
           ELSE IF Suspended(ckpt) THEN prior = ckpt.results ELSE prior = Nothing

\* What a fan-out has saved of its branches or items.
Saved ==
    /\ kind = "conditional" /\ ckpt # NoCkpt => ckpt.results = Nothing
    /\ kind \notin OneByOne =>
        /\ ckpt # NoCkpt /\ ~Suspended(ckpt) => ckpt.results = Nothing
        /\ Suspended(ckpt) => ckpt.results[ckpt.child] = NoValue
        /\ kind = "parallel" =>
              /\ ckpt = NoCkpt => journal = Nothing
              /\ Suspended(ckpt) =>
                    /\ journal[ckpt.child] = NoValue
                    /\ policy = "best_effort" \/ \A c \in Children \ In(ckpt.results) : Asked(c)

\* What handles of a suspended run refer to.
Surfaced ==
    kind # "parallel" =>
        /\ pc = "handle" => Suspended(ckpt) /\ ckpt.request = pending
        /\ SuspensionIsResumable

\* No child stands at a step whose work is recorded (a consequence of the layers).
NothingRecordedRuns ==
    \A c \in Children : task[c] \in {"queued", "run"} => ~Recorded(<<c, frame[c].at>>)

----------------------------------------------------------------------------
(* Types.                                                                  *)

\* The fixed values have their types, and NoValue is no value.
LEMMA Constants ==
    /\ NoValue \notin Value /\ Original \in Value /\ None \in Value
    /\ Nothing \in Results /\ In(Nothing) = {}
    /\ \A v \in Value : Frame(v) \in FrameType
    /\ Frames \in [Children -> FrameType]
    /\ NoTask \in [Children -> {"none"}]
    /\ NoKey \notin Keys
<1>1. /\ NoValue \notin Value /\ Original \in Value /\ None \in Value
  BY DEF NoValue, Value, Original, None
<1>2. 1 \in 1..L /\ Children \subseteq Nat /\ 0 \notin Children
  BY SizeAssumption DEF Children
<1>3. \A v \in Value : Frame(v) \in FrameType
  BY <1>2 DEF Frame, FrameType
<1>4. Nothing \in Results /\ In(Nothing) = {}
  BY DEF Nothing, Results, In
<1>5. Frames \in [Children -> FrameType]
  BY <1>1, <1>3 DEF Frames
<1>6. NoKey \notin Keys
  BY DEF NoKey, Keys
<1> QED BY <1>1, <1>3, <1>4, <1>5, <1>6 DEF NoTask

\* A child's body.
LEMMA Bodied ==
    ASSUME kind \in Kinds, NEW c \in Children
    PROVE  /\ Len(Body(c)) \in 1..L /\ Len(Body(c)) \in Nat
           /\ kind \in Shared => Body(c) = Body(1)
<1>1. 1 \in Children
  BY SizeAssumption DEF Children
<1> QED BY <1>1, KindAssumption, SizeAssumption DEF Body

\* Where a child stands, and the request it may make there.
LEMMA Standing ==
    ASSUME TypeOK, NEW c \in Children
    PROVE  /\ frame[c].at \in 1..L /\ frame[c].at \in Nat /\ frame[c].val \in Value
           /\ Here(c) \in Places /\ GateKey(c) \in Keys
           /\ effects[Here(c)] \in Nat
<1>1. frame[c].at \in 1..L /\ frame[c].val \in Value /\ frame[c] \in FrameType
  BY DEF TypeOK, FrameType
<1>2. Here(c) \in Places
  BY <1>1 DEF Here, Places
<1>3. GateKey(c) \in Keys
  BY <1>1, SizeAssumption DEF GateKey, Key, Keys, Children
<1> QED BY <1>1, <1>2, <1>3, SizeAssumption DEF TypeOK

\* The input that a checkpoint holds, and the frame a drive resumes with, are typed.
LEMMA InputTyped ==
    ASSUME NEW saved \in Results, NEW c \in 0..(K + 1)
    PROVE  InputAfter(c, saved) \in Value
<1>1. c > 1 => c - 1 \in Children
  BY SizeAssumption DEF Children
<1> QED BY <1>1, Constants DEF InputAfter, Results

\* A checkpoint is a record of its fields.
LEMMA CkptTyped ==
    ASSUME TypeOK, ckpt # NoCkpt
    PROVE  /\ ckpt \in CkptType /\ ckpt.child \in 0..(K + 1) /\ ckpt.results \in Results
           /\ ckpt.kind \in {"step", "suspend"} /\ ckpt.request \in Keys \cup {NoKey}
BY DEF TypeOK, CkptType

\* A resumed child stands at a step of its body.
LEMMA ResumedTyped ==
    ASSUME TypeOK, Positions, ckpt # NoCkpt, Suspended(ckpt)
    PROVE  ResumedFrame \in FrameType /\ ResumedFrame.at <= Len(Body(ckpt.child))
<1>1. /\ ckpt.child \in Children /\ ckpt.child \in 0..(K + 1) /\ ckpt.results \in Results
      /\ body = "workflow" => ckpt.frame \in FrameType /\ ckpt.frame.at <= Len(Body(ckpt.child))
  BY CkptTyped DEF Positions
<1>2. Len(Body(ckpt.child)) \in 1..L
  BY <1>1, Bodied DEF TypeOK
<1>3. \A v \in Value : Frame(v) \in FrameType /\ Frame(v).at <= Len(Body(ckpt.child))
  <2>1. 1 <= Len(Body(ckpt.child))
    BY <1>2, SizeAssumption
  <2>2. \A v \in Value : Frame(v).at = 1
    BY DEF Frame
  <2> QED BY <2>1, <2>2, Constants
<1> QED BY <1>1, <1>3, Constants, InputTyped DEF ResumedFrame

\* The child a drive enters, and its frame, are typed.
LEMMA EnterTyped ==
    ASSUME NEW c \in 0..(K + 1), NEW f \in FrameType, NEW restored \in Results,
           EnterChild(c, f, restored)
    PROVE  /\ pc' = "top" /\ cur' \in 0..(K + 1)
           /\ frame' \in [Children -> FrameType]
           /\ task' \in [Children -> {"none", "queued", "run", "returned", "refused", "raised", "suspended"}]
           /\ results' \in Results /\ prior' \in Results
<1>1. Frame(Original) \in FrameType
  BY Constants
<1>2. \A d \in Children : (IF d = c THEN f ELSE Frame(Original)) \in FrameType
  BY <1>1
<1>3. frame' \in [Children -> FrameType]
  BY <1>2 DEF EnterChild
<1> QED BY <1>3, Constants DEF EnterChild

\* A current step's return moves the child on within its body.
LEMMA Moves ==
    ASSUME TypeOK, Positions, NEW c \in Children, NEW v \in Value,
           \/ Proceed(c, v) \/ Leave(c, v)
    PROVE  /\ frame' \in [Children -> FrameType]
           /\ \A d \in Children \ {c} : frame'[d] = frame[d] /\ task'[d] = task[d]
           /\ frame'[c].inp = frame[c].inp /\ frame'[c].at <= Len(Body(c))
           /\ frame'[c].at \in {frame[c].at, frame[c].at + 1} /\ frame'[c].at \in Nat
           /\ task' \in [Children -> {"none", "queued", "run", "returned", "refused", "raised", "suspended"}]
           /\ task'[c] \in {task[c], "returned"}
<1>1. /\ frame[c] \in FrameType /\ frame \in [Children -> FrameType]
      /\ frame[c].at \in 1..L /\ Len(Body(c)) \in 1..L /\ frame[c].at <= Len(Body(c))
  BY Bodied, Standing DEF TypeOK, Positions
<1>2. task \in [Children -> {"none", "queued", "run", "returned", "refused", "raised", "suspended"}]
  BY DEF TypeOK
<1>3. CASE Leave(c, v)
  <2>1. frame' = [frame EXCEPT ![c].val = v] /\ task' = [task EXCEPT ![c] = "returned"]
    BY <1>3 DEF Leave
  <2>2. frame'[c] = [frame[c] EXCEPT !.val = v]
    BY <1>1, <2>1
  <2>3. frame'[c] \in FrameType /\ frame'[c].at = frame[c].at /\ frame'[c].inp = frame[c].inp
    BY <1>1, <2>2 DEF FrameType
  <2> QED BY <1>1, <1>2, <2>1, <2>3, SizeAssumption
<1>4. CASE frame[c].at # Len(Body(c)) /\ frame' = [frame EXCEPT ![c].at = @ + 1, ![c].val = v] /\ UNCHANGED task
  <2>1. frame'[c] = [[frame[c] EXCEPT !.at = @ + 1] EXCEPT !.val = v]
    BY <1>1, <1>4
  <2>2. frame[c].at + 1 \in 1..L /\ frame[c].at + 1 <= Len(Body(c))
    BY <1>1, <1>4, SizeAssumption
  <2>3. frame'[c] \in FrameType /\ frame'[c].at = frame[c].at + 1 /\ frame'[c].inp = frame[c].inp
    BY <1>1, <2>1, <2>2 DEF FrameType
  <2> QED BY <1>1, <1>2, <1>4, <2>2, <2>3, SizeAssumption
<1> QED BY <1>3, <1>4 DEF Proceed

\* Types, positions and stages of the initial states.
LEMMA InitTypeOK == Init => TypeOK /\ Positions /\ Stage
<1> SUFFICES ASSUME Init PROVE TypeOK /\ Positions /\ Stage
  OBVIOUS
<1>1. TypeOK
  BY Constants, BoundAssumption, SizeAssumption DEF Init, TypeOK, Results, NoTask
<1>2. \A c \in Children : Len(Body(c)) \in 1..L /\ Frames[c].at = 1
  BY Bodied DEF Init, Frames, Frame
<1>3. Positions
  BY <1>2, SizeAssumption DEF Init, Positions, Suspended, NoCkpt
<1> QED BY <1>1, <1>3 DEF Init, Stage

\* The types are kept in every step.
LEMMA TypeStep == TypeOK /\ Positions /\ Stage /\ [Next]_vars => TypeOK'
<1> SUFFICES ASSUME TypeOK, Positions, Stage, [Next]_vars PROVE TypeOK'
  OBVIOUS
<1>c. 1 \in Children /\ \A c \in Children : c \in 0..(K + 1) /\ c + 1 \in 0..(K + 1) /\ c \in 0..K
  BY SizeAssumption DEF Children
<1> USE Constants, BoundAssumption
    DEF TypeOK, config, stores, children, collected, local, host, history, bounds
<1>1. CASE Start
  <2>1. Begin /\ UNCHANGED <<ckpt, responses>>
    BY <1>1 DEF Start
  <2>2. CASE \E c \in IF kind = "conditional" THEN Children ELSE {1} : EnterChild(c, Frame(Original), Nothing)
    <3>1. PICK c \in Children : EnterChild(c, Frame(Original), Nothing)
      BY <1>c, <2>2
    <3>2. Frame(Original) \in FrameType /\ c \in 0..(K + 1) /\ Nothing \in Results
      BY <1>c
    <3>3. /\ pc' = "top" /\ cur' \in 0..(K + 1)
          /\ frame' \in [Children -> FrameType]
          /\ task' \in [Children -> {"none", "queued", "run", "returned", "refused", "raised", "suspended"}]
          /\ results' \in Results /\ prior' \in Results
      BY <3>1, <3>2, EnterTyped
    <3> QED BY <2>1, <3>3, SizeAssumption DEF Begin
  <2>3. CASE LaunchTasks(Children, "wait", Frames, Nothing, Nothing)
    BY <2>1, <2>3, SizeAssumption DEF Begin, LaunchTasks
  <2> QED BY <1>1, <2>2, <2>3 DEF Start
<1>2. CASE ResumeInterrupted
  <2>1. /\ Begin /\ UNCHANGED <<ckpt, responses>> /\ ckpt # NoCkpt
        /\ ckpt.child \in 0..(K + 1) /\ ckpt.results \in Results
    BY <1>2, CkptTyped DEF ResumeInterrupted
  <2>2. CASE EnterChild(ckpt.child, Frame(InputAfter(ckpt.child, ckpt.results)), Nothing)
    <3>1. Frame(InputAfter(ckpt.child, ckpt.results)) \in FrameType
      BY <2>1, InputTyped
    <3>2. /\ pc' = "top" /\ cur' \in 0..(K + 1)
          /\ frame' \in [Children -> FrameType]
          /\ task' \in [Children -> {"none", "queued", "run", "returned", "refused", "raised", "suspended"}]
          /\ results' \in Results /\ prior' \in Results
      BY <2>1, <2>2, <3>1, EnterTyped
    <3> QED BY <2>1, <3>2, SizeAssumption DEF Begin
  <2>3. CASE LaunchTasks(Children \ In(journal), "wait", Frames, journal, Nothing)
    BY <2>1, <2>3, SizeAssumption DEF Begin, LaunchTasks
  <2> QED BY <1>2, <2>2, <2>3 DEF ResumeInterrupted
<1>3. ASSUME NEW d \in Decisions, Resume(d) PROVE TypeOK'
  <2>1. /\ Begin /\ UNCHANGED ckpt /\ ckpt # NoCkpt /\ Suspended(ckpt)
        /\ ckpt.child \in Children /\ ckpt.child \in 0..(K + 1) /\ ckpt.results \in Results
    BY <1>3, CkptTyped DEF Resume, Positions
  <2>2. responses' \in [Keys -> {"approve", "reject", "revise", NoDecision}]
    BY <1>3 DEF Resume, Decisions
  <2>3. ResumedFrame \in FrameType
    BY <2>1, ResumedTyped
  <2>4. ASSUME NEW restored \in Results, EnterChild(ckpt.child, ResumedFrame, restored) PROVE TypeOK'
    <3>1. /\ pc' = "top" /\ cur' \in 0..(K + 1)
          /\ frame' \in [Children -> FrameType]
          /\ task' \in [Children -> {"none", "queued", "run", "returned", "refused", "raised", "suspended"}]
          /\ results' \in Results /\ prior' \in Results
      BY <2>1, <2>3, <2>4, EnterTyped
    <3> QED BY <2>1, <2>2, <3>1, SizeAssumption DEF Begin
  <2>5. ASSUME NEW todo, NEW at \in {"again", "wait"}, NEW restored \in Results, NEW before \in Results,
               LaunchTasks(todo, at, [Frames EXCEPT ![ckpt.child] = ResumedFrame], restored, before)
        PROVE  TypeOK'
    <3>1. [Frames EXCEPT ![ckpt.child] = ResumedFrame] \in [Children -> FrameType]
      BY <2>1, <2>3
    <3> QED BY <2>1, <2>2, <2>5, <3>1, SizeAssumption DEF Begin, LaunchTasks
  <2>6. \/ EnterChild(ckpt.child, ResumedFrame, Nothing)
        \/ EnterChild(ckpt.child, ResumedFrame, ckpt.results)
        \/ LaunchTasks({ckpt.child}, "again",
                       [Frames EXCEPT ![ckpt.child] = ResumedFrame], ckpt.results, Nothing)
        \/ LaunchTasks(Children \ In(ckpt.results), "wait",
                       [Frames EXCEPT ![ckpt.child] = ResumedFrame], Nothing, ckpt.results)
    <3>1. kind \in {"loop", "conditional", "pipeline", "parallel", "map_reduce"}
      BY KindAssumption DEF OneByOne
    <3> QED BY <1>3, <3>1 DEF Resume
  <2> QED BY <2>1, <2>4, <2>5, <2>6
<1>4. ASSUME NEW c \in Children, StartItem(c) PROVE TypeOK'
  BY <1>4 DEF StartItem
<1>5. ASSUME NEW c \in Children, WorkStep(c) PROVE TypeOK'
  <2>1. Here(c) \in Places /\ effects[Here(c)] \in Nat
    BY Standing
  <2> DEFINE v == [src |-> Here(c), run |-> effects[Here(c)] + 1]
  <2>2. v \in Value
    BY <2>1 DEF Value
  <2>3. Proceed(c, v) /\ effects' = [effects EXCEPT ![Here(c)] = effects[Here(c)] + 1]
    BY <1>5 DEF WorkStep
  <2> HIDE DEF v
  <2>4. /\ frame' \in [Children -> FrameType]
        /\ task' \in [Children -> {"none", "queued", "run", "returned", "refused", "raised", "suspended"}]
    BY <2>2, <2>3, Moves
  <2> QED BY <1>5, <2>1, <2>3, <2>4 DEF WorkStep
<1>6. ASSUME NEW c \in Children, GateAnswered(c) PROVE TypeOK'
  <2>1. frame[c].val \in Value
    BY Standing
  <2>2. \E v \in Value : Proceed(c, v) \/ Leave(c, v)
    BY <1>6, <2>1 DEF GateAnswered
  <2>3. /\ frame' \in [Children -> FrameType]
        /\ task' \in [Children -> {"none", "queued", "run", "returned", "refused", "raised", "suspended"}]
    BY <2>2, Moves
  <2> QED BY <1>6, <2>3 DEF GateAnswered
<1>7. ASSUME NEW c \in Children, GateAsks(c) PROVE TypeOK'
  <2>1. frame[c].val \in Value /\ GateKey(c) \in Keys
    BY Standing
  <2> QED BY <1>7, <2>1 DEF GateAsks
<1>8. CASE StopCancelled
  BY <1>8, SizeAssumption DEF StopCancelled, Return
<1>9. CASE RunChild
  BY <1>9 DEF RunChild
<1>10. CASE EndOfChildren
  BY <1>10, SizeAssumption DEF EndOfChildren, Return, Report
<1>11. CASE StopAfterChild
  <2>1. cur \in Children /\ frame[cur].val \in Value
    BY <1>11, Standing DEF StopAfterChild, ChildReturned, Stage
  <2> QED BY <1>11, <2>1, SizeAssumption DEF StopAfterChild, Return, Report, ChildReturned, Results
<1>12. CASE GoOn
  <2>1. cur \in Children /\ frame[cur].val \in Value
    BY <1>12, Standing DEF GoOn, ChildReturned, Stage
  <2>2. Frame(frame[cur].val) \in FrameType /\ Frame(Original) \in FrameType
    BY <2>1
  <2> QED BY <1>12, <1>c, <2>1, <2>2 DEF GoOn, ChildReturned, EnterNext, Results
<1>13. CASE ChildSuspended
  <2>1. cur \in Children /\ GateKey(cur) \in Keys
    BY <1>13, Standing DEF ChildSuspended, Stage
  <2> QED BY <1>13, <1>c, <2>1 DEF ChildSuspended
<1>14. CASE ChildRaised
  BY <1>14, SizeAssumption DEF ChildRaised, Return
<1>15. CASE Collect
  BY <1>15 DEF Collect, Fans, Ended
<1>16. CASE FanCompletes
  <2>1. Merge(prior, results) \in Results
    BY DEF Merge, Results
  <2> QED BY <1>16, <2>1, SizeAssumption DEF FanCompletes, AllCollected, Fans, Return, Report
<1>17. CASE FanSuspends
  BY <1>17 DEF FanSuspends, AllCollected, Fans
<1>18. ASSUME NEW c \in Children, TakeResult(c) PROVE TypeOK'
  <2>1. frame[c].val \in Value
    BY Standing
  <2> QED BY <1>18, <1>c, <2>1 DEF TakeResult, Take, Fans, Results
<1>19. ASSUME NEW c \in Children, TakeRefused(c) PROVE TypeOK'
  BY <1>19 DEF TakeRefused, Take, Fans
<1>20. ASSUME NEW c \in Children, TakeSuspension(c) PROVE TypeOK'
  <2>1. GateKey(c) \in Keys
    BY Standing
  <2> QED BY <1>20, <1>c, <2>1 DEF TakeSuspension, Take, Fans
<1>21. ASSUME NEW c \in Children, TakeFailure(c) PROVE TypeOK'
  BY <1>21 DEF TakeFailure, Take, Fans
<1>22. ASSUME NEW c \in Children, AbortAll(c) PROVE TypeOK'
  BY <1>22, SizeAssumption DEF AbortAll, Return, Fans
<1>23. ASSUME NEW c \in Children, BranchReturned(c) PROVE TypeOK'
  <2>1. frame[c].val \in Value
    BY Standing
  <2> QED BY <1>23, <2>1, SizeAssumption DEF BranchReturned, Return, Report, Results
<1>24. ASSUME NEW c \in Children, BranchSuspendedAgain(c) PROVE TypeOK'
  <2>1. GateKey(c) \in Keys
    BY Standing
  <2> QED BY <1>24, <2>1 DEF BranchSuspendedAgain
<1>25. ASSUME NEW c \in Children, BranchRaised(c) PROVE TypeOK'
  BY <1>25, SizeAssumption DEF BranchRaised, Return
<1>26. CASE SaveCursor
  <2>1. cur \in Children
    BY <1>26 DEF SaveCursor, Stage
  <2>2. cur + 1 \in 0..(K + 1) /\ 0 \in 0..(K + 1)
    BY <1>c, <2>1, SizeAssumption
  <2>3. [Nothing EXCEPT ![cur] = results[cur]] \in Results
    BY <2>1 DEF Results
  <2>4. \A c \in 0..(K + 1), saved \in Results : Cursor(c, saved) \in CkptType
    BY DEF Cursor, CkptType
  <2>5. ckpt' \in CkptType
    BY <1>26, <2>2, <2>3, <2>4 DEF SaveCursor
  <2> QED BY <1>26, <2>5 DEF SaveCursor
<1>27. CASE AppendStep
  <2>1. cur \in Children /\ results[cur] \in Value
    BY <1>27 DEF AppendStep, Stage, Results
  <2>2. Frame(results[cur]) \in FrameType /\ Frame(Original) \in FrameType
    BY <2>1
  <2> QED BY <1>27, <1>c, <2>1, <2>2 DEF AppendStep, EnterNext, Results
<1>28. CASE Surface
  <2>1. susp \in Children /\ susp \in 0..(K + 1) /\ pending \in Keys
    BY <1>28, <1>c, SizeAssumption DEF Surface, Stage, Children
  <2>2. SavedResults \in Results
    BY DEF SavedResults, Results
  <2>3. ckpt' \in CkptType
    BY <1>28, <2>1, <2>2 DEF Surface, CkptType
  <2> QED BY <1>28, <2>3 DEF Surface
<1>29. CASE BuildSuspendedRun
  BY <1>29, SizeAssumption DEF BuildSuspendedRun
<1>30. ASSUME NEW c \in Children, StepRaises(c) PROVE TypeOK'
  <2>1. Here(c) \in Places /\ effects[Here(c)] \in Nat
    BY Standing
  <2>2. effects' \in [Places -> Nat]
    BY <1>30, <2>1 DEF StepRaises
  <2> QED BY <1>30, <2>2 DEF StepRaises, Interrupt
<1>31. CASE Crash
  BY <1>31, SizeAssumption DEF Crash, Interrupt, Return
<1>32. CASE Cancel
  BY <1>32 DEF Cancel, Interrupt
<1>33. ASSUME NEW k \in Keys, NEW d \in Decisions, Respond(k, d) PROVE TypeOK'
  BY <1>33 DEF Respond, Decisions
<1>34. CASE UNCHANGED vars
  BY <1>34 DEF vars
<1> QED
  BY <1>1, <1>2, <1>3, <1>4, <1>5, <1>6, <1>7, <1>8, <1>9, <1>10, <1>11, <1>12, <1>13,
     <1>14, <1>15, <1>16, <1>17, <1>18, <1>19, <1>20, <1>21, <1>22, <1>23, <1>24, <1>25,
     <1>26, <1>27, <1>28, <1>29, <1>30, <1>31, <1>32, <1>33, <1>34
     DEF Next, Drive, Child, Parent, Work, Trouble, Human

\* The positions are kept in every step.
LEMMA PositionsStep == TypeOK /\ Positions /\ Stage /\ [Next]_vars => Positions'
<1> SUFFICES ASSUME TypeOK, Positions, Stage, [Next]_vars PROVE Positions'
  OBVIOUS
<1>1b. \A c \in Children : 1 <= Len(Body(c))
  BY Bodied, SizeAssumption DEF TypeOK
<1>2b. \A v : Frame(v).at = 1
  BY DEF Frame
<1>u. ASSUME UNCHANGED <<config, ckpt, frame>> PROVE Positions'
  BY <1>u DEF Positions, config, Suspended, Body
<1>f. ASSUME UNCHANGED <<config, ckpt>>, \A c \in Children : frame'[c].at <= Len(Body(c)) PROVE Positions'
  BY <1>f DEF Positions, config, Suspended, Body
<1>r. ASSUME UNCHANGED <<config, ckpt>>, frame' = Frames PROVE Positions'
  BY <1>r, <1>f, <1>1b, <1>2b DEF Frames
<1>e. ASSUME UNCHANGED <<config, ckpt>>, NEW c \in Children, NEW f, f.at <= Len(Body(c)), NEW restored,
             EnterChild(c, f, restored)
      PROVE  Positions'
  BY <1>e, <1>f, <1>1b, <1>2b DEF EnterChild
<1>n. ASSUME UNCHANGED <<config, ckpt>>, NEW c, NEW v, EnterNext(c, v) PROVE Positions'
  BY <1>n, <1>f, <1>1b, <1>2b DEF EnterNext
<1>c. 1 \in Children
  BY SizeAssumption DEF Children
<1> USE DEF stores, children, collected, local, host, history, bounds
<1>1. CASE Start
  <2>1. UNCHANGED <<config, ckpt>>
    BY <1>1 DEF Start, Begin
  <2>2. ASSUME NEW c \in Children, EnterChild(c, Frame(Original), Nothing) PROVE Positions'
    BY <2>1, <2>2, <1>e, <1>1b, <1>2b
  <2>3. CASE LaunchTasks(Children, "wait", Frames, Nothing, Nothing)
    BY <2>1, <2>3, <1>r DEF LaunchTasks
  <2> QED BY <1>1, <1>c, <2>2, <2>3 DEF Start
<1>2. CASE ResumeInterrupted
  <2>1. UNCHANGED <<config, ckpt>>
    BY <1>2 DEF ResumeInterrupted, Begin
  <2>2. CASE LaunchTasks(Children \ In(journal), "wait", Frames, journal, Nothing)
    BY <2>1, <2>2, <1>r DEF LaunchTasks
  <2>3. CASE EnterChild(ckpt.child, Frame(InputAfter(ckpt.child, ckpt.results)), Nothing)
    <3>1. \A c \in Children : frame'[c].at = 1
      BY <2>3, <1>2b DEF EnterChild
    <3> QED BY <2>1, <3>1, <1>f, <1>1b
  <2> QED BY <1>2, <2>2, <2>3 DEF ResumeInterrupted
<1>3. ASSUME NEW d \in Decisions, Resume(d) PROVE Positions'
  <2>1. UNCHANGED <<config, ckpt>> /\ ckpt.child \in Children
        /\ ResumedFrame.at <= Len(Body(ckpt.child)) /\ ResumedFrame \in FrameType
    BY <1>3, ResumedTyped DEF Resume, Begin, Positions
  <2>2. ASSUME NEW restored, EnterChild(ckpt.child, ResumedFrame, restored) PROVE Positions'
    BY <2>1, <2>2, <1>e
  <2>3. ASSUME NEW todo, NEW at, NEW restored, NEW before,
               LaunchTasks(todo, at, [Frames EXCEPT ![ckpt.child] = ResumedFrame], restored, before)
        PROVE  Positions'
    <3>1. \A c \in Children : frame'[c] = IF c = ckpt.child THEN ResumedFrame ELSE Frame(Original)
      BY <2>1, <2>3 DEF LaunchTasks, Frames
    <3>2. \A c \in Children : frame'[c].at <= Len(Body(c))
      BY <2>1, <3>1, <1>1b, <1>2b
    <3> QED BY <2>1, <3>2, <1>f
  <2>4. \/ EnterChild(ckpt.child, ResumedFrame, Nothing)
        \/ EnterChild(ckpt.child, ResumedFrame, ckpt.results)
        \/ LaunchTasks({ckpt.child}, "again",
                       [Frames EXCEPT ![ckpt.child] = ResumedFrame], ckpt.results, Nothing)
        \/ LaunchTasks(Children \ In(ckpt.results), "wait",
                       [Frames EXCEPT ![ckpt.child] = ResumedFrame], Nothing, ckpt.results)
    <3>1. kind \in {"loop", "conditional", "pipeline", "parallel", "map_reduce"}
      BY KindAssumption DEF OneByOne, TypeOK
    <3> QED BY <1>3, <3>1 DEF Resume
  <2> QED BY <2>2, <2>3, <2>4
<1>4. ASSUME NEW c \in Children, StartItem(c) PROVE Positions'
  BY <1>4, <1>u DEF StartItem
<1>5. ASSUME NEW c \in Children, WorkStep(c) PROVE Positions'
  <2>1. \E v \in Value : Proceed(c, v)
    <3>1. Here(c) \in Places /\ effects[Here(c)] + 1 \in Nat
      BY Standing
    <3>2. [src |-> Here(c), run |-> effects[Here(c)] + 1] \in Value
      BY <3>1 DEF Value
    <3> QED BY <1>5, <3>2 DEF WorkStep
  <2>2. frame'[c].at <= Len(Body(c)) /\ \A d \in Children \ {c} : frame'[d] = frame[d]
    BY <2>1, Moves
  <2>3. UNCHANGED <<config, ckpt>>
    BY <1>5 DEF WorkStep, Proceed, Leave
  <2> QED BY <2>2, <2>3, <1>f DEF Positions
<1>6. ASSUME NEW c \in Children, GateAnswered(c) PROVE Positions'
  <2>1. \E v \in Value : Proceed(c, v) \/ Leave(c, v)
    BY <1>6, Standing, Constants DEF GateAnswered
  <2>2. frame'[c].at <= Len(Body(c)) /\ \A d \in Children \ {c} : frame'[d] = frame[d]
    BY <2>1, Moves
  <2>3. UNCHANGED <<config, ckpt>>
    BY <1>6 DEF GateAnswered, Proceed, Leave
  <2> QED BY <2>2, <2>3, <1>f DEF Positions
<1>7. ASSUME NEW c \in Children, GateAsks(c) PROVE Positions'
  BY <1>7, <1>u DEF GateAsks
<1>8. CASE StopCancelled
  BY <1>8, <1>r DEF StopCancelled, Return
<1>9. CASE RunChild
  BY <1>9, <1>u DEF RunChild
<1>10. CASE EndOfChildren
  BY <1>10, <1>r DEF EndOfChildren, Return, Report
<1>11. CASE StopAfterChild
  BY <1>11, <1>r DEF StopAfterChild, Return, Report, ChildReturned
<1>12. CASE GoOn
  <2>1. UNCHANGED <<config, ckpt>>
    BY <1>12 DEF GoOn
  <2>2. UNCHANGED frame \/ EnterNext(cur, frame[cur].val)
    BY <1>12 DEF GoOn
  <2> QED BY <2>1, <2>2, <1>u, <1>n
<1>13. CASE ChildSuspended
  BY <1>13, <1>u DEF ChildSuspended
<1>14. CASE ChildRaised
  BY <1>14, <1>r DEF ChildRaised, Return
<1>15. CASE Collect
  BY <1>15, <1>u DEF Collect, Fans
<1>16. CASE FanCompletes
  BY <1>16, <1>r DEF FanCompletes, AllCollected, Fans, Return, Report
<1>17. CASE FanSuspends
  BY <1>17, <1>u DEF FanSuspends, AllCollected, Fans
<1>18. ASSUME NEW c \in Children, TakeResult(c) PROVE Positions'
  BY <1>18, <1>u DEF TakeResult, Take, Fans
<1>19. ASSUME NEW c \in Children, TakeRefused(c) PROVE Positions'
  BY <1>19, <1>u DEF TakeRefused, Take, Fans
<1>20. ASSUME NEW c \in Children, TakeSuspension(c) PROVE Positions'
  BY <1>20, <1>u DEF TakeSuspension, Take, Fans
<1>21. ASSUME NEW c \in Children, TakeFailure(c) PROVE Positions'
  BY <1>21, <1>u DEF TakeFailure, Take, Fans
<1>22. ASSUME NEW c \in Children, AbortAll(c) PROVE Positions'
  BY <1>22, <1>r DEF AbortAll, Return, Fans
<1>23. ASSUME NEW c \in Children, BranchReturned(c) PROVE Positions'
  BY <1>23, <1>r DEF BranchReturned, Return, Report
<1>24. ASSUME NEW c \in Children, BranchSuspendedAgain(c) PROVE Positions'
  BY <1>24, <1>u DEF BranchSuspendedAgain
<1>25. ASSUME NEW c \in Children, BranchRaised(c) PROVE Positions'
  BY <1>25, <1>r DEF BranchRaised, Return
<1>26. CASE SaveCursor
  <2>1. /\ UNCHANGED <<config, frame>> /\ stepCheckpoints = "on" /\ cur \in Children
        /\ ckpt'.kind = "step" /\ (kind = "loop" => ckpt'.child = cur + 1)
    BY <1>26 DEF SaveCursor, Stage, Cursor
  <2>2. kind \in OneByOne => ckpt'.child # 0
    BY <2>1 DEF Positions, OneByOne, Children
  <2> QED BY <2>1, <2>2 DEF Positions, config, Suspended, Body
<1>27. CASE AppendStep
  <2>1. UNCHANGED <<config, ckpt>>
    BY <1>27 DEF AppendStep
  <2>2. UNCHANGED frame \/ EnterNext(cur, results[cur])
    BY <1>27 DEF AppendStep
  <2> QED BY <2>1, <2>2, <1>u, <1>n
<1>28. CASE Surface
  <2>1. /\ UNCHANGED <<config, frame>> /\ susp \in Children /\ pending \in Keys
        /\ ckpt'.child = susp /\ ckpt'.request = pending
        /\ ckpt'.frame = IF body = "workflow" THEN frame[susp] ELSE NoFrame
    BY <1>28 DEF Surface, Stage, TypeOK, Children
  <2>2. ckpt'.kind = "suspend"
    BY <1>28 DEF Surface
  <2>3. frame[susp] \in FrameType /\ frame[susp].at <= Len(Body(susp)) /\ susp # 0
    BY <2>1 DEF TypeOK, Positions, Children
  <2> QED BY <2>1, <2>2, <2>3 DEF Positions, config, Suspended, Body
<1>29. CASE BuildSuspendedRun
  BY <1>29, <1>r DEF BuildSuspendedRun
<1>30. ASSUME NEW c \in Children, StepRaises(c) PROVE Positions'
  BY <1>30, <1>u DEF StepRaises, Interrupt
<1>31. CASE Crash
  BY <1>31, <1>r DEF Crash, Interrupt, Return
<1>32. CASE Cancel
  BY <1>32, <1>u DEF Cancel, Interrupt
<1>33. ASSUME NEW k \in Keys, NEW d \in Decisions, Respond(k, d) PROVE Positions'
  BY <1>33, <1>u DEF Respond
<1>34. CASE UNCHANGED vars
  BY <1>34, <1>u DEF vars
<1> QED
  BY <1>1, <1>2, <1>3, <1>4, <1>5, <1>6, <1>7, <1>8, <1>9, <1>10, <1>11, <1>12, <1>13,
     <1>14, <1>15, <1>16, <1>17, <1>18, <1>19, <1>20, <1>21, <1>22, <1>23, <1>24, <1>25,
     <1>26, <1>27, <1>28, <1>29, <1>30, <1>31, <1>32, <1>33, <1>34
     DEF Next, Drive, Child, Parent, Work, Trouble, Human

\* Where the parent is when a child is queued or runs.
LEMMA Running ==
    ASSUME TypeOK, Stage, NEW c \in Children, task[c] \in {"queued", "run"}
    PROVE  /\ pc \in {"wait", "again", "cursor", "journal"}
           /\ pc \in {"cursor", "journal"} => kind # "loop" /\ c # cur
           /\ pc = "wait" /\ kind \in OneByOne => c = cur
           /\ pc = "again" => c = ckpt.child
BY DEF Stage, TypeOK, NoTask

\* What the parent holds is kept in every step.
LEMMA StageStep == TypeOK /\ Positions /\ Stage /\ [Next]_vars => Stage'
<1> SUFFICES ASSUME TypeOK, Positions, Stage, [Next]_vars PROVE Stage'
  OBVIOUS
<1>t. /\ task \in [Children -> {"none", "queued", "run", "returned", "refused", "raised", "suspended"}]
      /\ \A c \in Children : NoTask[c] = "none"
      /\ Children \subseteq 1..K /\ 0 \notin Children /\ \A c \in Children : c + 1 # 0
  BY DEF TypeOK, NoTask, Children
<1>k. kind \in OneByOne \/ kind \in {"parallel", "map_reduce"}
  BY KindAssumption DEF TypeOK
<1>p. \A s \in {"parallel", "map_reduce"} : s \notin OneByOne
  BY DEF OneByOne
<1>w. ASSUME NEW c \in Children, task[c] \in {"queued", "run"}
      PROVE  /\ pc \in {"wait", "again", "cursor", "journal"}
             /\ pc \in {"cursor", "journal"} => kind # "loop" /\ c # cur
             /\ pc = "wait" /\ kind \in OneByOne => c = cur
             /\ pc = "again" => c = ckpt.child
  BY <1>w, Running
<1>m. ASSUME NEW c \in Children, task[c] \in {"queued", "run"}, NEW st, task' = [task EXCEPT ![c] = st],
             UNCHANGED <<config, ckpt, pc, cur, results, susp, pending, outcome>>
      PROVE  Stage'
  BY <1>m, <1>w, <1>t, <1>p DEF Stage, config, Suspended
<1> USE DEF config, stores, children, collected, local, host, history, bounds
<1>1. CASE Start
  BY <1>1, <1>t, <1>p DEF Start, Begin, EnterChild, LaunchTasks, Stage
<1>2. CASE ResumeInterrupted
  <2>1. Begin /\ ckpt # NoCkpt /\ UNCHANGED ckpt
    BY <1>2 DEF ResumeInterrupted
  <2>2. CASE kind = "loop"
    <3>1. ckpt.child # 0 /\ kind \in OneByOne
      BY <2>1, <2>2 DEF Positions, OneByOne
    <3> QED BY <1>2, <2>1, <2>2, <3>1 DEF ResumeInterrupted, Begin, EnterChild, Stage
  <2>3. CASE kind # "loop"
    <3>1. kind \notin OneByOne
      BY <1>2, <2>1, <2>3, <1>p DEF Positions, ResumeInterrupted
    <3> QED BY <1>2, <2>1, <2>3, <3>1 DEF ResumeInterrupted, Begin, LaunchTasks, Stage
  <2> QED BY <2>2, <2>3
<1>3. ASSUME NEW d \in Decisions, Resume(d) PROVE Stage'
  <2>1. Begin /\ ckpt # NoCkpt /\ Suspended(ckpt) /\ UNCHANGED ckpt /\ ckpt.child \in Children
    BY <1>3 DEF Resume, Positions
  <2>2. CASE kind \in OneByOne
    <3>1. kind \in {"loop", "conditional", "pipeline"}
      BY <2>2 DEF OneByOne
    <3>2. \E restored : EnterChild(ckpt.child, ResumedFrame, restored)
      BY <1>3, <3>1 DEF Resume
    <3>3. pc' = "top" /\ cur' # 0 /\ task' = NoTask
      BY <2>1, <3>2, <1>t DEF EnterChild
    <3> QED BY <2>1, <2>2, <3>3 DEF Begin, Stage
  <2>3. CASE kind = "parallel"
    <3>1. LaunchTasks({ckpt.child}, "again", [Frames EXCEPT ![ckpt.child] = ResumedFrame], ckpt.results, Nothing)
      BY <1>3, <2>3 DEF Resume
    <3> QED BY <2>1, <2>3, <3>1 DEF LaunchTasks, Begin, Stage, Suspended
  <2>4. CASE kind = "map_reduce"
    <3>1. pc' = "wait" /\ kind \notin OneByOne
      BY <1>3, <2>4, <1>p DEF Resume, LaunchTasks
    <3> QED BY <2>1, <3>1 DEF Begin, Stage
  <2> QED BY <1>k, <2>2, <2>3, <2>4
<1>4. ASSUME NEW c \in Children, StartItem(c) PROVE Stage'
  <2>1. \E st : task' = [task EXCEPT ![c] = st]
    BY <1>4 DEF StartItem
  <2> QED BY <1>4, <2>1, <1>m DEF StartItem
<1>5. ASSUME NEW c \in Children, WorkStep(c) PROVE Stage'
  <2>1. task[c] = "run" /\ UNCHANGED <<config, ckpt, pc, cur, results, susp, pending, outcome>>
    BY <1>5 DEF WorkStep, At
  <2>2. task' = [task EXCEPT ![c] = "returned"] \/ UNCHANGED task
    BY <1>5 DEF WorkStep, Proceed, Leave
  <2>3. CASE UNCHANGED task
    BY <2>1, <2>3 DEF Stage, Suspended
  <2> QED BY <2>1, <2>2, <2>3, <1>m
<1>6. ASSUME NEW c \in Children, GateAnswered(c) PROVE Stage'
  <2>1. task[c] = "run" /\ UNCHANGED <<config, ckpt, pc, cur, results, susp, pending, outcome>>
    BY <1>6 DEF GateAnswered, At
  <2>2. task' = [task EXCEPT ![c] = "returned"] \/ UNCHANGED task
    BY <1>6 DEF GateAnswered, Proceed, Leave
  <2>3. CASE UNCHANGED task
    BY <2>1, <2>3 DEF Stage, Suspended
  <2> QED BY <2>1, <2>2, <2>3, <1>m
<1>7. ASSUME NEW c \in Children, GateAsks(c) PROVE Stage'
  <2>1. task' = [task EXCEPT ![c] = "suspended"] /\ task[c] = "run"
    BY <1>7 DEF GateAsks, At
  <2> QED BY <1>7, <2>1, <1>m DEF GateAsks
<1>8. CASE StopCancelled
  BY <1>8 DEF StopCancelled, Return, Stage
<1>9. CASE RunChild
  <2>1. cur \in Children /\ kind \in OneByOne
    BY <1>9 DEF RunChild, Stage, TypeOK, Children
  <2> QED BY <1>9, <2>1, <1>t DEF RunChild, Stage
<1>10. CASE EndOfChildren
  BY <1>10 DEF EndOfChildren, Return, Report, Stage
<1>11. CASE StopAfterChild
  BY <1>11 DEF StopAfterChild, Return, Report, ChildReturned, Stage
<1>12. CASE GoOn
  <2>1. cur \in Children /\ kind \in OneByOne /\ frame[cur].val # NoValue
    BY <1>12, Standing, Constants DEF GoOn, ChildReturned, Stage
  <2>2. results'[cur] # NoValue
    BY <1>12, <2>1 DEF GoOn, TypeOK, Results
  <2> QED BY <1>12, <1>t, <2>1, <2>2 DEF GoOn, ChildReturned, EnterNext, Stage
<1>13. CASE ChildSuspended
  <2>1. cur \in Children /\ GateKey(cur) \in Keys
    BY <1>13, Standing DEF ChildSuspended, Stage
  <2> QED BY <1>13, <2>1, <1>t DEF ChildSuspended, Stage, Suspended
<1>14. CASE ChildRaised
  BY <1>14 DEF ChildRaised, Return, Stage
<1>15. CASE Collect
  BY <1>15 DEF Collect, Fans, Stage, Suspended
<1>16. CASE FanCompletes
  BY <1>16 DEF FanCompletes, AllCollected, Fans, Return, Report, Stage
<1>17. CASE FanSuspends
  <2>1. \A c \in Children : task[c] = "none"
    BY <1>17 DEF FanSuspends, AllCollected, InFlight
  <2> QED BY <1>17, <2>1 DEF FanSuspends, AllCollected, Fans, Stage, Suspended
<1>18. ASSUME NEW c \in Children, TakeResult(c) PROVE Stage'
  <2>1. frame[c].val # NoValue
    BY Standing, Constants
  <2>2. results'[c] # NoValue /\ task'[c] = "none"
    BY <1>18, <2>1, <1>t DEF TakeResult, Take, TypeOK, Results
  <2>3. kind # "loop"
    BY <1>18 DEF TakeResult, Take, Fans, OneByOne
  <2> QED BY <1>18, <2>2, <2>3, <1>t DEF TakeResult, Take, Fans, Stage, Suspended
<1>19. ASSUME NEW c \in Children, TakeRefused(c) PROVE Stage'
  BY <1>19, <1>t, <1>p DEF TakeRefused, Take, Fans, Stage, Suspended
<1>20. ASSUME NEW c \in Children, TakeSuspension(c) PROVE Stage'
  <2>1. GateKey(c) \in Keys
    BY Standing
  <2> QED BY <1>20, <2>1 DEF TakeSuspension, Take, Fans, Stage, Suspended
<1>21. ASSUME NEW c \in Children, TakeFailure(c) PROVE Stage'
  BY <1>21, <1>t, <1>p DEF TakeFailure, Take, Fans, Stage, Suspended
<1>22. ASSUME NEW c \in Children, AbortAll(c) PROVE Stage'
  BY <1>22 DEF AbortAll, Return, Fans, Stage
<1>23. ASSUME NEW c \in Children, BranchReturned(c) PROVE Stage'
  BY <1>23 DEF BranchReturned, Return, Report, Stage
<1>24. ASSUME NEW c \in Children, BranchSuspendedAgain(c) PROVE Stage'
  <2>1. kind \notin OneByOne /\ pending' \in Keys
    BY <1>24, <1>p, Standing DEF BranchSuspendedAgain, Stage
  <2>2. \A d \in Children : task[d] \in {"none", "suspended"}
    BY <1>24 DEF BranchSuspendedAgain, Stage
  <2> QED BY <1>24, <2>1, <2>2 DEF BranchSuspendedAgain, Stage, Suspended
<1>25. ASSUME NEW c \in Children, BranchRaised(c) PROVE Stage'
  BY <1>25 DEF BranchRaised, Return, Stage
<1>26. CASE SaveCursor
  <2>1. ckpt'.kind = "step"
    BY <1>26 DEF SaveCursor, Cursor
  <2>2. ckpt' # NoCkpt
    BY <2>1 DEF NoCkpt
  <2> QED BY <1>26, <2>1, <2>2 DEF SaveCursor, Stage, Suspended
<1>27. CASE AppendStep
  <2>1. cur \in Children /\ cur + 1 # 0
    BY <1>27, <1>t DEF AppendStep, Stage
  <2>2. kind = "loop" \/ kind \notin OneByOne
    BY <1>27, <1>p DEF AppendStep, Stage, Positions
  <2>3. "loop" \in OneByOne
    BY DEF OneByOne
  <2> QED BY <1>27, <2>1, <2>2, <2>3 DEF AppendStep, EnterNext, Stage, Suspended
<1>28. CASE Surface
  <2>1. \A c \in Children : task[c] \in {"none", "suspended"}
    BY <1>28 DEF Surface, Stage
  <2> QED BY <1>28, <2>1 DEF Surface, Stage
<1>29. CASE BuildSuspendedRun
  BY <1>29 DEF BuildSuspendedRun, Stage
<1>30. ASSUME NEW c \in Children, StepRaises(c) PROVE Stage'
  <2>1. task' = [task EXCEPT ![c] = "raised"] /\ task[c] = "run"
    BY <1>30 DEF StepRaises, At
  <2> QED BY <1>30, <2>1, <1>m DEF StepRaises
<1>31. CASE Crash
  BY <1>31 DEF Crash, Interrupt, Return, Stage
<1>32. CASE Cancel
  BY <1>32 DEF Cancel, Interrupt, Stage, Suspended
<1>33. ASSUME NEW k \in Keys, NEW d \in Decisions, Respond(k, d) PROVE Stage'
  BY <1>33 DEF Respond, Stage, Suspended
<1>34. CASE UNCHANGED vars
  BY <1>34 DEF vars, Stage, Suspended
<1> QED
  BY <1>1, <1>2, <1>3, <1>4, <1>5, <1>6, <1>7, <1>8, <1>9, <1>10, <1>11, <1>12, <1>13,
     <1>14, <1>15, <1>16, <1>17, <1>18, <1>19, <1>20, <1>21, <1>22, <1>23, <1>24, <1>25,
     <1>26, <1>27, <1>28, <1>29, <1>30, <1>31, <1>32, <1>33, <1>34
     DEF Next, Drive, Child, Parent, Work, Trouble, Human

\* For any workflow and bounds: every reachable state has its types.
THEOREM TypeCorrect == Spec => []TypeOK
<1> QED BY InitTypeOK, TypeStep, PositionsStep, StageStep, PTL DEF Spec

----------------------------------------------------------------------------
(* Gates.                                                                  *)

\* The configuration never changes, a decision stays, one decision is made at a
\* time, and a request is never taken back.
LEMMA Monotone ==
    ASSUME TypeOK, [Next]_vars
    PROVE  /\ UNCHANGED config
           /\ \A k \in Keys : /\ responses[k] # NoDecision => responses'[k] = responses[k]
                              /\ requests[k] # NoValue => requests'[k] # NoValue
           /\ \A j, k \in Keys : j = k \/ responses'[j] = responses[j] \/ responses'[k] = responses[k]
<1> USE DEF config, stores, children, collected, local, host, history, bounds
<1> DEFINE Stays == /\ UNCHANGED config
                    /\ \A k \in Keys : /\ responses[k] # NoDecision => responses'[k] = responses[k]
                                       /\ requests[k] # NoValue => requests'[k] # NoValue
                    /\ \A j, k \in Keys : j = k \/ responses'[j] = responses[j] \/ responses'[k] = responses[k]
<1>1. CASE Start
  BY <1>1 DEF Start, Begin, EnterChild, LaunchTasks
<1>2. CASE ResumeInterrupted
  BY <1>2 DEF ResumeInterrupted, Begin, EnterChild, LaunchTasks
<1>3. ASSUME NEW d \in Decisions, Resume(d) PROVE Stays
  <2>1. /\ UNCHANGED <<config, requests>>
        /\ \/ responses[ckpt.request] = NoDecision /\ responses' = [responses EXCEPT ![ckpt.request] = d]
           \/ responses' = responses
    BY <1>3 DEF Resume, Begin
  <2> QED BY <2>1 DEF TypeOK
<1>4. ASSUME NEW c \in Children, StartItem(c) PROVE Stays
  BY <1>4 DEF StartItem
<1>5. ASSUME NEW c \in Children, WorkStep(c) PROVE Stays
  BY <1>5 DEF WorkStep, Proceed, Leave
<1>6. ASSUME NEW c \in Children, GateAnswered(c) PROVE Stays
  BY <1>6 DEF GateAnswered, Proceed, Leave
<1>7. ASSUME NEW c \in Children, GateAsks(c) PROVE Stays
  <2>1. /\ UNCHANGED <<config, responses>>
        /\ \/ requests[GateKey(c)] = NoValue /\ requests' = [requests EXCEPT ![GateKey(c)] = frame[c].val]
           \/ requests' = requests
    BY <1>7 DEF GateAsks
  <2> QED BY <2>1, Standing, Constants DEF TypeOK
<1>8. CASE StopCancelled
  BY <1>8 DEF StopCancelled, Return
<1>9. CASE RunChild
  BY <1>9 DEF RunChild
<1>10. CASE EndOfChildren
  BY <1>10 DEF EndOfChildren, Return, Report
<1>11. CASE StopAfterChild
  BY <1>11 DEF StopAfterChild, Return, Report, ChildReturned
<1>12. CASE GoOn
  BY <1>12 DEF GoOn, ChildReturned, EnterNext
<1>13. CASE ChildSuspended
  BY <1>13 DEF ChildSuspended
<1>14. CASE ChildRaised
  BY <1>14 DEF ChildRaised, Return
<1>15. CASE Collect
  BY <1>15 DEF Collect, Fans
<1>16. CASE FanCompletes
  BY <1>16 DEF FanCompletes, AllCollected, Fans, Return, Report
<1>17. CASE FanSuspends
  BY <1>17 DEF FanSuspends, AllCollected, Fans
<1>18. ASSUME NEW c \in Children, TakeResult(c) PROVE Stays
  BY <1>18 DEF TakeResult, Take, Fans
<1>19. ASSUME NEW c \in Children, TakeRefused(c) PROVE Stays
  BY <1>19 DEF TakeRefused, Take, Fans
<1>20. ASSUME NEW c \in Children, TakeSuspension(c) PROVE Stays
  BY <1>20 DEF TakeSuspension, Take, Fans
<1>21. ASSUME NEW c \in Children, TakeFailure(c) PROVE Stays
  BY <1>21 DEF TakeFailure, Take, Fans
<1>22. ASSUME NEW c \in Children, AbortAll(c) PROVE Stays
  BY <1>22 DEF AbortAll, Return, Fans
<1>23. ASSUME NEW c \in Children, BranchReturned(c) PROVE Stays
  BY <1>23 DEF BranchReturned, Return, Report
<1>24. ASSUME NEW c \in Children, BranchSuspendedAgain(c) PROVE Stays
  BY <1>24 DEF BranchSuspendedAgain
<1>25. ASSUME NEW c \in Children, BranchRaised(c) PROVE Stays
  BY <1>25 DEF BranchRaised, Return
<1>26. CASE SaveCursor
  BY <1>26 DEF SaveCursor
<1>27. CASE AppendStep
  BY <1>27 DEF AppendStep, EnterNext
<1>28. CASE Surface
  BY <1>28 DEF Surface
<1>29. CASE BuildSuspendedRun
  BY <1>29 DEF BuildSuspendedRun
<1>30. ASSUME NEW c \in Children, StepRaises(c) PROVE Stays
  BY <1>30 DEF StepRaises, Interrupt
<1>31. CASE Crash
  BY <1>31 DEF Crash, Interrupt, Return
<1>32. CASE Cancel
  BY <1>32 DEF Cancel, Interrupt
<1>33. ASSUME NEW k \in Keys, NEW d \in Decisions, Respond(k, d) PROVE Stays
  <2>1. UNCHANGED <<config, requests>> /\ responses[k] = NoDecision /\ responses' = [responses EXCEPT ![k] = d]
    BY <1>33 DEF Respond
  <2> QED BY <2>1 DEF TypeOK
<1>34. CASE UNCHANGED vars
  BY <1>34 DEF vars
<1> QED
  BY <1>1, <1>2, <1>3, <1>4, <1>5, <1>6, <1>7, <1>8, <1>9, <1>10, <1>11, <1>12, <1>13,
     <1>14, <1>15, <1>16, <1>17, <1>18, <1>19, <1>20, <1>21, <1>22, <1>23, <1>24, <1>25,
     <1>26, <1>27, <1>28, <1>29, <1>30, <1>31, <1>32, <1>33, <1>34
     DEF Next, Drive, Child, Parent, Work, Trouble, Human

\* What a step does to the value and the place of a child that moves on.
LEMMA WorkMoves ==
    ASSUME TypeOK, NEW c \in Children, WorkStep(c)
    PROVE  /\ task[c] = "run" /\ Body(c)[frame[c].at] = "work"
           /\ \E v \in Value : Proceed(c, v)
           /\ effects' = [effects EXCEPT ![Here(c)] = effects[Here(c)] + 1]
           /\ UNCHANGED <<config, stores, pc, cur, collected, pending, token, host, yield, bounds>>
<1>1. Here(c) \in Places /\ effects[Here(c)] + 1 \in Nat
  BY Standing
<1>2. [src |-> Here(c), run |-> effects[Here(c)] + 1] \in Value
  BY <1>1 DEF Value
<1> QED BY <1>2 DEF WorkStep, At

\* What an answered gate does: it passes, or it makes the child return.
LEMMA GateMoves ==
    ASSUME TypeOK, NEW c \in Children, GateAnswered(c)
    PROVE  /\ task[c] = "run" /\ Body(c)[frame[c].at] = "gate"
           /\ responses[GateKey(c)] # NoDecision
           /\ \E v \in Value : \/ Proceed(c, v) /\ (body = "revision" => responses[GateKey(c)] = "revise")
                               \/ Leave(c, v) /\ body = "revision" /\ responses[GateKey(c)] # "revise"
                               \/ Leave(c, v) /\ frame[c].at = Len(Body(c))
           /\ UNCHANGED <<config, stores, pc, cur, collected, pending, token, host, history, bounds>>
<1>1. frame[c].val \in Value /\ None \in Value
  BY Standing, Constants
<1>2. responses[GateKey(c)] # NoDecision
  BY DEF GateAnswered, NoDecision
<1>3. body \in {"workflow", "revision"} /\ "workflow" # "revision"
  BY DEF TypeOK
<1>4. \E v \in Value : \/ Proceed(c, v) /\ (body = "revision" => responses[GateKey(c)] = "revise")
                       \/ Leave(c, v) /\ body = "revision" /\ responses[GateKey(c)] # "revise"
                       \/ Leave(c, v) /\ frame[c].at = Len(Body(c))
  BY <1>1, <1>3 DEF GateAnswered
<1> QED BY <1>2, <1>4 DEF GateAnswered, At

\* Gates passed stay passed.
LEMMA PassedStays ==
    ASSUME TypeOK, [Next]_vars, NEW c \in Children, NEW f, f.at \in 1..L, Passed(c, f)
    PROVE  Passed(c, f)'
<1>1. \A s \in 1..(f.at - 1) : Key(c, s) \in Keys /\ s \in 1..L
  BY SizeAssumption DEF Key, Keys, Children
<1> QED BY <1>1, Monotone DEF Passed, config, Body, Key

\* What makes a child's passed gates those of its new frame.
LEMMA PassedOn ==
    ASSUME TypeOK, Positions, Clearance, [Next]_vars, NEW c \in Children,
           \/ frame'[c] = frame[c]
           \/ frame'[c].at = 1
           \/ frame'[c] = ckpt.frame /\ c = ckpt.child /\ Suspended(ckpt) /\ body = "workflow"
    PROVE  Passed(c, frame[c])'
<1>1. CASE frame'[c] = frame[c]
  BY <1>1, PassedStays, Standing DEF Clearance, Passed
<1>2. CASE frame'[c].at = 1
  BY <1>2 DEF Passed
<1>3. CASE frame'[c] = ckpt.frame /\ c = ckpt.child /\ Suspended(ckpt) /\ body = "workflow"
  <2>1. Passed(c, ckpt.frame) /\ ckpt.frame.at \in 1..L
    BY <1>3 DEF Clearance, Positions, FrameType
  <2>2. ASSUME NEW f, f = ckpt.frame PROVE Passed(c, f)'
    BY <2>1, <2>2, PassedStays
  <2> QED BY <1>3, <2>2 DEF Passed
<1> QED BY <1>1, <1>2, <1>3

\* A gate that was answered is passed.
LEMMA StepPassed ==
    ASSUME TypeOK, Positions, Clearance, [Next]_vars, NEW c \in Children, frame'[c].at = frame[c].at + 1,
           Body(c)[frame[c].at] = "gate" =>
               /\ responses[GateKey(c)] # NoDecision
               /\ body = "revision" => responses[GateKey(c)] = "revise"
    PROVE  Passed(c, frame[c])'
<1>1. frame[c].at \in 1..L /\ GateKey(c) \in Keys /\ GateKey(c) = Key(c, frame[c].at)
  BY Standing DEF GateKey
<1>2. \A s \in 1..(frame[c].at - 1) : Key(c, s) \in Keys
  BY <1>1, SizeAssumption DEF Key, Keys, Children
<1>3. Passed(c, frame[c])
  BY DEF Clearance
<1>4. \A s \in 1..(frame'[c].at - 1) : s \in 1..(frame[c].at - 1) \/ s = frame[c].at
  BY <1>1, SizeAssumption
<1>5. \A s \in 1..(frame'[c].at - 1) : Body(c)[s] = "gate" =>
          /\ Key(c, s) \in Keys
          /\ responses[Key(c, s)] # NoDecision
          /\ body = "revision" => responses[Key(c, s)] = "revise"
  BY <1>1, <1>2, <1>3, <1>4 DEF Passed
<1> QED BY <1>5, Monotone DEF Passed, config, Body, Key

\* A child that stays where it was has passed the same gates.
LEMMA LeavePassed ==
    ASSUME TypeOK, Positions, Clearance, [Next]_vars, NEW c \in Children, frame'[c].at = frame[c].at
    PROVE  Passed(c, frame[c])'
<1>1. frame[c].at \in 1..L /\ Passed(c, frame[c])
  BY Standing DEF Clearance
<1>3. ASSUME NEW f, f = frame'[c] PROVE Passed(c, f)'
  <2>1. Passed(c, f) /\ f.at \in 1..L
    BY <1>1, <1>3 DEF Passed
  <2> QED BY <2>1, PassedStays
<1> QED BY <1>3 DEF Passed

\* The frames a resume starts from.
LEMMA ResumedBy ==
    ASSUME TypeOK, Positions, NEW d, Resume(d)
    PROVE  \A c \in Children : frame'[c] = IF c = ckpt.child THEN ResumedFrame ELSE Frame(Original)
<1>1. kind \in {"loop", "conditional", "pipeline", "parallel", "map_reduce"} /\ ckpt.child \in Children
  BY KindAssumption DEF OneByOne, TypeOK, Positions, Resume
<1>2. \/ \E restored : EnterChild(ckpt.child, ResumedFrame, restored)
      \/ frame' = [Frames EXCEPT ![ckpt.child] = ResumedFrame]
  BY <1>1 DEF Resume, LaunchTasks
<1> QED BY <1>1, <1>2 DEF EnterChild, Frames

\* No gate is passed and no effect made before anything has run.
LEMMA InitClearance == Init => Clearance
<1> SUFFICES ASSUME Init PROVE Clearance
  OBVIOUS
<1>1. \A c \in Children : frame[c].at = 1
  BY DEF Init, Frames, Frame
<1>2. \A p \in Holds("work") : effects[p] = 0
  BY DEF Init, Holds
<1> QED BY <1>1, <1>2 DEF Init, Clearance, Passed, Suspended, NoCkpt, GatesHold

\* Gates passed and effects made stay cleared in every step.
LEMMA ClearanceStep == TypeOK /\ Positions /\ Stage /\ Clearance /\ [Next]_vars => Clearance'
<1> SUFFICES ASSUME TypeOK, Positions, Stage, Clearance, [Next]_vars PROVE Clearance'
  OBVIOUS
<1>c. UNCHANGED config /\ Holds("work")' = Holds("work") /\ Holds("gate")' = Holds("gate")
  BY Monotone DEF Holds, Body, config
<1>g. ASSUME UNCHANGED effects PROVE GatesHold'
  <2>1. \A g \in Holds("gate") : Key(g[1], g[2]) \in Keys /\ Key(g[1], g[2])' = Key(g[1], g[2])
    BY <1>c, SizeAssumption DEF Holds, Places, Key, Keys, Children, config
  <2>2. \A g \in Holds("gate") : responses[Key(g[1], g[2])] # NoDecision => responses'[Key(g[1], g[2])'] # NoDecision
    BY <2>1, Monotone
  <2> QED BY <1>c, <1>g, <2>2 DEF Clearance, GatesHold
<1>b. ASSUME UNCHANGED ckpt PROVE (Suspended(ckpt) /\ body = "workflow" => Passed(ckpt.child, ckpt.frame))'
  <2> SUFFICES ASSUME Suspended(ckpt), body = "workflow" PROVE Passed(ckpt.child, ckpt.frame)'
    BY <1>b, <1>c DEF Suspended, config
  <2>1. ckpt.child \in Children /\ ckpt.frame.at \in 1..L /\ Passed(ckpt.child, ckpt.frame)
    BY DEF Positions, Clearance, FrameType
  <2>2. ASSUME NEW d \in Children, NEW f, d = ckpt.child, f = ckpt.frame PROVE Passed(d, f)'
    BY <2>1, <2>2, PassedStays
  <2> QED BY <1>b, <2>1, <2>2
<1>q. ASSUME UNCHANGED <<ckpt, effects>>,
             \A c \in Children : \/ frame'[c] = frame[c]
                                 \/ frame'[c].at = 1
                                 \/ frame'[c] = ckpt.frame /\ c = ckpt.child /\ Suspended(ckpt) /\ body = "workflow"
      PROVE  Clearance'
  <2>1. \A c \in Children : Passed(c, frame[c])'
    BY <1>q, PassedOn
  <2> QED BY <1>b, <1>g, <1>q, <2>1 DEF Clearance
<1>u. ASSUME UNCHANGED <<ckpt, effects, frame>> PROVE Clearance'
  BY <1>u, <1>q
<1>1b. \A v : Frame(v).at = 1
  BY DEF Frame
<1>r. ASSUME UNCHANGED <<ckpt, effects>>, frame' = Frames PROVE Clearance'
  BY <1>r, <1>q, <1>1b DEF Frames
<1>e. ASSUME UNCHANGED <<ckpt, effects>>, NEW c, NEW f, f.at = 1, NEW restored, EnterChild(c, f, restored)
      PROVE  Clearance'
  BY <1>e, <1>q, <1>1b DEF EnterChild
<1>n. ASSUME UNCHANGED <<ckpt, effects>>, NEW c, NEW v, EnterNext(c, v) PROVE Clearance'
  BY <1>n, <1>q, <1>1b DEF EnterNext
<1> USE DEF stores, children, collected, local, host, history, bounds
<1>1. CASE Start
  <2>1. UNCHANGED <<ckpt, effects>>
    BY <1>1 DEF Start, Begin
  <2>2. ASSUME NEW c, EnterChild(c, Frame(Original), Nothing) PROVE Clearance'
    BY <2>1, <2>2, <1>e, <1>1b
  <2>3. CASE LaunchTasks(Children, "wait", Frames, Nothing, Nothing)
    BY <2>1, <2>3, <1>r DEF LaunchTasks
  <2> QED BY <1>1, <2>2, <2>3 DEF Start
<1>2. CASE ResumeInterrupted
  <2>1. UNCHANGED <<ckpt, effects>>
    BY <1>2 DEF ResumeInterrupted, Begin
  <2>2. CASE LaunchTasks(Children \ In(journal), "wait", Frames, journal, Nothing)
    BY <2>1, <2>2, <1>r DEF LaunchTasks
  <2>3. CASE EnterChild(ckpt.child, Frame(InputAfter(ckpt.child, ckpt.results)), Nothing)
    BY <2>1, <2>3, <1>e, <1>1b
  <2> QED BY <1>2, <2>2, <2>3 DEF ResumeInterrupted
<1>3. ASSUME NEW d \in Decisions, Resume(d) PROVE Clearance'
  <2>1. UNCHANGED <<ckpt, effects>> /\ Suspended(ckpt) /\ ckpt.child \in Children
    BY <1>3 DEF Resume, Begin, Positions
  <2>2. ResumedFrame.at = 1 \/ (ResumedFrame = ckpt.frame /\ body = "workflow")
    BY <1>1b DEF ResumedFrame
  <2>3. \A c \in Children : frame'[c] = IF c = ckpt.child THEN ResumedFrame ELSE Frame(Original)
    BY <1>3, ResumedBy
  <2>4. \A c \in Children : \/ frame'[c].at = 1
                            \/ frame'[c] = ckpt.frame /\ c = ckpt.child /\ Suspended(ckpt) /\ body = "workflow"
    BY <2>1, <2>2, <2>3, <1>1b
  <2> QED BY <2>1, <2>4, <1>q
<1>4. ASSUME NEW c \in Children, StartItem(c) PROVE Clearance'
  BY <1>4, <1>u DEF StartItem
<1>5. ASSUME NEW c \in Children, WorkStep(c) PROVE Clearance'
  <2>1. \E v \in Value : Proceed(c, v) \/ Leave(c, v)
    BY <1>5, WorkMoves
  <2>2. Body(c)[frame[c].at] # "gate"
    BY <1>5, WorkMoves
  <2>4. /\ \A d \in Children \ {c} : frame'[d] = frame[d]
        /\ frame'[c].at \in {frame[c].at, frame[c].at + 1}
    BY <2>1, Moves
  <2>5. Passed(c, frame[c])'
    <3>1. CASE frame'[c].at = frame[c].at + 1
      BY <2>1, <2>2, <3>1, StepPassed
    <3>2. CASE frame'[c].at = frame[c].at
      BY <3>2, LeavePassed
    <3> QED BY <2>4, <3>1, <3>2
  <2>6. \A d \in Children : Passed(d, frame[d])'
    BY <2>4, <2>5, PassedOn
  <2>GH. ASSUME NEW e, effects' = [effects EXCEPT ![Here(c)] = e], Body(c)[frame[c].at] = "work" PROVE GatesHold'
    <3> SUFFICES ASSUME NEW p \in Holds("work"), NEW g \in Holds("gate"), p[1] = g[1], g[2] < p[2], effects'[p] > 0
                 PROVE  responses'[Key(g[1], g[2])'] # NoDecision
      BY <1>c DEF GatesHold
    <3>1. Key(g[1], g[2]) \in Keys /\ Key(g[1], g[2])' = Key(g[1], g[2])
      BY <1>c, SizeAssumption DEF Holds, Places, Key, Keys, Children, config
    <3>2. responses[Key(g[1], g[2])] # NoDecision
      <4>1. CASE p = Here(c)
        <5>1. p[1] = c /\ p[2] = frame[c].at
          BY <4>1 DEF Here
        <5>2. g \in Places /\ Body(g[1])[g[2]] = "gate"
          BY DEF Holds
        <5>3. g[1] = c /\ g[2] \in 1..L /\ g[2] < frame[c].at /\ frame[c].at \in Nat
          BY <5>1, <5>2, Standing DEF Places
        <5>4. g[2] \in 1..(frame[c].at - 1)
          BY <5>3, SizeAssumption
        <5>5. Passed(c, frame[c])
          BY DEF Clearance
        <5> QED BY <5>2, <5>3, <5>4, <5>5 DEF Passed
      <4>2. CASE p # Here(c)
        <5>1. effects'[p] = effects[p]
          BY <2>GH, <4>2 DEF Holds, TypeOK
        <5> QED BY <5>1 DEF Clearance, GatesHold
      <4> QED BY <4>1, <4>2
    <3> QED BY <3>1, <3>2, Monotone
  <2>7. UNCHANGED ckpt
    BY <1>5 DEF WorkStep
  <2>8. GatesHold'
    BY <1>5, <2>GH, WorkMoves
  <2> QED BY <1>b, <2>6, <2>7, <2>8 DEF Clearance
<1>6. ASSUME NEW c \in Children, GateAnswered(c) PROVE Clearance'
  <2>1. \E v \in Value : Proceed(c, v) \/ Leave(c, v)
    BY <1>6, GateMoves
  <2>3. UNCHANGED <<ckpt, effects>>
    BY <1>6 DEF GateAnswered
  <2>2. CASE body = "revision" => responses[GateKey(c)] = "revise"
    <3>1. responses[GateKey(c)] # NoDecision
      BY <1>6, GateMoves
    <3>2. Passed(c, frame[c])'
      <4>1. CASE frame'[c].at = frame[c].at + 1
        BY <2>2, <3>1, <4>1, StepPassed
      <4>2. CASE frame'[c].at = frame[c].at
        BY <2>1, <4>2, LeavePassed
      <4> QED BY <2>1, <4>1, <4>2, Moves
    <3>3. \A d \in Children : Passed(d, frame[d])'
      BY <2>1, <3>2, Moves, PassedOn
    <3> QED BY <1>b, <1>g, <2>3, <3>3 DEF Clearance
  <2>4. CASE ~(body = "revision" => responses[GateKey(c)] = "revise")
    <3>1. \E v \in Value : Leave(c, v)
      BY <1>6, <2>4, GateMoves
    <3>2. frame'[c].at = frame[c].at
      BY <3>1, Standing DEF Leave, TypeOK, FrameType
    <3>3. \A d \in Children : Passed(d, frame[d])'
      BY <2>1, <3>2, Moves, PassedOn, LeavePassed
    <3> QED BY <1>b, <1>g, <2>3, <3>3 DEF Clearance
  <2> QED BY <2>2, <2>4
<1>7. ASSUME NEW c \in Children, GateAsks(c) PROVE Clearance'
  BY <1>7, <1>u DEF GateAsks
<1>8. CASE StopCancelled
  BY <1>8, <1>r DEF StopCancelled, Return
<1>9. CASE RunChild
  BY <1>9, <1>u DEF RunChild
<1>10. CASE EndOfChildren
  BY <1>10, <1>r DEF EndOfChildren, Return, Report
<1>11. CASE StopAfterChild
  BY <1>11, <1>r DEF StopAfterChild, Return, Report, ChildReturned
<1>12. CASE GoOn
  <2>1. UNCHANGED <<ckpt, effects>>
    BY <1>12 DEF GoOn
  <2>2. UNCHANGED frame \/ EnterNext(cur, frame[cur].val)
    BY <1>12 DEF GoOn
  <2> QED BY <2>1, <2>2, <1>u, <1>n
<1>13. CASE ChildSuspended
  BY <1>13, <1>u DEF ChildSuspended
<1>14. CASE ChildRaised
  BY <1>14, <1>r DEF ChildRaised, Return
<1>15. CASE Collect
  BY <1>15, <1>u DEF Collect, Fans
<1>16. CASE FanCompletes
  BY <1>16, <1>r DEF FanCompletes, AllCollected, Fans, Return, Report
<1>17. CASE FanSuspends
  BY <1>17, <1>u DEF FanSuspends, AllCollected, Fans
<1>18. ASSUME NEW c \in Children, TakeResult(c) PROVE Clearance'
  BY <1>18, <1>u DEF TakeResult, Take, Fans
<1>19. ASSUME NEW c \in Children, TakeRefused(c) PROVE Clearance'
  BY <1>19, <1>u DEF TakeRefused, Take, Fans
<1>20. ASSUME NEW c \in Children, TakeSuspension(c) PROVE Clearance'
  BY <1>20, <1>u DEF TakeSuspension, Take, Fans
<1>21. ASSUME NEW c \in Children, TakeFailure(c) PROVE Clearance'
  BY <1>21, <1>u DEF TakeFailure, Take, Fans
<1>22. ASSUME NEW c \in Children, AbortAll(c) PROVE Clearance'
  BY <1>22, <1>r DEF AbortAll, Return, Fans
<1>23. ASSUME NEW c \in Children, BranchReturned(c) PROVE Clearance'
  BY <1>23, <1>r DEF BranchReturned, Return, Report
<1>24. ASSUME NEW c \in Children, BranchSuspendedAgain(c) PROVE Clearance'
  BY <1>24, <1>u DEF BranchSuspendedAgain
<1>25. ASSUME NEW c \in Children, BranchRaised(c) PROVE Clearance'
  BY <1>25, <1>r DEF BranchRaised, Return
<1>26. CASE SaveCursor
  <2>1. UNCHANGED <<effects, frame>> /\ ~Suspended(ckpt)'
    BY <1>26 DEF SaveCursor, Cursor, Suspended
  <2>2. \A d \in Children : Passed(d, frame[d])'
    BY <2>1, PassedOn
  <2> QED BY <1>g, <2>1, <2>2 DEF Clearance
<1>27. CASE AppendStep
  <2>1. UNCHANGED <<ckpt, effects>>
    BY <1>27 DEF AppendStep
  <2>2. UNCHANGED frame \/ EnterNext(cur, results[cur])
    BY <1>27 DEF AppendStep
  <2> QED BY <2>1, <2>2, <1>u, <1>n
<1>28. CASE Surface
  <2>1. /\ UNCHANGED <<effects, frame>> /\ susp \in Children
        /\ ckpt'.child = susp /\ (body = "workflow" => ckpt'.frame = frame[susp])
    BY <1>28 DEF Surface, Stage, TypeOK, Children
  <2>2. \A d \in Children : Passed(d, frame[d])'
    BY <2>1, PassedOn
  <2>3. body' = "workflow" => Passed(ckpt.child, ckpt.frame)'
    BY <1>c, <2>1, <2>2 DEF Passed, config
  <2> QED BY <1>g, <2>1, <2>2, <2>3 DEF Clearance
<1>29. CASE BuildSuspendedRun
  BY <1>29, <1>r DEF BuildSuspendedRun
<1>30. ASSUME NEW c \in Children, StepRaises(c) PROVE Clearance'
  <2>GH. ASSUME NEW e, effects' = [effects EXCEPT ![Here(c)] = e], Body(c)[frame[c].at] = "work" PROVE GatesHold'
    <3> SUFFICES ASSUME NEW p \in Holds("work"), NEW g \in Holds("gate"), p[1] = g[1], g[2] < p[2], effects'[p] > 0
                 PROVE  responses'[Key(g[1], g[2])'] # NoDecision
      BY <1>c DEF GatesHold
    <3>1. Key(g[1], g[2]) \in Keys /\ Key(g[1], g[2])' = Key(g[1], g[2])
      BY <1>c, SizeAssumption DEF Holds, Places, Key, Keys, Children, config
    <3>2. responses[Key(g[1], g[2])] # NoDecision
      <4>1. CASE p = Here(c)
        <5>1. p[1] = c /\ p[2] = frame[c].at
          BY <4>1 DEF Here
        <5>2. g \in Places /\ Body(g[1])[g[2]] = "gate"
          BY DEF Holds
        <5>3. g[1] = c /\ g[2] \in 1..L /\ g[2] < frame[c].at /\ frame[c].at \in Nat
          BY <5>1, <5>2, Standing DEF Places
        <5>4. g[2] \in 1..(frame[c].at - 1)
          BY <5>3, SizeAssumption
        <5>5. Passed(c, frame[c])
          BY DEF Clearance
        <5> QED BY <5>2, <5>3, <5>4, <5>5 DEF Passed
      <4>2. CASE p # Here(c)
        <5>1. effects'[p] = effects[p]
          BY <2>GH, <4>2 DEF Holds, TypeOK
        <5> QED BY <5>1 DEF Clearance, GatesHold
      <4> QED BY <4>1, <4>2
    <3> QED BY <3>1, <3>2, Monotone
  <2>1. UNCHANGED <<ckpt, frame>> /\ Body(c)[frame[c].at] = "work"
    BY <1>30 DEF StepRaises, At
  <2>2. UNCHANGED effects \/ effects' = [effects EXCEPT ![Here(c)] = effects[Here(c)] + 1]
    BY <1>30 DEF StepRaises
  <2>3. GatesHold'
    BY <1>g, <2>GH, <2>1, <2>2
  <2>4. \A d \in Children : Passed(d, frame[d])'
    BY <2>1, PassedOn
  <2> QED BY <1>b, <2>1, <2>3, <2>4 DEF Clearance
<1>31. CASE Crash
  BY <1>31, <1>r DEF Crash, Interrupt, Return
<1>32. CASE Cancel
  BY <1>32, <1>u DEF Cancel, Interrupt
<1>33. ASSUME NEW k \in Keys, NEW d \in Decisions, Respond(k, d) PROVE Clearance'
  BY <1>33, <1>u DEF Respond
<1>34. CASE UNCHANGED vars
  BY <1>34, <1>u DEF vars
<1> QED
  BY <1>1, <1>2, <1>3, <1>4, <1>5, <1>6, <1>7, <1>8, <1>9, <1>10, <1>11, <1>12, <1>13,
     <1>14, <1>15, <1>16, <1>17, <1>18, <1>19, <1>20, <1>21, <1>22, <1>23, <1>24, <1>25,
     <1>26, <1>27, <1>28, <1>29, <1>30, <1>31, <1>32, <1>33, <1>34
     DEF Next, Drive, Child, Parent, Work, Trouble, Human

\* For any workflow, bodies and bounds: no effect behind a gate without a decision.
THEOREM GatesCorrect == Spec => []GatesHold
<1>1. Clearance => GatesHold
  BY DEF Clearance
<1> QED
  BY <1>1, InitTypeOK, TypeStep, PositionsStep, StageStep, InitClearance, ClearanceStep, PTL DEF Spec

----------------------------------------------------------------------------
(* A loop asks a human in its first iteration only.                        *)

\* The iterations of a loop have one body and share the keys of its gates.
LEMMA LoopBody ==
    ASSUME TypeOK, kind = "loop", NEW c \in Children
    PROVE  /\ 1 \in Children /\ Body(c) = Body(1)
           /\ \A s : Key(c, s) = Key(1, s)
           /\ \A s \in 1..Len(Body(1)) : s \in 1..L /\ Key(1, s) \in Keys
           /\ \A s, q : Key(1, s) = Key(1, q) => s = q
<1>1. 1 \in Children /\ kind \in Shared /\ Len(Body(1)) \in 1..L
  BY SizeAssumption, Bodied DEF Children, Shared, TypeOK
<1>2. \A s \in 1..Len(Body(1)) : s \in 1..L
  BY <1>1, SizeAssumption
<1>3. \A s : Key(c, s) = <<0, s>> /\ Key(1, s) = <<0, s>>
  BY <1>1 DEF Key
<1>4. 0 \in 0..K
  BY SizeAssumption
<1>5. Body(c) = Body(1)
  BY <1>1, Bodied DEF TypeOK
<1>6. \A s \in 1..Len(Body(1)) : Key(1, s) \in Keys
  BY <1>2, <1>3, <1>4 DEF Keys
<1>7. \A s, q : Key(1, s) = Key(1, q) => s = q
  BY <1>3
<1> QED BY <1>1, <1>2, <1>3, <1>5, <1>6, <1>7

\* An answer never opens the way to an unanswered gate: were it the answer to an
\* earlier gate, that gate would have been an unanswered one on the way.
LEMMA PathStays ==
    ASSUME TypeOK, kind = "loop", PathAnswered, [Next]_vars
    PROVE  PathAnswered'
<1>1. UNCHANGED config
  BY Monotone
<1>2. \A s : Key(1, s)' = Key(1, s) /\ Body(1)' = Body(1)
  BY <1>1 DEF config, Key, Body
<1>3. SUFFICES ASSUME NEW s \in 1..Len(Body(1)), Body(1)[s] = "gate", Passed(1, [at |-> s])',
                      responses'[Key(1, s)] = NoDecision
               PROVE  FALSE
  BY <1>2 DEF PathAnswered
<1>4. /\ s \in 1..L /\ Len(Body(1)) \in 1..L
      /\ \A q \in 1..(s - 1) : q \in 1..Len(Body(1)) /\ Key(1, q) \in Keys
  <2>1. 1 \in Children
    BY SizeAssumption DEF Children
  <2>2. s \in 1..L /\ Len(Body(1)) \in 1..L
    BY <2>1, Bodied, LoopBody DEF TypeOK
  <2>3. \A q \in 1..(s - 1) : q \in 1..Len(Body(1))
    BY <2>2, SizeAssumption
  <2> QED BY <2>1, <2>2, <2>3, LoopBody
<1>5. Key(1, s) \in Keys
  BY LoopBody, SizeAssumption DEF Children
<1>6. responses[Key(1, s)] = NoDecision
  BY <1>3, <1>5, Monotone
<1>7. PICK q \in 1..(s - 1) :
          Body(1)[q] = "gate" /\ ~(responses[Key(1, q)] # NoDecision
                                   /\ (body = "revision" => responses[Key(1, q)] = "revise"))
  BY <1>3, <1>6 DEF PathAnswered, Passed
<1>8. \A r \in 1..(s - 1) : Body(1)[r] = "gate" =>
          responses'[Key(1, r)] # NoDecision /\ (body = "revision" => responses'[Key(1, r)] = "revise")
  BY <1>1, <1>2, <1>3 DEF Passed, config
<1>9. responses[Key(1, q)] = NoDecision /\ responses'[Key(1, q)] # NoDecision
  BY <1>4, <1>7, <1>8, Monotone
<1>10. \A r \in 1..(q - 1) : Body(1)[r] = "gate" =>
          responses[Key(1, r)] # NoDecision /\ (body = "revision" => responses[Key(1, r)] = "revise")
  <2> SUFFICES ASSUME NEW r \in 1..(q - 1), Body(1)[r] = "gate"
               PROVE  responses[Key(1, r)] # NoDecision /\ (body = "revision" => responses[Key(1, r)] = "revise")
    OBVIOUS
  <2>1. r \in 1..(s - 1) /\ r # q
    BY <1>4, SizeAssumption
  <2>2. Key(1, r) # Key(1, q) /\ Key(1, r) \in Keys /\ Key(1, q) \in Keys
    BY <1>4, <2>1, LoopBody, SizeAssumption DEF Children
  <2>3. responses'[Key(1, r)] = responses[Key(1, r)]
    BY <1>9, <2>2, Monotone
  <2> QED BY <1>8, <2>1, <2>3
<1>11. Passed(1, [at |-> q])
  BY <1>10 DEF Passed
<1> QED BY <1>4, <1>7, <1>9, <1>11 DEF PathAnswered

\* When an iteration returns, every gate on its way has been answered.
LEMMA PathFound ==
    ASSUME TypeOK, Positions, Clearance, kind = "loop", NEW c \in Children,
           Body(c)[frame[c].at] = "gate" => responses[GateKey(c)] # NoDecision,
           \/ frame[c].at = Len(Body(c))
           \/ /\ body = "revision" /\ responses[GateKey(c)] # "revise"
              /\ Body(c)[frame[c].at] = "gate"
    PROVE  PathAnswered
<1>1. /\ Body(c) = Body(1) /\ \A s : Key(c, s) = Key(1, s)
      /\ GateKey(c) = Key(1, frame[c].at)
      /\ frame[c].at \in Nat /\ frame[c].at <= Len(Body(1)) /\ Len(Body(1)) \in Nat
  BY LoopBody, Standing, Bodied DEF GateKey, Positions, TypeOK
<1>2. SUFFICES ASSUME NEW s \in 1..Len(Body(1)), Body(1)[s] = "gate", Passed(1, [at |-> s])
               PROVE  responses[Key(1, s)] # NoDecision
  BY DEF PathAnswered
<1>3. s \in 1..(frame[c].at - 1) \/ s = frame[c].at \/ frame[c].at \in 1..(s - 1)
  BY <1>1, Standing, SizeAssumption
<1>4. CASE s \in 1..(frame[c].at - 1)
  BY <1>1, <1>2, <1>4 DEF Clearance, Passed
<1>5. CASE s = frame[c].at
  BY <1>1, <1>2, <1>5
<1>6. CASE frame[c].at \in 1..(s - 1)
  <2>1. frame[c].at # Len(Body(c))
    BY <1>1, <1>6
  <2>2. body = "revision" => responses[Key(1, frame[c].at)] = "revise"
    BY <1>1, <1>2, <1>6, <2>1 DEF Passed
  <2> QED BY <1>1, <2>1, <2>2
<1> QED BY <1>3, <1>4, <1>5, <1>6

\* Asking is kept in every step.
LEMMA AskingStep == TypeOK /\ Positions /\ Stage /\ Clearance /\ Asking /\ [Next]_vars => Asking'
<1> SUFFICES ASSUME TypeOK, Positions, Stage, Clearance, Asking, [Next]_vars, kind = "loop"
             PROVE  Asking'
  BY Monotone DEF Asking, config
<1>l. kind \in OneByOne /\ kind # "parallel"
  BY DEF OneByOne
<1>k. UNCHANGED config
  BY Monotone
<1>i. ASSUME Later' => Later,
             \A c \in Children : task'[c] = "suspended" => c = 1,
             Suspended(ckpt)' => ckpt'.child = 1
      PROVE  Asking'
  BY <1>i, PathStays DEF Asking
<1>f. ASSUME Later' => PathAnswered,
             \A c \in Children : task'[c] = "suspended" => c = 1,
             Suspended(ckpt)' => ckpt'.child = 1
      PROVE  Asking'
  BY <1>f, PathStays DEF Asking
<1>r. ASSUME UNCHANGED ckpt, cur' = 0, pc' = "idle", task' = NoTask PROVE Asking'
  BY <1>r, <1>i DEF Later, NoTask, Asking, Suspended
<1>s. ASSUME UNCHANGED <<ckpt, cur>>, pc' \notin {"cursor", "journal"} \/ UNCHANGED pc,
             \A c \in Children : task'[c] \in {"returned", "suspended"} => task'[c] = task[c]
      PROVE  Asking'
  BY <1>s, <1>i DEF Later, Asking, Suspended
<1>t. task \in [Children -> {"none", "queued", "run", "returned", "refused", "raised", "suspended"}]
      /\ \A c \in Children : NoTask[c] = "none"
  BY DEF TypeOK, NoTask
<1>e. ASSUME NEW c, NEW f, NEW restored, EnterChild(c, f, restored), UNCHANGED ckpt,
             c > 1 => (ckpt # NoCkpt /\ ckpt.child > 1)
      PROVE  Asking'
  BY <1>e, <1>i, <1>t DEF EnterChild, Later, Asking, Suspended
<1> USE DEF config, stores, children, collected, local, host, history, bounds
<1>1. CASE Start
  <2>1. UNCHANGED ckpt /\ EnterChild(1, Frame(Original), Nothing)
    BY <1>1, <1>l DEF Start
  <2> QED BY <2>1, <1>e
<1>2. CASE ResumeInterrupted
  <2>1. UNCHANGED ckpt /\ ckpt # NoCkpt
        /\ EnterChild(ckpt.child, Frame(InputAfter(ckpt.child, ckpt.results)), Nothing)
    BY <1>2 DEF ResumeInterrupted
  <2> QED BY <2>1, <1>e
<1>3. ASSUME NEW d \in Decisions, Resume(d) PROVE Asking'
  <2>1. UNCHANGED ckpt /\ ckpt # NoCkpt /\ EnterChild(ckpt.child, ResumedFrame, Nothing)
    BY <1>3 DEF Resume
  <2> QED BY <2>1, <1>e
<1>4. ASSUME NEW c \in Children, StartItem(c) PROVE Asking'
  BY <1>4, <1>s, <1>t DEF StartItem
<1>5. ASSUME NEW c \in Children, WorkStep(c) PROVE Asking'
  <2>1. UNCHANGED <<ckpt, pc, cur>>
    BY <1>5 DEF WorkStep, Proceed, Leave
  <2>2. CASE UNCHANGED task
    BY <2>1, <2>2, <1>s
  <2>3. CASE task' # task
    <3>1. PathAnswered
      <4>1. frame[c].at = Len(Body(c)) /\ Body(c)[frame[c].at] # "gate"
        BY <1>5, <2>3 DEF WorkStep, Proceed, Leave, At
      <4> QED BY <4>1, PathFound
    <3>2. task' = [task EXCEPT ![c] = "returned"]
      BY <1>5, <2>3 DEF WorkStep, Proceed, Leave
    <3> QED BY <2>1, <3>1, <3>2, <1>f, <1>t DEF Asking, Suspended
  <2> QED BY <2>2, <2>3
<1>6. ASSUME NEW c \in Children, GateAnswered(c) PROVE Asking'
  <2>1. UNCHANGED <<ckpt, pc, cur>>
    BY <1>6 DEF GateAnswered, Proceed, Leave
  <2>2. CASE UNCHANGED task
    BY <2>1, <2>2, <1>s
  <2>3. CASE task' # task
    <3>1. PathAnswered
      <4>1. /\ responses[GateKey(c)] # NoDecision /\ Body(c)[frame[c].at] = "gate"
            /\ \/ frame[c].at = Len(Body(c))
               \/ body = "revision" /\ responses[GateKey(c)] # "revise"
        BY <1>6, <2>3 DEF GateAnswered, Proceed, Leave, At, NoDecision
      <4> QED BY <4>1, PathFound
    <3>2. task' = [task EXCEPT ![c] = "returned"]
      BY <1>6, <2>3 DEF GateAnswered, Proceed, Leave
    <3> QED BY <2>1, <3>1, <3>2, <1>f, <1>t DEF Asking, Suspended
  <2> QED BY <2>2, <2>3
<1>7. ASSUME NEW c \in Children, GateAsks(c) PROVE Asking'
  <2>1. UNCHANGED <<ckpt, pc, cur>> /\ task' = [task EXCEPT ![c] = "suspended"]
        /\ task[c] = "run" /\ Body(c)[frame[c].at] = "gate" /\ responses[GateKey(c)] = NoDecision
    BY <1>7 DEF GateAsks, At
  <2>2. c = 1
    <3>1. c = cur /\ cur \in Nat /\ c \in Nat /\ c >= 1
      BY <2>1, <1>l, Running, SizeAssumption DEF TypeOK, Children, Stage
    <3>2. SUFFICES ASSUME PathAnswered PROVE FALSE
      BY <3>1 DEF Asking, Later
    <3>3. /\ Body(c) = Body(1) /\ GateKey(c) = Key(1, frame[c].at) /\ \A s : Key(c, s) = Key(1, s)
          /\ frame[c].at \in 1..Len(Body(1))
      BY LoopBody, Standing, Bodied, SizeAssumption DEF GateKey, Positions, TypeOK
    <3>4. Passed(1, [at |-> frame[c].at])
      BY <3>3 DEF Clearance, Passed
    <3> QED BY <2>1, <3>2, <3>3, <3>4 DEF PathAnswered
  <2> QED BY <2>1, <2>2, <1>i, <1>t DEF Later, Asking, Suspended
<1>8. CASE StopCancelled
  BY <1>8, <1>r DEF StopCancelled, Return
<1>9. CASE RunChild
  BY <1>9, <1>s, <1>t DEF RunChild
<1>10. CASE EndOfChildren
  BY <1>10, <1>r DEF EndOfChildren, Return, Report
<1>11. CASE StopAfterChild
  BY <1>11, <1>r DEF StopAfterChild, Return, Report, ChildReturned
<1>12. CASE GoOn
  <2>1. UNCHANGED ckpt /\ task' = NoTask /\ Later
    BY <1>12 DEF GoOn, ChildReturned, Later, Stage
  <2> QED BY <2>1, <1>i, <1>t DEF Asking, Suspended
<1>13. CASE ChildSuspended
  BY <1>13, <1>s, <1>t DEF ChildSuspended
<1>14. CASE ChildRaised
  BY <1>14, <1>r DEF ChildRaised, Return
<1>15. CASE Collect
  BY <1>15, <1>l DEF Collect, Fans, Stage
<1>16. CASE FanCompletes
  BY <1>16, <1>l DEF FanCompletes, AllCollected, Fans, Return, Report, Stage
<1>17. CASE FanSuspends
  BY <1>17, <1>l DEF FanSuspends, AllCollected, Fans, Stage
<1>18. ASSUME NEW c \in Children, TakeResult(c) PROVE Asking'
  BY <1>18, <1>l DEF TakeResult, Take, Fans, Stage
<1>19. ASSUME NEW c \in Children, TakeRefused(c) PROVE Asking'
  BY <1>19, <1>l DEF TakeRefused, Take, Fans, Stage
<1>20. ASSUME NEW c \in Children, TakeSuspension(c) PROVE Asking'
  BY <1>20, <1>l DEF TakeSuspension, Take, Fans, Stage
<1>21. ASSUME NEW c \in Children, TakeFailure(c) PROVE Asking'
  BY <1>21, <1>l DEF TakeFailure, Take, Fans, Stage
<1>22. ASSUME NEW c \in Children, AbortAll(c) PROVE Asking'
  BY <1>22, <1>l DEF AbortAll, Return, Fans, Stage
<1>23. ASSUME NEW c \in Children, BranchReturned(c) PROVE Asking'
  BY <1>23, <1>l DEF BranchReturned, Return, Report, Stage
<1>24. ASSUME NEW c \in Children, BranchSuspendedAgain(c) PROVE Asking'
  BY <1>24, <1>l DEF BranchSuspendedAgain, Stage
<1>25. ASSUME NEW c \in Children, BranchRaised(c) PROVE Asking'
  BY <1>25, <1>l DEF BranchRaised, Return, Stage
<1>26. CASE SaveCursor
  <2>1. UNCHANGED task /\ Later /\ ~Suspended(ckpt')
    BY <1>26 DEF SaveCursor, Cursor, Suspended, Later
  <2> QED BY <2>1, <1>i DEF Asking, Suspended
<1>27. CASE AppendStep
  <2>1. UNCHANGED <<ckpt, task>> /\ Later
    BY <1>27 DEF AppendStep, Later
  <2> QED BY <2>1, <1>i DEF Asking, Suspended
<1>28. CASE Surface
  <2>1. UNCHANGED <<task, cur>> /\ ckpt'.child = cur /\ cur = 1 /\ pc' = "handle"
    BY <1>28, <1>l DEF Surface, Stage, Asking
  <2> QED BY <2>1, <1>i DEF Later, Asking, Suspended
<1>29. CASE BuildSuspendedRun
  BY <1>29, <1>r DEF BuildSuspendedRun
<1>30. ASSUME NEW c \in Children, StepRaises(c) PROVE Asking'
  BY <1>30, <1>s, <1>t DEF StepRaises, Interrupt
<1>31. CASE Crash
  BY <1>31, <1>r DEF Crash, Interrupt, Return
<1>32. CASE Cancel
  BY <1>32, <1>s, <1>t DEF Cancel, Interrupt
<1>33. ASSUME NEW k \in Keys, NEW d \in Decisions, Respond(k, d) PROVE Asking'
  BY <1>33, <1>s, <1>t DEF Respond
<1>34. CASE UNCHANGED vars
  BY <1>34, <1>s, <1>t DEF vars
<1> QED
  BY <1>1, <1>2, <1>3, <1>4, <1>5, <1>6, <1>7, <1>8, <1>9, <1>10, <1>11, <1>12, <1>13,
     <1>14, <1>15, <1>16, <1>17, <1>18, <1>19, <1>20, <1>21, <1>22, <1>23, <1>24, <1>25,
     <1>26, <1>27, <1>28, <1>29, <1>30, <1>31, <1>32, <1>33, <1>34
     DEF Next, Drive, Child, Parent, Work, Trouble, Human

----------------------------------------------------------------------------
(* The chain of inputs.                                                    *)

\* Only a loop or a Parallel has a cursor to resume from.
LEMMA Cursors ==
    ASSUME TypeOK, Positions, ckpt # NoCkpt, ~Suspended(ckpt)
    PROVE  kind \in {"loop", "parallel"} /\ (kind \notin OneByOne => kind = "parallel")
BY DEF Positions, OneByOne

\* What is saved of the chain is kept in every step.
LEMMA ChainSavedStep ==
    TypeOK /\ Positions /\ Stage /\ Asking /\ ChainSaved /\ ChainHeld /\ [Next]_vars => ChainSaved'
<1> SUFFICES ASSUME TypeOK, Positions, Stage, Asking, ChainSaved, ChainHeld, [Next]_vars,
                    kind \in {"loop", "pipeline"}
             PROVE  ChainSaved'
  BY Monotone DEF ChainSaved, config
<1>l. kind \in OneByOne /\ kind # "parallel" /\ kind # "conditional"
  BY DEF OneByOne
<1>k. UNCHANGED config
  BY Monotone
<1>c. Children \subseteq Nat /\ cur \in Nat /\ (ckpt # NoCkpt => ckpt.child \in Nat)
  BY CkptTyped, SizeAssumption DEF Children, TypeOK
<1>i. ASSUME UNCHANGED ckpt,
             \A c \in Children : yield'[c] = yield[c] \/ (ckpt # NoCkpt => c >= ckpt.child),
             ckpt # NoCkpt /\ pc' \in {"top", "wait", "surface", "cursor"} => cur' >= ckpt.child,
             ckpt # NoCkpt /\ pc' = "journal" => cur' + 1 = ckpt.child
      PROVE  ChainSaved'
  <2>1. ASSUME NEW c \in Children, ckpt # NoCkpt, c < ckpt.child PROVE yield'[c] = yield[c]
    <3>1. ~(c >= ckpt.child)
      BY <1>c, <2>1
    <3> QED BY <1>i, <2>1, <3>1
  <2> SUFFICES ASSUME ckpt # NoCkpt PROVE ChainSaved'
    BY <1>i DEF ChainSaved
  <2>2. \A c \in Children : c + 1 = ckpt.child => c < ckpt.child
    BY <1>c
  <2> QED BY <1>i, <1>k, <2>1, <2>2 DEF ChainSaved, config, Suspended
<1>u. ASSUME UNCHANGED <<ckpt, yield, pc, cur>> PROVE ChainSaved'
  BY <1>u, <1>i DEF ChainSaved
<1>r. ASSUME UNCHANGED <<ckpt, yield>>, pc' = "idle" PROVE ChainSaved'
  BY <1>r, <1>i
<1>v. ASSUME ckpt # NoCkpt, pc = "wait" PROVE cur >= ckpt.child
  BY <1>v DEF ChainSaved
<1> USE DEF config, stores, children, collected, local, host, history, bounds
<1>1. CASE Start
  BY <1>1 DEF Start, ChainSaved
<1>2. CASE ResumeInterrupted
  <2>1. UNCHANGED <<ckpt, yield>> /\ pc' = "top" /\ cur' = ckpt.child
    BY <1>2, <1>l, Cursors DEF ResumeInterrupted, Begin, EnterChild
  <2> QED BY <1>c, <2>1, <1>i
<1>3. ASSUME NEW d \in Decisions, Resume(d) PROVE ChainSaved'
  <2>1. UNCHANGED <<ckpt, yield>> /\ pc' = "top" /\ cur' = ckpt.child
    BY <1>3, <1>l DEF Resume, Begin, EnterChild
  <2> QED BY <1>c, <2>1, <1>i
<1>4. ASSUME NEW c \in Children, StartItem(c) PROVE ChainSaved'
  BY <1>4, <1>u DEF StartItem
<1>5. ASSUME NEW c \in Children, WorkStep(c) PROVE ChainSaved'
  BY <1>5, <1>u DEF WorkStep, Proceed, Leave
<1>6. ASSUME NEW c \in Children, GateAnswered(c) PROVE ChainSaved'
  BY <1>6, <1>u DEF GateAnswered, Proceed, Leave
<1>7. ASSUME NEW c \in Children, GateAsks(c) PROVE ChainSaved'
  BY <1>7, <1>u DEF GateAsks
<1>8. CASE StopCancelled
  BY <1>8, <1>r DEF StopCancelled, Return
<1>9. CASE RunChild
  <2>1. UNCHANGED <<ckpt, yield, cur>> /\ pc = "top" /\ pc' = "wait"
    BY <1>9 DEF RunChild
  <2> QED BY <2>1, <1>i DEF ChainSaved
<1>10. CASE EndOfChildren
  BY <1>10, <1>r DEF EndOfChildren, Return, Report
<1>11. CASE StopAfterChild
  <2>1. UNCHANGED ckpt /\ pc = "wait" /\ pc' = "idle"
        /\ yield' = [yield EXCEPT ![cur] = frame[cur].val]
    BY <1>11 DEF StopAfterChild, Return, ChildReturned
  <2>2. \A c \in Children : c = cur \/ yield'[c] = yield[c]
    BY <2>1 DEF TypeOK, Results
  <2> QED BY <2>1, <2>2, <1>v, <1>i
<1>12. CASE GoOn
  <2>1. UNCHANGED ckpt /\ pc = "wait" /\ pc' \in {"top", "cursor"} /\ cur' \in {cur, cur + 1}
        /\ yield' = [yield EXCEPT ![cur] = frame[cur].val]
    BY <1>12 DEF GoOn, EnterNext, ChildReturned
  <2>2. \A c \in Children : c = cur \/ yield'[c] = yield[c]
    BY <2>1 DEF TypeOK, Results
  <2>3. ckpt # NoCkpt => cur' >= ckpt.child
    BY <1>c, <2>1, <1>v
  <2> QED BY <2>1, <2>2, <2>3, <1>v, <1>i
<1>13. CASE ChildSuspended
  <2>1. UNCHANGED <<ckpt, yield, cur>> /\ pc = "wait" /\ pc' = "surface"
    BY <1>13 DEF ChildSuspended
  <2> QED BY <2>1, <1>v, <1>i
<1>14. CASE ChildRaised
  BY <1>14, <1>r DEF ChildRaised, Return
<1>15. CASE Collect
  BY <1>15, <1>l DEF Collect, Fans, Stage
<1>16. CASE FanCompletes
  BY <1>16, <1>l DEF FanCompletes, AllCollected, Fans, Return, Report, Stage
<1>17. CASE FanSuspends
  BY <1>17, <1>l DEF FanSuspends, AllCollected, Fans, Stage
<1>18. ASSUME NEW c \in Children, TakeResult(c) PROVE ChainSaved'
  BY <1>18, <1>l DEF TakeResult, Take, Fans, Stage
<1>19. ASSUME NEW c \in Children, TakeRefused(c) PROVE ChainSaved'
  BY <1>19, <1>l DEF TakeRefused, Take, Fans, Stage
<1>20. ASSUME NEW c \in Children, TakeSuspension(c) PROVE ChainSaved'
  BY <1>20, <1>l DEF TakeSuspension, Take, Fans, Stage
<1>21. ASSUME NEW c \in Children, TakeFailure(c) PROVE ChainSaved'
  BY <1>21, <1>l DEF TakeFailure, Take, Fans, Stage
<1>22. ASSUME NEW c \in Children, AbortAll(c) PROVE ChainSaved'
  BY <1>22, <1>l DEF AbortAll, Return, Fans, Stage
<1>23. ASSUME NEW c \in Children, BranchReturned(c) PROVE ChainSaved'
  BY <1>23, <1>l DEF BranchReturned, Return, Report, Stage
<1>24. ASSUME NEW c \in Children, BranchSuspendedAgain(c) PROVE ChainSaved'
  BY <1>24, <1>l DEF BranchSuspendedAgain, Stage
<1>25. ASSUME NEW c \in Children, BranchRaised(c) PROVE ChainSaved'
  BY <1>25, <1>l DEF BranchRaised, Return, Stage
<1>26. CASE SaveCursor
  <2>1. /\ pc = "cursor" /\ pc' = "journal" /\ kind = "loop" /\ cur \in Children
        /\ UNCHANGED <<cur, yield>> /\ results[cur] # NoValue /\ results[cur] = yield[cur]
        /\ ckpt' = Cursor(cur + 1, [Nothing EXCEPT ![cur] = results[cur]])
    BY <1>26, <1>l DEF SaveCursor, Stage, Positions, ChainHeld
  <2>2. /\ ckpt'.child = cur + 1 /\ ~Suspended(ckpt')
        /\ ckpt'.results = [Nothing EXCEPT ![cur] = results[cur]]
    BY <2>1 DEF Cursor, Suspended
  <2>3. \A c \in Children : /\ c = cur => ckpt'.results[c] = results[cur]
                            /\ c # cur => ckpt'.results[c] = NoValue
    BY <2>1, <2>2 DEF Nothing
  <2>4. \A c \in Children : /\ c >= cur + 1 => c # cur
                            /\ c + 1 = cur + 1 => c = cur
    BY <1>c
  <2> QED BY <1>k, <2>1, <2>2, <2>3, <2>4 DEF ChainSaved, config, Suspended
<1>27. CASE AppendStep
  <2>1. UNCHANGED <<ckpt, yield>> /\ pc = "journal" /\ pc' = "top" /\ cur' = cur + 1
    BY <1>27, <1>l DEF AppendStep, EnterNext, Stage, Positions
  <2>2. ckpt # NoCkpt => cur' >= ckpt.child
    BY <1>c, <2>1 DEF ChainSaved
  <2> QED BY <2>1, <2>2, <1>i
<1>28. CASE Surface
  <2>1. /\ pc = "surface" /\ pc' = "handle" /\ UNCHANGED yield
        /\ susp = cur /\ cur \in Children /\ task[cur] = "suspended"
        /\ ckpt'.child = cur /\ ckpt'.results = SavedResults
        /\ body = "workflow" => ckpt'.frame = frame[cur]
    BY <1>28, <1>l DEF Surface, Stage
  <2>2. ASSUME NEW c \in Children, c >= cur PROVE SavedResults[c] = NoValue
    <3>1. results[c] = NoValue
      BY <2>1, <2>2 DEF ChainHeld
    <3> QED BY <1>l, <3>1 DEF SavedResults
  <2>3. CASE kind = "loop"
    <3>1. cur = 1
      BY <2>1, <2>3 DEF Asking
    <3>2. \A c \in Children : c + 1 # cur /\ ~(c < cur)
      BY <3>1, SizeAssumption DEF Children
    <3> QED BY <1>k, <2>1, <2>2, <2>3, <3>2 DEF ChainSaved, config
  <2>4. CASE kind = "pipeline"
    <3>1. SavedResults = results
      BY <2>4 DEF SavedResults
    <3>2. \A c \in Children : c + 1 = cur => c < cur
      BY <1>c
    <3>3. \A c \in Children : c < cur => results[c] # NoValue /\ results[c] = yield[c]
      BY <2>1, <2>4 DEF ChainHeld
    <3>4. \A c \in Children : c + 1 = cur => frame[cur].inp = yield[c]
      BY <2>1 DEF ChainHeld
    <3> QED BY <1>k, <2>1, <2>2, <2>4, <3>1, <3>2, <3>3, <3>4 DEF ChainSaved, config
  <2> QED BY <2>3, <2>4
<1>29. CASE BuildSuspendedRun
  BY <1>29, <1>r DEF BuildSuspendedRun
<1>30. ASSUME NEW c \in Children, StepRaises(c) PROVE ChainSaved'
  BY <1>30, <1>u DEF StepRaises, Interrupt
<1>31. CASE Crash
  BY <1>31, <1>r DEF Crash, Interrupt, Return
<1>32. CASE Cancel
  BY <1>32, <1>u DEF Cancel, Interrupt
<1>33. ASSUME NEW k \in Keys, NEW d \in Decisions, Respond(k, d) PROVE ChainSaved'
  BY <1>33, <1>u DEF Respond
<1>34. CASE UNCHANGED vars
  BY <1>34, <1>u DEF vars
<1> QED
  BY <1>1, <1>2, <1>3, <1>4, <1>5, <1>6, <1>7, <1>8, <1>9, <1>10, <1>11, <1>12, <1>13,
     <1>14, <1>15, <1>16, <1>17, <1>18, <1>19, <1>20, <1>21, <1>22, <1>23, <1>24, <1>25,
     <1>26, <1>27, <1>28, <1>29, <1>30, <1>31, <1>32, <1>33, <1>34
     DEF Next, Drive, Child, Parent, Work, Trouble, Human

\* What the parent holds of the chain is kept in every step.
LEMMA ChainHeldStep ==
    TypeOK /\ Positions /\ Stage /\ Asking /\ ChainSaved /\ ChainHeld /\ [Next]_vars => ChainHeld'
<1> SUFFICES ASSUME TypeOK, Positions, Stage, Asking, ChainSaved, ChainHeld, [Next]_vars,
                    kind \in {"loop", "pipeline"}
             PROVE  ChainHeld'
  BY Monotone DEF ChainHeld, config
<1>l. kind \in OneByOne /\ kind # "parallel" /\ kind # "conditional"
  BY DEF OneByOne
<1>k. UNCHANGED config
  BY Monotone
<1>c. Children \subseteq Nat /\ cur \in Nat /\ (ckpt # NoCkpt => ckpt.child \in Nat)
  BY CkptTyped, SizeAssumption DEF Children, TypeOK
<1>r. ASSUME pc' = "idle" PROVE ChainHeld'
  BY <1>r DEF ChainHeld
<1>i. ASSUME UNCHANGED <<cur, results, yield>>, \A c \in Children : frame'[c].inp = frame[c].inp,
             \/ UNCHANGED pc
             \/ pc \in {"top", "wait", "surface"} /\ pc' \in {"top", "wait", "surface", "handle"}
             \/ pc = "cursor" /\ pc' = "journal"
      PROVE  ChainHeld'
  BY <1>i, <1>k DEF ChainHeld, config
<1> USE DEF config, stores, children, collected, local, host, history, bounds
<1>1. CASE Start
  <2>1. cur' = 1 /\ results' = Nothing /\ pc' = "top"
    BY <1>1, <1>l DEF Start, EnterChild
  <2>2. \A c \in Children : c + 1 # 1 /\ ~(c < 1) /\ Nothing[c] = NoValue
    BY SizeAssumption DEF Children, Nothing
  <2> QED BY <2>1, <2>2 DEF ChainHeld
<1>2. CASE ResumeInterrupted
  <2>1. /\ ckpt # NoCkpt /\ ~Suspended(ckpt) /\ kind = "loop" /\ UNCHANGED yield
        /\ EnterChild(ckpt.child, Frame(InputAfter(ckpt.child, ckpt.results)), Nothing)
    BY <1>2, <1>l, Cursors DEF ResumeInterrupted, Begin
  <2>2. /\ cur' = ckpt.child /\ pc' = "top" /\ results' = Nothing
        /\ ckpt.child \in Children => frame'[ckpt.child].inp = InputAfter(ckpt.child, ckpt.results)
    BY <2>1 DEF EnterChild, Frame
  <2>3. ASSUME NEW c \in Children, c + 1 = ckpt.child PROVE InputAfter(ckpt.child, ckpt.results) = yield[c]
    <3>1. ckpt.results[c] # NoValue /\ ckpt.results[c] = yield[c]
      BY <2>1, <2>3 DEF ChainSaved
    <3>2. ckpt.child > 1 /\ ckpt.child - 1 = c
      BY <2>3, SizeAssumption DEF Children
    <3> QED BY <3>1, <3>2 DEF InputAfter
  <2>4. \A c \in Children : Nothing[c] = NoValue
    BY DEF Nothing
  <2> QED BY <1>k, <2>1, <2>2, <2>3, <2>4 DEF ChainHeld, config
<1>3. ASSUME NEW d \in Decisions, Resume(d) PROVE ChainHeld'
  <2>1. /\ ckpt # NoCkpt /\ Suspended(ckpt) /\ UNCHANGED yield /\ ckpt.child \in Children
        /\ EnterChild(ckpt.child, ResumedFrame, IF kind = "loop" THEN Nothing ELSE ckpt.results)
    BY <1>3, <1>l DEF Resume, Begin, Positions
  <2>2. /\ cur' = ckpt.child /\ pc' = "top" /\ frame'[ckpt.child] = ResumedFrame
        /\ results' = IF kind = "loop" THEN Nothing ELSE ckpt.results
    BY <2>1 DEF EnterChild
  <2>3. \A c \in Children : c >= ckpt.child => results'[c] = NoValue
    BY <2>1, <2>2 DEF ChainSaved, Nothing
  <2>4. ASSUME NEW c \in Children, c + 1 = ckpt.child PROVE ResumedFrame.inp = yield[c]
    <3>1. ckpt.results[c] # NoValue /\ ckpt.results[c] = yield[c]
      BY <2>1, <2>4 DEF ChainSaved
    <3>2. ckpt.child > 1 /\ ckpt.child - 1 = c
      BY <2>4, SizeAssumption DEF Children
    <3>3. Frame(InputAfter(ckpt.child, ckpt.results)).inp = yield[c]
      BY <3>1, <3>2 DEF InputAfter, Frame
    <3>4. body = "workflow" => ckpt.frame.inp = yield[c]
      BY <2>1, <2>4 DEF ChainSaved
    <3> QED BY <3>3, <3>4 DEF ResumedFrame
  <2>5. ASSUME NEW c \in Children, c < ckpt.child, kind = "pipeline"
        PROVE  results'[c] # NoValue /\ results'[c] = yield[c]
    BY <2>1, <2>2, <2>5 DEF ChainSaved
  <2> QED BY <1>k, <2>1, <2>2, <2>3, <2>4, <2>5 DEF ChainHeld, config
<1>4. ASSUME NEW c \in Children, StartItem(c) PROVE ChainHeld'
  BY <1>4, <1>i DEF StartItem
<1>5. ASSUME NEW c \in Children, WorkStep(c) PROVE ChainHeld'
  <2>1. \E v \in Value : Proceed(c, v) \/ Leave(c, v)
    BY <1>5, WorkMoves
  <2>2. \A d \in Children : frame'[d].inp = frame[d].inp
    BY <2>1, Moves
  <2> QED BY <1>5, <2>2, <1>i DEF WorkStep, Proceed, Leave
<1>6. ASSUME NEW c \in Children, GateAnswered(c) PROVE ChainHeld'
  <2>1. \E v \in Value : Proceed(c, v) \/ Leave(c, v)
    BY <1>6, GateMoves
  <2>2. \A d \in Children : frame'[d].inp = frame[d].inp
    BY <2>1, Moves
  <2> QED BY <1>6, <2>2, <1>i DEF GateAnswered, Proceed, Leave
<1>7. ASSUME NEW c \in Children, GateAsks(c) PROVE ChainHeld'
  BY <1>7, <1>i DEF GateAsks
<1>8. CASE StopCancelled
  BY <1>8, <1>r DEF StopCancelled, Return
<1>9. CASE RunChild
  BY <1>9, <1>i DEF RunChild
<1>10. CASE EndOfChildren
  BY <1>10, <1>r DEF EndOfChildren, Return, Report
<1>11. CASE StopAfterChild
  BY <1>11, <1>r DEF StopAfterChild, Return, Report, ChildReturned
<1>12. CASE GoOn
  <2>1. /\ pc = "wait" /\ cur \in Children /\ cur + 1 # cur
        /\ results' = [results EXCEPT ![cur] = frame[cur].val]
        /\ yield' = [yield EXCEPT ![cur] = frame[cur].val]
        /\ \/ pc' = "cursor" /\ cur' = cur
           \/ pc' = "top" /\ EnterNext(cur, frame[cur].val)
    BY <1>12, <1>c, <1>l DEF GoOn, ChildReturned, Stage, EnterNext
  <2>2. frame[cur].val # NoValue
    BY <2>1, Standing, Constants
  <2>3. \A c \in Children : IF c = cur THEN results'[c] = frame[c].val /\ yield'[c] = frame[c].val
                            ELSE results'[c] = results[c] /\ yield'[c] = yield[c]
    BY <2>1 DEF TypeOK, Results
  <2>4. \A c \in Children : c > cur => results'[c] = NoValue
    BY <1>c, <2>1, <2>3 DEF ChainHeld
  <2>5. CASE pc' = "cursor" /\ cur' = cur
    BY <2>1, <2>3, <2>4, <2>5 DEF ChainHeld
  <2>6. CASE pc' = "top" /\ EnterNext(cur, frame[cur].val)
    <3>1. cur' = cur + 1 /\ (cur + 1 \in Children => frame'[cur + 1].inp = frame[cur].val)
      BY <2>6 DEF EnterNext, Frame
    <3>2. \A c \in Children : /\ c >= cur + 1 => c > cur
                              /\ c + 1 = cur + 1 => c = cur
                              /\ c < cur + 1 => c = cur \/ c < cur
      BY <1>c
    <3>3. \A c \in Children : c < cur + 1 /\ kind = "pipeline" => results'[c] # NoValue /\ results'[c] = yield'[c]
      BY <2>1, <2>2, <2>3, <3>2 DEF ChainHeld
    <3>4. \A c \in Children : c + 1 \in Children /\ c + 1 = cur + 1 => frame'[c + 1].inp = yield'[c]
      BY <2>3, <3>1, <3>2
    <3> QED BY <1>k, <2>4, <2>6, <3>1, <3>2, <3>3, <3>4 DEF ChainHeld, config
  <2> QED BY <2>1, <2>5, <2>6
<1>13. CASE ChildSuspended
  BY <1>13, <1>i DEF ChildSuspended
<1>14. CASE ChildRaised
  BY <1>14, <1>r DEF ChildRaised, Return
<1>15. CASE Collect
  BY <1>15, <1>l DEF Collect, Fans, Stage
<1>16. CASE FanCompletes
  BY <1>16, <1>l DEF FanCompletes, AllCollected, Fans, Return, Report, Stage
<1>17. CASE FanSuspends
  BY <1>17, <1>l DEF FanSuspends, AllCollected, Fans, Stage
<1>18. ASSUME NEW c \in Children, TakeResult(c) PROVE ChainHeld'
  BY <1>18, <1>l DEF TakeResult, Take, Fans, Stage
<1>19. ASSUME NEW c \in Children, TakeRefused(c) PROVE ChainHeld'
  BY <1>19, <1>l DEF TakeRefused, Take, Fans, Stage
<1>20. ASSUME NEW c \in Children, TakeSuspension(c) PROVE ChainHeld'
  BY <1>20, <1>l DEF TakeSuspension, Take, Fans, Stage
<1>21. ASSUME NEW c \in Children, TakeFailure(c) PROVE ChainHeld'
  BY <1>21, <1>l DEF TakeFailure, Take, Fans, Stage
<1>22. ASSUME NEW c \in Children, AbortAll(c) PROVE ChainHeld'
  BY <1>22, <1>l DEF AbortAll, Return, Fans, Stage
<1>23. ASSUME NEW c \in Children, BranchReturned(c) PROVE ChainHeld'
  BY <1>23, <1>l DEF BranchReturned, Return, Report, Stage
<1>24. ASSUME NEW c \in Children, BranchSuspendedAgain(c) PROVE ChainHeld'
  BY <1>24, <1>l DEF BranchSuspendedAgain, Stage
<1>25. ASSUME NEW c \in Children, BranchRaised(c) PROVE ChainHeld'
  BY <1>25, <1>l DEF BranchRaised, Return, Stage
<1>26. CASE SaveCursor
  BY <1>26, <1>i DEF SaveCursor
<1>27. CASE AppendStep
  <2>1. /\ pc = "journal" /\ kind = "loop" /\ cur \in Children /\ UNCHANGED <<results, yield>>
        /\ EnterNext(cur, results[cur]) /\ results[cur] = yield[cur]
    BY <1>27, <1>l DEF AppendStep, Stage, Positions, ChainHeld
  <2>2. pc' = "top" /\ cur' = cur + 1 /\ (cur + 1 \in Children => frame'[cur + 1].inp = results[cur])
    BY <2>1 DEF EnterNext, Frame
  <2>3. \A c \in Children : /\ c >= cur + 1 => c > cur
                            /\ c + 1 = cur + 1 => c = cur
    BY <1>c
  <2>4. \A c \in Children : c > cur => results[c] = NoValue
    BY <2>1 DEF ChainHeld
  <2> QED BY <1>k, <2>1, <2>2, <2>3, <2>4 DEF ChainHeld, config
<1>28. CASE Surface
  BY <1>28, <1>i DEF Surface
<1>29. CASE BuildSuspendedRun
  BY <1>29, <1>r DEF BuildSuspendedRun
<1>30. ASSUME NEW c \in Children, StepRaises(c) PROVE ChainHeld'
  BY <1>30, <1>i DEF StepRaises, Interrupt
<1>31. CASE Crash
  BY <1>31, <1>r DEF Crash, Interrupt, Return
<1>32. CASE Cancel
  BY <1>32, <1>i DEF Cancel, Interrupt
<1>33. ASSUME NEW k \in Keys, NEW d \in Decisions, Respond(k, d) PROVE ChainHeld'
  BY <1>33, <1>i DEF Respond
<1>34. CASE UNCHANGED vars
  BY <1>34, <1>i DEF vars
<1> QED
  BY <1>1, <1>2, <1>3, <1>4, <1>5, <1>6, <1>7, <1>8, <1>9, <1>10, <1>11, <1>12, <1>13,
     <1>14, <1>15, <1>16, <1>17, <1>18, <1>19, <1>20, <1>21, <1>22, <1>23, <1>24, <1>25,
     <1>26, <1>27, <1>28, <1>29, <1>30, <1>31, <1>32, <1>33, <1>34
     DEF Next, Drive, Child, Parent, Work, Trouble, Human

\* The chain holds before anything has run.
LEMMA InitChain == Init => Asking /\ ChainSaved /\ ChainHeld
<1> SUFFICES ASSUME Init PROVE Asking /\ ChainSaved /\ ChainHeld
  OBVIOUS
<1>1. \A c \in Children : task[c] = "none"
  BY DEF Init, NoTask
<1> QED BY <1>1 DEF Init, Asking, Later, ChainSaved, ChainHeld, Suspended, NoCkpt

\* For any loop or pipeline and bounds: every child works on what the one before it
\* last returned.
THEOREM InputsCorrect == Spec => []InputsChain
<1>1. TypeOK /\ Positions /\ Stage /\ ChainHeld => InputsChain
  <2> SUFFICES ASSUME TypeOK, Positions, Stage, ChainHeld, kind \in {"loop", "pipeline"},
                      NEW c \in Children \ {1}, task[c] # "none"
               PROVE  frame[c].inp = yield[c - 1]
    BY DEF InputsChain
  <2>1. kind \in OneByOne /\ kind # "parallel"
    BY DEF OneByOne
  <2>2. pc \in {"wait", "surface", "handle"} /\ cur = c
    BY <2>1 DEF Stage, Positions, NoTask, TypeOK
  <2>3. c - 1 \in Children /\ (c - 1) + 1 = c
    BY SizeAssumption DEF Children
  <2> QED BY <2>2, <2>3 DEF ChainHeld
<1> QED
  BY <1>1, InitTypeOK, TypeStep, PositionsStep, StageStep, InitClearance, ClearanceStep,
     InitChain, AskingStep, ChainSavedStep, ChainHeldStep, PTL DEF Spec

----------------------------------------------------------------------------
(* Frames restored, and what a fan-out knows and saves of its children.    *)

\* A child resumed inside its saved frame never falls behind it.
LEMMA RestoredStep ==
    TypeOK /\ Positions /\ Stage /\ ChainSaved /\ Restored /\ [Next]_vars => Restored'
<1> SUFFICES ASSUME TypeOK, Positions, Stage, ChainSaved, Restored, [Next]_vars PROVE Restored'
  OBVIOUS
<1>k. UNCHANGED config
  BY Monotone
<1>t. /\ task \in [Children -> {"none", "queued", "run", "returned", "refused", "raised", "suspended"}]
      /\ \A c \in Children : NoTask[c] = "none"
  BY DEF TypeOK, NoTask
<1>c. /\ Suspended(ckpt) => ckpt # NoCkpt /\ ckpt.child \in Children
      /\ Suspended(ckpt) /\ body = "workflow" => ckpt.frame.at \in Nat
      /\ Children \subseteq Nat /\ \A c \in Children : frame[c].at \in Nat
  BY Standing, SizeAssumption DEF Positions, Suspended, NoCkpt, Children, FrameType
<1>n. \A c \in Children : frame'[c].at \in Nat
  <2>1. TypeOK'
    BY TypeStep
  <2>2. frame' \in [Children -> FrameType]
    BY <2>1 DEF TypeOK
  <2> QED BY <2>2, SizeAssumption DEF FrameType
<1>i. ASSUME UNCHANGED ckpt, \A c \in Children : frame'[c].at >= frame[c].at,
             pc' # "top" \/ UNCHANGED <<pc, cur>>,
             \A c \in Children : task'[c] # "none" => task[c] # "none" \/ (pc = "top" /\ c = cur)
      PROVE  Restored'
  <2> SUFFICES ASSUME Suspended(ckpt), body = "workflow",
                      task'[ckpt.child] # "none" \/ (pc' = "top" /\ cur' = ckpt.child)
               PROVE  frame'[ckpt.child].at >= ckpt.frame.at
    BY <1>i, <1>k DEF Restored, config, Suspended
  <2>1. frame[ckpt.child].at >= ckpt.frame.at
    BY <1>i, <1>c DEF Restored
  <2>2. frame'[ckpt.child].at >= frame[ckpt.child].at
    BY <1>i, <1>c
  <2>3. ckpt.frame.at \in Nat /\ frame[ckpt.child].at \in Nat /\ frame'[ckpt.child].at \in Nat
    BY <1>c, <1>n
  <2>4. \A x, y, z \in Nat : x >= y /\ z >= x => z >= y
    OBVIOUS
  <2> QED BY <2>1, <2>2, <2>3, <2>4
<1>u. ASSUME UNCHANGED <<ckpt, frame>>, pc' # "top" \/ UNCHANGED <<pc, cur>>,
             \A c \in Children : task'[c] # "none" => task[c] # "none" \/ (pc = "top" /\ c = cur)
      PROVE  Restored'
  <2>1. \A c \in Children : frame'[c].at >= frame[c].at
    BY <1>c, <1>u
  <2> QED BY <1>u, <2>1, <1>i
<1>r. ASSUME UNCHANGED ckpt, pc' = "idle", task' = NoTask PROVE Restored'
  BY <1>r, <1>c, <1>t DEF Restored, Suspended
<1>s. ASSUME ~Suspended(ckpt') PROVE Restored'
  BY <1>s DEF Restored, Suspended
<1> USE DEF config, stores, children, collected, local, host, history, bounds
<1>1. CASE Start
  <2>1. ~Suspended(ckpt')
    BY <1>1 DEF Start, Suspended, NoCkpt
  <2> QED BY <2>1, <1>s
<1>2. CASE ResumeInterrupted
  <2>1. ~Suspended(ckpt')
    BY <1>2 DEF ResumeInterrupted, Suspended
  <2> QED BY <2>1, <1>s
<1>3. ASSUME NEW d \in Decisions, Resume(d) PROVE Restored'
  <2>1. UNCHANGED ckpt /\ Suspended(ckpt) /\ ckpt.child \in Children
    BY <1>3 DEF Resume, Positions
  <2>2. frame'[ckpt.child] = ResumedFrame
    BY <1>3, <2>1, ResumedBy
  <2>3. body = "workflow" => ResumedFrame = ckpt.frame
    BY DEF ResumedFrame
  <2>4. body = "workflow" => frame'[ckpt.child].at >= ckpt.frame.at
    BY <1>c, <2>1, <2>2, <2>3
  <2> QED BY <1>k, <2>1, <2>4 DEF Restored, config
<1>4. ASSUME NEW c \in Children, StartItem(c) PROVE Restored'
  BY <1>4, <1>u, <1>t DEF StartItem, At
<1>5. ASSUME NEW c \in Children, WorkStep(c) PROVE Restored'
  <2>1. \E v \in Value : Proceed(c, v) \/ Leave(c, v)
    BY <1>5, WorkMoves
  <2>2. \A d \in Children : frame'[d].at >= frame[d].at
    <3>1. frame'[c].at >= frame[c].at
      BY <1>c, <2>1, Moves
    <3>2. \A d \in Children : d # c => frame'[d].at = frame[d].at
      BY <2>1, Moves
    <3>3. \A d \in Children : d # c => frame'[d].at >= frame[d].at
      BY <1>c, <3>2
    <3> QED BY <3>1, <3>3
  <2>3. task[c] = "run" /\ \A d \in Children \ {c} : task'[d] = task[d]
    BY <1>5, <2>1, Moves, WorkMoves
  <2>4. UNCHANGED <<ckpt, pc, cur>>
    BY <1>5 DEF WorkStep, Proceed, Leave
  <2> QED BY <2>2, <2>3, <2>4, <1>i
<1>6. ASSUME NEW c \in Children, GateAnswered(c) PROVE Restored'
  <2>1. \E v \in Value : Proceed(c, v) \/ Leave(c, v)
    BY <1>6, GateMoves
  <2>2. \A d \in Children : frame'[d].at >= frame[d].at
    <3>1. frame'[c].at >= frame[c].at
      BY <1>c, <2>1, Moves
    <3>2. \A d \in Children : d # c => frame'[d].at = frame[d].at
      BY <2>1, Moves
    <3>3. \A d \in Children : d # c => frame'[d].at >= frame[d].at
      BY <1>c, <3>2
    <3> QED BY <3>1, <3>3
  <2>3. task[c] = "run" /\ \A d \in Children \ {c} : task'[d] = task[d]
    BY <1>6, <2>1, Moves, GateMoves
  <2>4. UNCHANGED <<ckpt, pc, cur>>
    BY <1>6 DEF GateAnswered, Proceed, Leave
  <2> QED BY <2>2, <2>3, <2>4, <1>i
<1>7. ASSUME NEW c \in Children, GateAsks(c) PROVE Restored'
  BY <1>7, <1>u, <1>t DEF GateAsks, At
<1>8. CASE StopCancelled
  BY <1>8, <1>r DEF StopCancelled, Return
<1>9. CASE RunChild
  BY <1>9, <1>u, <1>t DEF RunChild
<1>10. CASE EndOfChildren
  BY <1>10, <1>r DEF EndOfChildren, Return, Report
<1>11. CASE StopAfterChild
  BY <1>11, <1>r DEF StopAfterChild, Return, Report, ChildReturned
<1>12. CASE GoOn
  <2>1. UNCHANGED ckpt /\ pc = "wait" /\ task' = NoTask /\ kind \in {"loop", "pipeline"}
        /\ cur \in Children /\ (pc' = "top" => cur' = cur + 1)
    BY <1>12 DEF GoOn, ChildReturned, EnterNext, Stage
  <2>2. Suspended(ckpt) => cur + 1 # ckpt.child
    BY <1>c, <2>1 DEF ChainSaved
  <2> QED BY <1>c, <1>t, <2>1, <2>2 DEF Restored, Suspended
<1>13. CASE ChildSuspended
  BY <1>13, <1>u, <1>t DEF ChildSuspended
<1>14. CASE ChildRaised
  BY <1>14, <1>r DEF ChildRaised, Return
<1>15. CASE Collect
  BY <1>15, <1>u, <1>t DEF Collect, Fans
<1>16. CASE FanCompletes
  BY <1>16, <1>r DEF FanCompletes, AllCollected, Fans, Return, Report
<1>17. CASE FanSuspends
  BY <1>17, <1>u, <1>t DEF FanSuspends, AllCollected, Fans
<1>18. ASSUME NEW c \in Children, TakeResult(c) PROVE Restored'
  BY <1>18, <1>u, <1>t DEF TakeResult, Take, Fans
<1>19. ASSUME NEW c \in Children, TakeRefused(c) PROVE Restored'
  BY <1>19, <1>u, <1>t DEF TakeRefused, Take, Fans
<1>20. ASSUME NEW c \in Children, TakeSuspension(c) PROVE Restored'
  BY <1>20, <1>u, <1>t DEF TakeSuspension, Take, Fans
<1>21. ASSUME NEW c \in Children, TakeFailure(c) PROVE Restored'
  BY <1>21, <1>u, <1>t DEF TakeFailure, Take, Fans
<1>22. ASSUME NEW c \in Children, AbortAll(c) PROVE Restored'
  BY <1>22, <1>r DEF AbortAll, Return, Fans
<1>23. ASSUME NEW c \in Children, BranchReturned(c) PROVE Restored'
  BY <1>23, <1>r DEF BranchReturned, Return, Report
<1>24. ASSUME NEW c \in Children, BranchSuspendedAgain(c) PROVE Restored'
  BY <1>24, <1>u, <1>t DEF BranchSuspendedAgain
<1>25. ASSUME NEW c \in Children, BranchRaised(c) PROVE Restored'
  BY <1>25, <1>r DEF BranchRaised, Return
<1>26. CASE SaveCursor
  <2>1. ~Suspended(ckpt')
    BY <1>26 DEF SaveCursor, Suspended, Cursor
  <2> QED BY <2>1, <1>s
<1>27. CASE AppendStep
  <2>1. ~Suspended(ckpt')
    BY <1>27 DEF AppendStep, Stage, Suspended
  <2> QED BY <2>1, <1>s
<1>28. CASE Surface
  <2>1. /\ UNCHANGED frame /\ susp \in Children
        /\ ckpt'.child = susp /\ (body = "workflow" => ckpt'.frame = frame[susp])
    BY <1>28 DEF Surface, Stage, TypeOK, Children
  <2> QED BY <1>c, <1>k, <2>1 DEF Restored, config
<1>29. CASE BuildSuspendedRun
  BY <1>29, <1>r DEF BuildSuspendedRun
<1>30. ASSUME NEW c \in Children, StepRaises(c) PROVE Restored'
  BY <1>30, <1>u, <1>t DEF StepRaises, Interrupt, At
<1>31. CASE Crash
  BY <1>31, <1>r DEF Crash, Interrupt, Return
<1>32. CASE Cancel
  BY <1>32, <1>u, <1>t DEF Cancel, Interrupt
<1>33. ASSUME NEW k \in Keys, NEW d \in Decisions, Respond(k, d) PROVE Restored'
  BY <1>33, <1>u, <1>t DEF Respond
<1>34. CASE UNCHANGED vars
  BY <1>34, <1>u, <1>t DEF vars
<1> QED
  BY <1>1, <1>2, <1>3, <1>4, <1>5, <1>6, <1>7, <1>8, <1>9, <1>10, <1>11, <1>12, <1>13,
     <1>14, <1>15, <1>16, <1>17, <1>18, <1>19, <1>20, <1>21, <1>22, <1>23, <1>24, <1>25,
     <1>26, <1>27, <1>28, <1>29, <1>30, <1>31, <1>32, <1>33, <1>34
     DEF Next, Drive, Child, Parent, Work, Trouble, Human

\* Whoever asked has asked for good.
LEMMA AskedStays ==
    ASSUME TypeOK, [Next]_vars
    PROVE  \A c \in Children : Asked(c) => Asked(c)'
<1> SUFFICES ASSUME NEW c \in Children, NEW g \in Holds("gate"), g[1] = c, requests[Key(c, g[2])] # NoValue
             PROVE  Asked(c)'
  BY DEF Asked
<1>1. UNCHANGED config /\ Holds("gate")' = Holds("gate")
  BY Monotone DEF Holds, Body, config
<1>2. Key(c, g[2]) \in Keys /\ Key(c, g[2])' = Key(c, g[2])
  BY <1>1, SizeAssumption DEF Holds, Places, Key, Keys, Children, config
<1>3. requests'[Key(c, g[2])'] # NoValue
  BY <1>2, Monotone
<1> QED BY <1>1, <1>3 DEF Asked

\* A gate that asks has asked.
LEMMA GateAsked ==
    ASSUME TypeOK, Positions, [Next]_vars, NEW c \in Children, GateAsks(c)
    PROVE  Asked(c)'
<1>1. UNCHANGED config /\ Holds("gate")' = Holds("gate")
  BY Monotone DEF Holds, Body, config
<1>2. /\ GateKey(c) \in Keys /\ frame[c].val # NoValue /\ frame[c].at \in 1..L
      /\ frame[c].at <= Len(Body(c)) /\ Body(c)[frame[c].at] = "gate"
  BY Standing, Constants DEF Positions, GateAsks, At
<1>3. requests'[GateKey(c)] # NoValue
  BY <1>2 DEF GateAsks, TypeOK
<1>4. Here(c) \in Holds("gate") /\ Here(c)[1] = c /\ Here(c)[2] = frame[c].at
  BY <1>2, Standing DEF Holds, Here
<1>5. Key(c, frame[c].at)' = Key(c, frame'[c].at) /\ frame'[c].at = frame[c].at /\ GateKey(c) = Key(c, frame[c].at)
  BY <1>1 DEF Key, config, GateAsks, GateKey
<1>6. requests'[Key(c, frame[c].at)'] # NoValue
  BY <1>1, <1>3, <1>5 DEF Key, config
<1>7. ASSUME NEW g, g \in Holds("gate"), g[1] = c, requests'[Key(c, g[2])'] # NoValue PROVE Asked(c)'
  BY <1>1, <1>7 DEF Asked
<1>8. ASSUME NEW s, s = frame[c].at PROVE requests'[Key(c, s)'] # NoValue
  BY <1>1, <1>3, <1>8 DEF Key, config, GateKey
<1> QED BY <1>4, <1>7, <1>8

\* What a fan-out knows of its children is kept in every step.
LEMMA FanStep ==
    TypeOK /\ Positions /\ Stage /\ Fan /\ Saved /\ [Next]_vars => Fan'
<1> SUFFICES ASSUME TypeOK, Positions, Stage, Fan, Saved, [Next]_vars, kind \notin OneByOne PROVE Fan'
  BY Monotone DEF Fan, config
<1>l. kind \in {"parallel", "map_reduce"} /\ kind \notin {"loop", "pipeline", "conditional"}
  BY KindAssumption DEF OneByOne, TypeOK
<1>k. UNCHANGED config
  BY Monotone
<1>a. \A c \in Children : Asked(c) => Asked(c)'
  BY AskedStays
<1>t. /\ task \in [Children -> {"none", "queued", "run", "returned", "refused", "raised", "suspended"}]
      /\ results \in Results
  BY DEF TypeOK
<1>n. Nothing \in Results /\ In(Nothing) = {} /\ \A c \in Children : Nothing[c] = NoValue
  BY Constants DEF Nothing
<1>z. susp \in Children \cup {0} /\ 0 \notin Children
  BY SizeAssumption DEF TypeOK, Children
<1>r. ASSUME pc' \notin {"wait", "cursor", "journal", "surface"} PROVE Fan'
  BY <1>r DEF Fan
<1>i. ASSUME UNCHANGED <<ckpt, journal, results, prior, failed, susp>>,
             pc \in {"wait", "cursor", "journal", "surface"},
             \A c \in Children : task'[c] = "none" <=> task[c] = "none",
             \A c \in Children : task'[c] \in {"queued", "refused"} => task[c] \in {"queued", "refused"},
             \A c \in Children : task'[c] = "refused" => token' = "set",
             \A c \in Children : task'[c] = "suspended" => Asked(c)',
             token = "set" => token' = "set"
      PROVE  Fan'
  BY <1>i, <1>k, <1>a, <1>z DEF Fan, config, Suspended, In
<1>u. ASSUME UNCHANGED <<ckpt, journal, results, prior, failed, susp, task>>, token = "set" => token' = "set",
             pc' \in {"wait", "cursor", "journal", "surface"} => pc \in {"wait", "cursor", "journal", "surface"}
      PROVE  Fan'
  BY <1>u, <1>r, <1>i, <1>a DEF Fan
<1>m. ASSUME NEW c \in Children, task[c] \in {"queued", "run"}, NEW st \in {"run", "returned", "raised"},
             task' = [task EXCEPT ![c] = st],
             UNCHANGED <<ckpt, journal, results, prior, failed, susp, token, pc>>
      PROVE  Fan'
  <2>1. CASE pc \in {"wait", "cursor", "journal", "surface"}
    BY <1>m, <1>t, <1>i, <1>a, <2>1 DEF Fan
  <2> QED BY <2>1, <1>m, <1>r
<1> USE DEF config, stores, children, collected, local, host, history, bounds
<1>1. CASE Start
  <2>1. /\ ckpt = NoCkpt /\ UNCHANGED <<ckpt, journal>> /\ failed' = {} /\ susp' = 0
        /\ LaunchTasks(Children, "wait", Frames, Nothing, Nothing)
    BY <1>1 DEF Start, Begin
  <2>2. /\ results' = Nothing /\ prior' = Nothing /\ ~Suspended(ckpt')
        /\ \A c \in Children : task'[c] = IF kind = "map_reduce" THEN "queued" ELSE "run"
    BY <2>1 DEF LaunchTasks, Suspended, NoCkpt
  <2>3. kind = "parallel" => In(journal') = {}
    BY <2>1, <1>n DEF Saved
  <2> QED BY <1>k, <1>l, <1>n, <2>1, <2>2, <2>3 DEF Fan, config, In
<1>2. CASE ResumeInterrupted
  <2>1. /\ ckpt # NoCkpt /\ ~Suspended(ckpt) /\ UNCHANGED <<ckpt, journal>> /\ failed' = {} /\ susp' = 0
        /\ kind = "parallel"
        /\ LaunchTasks(Children \ In(journal), "wait", Frames, journal, Nothing)
    BY <1>2, <1>l, Cursors DEF ResumeInterrupted, Begin
  <2>2. /\ results' = journal /\ prior' = Nothing
        /\ \A c \in Children : task'[c] = IF c \in In(journal) THEN "none" ELSE "run"
    BY <2>1 DEF LaunchTasks
  <2> QED BY <1>k, <1>n, <2>1, <2>2 DEF Fan, config, In, Suspended
<1>3. ASSUME NEW d \in Decisions, Resume(d) PROVE Fan'
  <2>1. CASE kind = "parallel"
    BY <1>3, <2>1, <1>r DEF Resume, LaunchTasks
  <2>2. CASE kind = "map_reduce"
    <3>1. /\ Suspended(ckpt) /\ UNCHANGED ckpt /\ failed' = {} /\ susp' = 0
          /\ LaunchTasks(Children \ In(ckpt.results), "wait",
                         [Frames EXCEPT ![ckpt.child] = ResumedFrame], Nothing, ckpt.results)
      BY <1>3, <2>2 DEF Resume, Begin
    <3>2. /\ results' = Nothing /\ prior' = ckpt.results
          /\ \A c \in Children : task'[c] = IF c \in In(ckpt.results) THEN "none" ELSE "queued"
      BY <2>2, <3>1 DEF LaunchTasks
    <3> QED BY <1>k, <1>n, <2>2, <3>1, <3>2 DEF Fan, config, In, Suspended
  <2> QED BY <1>l, <2>1, <2>2
<1>4. ASSUME NEW c \in Children, StartItem(c) PROVE Fan'
  <2>1. task[c] = "queued" /\ UNCHANGED <<ckpt, journal, results, prior, failed, susp, token, pc>>
        /\ task' = [task EXCEPT ![c] = IF token = "set" THEN "refused" ELSE "run"]
    BY <1>4 DEF StartItem
  <2>2. CASE token # "set"
    BY <2>1, <2>2, <1>m
  <2>3. CASE token = "set" /\ pc \in {"wait", "cursor", "journal", "surface"}
    BY <2>1, <2>3, <1>t, <1>i, <1>a DEF Fan
  <2> QED BY <2>1, <2>2, <2>3, <1>r
<1>5. ASSUME NEW c \in Children, WorkStep(c) PROVE Fan'
  <2>1. /\ task[c] = "run" /\ UNCHANGED <<ckpt, journal, results, prior, failed, susp, token, pc>>
        /\ task' = [task EXCEPT ![c] = "returned"] \/ UNCHANGED task
    BY <1>5 DEF WorkStep, At, Proceed, Leave
  <2> QED BY <2>1, <1>m, <1>u
<1>6. ASSUME NEW c \in Children, GateAnswered(c) PROVE Fan'
  <2>1. /\ task[c] = "run" /\ UNCHANGED <<ckpt, journal, results, prior, failed, susp, token, pc>>
        /\ task' = [task EXCEPT ![c] = "returned"] \/ UNCHANGED task
    BY <1>6 DEF GateAnswered, At, Proceed, Leave
  <2> QED BY <2>1, <1>m, <1>u
<1>7. ASSUME NEW c \in Children, GateAsks(c) PROVE Fan'
  <2>1. task[c] = "run" /\ UNCHANGED <<ckpt, journal, results, prior, failed, susp, token, pc>>
        /\ task' = [task EXCEPT ![c] = "suspended"]
    BY <1>7 DEF GateAsks, At
  <2>2. Asked(c)'
    BY <1>7, GateAsked
  <2>3. CASE pc \in {"wait", "cursor", "journal", "surface"}
    BY <2>1, <2>2, <2>3, <1>t, <1>i, <1>a DEF Fan
  <2> QED BY <2>1, <2>3, <1>r
<1>8. CASE StopCancelled
  BY <1>8, <1>r DEF StopCancelled, Return
<1>9. CASE RunChild
  BY <1>9, <1>l DEF RunChild, Stage
<1>10. CASE EndOfChildren
  BY <1>10, <1>r DEF EndOfChildren, Return, Report
<1>11. CASE StopAfterChild
  BY <1>11, <1>r DEF StopAfterChild, Return, Report, ChildReturned
<1>12. CASE GoOn
  BY <1>12, <1>l DEF GoOn, ChildReturned, EnterNext, Stage
<1>13. CASE ChildSuspended
  BY <1>13 DEF ChildSuspended, OneByOne
<1>14. CASE ChildRaised
  BY <1>14, <1>r DEF ChildRaised, Return
<1>15. CASE Collect
  BY <1>15, <1>u DEF Collect, Fans
<1>16. CASE FanCompletes
  BY <1>16, <1>r DEF FanCompletes, AllCollected, Fans, Return, Report
<1>17. CASE FanSuspends
  BY <1>17, <1>u DEF FanSuspends, AllCollected, Fans
<1>18. ASSUME NEW c \in Children, TakeResult(c) PROVE Fan'
  <2>0. /\ pc = "wait" /\ task[c] = "returned" /\ task' = [task EXCEPT ![c] = "none"]
        /\ UNCHANGED <<config, ckpt, journal, prior, token>>
    BY <1>18 DEF TakeResult, Take, Fans
  <2>1. \A d \in Children : IF d = c THEN task'[d] = "none" ELSE task'[d] = task[d]
    BY <2>0, <1>t
  <2>2. c \notin In(results) \cup In(prior) \cup failed
    BY <2>0 DEF Fan
  <2>3. results' = [results EXCEPT ![c] = frame[c].val] /\ UNCHANGED <<failed, susp>>
    BY <1>18 DEF TakeResult
  <2>4. In(results') = In(results) \cup {c} /\ \A d \in Children \ {c} : results'[d] = results[d]
    BY <2>3, <1>t, Standing, Constants DEF In, Results
  <2>5. susp # c \/ susp = 0
    BY <2>0 DEF Fan
  <2> QED BY <1>a, <1>k, <1>z, <2>0, <2>1, <2>2, <2>3, <2>4, <2>5 DEF Fan, config, Suspended, In
<1>19. ASSUME NEW c \in Children, TakeRefused(c) PROVE Fan'
  <2>0. /\ pc = "wait" /\ task[c] = "refused" /\ task' = [task EXCEPT ![c] = "none"]
        /\ UNCHANGED <<config, ckpt, journal, prior, token>>
    BY <1>19 DEF TakeRefused, Take, Fans
  <2>1. \A d \in Children : IF d = c THEN task'[d] = "none" ELSE task'[d] = task[d]
    BY <2>0, <1>t
  <2>2. c \notin In(results) \cup In(prior) \cup failed
    BY <2>0 DEF Fan
  <2>3. failed' = failed \cup {c} /\ UNCHANGED <<results, susp, pc>>
    BY <1>19 DEF TakeRefused
  <2> QED BY <1>a, <1>k, <1>z, <2>0, <2>1, <2>2, <2>3 DEF Fan, config, Suspended, In
<1>20. ASSUME NEW c \in Children, TakeSuspension(c) PROVE Fan'
  <2>0. /\ pc = "wait" /\ task[c] = "suspended" /\ task' = [task EXCEPT ![c] = "none"]
        /\ UNCHANGED <<config, ckpt, journal, prior, token>>
    BY <1>20 DEF TakeSuspension, Take, Fans
  <2>1. \A d \in Children : IF d = c THEN task'[d] = "none" ELSE task'[d] = task[d]
    BY <2>0, <1>t
  <2>2. c \notin In(results) \cup In(prior) \cup failed
    BY <2>0 DEF Fan
  <2>3. susp' = (IF susp = 0 THEN c ELSE susp) /\ UNCHANGED <<results, failed, pc>>
    BY <1>20 DEF TakeSuspension
  <2>4. Asked(c)' /\ results[c] = NoValue
    BY <1>a, <2>0, <2>2 DEF Fan, In
  <2> QED BY <1>a, <1>k, <1>z, <2>0, <2>1, <2>2, <2>3, <2>4 DEF Fan, config, Suspended, In
<1>21. ASSUME NEW c \in Children, TakeFailure(c) PROVE Fan'
  <2>0. /\ pc = "wait" /\ task[c] = "raised" /\ task' = [task EXCEPT ![c] = "none"]
        /\ UNCHANGED <<config, ckpt, journal, prior, token>>
    BY <1>21 DEF TakeFailure, Take, Fans
  <2>1. \A d \in Children : IF d = c THEN task'[d] = "none" ELSE task'[d] = task[d]
    BY <2>0, <1>t
  <2>2. c \notin In(results) \cup In(prior) \cup failed
    BY <2>0 DEF Fan
  <2>3. failed' = failed \cup {c} /\ UNCHANGED <<results, susp, pc>> /\ policy = "best_effort"
    BY <1>21 DEF TakeFailure
  <2> QED BY <1>a, <1>k, <1>z, <2>0, <2>1, <2>2, <2>3 DEF Fan, config, Suspended, In
<1>22. ASSUME NEW c \in Children, AbortAll(c) PROVE Fan'
  BY <1>22, <1>r DEF AbortAll, Return, Fans
<1>23. ASSUME NEW c \in Children, BranchReturned(c) PROVE Fan'
  BY <1>23, <1>r DEF BranchReturned, Return, Report
<1>24. ASSUME NEW c \in Children, BranchSuspendedAgain(c) PROVE Fan'
  BY <1>24, <1>r DEF BranchSuspendedAgain
<1>25. ASSUME NEW c \in Children, BranchRaised(c) PROVE Fan'
  BY <1>25, <1>r DEF BranchRaised, Return
<1>26. CASE SaveCursor
  <2>1. /\ kind = "parallel" /\ pc = "cursor" /\ ckpt'.kind = "step"
        /\ UNCHANGED <<journal, results, prior, failed, susp, task, token>>
    BY <1>26, <1>l DEF SaveCursor, Stage, Positions, Cursor
  <2> QED BY <1>a, <1>k, <1>z, <2>1 DEF Fan, config, Suspended, In
<1>27. CASE AppendStep
  <2>1. /\ kind = "parallel" /\ pc = "journal" /\ cur \in Children /\ results[cur] # NoValue
        /\ journal' = [journal EXCEPT ![cur] = results[cur]]
        /\ UNCHANGED <<ckpt, results, prior, failed, susp, task, token>>
    BY <1>27, <1>l DEF AppendStep, Stage, Positions
  <2>2. In(journal') \subseteq In(results)
    BY <2>1 DEF Fan, In, TypeOK, Results
  <2> QED BY <1>a, <1>k, <1>z, <2>1, <2>2 DEF Fan, config, Suspended, In
<1>28. CASE Surface
  BY <1>28, <1>r DEF Surface
<1>29. CASE BuildSuspendedRun
  BY <1>29, <1>r DEF BuildSuspendedRun
<1>30. ASSUME NEW c \in Children, StepRaises(c) PROVE Fan'
  <2>1. task[c] = "run" /\ UNCHANGED <<ckpt, journal, results, prior, failed, susp, token, pc>>
        /\ task' = [task EXCEPT ![c] = "raised"]
    BY <1>30 DEF StepRaises, At
  <2> QED BY <2>1, <1>m
<1>31. CASE Crash
  BY <1>31, <1>r DEF Crash, Interrupt, Return
<1>32. CASE Cancel
  BY <1>32, <1>u DEF Cancel, Interrupt
<1>33. ASSUME NEW k \in Keys, NEW d \in Decisions, Respond(k, d) PROVE Fan'
  BY <1>33, <1>u DEF Respond
<1>34. CASE UNCHANGED vars
  BY <1>34, <1>u DEF vars
<1> QED
  BY <1>1, <1>2, <1>3, <1>4, <1>5, <1>6, <1>7, <1>8, <1>9, <1>10, <1>11, <1>12, <1>13,
     <1>14, <1>15, <1>16, <1>17, <1>18, <1>19, <1>20, <1>21, <1>22, <1>23, <1>24, <1>25,
     <1>26, <1>27, <1>28, <1>29, <1>30, <1>31, <1>32, <1>33, <1>34
     DEF Next, Drive, Child, Parent, Work, Trouble, Human

\* What a fan-out saves of its children is kept in every step.
LEMMA SavedStep ==
    TypeOK /\ Positions /\ Stage /\ Fan /\ Saved /\ [Next]_vars => Saved'
<1> SUFFICES ASSUME TypeOK, Positions, Stage, Fan, Saved, [Next]_vars PROVE Saved'
  OBVIOUS
<1>k. UNCHANGED config
  BY Monotone
<1>a. \A c \in Children : Asked(c) => Asked(c)'
  BY AskedStays
<1>l. "conditional" \in OneByOne /\ "loop" \in OneByOne /\ "parallel" \notin OneByOne
  BY DEF OneByOne
<1>i. ASSUME UNCHANGED <<ckpt, journal>> PROVE Saved'
  BY <1>i, <1>k, <1>a DEF Saved, config, Suspended, In
<1> USE DEF config, stores, children, collected, local, host, history, bounds
<1>1. CASE Start
  BY <1>1, <1>i DEF Start, Begin, EnterChild, LaunchTasks
<1>2. CASE ResumeInterrupted
  BY <1>2, <1>i DEF ResumeInterrupted, Begin, EnterChild, LaunchTasks
<1>3. ASSUME NEW d \in Decisions, Resume(d) PROVE Saved'
  BY <1>3, <1>i DEF Resume, Begin, EnterChild, LaunchTasks
<1>4. ASSUME NEW c \in Children, StartItem(c) PROVE Saved'
  BY <1>4, <1>i DEF StartItem
<1>5. ASSUME NEW c \in Children, WorkStep(c) PROVE Saved'
  BY <1>5, <1>i DEF WorkStep, Proceed, Leave
<1>6. ASSUME NEW c \in Children, GateAnswered(c) PROVE Saved'
  BY <1>6, <1>i DEF GateAnswered, Proceed, Leave
<1>7. ASSUME NEW c \in Children, GateAsks(c) PROVE Saved'
  BY <1>7, <1>i DEF GateAsks
<1>8. CASE StopCancelled
  BY <1>8, <1>i DEF StopCancelled, Return
<1>9. CASE RunChild
  BY <1>9, <1>i DEF RunChild
<1>10. CASE EndOfChildren
  BY <1>10, <1>i DEF EndOfChildren, Return, Report
<1>11. CASE StopAfterChild
  BY <1>11, <1>i DEF StopAfterChild, Return, Report, ChildReturned
<1>12. CASE GoOn
  BY <1>12, <1>i DEF GoOn, ChildReturned, EnterNext
<1>13. CASE ChildSuspended
  BY <1>13, <1>i DEF ChildSuspended
<1>14. CASE ChildRaised
  BY <1>14, <1>i DEF ChildRaised, Return
<1>15. CASE Collect
  BY <1>15, <1>i DEF Collect, Fans
<1>16. CASE FanCompletes
  BY <1>16, <1>i DEF FanCompletes, AllCollected, Fans, Return, Report
<1>17. CASE FanSuspends
  BY <1>17, <1>i DEF FanSuspends, AllCollected, Fans
<1>18. ASSUME NEW c \in Children, TakeResult(c) PROVE Saved'
  BY <1>18, <1>i DEF TakeResult, Take, Fans
<1>19. ASSUME NEW c \in Children, TakeRefused(c) PROVE Saved'
  BY <1>19, <1>i DEF TakeRefused, Take, Fans
<1>20. ASSUME NEW c \in Children, TakeSuspension(c) PROVE Saved'
  BY <1>20, <1>i DEF TakeSuspension, Take, Fans
<1>21. ASSUME NEW c \in Children, TakeFailure(c) PROVE Saved'
  BY <1>21, <1>i DEF TakeFailure, Take, Fans
<1>22. ASSUME NEW c \in Children, AbortAll(c) PROVE Saved'
  BY <1>22, <1>i DEF AbortAll, Return, Fans
<1>23. ASSUME NEW c \in Children, BranchReturned(c) PROVE Saved'
  BY <1>23, <1>i DEF BranchReturned, Return, Report
<1>24. ASSUME NEW c \in Children, BranchSuspendedAgain(c) PROVE Saved'
  BY <1>24, <1>i DEF BranchSuspendedAgain
<1>25. ASSUME NEW c \in Children, BranchRaised(c) PROVE Saved'
  BY <1>25, <1>i DEF BranchRaised, Return
<1>26. CASE SaveCursor
  <2>1. /\ kind \in {"loop", "parallel"} /\ ckpt'.kind = "step" /\ ckpt' # NoCkpt
        /\ kind = "parallel" => ckpt'.results = Nothing
    BY <1>26 DEF SaveCursor, Stage, Positions, Cursor, NoCkpt
  <2> QED BY <1>k, <1>l, <2>1, KindAssumption DEF Saved, config, Suspended, OneByOne, TypeOK
<1>27. CASE AppendStep
  <2>1. UNCHANGED ckpt /\ ckpt # NoCkpt /\ ~Suspended(ckpt)
    BY <1>27 DEF AppendStep, Stage
  <2> QED BY <1>k, <2>1 DEF Saved, config, Suspended
<1>28. CASE Surface
  <2>1. /\ pc = "surface" /\ susp # 0 /\ susp \in Children /\ UNCHANGED journal
        /\ ckpt'.kind = "suspend" /\ ckpt'.child = susp /\ ckpt'.results = SavedResults
        /\ \A c \in Children : task[c] \in {"none", "suspended"}
    BY <1>28 DEF Surface, Stage, TypeOK, Children
  <2>2. ckpt' # NoCkpt /\ Suspended(ckpt')
    BY <2>1 DEF NoCkpt, Suspended
  <2>3. CASE kind \in OneByOne
    <3>1. kind = "conditional" => SavedResults = Nothing
      BY DEF SavedResults
    <3> QED BY <1>k, <2>1, <2>3, <3>1 DEF Saved, config
  <2>4. CASE kind \notin OneByOne
    <3>1. SavedResults = results /\ results[susp] = NoValue /\ kind # "conditional"
      BY <2>1, <2>4, <1>l DEF SavedResults, Fan
    <3>2. ASSUME kind = "parallel" PROVE journal[susp] = NoValue
      BY <2>1, <2>4, <3>1, <3>2 DEF Fan, In
    <3>3. ASSUME kind = "parallel", policy # "best_effort", NEW c \in Children \ In(results) PROVE Asked(c)'
      <4>1. failed = {} /\ In(prior) = {}
        BY <2>1, <2>4, <3>3, Constants DEF Fan
      <4>2. Asked(c)
        BY <2>1, <2>4, <3>3, <4>1 DEF Fan
      <4> QED BY <4>2, <1>a
    <3> QED BY <1>k, <2>1, <2>2, <2>4, <3>1, <3>2, <3>3 DEF Saved, config, In
  <2> QED BY <2>3, <2>4
<1>29. CASE BuildSuspendedRun
  BY <1>29, <1>i DEF BuildSuspendedRun
<1>30. ASSUME NEW c \in Children, StepRaises(c) PROVE Saved'
  BY <1>30, <1>i DEF StepRaises, Interrupt
<1>31. CASE Crash
  BY <1>31, <1>i DEF Crash, Interrupt, Return
<1>32. CASE Cancel
  BY <1>32, <1>i DEF Cancel, Interrupt
<1>33. ASSUME NEW k \in Keys, NEW d \in Decisions, Respond(k, d) PROVE Saved'
  BY <1>33, <1>i DEF Respond
<1>34. CASE UNCHANGED vars
  BY <1>34, <1>i DEF vars
<1> QED
  BY <1>1, <1>2, <1>3, <1>4, <1>5, <1>6, <1>7, <1>8, <1>9, <1>10, <1>11, <1>12, <1>13,
     <1>14, <1>15, <1>16, <1>17, <1>18, <1>19, <1>20, <1>21, <1>22, <1>23, <1>24, <1>25,
     <1>26, <1>27, <1>28, <1>29, <1>30, <1>31, <1>32, <1>33, <1>34
     DEF Next, Drive, Child, Parent, Work, Trouble, Human

----------------------------------------------------------------------------
(* Recorded work runs once.                                                *)

\* The whole invariant.
IInv ==
    /\ TypeOK /\ Positions /\ Stage /\ Clearance
    /\ Asking /\ ChainSaved /\ ChainHeld
    /\ Restored /\ Fan /\ Saved

\* It holds at first and is kept in every step.
LEMMA Invariance == Spec => []IInv
<1>1. Init => Restored /\ Fan /\ Saved
  BY DEF Init, Restored, Fan, Saved, Suspended, NoCkpt
<1> QED
  BY <1>1, InitTypeOK, TypeStep, PositionsStep, StageStep, InitClearance, ClearanceStep,
     InitChain, AskingStep, ChainSavedStep, ChainHeldStep, RestoredStep, FanStep, SavedStep,
     PTL DEF Spec, IInv

\* No child stands at a step whose work is recorded.
LEMMA RunningUnrecorded == IInv => NothingRecordedRuns
<1> SUFFICES ASSUME IInv, NEW c \in Children, task[c] \in {"queued", "run"}, Recorded(<<c, frame[c].at>>)
             PROVE  FALSE
  BY DEF NothingRecordedRuns
<1> USE DEF IInv
<1>1. /\ pc \in {"wait", "again", "cursor", "journal"}
      /\ pc \in {"cursor", "journal"} => kind # "loop" /\ c # cur
      /\ pc = "wait" /\ kind \in OneByOne => c = cur
      /\ pc = "again" => c = ckpt.child
  BY Running
<1>2. task[c] # "none" /\ c \in Nat
  BY SizeAssumption DEF Children
<1>k. kind \in {"loop", "pipeline", "conditional"} \/ (kind \in {"parallel", "map_reduce"} /\ kind \notin OneByOne)
  BY KindAssumption DEF OneByOne, TypeOK
<1>3. CASE Suspended(ckpt) /\ c = ckpt.child /\ frame[c].at < ckpt.frame.at
  <2>1. CASE body = "workflow"
    <3>1. frame[c].at >= ckpt.frame.at /\ ckpt.frame.at \in Nat /\ frame[c].at \in Nat
      BY <1>2, <1>3, <2>1, Standing, SizeAssumption DEF Restored, Positions, FrameType
    <3> QED BY <1>3, <3>1
  <2>2. CASE body # "workflow"
    <3>1. ckpt.frame.at = 0 /\ frame[c].at \in Nat
      BY <1>3, <2>2, Standing DEF Positions, NoFrame
    <3> QED BY <1>3, <3>1
  <2> QED BY <2>1, <2>2
<1>4. CASE ckpt # NoCkpt /\ kind \in {"loop", "pipeline"} /\ (c < ckpt.child \/ ckpt.results[c] # NoValue)
  <2>1. kind \in OneByOne /\ kind # "parallel"
    BY <1>4 DEF OneByOne
  <2>2. pc = "wait" /\ c = cur
    BY <1>1, <1>4, <2>1 DEF Stage, Positions
  <2>3. cur >= ckpt.child /\ ckpt.results[cur] = NoValue /\ ckpt.child \in Nat
    BY <1>4, <2>2, CkptTyped, SizeAssumption DEF ChainSaved
  <2> QED BY <1>2, <1>4, <2>2, <2>3
<1>5. CASE ckpt # NoCkpt /\ kind = "conditional" /\ ckpt.results[c] # NoValue
  BY <1>5 DEF Saved, Nothing
<1>6. CASE ckpt # NoCkpt /\ kind \in {"parallel", "map_reduce"} /\ ckpt.results[c] # NoValue
  <2>1. kind \notin OneByOne
    BY <1>6 DEF OneByOne
  <2>2. Suspended(ckpt)
    BY <1>6, <2>1 DEF Saved, Nothing
  <2>3. CASE pc = "again"
    BY <1>1, <1>6, <2>1, <2>2, <2>3 DEF Saved
  <2>4. CASE pc # "again"
    BY <1>1, <1>2, <1>6, <2>1, <2>2, <2>4 DEF Fan, In
  <2> QED BY <2>3, <2>4
<1>7. CASE kind = "parallel" /\ journal[c] # NoValue
  <2>1. kind \notin OneByOne
    BY <1>7 DEF OneByOne
  <2>2. CASE pc = "again"
    BY <1>1, <1>7, <2>1, <2>2 DEF Saved, Stage
  <2>3. CASE pc # "again"
    BY <1>1, <1>2, <1>7, <2>1, <2>3 DEF Fan, In
  <2> QED BY <2>2, <2>3
<1>8. \/ ckpt # NoCkpt /\ \/ kind \in {"loop", "pipeline"} /\ c < ckpt.child
                          \/ ckpt.results[c] # NoValue
                          \/ Suspended(ckpt) /\ c = ckpt.child /\ frame[c].at < ckpt.frame.at
      \/ kind = "parallel" /\ journal[c] # NoValue
  BY DEF Recorded
<1> QED BY <1>k, <1>3, <1>4, <1>5, <1>6, <1>7, <1>8

\* Effects are made by running children only, at the step where they stand.
LEMMA EffectsStep ==
    ASSUME TypeOK, [Next]_vars, NEW p \in Places, effects'[p] # effects[p]
    PROVE  \E c \in Children : task[c] = "run" /\ p = Here(c)
<1> USE DEF config, stores, children, collected, local, host, history, bounds
<1> DEFINE Made == effects'[p] # effects[p] => \E c \in Children : task[c] = "run" /\ p = Here(c)
<1>e. effects \in [Places -> Nat]
  BY DEF TypeOK
<1>1. CASE Start
  BY <1>1 DEF Start, Begin, EnterChild, LaunchTasks
<1>2. CASE ResumeInterrupted
  BY <1>2 DEF ResumeInterrupted, Begin, EnterChild, LaunchTasks
<1>3. ASSUME NEW d \in Decisions, Resume(d) PROVE Made
  BY <1>3 DEF Resume, Begin, EnterChild, LaunchTasks
<1>4. ASSUME NEW c \in Children, StartItem(c) PROVE Made
  BY <1>4 DEF StartItem
<1>5. ASSUME NEW c \in Children, WorkStep(c) PROVE Made
  <2>1. task[c] = "run" /\ \E e : effects' = [effects EXCEPT ![Here(c)] = e] \/ UNCHANGED effects
    BY <1>5 DEF WorkStep, Proceed, Leave, At
  <2> QED BY <1>e, <2>1
<1>6. ASSUME NEW c \in Children, GateAnswered(c) PROVE Made
  BY <1>6 DEF GateAnswered, Proceed, Leave
<1>7. ASSUME NEW c \in Children, GateAsks(c) PROVE Made
  BY <1>7 DEF GateAsks
<1>8. CASE StopCancelled
  BY <1>8 DEF StopCancelled, Return
<1>9. CASE RunChild
  BY <1>9 DEF RunChild
<1>10. CASE EndOfChildren
  BY <1>10 DEF EndOfChildren, Return, Report
<1>11. CASE StopAfterChild
  BY <1>11 DEF StopAfterChild, Return, Report, ChildReturned
<1>12. CASE GoOn
  BY <1>12 DEF GoOn, ChildReturned, EnterNext
<1>13. CASE ChildSuspended
  BY <1>13 DEF ChildSuspended
<1>14. CASE ChildRaised
  BY <1>14 DEF ChildRaised, Return
<1>15. CASE Collect
  BY <1>15 DEF Collect, Fans
<1>16. CASE FanCompletes
  BY <1>16 DEF FanCompletes, AllCollected, Fans, Return, Report
<1>17. CASE FanSuspends
  BY <1>17 DEF FanSuspends, AllCollected, Fans
<1>18. ASSUME NEW c \in Children, TakeResult(c) PROVE Made
  BY <1>18 DEF TakeResult, Take, Fans
<1>19. ASSUME NEW c \in Children, TakeRefused(c) PROVE Made
  BY <1>19 DEF TakeRefused, Take, Fans
<1>20. ASSUME NEW c \in Children, TakeSuspension(c) PROVE Made
  BY <1>20 DEF TakeSuspension, Take, Fans
<1>21. ASSUME NEW c \in Children, TakeFailure(c) PROVE Made
  BY <1>21 DEF TakeFailure, Take, Fans
<1>22. ASSUME NEW c \in Children, AbortAll(c) PROVE Made
  BY <1>22 DEF AbortAll, Return, Fans
<1>23. ASSUME NEW c \in Children, BranchReturned(c) PROVE Made
  BY <1>23 DEF BranchReturned, Return, Report
<1>24. ASSUME NEW c \in Children, BranchSuspendedAgain(c) PROVE Made
  BY <1>24 DEF BranchSuspendedAgain
<1>25. ASSUME NEW c \in Children, BranchRaised(c) PROVE Made
  BY <1>25 DEF BranchRaised, Return
<1>26. CASE SaveCursor
  BY <1>26 DEF SaveCursor
<1>27. CASE AppendStep
  BY <1>27 DEF AppendStep, EnterNext
<1>28. CASE Surface
  BY <1>28 DEF Surface
<1>29. CASE BuildSuspendedRun
  BY <1>29 DEF BuildSuspendedRun
<1>30. ASSUME NEW c \in Children, StepRaises(c) PROVE Made
  <2>1. task[c] = "run" /\ \E e : effects' = [effects EXCEPT ![Here(c)] = e] \/ UNCHANGED effects
    BY <1>30 DEF StepRaises, Interrupt, At
  <2> QED BY <1>e, <2>1
<1>31. CASE Crash
  BY <1>31 DEF Crash, Interrupt, Return
<1>32. CASE Cancel
  BY <1>32 DEF Cancel, Interrupt
<1>33. ASSUME NEW k \in Keys, NEW d \in Decisions, Respond(k, d) PROVE Made
  BY <1>33 DEF Respond
<1>34. CASE UNCHANGED vars
  BY <1>34 DEF vars
<1> QED
  BY <1>1, <1>2, <1>3, <1>4, <1>5, <1>6, <1>7, <1>8, <1>9, <1>10, <1>11, <1>12, <1>13,
     <1>14, <1>15, <1>16, <1>17, <1>18, <1>19, <1>20, <1>21, <1>22, <1>23, <1>24, <1>25,
     <1>26, <1>27, <1>28, <1>29, <1>30, <1>31, <1>32, <1>33, <1>34
     DEF Next, Drive, Child, Parent, Work, Trouble, Human

\* For any workflow and bounds: work that a checkpoint or the journal has recorded is
\* never done again, by whatever resume.
THEOREM RecordedWorkCorrect == Spec => RecordedWorkRunsOnce
<1>1. IInv /\ [Next]_vars => [\A p \in Holds("work") : Recorded(p) => effects'[p] = effects[p]]_vars
  <2> SUFFICES ASSUME IInv, [Next]_vars, NEW p \in Holds("work"), Recorded(p), effects'[p] # effects[p]
               PROVE  FALSE
    OBVIOUS
  <2>1. p \in Places
    BY DEF Holds
  <2>2. PICK c \in Children : task[c] = "run" /\ p = Here(c)
    BY <2>1, EffectsStep DEF IInv
  <2> QED BY <2>2, RunningUnrecorded DEF NothingRecordedRuns, Here
<1> QED BY <1>1, Invariance, PTL DEF Spec, RecordedWorkRunsOnce

----------------------------------------------------------------------------
(* Results of a fan-out, and suspensions.                                  *)

\* A call that ended with a result ended before.
LEMMA ResultStep == IInv /\ ResultIsComplete /\ [Next]_vars => ResultIsComplete'
<1> SUFFICES ASSUME IInv, ResultIsComplete, [Next]_vars, kind \notin OneByOne PROVE ResultIsComplete'
  BY Monotone DEF ResultIsComplete, config, IInv
<1> USE DEF IInv
<1>l. kind \in {"parallel", "map_reduce"} /\ kind \notin {"loop", "pipeline", "conditional"}
  BY KindAssumption DEF OneByOne, TypeOK
<1>k. UNCHANGED config
  BY Monotone
<1>a. \A c \in Children : Asked(c) => Asked(c)'
  BY AskedStays
<1>r. ASSUME outcome' # "result" PROVE ResultIsComplete'
  BY <1>r DEF ResultIsComplete
<1>i. ASSUME UNCHANGED <<ckpt, outcome, report>> PROVE ResultIsComplete'
  <2>1. \A c \in Children : Unmentioned(c) => Unmentioned(c)'
    BY <1>i, <1>k, <1>a DEF Unmentioned, Asked, config, Suspended
  <2> QED BY <1>i, <1>k, <2>1 DEF ResultIsComplete, config, In
<1>s. ASSUME UNCHANGED outcome, pc # "idle" PROVE ResultIsComplete'
  BY <1>s, <1>r DEF Stage
<1> USE DEF config, stores, children, collected, local, host, history, bounds
<1>1. CASE Start
  BY <1>1, <1>r DEF Start, Begin, EnterChild, LaunchTasks
<1>2. CASE ResumeInterrupted
  BY <1>2, <1>r DEF ResumeInterrupted, Begin, EnterChild, LaunchTasks
<1>3. ASSUME NEW d \in Decisions, Resume(d) PROVE ResultIsComplete'
  BY <1>3, <1>r DEF Resume, Begin, EnterChild, LaunchTasks
<1>4. ASSUME NEW c \in Children, StartItem(c) PROVE ResultIsComplete'
  BY <1>4, <1>i DEF StartItem
<1>5. ASSUME NEW c \in Children, WorkStep(c) PROVE ResultIsComplete'
  BY <1>5, <1>i DEF WorkStep, Proceed, Leave
<1>6. ASSUME NEW c \in Children, GateAnswered(c) PROVE ResultIsComplete'
  BY <1>6, <1>i DEF GateAnswered, Proceed, Leave
<1>7. ASSUME NEW c \in Children, GateAsks(c) PROVE ResultIsComplete'
  BY <1>7, <1>i DEF GateAsks
<1>8. CASE StopCancelled
  BY <1>8, <1>r DEF StopCancelled, Return
<1>9. CASE RunChild
  BY <1>9, <1>i DEF RunChild
<1>10. CASE EndOfChildren
  BY <1>10, <1>l DEF EndOfChildren, Return, Report, Stage
<1>11. CASE StopAfterChild
  BY <1>11, <1>l DEF StopAfterChild, Return, Report, ChildReturned, Stage
<1>12. CASE GoOn
  BY <1>12, <1>i DEF GoOn, ChildReturned, EnterNext
<1>13. CASE ChildSuspended
  BY <1>13, <1>i DEF ChildSuspended
<1>14. CASE ChildRaised
  BY <1>14, <1>r DEF ChildRaised, Return
<1>15. CASE Collect
  BY <1>15, <1>i DEF Collect, Fans
<1>16. CASE FanCompletes
  <2>1. CASE outcome' # "result"
    BY <2>1, <1>r
  <2>2. CASE outcome' = "result"
    <3>1. /\ pc = "wait" /\ susp = 0 /\ UNCHANGED ckpt
          /\ report' = [results |-> Merge(prior, results), failed |-> failed]
          /\ ~(kind = "map_reduce" /\ token = "set")
          /\ \A c \in Children : task[c] = "none"
      BY <1>16, <2>2 DEF FanCompletes, AllCollected, Fans, Return, Report, InFlight
    <3>2. In(Merge(prior, results)) = In(prior) \cup In(results)
      BY Constants DEF In, Merge
    <3>3. \A c \in Children : c \in In(results) \cup In(prior) \cup failed
      BY <3>1 DEF Fan
    <3>4. /\ In(results) \cap failed = {} /\ In(prior) \cap failed = {}
          /\ policy = "all_or_nothing" => failed = {}
      BY <3>1 DEF Fan
    <3> QED BY <1>k, <3>1, <3>2, <3>3, <3>4 DEF ResultIsComplete, config, In
  <2> QED BY <2>1, <2>2
<1>17. CASE FanSuspends
  BY <1>17, <1>i DEF FanSuspends, AllCollected, Fans
<1>18. ASSUME NEW c \in Children, TakeResult(c) PROVE ResultIsComplete'
  BY <1>18, <1>i DEF TakeResult, Take, Fans
<1>19. ASSUME NEW c \in Children, TakeRefused(c) PROVE ResultIsComplete'
  BY <1>19, <1>i DEF TakeRefused, Take, Fans
<1>20. ASSUME NEW c \in Children, TakeSuspension(c) PROVE ResultIsComplete'
  BY <1>20, <1>i DEF TakeSuspension, Take, Fans
<1>21. ASSUME NEW c \in Children, TakeFailure(c) PROVE ResultIsComplete'
  BY <1>21, <1>i DEF TakeFailure, Take, Fans
<1>22. ASSUME NEW c \in Children, AbortAll(c) PROVE ResultIsComplete'
  BY <1>22, <1>r DEF AbortAll, Return, Fans
<1>23. ASSUME NEW c \in Children, BranchReturned(c) PROVE ResultIsComplete'
  <2>1. /\ pc = "again" /\ task[c] = "returned" /\ UNCHANGED ckpt
        /\ report' = [results |-> [results EXCEPT ![c] = frame[c].val], failed |-> {}]
    BY <1>23 DEF BranchReturned, Return, Report
  <2>2. kind = "parallel" /\ Suspended(ckpt) /\ results = ckpt.results
    BY <2>1 DEF Stage
  <2>3. \A d \in Children \ {c} : d \in In(results) => d \in In(report'.results)
    BY <2>1 DEF In, TypeOK, Results
  <2>4. c \in In(report'.results)
    BY <2>1, Standing, Constants DEF In, TypeOK, Results
  <2>5. ASSUME NEW d \in Children, d \notin In(report'.results) PROVE Unmentioned(d)'
    <3>1. policy = "best_effort" \/ Asked(d)
      BY <2>2, <2>3, <2>4, <2>5 DEF Saved
    <3>2. policy' = "best_effort" \/ Asked(d)'
      BY <1>a, <1>k, <3>1 DEF config
    <3> QED BY <1>k, <2>1, <2>2, <3>2 DEF Unmentioned, Asked, config, Suspended
  <2> QED BY <2>1, <2>5 DEF ResultIsComplete, In
<1>24. ASSUME NEW c \in Children, BranchSuspendedAgain(c) PROVE ResultIsComplete'
  BY <1>24, <1>i DEF BranchSuspendedAgain
<1>25. ASSUME NEW c \in Children, BranchRaised(c) PROVE ResultIsComplete'
  BY <1>25, <1>r DEF BranchRaised, Return
<1>26. CASE SaveCursor
  BY <1>26, <1>s DEF SaveCursor
<1>27. CASE AppendStep
  BY <1>27, <1>i DEF AppendStep, EnterNext
<1>28. CASE Surface
  BY <1>28, <1>s DEF Surface
<1>29. CASE BuildSuspendedRun
  BY <1>29, <1>r DEF BuildSuspendedRun
<1>30. ASSUME NEW c \in Children, StepRaises(c) PROVE ResultIsComplete'
  BY <1>30, <1>i DEF StepRaises, Interrupt
<1>31. CASE Crash
  BY <1>31, <1>r DEF Crash, Interrupt, Return
<1>32. CASE Cancel
  BY <1>32, <1>i DEF Cancel, Interrupt
<1>33. ASSUME NEW k \in Keys, NEW d \in Decisions, Respond(k, d) PROVE ResultIsComplete'
  BY <1>33, <1>i DEF Respond
<1>34. CASE UNCHANGED vars
  BY <1>34, <1>i DEF vars
<1> QED
  BY <1>1, <1>2, <1>3, <1>4, <1>5, <1>6, <1>7, <1>8, <1>9, <1>10, <1>11, <1>12, <1>13,
     <1>14, <1>15, <1>16, <1>17, <1>18, <1>19, <1>20, <1>21, <1>22, <1>23, <1>24, <1>25,
     <1>26, <1>27, <1>28, <1>29, <1>30, <1>31, <1>32, <1>33, <1>34
     DEF Next, Drive, Child, Parent, Work, Trouble, Human

\* For any Parallel or MapReduce and bounds: its result accounts for every child.
THEOREM ResultCorrect == Spec => []ResultIsComplete
<1>1. Init => ResultIsComplete
  BY DEF Init, ResultIsComplete
<1> QED BY <1>1, ResultStep, Invariance, PTL DEF Spec

\* The handles of suspended runs are kept in every step.
LEMMA SurfacedStep == IInv /\ Surfaced /\ [Next]_vars => Surfaced'
<1> SUFFICES ASSUME IInv, Surfaced, [Next]_vars, kind # "parallel" PROVE Surfaced'
  BY Monotone DEF Surfaced, config, IInv
<1> USE DEF IInv
<1>k. UNCHANGED config
  BY Monotone
<1>i. ASSUME UNCHANGED <<ckpt, pending, outcome, pc>> PROVE Surfaced'
  BY <1>i, <1>k DEF Surfaced, SuspensionIsResumable, config, Suspended
<1>r. ASSUME pc' # "handle", outcome' # "suspended" PROVE Surfaced'
  BY <1>r, <1>k DEF Surfaced, SuspensionIsResumable, config
<1>s. ASSUME UNCHANGED outcome, pc # "idle", pc' # "handle" PROVE Surfaced'
  BY <1>s, <1>r DEF Stage
<1> USE DEF config, stores, children, collected, local, host, history, bounds
<1>1. CASE Start
  BY <1>1, <1>r DEF Start, Begin, EnterChild, LaunchTasks
<1>2. CASE ResumeInterrupted
  BY <1>2, <1>r DEF ResumeInterrupted, Begin, EnterChild, LaunchTasks
<1>3. ASSUME NEW d \in Decisions, Resume(d) PROVE Surfaced'
  <2>1. outcome' = "running" /\ pc' \in {"top", "again", "wait"}
    <3>1. kind \in {"loop", "conditional", "pipeline", "parallel", "map_reduce"}
      BY KindAssumption DEF OneByOne, TypeOK
    <3> QED BY <1>3, <3>1 DEF Resume, Begin, EnterChild, LaunchTasks
  <2> QED BY <2>1, <1>r
<1>4. ASSUME NEW c \in Children, StartItem(c) PROVE Surfaced'
  BY <1>4, <1>i DEF StartItem
<1>5. ASSUME NEW c \in Children, WorkStep(c) PROVE Surfaced'
  BY <1>5, <1>i DEF WorkStep, Proceed, Leave
<1>6. ASSUME NEW c \in Children, GateAnswered(c) PROVE Surfaced'
  BY <1>6, <1>i DEF GateAnswered, Proceed, Leave
<1>7. ASSUME NEW c \in Children, GateAsks(c) PROVE Surfaced'
  BY <1>7, <1>i DEF GateAsks
<1>8. CASE StopCancelled
  BY <1>8, <1>r DEF StopCancelled, Return
<1>9. CASE RunChild
  BY <1>9, <1>s DEF RunChild
<1>10. CASE EndOfChildren
  BY <1>10, <1>r DEF EndOfChildren, Return, Report
<1>11. CASE StopAfterChild
  BY <1>11, <1>r DEF StopAfterChild, Return, Report, ChildReturned
<1>12. CASE GoOn
  BY <1>12, <1>s DEF GoOn, ChildReturned, EnterNext
<1>13. CASE ChildSuspended
  BY <1>13, <1>s DEF ChildSuspended
<1>14. CASE ChildRaised
  BY <1>14, <1>r DEF ChildRaised, Return
<1>15. CASE Collect
  BY <1>15, <1>i DEF Collect, Fans
<1>16. CASE FanCompletes
  BY <1>16, <1>r DEF FanCompletes, AllCollected, Fans, Return, Report
<1>17. CASE FanSuspends
  BY <1>17, <1>s DEF FanSuspends, AllCollected, Fans
<1>18. ASSUME NEW c \in Children, TakeResult(c) PROVE Surfaced'
  BY <1>18, <1>s DEF TakeResult, Take, Fans
<1>19. ASSUME NEW c \in Children, TakeRefused(c) PROVE Surfaced'
  BY <1>19, <1>s DEF TakeRefused, Take, Fans
<1>20. ASSUME NEW c \in Children, TakeSuspension(c) PROVE Surfaced'
  BY <1>20, <1>s DEF TakeSuspension, Take, Fans
<1>21. ASSUME NEW c \in Children, TakeFailure(c) PROVE Surfaced'
  BY <1>21, <1>s DEF TakeFailure, Take, Fans
<1>22. ASSUME NEW c \in Children, AbortAll(c) PROVE Surfaced'
  BY <1>22, <1>r DEF AbortAll, Return, Fans
<1>23. ASSUME NEW c \in Children, BranchReturned(c) PROVE Surfaced'
  BY <1>23, <1>r DEF BranchReturned, Return, Report
<1>24. ASSUME NEW c \in Children, BranchSuspendedAgain(c) PROVE Surfaced'
  BY <1>24 DEF BranchSuspendedAgain, Stage
<1>25. ASSUME NEW c \in Children, BranchRaised(c) PROVE Surfaced'
  BY <1>25, <1>r DEF BranchRaised, Return
<1>26. CASE SaveCursor
  BY <1>26, <1>s DEF SaveCursor
<1>27. CASE AppendStep
  BY <1>27, <1>s DEF AppendStep, EnterNext
<1>28. CASE Surface
  <2>1. /\ ckpt'.kind = "suspend" /\ ckpt'.request = pending /\ UNCHANGED <<pending, outcome>>
        /\ pc = "surface" /\ pc' = "handle"
    BY <1>28 DEF Surface
  <2>2. outcome' # "suspended"
    BY <2>1 DEF Stage
  <2> QED BY <2>1, <2>2 DEF Surfaced, SuspensionIsResumable, Suspended
<1>29. CASE BuildSuspendedRun
  <2>1. pc = "handle" /\ pc' = "idle" /\ UNCHANGED <<ckpt, pending>>
    BY <1>29 DEF BuildSuspendedRun
  <2>2. Suspended(ckpt) /\ ckpt # NoCkpt /\ ckpt.request = pending
    BY <2>1 DEF Surfaced, Suspended, NoCkpt
  <2> QED BY <2>1, <2>2 DEF Surfaced, SuspensionIsResumable, Suspended
<1>30. ASSUME NEW c \in Children, StepRaises(c) PROVE Surfaced'
  BY <1>30, <1>i DEF StepRaises, Interrupt
<1>31. CASE Crash
  BY <1>31, <1>r DEF Crash, Interrupt, Return
<1>32. CASE Cancel
  BY <1>32, <1>i DEF Cancel, Interrupt
<1>33. ASSUME NEW k \in Keys, NEW d \in Decisions, Respond(k, d) PROVE Surfaced'
  BY <1>33, <1>i DEF Respond
<1>34. CASE UNCHANGED vars
  BY <1>34, <1>i DEF vars
<1> QED
  BY <1>1, <1>2, <1>3, <1>4, <1>5, <1>6, <1>7, <1>8, <1>9, <1>10, <1>11, <1>12, <1>13,
     <1>14, <1>15, <1>16, <1>17, <1>18, <1>19, <1>20, <1>21, <1>22, <1>23, <1>24, <1>25,
     <1>26, <1>27, <1>28, <1>29, <1>30, <1>31, <1>32, <1>33, <1>34
     DEF Next, Drive, Child, Parent, Work, Trouble, Human

\* For any workflow but a Parallel: a run handed to the host as suspended can be
\* resumed with the answer to the request it was handed with.
THEOREM SuspensionsCorrect == Spec => [](kind # "parallel" => SuspensionIsResumable)
<1>1. Init => Surfaced
  BY DEF Init, Surfaced, SuspensionIsResumable
<1>2. Surfaced => (kind # "parallel" => SuspensionIsResumable)
  BY DEF Surfaced
<1> QED BY <1>1, <1>2, SurfacedStep, Invariance, PTL DEF Spec
=============================================================================
