----------------------------- MODULE MessageBusProofs -----------------------------
(***************************************************************************)
(* Proofs about MessageBus, for any subscriptions, seeds and limits: the   *)
(* shared agents are always as their executions and the host's             *)
(* configuration say, run() stops promptly at its cap and its token, and   *)
(* each message is processed once, in causal order, by all that want it.   *)
(***************************************************************************)
EXTENDS MessageBus, FiniteSetTheorems, SequenceTheorems, TLAPS

Statuses == {"none", "running", "ended", "failed"}
Tasks == [status : Statuses, run : Nat, trigger : Nat, outbox : Seq(Topics), saved : Seq(SubIds)]
Messages == [topic : Topics, author : Authors, depth : Nat, parent : Nat, sub : Nat, n : Nat]
Execs == [agent : Agents, sub : SubIds, trigger : Nat, published : Seq(Messages)]

TypeOK ==
    /\ allowSelf \in {"yes", "no"} /\ terminates \in {"yes", "no"}
    /\ token \in {"clear", "set"} /\ pc \in {"idle", "loop", "gather", "done", "raised"}
    /\ run \in Nat
    /\ queue \in Seq(Messages) /\ log \in Seq(Messages)
    /\ executions \in Seq(Execs) /\ failed \in Seq(Execs)
    /\ task \in [SubIds -> Tasks]
    /\ registered \subseteq Agents
    /\ injected \in [Agents -> Seq(SubIds)]
    /\ reason \in {"none", "quiescence", "max_messages", "cancelled", "MaxExecutionsTermination"}
    /\ seeds \in Seq(Topics)
    /\ delivered \subseteq 1..Position /\ lateDeliveries \subseteq delivered
    /\ faults \in Nat

\* Where executions are: those of the present delivery are its message's matches, and
\* only they are kept when they end; others are of runs that raised.
Located ==
    /\ pc # "idle" => run > 0
    /\ \A i \in SubIds : task[i].run <= run
    /\ pc \in {"loop", "done"} => \A i \in SubIds : task[i].run # run
    /\ \A i \in SubIds : task[i].status \in {"ended", "failed"} => Awaited(i)
    /\ pc = "gather" =>
          /\ Position > 0
          /\ \A i \in SubIds : IF i \in Matching(log[Position])
                               THEN Mine(i) /\ task[i].status # "none"
                               ELSE task[i].run # run

----------------------------------------------------------------------------
(* Sequences.                                                              *)

\* A concatenation of two sequences, element by element.
LEMMA Concatenated ==
    ASSUME NEW S, NEW s \in Seq(S), NEW t \in Seq(S)
    PROVE  /\ s \o t \in Seq(S)
           /\ Len(s \o t) = Len(s) + Len(t) /\ Len(s) \in Nat /\ Len(t) \in Nat
           /\ DOMAIN (s \o t) = 1..(Len(s) + Len(t))
           /\ DOMAIN s = 1..Len(s) /\ DOMAIN t = 1..Len(t)
           /\ \A k \in DOMAIN s : (s \o t)[k] = s[k]
           /\ \A k \in DOMAIN t : (s \o t)[Len(s) + k] = t[k]
           /\ \A k \in DOMAIN (s \o t) : k \notin DOMAIN s => k - Len(s) \in DOMAIN t /\ (s \o t)[k] = t[k - Len(s)]
BY ConcatProperties, LenProperties

\* Each element of a finite set once, in some order.
LEMMA Arranged ==
    ASSUME NEW S, IsFiniteSet(S), NEW s \in SetToSeqs(S)
    PROVE  /\ s \in Seq(S)
           /\ \A k, l \in DOMAIN s : s[k] = s[l] => k = l
           /\ \A k \in DOMAIN s : s[k] \in S
           /\ \A x \in S : \E k \in DOMAIN s : s[k] = x
<1> DEFINE n == Cardinality(S)
<1>1. n \in Nat
  BY FS_CardinalityType
<1>2. s \in [1..n -> S] /\ \A k, l \in 1..n : k # l => s[k] # s[l]
  BY DEF SetToSeqs
<1>3. s \in Injection(1..n, S)
  BY <1>2 DEF Injection, IsInjective
<1>4. Cardinality(1..n) = n
  BY <1>1, FS_Interval
<1>5. s \in Surjection(1..n, S)
  BY <1>3, <1>4, FS_Injection
<1>6. \A x \in S : \E k \in 1..n : s[k] = x
  BY <1>5 DEF Surjection
<1>7. s \in Seq(S)
  BY <1>1, <1>2
<1> QED BY <1>2, <1>6, <1>7

\* The elements of a sequence are finitely many.
LEMMA FinitelyMany == ASSUME NEW S, NEW s \in Seq(S) PROVE IsFiniteSet(ToSet(s))
<1>1. Len(s) \in Nat /\ DOMAIN s = 1..Len(s)
  BY LenProperties
<1>2. IsFiniteSet(1..Len(s))
  BY <1>1, FS_Interval
<1>3. s \in Surjection(1..Len(s), ToSet(s))
  BY <1>1 DEF Surjection, ToSet
<1> QED BY <1>2, <1>3, FS_Surjection

----------------------------------------------------------------------------
(* Types.                                                                  *)

\* The subscriptions are numbered.
LEMMA Numbered ==
    /\ SubIds \subseteq Nat /\ IsFiniteSet(SubIds)
    /\ \A i \in SubIds : i > 0 /\ Agent(i) \in Agents
    /\ \A i \in SubIds : Agent(i) \in Authors
<1>1. SubIds = 1..Len(Subs) /\ Len(Subs) \in Nat
  BY SubsAssumption, LenProperties DEF SubIds
<1>2. IsFiniteSet(SubIds)
  BY <1>1, FS_Interval
<1> QED BY <1>1, <1>2 DEF Agents, Authors

\* The messages popped off the queue go to the end of the log.
LEMMA Popped ==
    ASSUME TypeOK, Pop, queue # <<>>
    PROVE  /\ log' \in Seq(Messages) /\ queue' \in Seq(Messages)
           /\ Position \in Nat /\ Position' = Position + 1 /\ Len(log') = Position + 1
           /\ Len(queue) \in Nat /\ Len(queue') = Len(queue) - 1 /\ Len(queue') \in Nat
           /\ DOMAIN log = 1..Position /\ DOMAIN log' = 1..Position'
           /\ DOMAIN queue = 1..Len(queue) /\ DOMAIN queue' = 1..Len(queue')
           /\ \A p \in DOMAIN log : log'[p] = log[p]
           /\ 1 \in DOMAIN queue /\ log'[Position'] = queue[1]
           /\ \A k \in DOMAIN queue' : queue'[k] = queue[k + 1] /\ k + 1 \in DOMAIN queue
<1>1. queue \in Seq(Messages) /\ log \in Seq(Messages)
  BY DEF TypeOK
<1>2. log' = Append(log, Head(queue)) /\ queue' = Tail(queue)
  BY DEF Pop
<1>3. Head(queue) \in Messages /\ Head(queue) = queue[1]
  BY <1>1
<1>4. /\ log' \in Seq(Messages) /\ Len(log') = Len(log) + 1
      /\ \A p \in 1..Len(log) : log'[p] = log[p]
      /\ log'[Len(log) + 1] = queue[1]
  BY <1>1, <1>2, <1>3
<1>5. /\ queue' \in Seq(Messages) /\ Len(queue') = Len(queue) - 1
      /\ Len(queue) \in Nat /\ Len(queue) > 0
      /\ \A k \in 1..Len(queue') : queue'[k] = queue[k + 1]
  BY <1>1, <1>2
<1> QED BY <1>1, <1>4, <1>5 DEF Position

\* What an execution of the present delivery has published.
LEMMA OutboxOf ==
    ASSUME TypeOK, Located, pc = "gather", NEW i \in SubIds, Mine(i)
    PROVE  /\ Outbox(i) \in Seq(Messages)
           /\ DOMAIN Outbox(i) \subseteq Nat
           /\ \A n \in DOMAIN Outbox(i) :
                 /\ Outbox(i)[n] \in Messages
                 /\ Outbox(i)[n].parent = Position /\ Outbox(i)[n].sub = i /\ Outbox(i)[n].n = n
                 /\ Outbox(i)[n].depth > 0
           /\ Outcome(i) \in Execs
           /\ Outcome(i).sub = i /\ Outcome(i).trigger = Position /\ Outcome(i).published = Outbox(i)
<1>1. Position \in DOMAIN log /\ log[Position] \in Messages /\ Position \in Nat
  BY DEF TypeOK, Located, Position
<1>2. task[i].outbox \in Seq(Topics) /\ task[i].trigger = Position
  BY DEF TypeOK, Tasks, Mine
<1>3. /\ DOMAIN task[i].outbox = 1..Len(task[i].outbox) /\ Len(task[i].outbox) \in Nat
      /\ \A n \in DOMAIN task[i].outbox : task[i].outbox[n] \in Topics
  BY <1>2
<1>4. ASSUME NEW n \in DOMAIN task[i].outbox
      PROVE  /\ Published(i, task[i].outbox[n], n) \in Messages
             /\ Published(i, task[i].outbox[n], n).parent = Position
             /\ Published(i, task[i].outbox[n], n).sub = i
             /\ Published(i, task[i].outbox[n], n).n = n
             /\ Published(i, task[i].outbox[n], n).depth > 0
  <2>1. log[Position].depth \in Nat /\ log[Position].depth + 1 > 0
    BY <1>1 DEF Messages
  <2>2. Agent(i) \in Authors /\ i \in Nat /\ n \in Nat /\ task[i].outbox[n] \in Topics
    BY <1>3, Numbered
  <2> QED BY <1>1, <1>2, <2>1, <2>2 DEF Published, Messages
<1>5. /\ DOMAIN Outbox(i) = DOMAIN task[i].outbox
      /\ \A n \in DOMAIN Outbox(i) : Outbox(i)[n] = Published(i, task[i].outbox[n], n)
  BY DEF Outbox
<1>6. Outbox(i) \in Seq(Messages)
  <2>1. Outbox(i) = [n \in 1..Len(task[i].outbox) |-> Published(i, task[i].outbox[n], n)]
    BY <1>3 DEF Outbox
  <2> HIDE DEF Published
  <2>2. \A n \in 1..Len(task[i].outbox) : Published(i, task[i].outbox[n], n) \in Messages
    BY <1>3, <1>4
  <2> QED BY <1>3, <2>1, <2>2
<1>7. /\ Outcome(i) \in Execs /\ Outcome(i).sub = i
      /\ Outcome(i).trigger = Position /\ Outcome(i).published = Outbox(i)
  BY <1>1, <1>6, Numbered DEF Outcome, Execs
<1> QED BY <1>3, <1>4, <1>5, <1>6, <1>7

\* The messages that a delivery queues are finitely many.
LEMMA FiniteOutboxes ==
    ASSUME TypeOK, Located, pc = "gather"
    PROVE  IsFiniteSet({m \in UNION {ToSet(Outbox(i)) : i \in Ends("ended")} : NotTooDeep(m)})
<1> DEFINE E == Ends("ended")
           F == [i \in E |-> ToSet(Outbox(i))]
<1>1. E \in SUBSET SubIds /\ \A i \in E : Mine(i)
  BY DEF Ends
<1>2. IsFiniteSet(E)
  BY <1>1, Numbered, FS_Subset
<1>3. F \in Surjection(E, {ToSet(Outbox(i)) : i \in E})
  BY DEF Surjection
<1>4. IsFiniteSet({ToSet(Outbox(i)) : i \in E})
  BY <1>2, <1>3, FS_Surjection
<1>5. \A i \in E : IsFiniteSet(ToSet(Outbox(i)))
  BY <1>1, OutboxOf, FinitelyMany
<1>6. IsFiniteSet(UNION {ToSet(Outbox(i)) : i \in E})
  BY <1>4, <1>5, FS_UNION
<1> HIDE DEF E
<1>7. {m \in UNION {ToSet(Outbox(i)) : i \in E} : NotTooDeep(m)}
         \in SUBSET UNION {ToSet(Outbox(i)) : i \in E}
  OBVIOUS
<1>8. IsFiniteSet({m \in UNION {ToSet(Outbox(i)) : i \in E} : NotTooDeep(m)})
  BY <1>6, <1>7, FS_Subset
<1> QED BY <1>8 DEF E

\* The outcomes of the executions in an order.
OutcomesOf(order) == [k \in DOMAIN order |-> Outcome(order[k])]

\* What Collect adds to the results and to the queue.
LEMMA Collected ==
    ASSUME TypeOK, Located, Collect
    PROVE  \E ended \in Seq(Ends("ended")), lost \in Seq(Ends("failed")), sent \in Seq(Messages) :
              /\ executions' = executions \o OutcomesOf(ended) /\ failed' = failed \o OutcomesOf(lost)
              /\ queue' = queue \o sent
              /\ OutcomesOf(ended) \in Seq(Execs) /\ OutcomesOf(lost) \in Seq(Execs)
              /\ \A k, l \in DOMAIN ended : ended[k] = ended[l] => k = l
              /\ \A k, l \in DOMAIN lost : lost[k] = lost[l] => k = l
              /\ \A i \in Ends("ended") : \E k \in DOMAIN ended : ended[k] = i
              /\ \A i \in Ends("failed") : \E k \in DOMAIN lost : lost[k] = i
              /\ \A k \in DOMAIN sent : \E i \in Ends("ended") : \E n \in DOMAIN Outbox(i) :
                    sent[k] = Outbox(i)[n] /\ NotTooDeep(sent[k])
              /\ \A i \in Ends("ended") : \A n \in DOMAIN Outbox(i) :
                    NotTooDeep(Outbox(i)[n]) => \E k \in DOMAIN sent : sent[k] = Outbox(i)[n]
              /\ AsGathered(sent)
<1>1. pc = "gather"
  BY DEF Collect
<1>2. PICK ended \in SetToSeqs(Ends("ended")), lost \in SetToSeqs(Ends("failed")) :
         executions' = executions \o OutcomesOf(ended) /\ failed' = failed \o OutcomesOf(lost)
  BY DEF Collect, OutcomesOf
<1> DEFINE due == {m \in UNION {ToSet(Outbox(i)) : i \in Ends("ended")} : NotTooDeep(m)}
<1>3. PICK sent \in SetToSeqs(due) : AsGathered(sent) /\ queue' = queue \o sent
  BY DEF Collect
<1>4. ASSUME NEW status, NEW order \in SetToSeqs(Ends(status))
      PROVE  /\ order \in Seq(Ends(status))
             /\ \A k, l \in DOMAIN order : order[k] = order[l] => k = l
             /\ \A i \in Ends(status) : \E k \in DOMAIN order : order[k] = i
             /\ OutcomesOf(order) \in Seq(Execs)
  <2>1. Ends(status) \in SUBSET SubIds /\ \A i \in Ends(status) : Mine(i)
    BY DEF Ends
  <2>2. IsFiniteSet(Ends(status))
    BY <2>1, Numbered, FS_Subset
  <2>3. /\ order \in Seq(Ends(status))
        /\ \A k, l \in DOMAIN order : order[k] = order[l] => k = l
        /\ \A i \in Ends(status) : \E k \in DOMAIN order : order[k] = i
        /\ \A k \in DOMAIN order : order[k] \in Ends(status)
    BY <2>2, Arranged
  <2>4. \A k \in DOMAIN order : Outcome(order[k]) \in Execs
    BY <1>1, <2>1, <2>3, OutboxOf
  <2>5. DOMAIN order = 1..Len(order) /\ Len(order) \in Nat
    BY <2>3
  <2>6. OutcomesOf(order) \in Seq(Execs)
    <3>1. OutcomesOf(order) \in [1..Len(order) -> Execs]
      BY <2>4, <2>5 DEF OutcomesOf
    <3> QED BY <2>5, <3>1
  <2> QED BY <2>3, <2>6
<1>5. IsFiniteSet(due)
  BY <1>1, FiniteOutboxes
<1>6. /\ sent \in Seq(due)
      /\ \A k \in DOMAIN sent : sent[k] \in due
      /\ \A m \in due : \E k \in DOMAIN sent : sent[k] = m
  BY <1>3, <1>5, Arranged
<1>7. \A m \in due : /\ \E i \in Ends("ended") : \E n \in DOMAIN Outbox(i) : m = Outbox(i)[n]
                     /\ NotTooDeep(m)
  BY DEF ToSet
<1>8. \A i \in Ends("ended") : \A n \in DOMAIN Outbox(i) :
         NotTooDeep(Outbox(i)[n]) => Outbox(i)[n] \in due
  BY DEF ToSet
<1>9. due \subseteq Messages
  <2>1. \A i \in Ends("ended") : i \in SubIds /\ Mine(i)
    BY DEF Ends
  <2> QED BY <1>1, <1>7, <2>1, OutboxOf
<1> HIDE DEF due
<1>10. sent \in Seq(Messages)
  BY <1>6, <1>9, SeqMonotonic
<1>11. \A k \in DOMAIN sent : \E i \in Ends("ended") : \E n \in DOMAIN Outbox(i) :
          sent[k] = Outbox(i)[n] /\ NotTooDeep(sent[k])
  BY <1>6, <1>7
<1>12. \A i \in Ends("ended") : \A n \in DOMAIN Outbox(i) :
          NotTooDeep(Outbox(i)[n]) => \E k \in DOMAIN sent : sent[k] = Outbox(i)[n]
  BY <1>6, <1>8
<1>13. ended \in Seq(Ends("ended")) /\ lost \in Seq(Ends("failed"))
  BY <1>4
<1> USE <1>10, <1>13
<1> WITNESS ended \in Seq(Ends("ended")), lost \in Seq(Ends("failed")), sent \in Seq(Messages)
<1> QED BY <1>2, <1>3, <1>4, <1>10, <1>11, <1>12

\* Every variable has its type initially ...
LEMMA InitTypeOK == Init => TypeOK
<1> SUFFICES ASSUME Init PROVE TypeOK
  OBVIOUS
<1>1. Position = 0
  BY EmptySeq DEF Init, Position
<1>2. NoTask \in Tasks
  BY DEF NoTask, Tasks, Statuses
<1> QED BY <1>1, <1>2 DEF Init, TypeOK

\* ... and keeps it in every step.
LEMMA TypeStep == TypeOK /\ Located /\ [Next]_vars => TypeOK'
<1> SUFFICES ASSUME TypeOK, Located, [Next]_vars PROVE TypeOK'
  OBVIOUS
<1> USE LimitAssumption DEF config, agents, results, history
<1>0. NoTask \in Tasks
  BY DEF NoTask, Tasks, Statuses
<1>s. Position \in Nat
  BY LenProperties DEF TypeOK, Position
<1>a. ASSUME NEW i \in SubIds, Running(i), Eject(i)
      PROVE  registered' \subseteq Agents /\ injected' \in [Agents -> Seq(SubIds)]
  BY <1>a DEF TypeOK, Eject, Tasks
<1>1. ASSUME NEW list \in SeedLists, Run(list) PROVE TypeOK'
  <2>1. list \in Seq(Topics) /\ DOMAIN list = 1..Len(list) /\ Len(list) \in Nat
    BY SeedsAssumption
  <2>2. \A n \in 1..Len(list) : Seed(list[n], n) \in Messages
    BY <2>1 DEF Seed, Messages, Authors
  <2>3. queue' = [n \in 1..Len(list) |-> Seed(list[n], n)]
    BY <1>1, <2>1 DEF Run
  <2>4. queue' \in Seq(Messages)
    BY <2>1, <2>2, <2>3
  <2>5. log' = <<>> /\ Position' = 0
    BY <1>1, EmptySeq DEF Run, Position
  <2>6. log' \in Seq(Messages) /\ executions' \in Seq(Execs) /\ failed' \in Seq(Execs)
    BY <1>1, EmptySeq DEF Run
  <2>7. seeds' = list /\ run' \in Nat /\ delivered' = {} /\ lateDeliveries' = {}
    BY <1>1 DEF Run, TypeOK
  <2> QED BY <1>1, <2>1, <2>4, <2>5, <2>6, <2>7 DEF Run, TypeOK
<1>2. CASE Quiesce
  BY <1>2 DEF Quiesce, TypeOK, Position
<1>3. CASE Skip
  BY <1>3, <1>s, Popped DEF Skip, TypeOK
<1>4. CASE FilterRaises
  BY <1>4, <1>s, Popped DEF FilterRaises, TypeOK
<1>5. CASE Deliver
  <2>1. /\ log' \in Seq(Messages) /\ queue' \in Seq(Messages)
        /\ delivered' \subseteq 1..Position' /\ lateDeliveries' \subseteq delivered'
        /\ Len(log') \in Nat
    <3>1. /\ log' \in Seq(Messages) /\ queue' \in Seq(Messages)
          /\ Position' = Position + 1 /\ Position' = Len(log')
      BY <1>5, Popped DEF Deliver, Position
    <3>2. delivered' = delivered \cup {Position'}
          /\ lateDeliveries' \in {lateDeliveries, lateDeliveries \cup {Position'}}
      BY <1>5 DEF Deliver, Position
    <3>3. delivered \subseteq 1..Position /\ lateDeliveries \subseteq delivered
      BY DEF TypeOK
    <3>4. 1..Position' = (1..Position) \cup {Position'} /\ Position' \in Nat
      BY <1>s, <3>1
    <3> QED BY <3>1, <3>2, <3>3, <3>4
  <2> DEFINE matching == Matching(log'[Len(log')])
             starting == Starting(matching)
  <2>2. starting \subseteq SubIds
    BY DEF Starting, Matching
  <2>3. registered' \subseteq Agents
    BY <1>5, <2>2 DEF Deliver, TypeOK, Agents
  <2>4. task' \in [SubIds -> Tasks]
    <3>1. \A i \in SubIds :
             [status |-> "running", run |-> run, trigger |-> Len(log'),
              outbox |-> <<>>, saved |-> injected[Agent(i)]] \in Tasks
      BY <2>1, EmptySeq DEF TypeOK, Tasks, Statuses, Agents
    <3> QED BY <1>5, <3>1 DEF Deliver, TypeOK
  <2>5. injected' \in [Agents -> Seq(SubIds)]
    <3>1. ASSUME NEW a \in Agents, \E i \in starting : Agent(i) = a
          PROVE  Append(injected[a], CHOOSE i \in starting : Agent(i) = a) \in Seq(SubIds)
      BY <3>1, <2>2, AppendProperties DEF TypeOK
    <3>2. injected' = [a \in Agents |->
                         IF \E i \in starting : Agent(i) = a
                         THEN Append(injected[a], CHOOSE i \in starting : Agent(i) = a)
                         ELSE injected[a]]
      BY <1>5 DEF Deliver
    <3> HIDE DEF starting
    <3> QED BY <3>1, <3>2 DEF TypeOK
  <2> QED BY <1>5, <2>1, <2>3, <2>4, <2>5 DEF Deliver, TypeOK
<1>6. CASE Collect
  <2>1. /\ queue' \in Seq(Messages) /\ executions' \in Seq(Execs) /\ failed' \in Seq(Execs)
    <3>1. PICK ended \in Seq(Ends("ended")), lost \in Seq(Ends("failed")), sent \in Seq(Messages) :
              /\ executions' = executions \o OutcomesOf(ended) /\ failed' = failed \o OutcomesOf(lost)
              /\ queue' = queue \o sent
              /\ OutcomesOf(ended) \in Seq(Execs) /\ OutcomesOf(lost) \in Seq(Execs)
      BY <1>6, Collected
    <3> QED BY <3>1, ConcatProperties DEF TypeOK
  <2>2. reason' = Stop /\ pc' \in {"loop", "done"} /\ UNCHANGED <<config, token, run, log, agents, history, faults>>
    BY <1>6 DEF Collect
  <2>3. reason' \in {"none", "quiescence", "max_messages", "cancelled", "MaxExecutionsTermination"}
    BY <2>2 DEF Stop
  <2>4. task' \in [SubIds -> Tasks]
    BY <1>0, <1>6 DEF Collect, TypeOK
  <2> QED BY <2>1, <2>2, <2>3, <2>4 DEF TypeOK, Position
<1>7. CASE Cancel
  BY <1>7 DEF Cancel, TypeOK, Position
<1>8. ASSUME NEW i \in SubIds, AgentEnds(i) PROVE TypeOK'
  <2>1. Ended(i, "ended") \in Tasks
    BY <1>0 DEF Ended, TypeOK, Tasks, Statuses
  <2> QED BY <1>8, <1>a, <2>1 DEF AgentEnds, TypeOK, Position
<1>9. ASSUME NEW i \in SubIds, AgentRaises(i) PROVE TypeOK'
  <2>1. Ended(i, "failed") \in Tasks
    BY <1>0 DEF Ended, TypeOK, Tasks, Statuses
  <2> QED BY <1>9, <1>a, <2>1 DEF AgentRaises, TypeOK, Position
<1>10. ASSUME NEW i \in SubIds, AgentSuspends(i) PROVE TypeOK'
  BY <1>0, <1>10, <1>a DEF AgentSuspends, TypeOK, Position
<1>11. ASSUME NEW i \in SubIds, NEW topic \in Topics, Publish(i, topic) PROVE TypeOK'
  <2>1. [task[i] EXCEPT !.outbox = Append(@, topic)] \in Tasks
    <3>1. task[i] \in Tasks /\ Append(task[i].outbox, topic) \in Seq(Topics)
      BY AppendProperties DEF TypeOK, Tasks
    <3> QED BY <3>1 DEF Tasks
  <2> QED BY <1>11, <2>1 DEF Publish, TypeOK, Position
<1>12. CASE UNCHANGED vars
  BY <1>12 DEF vars, TypeOK, Position
<1> QED
  BY <1>1, <1>2, <1>3, <1>4, <1>5, <1>6, <1>7, <1>8, <1>9, <1>10, <1>11, <1>12
     DEF Next, Bus, AgentStep

\* Nothing has been delivered initially ...
LEMMA InitLocated == Init => Located
BY DEF Init, Located, NoTask, Awaited

\* ... a delivery begins the executions of all that match, unless run() raises, and
\* an execution that ends is kept exactly while the delivery waits for it.
LEMMA LocatedStep == TypeOK /\ Located /\ [Next]_vars => Located'
<1> SUFFICES ASSUME TypeOK, Located, [Next]_vars PROVE Located'
  OBVIOUS
<1> USE DEF config, agents, results, history
<1>s. Position \in Nat /\ \A i \in SubIds : task[i] \in Tasks /\ task[i].run \in Nat
  BY LenProperties DEF TypeOK, Position, Tasks
<1>m. \A m : Matching(m) \subseteq SubIds
  BY DEF Matching
<1>k. UNCHANGED config => \A m : Matching(m)' = Matching(m)
  BY DEF Matching
<1>0. NoTask.status = "none" /\ NoTask.run = 0
  BY DEF NoTask
<1>1. ASSUME NEW list \in SeedLists, Run(list) PROVE Located'
  BY <1>1, <1>s DEF Run, Located, TypeOK, Awaited
<1>2. CASE Quiesce
  BY <1>2 DEF Quiesce, Located, Awaited
<1>3. CASE Skip
  BY <1>3 DEF Skip, Located, Awaited
<1>4. CASE FilterRaises
  BY <1>4 DEF FilterRaises, Located, Awaited
<1>5. CASE Deliver
  <2> DEFINE matching == Matching(log'[Len(log')])
             starting == Starting(matching)
  <2>1. /\ pc = "loop" /\ run' = run
        /\ task' = [i \in SubIds |->
                      IF i \in starting
                      THEN [status |-> "running", run |-> run, trigger |-> Len(log'),
                            outbox |-> <<>>, saved |-> injected[Agent(i)]]
                      ELSE task[i]]
        /\ pc' = IF starting = matching THEN "gather" ELSE "raised"
        /\ UNCHANGED config
    BY <1>5 DEF Deliver
  <2>2. Position' = Position + 1 /\ Position' = Len(log')
    BY <1>5, Popped DEF Deliver, Position
  <2>3. \A i \in SubIds : task[i].status \notin {"ended", "failed"} /\ task[i].run # run
    BY <2>1 DEF Located, Awaited
  <2>4. matching \subseteq SubIds /\ matching = Matching(log[Position])'
    BY <1>m, <1>k, <2>1 DEF Position
  <2> HIDE DEF starting, matching
  <2>5. \A i \in SubIds :
           IF i \in starting
           THEN task'[i].status = "running" /\ task'[i].run = run /\ task'[i].trigger = Position'
           ELSE task'[i] = task[i]
    BY <2>1, <2>2
  <2>6. pc' # "loop" /\ pc' # "done"
    BY <2>1
  <2> QED BY <1>s, <2>1, <2>2, <2>3, <2>4, <2>5, <2>6 DEF Located, Mine, TypeOK
<1>6. CASE Collect
  <2>1. /\ pc = "gather" /\ pc' \in {"loop", "done"} /\ run' = run
        /\ task' = [i \in SubIds |-> IF Mine(i) THEN NoTask ELSE task[i]]
    BY <1>6 DEF Collect
  <2>2. \A i \in SubIds : ~Mine(i) => task[i].run # run /\ task[i].status \notin {"ended", "failed"}
    BY <2>1 DEF Located, Awaited
  <2>3. run \in Nat /\ run > 0 /\ \A i \in SubIds : task[i].run <= run
    BY <2>1 DEF Located, TypeOK
  <2>4. \A i \in SubIds : IF Mine(i) THEN task'[i].run = 0 /\ task'[i].status = "none"
                          ELSE task'[i] = task[i]
    BY <1>0, <2>1
  <2>5. \A i \in SubIds : /\ task'[i].run <= run /\ task'[i].run # run
                          /\ task'[i].status \notin {"ended", "failed"}
    BY <2>2, <2>3, <2>4
  <2> QED BY <2>1, <2>3, <2>5 DEF Located
<1>7. CASE Cancel
  <2>1. UNCHANGED <<config, pc, run, log, task>>
    BY <1>7 DEF Cancel
  <2> QED BY <2>1 DEF Located, Awaited, Mine, Position, Matching
<1>8. ASSUME NEW i \in SubIds, NEW status \in {"ended", "failed"},
             task' = [task EXCEPT ![i] = Ended(i, status)],
             UNCHANGED <<config, pc, run, log>>, Running(i)
      PROVE  Located'
  <2>1. /\ \A j \in SubIds \ {i} : task'[j] = task[j]
        /\ task'[i] = Ended(i, status)
        /\ Position' = Position
    BY <1>8 DEF TypeOK, Position
  <2>2. IF Awaited(i) THEN task'[i].status = status /\ task'[i].run = task[i].run
                           /\ task'[i].trigger = task[i].trigger
        ELSE task'[i].status = "none" /\ task'[i].run = 0
    BY <1>0, <1>s, <2>1 DEF Ended, Tasks
  <2>3. ~Awaited(i) /\ pc = "gather" => i \notin Matching(log[Position])
    BY DEF Located, Awaited
  <2>4. Matching(log[Position])' = Matching(log[Position])
    BY <1>8 DEF Matching, Position
  <2>5. ASSUME NEW j \in SubIds PROVE task'[j].run <= run /\ task'[j].run \in Nat
    BY <1>s, <2>1, <2>2 DEF Located, TypeOK
  <2>6. ASSUME NEW j \in SubIds, task'[j].status \in {"ended", "failed"} PROVE Awaited(j)'
    BY <1>8, <2>1, <2>2, <2>6 DEF Located, Awaited, Mine
  <2>7. ASSUME pc = "gather", NEW j \in SubIds
        PROVE  IF j \in Matching(log[Position]) THEN Mine(j)' /\ task'[j].status # "none"
               ELSE task'[j].run # run
    <3>1. CASE j # i
      BY <1>8, <2>1, <2>7, <3>1 DEF Located, Mine
    <3>2. CASE j = i /\ Awaited(i)
      <4>1. i \in Matching(log[Position])
        BY <3>2, <2>7 DEF Located, Awaited, Mine
      <4> QED BY <1>8, <2>1, <2>2, <3>2, <4>1 DEF Awaited, Mine
    <3>3. CASE j = i /\ ~Awaited(i)
      BY <2>2, <2>3, <2>7, <3>3 DEF Located, TypeOK
    <3> QED BY <3>1, <3>2, <3>3
  <2>8. ASSUME pc \in {"loop", "done"}, NEW j \in SubIds PROVE task'[j].run # run
    <3>1. task[j].run # run /\ run > 0 /\ ~Awaited(i)
      BY <2>8 DEF Located, Awaited
    <3> QED BY <2>1, <2>2, <3>1
  <2> QED BY <1>8, <2>1, <2>4, <2>5, <2>6, <2>7, <2>8 DEF Located
<1>9. ASSUME NEW i \in SubIds, AgentEnds(i) \/ AgentRaises(i) PROVE Located'
  BY <1>8, <1>9 DEF AgentEnds, AgentRaises
<1>10. ASSUME NEW i \in SubIds, AgentSuspends(i) PROVE Located'
  <2>1. /\ run' = run /\ UNCHANGED <<config, log>> /\ Position' = Position /\ Running(i)
        /\ pc' = IF Awaited(i) THEN "raised" ELSE pc
        /\ \A j \in SubIds : task'[j] = IF j = i \/ (Awaited(i) /\ ~Running(j)) THEN NoTask ELSE task[j]
    BY <1>10 DEF AgentSuspends, Position
  <2>2. Matching(log[Position])' = Matching(log[Position])
    BY <2>1 DEF Matching
  <2>3. \A j \in SubIds : task'[j].run <= run
    <3>1. run \in Nat /\ \A j \in SubIds : task[j].run <= run
      BY DEF Located, TypeOK
    <3>2. \A j \in SubIds : task'[j] = NoTask \/ task'[j] = task[j]
      BY <2>1
    <3> QED BY <1>0, <3>1, <3>2
  <2>4. CASE Awaited(i)
    <3>1. \A j \in SubIds : task'[j].status \notin {"ended", "failed"}
      BY <1>0, <1>s, <2>1, <2>4 DEF Running, Tasks, Statuses
    <3> QED BY <2>1, <2>3, <2>4, <3>1 DEF Located, Awaited
  <2>5. CASE ~Awaited(i)
    <3>1. pc' = pc /\ \A j \in SubIds : task'[j] = IF j = i THEN NoTask ELSE task[j]
      BY <2>1, <2>5
    <3>2. pc = "gather" => i \notin Matching(log[Position])
      BY <2>5 DEF Located, Awaited
    <3>3. \A j \in SubIds \ {i} : task'[j] = task[j] /\ (Mine(j)' <=> Mine(j))
      BY <2>1, <3>1 DEF Mine
    <3>4. task'[i].run = 0 /\ task'[i].status = "none" /\ (pc # "idle" => run # 0)
      BY <1>0, <3>1 DEF Located, TypeOK
    <3> QED BY <2>1, <2>2, <2>3, <3>1, <3>2, <3>3, <3>4 DEF Located, Awaited
  <2> QED BY <2>4, <2>5
<1>11. ASSUME NEW i \in SubIds, NEW topic \in Topics, Publish(i, topic) PROVE Located'
  <2>1. \A j \in SubIds : /\ task'[j].status = task[j].status
                          /\ task'[j].run = task[j].run /\ task'[j].trigger = task[j].trigger
    BY <1>11 DEF Publish, TypeOK, Tasks
  <2>2. UNCHANGED <<config, pc, run, log>>
    BY <1>11 DEF Publish
  <2> QED BY <2>1, <2>2 DEF Located, Awaited, Mine, Position, Matching
<1>12. CASE UNCHANGED vars
  BY <1>12 DEF vars, Located, Awaited, Mine, Position, Matching
<1> QED
  BY <1>1, <1>2, <1>3, <1>4, <1>5, <1>6, <1>7, <1>9, <1>10, <1>11, <1>12
     DEF Next, Bus, AgentStep

\* Every variable has its type, whatever the subscriptions, seeds and limits.
THEOREM TypeCorrect == Spec => []TypeOK
BY InitTypeOK, TypeStep, InitLocated, LocatedStep, PTL DEF Spec

----------------------------------------------------------------------------
(* The shared agents.                                                      *)

\* An execution found its agent without injections, and leaves it so.
Restored == \A i \in SubIds : Running(i) => task[i].saved = <<>>

Shared == AgentsAsConfigured /\ Restored

\* The agents are as configured initially ...
LEMMA InitShared == Init => Shared
BY DEF Init, Shared, AgentsAsConfigured, Restored, Running, NoTask, Agents

\* ... whoever ends takes out what it injected, and nothing else changes ...
LEMMA EjectStep ==
    ASSUME TypeOK, Shared, NEW i \in SubIds, Running(i), Eject(i),
           ~Running(i)',
           \A j \in SubIds \ {i} : task'[j] = task[j] \/ (~Running(j) /\ ~Running(j)')
    PROVE  Shared'
<1>1. registered' = registered \ {Agent(i)}
      /\ injected' = [injected EXCEPT ![Agent(i)] = <<>>]
  BY DEF Eject, Shared, Restored
<1>2. \A j \in SubIds : Running(j)' <=> Running(j) /\ j # i
  BY DEF Running
<1>3. \A j \in SubIds : j # i /\ Running(j) => task'[j] = task[j] /\ Agent(j) # Agent(i)
  BY DEF Shared, AgentsAsConfigured, Running, Agents
<1>4. Restored'
  BY <1>2, <1>3 DEF Shared, Restored, Running
<1>5. AgentsAsConfigured'
  BY <1>1, <1>2, <1>3 DEF Shared, AgentsAsConfigured, TypeOK, Agents
<1> QED BY <1>4, <1>5 DEF Shared

\* ... and so does every step of the bus.
LEMMA SharedStep == TypeOK /\ Shared /\ [Next]_vars => Shared'
<1> SUFFICES ASSUME TypeOK, Shared, [Next]_vars PROVE Shared'
  OBVIOUS
<1> USE DEF config, agents, results, history
<1>1. ASSUME NEW list \in SeedLists, Run(list) PROVE Shared'
  BY <1>1 DEF Run, Shared, AgentsAsConfigured, Restored, Running
<1>2. CASE Quiesce
  BY <1>2 DEF Quiesce, Shared, AgentsAsConfigured, Restored, Running
<1>3. CASE Skip
  BY <1>3 DEF Skip, Shared, AgentsAsConfigured, Restored, Running
<1>4. CASE FilterRaises
  BY <1>4 DEF FilterRaises, Shared, AgentsAsConfigured, Restored, Running
<1>5. CASE Deliver
  <2> DEFINE matching == Matching(log'[Len(log')])
             starting == Starting(matching)
  <2>1. starting \subseteq SubIds /\ SubIds \subseteq Nat
    BY SubsAssumption DEF Starting, Matching, SubIds
  <2>2. /\ \A i \in starting : Agent(i) \in Agents /\ Agent(i) \notin registered
        /\ \A i, j \in starting : Agent(i) = Agent(j) => i = j
    BY <2>1 DEF Starting, Agents
  <2>3. \A i \in starting : ~Running(i) /\ injected[Agent(i)] = <<>>
    BY <2>1, <2>2 DEF Shared, AgentsAsConfigured
  <2>4. /\ task' = [i \in SubIds |->
                      IF i \in starting
                      THEN [status |-> "running", run |-> run, trigger |-> Len(log'),
                            outbox |-> <<>>, saved |-> injected[Agent(i)]]
                      ELSE task[i]]
        /\ registered' = registered \cup {Agent(i) : i \in starting}
        /\ injected' = [a \in Agents |->
                          IF \E i \in starting : Agent(i) = a
                          THEN Append(injected[a], CHOOSE i \in starting : Agent(i) = a)
                          ELSE injected[a]]
    BY <1>5 DEF Deliver
  <2> HIDE DEF starting
  <2>5. /\ \A i \in SubIds : Running(i)' <=> Running(i) \/ i \in starting
        /\ \A i \in SubIds : Running(i) => task'[i] = task[i]
    BY <2>1, <2>3, <2>4 DEF Running
  <2>6. Restored'
    BY <2>3, <2>4, <2>5 DEF Shared, Restored, Running
  <2>7. ASSUME NEW a \in Agents, NEW k \in starting, Agent(k) = a
        PROVE  injected'[a] = <<k>>
    <3>1. (CHOOSE i \in starting : Agent(i) = a) = k
      BY <2>2, <2>7
    <3>2. injected'[a] = Append(injected[a], k)
      BY <2>4, <2>7, <3>1
    <3>3. injected[a] = <<>>
      BY <2>3, <2>7
    <3> QED BY <3>2, <3>3
  <2>8. AgentsAsConfigured'
    <3> SUFFICES ASSUME NEW a \in Agents
                 PROVE  LET running == {i \in SubIds : Running(i)' /\ Agent(i) = a}
                        IN /\ \A i, j \in running : i = j
                           /\ a \in registered' <=> running # {}
                           /\ running = {} => injected'[a] = <<>>
                           /\ \A i \in running : injected'[a] = <<i>>
      BY DEF AgentsAsConfigured
    <3>1. CASE \E k \in starting : Agent(k) = a
      BY <3>1, <2>1, <2>2, <2>4, <2>5, <2>7 DEF Shared, AgentsAsConfigured
    <3>2. CASE ~ \E k \in starting : Agent(k) = a
      BY <3>2, <2>1, <2>4, <2>5 DEF Shared, AgentsAsConfigured
    <3> QED BY <3>1, <3>2
  <2> QED BY <2>6, <2>8 DEF Shared
<1>6. CASE Collect
  <2>1. \A i \in SubIds : task'[i] = task[i] \/ (~Running(i) /\ ~Running(i)')
    BY <1>6 DEF Collect, Gathered, Running, NoTask, TypeOK
  <2>2. \A i \in SubIds : /\ Running(i)' <=> Running(i)
                          /\ Running(i) => task'[i] = task[i]
    BY <2>1 DEF Running
  <2>3. UNCHANGED agents
    BY <1>6 DEF Collect
  <2> QED BY <2>2, <2>3 DEF Shared, AgentsAsConfigured, Restored
<1>7. CASE Cancel
  BY <1>7 DEF Cancel, Shared, AgentsAsConfigured, Restored, Running
<1>8. ASSUME NEW i \in SubIds, AgentEnds(i) PROVE Shared'
  <2>1. ~Running(i)' /\ \A j \in SubIds \ {i} : task'[j] = task[j]
    BY <1>8 DEF AgentEnds, Running, Ended, NoTask, TypeOK, Tasks
  <2> QED BY <1>8, <2>1, EjectStep DEF AgentEnds
<1>9. ASSUME NEW i \in SubIds, AgentRaises(i) PROVE Shared'
  <2>1. ~Running(i)' /\ \A j \in SubIds \ {i} : task'[j] = task[j]
    BY <1>9 DEF AgentRaises, Running, Ended, NoTask, TypeOK, Tasks
  <2> QED BY <1>9, <2>1, EjectStep DEF AgentRaises
<1>10. ASSUME NEW i \in SubIds, AgentSuspends(i) PROVE Shared'
  <2>1. /\ ~Running(i)'
        /\ \A j \in SubIds \ {i} : task'[j] = task[j] \/ (~Running(j) /\ ~Running(j)')
    BY <1>10 DEF AgentSuspends, Running, NoTask, TypeOK, Tasks
  <2> QED BY <1>10, <2>1, EjectStep DEF AgentSuspends
<1>11. ASSUME NEW i \in SubIds, NEW topic \in Topics, Publish(i, topic) PROVE Shared'
  <2>1. \A j \in SubIds : /\ task'[j].status = task[j].status
                          /\ task'[j].saved = task[j].saved
    BY <1>11 DEF Publish, TypeOK, Tasks
  <2> QED BY <1>11, <2>1 DEF Publish, Shared, AgentsAsConfigured, Restored, Running
<1>12. CASE UNCHANGED vars
  BY <1>12 DEF vars, Shared, AgentsAsConfigured, Restored, Running
<1> QED
  BY <1>1, <1>2, <1>3, <1>4, <1>5, <1>6, <1>7, <1>8, <1>9, <1>10, <1>11, <1>12
     DEF Next, Bus, AgentStep

\* However deliveries, failing and suspending executions, raising runs and new runs
\* interleave: an agent has at most one execution, carries exactly its injections, and
\* none when it has none.
THEOREM AgentsCorrect == Spec => []AgentsAsConfigured
<1>1. Shared => AgentsAsConfigured
  BY DEF Shared
<1> QED
  BY <1>1, InitTypeOK, TypeStep, InitLocated, LocatedStep, InitShared, SharedStep, PTL DEF Spec

----------------------------------------------------------------------------
(* The cap and the token.                                                  *)

\* In the loop no delivery has reached the cap or began under a set token; the one
\* that does is at the current position, and the bus stops behind it.
LastDelivery ==
    /\ pc = "loop" => lateDeliveries = {} /\ \A p \in delivered : p < MaxMessages
    /\ pc = "gather" => lateDeliveries = {} \/ token = "set"
    /\ lateDeliveries \subseteq {Position}
    /\ \A p \in delivered : p >= MaxMessages => p = Position

\* Nothing is delivered initially ...
LEMMA InitLastDelivery == Init => LastDelivery
BY DEF Init, LastDelivery

\* ... and a delivery that reaches the cap or the token is the last.
LEMMA LastDeliveryStep == TypeOK /\ LastDelivery /\ [Next]_vars => LastDelivery'
<1> SUFFICES ASSUME TypeOK, LastDelivery, [Next]_vars PROVE LastDelivery'
  OBVIOUS
<1> USE LimitAssumption DEF config, agents, results, history
<1>s. Position \in Nat
  BY LenProperties DEF TypeOK, Position
<1>1. ASSUME NEW list \in SeedLists, Run(list) PROVE LastDelivery'
  BY <1>1 DEF Run, LastDelivery
<1>2. CASE Quiesce
  BY <1>2 DEF Quiesce, LastDelivery, Position
<1>3. CASE Skip
  BY <1>3, <1>s, Popped DEF Skip, LastDelivery
<1>4. CASE FilterRaises
  BY <1>4, <1>s, Popped DEF FilterRaises, LastDelivery
<1>5. CASE Deliver
  <2>1. delivered' = delivered \cup {Position'} /\ Position' \in Nat
    BY <1>5, <1>s, Popped DEF Deliver, Position
  <2>2. lateDeliveries' = IF token = "set" THEN {Position'} ELSE {}
    BY <1>5 DEF Deliver, LastDelivery, Position
  <2>3. pc' \in {"gather", "raised"} /\ token' = token
    BY <1>5 DEF Deliver
  <2>4. \A p \in delivered : ~(p >= MaxMessages)
    BY <1>5 DEF Deliver, LastDelivery, TypeOK
  <2> QED BY <2>1, <2>2, <2>3, <2>4 DEF LastDelivery
<1>6. CASE Collect
  <2>1. reason' = "none" => Position < MaxMessages /\ token # "set"
    BY <1>6, <1>s DEF Collect, Stop
  <2> QED BY <1>6, <2>1, <1>s, LenProperties DEF Collect, LastDelivery, Position, TypeOK
<1>7. CASE Cancel
  BY <1>7 DEF Cancel, LastDelivery, Position
<1>8. ASSUME NEW i \in SubIds, AgentEnds(i) PROVE LastDelivery'
  BY <1>8 DEF AgentEnds, LastDelivery, Position
<1>9. ASSUME NEW i \in SubIds, AgentRaises(i) PROVE LastDelivery'
  BY <1>9 DEF AgentRaises, LastDelivery, Position
<1>10. ASSUME NEW i \in SubIds, AgentSuspends(i) PROVE LastDelivery'
  BY <1>10 DEF AgentSuspends, LastDelivery, Position, Awaited
<1>11. ASSUME NEW i \in SubIds, NEW topic \in Topics, Publish(i, topic) PROVE LastDelivery'
  BY <1>11 DEF Publish, LastDelivery, Position
<1>12. CASE UNCHANGED vars
  BY <1>12 DEF vars, LastDelivery, Position
<1> QED
  BY <1>1, <1>2, <1>3, <1>4, <1>5, <1>6, <1>7, <1>8, <1>9, <1>10, <1>11, <1>12
     DEF Next, Bus, AgentStep

\* A set of at most one element.
LEMMA AtMostOne == ASSUME NEW x, NEW S \in SUBSET {x} PROVE Cardinality(S) <= 1
<1>1. IsFiniteSet({x}) /\ Cardinality({x}) = 1
  BY FS_Singleton
<1>2. IsFiniteSet(S) /\ Cardinality(S) <= Cardinality({x})
  BY <1>1, FS_Subset
<1> QED BY <1>1, <1>2

\* Past max_messages processed messages, or once the token is set, a run makes at
\* most one more delivery - also after messages that matched nobody skipped the checks.
THEOREM StopsCorrect == Spec => []StopsArePrompt
<1>1. ASSUME TypeOK, LastDelivery PROVE StopsArePrompt
  <2>1. {p \in delivered : p >= MaxMessages} \in SUBSET {Position}
    BY <1>1 DEF LastDelivery
  <2>2. lateDeliveries \in SUBSET {Position}
    BY <1>1 DEF LastDelivery
  <2> QED BY <2>1, <2>2, AtMostOne DEF StopsArePrompt
<1> QED
  BY <1>1, InitTypeOK, TypeStep, InitLocated, LocatedStep, InitLastDelivery, LastDeliveryStep,
     PTL DEF Spec
----------------------------------------------------------------------------
(* Deliveries and their order.                                             *)

\* The messages whose deliveries are over.
Settled == IF pc = "gather" THEN Position - 1 ELSE Position

OfRun == pc \in {"loop", "gather", "done"}

\* The outcome e is one of subscription i for the message at position p.
For(e, p, i) == e.trigger = p /\ e.sub = i

\* Each outcome is of a delivery that is over, for a subscription that wants its
\* message; each such pair has one.
Accounted ==
    OfRun =>
        /\ \A k \in DOMAIN executions : \A p \in Nat, i \in SubIds :
              For(executions[k], p, i) => p \in 1..Settled /\ Wants(i, log[p])
        /\ \A k \in DOMAIN failed : \A p \in Nat, i \in SubIds :
              For(failed[k], p, i) => p \in 1..Settled /\ Wants(i, log[p])
        /\ \A p \in 1..Settled, i \in SubIds :
              /\ \A k, l \in DOMAIN executions :
                    For(executions[k], p, i) /\ For(executions[l], p, i) => k = l
              /\ \A k, l \in DOMAIN failed : For(failed[k], p, i) /\ For(failed[l], p, i) => k = l
              /\ \A k \in DOMAIN executions, l \in DOMAIN failed :
                    ~(For(executions[k], p, i) /\ For(failed[l], p, i))
              /\ Wants(i, log[p]) => \/ \E k \in DOMAIN executions : For(executions[k], p, i)
                                     \/ \E k \in DOMAIN failed : For(failed[k], p, i)

\* Log and queue, one behind the other, are in the order of causes; what waits was
\* caused by a delivery that is over.
Ordered ==
    /\ \A p, q \in DOMAIN log : p < q => Before(Key(log[p]), Key(log[q]))
    /\ \A p \in DOMAIN log, k \in DOMAIN queue : Before(Key(log[p]), Key(queue[k]))
    /\ \A k, l \in DOMAIN queue : k < l => Before(Key(queue[k]), Key(queue[l]))
    /\ \A p \in DOMAIN log : log[p].parent < p
    /\ \A k \in DOMAIN queue : queue[k].parent <= Settled

\* A message that an execution of this run published.
Due(m) == \E k \in DOMAIN executions : \E n \in DOMAIN executions[k].published :
              m = executions[k].published[n]
IsSeed(m) == \E n \in DOMAIN seeds : m = Seed(seeds[n], n)
Known(m) == (\E p \in DOMAIN log : log[p] = m) \/ (\E k \in DOMAIN queue : queue[k] = m)

\* Log and queue hold what executions published down to the depth limit, and the
\* seeds of this run.
Passed ==
    /\ \A p \in DOMAIN log : log[p].depth > 0 => Due(log[p]) /\ NotTooDeep(log[p])
    /\ \A k \in DOMAIN queue : queue[k].depth > 0 => Due(queue[k]) /\ NotTooDeep(queue[k])
    /\ \A m \in Messages : Due(m) => m.depth > 0 /\ (NotTooDeep(m) => Known(m))
    /\ \A p \in DOMAIN log : log[p].depth = 0 => IsSeed(log[p])
    /\ \A k \in DOMAIN queue : queue[k].depth = 0 => IsSeed(queue[k])
    /\ \A n \in DOMAIN seeds : Known(Seed(seeds[n], n))
    /\ pc = "done" /\ reason = "quiescence" => queue = <<>>

\* Matching is what the property calls wanting.
LEMMA MatchingWants ==
    ASSUME TypeOK, NEW m, NEW i \in SubIds
    PROVE  i \in Matching(m) <=> Wants(i, m)
<1>1. allowSelf \in {"yes", "no"}
  BY DEF TypeOK
<1> QED BY <1>1 DEF Matching, Wants

\* An agent's step, a cancellation or a stutter moves no message and no result.
Elsewhere ==
    /\ UNCHANGED <<allowSelf, seeds, queue, log, executions, failed>>
    /\ \/ UNCHANGED <<pc, reason>>
       \/ pc = "gather" /\ pc' = "raised"

\* The steps of a run that go elsewhere.
LEMMA GoesElsewhere ==
    ASSUME \/ Cancel \/ UNCHANGED vars
           \/ \E i \in SubIds : AgentStep(i) \/ \E t \in Topics : Publish(i, t)
    PROVE  Elsewhere
<1> USE DEF config, agents, results, history, Elsewhere
<1>1. CASE Cancel
  BY <1>1 DEF Cancel
<1>2. CASE UNCHANGED vars
  BY <1>2 DEF vars
<1>3. ASSUME NEW i \in SubIds, AgentEnds(i) \/ AgentRaises(i) PROVE Elsewhere
  BY <1>3 DEF AgentEnds, AgentRaises
<1>4. ASSUME NEW i \in SubIds, AgentSuspends(i) PROVE Elsewhere
  BY <1>4 DEF AgentSuspends, Awaited
<1>5. ASSUME NEW i \in SubIds, NEW t \in Topics, Publish(i, t) PROVE Elsewhere
  BY <1>5 DEF Publish
<1> QED BY <1>1, <1>2, <1>3, <1>4, <1>5 DEF AgentStep

\* A step of the specification, by what it does to messages and results.
LEMMA StepCases ==
    ASSUME [Next]_vars
    PROVE  \/ \E s \in SeedLists : Run(s)
           \/ Quiesce \/ Skip \/ Deliver \/ FilterRaises \/ Collect \/ Elsewhere
BY GoesElsewhere DEF Next, Bus

\* Outcomes added to those of earlier deliveries: new has those of ex, and one for
\* each execution with the status.
Grown(ex, new, status) ==
    /\ \A k \in DOMAIN ex : k \in DOMAIN new /\ new[k] = ex[k]
    /\ \A k \in DOMAIN new : \A p, i : For(new[k], p, i) =>
          \/ p # Position /\ k \in DOMAIN ex /\ new[k] = ex[k]
          \/ p = Position /\ i \in Ends(status)
    /\ \A k, l \in DOMAIN new : \A i :
          For(new[k], Position, i) /\ For(new[l], Position, i) => k = l
    /\ \A i \in Ends(status) : \E k \in DOMAIN new : For(new[k], Position, i)

\* Outcomes appended in an order are such.
LEMMA ResultsGrow ==
    ASSUME NEW ex \in Seq(Execs), NEW status,
           NEW order \in Seq(Ends(status)), OutcomesOf(order) \in Seq(Execs),
           \A k, l \in DOMAIN order : order[k] = order[l] => k = l,
           \A i \in Ends(status) : \E k \in DOMAIN order : order[k] = i,
           \A k \in DOMAIN ex : ex[k].trigger # Position
    PROVE  Grown(ex, ex \o OutcomesOf(order), status)
<1> DEFINE n == Len(ex)
           out == OutcomesOf(order)
           new == ex \o out
<1>1. /\ DOMAIN new = 1..(n + Len(out)) /\ n \in Nat /\ Len(out) \in Nat
      /\ DOMAIN ex = 1..n /\ DOMAIN out = 1..Len(out)
      /\ \A k \in DOMAIN ex : new[k] = ex[k]
      /\ \A k \in DOMAIN out : new[n + k] = out[k]
      /\ \A k \in DOMAIN new : k \notin DOMAIN ex => k - n \in DOMAIN out /\ new[k] = out[k - n]
  BY Concatenated
<1>2. /\ DOMAIN out = DOMAIN order
      /\ \A k \in DOMAIN order : /\ out[k] = Outcome(order[k]) /\ order[k] \in Ends(status)
                                 /\ out[k].trigger = Position /\ out[k].sub = order[k]
  <2>1. \A i \in Ends(status) : Outcome(i).trigger = Position /\ Outcome(i).sub = i
    BY DEF Outcome
  <2>2. \A k \in DOMAIN order : order[k] \in Ends(status)
    OBVIOUS
  <2> QED BY <2>1, <2>2 DEF OutcomesOf
<1> HIDE DEF n, out, new
<1>3. \A k \in DOMAIN ex : k \in DOMAIN new /\ new[k] = ex[k]
  BY <1>1
<1>4. \A k \in DOMAIN new : IF k \in DOMAIN ex THEN new[k] = ex[k] /\ new[k].trigger # Position
                            ELSE /\ k - n \in DOMAIN order /\ new[k].trigger = Position
                                 /\ new[k].sub = order[k - n]
  BY <1>1, <1>2
<1>5. \A k \in DOMAIN new : \A p, i : For(new[k], p, i) =>
         \/ p # Position /\ k \in DOMAIN ex /\ new[k] = ex[k]
         \/ p = Position /\ i \in Ends(status)
  BY <1>2, <1>4 DEF For
<1>6. ASSUME NEW k \in DOMAIN new, NEW l \in DOMAIN new, NEW i,
             For(new[k], Position, i), For(new[l], Position, i)
      PROVE  k = l
  <2>1. k - n \in DOMAIN order /\ l - n \in DOMAIN order /\ order[k - n] = order[l - n]
    BY <1>4, <1>6 DEF For
  <2>2. k - n = l - n
    BY <2>1
  <2> QED BY <1>1, <2>2
<1>7. ASSUME NEW i \in Ends(status) PROVE \E k \in DOMAIN new : For(new[k], Position, i)
  <2>1. PICK j \in DOMAIN order : order[j] = i
    OBVIOUS
  <2>2. j \in DOMAIN out /\ out[j].trigger = Position /\ out[j].sub = i
    BY <1>2, <2>1
  <2>3. n + j \in DOMAIN new /\ new[n + j] = out[j]
    BY <1>1, <2>2
  <2> QED BY <2>2, <2>3 DEF For
<1>8. Grown(ex, new, status)
  BY <1>3, <1>5, <1>6, <1>7 DEF Grown
<1> QED BY <1>8 DEF new, out

\* No outcome is there initially ...
LEMMA InitAccounted == Init => Accounted
BY DEF Init, Accounted, OfRun

\* ... a message nobody wants has none, and a delivery adds one for each subscription
\* that wants its message, as its executions are exactly those of the matches.
LEMMA AccountedStep == TypeOK /\ Located /\ Accounted /\ [Next]_vars => Accounted'
<1> SUFFICES ASSUME TypeOK, Located, Accounted, [Next]_vars PROVE Accounted'
  OBVIOUS
<1> USE DEF config, agents, results, history
<1>w. UNCHANGED allowSelf => \A m : \A i \in SubIds : Wants(i, m)' <=> Wants(i, m)
  BY DEF Wants
<1>1. ASSUME NEW list \in SeedLists, Run(list) PROVE Accounted'
  <2>1. executions' = <<>> /\ failed' = <<>> /\ Settled' = 0
    BY <1>1, EmptySeq DEF Run, Settled, Position
  <2> QED BY <2>1 DEF Accounted
<1>2. CASE Elsewhere \/ Quiesce
  <2>1. UNCHANGED <<allowSelf, log, executions, failed>>
    BY <1>2 DEF Elsewhere, Quiesce
  <2>2. CASE OfRun'
    <3>1. OfRun /\ Settled' = Settled
      BY <1>2, <2>1, <2>2 DEF Elsewhere, Quiesce, OfRun, Settled, Position
    <3> QED BY <1>w, <2>1, <3>1 DEF Accounted
  <2> QED BY <2>2 DEF Accounted
<1>3. CASE FilterRaises
  BY <1>3 DEF FilterRaises, Accounted, OfRun
<1>4. CASE Skip \/ Deliver
  <2>1. /\ pc = "loop" /\ UNCHANGED <<allowSelf, executions, failed>>
        /\ \A p \in 1..Position : log'[p] = log[p]
        /\ Position \in Nat /\ Position' = Position + 1 /\ Settled = Position
    BY <1>4, Popped DEF Skip, Deliver, Settled
  <2>2. CASE pc' = "gather"
    <3>1. Settled' = Position
      BY <2>1, <2>2 DEF Settled
    <3> QED BY <1>w, <2>1, <3>1 DEF Accounted, OfRun
  <2>3. CASE Skip
    <3>1. Settled' = Position + 1
      BY <2>1, <2>3 DEF Skip, Settled
    <3>2. \A i \in SubIds : ~Wants(i, log'[Position + 1])
      <4>1. Matching(log'[Position + 1]) = {}
        BY <2>1, <2>3 DEF Skip, Position
      <4> QED BY <4>1, MatchingWants
    <3>3. 1..(Position + 1) = (1..Position) \cup {Position + 1}
      BY <2>1
    <3>4. Accounted!2
      BY <2>1 DEF Accounted, OfRun
    <3> QED BY <1>w, <2>1, <3>1, <3>2, <3>3, <3>4 DEF Accounted
  <2> QED BY <1>4, <2>2, <2>3 DEF Deliver, Accounted, OfRun
<1>5. CASE Collect
  <2>1. /\ pc = "gather" /\ pc' \in {"loop", "done"} /\ UNCHANGED <<allowSelf, log>> /\ Gathered
    BY <1>5 DEF Collect
  <2>2. Position \in Nat /\ Position > 0 /\ Settled = Position - 1 /\ Settled' = Position
    BY <2>1 DEF Located, TypeOK, Settled, Position
  <2>3. /\ \A k \in DOMAIN executions : executions[k].trigger # Position
        /\ \A k \in DOMAIN failed : failed[k].trigger # Position
    <3>1. \A k \in DOMAIN executions : executions[k] \in Execs
      BY DEF TypeOK
    <3>2. \A k \in DOMAIN failed : failed[k] \in Execs
      BY DEF TypeOK
    <3> QED BY <2>1, <2>2, <3>1, <3>2 DEF Accounted, OfRun, For, Execs
  <2>4. PICK ended \in Seq(Ends("ended")), lost \in Seq(Ends("failed")) :
              /\ executions' = executions \o OutcomesOf(ended) /\ failed' = failed \o OutcomesOf(lost)
              /\ OutcomesOf(ended) \in Seq(Execs) /\ OutcomesOf(lost) \in Seq(Execs)
              /\ \A k, l \in DOMAIN ended : ended[k] = ended[l] => k = l
              /\ \A k, l \in DOMAIN lost : lost[k] = lost[l] => k = l
              /\ \A i \in Ends("ended") : \E k \in DOMAIN ended : ended[k] = i
              /\ \A i \in Ends("failed") : \E k \in DOMAIN lost : lost[k] = i
    BY <1>5, Collected
  <2>5. Grown(executions, executions', "ended")
    <3>1. executions \in Seq(Execs)
      BY DEF TypeOK
    <3>2. Grown(executions, executions \o OutcomesOf(ended), "ended")
      BY <2>3, <2>4, <3>1, ResultsGrow
    <3> QED BY <2>4, <3>2
  <2>6. Grown(failed, failed', "failed")
    <3>1. failed \in Seq(Execs)
      BY DEF TypeOK
    <3>2. Grown(failed, failed \o OutcomesOf(lost), "failed")
      BY <2>3, <2>4, <3>1, ResultsGrow
    <3> QED BY <2>4, <3>2
  <2>7. /\ \A i \in SubIds : Wants(i, log[Position]) => i \in Ends("ended") \cup Ends("failed")
        /\ \A i \in Ends("ended") \cup Ends("failed") : i \in SubIds /\ Wants(i, log[Position])
        /\ Ends("ended") \cap Ends("failed") = {}
    <3>1. \A i \in SubIds : IF i \in Matching(log[Position]) THEN Mine(i) ELSE task[i].run # run
      BY <2>1 DEF Located
    <3>2. \A i \in SubIds : Mine(i) => task[i].run = run
      BY DEF Mine
    <3>3. \A i \in SubIds : Mine(i) => task[i].status \in {"ended", "failed"}
      BY <2>1 DEF Gathered
    <3> QED BY <3>1, <3>2, <3>3, MatchingWants DEF Ends
  <2>8. 1..Position = (1..(Position - 1)) \cup {Position} /\ Position \notin 1..(Position - 1)
    BY <2>2
  <2>9. Accounted!2
    BY <2>1 DEF Accounted, OfRun
  <2> HIDE DEF For
  <2>10. ASSUME NEW k \in DOMAIN executions', NEW p \in Nat, NEW i \in SubIds, For(executions'[k], p, i)
         PROVE  p \in 1..Position /\ Wants(i, log[p])
    BY <2>2, <2>5, <2>7, <2>8, <2>9, <2>10 DEF Grown
  <2>11. ASSUME NEW k \in DOMAIN failed', NEW p \in Nat, NEW i \in SubIds, For(failed'[k], p, i)
         PROVE  p \in 1..Position /\ Wants(i, log[p])
    BY <2>2, <2>6, <2>7, <2>8, <2>9, <2>11 DEF Grown
  <2>12. ASSUME NEW p \in 1..Position, NEW i \in SubIds
         PROVE  /\ \A k, l \in DOMAIN executions' :
                      For(executions'[k], p, i) /\ For(executions'[l], p, i) => k = l
                /\ \A k, l \in DOMAIN failed' : For(failed'[k], p, i) /\ For(failed'[l], p, i) => k = l
                /\ \A k \in DOMAIN executions', l \in DOMAIN failed' :
                      ~(For(executions'[k], p, i) /\ For(failed'[l], p, i))
                /\ Wants(i, log[p]) => \/ \E k \in DOMAIN executions' : For(executions'[k], p, i)
                                       \/ \E k \in DOMAIN failed' : For(failed'[k], p, i)
    <3>1. CASE p = Position
      BY <2>5, <2>6, <2>7, <3>1 DEF Grown
    <3>2. CASE p # Position
      <4>1. p \in 1..(Position - 1)
        BY <2>8, <3>2
      <4> QED BY <2>2, <2>5, <2>6, <2>9, <3>2, <4>1 DEF Grown
    <3> QED BY <3>1, <3>2
  <2> QED BY <1>w, <2>1, <2>2, <2>10, <2>11, <2>12 DEF Accounted
<1> QED BY <1>1, <1>2, <1>3, <1>4, <1>5, StepCases

\* At most one, and at least one, is one.
LEMMA JustOne ==
    ASSUME NEW S, NEW x \in S, \A y \in S : y = x
    PROVE  Cardinality(S) = 1
<1>1. S = {x}
  OBVIOUS
<1> QED BY <1>1, FS_Singleton

\* However executions of a delivery interleave, fail, or meet those of a run that
\* raised: the result of a run has exactly one outcome, or failure, for each message
\* processed and subscription that wants it, and no other.
THEOREM DeliveriesCorrect == Spec => []DeliveredOnceToEachSubscriber
<1>1. ASSUME TypeOK, Accounted PROVE DeliveredOnceToEachSubscriber
  <2> SUFFICES ASSUME pc = "done", NEW p \in DOMAIN log, NEW i \in SubIds
               PROVE  Outcomes(executions, p, i) + Outcomes(failed, p, i) = IF Wants(i, log[p]) THEN 1 ELSE 0
    BY DEF DeliveredOnceToEachSubscriber
  <2>1. p \in Nat /\ p \in 1..Settled
    BY <1>1 DEF TypeOK, Settled, Position
  <2>2. Accounted!2
    BY <1>1 DEF Accounted, OfRun
  <2> DEFINE A == {k \in DOMAIN executions : For(executions[k], p, i)}
             B == {k \in DOMAIN failed : For(failed[k], p, i)}
  <2>3. Outcomes(executions, p, i) = Cardinality(A) /\ Outcomes(failed, p, i) = Cardinality(B)
    BY DEF Outcomes, For
  <2>4. /\ \A k, l \in A : k = l
        /\ \A k, l \in B : k = l
        /\ A = {} \/ B = {}
        /\ IF Wants(i, log[p]) THEN A # {} \/ B # {} ELSE A = {} /\ B = {}
    BY <2>1, <2>2
  <2> HIDE DEF A, B
  <2>5. Cardinality({}) = 0
    BY FS_EmptySet
  <2>6. A # {} => Cardinality(A) = 1
    BY <2>4, JustOne
  <2>7. B # {} => Cardinality(B) = 1
    BY <2>4, JustOne
  <2> QED BY <2>3, <2>4, <2>5, <2>6, <2>7
<1> QED
  BY <1>1, InitTypeOK, TypeStep, InitLocated, LocatedStep, InitAccounted, AccountedStep, PTL DEF Spec

----------------------------------------------------------------------------
(* Order.                                                                  *)

\* The order of causes is one.
LEMMA BeforeIsStrict ==
    ASSUME NEW a \in Messages
    PROVE  ~Before(Key(a), Key(a))
BY DEF Before, Key, Messages

\* Nothing is there initially ...
LEMMA InitOrdered == Init => Ordered
BY DEF Init, Ordered

\* ... popping a message leaves log and queue, as a whole, as they were, and those a
\* delivery adds were caused by it, behind all that wait.
LEMMA OrderedStep == TypeOK /\ Located /\ Ordered /\ [Next]_vars => Ordered'
<1> SUFFICES ASSUME TypeOK, Located, Ordered, [Next]_vars PROVE Ordered'
  OBVIOUS
<1> USE DEF config, agents, results, history
<1>s. /\ Position \in Nat /\ DOMAIN log = 1..Position
      /\ \A p \in DOMAIN log : log[p] \in Messages
      /\ \A k \in DOMAIN queue : queue[k] \in Messages /\ queue[k].parent \in Nat
      /\ DOMAIN queue \subseteq Nat
  <2>1. log \in Seq(Messages) /\ queue \in Seq(Messages)
    BY DEF TypeOK
  <2>2. /\ DOMAIN log = 1..Len(log) /\ Len(log) \in Nat
        /\ DOMAIN queue = 1..Len(queue) /\ Len(queue) \in Nat
    BY <2>1
  <2>3. /\ \A p \in DOMAIN log : log[p] \in Messages
        /\ \A k \in DOMAIN queue : queue[k] \in Messages
    BY <2>1
  <2>4. \A m \in Messages : m.parent \in Nat
    BY DEF Messages
  <2> QED BY <2>2, <2>3, <2>4 DEF Position
<1>1. ASSUME NEW list \in SeedLists, Run(list) PROVE Ordered'
  <2>1. log' = <<>> /\ Settled' = 0 /\ DOMAIN queue' = DOMAIN list
    BY <1>1, EmptySeq DEF Run, Settled, Position
  <2>2. DOMAIN list = 1..Len(list) /\ Len(list) \in Nat
    BY SeedsAssumption
  <2>3. \A k \in DOMAIN queue' : queue'[k] = Seed(list[k], k)
    BY <1>1 DEF Run
  <2>4. \A k \in DOMAIN queue' : Key(queue'[k]) = <<0, 0, k>> /\ queue'[k].parent = 0
    BY <2>3 DEF Seed, Key
  <2>5. \A k, l \in DOMAIN queue' : k < l => Before(Key(queue'[k]), Key(queue'[l]))
    BY <2>4 DEF Before
  <2>6. DOMAIN log' = {}
    BY <2>1
  <2> QED BY <2>1, <2>4, <2>5, <2>6 DEF Ordered
<1>2. CASE Elsewhere \/ Quiesce
  <2>1. UNCHANGED <<queue, log>> /\ Position' = Position
    BY <1>2 DEF Elsewhere, Quiesce, Position
  <2>2. Settled <= Settled' /\ Settled \in Int /\ Settled' \in Int
    BY <1>2, <1>s, <2>1 DEF Elsewhere, Quiesce, Settled
  <2>3. \A k \in DOMAIN queue : queue[k].parent <= Settled'
    BY <1>s, <2>2 DEF Ordered
  <2> QED BY <2>1, <2>3 DEF Ordered
<1>3. CASE Skip \/ Deliver \/ FilterRaises
  <2>1. /\ pc = "loop" /\ Settled = Position
        /\ Position' = Position + 1
        /\ DOMAIN log' = 1..Position'
        /\ \A p \in 1..Position : log'[p] = log[p]
        /\ 1 \in DOMAIN queue /\ log'[Position'] = queue[1]
        /\ DOMAIN queue' \subseteq Nat \ {0}
        /\ \A k \in DOMAIN queue' : queue'[k] = queue[k + 1] /\ k + 1 \in DOMAIN queue
    BY <1>3, Popped DEF Skip, Deliver, FilterRaises, Settled
  <2>2. Settled' \in {Position, Position'}
    BY <1>s, <2>1 DEF Settled
  <2>3. \A k \in DOMAIN queue : queue[k].parent <= Position
    BY <2>1 DEF Ordered
  <2>4. \A k \in DOMAIN queue' : queue'[k].parent <= Settled'
    BY <1>s, <2>1, <2>2, <2>3
  <2>5. \A p \in DOMAIN log' : IF p = Position' THEN log'[p] = queue[1] ELSE p \in DOMAIN log /\ log'[p] = log[p]
    BY <1>s, <2>1
  <2>6. \A p \in DOMAIN log' : log'[p].parent < p
    BY <1>s, <2>1, <2>3, <2>5 DEF Ordered
  <2> HIDE DEF Before, Key
  <2>7. ASSUME NEW p \in DOMAIN log', NEW q \in DOMAIN log', p < q
        PROVE  Before(Key(log'[p]), Key(log'[q]))
    <3>1. p # Position'
      BY <1>s, <2>1, <2>7
    <3> QED BY <2>1, <2>5, <2>7, <3>1 DEF Ordered
  <2>8. ASSUME NEW p \in DOMAIN log', NEW k \in DOMAIN queue'
        PROVE  Before(Key(log'[p]), Key(queue'[k]))
    <3>1. k + 1 \in DOMAIN queue /\ queue'[k] = queue[k + 1] /\ 1 < k + 1
      BY <2>1
    <3> QED BY <2>1, <2>5, <3>1 DEF Ordered
  <2>9. ASSUME NEW k \in DOMAIN queue', NEW l \in DOMAIN queue', k < l
        PROVE  Before(Key(queue'[k]), Key(queue'[l]))
    <3>1. k + 1 \in DOMAIN queue /\ l + 1 \in DOMAIN queue /\ k + 1 < l + 1
      BY <2>1, <2>9
    <3> QED BY <2>1, <3>1 DEF Ordered
  <2> QED BY <2>4, <2>6, <2>7, <2>8, <2>9 DEF Ordered
<1>4. CASE Collect
  <2>1. /\ pc = "gather" /\ pc' \in {"loop", "done"} /\ UNCHANGED <<log>>
        /\ Position' = Position /\ Settled = Position - 1 /\ Settled' = Position
    BY <1>4 DEF Collect, Settled, Position
  <2>2. PICK sent \in Seq(Messages) :
              /\ queue' = queue \o sent
              /\ \A k \in DOMAIN sent : \E i \in Ends("ended") : \E n \in DOMAIN Outbox(i) :
                    sent[k] = Outbox(i)[n] /\ NotTooDeep(sent[k])
              /\ AsGathered(sent)
    BY <1>4, Collected
  <2>3. \A k \in DOMAIN sent : sent[k] \in Messages /\ sent[k].parent = Position
    <3>1. \A i \in Ends("ended") : i \in SubIds /\ Mine(i)
      BY DEF Ends
    <3> QED BY <2>1, <2>2, <3>1, OutboxOf
  <2>4. /\ DOMAIN queue' = 1..(Len(queue) + Len(sent)) /\ Len(queue) \in Nat /\ Len(sent) \in Nat
        /\ DOMAIN queue = 1..Len(queue) /\ DOMAIN sent = 1..Len(sent)
        /\ \A k \in DOMAIN queue : queue'[k] = queue[k]
        /\ \A k \in DOMAIN queue' : k \notin DOMAIN queue =>
              k - Len(queue) \in DOMAIN sent /\ queue'[k] = sent[k - Len(queue)]
    BY <2>2, Concatenated DEF TypeOK
  <2>5. /\ \A p \in DOMAIN log : log[p].parent < Position
        /\ \A k \in DOMAIN queue : queue[k].parent < Position
    BY <1>s, <2>1 DEF Ordered, Messages
  <2>6. \A m, x \in Messages : m.parent < x.parent => Before(Key(m), Key(x))
    BY DEF Before, Key, Messages
  <2>7. \A k, l \in DOMAIN sent : k < l => Before(Key(sent[k]), Key(sent[l]))
    BY <2>2, <2>3 DEF AsGathered, Before, Key
  <2>8. \A k \in DOMAIN queue' : IF k \in DOMAIN queue
                                 THEN queue'[k].parent < Position /\ queue'[k] \in Messages
                                 ELSE queue'[k].parent = Position /\ queue'[k] \in Messages
    BY <1>s, <2>3, <2>4, <2>5
  <2> HIDE DEF Before, Key
  <2>9. ASSUME NEW k \in DOMAIN queue' PROVE queue'[k].parent <= Settled'
    BY <1>s, <2>1, <2>8 DEF Messages
  <2>10. ASSUME NEW p \in DOMAIN log, NEW k \in DOMAIN queue'
         PROVE  Before(Key(log[p]), Key(queue'[k]))
    <3>1. CASE k \in DOMAIN queue
      BY <2>4, <3>1 DEF Ordered
    <3>2. CASE k \notin DOMAIN queue
      BY <1>s, <2>5, <2>6, <2>8, <3>2
    <3> QED BY <3>1, <3>2
  <2>11. ASSUME NEW k \in DOMAIN queue', NEW l \in DOMAIN queue', k < l
         PROVE  Before(Key(queue'[k]), Key(queue'[l]))
    <3>1. CASE l \in DOMAIN queue
      <4>1. k \in DOMAIN queue
        BY <2>4, <2>11, <3>1
      <4> QED BY <2>4, <2>11, <3>1, <4>1 DEF Ordered
    <3>2. CASE k \in DOMAIN queue /\ l \notin DOMAIN queue
      BY <2>6, <2>8, <3>2
    <3>3. CASE k \notin DOMAIN queue /\ l \notin DOMAIN queue
      <4>1. k - Len(queue) < l - Len(queue)
        BY <2>4, <2>11
      <4> QED BY <2>4, <2>7, <3>3, <4>1
    <3>4. k \notin DOMAIN queue => l \notin DOMAIN queue
      BY <2>4, <2>11
    <3> QED BY <3>1, <3>2, <3>3, <3>4
  <2> QED BY <2>1, <2>9, <2>10, <2>11 DEF Ordered
<1> QED BY <1>1, <1>2, <1>3, <1>4, StepCases

\* However the executions of a delivery interleave, messages are processed in the
\* order of their causes: of the message they answer, subscription and publish.
THEOREM OrderCorrect == Spec => []ProcessedInCausalOrder
<1>1. Ordered => ProcessedInCausalOrder
  BY DEF Ordered, ProcessedInCausalOrder
<1> QED
  BY <1>1, InitTypeOK, TypeStep, InitLocated, LocatedStep, InitOrdered, OrderedStep, PTL DEF Spec

----------------------------------------------------------------------------
(* What is processed.                                                      *)

\* Nothing is there initially ...
LEMMA InitPassed == Init => Passed
BY DEF Init, Passed, Due

\* ... a delivery queues what its executions published, down to the limit, and
\* whatever is popped is in the log.
LEMMA PassedStep == TypeOK /\ Located /\ Passed /\ [Next]_vars => Passed'
<1> SUFFICES ASSUME TypeOK, Located, Passed, [Next]_vars PROVE Passed'
  OBVIOUS
<1> USE DEF config, agents, results, history
<1>1. ASSUME NEW list \in SeedLists, Run(list) PROVE Passed'
  <2>1. /\ log' = <<>> /\ executions' = <<>> /\ pc' = "loop" /\ seeds' = list
        /\ DOMAIN queue' = DOMAIN list /\ \A k \in DOMAIN list : queue'[k] = Seed(list[k], k)
    BY <1>1 DEF Run
  <2>2. \A m : ~Due(m)'
    BY <2>1 DEF Due
  <2>3. \A k \in DOMAIN queue' : queue'[k].depth = 0
    BY <2>1 DEF Seed
  <2>4. ASSUME NEW k \in DOMAIN list, NEW m, m = Seed(list[k], k) PROVE IsSeed(m)' /\ Known(m)'
    <3>1. IsSeed(m)'
      BY <2>1, <2>4 DEF IsSeed
    <3>2. Known(m)'
      BY <2>1, <2>4 DEF Known
    <3> QED BY <3>1, <3>2
  <2> HIDE DEF Due, Known, IsSeed
  <2> QED BY <2>1, <2>2, <2>3, <2>4 DEF Passed
<1>2. CASE Elsewhere \/ Quiesce
  <2>1. UNCHANGED <<seeds, queue, log, executions>>
    BY <1>2 DEF Elsewhere, Quiesce
  <2>2. /\ \A m : Due(m)' <=> Due(m)
        /\ \A m : Known(m)' <=> Known(m)
        /\ \A m : IsSeed(m)' <=> IsSeed(m)
    BY <2>1 DEF Due, Known, IsSeed
  <2>3. pc' = "done" /\ reason' = "quiescence" => queue = <<>>
    BY <1>2 DEF Elsewhere, Quiesce, Passed
  <2> HIDE DEF Due, Known, IsSeed
  <2> QED BY <2>1, <2>2, <2>3 DEF Passed
<1>3. CASE Skip \/ Deliver \/ FilterRaises
  <2>1. /\ pc' # "done" /\ UNCHANGED <<seeds, executions>>
        /\ Position' = Position + 1 /\ Position \in Nat
        /\ DOMAIN log = 1..Position /\ DOMAIN log' = 1..Position'
        /\ \A p \in DOMAIN log : log'[p] = log[p]
        /\ 1 \in DOMAIN queue /\ log'[Position'] = queue[1]
        /\ DOMAIN queue = 1..Len(queue) /\ Len(queue) \in Nat
        /\ DOMAIN queue' = 1..(Len(queue) - 1)
        /\ \A k \in DOMAIN queue' : queue'[k] = queue[k + 1] /\ k + 1 \in DOMAIN queue
    BY <1>3, Popped DEF Skip, Deliver, FilterRaises
  <2>2. /\ \A m : Due(m)' <=> Due(m)
        /\ \A m : IsSeed(m)' <=> IsSeed(m)
    BY <2>1 DEF Due, IsSeed
  <2>3. \A p \in DOMAIN log' : p \in DOMAIN log \/ p = Position'
    BY <2>1
  <2>4. ASSUME NEW m, Known(m) PROVE Known(m)'
    <3>1. CASE \E p \in DOMAIN log : log[p] = m
      <4>1. PICK p \in DOMAIN log : log[p] = m
        BY <3>1
      <4>2. p \in DOMAIN log' /\ log'[p] = m
        BY <2>1, <4>1
      <4> QED BY <4>2 DEF Known
    <3>2. CASE \E k \in DOMAIN queue : queue[k] = m
      <4>1. PICK k \in DOMAIN queue : queue[k] = m
        BY <3>2
      <4>2. CASE k = 1
        <5>1. Position' \in DOMAIN log' /\ log'[Position'] = m
          BY <2>1, <4>1, <4>2
        <5> QED BY <5>1 DEF Known
      <4>3. CASE k # 1
        <5>1. k - 1 \in DOMAIN queue' /\ k - 1 + 1 = k
          BY <2>1, <4>1, <4>3
        <5>2. queue'[k - 1] = m
          BY <2>1, <4>1, <5>1
        <5> QED BY <5>1, <5>2 DEF Known
      <4> QED BY <4>2, <4>3
    <3> QED BY <2>4, <3>1, <3>2 DEF Known
  <2>5. \A n \in DOMAIN seeds : Known(Seed(seeds[n], n))'
    <3>1. \A n \in DOMAIN seeds : Known(Seed(seeds[n], n))
      BY DEF Passed
    <3>2. ASSUME NEW n \in DOMAIN seeds, NEW m, m = Seed(seeds[n], n) PROVE Known(m)'
      BY <2>4, <3>1, <3>2
    <3> HIDE DEF Known
    <3> QED BY <2>1, <3>2
  <2> HIDE DEF Due, Known, IsSeed
  <2> QED BY <2>1, <2>2, <2>3, <2>4, <2>5 DEF Passed
<1>4. CASE Collect
  <2>1. pc = "gather" /\ UNCHANGED <<seeds, log>> /\ reason' = Stop
    BY <1>4 DEF Collect
  <2>2. reason' # "quiescence"
    BY <2>1 DEF Stop
  <2>3. PICK ended \in Seq(Ends("ended")), sent \in Seq(Messages) :
              /\ executions' = executions \o OutcomesOf(ended)
              /\ queue' = queue \o sent
              /\ OutcomesOf(ended) \in Seq(Execs)
              /\ \A i \in Ends("ended") : \E k \in DOMAIN ended : ended[k] = i
              /\ \A k \in DOMAIN sent : \E i \in Ends("ended") : \E n \in DOMAIN Outbox(i) :
                    sent[k] = Outbox(i)[n] /\ NotTooDeep(sent[k])
              /\ \A i \in Ends("ended") : \A n \in DOMAIN Outbox(i) :
                    NotTooDeep(Outbox(i)[n]) => \E k \in DOMAIN sent : sent[k] = Outbox(i)[n]
    BY <1>4, Collected
  <2>4. /\ \A i \in Ends("ended") : Outcome(i).published = Outbox(i)
        /\ \A i \in Ends("ended") : \A n \in DOMAIN Outbox(i) : Outbox(i)[n].depth > 0
    <3>1. \A i \in Ends("ended") : i \in SubIds /\ Mine(i)
      BY DEF Ends
    <3> QED BY <2>1, <3>1, OutboxOf
  <2>5. /\ \A k \in DOMAIN queue : k \in DOMAIN queue' /\ queue'[k] = queue[k]
        /\ \A k \in DOMAIN sent : Len(queue) + k \in DOMAIN queue' /\ queue'[Len(queue) + k] = sent[k]
        /\ \A k \in DOMAIN queue' : \/ k \in DOMAIN queue /\ queue'[k] = queue[k]
                                    \/ \E j \in DOMAIN sent : queue'[k] = sent[j]
    <3>1. queue \in Seq(Messages)
      BY DEF TypeOK
    <3>2. /\ \A k \in DOMAIN queue : (queue \o sent)[k] = queue[k]
          /\ \A k \in DOMAIN sent : (queue \o sent)[Len(queue) + k] = sent[k]
          /\ \A k \in DOMAIN (queue \o sent) : k \notin DOMAIN queue =>
                k - Len(queue) \in DOMAIN sent /\ (queue \o sent)[k] = sent[k - Len(queue)]
          /\ DOMAIN queue = 1..Len(queue) /\ DOMAIN sent = 1..Len(sent)
          /\ DOMAIN (queue \o sent) = 1..(Len(queue) + Len(sent))
          /\ Len(queue) \in Nat /\ Len(sent) \in Nat
      BY <3>1, Concatenated
    <3>3. /\ \A k \in DOMAIN queue : k \in DOMAIN (queue \o sent)
          /\ \A k \in DOMAIN sent : Len(queue) + k \in DOMAIN (queue \o sent)
      BY <3>2
    <3> QED BY <2>3, <3>2, <3>3
  <2>6. /\ \A k \in DOMAIN executions : k \in DOMAIN executions' /\ executions'[k] = executions[k]
        /\ \A i \in Ends("ended") : \E k \in DOMAIN executions' : executions'[k] = Outcome(i)
        /\ \A k \in DOMAIN executions' : \/ k \in DOMAIN executions /\ executions'[k] = executions[k]
                                         \/ \E i \in Ends("ended") : executions'[k] = Outcome(i)
    <3>1. executions \in Seq(Execs)
      BY DEF TypeOK
    <3>2. /\ DOMAIN OutcomesOf(ended) = DOMAIN ended
          /\ \A k \in DOMAIN ended : OutcomesOf(ended)[k] = Outcome(ended[k]) /\ ended[k] \in Ends("ended")
      BY DEF OutcomesOf
    <3>3. /\ \A k \in DOMAIN executions : k \in DOMAIN executions' /\ executions'[k] = executions[k]
          /\ \A k \in DOMAIN ended : /\ Len(executions) + k \in DOMAIN executions'
                                     /\ executions'[Len(executions) + k] = Outcome(ended[k])
          /\ \A k \in DOMAIN executions' : \/ k \in DOMAIN executions /\ executions'[k] = executions[k]
                                           \/ \E j \in DOMAIN ended : executions'[k] = Outcome(ended[j])
      BY <2>3, <3>1, <3>2, Concatenated
    <3>4. ASSUME NEW i \in Ends("ended") PROVE \E k \in DOMAIN executions' : executions'[k] = Outcome(i)
      <4>1. PICK k \in DOMAIN ended : ended[k] = i
        BY <2>3
      <4> QED BY <3>3, <4>1
    <3> QED BY <3>2, <3>3, <3>4
  <2>7. \A m : Due(m) => Due(m)'
    BY <2>6 DEF Due
  <2>8. \A m : Known(m) => Known(m)'
    BY <2>1, <2>5 DEF Known
  <2>9. ASSUME NEW i \in Ends("ended"), NEW n \in DOMAIN Outbox(i), NEW m, m = Outbox(i)[n]
        PROVE  Due(m)' /\ (NotTooDeep(m) => Known(m)')
    <3>1. PICK k \in DOMAIN executions' : executions'[k] = Outcome(i)
      BY <2>6
    <3>2. n \in DOMAIN executions'[k].published /\ executions'[k].published[n] = m
      BY <2>4, <2>9, <3>1
    <3>3. Due(m)'
      BY <3>2 DEF Due
    <3>4. ASSUME NotTooDeep(m) PROVE Known(m)'
      <4>1. PICK j \in DOMAIN sent : sent[j] = m
        BY <2>3, <2>9, <3>4
      <4> QED BY <2>5, <4>1 DEF Known
    <3> QED BY <3>3, <3>4
  <2>10. ASSUME NEW m, \E k \in DOMAIN sent : sent[k] = m
         PROVE  Due(m)' /\ NotTooDeep(m)
    <3>1. PICK k \in DOMAIN sent : sent[k] = m
      BY <2>10
    <3>2. PICK i \in Ends("ended") : \E n \in DOMAIN Outbox(i) : m = Outbox(i)[n] /\ NotTooDeep(m)
      BY <2>3, <3>1
    <3> QED BY <2>9, <3>2
  <2>11. ASSUME NEW m, Due(m)'
         PROVE  Due(m) \/ \E i \in Ends("ended") : \E n \in DOMAIN Outbox(i) : m = Outbox(i)[n]
    <3>1. PICK k \in DOMAIN executions' : \E n \in DOMAIN executions'[k].published :
             m = executions'[k].published[n]
      BY <2>11 DEF Due
    <3>2. CASE k \in DOMAIN executions /\ executions'[k] = executions[k]
      BY <3>1, <3>2 DEF Due
    <3>3. CASE \E i \in Ends("ended") : executions'[k] = Outcome(i)
      BY <2>4, <3>1, <3>3
    <3> QED BY <2>6, <3>2, <3>3
  <2> HIDE DEF Due, Known
  <2>12. ASSUME NEW p \in DOMAIN log, log[p].depth > 0, NEW m, m = log[p]
         PROVE  Due(m)' /\ NotTooDeep(m)
    BY <2>7, <2>12 DEF Passed
  <2>13. ASSUME NEW k \in DOMAIN queue', queue'[k].depth > 0, NEW m, m = queue'[k]
         PROVE  Due(m)' /\ NotTooDeep(m)
    BY <2>5, <2>7, <2>10, <2>13 DEF Passed
  <2>14. ASSUME NEW m \in Messages, Due(m)'
         PROVE  m.depth > 0 /\ (NotTooDeep(m) => Known(m)')
    <3>1. CASE Due(m)
      BY <2>8, <3>1 DEF Passed
    <3>2. CASE \E i \in Ends("ended") : \E n \in DOMAIN Outbox(i) : m = Outbox(i)[n]
      BY <2>4, <2>9, <3>2
    <3> QED BY <2>11, <2>14, <3>1, <3>2
  <2>15. /\ \A m : IsSeed(m)' <=> IsSeed(m)
         /\ \A k \in DOMAIN sent : sent[k].depth > 0
    BY <2>1, <2>3, <2>4 DEF IsSeed
  <2>16. ASSUME NEW k \in DOMAIN queue', queue'[k].depth = 0, NEW m, m = queue'[k]
         PROVE  IsSeed(m)'
    BY <2>5, <2>15, <2>16 DEF Passed
  <2>17. ASSUME NEW n \in DOMAIN seeds, NEW m, m = Seed(seeds[n], n) PROVE Known(m)'
    BY <2>8, <2>17 DEF Passed
  <2> HIDE DEF IsSeed
  <2> QED BY <2>1, <2>2, <2>12, <2>13, <2>14, <2>15, <2>16, <2>17 DEF Passed
<1> QED BY <1>1, <1>2, <1>3, <1>4, StepCases

\* A bus that falls quiet has processed the seeds of its run and all that its
\* executions published down to the depth limit, nothing else, and each once; what
\* executions of an earlier run that raised go on to publish is never in it.
THEOREM ProcessedCorrect == Spec => []NothingLostOrInvented
<1>1. ASSUME TypeOK, Ordered, Passed PROVE NothingLostOrInvented
  <2> SUFFICES ASSUME pc = "done", reason = "quiescence" PROVE NothingLostOrInvented!2
    BY DEF NothingLostOrInvented
  <2> DEFINE due == UNION {{e.published[n] : n \in DOMAIN e.published} :
                              e \in {executions[k] : k \in DOMAIN executions}}
              processed == {log[k] : k \in DOMAIN log}
  <2>1. queue = <<>> /\ DOMAIN queue = {}
    BY <1>1 DEF Passed
  <2>2. \A m : m \in due <=> Due(m)
    BY DEF Due
  <2>3. \A k \in DOMAIN executions : executions[k] \in Execs
    BY <1>1 DEF TypeOK
  <2>4. \A m : Due(m) => m \in Messages
    BY <2>3 DEF Due, Execs
  <2>5. \A m : Known(m) <=> \E p \in DOMAIN log : log[p] = m
    BY <2>1 DEF Known
  <2> HIDE DEF due, Due, Known
  <2>6. {m \in processed : m.depth > 0} = {m \in due : m.depth <= MaxDepth}
    BY <1>1, <2>2, <2>4, <2>5 DEF Passed, NotTooDeep
  <2>8. {m \in processed : m.depth = 0} = {Seed(seeds[n], n) : n \in DOMAIN seeds}
    <3>1. ASSUME NEW m \in processed, m.depth = 0 PROVE \E n \in DOMAIN seeds : m = Seed(seeds[n], n)
      BY <1>1, <3>1 DEF Passed, IsSeed
    <3>2. ASSUME NEW n \in DOMAIN seeds PROVE Seed(seeds[n], n) \in processed
      BY <1>1, <2>5 DEF Passed
    <3>3. \A n \in DOMAIN seeds : Seed(seeds[n], n).depth = 0
      BY DEF Seed
    <3> QED BY <3>1, <3>2, <3>3
  <2>7. IsInjective(log)
    <3>1. DOMAIN log \subseteq Nat /\ \A p \in DOMAIN log : log[p] \in Messages
      BY <1>1 DEF TypeOK
    <3>2. ASSUME NEW p \in DOMAIN log, NEW q \in DOMAIN log, log[p] = log[q], p # q PROVE FALSE
      <4>1. p < q \/ q < p
        BY <3>1, <3>2
      <4>2. Before(Key(log[p]), Key(log[p]))
        BY <1>1, <3>2, <4>1 DEF Ordered
      <4> QED BY <3>1, <4>2, BeforeIsStrict
    <3> QED BY <3>2 DEF IsInjective
  <2> QED BY <2>6, <2>7, <2>8 DEF due
<1> QED
  BY <1>1, InitTypeOK, TypeStep, InitLocated, LocatedStep, InitOrdered, OrderedStep,
     InitPassed, PassedStep, PTL DEF Spec
=============================================================================
