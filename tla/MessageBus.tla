------------------------------- MODULE MessageBus -------------------------------
(***************************************************************************)
(* MessageBus.run: a queue of messages, each delivered to its matching     *)
(* subscribers concurrently, whose publishes are queued behind it.         *)
(*                                                                         *)
(* A delivery gathers one task per matching subscription.  A task injects  *)
(* the publish tool, a context provider and a prompt section into the      *)
(* shared agent and takes them out when the agent ends; registering the    *)
(* tool twice raises.  When gather raises, run() raises with it and the    *)
(* tasks that were running go on without it, while the host may run the    *)
(* bus again.                                                              *)
(***************************************************************************)
EXTENDS Integers, Sequences, FiniteSets, SequencesExt

CONSTANTS Subs,             \* the subscriptions, in order: agent, topics, authors the filter accepts
          Topics,
          SeedLists,        \* the seed messages a host may run the bus with, by topic
          MaxMessages, MaxDepth, MaxExecutions,
          MaxOutbox,        \* bound: publishes of one execution
          MaxFaults,        \* bound: executions that raise or suspend, filters that raise
          MaxRuns           \* bound: calls of run()

SubIds == DOMAIN Subs
Agent(i) == Subs[i].agent
Agents == {Agent(i) : i \in SubIds}
Authors == Agents \cup {"system"}

ASSUME SubsAssumption ==
    /\ Subs \in Seq([agent : Agents, topics : SUBSET Topics, accepts : SUBSET Authors])
    /\ Len(Subs) > 0 /\ "system" \notin Agents
ASSUME SeedsAssumption == \A s \in SeedLists : s \in Seq(Topics) /\ s # <<>>
ASSUME LimitAssumption ==
    /\ MaxMessages \in Nat /\ MaxDepth \in Nat /\ MaxExecutions \in Nat \ {0}
    /\ MaxOutbox \in Nat /\ MaxFaults \in Nat /\ MaxRuns \in Nat \ {0}

VARIABLES
    allowSelf, terminates,   \* the configuration: self-delivery, a MaxExecutionsTermination
    token,                   \* the CancellationToken
    pc, run,                 \* where the last run() is, and which it is
    queue, log,              \* messages to process and processed
    executions, failed,      \* what the deliveries of this run returned, in order
    task,                    \* subscription -> its last execution
    registered,              \* agents whose registry holds publish_message
    injected,                \* agent -> the executions whose provider and prompt it carries
    reason,                  \* termination_reason
    seeds,                   \* history: the topics of this run's seed messages, in order
    delivered,               \* history: log positions delivered in this run
    lateDeliveries,          \* history: those whose delivery began under a set token
    faults

config == <<allowSelf, terminates>>
agents == <<registered, injected>>
results == <<executions, failed>>
history == <<seeds, delivered, lateDeliveries>>
vars == <<config, token, pc, run, queue, log, results, task, agents, reason, history, faults>>

----------------------------------------------------------------------------
Seed(topic, n) == [topic |-> topic, author |-> "system", depth |-> 0, parent |-> 0, sub |-> 0, n |-> n]

\* A published message, with the depth and parent the delivery gives it.
Published(i, topic, n) ==
    [topic |-> topic, author |-> Agent(i), depth |-> log[task[i].trigger].depth + 1,
     parent |-> task[i].trigger, sub |-> i, n |-> n]

Position == Len(log)
Running(i) == task[i].status = "running"
Mine(i) == task[i].run = run /\ task[i].trigger = Position
Awaited(i) == pc = "gather" /\ Mine(i)
NoTask == [status |-> "none", run |-> 0, trigger |-> 0, outbox |-> <<>>, saved |-> <<>>]

\* Mutant: self-delivery is not suppressed.
MatchingEcho(m) ==
    {i \in SubIds : m.topic \in Subs[i].topics /\ m.author \in Subs[i].accepts}

\* The subscriptions a message goes to: routing, filter, self-delivery suppression.
Matching(m) ==
    {i \in SubIds : /\ m.topic \in Subs[i].topics
                    /\ m.author \in Subs[i].accepts
                    /\ allowSelf = "no" => m.author # Agent(i)}

\* Mutant: publish_message is registered over one that is already there.
StartingOver(matching) == matching

\* Of the tasks gather creates, those that can register publish_message: the agent
\* has none from another execution, nor from a subscription before in the list.
Starting(matching) ==
    {i \in matching : /\ Agent(i) \notin registered
                      /\ \A j \in matching : j < i => Agent(j) # Agent(i)}

Init ==
    /\ allowSelf \in {"yes", "no"} /\ terminates \in {"yes", "no"}
    /\ token = "clear" /\ pc = "idle" /\ run = 0
    /\ queue = <<>> /\ log = <<>> /\ executions = <<>> /\ failed = <<>>
    /\ task = [i \in SubIds |-> NoTask]
    /\ registered = {} /\ injected = [a \in Agents |-> <<>>]
    /\ reason = "none" /\ seeds = <<>> /\ delivered = {} /\ lateDeliveries = {} /\ faults = 0

----------------------------------------------------------------------------
(* run(): the host calls it with seed messages.                            *)

\* Mutant: only the first of the seed messages is queued.
RunFirstSeed(list) ==
    /\ pc \in {"idle", "done", "raised"}
    /\ run < MaxRuns
    /\ run' = run + 1
    /\ seeds' = list
    /\ queue' = <<Seed(list[1], 1)>>
    /\ log' = <<>> /\ executions' = <<>> /\ failed' = <<>>
    /\ reason' = "none" /\ delivered' = {} /\ lateDeliveries' = {}
    /\ pc' = "loop"
    /\ UNCHANGED <<config, token, task, agents, faults>>

Run(list) ==
    /\ pc \in {"idle", "done", "raised"}
    /\ run < MaxRuns
    /\ run' = run + 1
    /\ seeds' = list
    /\ queue' = [n \in DOMAIN list |-> Seed(list[n], n)]
    /\ log' = <<>> /\ executions' = <<>> /\ failed' = <<>>
    /\ reason' = "none" /\ delivered' = {} /\ lateDeliveries' = {}
    /\ pc' = "loop"
    /\ UNCHANGED <<config, token, task, agents, faults>>

Quiesce ==
    /\ pc = "loop" /\ queue = <<>>
    /\ pc' = "done" /\ reason' = "quiescence"
    /\ UNCHANGED <<config, token, run, queue, log, results, task, agents, history, faults>>

\* Mutant: pop() instead of pop(0).
PopLast ==
    /\ log' = Append(log, queue[Len(queue)])
    /\ queue' = Front(queue)

Pop ==
    /\ log' = Append(log, Head(queue))
    /\ queue' = Tail(queue)

\* Nobody matches: on to the next message, past every check.
Skip ==
    /\ pc = "loop" /\ queue # <<>>
    /\ Pop
    /\ Matching(log'[Len(log')]) = {}
    /\ UNCHANGED <<config, token, pc, run, results, task, agents, reason, history, faults>>

FilterRaises ==
    /\ pc = "loop" /\ queue # <<>>
    /\ Pop
    /\ \E i \in SubIds : log'[Len(log')].topic \in Subs[i].topics /\ Subs[i].accepts # Authors
    /\ faults < MaxFaults /\ faults' = faults + 1
    /\ pc' = "raised"
    /\ UNCHANGED <<config, token, run, results, task, agents, reason, history>>

\* gather: every task begins before any goes on; one that cannot register raises,
\* and run() with it.
Deliver ==
    /\ pc = "loop" /\ queue # <<>>
    /\ Pop
    /\ LET matching == Matching(log'[Len(log')])
           starting == Starting(matching)
       IN /\ matching # {}
          /\ task' = [i \in SubIds |->
                        IF i \in starting
                        THEN [status |-> "running", run |-> run, trigger |-> Len(log'),
                              outbox |-> <<>>, saved |-> injected[Agent(i)]]
                        ELSE task[i]]
          /\ registered' = registered \cup {Agent(i) : i \in starting}
          /\ injected' = [a \in Agents |->
                            IF \E i \in starting : Agent(i) = a
                            THEN Append(injected[a], CHOOSE i \in starting : Agent(i) = a)
                            ELSE injected[a]]
          /\ pc' = IF starting = matching THEN "gather" ELSE "raised"
    /\ delivered' = delivered \cup {Len(log')}
    /\ lateDeliveries' = IF token = "set" THEN lateDeliveries \cup {Len(log')} ELSE lateDeliveries
    /\ UNCHANGED <<config, token, run, results, reason, seeds, faults>>

----------------------------------------------------------------------------
(* _run_subscriber: the agent publishes and ends.                          *)

Publish(i, topic) ==
    /\ Running(i)
    /\ Len(task[i].outbox) < MaxOutbox
    /\ task' = [task EXCEPT ![i].outbox = Append(@, topic)]
    /\ UNCHANGED <<config, token, pc, run, queue, log, results, agents, reason, history, faults>>

\* The finally clause.
Eject(i) ==
    /\ registered' = registered \ {Agent(i)}
    /\ injected' = [injected EXCEPT ![Agent(i)] = task[i].saved]

\* Nobody takes the result of an execution that outlived its run.
Ended(i, status) == IF Awaited(i) THEN [task[i] EXCEPT !.status = status] ELSE NoTask

AgentEnds(i) ==
    /\ Running(i)
    /\ task' = [task EXCEPT ![i] = Ended(i, "ended")]
    /\ Eject(i)
    /\ UNCHANGED <<config, token, pc, run, queue, log, results, reason, history, faults>>

AgentRaises(i) ==
    /\ Running(i)
    /\ faults < MaxFaults /\ faults' = faults + 1
    /\ task' = [task EXCEPT ![i] = Ended(i, "failed")]
    /\ Eject(i)
    /\ UNCHANGED <<config, token, pc, run, queue, log, results, reason, history>>

\* A SuspendExecution is no Exception: it leaves gather, if run() still waits there.
AgentSuspends(i) ==
    /\ Running(i)
    /\ faults < MaxFaults /\ faults' = faults + 1
    /\ task' = [j \in SubIds |-> IF j = i \/ (Awaited(i) /\ ~Running(j)) THEN NoTask ELSE task[j]]
    /\ Eject(i)
    /\ pc' = IF Awaited(i) THEN "raised" ELSE pc
    /\ UNCHANGED <<config, token, run, queue, log, results, reason, history>>

----------------------------------------------------------------------------
(* The results of a delivery, and the checks behind it.                    *)

Outbox(i) == [n \in DOMAIN task[i].outbox |-> Published(i, task[i].outbox[n], n)]
Outcome(i) == [agent |-> Agent(i), sub |-> i, trigger |-> Position, published |-> Outbox(i)]

Ends(status) == {i \in SubIds : Mine(i) /\ task[i].status = status}

NotTooDeep(m) == m.depth <= MaxDepth

\* gather keeps the order of the subscriptions, and an execution that of its publishes.
InSubscriptionOrder(order) == \A k, l \in DOMAIN order : k < l => order[k] < order[l]
AsGathered(sent) ==
    \A k, l \in DOMAIN sent : k < l =>
        \/ sent[k].sub < sent[l].sub
        \/ sent[k].sub = sent[l].sub /\ sent[k].n < sent[l].n

\* Mutant: one message more than the cap.
StopAfterCap ==
    IF Position > MaxMessages THEN "max_messages"
    ELSE IF token = "set" THEN "cancelled"
    ELSE IF terminates = "yes" /\ Len(executions') >= MaxExecutions THEN "MaxExecutionsTermination"
    ELSE "none"

\* The checks after a delivery, in the order of the code.
Stop ==
    IF Position >= MaxMessages THEN "max_messages"
    ELSE IF token = "set" THEN "cancelled"
    ELSE IF terminates = "yes" /\ Len(executions') >= MaxExecutions THEN "MaxExecutionsTermination"
    ELSE "none"

\* Mutant: the delivery is over only when all of its executions succeeded.
AllIn == \A i \in SubIds : Mine(i) => task[i].status = "ended"

\* gather has a result or a FailedExecution of every task.
Gathered == \A i \in SubIds : Mine(i) => task[i].status \in {"ended", "failed"}

Collect ==
    /\ pc = "gather"
    /\ Gathered
    /\ \E ended \in SetToSeqs(Ends("ended")), lost \in SetToSeqs(Ends("failed")) :
          /\ InSubscriptionOrder(ended) /\ InSubscriptionOrder(lost)
          /\ executions' = executions \o [k \in DOMAIN ended |-> Outcome(ended[k])]
          /\ failed' = failed \o [k \in DOMAIN lost |-> Outcome(lost[k])]
    /\ \E sent \in SetToSeqs({m \in UNION {ToSet(Outbox(i)) : i \in Ends("ended")} : NotTooDeep(m)}) :
          AsGathered(sent) /\ queue' = queue \o sent
    /\ reason' = Stop
    /\ pc' = IF reason' = "none" THEN "loop" ELSE "done"
    /\ task' = [i \in SubIds |-> IF Mine(i) THEN NoTask ELSE task[i]]
    /\ UNCHANGED <<config, token, run, log, agents, history, faults>>

Cancel ==
    /\ pc # "idle" /\ token = "clear"
    /\ token' = "set"
    /\ UNCHANGED <<config, pc, run, queue, log, results, task, agents, reason, history, faults>>

----------------------------------------------------------------------------
Bus == Quiesce \/ Skip \/ Deliver \/ Collect

AgentStep(i) == AgentEnds(i) \/ AgentRaises(i) \/ AgentSuspends(i)

Next ==
    \/ \E s \in SeedLists : Run(s)
    \/ Bus \/ FilterRaises \/ Cancel
    \/ \E i \in SubIds : AgentStep(i) \/ \E t \in Topics : Publish(i, t)

Spec == Init /\ [][Next]_vars

\* The event loop runs the bus, and every agent run ends.
FairSpec == Spec /\ WF_vars(Bus) /\ \A i \in SubIds : WF_vars(AgentStep(i))

----------------------------------------------------------------------------
\* A run that returns has, for every message it processed, one execution or one
\* failure of each subscription that wants it, and of no other.
Wants(i, m) ==
    /\ m.topic \in Subs[i].topics /\ m.author \in Subs[i].accepts
    /\ allowSelf = "yes" \/ m.author # Agent(i)

Outcomes(s, p, i) == Cardinality({k \in DOMAIN s : s[k].trigger = p /\ s[k].sub = i})

DeliveredOnceToEachSubscriber ==
    pc = "done" =>
        \A p \in DOMAIN log, i \in SubIds :
            Outcomes(executions, p, i) + Outcomes(failed, p, i) = IF Wants(i, log[p]) THEN 1 ELSE 0

\* A bus that falls quiet processed the seeds of this run, each of them, and what its
\* executions published down to the depth limit, and each once; nothing of an
\* execution that outlived an earlier run, and none of that run's seeds.
NothingLostOrInvented ==
    pc = "done" /\ reason = "quiescence" =>
        LET due == UNION {{e.published[n] : n \in DOMAIN e.published} :
                              e \in {executions[k] : k \in DOMAIN executions}}
            processed == {log[k] : k \in DOMAIN log}
        IN /\ {m \in processed : m.depth = 0} = {Seed(seeds[n], n) : n \in DOMAIN seeds}
           /\ {m \in processed : m.depth > 0} = {m \in due : m.depth <= MaxDepth}
           /\ IsInjective(log)

\* Messages are processed in the order of their causes: by the message they answer,
\* by subscription, by publish - however the executions of a delivery interleave.
Key(m) == <<m.parent, m.sub, m.n>>
Before(k, l) ==
    \/ k[1] < l[1]
    \/ k[1] = l[1] /\ k[2] < l[2]
    \/ k[1] = l[1] /\ k[2] = l[2] /\ k[3] < l[3]

ProcessedInCausalOrder ==
    /\ \A p, q \in DOMAIN log : p < q => Before(Key(log[p]), Key(log[q]))
    /\ \A p \in DOMAIN log : log[p].parent < p

\* The shared agents: an agent carries the injections of its one running execution,
\* and is as it was configured when none runs - after failures, suspensions and
\* runs that raised while executions went on.
AgentsAsConfigured ==
    \A a \in Agents :
        LET running == {i \in SubIds : Running(i) /\ Agent(i) = a}
        IN /\ \A i, j \in running : i = j
           /\ a \in registered <=> running # {}
           /\ running = {} => injected[a] = <<>>
           /\ \A i \in running : injected[a] = <<i>>

\* max_messages does not bound the messages of a run, nor does a set token stop one at
\* once: see HardMessageCap below, which fails.  What holds is that a run makes at most
\* one delivery at or past position max_messages, and at most one under a set token,
\* however many messages that match nobody come past the checks.
StopsArePrompt ==
    Cardinality({p \in delivered : p >= MaxMessages}) <= 1 /\ Cardinality(lateDeliveries) <= 1

\* A run returns or raises, although agents publish in every execution.
RunsEnd == pc \in {"loop", "gather"} ~> pc \in {"done", "raised"}

\* What the documentation says and the code does not do.
\* "Hard safety cap on total messages processed": a result counts no more than
\* max_messages messages.  One that matches nobody comes past the check.
HardMessageCap == pc = "done" => Len(log) <= MaxMessages
=============================================================================
