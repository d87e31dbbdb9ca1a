------------------------------ MODULE MCMessageBus ------------------------------
(* Two agents, three subscriptions on two topics: a and b listen to t, and a *)
(* once more for what b says.  Nobody hears the system on u.                 *)
EXTENDS MessageBus

MCSubs == << [agent |-> "a", topics |-> {"t"}, accepts |-> {"system", "a", "b"}],
             [agent |-> "b", topics |-> {"t"}, accepts |-> {"system", "a", "b"}],
             [agent |-> "a", topics |-> {"t", "u"}, accepts |-> {"b"}] >>

MCTopics == {"t", "u"}
MCSeedLists == {<<"t">>, <<"u", "t">>}
=============================================================================
