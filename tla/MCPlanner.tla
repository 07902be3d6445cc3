----------------------------- MODULE MCPlanner -----------------------------
EXTENDS Planner

Model(layers, embed, out, per) ==
    [layers |-> layers, header |-> 1, embed |-> embed, out |-> out, per |-> per, kv |-> 1]
Models == { Model(3, 3, 0, <<2, 3, 2>>), Model(3, 2, 3, <<3, 2, 2>>) }

Link(rtt, relayed, pace) == [rtt |-> rtt, relayed |-> relayed, pace |-> pace]
Candidate(key, offered, speed, rtt, relayed, cached, links) ==
    [key |-> key, suits |-> TRUE, maxContext |-> IF key = 2 THEN 2 ELSE 8, offered |-> offered,
     speed |-> speed, prefill |-> IF key = 3 THEN 2 ELSE 1, rtt |-> rtt, relayed |-> relayed,
     cached |-> cached, links |-> links]
NoLinks == <<>>
Measured == [k \in {1, 2} |-> Link(2, FALSE, 1)]
First == { Candidate(1, offered, 0, 0, FALSE, {<<0, 1>>}, NoLinks) : offered \in {8, 12, 20} }
Second == { Candidate(2, offered, speed, 10, FALSE, cached, NoLinks) :
    offered \in {8, 14}, speed \in {1, 3}, cached \in {{}, {<<0, 2>>, <<2, 3>>}} }
Third == { Candidate(3, offered, speed, rtt, TRUE, {<<1, 3>>, <<0, 3>>}, links) :
    offered \in {12, 20}, speed \in {1, 3}, rtt \in {6, 40}, links \in {NoLinks, Measured} }

Request(context, headKey, minimum, maximum, budget, pool, limit) ==
    [context |-> context, largest |-> TRUE, sessions |-> 1, minimum |-> minimum,
     maximum |-> maximum, head |-> 0, headKey |-> headKey, budget |-> budget, pool |-> pool,
     tolerance |-> 10, relay |-> 4, prompt |-> 4, chunk |-> 2, row |-> 1, limit |-> limit]
Requests == {
    Request(2, 0, 1, 2, 99, 12, 0), Request(0, 1, 1, 3, 99, 12, 0), Request(2, 0, 2, 2, 99, 12, 120),
    Request(3, 0, 1, 3, 5, 12, 0), Request(2, 0, 1, 3, 99, 2, 0) }

MCWorld == { [model |-> m, candidates |-> <<a, b, c>>, request |-> q, floor |-> 2, trained |-> 6] :
    m \in Models, a \in First, b \in Second, c \in Third, q \in Requests }
=============================================================================
