----------------------------- MODULE MCAgentLoop -----------------------------
(* Configurations of an attempt for module AgentLoop.                      *)
EXTENDS AgentLoop

Configuration(presentation, planner, durable, repair, maxIterations, answers) ==
  [presentation |-> presentation, planner |-> planner, verification |-> TRUE,
   durable |-> durable, repair |-> repair, maxIterations |-> maxIterations,
   answers |-> answers]

\* Single calls of every kind, and batches that mix them.
Single == {<<"retrieval">>, <<"mutation">>, <<"verification">>, <<"composition">>}
Batches == {<<"mutation", "verification">>, <<"retrieval", "mutation">>}

\* Two iterations with a planner in both presentations, a repair with a record
\* of its own, and three iterations of a plain attempt.
Several == {Configuration("native", TRUE, TRUE, FALSE, 2, Single \cup Batches),
            Configuration("code", TRUE, TRUE, FALSE, 2, {<<"retrieval">>, <<"composition">>}),
            Configuration("native", FALSE, FALSE, TRUE, 3, {<<"mutation", "verification">>}),
            Configuration("native", FALSE, TRUE, FALSE, 3, {<<"mutation">>, <<"verification">>})}
=============================================================================
