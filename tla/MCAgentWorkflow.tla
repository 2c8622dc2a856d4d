-------------------------- MODULE MCAgentWorkflow --------------------------
(* A small instance of AgentWorkflow.                                       *)
EXTENDS AgentWorkflow, TLC

CONSTANTS a1, a2

MCCaller == {1, 2}
MCCalls == {1, 2}
MCArguments == {a1, a2}

MCSymmetry == Permutations(MCArguments)

\* A call that two executions checked at a time is followed until the service has
\* received it with the arguments of both.
MCFollowed == \A c \in raced : Cardinality(service[c].received) <= 1
=============================================================================
