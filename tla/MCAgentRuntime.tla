--------------------------- MODULE MCAgentRuntime ---------------------------
(***************************************************************************)
(* Small instances of AgentRuntime.                                        *)
(*                                                                         *)
(*   one message, two processes with a slot each: two executions of a run  *)
(*     meet (a lost lease, a renewal that died, a cancel from elsewhere);  *)
(*   one message, one process with two slots: executions of a run that     *)
(*     share the process's tables;                                         *)
(*   two messages of one conversation, one process with one slot: a turn   *)
(*     finds what the turn before it, or its own execution before a crash, *)
(*     left in the conversation's checkpoint.                              *)
(***************************************************************************)
EXTENDS AgentRuntime, TLC

CONSTANTS m1, m2, c1, w1, w2, s1, s2

MCOneMessage == {m1}
MCTwoMessages == {m1, m2}
MCConversation == {c1}
MCConversationOf == [m \in Message |-> c1]
MCOneWorker == {w1}
MCTwoWorkers == {w1, w2}
MCOneSlot == {s1}
MCTwoSlots == {s1, s2}
MCProcessOf == [s \in Slot |-> IF s = s1 THEN w1 ELSE w2]
MCOneProcessOf == [s \in Slot |-> w1]
MCProgressEvent == {"run.started", "route.selected", "retrieval.completed",
                    "citation.added", "map.result", "answer.delta"}

\* Two faults, or one and a cancel: what happens to the run or its process from outside.
\* No fairness is assumed of either, so nothing that must happen is cut off.
MCBudget == faults + Cardinality({r \in RunId : cancelling[r] # "NO"}) <= 2

\* The messages of the one conversation are interchangeable.
MCSymmetry == Permutations(Message)
MCPath == <<"route_intent", "compose_answer">>
MCEvidencePath == <<"route_intent", "retrieve_knowledge", "compose_answer">>
=============================================================================
