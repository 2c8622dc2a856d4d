-------------------------- MODULE MCMongoRunStore --------------------------
(***************************************************************************)
(* A small instance of MongoRunStore: one conversation, two API processes  *)
(* that post two messages, each possibly twice, and two workers.           *)
(***************************************************************************)
EXTENDS MongoRunStore, TLC

CONSTANTS m1, m2, c1, a1, a2, w1, w2

MCMessage == {m1, m2}
MCConversation == {c1}
MCConversationOf == [m \in MCMessage |-> c1]
MCClient == {a1, a2}
MCWorker == {w1, w2}
MCProgressEvent == {"run.started"}

\* Messages, API processes and workers are interchangeable.
MCSymmetry ==
  Permutations(MCMessage) \union Permutations(MCClient) \union Permutations(MCWorker)
=============================================================================
