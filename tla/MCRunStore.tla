----------------------------- MODULE MCRunStore -----------------------------
(***************************************************************************)
(* A small instance of RunStore: four messages of which three or fewer     *)
(* become rows, three of them in one conversation, so that a chain of      *)
(* three dependent runs and a run of another conversation both happen.     *)
(***************************************************************************)
EXTENDS RunStore, TLC

CONSTANTS m1, m2, m3, m4, c1, c2, w1, w2

MCMessage == {m1, m2, m3, m4}
MCConversation == {c1, c2}
MCConversationOf == [m \in MCMessage |-> IF m = m4 THEN c2 ELSE c1]
MCWorker == {w1, w2}
MCProgressEvent == {"run.started", "answer.delta"}

\* The messages of c1, and the workers, are interchangeable.
MCSymmetry == Permutations({m1, m2, m3}) \union Permutations(MCWorker)
=============================================================================
