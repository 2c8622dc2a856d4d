------------------------------ MODULE MCQuota ------------------------------
(* A small instance of Quota: two runs and two places to execute them.      *)
EXTENDS Quota, TLC

CONSTANTS r1, r2, e1, e2

MCRun == {r1, r2}
MCExecution == {e1, e2}
MCSpent == {0, 2}

\* Runs and executions are interchangeable.
MCSymmetry == Permutations(MCRun) \union Permutations(MCExecution)
=============================================================================
