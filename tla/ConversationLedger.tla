------------------------- MODULE ConversationLedger -------------------------
(***************************************************************************)
(* What the run store promises to everything above it, with no lease, no   *)
(* queue and no dependency in sight.                                       *)
(*                                                                         *)
(* A run is accepted once, publishes events, and finishes with exactly one *)
(* terminal event, after which neither its status nor its event log        *)
(* changes.  A conversation is the sequence of runs that succeeded in it:  *)
(* a run enters that ledger in the very step that publishes its            *)
(* run.completed event, and in no other.                                   *)
(***************************************************************************)
EXTENDS Naturals, Sequences

CONSTANTS
  Run,            \* run identifiers
  Conversation,
  ProgressEvent   \* names of the events that are not terminal

VARIABLES
  status,   \* [Run -> Status]
  log,      \* [Run -> Seq of event names]; the position is the sequence number
  ledger    \* [Conversation -> Seq(Run)], the runs that committed, in order

ledgerVars == <<status, log, ledger>>

Open == {"QUEUED", "RUNNING"}

OutcomeOf == [e \in {"run.completed", "run.failed", "run.cancelled"} |->
                CASE e = "run.completed" -> "SUCCEEDED"
                  [] e = "run.failed"    -> "FAILED"
                  [] e = "run.cancelled" -> "CANCELLED"]

LedgerInit ==
  /\ status = [r \in Run |-> "NONE"]
  /\ log = [r \in Run |-> <<>>]
  /\ ledger = [c \in Conversation |-> <<>>]

Accept(r) ==
  /\ status[r] = "NONE"
  /\ status' = [status EXCEPT ![r] = "QUEUED"]
  /\ UNCHANGED <<log, ledger>>

\* A worker takes an open run, or gives it back.
Schedule(r) ==
  /\ status[r] \in Open
  /\ \E s \in Open : status' = [status EXCEPT ![r] = s]
  /\ UNCHANGED <<log, ledger>>

Publish(r, e) ==
  /\ status[r] \in Open
  /\ log' = [log EXCEPT ![r] = Append(@, e)]
  /\ UNCHANGED <<status, ledger>>

Abort(r, e) ==
  /\ status[r] \in Open
  /\ status' = [status EXCEPT ![r] = OutcomeOf[e]]
  /\ log' = [log EXCEPT ![r] = Append(@, e)]
  /\ UNCHANGED ledger

Commit(r, c) ==
  /\ status[r] \in Open
  /\ status' = [status EXCEPT ![r] = "SUCCEEDED"]
  /\ log' = [log EXCEPT ![r] = Append(@, "run.completed")]
  /\ ledger' = [ledger EXCEPT ![c] = Append(@, r)]

LedgerNext ==
  \E r \in Run :
    \/ Accept(r)
    \/ Schedule(r)
    \/ \E e \in ProgressEvent : Publish(r, e)
    \/ \E e \in {"run.failed", "run.cancelled"} : Abort(r, e)
    \/ \E c \in Conversation : Commit(r, c)

LedgerSpec == LedgerInit /\ [][LedgerNext]_ledgerVars
=============================================================================
