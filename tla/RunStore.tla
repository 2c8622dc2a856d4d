------------------------------ MODULE RunStore ------------------------------
(***************************************************************************)
(* The SQLite run store, src/app/agent/store.py.                           *)
(*                                                                         *)
(* Every API process and every worker process talks to the same database   *)
(* file, and each store operation is one BEGIN IMMEDIATE transaction (or a *)
(* single UPDATE), so an operation is one atomic step here.  The callers   *)
(* are left as free as the store leaves them: anyone may cancel or fail an *)
(* open run, and an execution that once claimed a run may still publish to *)
(* it or complete it after its lease is gone, because neither append_event *)
(* nor complete_run_with_memory looks at the lease.                        *)
(*                                                                         *)
(* Rows of agent_runs are numbered in created_at order, so "the latest" or *)
(* "the oldest" row is the largest or the smallest number; two rows with   *)
(* the same microsecond in created_at are not modelled.  A lease is "LIVE" *)
(* until its lease_until passes and "EXPIRED" after that; "NONE" is NULL.  *)
(*                                                                         *)
(* A definition marked "mutation" is a wrong form of the next definition;  *)
(* no action uses it.  The properties are shown to notice each of them.    *)
(***************************************************************************)
EXTENDS Naturals, Sequences, FiniteSets

CONSTANTS
  Message,         \* keys (tenant, user, conversation, message) a client may send
  Conversation,    \* keys (tenant, user, conversation)
  ConversationOf,  \* [Message -> Conversation]
  Worker,          \* worker identifiers (one per process)
  ProgressEvent,   \* the names of the events that are not terminal
  MaxRuns,         \* bound: rows of agent_runs
  MaxGeneration,   \* bound: claims of one run
  MaxEvents,       \* bound: progress events of one run
  MaxQueuedRuns,   \* agent_max_queued_runs
  MemoryLimit,     \* memory_limit of complete_run_with_memory
  OneClock,        \* whether created_at grows from each commit to the next
  NoMessage,
  NoWorker

RunId == 1 .. MaxRuns
NoRun == 0

TerminalEvent == {"run.completed", "run.failed", "run.cancelled"}
EventName == ProgressEvent \union TerminalEvent

OpenStatus == {"QUEUED", "RUNNING"}
TERMINAL_STATUSES == {"SUCCEEDED", "FAILED", "CANCELLED"}

ASSUME StoreAssumption ==
  /\ ConversationOf \in [Message -> Conversation]
  /\ NoMessage \notin Message
  /\ NoWorker \notin Worker
  /\ ProgressEvent \intersect TerminalEvent = {}
  /\ MaxRuns \in Nat
  /\ MaxQueuedRuns \in Nat
  /\ MemoryLimit \in Nat \ {0}
  /\ OneClock \in BOOLEAN

VARIABLES
  \* agent_runs, one function per column
  message,     \* the row's unique key; NoMessage before the row exists
  status,      \* "NONE" before the row exists
  dependsOn,   \* depends_on_run_id
  base,        \* base_state_version
  owner,       \* lease_owner
  lease,       \* lease_until, against the clock
  generation,  \* lease_generation
  \* agent_events: the names of a run's events; the position is the sequence
  log,
  \* conversation_states
  version,        \* state_version
  lastCommitted,  \* last_committed_run_id
  active,         \* active_run_id
  \* conversation_memory: the runs remembered, oldest first
  memory

rowVars == <<message, dependsOn, base>>
leaseVars == <<owner, lease, generation>>
stateVars == <<version, lastCommitted, active, memory>>
vars == <<status, log, rowVars, leaseVars, stateVars>>

-----------------------------------------------------------------------------
(* Reading the tables *)

Created(r) == status[r] # "NONE"
IsOpen(r) == status[r] \in OpenStatus
IsTerminal(r) == status[r] \in TERMINAL_STATUSES

conversation(r) == ConversationOf[message[r]]
RunsOf(c) == {r \in RunId : Created(r) /\ conversation(r) = c}
OpenRuns == {r \in RunId : IsOpen(r)}

\* SELECT run_id ... ORDER BY created_at DESC LIMIT 1
Latest(S) == IF S = {} THEN NoRun ELSE CHOOSE r \in S : \A q \in S : q <= r

\* uuid4 plus created_at: the number the next row gets.
IsNextRow(r) == ~Created(r) /\ \A q \in RunId : q < r => Created(q)

LastOf(s, n) == IF Len(s) <= n THEN s ELSE SubSeq(s, Len(s) - n + 1, Len(s))

-----------------------------------------------------------------------------
Init ==
  /\ message = [r \in RunId |-> NoMessage]
  /\ status = [r \in RunId |-> "NONE"]
  /\ dependsOn = [r \in RunId |-> NoRun]
  /\ base = [r \in RunId |-> 0]
  /\ owner = [r \in RunId |-> NoWorker]
  /\ lease = [r \in RunId |-> "NONE"]
  /\ generation = [r \in RunId |-> 0]
  /\ log = [r \in RunId |-> <<>>]
  /\ version = [c \in Conversation |-> 0]
  /\ lastCommitted = [c \in Conversation |-> NoRun]
  /\ active = [c \in Conversation |-> NoRun]
  /\ memory = [c \in Conversation |-> <<>>]

-----------------------------------------------------------------------------
(* create_or_attach.  A message that already has a run attaches to it, or  *)
(* is refused when its body differs; a full queue refuses.  None of these  *)
(* changes the database, so only the insert is an action.                  *)

AnyMessage(m) == TRUE                               \* mutation of IsNewMessage

IsNewMessage(m) == \A r \in RunId : message[r] # m

QueueHasRoom == Cardinality(OpenRuns) < MaxQueuedRuns

LatestQueued(c) ==                                  \* mutation of DependencyFor
  Latest({r \in RunsOf(c) : status[r] = "QUEUED"})

DependencyFor(c) == Latest({r \in RunsOf(c) : IsOpen(r)})

Create(m) ==
  \E r \in RunId :
    /\ IsNextRow(r)
    /\ IsNewMessage(m)
    /\ QueueHasRoom
    /\ LET c == ConversationOf[m]
       IN /\ message' = [message EXCEPT ![r] = m]
          /\ status' = [status EXCEPT ![r] = "QUEUED"]
          /\ dependsOn' = [dependsOn EXCEPT ![r] = DependencyFor(c)]
          /\ base' = [base EXCEPT ![r] = version[c]]
          /\ active' = [active EXCEPT ![c] = r]
    /\ UNCHANGED <<leaseVars, log, version, lastCommitted, memory>>

-----------------------------------------------------------------------------
(* claim_next_run, renew_lease, release_lease, and the passage of time *)

DependencySucceeded(r) ==                           \* mutation of DependencyMet
  dependsOn[r] # NoRun => status[dependsOn[r]] = "SUCCEEDED"

DependencyMet(r) == dependsOn[r] # NoRun => IsTerminal(dependsOn[r])

ClaimableEvenIfLeased(r) ==                         \* mutation of Claimable
  IsOpen(r) /\ DependencyMet(r)

Claimable(r) ==
  /\ IsOpen(r)
  /\ lease[r] # "LIVE"
  /\ DependencyMet(r)

Claim(w, r) ==
  /\ Claimable(r)
  /\ \A q \in RunId : Claimable(q) => r <= q
  /\ status' = [status EXCEPT ![r] = "RUNNING"]
  /\ owner' = [owner EXCEPT ![r] = w]
  /\ lease' = [lease EXCEPT ![r] = "LIVE"]
  /\ generation' = [generation EXCEPT ![r] = @ + 1]
  /\ base' = [base EXCEPT ![r] = version[conversation(r)]]
  /\ UNCHANGED <<message, dependsOn, log, stateVars>>

\* The WHERE clause of both lease updates.
HoldsLease(w, r, g) == owner[r] = w /\ generation[r] = g

\* An expired lease that nobody took is revived: there is no test of lease_until.
Renew(w, r, g) ==
  /\ HoldsLease(w, r, g)
  /\ status[r] = "RUNNING"
  /\ lease' = [lease EXCEPT ![r] = "LIVE"]
  /\ UNCHANGED <<status, log, rowVars, owner, generation, stateVars>>

\* requeue=True, as every caller passes it.
Release(w, r, g) ==
  /\ HoldsLease(w, r, g)
  /\ IsOpen(r)
  /\ status' = [status EXCEPT ![r] = "QUEUED"]
  /\ owner' = [owner EXCEPT ![r] = NoWorker]
  /\ lease' = [lease EXCEPT ![r] = "NONE"]
  /\ UNCHANGED <<log, rowVars, generation, stateVars>>

LeaseExpires(r) ==
  /\ lease[r] = "LIVE"
  /\ lease' = [lease EXCEPT ![r] = "EXPIRED"]
  /\ UNCHANGED <<status, log, rowVars, owner, generation, stateVars>>

-----------------------------------------------------------------------------
(* append_event and complete_run_with_memory *)

AcceptsAlways(r) == Created(r)                      \* mutation of AcceptsEvents

\* "cannot append an event to a terminal run"
AcceptsEvents(r) == IsOpen(r)

ProgressOf(r) == IF generation[r] = 0 THEN ProgressEvent \intersect {"run.started"}
                                      ELSE ProgressEvent

\* Only cancel_run publishes for a run that nobody claimed yet.
AppendProgress(r, e) ==
  /\ AcceptsEvents(r)
  /\ e \in ProgressOf(r)
  /\ log' = [log EXCEPT ![r] = Append(@, e)]
  /\ UNCHANGED <<status, rowVars, leaseVars, stateVars>>

TerminateKeepingLease(r, e, s) ==                   \* mutation of Terminate
  /\ AcceptsEvents(r)
  /\ log' = [log EXCEPT ![r] = Append(@, e)]
  /\ status' = [status EXCEPT ![r] = s]
  /\ UNCHANGED leaseVars

\* A terminal event sets the status and clears the lease columns.
Terminate(r, e, s) ==
  /\ AcceptsEvents(r)
  /\ log' = [log EXCEPT ![r] = Append(@, e)]
  /\ status' = [status EXCEPT ![r] = s]
  /\ owner' = [owner EXCEPT ![r] = NoWorker]
  /\ lease' = [lease EXCEPT ![r] = "NONE"]
  /\ UNCHANGED generation

AppendFailed(r) ==
  Terminate(r, "run.failed", "FAILED") /\ UNCHANGED <<rowVars, stateVars>>

AppendCanceled(r) ==                                \* mutation of AppendCancelled
  Terminate(r, "run.cancelled", "CANCELED") /\ UNCHANGED <<rowVars, stateVars>>

AppendCancelled(r) ==
  Terminate(r, "run.cancelled", "CANCELLED") /\ UNCHANGED <<rowVars, stateVars>>

NoVersionCheck(r) == TRUE                           \* mutation of BaseIsCurrent

\* The compare-and-swap on state_version.  When it fails the transaction rolls
\* back, memory row included, and the caller gets STATE_VERSION_CONFLICT.
BaseIsCurrent(r) == version[conversation(r)] = base[r]

RememberWithoutTrim(r) ==                           \* mutation of Remember
  memory' = [memory EXCEPT ![conversation(r)] = Append(@, r)]

Inserted(s, i, r) ==
  [j \in 1 .. Len(s) + 1 |-> IF j <= i THEN s[j] ELSE IF j = i + 1 THEN r ELSE s[j - 1]]

\* Memory is kept in the order of created_at.  When several hosts, whose clocks
\* differ, write to one database, a new entry may belong anywhere in it.
WithEntry(s, r) ==
  CASE \E i \in DOMAIN s : s[i] = r -> {s}
    [] OneClock /\ ~(\E i \in DOMAIN s : s[i] = r) -> {Append(s, r)}
    [] OTHER -> {Inserted(s, i, r) : i \in 0 .. Len(s)}

\* INSERT ... ON CONFLICT(run_id) DO NOTHING, then DELETE all but the newest.
Remember(r) ==
  \E s \in WithEntry(memory[conversation(r)], r) :
     memory' = [memory EXCEPT ![conversation(r)] = LastOf(s, MemoryLimit)]

\* Only an execution that claimed the run calls it, and it always passes a
\* conversation_state.
Complete(r) ==
  /\ generation[r] > 0
  /\ BaseIsCurrent(r)
  /\ Remember(r)
  /\ version' = [version EXCEPT ![conversation(r)] = @ + 1]
  /\ lastCommitted' = [lastCommitted EXCEPT ![conversation(r)] = r]
  /\ active' = [active EXCEPT ![conversation(r)] = NoRun]
  /\ Terminate(r, "run.completed", "SUCCEEDED")
  /\ UNCHANGED rowVars

-----------------------------------------------------------------------------
Next ==
  \/ \E m \in Message : Create(m)
  \/ \E r \in RunId :
       \/ \E w \in Worker : generation[r] < MaxGeneration /\ Claim(w, r)
       \/ \E w \in Worker : Renew(w, r, generation[r])
       \/ \E w \in Worker : Release(w, r, generation[r])
       \/ LeaseExpires(r)
       \/ \E e \in ProgressEvent : Len(log[r]) < MaxEvents /\ AppendProgress(r, e)
       \/ AppendFailed(r)
       \/ AppendCancelled(r)
       \/ Complete(r)

Spec == Init /\ [][Next]_vars

-----------------------------------------------------------------------------
(* Properties *)

\* Every column holds what the code writes into it, and no other status.
TypeOK ==
  /\ message \in [RunId -> Message \union {NoMessage}]
  /\ status \in [RunId -> {"NONE"} \union OpenStatus \union TERMINAL_STATUSES]
  /\ dependsOn \in [RunId -> {NoRun} \union RunId]
  /\ base \in [RunId -> Nat]
  /\ owner \in [RunId -> Worker \union {NoWorker}]
  /\ lease \in [RunId -> {"NONE", "LIVE", "EXPIRED"}]
  /\ generation \in [RunId -> Nat]
  /\ log \in [RunId -> Seq(EventName)]
  /\ version \in [Conversation -> Nat]
  /\ lastCommitted \in [Conversation -> {NoRun} \union RunId]
  /\ active \in [Conversation -> {NoRun} \union RunId]
  /\ memory \in [Conversation -> Seq(RunId)]

\* A message is answered by at most one run, however often it is sent.
OneRunPerMessage ==
  \A r, q \in RunId : Created(r) /\ Created(q) /\ message[r] = message[q] => r = q

\* A run is leased exactly while it is RUNNING, so a release, a terminal event
\* and a completion by anyone all free the lease they must free.
LeasedExactlyWhenRunning ==
  \A r \in RunId : (owner[r] \in Worker <=> status[r] = "RUNNING")
                   /\ (lease[r] = "NONE" <=> status[r] # "RUNNING")

\* No step takes a live lease from its owner: a run changes hands only through
\* a release or after its lease ran out, and each claim has a new generation.
LeaseStep(r) ==
  /\ generation'[r] \in {generation[r], generation[r] + 1}
  /\ generation'[r] # generation[r] => lease[r] # "LIVE"
  /\ owner'[r] \in Worker /\ generation'[r] = generation[r] => owner'[r] = owner[r]

LeaseIsExclusive == [][\A r \in RunId : LeaseStep(r)]_vars

\* The conversation lock that depends_on_run_id builds.  Two runs of one
\* conversation are claimed at the same time only when a run created between
\* them ended without ever being claimed (it was cancelled, or refused by the
\* quota, while it waited): nothing else breaks the chain.
OverlapOnlyPastUnclaimedEnd ==
  \A r, q \in RunId :
    r < q /\ Created(q) /\ conversation(r) = conversation(q)
      /\ IsOpen(r) /\ generation[q] > 0
      => \E k \in RunId : /\ r < k /\ k < q
                          /\ conversation(k) = conversation(r)
                          /\ IsTerminal(k) /\ generation[k] = 0

\* Every open conversation can move: some open run of it has its dependency
\* met, so the runs of a conversation never all wait for one another.
ConversationCanMove ==
  \A r \in RunId : IsOpen(r) =>
    \E q \in RunId : /\ q <= r /\ IsOpen(q) /\ DependencyMet(q)
                     /\ conversation(q) = conversation(r)

\* The commit history of a conversation, read back from the rows: the run that
\* moved state_version from i-1 to i.
Committed(c) == {r \in RunsOf(c) : status[r] = "SUCCEEDED"}
CommittedAt(c, i) == CHOOSE r \in Committed(c) : base[r] + 1 = i
LedgerOf(c) == [i \in 1 .. version[c] |-> CommittedAt(c, i)]

\* Each state_version was produced by exactly one succeeded run, from the
\* version before it: no committed state is lost and none is built on a stale one.
CommitChain ==
  \A c \in Conversation :
    /\ \A r \in Committed(c) : base[r] < version[c]
    /\ \A r, q \in Committed(c) : base[r] = base[q] => r = q
    /\ \A i \in 1 .. version[c] : \E r \in Committed(c) : base[r] + 1 = i

\* Memory, conversation state and run.completed commit together: what the next
\* turn reads as memory is the end of the commit history, nothing more or less.
MemoryIsEndOfLedger ==
  \A c \in Conversation :
    /\ OneClock => memory[c] = LastOf(LedgerOf(c), MemoryLimit)
    /\ lastCommitted[c] = IF version[c] = 0 THEN NoRun ELSE LedgerOf(c)[version[c]]

\* Whatever the clocks say: a turn reads different committed runs of its own
\* conversation, as many as there are up to the limit, if not the latest ones.
MemoryHoldsCommits ==
  \A c \in Conversation :
    /\ \A i \in DOMAIN memory[c] : memory[c][i] \in Committed(c)
    /\ \A i, j \in DOMAIN memory[c] : memory[c][i] = memory[c][j] => i = j
    /\ Len(memory[c]) = IF version[c] <= MemoryLimit THEN version[c] ELSE MemoryLimit

Ledger == INSTANCE ConversationLedger
            WITH Run <- RunId, ledger <- [c \in Conversation |-> LedgerOf(c)]

\* The store implements ConversationLedger: with all its leases, retries and
\* zombies, each run still publishes into one append-only log that ends with
\* its only terminal event, and a conversation grows only by a run.completed.
ImplementsLedger == Ledger!LedgerSpec

\* "Rapid consecutive requests are serialised through depends_on_run_id": at
\* most one run of a conversation is RUNNING.
RunsOfConversationAreSerial ==
  \A r, q \in RunId :
    status[r] = "RUNNING" /\ status[q] = "RUNNING" /\ conversation(r) = conversation(q)
      => r = q
=============================================================================
