---------------------------- MODULE MongoRunStore ----------------------------
(***************************************************************************)
(* The MongoDB run store, src/app/agent/mongo_store.py.                    *)
(*                                                                         *)
(* It promises what RunStore promises, and its documents have the fields   *)
(* of RunStore's rows.  But only append_event and complete_run_with_memory *)
(* are transactions here.  create_or_attach and claim_next_run are chains  *)
(* of single-document operations, each a step of its own, between which    *)
(* other processes act and the process may die.                            *)
(*                                                                         *)
(* Run identifiers are numbered in the order in which create_or_attach     *)
(* writes them into active_run_id; a number whose document was never       *)
(* inserted stays "NONE".  created_at comes from the clocks of several     *)
(* hosts: any candidate of claim_next_run may be the first, and, with      *)
(* OneClock FALSE, a completed run may be remembered before runs that      *)
(* completed earlier, or be trimmed away at once.  require_transactions is *)
(* on.                                                                     *)
(***************************************************************************)
EXTENDS RunStore

CONSTANT Client   \* API processes: each has one create_or_attach at a time

ASSUME MongoAssumption == IsFiniteSet(Client) /\ Client # {}

VARIABLES
  request,  \* how far the create_or_attach of each client is
  scan,     \* how far the claim_next_run of each worker is
  issued    \* run identifiers given out so far

mongoVars == <<vars, request, scan, issued>>

NoRequest == [pc |-> "IDLE", message |-> NoMessage, run |-> NoRun, previous |-> NoRun, base |-> 0]
NoScan == [pc |-> "IDLE", run |-> NoRun, base |-> 0]

MongoInit ==
  /\ Init
  /\ request = [c \in Client |-> NoRequest]
  /\ scan = [w \in Worker |-> NoScan]
  /\ issued = 0

-----------------------------------------------------------------------------
(* create_or_attach *)

FindNothing(c, m) ==
  /\ request[c].pc = "IDLE"
  /\ IsNewMessage(m)
  /\ request' = [request EXCEPT ![c] = [NoRequest EXCEPT !.pc = "COUNT", !.message = m]]
  /\ UNCHANGED <<vars, scan, issued>>

OneMoreFits == Cardinality(OpenRuns) <= MaxQueuedRuns   \* mutation of QueueAdmits

QueueAdmits == Cardinality(OpenRuns) < MaxQueuedRuns

\* RUN_QUEUE_FULL ends the request.
CountQueue(c) ==
  /\ request[c].pc = "COUNT"
  /\ request' = [request EXCEPT ![c] =
                   IF QueueAdmits THEN [@ EXCEPT !.pc = "ACTIVATE"] ELSE NoRequest]
  /\ UNCHANGED <<vars, scan, issued>>

\* find_one_and_update of the conversation state, returning the one before.
Activate(c) ==
  LET k == ConversationOf[request[c].message]
  IN /\ request[c].pc = "ACTIVATE"
     /\ issued < MaxRuns
     /\ issued' = issued + 1
     /\ active' = [active EXCEPT ![k] = issued']
     /\ request' = [request EXCEPT ![c].pc = "INSERT", ![c].run = issued',
                                   ![c].previous = active[k], ![c].base = version[k]]
     /\ UNCHANGED <<status, log, rowVars, leaseVars, version, lastCommitted, memory, scan>>

\* The unique index decides between two requests for one message.
Insert(c) ==
  LET x == request[c]
  IN /\ x.pc = "INSERT"
     /\ IsNewMessage(x.message)
     /\ message' = [message EXCEPT ![x.run] = x.message]
     /\ status' = [status EXCEPT ![x.run] = "QUEUED"]
     /\ dependsOn' = [dependsOn EXCEPT ![x.run] = x.previous]
     /\ base' = [base EXCEPT ![x.run] = x.base]
     /\ request' = [request EXCEPT ![c] = NoRequest]
     /\ UNCHANGED <<leaseVars, log, stateVars, scan, issued>>

\* DuplicateKeyError.  The same body attaches to the run that exists and puts it
\* back into active_run_id, if that still names ours; another body is refused.
Repair(c) ==
  LET x == request[c]
      k == ConversationOf[x.message]
  IN /\ x.pc = "INSERT"
     /\ \E r \in RunId :
          /\ Created(r) /\ message[r] = x.message
          /\ \/ active' = [active EXCEPT ![k] = IF @ = x.run THEN r ELSE @]
             \/ UNCHANGED active
     /\ request' = [request EXCEPT ![c] = NoRequest]
     /\ UNCHANGED <<status, log, rowVars, leaseVars, version, lastCommitted, memory,
                    scan, issued>>

\* The process dies, or a database operation raises.
AbandonRequest(c) ==
  /\ request[c].pc # "IDLE"
  /\ request' = [request EXCEPT ![c] = NoRequest]
  /\ UNCHANGED <<vars, scan, issued>>

-----------------------------------------------------------------------------
(* claim_next_run *)

\* The filter of the scan and of the update.
Takeable(r) == IsOpen(r) /\ lease[r] # "LIVE"

FindCandidate(w, r) ==
  /\ scan[w].pc = "IDLE"
  /\ Takeable(r)
  /\ scan' = [scan EXCEPT ![w] = [NoScan EXCEPT !.pc = "DEPENDENCY", !.run = r]]
  /\ UNCHANGED <<vars, request, issued>>

DependencyFoundEnded(r) ==                          \* mutation of DependencyAllows
  dependsOn[r] # NoRun => IsTerminal(dependsOn[r])

\* A dependency that has no document does not hold anybody up.
DependencyAllows(r) ==
  dependsOn[r] # NoRun => (Created(dependsOn[r]) => IsTerminal(dependsOn[r]))

CheckDependency(w) ==
  /\ scan[w].pc = "DEPENDENCY"
  /\ scan' = [scan EXCEPT ![w] =
                IF DependencyAllows(@.run) THEN [@ EXCEPT !.pc = "VERSION"] ELSE NoScan]
  /\ UNCHANGED <<vars, request, issued>>

ReadVersion(w) ==
  /\ scan[w].pc = "VERSION"
  /\ scan' = [scan EXCEPT ![w].pc = "TAKE",
                          ![w].base = version[conversation(scan[w].run)]]
  /\ UNCHANGED <<vars, request, issued>>

StillOpen(r) == IsOpen(r)                           \* mutation of StillTakeable

\* The update repeats the filter of the scan.  Its "now" is that of the scan, so a
\* lease taken and expired since then does not match in the code and does here; a
\* claim takes milliseconds and a lease at least seconds.
StillTakeable(r) == Takeable(r)

TakeLease(w) ==
  LET r == scan[w].run
  IN /\ scan[w].pc = "TAKE"
     /\ StillTakeable(r)
     /\ generation[r] < MaxGeneration
     /\ status' = [status EXCEPT ![r] = "RUNNING"]
     /\ owner' = [owner EXCEPT ![r] = w]
     /\ lease' = [lease EXCEPT ![r] = "LIVE"]
     /\ generation' = [generation EXCEPT ![r] = @ + 1]
     /\ base' = [base EXCEPT ![r] = scan[w].base]
     /\ scan' = [scan EXCEPT ![w] = NoScan]
     /\ UNCHANGED <<message, dependsOn, log, stateVars, request, issued>>

\* Somebody else was faster, or the process dies.
LoseCandidate(w) ==
  /\ scan[w].pc # "IDLE"
  /\ scan' = [scan EXCEPT ![w] = NoScan]
  /\ UNCHANGED <<vars, request, issued>>

-----------------------------------------------------------------------------
(* Single updates and transactions.  A transaction that meets a concurrent  *)
(* write of the same document is aborted, and does nothing.                 *)

UpdateLease(r) ==
  \/ \E w \in Worker : Renew(w, r, generation[r]) \/ Release(w, r, generation[r])
  \/ LeaseExpires(r)

AppendEvent(r) ==
  \/ \E e \in ProgressEvent : Len(log[r]) < MaxEvents /\ AppendProgress(r, e)
  \/ AppendFailed(r)
  \/ AppendCancelled(r)

\* The memory that Complete writes is sorted and trimmed by created_at.
CompleteRunWithMemory(r) == Complete(r)

-----------------------------------------------------------------------------
ClientStep(c) ==
  \/ \E m \in Message : FindNothing(c, m)
  \/ CountQueue(c) \/ Activate(c) \/ Insert(c) \/ Repair(c) \/ AbandonRequest(c)

WorkerStep(w) ==
  \/ \E r \in RunId : FindCandidate(w, r)
  \/ CheckDependency(w) \/ ReadVersion(w) \/ TakeLease(w) \/ LoseCandidate(w)

DocumentStep(r) ==
  /\ UpdateLease(r) \/ AppendEvent(r) \/ CompleteRunWithMemory(r)
  /\ UNCHANGED <<request, scan, issued>>

MongoNext ==
  \/ \E c \in Client : ClientStep(c)
  \/ \E w \in Worker : WorkerStep(w)
  \/ \E r \in RunId : DocumentStep(r)

MongoSpec == MongoInit /\ [][MongoNext]_mongoVars

-----------------------------------------------------------------------------
(* Properties.  LeaseIsExclusive, CommitChain and ImplementsLedger are those *)
(* of RunStore, about these steps.                                           *)

Request ==
  [pc : {"IDLE", "COUNT", "ACTIVATE", "INSERT"}, message : Message \union {NoMessage},
   run : RunId \union {NoRun}, previous : RunId \union {NoRun}, base : Nat]

Scan == [pc : {"IDLE", "DEPENDENCY", "VERSION", "TAKE"}, run : RunId \union {NoRun}, base : Nat]

\* Documents, requests and scans keep their types, and no run identifier is used
\* before it was given out.
MongoTypeOK ==
  /\ TypeOK
  /\ request \in [Client -> Request]
  /\ scan \in [Worker -> Scan]
  /\ issued \in 0 .. MaxRuns
  /\ \A r \in RunId : Created(r) => r <= issued

\* In spite of requests that die between active_run_id and the insert, and of
\* duplicates that put an older run back, no conversation waits for ever: some
\* open run of it has a dependency that is over or does not exist.
MongoConversationCanMove ==
  \A r \in RunId : IsOpen(r) =>
    \E q \in RunId : /\ q <= r /\ IsOpen(q) /\ DependencyAllows(q)
                     /\ conversation(q) = conversation(r)

\* The count and the insert are separate operations, so the queue may pass its
\* limit, but by less than one run for each process, those that its admitted
\* requests are about to insert included.
Admitted == {c \in Client : request[c].pc \in {"ACTIVATE", "INSERT"}}

QueueOvershootIsBounded ==
  Cardinality(OpenRuns) + Cardinality(Admitted) < MaxQueuedRuns + Cardinality(Client)
=============================================================================
