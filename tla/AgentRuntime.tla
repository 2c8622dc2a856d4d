---------------------------- MODULE AgentRuntime ----------------------------
(***************************************************************************)
(* The worker pool and the execution of a run, src/app/agent/runtime.py,   *)
(* on top of the SQLite run store.                                         *)
(*                                                                         *)
(* A process (RunStore calls it Worker: the store knows one worker_id per  *)
(* process) runs some worker slots, coroutines of one event loop.  A slot  *)
(* claims a run and executes it: it publishes run.started, streams the     *)
(* graph node by node, publishes each node's events, lets LangGraph save a *)
(* checkpoint after each node, and completes the run.  Beside it a renewal *)
(* task keeps the lease, users cancel runs in this or another API process, *)
(* and the process may shut down or die anywhere.                          *)
(*                                                                         *)
(* Every database call is a step of its own.  Code between two awaits is   *)
(* never interrupted by another coroutine of the same process ("pc" in     *)
(* RunningPc), only by other processes and by a crash.                     *)
(*                                                                         *)
(* A graph state is reduced to whose question it holds and whose answer;   *)
(* NoRun is no answer.  What a model or a tool returns, quota accounting,  *)
(* metrics and tool events are left out.                                   *)
(***************************************************************************)
EXTENDS RunStore

CONSTANTS
  Slot,         \* worker coroutines
  ProcessOf,    \* [Slot -> Worker]
  Path,         \* the graph nodes a run visits, in order
  AnswerChunks, \* answer.delta events of one answer, ceil(len / 80)
  MaxFaults,    \* bound: crashes, shutdowns, database errors, stalled leases
  MaxCancels,   \* bound: runs that a user cancels
  NoSlot

Node == {"route_intent", "retrieve_knowledge", "load_catalog", "plan_housing_search",
         "plan_map", "execute_map_tools", "compose_answer"}

ASSUME RuntimeAssumption ==
  /\ ProcessOf \in [Slot -> Worker]
  /\ Path \in Seq(Node) /\ Path # <<>>
  /\ Path[1] = "route_intent"                     \* START's only edge
  /\ \A i \in DOMAIN Path : Path[i] = "compose_answer" <=> i = Len(Path)  \* END's
  /\ AnswerChunks \in Nat \ {0}
  /\ MaxFaults \in Nat
  /\ MaxCancels \in Nat
  /\ NoSlot \notin Slot

VARIABLES
  process,     \* [Worker -> {"UP", "STOPPING", "DOWN"}]
  closing,     \* the tasks that close() of each process found ("active")
  exec,        \* what each slot is doing
  tasks,       \* _tasks of each process: the slot that executes a run
  leaseLost,   \* _lease_lost of each process
  shutdownCancelled, \* _shutdown_cancellations of each process
  checkpoint,  \* the last checkpoint of the thread agent-v2:<conversation>
  admission,   \* how far start_run is with a run it created
  cancelling,  \* how far a cancel_run without a local task is
  answerOf,    \* the run whose question the committed answer answers
  faults       \* faults so far

procVars == <<process, closing>>
loopVars == <<procVars, exec, tasks, leaseLost, shutdownCancelled>>
apiVars == <<admission, cancelling>>
runtimeVars == <<loopVars, apiVars, checkpoint, answerOf, faults>>
allVars == <<vars, runtimeVars>>

-----------------------------------------------------------------------------
(* Program counters of a slot *)

\* Suspended in an await: another coroutine of the process may run, and a
\* cancellation is delivered here.
AwaitPc == {"PREPARE", "LOAD", "STREAM", "SAVE"}

\* Inside the event loop, between two awaits.
RunningPc == {"START", "EMIT", "COMPLETE", "FALLBACK", "FALLBACK_COMPLETE",
              "FAIL", "FAIL_START", "FAIL_END",
              "CANCEL", "CANCEL_START", "CANCEL_END", "RELEASE"}

Pc == AwaitPc \union RunningPc \union {"IDLE", "CLAIMED", "CREATED", "ENDED"}

\* run and gen: the claim; renewing: the renewal task lives; interrupted: a
\* cancellation is pending; question, answer, node: the graph state; told: events
\* of the node already published.
Execution ==
  [pc : Pc, run : RunId \union {NoRun}, gen : Nat,
   resume : BOOLEAN, renewing : BOOLEAN, interrupted : BOOLEAN,
   question : RunId \union {NoRun}, answer : RunId \union {NoRun}, node : Nat, told : Nat]

Checkpoint == [question : RunId \union {NoRun}, answer : RunId \union {NoRun}, node : Nat]

\* The slot has an execution task.
HasTask(s) == exec[s].pc \in AwaitPc \union RunningPc \union {"CREATED"}

NoExecution ==
  [pc |-> "IDLE", run |-> NoRun, gen |-> 0, resume |-> FALSE, renewing |-> FALSE,
   interrupted |-> FALSE, question |-> NoRun, answer |-> NoRun, node |-> 0, told |-> 0]

NoCheckpoint == [question |-> NoRun, answer |-> NoRun, node |-> 0]

RuntimeInit ==
  /\ Init
  /\ process = [p \in Worker |-> "UP"]
  /\ closing = [p \in Worker |-> {}]
  /\ exec = [s \in Slot |-> NoExecution]
  /\ tasks = [p \in Worker |-> [r \in RunId |-> NoSlot]]
  /\ leaseLost = [p \in Worker |-> {}]
  /\ shutdownCancelled = [p \in Worker |-> {}]
  /\ checkpoint = [c \in Conversation |-> NoCheckpoint]
  /\ admission = [r \in RunId |-> "NONE"]
  /\ cancelling = [r \in RunId |-> "NO"]
  /\ answerOf = [r \in RunId |-> NoRun]
  /\ faults = 0

\* No other coroutine of the slot's process is between two awaits.
LoopIsFree(p, s) ==
  \A t \in Slot \ {s} : ProcessOf[t] = p => exec[t].pc \notin RunningPc

At(s, pcs) == exec[s].pc \in pcs /\ LoopIsFree(ProcessOf[s], s)

\* An await that ends normally: nobody cancelled the task.
Awaited(s, pc) == At(s, {pc}) /\ ~exec[s].interrupted

Goto(s, pc) == exec' = [exec EXCEPT ![s].pc = pc]

\* An exception handler takes over: what the stream had loaded is not used again.
Handle(s, pc) ==
  exec' = [exec EXCEPT ![s] = [NoExecution EXCEPT
             !.pc = pc, !.run = exec[s].run, !.gen = exec[s].gen,
             !.renewing = exec[s].renewing]]

Fault == faults < MaxFaults /\ faults' = faults + 1

AppendUnchecked(r, e) ==                            \* mutation of AppendBounded
  /\ Len(log[r]) < MaxEvents
  /\ log' = [log EXCEPT ![r] = Append(@, e)]
  /\ UNCHANGED <<status, rowVars, leaseVars, stateVars>>

AppendBounded(r, e) == Len(log[r]) < MaxEvents /\ AppendProgress(r, e)

\* The slot's execution ends: _worker_loop drops the renewal and the task entry,
\* whichever execution of the run the entry names by now.
Forget(s, r) ==
  tasks' = [tasks EXCEPT ![ProcessOf[s]][r] = NoSlot]

DoneKeepingRenewal(s) ==                            \* mutation of Done
  /\ exec' = [exec EXCEPT ![s] = [NoExecution EXCEPT
                !.run = exec[s].run, !.gen = exec[s].gen, !.renewing = TRUE]]
  /\ Forget(s, exec[s].run)

Done(s) ==
  /\ exec' = [exec EXCEPT ![s] = NoExecution]
  /\ Forget(s, exec[s].run)

-----------------------------------------------------------------------------
(* start_run: create_or_attach, then the quota reservation *)

Submit(m) ==
  /\ Create(m)
  /\ admission' = [r \in RunId |-> IF ~Created(r) /\ Created(r)' THEN "RESERVING"
                                                                 ELSE admission[r]]
  /\ UNCHANGED <<loopVars, cancelling, checkpoint, answerOf, faults>>

\* A reservation that succeeds changes nothing the model keeps.  When it fails the
\* run exists, and a worker may have it already; when it is over append_event
\* raises and start_run suppresses that.
RefuseQuota(r) ==
  /\ admission[r] = "RESERVING"
  /\ admission' = [admission EXCEPT ![r] = "REFUSED"]
  /\ IF IsOpen(r) THEN AppendFailed(r) ELSE UNCHANGED vars
  /\ UNCHANGED <<loopVars, cancelling, checkpoint, answerOf, faults>>

-----------------------------------------------------------------------------
(* _worker_loop *)

\* claim_next_run runs in a thread.  "resume" is last_sequence > 0 of the row
\* that the claim returns.
ResumeAlways(r) == TRUE                             \* mutation of ResumesOnClaim

ResumesOnClaim(r) == log[r] # <<>>

ClaimRun(s) ==
  /\ process[ProcessOf[s]] = "UP"
  /\ exec[s].pc = "IDLE"
  /\ \E r \in RunId :
       /\ generation[r] < MaxGeneration
       /\ Claim(ProcessOf[s], r)
       /\ exec' = [exec EXCEPT ![s] = [NoExecution EXCEPT
                     !.pc = "CLAIMED", !.run = r, !.gen = generation'[r],
                     !.resume = ResumesOnClaim(r)]]
  /\ UNCHANGED <<procVars, tasks, leaseLost, shutdownCancelled, apiVars,
                 checkpoint, answerOf, faults>>

BeginExecution(s) ==
  /\ At(s, {"CLAIMED"})
  /\ process[ProcessOf[s]] = "UP"
  /\ exec' = [exec EXCEPT ![s].pc = "CREATED", ![s].renewing = TRUE]
  /\ tasks' = [tasks EXCEPT ![ProcessOf[s]][exec[s].run] = s]
  /\ UNCHANGED <<vars, procVars, leaseLost, shutdownCancelled, apiVars,
                 checkpoint, answerOf, faults>>

\* release_lease changes nothing when the claim is not ours any more.
GiveBack(s) ==
  LET r == exec[s].run
      mine == HoldsLease(ProcessOf[s], r, exec[s].gen) /\ IsOpen(r)
  IN IF mine THEN Release(ProcessOf[s], r, exec[s].gen) ELSE UNCHANGED vars

ReturnClaim(s) ==
  /\ At(s, {"CLAIMED"})
  /\ process[ProcessOf[s]] = "STOPPING"
  /\ GiveBack(s)
  /\ exec' = [exec EXCEPT ![s] = NoExecution]
  /\ UNCHANGED <<procVars, tasks, leaseLost, shutdownCancelled, apiVars,
                 checkpoint, answerOf, faults>>

FirstStep(s) ==
  /\ Awaited(s, "CREATED")
  /\ Goto(s, "PREPARE")
  /\ UNCHANGED <<vars, procVars, tasks, leaseLost, shutdownCancelled, apiVars,
                 checkpoint, answerOf, faults>>

\* A task that is cancelled before its first step never enters _execute: the
\* CancelledError reaches _worker_loop, which returns for good, and nothing
\* starts another loop in its place.
NeverRuns(s) ==
  /\ At(s, {"CREATED"})
  /\ exec[s].interrupted
  /\ exec' = [exec EXCEPT ![s] = [NoExecution EXCEPT !.pc = "ENDED"]]
  /\ Forget(s, exec[s].run)
  /\ UNCHANGED <<vars, procVars, leaseLost, shutdownCancelled, apiVars,
                 checkpoint, answerOf, faults>>

-----------------------------------------------------------------------------
(* _execute up to the graph.  Reading last_sequence and publishing          *)
(* run.started are two database calls; _execute, _fail_run and the handler *)
(* of CancelledError all do both.                                          *)

IfEmptyButCancelled ==                              \* mutation of IfEmpty
  [PREPARE |-> "START", FAIL |-> "FAIL_START", CANCEL |-> "CANCEL_END"]

IfEmpty == [PREPARE |-> "START", FAIL |-> "FAIL_START", CANCEL |-> "CANCEL_START"]
IfStarted == [PREPARE |-> "LOAD", FAIL |-> "FAIL_END", CANCEL |-> "CANCEL_END"]
AfterStarted == [START |-> "LOAD", FAIL_START |-> "FAIL_END",
                 CANCEL_START |-> "CANCEL_END"]

ReadSequence(s) ==
  LET pc == exec[s].pc
      r == exec[s].run
  IN /\ \/ Awaited(s, "PREPARE")
        \/ At(s, {"FAIL", "CANCEL"}) /\ IsOpen(r)
     /\ Goto(s, IF log[r] = <<>> THEN IfEmpty[pc] ELSE IfStarted[pc])
     /\ UNCHANGED <<vars, procVars, tasks, leaseLost, shutdownCancelled, apiVars,
                    checkpoint, answerOf, faults>>

\* Somebody else ended the run: there is nothing left to publish.
FindsItTerminal(s) ==
  /\ At(s, {"FAIL", "CANCEL"})
  /\ IsTerminal(exec[s].run)
  /\ Done(s)
  /\ UNCHANGED <<vars, procVars, leaseLost, shutdownCancelled, apiVars,
                 checkpoint, answerOf, faults>>

PublishStarted(s) ==
  /\ At(s, DOMAIN AfterStarted)
  /\ AppendBounded(exec[s].run, "run.started")
  /\ Goto(s, AfterStarted[exec[s].pc])
  /\ UNCHANGED <<procVars, tasks, leaseLost, shutdownCancelled, apiVars,
                 checkpoint, answerOf, faults>>

\* Continue the thread's last checkpoint: the state it holds, question
\* included, replaces the aggregate.
LoadResumed(s) ==
  LET k == checkpoint[conversation(exec[s].run)]
  IN /\ Awaited(s, "LOAD")
     /\ exec[s].resume /\ k # NoCheckpoint
     /\ exec' = [exec EXCEPT ![s].pc = "STREAM", ![s].resume = FALSE,
                             ![s].question = k.question,
                             ![s].answer = k.answer, ![s].node = k.node]
     /\ UNCHANGED <<vars, procVars, tasks, leaseLost, shutdownCancelled, apiVars,
                    checkpoint, answerOf, faults>>

\* A new turn: LangGraph saves the input on top of what the thread held.
LoadFresh(s) ==
  LET r == exec[s].run
      c == conversation(r)
  IN /\ Awaited(s, "LOAD")
     /\ ~(exec[s].resume /\ checkpoint[c] # NoCheckpoint)
     /\ exec' = [exec EXCEPT ![s].pc = "STREAM", ![s].resume = FALSE,
                             ![s].question = r,
                             ![s].answer = NoRun, ![s].node = 1]
     /\ checkpoint' = [checkpoint EXCEPT ![c] =
                         [question |-> r, answer |-> @.answer, node |-> 1]]
     /\ UNCHANGED <<vars, procVars, tasks, leaseLost, shutdownCancelled, apiVars,
                    answerOf, faults>>

-----------------------------------------------------------------------------
(* The graph, node by node *)

EventsOf(node) ==
  CASE node = "route_intent"       -> <<"route.selected">>
    [] node = "retrieve_knowledge" -> <<"retrieval.completed", "citation.added">>
    [] node = "execute_map_tools"  -> <<"map.result">>
    [] node = "compose_answer"     -> [i \in 1 .. AnswerChunks |-> "answer.delta"]
    [] OTHER                       -> <<>>

\* What the aggregate holds after a node: route_intent clears the previous
\* turn's answer, compose_answer answers the question in the state.
AnswerAfter(node, x) ==
  CASE node = "route_intent"   -> NoRun
    [] node = "compose_answer" -> x.question
    [] OTHER                   -> x.answer

SaveFirst(node) == "SAVE"                           \* mutation of AfterNode

AfterNode(node) == IF EventsOf(node) = <<>> THEN "SAVE" ELSE "EMIT"

RunNode(s) ==
  LET x == exec[s]
  IN /\ Awaited(s, "STREAM")
     /\ x.node \in DOMAIN Path
     /\ exec' = [exec EXCEPT ![s].pc = AfterNode(Path[x.node]),
                             ![s].answer = AnswerAfter(Path[x.node], x)]
     /\ UNCHANGED <<vars, procVars, tasks, leaseLost, shutdownCancelled, apiVars,
                    checkpoint, answerOf, faults>>

\* The next event of a node, or the next piece of a fallback answer.
PublishNext(s) ==
  LET x == exec[s]
      events == EventsOf(Path[x.node])
      last == x.told + 1 = Len(events)
  IN /\ At(s, {"EMIT", "FALLBACK"})
     /\ AppendBounded(x.run, events[x.told + 1])
     /\ exec' = [exec EXCEPT ![s].told = @ + 1,
                   ![s].pc = IF ~last THEN @
                             ELSE IF @ = "EMIT" THEN "SAVE" ELSE "FALLBACK_COMPLETE"]
     /\ UNCHANGED <<procVars, tasks, leaseLost, shutdownCancelled, apiVars,
                    checkpoint, answerOf, faults>>

\* durability="sync": the checkpoint follows the events, before the next node.
SaveCheckpoint(s) ==
  LET x == exec[s]
  IN /\ Awaited(s, "SAVE")
     /\ checkpoint' = [checkpoint EXCEPT ![conversation(x.run)] =
                         [question |-> x.question, answer |-> x.answer,
                          node |-> x.node + 1]]
     /\ exec' = [exec EXCEPT ![s].pc = "STREAM", ![s].node = @ + 1, ![s].told = 0]
     /\ UNCHANGED <<vars, procVars, tasks, leaseLost, shutdownCancelled, apiVars,
                    answerOf, faults>>

EndStream(s) ==
  /\ Awaited(s, "STREAM")
  /\ exec[s].node \notin DOMAIN Path
  /\ Goto(s, "COMPLETE")
  /\ UNCHANGED <<vars, procVars, tasks, leaseLost, shutdownCancelled, apiVars,
                 checkpoint, answerOf, faults>>

\* _complete_with_answer_fallback: only the answer model failed, and there is
\* evidence to answer from.
AnswerFallsBack(s) ==
  LET x == exec[s]
  IN /\ Awaited(s, "STREAM")
     /\ x.node \in DOMAIN Path
     /\ Path[x.node] = "compose_answer"
     /\ \E i \in 1 .. x.node - 1 : Path[i] \in {"retrieve_knowledge", "execute_map_tools"}
     /\ exec' = [exec EXCEPT ![s].pc = "FALLBACK", ![s].answer = x.question]
     /\ UNCHANGED <<vars, procVars, tasks, leaseLost, shutdownCancelled, apiVars,
                    checkpoint, answerOf, faults>>

\* AgentError, TimeoutError or a checkpoint that cannot be read or written.
ExecutionFails(s) ==
  /\ \E pc \in AwaitPc : Awaited(s, pc)
  /\ Handle(s, "FAIL")
  /\ UNCHANGED <<vars, procVars, tasks, leaseLost, shutdownCancelled, apiVars,
                 checkpoint, answerOf, faults>>

-----------------------------------------------------------------------------
(* Ends of an execution *)

CompleteRun(s) ==
  LET x == exec[s]
  IN /\ At(s, {"COMPLETE", "FALLBACK_COMPLETE"})
     /\ Complete(x.run)
     /\ answerOf' = [answerOf EXCEPT ![x.run] = x.answer]
     /\ Done(s)
     /\ UNCHANGED <<procVars, leaseLost, shutdownCancelled, apiVars, checkpoint, faults>>

PublishFailed(s) ==
  /\ At(s, {"FAIL_END"})
  /\ AppendFailed(exec[s].run)
  /\ Done(s)
  /\ UNCHANGED <<procVars, leaseLost, shutdownCancelled, apiVars,
                 checkpoint, answerOf, faults>>

PublishCancelled(s) ==
  /\ At(s, {"CANCEL_END"})
  /\ AppendCancelled(exec[s].run)
  /\ Done(s)
  /\ UNCHANGED <<procVars, leaseLost, shutdownCancelled, apiVars,
                 checkpoint, answerOf, faults>>

ReleaseRun(s) ==
  /\ At(s, {"RELEASE"})
  /\ GiveBack(s)
  /\ Done(s)
  /\ UNCHANGED <<procVars, leaseLost, shutdownCancelled, apiVars,
                 checkpoint, answerOf, faults>>

\* What an exception does: inside the try it leads to _fail_run; inside a
\* handler it is swallowed, or leaves _execute with the run as it is.
Raise(s) ==
  IF exec[s].pc \in {"START", "EMIT", "COMPLETE"}
  THEN Handle(s, "FAIL") /\ UNCHANGED tasks
  ELSE Done(s)

\* "cannot append an event to a terminal run", or STATE_VERSION_CONFLICT.
StoreRefuses(s) ==
  LET r == exec[s].run
  IN /\ \/ /\ At(s, DOMAIN AfterStarted \union
                       {"EMIT", "FALLBACK", "FAIL_END", "CANCEL_END"})
           /\ ~AcceptsEvents(r)
        \/ /\ At(s, {"COMPLETE", "FALLBACK_COMPLETE"})
           /\ ~(AcceptsEvents(r) /\ BaseIsCurrent(r))
     /\ Raise(s)
     /\ UNCHANGED <<vars, procVars, leaseLost, shutdownCancelled, apiVars,
                    checkpoint, answerOf, faults>>

DatabaseFails(s) ==
  /\ At(s, RunningPc)
  /\ Fault
  /\ Raise(s)
  /\ UNCHANGED <<vars, procVars, leaseLost, shutdownCancelled, apiVars,
                 checkpoint, answerOf>>

\* CancelledError in _execute.
Interrupted(s) ==
  LET r == exec[s].run
      p == ProcessOf[s]
  IN /\ At(s, AwaitPc)
     /\ exec[s].interrupted
     /\ CASE r \in shutdownCancelled[p] -> Handle(s, "RELEASE") /\ UNCHANGED tasks
          [] r \in leaseLost[p] \ shutdownCancelled[p] -> Done(s)
          [] OTHER -> Handle(s, "CANCEL") /\ UNCHANGED tasks
     /\ leaseLost' = [leaseLost EXCEPT ![p] = @ \ {r}]
     /\ shutdownCancelled' = [shutdownCancelled EXCEPT ![p] = @ \ {r}]
     /\ UNCHANGED <<vars, procVars, apiVars, checkpoint, answerOf, faults>>

-----------------------------------------------------------------------------
(* _renew_lease, and the clock *)

RenewLease(s) ==
  /\ exec[s].renewing
  /\ Renew(ProcessOf[s], exec[s].run, exec[s].gen)
  /\ UNCHANGED runtimeVars

LoseLease(s) ==
  LET x == exec[s]
      p == ProcessOf[s]
  IN /\ x.renewing
     /\ At(s, AwaitPc)
     /\ ~(HoldsLease(p, x.run, x.gen) /\ status[x.run] = "RUNNING")
     /\ leaseLost' = [leaseLost EXCEPT ![p] = @ \union {x.run}]
     /\ exec' = [exec EXCEPT ![s].interrupted = TRUE, ![s].renewing = FALSE]
     /\ UNCHANGED <<vars, procVars, tasks, shutdownCancelled, apiVars,
                    checkpoint, answerOf, faults>>

\* An OperationalError in renew_lease ends the renewal task; nobody awaits it
\* before the execution is over.
RenewalDies(s) ==
  /\ exec[s].renewing
  /\ Fault
  /\ exec' = [exec EXCEPT ![s].renewing = FALSE]
  /\ UNCHANGED <<vars, procVars, tasks, leaseLost, shutdownCancelled, apiVars,
                 checkpoint, answerOf>>

\* Somebody renews the lease every third of its length.
Attended(r) ==
  \E s \in Slot : /\ exec[s].run = r
                  /\ exec[s].renewing \/ exec[s].pc = "CLAIMED"
                  /\ HoldsLease(ProcessOf[s], r, exec[s].gen)

LeaseTimesOut(r) == ~Attended(r) /\ LeaseExpires(r) /\ UNCHANGED runtimeVars

LeaseStalls(r) ==
  /\ Attended(r)
  /\ LeaseExpires(r)
  /\ Fault
  /\ UNCHANGED <<loopVars, apiVars, checkpoint, answerOf>>

-----------------------------------------------------------------------------
(* cancel_run, in the process that executes the run and in another one *)

MayCancel(r) ==
  /\ cancelling[r] = "NO" /\ IsOpen(r)
  /\ Cardinality({q \in RunId : cancelling[q] # "NO"}) < MaxCancels

CancelHere(p, r) ==
  /\ process[p] # "DOWN"
  /\ LoopIsFree(p, NoSlot)
  /\ MayCancel(r)
  /\ tasks[p][r] # NoSlot
  /\ exec' = [exec EXCEPT ![tasks[p][r]].interrupted = TRUE]
  /\ cancelling' = [cancelling EXCEPT ![r] = "TASK"]
  /\ UNCHANGED <<vars, procVars, tasks, leaseLost, shutdownCancelled, admission,
                 checkpoint, answerOf, faults>>

CancelElsewhere(r) ==
  /\ MayCancel(r)
  /\ cancelling' = [cancelling EXCEPT ![r] = IF log[r] = <<>> THEN "START" ELSE "END"]
  /\ UNCHANGED <<vars, loopVars, admission, checkpoint, answerOf, faults>>

\* append_event may refuse, and the request fails with HTTP 500.
CancelStart(r) ==
  /\ cancelling[r] = "START"
  /\ \/ AppendBounded(r, "run.started") /\ cancelling' = [cancelling EXCEPT ![r] = "END"]
     \/ /\ ~AcceptsEvents(r)
        /\ cancelling' = [cancelling EXCEPT ![r] = "OVER"]
        /\ UNCHANGED vars
  /\ UNCHANGED <<loopVars, admission, checkpoint, answerOf, faults>>

CancelEnd(r) ==
  /\ cancelling[r] = "END"
  /\ \/ AppendCancelled(r) /\ cancelling' = [cancelling EXCEPT ![r] = "OVER"]
     \/ /\ ~AcceptsEvents(r)
        /\ cancelling' = [cancelling EXCEPT ![r] = "OVER"]
        /\ UNCHANGED vars
  /\ UNCHANGED <<loopVars, admission, checkpoint, answerOf, faults>>

-----------------------------------------------------------------------------
(* close, and the death of a process *)

Stop(p) ==
  /\ process' = [process EXCEPT ![p] = "DOWN"]
  /\ closing' = [closing EXCEPT ![p] = {}]
  /\ exec' = [s \in Slot |-> IF ProcessOf[s] = p THEN NoExecution ELSE exec[s]]
  /\ tasks' = [tasks EXCEPT ![p] = [r \in RunId |-> NoSlot]]
  /\ leaseLost' = [leaseLost EXCEPT ![p] = {}]
  /\ shutdownCancelled' = [shutdownCancelled EXCEPT ![p] = {}]

Crash(p) ==
  /\ process[p] # "DOWN"
  /\ Fault
  /\ Stop(p)
  /\ UNCHANGED <<vars, apiVars, checkpoint, answerOf>>

Shutdown(p) ==
  /\ process[p] = "UP"
  /\ LoopIsFree(p, NoSlot)
  /\ Fault
  /\ process' = [process EXCEPT ![p] = "STOPPING"]
  /\ closing' = [closing EXCEPT ![p] = {tasks[p][r] : r \in RunId} \ {NoSlot}]
  /\ UNCHANGED <<vars, exec, tasks, leaseLost, shutdownCancelled, apiVars,
                 checkpoint, answerOf>>

Unfinished(p) == {s \in closing[p] : HasTask(s)}

\* agent_shutdown_grace_seconds passed: what is left of those tasks is cancelled.
GraceEnds(p) ==
  /\ process[p] = "STOPPING"
  /\ LoopIsFree(p, NoSlot)
  /\ Unfinished(p) # {} /\ shutdownCancelled[p] = {}
  /\ shutdownCancelled' = [shutdownCancelled EXCEPT
                             ![p] = {exec[s].run : s \in Unfinished(p)}]
  /\ exec' = [s \in Slot |-> [exec[s] EXCEPT !.interrupted = @ \/ s \in Unfinished(p)]]
  /\ UNCHANGED <<vars, procVars, tasks, leaseLost, apiVars, checkpoint, answerOf, faults>>

\* close() then cancels the worker loops that have not returned: one whose claim
\* is still in its thread, or one that executes a run whose task another slot of
\* the process replaced in _tasks, so that close() never saw it.  The latter is
\* not in _shutdown_cancellations and takes it for a user's cancellation.
StopLoop(s) ==
  LET p == ProcessOf[s]
  IN /\ process[p] = "STOPPING"
     /\ LoopIsFree(p, NoSlot)
     /\ Unfinished(p) = {}
     /\ \/ /\ exec[s].pc = "CLAIMED"
           /\ exec' = [exec EXCEPT ![s] = [NoExecution EXCEPT !.pc = "ENDED"]]
        \/ /\ Awaited(s, exec[s].pc) /\ exec[s].pc \in AwaitPc
           /\ exec' = [exec EXCEPT ![s].interrupted = TRUE]
     /\ UNCHANGED <<vars, procVars, tasks, leaseLost, shutdownCancelled, apiVars,
                    checkpoint, answerOf, faults>>

Exit(p) ==
  /\ process[p] = "STOPPING"
  /\ \A s \in Slot : ProcessOf[s] = p => exec[s].pc \in {"IDLE", "ENDED"}
  /\ Stop(p)
  /\ UNCHANGED <<vars, apiVars, checkpoint, answerOf, faults>>

Restart(p) ==
  /\ process[p] = "DOWN"
  /\ process' = [process EXCEPT ![p] = "UP"]
  /\ UNCHANGED <<vars, closing, exec, tasks, leaseLost, shutdownCancelled, apiVars,
                 checkpoint, answerOf, faults>>

-----------------------------------------------------------------------------
SlotStep(s) ==
  \/ BeginExecution(s) \/ ReturnClaim(s) \/ FirstStep(s) \/ NeverRuns(s)
  \/ ReadSequence(s) \/ FindsItTerminal(s) \/ PublishStarted(s)
  \/ LoadResumed(s) \/ LoadFresh(s)
  \/ RunNode(s) \/ PublishNext(s) \/ SaveCheckpoint(s) \/ EndStream(s)
  \/ AnswerFallsBack(s) \/ ExecutionFails(s)
  \/ CompleteRun(s) \/ PublishFailed(s) \/ PublishCancelled(s) \/ ReleaseRun(s)
  \/ StoreRefuses(s) \/ Interrupted(s)

RuntimeNext ==
  \/ \E m \in Message : Submit(m)
  \/ \E s \in Slot : \/ ClaimRun(s) \/ SlotStep(s)
                     \/ RenewLease(s) \/ LoseLease(s)
                     \/ RenewalDies(s) \/ DatabaseFails(s) \/ StopLoop(s)
  \/ \E r \in RunId : \/ RefuseQuota(r)
                      \/ LeaseTimesOut(r) \/ LeaseStalls(r)
                      \/ CancelElsewhere(r) \/ CancelStart(r) \/ CancelEnd(r)
  \/ \E p \in Worker : \/ \E r \in RunId : CancelHere(p, r)
                       \/ Crash(p) \/ Shutdown(p) \/ GraceEnds(p) \/ Exit(p) \/ Restart(p)

RuntimeSpec == RuntimeInit /\ [][RuntimeNext]_allVars

\* An event loop runs its ready coroutines, every await of _execute is bounded by
\* agent_max_run_seconds or a client timeout, a supervisor restarts a process,
\* and a lease that nobody renews runs out.
RuntimeFairness ==
  /\ \A s \in Slot : WF_allVars(ClaimRun(s)) /\ WF_allVars(SlotStep(s))
  /\ \A p \in Worker : WF_allVars(GraceEnds(p) \/ Exit(p) \/ Restart(p))
  /\ \A r \in RunId : WF_allVars(LeaseTimesOut(r))

FairRuntimeSpec == RuntimeSpec /\ RuntimeFairness

-----------------------------------------------------------------------------
(* Properties *)

\* Every variable has its type; a slot that has claimed a run knows which, and a
\* lease renewal never outlives the execution it was started for.
RuntimeTypeOK ==
  /\ process \in [Worker -> {"UP", "STOPPING", "DOWN"}]
  /\ closing \in [Worker -> SUBSET Slot]
  /\ exec \in [Slot -> Execution]
  /\ \A s \in Slot : /\ exec[s].pc \notin {"IDLE", "ENDED"} => exec[s].run \in RunId
                    /\ exec[s].renewing => HasTask(s)
  /\ tasks \in [Worker -> [RunId -> Slot \union {NoSlot}]]
  /\ leaseLost \in [Worker -> SUBSET RunId]
  /\ shutdownCancelled \in [Worker -> SUBSET RunId]
  /\ checkpoint \in [Conversation -> Checkpoint]
  /\ admission \in [RunId -> {"NONE", "RESERVING", "REFUSED"}]
  /\ cancelling \in [RunId -> {"NO", "TASK", "START", "END", "OVER"}]
  /\ answerOf \in [RunId -> RunId \union {NoRun}]
  /\ faults \in 0 .. MaxFaults

\* The runtime uses the store as RunStore assumes: all its interleavings,
\* crashes and zombie executions only ever take the steps of RunStore, so what
\* is proved of the store holds of the whole system.
UsesStoreAsSpecified == Spec

\* A run that was claimed and never handed over (its only execution got through)
\* answers its own question, whatever the conversation's checkpoint held.
FirstExecutionAnswersItsQuestion ==
  \A r \in RunId : status[r] = "SUCCEEDED" /\ generation[r] = 1
                     /\ cancelling[r] \in {"NO", "TASK"}
    => answerOf[r] = r

\* At-least-once publication: when a run's own answer is committed, every node on
\* its path has published all its events, in spite of crashes between an event
\* and the checkpoint that covers it.  This is lost once a run of the conversation
\* has ended unclaimed: two runs may then share the conversation's checkpoint
\* (OverlapOnlyPastUnclaimedEnd), and one of them may resume past a node whose
\* events the other has published under its own name.
Published(r, node) ==
  \A e \in {EventsOf(node)[i] : i \in DOMAIN EventsOf(node)} :
    \E k \in DOMAIN log[r] : log[r][k] = e

EndedUnclaimed(c) == \E k \in RunsOf(c) : IsTerminal(k) /\ generation[k] = 0

CommittedRunToldItsSteps ==
  \A r \in RunId :
    status[r] = "SUCCEEDED" /\ answerOf[r] = r /\ ~EndedUnclaimed(conversation(r))
    => \A i \in DOMAIN Path : Published(r, Path[i])

\* A run that execution has touched opened with run.started; only the quota
\* refusal of start_run, and nothing else, ends a run that never did.
OnlyRefusedRunsSkipStarted ==
  \A r \in RunId : log[r] # <<>> /\ log[r][1] # "run.started"
    => admission[r] = "REFUSED" /\ log[r] = <<"run.failed">>

\* Every accepted run reaches a terminal state as long as a worker slot is left.
NoSlotLeft == \A s \in Slot : exec[s].pc = "ENDED"

RunsFinish == \A r \in RunId : Created(r) ~> (IsTerminal(r) \/ NoSlotLeft)

\* "Each new turn clears the previous turn's answer ... so that the checkpoint
\* does not contaminate it": a run is never completed with another run's answer.
AnswersItsOwnQuestion ==
  \A r \in RunId : status[r] = "SUCCEEDED" => answerOf[r] = r

\* "The concatenation of answer.delta must equal run.completed.payload.answer."
DeltasMakeTheAnswer ==
  \A r \in RunId : status[r] = "SUCCEEDED"
    => Cardinality({k \in DOMAIN log[r] : log[r][k] = "answer.delta"}) = AnswerChunks
=============================================================================
