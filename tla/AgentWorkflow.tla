---------------------------- MODULE AgentWorkflow ----------------------------
(***************************************************************************)
(* One run through the graph of workflow.py, with the part of _execute in  *)
(* runtime.py that publishes what the nodes do.                            *)
(*                                                                         *)
(* A run has up to two executions: the second resumes it, after the first  *)
(* died or while the first, whose lease is lost, still runs elsewhere.     *)
(* Both work on one checkpoint thread, the conversation's, which holds     *)
(* what the previous turn left; both write the tool metrics and events of  *)
(* the run.  Tool outputs and the map result are not checkpointed          *)
(* (UntrackedValue).                                                       *)
(*                                                                         *)
(* LangGraph is external: a node's custom events wait in a queue, which is *)
(* drained while the node waits and before its update, and dropped when    *)
(* the node raises; an update is handed out before the checkpoint that     *)
(* covers it; the writes of a finished node are saved in the background,   *)
(* and an execution that finds them hands out the update again instead of  *)
(* running the node.                                                       *)
(*                                                                         *)
(* Data is reduced to the turn it comes from (Tag) and to arguments that   *)
(* are equal or not; of a tool metric its arguments are kept.  Queries,    *)
(* answers, features, warnings and stage metrics are left out.  Leases,    *)
(* the terminal race of the store and database errors of the final         *)
(* transaction are those of AgentRuntime.                                  *)
(***************************************************************************)
EXTENDS ToolClient, Sequences

CONSTANTS
  MaxStops,         \* bound: executions that end without a word, or overlap
  SharedIntents,    \* bound: what a run with two executions at a time is routed to
  MaxSharedCalls    \* bound: its tool calls

ASSUME WorkflowAssumption ==
  /\ Caller = {1, 2}
  /\ IsFiniteSet(Call) /\ Call # {} /\ Call = 1 .. Cardinality(Call)
  /\ MaxStops \in Nat /\ MaxSharedCalls \in Nat

VARIABLES
  run,         \* status; why it failed
  told,        \* events of the run, tool events counted per call
  metrics,     \* agent_tool_metrics: the arguments of a call
  checkpoint,  \* the latest of the thread
  exec,        \* the executions
  committed,   \* what _complete_run stored
  stops,
  overlap, replayed, \* history: two executions at a time; tools whose node was not run again
  raced              \* history: calls that both executions checked, with other arguments,
                     \* before either wrote the metric

runVars == <<run, told, metrics, checkpoint, committed>>
historyVars == <<stops, overlap, replayed, raced>>
workflowVars == <<toolVars, runVars, exec, historyVars>>

-----------------------------------------------------------------------------
(* The state of the graph *)

Node == {"route_intent", "retrieve_knowledge", "load_catalog", "plan_housing_search",
         "plan_map", "execute_map_tools", "compose_answer"}

\* HOUSING is MAP_QUERY with housing_search.
Intent == {"MAP_QUERY", "HOUSING", "RAG_QA", "HYBRID", "CLARIFY", "CONVERSATION"}

ASSUME SharedIntentsAssumption == SharedIntents \subseteq Intent

\* The turn a piece of state comes from; EMPTY is a map result without result sets.
Tag == {"NONE", "OLD", "EMPTY", "NEW"}

\* documents, citations, summary, mapResult, answer: retrieval_results and so on.
GraphState == [intent : Intent, plan : UNION {[1 .. n -> Arguments] : n \in {0} \union Call},
               planned : Tag, documents : Tag, citations : Tag, summary : Tag,
               mapResult : Tag, answer : Tag]

NoState == [intent |-> "CONVERSATION", plan |-> <<>>, planned |-> "NONE",
               documents |-> "NONE", citations |-> "NONE", summary |-> "NONE",
               mapResult |-> "NONE", answer |-> "NONE"]

OldState == [intent |-> "HYBRID", plan |-> <<>>, planned |-> "OLD",
             documents |-> "OLD", citations |-> "OLD", summary |-> "OLD",
             mapResult |-> "NONE", answer |-> "OLD"]

\* What of g a checkpoint holds.
Tracked(g) == [g EXCEPT !.mapResult = "NONE"]

RouteBranch(g) ==
  CASE g.intent \in {"RAG_QA", "HYBRID"} -> "retrieve_knowledge"
    [] g.intent \in {"MAP_QUERY", "HOUSING"} -> "load_catalog"
    [] OTHER -> "compose_answer"

AfterRetrieval(g) == IF g.intent = "HYBRID" THEN "load_catalog" ELSE "compose_answer"

NextNode(node, g) ==
  CASE node = "route_intent" -> RouteBranch(g)
    [] node = "retrieve_knowledge" -> AfterRetrieval(g)
    [] node = "load_catalog" ->
         IF g.intent = "HOUSING" THEN "plan_housing_search" ELSE "plan_map"
    [] node \in {"plan_housing_search", "plan_map"} -> "execute_map_tools"
    [] node = "execute_map_tools" -> "compose_answer"
    [] node = "compose_answer" -> "END"

-----------------------------------------------------------------------------
NoExecution ==
  [pc |-> "IDLE", resume |-> FALSE, node |-> "END", g |-> NoState, call |-> 0,
   succeeded |-> FALSE, queue |-> <<>>, cause |-> "NONE", open |-> {}]

WorkflowInit ==
  /\ ToolInit
  /\ run = [status |-> "RUNNING", cause |-> "NONE"]
  /\ told = [started |-> FALSE, route |-> FALSE, citation |-> FALSE, map |-> "NONE",
             toolStarted |-> [c \in Call |-> 0], toolCompleted |-> [c \in Call |-> 0]]
  /\ metrics = [c \in Call |-> NoArguments]
  /\ checkpoint = [state |-> OldState, next |-> "END", saved |-> FALSE, after |-> NoState]
  /\ exec = [x \in Caller |-> NoExecution]
  /\ committed = NoState
  /\ stops = 0 /\ overlap = FALSE /\ replayed = FALSE /\ raced = {}

Running == run.status = "RUNNING"

Goto(x, pc) == exec' = [exec EXCEPT ![x].pc = pc]

\* The task is over, with what it held.
Leave(x) ==
  /\ exec' = [exec EXCEPT ![x] = [NoExecution EXCEPT !.pc = "ENDED"]]
  /\ client' = [client EXCEPT ![x] = IdleClient]
  /\ UNCHANGED <<service, requests>>

\* In an await of the stream, where a cancellation or a timeout arrives.
Suspended(x) ==
  /\ \/ exec[x].pc \in {"INPUT", "INVOKE", "SAVE"}
     \/ exec[x].pc = "NODE" /\ exec[x].node # "execute_map_tools"

-----------------------------------------------------------------------------
(* The beginning of _execute *)

MayShare(e) ==
  \/ e.node \in {"END", "route_intent"}
  \/ e.g.intent \in SharedIntents /\ Len(e.g.plan) <= MaxSharedCalls

\* The worker loop resumes a run that has events.
Claim(x) ==
  /\ Running
  /\ exec[x].pc = "IDLE"
  /\ x = 2 => exec[1].pc # "IDLE"
  /\ LET elsewhere == x = 2 /\ exec[1].pc # "ENDED" IN
     /\ elsewhere => stops < MaxStops /\ MayShare(exec[1])
     /\ stops' = IF elsewhere THEN stops + 1 ELSE stops
     /\ overlap' = (overlap \/ elsewhere)
  /\ exec' = [exec EXCEPT ![x] = [NoExecution EXCEPT !.pc = "PREPARE", !.resume = told.started]]
  /\ UNCHANGED <<toolVars, runVars, replayed, raced>>

\* The state of the thread; saved writes of the next node stand for its run.
Resumed ==
  [NoExecution EXCEPT
     !.pc = IF checkpoint.next = "END" THEN "COMPLETE"
            ELSE IF checkpoint.saved THEN "EMIT" ELSE "NODE",
     !.node = checkpoint.next,
     !.g = IF checkpoint.saved THEN checkpoint.after ELSE checkpoint.state]

\* The input of the turn, over what the thread has.
NewInput == [NoExecution EXCEPT !.pc = "INPUT", !.g = [checkpoint.state EXCEPT !.citations = "NONE"]]

\* A checkpoint, and no writes after it.
Checkpoint(state, next) == [state |-> state, next |-> next, saved |-> FALSE, after |-> NoState]

\* When the last execution has read the thread, nobody reads it again: what is in it is
\* not followed any more.
Forgotten == Checkpoint(NoState, "END")

Last(x) == x = Cardinality(Caller)

SaveThread(state, next) ==
  checkpoint' = IF checkpoint = Forgotten THEN Forgotten ELSE Checkpoint(state, next)

\* run.started, and where the graph begins.
Prepare(x) ==
  /\ exec[x].pc = "PREPARE"
  /\ told' = [told EXCEPT !.started = TRUE]
  /\ exec' = [exec EXCEPT ![x] = IF exec[x].resume THEN Resumed ELSE NewInput]
  /\ replayed' = (replayed \/ (exec[x].resume /\ checkpoint.saved
                               /\ checkpoint.next = "execute_map_tools"))
  /\ checkpoint' = IF Last(x) THEN Forgotten ELSE checkpoint
  /\ UNCHANGED <<toolVars, run, metrics, committed, stops, overlap, raced>>

\* The checkpoint of the input, from which the graph begins.
SaveInput(x) ==
  /\ exec[x].pc = "INPUT"
  /\ SaveThread(exec[x].g, "route_intent")
  /\ exec' = [exec EXCEPT ![x].pc = "NODE", ![x].node = "route_intent"]
  /\ UNCHANGED <<toolVars, run, told, metrics, committed, historyVars>>

-----------------------------------------------------------------------------
(* The nodes.  At x that runs n: *)

At(x, n) == exec[x].pc = "NODE" /\ exec[x].node = n

\* The node returns; its custom events and its update are still to be published.
Update(x, g) == exec' = [exec EXCEPT ![x].pc = "EMIT", ![x].g = g]

NodeFrame == UNCHANGED <<toolVars, runVars, historyVars>>

KeepsSummary(g, i) ==                               \* mutation of NewTurnRouteUpdate
  [g EXCEPT !.intent = i, !.plan = <<>>, !.planned = "NONE", !.documents = "NONE",
            !.citations = "NONE", !.mapResult = "NONE", !.answer = "NONE"]

\* Everything the previous turn left in the thread is cleared.
NewTurnRouteUpdate(g, i) ==
  [intent |-> i, plan |-> <<>>, planned |-> "NONE", documents |-> "NONE",
   citations |-> "NONE", summary |-> "NONE", mapResult |-> "NONE", answer |-> "NONE"]

RouteIntent(x) ==
  /\ At(x, "route_intent")
  /\ \E i \in IF overlap THEN SharedIntents ELSE Intent :
       Update(x, NewTurnRouteUpdate(exec[x].g, i))
  /\ NodeFrame

\* The knowledge base may have nothing; what it has found it finds again.
RetrieveKnowledge(x) ==
  /\ At(x, "retrieve_knowledge")
  /\ \E found \in {"NONE", "NEW"} :
       /\ told.citation => found = "NEW"
       /\ Update(x, [exec[x].g EXCEPT !.documents = found, !.citations = found])
  /\ NodeFrame

LoadCatalog(x) ==
  /\ At(x, "load_catalog")
  /\ Update(x, exec[x].g)
  /\ NodeFrame

\* The planner may plan otherwise another time: one value stands for the arguments of
\* all its calls.
Plan(x, n) ==
  /\ overlap => n <= MaxSharedCalls
  /\ \E a \in Arguments :
       Update(x, [exec[x].g EXCEPT !.plan = [c \in 1 .. n |-> a], !.planned = "NEW"])

PlanHousingSearch(x) == At(x, "plan_housing_search") /\ Plan(x, 1) /\ NodeFrame

PlanMap(x) == At(x, "plan_map") /\ (\E n \in Call : Plan(x, n)) /\ NodeFrame

-----------------------------------------------------------------------------
(* execute_map_tools: one call after the other *)

\* A node raises: cause is ANSWER for an AgentError with details.operation = "answer".
Raise(x, cause) ==
  exec' = [exec EXCEPT ![x].pc = "RAISED", ![x].cause = cause]

CurrentCall(x) == exec[x].call + 1

Push(q, event, c) == Append(q, [event |-> event, call |-> c])

AnyArguments(c, a) == FALSE                         \* mutation of ToolCallConflict

ToolCallConflict(c, a) == metrics[c] \notin {NoArguments, a}

\* x has read the metric of c, and not written it; its arguments are not a.
RecordsOther(x, c, a) ==
  exec[x].pc = "RECORD" /\ CurrentCall(x) = c /\ exec[x].g.plan[c] # a

\* record_tool_started reads the metric of the call ...
CheckTool(x) ==
  LET c == CurrentCall(x)
      a == exec[x].g.plan[c]
  IN /\ At(x, "execute_map_tools")
     /\ c <= Len(exec[x].g.plan)
     /\ ~ToolCallConflict(c, a)
     /\ Goto(x, "RECORD")
     /\ raced' = IF \E y \in Caller : RecordsOther(y, c, a) THEN raced \union {c} ELSE raced
     /\ UNCHANGED <<toolVars, runVars, stops, overlap, replayed>>

\* ... and writes it in another transaction, where the arguments of the first who does
\* remain; then come the event and the request.
StartTool(x) ==
  LET c == CurrentCall(x)
      a == exec[x].g.plan[c]
  IN /\ exec[x].pc = "RECORD"
     /\ metrics' = [metrics EXCEPT ![c] = IF @ = NoArguments THEN a ELSE @]
     /\ exec' = [exec EXCEPT ![x].pc = "INVOKE",
                             ![x].queue = Push(@, "toolStarted", c)]
     /\ Invoke(x, c, a)
     /\ UNCHANGED <<run, told, checkpoint, committed, historyVars>>

\* A conflict, or the database, leaves the node at once.
StartToolRaises(x) ==
  /\ \/ At(x, "execute_map_tools") /\ CurrentCall(x) <= Len(exec[x].g.plan)
     \/ exec[x].pc = "RECORD"
  /\ Raise(x, "OTHER")
  /\ NodeFrame

\* A result that violates the catalog or the arguments counts as failed.
ToolStatus(outcome) == IF outcome = "SUCCEEDED" THEN {"SUCCEEDED", "FAILED"} ELSE {"FAILED"}

\* record_tool_completed and the event; a failed call is a warning of the run.
FinishTool(x) ==
  LET c == CurrentCall(x) IN
  /\ exec[x].pc = "INVOKE"
  /\ client[x].pc = "DONE"
  /\ \E s \in ToolStatus(client[x].outcome) :
       exec' = [exec EXCEPT ![x].pc = "NODE", ![x].call = c,
            ![x].succeeded = @ \/ s = "SUCCEEDED",
            ![x].queue = Push(@, "toolCompleted", c)]
  /\ client' = [client EXCEPT ![x] = IdleClient]
  /\ UNCHANGED <<service, requests, runVars, historyVars>>

\* The results of the calls that succeeded make the map result.
BuildMapResult(x) ==
  /\ At(x, "execute_map_tools")
  /\ CurrentCall(x) > Len(exec[x].g.plan)
  /\ exec[x].succeeded
  /\ \E m \in {"EMPTY", "NEW"} :
       Update(x, [exec[x].g EXCEPT !.mapResult = m, !.summary = m])
  /\ NodeFrame

\* No call succeeded, or a result has a bad geometry or too many features.
ToolsRaise(x) ==
  /\ At(x, "execute_map_tools")
  /\ CurrentCall(x) > Len(exec[x].g.plan)
  /\ Raise(x, "OTHER")
  /\ NodeFrame

-----------------------------------------------------------------------------
(* compose_answer *)

MapEvidence(g) == IF g.mapResult # "NONE" THEN g.mapResult ELSE g.summary

DerivedFrom(tags) == IF "OLD" \in tags THEN "OLD" ELSE "NEW"

AsksModel(g) == g.intent \in {"RAG_QA", "HYBRID"}

FixedAnswer(g) ==
  [g EXCEPT !.citations = "NONE",
            !.answer = IF g.intent \in {"CONVERSATION", "CLARIFY"} THEN "NEW"
                       ELSE DerivedFrom({MapEvidence(g)})]

\* The model found the evidence sufficient, and cites some of it or nothing.
SupportedAnswers(g) ==
  {[g EXCEPT !.citations = c, !.answer = DerivedFrom({g.documents, MapEvidence(g)})] :
     c \in {g.citations, "NONE"}}

\* It did not: the map result answers, if it is at hand; else the answer is that there
\* is none.
UnsupportedAnswer(g) ==
  [g EXCEPT !.citations = "NONE",
            !.answer = IF g.mapResult \in {"OLD", "NEW"} THEN DerivedFrom({g.mapResult})
                       ELSE "NEW"]

\* The answer "nothing was found" is never given: after route_intent the map result is a
\* dict, if an empty one, and the model is asked about no evidence.
ComposeAnswer(x) ==
  LET g == exec[x].g IN
  /\ At(x, "compose_answer")
  /\ \/ ~AsksModel(g) /\ Update(x, FixedAnswer(g))
     \/ AsksModel(g) /\ (\E answered \in SupportedAnswers(g) \union {UnsupportedAnswer(g)} :
                           Update(x, answered))
  /\ NodeFrame

-----------------------------------------------------------------------------
(* What makes a node raise *)

\* The model: three answers 429, an answer that is no JSON or twice not of the schema,
\* an HTTP error or a timeout; operation names the node that asked.  An answer that is
\* no object, or has no choices, is no AgentError, and names nobody.
ModelRaises(x) ==
  \/ /\ exec[x].pc = "NODE"
     /\ exec[x].node \in {"route_intent", "plan_housing_search", "plan_map"}
     /\ Raise(x, "OTHER")
     /\ NodeFrame
  \/ /\ At(x, "compose_answer")
     /\ AsksModel(exec[x].g)
     /\ \E cause \in {"ANSWER", "OTHER"} : Raise(x, cause)
     /\ NodeFrame

\* The knowledge base, or a catalog of another version.
SourceRaises(x) ==
  /\ exec[x].pc = "NODE"
  /\ exec[x].node \in {"retrieve_knowledge", "load_catalog"}
  /\ Raise(x, "OTHER")
  /\ NodeFrame

\* agent_max_run_seconds; a tool call in progress is abandoned.  While the answer is
\* awaited, too, it is the run that failed and not the answer.
RunTimeout(x) ==
  /\ Suspended(x)
  /\ exec' = [exec EXCEPT ![x].pc = "RAISED", ![x].cause = "OTHER", ![x].queue = <<>>]
  /\ client' = [client EXCEPT ![x] = IdleClient]
  /\ UNCHANGED <<service, requests, runVars, historyVars>>

NodeRaises(x) == StartToolRaises(x) \/ ToolsRaise(x) \/ ModelRaises(x) \/ SourceRaises(x)

-----------------------------------------------------------------------------
(* What the stream hands out: custom events, then the update, then a checkpoint *)

HasToolEvent(event) == told[event.event][event.call] > 0

\* An event that is told already is dropped.  has_tool_event and the append are two
\* transactions: with two executions at a time both may find nothing.
PublishToolEvent(x) ==
  LET event == Head(exec[x].queue) IN
  /\ exec[x].pc \in {"INVOKE", "EMIT", "RAISED"}
  /\ exec[x].queue # <<>>
  /\ \/ HasToolEvent(event) /\ UNCHANGED told
     \/ /\ ~HasToolEvent(event) \/ overlap
        /\ Running
        /\ told' = [told EXCEPT ![event.event][event.call] = @ + 1]
  /\ exec' = [exec EXCEPT ![x].queue = Tail(@)]
  /\ UNCHANGED <<toolVars, run, metrics, checkpoint, committed, historyVars>>

\* The events of the update.
Tell(node, g) ==
  CASE node = "route_intent" -> [told EXCEPT !.route = TRUE]
    [] node = "retrieve_knowledge" -> [told EXCEPT !.citation = @ \/ g.citations # "NONE"]
    [] node = "execute_map_tools" /\ g.mapResult # "NONE" -> [told EXCEPT !.map = g.mapResult]
    [] OTHER -> told

Silent(node) == node \in {"load_catalog", "plan_housing_search", "plan_map"}

EmitUpdate(x) ==
  /\ exec[x].pc = "EMIT"
  /\ exec[x].queue = <<>>
  /\ Running \/ Silent(exec[x].node)
  /\ told' = Tell(exec[x].node, exec[x].g)
  /\ Goto(x, "SAVE")
  /\ UNCHANGED <<toolVars, run, metrics, checkpoint, committed, historyVars>>

\* In the background, as soon as the node has returned; the map result perhaps with it.
SaveWrites(x) ==
  /\ checkpoint # Forgotten
  /\ exec[x].pc \in {"EMIT", "SAVE"}
  /\ checkpoint.next = exec[x].node /\ ~checkpoint.saved
  /\ \E g \in {exec[x].g, Tracked(exec[x].g)} :
       checkpoint' = [checkpoint EXCEPT !.saved = TRUE, !.after = g]
  /\ UNCHANGED <<toolVars, run, told, metrics, committed, exec, historyVars>>

SaveCheckpoint(x) ==
  LET g == exec[x].g
      next == NextNode(exec[x].node, g)
  IN /\ exec[x].pc = "SAVE"
     /\ SaveThread(Tracked(g), next)
     /\ exec' = [exec EXCEPT ![x].pc = IF next = "END" THEN "COMPLETE" ELSE "NODE",
                             ![x].node = next]
     /\ UNCHANGED <<toolVars, run, told, metrics, committed, historyVars>>

-----------------------------------------------------------------------------
(* The end of _execute *)

Complete(x) ==
  /\ exec[x].pc = "COMPLETE"
  /\ Running
  /\ run' = [run EXCEPT !.status = "SUCCEEDED"]
  /\ committed' = Tracked(exec[x].g)
  /\ Leave(x)
  /\ UNCHANGED <<told, metrics, checkpoint, historyVars>>

MapOnly(g) == g.mapResult \in {"OLD", "NEW"}        \* mutation of HasEvidence

HasEvidence(g) == g.mapResult \in {"OLD", "NEW"} \/ g.citations # "NONE"

\* _complete_with_answer_fallback: the answer model failed, the evidence answers.
Fallback(x) ==
  LET g == exec[x].g IN
  /\ exec[x].pc = "RAISED"
  /\ Running
  /\ exec[x].cause = "ANSWER" /\ HasEvidence(g)
  /\ exec' = [exec EXCEPT ![x].pc = "COMPLETE", ![x].queue = <<>>, ![x].g.answer =
       DerivedFrom(IF MapOnly(g) THEN {g.mapResult} ELSE {g.documents})]
  /\ NodeFrame

NothingPending == {}                                \* mutation of PendingToolCalls

PendingToolCalls == {c \in Call : told.toolStarted[c] > 0 /\ told.toolCompleted[c] = 0}

\* _fail_run reads the pending calls, closes them one by one, and fails the run.
FailBegin(x) ==
  /\ exec[x].pc = "RAISED"
  /\ Running
  /\ ~(exec[x].cause = "ANSWER" /\ HasEvidence(exec[x].g))
  /\ exec' = [exec EXCEPT ![x].pc = "FAIL", ![x].queue = <<>>, ![x].open = PendingToolCalls]
  /\ NodeFrame

CloseToolCall(x) ==
  /\ exec[x].pc = "FAIL"
  /\ Running
  /\ \E c \in exec[x].open :
       /\ \A d \in exec[x].open : c <= d
       /\ told' = [told EXCEPT !.toolCompleted[c] = @ + 1]
       /\ exec' = [exec EXCEPT ![x].open = @ \ {c}]
  /\ UNCHANGED <<toolVars, run, metrics, checkpoint, committed, historyVars>>

FailRun(x) ==
  /\ exec[x].pc = "FAIL" /\ exec[x].open = {}
  /\ Running
  /\ run' = [status |-> "FAILED", cause |-> exec[x].cause]
  /\ Leave(x)
  /\ UNCHANGED <<told, metrics, checkpoint, committed, historyVars>>

\* A user cancels: the execution's task publishes it, and closes no tool call.
Cancel(x) ==
  /\ Suspended(x)
  /\ Running
  /\ run' = [run EXCEPT !.status = "CANCELLED"]
  /\ Leave(x)
  /\ UNCHANGED <<told, metrics, checkpoint, committed, historyVars>>

\* A run that is over takes no events: the execution ends.
TooLate(x) ==
  /\ ~Running
  /\ \/ exec[x].pc \in {"COMPLETE", "RAISED", "FAIL"}
     \/ exec[x].pc \in {"INVOKE", "EMIT"} /\ exec[x].queue # <<>>
     \/ exec[x].pc = "EMIT" /\ ~Silent(exec[x].node)
  /\ Leave(x)
  /\ UNCHANGED <<runVars, historyVars>>

\* The process dies or shuts down, or the lease is lost: nothing is published.
Stop(x) ==
  /\ exec[x].pc \notin {"IDLE", "ENDED"}
  /\ stops < MaxStops
  /\ stops' = stops + 1
  /\ Leave(x)
  /\ UNCHANGED <<runVars, overlap, replayed, raced>>

-----------------------------------------------------------------------------
RunNode(x) ==
  \/ RouteIntent(x) \/ RetrieveKnowledge(x) \/ LoadCatalog(x)
  \/ PlanHousingSearch(x) \/ PlanMap(x)
  \/ CheckTool(x) \/ StartTool(x) \/ FinishTool(x) \/ BuildMapResult(x)
  \/ ComposeAnswer(x)

Publish(x) ==
  \/ PublishToolEvent(x) \/ EmitUpdate(x)
  \/ SaveWrites(x) \/ SaveCheckpoint(x)

End(x) ==
  \/ Complete(x) \/ Fallback(x) \/ FailBegin(x) \/ CloseToolCall(x) \/ FailRun(x)
  \/ Cancel(x) \/ TooLate(x) \/ Stop(x)

CallTool(x) ==
  /\ ClientStep(x)
  /\ UNCHANGED <<runVars, exec, historyVars>>

WorkflowNext ==
  \/ \E x \in Caller :
       \/ Claim(x) \/ Prepare(x) \/ SaveInput(x)
       \/ RunNode(x) \/ NodeRaises(x) \/ RunTimeout(x) \/ CallTool(x)
       \/ Publish(x) \/ End(x)
  \/ ServiceStep /\ UNCHANGED <<runVars, exec, historyVars>>

WorkflowSpec == WorkflowInit /\ [][WorkflowNext]_workflowVars

-----------------------------------------------------------------------------
(* Properties *)

Execution ==
  [pc : {"IDLE", "PREPARE", "INPUT", "NODE", "RECORD", "INVOKE", "EMIT", "SAVE", "RAISED",
         "COMPLETE", "FAIL", "ENDED"},
   resume : BOOLEAN, node : Node \union {"END"}, g : GraphState,
   call : Call \union {0}, succeeded : BOOLEAN,
   queue : Seq([event : {"toolStarted", "toolCompleted"}, call : Call]),
   cause : {"NONE", "ANSWER", "OTHER"}, open : SUBSET Call]

\* The variables keep their types; no call has more events than the executions that
\* could publish them.
TurnTypeOK ==
  /\ ToolTypeOK
  /\ run \in [status : {"RUNNING", "SUCCEEDED", "FAILED", "CANCELLED"},
              cause : {"NONE", "ANSWER", "OTHER"}]
  /\ told \in [started : BOOLEAN, route : BOOLEAN, citation : BOOLEAN,
               map : {"NONE", "EMPTY", "NEW"},
               toolStarted : [Call -> 0 .. 2], toolCompleted : [Call -> 0 .. 2]]
  /\ metrics \in [Call -> Arguments \union {NoArguments}]
  /\ checkpoint \in [state : GraphState, next : Node \union {"END"},
                     saved : BOOLEAN, after : GraphState]
  /\ exec \in [Caller -> Execution]
  /\ committed \in GraphState
  /\ stops \in 0 .. MaxStops /\ overlap \in BOOLEAN /\ replayed \in BOOLEAN
  /\ raced \subseteq Call

ToolCallsAreClosed ==
  \A c \in Call : told.toolStarted[c] = told.toolCompleted[c] /\ told.toolStarted[c] <= 1

\* A run that ends by itself has shown each tool call it began once, and its end once:
\* repeated events of a resumed execution are recognised, and a failure closes what was
\* open.  Not so when two executions publish at a time, and not so when the first died
\* after the writes of execute_map_tools were saved: nothing runs the node again, and
\* run.completed does not close what that execution left open.
ToolCallsClosed ==
  /\ run.status = "FAILED" /\ ~overlap => ToolCallsAreClosed
  /\ run.status = "SUCCEEDED" /\ ~overlap /\ ~replayed => ToolCallsAreClosed

\* The service sees one set of arguments for a toolCallId, however often the call is
\* repeated and whichever of two executions, that may have planned differently, is first:
\* unless both read the metric of the call before either wrote it, and planned
\* differently.
OneArgumentsPerCall == \A c \in Call \ raced : Cardinality(service[c].received) <= 1

\* When the call for the answer ends in an error of the model that the client
\* recognises, the run fails only if there was nothing to show: no citation, and no map
\* result, unless a resumed execution no longer has it, or two executions publish at a
\* time.  The time limit of the run, and an answer without choices, are not such errors:
\* they fail the run whatever there was to show.
EvidenceSurvivesAnswerFailure ==
  run.status = "FAILED" /\ run.cause = "ANSWER" /\ ~overlap
    => ~told.citation /\ (told.map = "NEW" => stops > 0)

\* What a run commits once it has told its route comes from its own turn, wherever an
\* execution of it was taken over.
NoLeftovers ==
  run.status = "SUCCEEDED" /\ told.route /\ ~overlap
    => "OLD" \notin {committed.planned, committed.documents, committed.citations,
                     committed.summary, committed.answer}
=============================================================================
