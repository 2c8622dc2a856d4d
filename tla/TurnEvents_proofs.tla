------------------------- MODULE TurnEvents_proofs -------------------------
(***************************************************************************)
(* Proofs about what AgentWorkflow tells the client of a turn, for every   *)
(* number of tool calls, retries, stops and overlaps.                      *)
(*                                                                         *)
(*   TurnTypeCorrect      the types, and how often an event can be told    *)
(*   ToolCallsAreShown    each call shown once, and its end once           *)
(*   EvidenceSurvives     evidence outlives a failure of the answer model  *)
(***************************************************************************)
EXTENDS AgentWorkflow_proofs

-----------------------------------------------------------------------------
(* The events of the tool calls *)

ToolEvent == {"toolStarted", "toolCompleted"}

Before == {"route_intent", "retrieve_knowledge", "load_catalog", "plan_housing_search", "plan_map"}

AtTools(e) == e.node = "execute_map_tools"

\* e is at a node that comes before the tools.
BeforeTools(e) == e.pc \in {"NODE", "EMIT", "SAVE"} /\ e.node \in Before

\* Only execute_map_tools has custom events; no event waits twice, and none of a call
\* that was not begun.
QueueSound(e) ==
  /\ e.queue # <<>> => AtTools(e) /\ e.pc \in {"NODE", "RECORD", "INVOKE", "EMIT", "RAISED"}
  /\ e.pc \in {"RECORD", "INVOKE"} => AtTools(e)
  /\ \A i, j \in DOMAIN e.queue : e.queue[i] = e.queue[j] => i = j
  /\ e.pc \in {"NODE", "RECORD", "INVOKE"} => \A i \in DOMAIN e.queue :
       \/ e.queue[i].call <= e.call
       \/ e.pc = "INVOKE" /\ e.queue[i] = [event |-> "toolStarted", call |-> e.call + 1]

Queued(e, ev, c) == \E i \in DOMAIN e.queue : e.queue[i] = [event |-> ev, call |-> c]

\* e may still publish the event ev of call c.
ToCome(e, ev, c) ==
  \/ e.pc \in {"IDLE", "PREPARE", "INPUT"}
  \/ BeforeTools(e)
  \/ AtTools(e) /\ e.pc \in {"NODE", "RECORD"} /\ c > e.call
  \/ e.pc = "INVOKE" /\ c > e.call /\ (ev = "toolCompleted" \/ c > e.call + 1)
  \/ Queued(e, ev, c)
  \/ e.pc = "FAIL" /\ ev = "toolCompleted" /\ c \in e.open

Past(e, ev, c) == IF ToCome(e, ev, c) THEN 0 ELSE 1

\* An execution tells an event of a call, or closes the call, at most once.
EventsBounded ==
  \A ev \in ToolEvent, c \in Call :
    told[ev][c] <= Past(exec[1], ev, c) + Past(exec[2], ev, c)

QueuesSound == \A x \in Caller : QueueSound(exec[x])
-----------------------------------------------------------------------------
(* The steps of an execution, by what they make of it *)

\* x goes on with these values; the other execution does not move.
Moves(x, pc, node, g, call, queue, cause, open) ==
  /\ exec'[x].pc = pc /\ exec'[x].node = node /\ exec'[x].g = g /\ exec'[x].call = call
  /\ exec'[x].queue = queue /\ exec'[x].cause = cause /\ exec'[x].open = open
  /\ \A y \in Caller : y # x => exec'[y] = exec[y]

\* x goes to pc with all it has.
MovesTo(x, pc) ==
  Moves(x, pc, exec[x].node, exec[x].g, exec[x].call, exec[x].queue, exec[x].cause, exec[x].open)

CountersSame ==
  told'.toolStarted = told.toolStarted /\ told'.toolCompleted = told.toolCompleted

LEMMA Moved ==
  ASSUME WorkflowInv, NEW x \in Caller, NEW e, exec' = [exec EXCEPT ![x] = e]
  PROVE  Moves(x, e.pc, e.node, e.g, e.call, e.queue, e.cause, e.open)
BY DEF WorkflowInv, ExecInv, Moves

LEMMA TypeOfExecution ==
  ASSUME WorkflowInv, NEW x \in Caller
  PROVE  /\ exec[x] \in Execution /\ exec[x].g \in GraphState /\ exec[x].call \in Nat
         /\ exec[x].queue \in Seq([event : ToolEvent, call : Call])
         /\ exec[x].open \subseteq Call
<1>1. exec[x] \in Execution /\ exec[x].g \in GraphState
  BY ExecutionOf DEF WorkflowInv
<1>2. exec[x].call \in Call \union {0} /\ exec[x].open \subseteq Call
      /\ exec[x].queue \in Seq([event : ToolEvent, call : Call])
  BY <1>1 DEF Execution, ToolEvent
<1>3. \A n \in Call \union {0} : n \in Nat
  BY CallsAreNumbers
<1>4. QED  BY <1>1, <1>2, <1>3

LEMMA CallNumber == ASSUME NEW c \in Call PROVE c \in Nat \ {0}
BY CallsAreNumbers

LEMMA Callers == Caller = {1, 2}
BY WorkflowAssumption DEF WorkflowAssumption

LEMMA LeaveMoves ==
  ASSUME WorkflowInv, NEW x \in Caller, Leave(x)
  PROVE  Moves(x, "ENDED", "END", NoState, 0, <<>>, "NONE", {})
<1> DEFINE e == [NoExecution EXCEPT !.pc = "ENDED"]
<1>1. e.pc = "ENDED" /\ e.node = "END" /\ e.g = NoState /\ e.call = 0 /\ e.queue = <<>>
      /\ e.cause = "NONE" /\ e.open = {}
  BY DEF NoExecution
<1>2. exec' = [exec EXCEPT ![x] = e]
  BY DEF Leave
<1> HIDE DEF e
<1>3. QED  BY <1>1, <1>2, Moved

LEMMA LeaveShape ==
  ASSUME WorkflowInv, NEW x \in Caller,
         Complete(x) \/ FailRun(x) \/ Cancel(x) \/ TooLate(x) \/ Stop(x)
  PROVE  /\ Moves(x, "ENDED", "END", NoState, 0, <<>>, "NONE", {})
         /\ exec[x].pc \notin {"IDLE", "ENDED"}
         /\ UNCHANGED <<told, checkpoint, overlap, replayed>>
<1>1. Leave(x) /\ UNCHANGED <<told, checkpoint, overlap, replayed>>
  BY DEF Complete, FailRun, Cancel, TooLate, Stop, runVars, historyVars
<1>2. exec[x].pc \notin {"IDLE", "ENDED"}
  BY DEF Complete, FailRun, Cancel, TooLate, Stop, Suspended
<1>3. QED  BY <1>1, <1>2, LeaveMoves

LEMMA ClaimShape ==
  ASSUME WorkflowInv, NEW x \in Caller, Claim(x)
  PROVE  /\ Moves(x, "PREPARE", "END", NoState, 0, <<>>, "NONE", {})
         /\ exec'[x].resume = told.started /\ exec[x].pc = "IDLE"
         /\ UNCHANGED <<runVars, replayed>>
<1> DEFINE e == [NoExecution EXCEPT !.pc = "PREPARE", !.resume = told.started]
<1>1. e.pc = "PREPARE" /\ e.node = "END" /\ e.g = NoState /\ e.call = 0 /\ e.queue = <<>>
      /\ e.cause = "NONE" /\ e.open = {} /\ e.resume = told.started
  BY DEF NoExecution
<1>2. exec' = [exec EXCEPT ![x] = e] /\ exec[x].pc = "IDLE" /\ UNCHANGED <<runVars, replayed>>
  BY DEF Claim
<1> HIDE DEF e
<1>3. exec'[x] = e
  BY <1>2 DEF WorkflowInv, ExecInv
<1>4. QED  BY <1>1, <1>2, <1>3, Moved

LEMMA TimeoutShape ==
  ASSUME WorkflowInv, NEW x \in Caller, RunTimeout(x)
  PROVE  /\ Moves(x, "RAISED", exec[x].node, exec[x].g, exec[x].call, <<>>, "OTHER", exec[x].open)
         /\ exec[x].pc \in {"INPUT", "NODE", "INVOKE", "SAVE"}
         /\ UNCHANGED <<runVars, historyVars>>
<1> DEFINE e == [exec[x] EXCEPT !.pc = "RAISED", !.cause = "OTHER", !.queue = <<>>]
<1>1. e.pc = "RAISED" /\ e.node = exec[x].node /\ e.g = exec[x].g /\ e.call = exec[x].call
      /\ e.queue = <<>> /\ e.cause = "OTHER" /\ e.open = exec[x].open
  BY TypeOfExecution DEF Execution
<1>2. exec' = [exec EXCEPT ![x] = e]
  BY DEF RunTimeout
<1> HIDE DEF e
<1>3. exec[x].pc \in {"INPUT", "NODE", "INVOKE", "SAVE"} /\ UNCHANGED <<runVars, historyVars>>
  BY DEF RunTimeout, Suspended
<1>4. QED  BY <1>1, <1>2, <1>3, Moved

LEMMA PrepareShape ==
  ASSUME WorkflowInv, NEW x \in Caller, Prepare(x)
  PROVE  /\ exec[x].pc = "PREPARE"
         /\ \/ /\ ~exec[x].resume
               /\ \E g : /\ Moves(x, "INPUT", "END", g, 0, <<>>, "NONE", {})
                         /\ g.mapResult = checkpoint.state.mapResult
            \/ /\ exec[x].resume /\ checkpoint.next = "END"
               /\ \E g \in {checkpoint.state, checkpoint.after} :
                    Moves(x, "COMPLETE", "END", g, 0, <<>>, "NONE", {})
            \/ /\ exec[x].resume /\ checkpoint.next # "END" /\ checkpoint.saved
               /\ Moves(x, "EMIT", checkpoint.next, checkpoint.after, 0, <<>>, "NONE", {})
            \/ /\ exec[x].resume /\ checkpoint.next # "END" /\ ~checkpoint.saved
               /\ Moves(x, "NODE", checkpoint.next, checkpoint.state, 0, <<>>, "NONE", {})
         /\ checkpoint' = IF Last(x) THEN Forgotten ELSE checkpoint
         /\ told'.started /\ told'.citation = told.citation /\ told'.map = told.map /\ CountersSame
         /\ UNCHANGED <<run, committed, stops, overlap>>
         /\ replayed' = (replayed \/ (exec[x].resume /\ checkpoint.saved
                                      /\ checkpoint.next = "execute_map_tools"))
<1> DEFINE e == IF exec[x].resume THEN Resumed ELSE NewInput
<1>1. exec[x].pc = "PREPARE" /\ exec' = [exec EXCEPT ![x] = e]
  BY DEF Prepare
<1>2. Moves(x, e.pc, e.node, e.g, e.call, e.queue, e.cause, e.open)
  <2> HIDE DEF e
  <2>1. QED  BY <1>1, Moved
<1>3. /\ told'.started /\ told'.citation = told.citation /\ told'.map = told.map /\ CountersSame
  BY DEF Prepare, WorkflowInv, ToldInv, CountersSame
<1>4. e.call = 0 /\ e.queue = <<>> /\ e.cause = "NONE" /\ e.open = {}
  BY DEF Resumed, NewInput, NoExecution
<1>5. CASE ~exec[x].resume
  <2>1. e.pc = "INPUT" /\ e.node = "END" /\ e.g = [checkpoint.state EXCEPT !.citations = "NONE"]
    BY <1>5 DEF NewInput, NoExecution
  <2>2. e.g.mapResult = checkpoint.state.mapResult
    BY <2>1 DEF WorkflowInv, ThreadInv, GraphState
  <2> HIDE DEF e
  <2>3. QED  BY <1>1, <1>2, <1>3, <1>4, <1>5, <2>1, <2>2 DEF Prepare
<1>6. CASE exec[x].resume
  <2>1. /\ e.pc = IF checkpoint.next = "END" THEN "COMPLETE"
                  ELSE IF checkpoint.saved THEN "EMIT" ELSE "NODE"
        /\ e.node = checkpoint.next
        /\ e.g = IF checkpoint.saved THEN checkpoint.after ELSE checkpoint.state
    BY <1>6 DEF Resumed, NoExecution
  <2> HIDE DEF e
  <2>2. QED  BY <1>1, <1>2, <1>3, <1>4, <1>6, <2>1 DEF Prepare
<1>7. QED  BY <1>5, <1>6

LEMMA SaveInputShape ==
  ASSUME WorkflowInv, NEW x \in Caller, SaveInput(x)
  PROVE  /\ Moves(x, "NODE", "route_intent", exec[x].g, exec[x].call, exec[x].queue,
                  exec[x].cause, exec[x].open)
         /\ exec[x].pc = "INPUT" /\ SaveThread(exec[x].g, "route_intent")
         /\ UNCHANGED <<run, told, committed, historyVars>>
<1> DEFINE e == [exec[x] EXCEPT !.pc = "NODE", !.node = "route_intent"]
<1>1. e.pc = "NODE" /\ e.node = "route_intent" /\ e.g = exec[x].g /\ e.call = exec[x].call
      /\ e.queue = exec[x].queue /\ e.cause = exec[x].cause /\ e.open = exec[x].open
  BY TypeOfExecution DEF Execution
<1>2. exec' = [exec EXCEPT ![x] = e]
  BY DEF SaveInput
<1> HIDE DEF e
<1>3. QED  BY ZenonT(40), <1>1, <1>2, Moved DEF SaveInput

\* A node returns h.
Returns(x, h) ==
  Moves(x, "EMIT", exec[x].node, h, exec[x].call, exec[x].queue, exec[x].cause, exec[x].open)

LEMMA UpdateShape ==
  ASSUME WorkflowInv, NEW x \in Caller, NEW h, Update(x, h)
  PROVE  Returns(x, h)
<1> DEFINE e == [exec[x] EXCEPT !.pc = "EMIT", !.g = h]
<1>1. e.pc = "EMIT" /\ e.node = exec[x].node /\ e.g = h /\ e.call = exec[x].call
      /\ e.queue = exec[x].queue /\ e.cause = exec[x].cause /\ e.open = exec[x].open
  BY TypeOfExecution DEF Execution
<1>2. exec' = [exec EXCEPT ![x] = e]
  BY DEF Update
<1> HIDE DEF e
<1>3. QED  BY <1>1, <1>2, Moved DEF Returns

\* What a node makes of the state: the parts that tool calls and evidence depend on.
Makes(node, g, h) ==
  /\ node = "route_intent" => h.mapResult = "NONE"
  /\ node \notin {"route_intent", "compose_answer"} => h.intent = g.intent
  /\ node \notin {"route_intent", "retrieve_knowledge", "compose_answer"}
       => h.citations = g.citations
  /\ node = "retrieve_knowledge" /\ told.citation => h.citations = "NEW"
  /\ node \notin {"route_intent", "execute_map_tools"} => h.mapResult = g.mapResult
  /\ node = "execute_map_tools" => h.mapResult \in {"EMPTY", "NEW"} /\ h.plan = g.plan

LEMMA NodeShape ==
  ASSUME WorkflowInv, NEW x \in Caller,
         \/ RouteIntent(x) \/ RetrieveKnowledge(x) \/ LoadCatalog(x)
         \/ PlanHousingSearch(x) \/ PlanMap(x) \/ BuildMapResult(x) \/ ComposeAnswer(x)
  PROVE  /\ exec[x].pc = "NODE"
         /\ \E h : Returns(x, h) /\ Makes(exec[x].node, exec[x].g, h)
         /\ AtTools(exec[x]) => exec[x].call + 1 > Len(exec[x].g.plan)
         /\ NodeFrame
<1> DEFINE g == exec[x].g
<1>1. g \in GraphState
  BY TypeOfExecution
<1> HIDE DEF g
<1>2. \E h : Update(x, h) /\ Makes(exec[x].node, g, h)
  <2>1. CASE RouteIntent(x)
    BY <2>1 DEF RouteIntent, At, NewTurnRouteUpdate, Makes
  <2>2. CASE RetrieveKnowledge(x)
    <3>1. PICK found \in {"NONE", "NEW"} :
            /\ told.citation => found = "NEW"
            /\ Update(x, [g EXCEPT !.documents = found, !.citations = found])
      BY <2>2 DEF RetrieveKnowledge, g
    <3>2. exec[x].node = "retrieve_knowledge"
      BY <2>2 DEF RetrieveKnowledge, At
    <3>3. Makes(exec[x].node, g, [g EXCEPT !.documents = found, !.citations = found])
      BY <1>1, <3>1, <3>2 DEF Makes, GraphState
    <3>4. QED  BY <3>1, <3>3
  <2>3. CASE LoadCatalog(x)
    BY <2>3 DEF LoadCatalog, At, Makes, g
  <2>4. CASE PlanHousingSearch(x) \/ PlanMap(x)
    <3>1. PICK p : Update(x, [g EXCEPT !.plan = p, !.planned = "NEW"])
      BY <2>4 DEF PlanHousingSearch, PlanMap, Plan, g
    <3>2. exec[x].node \in {"plan_housing_search", "plan_map"}
      BY <2>4 DEF PlanHousingSearch, PlanMap, At
    <3>3. Makes(exec[x].node, g, [g EXCEPT !.plan = p, !.planned = "NEW"])
      BY <1>1, <3>2 DEF Makes, GraphState
    <3>4. QED  BY <3>1, <3>3
  <2>5. CASE BuildMapResult(x)
    <3>1. PICK m \in {"EMPTY", "NEW"} : Update(x, [g EXCEPT !.mapResult = m, !.summary = m])
      BY <2>5 DEF BuildMapResult, g
    <3>2. exec[x].node = "execute_map_tools"
      BY <2>5 DEF BuildMapResult, At
    <3>3. Makes(exec[x].node, g, [g EXCEPT !.mapResult = m, !.summary = m])
      BY <1>1, <3>2 DEF Makes, GraphState
    <3>4. QED  BY <3>1, <3>3
  <2>6. CASE ComposeAnswer(x)
    <3>1. \A h \in {FixedAnswer(g)} \union SupportedAnswers(g) \union {UnsupportedAnswer(g)} :
            h.mapResult = g.mapResult
      <4>1. ASSUME NEW c \in Tag, NEW a \in Tag
            PROVE  [g EXCEPT !.citations = c, !.answer = a].mapResult = g.mapResult
        BY <1>1 DEF GraphState
      <4>2. g.citations \in Tag /\ "NONE" \in Tag /\ \A tags : DerivedFrom(tags) \in Tag
        BY <1>1 DEF GraphState, Tag, DerivedFrom
      <4>3. FixedAnswer(g).mapResult = g.mapResult
        BY <4>1, <4>2 DEF FixedAnswer, Tag
      <4>4. UnsupportedAnswer(g).mapResult = g.mapResult
        BY <4>1, <4>2 DEF UnsupportedAnswer, Tag
      <4>5. ASSUME NEW h \in SupportedAnswers(g)
            PROVE  h.mapResult = g.mapResult
        <5> DEFINE a == DerivedFrom({g.documents, MapEvidence(g)})
        <5>1. PICK c \in {g.citations, "NONE"} : h = [g EXCEPT !.citations = c, !.answer = a]
          BY <4>5 DEF SupportedAnswers
        <5>2. a \in Tag /\ c \in Tag
          BY <4>2
        <5> HIDE DEF a
        <5>3. QED  BY <4>1, <5>1, <5>2
      <4>6. QED  BY <4>3, <4>4, <4>5
    <3>2. exec[x].node = "compose_answer"
      BY <2>6 DEF ComposeAnswer, At
    <3>3. PICK h \in {FixedAnswer(g)} \union SupportedAnswers(g) \union {UnsupportedAnswer(g)} :
            Update(x, h)
      BY <2>6 DEF ComposeAnswer, g
    <3>4. Makes(exec[x].node, g, h)
      BY <3>1, <3>2, <3>3 DEF Makes
    <3>5. QED  BY <3>3, <3>4
  <2>7. QED  BY <2>1, <2>2, <2>3, <2>4, <2>5, <2>6
<1>3. exec[x].pc = "NODE" /\ NodeFrame
  BY DEF RouteIntent, RetrieveKnowledge, LoadCatalog, PlanHousingSearch, PlanMap, BuildMapResult,
    ComposeAnswer, At
<1>4. AtTools(exec[x]) => exec[x].call + 1 > Len(exec[x].g.plan)
  BY DEF RouteIntent, RetrieveKnowledge, LoadCatalog, PlanHousingSearch, PlanMap, BuildMapResult,
    ComposeAnswer, At, AtTools, CurrentCall
<1>5. QED  BY <1>2, <1>3, <1>4, UpdateShape DEF g

LEMMA RaiseShape ==
  ASSUME WorkflowInv, NEW x \in Caller, NodeRaises(x)
  PROVE  /\ exec[x].pc \in {"NODE", "RECORD"} /\ NodeFrame
         /\ \E cause \in {"ANSWER", "OTHER"} :
              /\ Moves(x, "RAISED", exec[x].node, exec[x].g, exec[x].call, exec[x].queue, cause,
                       exec[x].open)
              /\ cause = "ANSWER" => /\ exec[x].pc = "NODE" /\ exec[x].node = "compose_answer"
                                     /\ AsksModel(exec[x].g)
<1>1. PICK cause \in {"ANSWER", "OTHER"} :
        /\ Raise(x, cause)
        /\ cause = "ANSWER" => /\ exec[x].pc = "NODE" /\ exec[x].node = "compose_answer"
                               /\ AsksModel(exec[x].g)
  BY DEF NodeRaises, StartToolRaises, ToolsRaise, ModelRaises, SourceRaises, At
<1>2. exec[x].pc \in {"NODE", "RECORD"} /\ NodeFrame
  BY DEF NodeRaises, StartToolRaises, ToolsRaise, ModelRaises, SourceRaises, At
<1> DEFINE e == [exec[x] EXCEPT !.pc = "RAISED", !.cause = cause]
<1>3. e.pc = "RAISED" /\ e.node = exec[x].node /\ e.g = exec[x].g /\ e.call = exec[x].call
      /\ e.queue = exec[x].queue /\ e.cause = cause /\ e.open = exec[x].open
  BY TypeOfExecution DEF Execution
<1>4. exec' = [exec EXCEPT ![x] = e]
  BY <1>1 DEF Raise
<1> HIDE DEF e
<1>5. QED  BY <1>1, <1>2, <1>3, <1>4, Moved
-----------------------------------------------------------------------------
(* Tool calls and the stream *)

LEMMA CheckToolShape ==
  ASSUME WorkflowInv, NEW x \in Caller, CheckTool(x)
  PROVE  /\ MovesTo(x, "RECORD")
         /\ AtTools(exec[x]) /\ exec[x].pc = "NODE"
         /\ CurrentCall(x) \in Call /\ raced' \subseteq raced \union {CurrentCall(x)}
         /\ UNCHANGED <<run, told, checkpoint, committed, stops, overlap, replayed>>
<1> DEFINE e == [exec[x] EXCEPT !.pc = "RECORD"]
<1>1. CurrentCall(x) = exec[x].call + 1 /\ CurrentCall(x) <= Len(exec[x].g.plan)
  BY DEF CheckTool, CurrentCall
<1>2. CurrentCall(x) \in Call
  BY <1>1, TypeOfExecution, PlannedCall
<1>3. exec' = [exec EXCEPT ![x] = e]
  BY DEF CheckTool, Goto
<1>4. e.pc = "RECORD" /\ e.node = exec[x].node /\ e.g = exec[x].g /\ e.call = exec[x].call
      /\ e.queue = exec[x].queue /\ e.cause = exec[x].cause /\ e.open = exec[x].open
  BY TypeOfExecution DEF Execution
<1> HIDE DEF e
<1>5. MovesTo(x, "RECORD")
  BY <1>3, <1>4, Moved DEF MovesTo
<1>6. raced' \subseteq raced \union {CurrentCall(x)}
  BY DEF CheckTool
<1>7. QED  BY <1>2, <1>5, <1>6 DEF CheckTool, At, AtTools, runVars

LEMMA StartToolShape ==
  ASSUME WorkflowInv, NEW x \in Caller, StartTool(x)
  PROVE  \E c \in Call :
           /\ c = exec[x].call + 1 /\ c <= Len(exec[x].g.plan)
           /\ Moves(x, "INVOKE", exec[x].node, exec[x].g, exec[x].call,
                    Append(exec[x].queue, [event |-> "toolStarted", call |-> c]),
                    exec[x].cause, exec[x].open)
           /\ AtTools(exec[x]) /\ exec[x].pc = "RECORD"
           /\ UNCHANGED <<run, told, checkpoint, committed, historyVars>>
<1> DEFINE c == CurrentCall(x)
           q == Push(exec[x].queue, "toolStarted", c)
           e == [exec[x] EXCEPT !.pc = "INVOKE", !.queue = q]
<1>1. c = exec[x].call + 1 /\ c <= Len(exec[x].g.plan)
  BY ExecutionOf DEF WorkflowInv, SoundExecution, StartTool, CurrentCall
<1>2. c \in Call
  BY <1>1, TypeOfExecution, PlannedCall
<1>3. exec' = [exec EXCEPT ![x] = e]
  BY DEF StartTool
<1>4. e.pc = "INVOKE" /\ e.node = exec[x].node /\ e.g = exec[x].g /\ e.call = exec[x].call
      /\ e.queue = q /\ e.cause = exec[x].cause /\ e.open = exec[x].open
  BY TypeOfExecution DEF Execution
<1> HIDE DEF e
<1>5. Moves(x, "INVOKE", exec[x].node, exec[x].g, exec[x].call, q, exec[x].cause, exec[x].open)
  BY <1>3, <1>4, Moved
<1>6. AtTools(exec[x]) /\ exec[x].pc = "RECORD"
      /\ UNCHANGED <<run, told, checkpoint, committed, historyVars>>
  BY ExecutionOf DEF WorkflowInv, SoundExecution, StartTool, AtTools
<1>7. q = Append(exec[x].queue, [event |-> "toolStarted", call |-> c])
  BY DEF Push
<1> HIDE DEF c, q
<1>8. QED  BY <1>1, <1>2, <1>5, <1>6, <1>7

LEMMA FinishToolShape ==
  ASSUME WorkflowInv, NEW x \in Caller, FinishTool(x)
  PROVE  \E c \in Call :
           /\ c = exec[x].call + 1
           /\ Moves(x, "NODE", exec[x].node, exec[x].g, c,
                    Append(exec[x].queue, [event |-> "toolCompleted", call |-> c]),
                    exec[x].cause, exec[x].open)
           /\ exec[x].pc = "INVOKE"
           /\ UNCHANGED <<runVars, historyVars>>
<1> DEFINE c == CurrentCall(x)
           q == Push(exec[x].queue, "toolCompleted", c)
<1>1. exec[x].pc = "INVOKE" /\ UNCHANGED <<runVars, historyVars>>
  BY DEF FinishTool
<1>2. c \in Call /\ c = exec[x].call + 1
  BY <1>1, ExecutionOf DEF WorkflowInv, SoundExecution, CurrentCall
<1>3. PICK s : exec' = [exec EXCEPT ![x].pc = "NODE", ![x].call = c,
                 ![x].succeeded = @ \/ s = "SUCCEEDED", ![x].queue = Push(@, "toolCompleted", c)]
  BY DEF FinishTool
<1> DEFINE e == [exec[x] EXCEPT !.pc = "NODE", !.call = c,
                   !.succeeded = @ \/ s = "SUCCEEDED", !.queue = q]
<1>4. exec' = [exec EXCEPT ![x] = e]
  <2> HIDE DEF c
  <2>1. QED  BY <1>3
<1>5. e.pc = "NODE" /\ e.node = exec[x].node /\ e.g = exec[x].g /\ e.call = c
      /\ e.queue = q /\ e.cause = exec[x].cause /\ e.open = exec[x].open
  <2> HIDE DEF c, q
  <2>1. QED  BY TypeOfExecution DEF Execution
<1> HIDE DEF e
<1>6. Moves(x, "NODE", exec[x].node, exec[x].g, c, q, exec[x].cause, exec[x].open)
  BY <1>4, <1>5, Moved
<1>7. q = Append(exec[x].queue, [event |-> "toolCompleted", call |-> c])
  BY DEF Push
<1> HIDE DEF c, q
<1>8. QED  BY <1>1, <1>2, <1>6, <1>7

\* The event ev of call c is told once more.
TellsOnce(ev, c) ==
  /\ ev = "toolStarted" =>
       /\ told'.toolStarted = [told.toolStarted EXCEPT ![c] = @ + 1]
       /\ told'.toolCompleted = told.toolCompleted
  /\ ev = "toolCompleted" =>
       /\ told'.toolCompleted = [told.toolCompleted EXCEPT ![c] = @ + 1]
       /\ told'.toolStarted = told.toolStarted

RestOfToldSame ==
  told'.started = told.started /\ told'.citation = told.citation /\ told'.map = told.map

LEMMA PublishShape ==
  ASSUME WorkflowInv, NEW x \in Caller, PublishToolEvent(x)
  PROVE  \E ev \in ToolEvent, c \in Call :
           /\ exec[x].queue # <<>> /\ Head(exec[x].queue) = [event |-> ev, call |-> c]
           /\ Moves(x, exec[x].pc, exec[x].node, exec[x].g, exec[x].call, Tail(exec[x].queue),
                    exec[x].cause, exec[x].open)
           /\ exec[x].pc \in {"INVOKE", "EMIT", "RAISED"}
           /\ \/ told[ev][c] > 0 /\ UNCHANGED told
              \/ /\ told[ev][c] = 0 \/ overlap
                 /\ Running
                 /\ TellsOnce(ev, c) /\ RestOfToldSame
           /\ UNCHANGED <<run, checkpoint, committed, historyVars>>
<1> DEFINE q == exec[x].queue
           event == Head(q)
           e == [exec[x] EXCEPT !.queue = Tail(q)]
           Event == [event : ToolEvent, call : Call]
<1>1. q \in Seq(Event) /\ q # <<>>
  BY TypeOfExecution DEF PublishToolEvent
<1>2. event \in Event
  <2> HIDE DEF q, Event
  <2>1. QED  BY <1>1
<1>3. exec' = [exec EXCEPT ![x] = e]
  BY DEF PublishToolEvent
<1>4. e.pc = exec[x].pc /\ e.node = exec[x].node /\ e.g = exec[x].g /\ e.call = exec[x].call
      /\ e.queue = Tail(q) /\ e.cause = exec[x].cause /\ e.open = exec[x].open
  BY TypeOfExecution DEF Execution
<1> HIDE DEF e
<1>5. Moves(x, exec[x].pc, exec[x].node, exec[x].g, exec[x].call, Tail(q), exec[x].cause,
            exec[x].open)
  BY <1>3, <1>4, Moved
<1>6. PICK ev \in ToolEvent, c \in Call : event = [event |-> ev, call |-> c]
  BY <1>2
<1>7. \/ told[ev][c] > 0 /\ UNCHANGED told
      \/ /\ ~(told[ev][c] > 0) \/ overlap
         /\ Running
         /\ told' = [told EXCEPT ![ev][c] = @ + 1]
  <2>1. \/ told[event.event][event.call] > 0 /\ UNCHANGED told
        \/ /\ ~(told[event.event][event.call] > 0) \/ overlap
           /\ Running
           /\ told' = [told EXCEPT ![event.event][event.call] = @ + 1]
    BY Zenon DEF PublishToolEvent, HasToolEvent
  <2> HIDE DEF event
  <2>2. event.event = ev /\ event.call = c
    BY <1>6
  <2>3. QED  BY ONLY <2>1, <2>2
<1>8. told[ev][c] \in Nat
  <2>1. CASE ev = "toolStarted"
    BY <2>1 DEF WorkflowInv, ToldInv
  <2>2. CASE ev = "toolCompleted"
    BY <2>2 DEF WorkflowInv, ToldInv
  <2>3. QED  BY <2>1, <2>2 DEF ToolEvent
<1>9. told' = [told EXCEPT ![ev][c] = @ + 1] => TellsOnce(ev, c) /\ RestOfToldSame
  <2>1. CASE ev = "toolStarted"
    BY <2>1 DEF WorkflowInv, ToldInv, TellsOnce, RestOfToldSame
  <2>2. CASE ev = "toolCompleted"
    BY <2>2 DEF WorkflowInv, ToldInv, TellsOnce, RestOfToldSame
  <2>3. QED  BY <2>1, <2>2 DEF ToolEvent
<1>10. /\ exec[x].pc \in {"INVOKE", "EMIT", "RAISED"}
       /\ UNCHANGED <<run, checkpoint, committed, historyVars>>
  BY DEF PublishToolEvent
<1> HIDE DEF q, event, Event
<1>11. Head(exec[x].queue) = [event |-> ev, call |-> c]
  BY <1>6 DEF event, q
<1>12. exec[x].queue # <<>> /\ q = exec[x].queue
  BY <1>1 DEF q
<1>13. QED  BY <1>5, <1>7, <1>8, <1>9, <1>10, <1>11, <1>12

LEMMA EmitShape ==
  ASSUME WorkflowInv, NEW x \in Caller, EmitUpdate(x)
  PROVE  /\ MovesTo(x, "SAVE") /\ exec[x].pc = "EMIT" /\ exec[x].queue = <<>>
         /\ CountersSame /\ told'.started = told.started
         /\ \/ told'.citation = told.citation
            \/ exec[x].node = "retrieve_knowledge" /\ exec[x].g.citations # "NONE"
         /\ \/ told'.map = told.map
            \/ AtTools(exec[x]) /\ told'.map = exec[x].g.mapResult /\ told'.map # "NONE"
         /\ told' = told \/ Running
         /\ UNCHANGED <<run, checkpoint, committed, historyVars>>
<1> DEFINE e == [exec[x] EXCEPT !.pc = "SAVE"]
<1>1. e.pc = "SAVE" /\ e.node = exec[x].node /\ e.g = exec[x].g /\ e.call = exec[x].call
      /\ e.queue = exec[x].queue /\ e.cause = exec[x].cause /\ e.open = exec[x].open
  BY TypeOfExecution DEF Execution
<1>2. exec' = [exec EXCEPT ![x] = e] /\ exec[x].pc = "EMIT" /\ exec[x].queue = <<>>
  BY DEF EmitUpdate, Goto
<1> HIDE DEF e
<1>3. MovesTo(x, "SAVE")
  BY <1>1, <1>2, Moved DEF MovesTo
<1>4. /\ CountersSame /\ told'.started = told.started
      /\ \/ told'.citation = told.citation
         \/ exec[x].node = "retrieve_knowledge" /\ exec[x].g.citations # "NONE"
      /\ \/ told'.map = told.map
         \/ AtTools(exec[x]) /\ told'.map = exec[x].g.mapResult /\ told'.map # "NONE"
  BY DEF EmitUpdate, Tell, WorkflowInv, ToldInv, CountersSame, AtTools
<1>5. told' = told \/ Running
  BY DEF EmitUpdate, Tell, Silent
<1>6. UNCHANGED <<run, checkpoint, committed, historyVars>>
  BY DEF EmitUpdate
<1>7. QED  BY <1>2, <1>3, <1>4, <1>5, <1>6

LEMMA SaveWritesShape ==
  ASSUME WorkflowInv, NEW x \in Caller, SaveWrites(x)
  PROVE  /\ exec[x].pc \in {"EMIT", "SAVE"} /\ checkpoint.next = exec[x].node
         /\ checkpoint' = [checkpoint EXCEPT !.saved = TRUE, !.after = checkpoint'.after]
         /\ checkpoint'.state = checkpoint.state /\ checkpoint'.next = checkpoint.next
         /\ checkpoint'.saved /\ checkpoint'.after \in {exec[x].g, Tracked(exec[x].g)}
         /\ UNCHANGED <<run, told, committed, exec, historyVars>>
<1>1. PICK g \in {exec[x].g, Tracked(exec[x].g)} :
        checkpoint' = [checkpoint EXCEPT !.saved = TRUE, !.after = g]
  BY DEF SaveWrites
<1>2. /\ checkpoint'.state = checkpoint.state /\ checkpoint'.next = checkpoint.next
      /\ checkpoint'.saved /\ checkpoint'.after = g
  BY <1>1 DEF WorkflowInv, ThreadInv
<1>3. QED  BY <1>1, <1>2 DEF SaveWrites

LEMMA SaveCheckpointShape ==
  ASSUME WorkflowInv, NEW x \in Caller, SaveCheckpoint(x)
  PROVE  LET next == NextNode(exec[x].node, exec[x].g) IN
         /\ Moves(x, IF next = "END" THEN "COMPLETE" ELSE "NODE", next, exec[x].g, exec[x].call,
                  exec[x].queue, exec[x].cause, exec[x].open)
         /\ exec[x].pc = "SAVE" /\ exec[x].node \in Node
         /\ SaveThread(Tracked(exec[x].g), next)
         /\ UNCHANGED <<run, told, committed, historyVars>>
<1> DEFINE next == NextNode(exec[x].node, exec[x].g)
           pc == IF next = "END" THEN "COMPLETE" ELSE "NODE"
           e == [exec[x] EXCEPT !.pc = pc, !.node = next]
<1>1. exec' = [exec EXCEPT ![x] = e] /\ exec[x].pc = "SAVE"
      /\ SaveThread(Tracked(exec[x].g), next) /\ UNCHANGED <<run, told, committed, historyVars>>
  BY DEF SaveCheckpoint
<1>2. exec[x].node \in Node
  BY <1>1, ExecutionOf DEF WorkflowInv, SoundExecution
<1> HIDE DEF next, pc
<1>3. e.pc = pc /\ e.node = next /\ e.g = exec[x].g /\ e.call = exec[x].call
      /\ e.queue = exec[x].queue /\ e.cause = exec[x].cause /\ e.open = exec[x].open
  BY TypeOfExecution DEF Execution
<1> HIDE DEF e
<1>4. Moves(x, pc, next, exec[x].g, exec[x].call, exec[x].queue, exec[x].cause, exec[x].open)
  BY <1>1, <1>3, Moved
<1>5. QED  BY <1>1, <1>2, <1>4 DEF pc, next

LEMMA FallbackShape ==
  ASSUME WorkflowInv, NEW x \in Caller, Fallback(x)
  PROVE  /\ \E h : /\ Moves(x, "COMPLETE", exec[x].node, h, exec[x].call, <<>>, exec[x].cause,
                            exec[x].open)
                   /\ h.mapResult = exec[x].g.mapResult
         /\ exec[x].pc = "RAISED" /\ exec[x].cause = "ANSWER"
         /\ NodeFrame
<1> DEFINE t == DerivedFrom(IF MapOnly(exec[x].g) THEN {exec[x].g.mapResult}
                            ELSE {exec[x].g.documents})
           h == [exec[x].g EXCEPT !.answer = t]
           e == [exec[x] EXCEPT !.pc = "COMPLETE", !.queue = <<>>, !.g = h]
<1>1. exec' = [exec EXCEPT ![x] = e] /\ exec[x].pc = "RAISED" /\ exec[x].cause = "ANSWER"
  BY DEF Fallback
<1> HIDE DEF t
<1>2. h.mapResult = exec[x].g.mapResult
  BY TypeOfExecution DEF GraphState
<1> HIDE DEF h
<1>3. e.pc = "COMPLETE" /\ e.node = exec[x].node /\ e.g = h /\ e.call = exec[x].call
      /\ e.queue = <<>> /\ e.cause = exec[x].cause /\ e.open = exec[x].open
  BY TypeOfExecution DEF Execution
<1> HIDE DEF e
<1>4. Moves(x, "COMPLETE", exec[x].node, h, exec[x].call, <<>>, exec[x].cause, exec[x].open)
  BY <1>1, <1>3, Moved
<1>5. NodeFrame
  BY DEF Fallback
<1>6. QED  BY <1>1, <1>2, <1>4, <1>5

LEMMA FailBeginShape ==
  ASSUME WorkflowInv, NEW x \in Caller, FailBegin(x)
  PROVE  /\ Moves(x, "FAIL", exec[x].node, exec[x].g, exec[x].call, <<>>, exec[x].cause,
                  PendingToolCalls)
         /\ exec[x].pc = "RAISED" /\ Running
         /\ ~(exec[x].cause = "ANSWER" /\ HasEvidence(exec[x].g))
         /\ NodeFrame
<1> DEFINE open == PendingToolCalls
           e == [exec[x] EXCEPT !.pc = "FAIL", !.queue = <<>>, !.open = open]
<1>1. exec' = [exec EXCEPT ![x] = e]
  BY DEF FailBegin
<1> HIDE DEF open
<1>2. e.pc = "FAIL" /\ e.node = exec[x].node /\ e.g = exec[x].g /\ e.call = exec[x].call
      /\ e.queue = <<>> /\ e.cause = exec[x].cause /\ e.open = open
  BY TypeOfExecution DEF Execution
<1> HIDE DEF e
<1>3. QED  BY <1>1, <1>2, Moved DEF FailBegin, open

LEMMA CloseShape ==
  ASSUME WorkflowInv, NEW x \in Caller, CloseToolCall(x)
  PROVE  \E c \in Call :
           /\ c \in exec[x].open
           /\ Moves(x, "FAIL", exec[x].node, exec[x].g, exec[x].call, exec[x].queue, exec[x].cause,
                    exec[x].open \ {c})
           /\ exec[x].pc = "FAIL" /\ Running
           /\ TellsOnce("toolCompleted", c) /\ RestOfToldSame
           /\ UNCHANGED <<run, checkpoint, committed, historyVars>>
<1>1. PICK c \in exec[x].open :
        /\ told' = [told EXCEPT !.toolCompleted[c] = @ + 1]
        /\ exec' = [exec EXCEPT ![x] = [exec[x] EXCEPT !.open = @ \ {c}]]
  BY DEF CloseToolCall
<1>2. c \in Call
  BY TypeOfExecution
<1> DEFINE e == [exec[x] EXCEPT !.open = @ \ {c}]
<1>3. e.pc = exec[x].pc /\ e.node = exec[x].node /\ e.g = exec[x].g /\ e.call = exec[x].call
      /\ e.queue = exec[x].queue /\ e.cause = exec[x].cause /\ e.open = exec[x].open \ {c}
  BY TypeOfExecution DEF Execution
<1>4. exec' = [exec EXCEPT ![x] = e]
  BY <1>1
<1> HIDE DEF e
<1>5. Moves(x, exec[x].pc, exec[x].node, exec[x].g, exec[x].call, exec[x].queue, exec[x].cause,
            exec[x].open \ {c})
  BY <1>3, <1>4, Moved
<1>6. TellsOnce("toolCompleted", c) /\ RestOfToldSame
  BY <1>1, <1>2 DEF WorkflowInv, ToldInv, TellsOnce, RestOfToldSame
<1>7. QED  BY <1>1, <1>2, <1>5, <1>6 DEF CloseToolCall
-----------------------------------------------------------------------------
(* How often an event can be told *)

\* Only a busy execution, or one that fails with it, has a queue.
LEMMA QueueEmpty ==
  ASSUME QueuesSound, NEW x \in Caller,
         exec[x].pc \notin {"NODE", "RECORD", "INVOKE", "EMIT", "RAISED"} \/ ~AtTools(exec[x])
  PROVE  exec[x].queue = <<>>
BY DEF QueuesSound, QueueSound

\* The other execution keeps its queue.
LEMMA OthersQueue ==
  ASSUME QueuesSound, NEW x \in Caller, QueueSound(exec[x])',
         \A y \in Caller : y # x => exec'[y] = exec[y]
  PROVE  QueuesSound'
<1> SUFFICES ASSUME NEW y \in Caller PROVE QueueSound(exec[y])'
  BY DEF QueuesSound
<1>1. CASE y = x
  BY <1>1
<1>2. CASE y # x
  <2>1. QueueSound(exec[y]) /\ exec'[y] = exec[y]
    BY <1>2 DEF QueuesSound
  <2>2. QED  BY <2>1 DEF QueueSound, AtTools
<1>3. QED  BY <1>1, <1>2

\* x holds no queue any more, or had none.
LEMMA QueueDropped ==
  ASSUME QueuesSound, NEW x \in Caller, NEW pc, NEW node, NEW g, NEW call, NEW cause, NEW open,
         Moves(x, pc, node, g, call, <<>>, cause, open), pc \notin {"RECORD", "INVOKE"}
  PROVE  QueuesSound'
BY DEF QueuesSound, QueueSound, Moves

\* execute_map_tools returns or raises with its events still waiting.
LEMMA QueueWaits ==
  ASSUME QueuesSound, NEW x \in Caller, exec[x].pc \in {"NODE", "RECORD"},
         NEW pc \in {"EMIT", "RAISED"},
         NEW g, NEW cause,
         Moves(x, pc, exec[x].node, g, exec[x].call, exec[x].queue, cause, exec[x].open)
  PROVE  QueuesSound'
<1>1. QueueSound(exec[x])'
  BY DEF QueuesSound, QueueSound, Moves, AtTools
<1>2. QED  BY <1>1, OthersQueue DEF Moves

LEMMA AppendOf ==
  ASSUME NEW S, NEW q \in Seq(S), NEW n
  PROVE  LET p == Append(q, n)  k == Len(q) + 1 IN
         /\ \A i \in DOMAIN p : (i \in DOMAIN q /\ p[i] = q[i]) \/ (i = k /\ p[i] = n)
         /\ \A i \in DOMAIN q : i \in DOMAIN p /\ p[i] = q[i] /\ i < k /\ i # k
         /\ k \in DOMAIN p /\ p[k] = n
<1>1. /\ DOMAIN q = 1 .. Len(q) /\ Len(q) \in Nat
      /\ DOMAIN Append(q, n) = 1 .. (Len(q) + 1) /\ Append(q, n)[Len(q) + 1] = n
      /\ \A i \in 1 .. Len(q) : Append(q, n)[i] = q[i]
  OBVIOUS
<1>2. QED  BY <1>1

LEMMA InQueue ==
  ASSUME WorkflowInv, NEW x \in Caller, NEW i \in DOMAIN exec[x].queue
  PROVE  /\ exec[x].queue[i].event \in ToolEvent
         /\ exec[x].queue[i].call \in Call /\ exec[x].queue[i].call \in Nat
         /\ exec[x].queue[i] = [event |-> exec[x].queue[i].event, call |-> exec[x].queue[i].call]
<1> DEFINE q == exec[x].queue
           Event == [event : ToolEvent, call : Call]
<1>1. q \in Seq(Event)
  BY TypeOfExecution
<1> HIDE DEF Event, q
<1>2. q[i] \in Event
  BY <1>1 DEF q
<1>3. QED  BY <1>2, CallNumber DEF q, Event

LEMMA StartToolQueues ==
  ASSUME WorkflowInv, QueuesSound, NEW x \in Caller, StartTool(x)
  PROVE  QueuesSound'
<1>1. PICK c \in Call :
        /\ c = exec[x].call + 1
        /\ Moves(x, "INVOKE", exec[x].node, exec[x].g, exec[x].call,
                 Append(exec[x].queue, [event |-> "toolStarted", call |-> c]),
                 exec[x].cause, exec[x].open)
        /\ AtTools(exec[x]) /\ exec[x].pc = "RECORD"
  BY StartToolShape
<1> DEFINE q == exec[x].queue
           n == [event |-> "toolStarted", call |-> c]
           p == Append(q, n)
<1>2. q \in Seq([event : ToolEvent, call : Call]) /\ exec[x].call \in Nat /\ c \in Nat
  BY TypeOfExecution, CallNumber
<1>3. \A i \in DOMAIN q : q[i].call <= exec[x].call /\ q[i] # n
  <2>1. \A i \in DOMAIN q : q[i].call <= exec[x].call
    BY <1>1 DEF QueuesSound, QueueSound
  <2>2. QED  BY <1>1, <1>2, <2>1
<1>4. \A i, j \in DOMAIN q : q[i] = q[j] => i = j
  BY DEF QueuesSound, QueueSound
<1>5. exec'[x].queue = p /\ exec'[x].pc = "INVOKE" /\ exec'[x].node = exec[x].node
      /\ exec'[x].call = exec[x].call
  BY <1>1 DEF Moves
<1>6. n = [event |-> "toolStarted", call |-> exec[x].call + 1]
  BY <1>1
<1>7. \A i \in DOMAIN p : (i \in DOMAIN q /\ p[i] = q[i]) \/ (i = Len(q) + 1 /\ p[i] = n)
  BY <1>2, AppendOf
<1> HIDE DEF q, n, p
<1>8. \A i, j \in DOMAIN p : p[i] = p[j] => i = j
  BY <1>3, <1>4, <1>7
<1>9. \A i \in DOMAIN p :
        \/ p[i].call <= exec[x].call
        \/ p[i] = [event |-> "toolStarted", call |-> exec[x].call + 1]
  BY <1>3, <1>6, <1>7
<1>10. QueueSound(exec[x])'
  BY <1>1, <1>5, <1>8, <1>9 DEF QueueSound, AtTools
<1>11. QED  BY <1>1, <1>10, OthersQueue DEF Moves

LEMMA FinishToolQueues ==
  ASSUME WorkflowInv, QueuesSound, NEW x \in Caller, FinishTool(x)
  PROVE  QueuesSound'
<1>1. PICK c \in Call :
        /\ c = exec[x].call + 1
        /\ Moves(x, "NODE", exec[x].node, exec[x].g, c,
                 Append(exec[x].queue, [event |-> "toolCompleted", call |-> c]),
                 exec[x].cause, exec[x].open)
        /\ exec[x].pc = "INVOKE"
  BY FinishToolShape
<1> DEFINE q == exec[x].queue
           n == [event |-> "toolCompleted", call |-> c]
           p == Append(q, n)
<1>2. q \in Seq([event : ToolEvent, call : Call]) /\ exec[x].call \in Nat /\ c \in Nat
  BY TypeOfExecution, CallNumber
<1>3. \A i \in DOMAIN q : q[i].call <= c /\ q[i] # n
  <2>1. \A i \in DOMAIN q : q[i].call <= exec[x].call \/ q[i] = [event |-> "toolStarted", call |-> c]
    BY <1>1 DEF QueuesSound, QueueSound
  <2>2. ASSUME NEW i \in DOMAIN q PROVE q[i].call \in Nat
    BY InQueue
  <2>3. QED  BY <1>1, <1>2, <2>1, <2>2
<1>4. \A i, j \in DOMAIN q : q[i] = q[j] => i = j
  BY DEF QueuesSound, QueueSound
<1>5. exec'[x].queue = p /\ exec'[x].pc = "NODE" /\ exec'[x].node = exec[x].node
      /\ exec'[x].call = c
  BY <1>1 DEF Moves
<1>6. AtTools(exec[x]) /\ n.call = c
  BY <1>1 DEF QueuesSound, QueueSound
<1>7. \A i \in DOMAIN p : (i \in DOMAIN q /\ p[i] = q[i]) \/ (i = Len(q) + 1 /\ p[i] = n)
  BY <1>2, AppendOf
<1> HIDE DEF q, n, p
<1>8. \A i, j \in DOMAIN p : p[i] = p[j] => i = j
  BY <1>3, <1>4, <1>7
<1>9. \A i \in DOMAIN p : p[i].call <= c
  BY <1>2, <1>3, <1>6, <1>7
<1>10. QueueSound(exec[x])'
  BY <1>5, <1>6, <1>8, <1>9 DEF QueueSound, AtTools
<1>11. QED  BY <1>1, <1>10, OthersQueue DEF Moves

\* What is left of a queue.
LEMMA TailOfQueue ==
  ASSUME WorkflowInv, NEW x \in Caller, exec[x].queue # <<>>
  PROVE  LET q == exec[x].queue IN
         /\ q[1] = Head(q) /\ 1 \in DOMAIN q
         /\ \A i \in DOMAIN Tail(q) : i \in Nat \ {0} /\ i + 1 \in DOMAIN q /\ Tail(q)[i] = q[i + 1]
         /\ \A i \in DOMAIN q : i \in Nat /\ (i # 1 => i - 1 \in DOMAIN Tail(q))
<1> DEFINE Event == [event : ToolEvent, call : Call]
           q == exec[x].queue
<1>1. q \in Seq(Event) /\ q # <<>>
  BY TypeOfExecution
<1> HIDE DEF Event, q
<1>2. /\ DOMAIN q = 1 .. Len(q) /\ Len(q) \in Nat \ {0} /\ Len(Tail(q)) = Len(q) - 1
      /\ DOMAIN Tail(q) = 1 .. (Len(q) - 1) /\ q[1] = Head(q)
      /\ \A i \in 1 .. (Len(q) - 1) : Tail(q)[i] = q[i + 1]
  BY <1>1
<1>3. QED  BY <1>2 DEF q

LEMMA PublishQueues ==
  ASSUME WorkflowInv, QueuesSound, NEW x \in Caller, PublishToolEvent(x)
  PROVE  QueuesSound'
<1>1. /\ exec[x].queue # <<>>
      /\ Moves(x, exec[x].pc, exec[x].node, exec[x].g, exec[x].call, Tail(exec[x].queue),
               exec[x].cause, exec[x].open)
  BY PublishShape
<1> DEFINE q == exec[x].queue
           t == Tail(exec[x].queue)
<1>2. /\ exec'[x].pc = exec[x].pc /\ exec'[x].node = exec[x].node /\ exec'[x].call = exec[x].call
      /\ exec'[x].queue = t
  BY <1>1 DEF Moves
<1>3. \A i \in DOMAIN t : i \in Nat \ {0} /\ i + 1 \in DOMAIN q /\ t[i] = q[i + 1]
  BY <1>1, TailOfQueue
<1> HIDE DEF q, t
<1>4. QueueSound(exec[x])'
  <2>1. \A i, j \in DOMAIN t : t[i] = t[j] => i = j
    <3>1. \A i, j \in DOMAIN q : q[i] = q[j] => i = j
      BY DEF QueuesSound, QueueSound, q
    <3>2. QED  BY <1>3, <3>1
  <2>2. exec[x].pc \in {"NODE", "RECORD", "INVOKE"} => \A i \in DOMAIN t :
          \/ t[i].call <= exec[x].call
          \/ exec[x].pc = "INVOKE" /\ t[i] = [event |-> "toolStarted", call |-> exec[x].call + 1]
    BY <1>3 DEF QueuesSound, QueueSound, q
  <2>3. QED  BY <1>1, <1>2, <2>1, <2>2 DEF QueuesSound, QueueSound, AtTools
<1>5. QED  BY <1>1, <1>4, OthersQueue DEF Moves

LEMMA TellingCounts ==
  ASSUME WorkflowInv
  PROVE  /\ \A ev \in ToolEvent, c \in Call : told[ev][c] \in Nat
         /\ CountersSame => \A ev \in ToolEvent, c \in Call : told'[ev][c] = told[ev][c]
         /\ \A ev, d \in ToolEvent, c, b \in Call :
              TellsOnce(d, b) =>
                told'[ev][c] = IF ev = d /\ c = b THEN told[ev][c] + 1 ELSE told[ev][c]
<1>1. /\ told["toolStarted"] = told.toolStarted /\ told["toolCompleted"] = told.toolCompleted
      /\ told'["toolStarted"] = told'.toolStarted /\ told'["toolCompleted"] = told'.toolCompleted
      /\ told.toolStarted \in [Call -> Nat] /\ told.toolCompleted \in [Call -> Nat]
  BY DEF WorkflowInv, ToldInv
<1>2. \A ev \in ToolEvent, c \in Call : told[ev][c] \in Nat
  BY <1>1 DEF ToolEvent
<1>3. CountersSame => \A ev \in ToolEvent, c \in Call : told'[ev][c] = told[ev][c]
  BY <1>1 DEF ToolEvent, CountersSame
<1>4. ASSUME NEW ev \in ToolEvent, NEW d \in ToolEvent, NEW c \in Call, NEW b \in Call,
             TellsOnce(d, b)
      PROVE  told'[ev][c] = IF ev = d /\ c = b THEN told[ev][c] + 1 ELSE told[ev][c]
  BY <1>1, <1>4 DEF ToolEvent, TellsOnce
<1>5. QED  BY <1>2, <1>3, <1>4

\* What a step of x leaves to come was to come, or not told.
FewerToCome(x) ==
  \A ev \in ToolEvent, c \in Call : ToCome(exec[x], ev, c)' => ToCome(exec[x], ev, c)

LEMMA PastOfOthers ==
  ASSUME NEW x \in Caller, NEW y \in Caller, y # x, NEW ev, NEW c,
         \A z \in Caller : z # x => exec'[z] = exec[z]
  PROVE  Past(exec[y], ev, c)' = Past(exec[y], ev, c)
<1>1. exec'[y] = exec[y]
  OBVIOUS
<1>2. QED  BY <1>1 DEF Past, ToCome, BeforeTools, AtTools, Queued

LEMMA QuietlyBounded ==
  ASSUME WorkflowInv, EventsBounded, NEW x \in Caller, CountersSame,
         \A y \in Caller : y # x => exec'[y] = exec[y],
         \A ev \in ToolEvent, c \in Call :
           ToCome(exec[x], ev, c)' => ToCome(exec[x], ev, c) \/ told[ev][c] = 0
  PROVE  EventsBounded'
<1> SUFFICES ASSUME NEW ev \in ToolEvent, NEW c \in Call
             PROVE  told'[ev][c] <= Past(exec[1], ev, c)' + Past(exec[2], ev, c)'
  BY DEF EventsBounded
<1>1. told'[ev][c] = told[ev][c] /\ told[ev][c] \in Nat
  BY TellingCounts
<1>2. told[ev][c] <= Past(exec[1], ev, c) + Past(exec[2], ev, c)
  BY DEF EventsBounded
<1>3. \A y \in Caller : Past(exec[y], ev, c) \in {0, 1} /\ Past(exec[y], ev, c)' \in {0, 1}
  BY DEF Past
<1>4. told[ev][c] = 0 \/ Past(exec[x], ev, c) <= Past(exec[x], ev, c)'
  BY DEF Past
<1>5. \A y \in Caller : y # x => Past(exec[y], ev, c)' = Past(exec[y], ev, c)
  BY PastOfOthers
<1>6. QED  BY <1>1, <1>2, <1>3, <1>4, <1>5, Callers

LEMMA TellingIsBounded ==
  ASSUME WorkflowInv, EventsBounded, NEW x \in Caller, NEW d \in ToolEvent, NEW b \in Call,
         TellsOnce(d, b), ToCome(exec[x], d, b), ~ToCome(exec[x], d, b)',
         \A y \in Caller : y # x => exec'[y] = exec[y],
         FewerToCome(x)
  PROVE  EventsBounded'
<1> SUFFICES ASSUME NEW ev \in ToolEvent, NEW c \in Call
             PROVE  told'[ev][c] <= Past(exec[1], ev, c)' + Past(exec[2], ev, c)'
  BY DEF EventsBounded
<1>1. /\ told'[ev][c] = IF ev = d /\ c = b THEN told[ev][c] + 1 ELSE told[ev][c]
      /\ told[ev][c] \in Nat
  BY TellingCounts
<1>2. told[ev][c] <= Past(exec[1], ev, c) + Past(exec[2], ev, c)
  BY DEF EventsBounded
<1>3. \A y \in Caller : Past(exec[y], ev, c) \in {0, 1} /\ Past(exec[y], ev, c)' \in {0, 1}
  BY DEF Past
<1>4. Past(exec[x], ev, c) <= Past(exec[x], ev, c)'
  BY DEF Past, FewerToCome
<1>5. ev = d /\ c = b => Past(exec[x], ev, c) = 0 /\ Past(exec[x], ev, c)' = 1
  BY DEF Past
<1>6. \A y \in Caller : y # x => Past(exec[y], ev, c)' = Past(exec[y], ev, c)
  BY PastOfOthers
<1>7. QED  BY <1>1, <1>2, <1>3, <1>4, <1>5, <1>6, Callers

LEMMA PublishIsBounded ==
  ASSUME WorkflowInv, QueuesSound, EventsBounded, NEW x \in Caller, PublishToolEvent(x)
  PROVE  EventsBounded'
<1>1. PICK ev \in ToolEvent, c \in Call :
        /\ exec[x].queue # <<>> /\ Head(exec[x].queue) = [event |-> ev, call |-> c]
        /\ Moves(x, exec[x].pc, exec[x].node, exec[x].g, exec[x].call, Tail(exec[x].queue),
                 exec[x].cause, exec[x].open)
        /\ exec[x].pc \in {"INVOKE", "EMIT", "RAISED"}
        /\ UNCHANGED told \/ TellsOnce(ev, c)
  BY PublishShape
<1> DEFINE q == exec[x].queue
           t == Tail(exec[x].queue)
<1>2. /\ q[1] = [event |-> ev, call |-> c] /\ 1 \in DOMAIN q
      /\ \A i \in DOMAIN t : i \in Nat \ {0} /\ i + 1 \in DOMAIN q /\ t[i] = q[i + 1]
  BY <1>1, TailOfQueue
<1>3. AtTools(exec[x]) /\ exec[x].call \in Nat /\ c \in Nat
  BY <1>1, TypeOfExecution, CallNumber DEF QueuesSound, QueueSound
<1>4. /\ exec'[x].pc = exec[x].pc /\ exec'[x].node = exec[x].node /\ exec'[x].call = exec[x].call
      /\ exec'[x].queue = t /\ exec'[x].open = exec[x].open
      /\ \A y \in Caller : y # x => exec'[y] = exec[y]
  BY <1>1 DEF Moves
<1>5. \A i, j \in DOMAIN q : q[i] = q[j] => i = j
  BY DEF QueuesSound, QueueSound
<1>6. exec[x].pc = "INVOKE" => c <= exec[x].call \/ (ev = "toolStarted" /\ c = exec[x].call + 1)
  <2>1. exec[x].pc = "INVOKE" =>
          \/ q[1].call <= exec[x].call
          \/ q[1] = [event |-> "toolStarted", call |-> exec[x].call + 1]
    BY <1>2 DEF QueuesSound, QueueSound
  <2>2. QED  BY <1>2, <2>1
<1> HIDE DEF q, t
<1>7. \A d \in ToolEvent, b \in Call : Queued(exec[x], d, b)' => Queued(exec[x], d, b)
  BY <1>2, <1>4 DEF Queued, q
<1>8. ~Queued(exec[x], ev, c)' /\ Queued(exec[x], ev, c)
  BY <1>2, <1>4, <1>5 DEF Queued, q
<1>9. FewerToCome(x)
  BY <1>4, <1>7 DEF FewerToCome, ToCome, BeforeTools, AtTools
<1>10. ~ToCome(exec[x], ev, c)' /\ ToCome(exec[x], ev, c)
  BY <1>1, <1>3, <1>4, <1>6, <1>8 DEF ToCome, BeforeTools, AtTools, Before, ToolEvent
<1>11. CASE UNCHANGED told
  BY <1>4, <1>9, <1>11, QuietlyBounded DEF FewerToCome, CountersSame
<1>12. CASE TellsOnce(ev, c)
  BY <1>4, <1>9, <1>10, <1>12, TellingIsBounded
<1>13. QED  BY <1>1, <1>11, <1>12

LEMMA CloseIsBounded ==
  ASSUME WorkflowInv, QueuesSound, EventsBounded, NEW x \in Caller, CloseToolCall(x)
  PROVE  EventsBounded'
<1>1. PICK c \in Call :
        /\ c \in exec[x].open
        /\ Moves(x, "FAIL", exec[x].node, exec[x].g, exec[x].call, exec[x].queue, exec[x].cause,
                 exec[x].open \ {c})
        /\ exec[x].pc = "FAIL" /\ TellsOnce("toolCompleted", c)
  BY CloseShape
<1>2. exec[x].queue = <<>>
  BY <1>1, QueueEmpty
<1>3. FewerToCome(x)
  BY <1>1, <1>2 DEF Moves, FewerToCome, ToCome, BeforeTools, AtTools, Queued
<1>4. ToCome(exec[x], "toolCompleted", c) /\ ~ToCome(exec[x], "toolCompleted", c)'
  BY <1>1, <1>2 DEF Moves, ToCome, BeforeTools, AtTools, Queued
<1>5. QED  BY <1>1, <1>3, <1>4, TellingIsBounded DEF Moves, ToolEvent

BoundInv == QueuesSound /\ EventsBounded

\* The graph goes forward.
LEMMA NodesGoForward ==
  ASSUME NEW node \in Node, NEW g, NextNode(node, g) \in Before \union {"execute_map_tools"}
  PROVE  node \in Before
BY DEF NextNode, RouteBranch, AfterRetrieval, Node, Before

\* A step that tells no tool event and leaves x no queue.
LEMMA DroppingIsBounded ==
  ASSUME WorkflowInv, BoundInv, NEW x \in Caller, CountersSame,
         NEW pc, NEW node, NEW g, NEW call, NEW cause, NEW open,
         Moves(x, pc, node, g, call, <<>>, cause, open), pc \notin {"RECORD", "INVOKE"},
         \/ exec[x].pc \in {"IDLE", "PREPARE", "INPUT"}
         \/ pc \in {"ENDED", "RAISED", "COMPLETE"}
         \/ pc = "FAIL" /\ open \subseteq PendingToolCalls
         \/ BeforeTools(exec[x])
         \/ pc = "SAVE" /\ node \notin Before
         \/ pc = "NODE" /\ node \notin Before \union {"execute_map_tools"}
  PROVE  BoundInv'
<1>1. QueuesSound'
  BY QueueDropped DEF BoundInv
<1>2. /\ exec'[x].pc = pc /\ exec'[x].queue = <<>> /\ exec'[x].open = open /\ exec'[x].node = node
      /\ \A y \in Caller : y # x => exec'[y] = exec[y]
  BY DEF Moves
<1>3. ASSUME NEW ev \in ToolEvent, NEW c \in Call, ToCome(exec[x], ev, c)'
      PROVE  ToCome(exec[x], ev, c) \/ told[ev][c] = 0
  <2>1. ~Queued(exec[x], ev, c)'
    BY <1>2 DEF Queued
  <2>2. CASE exec[x].pc \in {"IDLE", "PREPARE", "INPUT"} \/ BeforeTools(exec[x])
    BY <2>2 DEF ToCome
  <2>3. CASE pc \in {"ENDED", "RAISED", "COMPLETE"}
    BY <1>2, <1>3, <2>1, <2>3 DEF ToCome, BeforeTools
  <2>4. CASE pc = "FAIL" /\ open \subseteq PendingToolCalls
    <3>1. ev = "toolCompleted" /\ c \in PendingToolCalls
      BY <1>2, <1>3, <2>1, <2>4 DEF ToCome, BeforeTools
    <3>2. QED  BY <3>1 DEF PendingToolCalls
  <2>5. CASE \/ pc = "SAVE" /\ node \notin Before
             \/ pc = "NODE" /\ node \notin Before \union {"execute_map_tools"}
    BY <1>2, <1>3, <2>1, <2>5 DEF ToCome, BeforeTools, AtTools
  <2>6. QED  BY <2>2, <2>3, <2>4, <2>5
<1>4. QED  BY <1>1, <1>2, <1>3, QuietlyBounded DEF BoundInv

LEMMA SameCounters ==
  UNCHANGED told => CountersSame
BY DEF CountersSame

LEMMA LeavesBounded ==
  ASSUME WorkflowInv, BoundInv, NEW x \in Caller,
         \/ Complete(x) \/ FailRun(x) \/ Cancel(x) \/ TooLate(x) \/ Stop(x)
         \/ RunTimeout(x) \/ Fallback(x) \/ FailBegin(x)
  PROVE  BoundInv'
<1>1. CASE Complete(x) \/ FailRun(x) \/ Cancel(x) \/ TooLate(x) \/ Stop(x)
  BY <1>1, LeaveShape, SameCounters, DroppingIsBounded
<1>2. CASE RunTimeout(x)
  BY <1>2, TimeoutShape, SameCounters, DroppingIsBounded DEF runVars
<1>3. CASE Fallback(x)
  BY <1>3, FallbackShape, SameCounters, DroppingIsBounded DEF NodeFrame, runVars
<1>4. CASE FailBegin(x)
  BY <1>4, FailBeginShape, SameCounters, DroppingIsBounded DEF NodeFrame, runVars
<1>5. QED  BY <1>1, <1>2, <1>3, <1>4

LEMMA BeginsBounded ==
  ASSUME WorkflowInv, BoundInv, NEW x \in Caller, Claim(x) \/ Prepare(x) \/ SaveInput(x)
  PROVE  BoundInv'
<1>1. CASE Claim(x)
  BY <1>1, ClaimShape, SameCounters, DroppingIsBounded DEF runVars
<1>2. CASE Prepare(x)
  <2>1. PICK pc \in {"INPUT", "COMPLETE", "EMIT", "NODE"} : \E node, g :
          Moves(x, pc, node, g, 0, <<>>, "NONE", {})
    BY <1>2, PrepareShape
  <2>2. CountersSame /\ exec[x].pc = "PREPARE"
    BY <1>2, PrepareShape
  <2>3. QED  BY <2>1, <2>2, DroppingIsBounded
<1>3. CASE SaveInput(x)
  <2>1. exec[x].pc = "INPUT"
    BY <1>3 DEF SaveInput
  <2>2. exec[x].queue = <<>>
    BY <2>1, QueueEmpty DEF BoundInv
  <2>3. Moves(x, "NODE", "route_intent", exec[x].g, exec[x].call, <<>>, exec[x].cause,
              exec[x].open)
    BY <1>3, <2>2, SaveInputShape
  <2>4. CountersSame
    BY <1>3 DEF SaveInput, CountersSame
  <2>5. QED  BY <2>1, <2>3, <2>4, DroppingIsBounded
<1>4. QED  BY <1>1, <1>2, <1>3

LEMMA NodesBounded ==
  ASSUME WorkflowInv, BoundInv, NEW x \in Caller,
         \/ RouteIntent(x) \/ RetrieveKnowledge(x) \/ LoadCatalog(x)
         \/ PlanHousingSearch(x) \/ PlanMap(x) \/ BuildMapResult(x) \/ ComposeAnswer(x)
         \/ NodeRaises(x)
  PROVE  BoundInv'
<1>1. /\ exec[x].pc \in {"NODE", "RECORD"} /\ NodeFrame
      /\ \E pc \in {"EMIT", "RAISED"} : \E g, cause :
           Moves(x, pc, exec[x].node, g, exec[x].call, exec[x].queue, cause, exec[x].open)
  BY NodeShape, RaiseShape DEF Returns
<1>2. PICK pc \in {"EMIT", "RAISED"} : \E g, cause :
        Moves(x, pc, exec[x].node, g, exec[x].call, exec[x].queue, cause, exec[x].open)
  BY <1>1
<1>3. QueuesSound'
  BY <1>1, <1>2, QueueWaits DEF BoundInv
<1>4. CountersSame
  BY <1>1 DEF NodeFrame, runVars, CountersSame
<1>5. exec[x].pc = "RECORD" => AtTools(exec[x])
  BY DEF BoundInv, QueuesSound, QueueSound
<1>6. FewerToCome(x)
  BY <1>1, <1>2, <1>5 DEF Moves, FewerToCome, ToCome, BeforeTools, AtTools, Before, Queued
<1>7. QED  BY <1>2, <1>3, <1>4, <1>6, QuietlyBounded DEF BoundInv, Moves, FewerToCome

LEMMA CheckToolBounded ==
  ASSUME WorkflowInv, BoundInv, NEW x \in Caller, CheckTool(x)
  PROVE  BoundInv'
<1>1. /\ MovesTo(x, "RECORD") /\ AtTools(exec[x]) /\ exec[x].pc = "NODE" /\ UNCHANGED told
  BY CheckToolShape
<1>2. /\ exec'[x].pc = "RECORD" /\ exec'[x].node = exec[x].node /\ exec'[x].call = exec[x].call
      /\ exec'[x].queue = exec[x].queue /\ \A y \in Caller : y # x => exec'[y] = exec[y]
  BY <1>1 DEF MovesTo, Moves
<1>3. QueueSound(exec[x])'
  <2>1. /\ \A i, j \in DOMAIN exec[x].queue : exec[x].queue[i] = exec[x].queue[j] => i = j
        /\ \A i \in DOMAIN exec[x].queue : exec[x].queue[i].call <= exec[x].call
    BY <1>1 DEF BoundInv, QueuesSound, QueueSound
  <2>2. AtTools(exec[x])'
    BY <1>1, <1>2 DEF AtTools
  <2>3. QED  BY <1>2, <2>1, <2>2 DEF QueueSound
<1>4. FewerToCome(x)
  BY <1>1, <1>2 DEF FewerToCome, ToCome, BeforeTools, AtTools, Queued
<1>5. QED  BY <1>1, <1>2, <1>3, <1>4, OthersQueue, QuietlyBounded, SameCounters
           DEF BoundInv, FewerToCome

LEMMA StartToolBounded ==
  ASSUME WorkflowInv, BoundInv, NEW x \in Caller, StartTool(x)
  PROVE  BoundInv'
<1>1. PICK c \in Call :
        /\ c = exec[x].call + 1
        /\ Moves(x, "INVOKE", exec[x].node, exec[x].g, exec[x].call,
                 Append(exec[x].queue, [event |-> "toolStarted", call |-> c]),
                 exec[x].cause, exec[x].open)
        /\ AtTools(exec[x]) /\ exec[x].pc = "RECORD" /\ UNCHANGED told
  BY StartToolShape
<1> DEFINE q == exec[x].queue
           n == [event |-> "toolStarted", call |-> c]
           p == Append(q, n)
<1>2. q \in Seq([event : ToolEvent, call : Call]) /\ exec[x].call \in Nat
  BY TypeOfExecution
<1>3. \A i \in DOMAIN p : (i \in DOMAIN q /\ p[i] = q[i]) \/ p[i] = n
  BY <1>2, AppendOf
<1>4. /\ exec'[x].pc = "INVOKE" /\ exec'[x].node = exec[x].node /\ exec'[x].call = exec[x].call
      /\ exec'[x].queue = p
  BY <1>1 DEF Moves
<1> HIDE DEF p, q
<1>5. FewerToCome(x)
  <2> SUFFICES ASSUME NEW ev \in ToolEvent, NEW b \in Call, ToCome(exec[x], ev, b)'
               PROVE  ToCome(exec[x], ev, b)
    BY DEF FewerToCome
  <2>1. Queued(exec[x], ev, b)' => Queued(exec[x], ev, b) \/ b = c
    BY <1>3, <1>4 DEF Queued, q
  <2>2. b > exec[x].call \/ Queued(exec[x], ev, b)
    BY <1>1, <1>2, <1>4, <2>1 DEF ToCome, BeforeTools
  <2>3. QED  BY <1>1, <2>2 DEF ToCome
<1>6. QED  BY <1>1, <1>5, StartToolQueues, QuietlyBounded, SameCounters
           DEF BoundInv, Moves, FewerToCome

LEMMA FinishToolBounded ==
  ASSUME WorkflowInv, BoundInv, NEW x \in Caller, FinishTool(x)
  PROVE  BoundInv'
<1>1. PICK c \in Call :
        /\ c = exec[x].call + 1
        /\ Moves(x, "NODE", exec[x].node, exec[x].g, c,
                 Append(exec[x].queue, [event |-> "toolCompleted", call |-> c]),
                 exec[x].cause, exec[x].open)
        /\ exec[x].pc = "INVOKE" /\ UNCHANGED told
  BY FinishToolShape DEF runVars
<1> DEFINE q == exec[x].queue
           n == [event |-> "toolCompleted", call |-> c]
           p == Append(q, n)
<1>2. q \in Seq([event : ToolEvent, call : Call]) /\ exec[x].call \in Nat /\ AtTools(exec[x])
  BY <1>1, TypeOfExecution DEF BoundInv, QueuesSound, QueueSound
<1>3. \A i \in DOMAIN p : (i \in DOMAIN q /\ p[i] = q[i]) \/ p[i] = n
  BY <1>2, AppendOf
<1>4. /\ exec'[x].pc = "NODE" /\ exec'[x].node = exec[x].node /\ exec'[x].call = c
      /\ exec'[x].queue = p
  BY <1>1 DEF Moves
<1> HIDE DEF p, q
<1>5. FewerToCome(x)
  <2> SUFFICES ASSUME NEW ev \in ToolEvent, NEW b \in Call, ToCome(exec[x], ev, b)'
               PROVE  ToCome(exec[x], ev, b)
    BY DEF FewerToCome
  <2>1. Queued(exec[x], ev, b)' =>
          Queued(exec[x], ev, b) \/ (ev = "toolCompleted" /\ b = c)
    BY <1>3, <1>4 DEF Queued, q
  <2>2. b \in Nat
    BY CallNumber
  <2>3. \/ b > exec[x].call + 1 \/ (ev = "toolCompleted" /\ b > exec[x].call)
        \/ Queued(exec[x], ev, b)
    BY <1>1, <1>2, <1>4, <2>1, <2>2 DEF ToCome, BeforeTools, AtTools, Before
  <2>4. QED  BY <1>1, <1>2, <2>2, <2>3 DEF ToCome
<1>6. QED  BY <1>1, <1>5, FinishToolQueues, QuietlyBounded, SameCounters
           DEF BoundInv, Moves, FewerToCome

LEMMA SavesBounded ==
  ASSUME WorkflowInv, BoundInv, NEW x \in Caller, EmitUpdate(x) \/ SaveCheckpoint(x)
  PROVE  BoundInv'
<1>1. CASE EmitUpdate(x)
  <2>1. MovesTo(x, "SAVE") /\ exec[x].pc = "EMIT" /\ exec[x].queue = <<>> /\ CountersSame
    BY <1>1, EmitShape
  <2>2. BeforeTools(exec[x]) \/ exec[x].node \notin Before
    BY <2>1 DEF BeforeTools
  <2>3. QED  BY <2>1, <2>2, DroppingIsBounded DEF MovesTo
<1>2. CASE SaveCheckpoint(x)
  <2> DEFINE next == NextNode(exec[x].node, exec[x].g)
             pc == IF next = "END" THEN "COMPLETE" ELSE "NODE"
  <2>1. /\ Moves(x, pc, next, exec[x].g, exec[x].call, exec[x].queue, exec[x].cause, exec[x].open)
        /\ exec[x].pc = "SAVE" /\ exec[x].node \in Node /\ UNCHANGED told
    BY <1>2, SaveCheckpointShape
  <2>2. exec[x].queue = <<>>
    BY <2>1, QueueEmpty DEF BoundInv
  <2>3. next \in Before \union {"execute_map_tools"} => BeforeTools(exec[x])
    BY <2>1, NodesGoForward DEF BeforeTools
  <2>4. pc \in {"COMPLETE", "NODE"}
    OBVIOUS
  <2> HIDE DEF next, pc
  <2>5. QED  BY <2>1, <2>2, <2>3, <2>4, SameCounters, DroppingIsBounded
<1>3. QED  BY <1>1, <1>2

LEMMA OthersBounded ==
  ASSUME BoundInv, UNCHANGED <<told, exec>>
  PROVE  BoundInv'
BY DEF BoundInv, QueuesSound, QueueSound, EventsBounded, Past, ToCome, BeforeTools, AtTools, Queued

LEMMA StepBounded == WorkflowInv /\ BoundInv /\ [WorkflowNext]_workflowVars => BoundInv'
<1> SUFFICES ASSUME WorkflowInv, BoundInv, [WorkflowNext]_workflowVars PROVE BoundInv'
  OBVIOUS
<1>1. ASSUME NEW x \in Caller, RunNode(x)
      PROVE  BoundInv'
  BY <1>1, NodesBounded, CheckToolBounded, StartToolBounded, FinishToolBounded DEF RunNode
<1>2. ASSUME NEW x \in Caller, Publish(x)
      PROVE  BoundInv'
  <2>1. CASE PublishToolEvent(x)
    BY <2>1, PublishQueues, PublishIsBounded DEF BoundInv
  <2>2. CASE EmitUpdate(x) \/ SaveCheckpoint(x)
    BY <2>2, SavesBounded
  <2>3. CASE SaveWrites(x)
    BY <2>3, OthersBounded DEF SaveWrites
  <2>4. QED  BY <1>2, <2>1, <2>2, <2>3 DEF Publish
<1>3. ASSUME NEW x \in Caller, End(x)
      PROVE  BoundInv'
  <2>1. CASE CloseToolCall(x)
    <3>1. PICK c \in Call : Moves(x, "FAIL", exec[x].node, exec[x].g, exec[x].call, exec[x].queue,
                                  exec[x].cause, exec[x].open \ {c}) /\ exec[x].pc = "FAIL"
      BY <2>1, CloseShape
    <3>2. exec[x].queue = <<>>
      BY <3>1, QueueEmpty DEF BoundInv
    <3>3. QueuesSound'
      BY <3>1, <3>2, QueueDropped DEF BoundInv
    <3>4. QED  BY <2>1, <3>3, CloseIsBounded DEF BoundInv
  <2>2. QED  BY <1>3, <2>1, LeavesBounded DEF End
<1>4. ASSUME NEW x \in Caller, CallTool(x)
      PROVE  BoundInv'
  BY <1>4, OthersBounded DEF CallTool, runVars
<1>5. CASE ServiceStep /\ UNCHANGED <<runVars, exec, historyVars>>
  BY <1>5, OthersBounded DEF runVars
<1>6. CASE UNCHANGED workflowVars
  BY <1>6, OthersBounded DEF workflowVars, runVars
<1>7. QED
  BY <1>1, <1>2, <1>3, <1>4, <1>5, <1>6, BeginsBounded, NodesBounded, LeavesBounded
  DEF WorkflowNext
-----------------------------------------------------------------------------
(* Types *)

\* No map result of the previous turn is ever in the state: it is not in a checkpoint.
NoOldMap ==
  /\ \A x \in Caller : exec[x].g.mapResult # "OLD"
  /\ checkpoint.state.mapResult # "OLD" /\ checkpoint.after.mapResult # "OLD"
  /\ told.map # "OLD"

RunInv ==
  /\ run \in [status : {"RUNNING", "SUCCEEDED", "FAILED", "CANCELLED"},
              cause : {"NONE", "ANSWER", "OTHER"}]
  /\ committed \in GraphState
  /\ stops \in 0 .. MaxStops /\ overlap \in BOOLEAN /\ replayed \in BOOLEAN
  /\ raced \subseteq Call

LEMMA TrackedMap ==
  ASSUME NEW g \in GraphState
  PROVE  Tracked(g).mapResult = "NONE" /\ Tracked(g).plan = g.plan
         /\ Tracked(g).intent = g.intent /\ Tracked(g).citations = g.citations
BY DEF Tracked, GraphState

LEMMA ForgottenMap ==
  /\ Forgotten.state = NoState /\ Forgotten.after = NoState /\ Forgotten.next = "END"
  /\ ~Forgotten.saved /\ NoState.mapResult = "NONE" /\ NoState.citations = "NONE"
BY DEF Forgotten, Checkpoint, NoState

\* What a checkpoint after a step is.
LEMMA ThreadAfter ==
  ASSUME NEW state, NEW next, SaveThread(state, next)
  PROVE  \/ checkpoint = Forgotten /\ checkpoint' = Forgotten
         \/ /\ checkpoint # Forgotten
            /\ checkpoint'.state = state /\ checkpoint'.next = next
            /\ ~checkpoint'.saved /\ checkpoint'.after = NoState
BY DEF SaveThread, Checkpoint

LEMMA MapStays ==
  ASSUME NoOldMap, NEW x \in Caller, NEW pc, NEW node, NEW g, NEW call, NEW queue, NEW cause,
         NEW open, Moves(x, pc, node, g, call, queue, cause, open), g.mapResult # "OLD",
         checkpoint'.state.mapResult # "OLD", checkpoint'.after.mapResult # "OLD",
         told'.map # "OLD"
  PROVE  NoOldMap'
BY DEF NoOldMap, Moves

LEMMA MapStaysInGraph ==
  ASSUME WorkflowInv, NoOldMap, NEW x \in Caller,
         RunNode(x) \/ NodeRaises(x) \/ RunTimeout(x) \/ Publish(x)
  PROVE  NoOldMap'
<1>1. /\ exec[x].g.mapResult # "OLD" /\ told.map # "OLD" /\ exec[x].g \in GraphState
      /\ checkpoint.state.mapResult # "OLD" /\ checkpoint.after.mapResult # "OLD"
  BY TypeOfExecution DEF NoOldMap
<1>2. CASE \/ RouteIntent(x) \/ RetrieveKnowledge(x) \/ LoadCatalog(x)
           \/ PlanHousingSearch(x) \/ PlanMap(x) \/ BuildMapResult(x) \/ ComposeAnswer(x)
  <2>1. PICK h : Returns(x, h) /\ Makes(exec[x].node, exec[x].g, h)
    BY <1>2, NodeShape
  <2>2. h.mapResult # "OLD"
    BY <1>1, <2>1 DEF Makes
  <2>3. UNCHANGED <<told, checkpoint>>
    BY <1>2, NodeShape DEF NodeFrame, runVars
  <2>4. QED  BY <1>1, <2>1, <2>2, <2>3, MapStays DEF Returns
<1>3. CASE CheckTool(x) \/ StartTool(x)
  <2>1. CASE CheckTool(x)
    BY <1>1, <2>1, CheckToolShape, MapStays DEF MovesTo
  <2>2. CASE StartTool(x)
    BY <1>1, <2>2, StartToolShape, MapStays
  <2>3. QED  BY <1>3, <2>1, <2>2
<1>4. CASE FinishTool(x)
  BY <1>1, <1>4, FinishToolShape, MapStays DEF runVars
<1>5. CASE NodeRaises(x)
  BY <1>1, <1>5, RaiseShape, MapStays DEF NodeFrame, runVars
<1>6. CASE RunTimeout(x)
  BY <1>1, <1>6, TimeoutShape, MapStays DEF runVars
<1>7. CASE PublishToolEvent(x)
  BY <1>1, <1>7, PublishShape, MapStays DEF RestOfToldSame
<1>8. CASE EmitUpdate(x)
  BY <1>1, <1>8, EmitShape, MapStays DEF MovesTo
<1>9. CASE SaveWrites(x)
  BY <1>1, <1>9, SaveWritesShape, TrackedMap DEF NoOldMap
<1>10. CASE SaveCheckpoint(x)
  <2> DEFINE next == NextNode(exec[x].node, exec[x].g)
             pc == IF next = "END" THEN "COMPLETE" ELSE "NODE"
  <2>1. /\ Moves(x, pc, next, exec[x].g, exec[x].call, exec[x].queue, exec[x].cause, exec[x].open)
        /\ SaveThread(Tracked(exec[x].g), next) /\ UNCHANGED told
    BY <1>10, SaveCheckpointShape
  <2> HIDE DEF next, pc
  <2>2. checkpoint'.state.mapResult # "OLD" /\ checkpoint'.after.mapResult # "OLD"
    BY <1>1, <2>1, ThreadAfter, ForgottenMap, TrackedMap
  <2>3. QED  BY <1>1, <2>1, <2>2, MapStays
<1>11. QED
  BY <1>2, <1>3, <1>4, <1>5, <1>6, <1>7, <1>8, <1>9, <1>10 DEF RunNode, Publish

LEMMA MapStaysAround ==
  ASSUME WorkflowInv, NoOldMap, NEW x \in Caller,
         Claim(x) \/ Prepare(x) \/ SaveInput(x) \/ End(x)
  PROVE  NoOldMap'
<1>1. /\ exec[x].g.mapResult # "OLD" /\ told.map # "OLD"
      /\ checkpoint.state.mapResult # "OLD" /\ checkpoint.after.mapResult # "OLD"
  BY DEF NoOldMap
<1>2. CASE Claim(x)
  BY <1>1, <1>2, ClaimShape, ForgottenMap, MapStays DEF runVars
<1>3. CASE Prepare(x)
  <2>1. /\ told'.map = told.map
        /\ checkpoint' \in {checkpoint, Forgotten}
    BY <1>3, PrepareShape
  <2>2. \E pc, node, g : Moves(x, pc, node, g, 0, <<>>, "NONE", {}) /\ g.mapResult # "OLD"
    BY <1>1, <1>3, PrepareShape
  <2>3. checkpoint'.state.mapResult # "OLD" /\ checkpoint'.after.mapResult # "OLD"
    BY <1>1, <2>1, ForgottenMap
  <2>4. QED  BY <1>1, <2>1, <2>2, <2>3, MapStays
<1>4. CASE SaveInput(x)
  <2>1. checkpoint'.state.mapResult # "OLD" /\ checkpoint'.after.mapResult # "OLD"
    BY <1>1, <1>4, SaveInputShape, ThreadAfter, ForgottenMap
  <2>2. QED  BY <1>1, <1>4, <2>1, SaveInputShape, MapStays
<1>5. CASE Complete(x) \/ FailRun(x) \/ Cancel(x) \/ TooLate(x) \/ Stop(x)
  BY <1>1, <1>5, LeaveShape, ForgottenMap, MapStays
<1>6. CASE Fallback(x)
  BY <1>1, <1>6, FallbackShape, MapStays DEF NodeFrame, runVars
<1>7. CASE FailBegin(x)
  BY <1>1, <1>7, FailBeginShape, MapStays DEF NodeFrame, runVars
<1>8. CASE CloseToolCall(x)
  BY <1>1, <1>8, CloseShape, MapStays DEF RestOfToldSame
<1>9. QED  BY <1>2, <1>3, <1>4, <1>5, <1>6, <1>7, <1>8 DEF End

LEMMA StepMap == WorkflowInv /\ NoOldMap /\ [WorkflowNext]_workflowVars => NoOldMap'
<1>1. NoOldMap /\ UNCHANGED <<exec, checkpoint, told>> => NoOldMap'
  BY DEF NoOldMap
<1>2. QED
  BY <1>1, MapStaysInGraph, MapStaysAround
  DEF WorkflowNext, CallTool, runVars, workflowVars

LEMMA StepRun == WorkflowInv /\ RunInv /\ [WorkflowNext]_workflowVars => RunInv'
<1> SUFFICES ASSUME WorkflowInv, RunInv, [WorkflowNext]_workflowVars PROVE RunInv'
  OBVIOUS
<1>1. CASE UNCHANGED <<run, committed, historyVars>>
  BY <1>1 DEF RunInv, historyVars
<1>2. ASSUME NEW x \in Caller, Claim(x)
      PROVE  RunInv'
  BY <1>2, WorkflowAssumption DEF RunInv, Claim, runVars, WorkflowAssumption
<1>3. ASSUME NEW x \in Caller, Prepare(x)
      PROVE  RunInv'
  BY <1>3 DEF RunInv, Prepare, WorkflowInv, ThreadInv
<1>4. ASSUME NEW x \in Caller, Complete(x) \/ FailRun(x) \/ Cancel(x)
      PROVE  RunInv'
  <2>1. Tracked(exec[x].g) \in GraphState /\ exec[x].cause \in {"NONE", "ANSWER", "OTHER"}
    BY TypeOfExecution, TrackedIsState DEF Execution
  <2>2. QED  BY <1>4, <2>1 DEF RunInv, Complete, FailRun, Cancel, historyVars
<1>5. ASSUME NEW x \in Caller, Stop(x)
      PROVE  RunInv'
  BY <1>5, WorkflowAssumption DEF RunInv, Stop, runVars, WorkflowAssumption
<1>12. ASSUME NEW x \in Caller, CheckTool(x)
      PROVE  RunInv'
  BY <1>12, CheckToolShape DEF RunInv
<1>6. ASSUME NEW x \in Caller, RunNode(x) \/ NodeRaises(x), ~CheckTool(x)
      PROVE  UNCHANGED <<run, committed, historyVars>>
  BY <1>6 DEF RunNode, RouteIntent, RetrieveKnowledge, LoadCatalog, PlanHousingSearch, PlanMap,
    StartTool, FinishTool, BuildMapResult, ComposeAnswer, NodeRaises, StartToolRaises, ToolsRaise,
    ModelRaises, SourceRaises, NodeFrame, runVars
<1>7. ASSUME NEW x \in Caller, SaveInput(x) \/ RunTimeout(x) \/ CallTool(x) \/ Publish(x)
      PROVE  UNCHANGED <<run, committed, historyVars>>
  BY <1>7 DEF SaveInput, RunTimeout, CallTool, Publish, PublishToolEvent, EmitUpdate, SaveWrites,
    SaveCheckpoint, runVars
<1>8. ASSUME NEW x \in Caller, Fallback(x) \/ FailBegin(x) \/ CloseToolCall(x) \/ TooLate(x)
      PROVE  UNCHANGED <<run, committed, historyVars>>
  BY <1>8 DEF Fallback, FailBegin, CloseToolCall, TooLate, NodeFrame, runVars
<1>9. ASSUME NEW x \in Caller, End(x)
      PROVE  RunInv'
  BY <1>1, <1>4, <1>5, <1>8, <1>9 DEF End
<1>10. CASE (ServiceStep /\ UNCHANGED <<runVars, exec, historyVars>>) \/ UNCHANGED workflowVars
  BY <1>1, <1>10 DEF runVars, workflowVars
<1>11. QED
  BY <1>1, <1>2, <1>3, <1>6, <1>7, <1>9, <1>10, <1>12 DEF WorkflowNext

LEMMA InitBounded == WorkflowInit => BoundInv /\ NoOldMap /\ RunInv
<1> SUFFICES ASSUME WorkflowInit PROVE BoundInv /\ NoOldMap /\ RunInv
  OBVIOUS
<1>1. \A x \in Caller : /\ exec[x].pc = "IDLE" /\ exec[x].queue = <<>>
                        /\ exec[x].g.mapResult = "NONE"
  BY DEF WorkflowInit, NoExecution, NoState
<1>2. QueuesSound
  BY <1>1 DEF QueuesSound, QueueSound
<1>3. \A ev \in ToolEvent, c \in Call : told[ev][c] = 0
  BY DEF WorkflowInit, ToolEvent
<1>4. \A x \in Caller : \A ev, c : Past(exec[x], ev, c) = 0
  BY <1>1 DEF Past, ToCome
<1>5. EventsBounded
  BY <1>3, <1>4, Callers DEF EventsBounded
<1>6. NoOldMap
  BY <1>1 DEF WorkflowInit, NoOldMap, OldState, NoState
<1>7. RunInv
  <2>1. 0 \in 0 .. MaxStops
    BY WorkflowAssumption DEF WorkflowAssumption
  <2>2. QED  BY <2>1, StatesOfGraph DEF WorkflowInit, RunInv
<1>8. QED  BY <1>2, <1>5, <1>6, <1>7 DEF BoundInv

\* The variables of a turn keep their types, and no event of a tool call is told more than
\* twice, once by each execution: an execution queues it once (_execute_map_tools), and what
\* it closes when it fails (_fail_run) it has dropped from its queue before.
THEOREM TurnTypeCorrect == WorkflowSpec => []TurnTypeOK
<1>1. WorkflowInv /\ BoundInv /\ NoOldMap /\ RunInv => TurnTypeOK
  <2> SUFFICES ASSUME WorkflowInv, BoundInv, NoOldMap, RunInv PROVE TurnTypeOK
    OBVIOUS
  <2>1. \A ev \in ToolEvent, c \in Call : told[ev][c] \in 0 .. 2
    <3> SUFFICES ASSUME NEW ev \in ToolEvent, NEW c \in Call PROVE told[ev][c] \in 0 .. 2
      OBVIOUS
    <3>1. told[ev][c] \in Nat /\ told[ev][c] <= Past(exec[1], ev, c) + Past(exec[2], ev, c)
      BY TellingCounts DEF BoundInv, EventsBounded
    <3>2. Past(exec[1], ev, c) \in {0, 1} /\ Past(exec[2], ev, c) \in {0, 1}
      BY DEF Past
    <3>3. QED  BY <3>1, <3>2
  <2>2. told \in [started : BOOLEAN, route : BOOLEAN, citation : BOOLEAN,
                  map : {"NONE", "EMPTY", "NEW"},
                  toolStarted : [Call -> 0 .. 2], toolCompleted : [Call -> 0 .. 2]]
    <3>1. /\ told["toolStarted"] = told.toolStarted /\ told["toolCompleted"] = told.toolCompleted
          /\ told.toolStarted \in [Call -> Nat] /\ told.toolCompleted \in [Call -> Nat]
      BY DEF WorkflowInv, ToldInv
    <3>2. told.toolStarted \in [Call -> 0 .. 2] /\ told.toolCompleted \in [Call -> 0 .. 2]
      BY <2>1, <3>1 DEF ToolEvent
    <3>3. told.map \in {"NONE", "EMPTY", "NEW"}
      BY DEF WorkflowInv, ToldInv, NoOldMap, Tag
    <3>4. QED  BY <3>2, <3>3 DEF WorkflowInv, ToldInv
  <2>3. exec \in [Caller -> Execution]
    BY DEF WorkflowInv, ExecInv, SoundExecution
  <2>4. QED
    BY <2>2, <2>3 DEF TurnTypeOK, RunInv, WorkflowInv, ThreadInv, ToolInv, MetricsInv
<1>2. WorkflowSpec => [](BoundInv /\ NoOldMap /\ RunInv)
  BY WorkflowInvariant, InitBounded, StepBounded, StepMap, StepRun, PTL DEF WorkflowSpec
<1>3. QED  BY <1>1, <1>2, WorkflowInvariant, PTL
-----------------------------------------------------------------------------
(* Every tool call that was begun is closed *)

Started(c) == told.toolStarted[c] > 0
Completed(c) == told.toolCompleted[c] > 0

NothingStarted == \A c \in Call : ~Started(c)
AllClosed == \A c \in Call : Started(c) => Completed(c)

ToldOnce ==
  ~overlap => \A c \in Call :
    /\ told.toolStarted[c] <= 1 /\ told.toolCompleted[c] <= 1
    /\ Completed(c) => Started(c)

\* The end of a call waits behind its beginning.
InOrder(e) ==
  \A c \in Call, j \in DOMAIN e.queue :
    e.queue[j] = [event |-> "toolCompleted", call |-> c]
      => \/ Started(c)
         \/ \E i \in DOMAIN e.queue : i < j /\ e.queue[i] = [event |-> "toolStarted", call |-> c]

\* Of its calls, execute_map_tools has shown, or is going to, those it is done with.
ToolsShown(e) ==
  /\ \A c \in Call : Started(c) => c <= Len(e.g.plan)
  /\ \A i \in DOMAIN e.queue : e.queue[i].call <= Len(e.g.plan)
  /\ e.pc \in {"NODE", "RECORD", "INVOKE"} => \A c \in Call :
       c <= e.call => Completed(c) \/ Queued(e, "toolCompleted", c)
  /\ e.pc = "INVOKE" => \A c \in Call :
       c = e.call + 1 => /\ c <= Len(e.g.plan)
                         /\ Started(c) \/ Queued(e, "toolStarted", c)
  /\ e.pc = "EMIT" /\ ~replayed => \A c \in Call :
       c <= Len(e.g.plan) => Completed(c) \/ Queued(e, "toolCompleted", c)

BehindTools(e) ==
  \/ AtTools(e) /\ e.pc = "SAVE"
  \/ e.node = "compose_answer" /\ e.pc \in {"NODE", "EMIT", "SAVE"}
  \/ e.pc = "COMPLETE"
  \/ e.pc = "RAISED" /\ e.cause = "ANSWER"

ExecShows(e) ==
  /\ InOrder(e)
  /\ e.pc = "PREPARE" /\ ~e.resume => NothingStarted
  /\ e.pc = "INPUT" \/ BeforeTools(e) => NothingStarted /\ e.call = 0
  /\ AtTools(e) /\ e.pc \in {"NODE", "RECORD", "INVOKE", "EMIT", "SAVE", "RAISED"} => ToolsShown(e)
  /\ BehindTools(e) => AllClosed \/ replayed
  /\ e.pc = "RAISED" /\ e.cause = "ANSWER" => e.node = "compose_answer"
  /\ e.pc = "FAIL" => e.open = PendingToolCalls

ExecutionsShow == ~overlap => \A x \in Caller : ExecShows(exec[x])

\* Nothing is told before run.started.
StartedFirst ==
  /\ ~told.started => NothingStarted
  /\ \A x \in Caller : exec[x].pc \notin {"IDLE", "PREPARE", "ENDED"} => told.started

\* The first execution alone: the thread is at its node, or where it left it.
Alone == ~overlap /\ exec[2].pc \in {"IDLE", "PREPARE"}

ThreadFollows ==
  Alone =>
    LET e == exec[1] IN
    /\ ~replayed
    /\ e.pc \in {"IDLE", "PREPARE", "INPUT"} =>
         checkpoint.state = OldState /\ checkpoint.next = "END" /\ ~checkpoint.saved
    /\ e.pc = "INPUT" => ~AtTools(e)
    /\ InGraph(e) => checkpoint.next = e.node
    /\ e.pc \in {"NODE", "RECORD", "INVOKE"} => ~checkpoint.saved
    /\ e.pc \in {"EMIT", "SAVE"} /\ checkpoint.saved => checkpoint.after \in {e.g, Tracked(e.g)}
    /\ AtTools(e) /\ (InGraph(e) \/ e.pc = "RAISED") =>
         checkpoint.next = e.node /\ checkpoint.state.plan = e.g.plan

\* What a second execution finds there.
ThreadShows ==
  Alone =>
    /\ checkpoint.next \in Before => NothingStarted
    /\ checkpoint.next = "execute_map_tools" =>
         /\ checkpoint.saved => checkpoint.after.plan = checkpoint.state.plan
         /\ \A c \in Call : Started(c) => c <= Len(checkpoint.state.plan)
    /\ checkpoint.next \in {"compose_answer", "END"} => AllClosed

RunShows ==
  ~overlap /\ (run.status = "FAILED" \/ (run.status = "SUCCEEDED" /\ ~replayed)) => AllClosed

ShownInv == ToldOnce /\ ExecutionsShow /\ StartedFirst /\ ThreadFollows /\ ThreadShows /\ RunShows
-----------------------------------------------------------------------------
(* While one execution works, the other is not there yet or over *)

Alonely(x) == \A y \in Caller : y # x => exec[y].pc \in {"IDLE", "ENDED"}

LEMMA AloneAtWork ==
  ASSUME OneAtATime, ~overlap, NEW x \in Caller, exec[x].pc \notin {"IDLE", "ENDED"}
  PROVE  Alonely(x) /\ (x = 1 => exec[2].pc = "IDLE")
BY Callers DEF OneAtATime, Alonely

LEMMA ClaimsAlone ==
  ASSUME WorkflowInv, OneAtATime, NEW x \in Caller, Claim(x), ~overlap'
  PROVE  /\ Alonely(x) /\ ~overlap
         /\ x = 1 => exec[2].pc = "IDLE"
         /\ x = 2 => exec[1].pc = "ENDED"
<1>1. overlap' = (overlap \/ (x = 2 /\ exec[1].pc # "ENDED"))
  BY DEF Claim
<1>2. exec[x].pc = "IDLE" /\ ~overlap
  BY <1>1 DEF Claim
<1>3. x = 2 => exec[1].pc = "ENDED"
  BY <1>1
<1>4. x = 1 => exec[2].pc = "IDLE"
  BY <1>2 DEF OneAtATime
<1>5. QED  BY <1>2, <1>3, <1>4, Callers DEF Alonely

\* An execution that rests shows nothing.
LEMMA RestShows ==
  ASSUME QueuesSound, NEW x \in Caller, exec[x].pc \in {"IDLE", "ENDED"}
  PROVE  ExecShows(exec[x])
<1>1. exec[x].queue = <<>>
  BY QueueEmpty
<1>2. QED  BY <1>1 DEF ExecShows, InOrder, BeforeTools, BehindTools

LEMMA OthersShow ==
  ASSUME QueuesSound', NEW x \in Caller, Alonely(x), ExecShows(exec[x])',
         \A y \in Caller : y # x => exec'[y] = exec[y]
  PROVE  ExecutionsShow'
<1> SUFFICES ASSUME NEW y \in Caller, y # x PROVE ExecShows(exec[y])'
  BY DEF ExecutionsShow
<1>1. exec'[y].pc \in {"IDLE", "ENDED"}
  BY DEF Alonely
<1>2. exec'[y].queue = <<>>
  BY <1>1 DEF QueuesSound, QueueSound
<1>3. QED  BY <1>1, <1>2 DEF ExecShows, InOrder, BeforeTools, BehindTools

LEMMA CountsAreSame ==
  ASSUME CountersSame
  PROVE  /\ \A c : Started(c)' = Started(c) /\ Completed(c)' = Completed(c)
         /\ NothingStarted' = NothingStarted /\ AllClosed' = AllClosed
         /\ PendingToolCalls' = PendingToolCalls
BY DEF CountersSame, Started, Completed, NothingStarted, AllClosed, PendingToolCalls

\* A step that tells no tool event and does not end the run.
LEMMA QuietlyShown ==
  ASSUME QueuesSound', ShownInv, ~overlap, NEW x \in Caller, Alonely(x), CountersSame,
         \A y \in Caller : y # x => exec'[y] = exec[y],
         told.started => told'.started,
         exec'[x].pc \in {"IDLE", "PREPARE", "ENDED"} \/ told'.started,
         run' = run \/ run'.status = "CANCELLED", replayed => replayed',
         ExecShows(exec[x])', ThreadFollows', ThreadShows'
  PROVE  ShownInv'
<1>1. ExecutionsShow'
  BY OthersShow
<1>2. ToldOnce'
  BY CountsAreSame DEF ShownInv, ToldOnce, CountersSame
<1>3. StartedFirst'
  BY CountsAreSame DEF ShownInv, StartedFirst
<1>4. RunShows'
  BY CountsAreSame DEF ShownInv, RunShows
<1>5. QED  BY <1>1, <1>2, <1>3, <1>4 DEF ShownInv

\* The thread where it was, and the first execution still in it, or gone from it.
LEMMA ThreadWaits ==
  ASSUME ThreadFollows, NEW x \in Caller, UNCHANGED <<checkpoint, replayed, overlap>>,
         \A y \in Caller : y # x => exec'[y] = exec[y],
         exec'[x].pc \notin {"IDLE", "PREPARE", "INPUT"},
         InGraph(exec[x])' => InGraph(exec[x]) /\ exec'[x].node = exec[x].node,
         exec'[x].pc \in {"NODE", "RECORD", "INVOKE"} => exec[x].pc \in {"NODE", "RECORD", "INVOKE"},
         exec'[x].pc \in {"EMIT", "SAVE"} =>
           exec[x].pc = "NODE" \/ (exec[x].pc \in {"EMIT", "SAVE"} /\ exec'[x].g = exec[x].g),
         AtTools(exec[x])' /\ (InGraph(exec[x])' \/ exec'[x].pc = "RAISED") =>
           /\ AtTools(exec[x]) /\ exec'[x].g.plan = exec[x].g.plan
           /\ InGraph(exec[x]) \/ exec[x].pc \in {"RAISED", "INPUT"}
  PROVE  ThreadFollows' /\ (Alone' => Alone /\ x = 1)
<1>1. Alone' => Alone /\ x = 1
  BY Callers DEF Alone
<1>2. SUFFICES ASSUME Alone' PROVE ThreadFollows'
  BY <1>1 DEF ThreadFollows
<1>3. x = 1 /\ Alone
  BY <1>1, <1>2
<1>4. /\ ~replayed
      /\ exec[1].pc = "INPUT" => ~AtTools(exec[1])
      /\ InGraph(exec[1]) => checkpoint.next = exec[1].node
      /\ exec[1].pc \in {"NODE", "RECORD", "INVOKE"} => ~checkpoint.saved
      /\ exec[1].pc \in {"EMIT", "SAVE"} /\ checkpoint.saved =>
           checkpoint.after \in {exec[1].g, Tracked(exec[1].g)}
      /\ AtTools(exec[1]) /\ (InGraph(exec[1]) \/ exec[1].pc = "RAISED") =>
           checkpoint.next = exec[1].node /\ checkpoint.state.plan = exec[1].g.plan
  BY <1>3 DEF ThreadFollows
<1>5. \A g : Tracked(g)' = Tracked(g)
  BY DEF Tracked
<1>6. /\ ~replayed' /\ exec'[1].pc \notin {"IDLE", "PREPARE", "INPUT"}
      /\ InGraph(exec[1])' => checkpoint'.next = exec'[1].node
      /\ exec'[1].pc \in {"NODE", "RECORD", "INVOKE"} => ~checkpoint'.saved
  BY <1>3, <1>4
<1>7. exec'[1].pc \in {"EMIT", "SAVE"} /\ checkpoint'.saved =>
           checkpoint'.after \in {exec'[1].g, Tracked(exec'[1].g)}
  BY <1>3, <1>4
<1>8. AtTools(exec[1])' /\ (InGraph(exec[1])' \/ exec'[1].pc = "RAISED") =>
           checkpoint'.next = exec'[1].node /\ checkpoint'.state.plan = exec'[1].g.plan
  BY <1>3, <1>4 DEF AtTools
<1>9. QED  BY <1>6, <1>7, <1>8 DEF ThreadFollows

LEMMA ThreadStillShows ==
  ASSUME ThreadShows, CountersSame, UNCHANGED checkpoint, Alone' => Alone
  PROVE  ThreadShows'
BY CountsAreSame DEF ThreadShows

LEMMA WhatShows ==
  ASSUME ShownInv, OneAtATime, ~overlap, NEW x \in Caller, exec[x].pc \notin {"IDLE", "ENDED"}
  PROVE  /\ Alonely(x) /\ ExecShows(exec[x])
         /\ (exec[x].pc # "PREPARE" => told.started)
         /\ (x = 1 => Alone)
BY AloneAtWork DEF ShownInv, ExecutionsShow, StartedFirst, Alone

LEMMA ClaimShown ==
  ASSUME WorkflowInv, QueuesSound', OneAtATime, ShownInv, ~overlap', NEW x \in Caller, Claim(x)
  PROVE  ShownInv'
<1>1. /\ Moves(x, "PREPARE", "END", NoState, 0, <<>>, "NONE", {})
      /\ exec'[x].resume = told.started /\ exec[x].pc = "IDLE"
      /\ UNCHANGED <<run, told, checkpoint, replayed>>
  BY ClaimShape DEF runVars
<1>2. Alonely(x) /\ ~overlap /\ (x = 1 => exec[2].pc = "IDLE") /\ (x = 2 => exec[1].pc = "ENDED")
  BY ClaimsAlone
<1>3. CountersSame
  BY <1>1, SameCounters
<1>4. exec'[x].pc = "PREPARE" /\ exec'[x].queue = <<>> /\ \A y \in Caller : y # x => exec'[y] = exec[y]
  BY <1>1 DEF Moves
<1>5. ExecShows(exec[x])'
  <2>1. ~exec'[x].resume => NothingStarted'
    BY <1>1, <1>3, CountsAreSame DEF ShownInv, StartedFirst
  <2>2. QED  BY <1>4, <2>1 DEF ExecShows, InOrder, BeforeTools, BehindTools
<1>6. Alone
  BY <1>1, <1>2, Callers DEF Alone
<1>7. ThreadShows'
  BY <1>1, <1>3, <1>6, ThreadStillShows DEF ShownInv
<1>8. ThreadFollows'
  <2>1. CASE x = 1
    <3>1. ~replayed /\ checkpoint.state = OldState /\ checkpoint.next = "END" /\ ~checkpoint.saved
      BY <1>1, <1>6, <2>1 DEF ShownInv, ThreadFollows
    <3>2. QED  BY <1>1, <1>4, <2>1, <3>1 DEF ThreadFollows, InGraph
  <2>2. CASE x = 2
    <3>1. ~replayed
      BY <1>6 DEF ShownInv, ThreadFollows
    <3>2. exec'[1].pc = "ENDED"
      BY <1>2, <1>4, <2>2, Callers
    <3>3. QED  BY <1>1, <3>1, <3>2 DEF ThreadFollows, InGraph
  <2>3. QED  BY <2>1, <2>2, Callers
<1>9. QED  BY <1>1, <1>2, <1>3, <1>4, <1>5, <1>7, <1>8, QuietlyShown

LEMMA LastIsSecond == Last(2) /\ ~Last(1)
<1>1. Cardinality({1, 2}) = 2
  <2>1. IsFiniteSet({1}) /\ Cardinality({1}) = 1
    BY FS_Singleton
  <2>2. {1} \union {2} = {1, 2}
    OBVIOUS
  <2>3. QED  BY <2>1, <2>2, FS_AddElement
<1>2. QED  BY <1>1, Callers DEF Last

\* What the thread shows is what the second execution begins with.
LEMMA SecondBegins ==
  ASSUME WorkflowInv, QueuesSound', OneAtATime, ShownInv, ~overlap', Prepare(2)
  PROVE  ShownInv'
<1>1. 2 \in Caller
  BY Callers
<1>2. /\ exec[2].pc = "PREPARE" /\ ~overlap /\ run' = run /\ CountersSame /\ told'.started
      /\ replayed' = (replayed \/ (exec[2].resume /\ checkpoint.saved
                                   /\ checkpoint.next = "execute_map_tools"))
  BY <1>1, PrepareShape
<1>3. Alonely(2) /\ ExecShows(exec[2])
  BY <1>1, <1>2, WhatShows
<1>4. /\ checkpoint.next \in Before => NothingStarted
      /\ checkpoint.next = "execute_map_tools" =>
           /\ checkpoint.saved => checkpoint.after.plan = checkpoint.state.plan
           /\ \A c \in Call : Started(c) => c <= Len(checkpoint.state.plan)
      /\ checkpoint.next \in {"compose_answer", "END"} => AllClosed
  BY <1>2 DEF ShownInv, ThreadShows, Alone
<1>5. PICK pc, node, g :
        /\ pc \in {"INPUT", "COMPLETE", "EMIT", "NODE"}
        /\ Moves(2, pc, node, g, 0, <<>>, "NONE", {})
        /\ pc = "INPUT" => ~exec[2].resume
        /\ pc = "COMPLETE" => checkpoint.next = "END"
        /\ pc \in {"EMIT", "NODE"} => node = checkpoint.next
        /\ pc = "EMIT" => /\ checkpoint.saved /\ exec[2].resume
                          /\ g = checkpoint.after
        /\ pc = "NODE" => g = checkpoint.state
  <2>1. CASE ~exec[2].resume
    BY <1>1, <2>1, PrepareShape
  <2>2. CASE exec[2].resume /\ checkpoint.next = "END"
    BY <1>1, <2>2, PrepareShape
  <2>3. CASE exec[2].resume /\ checkpoint.next # "END"
    BY <1>1, <2>3, PrepareShape
  <2>4. QED  BY <2>1, <2>2, <2>3
<1>6. /\ exec'[2].pc = pc /\ exec'[2].node = node /\ exec'[2].g = g /\ exec'[2].call = 0
      /\ exec'[2].queue = <<>> /\ exec'[2].cause = "NONE"
      /\ \A y \in Caller : y # 2 => exec'[y] = exec[y]
  BY <1>5 DEF Moves
<1>7. ThreadFollows' /\ ThreadShows'
  BY <1>5, <1>6 DEF ThreadFollows, ThreadShows, Alone
<1>8. ExecShows(exec[2])'
  <2>1. pc = "INPUT" \/ (pc \in {"NODE", "EMIT"} /\ node \in Before) => NothingStarted'
    BY <1>2, <1>3, <1>4, <1>5, CountsAreSame DEF ExecShows
  <2>2. pc = "COMPLETE" \/ (pc \in {"NODE", "EMIT"} /\ node = "compose_answer") => AllClosed'
    BY <1>2, <1>4, <1>5, CountsAreSame
  <2>3. pc \in {"NODE", "EMIT"} /\ node = "execute_map_tools" => ToolsShown(exec[2])'
    <3> SUFFICES ASSUME pc \in {"NODE", "EMIT"}, node = "execute_map_tools"
                 PROVE  ToolsShown(exec[2])'
      OBVIOUS
    <3>1. \A c \in Call : Started(c)' => c <= Len(g.plan)
      BY <1>2, <1>4, <1>5, CountsAreSame
    <3>2. \A c \in Call : ~(c <= 0)
      BY CallNumber
    <3>3. pc = "EMIT" => replayed'
      BY <1>2, <1>5
    <3>4. QED  BY <1>6, <3>1, <3>2, <3>3 DEF ToolsShown
  <2>4. QED  BY <1>5, <1>6, <2>1, <2>2, <2>3 DEF ExecShows, InOrder, BeforeTools, BehindTools, AtTools
<1>9. QED  BY <1>1, <1>2, <1>3, <1>5, <1>6, <1>7, <1>8, QuietlyShown

LEMMA FirstBegins ==
  ASSUME WorkflowInv, QueuesSound', OneAtATime, ShownInv, ~overlap', Prepare(1)
  PROVE  ShownInv'
<1>1. 1 \in Caller
  BY Callers
<1>2. /\ exec[1].pc = "PREPARE" /\ ~overlap /\ run' = run /\ CountersSame /\ told'.started
      /\ replayed' = (replayed \/ (exec[1].resume /\ checkpoint.saved
                                   /\ checkpoint.next = "execute_map_tools"))
      /\ checkpoint' = checkpoint
  BY <1>1, PrepareShape, LastIsSecond
<1>3. Alonely(1) /\ ExecShows(exec[1]) /\ Alone
  BY <1>1, <1>2, WhatShows
<1>4. /\ ~replayed /\ checkpoint.state = OldState /\ checkpoint.next = "END" /\ ~checkpoint.saved
      /\ AllClosed
  BY <1>2, <1>3 DEF ShownInv, ThreadFollows, ThreadShows
<1>5. PICK pc, g :
        /\ pc \in {"INPUT", "COMPLETE"}
        /\ Moves(1, pc, "END", g, 0, <<>>, "NONE", {})
        /\ pc = "INPUT" => ~exec[1].resume
  BY <1>1, <1>4, PrepareShape
<1>6. /\ exec'[1].pc = pc /\ exec'[1].node = "END" /\ exec'[1].g = g /\ exec'[1].call = 0
      /\ exec'[1].queue = <<>> /\ exec'[1].cause = "NONE"
      /\ \A y \in Caller : y # 1 => exec'[y] = exec[y]
  BY <1>5 DEF Moves
<1>7. ThreadShows'
  BY <1>2, <1>3, ThreadStillShows DEF ShownInv
<1>8. ThreadFollows'
  BY <1>2, <1>4, <1>5, <1>6 DEF ThreadFollows, InGraph, AtTools
<1>9. ExecShows(exec[1])'
  <2>1. (pc = "INPUT" => NothingStarted') /\ AllClosed'
    BY <1>2, <1>3, <1>4, <1>5, CountsAreSame DEF ExecShows
  <2>2. QED  BY <1>5, <1>6, <2>1 DEF ExecShows, InOrder, BeforeTools, BehindTools, AtTools
<1>10. QED  BY <1>1, <1>2, <1>3, <1>5, <1>6, <1>7, <1>8, <1>9, QuietlyShown

LEMMA SaveInputShown ==
  ASSUME WorkflowInv, QueuesSound, QueuesSound', OneAtATime, ShownInv, ~overlap',
         NEW x \in Caller, SaveInput(x)
  PROVE  ShownInv'
<1>1. /\ Moves(x, "NODE", "route_intent", exec[x].g, exec[x].call, exec[x].queue,
                  exec[x].cause, exec[x].open)
      /\ exec[x].pc = "INPUT" /\ SaveThread(exec[x].g, "route_intent")
      /\ UNCHANGED <<run, told, replayed, overlap>>
  BY SaveInputShape DEF historyVars
<1>2. Alonely(x) /\ ExecShows(exec[x]) /\ (x = 1 => Alone) /\ told.started
  BY <1>1, WhatShows
<1>3. CountersSame
  BY <1>1, SameCounters
<1>4. /\ exec'[x].pc = "NODE" /\ exec'[x].node = "route_intent" /\ exec'[x].call = exec[x].call
      /\ exec'[x].queue = <<>> /\ \A y \in Caller : y # x => exec'[y] = exec[y]
  BY <1>1, QueueEmpty DEF Moves
<1>5. NothingStarted' /\ exec[x].call = 0
  BY <1>1, <1>2, <1>3, CountsAreSame DEF ExecShows
<1>6. ExecShows(exec[x])'
  BY <1>4, <1>5 DEF ExecShows, InOrder, BeforeTools, BehindTools, AtTools, Before
<1>7. ThreadFollows' /\ ThreadShows'
  <2>1. CASE x = 1
    <3>1. ~replayed /\ checkpoint.state = OldState
      BY <1>1, <1>2, <2>1 DEF ShownInv, ThreadFollows
    <3>2. checkpoint # Forgotten
      BY <3>1, ForgottenMap DEF OldState, NoState
    <3>3. checkpoint'.next = "route_intent" /\ ~checkpoint'.saved
      BY <1>1, <3>2, ThreadAfter
    <3>4. QED  BY <1>1, <1>4, <1>5, <2>1, <3>1, <3>3 DEF ThreadFollows, ThreadShows, AtTools, Before
  <2>2. CASE x = 2
    BY <1>4, <2>2 DEF ThreadFollows, ThreadShows, Alone
  <2>3. QED  BY <2>1, <2>2, Callers
<1>8. QED  BY <1>1, <1>2, <1>3, <1>4, <1>6, <1>7, QuietlyShown

\* x goes on with the queue it has: order and what the queue still tells stay.
LEMMA InOrderStays ==
  ASSUME NEW x \in Caller, CountersSame,
         exec'[x].queue = exec[x].queue \/ exec'[x].queue = <<>>, InOrder(exec[x])
  PROVE  InOrder(exec[x])'
<1>1. \A c : Started(c)' = Started(c)
  BY CountsAreSame
<1>2. CASE exec'[x].queue = exec[x].queue
  BY ZenonT(40), <1>1, <1>2 DEF InOrder
<1>3. CASE exec'[x].queue = <<>>
  BY <1>3 DEF InOrder
<1>4. QED  BY <1>2, <1>3

LEMMA NodesShown ==
  ASSUME WorkflowInv, QueuesSound', OneAtATime, ShownInv, ~overlap', NEW x \in Caller,
         \/ RouteIntent(x) \/ RetrieveKnowledge(x) \/ LoadCatalog(x)
         \/ PlanHousingSearch(x) \/ PlanMap(x) \/ BuildMapResult(x) \/ ComposeAnswer(x)
  PROVE  ShownInv'
<1>1. /\ exec[x].pc = "NODE" /\ UNCHANGED <<run, told, checkpoint, overlap, replayed>>
      /\ AtTools(exec[x]) => exec[x].call + 1 > Len(exec[x].g.plan)
  BY NodeShape DEF NodeFrame, runVars, historyVars
<1>2. PICK h : Returns(x, h) /\ Makes(exec[x].node, exec[x].g, h)
  BY NodeShape
<1>3. Alonely(x) /\ ExecShows(exec[x]) /\ (x = 1 => Alone) /\ told.started
  BY <1>1, WhatShows
<1>4. CountersSame
  BY <1>1, SameCounters
<1>5. /\ exec'[x].pc = "EMIT" /\ exec'[x].node = exec[x].node /\ exec'[x].call = exec[x].call
      /\ exec'[x].queue = exec[x].queue /\ exec'[x].g = h
      /\ \A y \in Caller : y # x => exec'[y] = exec[y]
  BY <1>2 DEF Returns, Moves
<1>6. AtTools(exec[x]) => h.plan = exec[x].g.plan
  BY <1>2 DEF Makes, AtTools
<1>7. ThreadFollows' /\ (Alone' => Alone)
  BY <1>1, <1>5, <1>6, ThreadWaits DEF ShownInv, InGraph, AtTools
<1>8. ThreadShows'
  BY <1>1, <1>4, <1>7, ThreadStillShows DEF ShownInv
<1>9. AtTools(exec[x]) => ToolsShown(exec[x])'
  <2> SUFFICES ASSUME AtTools(exec[x]) PROVE ToolsShown(exec[x])'
    OBVIOUS
  <2>1. ToolsShown(exec[x])
    BY <1>1, <1>3 DEF ExecShows
  <2>2. ASSUME NEW c \in Call, c <= Len(exec[x].g.plan)
        PROVE  c <= exec[x].call
    <3>1. c \in Nat /\ exec[x].call \in Nat
      BY CallNumber, TypeOfExecution
    <3>2. PICK n \in {0} \union Call : exec[x].g.plan \in [1 .. n -> Arguments]
      BY TypeOfExecution DEF GraphState
    <3>3. n \in Nat
      BY CallNumber
    <3>4. Len(exec[x].g.plan) \in Nat
      BY <3>2, <3>3
    <3>5. QED  BY <1>1, <2>2, <3>1, <3>4
  <2>3. \A c \in Call : c <= exec[x].call => Completed(c) \/ Queued(exec[x], "toolCompleted", c)
    BY <1>1, <2>1 DEF ToolsShown
  <2>4. \A c \in Call : c <= Len(h.plan) => Completed(c)' \/ Queued(exec[x], "toolCompleted", c)'
    BY <1>4, <1>5, <1>6, <2>2, <2>3, CountsAreSame DEF Queued
  <2>5. /\ \A c \in Call : Started(c)' => c <= Len(h.plan)
        /\ \A i \in DOMAIN exec'[x].queue : exec'[x].queue[i].call <= Len(h.plan)
    BY <1>4, <1>5, <1>6, <2>1, CountsAreSame DEF ToolsShown
  <2>6. QED  BY <1>5, <2>4, <2>5 DEF ToolsShown
<1>10. ExecShows(exec[x])'
  <2>1. InOrder(exec[x])'
    BY <1>3, <1>4, <1>5, InOrderStays DEF ExecShows
  <2>2. exec[x].node \in Before => NothingStarted' /\ exec[x].call = 0
    BY <1>1, <1>3, <1>4, CountsAreSame DEF ExecShows, BeforeTools
  <2>3. exec[x].node = "compose_answer" => (AllClosed \/ replayed)'
    BY <1>1, <1>3, <1>4, CountsAreSame DEF ExecShows, BehindTools
  <2>4. QED  BY <1>5, <1>9, <2>1, <2>2, <2>3 DEF ExecShows, BeforeTools, BehindTools, AtTools
<1>11. QED  BY <1>1, <1>3, <1>4, <1>5, <1>7, <1>8, <1>10, QuietlyShown

\* A node raises, or the time of the run is over.
LEMMA RaisesShown ==
  ASSUME WorkflowInv, QueuesSound, QueuesSound', OneAtATime, ShownInv, ~overlap',
         NEW x \in Caller, NodeRaises(x) \/ RunTimeout(x)
  PROVE  ShownInv'
<1>1. PICK queue, cause :
        /\ Moves(x, "RAISED", exec[x].node, exec[x].g, exec[x].call, queue, cause, exec[x].open)
        /\ queue \in {exec[x].queue, <<>>}
        /\ cause = "ANSWER" => exec[x].node = "compose_answer" /\ exec[x].pc = "NODE"
  BY RaiseShape, TimeoutShape
<1>2. /\ exec[x].pc \in {"INPUT", "NODE", "RECORD", "INVOKE", "SAVE"}
      /\ UNCHANGED <<run, told, checkpoint, overlap, replayed>>
  BY RaiseShape, TimeoutShape DEF NodeFrame, runVars, historyVars
<1>3. Alonely(x) /\ ExecShows(exec[x]) /\ (x = 1 => Alone) /\ told.started
  BY <1>2, WhatShows
<1>4. CountersSame
  BY <1>2, SameCounters
<1>5. /\ exec'[x].pc = "RAISED" /\ exec'[x].node = exec[x].node /\ exec'[x].call = exec[x].call
      /\ exec'[x].queue = queue /\ exec'[x].g = exec[x].g /\ exec'[x].cause = cause
      /\ \A y \in Caller : y # x => exec'[y] = exec[y]
  BY <1>1 DEF Moves
<1>6. ThreadFollows' /\ (Alone' => Alone)
  BY <1>2, <1>5, ThreadWaits DEF ShownInv, InGraph, AtTools
<1>7. ThreadShows'
  BY <1>2, <1>4, <1>6, ThreadStillShows DEF ShownInv
<1>8. ExecShows(exec[x])'
  <2>1. InOrder(exec[x])'
    BY <1>1, <1>3, <1>4, <1>5, InOrderStays DEF ExecShows
  <2>2. AtTools(exec[x]) => ToolsShown(exec[x])'
    <3>1. CASE exec[x].pc = "INPUT"
      <4>1. NothingStarted' /\ exec[x].queue = <<>>
        BY <1>3, <1>4, <3>1, CountsAreSame, QueueEmpty DEF ExecShows
      <4>2. QED  BY <1>1, <1>5, <4>1 DEF ToolsShown, NothingStarted
    <3>2. CASE AtTools(exec[x]) /\ exec[x].pc # "INPUT"
      <4>1. ToolsShown(exec[x])
        BY <1>2, <1>3, <3>2 DEF ExecShows
      <4>2. QED  BY <1>1, <1>4, <1>5, <4>1, CountsAreSame DEF ToolsShown
    <3>3. QED  BY <3>1, <3>2
  <2>3. cause = "ANSWER" => (AllClosed \/ replayed)'
    BY <1>1, <1>2, <1>3, <1>4, CountsAreSame DEF ExecShows, BehindTools
  <2>4. QED  BY <1>1, <1>5, <2>1, <2>2, <2>3 DEF ExecShows, BeforeTools, BehindTools, AtTools
<1>9. QED  BY <1>2, <1>3, <1>4, <1>5, <1>6, <1>7, <1>8, QuietlyShown

\* The end of an execution.
LEMMA LeavesShown ==
  ASSUME WorkflowInv, QueuesSound', OneAtATime, ShownInv, ~overlap', NEW x \in Caller,
         Complete(x) \/ FailRun(x) \/ Cancel(x) \/ TooLate(x) \/ Stop(x)
  PROVE  ShownInv'
<1>1. /\ Moves(x, "ENDED", "END", NoState, 0, <<>>, "NONE", {})
      /\ exec[x].pc \notin {"IDLE", "ENDED"}
      /\ UNCHANGED <<told, checkpoint, overlap, replayed>>
  BY LeaveShape
<1>2. Alonely(x) /\ ExecShows(exec[x]) /\ (x = 1 => Alone)
  BY <1>1, WhatShows
<1>3. CountersSame
  BY <1>1, SameCounters
<1>4. /\ exec'[x].pc = "ENDED" /\ exec'[x].queue = <<>>
      /\ \A y \in Caller : y # x => exec'[y] = exec[y]
  BY <1>1 DEF Moves
<1>5. ThreadFollows' /\ (Alone' => Alone)
  BY <1>1, <1>4, ThreadWaits DEF ShownInv, InGraph
<1>6. ThreadShows'
  BY <1>1, <1>3, <1>5, ThreadStillShows DEF ShownInv
<1>7. ExecShows(exec[x])'
  BY <1>4 DEF ExecShows, InOrder, BeforeTools, BehindTools
<1>8. ExecutionsShow'
  BY <1>2, <1>4, <1>7, OthersShow
<1>9. ToldOnce' /\ StartedFirst'
  BY <1>1, <1>3, <1>4, CountsAreSame DEF ShownInv, ToldOnce, StartedFirst, CountersSame
<1>10. RunShows'
  <2>1. CASE Complete(x)
    <3>1. AllClosed \/ replayed
      BY <1>2, <2>1 DEF Complete, ExecShows, BehindTools
    <3>2. run'.status # "FAILED"
      <4>1. run' = [run EXCEPT !.status = "SUCCEEDED"]
        BY <2>1 DEF Complete
      <4>2. CASE run'.status = "FAILED"
        <5>1. run' = run
          BY <4>1, <4>2
        <5>2. QED  BY <2>1, <4>2, <5>1 DEF Complete, Running
      <4>3. QED  BY <4>2
    <3>3. QED  BY <1>1, <1>3, <3>1, <3>2, CountsAreSame DEF RunShows
  <2>2. CASE FailRun(x)
    <3>1. PendingToolCalls = {}
      BY <1>2, <2>2 DEF FailRun, ExecShows
    <3>2. AllClosed
      <4> SUFFICES ASSUME NEW c \in Call, Started(c) PROVE Completed(c)
        BY DEF AllClosed
      <4>1. c \notin PendingToolCalls
        BY <3>1
      <4>2. told.toolCompleted[c] \in Nat /\ told.toolCompleted[c] # 0
        BY <4>1 DEF PendingToolCalls, Started, WorkflowInv, ToldInv
      <4>3. QED  BY <4>2 DEF Completed
    <3>3. QED  BY <1>3, <3>2, CountsAreSame DEF RunShows
  <2>3. CASE Cancel(x)
    <3>1. run' = [run EXCEPT !.status = "CANCELLED"] /\ run.status = "RUNNING"
      BY <2>3 DEF Cancel, Running
    <3>2. run'.status \notin {"FAILED", "SUCCEEDED"}
      BY <3>1
    <3>3. QED  BY <3>2 DEF RunShows
  <2>4. CASE TooLate(x) \/ Stop(x)
    BY <1>1, <1>3, <2>4, CountsAreSame DEF ShownInv, RunShows, TooLate, Stop, runVars
  <2>5. QED  BY <2>1, <2>2, <2>3, <2>4
<1>11. QED  BY <1>5, <1>6, <1>8, <1>9, <1>10 DEF ShownInv

\* The answer falls back on the evidence, or the run begins to fail.
LEMMA EndsShown ==
  ASSUME WorkflowInv, QueuesSound', OneAtATime, ShownInv, ~overlap', NEW x \in Caller,
         Fallback(x) \/ FailBegin(x)
  PROVE  ShownInv'
<1>1. exec[x].pc = "RAISED" /\ UNCHANGED <<run, told, checkpoint, overlap, replayed>>
  BY FallbackShape, FailBeginShape DEF NodeFrame, runVars, historyVars
<1>2. Alonely(x) /\ ExecShows(exec[x]) /\ (x = 1 => Alone) /\ told.started
  BY <1>1, WhatShows
<1>3. CountersSame
  BY <1>1, SameCounters
<1>4. /\ exec'[x].queue = <<>> /\ exec'[x].pc \in {"COMPLETE", "FAIL"}
      /\ exec'[x].pc = "COMPLETE" => exec[x].cause = "ANSWER"
      /\ exec'[x].pc = "FAIL" => exec'[x].open = PendingToolCalls
      /\ \A y \in Caller : y # x => exec'[y] = exec[y]
  BY FallbackShape, FailBeginShape DEF Moves
<1>5. ThreadFollows' /\ (Alone' => Alone)
  BY <1>1, <1>4, ThreadWaits DEF ShownInv, InGraph
<1>6. ThreadShows'
  BY <1>1, <1>3, <1>5, ThreadStillShows DEF ShownInv
<1>7. ExecShows(exec[x])'
  <2>1. exec'[x].pc = "COMPLETE" => (AllClosed \/ replayed)'
    BY <1>1, <1>2, <1>3, <1>4, CountsAreSame DEF ExecShows, BehindTools
  <2>2. exec'[x].pc = "FAIL" => exec'[x].open = PendingToolCalls'
    BY <1>3, <1>4, CountsAreSame
  <2>3. QED  BY <1>4, <2>1, <2>2 DEF ExecShows, InOrder, BeforeTools, BehindTools
<1>8. QED  BY <1>1, <1>2, <1>3, <1>4, <1>5, <1>6, <1>7, QuietlyShown
-----------------------------------------------------------------------------
(* Tool calls, shown *)

LEMMA CheckToolShown ==
  ASSUME WorkflowInv, QueuesSound, QueuesSound', OneAtATime, ShownInv, ~overlap',
         NEW x \in Caller, CheckTool(x)
  PROVE  ShownInv'
<1>1. /\ MovesTo(x, "RECORD") /\ AtTools(exec[x]) /\ exec[x].pc = "NODE"
      /\ UNCHANGED <<run, told, checkpoint, overlap, replayed>>
  BY CheckToolShape
<1>2. Alonely(x) /\ ExecShows(exec[x]) /\ (x = 1 => Alone) /\ told.started
  BY <1>1, WhatShows
<1>3. CountersSame
  BY <1>1, SameCounters
<1>4. /\ exec'[x].pc = "RECORD" /\ exec'[x].node = exec[x].node /\ exec'[x].call = exec[x].call
      /\ exec'[x].queue = exec[x].queue /\ exec'[x].g = exec[x].g
      /\ \A y \in Caller : y # x => exec'[y] = exec[y]
  BY <1>1 DEF MovesTo, Moves
<1>5. ThreadFollows' /\ (Alone' => Alone)
  BY <1>1, <1>4, ThreadWaits DEF ShownInv, InGraph
<1>6. ThreadShows'
  BY <1>1, <1>3, <1>5, ThreadStillShows DEF ShownInv
<1>7. InOrder(exec[x])'
  BY <1>2, <1>3, <1>4, InOrderStays DEF ExecShows
<1>8. ToolsShown(exec[x])'
  <2>1. ToolsShown(exec[x])
    BY <1>1, <1>2 DEF ExecShows
  <2>2. QED  BY <1>1, <1>3, <1>4, <2>1, CountsAreSame DEF ToolsShown, Queued
<1>9. ExecShows(exec[x])'
  BY <1>1, <1>4, <1>7, <1>8 DEF ExecShows, BeforeTools, BehindTools
<1>10. QED  BY <1>1, <1>2, <1>3, <1>4, <1>5, <1>6, <1>9, QuietlyShown

LEMMA StartToolShown ==
  ASSUME WorkflowInv, QueuesSound, QueuesSound', OneAtATime, ShownInv, ~overlap',
         NEW x \in Caller, StartTool(x)
  PROVE  ShownInv'
<1>1. PICK c \in Call :
        /\ c = exec[x].call + 1 /\ c <= Len(exec[x].g.plan)
        /\ Moves(x, "INVOKE", exec[x].node, exec[x].g, exec[x].call,
                 Append(exec[x].queue, [event |-> "toolStarted", call |-> c]),
                 exec[x].cause, exec[x].open)
        /\ AtTools(exec[x]) /\ exec[x].pc = "RECORD"
        /\ UNCHANGED <<run, told, checkpoint, overlap, replayed>>
  BY StartToolShape DEF historyVars
<1>2. Alonely(x) /\ ExecShows(exec[x]) /\ (x = 1 => Alone) /\ told.started
  BY <1>1, WhatShows
<1>3. CountersSame
  BY <1>1, SameCounters
<1> DEFINE q == exec[x].queue
           n == [event |-> "toolStarted", call |-> c]
           p == Append(q, n)
           k == Len(q) + 1
<1>4. q \in Seq([event : ToolEvent, call : Call])
  BY TypeOfExecution
<1>5. /\ \A i \in DOMAIN p : (i \in DOMAIN q /\ p[i] = q[i]) \/ (i = k /\ p[i] = n)
      /\ \A i \in DOMAIN q : i \in DOMAIN p /\ p[i] = q[i]
      /\ k \in DOMAIN p /\ p[k] = n
  <2> HIDE DEF q, n
  <2>1. QED  BY <1>4, AppendOf
<1>6. n.call = c /\ n.event = "toolStarted"
  OBVIOUS
<1>7. /\ exec'[x].pc = "INVOKE" /\ exec'[x].node = exec[x].node /\ exec'[x].call = exec[x].call
      /\ exec'[x].queue = p /\ exec'[x].g = exec[x].g
      /\ \A y \in Caller : y # x => exec'[y] = exec[y]
  BY <1>1 DEF Moves
<1>8. n = [event |-> "toolStarted", call |-> c]
  OBVIOUS
<1> HIDE DEF n, p, k
<1>9. ThreadFollows' /\ (Alone' => Alone)
  BY <1>1, <1>7, ThreadWaits DEF ShownInv, InGraph
<1>10. ThreadShows'
  BY <1>1, <1>3, <1>9, ThreadStillShows DEF ShownInv
<1>11. ToolsShown(exec[x]) /\ InOrder(exec[x])
  BY <1>1, <1>2 DEF ExecShows
<1> HIDE DEF q
<1>12. InOrder(exec[x])'
  <2> SUFFICES ASSUME NEW d \in Call, NEW j \in DOMAIN p,
                      p[j] = [event |-> "toolCompleted", call |-> d]
               PROVE  Started(d) \/ \E i \in DOMAIN p : i < j
                                      /\ p[i] = [event |-> "toolStarted", call |-> d]
    BY <1>3, <1>7, CountsAreSame DEF InOrder
  <2>1. p[j] # n
    BY <1>6
  <2>2. j \in DOMAIN q /\ q[j] = p[j]
    BY <1>5, <2>1
  <2>3. Started(d) \/ \E i \in DOMAIN q : i < j /\ q[i] = [event |-> "toolStarted", call |-> d]
    BY <1>11, <2>2 DEF InOrder, q
  <2>4. QED  BY <1>5, <2>3
<1>13. ToolsShown(exec[x])'
  <2>1. \A i \in DOMAIN p : p[i].call <= Len(exec[x].g.plan)
    BY <1>1, <1>5, <1>6, <1>11 DEF ToolsShown, q
  <2>2. \A d \in Call : d <= exec[x].call =>
          Completed(d) \/ \E i \in DOMAIN p : p[i] = [event |-> "toolCompleted", call |-> d]
    BY <1>1, <1>5, <1>11 DEF ToolsShown, Queued, q
  <2>3. \E i \in DOMAIN p : p[i] = [event |-> "toolStarted", call |-> c]
    BY <1>5, <1>8
  <2>4. \A d \in Call : Started(d)' => d <= Len(exec[x].g.plan)
    BY <1>3, <1>11, CountsAreSame DEF ToolsShown
  <2>5. \A d \in Call : d <= exec[x].call => (Completed(d) \/ Queued(exec[x], "toolCompleted", d))'
    BY <1>3, <1>7, <2>2, CountsAreSame DEF Queued
  <2>6. \A d \in Call : d = exec[x].call + 1 =>
          d <= Len(exec[x].g.plan) /\ Queued(exec[x], "toolStarted", d)'
    BY <1>1, <1>7, <2>3 DEF Queued
  <2>7. QED  BY <1>7, <2>1, <2>4, <2>5, <2>6 DEF ToolsShown
<1>14. ExecShows(exec[x])'
  BY <1>1, <1>7, <1>12, <1>13 DEF ExecShows, BeforeTools, BehindTools
<1>15. QED  BY <1>1, <1>2, <1>3, <1>7, <1>9, <1>10, <1>14, QuietlyShown

LEMMA FinishToolShown ==
  ASSUME WorkflowInv, QueuesSound, QueuesSound', OneAtATime, ShownInv, ~overlap',
         NEW x \in Caller, FinishTool(x)
  PROVE  ShownInv'
<1>1. PICK c \in Call :
        /\ c = exec[x].call + 1
        /\ Moves(x, "NODE", exec[x].node, exec[x].g, c,
                 Append(exec[x].queue, [event |-> "toolCompleted", call |-> c]),
                 exec[x].cause, exec[x].open)
        /\ exec[x].pc = "INVOKE"
        /\ UNCHANGED <<run, told, checkpoint, overlap, replayed>>
  BY FinishToolShape DEF historyVars, runVars
<1>2. Alonely(x) /\ ExecShows(exec[x]) /\ (x = 1 => Alone) /\ told.started
  BY <1>1, WhatShows
<1>3. CountersSame /\ AtTools(exec[x])
  BY <1>1, SameCounters DEF QueuesSound, QueueSound
<1> DEFINE q == exec[x].queue
           n == [event |-> "toolCompleted", call |-> c]
           p == Append(q, n)
           k == Len(q) + 1
<1>4. q \in Seq([event : ToolEvent, call : Call])
  BY TypeOfExecution
<1>5. /\ \A i \in DOMAIN p : (i \in DOMAIN q /\ p[i] = q[i]) \/ (i = k /\ p[i] = n)
      /\ \A i \in DOMAIN q : i \in DOMAIN p /\ p[i] = q[i] /\ i < k
      /\ k \in DOMAIN p /\ p[k] = n
  <2> HIDE DEF q, n
  <2>1. QED  BY <1>4, AppendOf
<1>6. n.call = c /\ n = [event |-> "toolCompleted", call |-> c]
  OBVIOUS
<1>7. /\ exec'[x].pc = "NODE" /\ exec'[x].node = exec[x].node /\ exec'[x].call = c
      /\ exec'[x].queue = p /\ exec'[x].g = exec[x].g
      /\ \A y \in Caller : y # x => exec'[y] = exec[y]
  BY <1>1 DEF Moves
<1> HIDE DEF n, p, k
<1>8. ThreadFollows' /\ (Alone' => Alone)
  BY <1>1, <1>3, <1>7, ThreadWaits DEF ShownInv, InGraph
<1>9. ThreadShows'
  BY <1>1, <1>3, <1>8, ThreadStillShows DEF ShownInv
<1>10. ToolsShown(exec[x]) /\ InOrder(exec[x])
  BY <1>1, <1>2, <1>3 DEF ExecShows
<1>11. c <= Len(exec[x].g.plan) /\ (Started(c) \/ Queued(exec[x], "toolStarted", c))
  BY <1>1, <1>10 DEF ToolsShown
<1>12. InOrder(exec[x])'
  <2> SUFFICES ASSUME NEW d \in Call, NEW j \in DOMAIN p,
                      p[j] = [event |-> "toolCompleted", call |-> d]
               PROVE  Started(d) \/ \E i \in DOMAIN p : i < j
                                      /\ p[i] = [event |-> "toolStarted", call |-> d]
    BY <1>3, <1>7, CountsAreSame DEF InOrder
  <2>1. CASE j \in DOMAIN q /\ p[j] = q[j]
    <3>1. Started(d) \/ \E i \in DOMAIN q : i < j /\ q[i] = [event |-> "toolStarted", call |-> d]
      BY <1>10, <2>1 DEF InOrder
    <3> HIDE DEF q
    <3>2. QED  BY <1>5, <3>1
  <2>2. CASE j = k /\ p[j] = n
    <3>1. d = c
      BY <1>6, <2>2
    <3>2. Started(d) \/ \E i \in DOMAIN q : q[i] = [event |-> "toolStarted", call |-> d]
      BY <1>11, <3>1 DEF Queued
    <3> HIDE DEF q
    <3>3. QED  BY <1>5, <2>2, <3>2
  <2>3. QED  BY <1>5, <2>1, <2>2
<1>13. ToolsShown(exec[x])'
  <2>1. \A i \in DOMAIN p : p[i].call <= Len(exec[x].g.plan)
    BY <1>5, <1>6, <1>10, <1>11 DEF ToolsShown
  <2>2. \A d \in Call : d <= exec[x].call =>
          Completed(d) \/ \E i \in DOMAIN p : p[i] = [event |-> "toolCompleted", call |-> d]
    BY <1>1, <1>5, <1>10 DEF ToolsShown, Queued
  <2>3. \E i \in DOMAIN p : p[i] = [event |-> "toolCompleted", call |-> c]
    BY <1>5, <1>6
  <2>4. \A d \in Call : d <= c => d <= exec[x].call \/ d = c
    <3>1. exec[x].call \in Nat /\ \A d \in Call : d \in Nat
      BY TypeOfExecution, CallNumber
    <3>2. QED  BY <1>1, <3>1
  <2>5. \A d \in Call : Started(d)' => d <= Len(exec[x].g.plan)
    BY <1>3, <1>10, CountsAreSame DEF ToolsShown
  <2>6. \A d \in Call : d <= c => (Completed(d) \/ Queued(exec[x], "toolCompleted", d))'
    BY <1>3, <1>7, <2>2, <2>3, <2>4, CountsAreSame DEF Queued
  <2>7. QED  BY <1>7, <2>1, <2>5, <2>6 DEF ToolsShown
<1>14. ExecShows(exec[x])'
  BY <1>3, <1>7, <1>12, <1>13 DEF ExecShows, BeforeTools, BehindTools, AtTools, Before
<1>15. QED  BY <1>1, <1>2, <1>3, <1>7, <1>8, <1>9, <1>14, QuietlyShown

LEMMA EmitShown ==
  ASSUME WorkflowInv, QueuesSound', OneAtATime, ShownInv, ~overlap', NEW x \in Caller,
         EmitUpdate(x)
  PROVE  ShownInv'
<1>1. /\ MovesTo(x, "SAVE") /\ exec[x].pc = "EMIT" /\ exec[x].queue = <<>>
      /\ CountersSame /\ told'.started = told.started
      /\ UNCHANGED <<run, checkpoint, overlap, replayed>>
  BY EmitShape DEF historyVars
<1>2. Alonely(x) /\ ExecShows(exec[x]) /\ (x = 1 => Alone) /\ told.started
  BY <1>1, WhatShows
<1>3. /\ exec'[x].pc = "SAVE" /\ exec'[x].node = exec[x].node /\ exec'[x].call = exec[x].call
      /\ exec'[x].queue = <<>> /\ exec'[x].g = exec[x].g
      /\ \A y \in Caller : y # x => exec'[y] = exec[y]
  BY <1>1 DEF MovesTo, Moves
<1>4. ThreadFollows' /\ (Alone' => Alone)
  BY <1>1, <1>3, ThreadWaits DEF ShownInv, InGraph, AtTools
<1>5. ThreadShows'
  BY <1>1, <1>4, ThreadStillShows DEF ShownInv
<1>6. AtTools(exec[x]) => (AllClosed \/ replayed)' /\ ToolsShown(exec[x])'
  <2> SUFFICES ASSUME AtTools(exec[x]) PROVE (AllClosed \/ replayed)' /\ ToolsShown(exec[x])'
    OBVIOUS
  <2>1. ToolsShown(exec[x])
    BY <1>1, <1>2 DEF ExecShows
  <2>2. ~replayed => AllClosed
    BY <1>1, <2>1 DEF ToolsShown, Queued, AllClosed
  <2>3. QED  BY <1>1, <1>3, <2>1, <2>2, CountsAreSame DEF ToolsShown
<1>7. ExecShows(exec[x])'
  <2>1. exec[x].node \in Before => NothingStarted' /\ exec[x].call = 0
    BY <1>1, <1>2, CountsAreSame DEF ExecShows, BeforeTools
  <2>2. exec[x].node = "compose_answer" => (AllClosed \/ replayed)'
    BY <1>1, <1>2, CountsAreSame DEF ExecShows, BehindTools
  <2>3. QED  BY <1>3, <1>6, <2>1, <2>2 DEF ExecShows, InOrder, BeforeTools, BehindTools, AtTools
<1>8. QED  BY <1>1, <1>2, <1>3, <1>4, <1>5, <1>7, QuietlyShown

LEMMA SaveWritesShown ==
  ASSUME WorkflowInv, QueuesSound', OneAtATime, ShownInv, ~overlap', NEW x \in Caller,
         SaveWrites(x)
  PROVE  ShownInv'
<1>1. /\ exec[x].pc \in {"EMIT", "SAVE"} /\ checkpoint.next = exec[x].node
      /\ checkpoint'.state = checkpoint.state /\ checkpoint'.next = checkpoint.next
      /\ checkpoint'.saved /\ checkpoint'.after \in {exec[x].g, Tracked(exec[x].g)}
      /\ UNCHANGED <<run, told, exec, overlap, replayed>>
  BY SaveWritesShape DEF historyVars
<1>2. Alonely(x) /\ ExecShows(exec[x]) /\ (x = 1 => Alone) /\ told.started
  BY <1>1, WhatShows
<1>3. CountersSame
  BY <1>1, SameCounters
<1>4. ExecShows(exec[x])'
  BY <1>1, <1>2, CountsAreSame, <1>3 DEF ExecShows, InOrder, BeforeTools, BehindTools, AtTools,
    ToolsShown, Queued
<1>5. ThreadFollows' /\ ThreadShows'
  <2>1. CASE x = 1
    <3>1. Alone /\ ThreadFollows /\ ThreadShows
      BY <1>2, <2>1 DEF ShownInv
    <3>2. AtTools(exec[1]) => checkpoint'.after.plan = checkpoint.state.plan
      <4>1. Tracked(exec[1].g).plan = exec[1].g.plan
        BY TypeOfExecution, TrackedMap, Callers
      <4>2. AtTools(exec[1]) => checkpoint.state.plan = exec[1].g.plan
        BY <1>1, <2>1, <3>1 DEF ThreadFollows, InGraph
      <4>3. QED  BY <1>1, <2>1, <4>1, <4>2
    <3>3. ThreadShows'
      BY <1>1, <1>3, <2>1, <3>1, <3>2, CountsAreSame DEF ThreadShows, AtTools
    <3>4. Tracked(exec[1].g)' = Tracked(exec[1].g) /\ InGraph(exec[1])' = InGraph(exec[1])
      BY <1>1 DEF Tracked, InGraph
    <3>5. ThreadFollows'
      BY <1>1, <2>1, <3>1, <3>4 DEF ThreadFollows, AtTools
    <3>6. QED  BY <3>3, <3>5
  <2>2. CASE x = 2
    BY <1>1, <2>2 DEF ThreadFollows, ThreadShows, Alone
  <2>3. QED  BY <2>1, <2>2, Callers
<1>6. QED  BY <1>1, <1>2, <1>3, <1>4, <1>5, QuietlyShown

LEMMA SaveCheckpointShown ==
  ASSUME WorkflowInv, QueuesSound, QueuesSound', OneAtATime, ShownInv, ~overlap',
         NEW x \in Caller, SaveCheckpoint(x)
  PROVE  ShownInv'
<1> DEFINE next == NextNode(exec[x].node, exec[x].g)
           pc == IF next = "END" THEN "COMPLETE" ELSE "NODE"
<1>1. /\ Moves(x, pc, next, exec[x].g, exec[x].call, exec[x].queue, exec[x].cause, exec[x].open)
      /\ exec[x].pc = "SAVE" /\ exec[x].node \in Node
      /\ SaveThread(Tracked(exec[x].g), next)
      /\ UNCHANGED <<run, told, overlap, replayed>>
  BY SaveCheckpointShape DEF historyVars
<1>2. Alonely(x) /\ ExecShows(exec[x]) /\ (x = 1 => Alone) /\ told.started
  BY <1>1, WhatShows
<1>3. CountersSame
  BY <1>1, SameCounters
<1>4. next \in Before \union {"execute_map_tools"} => exec[x].node \in Before
  BY <1>1, NodesGoForward
<1>5. next \in Node \union {"END"}
  BY <1>1, NextNodeIsNode
<1>6. pc \in {"COMPLETE", "NODE"} /\ (pc = "COMPLETE" <=> next = "END")
  OBVIOUS
<1> HIDE DEF next, pc
<1>7. /\ exec'[x].pc = pc /\ exec'[x].node = next /\ exec'[x].call = exec[x].call
      /\ exec'[x].queue = <<>> /\ exec'[x].g = exec[x].g
      /\ \A y \in Caller : y # x => exec'[y] = exec[y]
  BY <1>1, QueueEmpty DEF Moves
<1>8. next \in Before \union {"execute_map_tools"} => NothingStarted /\ exec[x].call = 0
  BY <1>1, <1>2, <1>4 DEF ExecShows, BeforeTools
<1>9. next \in {"compose_answer", "END"} => AllClosed \/ replayed
  <2>1. CASE exec[x].node \in Before
    BY <1>1, <1>2, <2>1 DEF ExecShows, BeforeTools, NothingStarted, AllClosed
  <2>2. CASE exec[x].node \in {"execute_map_tools", "compose_answer"}
    BY <1>1, <1>2, <2>2 DEF ExecShows, BehindTools, AtTools
  <2>3. QED  BY <1>1, <2>1, <2>2 DEF Node, Before
<1>10. ExecShows(exec[x])'
  <2>1. next \in Before \union {"execute_map_tools"} => NothingStarted'
    BY <1>3, <1>8, CountsAreSame
  <2>2. next \in {"compose_answer", "END"} => (AllClosed \/ replayed)'
    BY <1>1, <1>3, <1>9, CountsAreSame
  <2>3. next = "execute_map_tools" => ToolsShown(exec[x])'
    <3>1. \A c \in Call : ~(c <= 0)
      BY CallNumber
    <3>2. next = "execute_map_tools" => \A c \in Call : ~Started(c)'
      BY <2>1 DEF NothingStarted
    <3>3. QED  BY <1>6, <1>7, <1>8, <3>1, <3>2 DEF ToolsShown
  <2>4. QED  BY <1>6, <1>7, <1>8, <2>1, <2>2, <2>3
         DEF ExecShows, InOrder, BeforeTools, BehindTools, AtTools, Before
<1>11. ThreadFollows' /\ ThreadShows'
  <2>1. CASE x = 1
    <3>1. Alone /\ ~replayed /\ checkpoint.next \in Node
      BY <1>1, <1>2, <2>1 DEF ShownInv, ThreadFollows, InGraph
    <3>2. checkpoint # Forgotten
      BY <3>1, ForgottenMap DEF Node
    <3>3. /\ checkpoint'.next = next /\ ~checkpoint'.saved
          /\ checkpoint'.state.plan = exec[1].g.plan
      <4>1. Tracked(exec[1].g).plan = exec[1].g.plan
        BY TypeOfExecution, TrackedMap, Callers
      <4>2. QED  BY <1>1, <2>1, <3>2, <4>1, ThreadAfter
    <3>4. ThreadFollows'
      BY <1>1, <1>6, <1>7, <2>1, <3>1, <3>3 DEF ThreadFollows, AtTools, InGraph
    <3>5. next = "execute_map_tools" => \A c \in Call : ~Started(c)'
      BY <1>3, <1>8, CountsAreSame DEF NothingStarted
    <3>6. (next \in Before => NothingStarted') /\ (next \in {"compose_answer", "END"} => AllClosed')
      BY <1>3, <1>8, <1>9, <3>1, CountsAreSame
    <3>7. ThreadShows'
      BY <3>3, <3>5, <3>6 DEF ThreadShows
    <3>8. QED  BY <3>4, <3>7
  <2>2. CASE x = 2
    BY <1>6, <1>7, <2>2 DEF ThreadFollows, ThreadShows, Alone
  <2>3. QED  BY <2>1, <2>2, Callers
<1>12. QED  BY <1>1, <1>2, <1>3, <1>6, <1>7, <1>10, <1>11, QuietlyShown

\* An event told, and what is known to be told by then.
LEMMA Tells ==
  ASSUME WorkflowInv, NEW ev \in ToolEvent, NEW c \in Call, TellsOnce(ev, c)
  PROVE  \A d \in Call :
           /\ told'.toolStarted[d] =
                IF ev = "toolStarted" /\ d = c THEN told.toolStarted[d] + 1 ELSE told.toolStarted[d]
           /\ told'.toolCompleted[d] =
                IF ev = "toolCompleted" /\ d = c THEN told.toolCompleted[d] + 1
                ELSE told.toolCompleted[d]
           /\ told.toolStarted[d] \in Nat /\ told.toolCompleted[d] \in Nat
           /\ Started(d)' = (Started(d) \/ (ev = "toolStarted" /\ d = c))
           /\ Completed(d)' = (Completed(d) \/ (ev = "toolCompleted" /\ d = c))
<1> SUFFICES ASSUME NEW d \in Call
             PROVE  /\ told'.toolStarted[d] = IF ev = "toolStarted" /\ d = c
                         THEN told.toolStarted[d] + 1 ELSE told.toolStarted[d]
                    /\ told'.toolCompleted[d] = IF ev = "toolCompleted" /\ d = c
                         THEN told.toolCompleted[d] + 1 ELSE told.toolCompleted[d]
                    /\ told.toolStarted[d] \in Nat /\ told.toolCompleted[d] \in Nat
                    /\ Started(d)' = (Started(d) \/ (ev = "toolStarted" /\ d = c))
                    /\ Completed(d)' = (Completed(d) \/ (ev = "toolCompleted" /\ d = c))
  OBVIOUS
<1>1. told.toolStarted \in [Call -> Nat] /\ told.toolCompleted \in [Call -> Nat]
  BY DEF WorkflowInv, ToldInv
<1>2. /\ told'.toolStarted[d] = IF ev = "toolStarted" /\ d = c
           THEN told.toolStarted[d] + 1 ELSE told.toolStarted[d]
      /\ told'.toolCompleted[d] = IF ev = "toolCompleted" /\ d = c
           THEN told.toolCompleted[d] + 1 ELSE told.toolCompleted[d]
  BY <1>1 DEF TellsOnce, ToolEvent
<1>3. told.toolStarted[d] \in Nat /\ told.toolCompleted[d] \in Nat
  BY <1>1
<1>4. (told'.toolStarted[d] > 0) <=> (told.toolStarted[d] > 0 \/ (ev = "toolStarted" /\ d = c))
  BY <1>2, <1>3
<1>5. (told'.toolCompleted[d] > 0)
        <=> (told.toolCompleted[d] > 0 \/ (ev = "toolCompleted" /\ d = c))
  BY <1>2, <1>3
<1>6. QED  BY <1>2, <1>3, <1>4, <1>5 DEF Started, Completed

LEMMA PublishShown ==
  ASSUME WorkflowInv, QueuesSound, QueuesSound', OneAtATime, ShownInv, ~overlap',
         NEW x \in Caller, PublishToolEvent(x)
  PROVE  ShownInv'
<1>1. PICK ev \in ToolEvent, c \in Call :
        /\ exec[x].queue # <<>> /\ Head(exec[x].queue) = [event |-> ev, call |-> c]
        /\ Moves(x, exec[x].pc, exec[x].node, exec[x].g, exec[x].call, Tail(exec[x].queue),
                 exec[x].cause, exec[x].open)
        /\ exec[x].pc \in {"INVOKE", "EMIT", "RAISED"}
        /\ \/ told[ev][c] > 0 /\ UNCHANGED told
           \/ /\ told[ev][c] = 0 \/ overlap
              /\ Running
              /\ TellsOnce(ev, c) /\ RestOfToldSame
        /\ UNCHANGED <<run, checkpoint, overlap, replayed>>
  BY PublishShape DEF historyVars
<1>2. Alonely(x) /\ ExecShows(exec[x]) /\ (x = 1 => Alone) /\ told.started /\ ~overlap
  BY <1>1, WhatShows
<1>3. AtTools(exec[x]) /\ ToolsShown(exec[x]) /\ InOrder(exec[x])
  BY <1>1, <1>2 DEF QueuesSound, QueueSound, ExecShows
<1> DEFINE q == exec[x].queue
           t == Tail(q)
<1>4. /\ q[1] = [event |-> ev, call |-> c] /\ 1 \in DOMAIN q
      /\ \A i \in DOMAIN t : i \in Nat \ {0} /\ i + 1 \in DOMAIN q /\ t[i] = q[i + 1]
      /\ \A i \in DOMAIN q : i \in Nat /\ (i # 1 => i - 1 \in DOMAIN t)
  BY <1>1, TailOfQueue
<1>5. /\ exec'[x].pc = exec[x].pc /\ exec'[x].node = exec[x].node /\ exec'[x].call = exec[x].call
      /\ exec'[x].queue = t /\ exec'[x].g = exec[x].g /\ exec'[x].cause = exec[x].cause
      /\ \A y \in Caller : y # x => exec'[y] = exec[y]
  BY <1>1 DEF Moves
<1>6. told["toolStarted"] = told.toolStarted /\ told["toolCompleted"] = told.toolCompleted
  OBVIOUS
<1>7. \A d \in Call : /\ Started(d)' = (Started(d) \/ (ev = "toolStarted" /\ d = c))
                      /\ Completed(d)' = (Completed(d) \/ (ev = "toolCompleted" /\ d = c))
  <2>1. CASE told[ev][c] > 0 /\ UNCHANGED told
    BY <1>6, <2>1 DEF Started, Completed, ToolEvent
  <2>2. CASE TellsOnce(ev, c)
    BY <2>2, Tells
  <2>3. QED  BY <1>1, <2>1, <2>2
<1>8. ev = "toolCompleted" => Started(c)
  <2>1. ~\E i \in DOMAIN q : i < 1 /\ q[i] = [event |-> "toolStarted", call |-> c]
    <3>1. q \in Seq([event : ToolEvent, call : Call])
      BY TypeOfExecution
    <3>2. \A i \in DOMAIN q : i \in Nat \ {0}
      <4> HIDE DEF q
      <4>1. QED  BY <3>1
    <3>3. QED  BY <3>2
  <2>2. QED  BY <1>3, <1>4, <2>1 DEF InOrder
<1> HIDE DEF t
<1>9. ToldOnce'
  <2>1. \A d \in Call : /\ told.toolStarted[d] <= 1 /\ told.toolCompleted[d] <= 1
                        /\ Completed(d) => Started(d)
    BY <1>2 DEF ShownInv, ToldOnce
  <2>2. CASE UNCHANGED told
    BY <2>1, <2>2 DEF ToldOnce, Started, Completed
  <2>3. CASE told[ev][c] = 0 /\ TellsOnce(ev, c)
    <3>1. (ev = "toolStarted" => told.toolStarted[c] = 0)
          /\ (ev = "toolCompleted" => told.toolCompleted[c] = 0)
      BY <1>6, <2>3
    <3>2. \A d \in Call : told'.toolStarted[d] <= 1 /\ told'.toolCompleted[d] <= 1
      BY <2>1, <2>3, <3>1, Tells
    <3>3. \A d \in Call : Completed(d)' => Started(d)'
      BY <1>7, <1>8, <2>1
    <3>4. QED  BY <3>2, <3>3 DEF ToldOnce
  <2>4. QED  BY <1>1, <1>2, <2>2, <2>3
<1>10. InOrder(exec[x])'
  <2> SUFFICES ASSUME NEW d \in Call, NEW j \in DOMAIN t,
                      t[j] = [event |-> "toolCompleted", call |-> d]
               PROVE  Started(d)' \/ \E i \in DOMAIN t : i < j
                                      /\ t[i] = [event |-> "toolStarted", call |-> d]
    BY <1>5 DEF InOrder
  <2>1. j \in Nat \ {0} /\ j + 1 \in DOMAIN q /\ q[j + 1] = t[j]
    BY <1>4
  <2>2. CASE Started(d)
    BY <1>7, <2>2
  <2>3. CASE \E i \in DOMAIN q : i < j + 1 /\ q[i] = [event |-> "toolStarted", call |-> d]
    <3>1. PICK i \in DOMAIN q : i < j + 1 /\ q[i] = [event |-> "toolStarted", call |-> d]
      BY <2>3
    <3>2. CASE i = 1
      <4>1. ev = "toolStarted" /\ d = c
        BY <1>4, <3>1, <3>2
      <4>2. QED  BY <1>7, <4>1
    <3>3. CASE i # 1
      <4>1. i - 1 \in DOMAIN t /\ i \in Nat
        BY <1>4, <3>3
      <4>2. t[i - 1] = q[i] /\ i - 1 < j
        <5>1. t[i - 1] = q[(i - 1) + 1]
          BY <1>4, <4>1
        <5>2. (i - 1) + 1 = i
          BY <4>1
        <5>3. QED  BY <2>1, <3>1, <4>1, <5>1, <5>2
      <4>3. QED  BY <3>1, <4>1, <4>2
    <3>4. QED  BY <3>2, <3>3
  <2>4. QED  BY <1>3, <2>1, <2>2, <2>3 DEF InOrder
<1>11. ASSUME NEW e \in ToolEvent, NEW d \in Call, Queued(exec[x], e, d)
       PROVE  \/ Queued(exec[x], e, d)'
              \/ e = "toolStarted" /\ Started(d)'
              \/ e = "toolCompleted" /\ Completed(d)'
  <2>1. PICK i \in DOMAIN q : q[i] = [event |-> e, call |-> d]
    BY <1>11 DEF Queued
  <2>2. CASE i = 1
    <3>1. e = ev /\ d = c
      BY <1>4, <2>1, <2>2
    <3>2. QED  BY <1>7, <3>1 DEF ToolEvent
  <2>3. CASE i # 1
    <3>1. i - 1 \in DOMAIN t /\ i \in Nat
      BY <1>4, <2>3
    <3>2. t[i - 1] = q[(i - 1) + 1] /\ (i - 1) + 1 = i
      BY <1>4, <3>1
    <3>3. QED  BY <1>5, <2>1, <3>1, <3>2 DEF Queued
  <2>4. QED  BY <2>2, <2>3
<1>12. \A d \in Call : Started(d)' => d <= Len(exec[x].g.plan)
  <2>1. q[1].call <= Len(exec[x].g.plan)
    BY <1>3, <1>4 DEF ToolsShown
  <2>2. c <= Len(exec[x].g.plan)
    BY <1>4, <2>1
  <2>3. QED  BY <1>3, <1>7, <2>2 DEF ToolsShown
<1>13. ToolsShown(exec[x])'
  <2>1. \A i \in DOMAIN t : t[i].call <= Len(exec[x].g.plan)
    BY <1>3, <1>4 DEF ToolsShown
  <2>2. \A d \in Call : Completed(d) \/ Queued(exec[x], "toolCompleted", d)
                          => (Completed(d) \/ Queued(exec[x], "toolCompleted", d))'
    BY <1>7, <1>11 DEF ToolEvent
  <2>3. \A d \in Call : Started(d) \/ Queued(exec[x], "toolStarted", d)
                          => (Started(d) \/ Queued(exec[x], "toolStarted", d))'
    BY <1>7, <1>11 DEF ToolEvent
  <2>4. ~replayed' => ~replayed
    BY <1>1
  <2>5. exec[x].pc \in {"NODE", "RECORD", "INVOKE"} => \A d \in Call :
          d <= exec[x].call => (Completed(d) \/ Queued(exec[x], "toolCompleted", d))'
    BY <1>3, <2>2 DEF ToolsShown
  <2>6. exec[x].pc = "INVOKE" => \A d \in Call : d = exec[x].call + 1 =>
          d <= Len(exec[x].g.plan) /\ (Started(d) \/ Queued(exec[x], "toolStarted", d))'
    BY <1>3, <2>3 DEF ToolsShown
  <2>7. exec[x].pc = "EMIT" /\ ~replayed' => \A d \in Call :
          d <= Len(exec[x].g.plan) => (Completed(d) \/ Queued(exec[x], "toolCompleted", d))'
    BY <1>3, <2>2, <2>4 DEF ToolsShown
  <2>8. QED  BY <1>5, <1>12, <2>1, <2>5, <2>6, <2>7 DEF ToolsShown
<1>14. ExecShows(exec[x])'
  BY <1>1, <1>2, <1>3, <1>5, <1>10, <1>13
     DEF ExecShows, BeforeTools, BehindTools, AtTools, Before
<1>15. ExecutionsShow'
  BY <1>2, <1>5, <1>14, OthersShow
<1>16. StartedFirst'
  <2>1. told'.started
    BY <1>1, <1>2 DEF RestOfToldSame
  <2>2. QED  BY <2>1 DEF StartedFirst
<1>17. ThreadFollows' /\ (Alone' => Alone /\ x = 1)
  BY <1>1, <1>3, <1>5, ThreadWaits DEF ShownInv, InGraph, AtTools
<1>18. ThreadShows'
  <2> SUFFICES ASSUME Alone, x = 1 PROVE ThreadShows'
    BY <1>17 DEF ThreadShows
  <2>1. checkpoint.next = "execute_map_tools" /\ checkpoint.state.plan = exec[x].g.plan
    BY <1>1, <1>3 DEF ShownInv, ThreadFollows, InGraph, AtTools
  <2>2. checkpoint.saved => checkpoint.after.plan = checkpoint.state.plan
    BY <2>1 DEF ShownInv, ThreadShows
  <2>3. QED  BY <1>1, <1>12, <2>1, <2>2 DEF ThreadShows, Before
<1>19. RunShows'
  <2>1. CASE UNCHANGED told
    BY <1>1, <2>1, SameCounters, CountsAreSame DEF ShownInv, RunShows
  <2>2. CASE Running
    BY <1>1, <2>2 DEF RunShows, Running
  <2>3. QED  BY <1>1, <2>1, <2>2
<1>20. QED  BY <1>9, <1>15, <1>16, <1>17, <1>18, <1>19 DEF ShownInv

LEMMA CloseShown ==
  ASSUME WorkflowInv, QueuesSound, QueuesSound', OneAtATime, ShownInv, ~overlap',
         NEW x \in Caller, CloseToolCall(x)
  PROVE  ShownInv'
<1>1. PICK c \in Call :
        /\ c \in exec[x].open
        /\ Moves(x, "FAIL", exec[x].node, exec[x].g, exec[x].call, exec[x].queue, exec[x].cause,
                 exec[x].open \ {c})
        /\ exec[x].pc = "FAIL" /\ Running
        /\ TellsOnce("toolCompleted", c) /\ RestOfToldSame
        /\ UNCHANGED <<run, checkpoint, overlap, replayed>>
  BY CloseShape DEF historyVars
<1>2. Alonely(x) /\ ExecShows(exec[x]) /\ (x = 1 => Alone) /\ told.started /\ ~overlap
  BY <1>1, WhatShows
<1>3. exec[x].open = PendingToolCalls
  BY <1>1, <1>2 DEF ExecShows
<1>4. told.toolStarted[c] > 0 /\ told.toolCompleted[c] = 0
  BY <1>1, <1>3 DEF PendingToolCalls
<1>5. \A d \in Call :
        /\ told'.toolStarted[d] = told.toolStarted[d]
        /\ told'.toolCompleted[d] = IF d = c THEN told.toolCompleted[d] + 1
                                    ELSE told.toolCompleted[d]
        /\ told.toolStarted[d] \in Nat /\ told.toolCompleted[d] \in Nat
        /\ Started(d)' <=> Started(d)
        /\ Completed(d)' <=> (Completed(d) \/ d = c)
  <2> DEFINE ev == "toolCompleted"
  <2>1. ev \in ToolEvent /\ ev # "toolStarted" /\ TellsOnce(ev, c)
    BY <1>1 DEF ToolEvent
  <2>2. ev = "toolCompleted"
    OBVIOUS
  <2> HIDE DEF ev
  <2>3. \A d \in Call :
           /\ told'.toolStarted[d] =
                IF ev = "toolStarted" /\ d = c THEN told.toolStarted[d] + 1 ELSE told.toolStarted[d]
           /\ told'.toolCompleted[d] =
                IF ev = "toolCompleted" /\ d = c THEN told.toolCompleted[d] + 1
                ELSE told.toolCompleted[d]
           /\ told.toolStarted[d] \in Nat /\ told.toolCompleted[d] \in Nat
           /\ Started(d)' = (Started(d) \/ (ev = "toolStarted" /\ d = c))
           /\ Completed(d)' = (Completed(d) \/ (ev = "toolCompleted" /\ d = c))
    BY <2>1, Tells
  <2>4. ASSUME NEW d \in Call
        PROVE  (Started(d)' <=> Started(d)) /\ (Completed(d)' <=> (Completed(d) \/ d = c))
    BY <2>1, <2>2, <2>3
  <2>5. QED  BY <2>1, <2>2, <2>3, <2>4
<1>6. /\ exec'[x].pc = "FAIL" /\ exec'[x].queue = <<>> /\ exec'[x].open = exec[x].open \ {c}
      /\ \A y \in Caller : y # x => exec'[y] = exec[y]
  BY <1>1, QueueEmpty DEF Moves
<1>7. ToldOnce'
  <2>1. \A d \in Call : /\ told.toolStarted[d] <= 1 /\ told.toolCompleted[d] <= 1
                        /\ Completed(d) => Started(d)
    BY <1>2 DEF ShownInv, ToldOnce
  <2>2. Started(c)
    BY <1>4 DEF Started
  <2>3. \A d \in Call : told'.toolStarted[d] <= 1 /\ told'.toolCompleted[d] <= 1
    BY <1>4, <1>5, <2>1
  <2>4. \A d \in Call : Completed(d)' => Started(d)'
    BY <1>5, <2>1, <2>2
  <2>5. QED  BY <2>3, <2>4 DEF ToldOnce
<1>8. ExecShows(exec[x])'
  <2>1. PendingToolCalls' = PendingToolCalls \ {c}
    <3>1. ASSUME NEW d \in Call
          PROVE  (told'.toolStarted[d] > 0 /\ told'.toolCompleted[d] = 0)
                   <=> (told.toolStarted[d] > 0 /\ told.toolCompleted[d] = 0 /\ d # c)
      BY <1>5
    <3>2. QED  BY <3>1 DEF PendingToolCalls
  <2>2. QED  BY <1>3, <1>6, <2>1 DEF ExecShows, InOrder, BeforeTools, BehindTools
<1>9. ExecutionsShow'
  BY <1>2, <1>6, <1>8, OthersShow
<1>10. StartedFirst'
  <2>1. told'.started
    BY <1>1, <1>2 DEF RestOfToldSame
  <2>2. QED  BY <2>1 DEF StartedFirst
<1>11. ThreadFollows' /\ (Alone' => Alone /\ x = 1)
  BY <1>1, <1>6, ThreadWaits DEF ShownInv, InGraph
<1>12. ThreadShows'
  <2>1. (NothingStarted => NothingStarted') /\ (AllClosed => AllClosed')
    BY <1>5 DEF NothingStarted, AllClosed
  <2>2. QED  BY <1>1, <1>5, <1>11, <2>1 DEF ShownInv, ThreadShows
<1>13. RunShows'
  BY <1>1 DEF RunShows, Running
<1>14. QED  BY <1>7, <1>9, <1>10, <1>11, <1>12, <1>13 DEF ShownInv

LEMMA StayShown ==
  ASSUME ShownInv, UNCHANGED <<run, told, checkpoint, exec, overlap, replayed>>
  PROVE  ShownInv'
<1>1. CountersSame
  BY SameCounters
<1>2. /\ \A c : Started(c)' = Started(c) /\ Completed(c)' = Completed(c)
      /\ NothingStarted' = NothingStarted /\ AllClosed' = AllClosed
      /\ PendingToolCalls' = PendingToolCalls
  BY <1>1, CountsAreSame
<1>3. ToldOnce' /\ StartedFirst' /\ RunShows'
  BY <1>2 DEF ShownInv, ToldOnce, StartedFirst, RunShows
<1>4. ExecutionsShow'
  BY <1>2 DEF ShownInv, ExecutionsShow, ExecShows, InOrder, ToolsShown, BeforeTools, BehindTools,
    AtTools, Queued
<1>5. ThreadFollows' /\ ThreadShows'
  BY <1>2 DEF ShownInv, ThreadFollows, ThreadShows, Alone, InGraph, AtTools, Tracked
<1>6. QED  BY <1>3, <1>4, <1>5 DEF ShownInv

\* With two executions at a time only what comes before run.started is left to say.
LEMMA OverlapShown ==
  ASSUME WorkflowInv, ShownInv, overlap', StartedFirst' PROVE ShownInv'
BY DEF ShownInv, ToldOnce, ExecutionsShow, ThreadFollows, ThreadShows, Alone, RunShows
-----------------------------------------------------------------------------
(* The run begins with run.started, with any number of executions *)

LEMMA StartedStays ==
  ASSUME StartedFirst, NEW x \in Caller, \A y \in Caller : y # x => exec'[y] = exec[y],
         told.started => told'.started, CountersSame \/ told'.started,
         exec'[x].pc \in {"IDLE", "PREPARE", "ENDED"} \/ told'.started
  PROVE  StartedFirst'
<1>1. ~told'.started => NothingStarted'
  BY CountsAreSame DEF StartedFirst
<1>2. ASSUME NEW y \in Caller, exec'[y].pc \notin {"IDLE", "PREPARE", "ENDED"}
      PROVE  told'.started
  BY <1>2 DEF StartedFirst
<1>3. QED  BY <1>1, <1>2 DEF StartedFirst

LEMMA StepStarted ==
  ASSUME WorkflowInv, StartedFirst, [WorkflowNext]_workflowVars
  PROVE  StartedFirst'
<1>1. \A x \in Caller : exec[x].pc \notin {"IDLE", "PREPARE", "ENDED"} => told.started
  BY DEF StartedFirst
<1>2. ASSUME NEW x \in Caller, Claim(x)
      PROVE  StartedFirst'
  BY <1>2, ClaimShape, SameCounters, StartedStays DEF Moves, runVars
<1>3. ASSUME NEW x \in Caller, Prepare(x)
      PROVE  StartedFirst'
  <2>1. told'.started /\ \A y \in Caller : y # x => exec'[y] = exec[y]
    BY <1>3, PrepareShape DEF Moves
  <2>2. QED  BY <2>1, StartedStays
<1>4. ASSUME NEW x \in Caller, SaveInput(x)
      PROVE  StartedFirst'
  BY <1>1, <1>4, SaveInputShape, SameCounters, StartedStays DEF Moves
<1>5. ASSUME NEW x \in Caller, RunNode(x)
      PROVE  StartedFirst'
  <2>1. CASE \/ RouteIntent(x) \/ RetrieveKnowledge(x) \/ LoadCatalog(x)
             \/ PlanHousingSearch(x) \/ PlanMap(x) \/ BuildMapResult(x) \/ ComposeAnswer(x)
    <3>1. exec[x].pc = "NODE" /\ UNCHANGED told /\ \A y \in Caller : y # x => exec'[y] = exec[y]
      BY <2>1, NodeShape DEF NodeFrame, runVars, Returns, Moves
    <3>2. QED  BY <1>1, <3>1, SameCounters, StartedStays
  <2>2. CASE CheckTool(x) \/ StartTool(x)
    BY <1>1, <2>2, CheckToolShape, StartToolShape, SameCounters, StartedStays DEF MovesTo, Moves
  <2>3. CASE FinishTool(x)
    BY <1>1, <2>3, FinishToolShape, SameCounters, StartedStays DEF Moves, runVars
  <2>4. QED  BY <1>5, <2>1, <2>2, <2>3 DEF RunNode
<1>6. ASSUME NEW x \in Caller, NodeRaises(x) \/ RunTimeout(x)
      PROVE  StartedFirst'
  BY <1>1, <1>6, RaiseShape, TimeoutShape, SameCounters, StartedStays DEF Moves, NodeFrame, runVars
<1>7. ASSUME NEW x \in Caller, Publish(x)
      PROVE  StartedFirst'
  <2>1. CASE PublishToolEvent(x)
    BY <1>1, <2>1, PublishShape, StartedStays DEF Moves, RestOfToldSame
  <2>2. CASE EmitUpdate(x)
    BY <1>1, <2>2, EmitShape, StartedStays DEF MovesTo, Moves
  <2>3. CASE SaveWrites(x)
    BY <2>3, SaveWritesShape, SameCounters, CountsAreSame DEF StartedFirst
  <2>4. CASE SaveCheckpoint(x)
    BY <1>1, <2>4, SaveCheckpointShape, SameCounters, StartedStays DEF Moves
  <2>5. QED  BY <1>7, <2>1, <2>2, <2>3, <2>4 DEF Publish
<1>8. ASSUME NEW x \in Caller, End(x)
      PROVE  StartedFirst'
  <2>1. CASE Complete(x) \/ FailRun(x) \/ Cancel(x) \/ TooLate(x) \/ Stop(x)
    BY <2>1, LeaveShape, SameCounters, StartedStays DEF Moves
  <2>2. CASE Fallback(x) \/ FailBegin(x)
    BY <1>1, <2>2, FallbackShape, FailBeginShape, SameCounters, StartedStays
    DEF Moves, NodeFrame, runVars
  <2>3. CASE CloseToolCall(x)
    BY <1>1, <2>3, CloseShape, StartedStays DEF Moves, RestOfToldSame
  <2>4. QED  BY <1>8, <2>1, <2>2, <2>3 DEF End
<1>9. CASE UNCHANGED <<told, exec>>
  BY <1>9, SameCounters, CountsAreSame DEF StartedFirst
<1>10. QED
  BY <1>2, <1>3, <1>4, <1>5, <1>6, <1>7, <1>8, <1>9
  DEF WorkflowNext, CallTool, workflowVars, runVars

LEMMA InitShown == WorkflowInit => ShownInv
<1> SUFFICES ASSUME WorkflowInit PROVE ShownInv
  OBVIOUS
<1>1. \A x \in Caller : exec[x].pc = "IDLE" /\ exec[x].queue = <<>>
  BY DEF WorkflowInit, NoExecution
<1>2. \A c \in Call : ~Started(c) /\ told.toolStarted[c] <= 1 /\ told.toolCompleted[c] <= 1
                      /\ ~Completed(c)
  BY DEF WorkflowInit, Started, Completed
<1>3. /\ checkpoint.next = "END" /\ ~checkpoint.saved /\ checkpoint.state = OldState
      /\ run.status = "RUNNING" /\ ~replayed
  BY DEF WorkflowInit
<1>4. ToldOnce /\ RunShows
  BY <1>2, <1>3 DEF ToldOnce, RunShows
<1>5. StartedFirst
  BY <1>1, <1>2 DEF StartedFirst, NothingStarted
<1>6. ExecutionsShow
  BY <1>1 DEF ExecutionsShow, ExecShows, InOrder, BeforeTools, BehindTools
<1>7. ThreadFollows
  BY <1>1, <1>3, Callers DEF ThreadFollows, InGraph
<1>8. ThreadShows
  BY <1>2, <1>3 DEF ThreadShows, AllClosed, Before
<1>9. QED  BY <1>4, <1>5, <1>6, <1>7, <1>8 DEF ShownInv

LEMMA StepShown ==
  WorkflowInv /\ QueuesSound /\ QueuesSound' /\ OneAtATime /\ ShownInv
    /\ [WorkflowNext]_workflowVars => ShownInv'
<1> SUFFICES ASSUME WorkflowInv, QueuesSound, QueuesSound', OneAtATime, ShownInv,
                    [WorkflowNext]_workflowVars
             PROVE  ShownInv'
  OBVIOUS
<1>1. CASE overlap'
  BY <1>1, StepStarted, OverlapShown DEF ShownInv
<1>2. CASE ~overlap'
  <2> USE <1>2
  <2>1. ASSUME NEW x \in Caller, RunNode(x)
        PROVE  ShownInv'
    BY <2>1, NodesShown, CheckToolShown, StartToolShown, FinishToolShown DEF RunNode
  <2>2. ASSUME NEW x \in Caller, Publish(x)
        PROVE  ShownInv'
    BY <2>2, PublishShown, EmitShown, SaveWritesShown, SaveCheckpointShown DEF Publish
  <2>3. ASSUME NEW x \in Caller, End(x)
        PROVE  ShownInv'
    BY <2>3, LeavesShown, EndsShown, CloseShown DEF End
  <2>4. ASSUME NEW x \in Caller, Prepare(x)
        PROVE  ShownInv'
    BY <2>4, FirstBegins, SecondBegins, Callers
  <2>5. ASSUME NEW x \in Caller, Claim(x) \/ SaveInput(x) \/ NodeRaises(x) \/ RunTimeout(x)
        PROVE  ShownInv'
    BY <2>5, ClaimShown, SaveInputShown, RaisesShown
  <2>6. CASE UNCHANGED <<run, told, checkpoint, exec, overlap, replayed>>
    BY <2>6, StayShown
  <2>7. QED
    BY <2>1, <2>2, <2>3, <2>4, <2>5, <2>6
    DEF WorkflowNext, CallTool, workflowVars, runVars, historyVars
<1>3. QED  BY <1>1, <1>2

LEMMA ShownInvariant == WorkflowSpec => []ShownInv
<1>1. BoundInv => QueuesSound
  BY DEF BoundInv
<1>2. CleanInv => OneAtATime
  BY DEF CleanInv
<1>3. WorkflowSpec => []BoundInv
  BY WorkflowInvariant, InitBounded, StepBounded, PTL DEF WorkflowSpec
<1>4. WorkflowSpec => []CleanInv
  BY WorkflowInvariant, InitClean, StepClean, PTL DEF WorkflowSpec
<1>5. QED
  BY <1>1, <1>2, <1>3, <1>4, WorkflowInvariant, InitShown, StepShown, PTL DEF WorkflowSpec

\* A run that ends by itself has shown each tool call it began once, and its end once: the
\* events of a resumed execution are recognised (has_tool_event), and a failure closes what
\* is still open (_fail_run).
THEOREM ToolCallsAreShown == WorkflowSpec => []ToolCallsClosed
<1>1. WorkflowInv /\ ShownInv => ToolCallsClosed
  <2> SUFFICES ASSUME WorkflowInv, ShownInv PROVE ToolCallsClosed
    OBVIOUS
  <2>1. ASSUME ~overlap, AllClosed
        PROVE  ToolCallsAreClosed
    <3> SUFFICES ASSUME NEW c \in Call
                 PROVE  told.toolStarted[c] = told.toolCompleted[c] /\ told.toolStarted[c] <= 1
      BY DEF ToolCallsAreClosed
    <3>1. told.toolStarted[c] \in Nat /\ told.toolCompleted[c] \in Nat
      BY DEF WorkflowInv, ToldInv
    <3>2. told.toolStarted[c] <= 1 /\ told.toolCompleted[c] <= 1
      BY <2>1 DEF ShownInv, ToldOnce
    <3>3. (told.toolStarted[c] > 0) <=> (told.toolCompleted[c] > 0)
      BY <2>1 DEF ShownInv, ToldOnce, AllClosed, Started, Completed
    <3>4. QED  BY <3>1, <3>2, <3>3
  <2>2. QED  BY <2>1 DEF ShownInv, RunShows, ToolCallsClosed
<1>2. QED  BY <1>1, WorkflowInvariant, ShownInvariant, PTL
-----------------------------------------------------------------------------
(* Evidence that was told outlives a failure of the answer model *)

\* The nodes before which retrieval is over, or is not asked for.
Retrieved == {"load_catalog", "plan_housing_search", "plan_map", "execute_map_tools",
              "compose_answer"}

KeepsCitations(g) == AsksModel(g) /\ told.citation => g.citations # "NONE"

ExecCites(e) ==
  /\ e.pc \in {"NODE", "RECORD", "INVOKE"} /\ e.node \in Retrieved => KeepsCitations(e.g)
  /\ e.pc \in {"EMIT", "SAVE"} /\ e.node \notin {"route_intent", "compose_answer"}
       => KeepsCitations(e.g)
  /\ e.pc = "RAISED" /\ e.cause = "ANSWER" => AsksModel(e.g) /\ KeepsCitations(e.g)
  /\ e.pc = "FAIL" /\ e.cause = "ANSWER" => ~told.citation

ExecutionsCite == ~overlap => \A x \in Caller : ExecCites(exec[x])

ThreadCites ==
  Alone =>
    /\ checkpoint.next \in Retrieved /\ ~checkpoint.saved => KeepsCitations(checkpoint.state)
    /\ checkpoint.next \notin {"route_intent", "compose_answer", "END"} /\ checkpoint.saved
         => KeepsCitations(checkpoint.after)

CitesInv == ExecutionsCite /\ ThreadCites

LEMMA KeepingSame ==
  ASSUME told'.citation = told.citation
  PROVE  \A g : KeepsCitations(g)' = KeepsCitations(g)
BY DEF KeepsCitations, AsksModel

LEMMA TrackedKeeps ==
  ASSUME NEW g \in GraphState, KeepsCitations(g)
  PROVE  KeepsCitations(Tracked(g))
BY TrackedMap DEF KeepsCitations, AsksModel

LEMMA OthersCite ==
  ASSUME NEW x \in Caller, Alonely(x), ExecCites(exec[x])',
         \A y \in Caller : y # x => exec'[y] = exec[y]
  PROVE  ExecutionsCite'
<1> SUFFICES ASSUME NEW y \in Caller, y # x PROVE ExecCites(exec[y])'
  BY DEF ExecutionsCite
<1>1. exec'[y].pc \in {"IDLE", "ENDED"}
  BY DEF Alonely
<1>2. QED  BY <1>1 DEF ExecCites

\* x works on, and the thread is left alone.
LEMMA QuietlyCites ==
  ASSUME CitesInv, NEW x \in Caller, Alonely(x), told'.citation = told.citation,
         UNCHANGED <<checkpoint, overlap>>, \A y \in Caller : y # x => exec'[y] = exec[y],
         exec'[x].pc \notin {"IDLE", "PREPARE"}, ExecCites(exec[x])'
  PROVE  CitesInv'
<1>1. Alone' => Alone
  BY Callers DEF Alone
<1>2. ThreadCites'
  BY <1>1, KeepingSame DEF CitesInv, ThreadCites
<1>3. QED  BY <1>2, OthersCite DEF CitesInv

LEMMA WhatCites ==
  ASSUME CitesInv, OneAtATime, ~overlap, NEW x \in Caller, exec[x].pc \notin {"IDLE", "ENDED"}
  PROVE  /\ Alonely(x) /\ ExecCites(exec[x])
         /\ (x = 1 => Alone)
BY AloneAtWork DEF CitesInv, ExecutionsCite, Alone

LEMMA BeginsCiting ==
  ASSUME WorkflowInv, OneAtATime, ShownInv, CitesInv, ~overlap', NEW x \in Caller,
         Claim(x) \/ Prepare(x) \/ SaveInput(x)
  PROVE  CitesInv'
<1>1. CASE Claim(x)
  <2>1. /\ Moves(x, "PREPARE", "END", NoState, 0, <<>>, "NONE", {})
        /\ UNCHANGED <<told, checkpoint>>
    BY <1>1, ClaimShape DEF runVars
  <2>2. Alonely(x) /\ ~overlap /\ (x = 1 => exec[2].pc = "IDLE")
    BY <1>1, ClaimsAlone
  <2>3. ExecCites(exec[x])'
    BY <2>1 DEF Moves, ExecCites
  <2>4. Alone
    BY <1>1, <2>2, Callers, ClaimShape DEF Alone
  <2>5. ThreadCites'
    BY <2>1, <2>4, KeepingSame DEF CitesInv, ThreadCites
  <2>6. QED  BY <2>1, <2>2, <2>3, <2>5, OthersCite DEF CitesInv, Moves
<1>2. CASE Prepare(x)
  <2>1. /\ exec[x].pc = "PREPARE" /\ ~overlap /\ told'.citation = told.citation
        /\ checkpoint' = IF Last(x) THEN Forgotten ELSE checkpoint
        /\ overlap' = overlap
    BY <1>2, PrepareShape
  <2>2. Alonely(x) /\ Alone
    BY <2>1, WhatCites, Callers DEF Alone
  <2>3. /\ checkpoint.next \in Retrieved /\ ~checkpoint.saved => KeepsCitations(checkpoint.state)
        /\ checkpoint.next \notin {"route_intent", "compose_answer", "END"} /\ checkpoint.saved
             => KeepsCitations(checkpoint.after)
    BY <2>2 DEF CitesInv, ThreadCites
  <2>4. PICK pc, node, g :
          /\ pc \in {"INPUT", "COMPLETE", "EMIT", "NODE"}
          /\ Moves(x, pc, node, g, 0, <<>>, "NONE", {})
          /\ pc \in {"EMIT", "NODE"} => node = checkpoint.next /\ checkpoint.next # "END"
          /\ pc = "EMIT" => checkpoint.saved /\ g = checkpoint.after
          /\ pc = "NODE" => ~checkpoint.saved /\ g = checkpoint.state
    <3>1. CASE ~exec[x].resume
      BY <1>2, <3>1, PrepareShape
    <3>2. CASE exec[x].resume /\ checkpoint.next = "END"
      BY <1>2, <3>2, PrepareShape
    <3>3. CASE exec[x].resume /\ checkpoint.next # "END"
      BY <1>2, <3>3, PrepareShape
    <3>4. QED  BY <3>1, <3>2, <3>3
  <2>5. /\ exec'[x].pc = pc /\ exec'[x].node = node /\ exec'[x].g = g
        /\ \A y \in Caller : y # x => exec'[y] = exec[y]
    BY <2>4 DEF Moves
  <2>6. ExecCites(exec[x])'
    BY <2>1, <2>3, <2>4, <2>5, KeepingSame DEF ExecCites
  <2>7. CASE x = 1
    BY <2>1, <2>2, <2>4, <2>5, <2>6, <2>7, LastIsSecond, QuietlyCites
  <2>8. CASE x = 2
    BY <2>2, <2>4, <2>5, <2>6, <2>8, OthersCite DEF CitesInv, ThreadCites, Alone
  <2>9. QED  BY <2>7, <2>8, Callers
<1>3. CASE SaveInput(x)
  <2>1. /\ exec'[x].pc = "NODE" /\ exec'[x].node = "route_intent"
        /\ \A y \in Caller : y # x => exec'[y] = exec[y]
        /\ exec[x].pc = "INPUT" /\ SaveThread(exec[x].g, "route_intent")
        /\ UNCHANGED <<told, overlap>>
    BY <1>3, SaveInputShape DEF historyVars, Moves
  <2>2. Alonely(x)
    BY <2>1, WhatCites
  <2>3. ExecCites(exec[x])'
    BY <2>1 DEF ExecCites, Retrieved
  <2>4. ThreadCites'
    BY <2>1, ThreadAfter, ForgottenMap DEF ThreadCites, Retrieved
  <2>5. QED  BY <2>1, <2>2, <2>3, <2>4, OthersCite DEF CitesInv
<1>4. QED  BY <1>1, <1>2, <1>3

LEMMA NodesCite ==
  ASSUME WorkflowInv, OneAtATime, CitesInv, ~overlap', NEW x \in Caller,
         RunNode(x) \/ NodeRaises(x) \/ RunTimeout(x)
  PROVE  CitesInv'
<1>1. CASE \/ RouteIntent(x) \/ RetrieveKnowledge(x) \/ LoadCatalog(x)
           \/ PlanHousingSearch(x) \/ PlanMap(x) \/ BuildMapResult(x) \/ ComposeAnswer(x)
  <2>1. exec[x].pc = "NODE" /\ UNCHANGED <<told, checkpoint, overlap>>
    BY <1>1, NodeShape DEF NodeFrame, runVars, historyVars
  <2>2. PICK h : Returns(x, h) /\ Makes(exec[x].node, exec[x].g, h)
    BY <1>1, NodeShape
  <2>3. Alonely(x) /\ ExecCites(exec[x])
    BY <2>1, WhatCites
  <2>4. /\ exec'[x].pc = "EMIT" /\ exec'[x].node = exec[x].node /\ exec'[x].g = h
        /\ \A y \in Caller : y # x => exec'[y] = exec[y]
    BY <2>2 DEF Returns, Moves
  <2>5. exec[x].node \notin {"route_intent", "compose_answer"} => KeepsCitations(h)
    <3>1. CASE exec[x].node = "retrieve_knowledge"
      BY <2>2, <3>1 DEF Makes, KeepsCitations
    <3>2. CASE exec[x].node \in Retrieved \ {"compose_answer"}
      BY <2>1, <2>2, <2>3, <3>2 DEF Makes, KeepsCitations, AsksModel, ExecCites, Retrieved
    <3>3. exec[x].node \in Node
      BY <2>1, ExecutionOf DEF WorkflowInv, SoundExecution
    <3>4. QED  BY <3>1, <3>2, <3>3 DEF Node, Retrieved
  <2>6. ExecCites(exec[x])'
    BY <2>1, <2>4, <2>5, KeepingSame DEF ExecCites
  <2>7. QED  BY <2>1, <2>3, <2>4, <2>6, QuietlyCites
<1>2. CASE CheckTool(x) \/ StartTool(x) \/ FinishTool(x)
  <2>1. /\ exec'[x].pc \in {"NODE", "RECORD", "INVOKE"} /\ exec[x].pc \in {"NODE", "RECORD", "INVOKE"}
        /\ exec'[x].node = exec[x].node /\ exec'[x].g = exec[x].g
        /\ \A y \in Caller : y # x => exec'[y] = exec[y]
        /\ UNCHANGED <<told, checkpoint, overlap>>
    BY <1>2, CheckToolShape, StartToolShape, FinishToolShape
    DEF MovesTo, Moves, runVars, historyVars
  <2>2. Alonely(x) /\ ExecCites(exec[x])
    BY <2>1, WhatCites
  <2>3. ExecCites(exec[x])'
    BY <2>1, <2>2, KeepingSame DEF ExecCites
  <2>4. QED  BY <2>1, <2>2, <2>3, QuietlyCites
<1>3. CASE NodeRaises(x) \/ RunTimeout(x)
  <2>1. /\ exec'[x].pc = "RAISED" /\ exec[x].pc \notin {"IDLE", "ENDED"}
        /\ exec'[x].g = exec[x].g
        /\ exec'[x].cause = "ANSWER" =>
             exec[x].node = "compose_answer" /\ exec[x].pc = "NODE" /\ AsksModel(exec[x].g)
        /\ \A y \in Caller : y # x => exec'[y] = exec[y]
        /\ UNCHANGED <<told, checkpoint, overlap>>
    BY <1>3, RaiseShape, TimeoutShape DEF Moves, NodeFrame, runVars, historyVars
  <2>2. Alonely(x) /\ ExecCites(exec[x])
    BY <2>1, WhatCites
  <2>3. exec'[x].cause = "ANSWER" => AsksModel(exec[x].g) /\ KeepsCitations(exec[x].g)
    BY <2>1, <2>2 DEF ExecCites, Retrieved
  <2>4. ExecCites(exec[x])'
    BY <2>1, <2>3, KeepingSame DEF ExecCites, AsksModel
  <2>5. QED  BY <2>1, <2>2, <2>4, QuietlyCites
<1>4. QED  BY <1>1, <1>2, <1>3 DEF RunNode

LEMMA EndsCite ==
  ASSUME WorkflowInv, OneAtATime, CitesInv, ~overlap', NEW x \in Caller,
         PublishToolEvent(x) \/ End(x)
  PROVE  CitesInv'
<1>1. CASE PublishToolEvent(x) \/ CloseToolCall(x)
  <2>1. /\ exec'[x].pc = exec[x].pc /\ exec'[x].node = exec[x].node /\ exec'[x].g = exec[x].g
        /\ exec'[x].cause = exec[x].cause
        /\ exec[x].pc \in {"INVOKE", "EMIT", "RAISED", "FAIL"}
        /\ \A y \in Caller : y # x => exec'[y] = exec[y]
        /\ told'.citation = told.citation /\ UNCHANGED <<checkpoint, overlap>>
    BY <1>1, PublishShape, CloseShape DEF Moves, RestOfToldSame, historyVars
  <2>2. Alonely(x) /\ ExecCites(exec[x])
    BY <2>1, WhatCites
  <2>3. ExecCites(exec[x])'
    BY <2>1, <2>2, KeepingSame DEF ExecCites, AsksModel
  <2>4. QED  BY <2>1, <2>2, <2>3, QuietlyCites
<1>2. CASE Complete(x) \/ FailRun(x) \/ Cancel(x) \/ TooLate(x) \/ Stop(x)
  <2>1. /\ exec'[x].pc = "ENDED" /\ exec[x].pc \notin {"IDLE", "ENDED"}
        /\ \A y \in Caller : y # x => exec'[y] = exec[y]
        /\ UNCHANGED <<told, checkpoint, overlap>>
    BY <1>2, LeaveShape DEF Moves
  <2>2. QED  BY <2>1, WhatCites, QuietlyCites DEF ExecCites
<1>3. CASE Fallback(x)
  <2>1. /\ exec'[x].pc = "COMPLETE" /\ exec[x].pc = "RAISED"
        /\ \A y \in Caller : y # x => exec'[y] = exec[y]
        /\ UNCHANGED <<told, checkpoint, overlap>>
    BY <1>3, FallbackShape DEF Moves, NodeFrame, runVars, historyVars
  <2>2. QED  BY <2>1, WhatCites, QuietlyCites DEF ExecCites
<1>4. CASE FailBegin(x)
  <2>1. /\ exec'[x].pc = "FAIL" /\ exec'[x].cause = exec[x].cause
        /\ exec[x].pc = "RAISED"
        /\ ~(exec[x].cause = "ANSWER" /\ HasEvidence(exec[x].g))
        /\ \A y \in Caller : y # x => exec'[y] = exec[y]
        /\ UNCHANGED <<told, checkpoint, overlap>>
    BY <1>4, FailBeginShape DEF Moves, NodeFrame, runVars, historyVars
  <2>2. Alonely(x) /\ ExecCites(exec[x])
    BY <2>1, WhatCites
  <2>3. exec[x].cause = "ANSWER" => ~told.citation
    BY <2>1, <2>2 DEF ExecCites, KeepsCitations, HasEvidence
  <2>4. ExecCites(exec[x])'
    BY <2>1, <2>3 DEF ExecCites
  <2>5. QED  BY <2>1, <2>2, <2>4, QuietlyCites
<1>5. QED  BY <1>1, <1>2, <1>3, <1>4 DEF End

LEMMA EmitCites ==
  ASSUME WorkflowInv, OneAtATime, ShownInv, CitesInv, ~overlap', NEW x \in Caller, EmitUpdate(x)
  PROVE  CitesInv'
<1>1. /\ exec'[x].pc = "SAVE" /\ exec'[x].node = exec[x].node /\ exec'[x].g = exec[x].g
      /\ exec[x].pc = "EMIT" /\ \A y \in Caller : y # x => exec'[y] = exec[y]
      /\ \/ told'.citation = told.citation
         \/ exec[x].node = "retrieve_knowledge" /\ exec[x].g.citations # "NONE"
      /\ UNCHANGED <<checkpoint, overlap>>
  BY EmitShape DEF MovesTo, Moves, historyVars
<1>2. Alonely(x) /\ ExecCites(exec[x]) /\ (x = 1 => Alone)
  BY <1>1, WhatCites
<1>3. CASE told'.citation = told.citation
  <2>1. ExecCites(exec[x])'
    BY <1>1, <1>2, <1>3, KeepingSame DEF ExecCites
  <2>2. QED  BY <1>1, <1>2, <1>3, <2>1, QuietlyCites
<1>4. CASE exec[x].node = "retrieve_knowledge" /\ exec[x].g.citations # "NONE"
  <2>1. ExecCites(exec[x])'
    BY <1>1, <1>4 DEF ExecCites, KeepsCitations
  <2>2. ThreadCites'
    <3>1. CASE x = 2
      BY <1>1, <3>1 DEF ThreadCites, Alone
    <3>2. CASE x = 1
      <4>1. /\ checkpoint.next = "retrieve_knowledge"
            /\ checkpoint.saved => checkpoint.after \in {exec[1].g, Tracked(exec[1].g)}
        BY <1>1, <1>2, <1>4, <3>2 DEF ShownInv, ThreadFollows, InGraph
      <4>2. Tracked(exec[1].g).citations = exec[1].g.citations
        BY TypeOfExecution, TrackedMap, Callers
      <4>3. QED
        BY <1>1, <1>4, <3>2, <4>1, <4>2 DEF ThreadCites, KeepsCitations, Retrieved
    <3>3. QED  BY <3>1, <3>2, Callers
  <2>3. QED  BY <1>1, <1>2, <2>1, <2>2, OthersCite DEF CitesInv
<1>5. QED  BY <1>1, <1>3, <1>4

LEMMA SavesCite ==
  ASSUME WorkflowInv, OneAtATime, CitesInv, ~overlap', NEW x \in Caller,
         SaveWrites(x) \/ SaveCheckpoint(x)
  PROVE  CitesInv'
<1>1. exec[x].g \in GraphState
  BY TypeOfExecution
<1>2. CASE SaveWrites(x)
  <2>1. /\ exec[x].pc \in {"EMIT", "SAVE"} /\ checkpoint.next = exec[x].node
        /\ checkpoint'.next = checkpoint.next /\ checkpoint'.saved
        /\ checkpoint'.after \in {exec[x].g, Tracked(exec[x].g)}
        /\ UNCHANGED <<told, exec, overlap>>
    BY <1>2, SaveWritesShape DEF historyVars
  <2>2. Alonely(x) /\ ExecCites(exec[x])
    BY <2>1, WhatCites
  <2>3. ExecCites(exec[x])'
    BY <2>1, <2>2, KeepingSame DEF ExecCites, AsksModel
  <2>4. ThreadCites'
    <3>1. exec[x].node \notin {"route_intent", "compose_answer"} => KeepsCitations(checkpoint'.after)
      BY <1>1, <2>1, <2>2, TrackedKeeps DEF ExecCites
    <3>2. QED  BY <2>1, <3>1, KeepingSame DEF ThreadCites
  <2>5. QED  BY <2>1, <2>2, <2>3, <2>4, OthersCite DEF CitesInv
<1>3. CASE SaveCheckpoint(x)
  <2> DEFINE next == NextNode(exec[x].node, exec[x].g)
             pc == IF next = "END" THEN "COMPLETE" ELSE "NODE"
  <2>1. /\ Moves(x, pc, next, exec[x].g, exec[x].call, exec[x].queue, exec[x].cause, exec[x].open)
        /\ exec[x].pc = "SAVE" /\ exec[x].node \in Node
        /\ SaveThread(Tracked(exec[x].g), next)
        /\ UNCHANGED <<told, overlap>>
    BY <1>3, SaveCheckpointShape DEF historyVars
  <2>2. Alonely(x) /\ ExecCites(exec[x])
    BY <2>1, WhatCites
  <2>3. next \in Retrieved => KeepsCitations(exec[x].g)
    <3>1. CASE exec[x].node = "route_intent"
      BY <3>1 DEF NextNode, RouteBranch, AsksModel, Retrieved, KeepsCitations
    <3>2. CASE exec[x].node = "compose_answer"
      BY <3>2 DEF NextNode, Retrieved
    <3>3. CASE exec[x].node \notin {"route_intent", "compose_answer"}
      BY <2>1, <2>2, <3>3 DEF ExecCites
    <3>4. QED  BY <3>1, <3>2, <3>3
  <2>4. pc \in {"COMPLETE", "NODE"}
    OBVIOUS
  <2> HIDE DEF next, pc
  <2>5. /\ exec'[x].pc = pc /\ exec'[x].node = next /\ exec'[x].g = exec[x].g
        /\ \A y \in Caller : y # x => exec'[y] = exec[y]
    BY <2>1 DEF Moves
  <2>6. ExecCites(exec[x])'
    BY <2>1, <2>3, <2>4, <2>5, KeepingSame DEF ExecCites
  <2>7. ThreadCites'
    <3>1. next \in Retrieved => KeepsCitations(Tracked(exec[x].g))
      BY <1>1, <2>3, TrackedKeeps
    <3>2. \/ checkpoint'.next = "END" /\ ~checkpoint'.saved
          \/ /\ checkpoint'.state = Tracked(exec[x].g) /\ checkpoint'.next = next
             /\ ~checkpoint'.saved
      BY <2>1, ThreadAfter, ForgottenMap
    <3>3. QED  BY <2>1, <3>1, <3>2, KeepingSame DEF ThreadCites, Retrieved
  <2>8. QED  BY <2>2, <2>5, <2>6, <2>7, OthersCite DEF CitesInv
<1>4. QED  BY <1>2, <1>3

LEMMA StepCites ==
  ASSUME WorkflowInv, OneAtATime, ShownInv, CitesInv, [WorkflowNext]_workflowVars
  PROVE  CitesInv'
<1>1. CASE overlap'
  BY <1>1 DEF CitesInv, ExecutionsCite, ThreadCites, Alone
<1>2. CASE ~overlap'
  <2>1. CASE UNCHANGED <<told, checkpoint, exec, overlap>>
    <3>1. \A g : KeepsCitations(g)' = KeepsCitations(g)
      BY <2>1, KeepingSame
    <3>2. QED
      BY <2>1, <3>1 DEF CitesInv, ExecutionsCite, ExecCites, ThreadCites, Alone, AsksModel
  <2>2. QED
    BY <1>2, <2>1, BeginsCiting, NodesCite, EndsCite, EmitCites, SavesCite
    DEF WorkflowNext, Publish, CallTool, workflowVars, runVars, historyVars
<1>3. QED  BY <1>1, <1>2
-----------------------------------------------------------------------------
(* A run in which nothing has stopped has the first execution only *)

Unstopped ==
  stops = 0 => /\ ~overlap /\ exec[2].pc = "IDLE"
               /\ exec[1].pc = "ENDED" => ~Running

\* The execution that told the map result still has it.
MapKept ==
  stops = 0 /\ told.map = "NEW" =>
    LET e == exec[1] IN
    /\ e.pc \notin {"IDLE", "PREPARE", "INPUT"}
    /\ InGraph(e) => e.node = "compose_answer" \/ (AtTools(e) /\ e.pc = "SAVE")
    /\ InGraph(e) \/ (e.pc = "RAISED" /\ e.cause = "ANSWER") => e.g.mapResult = "NEW"
    /\ e.pc = "FAIL" => e.cause # "ANSWER"

EvidenceInv == CitesInv /\ Unstopped /\ MapKept /\ EvidenceSurvivesAnswerFailure

Works(x) ==
  \/ Prepare(x) \/ SaveInput(x) \/ RunNode(x) \/ NodeRaises(x) \/ RunTimeout(x)
  \/ Publish(x) \/ End(x)

\* What any step of an execution but its claim does to the rest.
LEMMA Working ==
  ASSUME WorkflowInv, RunInv, NEW x \in Caller, Works(x)
  PROVE  /\ exec[x].pc \notin {"IDLE", "ENDED"} /\ \A y \in Caller : y # x => exec'[y] = exec[y]
         /\ overlap' = overlap /\ stops' \in {stops, stops + 1}
         /\ exec'[x].pc = "ENDED" /\ stops' = stops => ~Running'
         /\ \/ Running
            \/ run' = run /\ told'.citation = told.citation /\ told'.map = told.map
         /\ run' = run \/ run'.status \in {"SUCCEEDED", "CANCELLED"} \/ FailRun(x)
<1>1. CASE Prepare(x)
  BY <1>1, PrepareShape DEF Moves
<1>2. CASE SaveInput(x)
  BY <1>2, SaveInputShape DEF Moves, historyVars
<1>3. CASE RunNode(x)
  <2>1. CASE \/ RouteIntent(x) \/ RetrieveKnowledge(x) \/ LoadCatalog(x)
             \/ PlanHousingSearch(x) \/ PlanMap(x) \/ BuildMapResult(x) \/ ComposeAnswer(x)
    BY <2>1, NodeShape DEF Returns, Moves, NodeFrame, runVars, historyVars
  <2>2. CASE CheckTool(x) \/ StartTool(x)
    BY <2>2, CheckToolShape, StartToolShape DEF MovesTo, Moves, historyVars
  <2>3. CASE FinishTool(x)
    BY <2>3, FinishToolShape DEF Moves, runVars, historyVars
  <2>4. QED  BY <1>3, <2>1, <2>2, <2>3 DEF RunNode
<1>4. CASE NodeRaises(x) \/ RunTimeout(x)
  BY <1>4, RaiseShape, TimeoutShape DEF Moves, NodeFrame, runVars, historyVars
<1>5. CASE PublishToolEvent(x) \/ CloseToolCall(x)
  BY <1>5, PublishShape, CloseShape DEF Moves, RestOfToldSame, historyVars
<1>6. CASE EmitUpdate(x)
  BY <1>6, EmitShape DEF MovesTo, Moves, historyVars
<1>7. CASE SaveWrites(x)
  BY <1>7, SaveWritesShape DEF historyVars
<1>8. CASE SaveCheckpoint(x)
  BY <1>8, SaveCheckpointShape DEF Moves, historyVars
<1>9. CASE Fallback(x) \/ FailBegin(x)
  BY <1>9, FallbackShape, FailBeginShape DEF Moves, NodeFrame, runVars, historyVars
<1>10. CASE Complete(x) \/ FailRun(x) \/ Cancel(x) \/ TooLate(x) \/ Stop(x)
  <2>1. /\ Moves(x, "ENDED", "END", NoState, 0, <<>>, "NONE", {})
        /\ exec[x].pc \notin {"IDLE", "ENDED"}
        /\ UNCHANGED <<told, checkpoint, overlap, replayed>>
    BY <1>10, LeaveShape
  <2>2. CASE Complete(x)
    <3>1. run'.status = "SUCCEEDED" /\ Running /\ UNCHANGED stops
      BY <2>2 DEF Complete, RunInv, historyVars
    <3>2. QED  BY <2>1, <3>1 DEF Moves, Running
  <2>3. CASE FailRun(x)
    <3>1. run'.status = "FAILED" /\ Running /\ UNCHANGED stops
      BY <2>3 DEF FailRun, historyVars
    <3>2. QED  BY <2>1, <2>3, <3>1 DEF Moves, Running
  <2>4. CASE Cancel(x)
    <3>1. run'.status = "CANCELLED" /\ Running /\ UNCHANGED stops
      BY <2>4 DEF Cancel, RunInv, historyVars
    <3>2. QED  BY <2>1, <3>1 DEF Moves, Running
  <2>5. CASE TooLate(x)
    BY <2>1, <2>5 DEF TooLate, Moves, runVars, historyVars, Running
  <2>6. CASE Stop(x)
    <3>1. stops' = stops + 1 /\ run' = run /\ stops' # stops
      BY <2>6 DEF Stop, runVars, RunInv
    <3>2. QED  BY <2>1, <3>1 DEF Moves
  <2>7. QED  BY <1>10, <2>2, <2>3, <2>4, <2>5, <2>6
<1>11. QED
  BY <1>1, <1>2, <1>3, <1>4, <1>5, <1>6, <1>7, <1>8, <1>9, <1>10 DEF Works, Publish, End

LEMMA Claiming ==
  ASSUME WorkflowInv, RunInv, NEW x \in Caller, Claim(x)
  PROVE  /\ Running /\ exec[x].pc = "IDLE" /\ exec'[x].pc = "PREPARE"
         /\ \A y \in Caller : y # x => exec'[y] = exec[y]
         /\ stops' \in {stops, stops + 1}
         /\ overlap => overlap'
         /\ stops' = 0 => x = 1 \/ exec[1].pc = "ENDED"
         /\ stops' = 0 => overlap' = overlap
         /\ UNCHANGED <<run, told>>
<1>1. /\ Running
      /\ stops' = IF x = 2 /\ exec[1].pc # "ENDED" THEN stops + 1 ELSE stops
      /\ overlap' = (overlap \/ (x = 2 /\ exec[1].pc # "ENDED"))
  BY DEF Claim
<1>2. stops \in Nat /\ stops + 1 # 0 /\ overlap \in BOOLEAN
  BY DEF RunInv
<1>3. /\ exec[x].pc = "IDLE" /\ exec'[x].pc = "PREPARE" /\ UNCHANGED <<run, told>>
      /\ \A y \in Caller : y # x => exec'[y] = exec[y]
  BY ClaimShape DEF Moves, runVars
<1>4. CASE x = 2 /\ exec[1].pc # "ENDED"
  <2>1. stops' = stops + 1 /\ overlap'
    BY <1>1, <1>4
  <2>2. QED  BY <1>1, <1>2, <1>3, <2>1
<1>5. CASE ~(x = 2 /\ exec[1].pc # "ENDED")
  <2>1. stops' = stops /\ overlap' = overlap
    BY <1>1, <1>2, <1>5
  <2>2. QED  BY <1>1, <1>2, <1>3, <1>5, <2>1, Callers
<1>6. QED  BY <1>4, <1>5

LEMMA StepUnstopped ==
  ASSUME WorkflowInv, RunInv, Unstopped, [WorkflowNext]_workflowVars
  PROVE  /\ Unstopped' /\ (stops' = 0 => stops = 0)
         /\ \A x \in Caller : stops' = 0 /\ (Claim(x) \/ Works(x)) => x = 1
<1>1. ASSUME NEW x \in Caller, Claim(x)
      PROVE  Unstopped' /\ (stops' = 0 => stops = 0) /\ (stops' = 0 => x = 1)
  <2>1. stops' = 0 => stops = 0
    <3>1. stops \in Nat
      BY DEF RunInv
    <3>2. stops' \in {stops, stops + 1}
      BY <1>1, Claiming
    <3>3. QED  BY <3>1, <3>2
  <2>2. stops' = 0 => x = 1
    BY <1>1, <2>1, Claiming DEF Unstopped
  <2>3. Unstopped'
    BY <1>1, <2>1, <2>2, Claiming, Callers DEF Unstopped
  <2>4. QED  BY <2>1, <2>2, <2>3
<1>2. ASSUME NEW x \in Caller, Works(x)
      PROVE  Unstopped' /\ (stops' = 0 => stops = 0) /\ (stops' = 0 => x = 1)
  <2>1. stops' = 0 => stops' = stops
    BY <1>2, Working DEF RunInv
  <2>2. stops' = 0 => x = 1
    BY <1>2, <2>1, Working, Callers DEF Unstopped
  <2>3. Unstopped'
    BY <1>2, <2>1, <2>2, Working, Callers DEF Unstopped
  <2>4. QED  BY <2>1, <2>2, <2>3
<1>3. ASSUME UNCHANGED <<run, exec, stops, overlap>>
      PROVE  Unstopped' /\ (stops' = 0 => stops = 0)
  <2>1. Running' = Running /\ stops' = stops /\ overlap' = overlap /\ exec' = exec
    BY <1>3 DEF Running
  <2>2. QED  BY <2>1 DEF Unstopped
<1>4. /\ Unstopped' /\ (stops' = 0 => stops = 0)
  BY <1>1, <1>2, <1>3
  DEF Works, WorkflowNext, CallTool, workflowVars, runVars, historyVars
<1>5. QED  BY <1>1, <1>2, <1>4

LEMMA MapToldBefore ==
  ASSUME WorkflowInv, RunInv, Unstopped, MapKept, [WorkflowNext]_workflowVars, stops' = 0,
         told'.map = "NEW"
  PROVE  MapKept'
<1>1. /\ stops = 0
      /\ \A x \in Caller : Claim(x) \/ Works(x) => x = 1
  BY StepUnstopped
<1> DEFINE e == exec[1]
<1>2. told.map = "NEW" =>
        /\ e.pc \notin {"IDLE", "PREPARE", "INPUT"}
        /\ InGraph(e) => e.node = "compose_answer" \/ (AtTools(e) /\ e.pc = "SAVE")
        /\ InGraph(e) \/ (e.pc = "RAISED" /\ e.cause = "ANSWER") => e.g.mapResult = "NEW"
        /\ e.pc = "FAIL" => e.cause # "ANSWER"
  BY <1>1 DEF MapKept
<1> HIDE DEF e
<1>3. 1 \in Caller
  BY Callers
<1>4. SUFFICES
        /\ exec'[1].pc \notin {"IDLE", "PREPARE", "INPUT"}
        /\ exec'[1].pc \in {"NODE", "RECORD", "INVOKE", "EMIT", "SAVE"} =>
             /\ exec'[1].node = "compose_answer" \/ (AtTools(exec[1])' /\ exec'[1].pc = "SAVE")
             /\ exec'[1].g.mapResult = "NEW"
        /\ exec'[1].pc = "RAISED" /\ exec'[1].cause = "ANSWER" => exec'[1].g.mapResult = "NEW"
        /\ exec'[1].pc = "FAIL" => exec'[1].cause # "ANSWER"
  BY DEF MapKept, InGraph
<1>5. CASE Claim(1) \/ Prepare(1) \/ SaveInput(1)
  <2>1. told'.map = told.map /\ e.pc \in {"IDLE", "PREPARE", "INPUT"}
    BY <1>3, <1>5, ClaimShape, PrepareShape, SaveInputShape DEF runVars, e
  <2>2. QED  BY <1>2, <2>1
<1>6. CASE \/ RouteIntent(1) \/ RetrieveKnowledge(1) \/ LoadCatalog(1)
           \/ PlanHousingSearch(1) \/ PlanMap(1) \/ BuildMapResult(1) \/ ComposeAnswer(1)
  <2>1. PICK h : Returns(1, h) /\ Makes(e.node, e.g, h)
    BY <1>3, <1>6, NodeShape DEF e
  <2>2. e.pc = "NODE" /\ told' = told
    BY <1>3, <1>6, NodeShape DEF NodeFrame, runVars, e
  <2>3. e.node = "compose_answer" /\ e.g.mapResult = "NEW"
    BY <1>2, <2>2 DEF InGraph
  <2>4. h.mapResult = "NEW"
    BY <2>1, <2>3 DEF Makes
  <2>5. QED  BY <2>1, <2>3, <2>4 DEF Returns, Moves, e
<1>7. CASE CheckTool(1) \/ StartTool(1) \/ FinishTool(1)
  <2>1. /\ told' = told /\ e.pc \in {"NODE", "RECORD", "INVOKE"}
        /\ exec'[1].pc \in {"NODE", "RECORD", "INVOKE"} /\ exec'[1].node = e.node /\ exec'[1].g = e.g
    BY <1>3, <1>7, CheckToolShape, StartToolShape, FinishToolShape DEF MovesTo, Moves, runVars, e
  <2>2. QED  BY <1>2, <2>1 DEF InGraph
<1>8. CASE NodeRaises(1) \/ RunTimeout(1)
  <2>1. /\ told' = told
        /\ exec'[1].pc = "RAISED" /\ exec'[1].g = e.g
        /\ exec'[1].cause = "ANSWER" => e.pc = "NODE"
    BY <1>3, <1>8, RaiseShape, TimeoutShape DEF Moves, NodeFrame, runVars, e
  <2>2. QED  BY <1>2, <2>1 DEF InGraph
<1>9. CASE PublishToolEvent(1) \/ CloseToolCall(1)
  <2>1. /\ told'.map = told.map
        /\ exec'[1].pc = e.pc /\ exec'[1].node = e.node /\ exec'[1].g = e.g
        /\ exec'[1].cause = e.cause
    BY <1>3, <1>9, PublishShape, CloseShape DEF Moves, RestOfToldSame, e
  <2>2. QED  BY <1>2, <2>1 DEF InGraph, AtTools
<1>10. CASE EmitUpdate(1)
  <2>1. /\ exec'[1].pc = "SAVE" /\ exec'[1].node = e.node /\ exec'[1].g = e.g
        /\ e.pc = "EMIT"
        /\ told'.map = told.map \/ (AtTools(e) /\ told'.map = e.g.mapResult)
    BY <1>3, <1>10, EmitShape DEF MovesTo, Moves, e
  <2>2. CASE told'.map = told.map
    BY <1>2, <2>1, <2>2 DEF InGraph
  <2>3. CASE AtTools(e) /\ told'.map = e.g.mapResult
    BY <2>1, <2>3 DEF AtTools
  <2>4. QED  BY <2>1, <2>2, <2>3
<1>11. CASE SaveWrites(1)
  <2>1. told' = told /\ exec' = exec
    BY <1>3, <1>11, SaveWritesShape
  <2>2. QED  BY <1>2, <2>1 DEF InGraph, AtTools, e
<1>12. CASE SaveCheckpoint(1)
  <2> DEFINE next == NextNode(e.node, e.g)
             pc == IF next = "END" THEN "COMPLETE" ELSE "NODE"
  <2>1. /\ exec'[1].pc = pc /\ exec'[1].node = next /\ exec'[1].g = e.g
        /\ e.pc = "SAVE" /\ told' = told
    BY <1>3, <1>12, SaveCheckpointShape DEF Moves, e
  <2>2. e.g.mapResult = "NEW" /\ e.node \in {"compose_answer", "execute_map_tools"}
    BY <1>2, <2>1 DEF InGraph, AtTools
  <2>3. next \in {"compose_answer", "END"}
    BY <2>2 DEF NextNode
  <2> HIDE DEF next
  <2>4. QED  BY <2>1, <2>2, <2>3
<1>13. CASE Fallback(1) \/ FailBegin(1)
  <2>1. /\ told' = told /\ e.pc = "RAISED"
        /\ \/ exec'[1].pc = "COMPLETE"
           \/ /\ exec'[1].pc = "FAIL" /\ exec'[1].cause = e.cause
              /\ ~(e.cause = "ANSWER" /\ HasEvidence(e.g))
    BY <1>3, <1>13, FallbackShape, FailBeginShape DEF Moves, NodeFrame, runVars, e
  <2>2. QED  BY <1>2, <2>1 DEF HasEvidence
<1>14. CASE Complete(1) \/ FailRun(1) \/ Cancel(1) \/ TooLate(1) \/ Stop(1)
  BY <1>3, <1>14, LeaveShape DEF Moves
<1>15. CASE UNCHANGED <<told, exec>>
  BY <1>2, <1>15 DEF InGraph, AtTools, e
<1>16. QED
  <2>1. CASE \E x \in Caller : Claim(x) \/ Works(x)
    <3>1. Claim(1) \/ Works(1)
      BY <1>1, <2>1
    <3>2. QED
      BY <3>1, <1>5, <1>6, <1>7, <1>8, <1>9, <1>10, <1>11, <1>12, <1>13, <1>14
      DEF Works, RunNode, Publish, End
  <2>2. QED
    BY <1>15, <2>1 DEF Works, WorkflowNext, CallTool, workflowVars, runVars

LEMMA StepMapKept ==
  ASSUME WorkflowInv, RunInv, Unstopped, MapKept, [WorkflowNext]_workflowVars
  PROVE  MapKept'
BY MapToldBefore DEF MapKept

LEMMA StepSurvives ==
  ASSUME WorkflowInv, RunInv, EvidenceInv, [WorkflowNext]_workflowVars
  PROVE  EvidenceSurvivesAnswerFailure'
<1>1. /\ overlap => overlap'
      /\ stops \in Nat /\ (stops > 0 => stops' > 0)
  <2>1. stops \in Nat
    BY DEF RunInv
  <2>2. CASE \E x \in Caller : Claim(x) \/ Works(x)
    <3>1. (overlap => overlap') /\ stops' \in {stops, stops + 1}
      BY <2>2, Claiming, Working
    <3>2. QED  BY <2>1, <3>1
  <2>3. CASE UNCHANGED <<overlap, stops>>
    BY <2>1, <2>3
  <2>4. QED
    BY <2>2, <2>3 DEF Works, WorkflowNext, CallTool, workflowVars, historyVars
<1>2. CASE UNCHANGED <<run, told>> \/ run'.status \in {"RUNNING", "SUCCEEDED", "CANCELLED"}
  BY <1>1, <1>2 DEF EvidenceInv, EvidenceSurvivesAnswerFailure
<1>3. ASSUME NEW x \in Caller, FailRun(x)
      PROVE  EvidenceSurvivesAnswerFailure'
  <2> SUFFICES ASSUME run'.cause = "ANSWER", ~overlap'
               PROVE  ~told'.citation /\ (told'.map = "NEW" => stops' > 0)
    BY DEF EvidenceSurvivesAnswerFailure
  <2>1. /\ exec[x].pc = "FAIL" /\ exec[x].cause = "ANSWER" /\ UNCHANGED <<told, stops>>
    BY <1>3 DEF FailRun, historyVars
  <2>2. ~told.citation
    BY <1>1, <2>1 DEF EvidenceInv, CitesInv, ExecutionsCite, ExecCites
  <2>3. stops = 0 => told.map # "NEW"
    <3>1. stops = 0 => x = 1
      BY <2>1, Callers DEF EvidenceInv, Unstopped
    <3>2. QED  BY <2>1, <3>1 DEF EvidenceInv, MapKept
  <2>4. QED  BY <1>1, <2>1, <2>2, <2>3
<1>4. ASSUME NEW x \in Caller, Works(x), ~FailRun(x)
      PROVE  EvidenceSurvivesAnswerFailure'
  <2>1. CASE Running /\ run' = run
    BY <1>2, <2>1 DEF Running
  <2>2. CASE run'.status \in {"SUCCEEDED", "CANCELLED"}
    BY <1>2, <2>2
  <2>3. CASE run' = run /\ told'.citation = told.citation /\ told'.map = told.map
    BY <1>1, <2>3 DEF EvidenceInv, EvidenceSurvivesAnswerFailure
  <2>4. QED  BY <1>4, <2>1, <2>2, <2>3, Working
<1>5. ASSUME NEW x \in Caller, Claim(x)
      PROVE  EvidenceSurvivesAnswerFailure'
  BY <1>2, <1>5, Claiming
<1>6. QED
  BY <1>2, <1>3, <1>4, <1>5 DEF Works, WorkflowNext, CallTool, workflowVars, runVars

LEMMA InitEvidence == WorkflowInit => EvidenceInv
<1> SUFFICES ASSUME WorkflowInit PROVE EvidenceInv
  OBVIOUS
<1>1. \A x \in Caller : exec[x].pc = "IDLE"
  BY DEF WorkflowInit, NoExecution
<1>2. /\ checkpoint.next = "END" /\ ~checkpoint.saved /\ run.status = "RUNNING"
      /\ told.map = "NONE" /\ ~overlap
  BY DEF WorkflowInit
<1>3. CitesInv
  BY <1>1, <1>2 DEF CitesInv, ExecutionsCite, ExecCites, ThreadCites, Retrieved
<1>4. Unstopped /\ MapKept /\ EvidenceSurvivesAnswerFailure
  BY <1>1, <1>2, Callers DEF Unstopped, MapKept, EvidenceSurvivesAnswerFailure
<1>5. QED  BY <1>3, <1>4 DEF EvidenceInv

\* When the call for the answer fails with an error that names it, the run fails only if
\* there was nothing to show: no citation, and no map result unless a resumed execution no
\* longer has it, for _complete_with_answer_fallback answers with what the turn has told.
\* Nothing is said of a run that its time limit or another error fails.
THEOREM EvidenceSurvives == WorkflowSpec => []EvidenceSurvivesAnswerFailure
<1>1. WorkflowInv /\ RunInv /\ OneAtATime /\ ShownInv /\ EvidenceInv /\ [WorkflowNext]_workflowVars
        => EvidenceInv'
  BY StepCites, StepUnstopped, StepMapKept, StepSurvives DEF EvidenceInv
<1>2. WorkflowSpec => []RunInv
  BY WorkflowInvariant, InitBounded, StepRun, PTL DEF WorkflowSpec
<1>3. WorkflowSpec => []OneAtATime
  <2>1. CleanInv => OneAtATime
    BY DEF CleanInv
  <2>2. QED
    BY <2>1, WorkflowInvariant, InitClean, StepClean, PTL DEF WorkflowSpec
<1>4. WorkflowSpec => []EvidenceInv
  BY <1>1, <1>2, <1>3, WorkflowInvariant, ShownInvariant, InitEvidence, PTL DEF WorkflowSpec
<1>5. EvidenceInv => EvidenceSurvivesAnswerFailure
  BY DEF EvidenceInv
<1>6. QED  BY <1>4, <1>5, PTL
=============================================================================
