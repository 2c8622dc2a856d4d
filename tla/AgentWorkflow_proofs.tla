------------------------ MODULE AgentWorkflow_proofs ------------------------
(***************************************************************************)
(* Proofs about AgentWorkflow, for every number of tool calls, retries,    *)
(* stops and overlaps, and any set of arguments.                           *)
(*                                                                         *)
(*   WorkflowInvariant    the types, and what the tool metrics are for     *)
(*   ToolCallsAgree       one set of arguments per toolCallId              *)
(*   CommitsOwnTurn       nothing of the previous turn is committed        *)
(***************************************************************************)
EXTENDS AgentWorkflow, FiniteSetTheorems, TLAPS

\* An execution that is at a node is at one of the graph; one that records a tool call,
\* or waits for it, has one of its calls.
SoundExecution ==
  {e \in Execution :
     /\ e.pc \in {"NODE", "INVOKE", "EMIT", "SAVE"} => e.node \in Node
     /\ e.pc = "RECORD" => e.node = "execute_map_tools" /\ e.call + 1 <= Len(e.g.plan)
     /\ e.pc = "INVOKE" => e.call + 1 \in Call}

ExecInv == exec \in [Caller -> SoundExecution]

ThreadInv ==
  checkpoint \in [state : GraphState, next : Node \union {"END"},
                  saved : BOOLEAN, after : GraphState]

\* The counters of tool events are unbounded here.
ToldInv ==
  told \in [started : BOOLEAN, route : BOOLEAN, citation : BOOLEAN, map : Tag,
            toolStarted : [Call -> Nat], toolCompleted : [Call -> Nat]]

MetricsInv == metrics \in [Call -> Arguments \union {NoArguments}]

\* The metrics of call c hold the arguments a, unless the call was raced for.
Recorded(c, a) == a # NoArguments /\ (c \in raced \/ metrics[c] = a)

\* Whatever was sent, or is going to be, is recorded.
ArgumentsInv ==
  /\ \A c \in Call : \A a \in service[c].received : Recorded(c, a)
  /\ \A q \in requests : Recorded(q.call, q.arguments)
  /\ \A x \in Caller : client[x].pc \in {"INVOKE", "LOOKUP"} =>
       client[x].call \in Call /\ Recorded(client[x].call, client[x].arguments)

ToolInv == ToolTypeOK /\ MetricsInv /\ ArgumentsInv

\* An execution that has read the metrics of its call may write them: they are as it
\* read them, or hold the same arguments; and so does another that has read them.
Records(x, c) == exec[x].pc = "RECORD" /\ CurrentCall(x) = c

RecordInv ==
  \A c \in Call \ raced : \A x \in Caller : Records(x, c) =>
    /\ metrics[c] \in {NoArguments, exec[x].g.plan[c]}
    /\ \A y \in Caller : Records(y, c) => exec[y].g.plan[c] = exec[x].g.plan[c]

WorkflowInv == ExecInv /\ ThreadInv /\ ToldInv /\ ToolInv
-----------------------------------------------------------------------------
(* Plans and calls *)

LEMMA CallsAreNumbers ==
  /\ Call \subseteq Nat \ {0}
  /\ 1 \in Call
  /\ \A n \in Call : 1 .. n \subseteq Call
<1> DEFINE k == Cardinality(Call)
<1>1. k \in Nat
  BY WorkflowAssumption, FS_CardinalityType DEF WorkflowAssumption
<1>2. Call = 1 .. k /\ Call # {}
  BY WorkflowAssumption DEF WorkflowAssumption
<1> HIDE DEF k
<1>3. QED  BY <1>1, <1>2

LEMMA PlannedCall ==
  ASSUME NEW g \in GraphState, NEW c \in Nat \ {0}, c <= Len(g.plan)
  PROVE  c \in Call /\ g.plan[c] \in Arguments
<1>1. PICK n \in {0} \union Call : g.plan \in [1 .. n -> Arguments]
  BY DEF GraphState
<1>2. n \in Nat /\ 1 .. n \subseteq Call
  BY CallsAreNumbers
<1>3. Len(g.plan) = n
  BY <1>1, <1>2
<1>4. QED  BY <1>1, <1>2, <1>3

LEMMA StatesOfGraph ==
  NoState \in GraphState /\ OldState \in GraphState
<1>1. <<>> \in [1 .. 0 -> Arguments]
  OBVIOUS
<1>2. <<>> \in UNION {[1 .. n -> Arguments] : n \in {0} \union Call}
  BY <1>1
<1>3. QED  BY <1>2 DEF GraphState, NoState, OldState, Tag, Intent

\* A change of one field of an execution.
LEMMA OneExecution ==
  ASSUME ExecInv, NEW x \in Caller, NEW e \in SoundExecution, exec' = [exec EXCEPT ![x] = e]
  PROVE  ExecInv'
BY DEF ExecInv

LEMMA NoExecutionIsSound ==
  NoExecution \in SoundExecution /\ [NoExecution EXCEPT !.pc = "ENDED"] \in SoundExecution
<1> DEFINE Events == Seq([event : {"toolStarted", "toolCompleted"}, call : Call])
<1>1. <<>> \in Events
  OBVIOUS
<1> HIDE DEF Events
<1>2. NoExecution \in Execution
  BY <1>1, StatesOfGraph DEF NoExecution, Execution, Events
<1>3. [NoExecution EXCEPT !.pc = "ENDED"] \in Execution
  BY <1>1, StatesOfGraph DEF NoExecution, Execution, Events
<1>4. QED  BY <1>2, <1>3 DEF SoundExecution, NoExecution

LEMMA ExecutionOf ==
  ASSUME ExecInv, NEW x \in Caller
  PROVE  exec[x] \in SoundExecution /\ exec[x] \in Execution /\ exec[x].g \in GraphState
BY DEF ExecInv, SoundExecution, Execution

\* The steps of an execution, without their frames.
LEMMA GotoKeeps ==
  ASSUME ExecInv, NEW x \in Caller, NEW pc, Goto(x, pc),
         pc \in {"IDLE", "PREPARE", "INPUT", "RAISED", "COMPLETE", "FAIL", "ENDED"}
           \/ (pc \in {"NODE", "EMIT", "SAVE"} /\ exec[x].node \in Node)
  PROVE  ExecInv'
<1>1. exec[x] \in SoundExecution
  BY ExecutionOf
<1>2. [exec[x] EXCEPT !.pc = pc] \in SoundExecution
  BY <1>1 DEF SoundExecution, Execution
<1>3. exec' = [exec EXCEPT ![x] = [exec[x] EXCEPT !.pc = pc]]
  BY DEF Goto
<1>4. QED  BY <1>2, <1>3, OneExecution

LEMMA UpdateKeeps ==
  ASSUME ExecInv, NEW x \in Caller, NEW g \in GraphState, Update(x, g), exec[x].node \in Node
  PROVE  ExecInv'
<1>1. exec[x] \in SoundExecution
  BY ExecutionOf
<1>2. [exec[x] EXCEPT !.pc = "EMIT", !.g = g] \in SoundExecution
  BY <1>1 DEF SoundExecution, Execution
<1>3. exec' = [exec EXCEPT ![x] = [exec[x] EXCEPT !.pc = "EMIT", !.g = g]]
  BY DEF Update
<1>4. QED  BY <1>2, <1>3, OneExecution

LEMMA RaiseKeeps ==
  ASSUME ExecInv, NEW x \in Caller, NEW cause \in {"ANSWER", "OTHER"}, Raise(x, cause)
  PROVE  ExecInv'
<1>1. exec[x] \in SoundExecution
  BY ExecutionOf
<1>2. [exec[x] EXCEPT !.pc = "RAISED", !.cause = cause] \in SoundExecution
  BY <1>1 DEF SoundExecution, Execution
<1>3. exec' = [exec EXCEPT ![x] = [exec[x] EXCEPT !.pc = "RAISED", !.cause = cause]]
  BY DEF Raise
<1>4. QED  BY <1>2, <1>3, OneExecution

LEMMA IdleClientIsIdle ==
  ASSUME ToolInv, NEW x \in Caller, client' = [client EXCEPT ![x] = IdleClient],
         UNCHANGED <<service, requests, metrics, raced>>
  PROVE  ToolInv'
BY ToolAssumption DEF ToolInv, ToolTypeOK, MetricsInv, ArgumentsInv, Recorded, IdleClient, Outcome,
  ToolAssumption

LEMMA ToolsUnchanged ==
  ASSUME ToolInv, UNCHANGED <<toolVars, metrics>>, raced \subseteq raced'
  PROVE  ToolInv'
BY DEF ToolInv, ToolTypeOK, MetricsInv, ArgumentsInv, Recorded, toolVars

LEMMA FrameKeeps ==
  ASSUME WorkflowInv, NodeFrame
  PROVE  ThreadInv' /\ ToldInv' /\ ToolInv'
BY ToolsUnchanged DEF WorkflowInv, NodeFrame, runVars, historyVars, ThreadInv, ToldInv

LEMMA LeaveKeeps ==
  ASSUME WorkflowInv, NEW x \in Caller, Leave(x), UNCHANGED <<metrics, raced>>
  PROVE  ExecInv' /\ ToolInv'
<1>1. ExecInv'
  BY NoExecutionIsSound, OneExecution DEF WorkflowInv, Leave
<1>2. ToolInv'
  BY IdleClientIsIdle DEF WorkflowInv, Leave
<1>3. QED  BY <1>1, <1>2
-----------------------------------------------------------------------------
(* The nodes *)

LEMMA PlanIsState ==
  ASSUME NEW g \in GraphState, NEW n \in Call, NEW a \in Arguments
  PROVE  [g EXCEPT !.plan = [c \in 1 .. n |-> a], !.planned = "NEW"] \in GraphState
<1> DEFINE p == [c \in 1 .. n |-> a]
<1>1. p \in UNION {[1 .. m -> Arguments] : m \in {0} \union Call}
  OBVIOUS
<1> HIDE DEF p
<1>2. [g EXCEPT !.plan = p, !.planned = "NEW"] \in GraphState
  BY <1>1 DEF GraphState, Tag
<1>3. QED  BY <1>2 DEF p

LEMMA NodesKeep ==
  ASSUME WorkflowInv, NEW x \in Caller,
         \/ RouteIntent(x) \/ RetrieveKnowledge(x) \/ LoadCatalog(x)
         \/ PlanHousingSearch(x) \/ PlanMap(x) \/ BuildMapResult(x) \/ ComposeAnswer(x)
  PROVE  WorkflowInv'
<1> DEFINE g == exec[x].g
<1>1. g \in GraphState /\ ExecInv
  BY ExecutionOf DEF WorkflowInv
<1> HIDE DEF g
<1>2. \E next \in GraphState : Update(x, next)
  <2>1. CASE RouteIntent(x)
    <3>1. <<>> \in UNION {[1 .. n -> Arguments] : n \in {0} \union Call}
      BY StatesOfGraph DEF GraphState, NoState
    <3>2. \A i \in Intent : NewTurnRouteUpdate(exec[x].g, i) \in GraphState
      BY <3>1 DEF NewTurnRouteUpdate, GraphState, Tag
    <3>3. PICK i \in IF overlap THEN SharedIntents ELSE Intent :
            Update(x, NewTurnRouteUpdate(exec[x].g, i))
      BY <2>1 DEF RouteIntent
    <3>4. QED  BY <3>2, <3>3, SharedIntentsAssumption DEF SharedIntentsAssumption
  <2>2. CASE RetrieveKnowledge(x)
    BY <1>1, <2>2 DEF RetrieveKnowledge, GraphState, Tag, g
  <2>3. CASE LoadCatalog(x)
    BY <1>1, <2>3 DEF LoadCatalog, g
  <2>4. CASE PlanHousingSearch(x) \/ PlanMap(x)
    <3>1. 1 \in Call
      BY CallsAreNumbers
    <3>2. PICK n \in Call, a \in Arguments :
            Update(x, [g EXCEPT !.plan = [c \in 1 .. n |-> a], !.planned = "NEW"])
      BY <2>4, <3>1 DEF PlanHousingSearch, PlanMap, Plan, g
    <3>3. QED  BY <1>1, <3>2, PlanIsState
  <2>5. CASE BuildMapResult(x)
    BY <1>1, <2>5 DEF BuildMapResult, GraphState, Tag, g
  <2>6. CASE ComposeAnswer(x)
    <3>1. \A tags : DerivedFrom(tags) \in Tag
      BY DEF DerivedFrom, Tag
    <3>2. FixedAnswer(g) \in GraphState
      BY <1>1, <3>1 DEF FixedAnswer, GraphState, Tag
    <3>3. UnsupportedAnswer(g) \in GraphState
      BY <1>1, <3>1 DEF UnsupportedAnswer, GraphState, Tag
    <3>4. SupportedAnswers(g) \subseteq GraphState
      <4>1. \A c \in Tag, t \in Tag : [g EXCEPT !.citations = c, !.answer = t] \in GraphState
        BY <1>1 DEF GraphState
      <4>2. g.citations \in Tag /\ "NONE" \in Tag
        BY <1>1 DEF GraphState, Tag
      <4>3. QED  BY <3>1, <4>1, <4>2 DEF SupportedAnswers
    <3>5. QED  BY <2>6, <3>2, <3>3, <3>4 DEF ComposeAnswer, g
  <2>7. QED  BY <2>1, <2>2, <2>3, <2>4, <2>5, <2>6
<1>3. exec[x].node \in Node
  BY DEF RouteIntent, RetrieveKnowledge, LoadCatalog, PlanHousingSearch, PlanMap, BuildMapResult,
    ComposeAnswer, At, Node
<1>4. NodeFrame
  BY DEF RouteIntent, RetrieveKnowledge, LoadCatalog, PlanHousingSearch, PlanMap, BuildMapResult,
    ComposeAnswer
<1>5. QED  BY <1>1, <1>2, <1>3, <1>4, UpdateKeeps, FrameKeeps DEF WorkflowInv

LEMMA NodeRaisesKeeps ==
  ASSUME WorkflowInv, NEW x \in Caller, NodeRaises(x)
  PROVE  WorkflowInv'
<1>1. \E cause \in {"ANSWER", "OTHER"} : Raise(x, cause)
  BY DEF NodeRaises, StartToolRaises, ToolsRaise, ModelRaises, SourceRaises
<1>2. NodeFrame
  BY DEF NodeRaises, StartToolRaises, ToolsRaise, ModelRaises, SourceRaises
<1>3. QED  BY <1>1, <1>2, RaiseKeeps, FrameKeeps DEF WorkflowInv
-----------------------------------------------------------------------------
(* The beginning of an execution *)

LEMMA ClaimKeeps ==
  ASSUME WorkflowInv, NEW x \in Caller, Claim(x)
  PROVE  WorkflowInv'
<1> DEFINE e == [NoExecution EXCEPT !.pc = "PREPARE", !.resume = told.started]
<1>1. e \in SoundExecution
  BY ZenonT(40), NoExecutionIsSound DEF WorkflowInv, ToldInv, SoundExecution, Execution, NoExecution
<1>2. exec' = [exec EXCEPT ![x] = e]
  BY DEF Claim
<1> HIDE DEF e
<1>3. ExecInv'
  BY <1>1, <1>2, OneExecution DEF WorkflowInv
<1>4. ToolInv' /\ ThreadInv' /\ ToldInv'
  BY ToolsUnchanged DEF WorkflowInv, Claim, runVars, ThreadInv, ToldInv
<1>5. QED  BY <1>3, <1>4 DEF WorkflowInv

LEMMA ThreadSaved ==
  ASSUME ThreadInv, NEW state \in GraphState, NEW next \in Node \union {"END"},
         checkpoint' \in {checkpoint, Forgotten, Checkpoint(state, next)}
  PROVE  ThreadInv'
<1>1. \A g \in GraphState, n \in Node \union {"END"} :
        Checkpoint(g, n) \in [state : GraphState, next : Node \union {"END"},
                             saved : BOOLEAN, after : GraphState]
  BY StatesOfGraph DEF Checkpoint
<1>2. QED  BY <1>1, StatesOfGraph DEF ThreadInv, Forgotten

LEMMA PrepareKeeps ==
  ASSUME WorkflowInv, NEW x \in Caller, Prepare(x)
  PROVE  WorkflowInv'
<1>1. /\ checkpoint.state \in GraphState /\ checkpoint.after \in GraphState
      /\ checkpoint.next \in Node \union {"END"} /\ checkpoint.saved \in BOOLEAN
  BY DEF WorkflowInv, ThreadInv
<1>2. NewInput \in SoundExecution
  <2>1. [checkpoint.state EXCEPT !.citations = "NONE"] \in GraphState
    BY <1>1 DEF GraphState, Tag
  <2>2. QED  BY ZenonT(40), <2>1, NoExecutionIsSound DEF NewInput, SoundExecution, Execution, NoExecution
<1>3. Resumed \in SoundExecution
  <2>1. ASSUME NEW pc \in {"COMPLETE", "EMIT", "NODE"}, NEW n \in Node \union {"END"},
               NEW g \in GraphState, pc = "COMPLETE" \/ n \in Node
        PROVE  [NoExecution EXCEPT !.pc = pc, !.node = n, !.g = g] \in SoundExecution
    BY ZenonT(40), <2>1, NoExecutionIsSound DEF SoundExecution, Execution, NoExecution
  <2> DEFINE pc == IF checkpoint.next = "END" THEN "COMPLETE"
                   ELSE IF checkpoint.saved THEN "EMIT" ELSE "NODE"
             g == IF checkpoint.saved THEN checkpoint.after ELSE checkpoint.state
  <2>2. pc \in {"COMPLETE", "EMIT", "NODE"} /\ g \in GraphState
    BY <1>1
  <2>3. pc = "COMPLETE" \/ checkpoint.next \in Node
    BY <1>1
  <2>4. Resumed = [NoExecution EXCEPT !.pc = pc, !.node = checkpoint.next, !.g = g]
    BY DEF Resumed
  <2> HIDE DEF pc, g
  <2>5. QED  BY <1>1, <2>1, <2>2, <2>3, <2>4
<1>4. ExecInv'
  BY <1>2, <1>3, OneExecution DEF WorkflowInv, Prepare
<1>5. ThreadInv'
  BY ThreadSaved, StatesOfGraph DEF WorkflowInv, Prepare
<1>6. ToldInv'
  BY DEF WorkflowInv, ToldInv, Prepare
<1>7. ToolInv'
  BY ToolsUnchanged DEF WorkflowInv, Prepare
<1>8. QED  BY <1>4, <1>5, <1>6, <1>7 DEF WorkflowInv

LEMMA SaveInputKeeps ==
  ASSUME WorkflowInv, NEW x \in Caller, SaveInput(x)
  PROVE  WorkflowInv'
<1> DEFINE e == [exec[x] EXCEPT !.pc = "NODE", !.node = "route_intent"]
<1>1. exec[x] \in SoundExecution /\ exec[x].g \in GraphState
  BY ExecutionOf DEF WorkflowInv
<1>2. e \in SoundExecution
  BY <1>1 DEF SoundExecution, Execution, Node
<1>3. exec' = [exec EXCEPT ![x] = e]
  BY DEF SaveInput
<1> HIDE DEF e
<1>4. ExecInv'
  BY <1>2, <1>3, OneExecution DEF WorkflowInv
<1>5. ThreadInv'
  BY <1>1, ThreadSaved DEF WorkflowInv, SaveInput, SaveThread, Node
<1>6. ToldInv' /\ ToolInv'
  BY ToolsUnchanged DEF WorkflowInv, ToldInv, SaveInput, historyVars
<1>7. QED  BY <1>4, <1>5, <1>6 DEF WorkflowInv
-----------------------------------------------------------------------------
(* Tool calls *)

\* record_tool_started has found no other arguments.
LEMMA CheckToolKeeps ==
  ASSUME WorkflowInv, NEW x \in Caller, CheckTool(x)
  PROVE  WorkflowInv'
<1> DEFINE e == [exec[x] EXCEPT !.pc = "RECORD"]
<1>1. exec[x] \in SoundExecution
  BY ExecutionOf DEF WorkflowInv
<1>2. e \in SoundExecution
  BY <1>1 DEF CheckTool, At, CurrentCall, SoundExecution, Execution
<1>3. exec' = [exec EXCEPT ![x] = e]
  BY DEF CheckTool, Goto
<1> HIDE DEF e
<1>4. ExecInv'
  BY <1>2, <1>3, OneExecution DEF WorkflowInv
<1>5. raced \subseteq raced'
  BY DEF CheckTool
<1>6. ToolInv' /\ ThreadInv' /\ ToldInv'
  BY <1>5, ToolsUnchanged DEF WorkflowInv, CheckTool, runVars, ThreadInv, ToldInv
<1>7. QED  BY <1>4, <1>6 DEF WorkflowInv

\* A call that is posted has its arguments recorded, before or with the request.
LEMMA PostKeeps ==
  ASSUME ToolInv, NEW x \in Caller, NEW c \in Call, NEW a \in Arguments,
         NEW n \in 0 .. MaxRetries, Post(x, c, a, n), raced' = raced,
         \/ metrics' = metrics
         \/ metrics' = [metrics EXCEPT ![c] = IF @ = NoArguments THEN a ELSE @],
         c \in raced \/ metrics'[c] = a
  PROVE  ToolInv'
<1>1. a # NoArguments
  BY ToolAssumption DEF ToolAssumption
<1>2. ToolTypeOK'
  BY DEF ToolInv, ToolTypeOK, Post, Outcome
<1>3. MetricsInv'
  BY DEF ToolInv, MetricsInv
<1>4. Recorded(c, a)'
  BY <1>1 DEF Recorded
<1>5. ASSUME NEW d \in Call, NEW b, Recorded(d, b)
      PROVE  Recorded(d, b)'
  BY <1>5 DEF ToolInv, MetricsInv, Recorded
<1>6. \A d \in Call : \A b \in service'[d].received : Recorded(d, b)'
  BY <1>5 DEF ToolInv, ArgumentsInv, Post
<1>7. \A q \in requests' : Recorded(q.call, q.arguments)'
  <2> TAKE q \in requests'
  <2>1. CASE q \in requests
    BY <1>5, <2>1 DEF ToolInv, ArgumentsInv, ToolTypeOK
  <2>2. CASE q = [call |-> c, arguments |-> a]
    BY <1>4, <2>2
  <2>3. QED  BY <2>1, <2>2 DEF Post
<1>8. ASSUME NEW y \in Caller, client'[y].pc \in {"INVOKE", "LOOKUP"}
      PROVE  client'[y].call \in Call /\ Recorded(client[y].call, client[y].arguments)'
  <2>1. CASE y = x
    <3>1. client'[y].call = c /\ client'[y].arguments = a
      BY <2>1 DEF ToolInv, ToolTypeOK, Post
    <3>2. QED  BY <1>4, <3>1 DEF Recorded
  <2>2. CASE y # x
    <3>1. client'[y] = client[y]
      BY <2>2 DEF ToolInv, ToolTypeOK, Post
    <3>2. QED  BY <1>5, <1>8, <3>1 DEF ToolInv, ArgumentsInv, Recorded
  <2>3. QED  BY <2>1, <2>2
<1>9. QED  BY <1>2, <1>3, <1>6, <1>7, <1>8 DEF ToolInv, ArgumentsInv

LEMMA StartToolKeeps ==
  ASSUME WorkflowInv, RecordInv, NEW x \in Caller, StartTool(x)
  PROVE  WorkflowInv'
<1> DEFINE c == CurrentCall(x)
           a == exec[x].g.plan[c]
           event == [event |-> "toolStarted", call |-> c]
           e == [exec[x] EXCEPT !.pc = "INVOKE", !.queue = Append(@, event)]
<1>1. exec[x] \in SoundExecution /\ exec[x].g \in GraphState /\ exec[x].call \in Nat
  <2>1. exec[x] \in SoundExecution /\ exec[x].g \in GraphState
    BY ExecutionOf DEF WorkflowInv
  <2>2. exec[x].call \in Call \union {0}
    BY <2>1 DEF SoundExecution, Execution
  <2>3. exec[x].call \in Nat
    <3>1. \A n \in Call \union {0} : n \in Nat
      BY CallsAreNumbers
    <3>2. QED  BY <2>2, <3>1
  <2>4. QED  BY <2>1, <2>3
<1>2. c \in Call /\ a \in Arguments
  <2>1. c \in Nat \ {0} /\ c <= Len(exec[x].g.plan)
    BY <1>1 DEF StartTool, CurrentCall, SoundExecution
  <2>2. QED  BY <1>1, <2>1, PlannedCall
<1>3. e \in SoundExecution
  <2>1. Append(exec[x].queue, event)
          \in Seq([event : {"toolStarted", "toolCompleted"}, call : Call])
    BY <1>1, <1>2 DEF SoundExecution, Execution
  <2>2. exec[x].node \in Node
    BY <1>1 DEF StartTool, SoundExecution, Node
  <2> HIDE DEF event
  <2>3. QED  BY <1>1, <1>2, <2>1, <2>2 DEF SoundExecution, Execution, CurrentCall
<1>4. exec' = [exec EXCEPT ![x] = e]
  BY DEF StartTool, Push
<1> HIDE DEF e
<1>5. ExecInv'
  BY <1>3, <1>4, OneExecution DEF WorkflowInv
<1>6. ToolInv'
  <2>1. /\ Post(x, c, a, 0) /\ raced' = raced
        /\ metrics' = [metrics EXCEPT ![c] = IF @ = NoArguments THEN a ELSE @]
    BY DEF StartTool, Invoke, historyVars
  <2>2. 0 \in 0 .. MaxRetries
    BY ToolAssumption DEF ToolAssumption
  <2>3. c \in raced \/ metrics[c] \in {NoArguments, a}
    BY <1>2 DEF StartTool, RecordInv, Records
  <2> HIDE DEF c, a
  <2>4. c \in raced \/ metrics'[c] = a
    BY <1>2, <2>1, <2>3 DEF WorkflowInv, ToolInv, MetricsInv
  <2>5. QED  BY <1>2, <2>1, <2>2, <2>4, PostKeeps DEF WorkflowInv
<1>7. ThreadInv' /\ ToldInv'
  BY DEF WorkflowInv, ThreadInv, ToldInv, StartTool
<1>8. QED  BY <1>5, <1>6, <1>7 DEF WorkflowInv

LEMMA FinishToolKeeps ==
  ASSUME WorkflowInv, NEW x \in Caller, FinishTool(x)
  PROVE  WorkflowInv'
<1> DEFINE c == CurrentCall(x)
           event == [event |-> "toolCompleted", call |-> c]
<1>1. exec[x] \in SoundExecution /\ exec[x].pc = "INVOKE"
  BY ExecutionOf DEF WorkflowInv, FinishTool
<1>2. c \in Call /\ exec[x].node \in Node
  BY <1>1 DEF SoundExecution, CurrentCall
<1>3. PICK s \in ToolStatus(client[x].outcome) :
        exec' = [exec EXCEPT ![x] = [exec[x] EXCEPT !.pc = "NODE", !.call = c,
                   !.succeeded = @ \/ s = "SUCCEEDED", !.queue = Append(@, event)]]
  <2>1. PICK s \in ToolStatus(client[x].outcome) :
          exec' = [exec EXCEPT ![x].pc = "NODE", ![x].call = c,
                     ![x].succeeded = @ \/ s = "SUCCEEDED", ![x].queue = Append(@, event)]
    BY DEF FinishTool, Push
  <2> HIDE DEF event, c
  <2>2. QED  BY <2>1
<1> DEFINE e == [exec[x] EXCEPT !.pc = "NODE", !.call = c,
                   !.succeeded = @ \/ s = "SUCCEEDED", !.queue = Append(@, event)]
<1>4. e \in SoundExecution
  <2>1. Append(exec[x].queue, event)
          \in Seq([event : {"toolStarted", "toolCompleted"}, call : Call])
    BY <1>1, <1>2 DEF SoundExecution, Execution
  <2>2. exec[x] \in Execution /\ exec[x].node \in Node /\ exec[x].g \in GraphState
    BY <1>1, <1>2 DEF SoundExecution, Execution
  <2> DEFINE b == exec[x].succeeded \/ s = "SUCCEEDED"
             q == Append(exec[x].queue, event)
  <2>3. e \in Execution
    <3>1. b \in BOOLEAN /\ q \in Seq([event : {"toolStarted", "toolCompleted"}, call : Call])
      BY <2>1
    <3>2. e = [exec[x] EXCEPT !.pc = "NODE", !.call = c, !.succeeded = b, !.queue = q]
      OBVIOUS
    <3> HIDE DEF b, q, c, e
    <3>3. QED  BY <1>2, <2>2, <3>1, <3>2 DEF Execution
  <2>4. e.pc = "NODE" /\ e.node = exec[x].node
    <3> HIDE DEF event, c
    <3>1. QED  BY <2>2 DEF Execution
  <2> HIDE DEF e
  <2>5. QED  BY <2>2, <2>3, <2>4 DEF SoundExecution
<1> HIDE DEF e
<1>5. ExecInv'
  BY <1>3, <1>4, OneExecution DEF WorkflowInv, e
<1>6. ToolInv'
  BY IdleClientIsIdle DEF WorkflowInv, FinishTool, runVars, historyVars
<1>7. ThreadInv' /\ ToldInv'
  BY DEF WorkflowInv, ThreadInv, ToldInv, FinishTool, runVars
<1>8. QED  BY <1>5, <1>6, <1>7 DEF WorkflowInv

LEMMA RunTimeoutKeeps ==
  ASSUME WorkflowInv, NEW x \in Caller, RunTimeout(x)
  PROVE  WorkflowInv'
<1> DEFINE e == [exec[x] EXCEPT !.pc = "RAISED", !.cause = "OTHER", !.queue = <<>>]
<1>1. exec[x] \in SoundExecution
  BY ExecutionOf DEF WorkflowInv
<1>2. e \in SoundExecution
  <2>1. <<>> \in Seq([event : {"toolStarted", "toolCompleted"}, call : Call])
    OBVIOUS
  <2>2. QED  BY <1>1, <2>1 DEF SoundExecution, Execution
<1>3. exec' = [exec EXCEPT ![x] = e]
  BY DEF RunTimeout
<1> HIDE DEF e
<1>4. ExecInv'
  BY <1>2, <1>3, OneExecution DEF WorkflowInv
<1>5. ToolInv'
  BY IdleClientIsIdle DEF WorkflowInv, RunTimeout, runVars, historyVars
<1>6. ThreadInv' /\ ToldInv'
  BY DEF WorkflowInv, ThreadInv, ToldInv, RunTimeout, runVars
<1>7. QED  BY <1>4, <1>5, <1>6 DEF WorkflowInv

\* A client that no longer posts.
LEMMA ClientMoves ==
  ASSUME ToolInv, NEW x \in Caller, NEW pc \in {"LOOKUP", "DONE"}, NEW outcome \in Outcome,
         client[x].pc \in {"INVOKE", "LOOKUP"},
         client' = [client EXCEPT ![x] = [client[x] EXCEPT !.pc = pc, !.outcome = outcome]],
         UNCHANGED <<service, requests, metrics, raced>>
  PROVE  ToolInv'
<1>1. ToolTypeOK'
  BY ZenonT(40) DEF ToolInv, ToolTypeOK
<1>2. ArgumentsInv'
  BY DEF ToolInv, ToolTypeOK, ArgumentsInv, Recorded
<1>3. QED  BY <1>1, <1>2 DEF ToolInv, MetricsInv

LEMMA CallToolKeeps ==
  ASSUME WorkflowInv, NEW x \in Caller, CallTool(x)
  PROVE  WorkflowInv'
<1>1. ToolInv /\ client[x].outcome \in Outcome /\ client[x].attempt \in 0 .. MaxRetries
  BY DEF WorkflowInv, ToolInv, ToolTypeOK
<1>2. metrics' = metrics /\ raced' = raced
  BY DEF CallTool, runVars, historyVars
<1>3. ToolInv'
  <2>1. ASSUME NEW outcome \in Outcome, Return(x, outcome), client[x].pc \in {"INVOKE", "LOOKUP"}
        PROVE  ToolInv'
    <3>1. client' = [client EXCEPT ![x] = [client[x] EXCEPT !.pc = "DONE", !.outcome = outcome]]
      BY <2>1 DEF Return
    <3>2. QED  BY <1>1, <1>2, <2>1, <3>1, ClientMoves DEF Return
  <2>2. CASE Answered(x) \/ Adopt(x)
    BY <2>1, <2>2 DEF Answered, Adopt, Outcome
  <2>3. CASE AnswerLost(x)
    <3>1. client' = [client EXCEPT ![x] = [client[x] EXCEPT !.pc = "LOOKUP",
                                                            !.outcome = client[x].outcome]]
      BY <1>1, <2>3 DEF AnswerLost, ToolInv, ToolTypeOK
    <3>2. QED  BY <1>1, <1>2, <2>3, <3>1, ClientMoves DEF AnswerLost
  <2>4. CASE PostAgain(x)
    <3> DEFINE c == client[x].call
               a == client[x].arguments
               n == client[x].attempt + 1
    <3>1. c \in Call /\ Recorded(c, a)
      BY <1>1, <2>4 DEF PostAgain, ToolInv, ArgumentsInv
    <3>2. a \in Arguments /\ (c \in raced \/ metrics'[c] = a)
      BY <1>1, <1>2, <3>1 DEF Recorded, ToolInv, ToolTypeOK
    <3>3. n \in 0 .. MaxRetries /\ Post(x, c, a, n)
      BY <1>1, <2>4, ToolAssumption DEF PostAgain, ToolAssumption
    <3> HIDE DEF c, a, n
    <3>4. QED  BY <1>1, <1>2, <3>1, <3>2, <3>3, PostKeeps
  <2>5. QED  BY <2>2, <2>3, <2>4 DEF CallTool, ClientStep
<1>4. ExecInv' /\ ThreadInv' /\ ToldInv'
  BY DEF WorkflowInv, ExecInv, ThreadInv, ToldInv, CallTool, runVars
<1>5. QED  BY <1>3, <1>4 DEF WorkflowInv

LEMMA ServiceStepKeeps ==
  ASSUME WorkflowInv, ServiceStep, UNCHANGED <<runVars, exec, historyVars>>
  PROVE  WorkflowInv'
<1>1. ToolInv /\ metrics' = metrics /\ raced' = raced
  BY DEF WorkflowInv, runVars, historyVars
<1>2. ToolInv'
  <2>1. CASE Serve
    <3>1. PICK q \in requests :
            /\ requests' = requests \ {q}
            /\ service' = [service EXCEPT ![q.call] =
                 [status |-> IF service[q.call].status = "NONE" THEN "RUNNING"
                             ELSE service[q.call].status,
                  arguments |-> IF service[q.call].status = "NONE" THEN q.arguments
                                ELSE service[q.call].arguments,
                  received |-> service[q.call].received \union {q.arguments}]]
            /\ client' = client
      BY <2>1 DEF Serve
    <3>2. q.call \in Call /\ q.arguments \in Arguments /\ Recorded(q.call, q.arguments)
      BY <1>1 DEF ToolInv, ToolTypeOK, ArgumentsInv
    <3>3. ToolTypeOK'
      BY <1>1, <3>1, <3>2 DEF ToolInv, ToolTypeOK
    <3>4. ArgumentsInv'
      BY <1>1, <3>1, <3>2 DEF ToolInv, ToolTypeOK, ArgumentsInv, Recorded
    <3>5. QED  BY <1>1, <3>3, <3>4 DEF ToolInv, MetricsInv
  <2>2. CASE FinishExecution
    BY <1>1, <2>2 DEF FinishExecution, ToolInv, ToolTypeOK, MetricsInv, ArgumentsInv, Recorded
  <2>3. QED  BY <2>1, <2>2 DEF ServiceStep
<1>3. ExecInv' /\ ThreadInv' /\ ToldInv'
  BY DEF WorkflowInv, ExecInv, ThreadInv, ToldInv, runVars
<1>4. QED  BY <1>2, <1>3 DEF WorkflowInv
-----------------------------------------------------------------------------
(* What the stream hands out *)

LEMMA PublishToolEventKeeps ==
  ASSUME WorkflowInv, NEW x \in Caller, PublishToolEvent(x)
  PROVE  WorkflowInv'
<1> DEFINE event == Head(exec[x].queue)
           e == [exec[x] EXCEPT !.queue = Tail(@)]
<1>1. exec[x] \in SoundExecution /\ exec[x].queue # <<>>
  BY ExecutionOf DEF WorkflowInv, PublishToolEvent
<1>2. exec[x].queue \in Seq([event : {"toolStarted", "toolCompleted"}, call : Call])
  BY <1>1 DEF SoundExecution, Execution
<1>3. event \in [event : {"toolStarted", "toolCompleted"}, call : Call]
  <2> DEFINE Event == [event : {"toolStarted", "toolCompleted"}, call : Call]
             q == exec[x].queue
  <2>1. q \in Seq(Event) /\ q # <<>>
    BY <1>1, <1>2
  <2> HIDE DEF Event, q
  <2>2. Head(q) \in Event
    BY <2>1
  <2>3. QED  BY <2>2 DEF q, Event
<1>4. e \in SoundExecution
  <2>1. Tail(exec[x].queue) \in Seq([event : {"toolStarted", "toolCompleted"}, call : Call])
    BY <1>1, <1>2
  <2>2. QED  BY <1>1, <2>1 DEF SoundExecution, Execution
<1>5. exec' = [exec EXCEPT ![x] = e]
  BY DEF PublishToolEvent
<1> HIDE DEF e
<1>6. ExecInv'
  BY <1>4, <1>5, OneExecution DEF WorkflowInv
<1>7. ToldInv'
  <2>1. CASE UNCHANGED told
    BY <2>1 DEF WorkflowInv, ToldInv
  <2>2. CASE told' = [told EXCEPT ![event.event][event.call] = @ + 1]
    <3> HIDE DEF event
    <3>1. CASE event.event = "toolStarted"
      <4>1. told' = [told EXCEPT !.toolStarted[event.call] = @ + 1]
        BY <2>2, <3>1
      <4>2. QED  BY <1>3, <4>1 DEF WorkflowInv, ToldInv
    <3>2. CASE event.event = "toolCompleted"
      <4>1. told' = [told EXCEPT !.toolCompleted[event.call] = @ + 1]
        BY <2>2, <3>2
      <4>2. QED  BY <1>3, <4>1 DEF WorkflowInv, ToldInv
    <3>3. QED  BY <1>3, <3>1, <3>2
  <2>3. QED  BY <2>1, <2>2 DEF PublishToolEvent
<1>8. ToolInv' /\ ThreadInv'
  BY ToolsUnchanged DEF WorkflowInv, ThreadInv, PublishToolEvent, historyVars
<1>9. QED  BY <1>6, <1>7, <1>8 DEF WorkflowInv

LEMMA EmitUpdateKeeps ==
  ASSUME WorkflowInv, NEW x \in Caller, EmitUpdate(x)
  PROVE  WorkflowInv'
<1>1. exec[x] \in SoundExecution /\ exec[x].g \in GraphState
  BY ExecutionOf DEF WorkflowInv
<1>2. exec[x].node \in Node
  BY <1>1 DEF SoundExecution, EmitUpdate
<1>3. ExecInv'
  BY <1>2, GotoKeeps DEF WorkflowInv, EmitUpdate
<1>4. ToldInv'
  <2>1. exec[x].g.mapResult \in Tag
    BY <1>1 DEF GraphState
  <2>2. told' = Tell(exec[x].node, exec[x].g)
    BY DEF EmitUpdate
  <2>3. QED  BY <2>1, <2>2 DEF Tell, WorkflowInv, ToldInv
<1>5. ToolInv' /\ ThreadInv'
  BY ToolsUnchanged DEF WorkflowInv, ThreadInv, EmitUpdate, historyVars
<1>6. QED  BY <1>3, <1>4, <1>5 DEF WorkflowInv

LEMMA TrackedIsState ==
  ASSUME NEW g \in GraphState
  PROVE  Tracked(g) \in GraphState
BY DEF Tracked, GraphState, Tag

LEMMA SaveWritesKeeps ==
  ASSUME WorkflowInv, NEW x \in Caller, SaveWrites(x)
  PROVE  WorkflowInv'
<1>1. exec[x].g \in GraphState /\ Tracked(exec[x].g) \in GraphState
  BY ExecutionOf, TrackedIsState DEF WorkflowInv
<1>2. ThreadInv'
  BY <1>1 DEF WorkflowInv, ThreadInv, SaveWrites
<1>3. ToolInv' /\ ExecInv' /\ ToldInv'
  BY ToolsUnchanged DEF WorkflowInv, ExecInv, ToldInv, SaveWrites, historyVars
<1>4. QED  BY <1>2, <1>3 DEF WorkflowInv

LEMMA NextNodeIsNode ==
  ASSUME NEW node \in Node, NEW g
  PROVE  NextNode(node, g) \in Node \union {"END"}
BY DEF NextNode, RouteBranch, AfterRetrieval, Node

LEMMA SaveCheckpointKeeps ==
  ASSUME WorkflowInv, NEW x \in Caller, SaveCheckpoint(x)
  PROVE  WorkflowInv'
<1> DEFINE next == NextNode(exec[x].node, exec[x].g)
           pc == IF next = "END" THEN "COMPLETE" ELSE "NODE"
           e == [exec[x] EXCEPT !.pc = pc, !.node = next]
<1>1. exec[x] \in SoundExecution /\ exec[x].g \in GraphState
  BY ExecutionOf DEF WorkflowInv
<1>2. next \in Node \union {"END"}
  <2>1. exec[x].node \in Node
    BY <1>1 DEF SoundExecution, SaveCheckpoint
  <2>2. QED  BY <2>1, NextNodeIsNode
<1>3. exec' = [exec EXCEPT ![x] = e] /\ SaveThread(Tracked(exec[x].g), next)
  BY DEF SaveCheckpoint
<1> HIDE DEF next
<1>4. e \in SoundExecution
  BY ZenonT(40), <1>1, <1>2 DEF SoundExecution, Execution
<1> HIDE DEF e
<1>5. ExecInv'
  BY <1>3, <1>4, OneExecution DEF WorkflowInv
<1>6. ThreadInv'
  BY <1>1, <1>2, <1>3, TrackedIsState, ThreadSaved DEF WorkflowInv, SaveThread
<1>7. ToolInv' /\ ToldInv'
  BY ToolsUnchanged DEF WorkflowInv, ToldInv, SaveCheckpoint, historyVars
<1>8. QED  BY <1>5, <1>6, <1>7 DEF WorkflowInv
-----------------------------------------------------------------------------
(* The end of an execution *)

LEMMA LeavesKeep ==
  ASSUME WorkflowInv, NEW x \in Caller,
         Complete(x) \/ FailRun(x) \/ Cancel(x) \/ TooLate(x) \/ Stop(x)
  PROVE  WorkflowInv'
<1>1. Leave(x) /\ UNCHANGED <<told, metrics, checkpoint, raced>>
  BY DEF Complete, FailRun, Cancel, TooLate, Stop, runVars, historyVars
<1>2. ExecInv' /\ ToolInv'
  BY <1>1, LeaveKeeps
<1>3. QED  BY <1>1, <1>2 DEF WorkflowInv, ThreadInv, ToldInv

LEMMA FallbackKeeps ==
  ASSUME WorkflowInv, NEW x \in Caller, Fallback(x)
  PROVE  WorkflowInv'
<1> DEFINE t == DerivedFrom(IF MapOnly(exec[x].g) THEN {exec[x].g.mapResult}
                            ELSE {exec[x].g.documents})
           g == [exec[x].g EXCEPT !.answer = t]
           e == [exec[x] EXCEPT !.pc = "COMPLETE", !.queue = <<>>, !.g = g]
<1>1. exec[x] \in SoundExecution /\ exec[x].g \in GraphState
  BY ExecutionOf DEF WorkflowInv
<1>2. exec' = [exec EXCEPT ![x] = e]
  BY DEF Fallback
<1>3. t \in Tag
  BY DEF DerivedFrom, Tag
<1> HIDE DEF t
<1>4. g \in GraphState
  BY <1>1, <1>3 DEF GraphState
<1> HIDE DEF g
<1>5. e \in SoundExecution
  <2>1. <<>> \in Seq([event : {"toolStarted", "toolCompleted"}, call : Call])
    OBVIOUS
  <2>2. QED  BY <1>1, <1>4, <2>1 DEF SoundExecution, Execution
<1> HIDE DEF e
<1>6. ExecInv'
  BY <1>2, <1>5, OneExecution DEF WorkflowInv
<1>7. QED  BY <1>6, FrameKeeps DEF WorkflowInv, Fallback

LEMMA FailBeginKeeps ==
  ASSUME WorkflowInv, NEW x \in Caller, FailBegin(x)
  PROVE  WorkflowInv'
<1> DEFINE e == [exec[x] EXCEPT !.pc = "FAIL", !.queue = <<>>, !.open = PendingToolCalls]
<1>1. exec[x] \in SoundExecution
  BY ExecutionOf DEF WorkflowInv
<1>2. e \in SoundExecution
  <2>1. <<>> \in Seq([event : {"toolStarted", "toolCompleted"}, call : Call])
    OBVIOUS
  <2>2. PendingToolCalls \subseteq Call
    BY DEF PendingToolCalls
  <2>3. QED  BY <1>1, <2>1, <2>2 DEF SoundExecution, Execution
<1>3. exec' = [exec EXCEPT ![x] = e]
  BY DEF FailBegin
<1> HIDE DEF e
<1>4. ExecInv'
  BY <1>2, <1>3, OneExecution DEF WorkflowInv
<1>5. QED  BY <1>4, FrameKeeps DEF WorkflowInv, FailBegin

LEMMA CloseToolCallKeeps ==
  ASSUME WorkflowInv, NEW x \in Caller, CloseToolCall(x)
  PROVE  WorkflowInv'
<1>1. exec[x] \in SoundExecution /\ exec[x].open \subseteq Call
  BY ExecutionOf DEF WorkflowInv, Execution
<1>2. PICK c \in exec[x].open :
        /\ told' = [told EXCEPT !.toolCompleted[c] = @ + 1]
        /\ exec' = [exec EXCEPT ![x] = [exec[x] EXCEPT !.open = @ \ {c}]]
  BY DEF CloseToolCall
<1>3. [exec[x] EXCEPT !.open = @ \ {c}] \in SoundExecution
  BY <1>1 DEF SoundExecution, Execution
<1>4. ExecInv'
  BY <1>2, <1>3, OneExecution DEF WorkflowInv
<1>5. ToldInv'
  BY <1>1, <1>2 DEF WorkflowInv, ToldInv
<1>6. ToolInv' /\ ThreadInv'
  BY ToolsUnchanged DEF WorkflowInv, ThreadInv, CloseToolCall, historyVars
<1>7. QED  BY <1>4, <1>5, <1>6 DEF WorkflowInv
-----------------------------------------------------------------------------
(* The theorems *)

LEMMA InitSound == WorkflowInit => WorkflowInv
<1> SUFFICES ASSUME WorkflowInit PROVE WorkflowInv
  OBVIOUS
<1>1. ExecInv
  BY NoExecutionIsSound DEF WorkflowInit, ExecInv
<1>2. ThreadInv
  BY StatesOfGraph DEF WorkflowInit, ThreadInv
<1>3. ToldInv
  BY DEF WorkflowInit, ToldInv, Tag
<1>4. ToolTypeOK
  BY ToolAssumption DEF WorkflowInit, ToolInit, ToolTypeOK, IdleClient, Outcome, Terminal,
    ToolAssumption
<1>5. MetricsInv /\ ArgumentsInv
  BY DEF WorkflowInit, ToolInit, MetricsInv, ArgumentsInv, IdleClient
<1>6. QED  BY <1>1, <1>2, <1>3, <1>4, <1>5 DEF WorkflowInv, ToolInv

LEMMA StepSound == WorkflowInv /\ RecordInv /\ [WorkflowNext]_workflowVars => WorkflowInv'
<1> SUFFICES ASSUME WorkflowInv, RecordInv, [WorkflowNext]_workflowVars PROVE WorkflowInv'
  OBVIOUS
<1>1. ASSUME NEW x \in Caller, RunNode(x)
      PROVE  WorkflowInv'
  BY <1>1, NodesKeep, CheckToolKeeps, StartToolKeeps, FinishToolKeeps DEF RunNode
<1>2. ASSUME NEW x \in Caller, Publish(x)
      PROVE  WorkflowInv'
  BY <1>2, PublishToolEventKeeps, EmitUpdateKeeps, SaveWritesKeeps, SaveCheckpointKeeps DEF Publish
<1>3. ASSUME NEW x \in Caller, End(x)
      PROVE  WorkflowInv'
  BY <1>3, LeavesKeep, FallbackKeeps, FailBeginKeeps, CloseToolCallKeeps DEF End
<1>4. CASE UNCHANGED workflowVars
  BY <1>4, ToolsUnchanged DEF workflowVars, runVars, historyVars, WorkflowInv, ExecInv, ThreadInv,
    ToldInv
<1>5. QED
  BY <1>1, <1>2, <1>3, <1>4, ClaimKeeps, PrepareKeeps, SaveInputKeeps, NodeRaisesKeeps,
     RunTimeoutKeeps, CallToolKeeps, ServiceStepKeeps
  DEF WorkflowNext

\* x goes on to something that is no writing of metrics.
LEMMA RecordsKept ==
  ASSUME RecordInv, NEW x \in Caller, NEW e, e.pc # "RECORD", WorkflowInv,
         exec' = [exec EXCEPT ![x] = e], UNCHANGED <<metrics, raced>>
  PROVE  RecordInv'
<1>1. exec'[x].pc # "RECORD" /\ \A y \in Caller : y # x => exec'[y] = exec[y]
  BY DEF WorkflowInv, ExecInv
<1>2. QED  BY <1>1 DEF RecordInv, Records, CurrentCall

LEMMA SameRecords ==
  ASSUME RecordInv, UNCHANGED <<exec, metrics, raced>>
  PROVE  RecordInv'
BY DEF RecordInv, Records, CurrentCall

LEMMA CheckToolRecords ==
  ASSUME WorkflowInv, RecordInv, NEW x \in Caller, CheckTool(x)
  PROVE  RecordInv'
<1> DEFINE d == CurrentCall(x)
<1>1. exec[x].pc = "NODE" /\ metrics' = metrics /\ raced \subseteq raced'
  BY DEF CheckTool, At, runVars
<1>2. /\ exec'[x].pc = "RECORD" /\ exec'[x].call = exec[x].call /\ exec'[x].g = exec[x].g
      /\ \A y \in Caller : y # x => exec'[y] = exec[y]
  BY ExecutionOf DEF CheckTool, Goto, WorkflowInv, ExecInv, Execution
<1>3. metrics[d] \in {NoArguments, exec[x].g.plan[d]}
  BY DEF CheckTool, ToolCallConflict
<1>4. ASSUME NEW y \in Caller, Records(y, d), d \notin raced'
      PROVE  exec[y].g.plan[d] = exec[x].g.plan[d]
  BY <1>4 DEF CheckTool, RecordsOther, Records
<1>5. \A y \in Caller : exec'[y].g = exec[y].g
  BY <1>2
<1>6. \A y \in Caller, c \in Call : Records(y, c)' <=> Records(y, c) \/ (y = x /\ c = d)
  BY <1>1, <1>2 DEF Records, CurrentCall
<1> HIDE DEF d
<1>7. ASSUME NEW c \in Call \ raced', NEW y \in Caller, Records(y, c)'
      PROVE  /\ metrics'[c] \in {NoArguments, exec'[y].g.plan[c]}
             /\ \A z \in Caller : Records(z, c)' => exec'[z].g.plan[c] = exec'[y].g.plan[c]
  <2>1. c \in Call \ raced
    BY <1>1, <1>7
  <2>2. CASE c # d
    BY <1>1, <1>5, <1>6, <1>7, <2>1, <2>2 DEF RecordInv
  <2>3. CASE c = d
    <3>1. \A z \in Caller : Records(z, c)' => exec[z].g.plan[c] = exec[x].g.plan[c]
      BY <1>4, <1>6, <1>7, <2>3
    <3>2. QED  BY <1>1, <1>3, <1>5, <1>7, <2>3, <3>1
  <2>4. QED  BY <2>2, <2>3
<1>8. QED  BY <1>7 DEF RecordInv

LEMMA StartToolRecords ==
  ASSUME WorkflowInv, RecordInv, NEW x \in Caller, StartTool(x)
  PROVE  RecordInv'
<1> DEFINE d == CurrentCall(x)
           a == exec[x].g.plan[d]
<1>1. exec'[x].pc = "INVOKE" /\ \A y \in Caller : y # x => exec'[y] = exec[y]
  BY ExecutionOf DEF StartTool, WorkflowInv, ExecInv, Execution
<1>2. Records(x, d) /\ raced' = raced
  BY DEF StartTool, Records, historyVars
<1>3. \A c \in Call : metrics'[c] = IF c = d /\ metrics[c] = NoArguments THEN a ELSE metrics[c]
  BY DEF StartTool, WorkflowInv, ToolInv, MetricsInv
<1>4. \A y \in Caller, c \in Call : Records(y, c)' => y # x /\ Records(y, c)
  BY <1>1 DEF Records, CurrentCall
<1>5. \A y \in Caller : y # x => exec'[y].g = exec[y].g
  BY <1>1
<1> HIDE DEF d
<1>6. ASSUME NEW c \in Call \ raced, NEW y \in Caller, y # x, Records(y, c)
      PROVE  metrics'[c] \in {NoArguments, exec[y].g.plan[c]}
  <2>1. metrics[c] \in {NoArguments, exec[y].g.plan[c]}
    BY <1>6 DEF RecordInv
  <2>2. c = d => exec[y].g.plan[c] = a
    BY <1>2, <1>6 DEF RecordInv
  <2>3. QED  BY <1>3, <2>1, <2>2
<1>7. QED  BY <1>2, <1>4, <1>5, <1>6 DEF RecordInv

\* Nobody else begins to record a call, or touches the metrics of one.
LEMMA RecordStep == WorkflowInv /\ RecordInv /\ [WorkflowNext]_workflowVars => RecordInv'
<1> SUFFICES ASSUME WorkflowInv, RecordInv, [WorkflowNext]_workflowVars PROVE RecordInv'
  OBVIOUS
<1>1. ASSUME NEW x \in Caller, Leave(x), UNCHANGED <<metrics, raced>>
      PROVE  RecordInv'
  <2> DEFINE e == [NoExecution EXCEPT !.pc = "ENDED"]
  <2>1. e.pc # "RECORD" /\ exec' = [exec EXCEPT ![x] = e]
    BY <1>1 DEF Leave, NoExecution
  <2> HIDE DEF e
  <2>2. QED  BY <1>1, <2>1, RecordsKept
<1>2. ASSUME NEW x \in Caller, NEW g, Update(x, g), NodeFrame
      PROVE  RecordInv'
  <2> DEFINE e == [exec[x] EXCEPT !.pc = "EMIT", !.g = g]
  <2>1. e.pc = "EMIT" /\ exec' = [exec EXCEPT ![x] = e]
    BY <1>2, ExecutionOf DEF Update, WorkflowInv, Execution
  <2> HIDE DEF e
  <2>2. QED  BY <1>2, <2>1, RecordsKept DEF NodeFrame, runVars, historyVars
<1>3. ASSUME NEW x \in Caller, RunNode(x)
      PROVE  RecordInv'
  <2>1. CASE CheckTool(x) \/ StartTool(x)
    BY <2>1, CheckToolRecords, StartToolRecords
  <2>2. CASE FinishTool(x)
    <3>1. PICK s : exec' = [exec EXCEPT ![x].pc = "NODE", ![x].call = CurrentCall(x),
                     ![x].succeeded = @ \/ s = "SUCCEEDED",
                     ![x].queue = Push(@, "toolCompleted", CurrentCall(x))]
      BY <2>2 DEF FinishTool
    <3> DEFINE e == [exec[x] EXCEPT !.pc = "NODE", !.call = CurrentCall(x),
                       !.succeeded = @ \/ s = "SUCCEEDED",
                       !.queue = Push(@, "toolCompleted", CurrentCall(x))]
    <3>2. e.pc = "NODE" /\ exec' = [exec EXCEPT ![x] = e]
      BY <3>1, ExecutionOf DEF WorkflowInv, Execution
    <3> HIDE DEF e
    <3>3. UNCHANGED <<metrics, raced>>
      BY <2>2 DEF FinishTool, runVars, historyVars
    <3>4. QED  BY <3>2, <3>3, RecordsKept
  <2>3. CASE RouteIntent(x) \/ RetrieveKnowledge(x) \/ LoadCatalog(x) \/ PlanHousingSearch(x)
             \/ PlanMap(x) \/ BuildMapResult(x) \/ ComposeAnswer(x)
    <3>1. (\E g : Update(x, g)) /\ NodeFrame
      BY <2>3 DEF RouteIntent, RetrieveKnowledge, LoadCatalog, PlanHousingSearch, PlanMap, Plan,
        BuildMapResult, ComposeAnswer
    <3>2. QED  BY <1>2, <3>1
  <2>4. QED  BY <1>3, <2>1, <2>2, <2>3 DEF RunNode
<1>4. ASSUME NEW x \in Caller, PublishToolEvent(x) \/ CloseToolCall(x)
      PROVE  RecordInv'
  <2>1. PICK e : exec' = [exec EXCEPT ![x] = e] /\ e.pc = exec[x].pc
    <3>1. CASE PublishToolEvent(x)
      <4> DEFINE e == [exec[x] EXCEPT !.queue = Tail(@)]
      <4>1. e.pc = exec[x].pc /\ exec' = [exec EXCEPT ![x] = e]
        BY <3>1, ExecutionOf DEF PublishToolEvent, WorkflowInv, Execution
      <4>2. QED  BY <4>1
    <3>2. CASE CloseToolCall(x)
      <4>1. PICK c : exec' = [exec EXCEPT ![x].open = @ \ {c}]
        BY <3>2 DEF CloseToolCall
      <4> DEFINE e == [exec[x] EXCEPT !.open = @ \ {c}]
      <4>2. e.pc = exec[x].pc /\ exec' = [exec EXCEPT ![x] = e]
        BY <4>1, ExecutionOf DEF WorkflowInv, Execution
      <4>3. QED  BY <4>2
    <3>3. QED  BY <1>4, <3>1, <3>2
  <2>2. exec[x].pc # "RECORD" /\ UNCHANGED <<metrics, raced>>
    BY <1>4 DEF PublishToolEvent, CloseToolCall, historyVars
  <2>3. QED  BY <2>1, <2>2, RecordsKept
<1>5. ASSUME NEW x \in Caller, EmitUpdate(x) \/ SaveCheckpoint(x) \/ SaveInput(x)
      PROVE  RecordInv'
  <2>1. PICK e : exec' = [exec EXCEPT ![x] = e] /\ e.pc # "RECORD"
    <3>1. CASE EmitUpdate(x)
      <4> DEFINE e == [exec[x] EXCEPT !.pc = "SAVE"]
      <4>1. e.pc = "SAVE" /\ exec' = [exec EXCEPT ![x] = e]
        BY <3>1, ExecutionOf DEF EmitUpdate, Goto, WorkflowInv, Execution
      <4>2. QED  BY <4>1
    <3>2. CASE SaveCheckpoint(x)
      <4> DEFINE n == NextNode(exec[x].node, exec[x].g)
                 pc == IF n = "END" THEN "COMPLETE" ELSE "NODE"
                 e == [exec[x] EXCEPT !.pc = pc, !.node = n]
      <4>1. exec' = [exec EXCEPT ![x] = e]
        BY <3>2 DEF SaveCheckpoint
      <4>2. pc # "RECORD"
        OBVIOUS
      <4> HIDE DEF n, pc
      <4>3. e.pc = pc
        BY ExecutionOf DEF WorkflowInv, Execution
      <4>4. QED  BY <4>1, <4>2, <4>3
    <3>3. CASE SaveInput(x)
      <4> DEFINE e == [exec[x] EXCEPT !.pc = "NODE", !.node = "route_intent"]
      <4>1. e.pc = "NODE" /\ exec' = [exec EXCEPT ![x] = e]
        BY <3>3, ExecutionOf DEF SaveInput, WorkflowInv, Execution
      <4>2. QED  BY <4>1
    <3>4. QED  BY <1>5, <3>1, <3>2, <3>3
  <2>2. UNCHANGED <<metrics, raced>>
    BY <1>5 DEF EmitUpdate, SaveCheckpoint, SaveInput, historyVars
  <2>3. QED  BY <2>1, <2>2, RecordsKept
<1>6. ASSUME NEW x \in Caller, SaveWrites(x)
      PROVE  RecordInv'
  BY <1>6, SameRecords DEF SaveWrites, historyVars
<1>7. ASSUME NEW x \in Caller, Complete(x) \/ FailRun(x) \/ Cancel(x) \/ TooLate(x) \/ Stop(x)
      PROVE  RecordInv'
  BY <1>1, <1>7 DEF Complete, FailRun, Cancel, TooLate, Stop, runVars, historyVars
<1>8. ASSUME NEW x \in Caller, Fallback(x) \/ FailBegin(x) \/ RunTimeout(x) \/ NodeRaises(x)
      PROVE  RecordInv'
  <2>1. PICK e : exec' = [exec EXCEPT ![x] = e] /\ e.pc # "RECORD"
    <3>1. CASE Fallback(x)
      <4>1. PICK t : exec' = [exec EXCEPT ![x].pc = "COMPLETE", ![x].queue = <<>>, ![x].g.answer = t]
        BY <3>1 DEF Fallback
      <4> DEFINE e == [exec[x] EXCEPT !.pc = "COMPLETE", !.queue = <<>>, !.g.answer = t]
      <4>2. e.pc = "COMPLETE" /\ exec' = [exec EXCEPT ![x] = e]
        BY <4>1, ExecutionOf DEF WorkflowInv, Execution
      <4>3. QED  BY <4>2
    <3>2. CASE FailBegin(x)
      <4> DEFINE e == [exec[x] EXCEPT !.pc = "FAIL", !.queue = <<>>, !.open = PendingToolCalls]
      <4>1. e.pc = "FAIL" /\ exec' = [exec EXCEPT ![x] = e]
        BY <3>2, ExecutionOf DEF FailBegin, WorkflowInv, Execution
      <4>2. QED  BY <4>1
    <3>3. CASE RunTimeout(x)
      <4> DEFINE e == [exec[x] EXCEPT !.pc = "RAISED", !.cause = "OTHER", !.queue = <<>>]
      <4>1. e.pc = "RAISED" /\ exec' = [exec EXCEPT ![x] = e]
        BY <3>3, ExecutionOf DEF RunTimeout, WorkflowInv, Execution
      <4>2. QED  BY <4>1
    <3>4. CASE NodeRaises(x)
      <4>1. PICK cause : Raise(x, cause)
        BY <3>4 DEF NodeRaises, StartToolRaises, ToolsRaise, ModelRaises, SourceRaises
      <4> DEFINE e == [exec[x] EXCEPT !.pc = "RAISED", !.cause = cause]
      <4>2. e.pc = "RAISED" /\ exec' = [exec EXCEPT ![x] = e]
        BY <4>1, ExecutionOf DEF Raise, WorkflowInv, Execution
      <4>3. QED  BY <4>2
    <3>5. QED  BY <1>8, <3>1, <3>2, <3>3, <3>4
  <2>2. UNCHANGED <<metrics, raced>>
    BY <1>8 DEF Fallback, FailBegin, RunTimeout, NodeRaises, StartToolRaises, ToolsRaise, ModelRaises,
      SourceRaises, NodeFrame, runVars, historyVars
  <2>3. QED  BY <2>1, <2>2, RecordsKept
<1>9. ASSUME NEW x \in Caller, Claim(x) \/ Prepare(x)
      PROVE  RecordInv'
  <2>1. PICK e : exec' = [exec EXCEPT ![x] = e] /\ e.pc # "RECORD"
    <3>1. CASE Claim(x)
      <4> DEFINE e == [NoExecution EXCEPT !.pc = "PREPARE", !.resume = told.started]
      <4>1. e.pc = "PREPARE" /\ exec' = [exec EXCEPT ![x] = e]
        BY <3>1 DEF Claim, NoExecution
      <4>2. QED  BY <4>1
    <3>2. CASE Prepare(x)
      <4>1. Resumed.pc # "RECORD" /\ NewInput.pc # "RECORD"
        BY DEF Resumed, NewInput, NoExecution
      <4>2. exec' = [exec EXCEPT ![x] = Resumed] \/ exec' = [exec EXCEPT ![x] = NewInput]
        BY <3>2 DEF Prepare
      <4>3. QED  BY <4>1, <4>2
    <3>3. QED  BY <1>9, <3>1, <3>2
  <2>2. UNCHANGED <<metrics, raced>>
    BY <1>9 DEF Claim, Prepare, runVars
  <2>3. QED  BY <2>1, <2>2, RecordsKept
<1>10. CASE UNCHANGED workflowVars \/ (ServiceStep /\ UNCHANGED <<runVars, exec, historyVars>>)
            \/ \E x \in Caller : CallTool(x)
  BY <1>10, SameRecords DEF workflowVars, CallTool, runVars, historyVars
<1>11. QED
  BY <1>3, <1>4, <1>5, <1>6, <1>7, <1>8, <1>9, <1>10 DEF WorkflowNext, Publish, End

LEMMA BothInvariants == WorkflowSpec => [](WorkflowInv /\ RecordInv)
<1>1. WorkflowInit => RecordInv
  BY DEF WorkflowInit, RecordInv, Records, NoExecution
<1>2. QED  BY <1>1, InitSound, StepSound, RecordStep, PTL DEF WorkflowSpec

\* The variables of a turn keep their types, an execution inside a node is at one of the
\* graph, and the tool metrics hold the arguments of every request of a call, sent or
\* received, whichever execution sent it: but of the calls that two executions raced for.
THEOREM WorkflowInvariant == WorkflowSpec => []WorkflowInv
<1>1. QED  BY BothInvariants, PTL

\* The service sees one set of arguments for a toolCallId: the metrics of the call refuse
\* others, whatever two executions planned and however often the client posts again, as
\* long as they do not both read the metrics of the call before either writes them.
THEOREM ToolCallsAgree == WorkflowSpec => []OneArgumentsPerCall
<1>1. WorkflowInv => OneArgumentsPerCall
  <2> SUFFICES ASSUME WorkflowInv, NEW c \in Call \ raced
               PROVE  Cardinality(service[c].received) <= 1
    BY DEF OneArgumentsPerCall
  <2>1. service[c].received \subseteq {metrics[c]}
    BY DEF WorkflowInv, ToolInv, ArgumentsInv, Recorded
  <2>2. IsFiniteSet({metrics[c]}) /\ Cardinality({metrics[c]}) = 1
    BY FS_Singleton
  <2>3. QED  BY <2>1, <2>2, FS_Subset
<1>2. QED  BY <1>1, WorkflowInvariant, PTL
-----------------------------------------------------------------------------
(* No leftovers of the previous turn *)

Clean(g) == "OLD" \notin {g.planned, g.documents, g.citations, g.summary, g.mapResult, g.answer}

\* Its route is decided, and the graph may go on.
BeyondRoute(e) ==
  \/ e.pc \in {"RECORD", "INVOKE", "EMIT", "SAVE"}
  \/ e.pc = "NODE" /\ e.node # "route_intent"
  \/ e.pc = "RAISED" /\ e.cause = "ANSWER"

InGraph(e) == e.pc \in {"NODE", "RECORD", "INVOKE", "EMIT", "SAVE"}

\* A resumption that finds the turn over does not complete it with the old state.
ThreadIsClean == checkpoint.next = "END" => Clean(checkpoint.state)

ExecutionsAreClean == \A x \in Caller : BeyondRoute(exec[x]) => Clean(exec[x].g)

CheckpointIsClean ==
  /\ checkpoint.next \notin {"END", "route_intent"} => Clean(checkpoint.state)
  /\ checkpoint.saved => Clean(checkpoint.after)

OneAtATime == ~overlap /\ exec[2].pc # "IDLE" => exec[1].pc = "ENDED"

TurnIsClean ==
  ~overlap =>
    /\ \A x \in Caller : InGraph(exec[x]) => ThreadIsClean
    /\ told.route =>
         /\ ThreadIsClean
         /\ \A x \in Caller : exec[x].pc = "COMPLETE" => Clean(exec[x].g)

CommitIsClean == run.status = "SUCCEEDED" /\ told.route /\ ~overlap => Clean(committed)

CleanInv ==
  ExecutionsAreClean /\ CheckpointIsClean /\ OneAtATime /\ TurnIsClean /\ CommitIsClean

\* The execution x goes on as e: neither begins the graph nor completes uncleanly.
GoesOn(x, e) ==
  /\ exec' = [exec EXCEPT ![x] = e]
  /\ exec[x].pc \notin {"IDLE", "ENDED"} /\ e.pc # "IDLE"
  /\ BeyondRoute(e) \/ e.pc = "COMPLETE" => Clean(e.g)
  /\ InGraph(e) => InGraph(exec[x])

LEMMA GoingOnIsClean ==
  ASSUME WorkflowInv, CleanInv, NEW x \in Caller, NEW e, GoesOn(x, e),
         UNCHANGED <<checkpoint, overlap>>, told'.route = told.route, CommitIsClean'
  PROVE  CleanInv'
<1>1. \A y \in Caller : exec'[y] = IF y = x THEN e ELSE exec[y]
  BY DEF GoesOn, WorkflowInv, ExecInv
<1>2. Caller = {1, 2}
  BY WorkflowAssumption DEF WorkflowAssumption
<1>3. ExecutionsAreClean'
  BY <1>1 DEF CleanInv, ExecutionsAreClean, GoesOn
<1>4. CheckpointIsClean'
  BY DEF CleanInv, CheckpointIsClean, Clean
<1>5. OneAtATime'
  BY <1>1, <1>2 DEF CleanInv, OneAtATime, GoesOn
<1>6. TurnIsClean'
  <2>1. ThreadIsClean' <=> ThreadIsClean
    BY DEF ThreadIsClean, Clean
  <2>2. QED  BY <1>1, <2>1 DEF CleanInv, TurnIsClean, GoesOn
<1>7. QED  BY <1>3, <1>4, <1>5, <1>6 DEF CleanInv

\* Nothing is committed, and no route is told.
LEMMA CommitStays ==
  ASSUME CleanInv, UNCHANGED <<run, committed, overlap>>, told'.route = told.route
  PROVE  CommitIsClean'
BY DEF CleanInv, CommitIsClean, Clean

LEMMA NodesClean ==
  ASSUME WorkflowInv, CleanInv, NEW x \in Caller,
         \/ RouteIntent(x) \/ RetrieveKnowledge(x) \/ LoadCatalog(x)
         \/ PlanHousingSearch(x) \/ PlanMap(x) \/ BuildMapResult(x) \/ ComposeAnswer(x)
  PROVE  CleanInv'
<1> DEFINE g == exec[x].g
<1>1. g \in GraphState /\ exec[x] \in Execution
  BY ExecutionOf DEF WorkflowInv
<1>2. exec[x].pc = "NODE" /\ (RouteIntent(x) \/ Clean(g))
  BY DEF RouteIntent, RetrieveKnowledge, LoadCatalog, PlanHousingSearch, PlanMap, BuildMapResult,
    ComposeAnswer, At, CleanInv, ExecutionsAreClean, BeyondRoute
<1> HIDE DEF g
<1>3. PICK next : Update(x, next) /\ Clean(next)
  <2>1. CASE RouteIntent(x)
    BY <2>1 DEF RouteIntent, NewTurnRouteUpdate, Clean
  <2>2. CASE Clean(g) /\ RetrieveKnowledge(x)
    <3>1. PICK found \in {"NONE", "NEW"} :
            Update(x, [g EXCEPT !.documents = found, !.citations = found])
      BY <2>2 DEF RetrieveKnowledge, g
    <3>2. Clean([g EXCEPT !.documents = found, !.citations = found])
      BY <1>1, <2>2 DEF GraphState, Clean
    <3>3. QED  BY <3>1, <3>2
  <2>3. CASE Clean(g) /\ LoadCatalog(x)
    BY <2>3 DEF LoadCatalog, g
  <2>4. CASE Clean(g) /\ (PlanHousingSearch(x) \/ PlanMap(x))
    <3>1. PICK p : Update(x, [g EXCEPT !.plan = p, !.planned = "NEW"])
      BY <2>4 DEF PlanHousingSearch, PlanMap, Plan, g
    <3>2. Clean([g EXCEPT !.plan = p, !.planned = "NEW"])
      BY <1>1, <2>4 DEF GraphState, Clean
    <3>3. QED  BY <3>1, <3>2
  <2>5. CASE Clean(g) /\ BuildMapResult(x)
    <3>1. PICK m \in {"EMPTY", "NEW"} : Update(x, [g EXCEPT !.mapResult = m, !.summary = m])
      BY <2>5 DEF BuildMapResult, g
    <3>2. Clean([g EXCEPT !.mapResult = m, !.summary = m])
      BY <1>1, <2>5 DEF GraphState, Clean
    <3>3. QED  BY <3>1, <3>2
  <2>6. CASE Clean(g) /\ ComposeAnswer(x)
    <3>1. \A tags : "OLD" \notin tags => DerivedFrom(tags) = "NEW"
      BY DEF DerivedFrom
    <3>2. MapEvidence(g) # "OLD" /\ g.documents # "OLD"
      BY <2>6 DEF MapEvidence, Clean
    <3>3. ASSUME NEW c \in {g.citations, "NONE"}
          PROVE  Clean([g EXCEPT !.citations = c, !.answer = "NEW"])
      BY <1>1, <2>6 DEF Clean, GraphState
    <3>4. \A a \in {FixedAnswer(g)} \union SupportedAnswers(g) \union {UnsupportedAnswer(g)} :
            \E c \in {g.citations, "NONE"} : a = [g EXCEPT !.citations = c, !.answer = "NEW"]
      <4>1. FixedAnswer(g) = [g EXCEPT !.citations = "NONE", !.answer = "NEW"]
        BY <3>1, <3>2 DEF FixedAnswer
      <4>2. UnsupportedAnswer(g) = [g EXCEPT !.citations = "NONE", !.answer = "NEW"]
        BY <2>6, <3>1 DEF UnsupportedAnswer, Clean
      <4>3. DerivedFrom({g.documents, MapEvidence(g)}) = "NEW"
        BY <3>1, <3>2
      <4>4. QED  BY <4>1, <4>2, <4>3 DEF SupportedAnswers
    <3>5. QED  BY <2>6, <3>3, <3>4 DEF ComposeAnswer, g
  <2>7. QED  BY <1>2, <2>1, <2>2, <2>3, <2>4, <2>5, <2>6
<1> DEFINE e == [exec[x] EXCEPT !.pc = "EMIT", !.g = next]
<1>4. e.pc = "EMIT" /\ e.g = next
  BY <1>1 DEF Execution
<1>5. exec' = [exec EXCEPT ![x] = e]
  BY <1>3 DEF Update
<1> HIDE DEF e
<1>6. GoesOn(x, e)
  BY <1>2, <1>3, <1>4, <1>5 DEF GoesOn, InGraph
<1>7. UNCHANGED runVars /\ overlap' = overlap
  BY DEF RouteIntent, RetrieveKnowledge, LoadCatalog, PlanHousingSearch, PlanMap, BuildMapResult,
    ComposeAnswer, NodeFrame, historyVars
<1>8. QED  BY <1>6, <1>7, GoingOnIsClean, CommitStays DEF runVars

\* x raises at most from compose_answer as ANSWER.
LEMMA NodeRaisesClean ==
  ASSUME WorkflowInv, CleanInv, NEW x \in Caller, NodeRaises(x)
  PROVE  CleanInv'
<1>1. PICK cause : /\ Raise(x, cause) /\ exec[x].pc \in {"NODE", "RECORD"}
                   /\ cause = "ANSWER" => exec[x].node # "route_intent"
  BY DEF NodeRaises, StartToolRaises, ToolsRaise, ModelRaises, SourceRaises, At
<1> DEFINE e == [exec[x] EXCEPT !.pc = "RAISED", !.cause = cause]
<1>2. e.pc = "RAISED" /\ e.cause = cause /\ e.g = exec[x].g
  BY ExecutionOf DEF WorkflowInv, Execution
<1>3. exec' = [exec EXCEPT ![x] = e]
  BY <1>1 DEF Raise
<1> HIDE DEF e
<1>4. GoesOn(x, e)
  BY <1>1, <1>2, <1>3 DEF GoesOn, BeyondRoute, InGraph, CleanInv, ExecutionsAreClean
<1>5. UNCHANGED runVars /\ overlap' = overlap
  BY DEF NodeRaises, StartToolRaises, ToolsRaise, ModelRaises, SourceRaises, NodeFrame, historyVars
<1>6. QED  BY <1>4, <1>5, GoingOnIsClean, CommitStays DEF runVars

LEMMA ToolsClean ==
  ASSUME WorkflowInv, CleanInv, NEW x \in Caller,
         CheckTool(x) \/ StartTool(x) \/ FinishTool(x) \/ PublishToolEvent(x)
  PROVE  CleanInv'
<1>1. exec[x] \in Execution
  BY ExecutionOf DEF WorkflowInv
<1>2. PICK e : /\ exec' = [exec EXCEPT ![x] = e]
               /\ e.g = exec[x].g /\ e.node = exec[x].node /\ e.cause = exec[x].cause
               /\ \/ e.pc = exec[x].pc /\ e.pc \in {"INVOKE", "EMIT", "RAISED"}
                  \/ exec[x].pc = "INVOKE" /\ e.pc = "NODE"
                  \/ At(x, "execute_map_tools") /\ e.pc = "RECORD"
                  \/ exec[x].pc = "RECORD" /\ e.pc = "INVOKE"
  <2>1. CASE StartTool(x)
    <3> DEFINE e == [exec[x] EXCEPT !.pc = "INVOKE",
                       !.queue = Push(@, "toolStarted", CurrentCall(x))]
    <3>1. exec' = [exec EXCEPT ![x] = e] /\ exec[x].pc = "RECORD"
      BY <2>1 DEF StartTool
    <3>2. e.g = exec[x].g /\ e.node = exec[x].node /\ e.cause = exec[x].cause /\ e.pc = "INVOKE"
      BY <1>1 DEF Execution
    <3>3. QED  BY <3>1, <3>2
  <2>2. CASE FinishTool(x)
    <3>1. PICK s : exec' = [exec EXCEPT ![x].pc = "NODE", ![x].call = CurrentCall(x),
                     ![x].succeeded = @ \/ s = "SUCCEEDED",
                     ![x].queue = Push(@, "toolCompleted", CurrentCall(x))]
      BY <2>2 DEF FinishTool
    <3> DEFINE e == [exec[x] EXCEPT !.pc = "NODE", !.call = CurrentCall(x),
                       !.succeeded = @ \/ s = "SUCCEEDED",
                       !.queue = Push(@, "toolCompleted", CurrentCall(x))]
    <3>2. exec' = [exec EXCEPT ![x] = e] /\ exec[x].pc = "INVOKE"
      BY <2>2, <3>1 DEF FinishTool
    <3>3. e.g = exec[x].g /\ e.node = exec[x].node /\ e.cause = exec[x].cause /\ e.pc = "NODE"
      BY <1>1 DEF Execution
    <3>4. QED  BY <3>2, <3>3
  <2>3. CASE PublishToolEvent(x)
    <3> DEFINE e == [exec[x] EXCEPT !.queue = Tail(@)]
    <3>1. exec' = [exec EXCEPT ![x] = e] /\ exec[x].pc \in {"INVOKE", "EMIT", "RAISED"}
      BY <2>3 DEF PublishToolEvent
    <3>2. /\ e.g = exec[x].g /\ e.node = exec[x].node /\ e.cause = exec[x].cause
          /\ e.pc = exec[x].pc
      BY <1>1 DEF Execution
    <3>3. QED  BY <3>1, <3>2
  <2>4. CASE CheckTool(x)
    <3> DEFINE e == [exec[x] EXCEPT !.pc = "RECORD"]
    <3>1. exec' = [exec EXCEPT ![x] = e] /\ At(x, "execute_map_tools")
      BY <2>4 DEF CheckTool, Goto
    <3>2. e.g = exec[x].g /\ e.node = exec[x].node /\ e.cause = exec[x].cause /\ e.pc = "RECORD"
      BY <1>1 DEF Execution
    <3>3. QED  BY <3>1, <3>2
  <2>5. QED  BY <2>1, <2>2, <2>3, <2>4
<1>3. GoesOn(x, e)
  BY <1>2 DEF GoesOn, BeyondRoute, InGraph, At, CleanInv, ExecutionsAreClean
<1>4. UNCHANGED <<run, checkpoint, committed, overlap>>
  BY DEF CheckTool, StartTool, FinishTool, PublishToolEvent, runVars, historyVars
<1>5. told'.route = told.route
  <2>1. CASE UNCHANGED told
    BY <2>1
  <2>2. CASE PublishToolEvent(x) /\ ~UNCHANGED told
    <3>1. exec[x].queue # <<>>
          /\ exec[x].queue \in Seq([event : {"toolStarted", "toolCompleted"}, call : Call])
      BY <1>1, <2>2 DEF PublishToolEvent, Execution
    <3> DEFINE event == Head(exec[x].queue)
    <3>2. event.event \in {"toolStarted", "toolCompleted"}
      <4> DEFINE Event == [event : {"toolStarted", "toolCompleted"}, call : Call]
                 q == exec[x].queue
      <4>1. q \in Seq(Event) /\ q # <<>>
        BY <3>1
      <4> HIDE DEF Event, q
      <4>2. Head(q) \in Event
        BY <4>1
      <4>3. QED  BY <4>2 DEF q, Event
    <3>3. told' = [told EXCEPT ![event.event][event.call] = @ + 1]
      BY <2>2 DEF PublishToolEvent
    <3> HIDE DEF event
    <3>4. QED  BY <3>2, <3>3 DEF WorkflowInv, ToldInv
  <2>3. QED  BY <2>1, <2>2 DEF CheckTool, StartTool, FinishTool, runVars
<1>6. QED  BY <1>3, <1>4, <1>5, GoingOnIsClean, CommitStays

\* A step that leaves the graph, or was about to: e is where x arrives.
LEMMA EndsClean ==
  ASSUME WorkflowInv, CleanInv, NEW x \in Caller,
         RunTimeout(x) \/ Fallback(x) \/ FailBegin(x) \/ CloseToolCall(x)
  PROVE  CleanInv'
<1>1. exec[x] \in Execution
  BY ExecutionOf DEF WorkflowInv
<1>2. PICK e : exec' = [exec EXCEPT ![x] = e] /\ exec[x].pc \notin {"IDLE", "ENDED"}
               /\ \/ e.pc = "RAISED" /\ e.cause = "OTHER"
                  \/ e.pc = "FAIL"
                  \/ e.pc = "COMPLETE" /\ Clean(e.g)
  <2>1. CASE RunTimeout(x)
    <3> DEFINE e == [exec[x] EXCEPT !.pc = "RAISED", !.cause = "OTHER", !.queue = <<>>]
    <3>1. exec' = [exec EXCEPT ![x] = e] /\ exec[x].pc \notin {"IDLE", "ENDED"}
      BY <2>1 DEF RunTimeout, Suspended
    <3>2. e.pc = "RAISED" /\ e.cause = "OTHER"
      BY <1>1 DEF Execution
    <3>3. QED  BY <3>1, <3>2
  <2>2. CASE Fallback(x)
    <3> DEFINE g == exec[x].g
               t == DerivedFrom(IF MapOnly(g) THEN {g.mapResult} ELSE {g.documents})
               h == [g EXCEPT !.answer = t]
               e == [exec[x] EXCEPT !.pc = "COMPLETE", !.queue = <<>>, !.g = h]
    <3>1. g \in GraphState /\ Clean(g)
      BY <1>1, <2>2 DEF Execution, Fallback, CleanInv, ExecutionsAreClean, BeyondRoute
    <3>2. exec' = [exec EXCEPT ![x] = e] /\ exec[x].pc = "RAISED"
      BY <2>2 DEF Fallback
    <3>3. t = "NEW"
      BY <3>1 DEF DerivedFrom, Clean
    <3> HIDE DEF g, t
    <3>4. Clean(h)
      BY <3>1, <3>3 DEF Clean, GraphState
    <3> HIDE DEF h
    <3>5. e.pc = "COMPLETE" /\ e.g = h
      BY <1>1 DEF Execution
    <3>6. QED  BY <3>2, <3>4, <3>5
  <2>3. CASE FailBegin(x)
    <3> DEFINE e == [exec[x] EXCEPT !.pc = "FAIL", !.queue = <<>>, !.open = PendingToolCalls]
    <3>1. exec' = [exec EXCEPT ![x] = e] /\ exec[x].pc = "RAISED"
      BY <2>3 DEF FailBegin
    <3>2. e.pc = "FAIL"
      BY <1>1 DEF Execution
    <3>3. QED  BY <3>1, <3>2
  <2>4. CASE CloseToolCall(x)
    <3>1. PICK c : exec' = [exec EXCEPT ![x] = [exec[x] EXCEPT !.open = @ \ {c}]]
      BY <2>4 DEF CloseToolCall
    <3> DEFINE e == [exec[x] EXCEPT !.open = @ \ {c}]
    <3>2. e.pc = "FAIL" /\ exec[x].pc = "FAIL"
      BY <1>1, <2>4 DEF Execution, CloseToolCall
    <3>3. QED  BY <3>1, <3>2
  <2>5. QED  BY <2>1, <2>2, <2>3, <2>4
<1>3. GoesOn(x, e)
  BY <1>2 DEF GoesOn, BeyondRoute, InGraph
<1>4. UNCHANGED <<run, checkpoint, committed, overlap>> /\ told'.route = told.route
  BY DEF RunTimeout, Fallback, FailBegin, CloseToolCall, NodeFrame, runVars, historyVars,
    WorkflowInv, ToldInv
<1>5. QED  BY <1>3, <1>4, GoingOnIsClean, CommitStays

LEMMA TrackedIsClean ==
  ASSUME NEW g \in GraphState, Clean(g)
  PROVE  Clean(Tracked(g))
BY DEF Tracked, Clean, GraphState

LEMMA LeavesClean ==
  ASSUME WorkflowInv, CleanInv, NEW x \in Caller,
         Complete(x) \/ FailRun(x) \/ Cancel(x) \/ TooLate(x) \/ Stop(x)
  PROVE  CleanInv'
<1> DEFINE e == [NoExecution EXCEPT !.pc = "ENDED"]
<1>1. exec' = [exec EXCEPT ![x] = e] /\ UNCHANGED <<told, checkpoint, overlap>>
  BY DEF Complete, FailRun, Cancel, TooLate, Stop, Leave, runVars, historyVars
<1>2. exec[x].pc \notin {"IDLE", "ENDED"}
  BY DEF Complete, FailRun, Cancel, TooLate, Stop, Suspended
<1>3. e.pc = "ENDED"
  BY DEF NoExecution
<1> HIDE DEF e
<1>4. GoesOn(x, e)
  BY <1>1, <1>2, <1>3 DEF GoesOn, BeyondRoute, InGraph
<1>5. CommitIsClean'
  <2>1. CASE Complete(x)
    <3>1. exec[x].g \in GraphState /\ committed' = Tracked(exec[x].g)
      BY <2>1, ExecutionOf DEF WorkflowInv, Complete
    <3>2. told.route /\ ~overlap => Clean(exec[x].g)
      BY <2>1 DEF Complete, CleanInv, TurnIsClean
    <3>3. told.route /\ ~overlap => Clean(committed')
      BY <3>1, <3>2, TrackedIsClean
    <3>4. QED  BY <1>1, <3>3 DEF CommitIsClean, Clean
  <2>2. CASE UNCHANGED <<run, committed>>
    BY <1>1, <2>2, CommitStays
  <2>3. CASE run'.status # "SUCCEEDED"
    BY <2>3 DEF CommitIsClean
  <2>4. CASE FailRun(x)
    BY <2>3, <2>4 DEF FailRun
  <2>5. CASE Cancel(x)
    BY <2>2, <2>3, <2>5 DEF Cancel, Running
  <2>6. QED  BY <2>1, <2>2, <2>4, <2>5 DEF TooLate, Stop, runVars
<1>6. QED  BY <1>1, <1>4, <1>5, GoingOnIsClean

LEMMA ClaimClean ==
  ASSUME WorkflowInv, CleanInv, NEW x \in Caller, Claim(x)
  PROVE  CleanInv'
<1> DEFINE e == [NoExecution EXCEPT !.pc = "PREPARE", !.resume = told.started]
<1>1. e.pc = "PREPARE"
  BY DEF NoExecution
<1>2. exec' = [exec EXCEPT ![x] = e] /\ UNCHANGED runVars /\ exec[x].pc = "IDLE"
  BY DEF Claim
<1> HIDE DEF e
<1>3. \A y \in Caller : exec'[y] = IF y = x THEN e ELSE exec[y]
  BY <1>2 DEF WorkflowInv, ExecInv
<1>4. Caller = {1, 2}
  BY WorkflowAssumption DEF WorkflowAssumption
<1>5. ExecutionsAreClean'
  BY <1>1, <1>3 DEF CleanInv, ExecutionsAreClean, BeyondRoute
<1>6. CheckpointIsClean' /\ (ThreadIsClean' <=> ThreadIsClean) /\ told' = told
  BY <1>2 DEF CleanInv, CheckpointIsClean, ThreadIsClean, Clean, runVars
<1>7. overlap' = (overlap \/ (x = 2 /\ exec[1].pc # "ENDED"))
  BY DEF Claim
<1>8. OneAtATime'
  BY <1>2, <1>3, <1>4, <1>7 DEF CleanInv, OneAtATime
<1>9. TurnIsClean'
  BY <1>1, <1>3, <1>6, <1>7 DEF CleanInv, TurnIsClean, InGraph
<1>10. CommitIsClean'
  BY <1>2, <1>7 DEF CleanInv, CommitIsClean, Clean, runVars
<1>11. QED  BY <1>5, <1>6, <1>8, <1>9, <1>10 DEF CleanInv

LEMMA PrepareClean ==
  ASSUME WorkflowInv, CleanInv, NEW x \in Caller, Prepare(x)
  PROVE  CleanInv'
<1> DEFINE e == IF exec[x].resume THEN Resumed ELSE NewInput
<1>1. /\ exec' = [exec EXCEPT ![x] = e] /\ exec[x].pc = "PREPARE"
      /\ checkpoint' \in {checkpoint, Forgotten}
      /\ UNCHANGED <<run, committed, overlap>>
  BY DEF Prepare
<1>2. told'.route = told.route
  BY DEF Prepare, WorkflowInv, ToldInv
<1>3. checkpoint.next \in Node \union {"END"}
  BY DEF WorkflowInv, ThreadInv
<1>4. \/ e.pc = "INPUT"
      \/ e.pc = "COMPLETE" /\ checkpoint.next = "END"
           /\ e.g \in {checkpoint.state, checkpoint.after}
           /\ (e.g # checkpoint.state => checkpoint.saved)
      \/ e.pc \in {"EMIT", "NODE"} /\ checkpoint.next # "END" /\ e.node = checkpoint.next
           /\ e.g = (IF checkpoint.saved THEN checkpoint.after ELSE checkpoint.state)
           /\ (e.pc = "EMIT" => checkpoint.saved)
  BY DEF Resumed, NewInput, NoExecution
<1> HIDE DEF e
<1>5. \A y \in Caller : exec'[y] = IF y = x THEN e ELSE exec[y]
  BY <1>1 DEF WorkflowInv, ExecInv
<1>6. Caller = {1, 2}
  BY WorkflowAssumption DEF WorkflowAssumption
<1>7. Clean(Forgotten.state) /\ Forgotten.next = "END" /\ ~Forgotten.saved
  BY DEF Clean, Forgotten, Checkpoint, NoState
<1>8. ExecutionsAreClean'
  <2>1. BeyondRoute(e) => Clean(e.g)
    BY <1>4 DEF BeyondRoute, CleanInv, CheckpointIsClean
  <2>2. QED  BY <1>5, <2>1 DEF CleanInv, ExecutionsAreClean
<1>9. CheckpointIsClean'
  BY <1>1, <1>7 DEF CleanInv, CheckpointIsClean, Clean
<1>10. OneAtATime'
  BY <1>1, <1>4, <1>5, <1>6 DEF CleanInv, OneAtATime
<1>11. TurnIsClean'
  <2>1. ThreadIsClean => ThreadIsClean'
    BY <1>1, <1>7 DEF ThreadIsClean, Clean
  <2>2. InGraph(e) => ThreadIsClean
    BY <1>4 DEF InGraph, ThreadIsClean
  <2>3. ThreadIsClean /\ e.pc = "COMPLETE" => Clean(e.g)
    BY <1>4 DEF ThreadIsClean, CleanInv, CheckpointIsClean
  <2>4. QED  BY <1>1, <1>2, <1>5, <2>1, <2>2, <2>3 DEF CleanInv, TurnIsClean
<1>12. CommitIsClean'
  BY <1>1, <1>2, CommitStays
<1>13. QED  BY <1>8, <1>9, <1>10, <1>11, <1>12 DEF CleanInv

\* A step into the next checkpoint.
LEMMA SavedIsClean ==
  ASSUME WorkflowInv, CleanInv, NEW x \in Caller, NEW e, NEW state, NEW next,
         exec' = [exec EXCEPT ![x] = e], exec[x].pc \notin {"IDLE", "ENDED"},
         e.pc = "COMPLETE" \/ (e.pc = "NODE" /\ e.node = next),
         next # "route_intent" => Clean(state) /\ Clean(e.g), next = "END" <=> e.pc = "COMPLETE",
         SaveThread(state, next), UNCHANGED <<run, told, committed, overlap>>
  PROVE  CleanInv'
<1>1. \A y \in Caller : exec'[y] = IF y = x THEN e ELSE exec[y]
  BY DEF WorkflowInv, ExecInv
<1>2. Caller = {1, 2}
  BY WorkflowAssumption DEF WorkflowAssumption
<1>3. Clean(Forgotten.state) /\ Forgotten.next = "END" /\ ~Forgotten.saved
  BY DEF Clean, Forgotten, Checkpoint, NoState
<1>4. \/ checkpoint' = Forgotten
      \/ checkpoint'.state = state /\ checkpoint'.next = next /\ ~checkpoint'.saved
  BY DEF SaveThread, Checkpoint
<1>5. ExecutionsAreClean'
  BY <1>1 DEF CleanInv, ExecutionsAreClean, BeyondRoute
<1>6. CheckpointIsClean'
  <2>1. CASE checkpoint' = Forgotten
    BY <1>3, <2>1 DEF CheckpointIsClean, Clean
  <2>2. CASE checkpoint'.state = state /\ checkpoint'.next = next /\ ~checkpoint'.saved
    BY <2>2 DEF CheckpointIsClean, Clean
  <2>3. QED  BY <1>4, <2>1, <2>2
<1>7. OneAtATime'
  BY <1>1, <1>2 DEF CleanInv, OneAtATime
<1>8. TurnIsClean'
  <2>1. ThreadIsClean'
    BY <1>3, <1>4 DEF ThreadIsClean, Clean
  <2>2. QED  BY <1>1, <2>1 DEF CleanInv, TurnIsClean
<1>9. QED  BY <1>5, <1>6, <1>7, <1>8, CommitStays DEF CleanInv

LEMMA SaveInputClean ==
  ASSUME WorkflowInv, CleanInv, NEW x \in Caller, SaveInput(x)
  PROVE  CleanInv'
<1> DEFINE e == [exec[x] EXCEPT !.pc = "NODE", !.node = "route_intent"]
<1>1. e.pc = "NODE" /\ e.node = "route_intent"
  BY ExecutionOf DEF WorkflowInv, Execution
<1>2. exec' = [exec EXCEPT ![x] = e] /\ exec[x].pc = "INPUT"
  BY DEF SaveInput
<1> HIDE DEF e
<1>3. SaveThread(exec[x].g, "route_intent") /\ UNCHANGED <<run, told, committed, overlap>>
  BY DEF SaveInput, historyVars
<1>4. QED  BY <1>1, <1>2, <1>3, SavedIsClean

LEMMA SaveCheckpointClean ==
  ASSUME WorkflowInv, CleanInv, NEW x \in Caller, SaveCheckpoint(x)
  PROVE  CleanInv'
<1> DEFINE g == exec[x].g
           next == NextNode(exec[x].node, g)
           pc == IF next = "END" THEN "COMPLETE" ELSE "NODE"
           e == [exec[x] EXCEPT !.pc = pc, !.node = next]
<1>1. exec' = [exec EXCEPT ![x] = e] /\ exec[x].pc = "SAVE" /\ SaveThread(Tracked(g), next)
  BY DEF SaveCheckpoint
<1>2. g \in GraphState /\ Clean(g)
  BY <1>1, ExecutionOf DEF WorkflowInv, CleanInv, ExecutionsAreClean, BeyondRoute
<1> HIDE DEF next, pc
<1>3. e.pc = pc /\ e.node = next /\ e.g = g
  BY ExecutionOf DEF WorkflowInv, Execution
<1>4. UNCHANGED <<run, told, committed, overlap>>
  BY DEF SaveCheckpoint, historyVars
<1> HIDE DEF e, g
<1>5. Clean(Tracked(g))
  BY <1>2, TrackedIsClean
<1>6. (next = "END" <=> pc = "COMPLETE") /\ pc \in {"COMPLETE", "NODE"}
  BY DEF pc
<1>7. QED  BY <1>1, <1>2, <1>3, <1>4, <1>5, <1>6, SavedIsClean

LEMMA SaveWritesClean ==
  ASSUME WorkflowInv, CleanInv, NEW x \in Caller, SaveWrites(x)
  PROVE  CleanInv'
<1>1. exec[x].g \in GraphState /\ Clean(exec[x].g)
  BY ExecutionOf DEF WorkflowInv, SaveWrites, CleanInv, ExecutionsAreClean, BeyondRoute
<1>2. PICK g : checkpoint' = [checkpoint EXCEPT !.saved = TRUE, !.after = g] /\ Clean(g)
  BY <1>1, TrackedIsClean DEF SaveWrites
<1>3. /\ checkpoint'.next = checkpoint.next /\ checkpoint'.state = checkpoint.state
      /\ checkpoint'.after = g
  BY <1>2 DEF WorkflowInv, ThreadInv
<1>4. UNCHANGED <<run, told, committed, exec, overlap>>
  BY DEF SaveWrites, historyVars
<1>5. CheckpointIsClean' /\ (ThreadIsClean' <=> ThreadIsClean)
  BY <1>2, <1>3 DEF CleanInv, CheckpointIsClean, ThreadIsClean, Clean
<1>6. QED  BY <1>4, <1>5, CommitStays DEF CleanInv, ExecutionsAreClean, OneAtATime, TurnIsClean,
  BeyondRoute, InGraph, Clean

LEMMA EmitUpdateClean ==
  ASSUME WorkflowInv, CleanInv, NEW x \in Caller, EmitUpdate(x)
  PROVE  CleanInv'
<1> DEFINE e == [exec[x] EXCEPT !.pc = "SAVE"]
<1>1. e.pc = "SAVE" /\ e.g = exec[x].g
  BY ExecutionOf DEF WorkflowInv, Execution
<1>2. exec' = [exec EXCEPT ![x] = e] /\ exec[x].pc = "EMIT"
  BY DEF EmitUpdate, Goto
<1> HIDE DEF e
<1>3. GoesOn(x, e)
  BY <1>1, <1>2 DEF GoesOn, InGraph, CleanInv, ExecutionsAreClean, BeyondRoute
<1>4. UNCHANGED <<run, checkpoint, committed, overlap>>
  BY DEF EmitUpdate, historyVars
<1>5. CASE exec[x].node # "route_intent"
  <2>1. told' \in {told, [told EXCEPT !.citation = @ \/ exec[x].g.citations # "NONE"],
                   [told EXCEPT !.map = exec[x].g.mapResult]}
    BY <1>5 DEF EmitUpdate, Tell
  <2>2. told'.route = told.route
    BY <2>1 DEF WorkflowInv, ToldInv
  <2>3. QED  BY <1>3, <1>4, <2>2, GoingOnIsClean, CommitStays
<1>6. CASE exec[x].node = "route_intent"
  <2>1. \A y \in Caller : exec'[y] = IF y = x THEN e ELSE exec[y]
    BY <1>2 DEF WorkflowInv, ExecInv
  <2>2. Caller = {1, 2}
    BY WorkflowAssumption DEF WorkflowAssumption
  <2>3. ExecutionsAreClean'
    BY <1>3, <2>1 DEF CleanInv, ExecutionsAreClean, GoesOn
  <2>4. OneAtATime'
    BY <1>1, <1>2, <1>4, <2>1, <2>2 DEF CleanInv, OneAtATime
  <2>5. CheckpointIsClean' /\ (ThreadIsClean' <=> ThreadIsClean)
    BY <1>4 DEF CleanInv, CheckpointIsClean, ThreadIsClean, Clean
  <2>6. ~overlap => ThreadIsClean /\ \A y \in Caller : exec'[y].pc # "COMPLETE"
    <3>1. \A y \in Caller : y # x /\ ~overlap => exec[y].pc \in {"IDLE", "ENDED"}
      BY <1>2, <2>2 DEF CleanInv, OneAtATime
    <3>2. QED  BY <1>1, <1>2, <2>1, <3>1 DEF CleanInv, TurnIsClean, InGraph
  <2>7. TurnIsClean'
    BY <1>4, <2>5, <2>6 DEF TurnIsClean
  <2>8. run.status = "RUNNING"
    BY <1>6 DEF EmitUpdate, Running, Silent
  <2>9. CommitIsClean'
    BY <1>4, <2>8 DEF CommitIsClean
  <2>10. QED  BY <2>3, <2>4, <2>5, <2>7, <2>9 DEF CleanInv
<1>7. QED  BY <1>5, <1>6

LEMMA OthersClean ==
  ASSUME CleanInv, UNCHANGED <<runVars, exec, overlap>>
  PROVE  CleanInv'
BY DEF CleanInv, runVars, ExecutionsAreClean, CheckpointIsClean, OneAtATime, TurnIsClean,
  CommitIsClean, ThreadIsClean, BeyondRoute, InGraph, Clean

LEMMA InitClean == WorkflowInit => CleanInv
<1> SUFFICES ASSUME WorkflowInit PROVE CleanInv
  OBVIOUS
<1>1. \A x \in Caller : exec[x].pc = "IDLE"
  BY DEF WorkflowInit, NoExecution
<1>2. Caller = {1, 2}
  BY WorkflowAssumption DEF WorkflowAssumption
<1>3. checkpoint.next = "END" /\ ~checkpoint.saved
  BY DEF WorkflowInit
<1>4. ~told.route /\ run.status = "RUNNING"
  BY DEF WorkflowInit
<1>5. QED  BY <1>1, <1>2, <1>3, <1>4 DEF CleanInv, ExecutionsAreClean, CheckpointIsClean,
  OneAtATime, TurnIsClean, CommitIsClean, BeyondRoute, InGraph

LEMMA StepClean == WorkflowInv /\ CleanInv /\ [WorkflowNext]_workflowVars => CleanInv'
<1> SUFFICES ASSUME WorkflowInv, CleanInv, [WorkflowNext]_workflowVars PROVE CleanInv'
  OBVIOUS
<1>1. ASSUME NEW x \in Caller, RunNode(x)
      PROVE  CleanInv'
  BY <1>1, NodesClean, ToolsClean DEF RunNode
<1>2. ASSUME NEW x \in Caller, Publish(x)
      PROVE  CleanInv'
  BY <1>2, ToolsClean, EmitUpdateClean, SaveWritesClean, SaveCheckpointClean DEF Publish
<1>3. ASSUME NEW x \in Caller, End(x)
      PROVE  CleanInv'
  BY <1>3, EndsClean, LeavesClean DEF End
<1>4. ASSUME NEW x \in Caller, CallTool(x)
      PROVE  CleanInv'
  BY <1>4, OthersClean DEF CallTool, historyVars
<1>5. CASE ServiceStep /\ UNCHANGED <<runVars, exec, historyVars>>
  BY <1>5, OthersClean DEF historyVars
<1>6. CASE UNCHANGED workflowVars
  BY <1>6, OthersClean DEF workflowVars, historyVars
<1>7. QED
  BY <1>1, <1>2, <1>3, <1>4, <1>5, <1>6, ClaimClean, PrepareClean, SaveInputClean,
     NodeRaisesClean, EndsClean
  DEF WorkflowNext

\* What a run commits once it has told its route comes from its own turn: nodes after
\* route_intent see a cleared state, also out of a checkpoint (_new_turn_route_update).
THEOREM CommitsOwnTurn == WorkflowSpec => []NoLeftovers
<1>1. CleanInv => NoLeftovers
  BY DEF CleanInv, CommitIsClean, Clean, NoLeftovers
<1>2. QED  BY <1>1, WorkflowInvariant, InitClean, StepClean, PTL DEF WorkflowSpec
=============================================================================
