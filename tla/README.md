# YJDLagent: a TLA+ model of the agent service

YJDLagent answers housing and map questions. A client posts a message; the
service stores a *run*, a worker claims it under a lease, executes a LangGraph
workflow, publishes the run's events, and commits the answer together with the
conversation's memory and state. This directory models the parts of it where
processes, threads, crashes and retries meet, and the logic that decides what a
turn does; checks them with TLC; and proves what matters most for any number of
runs, workers, events and turns.
All source paths below are relative to the repository.

## 1. The system

| Component | State | Operations | Talks to |
| --- | --- | --- | --- |
| SQLite store `app/agent/store.py` | `agent_runs`, `agent_events`, `conversation_states`, `conversation_memory`, metrics | `create_or_attach`, `claim_next_run`, `renew_lease`, `release_lease`, `append_event`, `complete_run_with_memory`, `list_events` | every API and worker process, one transaction per operation |
| Mongo store `app/agent/mongo_store.py` | the same as collections | the same, some in several operations | the same |
| Runtime `app/agent/runtime.py` | `_tasks`, `_lease_lost`, `_shutdown_cancellations`, `_cancel_reasons`, worker coroutines | `start_run`, `_worker_loop`, `_execute`, `_renew_lease`, `cancel_run`, `stream_events`, `close` | store, graph, quota |
| Workflow `app/agent/workflow.py` | graph state in the checkpoint thread `agent-v2:<conversation>` | `route_intent`, `retrieve_knowledge`, `load_catalog`, `plan_*`, `execute_map_tools`, `compose_answer` | model, RAG, tools |
| Checkpoint savers | checkpoints and pending writes | `aput`, `aput_writes`, `aget_tuple` | LangGraph |
| Quota `app/agent/quota.py` | queued and active counters, reserved and used tokens, reservations | `reserve`, `mark_active`, `settle`, `release` | runtime, Redis |
| Tool client `app/tools/spring_client.py` | the attempt in progress | `invoke_with_recovery` | Spring Boot |
| Model client `app/agent/llm.py` | token usage per run | `complete_json`, `complete_text` | model service |
| Conversation state `conversation_state.py`, `conversation.py` | the committed entity and query contexts | `contextualize_with_state`, `build_committed_state` | runtime, workflow |
| SSE stream `runtime.py:865`, `api/runs.py` | cursor of a stream; the client's last sequence | `stream_events`, `list_events`, `replay_events` | store, client |
| RAG `app/rag` | vector index | build, retrieve | workflow |
| HTTP API `app/api` | none | run, replay, cancel, diagnostics | runtime |
| CLI and scripts | none | start-up, migration, acceptance | everything |

What makes it hard: several processes claim from one table; a lease may run out
under a live worker; publishing and completing are not fenced by the lease;
events are published before the checkpoint that covers them; a conversation's
runs share one checkpoint thread; cancel, shutdown and loss of the lease all
reach an execution as the same `CancelledError`; a quota may refuse a run that a
worker has already claimed. `PROJECT.json` lists each hazard at its line.

What correctness means, component by component:

* store: one run per message; exclusive leases; one append-only event log per
  run that ends in its only terminal event; a linear history of committed
  states; memory, state and `run.completed` committed together; no conversation
  in which all runs wait;
* runtime: it uses the store in the ways the store was analysed for; a committed
  run told the client every step; a run answers its own question; every accepted
  run ends;
* quota: a counter is what the reservations it stands for account for, but for keys
  that expired, and a reservation outlives its run only in the ways that can be named;
* workflow: the tool calls of a run are shown once and closed, evidence that was
  shown survives a recognised failure of the answer model, and nothing of the previous
  turn is committed;
* tool client: a call is repeated with the arguments it had, whoever repeats it, unless
  two executions check it at the same time;
* stream: a client sees every event once, in order, up to the terminal one;
* conversation: a search has the conditions the user stated or left standing, no
  others, and a follow-up keeps its scope but for the bounds its words drop.

## 2. Modules

| Module | Models |
| --- | --- |
| `ConversationLedger` | the abstract promise of a run store: runs, logs, ledgers |
| `RunStore` | `store.py`; states `ImplementsLedger` |
| `RunStore_proofs` | the proofs about `RunStore` |
| `AgentRuntime` | `runtime.py` on top of `RunStore` (`EXTENDS`): processes, slots, renewals, cancels, shutdown, crashes, checkpoints |
| `AgentRuntime_proofs` | the proofs about `AgentRuntime` |
| `MongoRunStore` | `mongo_store.py` (`EXTENDS RunStore`): the operations that are not transactions, step by step |
| `MongoRunStore_proofs` | the proofs about `MongoRunStore` |
| `Quota` | `quota.py` under the calls `runtime.py` makes, local and Redis |
| `Quota_proofs` | the proofs about `Quota` |
| `EventFeed` | the abstract promise of an event stream: one reader, one history |
| `EventStream` | `stream_events` and `list_events` with a client that reconnects; states `ImplementsFeed` |
| `EventStream_proofs` | the proofs about `EventStream` |
| `ToolClient` | `invoke_with_recovery` and the Spring service as its answers show it |
| `AgentWorkflow` | one turn through the graph of `workflow.py` and the publishing half of `_execute` (`EXTENDS ToolClient`) |
| `AgentWorkflow_proofs` | the proofs about arguments and leftovers in `AgentWorkflow` |
| `TurnEvents_proofs` | the proofs about what `AgentWorkflow` tells the client |
| `HousingSearch` | the recognizers' lists of terms, what they read in a query, and `normalize_housing_search_arguments` |
| `Dialogue` | the turns of a conversation: follow-up, routing, planning, committed state (`EXTENDS HousingSearch`) |
| `Dialogue_proofs` | the proofs about `Dialogue` and `HousingSearch` |
| `MCRunStore`, `MCAgentRuntime`, `MCMongoRunStore`, `MCQuota`, `MCEventStream`, `MCAgentWorkflow`, `MCDialogue` | the instances TLC checks |

### RunStore

A variable is a column: `message` (the unique key), `status`, `dependsOn`
(`depends_on_run_id`), `base` (`base_state_version`), `owner`, `lease` and
`generation` (the lease columns), `log` (`agent_events`), `version`,
`lastCommitted`, `active` (`conversation_states`) and `memory`. Each operation
is one `BEGIN IMMEDIATE` transaction, or a single `UPDATE`, so it is one action;
an operation that fails rolls back and is no action at all. Rows are numbered in
`created_at` order. Equal timestamps are not modelled: `iso_utc` keeps
microseconds and an insert holds the write lock. A lease is `LIVE`, `EXPIRED` or
`NONE`: which side of the clock `lease_until` is on. The callers are unrestricted:
any open run may be failed, cancelled, published to, or completed once it was
claimed, because the code checks no more than that. `OneClock` says whether memory
entries are stored in commit order: true of SQLite, which sorts by row id.

### AgentRuntime

A *worker* of `RunStore` is a process here (`worker_id` is per process); `Slot`
are its worker coroutines. A slot's program counter names the await it is
suspended in (`PREPARE`, `LOAD`, `STREAM`, `SAVE`) or the synchronous code it is
in (`START`, `EMIT`, `COMPLETE`, and the handlers). `LoopIsFree` is asyncio: while
one coroutine of a process is between two awaits no other one runs, though other
processes do, between any two database calls. A cancellation sets `interrupted`
and takes effect at an await. The graph state is reduced to whose question it
holds, whose answer, and the next node.

LangGraph, external, is assumed to do what its documentation says under
`durability="sync"`: the input is saved before the first node; a node's updates
reach the consumer before the checkpoint that follows the node; an input of
`None` continues the last checkpoint of the thread, and does nothing when that
one was finished.

Left out: tool events and their deduplication (those are in `AgentWorkflow`), metrics,
quota accounting (that is `Quota`), the lookup of two legacy checkpoint threads, `_cancel_reasons`
(wording), what models and tools return.

### MongoRunStore

The documents have the fields of the SQLite rows, so the module keeps the
variables of `RunStore` and its properties. `append_event` and
`complete_run_with_memory` run in a transaction and the lease updates are single
updates: these are `RunStore`'s actions (`DocumentStep`). `create_or_attach` and
`claim_next_run` are chains of single-document operations, and each operation is
an action: `FindNothing`, `CountQueue`, `Activate`, then `Insert` or, after a
`DuplicateKeyError`, `Repair`; `FindCandidate`, `CheckDependency`, `ReadVersion`,
`TakeLease`. `request` and `scan` hold the local variables in between. A process
may die at each point (`AbandonRequest`, `LoseCandidate`). Run numbers follow the
order of `find_one_and_update`, and a number may stay without a document.
`created_at` comes from several clocks, so a scan takes candidates in any order, and
`Remember` (with `OneClock` false) may put a new entry anywhere in the memory, which is
sorted and trimmed by `created_at` (`mongo_store.py:236-243`): what is trimmed may be
newer than what stays.
Not modelled: a store without transactions (`require_transactions=False`), which
the settings allow for development.

### Quota

One tenant. `backend` says which of the two implementations is in use; a call is
one step in both (a lock, a Lua script). The actions of the runtime around it are
reduced to when they call it: `StartRun`, `Reserve`, `Refuse` and `FailRefused` are
`start_run`; `MarkActive` is the first line of `_execute`, `EndExecution` its end,
`FinishExecution` the `finally` block with `settle` or `release`. With Redis all of
these interleave. A local service is one process's: in that process no coroutine runs
between the creation of a run and its reservation (`MayStep`), and the calls of other
processes go to services of their own. `.env.example:31` and `:45` and `README.md:187` of the
repository make API and worker two processes with local services by default; then every
run of the API's service is executed by the worker, whose `settle` and `release` find
nothing. `EndElsewhere` is that (and a cancel through another process), `StartElsewhere`
is the worker's view: a run its service never reserved. An execution whose end is not
reached (`NeverRuns`, `FinishRaises`, `Crash`) is remembered in the history variable
`slipped`.

Redis keys expire. The clock counts days: a counter may expire from the day after it was
last raised (`EXPIRE 86400`, `quota.py:107` and `:157`; a decrement does not renew it), a
reservation from the second day after `reserve` made it (`:110`), and one that
`mark_active` made has no time to live (`:155`). A key is gone at the latest before the
next midnight (`Midnight` waits for `KeysAreDue`). `drift` counts, as history, what each
expiry did to the relation of counter and reservations. How long a run executes is not
tied to the clock, so the model also has runs that a time limit would have ended. Left
out: request rates and the cost budget.

### EventFeed and EventStream

`EventFeed` is what a reader may rely on: events come one by one from the position it
asked for, the end comes after the last, a refusal only when something is lost.
`EventStream` is the code. `list_events` opens a connection without a transaction, so
its three reads (`ReadRun`, `ReadEarliest`, `ReadRows`) each see the store as it then
is, while `Publish` and `Expire` go on in between; its cutoff is computed once. `Yield`
moves the cursor with each event, `ReadStatus` is the check after a listing. The client
keeps `Seen`, the sequence in the last `id:` it received, and asks again from there
(`Replay`: `replay_events` lists once to be able to refuse with 410, and the stream
lists again); `Subscribe` is a repeated POST, which attaches to the run and tells it
from the start. What is on the way when a connection breaks is lost. Its first position
may be beyond the events there are. Clocks: one run's events expire in the order of
their sequence, which is so when the clocks of the processes that append them agree to
better than the retention time (a day by default).

### ToolClient and AgentWorkflow

`ToolClient` has one `invoke_with_recovery` per execution (`Invoke`, `Answered`,
`AnswerLost`, `Adopt`, `PostAgain`) and a service of which only what the client code
relies on is assumed: one execution per `toolCallId`. Requests are a set, so a request
whose answer nobody waits for may be served later.

`AgentWorkflow` has an action per node of the graph, per way it can raise, per kind of
chunk the stream hands out, and per handler of `_execute`. State is reduced to where it
comes from: a `Tag` says whether citations, documents, the map result or an answer are
this turn's or the previous one's. Two executions may work on the run: the second
after the first stopped, or, once per behaviour (`MaxStops`), beside it, when a lease
was lost without notice. What LangGraph does is taken from how the code relies on it
and on its documented behaviour: custom events queue up behind a node and are lost when it raises;
`UntrackedValue` fields (`tool_outputs`, `map_result`) are not in a checkpoint; the
writes of a finished node may be saved before its checkpoint, and then the node is not
run again. `record_tool_started` reads the metric of a call (`CheckTool`) and writes it
(`StartTool`) in two transactions, in both stores; `raced` remembers the calls that two
executions with different arguments checked before either wrote. A model may fail with
an error that names it (cause `ANSWER`) or, with an answer that is no object or has no
choices, with one that does not (cause `OTHER`, as the time limit of the run).
`SharedIntents`, `MaxSharedCalls` and `Forgotten` bound what is explored, not
what may happen: the intent and the number of calls of a run with two executions at a
time, and the thread once nobody will read it.

### HousingSearch and Dialogue

Most recognizers look for terms of a list, and the lists differ: what is a preference
for `capabilities.py:24` is not always one for `workflow.py:665` or `:424`. So a query is
its set of words, each list is a set of words, and a word stands for the terms that are
in the same lists:

| Words | Terms |
| --- | --- |
| `home`; `road` | 住宅, 房子, 小区, ...; 道路, 路段, 街道, 公路 by themselves |
| `price`; `housePrice` | 价格, 预算; 房价 |
| `lowPrice`; `lowHousePrice`; `affordable` | 价格尽量低; 房价尽量低; 预算友好 |
| `aBitCheaper`; `cheaper`; `someCheaper`; `cheap` | 便宜一点; 便宜点; 便宜些; 便宜 otherwise |
| `convenient`; `carefree` | 便利, 方便; 省心 |
| `goodRoad`; `goodWalk`; `walking`; `goOut` | 路好走; 好走 otherwise; 走路; 出门 |
| `walk`; `newWalk`; `highWalk`; `walkCondition`; `walkIndex`; `roadWalk` | 步行 otherwise; 新步行; 高步行; 步行条件; 步行指数; 道路步行 |
| `gvi`; `greenView`; `roadNoise`; `ws`; `vegetation` | GVI, NOI, noise; 绿视率; 道路噪声; WS; vegetation |
| `near`; `nearbyRoad`; `aroundRoad` | 附近, 周边, 范围内, ...; 附近道路; 周边道路 |
| `percentile`; `high` | 前10%; 高一点, 较高, 尽量低, 推荐, ... |
| `living`; `affordHome`; `wan` | 住得, 找个地方, ...; 买得起; 万 |
| `atLeast`; `atMost` | 不低于, 最低, 以上, ...; 不高于, 最高, 以内, ... |
| `compared`; `digit`; `score`; `length` | 高于, 等于, ...; a digit; 覆盖度评分; shape_length |
| `act`; `explain` | 筛选, 查询, ...; 解释, 为什么, ... |

What regular expressions read (bounds, distances, weights, districts) are fields of the
query. `WithState` is `contextualize_with_state`: a follow-up becomes a longer query, whose
clauses add words (`ClauseWords`) and bounds, and the recognizers read the result, with
their order of preference (`Bound`, `LevelRead`). A clause writes a bound with `:g`, six
digits; `Reread` is what the patterns read of it, any bound or none.
`Routes` is the order of `route_intent`'s rules, with the model as a choice of any
intent where no rule decides; `Normalized` and `Refused` are
`normalize_housing_search_arguments`, with weights as shares of a total instead of
floating-point fractions and without the arguments that are read from the query alone
(road criteria, the limit, the level of detail); `Context` is `build_committed_state`. Users may write any text
of `Text`, and a turn may fail at any point.

## 3. Runs

| Run | Instance | Shows |
| --- | --- | --- |
| `RunStore` | 4 messages in 2 conversations, 3 rows, 2 workers, 2 claims and 1 progress event per run, memory of 1 | all store properties and the implementation of `ConversationLedger` |
| `RunStoreSerial` (violation) | the same | a queued run that is cancelled lets its successor overtake the run before it |
| `RuntimeHandover` | 1 message, 2 processes of 1 slot, 1 fault, 1 cancel | a run passed between processes is published and committed as the store requires |
| `RuntimeTurns` | 2 messages of 1 conversation, 1 slot, the retrieval path, 1 fault, 1 cancel | turns that share a checkpoint thread |
| `RuntimeSlots` | 1 message, 1 process of 2 slots, 2 faults or a fault and a cancel, fairness | two executions in one process; every run ends |
| `RuntimeAnswer` (violation) | as `RuntimeTurns` without cancels | a run may commit the previous turn's answer |
| `RuntimeDeltas` (violation) | 1 message, 1 slot | deltas are published twice |
| `MongoStore` | 2 messages of 1 conversation, each posted by up to 2 API processes, 3 run numbers, 2 workers, 2 claims per run, queue limit 1 | what remains of the store's promises without transactions |
| `Quota` | 2 runs, 2 executions, 1 repeated execution, 3 days, active limit 1, tokens for two runs, both backends | what the quota counters mean after retries, crashes, cancels and the expiry of keys |
| `Stream` | 3 events, first position up to 4, 2 breaks, fairness | a client that reconnects misses nothing, hears nothing twice, and hears the end |
| `Turn` | 2 executions, 2 tool calls, 2 argument sets, 1 retry, 1 stop or overlap | tool calls, evidence and answers of one turn, resumed or executed twice |
| `Dialogue` | 2 districts, 4 prices, 1 distance, about 150 texts, 44 plans | conditions carried over any number of turns |

Bounds. Three rows are the least that break a chain of dependencies, and with a
second conversation the queue and the claim order mix conversations; two claims
make a handover with a zombie; a memory of one row makes every second commit
trim. In the runtime one fault reaches every recovery path once, two reach a
failed recovery; `MaxGeneration` and `MaxEvents` there are high enough never to
stop a behaviour that the faults allow. In Mongo three
run numbers for two messages leave one for a request that dies or loses to a
duplicate; progress events are the transaction of the `RunStore` run and are left
out there (`MaxEvents` 0). Two messages do not reach a run that overtakes another
after `active_run_id` was set to null (`mongo_store.py:258`); the theorem `MongoCommits`
does. In `RuntimeSlots` the bound on faults and cancels together (`MCBudget`) is a
constraint of the instance: fairness asks for neither, so it cuts off nothing that has to
happen. Its path has no retrieval, so a completion that fails in the answer fallback
(`runtime.py:672`) is not in it, and with one message no run waits for another. Two quota
runs are one that is executed again and one whose place it may take; the second day
separates the day of a reservation from the day of its return and lets a counter expire,
the third lets a reservation. Three events let one expire, one be on the way and one be
appended while a stream lists; a position beyond them is the client that knows more
than the store. Two tool calls are one that is open while another is closed; two
argument sets are two plans that disagree; one retry already meets a late first
request. The constraint `MCFollowed` ends a behaviour once the service has received a
raced call with the arguments of both executions, which no property speaks of any more.
`Dialogue` has no bound on turns: its state is finite, so TLC sees
conversations of any length; the texts combine the words a clause can add or shadow with
their absence, each list of a recognizer with a word that another one lacks, two
districts and four prices tell "stated now" from "stated before", and two of the prices
are bounds that the text of a clause changes or loses.
Deadlock is not checked, save in `Dialogue`, where a turn can always go on: when every run
is over and the bounds are reached the system stops.

Fairness (`RuntimeFairness`, only for `RunsFinish`): the event loop runs ready
coroutines, and every await of `_execute` is bounded by `agent_max_run_seconds`
or by a client timeout (`SlotStep`); a worker loop polls (`ClaimRun`); `close`
comes to an end and a supervisor restarts the process; an unattended lease runs
out. Nothing is assumed of renewals, cancels, or faults. `RunsFinish` exempts a
process whose worker loops have all ended: a cancel that reaches a task before
its first step ends the loop for good (`NeverRuns`, `runtime.py:480`).

For the stream (`StreamFairness`): the event loop serves the generator, the network
delivers, a client whose connection broke asks again. The number of breaks is bounded,
and nothing is assumed of the run or of the retention window: the property begins when
the run is over.

Symmetry is used where only sets of messages or workers matter.

## 4. What the properties say

Store: `OneRunPerMessage`, `LeasedExactlyWhenRunning`, `LeaseIsExclusive`,
`OverlapOnlyPastUnclaimedEnd` (the exact condition under which two runs of a
conversation overlap), `ConversationCanMove`, `CommitChain`,
`MemoryIsEndOfLedger` (for the memory itself where `OneClock` holds), `ImplementsLedger`.

Runtime: `UsesStoreAsSpecified` (every runtime step is a step of `RunStore` or
leaves the store alone, so what is proved of the store holds of the system),
`CommittedRunToldItsSteps` (events are published at least once in spite of
crashes), `OnlyRefusedRunsSkipStarted`, `FirstExecutionAnswersItsQuestion`,
`RunsFinish`. `CommittedRunToldItsSteps` exempts a conversation in which a run ended
without ever being claimed (`EndedUnclaimed`). Its proof showed why: when the second of
three waiting messages is cancelled, the first and the third execute at a time on one
checkpoint thread (the finding of `RunStoreSerial`); the third continues the first's
question from there and publishes its `answer.delta` under its own name; and the first,
claimed again after a crash, resumes behind the node and commits an answer of which it
never told a word.

Mongo: `LeaseIsExclusive`, `CommitChain` and `ImplementsLedger` again, about the
finer steps; `MongoConversationCanMove`, in spite of dependencies that never come to
exist; `QueueOvershootIsBounded`, by how much the queue limit may be passed. Memory does
not keep the commit order there; `MemoryHoldsCommits`, which is proved, is what remains: a
turn reads committed runs of its conversation, each once, up to the limit, if not always
the latest.

Quota: `ActiveDriftsByExpiry` and `QueueOvercountsByExpiry` (but for keys that expired,
whatever is executed twice, released or settled, in any order, a counter is accounted for by
reservations: a leaked reservation that expired is still counted, and locks its place, as
long as the tenant is busy enough to renew the counter); `ReservedTokensAreHeld`;
`LeftoversAreExplained` (a reservation of a finished run is left only by a cancel in the
queue, an execution that never came to its end, a reservation made after the run was
executed, or, with a local service, a run that another process executed: with API and
worker apart that is every run, and `RUN_QUEUE_FULL` follows after
`AGENT_TENANT_QUEUE_RUNS` of them until the API restarts). `README.md:56` of the repository
names limits on active runs; the local backend does not check one in
`mark_active`, so no such property is stated of it.

Stream: `NoGapNoRepeat` over all connections of a client; `EndedClientHasItAll`, which
rests on the status being read after the events; `ImplementsFeed`, which adds that a
client is refused only when something is lost; `ClientLearnsTheEnd`.

Turn: `ToolCallsClosed` (each call shown once and its end once, across a resumption),
`OneArgumentsPerCall` (the conflict check of `record_tool_started` stands between two
executions that planned differently, though not between two that check at the same time:
a call in `raced` may reach the service with both argument sets, which "同一 toolCallId
不能用于不同的 Tool 参数", `store.py:470`, means to exclude), `EvidenceSurvivesAnswerFailure`,
`NoLeftovers`. The fallback is meant to "finish a trustworthy result when only the optional
answer model failed" (`runtime.py:778`); the property says when it does, and exempts the
failures of that model that do not reach it, `INTERNAL_ERROR` after `llm.py:63` or `:72`,
and `RUN_TIMEOUT`.
What they exempt is what the code does: two executions that publish at a time are not
told apart by `has_tool_event` (`runtime.py:576-582` looks and appends in two
transactions); a resumed run whose tool node is not run again leaves the call open
although it succeeds, since only `_fail_run` closes calls; and the map result is not in
the checkpoint, so an execution that resumed behind it cannot fall back on it.

Dialogue: `SearchIsGrounded` (a condition is the user's, or the last map query's, never
the planner's), `FollowUpKeepsScope` (over any talk, failure and refused plan in
between), `SearchIsWellFormed`. `Drops` is what a follow-up loses a bound by: "其中便利度
最高的小区" and "500米以内" contain words of `conversation_state.py:106`, so the ceiling of the
last search is gone although nothing was said of the price. `SearchIsGrounded` names where
preferences that nobody restated come back: a preference in words that `capabilities.py:24`
does not list (便宜些, GVI, 附近道路) is joined by the old ones, one in listed words
replaces them. `FloorIsShadowed` names the exception: with "其他条件不变"
and a lower bound in the form "价格15000起", which has none of the words
`conversation_state.py:103` looks for, the clause of the previous bound is appended and
read first (`workflow.py:525`), against `README.md:30` of the repository ("历史消息不能覆盖
本轮明确条件"). Also seen, and modelled as it is: districts a follow-up inherited are lost
when `queryMapPoints` or `queryMapLines` answers it (`conversation_state.py:185` reads
the query as written); HYBRID turns and `queryMapFeatures` leave the context as it was;
a price filter the generic planner chose becomes a bound that follow-ups inherit.

Some statements of the documents do not hold; `PROJECT.json` "findings" quotes three
of them. Two more were seen and have no run: a run that the quota refuses has
`run.failed` as its only event (`runtime.py:316`), although
`docs/docs/agent-api-v1.openapi.yaml:736` exempts only failures before a run exists;
and in MongoDB too the runs of a conversation may overlap, when a run is claimed before
the one it depends on is inserted (`mongo_store.py:136`, `:179`).
`FirstExecutionAnswersItsQuestion` is what remains of the one `RuntimeAnswer` refutes: a run
that was never handed over answers its own question, unless a cancel from
another process published `run.started` before the first claim, which makes that
claim resume.

## 5. Proofs

`RunStore_proofs` proves every property of the `RunStore` run for all values of
the constants, from `StoreAssumption` alone. `TypeOK` is inductive with
`RowKeys` (a row exists exactly when it has a message). The lease properties
follow step by step from it. `ChainInv` strengthens the dependency properties: a
run depends on an older run of its conversation, and each open run older than
an unclaimed one is covered by its dependency; that is what makes
`OverlapOnlyPastUnclaimedEnd` inductive, and `ConversationCanMove` follows by
taking the oldest open run. `CommitChain` is inductive by the compare-and-swap;
from it the ledger read back from the rows (`LedgerOf`) only ever grows at its
end, which gives `MemoryIsEndOfLedger` (under `OneClock` as far as it is about memory) and
the refinement: `NoCommit` steps keep
every ledger (`HistoryKept`), `Complete` appends its run (`HistoryGrows`).

`AgentRuntime_proofs` proves, from `StoreAssumption` and `RuntimeAssumption`,
that every behaviour of `RuntimeSpec` is one of `RunStore`'s
(`RuntimeRefinesStore`), so that `CommitChain`, `MemoryIsEndOfLedger`,
`LeaseIsExclusive`, `ConversationCanMove` and `ImplementsLedger` hold of any
number of processes, slots, crashes and cancels (`SystemKeepsHistory`). A step of
the runtime maps to a step of the store only if the slot that takes it knows the
run it claimed and a renewal task belongs to an execution; these are `Known`. That
a checkpoint keeps its type needs the run's conversation, hence that a claimed run
exists (`ClaimsCreated`), which rests on the store never deleting a row
(`RowsStay`). `RuntimeInv` is their conjunction with the store's invariant.

What the client is told, and which question is answered, needs what is in the checkpoint
thread. `SystemInv` adds `TurnInv` to `RuntimeInv` and the store's `ChainInv`: whatever run
a slot or a checkpoint holds as its question was told every step of `Path` before the node
it is at, as long as its events are owed (`SlotsSound`, `CheckpointsSound`); a run is owed
them while it is open and no run of its conversation ended unclaimed (`Owed`). A first
execution asks its own question (`FirstAsks`). `RunSound` is what is left of this when a
run is over: its first event, the answer of a run at its first generation, and that a run
which succeeded with its own answer published all of its path. Two slots on one run are kept apart by
the lease, two runs of a conversation by `OverlapOnlyPastUnclaimedEnd`, which is why
`EndedUnclaimed` appears in the property. Of the path `RuntimeAssumption` says what
`workflow.py:2012` and `:2035` fix: it begins with `route_intent` and ends with
`compose_answer`, which it meets once.

`MongoRunStore_proofs` proves every property of the `MongoStore` run, from
`StoreAssumption` and `MongoAssumption` (the API processes are finitely many), over the single
operations. `MongoInv` says what the local variables of an unfinished operation still
guarantee, whatever ran in between: a request about to insert has a number that was issued,
that no document has and no other such request (`RequestInv`); the candidate of a scan is a
run that exists (`ScanInv`); and the run that `active_run_id` names, a request found there,
or a document depends on, is an older one of the same conversation, although it may never
be inserted (`LineageInv`). So the oldest open run of a conversation never waits, which is
`MongoConversationCanMove`. The leases and `CommitChain` need nothing beyond the types: the
filters of `find_one_and_update` make an update find nothing when a lease or a version
moved since it was read. `MemoryHoldsCommits` (`MongoRemembers`) does not ask for
`OneClock`: wherever an entry is put, it is of a run that committed and was not in the
memory before. The implementation of `ConversationLedger` reuses the lemmas of
`RunStore_proofs`. `QueueOvershootIsBounded` adds the requests between their count and
their insert to the open runs.

`Quota_proofs` proves the five invariants of the `Quota` run for both backends and any
number of runs, executions and days; the set of runs need not be finite, since only
finitely many hold a reservation (`HeldInv`). Each counter is compared with the number of
the runs in a set (`Counted`, `Waiting`, `Charged`), from which a step adds or removes at
most one, and `drift` moves with that number when a key expires. With a local service a run
leaves the queue counter when its execution begins, although its reservation is never
marked active; `QueueInv` says so, and needs that in that process a run is executed only
after its reservation (`OrderInv`). `TokenInv` adds that nothing is reserved on a day to
come. `LeftoversAreExplained` follows from `ExecutedIsDropped`: a run that was
executed, and is not any more, holds nothing, unless one of the exempted steps slipped in.

`EventStream_proofs` proves, from `StreamAssumption`, every safety property of the
`Stream` run and that it implements `EventFeed`. `StreamInv` is what a stream knows at
each of its reads: what is on the wire continues what the client has (`WireInv`),
the cursor is the end of both (`CursorInv`), rows still to be sent are consecutive, and
what a listing read first bounds what it reads later (`ListingInv`). It is what makes `NoGapNoRepeat`
inductive although events expire between the reads.

`Dialogue_proofs` proves, for any texts, plans, districts and prices and any `Reread`, that
a search is grounded and a follow-up keeps its scope but for what it drops. `DialogueInv` carries the conditions of the
search from the query to the committed context: the call of a turn is what
`HousingSearch` made of its contextualized query by a plan it did not refuse (`TurnOK`),
and the scope of the last search is the part of `state` a follow-up inherits
(`StateHoldsScope`). `SearchesAreWellFormed` follows from `WeightsMakeWhole`, a lemma about
`Weights`: one case per way the code finds the shares of the preferences.

`AgentWorkflow_proofs` proves two properties of a turn from `ToolAssumption`,
`WorkflowAssumption` and `SharedIntentsAssumption`, for any number of tool calls, posts,
stops and overlaps of the two executions. `WorkflowInv` has the types of the executions, hence
the nodes they may be at and what a checkpoint holds. `RecordInv` says of a call that was
not raced that an execution about to record it finds no metric but one with its own
arguments, and `ArgumentsInv` that whatever arguments are on their way to the service, or
arrived there, are those of the metric; one set of arguments per call follows. `CleanInv`
follows what the previous turn left: an execution beyond `route_intent` and a checkpoint
behind it hold nothing of it, and while one execution runs at a time, the thread cannot
be found at its old end after the route is told. `NoLeftovers` follows.

`TurnEvents_proofs` proves what a turn tells, from the same assumptions. The bounds of
`TurnTypeOK` are counts: each execution either may still tell an event of a call
(`ToCome`) or is past it, and an event was told no more often than there are executions
past it (`EventsBounded`). That holds because no event waits twice in a queue and none
waits of a call that was not begun (`QueuesSound`), and it holds with two executions at a
time. While there is one at a time, `ShownInv` says more: before the tools nothing is
told; at the tools each call the node is done with is told or waits in the queue, the end
behind the beginning; behind them all calls are closed (`ExecutionsShow`); and the thread,
from which a second execution will begin, is at the node where the first is or stopped
(`ThreadFollows`, `ThreadShows`). `ToolCallsClosed` follows. For
`EvidenceSurvivesAnswerFailure`, `CitesInv` carries the citations that were told through
the states and checkpoints behind retrieval, and `MapKept` the map result in the one
execution of a run in which nothing stopped (`Unstopped`).

Only model-checked: liveness, that is `RunsFinish` and `ClientLearnsTheEnd` (fairness and
ENABLED are out of the prover's reach). Every invariant and every action property of a
passing run is a theorem; the runs remain the check that the small instances do reach
the interesting cases, and that each property can be violated.

## 6. Not modelled

The Mongo checkpoint saver (a mapping of LangGraph's interface to documents), RAG
indexing and retrieval (batch text processing and vector search), the HTTP layer and
authentication (request mapping; its handlers call operations that are modelled),
configuration, command lines and scripts (sequential I/O), the metrics tables other
than the tool metrics, and of `workflow.py` the geometry and contract checks of map
results and the wording of answers: pure functions without state, whose possible
outcomes are choices of the nodes. Request rates and the cost budget need a clock and
are left out of `Quota`.
