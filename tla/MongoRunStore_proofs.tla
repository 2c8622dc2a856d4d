------------------------ MODULE MongoRunStore_proofs ------------------------
(***************************************************************************)
(* Proofs about MongoRunStore, for every number of API processes, workers, *)
(* conversations, messages and runs.                                       *)
(*                                                                         *)
(*   MongoTypeCorrect        documents, requests and scans keep their types *)
(*   MongoLeaseExclusive     no step takes a live lease from its owner     *)
(*   MongoOneRun             a message has at most one run                 *)
(*   MongoCommits            state versions form one chain                 *)
(*   MongoRemembers          memory holds runs of that chain               *)
(*   MongoLedgerRefinement   this store, too, implements ConversationLedger *)
(*   MongoCanMove            the runs of a conversation never all wait     *)
(*   QueueOvershoot          how far the queue may pass its limit          *)
(***************************************************************************)
EXTENDS MongoRunStore, RunStore_proofs, FiniteSetTheorems, TLAPS

-----------------------------------------------------------------------------
(* The inductive invariant *)

Inserting(c) == request[c].pc = "INSERT"

\* Run number n was given out for conversation k: its document says so, and so does
\* every request that may still insert it.
BelongsTo(n, k) ==
  /\ n \in 1 .. issued
  /\ Created(n) => conversation(n) = k
  /\ \A c \in Client :
       Inserting(c) /\ request[c].run = n => ConversationOf[request[c].message] = k

\* A request about to insert is the only one with its run number.
RequestInv ==
  /\ \A c \in Client : request[c].pc # "IDLE" => request[c].message \in Message
  /\ \A c \in Client : Inserting(c) => request[c].run \in 1 .. issued
  /\ \A c \in Client, r \in RunId : Inserting(c) /\ request[c].run = r => ~Created(r)
  /\ \A c, d \in Client :
       Inserting(c) /\ Inserting(d) /\ request[c].run = request[d].run => c = d

ScanInv ==
  \A w \in Worker : scan[w].pc # "IDLE" => scan[w].run \in RunId /\ Created(scan[w].run)

\* Whatever active_run_id names, a request found there, or a document depends on,
\* is an older run of the same conversation, although it may never be inserted.
LineageInv ==
  /\ \A k \in Conversation : active[k] # NoRun => BelongsTo(active[k], k)
  /\ \A c \in Client : Inserting(c) /\ request[c].previous # NoRun =>
       /\ request[c].previous < request[c].run
       /\ BelongsTo(request[c].previous, ConversationOf[request[c].message])
  /\ \A r \in RunId : Created(r) /\ dependsOn[r] # NoRun =>
       dependsOn[r] < r /\ BelongsTo(dependsOn[r], conversation(r))

MongoInv == MongoTypeOK /\ RowKeys /\ RequestInv /\ ScanInv /\ LineageInv

-----------------------------------------------------------------------------
(* What a step does to the documents of the runs *)

\* The steps that leave all documents alone but, perhaps, active_run_id.
OnlyActive ==
  UNCHANGED <<status, log, rowVars, leaseVars, version, lastCommitted, memory>>

LEMMA AsideSteps ==
  /\ \A c \in Client : Activate(c) \/ Repair(c) => OnlyActive
  /\ UNCHANGED vars => OnlyActive
BY DEF Activate, Repair, OnlyActive, vars, rowVars, leaseVars, stateVars

LEMMA DocumentStepIs ==
  ASSUME NEW r \in RunId, DocumentStep(r)
  PROVE  RowStep(r) /\ [Next]_vars /\ UNCHANGED <<request, scan, issued>>
BY DEF DocumentStep, UpdateLease, AppendEvent, CompleteRunWithMemory, RowStep, Next

LEMMA MongoStepKinds ==
  ASSUME [MongoNext]_mongoVars
  PROVE  \/ OnlyActive
         \/ \E c \in Client : Insert(c)
         \/ \E w \in Worker : TakeLease(w)
         \/ \E r \in RunId : RowStep(r) /\ [Next]_vars
<1>1. CASE UNCHANGED mongoVars
  BY <1>1, AsideSteps DEF mongoVars
<1>2. ASSUME NEW c \in Client, ClientStep(c)
      PROVE  OnlyActive \/ Insert(c)
  BY <1>2, AsideSteps DEF ClientStep, FindNothing, CountQueue, AbandonRequest
<1>3. ASSUME NEW w \in Worker, WorkerStep(w)
      PROVE  OnlyActive \/ TakeLease(w)
  BY <1>3, AsideSteps DEF WorkerStep, FindCandidate, CheckDependency, ReadVersion, LoseCandidate
<1> QED BY <1>1, <1>2, <1>3, DocumentStepIs DEF MongoNext

\* A request that inserts has everything a document needs.
LEMMA InsertFacts ==
  ASSUME MongoInv, NEW c \in Client, Insert(c)
  PROVE  /\ request[c].run \in RunId /\ request[c].run <= issued /\ ~Created(request[c].run)
         /\ request[c].message \in Message
         /\ ConversationOf[request[c].message] \in Conversation
         /\ request[c].previous \in {NoRun} \union RunId /\ request[c].base \in Nat
<1>1. request[c] \in Request /\ issued \in 0 .. MaxRuns /\ Inserting(c)
  BY DEF Insert, Inserting, MongoInv, MongoTypeOK
<1>2. request[c].message \in Message /\ request[c].run \in 1 .. issued
      /\ request[c].run \in RunId /\ ~Created(request[c].run)
  BY <1>1, StoreAssumption DEF StoreAssumption, Inserting, MongoInv, RequestInv, RunId
<1> QED BY <1>1, <1>2, StoreAssumption DEF StoreAssumption, Request, RunId

LEMMA TakeFacts ==
  ASSUME MongoInv, NEW w \in Worker, TakeLease(w)
  PROVE  scan[w].run \in RunId /\ IsOpen(scan[w].run) /\ Created(scan[w].run) /\ scan[w].base \in Nat
BY DEF MongoInv, MongoTypeOK, ScanInv, TakeLease, StillTakeable, Takeable, Scan

LEMMA ActiveType ==
  ASSUME MongoInv, NEW c \in Client, Activate(c) \/ Repair(c)
  PROVE  active' \in [Conversation -> {NoRun} \union RunId]
<1>1. request[c].message \in Message /\ ConversationOf[request[c].message] \in Conversation
  BY StoreAssumption DEF StoreAssumption, MongoInv, RequestInv, Activate, Repair
<1>2. issued' \in RunId \/ Repair(c)
  BY StoreAssumption DEF StoreAssumption, MongoInv, MongoTypeOK, Activate, RunId
<1> QED BY ZenonT(40), <1>1, <1>2 DEF Activate, Repair, MongoInv, MongoTypeOK, TypeOK

LEMMA MongoDocuments ==
  ASSUME MongoInv, [MongoNext]_mongoVars
  PROVE  TypeOK' /\ RowKeys'
<1>0. TypeOK /\ RowKeys
  BY DEF MongoInv, MongoTypeOK
<1>1. ASSUME OnlyActive, active' \in [Conversation -> {NoRun} \union RunId]
      PROVE  TypeOK' /\ RowKeys'
  BY <1>0, <1>1 DEF OnlyActive, rowVars, leaseVars, TypeOK, RowKeys, Created
<1>2. ASSUME NEW c \in Client, Insert(c)
      PROVE  TypeOK' /\ RowKeys'
  <2>1. TypeOK'
    BY <1>0, <1>2, InsertFacts DEF Insert, TypeOK, OpenStatus, leaseVars, stateVars
  <2>2. RowKeys'
    BY <1>0, <1>2, InsertFacts DEF Insert, TypeOK, RowKeys, Created
  <2> QED BY <2>1, <2>2
<1>3. ASSUME NEW w \in Worker, TakeLease(w)
      PROVE  TypeOK' /\ RowKeys'
  <2>1. TypeOK'
    <3>1. /\ status' = [status EXCEPT ![scan[w].run] = "RUNNING"]
          /\ owner' = [owner EXCEPT ![scan[w].run] = w]
          /\ lease' = [lease EXCEPT ![scan[w].run] = "LIVE"]
          /\ generation' = [generation EXCEPT ![scan[w].run] = @ + 1]
          /\ base' = [base EXCEPT ![scan[w].run] = scan[w].base]
          /\ UNCHANGED <<message, dependsOn, log, version, lastCommitted, active, memory>>
      BY <1>3 DEF TakeLease, stateVars
    <3> QED BY <1>0, <1>3, <3>1, TakeFacts DEF TypeOK, OpenStatus
  <2>2. RowKeys'
    BY <1>0, <1>3, TakeFacts DEF TakeLease, TypeOK, RowKeys, Created
  <2> QED BY <2>1, <2>2
<1>4. ASSUME NEW r \in RunId, DocumentStep(r)
      PROVE  TypeOK' /\ RowKeys'
  BY <1>0, <1>4, DocumentStepIs, TypeStep
<1>5. CASE UNCHANGED vars
  BY <1>0, <1>1, <1>5, AsideSteps DEF vars, stateVars, TypeOK
<1>6. ASSUME NEW c \in Client, ClientStep(c)
      PROVE  TypeOK' /\ RowKeys'
  <2>1. CASE Activate(c) \/ Repair(c)
    BY <1>1, <2>1, ActiveType, AsideSteps
  <2> QED BY <1>2, <1>5, <1>6, <2>1 DEF ClientStep, FindNothing, CountQueue, AbandonRequest
<1>7. ASSUME NEW w \in Worker, WorkerStep(w)
      PROVE  TypeOK' /\ RowKeys'
  BY <1>3, <1>5, <1>7 DEF WorkerStep, FindCandidate, CheckDependency, ReadVersion, LoseCandidate
<1> QED BY <1>4, <1>5, <1>6, <1>7 DEF MongoNext, mongoVars

\* Documents appear by an insert, and keep their key and dependency.
LEMMA DocumentsStay ==
  ASSUME MongoInv, [MongoNext]_mongoVars, NEW r \in RunId
  PROVE  /\ Created(r) => /\ Created(r)' /\ conversation(r)' = conversation(r)
                         /\ dependsOn'[r] = dependsOn[r]
         /\ Created(r)' /\ ~Created(r) => \E c \in Client : Insert(c) /\ request[c].run = r
<1>0. TypeOK
  BY DEF MongoInv, MongoTypeOK
<1>1. CASE OnlyActive
  BY <1>1 DEF OnlyActive, rowVars, Created, conversation
<1>2. ASSUME NEW c \in Client, Insert(c)
      PROVE  /\ Created(r) => /\ Created(r)' /\ conversation(r)' = conversation(r)
                             /\ dependsOn'[r] = dependsOn[r]
             /\ Created(r)' /\ ~Created(r) => request[c].run = r
  BY <1>0, <1>2, InsertFacts DEF Insert, TypeOK, Created, conversation
<1>3. ASSUME NEW w \in Worker, TakeLease(w)
      PROVE  (Created(r)' <=> Created(r)) /\ conversation(r)' = conversation(r)
             /\ dependsOn'[r] = dependsOn[r]
  BY <1>0, <1>3, TakeFacts DEF TakeLease, TypeOK, Created, conversation
<1>4. ASSUME NEW q \in RunId, RowStep(q)
      PROVE  (Created(r)' <=> Created(r)) /\ conversation(r)' = conversation(r)
             /\ dependsOn'[r] = dependsOn[r]
  BY <1>0, <1>4, RowStepIsQuiet DEF Quiet, conversation
<1> QED BY <1>1, <1>2, <1>3, <1>4, MongoStepKinds

-----------------------------------------------------------------------------
(* Requests and scans *)

LEMMA NoRequestType ==
  NoRequest \in Request /\ NoRequest.pc = "IDLE" /\ NoScan \in Scan /\ NoScan.pc = "IDLE"
BY DEF NoRequest, Request, NoScan, Scan

\* Unless a request gets a run number, a step makes at most one request something
\* that does not insert.
RequestMoves ==
  /\ issued' = issued
  /\ \/ request' = request
     \/ \E c \in Client, x \in Request :
          /\ x.pc # "INSERT" /\ (x.pc # "IDLE" => x.message \in Message)
          /\ request' = [request EXCEPT ![c] = x]

LEMMA ActivateFacts ==
  ASSUME MongoInv, NEW c \in Client, Activate(c)
  PROVE  /\ request[c].message \in Message /\ ConversationOf[request[c].message] \in Conversation
         /\ issued' = issued + 1 /\ issued + 1 \in RunId
         /\ request' \in [Client -> Request] /\ Inserting(c)'
         /\ request'[c].message = request[c].message /\ request'[c].run = issued + 1
         /\ request'[c].previous = active[ConversationOf[request[c].message]]
         /\ \A d \in Client \ {c} : request'[d] = request[d]
<1> DEFINE m == request[c].message
<1>0. request \in [Client -> Request] /\ issued \in 0 .. MaxRuns /\ TypeOK
      /\ MaxRuns \in Nat
  BY StoreAssumption DEF StoreAssumption, MongoInv, MongoTypeOK
<1>1. m \in Message /\ ConversationOf[m] \in Conversation
  BY StoreAssumption DEF StoreAssumption, MongoInv, RequestInv, Activate
<1>2. issued + 1 \in RunId /\ issued' = issued + 1
  BY <1>0 DEF Activate, RunId
<1>3. active[ConversationOf[m]] \in {NoRun} \union RunId /\ version[ConversationOf[m]] \in Nat
  BY <1>0, <1>1 DEF TypeOK
<1>4. request' = [request EXCEPT ![c] =
                   [request[c] EXCEPT !.pc = "INSERT", !.run = issued + 1,
                      !.previous = active[ConversationOf[m]], !.base = version[ConversationOf[m]]]]
  BY <1>0, <1>2 DEF Activate
<1>5. request[c] \in Request
  BY <1>0
<1>6. [request[c] EXCEPT !.pc = "INSERT", !.run = issued + 1,
         !.previous = active[ConversationOf[m]], !.base = version[ConversationOf[m]]] \in Request
  BY <1>2, <1>3, <1>5 DEF Request
<1>7. request' \in [Client -> Request]
  BY <1>0, <1>4, <1>6
<1> QED BY <1>0, <1>1, <1>2, <1>4, <1>5, <1>7 DEF Request, Inserting

LEMMA CountMoves ==
  ASSUME MongoInv, NEW c \in Client, CountQueue(c)
  PROVE  RequestMoves
<1> DEFINE y == [request[c] EXCEPT !.pc = "ACTIVATE"]
           x == IF QueueAdmits THEN y ELSE NoRequest
<1>0. request \in [Client -> Request]
  BY DEF MongoInv, MongoTypeOK
<1>1. request[c] \in Request /\ request[c].message \in Message
  BY <1>0 DEF CountQueue, MongoInv, RequestInv
<1>2. y \in Request /\ y.pc = "ACTIVATE" /\ y.message = request[c].message
  BY <1>1 DEF Request
<1>3. request' = [request EXCEPT ![c] = x] /\ issued' = issued
  BY <1>0 DEF CountQueue
<1> HIDE DEF y
<1>4. x \in Request /\ x.pc # "INSERT" /\ (x.pc # "IDLE" => x.message \in Message)
  BY <1>1, <1>2, NoRequestType
<1> QED BY <1>3, <1>4 DEF RequestMoves

LEMMA RequestSteps ==
  ASSUME MongoInv, [MongoNext]_mongoVars
  PROVE  RequestMoves \/ \E c \in Client : Activate(c)
<1>1. ASSUME NEW c \in Client, NEW m \in Message, FindNothing(c, m)
      PROVE  RequestMoves
  <2> DEFINE x == [NoRequest EXCEPT !.pc = "COUNT", !.message = m]
  <2>1. x \in Request /\ x.pc = "COUNT" /\ x.message = m
    BY DEF NoRequest, Request
  <2>2. request' = [request EXCEPT ![c] = x] /\ issued' = issued
    BY <1>1 DEF FindNothing
  <2> HIDE DEF x
  <2> QED BY <2>1, <2>2 DEF RequestMoves
<1>2. ASSUME NEW c \in Client, Insert(c) \/ Repair(c) \/ AbandonRequest(c)
      PROVE  RequestMoves
  BY <1>2, NoRequestType DEF Insert, Repair, AbandonRequest, RequestMoves
<1>3. CASE UNCHANGED mongoVars \/ (\E w \in Worker : WorkerStep(w)) \/ (\E r \in RunId : DocumentStep(r))
  BY <1>3 DEF mongoVars, WorkerStep, FindCandidate, CheckDependency, ReadVersion,
              TakeLease, LoseCandidate, DocumentStep, RequestMoves
<1> QED BY <1>1, <1>2, <1>3, CountMoves DEF MongoNext, ClientStep

LEMMA RequestType ==
  ASSUME MongoInv, [MongoNext]_mongoVars
  PROVE  request' \in [Client -> Request] /\ issued' \in 0 .. MaxRuns /\ issued <= issued'
<1>0. request \in [Client -> Request] /\ issued \in 0 .. MaxRuns /\ MaxRuns \in Nat
  BY StoreAssumption DEF StoreAssumption, MongoInv, MongoTypeOK
<1>1. CASE RequestMoves
  BY <1>0, <1>1 DEF RequestMoves
<1>2. ASSUME NEW c \in Client, Activate(c)
      PROVE  request' \in [Client -> Request] /\ issued' \in 0 .. MaxRuns /\ issued <= issued'
  BY <1>0, <1>2, ActivateFacts DEF RunId
<1> QED BY <1>1, <1>2, RequestSteps

\* A request that inserts after a step did so before, or has just got its number.
LEMMA InsertingBefore ==
  ASSUME MongoInv, [MongoNext]_mongoVars, NEW c \in Client, Inserting(c)'
  PROVE  Activate(c) \/ (request'[c] = request[c] /\ Inserting(c))
<1>0. request \in [Client -> Request]
  BY DEF MongoInv, MongoTypeOK
<1>1. CASE RequestMoves
  BY <1>0, <1>1 DEF RequestMoves, Inserting
<1>2. ASSUME NEW d \in Client, Activate(d)
      PROVE  Activate(c) \/ (request'[c] = request[c] /\ Inserting(c))
  BY <1>2, ActivateFacts DEF Inserting
<1> QED BY <1>1, <1>2, RequestSteps

\* The request that has its document is gone.
LEMMA InsertEndsRequest ==
  ASSUME MongoInv, NEW c \in Client, Insert(c)
  PROVE  ~Inserting(c)'
BY NoRequestType DEF Insert, Inserting, MongoInv, MongoTypeOK

LEMMA RequestInvStep ==
  ASSUME MongoInv, [MongoNext]_mongoVars
  PROVE  RequestInv' /\ \A r \in RunId : Created(r)' => r <= issued'
<1>0. /\ request \in [Client -> Request] /\ issued \in Nat /\ issued' \in Nat /\ issued <= issued'
      /\ RequestInv /\ 1 .. issued \subseteq 1 .. issued'
  BY RequestType DEF MongoInv, MongoTypeOK
<1>1. ASSUME NEW c \in Client, request'[c].pc # "IDLE"
      PROVE  request'[c].message \in Message
  <2>1. CASE RequestMoves
    BY <1>0, <1>1, <2>1 DEF RequestMoves, RequestInv
  <2>2. ASSUME NEW d \in Client, Activate(d)
        PROVE  request'[c].message \in Message
    BY <1>0, <1>1, <2>2, ActivateFacts DEF RequestInv
  <2> QED BY <2>1, <2>2, RequestSteps
<1>2. ASSUME NEW r \in RunId, Created(r)'
      PROVE  r <= issued /\ r <= issued' /\ r \in Nat
  <2>1. r \in Nat /\ r <= issued
    <3>1. CASE Created(r)
      BY <3>1 DEF MongoInv, MongoTypeOK, RunId
    <3>2. CASE ~Created(r)
      BY <1>2, <3>2, DocumentsStay, InsertFacts DEF RunId
    <3> QED BY <3>1, <3>2
  <2> QED BY <1>0, <2>1
<1>3. ASSUME NEW c \in Client, Inserting(c)'
      PROVE  request'[c].run \in 1 .. issued'
  BY <1>0, <1>3, InsertingBefore, ActivateFacts DEF RequestInv
<1>4. ASSUME NEW c \in Client, NEW r \in RunId, Inserting(c)', request'[c].run = r
      PROVE  ~Created(r)'
  <2>1. CASE Activate(c)
    <3>1. r = issued + 1
      BY <1>4, <2>1, ActivateFacts
    <3> QED BY <1>0, <1>2, <3>1
  <2>2. CASE request'[c] = request[c] /\ Inserting(c)
    <3>1. ~Created(r)
      BY <1>0, <1>4, <2>2 DEF RequestInv
    <3>2. ASSUME NEW d \in Client, Insert(d), request[d].run = r
          PROVE  FALSE
      <4>1. Inserting(d)
        BY <3>2 DEF Insert, Inserting
      <4>2. d = c
        BY <1>0, <1>4, <2>2, <3>2, <4>1 DEF RequestInv
      <4> QED BY <1>4, <3>2, <4>2, InsertEndsRequest
    <3> QED BY <3>1, <3>2, DocumentsStay
  <2> QED BY <1>4, <2>1, <2>2, InsertingBefore
<1>5. ASSUME NEW c \in Client, NEW d \in Client, Inserting(c)', Inserting(d)',
             request'[c].run = request'[d].run
      PROVE  c = d
  <2>1. CASE request'[c] = request[c] /\ Inserting(c) /\ request'[d] = request[d] /\ Inserting(d)
    BY <1>0, <1>5, <2>1 DEF RequestInv
  <2>2. ASSUME NEW a \in Client, Activate(a)
        PROVE  \A b \in Client \ {a} : Inserting(b)' => request'[b].run # request'[a].run
    <3>1. request'[a].run = issued + 1
      BY <2>2, ActivateFacts
    <3>2. ASSUME NEW b \in Client \ {a}, Inserting(b)'
          PROVE  request'[b].run \in 1 .. issued
      <4>1. request'[b] = request[b] /\ Inserting(b)
        BY <2>2, <3>2, ActivateFacts DEF Inserting
      <4> QED BY <1>0, <4>1 DEF RequestInv
    <3> QED BY <1>0, <3>1, <3>2
  <2> QED BY <1>5, <2>1, <2>2, InsertingBefore
<1> QED BY <1>1, <1>2, <1>3, <1>4, <1>5 DEF RequestInv

LEMMA ScanStep ==
  ASSUME MongoInv, [MongoNext]_mongoVars
  PROVE  scan' \in [Worker -> Scan] /\ ScanInv'
<1>0. scan \in [Worker -> Scan] /\ ScanInv /\ TypeOK /\ RowKeys
      /\ \A r \in RunId : Created(r) => Created(r)'
  BY DocumentsStay DEF MongoInv, MongoTypeOK
<1>1. CASE scan' = scan
  BY <1>0, <1>1 DEF ScanInv
<1>2. ASSUME NEW w \in Worker, NEW x \in Scan, scan' = [scan EXCEPT ![w] = x],
             x.pc # "IDLE" => x.run \in RunId /\ Created(x.run)
      PROVE  scan' \in [Worker -> Scan] /\ ScanInv'
  <2>1. scan' \in [Worker -> Scan]
    BY <1>0, <1>2
  <2>2. ASSUME NEW v \in Worker, scan'[v].pc # "IDLE", NEW r, r = scan'[v].run
        PROVE  r \in RunId /\ Created(r)'
    BY <1>0, <1>2, <2>2 DEF ScanInv
  <2> QED BY <2>1, <2>2 DEF ScanInv, Created
<1>3. ASSUME NEW w \in Worker, NEW r \in RunId, FindCandidate(w, r)
      PROVE  scan' \in [Worker -> Scan] /\ ScanInv'
  <2> DEFINE x == [NoScan EXCEPT !.pc = "DEPENDENCY", !.run = r]
  <2>1. x \in Scan /\ x.run = r
    BY DEF NoScan, Scan
  <2>2. Created(r) /\ scan' = [scan EXCEPT ![w] = x]
    BY <1>3 DEF FindCandidate, Takeable, IsOpen, OpenStatus, Created
  <2> HIDE DEF x
  <2> QED BY <1>2, <2>1, <2>2
<1>4. ASSUME NEW w \in Worker, CheckDependency(w)
      PROVE  scan' \in [Worker -> Scan] /\ ScanInv'
  <2> DEFINE y == [scan[w] EXCEPT !.pc = "VERSION"]
             x == IF DependencyAllows(scan[w].run) THEN y ELSE NoScan
  <2>1. y \in Scan /\ y.run = scan[w].run /\ y.run \in RunId /\ Created(y.run)
    <3>1. scan[w] \in Scan /\ scan[w].run \in RunId /\ Created(scan[w].run)
      BY <1>0, <1>4 DEF CheckDependency, ScanInv
    <3>2. y \in Scan /\ y.run = scan[w].run
      BY <3>1 DEF Scan
    <3> QED BY <3>1, <3>2
  <2>2. scan' = [scan EXCEPT ![w] = x]
    BY <1>0, <1>4 DEF CheckDependency
  <2> HIDE DEF y
  <2> QED BY <1>2, <2>1, <2>2, NoRequestType
<1>5. ASSUME NEW w \in Worker, ReadVersion(w)
      PROVE  scan' \in [Worker -> Scan] /\ ScanInv'
  <2> DEFINE r == scan[w].run
             x == [scan[w] EXCEPT !.pc = "TAKE", !.base = version[conversation(r)]]
  <2>1. r \in RunId /\ Created(r) /\ scan[w] \in Scan
    BY <1>0, <1>5 DEF ReadVersion, ScanInv
  <2>2. version[conversation(r)] \in Nat
    BY <1>0, <2>1, ConversationType DEF TypeOK
  <2>3. x \in Scan /\ x.run = r
    BY <2>1, <2>2 DEF Scan
  <2>4. scan' = [scan EXCEPT ![w] = x]
    BY <1>0, <1>5 DEF ReadVersion
  <2> HIDE DEF x
  <2> QED BY <1>2, <2>1, <2>3, <2>4
<1>6. ASSUME NEW w \in Worker, TakeLease(w) \/ LoseCandidate(w)
      PROVE  scan' \in [Worker -> Scan] /\ ScanInv'
  BY <1>2, <1>6, NoRequestType DEF TakeLease, LoseCandidate
<1>7. CASE UNCHANGED mongoVars \/ (\E c \in Client : ClientStep(c)) \/ (\E r \in RunId : DocumentStep(r))
  BY <1>1, <1>7 DEF mongoVars, ClientStep, FindNothing, CountQueue, Activate, Insert, Repair,
                    AbandonRequest, DocumentStep
<1> QED BY <1>3, <1>4, <1>5, <1>6, <1>7 DEF MongoNext, WorkerStep

-----------------------------------------------------------------------------
(* Lineage *)

\* No step gives a run number another conversation.
LEMMA BelongsStays ==
  ASSUME MongoInv, [MongoNext]_mongoVars, NEW n, NEW k, BelongsTo(n, k)
  PROVE  BelongsTo(n, k)'
<1>0. /\ n \in 1 .. issued /\ n \in 1 .. issued' /\ n \in RunId /\ issued \in Nat
      /\ request \in [Client -> Request] /\ TypeOK
  BY RequestType, StoreAssumption DEF StoreAssumption, BelongsTo, MongoInv, MongoTypeOK, RunId
<1>1. ASSUME Created(n)' PROVE conversation(n)' = k
  <2>1. CASE Created(n)
    BY <1>0, <2>1, DocumentsStay DEF BelongsTo
  <2>2. CASE ~Created(n)
    <3>1. PICK c \in Client : Insert(c) /\ request[c].run = n
      BY <1>0, <1>1, <2>2, DocumentsStay
    <3>2. Inserting(c) /\ message'[n] = request[c].message
      BY <1>0, <3>1 DEF Insert, Inserting, TypeOK
    <3> QED BY <3>1, <3>2 DEF BelongsTo, conversation
  <2> QED BY <2>1, <2>2
<1>2. ASSUME NEW c \in Client, Inserting(c)', request'[c].run = n
      PROVE  ConversationOf[request'[c].message] = k
  <2>1. CASE Activate(c)
    BY <1>0, <1>2, <2>1, ActivateFacts
  <2>2. CASE request'[c] = request[c] /\ Inserting(c)
    BY <1>2, <2>2 DEF BelongsTo
  <2> QED BY <1>2, <2>1, <2>2, InsertingBefore
<1> QED BY <1>0, <1>1, <1>2 DEF BelongsTo

\* A run number just given out belongs to the conversation of its request.
LEMMA BelongsFirst ==
  ASSUME MongoInv, [MongoNext]_mongoVars, NEW c \in Client, Activate(c),
         NEW n, n = issued + 1, NEW k, k = ConversationOf[request[c].message]
  PROVE  BelongsTo(n, k)'
<1>1. issued \in Nat /\ n \in 1 .. issued' /\ n \in RunId
  BY ActivateFacts DEF MongoInv, MongoTypeOK
<1>2. Inserting(c)' /\ request'[c].run = n /\ ConversationOf[request'[c].message] = k
  BY ActivateFacts
<1>3. ~Created(n)'
  BY <1>1, <1>2, RequestInvStep DEF RequestInv
<1>4. ASSUME NEW d \in Client, Inserting(d)', request'[d].run = n
      PROVE  ConversationOf[request'[d].message] = k
  <2>1. d = c
    BY <1>2, <1>4, RequestInvStep DEF RequestInv
  <2> QED BY <1>2, <2>1
<1> QED BY <1>1, <1>3, <1>4 DEF BelongsTo

\* active_run_id names a run that was just given out, one that a repair put back, or
\* the one it named.
LEMMA ActiveBelongs ==
  ASSUME MongoInv, [MongoNext]_mongoVars, NEW k \in Conversation,
         NEW n, n = active'[k], n # NoRun
  PROVE  BelongsTo(n, k)'
<1>0. TypeOK /\ issued \in Nat
  BY DEF MongoInv, MongoTypeOK
<1>1. CASE active[k] = n
  BY <1>1, BelongsStays DEF MongoInv, LineageInv
<1>2. ASSUME NEW c \in Client, Activate(c), active[k] # n
      PROVE  BelongsTo(n, k)'
  <2>1. n = issued + 1 /\ k = ConversationOf[request[c].message]
    BY ZenonT(40), <1>0, <1>2, ActivateFacts DEF Activate, TypeOK
  <2> QED BY <1>2, <2>1, BelongsFirst
<1>3. ASSUME NEW c \in Client, Repair(c), active[k] # n
      PROVE  BelongsTo(n, k)'
  <2>1. n \in RunId /\ Created(n) /\ conversation(n) = k
    BY <1>0, <1>3 DEF Repair, TypeOK, conversation
  <2>2. n \in 1 .. issued
    BY <1>0, <2>1 DEF MongoInv, MongoTypeOK, RunId
  <2>3. \A d \in Client : ~(Inserting(d) /\ request[d].run = n)
    BY <2>1 DEF MongoInv, RequestInv
  <2> QED BY <2>1, <2>2, <2>3, BelongsStays DEF BelongsTo
<1>4. CASE \E r \in RunId : RowStep(r)
  <2>1. active'[k] \in {active[k], NoRun}
    BY <1>0, <1>4 DEF RowStep, Renew, Release, LeaseExpires, AppendProgress, AppendFailed,
                      AppendCancelled, Complete, stateVars, TypeOK
  <2> QED BY <1>1, <2>1
<1>5. CASE active' = active
  BY <1>1, <1>5
<1>6. ASSUME NEW c \in Client, ClientStep(c)
      PROVE  Activate(c) \/ Repair(c) \/ active' = active
  BY <1>6 DEF ClientStep, FindNothing, CountQueue, Insert, AbandonRequest, vars, stateVars
<1>7. ASSUME NEW w \in Worker, WorkerStep(w)
      PROVE  active' = active
  BY <1>7 DEF WorkerStep, FindCandidate, CheckDependency, ReadVersion, TakeLease,
              LoseCandidate, vars, stateVars
<1>8. UNCHANGED mongoVars => active' = active
  BY DEF mongoVars, vars, stateVars
<1> QED BY <1>1, <1>2, <1>3, <1>4, <1>5, <1>6, <1>7, <1>8, DocumentStepIs DEF MongoNext

LEMMA LineageStep ==
  ASSUME MongoInv, [MongoNext]_mongoVars
  PROVE  LineageInv'
<1>0. /\ TypeOK /\ request \in [Client -> Request] /\ LineageInv /\ issued \in Nat
      /\ RunId \subseteq Nat
  BY DEF MongoInv, MongoTypeOK, RunId
<1>1. ASSUME NEW c \in Client, Inserting(c)', NEW n, n = request'[c].previous, n # NoRun,
             NEW k, k = ConversationOf[request'[c].message]
      PROVE  n < request'[c].run /\ BelongsTo(n, k)'
  <2>1. CASE Activate(c)
    <3>1. /\ k \in Conversation /\ k = ConversationOf[request[c].message]
          /\ n = active[k] /\ request'[c].run = issued + 1
      BY <1>1, <2>1, ActivateFacts
    <3>2. BelongsTo(n, k)
      BY <1>0, <1>1, <3>1 DEF LineageInv
    <3>3. n < issued + 1
      BY <1>0, <3>2 DEF BelongsTo
    <3> QED BY <3>1, <3>2, <3>3, BelongsStays
  <2>2. CASE request'[c] = request[c] /\ Inserting(c)
    BY <1>0, <1>1, <2>2, BelongsStays DEF LineageInv
  <2> QED BY <1>1, <2>1, <2>2, InsertingBefore
<1>2. ASSUME NEW r \in RunId, Created(r)', NEW n, n = dependsOn'[r], n # NoRun,
             NEW k, k = conversation(r)'
      PROVE  n < r /\ BelongsTo(n, k)'
  <2>1. CASE Created(r)
    <3>1. n = dependsOn[r] /\ k = conversation(r)
      BY <1>2, <2>1, DocumentsStay
    <3> QED BY <1>0, <1>2, <2>1, <3>1, BelongsStays DEF LineageInv
  <2>2. CASE ~Created(r)
    <3>1. PICK c \in Client : Insert(c) /\ request[c].run = r
      BY <1>2, <2>2, DocumentsStay
    <3>2. /\ Inserting(c) /\ n = request[c].previous
          /\ k = ConversationOf[request[c].message]
      BY <1>0, <1>2, <3>1 DEF Insert, Inserting, TypeOK, conversation
    <3> QED BY <1>0, <1>2, <3>1, <3>2, BelongsStays DEF LineageInv
  <2> QED BY <2>1, <2>2
<1>3. ASSUME NEW k \in Conversation, NEW n, n = active'[k], n # NoRun
      PROVE  BelongsTo(n, k)'
  BY <1>3, ActiveBelongs
<1> QED BY <1>1, <1>2, <1>3 DEF LineageInv, BelongsTo

-----------------------------------------------------------------------------
(* Types, and why a conversation moves *)

LEMMA MongoInvInit == MongoInit => MongoInv /\ LeasedExactlyWhenRunning /\ CommitChain
<1> SUFFICES ASSUME MongoInit PROVE MongoInv /\ LeasedExactlyWhenRunning /\ CommitChain
  OBVIOUS
<1> USE DEF MongoInit
<1>1. TypeOK /\ RowKeys /\ LeasedExactlyWhenRunning
  BY TypeInit, LeaseInit
<1>2. /\ \A r \in RunId : ~Created(r)
      /\ \A k \in Conversation : active[k] = NoRun
      /\ \A c \in Client : request[c].pc = "IDLE"
      /\ \A w \in Worker : scan[w].pc = "IDLE"
  BY NoRequestType DEF Init, Created
<1>3. MongoTypeOK
  BY <1>1, <1>2, NoRequestType, StoreAssumption DEF StoreAssumption, MongoTypeOK
<1>4. RequestInv /\ ScanInv /\ LineageInv
  BY <1>2 DEF RequestInv, ScanInv, LineageInv, Inserting
<1>5. CommitChain
  BY DEF Init, CommitChain, Committed, RunsOf, Created
<1> QED BY <1>1, <1>3, <1>4, <1>5 DEF MongoInv

LEMMA MongoInvStep ==
  ASSUME MongoInv, [MongoNext]_mongoVars
  PROVE  MongoInv'
<1>1. MongoTypeOK'
  BY MongoDocuments, RequestType, ScanStep, RequestInvStep DEF MongoTypeOK
<1> QED BY <1>1, MongoDocuments, RequestInvStep, ScanStep, LineageStep DEF MongoInv

LEMMA MongoAlways == MongoSpec => []MongoInv
<1>1. MongoInit => MongoInv
  BY MongoInvInit
<1>2. MongoInv /\ [MongoNext]_mongoVars => MongoInv'
  BY MongoInvStep
<1> QED BY <1>1, <1>2, PTL DEF MongoSpec

\* Documents, requests and scans keep their types, and a run has no document before
\* its identifier was given out.
THEOREM MongoTypeCorrect == MongoSpec => []MongoTypeOK
<1>1. MongoInv => MongoTypeOK
  BY DEF MongoInv
<1> QED BY <1>1, MongoAlways, PTL

LEMMA OldestMoves ==
  ASSUME MongoInv, NEW r \in RunId, IsOpen(r)
  PROVE  \E q \in RunId : /\ q <= r /\ IsOpen(q) /\ DependencyAllows(q)
                          /\ conversation(q) = conversation(r)
<1> DEFINE S == {q \in RunId : IsOpen(q) /\ conversation(q) = conversation(r)}
<1>0. TypeOK /\ LineageInv
  BY DEF MongoInv, MongoTypeOK
<1>1. S \in SUBSET Nat /\ S # {}
  BY DEF RunId
<1>2. PICK q \in S : \A p \in S : q <= p
  BY <1>1, HasLeast
<1>3. DependencyAllows(q)
  <2> SUFFICES ASSUME dependsOn[q] # NoRun, Created(dependsOn[q])
               PROVE  IsTerminal(dependsOn[q])
    BY DEF DependencyAllows
  <2>1. Created(q) /\ dependsOn[q] \in RunId
    BY <1>0, <1>2 DEF IsOpen, OpenStatus, Created, TypeOK
  <2>2. dependsOn[q] < q /\ conversation(dependsOn[q]) = conversation(r)
    BY <1>0, <1>2, <2>1 DEF LineageInv, BelongsTo
  <2>3. ~IsOpen(dependsOn[q])
    BY <1>2, <2>1, <2>2 DEF RunId
  <2> QED BY <1>0, <2>1, <2>3 DEF TypeOK, IsOpen, IsTerminal, Created
<1> QED BY <1>2, <1>3

\* The oldest open run of a conversation never waits: what it depends on is older, and
\* hence over, or was never inserted.
THEOREM MongoCanMove == MongoSpec => []MongoConversationCanMove
<1>1. MongoInv => MongoConversationCanMove
  BY OldestMoves DEF MongoConversationCanMove
<1> QED BY <1>1, MongoAlways, PTL

-----------------------------------------------------------------------------
(* Leases and commits: what RunStore promises *)

LEMMA MongoLeaseStep ==
  ASSUME MongoInv, LeasedExactlyWhenRunning, [MongoNext]_mongoVars
  PROVE  LeasedExactlyWhenRunning' /\ \A r \in RunId : LeaseStep(r)
<1>0. TypeOK
  BY DEF MongoInv, MongoTypeOK
<1>1. CASE OnlyActive
  BY <1>0, <1>1 DEF OnlyActive, leaseVars, LeasedExactlyWhenRunning, LeaseStep, TypeOK
<1>2. ASSUME NEW c \in Client, Insert(c)
      PROVE  LeasedExactlyWhenRunning' /\ \A r \in RunId : LeaseStep(r)
  BY <1>0, <1>2, InsertFacts DEF Insert, leaseVars, Created, LeasedExactlyWhenRunning, LeaseStep, TypeOK
<1>3. ASSUME NEW w \in Worker, TakeLease(w)
      PROVE  LeasedExactlyWhenRunning' /\ \A r \in RunId : LeaseStep(r)
  BY <1>0, <1>3, TakeFacts, StoreAssumption
     DEF StoreAssumption, TakeLease, StillTakeable, Takeable, LeasedExactlyWhenRunning, LeaseStep, TypeOK
<1>4. CASE [Next]_vars
  BY <1>0, <1>4, LeaseStepLemma
<1> QED BY <1>1, <1>2, <1>3, <1>4, MongoStepKinds

\* The update of claim_next_run repeats the filter of its scan, so however old the
\* candidate is, nobody loses a live lease.
THEOREM MongoLeaseExclusive == MongoSpec => LeaseIsExclusive
<1>1. MongoInv /\ LeasedExactlyWhenRunning /\ [MongoNext]_mongoVars
        => LeasedExactlyWhenRunning' /\ [\A r \in RunId : LeaseStep(r)]_vars
  BY MongoLeaseStep
<1>2. MongoInit => LeasedExactlyWhenRunning
  BY MongoInvInit
<1> QED BY <1>1, <1>2, MongoAlways, PTL DEF MongoSpec, LeaseIsExclusive

LEMMA MongoOneRunStep ==
  ASSUME MongoInv, OneRunPerMessage, [MongoNext]_mongoVars
  PROVE  OneRunPerMessage'
<1>0. TypeOK /\ RowKeys /\ RowKeys' /\ \A r \in RunId : Created(r) => Created(r)'
  BY MongoDocuments, DocumentsStay DEF MongoInv, MongoTypeOK
<1>1. CASE message' = message
  BY <1>0, <1>1 DEF RowKeys, OneRunPerMessage
<1>2. ASSUME NEW c \in Client, Insert(c)
      PROVE  OneRunPerMessage'
  BY <1>0, <1>2, InsertFacts DEF Insert, IsNewMessage, TypeOK, RowKeys, OneRunPerMessage
<1>3. \A r \in RunId : RowStep(r) => message' = message
  BY <1>0, RowStepIsQuiet DEF Quiet
<1> QED BY <1>1, <1>2, <1>3, MongoStepKinds DEF OnlyActive, rowVars, TakeLease

\* Two requests with one message may both get a run identifier, but one document.
THEOREM MongoOneRun == MongoSpec => []OneRunPerMessage
<1>1. MongoInit => OneRunPerMessage
  BY DEF MongoInit, Init, OneRunPerMessage, Created
<1>2. MongoInv /\ OneRunPerMessage /\ [MongoNext]_mongoVars => OneRunPerMessage'
  BY MongoOneRunStep
<1> QED BY <1>1, <1>2, MongoAlways, PTL DEF MongoSpec

LEMMA MongoOnlyCompleteCommits ==
  ASSUME MongoInv, [MongoNext]_mongoVars
  PROVE  NoCommit \/ \E r \in RunId : Complete(r)
<1>0. TypeOK /\ RowKeys
  BY DEF MongoInv, MongoTypeOK
<1> USE DEF NoCommit, Committed, RunsOf, conversation, Created
<1>1. CASE OnlyActive
  BY <1>1 DEF OnlyActive, rowVars
<1>2. ASSUME NEW c \in Client, Insert(c)
      PROVE  NoCommit
  BY <1>0, <1>2, InsertFacts DEF Insert, stateVars, TypeOK
<1>3. ASSUME NEW w \in Worker, TakeLease(w)
      PROVE  NoCommit
  BY <1>0, <1>3, TakeFacts DEF TakeLease, IsOpen, OpenStatus, stateVars, TypeOK
<1>4. CASE [Next]_vars
  BY <1>0, <1>4, OnlyCompleteCommits
<1> QED BY <1>1, <1>2, <1>3, <1>4, MongoStepKinds

LEMMA MongoChainStep ==
  ASSUME MongoInv, CommitChain, [MongoNext]_mongoVars
  PROVE  CommitChain'
<1>1. TypeOK /\ RowKeys /\ TypeOK'
  BY MongoDocuments DEF MongoInv, MongoTypeOK
<1> QED BY <1>1, MongoOnlyCompleteCommits, HistoryKept, HistoryGrows

LEMMA MongoChainAlways == MongoSpec => []CommitChain
<1>1. MongoInit => CommitChain
  BY MongoInvInit
<1>2. MongoInv /\ CommitChain /\ [MongoNext]_mongoVars => CommitChain'
  BY MongoChainStep
<1> QED BY <1>1, <1>2, MongoAlways, PTL DEF MongoSpec

\* Although the base version that a claim writes may be stale when it is written, each
\* state_version was produced by exactly one succeeded run, from the version before.
THEOREM MongoCommits == MongoSpec => []CommitChain
BY MongoChainAlways, PTL

\* Memory is sorted and trimmed by created_at, which several hosts write.  A later turn
\* reads as many different committed runs of its conversation as there are, up to the
\* limit, though not always the latest.
THEOREM MongoRemembers == MongoSpec => []MemoryHoldsCommits
<1>1. MongoInit => MemoryHoldsCommits
  BY RecallInit DEF MongoInit
<1>2. MongoInv /\ CommitChain /\ MemoryHoldsCommits /\ [MongoNext]_mongoVars
        => MemoryHoldsCommits'
  <2> SUFFICES ASSUME MongoInv, CommitChain, MemoryHoldsCommits, [MongoNext]_mongoVars
               PROVE  MemoryHoldsCommits'
    OBVIOUS
  <2>1. TypeOK /\ RowKeys /\ TypeOK'
    BY MongoDocuments DEF MongoInv, MongoTypeOK
  <2> QED BY <2>1, MongoOnlyCompleteCommits, RecallGrows, RecallKept
<1> QED BY <1>1, <1>2, MongoAlways, MongoChainAlways, PTL DEF MongoSpec

LEMMA MongoStepMaps ==
  ASSUME MongoInv, CommitChain, [MongoNext]_mongoVars
  PROVE  [Ledger!LedgerNext]_(Ledger!ledgerVars)
<1>0. TypeOK /\ RowKeys /\ TypeOK'
  BY MongoDocuments DEF MongoInv, MongoTypeOK
<1>1. NoCommit => History' = History
  BY <1>0, HistoryKept DEF History
<1>2. CASE OnlyActive
  <2>1. NoCommit /\ status' = status /\ log' = log
    BY <1>2 DEF OnlyActive, rowVars, NoCommit, Committed, RunsOf, conversation, Created
  <2> QED BY <1>1, <2>1 DEF Ledger!ledgerVars, History
<1>3. ASSUME NEW c \in Client, Insert(c)
      PROVE  [Ledger!LedgerNext]_(Ledger!ledgerVars)
  <2>1. PICK r \in RunId : r = request[c].run /\ ~Created(r)
    BY <1>3, InsertFacts
  <2>2. NoCommit
    BY SMTT(20), <1>0, <1>3, <2>1 DEF Insert, NoCommit, Committed, RunsOf, conversation, Created, stateVars, TypeOK
  <2>3. Ledger!Accept(r)
    BY <1>1, <1>3, <2>1, <2>2 DEF Insert, Ledger!Accept, Created, History
  <2> QED BY <2>3 DEF Ledger!LedgerNext
<1>4. ASSUME NEW w \in Worker, TakeLease(w)
      PROVE  [Ledger!LedgerNext]_(Ledger!ledgerVars)
  <2>1. PICK r \in RunId : r = scan[w].run /\ IsOpen(r)
    BY <1>4, TakeFacts
  <2>2. NoCommit
    BY <1>0, <1>4, <2>1 DEF TakeLease, NoCommit, Committed, RunsOf, conversation, Created, IsOpen,
                            OpenStatus, stateVars, TypeOK
  <2>3. Ledger!Schedule(r)
    BY <1>1, <1>4, <2>1, <2>2 DEF TakeLease, Ledger!Schedule, Ledger!Open, IsOpen, OpenStatus, History
  <2> QED BY <2>3 DEF Ledger!LedgerNext
<1>5. CASE [Next]_vars
  BY <1>0, <1>5, StepMaps
<1> QED BY <1>2, <1>3, <1>4, <1>5, MongoStepKinds

\* With create_or_attach and claim_next_run cut into single operations, the store still
\* implements ConversationLedger.
THEOREM MongoLedgerRefinement == MongoSpec => ImplementsLedger
<1>1. MongoInit => Ledger!LedgerInit
  BY InitMaps DEF MongoInit
<1>2. MongoInv /\ CommitChain /\ [MongoNext]_mongoVars => [Ledger!LedgerNext]_(Ledger!ledgerVars)
  BY MongoStepMaps
<1> QED BY <1>1, <1>2, MongoAlways, MongoChainAlways, PTL
        DEF MongoSpec, ImplementsLedger, Ledger!LedgerSpec

-----------------------------------------------------------------------------
(* The length of the queue *)

LEMMA QueueSets ==
  /\ IsFiniteSet(OpenRuns) /\ Cardinality(OpenRuns) \in Nat
  /\ IsFiniteSet(Admitted) /\ Cardinality(Admitted) \in Nat
  /\ Cardinality(Admitted) <= Cardinality(Client)
  /\ Cardinality(Client) \in Nat \ {0} /\ MaxQueuedRuns \in Nat
<1>1. IsFiniteSet(RunId)
  BY FS_Interval, StoreAssumption DEF StoreAssumption, RunId
<1>2. OpenRuns \in SUBSET RunId /\ Admitted \in SUBSET Client
  BY DEF OpenRuns, Admitted
<1>3. IsFiniteSet(OpenRuns) /\ Cardinality(OpenRuns) \in Nat
  BY <1>1, <1>2, FS_Subset, FS_CardinalityType
<1>4. IsFiniteSet(Admitted) /\ Cardinality(Admitted) \in Nat
      /\ Cardinality(Admitted) <= Cardinality(Client)
  BY <1>2, FS_Subset, FS_CardinalityType, MongoAssumption DEF MongoAssumption
<1>5. Cardinality(Client) \in Nat \ {0}
  BY FS_CardinalityType, FS_EmptySet, MongoAssumption DEF MongoAssumption
<1> QED BY <1>3, <1>4, <1>5, StoreAssumption DEF StoreAssumption

\* Neither more open runs nor more admitted requests.
LEMMA NoMoreQueued ==
  ASSUME QueueOvershootIsBounded, OpenRuns' \subseteq OpenRuns, Admitted' \subseteq Admitted
  PROVE  QueueOvershootIsBounded'
<1>1. Cardinality(OpenRuns') <= Cardinality(OpenRuns) /\ Cardinality(OpenRuns') \in Nat
  BY QueueSets, FS_Subset, FS_CardinalityType
<1>2. Cardinality(Admitted') <= Cardinality(Admitted) /\ Cardinality(Admitted') \in Nat
  BY QueueSets, FS_Subset, FS_CardinalityType
<1> QED BY <1>1, <1>2, QueueSets DEF QueueOvershootIsBounded

LEMMA SameOpen ==
  ASSUME status' = status
  PROVE  OpenRuns' = OpenRuns
BY DEF OpenRuns, IsOpen

LEMMA SameAdmitted ==
  ASSUME request' = request
  PROVE  Admitted' = Admitted
BY DEF Admitted

LEMMA CountAdmits ==
  ASSUME MongoInv, QueueOvershootIsBounded, NEW c \in Client, CountQueue(c)
  PROVE  QueueOvershootIsBounded'
<1>0. request \in [Client -> Request] /\ OpenRuns' = OpenRuns
  BY SameOpen DEF MongoInv, MongoTypeOK, CountQueue, vars
<1>1. CASE QueueAdmits
  <2>1. Cardinality(OpenRuns) < MaxQueuedRuns
    BY <1>1 DEF QueueAdmits
  <2>2. Admitted' \in SUBSET Client
    BY DEF Admitted
  <2>3. Cardinality(Admitted') <= Cardinality(Client) /\ Cardinality(Admitted') \in Nat
    BY <2>2, FS_Subset, FS_CardinalityType, MongoAssumption DEF MongoAssumption
  <2> QED BY <1>0, <2>1, <2>3, QueueSets DEF QueueOvershootIsBounded
<1>2. CASE ~QueueAdmits
  <2>1. request' = [request EXCEPT ![c] = NoRequest]
    BY <1>0, <1>2 DEF CountQueue
  <2>2. Admitted' \subseteq Admitted
    BY <1>0, <2>1, NoRequestType DEF Admitted
  <2> QED BY <1>0, <2>2, NoMoreQueued
<1> QED BY <1>1, <1>2

LEMMA InsertMovesOn ==
  ASSUME MongoInv, QueueOvershootIsBounded, NEW c \in Client, Insert(c)
  PROVE  QueueOvershootIsBounded'
<1>0. TypeOK /\ request \in [Client -> Request]
  BY DEF MongoInv, MongoTypeOK
<1>1. PICK r \in RunId : r = request[c].run /\ ~Created(r)
  BY InsertFacts
<1>2. OpenRuns' = OpenRuns \union {r} /\ r \notin OpenRuns
  BY <1>0, <1>1 DEF Insert, TypeOK, OpenRuns, IsOpen, OpenStatus, Created
<1>3. Admitted' = Admitted \ {c} /\ c \in Admitted
  BY <1>0, NoRequestType DEF Insert, Admitted
<1>4. Cardinality(OpenRuns') = Cardinality(OpenRuns) + 1
  BY <1>2, QueueSets, FS_AddElement
<1>5. Cardinality(Admitted') = Cardinality(Admitted) - 1
  BY <1>3, QueueSets, FS_RemoveElement
<1> QED BY <1>4, <1>5, QueueSets DEF QueueOvershootIsBounded

LEMMA OvershootStep ==
  ASSUME MongoInv, QueueOvershootIsBounded, [MongoNext]_mongoVars
  PROVE  QueueOvershootIsBounded'
<1>0. TypeOK /\ request \in [Client -> Request]
  BY DEF MongoInv, MongoTypeOK
<1>1. CASE status' = status /\ Admitted' \subseteq Admitted
  BY <1>1, SameOpen, NoMoreQueued
<1>2. CASE UNCHANGED vars /\ request' = request
  BY <1>1, <1>2, SameAdmitted DEF vars
<1>3. ASSUME NEW c \in Client, ClientStep(c)
      PROVE  QueueOvershootIsBounded'
  <2>1. ASSUME NEW m \in Message, FindNothing(c, m)
        PROVE  QueueOvershootIsBounded'
    <3>1. status' = status /\ Admitted' = Admitted
      BY <1>0, <2>1 DEF FindNothing, Admitted, NoRequest, vars
    <3> QED BY <1>1, <3>1
  <2>2. CASE Activate(c)
    <3>1. status' = status /\ Admitted' = Admitted
      BY <1>0, <2>2 DEF Activate, Admitted
    <3> QED BY <1>1, <3>1
  <2>3. CASE Repair(c) \/ AbandonRequest(c)
    <3>1. status' = status /\ Admitted' \subseteq Admitted
      BY <1>0, <2>3, NoRequestType DEF Repair, AbandonRequest, Admitted, vars
    <3> QED BY <1>1, <3>1
  <2> QED BY <1>3, <2>1, <2>2, <2>3, CountAdmits, InsertMovesOn DEF ClientStep
<1>4. ASSUME NEW w \in Worker, WorkerStep(w)
      PROVE  QueueOvershootIsBounded'
  <2>1. CASE TakeLease(w)
    <3>1. OpenRuns' \subseteq OpenRuns /\ request' = request
      BY <1>0, <2>1, TakeFacts DEF TakeLease, OpenRuns, IsOpen, TypeOK
    <3> QED BY <3>1, SameAdmitted, NoMoreQueued
  <2> QED BY <1>2, <1>4, <2>1 DEF WorkerStep, FindCandidate, CheckDependency, ReadVersion, LoseCandidate
<1>5. ASSUME NEW r \in RunId, DocumentStep(r)
      PROVE  QueueOvershootIsBounded'
  <2>1. OpenRuns' \subseteq OpenRuns
    BY <1>0, <1>5, DocumentStepIs, RowStepIsQuiet DEF Quiet, OpenRuns
  <2>2. request' = request
    BY <1>5 DEF DocumentStep
  <2> QED BY <2>1, <2>2, SameAdmitted, NoMoreQueued
<1> QED BY <1>2, <1>3, <1>4, <1>5 DEF MongoNext, mongoVars

\* The count of open runs and the insert are separate, so the queue may grow past
\* agent_max_queued_runs, but by less than the number of processes that insert.
THEOREM QueueOvershoot == MongoSpec => []QueueOvershootIsBounded
<1>1. MongoInit => QueueOvershootIsBounded
  <2> SUFFICES ASSUME MongoInit PROVE QueueOvershootIsBounded
    OBVIOUS
  <2>1. OpenRuns = {}
    BY DEF MongoInit, Init, OpenRuns, IsOpen, OpenStatus
  <2>2. Admitted = {}
    BY NoRequestType DEF MongoInit, Admitted
  <2> QED BY <2>1, <2>2, QueueSets, FS_EmptySet DEF QueueOvershootIsBounded
<1>2. MongoInv /\ QueueOvershootIsBounded /\ [MongoNext]_mongoVars => QueueOvershootIsBounded'
  BY OvershootStep
<1> QED BY <1>1, <1>2, MongoAlways, PTL DEF MongoSpec
=============================================================================
