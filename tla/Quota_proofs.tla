---------------------------- MODULE Quota_proofs ----------------------------
(***************************************************************************)
(* Proofs about Quota, for every set of runs and of places that execute    *)
(* them, every limit and every number of days.                             *)
(*                                                                         *)
(*   QuotaTypeCorrect          the variables keep their types              *)
(*   LeftoversHaveACause       why a reservation may outlive its run       *)
(*   ActiveCounterDrifts       the Redis counter of active runs            *)
(*   QueueCounterOvercounts    the counter of waiting runs                 *)
(*   TokenCounterIsCovered     the tokens reserved today                   *)
(***************************************************************************)
EXTENDS Quota, FiniteSetTheorems, TLAPS

Reservation ==
  [held : BOOLEAN, active : BOOLEAN, tokens : {0, RunTokens}, made : Day \union {Never}]

Exec == [pc : {"IDLE", "START", "RUN", "FINALLY"},
         run : Run \union {NoRun}, call : {"NONE", "SETTLE", "RELEASE"}]

-----------------------------------------------------------------------------
(* Types *)

LEMMA RemoveType ==
  ASSUME NEW n \in Nat, NEW k \in Nat
  PROVE  Remove(n, k) \in Nat /\ Remove(n, k) <= n
BY DEF Remove

LEMMA NoneType ==
  /\ NoReservation \in Reservation
  /\ NoExecution \in Exec /\ NoExecution.pc = "IDLE" /\ NoExecution.run = NoRun
BY DEF NoReservation, Reservation, NoExecution, Exec

\* The parts of the type invariant, by name.
CounterTypeOK ==
  /\ queued \in Nat /\ active \in Nat
  /\ reserved \in Nat /\ used \in Nat
  /\ reservation \in [Run -> Reservation]
  /\ renewed \in [{"queued", "active"} -> Day]

ExecTypeOK ==
  /\ exec \in [Execution -> Exec]
  /\ \A e \in Execution : exec[e].pc # "IDLE" => exec[e].run \in Run

RuntimeTypeOK ==
  /\ backend \in {"LOCAL", "REDIS"}
  /\ day \in Day
  /\ phase \in [Run -> {"NONE", "OPEN", "OVER"}]
  /\ admission \in [Run -> {"NONE", "RESERVING", "REFUSED", "DONE"}]
  /\ claimed \subseteq Run /\ retries \in 0 .. MaxRetries
  /\ slipped \subseteq Run

DriftTypeOK == drift \in [{"queued", "active", "forgotten"} -> Nat]

LEMMA TypeParts == QuotaTypeOK <=> CounterTypeOK /\ ExecTypeOK /\ RuntimeTypeOK /\ DriftTypeOK
BY DEF QuotaTypeOK, CounterTypeOK, ExecTypeOK, RuntimeTypeOK, DriftTypeOK, Reservation, Exec

-----------------------------------------------------------------------------
(* What a step of the system is to the counters: nothing at all, one call  *)
(* of the service, a new day or the expiry of a key.                       *)

LocalDrops(r) ==
  /\ backend = "LOCAL" /\ reservation[r].held
  /\ (\E n \in Spent : LocalSettle(r, n)) \/ LocalRelease(r)

RedisDrops(r) ==
  /\ backend = "REDIS" /\ reservation[r].held
  /\ \E n \in Spent \union {0} : RedisFinish(r, n)

ProcessLost ==
  /\ backend = "LOCAL"
  /\ queued' = 0 /\ active' = 0
  /\ reserved' = 0 /\ used' = 0
  /\ reservation' = [r \in Run |-> NoReservation]
  /\ renewed' = renewed

NewDay ==
  /\ day < LastDay /\ day' = day + 1
  /\ reserved' = 0 /\ used' = 0
  /\ UNCHANGED <<queued, active, reservation, renewed, drift>>

QuotaCall(r) ==
  \/ reserve(r)
  \/ backend = "LOCAL" /\ LocalMarkActive(r)
  \/ backend = "REDIS" /\ RedisMayActivate(r) /\ RedisMarkActive(r)
  \/ LocalDrops(r)
  \/ RedisDrops(r)

CounterStep ==
  \/ UNCHANGED <<day, counters, drift>>
  \/ UNCHANGED <<day, drift>> /\ (ProcessLost \/ \E r \in Run : QuotaCall(r))
  \/ NewDay
  \/ ExpireQueued \/ ExpireActive \/ \E r \in Run : ExpireReservation(r)

\* settle and release are calls that drop a reservation, or nothing.
LEMMA FinishIsACall ==
  ASSUME QuotaTypeOK, NEW e \in Execution, FinishExecution(e)
  PROVE  /\ exec[e].run \in Run
         /\ \/ UNCHANGED counters /\ ~reservation[exec[e].run].held
            \/ LocalDrops(exec[e].run) \/ RedisDrops(exec[e].run)
<1> DEFINE r == exec[e].run
<1>1. r \in Run /\ backend \in {"LOCAL", "REDIS"} /\ reservation[r].held \in BOOLEAN
  BY DEF QuotaTypeOK, FinishExecution
<1>2. CASE \E n \in Spent : Settle(r, n)
  BY <1>1, <1>2 DEF Settle, LocalDrops, RedisDrops
<1>3. CASE Release(r)
  BY <1>1, <1>3 DEF Release, LocalDrops, RedisDrops
<1> QED BY <1>1, <1>2, <1>3 DEF FinishExecution

LEMMA StepIsACounterStep ==
  ASSUME QuotaTypeOK, [QuotaNext]_quotaVars
  PROVE  backend' = backend /\ CounterStep
<1>1. CASE UNCHANGED quotaVars
  BY <1>1 DEF quotaVars, CounterStep
<1>2. ASSUME NEW r \in Run,
             \/ StartRun(r) \/ Reserve(r) \/ Refuse(r) \/ FailRefused(r)
             \/ CancelRun(r) \/ StartElsewhere(r) \/ EndElsewhere(r)
      PROVE  backend' = backend /\ CounterStep
  BY <1>2 DEF StartRun, Reserve, Refuse, FailRefused, CancelRun, StartElsewhere, EndElsewhere,
              CounterStep, QuotaCall
<1>3. ASSUME NEW r \in Run, NEW e \in Execution, Claim(e, r)
      PROVE  backend' = backend /\ CounterStep
  BY <1>3 DEF Claim, CounterStep
<1>4. ASSUME NEW e \in Execution,
             NeverRuns(e) \/ MarkActiveRaises(e) \/ EndExecution(e) \/ FinishRaises(e)
      PROVE  backend' = backend /\ CounterStep
  BY <1>4 DEF NeverRuns, MarkActiveRaises, EndExecution, FinishRaises, CounterStep
<1>5. ASSUME NEW e \in Execution, MarkActive(e)
      PROVE  backend' = backend /\ CounterStep
  <2>1. exec[e].run \in Run /\ backend \in {"LOCAL", "REDIS"}
    BY <1>5 DEF MarkActive, QuotaTypeOK
  <2> QED BY <1>5, <2>1 DEF MarkActive, CounterStep, QuotaCall
<1>6. ASSUME NEW e \in Execution, FinishExecution(e)
      PROVE  backend' = backend /\ CounterStep
  BY <1>6, FinishIsACall DEF FinishExecution, CounterStep, QuotaCall
<1>7. ASSUME NEW e \in Execution, Crash(e)
      PROVE  backend' = backend /\ CounterStep
  BY <1>7 DEF Crash, CounterStep, ProcessLost, QuotaTypeOK
<1>8. CASE Midnight
  BY <1>8 DEF Midnight, CounterStep, NewDay
<1>9. CASE ExpireQueued \/ ExpireActive \/ \E r \in Run : ExpireReservation(r)
  BY <1>9 DEF ExpireQueued, ExpireActive, ExpireReservation, CounterStep
<1> QED BY <1>1, <1>2, <1>3, <1>4, <1>5, <1>6, <1>7, <1>8, <1>9 DEF QuotaNext

-----------------------------------------------------------------------------
(* The sets that the counters count, and what each call does to them       *)

\* The reservations made today that hold tokens.
Charged == {r \in Held : reservation[r].made = day /\ reservation[r].tokens > 0}

\* Only so many runs hold something as were reserved or activated so far.
HeldInv ==
  /\ IsFiniteSet(Held)
  /\ \A r \in Run \ Held : reservation[r] = NoReservation
  /\ backend = "LOCAL" => Counted = {}

LEMMA CountsAreNumbers ==
  ASSUME HeldInv
  PROVE  /\ IsFiniteSet(Counted) /\ Cardinality(Counted) \in Nat
         /\ IsFiniteSet(Waiting) /\ Cardinality(Waiting) \in Nat
         /\ IsFiniteSet(Charged) /\ Cardinality(Charged) \in Nat
<1>1. Counted \subseteq Held /\ Waiting \subseteq Held /\ Charged \subseteq Held
  BY DEF Counted, Waiting, Charged
<1> QED BY <1>1, FS_Subset, FS_CardinalityType DEF HeldInv

LEMMA CountsPrimed ==
  ASSUME HeldInv'
  PROVE  Cardinality(Charged') \in Nat
<1>1. Charged' \subseteq Held'
  BY DEF Charged
<1> QED BY <1>1, FS_Subset, FS_CardinalityType DEF HeldInv

LEMMA ReserveSets ==
  ASSUME QuotaTypeOK, HeldInv, NEW r \in Run, reserve(r)
  PROVE  /\ Held' = Held \union {r} /\ Counted' = Counted /\ r \notin Waiting \union Charged
         /\ Waiting' = Waiting \union {r}
         /\ day' = day => Charged' = IF RunTokens > 0 THEN Charged \union {r} ELSE Charged
<1>1. /\ reservation'[r] = [held |-> TRUE, active |-> FALSE, tokens |-> RunTokens, made |-> day]
      /\ \A q \in Run \ {r} : reservation'[q] = reservation[q]
  BY DEF reserve, QuotaTypeOK
<1>2. reservation[r] = NoReservation /\ r \notin Held
  BY DEF reserve, HeldInv, Held
<1>3. Held' = Held \union {r}
  BY <1>1, <1>2 DEF Held
<1> QED BY <1>1, <1>2, <1>3 DEF Held, Counted, Waiting, Charged, NoReservation

LEMMA RedisMarkSets ==
  ASSUME QuotaTypeOK, HeldInv, NEW r \in Run, RedisMarkActive(r), ~reservation[r].active
  PROVE  /\ Held' = Held \union {r} /\ Counted' = Counted \union {r} /\ r \notin Counted
         /\ Waiting' = Waiting \ {r}
         /\ day' = day => Charged' = Charged
<1>1. /\ reservation'[r].held /\ reservation'[r].active
      /\ reservation'[r].tokens = reservation[r].tokens
      /\ reservation'[r].made = reservation[r].made
      /\ \A q \in Run \ {r} : reservation'[q] = reservation[q]
  BY DEF RedisMarkActive, NotYetActive, QuotaTypeOK
<1>2. r \notin Held => reservation[r].tokens = 0
  BY DEF HeldInv, NoReservation
<1>3. Held' = Held \union {r}
  BY <1>1 DEF Held
<1>4. Counted' = Counted \union {r} /\ r \notin Counted /\ Waiting' = Waiting \ {r}
  BY <1>1, <1>3 DEF Held, Counted, Waiting
<1>5. ASSUME day' = day PROVE Charged' = Charged
  BY <1>1, <1>2, <1>3, <1>5 DEF Held, Charged
<1> QED BY <1>3, <1>4, <1>5

LEMMA DropSets ==
  ASSUME QuotaTypeOK, NEW r \in Run, DropReservation(r)
  PROVE  /\ Held' = Held \ {r} /\ Counted' = Counted \ {r} /\ Waiting' = Waiting \ {r}
         /\ day' = day => Charged' = Charged \ {r}
<1>1. reservation'[r] = NoReservation /\ \A q \in Run \ {r} : reservation'[q] = reservation[q]
  BY DEF DropReservation, QuotaTypeOK
<1> QED BY <1>1 DEF Held, Counted, Waiting, Charged, NoReservation

LEMMA LostSets ==
  ASSUME ProcessLost
  PROVE  Held' = {} /\ Counted' = {} /\ Waiting' = {} /\ Charged' = {}
BY DEF ProcessLost, Held, Counted, Waiting, Charged, NoReservation

LEMMA SameSets ==
  ASSUME reservation' = reservation
  PROVE  /\ Held' = Held /\ Counted' = Counted /\ Waiting' = Waiting
         /\ day' = day => Charged' = Charged
BY DEF Held, Counted, Waiting, Charged

\* A call changes the reservations in one of three ways.
LEMMA CallKinds ==
  ASSUME QuotaTypeOK, NEW r \in Run, QuotaCall(r)
  PROVE  \/ reserve(r)
         \/ reservation' = reservation
         \/ backend = "REDIS" /\ ~reservation[r].active /\ RedisMarkActive(r)
         \/ DropReservation(r)
BY DEF QuotaCall, LocalMarkActive, RedisMarkActive, NotYetActive, LocalDrops, RedisDrops,
       LocalSettle, LocalRelease, RedisFinish, QuotaTypeOK

LEMMA HeldInvStep ==
  ASSUME QuotaTypeOK, HeldInv, [QuotaNext]_quotaVars
  PROVE  HeldInv'
<1>0. backend' = backend /\ CounterStep
  BY StepIsACounterStep
<1>1. CASE reservation' = reservation
  <2>1. \A r \in Run : reservation'[r] = reservation[r]
    BY <1>1
  <2> QED BY <1>0, <1>1, <2>1, SameSets DEF HeldInv
<1>2. CASE ProcessLost
  BY <1>2, LostSets, FS_EmptySet DEF ProcessLost, HeldInv
<1>3. ASSUME NEW r \in Run, DropReservation(r)
      PROVE  HeldInv'
  <2>1. Held' = Held \ {r} /\ Counted' = Counted \ {r}
    BY <1>3, DropSets
  <2>2. \A q \in Run : reservation'[q] = IF q = r THEN NoReservation ELSE reservation[q]
    BY <1>3 DEF DropReservation, QuotaTypeOK
  <2>3. IsFiniteSet(Held \ {r})
    BY FS_RemoveElement DEF HeldInv
  <2> QED BY <1>0, <2>1, <2>2, <2>3 DEF HeldInv
<1>4. ASSUME NEW r \in Run, QuotaCall(r)
      PROVE  HeldInv'
  <2>0. IsFiniteSet(Held \union {r})
    BY FS_AddElement DEF HeldInv
  <2>1. CASE reserve(r)
    <3>1. Held' = Held \union {r} /\ Counted' = Counted
      BY <2>1, ReserveSets
    <3>2. \A q \in Run \ {r} : reservation'[q] = reservation[q]
      BY <2>1 DEF reserve, QuotaTypeOK
    <3> QED BY <1>0, <2>0, <3>1, <3>2 DEF HeldInv
  <2>2. CASE backend = "REDIS" /\ ~reservation[r].active /\ RedisMarkActive(r)
    <3>1. Held' = Held \union {r}
      BY <2>2, RedisMarkSets
    <3>2. \A q \in Run \ {r} : reservation'[q] = reservation[q]
      BY <2>2 DEF RedisMarkActive, NotYetActive, QuotaTypeOK
    <3> QED BY <1>0, <2>0, <2>2, <3>1, <3>2 DEF HeldInv
  <2> QED BY <1>1, <1>3, <1>4, <2>1, <2>2, CallKinds
<1>5. ASSUME NEW r \in Run, ExpireReservation(r)
      PROVE  HeldInv'
  BY <1>3, <1>5 DEF ExpireReservation, DropReservation
<1> QED BY <1>0, <1>1, <1>2, <1>4, <1>5
        DEF CounterStep, NewDay, ExpireQueued, ExpireActive, counters

LEMMA HeldInvInit == QuotaInit => HeldInv /\ Counted = {} /\ Waiting = {} /\ Charged = {} /\ Held = {}
<1> SUFFICES ASSUME QuotaInit
             PROVE  HeldInv /\ Counted = {} /\ Waiting = {} /\ Charged = {} /\ Held = {}
  OBVIOUS
<1>1. \A r \in Run : reservation[r] = NoReservation
  BY DEF QuotaInit
<1>2. Held = {} /\ Counted = {} /\ Waiting = {} /\ Charged = {}
  BY <1>1 DEF Held, Counted, Waiting, Charged, NoReservation
<1> QED BY <1>1, <1>2, FS_EmptySet DEF HeldInv

-----------------------------------------------------------------------------
(* Type correctness *)

LEMMA DropType ==
  ASSUME CounterTypeOK, NEW r \in Run, DropReservation(r), ReturnTokens(r)
  PROVE  reservation' \in [Run -> Reservation] /\ reserved' \in Nat
<1>1. reservation[r].tokens \in Nat
  BY QuotaAssumption DEF QuotaAssumption, CounterTypeOK, Reservation
<1>2. reserved' \in Nat
  BY <1>1, RemoveType DEF ReturnTokens, CounterTypeOK
<1>3. reservation' \in [Run -> Reservation]
  BY NoneType DEF DropReservation, CounterTypeOK
<1> QED BY <1>2, <1>3

LEMMA CallType ==
  ASSUME CounterTypeOK, day \in Day, NEW r \in Run, QuotaCall(r)
  PROVE  CounterTypeOK'
<1>1. CASE reserve(r)
  <2>1. [held |-> TRUE, active |-> FALSE, tokens |-> RunTokens, made |-> day] \in Reservation
    BY DEF Reservation
  <2>2. reserved' \in Nat
    BY <1>1, QuotaAssumption DEF QuotaAssumption, reserve, CounterTypeOK
  <2> QED BY <1>1, <2>1, <2>2 DEF reserve, Renew, CounterTypeOK
<1>2. CASE LocalMarkActive(r)
  BY <1>2 DEF LocalMarkActive, CounterTypeOK
<1>3. CASE RedisMarkActive(r)
  <2>1. [reservation[r] EXCEPT !.held = TRUE, !.active = TRUE] \in Reservation
    BY DEF CounterTypeOK, Reservation
  <2>2. reservation' \in [Run -> Reservation]
    BY <1>3, <2>1 DEF RedisMarkActive, CounterTypeOK
  <2>3. queued' \in Nat /\ active' \in Nat
    BY <1>3, RemoveType DEF RedisMarkActive, CounterTypeOK
  <2> QED BY <1>3, <2>2, <2>3 DEF RedisMarkActive, Renew, CounterTypeOK
<1>4. CASE LocalDrops(r)
  <2>1. reservation' \in [Run -> Reservation] /\ reserved' \in Nat
    BY <1>4, DropType DEF LocalDrops, LocalSettle, LocalRelease
  <2>2. queued' \in Nat /\ active' \in Nat
    BY <1>4, RemoveType DEF LocalDrops, LocalSettle, LocalRelease, CounterTypeOK
  <2>3. used' \in Nat /\ renewed' = renewed
    BY <1>4, QuotaAssumption DEF QuotaAssumption, LocalDrops, LocalSettle, LocalRelease, CounterTypeOK
  <2> QED BY <2>1, <2>2, <2>3 DEF CounterTypeOK
<1>5. CASE RedisDrops(r)
  <2>1. reservation' \in [Run -> Reservation] /\ reserved' \in Nat
    BY <1>5, DropType DEF RedisDrops, RedisFinish
  <2>2. queued' \in Nat /\ active' \in Nat
    BY <1>5, RemoveType DEF RedisDrops, RedisFinish, LeaveQueue, CounterTypeOK
  <2>3. used' \in Nat /\ renewed' = renewed
    BY <1>5, QuotaAssumption DEF QuotaAssumption, RedisDrops, RedisFinish, CounterTypeOK
  <2> QED BY <2>1, <2>2, <2>3 DEF CounterTypeOK
<1> QED BY <1>1, <1>2, <1>3, <1>4, <1>5 DEF QuotaCall

LEMMA CounterTypeStep ==
  ASSUME CounterTypeOK, day \in Day, CounterStep
  PROVE  CounterTypeOK' /\ day' \in Day
<1>1. day' \in Day
  BY QuotaAssumption DEF QuotaAssumption, CounterStep, NewDay, ExpireQueued, ExpireActive,
                         ExpireReservation, Day
<1>2. CASE UNCHANGED counters
  BY <1>1, <1>2 DEF counters, CounterTypeOK
<1>3. CASE ProcessLost
  BY <1>1, <1>3, NoneType DEF ProcessLost, CounterTypeOK
<1>4. CASE \E r \in Run : QuotaCall(r)
  BY <1>1, <1>4, CallType
<1>5. CASE NewDay \/ ExpireQueued \/ ExpireActive
  <2>1. reservation' = reservation /\ renewed' = renewed
    BY <1>5 DEF NewDay, ExpireQueued, ExpireActive
  <2>2. queued' \in Nat /\ active' \in Nat /\ reserved' \in Nat /\ used' \in Nat
    <3>1. CASE NewDay
      BY <3>1 DEF NewDay, CounterTypeOK
    <3>2. CASE ExpireQueued
      BY <3>2 DEF ExpireQueued, CounterTypeOK
    <3>3. CASE ExpireActive
      BY <3>3 DEF ExpireActive, CounterTypeOK
    <3> QED BY <1>5, <3>1, <3>2, <3>3
  <2> QED BY <1>1, <2>1, <2>2 DEF CounterTypeOK
<1>6. CASE \E r \in Run : ExpireReservation(r)
  BY <1>6, NoneType DEF ExpireReservation, CounterTypeOK
<1> QED BY <1>1, <1>2, <1>3, <1>4, <1>5, <1>6 DEF CounterStep

LEMMA DriftTypeStep ==
  ASSUME DriftTypeOK, HeldInv, CounterStep
  PROVE  DriftTypeOK'
<1>1. CASE drift' = drift
  BY <1>1 DEF DriftTypeOK
<1>2. CASE ExpireQueued \/ ExpireActive
  <2>1. PICK n \in Nat : n = Cardinality(Counted)
    BY CountsAreNumbers
  <2>2. CASE ExpireQueued
    BY <2>2 DEF ExpireQueued, DriftTypeOK
  <2>3. CASE ExpireActive
    <3>1. drift' = [drift EXCEPT !.active = 0, !.forgotten = n]
      BY <2>1, <2>3 DEF ExpireActive
    <3> QED BY <3>1 DEF DriftTypeOK
  <2> QED BY <1>2, <2>2, <2>3
<1>3. ASSUME NEW r \in Run, ExpireReservation(r)
      PROVE  DriftTypeOK'
  BY <1>3 DEF ExpireReservation, DriftTypeOK
<1> QED BY <1>1, <1>2, <1>3 DEF CounterStep, NewDay

\* The places that execute runs.
LEMMA ExecTypeStep ==
  ASSUME QuotaTypeOK, [QuotaNext]_quotaVars
  PROVE  ExecTypeOK'
<1>0. ExecTypeOK
  BY TypeParts
<1>1. CASE UNCHANGED exec
  BY <1>0, <1>1 DEF ExecTypeOK
<1>2. ASSUME NEW r \in Run, NEW e \in Execution, Claim(e, r)
      PROVE  ExecTypeOK'
  <2>1. [NoExecution EXCEPT !.pc = "START", !.run = r] \in Exec
    BY DEF NoExecution, Exec
  <2> QED BY <1>0, <1>2, <2>1 DEF Claim, ExecTypeOK, NoExecution
<1>3. ASSUME NEW e \in Execution, exec' = [exec EXCEPT ![e] = NoExecution]
      PROVE  ExecTypeOK'
  BY <1>0, <1>3, NoneType DEF ExecTypeOK
<1>4. ASSUME NEW e \in Execution, exec[e].pc # "IDLE",
             \/ exec' = [exec EXCEPT ![e].pc = "RUN"]
             \/ \E c \in {"SETTLE", "RELEASE"} :
                  exec' = [exec EXCEPT ![e].pc = "FINALLY", ![e].call = c]
      PROVE  ExecTypeOK'
  BY <1>0, <1>4 DEF ExecTypeOK, Exec
<1>5. CASE exec' = [f \in Execution |-> NoExecution]
  BY <1>5, NoneType DEF ExecTypeOK
<1>6. ASSUME NEW r \in Run,
             \/ StartRun(r) \/ Reserve(r) \/ Refuse(r) \/ FailRefused(r)
             \/ CancelRun(r) \/ StartElsewhere(r) \/ EndElsewhere(r) \/ ExpireReservation(r)
             \/ \E e \in Execution : Claim(e, r)
      PROVE  ExecTypeOK'
  BY <1>1, <1>2, <1>6 DEF StartRun, Reserve, Refuse, FailRefused, CancelRun, StartElsewhere,
                          EndElsewhere, ExpireReservation
<1>7. ASSUME NEW e \in Execution, NeverRuns(e) \/ FinishExecution(e) \/ FinishRaises(e) \/ Crash(e)
      PROVE  ExecTypeOK'
  BY <1>3, <1>5, <1>7 DEF NeverRuns, FinishExecution, FinishRaises, Crash
<1>8. ASSUME NEW e \in Execution, MarkActive(e) \/ MarkActiveRaises(e) \/ EndExecution(e)
      PROVE  ExecTypeOK'
  BY <1>4, <1>8 DEF MarkActive, MarkActiveRaises, EndExecution
<1> QED BY <1>1, <1>6, <1>7, <1>8
        DEF QuotaNext, quotaVars, Midnight, ExpireQueued, ExpireActive

LEMMA RuntimeTypeStep ==
  ASSUME QuotaTypeOK, [QuotaNext]_quotaVars
  PROVE  RuntimeTypeOK'
<1>0. RuntimeTypeOK /\ backend' = backend /\ day' \in Day
  BY TypeParts, StepIsACounterStep, CounterTypeStep DEF RuntimeTypeOK
<1>1. CASE UNCHANGED <<phase, admission, claimed, retries, slipped>>
  BY <1>0, <1>1 DEF RuntimeTypeOK
<1>2. ASSUME NEW r \in Run,
             \/ StartRun(r) \/ Reserve(r) \/ Refuse(r) \/ FailRefused(r)
             \/ CancelRun(r) \/ StartElsewhere(r) \/ EndElsewhere(r)
      PROVE  RuntimeTypeOK'
  BY <1>0, <1>2 DEF StartRun, Reserve, Refuse, FailRefused, CancelRun, StartElsewhere,
                    EndElsewhere, EndRun, RuntimeTypeOK
<1>3. ASSUME NEW r \in Run, NEW e \in Execution, Claim(e, r)
      PROVE  RuntimeTypeOK'
  BY <1>0, <1>3, QuotaAssumption DEF QuotaAssumption, Claim, RuntimeTypeOK
<1>4. ASSUME NEW e \in Execution, NeverRuns(e) \/ FinishRaises(e) \/ Crash(e)
      PROVE  RuntimeTypeOK'
  <2>1. exec[e].run \in Run
    BY <1>4 DEF NeverRuns, FinishRaises, Crash, QuotaTypeOK
  <2> QED BY <1>0, <1>4, <2>1 DEF NeverRuns, FinishRaises, Crash, SlipAway, RuntimeTypeOK
<1>5. ASSUME NEW e \in Execution, MarkActiveRaises(e) \/ EndExecution(e)
      PROVE  RuntimeTypeOK'
  BY <1>0, <1>5 DEF MarkActiveRaises, EndExecution, EndRun, RuntimeTypeOK
<1>6. ASSUME NEW e \in Execution, MarkActive(e) \/ FinishExecution(e)
      PROVE  RuntimeTypeOK'
  BY <1>0, <1>6 DEF MarkActive, FinishExecution, RuntimeTypeOK
<1> QED BY <1>1, <1>2, <1>3, <1>4, <1>5, <1>6
        DEF QuotaNext, quotaVars, Midnight, ExpireQueued, ExpireActive, ExpireReservation

LEMMA QuotaTypeInit == QuotaInit => QuotaTypeOK
<1> SUFFICES ASSUME QuotaInit PROVE QuotaTypeOK
  OBVIOUS
<1>1. CounterTypeOK /\ DriftTypeOK
  BY NoneType, QuotaAssumption DEF QuotaAssumption, QuotaInit, CounterTypeOK, DriftTypeOK, Day
<1>2. ExecTypeOK
  BY NoneType DEF QuotaInit, ExecTypeOK
<1>3. RuntimeTypeOK
  BY QuotaAssumption DEF QuotaAssumption, QuotaInit, RuntimeTypeOK, Day
<1> QED BY <1>1, <1>2, <1>3, TypeParts

LEMMA QuotaTypeStep ==
  ASSUME QuotaTypeOK, HeldInv, [QuotaNext]_quotaVars
  PROVE  QuotaTypeOK'
<1>1. CounterTypeOK' /\ DriftTypeOK'
  BY TypeParts, StepIsACounterStep, CounterTypeStep, DriftTypeStep DEF RuntimeTypeOK
<1>2. QuotaTypeOK' <=> CounterTypeOK' /\ ExecTypeOK' /\ RuntimeTypeOK' /\ DriftTypeOK'
  BY DEF QuotaTypeOK, CounterTypeOK, ExecTypeOK, RuntimeTypeOK, DriftTypeOK, Reservation, Exec
<1> QED BY <1>1, <1>2, ExecTypeStep, RuntimeTypeStep

LEMMA TypeAndHeld == QuotaSpec => [](QuotaTypeOK /\ HeldInv)
<1>1. QuotaInit => QuotaTypeOK /\ HeldInv
  BY QuotaTypeInit, HeldInvInit
<1>2. QuotaTypeOK /\ HeldInv /\ [QuotaNext]_quotaVars => (QuotaTypeOK /\ HeldInv)'
  BY QuotaTypeStep, HeldInvStep
<1> QED BY <1>1, <1>2, PTL DEF QuotaSpec

\* The variables of the quota keep their types: in no order of calls and expiries does
\* a counter or a sum of tokens fall below zero, and whoever executes knows its run.
THEOREM QuotaTypeCorrect == QuotaSpec => []QuotaTypeOK
BY TypeAndHeld, PTL

-----------------------------------------------------------------------------
(* Reservations that outlive their run                                     *)

NobodyIsIdle == \A e \in Execution : exec[e].pc = "IDLE" => exec[e].run = NoRun

\* A run that was executed, and is not any more, holds nothing.
ExecutedIsDropped == \A r \in claimed \ slipped : Executing(r) \/ ~reservation[r].held

LeftoverInv == QuotaTypeOK /\ NobodyIsIdle /\ ExecutedIsDropped

LEMMA NobodyIsIdleStep ==
  ASSUME QuotaTypeOK, NobodyIsIdle, [QuotaNext]_quotaVars
  PROVE  NobodyIsIdle'
<1>1. CASE UNCHANGED exec
  BY <1>1 DEF NobodyIsIdle
<1>2. ASSUME NEW e \in Execution, NEW x, exec' = [exec EXCEPT ![e] = x],
             x.pc = "IDLE" => x.run = NoRun
      PROVE  NobodyIsIdle'
  BY <1>2 DEF NobodyIsIdle, QuotaTypeOK
<1>3. ASSUME NEW r \in Run, NEW e \in Execution, Claim(e, r)
      PROVE  NobodyIsIdle'
  <2> DEFINE x == [NoExecution EXCEPT !.pc = "START", !.run = r]
  <2>1. x.pc = "START"
    BY DEF NoExecution
  <2>2. exec' = [exec EXCEPT ![e] = x]
    BY <1>3 DEF Claim
  <2> HIDE DEF x
  <2> QED BY <1>2, <2>1, <2>2
<1>4. ASSUME NEW e \in Execution, NeverRuns(e) \/ FinishExecution(e) \/ FinishRaises(e)
      PROVE  NobodyIsIdle'
  BY <1>2, <1>4, NoneType DEF NeverRuns, FinishExecution, FinishRaises
<1>5. ASSUME NEW e \in Execution, Crash(e)
      PROVE  NobodyIsIdle'
  BY <1>2, <1>5, NoneType DEF Crash, NobodyIsIdle
<1>6. ASSUME NEW e \in Execution, MarkActive(e) \/ MarkActiveRaises(e) \/ EndExecution(e)
      PROVE  NobodyIsIdle'
  <2>1. PICK x : exec' = [exec EXCEPT ![e] = x] /\ x.pc \in {"RUN", "FINALLY"}
    BY <1>6 DEF MarkActive, MarkActiveRaises, EndExecution, QuotaTypeOK
  <2> QED BY <1>2, <2>1
<1>7. ASSUME NEW r \in Run,
             \/ StartRun(r) \/ Reserve(r) \/ Refuse(r) \/ FailRefused(r)
             \/ CancelRun(r) \/ StartElsewhere(r) \/ EndElsewhere(r) \/ ExpireReservation(r)
      PROVE  NobodyIsIdle'
  BY <1>1, <1>7 DEF StartRun, Reserve, Refuse, FailRefused, CancelRun, StartElsewhere,
                    EndElsewhere, ExpireReservation
<1> QED BY <1>1, <1>3, <1>4, <1>5, <1>6, <1>7
        DEF QuotaNext, quotaVars, Midnight, ExpireQueued, ExpireActive

\* Steps that leave the reservations alone and take nobody's execution away.
LEMMA DroppedStays ==
  ASSUME ExecutedIsDropped, reservation' = reservation,
         claimed' = claimed, slipped \subseteq slipped',
         \A r \in claimed \ slipped' : Executing(r) => Executing(r)'
  PROVE  ExecutedIsDropped'
BY DEF ExecutedIsDropped

LEMMA DropsHeld ==
  ASSUME QuotaTypeOK, NEW r \in Run, LocalDrops(r) \/ RedisDrops(r)
  PROVE  reservation' = [reservation EXCEPT ![r] = NoReservation] /\ ~reservation'[r].held
BY DEF LocalDrops, LocalSettle, LocalRelease, RedisDrops, RedisFinish, DropReservation,
       NoReservation, QuotaTypeOK

LEMMA ClaimDropped ==
  ASSUME LeftoverInv, NEW r \in Run, NEW e \in Execution, Claim(e, r)
  PROVE  ExecutedIsDropped'
<1>1. reservation' = reservation /\ claimed' = claimed \union {r} /\ slipped' = slipped
  BY DEF Claim, counters
<1>2. \A q \in Run : Executing(q) \/ q = r => Executing(q)'
  <2>1. exec'[e].run = r
    BY DEF Claim, LeftoverInv, QuotaTypeOK, NoExecution
  <2>2. \A f \in Execution : exec[f].run \in Run => f # e /\ exec'[f] = exec[f]
    BY QuotaAssumption DEF QuotaAssumption, Claim, LeftoverInv, NobodyIsIdle, QuotaTypeOK
  <2> QED BY <2>1, <2>2 DEF Executing
<1>3. claimed \subseteq Run
  BY DEF LeftoverInv, QuotaTypeOK
<1> QED BY <1>1, <1>2, <1>3 DEF LeftoverInv, ExecutedIsDropped

\* Only the run of a place that becomes idle may lose its execution.
LEMMA IdleAgain ==
  ASSUME QuotaTypeOK, NEW e \in Execution, exec' = [exec EXCEPT ![e] = NoExecution]
  PROVE  \A r \in Run \ {exec[e].run} : Executing(r) => Executing(r)'
BY DEF Executing, QuotaTypeOK

LEMMA FinishDropped ==
  ASSUME LeftoverInv, NEW e \in Execution, FinishExecution(e)
  PROVE  ExecutedIsDropped'
<1> DEFINE r == exec[e].run
<1>0. QuotaTypeOK /\ claimed \subseteq Run
  BY DEF LeftoverInv, QuotaTypeOK
<1>1. r \in Run /\ ~reservation'[r].held
      /\ \A q \in Run \ {r} : reservation'[q] = reservation[q]
  BY <1>0, FinishIsACall, DropsHeld DEF counters, QuotaTypeOK
<1>2. \A q \in Run \ {r} : Executing(q) => Executing(q)'
  BY <1>0, IdleAgain DEF FinishExecution
<1>3. claimed' = claimed /\ slipped' = slipped
  BY DEF FinishExecution
<1> QED BY <1>0, <1>1, <1>2, <1>3 DEF LeftoverInv, ExecutedIsDropped

LEMMA ReserveDropped ==
  ASSUME LeftoverInv, NEW r \in Run, Reserve(r)
  PROVE  ExecutedIsDropped'
<1>1. claimed' = claimed /\ exec' = exec
      /\ slipped' = (IF r \in claimed THEN slipped \union {r} ELSE slipped)
  BY DEF Reserve
<1>2. \A q \in Run \ {r} : reservation'[q] = reservation[q]
  BY DEF Reserve, reserve, counters, LeftoverInv, QuotaTypeOK
<1> QED BY <1>1, <1>2 DEF LeftoverInv, ExecutedIsDropped, Executing, QuotaTypeOK

LEMMA MarkDropped ==
  ASSUME LeftoverInv, NEW e \in Execution, MarkActive(e)
  PROVE  ExecutedIsDropped'
<1> DEFINE r == exec[e].run
<1>0. QuotaTypeOK /\ claimed \subseteq Run
  BY DEF LeftoverInv, QuotaTypeOK
<1>1. \A q \in Run : Executing(q) => Executing(q)'
  BY <1>0 DEF MarkActive, Executing, QuotaTypeOK
<1>2. \A q \in Run : q # r => reservation'[q] = reservation[q]
  BY <1>0 DEF MarkActive, LocalMarkActive, RedisMarkActive, QuotaTypeOK
<1>3. claimed' = claimed /\ slipped' = slipped /\ Executing(r)
  BY DEF MarkActive, Executing
<1> QED BY <1>0, <1>1, <1>2, <1>3 DEF LeftoverInv, ExecutedIsDropped

LEMMA SlipDropped ==
  ASSUME LeftoverInv, NEW e \in Execution, exec' = [exec EXCEPT ![e] = NoExecution],
         SlipAway(e), reservation' = reservation, claimed' = claimed
  PROVE  ExecutedIsDropped'
<1>1. claimed \subseteq Run /\ QuotaTypeOK
  BY DEF LeftoverInv, QuotaTypeOK
<1>2. \A r \in Run \ {exec[e].run} : Executing(r) => Executing(r)'
  BY <1>1, IdleAgain
<1> QED BY <1>1, <1>2, DroppedStays DEF SlipAway, LeftoverInv

LEMMA ExecutedIsDroppedStep ==
  ASSUME LeftoverInv, [QuotaNext]_quotaVars
  PROVE  ExecutedIsDropped'
<1>0. QuotaTypeOK /\ ExecutedIsDropped
  BY DEF LeftoverInv
<1>1. CASE UNCHANGED quotaVars \/ Midnight \/ ExpireQueued \/ ExpireActive
  BY <1>0, <1>1, DroppedStays DEF quotaVars, Midnight, ExpireQueued, ExpireActive, counters, Executing
<1>2. ASSUME NEW r \in Run,
             \/ StartRun(r) \/ Refuse(r) \/ FailRefused(r)
             \/ CancelRun(r) \/ StartElsewhere(r) \/ EndElsewhere(r)
      PROVE  ExecutedIsDropped'
  BY <1>0, <1>2, DroppedStays DEF StartRun, Refuse, FailRefused, CancelRun, StartElsewhere,
                                  EndElsewhere, counters, Executing
<1>3. ASSUME NEW r \in Run, Reserve(r) \/ \E e \in Execution : Claim(e, r)
      PROVE  ExecutedIsDropped'
  BY <1>3, ReserveDropped, ClaimDropped
<1>4. ASSUME NEW e \in Execution, NeverRuns(e) \/ FinishRaises(e)
      PROVE  ExecutedIsDropped'
  BY <1>4, SlipDropped DEF NeverRuns, FinishRaises, counters
<1>5. ASSUME NEW e \in Execution, MarkActive(e) \/ FinishExecution(e)
      PROVE  ExecutedIsDropped'
  BY <1>5, MarkDropped, FinishDropped
<1>6. ASSUME NEW e \in Execution, MarkActiveRaises(e) \/ EndExecution(e)
      PROVE  ExecutedIsDropped'
  <2>1. \A f \in Execution : exec'[f].run = exec[f].run
    BY SMTT(20), <1>0, <1>6 DEF MarkActiveRaises, EndExecution, QuotaTypeOK
  <2>2. \A r \in Run : Executing(r) => Executing(r)'
    BY <2>1 DEF Executing
  <2>3. claimed \subseteq Run
    BY <1>0 DEF QuotaTypeOK
  <2> QED BY <1>0, <1>6, <2>2, <2>3, DroppedStays DEF MarkActiveRaises, EndExecution, counters
<1>7. ASSUME NEW e \in Execution, Crash(e)
      PROVE  ExecutedIsDropped'
  <2>1. CASE backend = "REDIS"
    BY <1>7, <2>1, SlipDropped DEF Crash, counters
  <2>2. CASE backend # "REDIS"
    BY <1>0, <1>7, <2>2 DEF Crash, ExecutedIsDropped, NoReservation, QuotaTypeOK
  <2> QED BY <2>1, <2>2
<1>8. ASSUME NEW r \in Run, ExpireReservation(r)
      PROVE  ExecutedIsDropped'
  BY <1>0, <1>8 DEF ExpireReservation, ExecutedIsDropped, Executing, NoReservation, QuotaTypeOK
<1> QED BY <1>1, <1>2, <1>3, <1>4, <1>5, <1>6, <1>7, <1>8 DEF QuotaNext

\* A reservation that outlives its run was never given to an execution that came to
\* its end and calls the same service: the finally block of _execute gives back what
\* the run holds there, and it is not reserved again.  With a LOCAL service, runs that
\* other processes execute are not such runs.
THEOREM LeftoversHaveACause == QuotaSpec => []LeftoversAreExplained
<1>1. QuotaInit => LeftoverInv
  BY QuotaTypeInit DEF QuotaInit, LeftoverInv, NobodyIsIdle, ExecutedIsDropped, NoExecution
<1>2. QuotaTypeOK /\ HeldInv /\ LeftoverInv /\ [QuotaNext]_quotaVars => LeftoverInv'
  BY QuotaTypeStep, NobodyIsIdleStep, ExecutedIsDroppedStep DEF LeftoverInv
<1>3. LeftoverInv => LeftoversAreExplained
  BY DEF LeftoverInv, ExecutedIsDropped, LeftoversAreExplained, Held
<1> QED BY <1>1, <1>2, <1>3, TypeAndHeld, PTL DEF QuotaSpec

-----------------------------------------------------------------------------
(* The counter of active runs                                              *)

LEMMA ActiveDriftStep ==
  ASSUME QuotaTypeOK, HeldInv, ActiveDriftsByExpiry, [QuotaNext]_quotaVars
  PROVE  ActiveDriftsByExpiry'
<1> DEFINE Good == /\ Cardinality(Counted') - drift'.forgotten <= active'
                   /\ active' <= Cardinality(Counted') + drift'.active
                   /\ active' <= ActiveLimit
<1> SUFFICES ASSUME backend = "REDIS" PROVE Good
  BY StepIsACounterStep DEF ActiveDriftsByExpiry
<1>0. PICK n \in Nat, f \in Nat, g \in Nat, a \in Nat :
        /\ n = Cardinality(Counted) /\ f = drift.forgotten /\ g = drift.active /\ a = active
        /\ n - f <= a /\ a <= n + g /\ a <= ActiveLimit
  BY CountsAreNumbers DEF ActiveDriftsByExpiry, QuotaTypeOK
<1>1. ActiveLimit \in Nat /\ IsFiniteSet(Counted)
  BY CountsAreNumbers, QuotaAssumption DEF QuotaAssumption
<1>2. CASE Counted' = Counted /\ active' = active /\ drift' = drift
  BY <1>0, <1>1, <1>2
<1>3. ASSUME NEW r \in Run, reserve(r), drift' = drift
      PROVE  Good
  BY <1>2, <1>3, ReserveSets DEF reserve
<1>4. ASSUME NEW r \in Run, RedisMayActivate(r), RedisMarkActive(r), drift' = drift
      PROVE  Good
  <2>1. CASE reservation[r].active
    BY <1>2, <1>4, <2>1, SameSets DEF RedisMarkActive, NotYetActive
  <2>2. CASE ~reservation[r].active
    <3>1. active' = active + 1 /\ active < ActiveLimit
      BY <1>4, <2>2 DEF RedisMarkActive, NotYetActive, RedisMayActivate
    <3>2. Cardinality(Counted') = n + 1
      BY <1>0, <1>1, <1>4, <2>2, RedisMarkSets, FS_AddElement
    <3> QED BY <1>0, <1>1, <1>4, <3>1, <3>2
  <2> QED BY <2>1, <2>2
<1>5. ASSUME NEW r \in Run PROVE Cardinality(Counted \ {r}) = IF r \in Counted THEN n - 1 ELSE n
  BY <1>0, <1>1, FS_RemoveElement
<1>6. ASSUME NEW r \in Counted PROVE n > 0
  BY <1>0, <1>1, <1>6, FS_EmptySet
<1>7. ASSUME NEW r \in Run, RedisDrops(r), drift' = drift
      PROVE  Good
  <2>1. Counted' = Counted \ {r}
    BY <1>7, DropSets DEF RedisDrops, RedisFinish
  <2>2. active' = IF r \in Counted THEN Remove(active, 1) ELSE active
    BY <1>7 DEF RedisDrops, RedisFinish, Counted, Held
  <2>3. CASE r \in Counted
    <3>1. Cardinality(Counted') = n - 1 /\ n > 0 /\ active' = Remove(a, 1)
      BY <1>0, <1>5, <1>6, <2>1, <2>2, <2>3
    <3>2. active' = IF a > 0 THEN a - 1 ELSE 0
      BY <3>1 DEF Remove
    <3> QED BY <1>0, <1>1, <1>7, <3>1, <3>2
  <2>4. CASE r \notin Counted
    BY <1>2, <1>7, <2>1, <2>2, <2>4
  <2> QED BY <2>3, <2>4
<1>8. ASSUME NEW r \in Run, ExpireReservation(r)
      PROVE  Good
  <2>1. Counted' = Counted \ {r} /\ active' = active
    BY <1>8, DropSets DEF ExpireReservation, DropReservation
  <2>2. CASE r \in Counted
    <3>1. Cardinality(Counted') = n - 1 /\ n > 0
      BY <1>5, <1>6, <2>1, <2>2
    <3>2. drift'.forgotten = f /\ drift'.active = IF a > 0 THEN g + 1 ELSE g
      BY <1>0, <1>8, <2>2 DEF ExpireReservation, Counted, QuotaTypeOK
    <3> QED BY <1>0, <1>1, <2>1, <3>1, <3>2
  <2>3. CASE r \notin Counted
    <3>1. ~reservation[r].active
      BY <1>8, <2>3 DEF ExpireReservation, ReservationIsDue, Counted, Held
    <3>2. drift'.forgotten = f /\ drift'.active = g
      BY <1>0, <1>8, <3>1 DEF ExpireReservation, QuotaTypeOK
    <3>3. Counted' = Counted
      BY <2>1, <2>3
    <3> QED BY <1>0, <1>1, <2>1, <3>2, <3>3
  <2> QED BY <2>2, <2>3
<1>9. CASE ExpireQueued
  <2>1. Counted' = Counted /\ active' = active
    BY <1>9, SameSets DEF ExpireQueued
  <2>2. drift'.forgotten = f /\ drift'.active = g
    BY <1>0, <1>9 DEF ExpireQueued, QuotaTypeOK
  <2> QED BY <1>0, <1>1, <2>1, <2>2
<1>10. CASE ExpireActive
  <2>1. Counted' = Counted /\ active' = 0
    BY <1>10, SameSets DEF ExpireActive
  <2>2. drift'.forgotten = n /\ drift'.active = 0
    BY <1>0, <1>10 DEF ExpireActive, QuotaTypeOK
  <2> QED BY <1>0, <1>1, <2>1, <2>2
<1>11. CASE reservation' = reservation /\ active' = active /\ drift' = drift
  BY <1>2, <1>11, SameSets
<1> HIDE DEF Good
<1>12. CASE NewDay \/ UNCHANGED <<day, counters, drift>>
  BY <1>11, <1>12 DEF NewDay, counters
<1>13. ASSUME UNCHANGED <<day, drift>>, ProcessLost \/ \E r \in Run : QuotaCall(r)
       PROVE  Good
  BY <1>3, <1>4, <1>7, <1>13 DEF QuotaCall, ProcessLost, LocalDrops
<1> QED BY <1>8, <1>9, <1>10, <1>12, <1>13, StepIsACounterStep DEF CounterStep

\* In whatever order runs are reserved, activated (again), settled and released, the
\* Redis counter of active runs is the number of reservations marked active, but for
\* those that were marked when the counter expired, or expired under it; and it keeps
\* the concurrency limit of the tenant.
THEOREM ActiveCounterDrifts == QuotaSpec => []ActiveDriftsByExpiry
<1>1. QuotaInit => ActiveDriftsByExpiry
  BY HeldInvInit, FS_EmptySet, QuotaAssumption
     DEF QuotaAssumption, QuotaInit, ActiveDriftsByExpiry
<1>2. QuotaTypeOK /\ HeldInv /\ ActiveDriftsByExpiry /\ [QuotaNext]_quotaVars
        => ActiveDriftsByExpiry'
  BY ActiveDriftStep
<1> QED BY <1>1, <1>2, TypeAndHeld, PTL DEF QuotaSpec

-----------------------------------------------------------------------------
(* The counter of waiting runs                                             *)

\* The runs whose execution passed mark_active.
Marked == {r \in Run : \E e \in Execution : exec[e].run = r /\ exec[e].pc \in {"RUN", "FINALLY"}}

\* A run is executed after it was created, and in the process of a LOCAL service
\* after its reservation.
OrderInv ==
  /\ \A r \in Run : phase[r] = "NONE" => ~Executing(r)
  /\ backend = "LOCAL" => \A r \in Marked : admission[r] # "RESERVING"

\* With a LOCAL service a run leaves the counter when its execution begins, although
\* its reservation is not marked.
QueueInv ==
  /\ backend = "REDIS" => queued <= Cardinality(Waiting) + drift.queued
  /\ backend = "LOCAL" => queued <= Cardinality(Held \ Marked)

LEMMA SameExec == ASSUME exec' = exec PROVE Marked' = Marked /\ \A r : Executing(r)' <=> Executing(r)
BY DEF Marked, Executing

LEMMA MarkedAreExecuting == Marked \subseteq {r \in Run : Executing(r)}
BY DEF Marked, Executing

\* How the steps of one place change these sets.
LEMMA ClaimMarks ==
  ASSUME QuotaTypeOK, NEW r \in Run, NEW e \in Execution, Claim(e, r)
  PROVE  /\ Marked' = Marked /\ phase[r] = "OPEN"
         /\ \A q \in Run : Executing(q)' => Executing(q) \/ q = r
<1>1. exec'[e].pc = "START" /\ exec'[e].run = r /\ exec[e].pc = "IDLE"
  BY DEF Claim, NoExecution, QuotaTypeOK
<1>2. \A f \in Execution \ {e} : exec'[f] = exec[f]
  BY DEF Claim, QuotaTypeOK
<1>3. Marked' = Marked
  BY <1>1, <1>2 DEF Marked
<1> QED BY <1>1, <1>2, <1>3 DEF Claim, Executing

LEMMA IdleMarks ==
  ASSUME QuotaTypeOK, NEW e \in Execution, exec' = [exec EXCEPT ![e] = NoExecution]
  PROVE  /\ Marked' \subseteq Marked /\ Marked \ {exec[e].run} \subseteq Marked'
         /\ exec[e].pc = "START" => Marked' = Marked
         /\ \A q \in Run : Executing(q)' => Executing(q)
<1>1. exec'[e].pc = "IDLE" /\ exec'[e].run \notin Run
  BY QuotaAssumption DEF QuotaAssumption, NoExecution, QuotaTypeOK
<1>2. \A f \in Execution \ {e} : exec'[f] = exec[f]
  BY DEF QuotaTypeOK
<1> QED BY <1>1, <1>2 DEF Marked, Executing

LEMMA GoOnMarks ==
  ASSUME QuotaTypeOK, NEW e \in Execution, MarkActive(e) \/ MarkActiveRaises(e) \/ EndExecution(e)
  PROVE  /\ MarkActive(e) => Marked' = Marked \union {exec[e].run}
         /\ EndExecution(e) => Marked' = Marked
         /\ \A q \in Run : Executing(q)' => Executing(q)
<1>1. \A f \in Execution \ {e} : exec'[f] = exec[f]
  BY DEF MarkActive, MarkActiveRaises, EndExecution, QuotaTypeOK
<1>2. exec'[e].run = exec[e].run /\ exec[e].run \in Run
  BY DEF MarkActive, MarkActiveRaises, EndExecution, QuotaTypeOK
<1>3. MarkActive(e) => exec'[e].pc = "RUN"
  BY DEF MarkActive, QuotaTypeOK
<1>4. EndExecution(e) => exec[e].pc = "RUN" /\ exec'[e].pc = "FINALLY"
  BY DEF EndExecution, QuotaTypeOK
<1>5. \A q \in Run : Executing(q)' => Executing(q)
  BY <1>1, <1>2 DEF Executing
<1>6. MarkActive(e) => Marked' = Marked \union {exec[e].run}
  BY <1>1, <1>2, <1>3 DEF Marked
<1>7. EndExecution(e) => Marked' = Marked
  BY <1>1, <1>2, <1>4 DEF Marked
<1> QED BY <1>5, <1>6, <1>7

LEMMA CrashMarks ==
  ASSUME QuotaTypeOK, NEW e \in Execution, Crash(e)
  PROVE  Marked' \subseteq Marked /\ \A q \in Run : Executing(q)' => Executing(q)
<1>1. CASE exec' = [exec EXCEPT ![e] = NoExecution]
  BY <1>1, IdleMarks
<1>2. CASE exec' = [f \in Execution |-> NoExecution]
  <2>1. \A f \in Execution : exec'[f].run \notin Run
    BY <1>2, QuotaAssumption DEF QuotaAssumption, NoExecution
  <2> QED BY <2>1 DEF Marked, Executing
<1> QED BY <1>1, <1>2 DEF Crash

LEMMA OrderStep ==
  ASSUME QuotaTypeOK, OrderInv, [QuotaNext]_quotaVars
  PROVE  OrderInv'
<1>0. backend' = backend
  BY StepIsACounterStep
<1>1. CASE UNCHANGED <<phase, admission, exec>>
  BY <1>0, <1>1, SameExec DEF OrderInv
<1>2. ASSUME NEW r \in Run, StartRun(r) \/ StartElsewhere(r)
      PROVE  OrderInv'
  <2>1. Marked' = Marked /\ (\A q : Executing(q)' <=> Executing(q)) /\ r \notin Marked
    BY <1>2, SameExec, MarkedAreExecuting DEF StartRun, StartElsewhere, OrderInv
  <2>2. \A q \in Run : phase'[q] = "NONE" => phase[q] = "NONE"
    BY <1>2 DEF StartRun, StartElsewhere, QuotaTypeOK
  <2>3. \A q \in Run \ {r} : admission'[q] = admission[q]
    BY <1>2 DEF StartRun, StartElsewhere, QuotaTypeOK
  <2>4. Marked \subseteq Run
    BY MarkedAreExecuting
  <2> QED BY <1>0, <2>1, <2>2, <2>3, <2>4 DEF OrderInv
<1>3. ASSUME NEW r \in Run,
             Reserve(r) \/ Refuse(r) \/ FailRefused(r) \/ CancelRun(r) \/ EndElsewhere(r)
      PROVE  OrderInv'
  <2>1. \A q \in Run : (phase'[q] = "NONE" => phase[q] = "NONE")
                       /\ (admission'[q] = "RESERVING" => admission[q] = "RESERVING")
    BY <1>3 DEF Reserve, Refuse, FailRefused, CancelRun, EndElsewhere, EndRun, QuotaTypeOK
  <2>2. Marked' = Marked /\ (\A q : Executing(q)' <=> Executing(q)) /\ Marked \subseteq Run
    BY <1>3, SameExec, MarkedAreExecuting DEF Reserve, Refuse, FailRefused, CancelRun, EndElsewhere
  <2> QED BY <1>0, <2>1, <2>2 DEF OrderInv
<1>4. ASSUME NEW r \in Run, NEW e \in Execution, Claim(e, r)
      PROVE  OrderInv'
  <2>1. phase' = phase /\ admission' = admission
    BY <1>4 DEF Claim
  <2> QED BY <1>0, <1>4, <2>1, ClaimMarks DEF OrderInv
<1>5. ASSUME NEW e \in Execution, NeverRuns(e) \/ FinishExecution(e) \/ FinishRaises(e)
      PROVE  OrderInv'
  <2>1. phase' = phase /\ admission' = admission
    BY <1>5 DEF NeverRuns, FinishExecution, FinishRaises
  <2> QED BY <1>0, <1>5, <2>1, IdleMarks DEF OrderInv, NeverRuns, FinishExecution, FinishRaises
<1>6. ASSUME NEW e \in Execution, MarkActive(e) \/ MarkActiveRaises(e) \/ EndExecution(e)
      PROVE  OrderInv'
  <2>1. \A q \in Run : (phase'[q] = "NONE" => phase[q] = "NONE") /\ (Executing(q)' => Executing(q))
    BY <1>6, GoOnMarks DEF MarkActive, MarkActiveRaises, EndExecution, EndRun, QuotaTypeOK
  <2>2. admission' = admission
    BY <1>6 DEF MarkActive, MarkActiveRaises, EndExecution
  <2>3. CASE MarkActive(e)
    <3>1. backend = "LOCAL" => \A q \in Run : admission[q] # "RESERVING"
      BY <2>3 DEF MarkActive, MayStep, AdmissionIsOver
    <3>2. Marked' \subseteq Run
      BY DEF Marked
    <3> QED BY <1>0, <2>1, <2>2, <3>1, <3>2 DEF OrderInv
  <2>4. CASE EndExecution(e)
    BY <1>0, <2>1, <2>2, <2>4, GoOnMarks DEF OrderInv
  <2>5. CASE MarkActiveRaises(e)
    BY <1>0, <2>1, <2>2, <2>5 DEF OrderInv, MarkActiveRaises
  <2> QED BY <1>6, <2>3, <2>4, <2>5
<1>7. ASSUME NEW e \in Execution, Crash(e)
      PROVE  OrderInv'
  <2>1. phase' = phase
    BY <1>7 DEF Crash
  <2>2. \A q \in Run : admission'[q] = "RESERVING" => admission[q] = "RESERVING"
    BY <1>7 DEF Crash
  <2>3. Marked \subseteq Run
    BY MarkedAreExecuting
  <2> QED BY <1>0, <1>7, <2>1, <2>2, <2>3, CrashMarks DEF OrderInv
<1> QED BY <1>1, <1>2, <1>3, <1>4, <1>5, <1>6, <1>7
        DEF QuotaNext, quotaVars, Midnight, ExpireQueued, ExpireActive, ExpireReservation

\* Taking one element away is at most one less, and never below zero.
LEMMA OneLess ==
  ASSUME NEW S, IsFiniteSet(S), NEW x, NEW n \in Nat, n <= Cardinality(S)
  PROVE  /\ Remove(n, 1) <= Cardinality(S \ {x})
         /\ x \notin S => n <= Cardinality(S \ {x})
<1>1. Cardinality(S) \in Nat
  BY FS_CardinalityType
<1>2. Cardinality(S \ {x}) \in Nat
  BY FS_RemoveElement, FS_CardinalityType
<1>3. Cardinality(S \ {x}) = IF x \in S THEN Cardinality(S) - 1 ELSE Cardinality(S)
  BY FS_RemoveElement
<1> QED BY <1>1, <1>2, <1>3 DEF Remove

LEMMA RemoveOne ==
  ASSUME NEW n \in Nat
  PROVE  Remove(n, 1) = IF n > 0 THEN n - 1 ELSE 0
BY DEF Remove

LEMMA RedisQueueStep ==
  ASSUME QuotaTypeOK, HeldInv, QueueInv, backend = "REDIS", CounterStep
  PROVE  queued' <= Cardinality(Waiting') + drift'.queued
<1> DEFINE Good == queued' <= Cardinality(Waiting') + drift'.queued
<1> SUFFICES Good
  OBVIOUS
<1>0. PICK n \in Nat, d \in Nat :
        n = Cardinality(Waiting) /\ d = drift.queued /\ queued \in Nat /\ queued <= n + d
  BY CountsAreNumbers DEF QueueInv, QuotaTypeOK
<1>1. IsFiniteSet(Waiting)
  BY CountsAreNumbers
<1>2. CASE Waiting' = Waiting /\ queued' = queued /\ drift' = drift
  BY <1>0, <1>2
<1>3. CASE reservation' = reservation /\ queued' = queued /\ drift' = drift
  BY <1>2, <1>3, SameSets
<1>4. ASSUME NEW r \in Run, reserve(r), drift' = drift
      PROVE  Good
  <2>1. Cardinality(Waiting') = n + 1 /\ queued' = queued + 1
    BY <1>0, <1>1, <1>4, ReserveSets, FS_AddElement DEF reserve
  <2> QED BY <1>0, <1>4, <2>1
<1>5. ASSUME NEW r \in Run, Waiting' = Waiting \ {r}
      PROVE  Cardinality(Waiting') = IF r \in Waiting THEN n - 1 ELSE n
  BY <1>0, <1>1, <1>5, FS_RemoveElement
<1>6. ASSUME NEW r \in Run, Waiting' = Waiting \ {r}, drift' = drift,
             queued' = Remove(queued, 1) \/ (queued' = queued /\ r \notin Waiting)
      PROVE  Good
  <2>1. queued' = (IF queued > 0 THEN queued - 1 ELSE 0) \/ (queued' = queued /\ r \notin Waiting)
    BY <1>0, <1>6, RemoveOne
  <2>2. r \in Waiting => n > 0
    BY <1>0, <1>1, FS_EmptySet
  <2>3. Cardinality(Waiting') = IF r \in Waiting THEN n - 1 ELSE n
    BY <1>5, <1>6
  <2> QED BY <1>0, <1>6, <2>1, <2>2, <2>3
<1>7. ASSUME NEW r \in Run, RedisMarkActive(r), drift' = drift
      PROVE  Good
  <2>1. CASE reservation[r].active
    BY <1>3, <1>7, <2>1 DEF RedisMarkActive, NotYetActive
  <2>2. CASE ~reservation[r].active
    BY <1>6, <1>7, <2>2, RedisMarkSets DEF RedisMarkActive, NotYetActive
  <2> QED BY <2>1, <2>2
<1>8. ASSUME NEW r \in Run, RedisDrops(r), drift' = drift
      PROVE  Good
  <2>1. Waiting' = Waiting \ {r}
    BY <1>8, DropSets DEF RedisDrops, RedisFinish
  <2>2. queued' = IF reservation[r].active THEN queued ELSE Remove(queued, 1)
    BY <1>8 DEF RedisDrops, RedisFinish, LeaveQueue
  <2>3. reservation[r].active => r \notin Waiting
    BY DEF Waiting
  <2> QED BY <1>6, <1>8, <2>1, <2>2, <2>3
<1>9. ASSUME NEW r \in Run, ExpireReservation(r)
      PROVE  Good
  <2>1. Waiting' = Waiting \ {r} /\ queued' = queued
    BY <1>9, DropSets DEF ExpireReservation, DropReservation
  <2>2. CASE reservation[r].active
    <3>1. drift'.queued = d /\ r \notin Waiting
      BY <1>0, <1>9, <2>2 DEF ExpireReservation, QuotaTypeOK, Waiting
    <3>2. Waiting' = Waiting
      BY <2>1, <3>1
    <3> QED BY <1>0, <2>1, <3>1, <3>2
  <2>3. CASE ~reservation[r].active
    <3>1. drift'.queued = IF queued > 0 THEN d + 1 ELSE d
      BY <1>0, <1>9, <2>3 DEF ExpireReservation, QuotaTypeOK
    <3>2. Cardinality(Waiting') \in Nat
      BY <1>1, <2>1, FS_RemoveElement, FS_CardinalityType
    <3> QED BY <1>0, <1>5, <2>1, <3>1, <3>2
  <2> QED BY <2>2, <2>3
<1>10. CASE ExpireQueued
  <2>1. Waiting' = Waiting /\ queued' = 0 /\ drift'.queued = 0
    BY <1>10, SameSets DEF ExpireQueued, QuotaTypeOK
  <2> QED BY <1>0, <2>1
<1>11. CASE ExpireActive
  <2>1. Waiting' = Waiting /\ queued' = queued /\ drift'.queued = d
    BY <1>0, <1>11, SameSets DEF ExpireActive, QuotaTypeOK
  <2> QED BY <1>0, <2>1
<1> HIDE DEF Good
<1>12. CASE NewDay \/ UNCHANGED <<day, counters, drift>>
  BY <1>3, <1>12 DEF NewDay, counters
<1>13. ASSUME UNCHANGED <<day, drift>>, ProcessLost \/ \E r \in Run : QuotaCall(r)
       PROVE  Good
  BY <1>4, <1>7, <1>8, <1>13 DEF QuotaCall, ProcessLost, LocalDrops
<1> QED BY <1>9, <1>10, <1>11, <1>12, <1>13 DEF CounterStep

LEMMA LocalQueueStep ==
  ASSUME QuotaTypeOK, HeldInv, OrderInv, QueueInv, backend = "LOCAL", [QuotaNext]_quotaVars
  PROVE  queued' <= Cardinality((Held \ Marked)')
<1> DEFINE S == Held \ Marked
<1>0. /\ queued \in Nat /\ IsFiniteSet(S) /\ queued <= Cardinality(S) /\ Cardinality(S) \in Nat
      /\ Held \subseteq Run /\ Marked \subseteq Run
  <2>1. S \in SUBSET Held
    OBVIOUS
  <2>2. IsFiniteSet(S)
    BY <2>1, FS_Subset DEF HeldInv
  <2> QED BY <2>2, FS_CardinalityType DEF QueueInv, QuotaTypeOK, Held, Marked
<1>1. CASE queued' = queued /\ (Held \ Marked)' = S
  BY <1>0, <1>1
<1>2. CASE UNCHANGED <<queued, reservation, exec>>
  BY <1>1, <1>2, SameSets, SameExec
<1>3. ASSUME NEW r \in Run, Reserve(r)
      PROVE  queued' <= Cardinality((Held \ Marked)')
  <2>1. CASE reserve(r)
    <3>1. r \notin Held /\ r \notin Marked /\ Held' = Held \union {r} /\ Marked' = Marked
      BY <1>3, <2>1, ReserveSets, SameExec DEF Reserve, reserve, OrderInv, Held
    <3>2. (Held \ Marked)' = S \union {r}
      BY <3>1
    <3>3. Cardinality(S \union {r}) = Cardinality(S) + 1
      BY <1>0, <3>1, FS_AddElement
    <3>4. queued' = queued + 1
      BY <2>1 DEF reserve
    <3>5. queued' <= Cardinality(S \union {r})
      BY <1>0, <3>3, <3>4
    <3> QED BY <3>2, <3>5
  <2> QED BY <1>2, <1>3, <2>1 DEF Reserve, counters
<1>4. ASSUME NEW r \in Run,
             \/ StartRun(r) \/ Refuse(r) \/ FailRefused(r)
             \/ CancelRun(r) \/ StartElsewhere(r) \/ EndElsewhere(r)
      PROVE  queued' <= Cardinality((Held \ Marked)')
  BY <1>2, <1>4 DEF StartRun, Refuse, FailRefused, CancelRun, StartElsewhere, EndElsewhere, counters
<1>5. ASSUME NEW r \in Run, NEW e \in Execution, Claim(e, r)
      PROVE  queued' <= Cardinality((Held \ Marked)')
  BY <1>1, <1>5, ClaimMarks, SameSets DEF Claim, counters
<1>6. ASSUME NEW e \in Execution, NeverRuns(e)
      PROVE  queued' <= Cardinality((Held \ Marked)')
  BY <1>1, <1>6, IdleMarks, SameSets DEF NeverRuns, counters
<1>7. ASSUME NEW e \in Execution, MarkActive(e)
      PROVE  queued' <= Cardinality((Held \ Marked)')
  <2> DEFINE r == exec[e].run
  <2>1. Held' = Held /\ Marked' = Marked \union {r}
    BY <1>7, GoOnMarks, SameSets DEF MarkActive, LocalMarkActive
  <2>2. (Held \ Marked)' = S \ {r}
    BY <2>1
  <2>3. queued' = IF r \in Held THEN Remove(queued, 1) ELSE queued
    <3>1. r \in Run
      BY <1>7 DEF MarkActive, QuotaTypeOK
    <3> QED BY <1>0, <1>7, <3>1 DEF MarkActive, LocalMarkActive, Remove, Held
  <2> QED BY <1>0, <2>2, <2>3, OneLess
<1>8. ASSUME NEW e \in Execution, EndExecution(e)
      PROVE  queued' <= Cardinality((Held \ Marked)')
  BY <1>1, <1>8, GoOnMarks, SameSets DEF EndExecution, counters
<1>9. ASSUME NEW e \in Execution, FinishExecution(e)
      PROVE  queued' <= Cardinality((Held \ Marked)')
  <2> DEFINE r == exec[e].run
  <2>1. r \in Marked /\ Marked' \subseteq Marked /\ Marked \ {r} \subseteq Marked'
    BY <1>9, FinishIsACall, IdleMarks DEF FinishExecution, Marked
  <2>2. CASE UNCHANGED counters /\ ~reservation[r].held
    BY <1>1, <2>1, <2>2, SameSets DEF counters, Held
  <2>3. CASE LocalDrops(r)
    <3>1. Held' = Held \ {r}
      BY <1>9, <2>3, FinishIsACall, DropSets DEF LocalDrops, LocalSettle, LocalRelease
    <3>2. (Held \ Marked)' = S
      BY <2>1, <3>1
    <3>3. queued' = queued \/ queued' = Remove(queued, 1)
      BY <2>3 DEF LocalDrops, LocalSettle, LocalRelease
    <3>4. queued' \in Nat /\ queued' <= queued
      BY <1>0, <3>3 DEF Remove
    <3> QED BY <1>0, <3>2, <3>4
  <2> QED BY <1>9, <2>2, <2>3, FinishIsACall DEF RedisDrops
<1>10. ASSUME NEW e \in Execution, Crash(e)
       PROVE  queued' <= Cardinality((Held \ Marked)')
  <2>1. ProcessLost
    BY <1>10 DEF Crash, ProcessLost
  <2>2. (Held \ Marked)' = {}
    BY <2>1, LostSets
  <2> QED BY <2>1, <2>2, FS_EmptySet DEF ProcessLost
<1>11. CASE UNCHANGED quotaVars \/ Midnight
  BY <1>2, <1>11 DEF quotaVars, Midnight, counters
<1> QED BY <1>3, <1>4, <1>5, <1>6, <1>7, <1>8, <1>9, <1>10, <1>11
        DEF QuotaNext, MarkActiveRaises, FinishRaises, ExpireQueued, ExpireActive, ExpireReservation

LEMMA QueueStep ==
  ASSUME QuotaTypeOK, HeldInv, OrderInv, QueueInv, [QuotaNext]_quotaVars
  PROVE  QueueInv'
BY StepIsACounterStep, RedisQueueStep, LocalQueueStep DEF QueueInv

LEMMA QueueIsEnough ==
  ASSUME QuotaTypeOK, HeldInv, QueueInv
  PROVE  QueueOvercountsByExpiry
<1>1. CASE backend = "REDIS"
  BY <1>1 DEF QueueInv, QueueOvercountsByExpiry
<1>2. CASE backend = "LOCAL"
  <2>1. Held \ Marked \subseteq Waiting
    BY <1>2 DEF HeldInv, Waiting, Counted
  <2>2. Cardinality(Held \ Marked) <= Cardinality(Waiting)
    BY <2>1, CountsAreNumbers, FS_Subset
  <2>3. Cardinality(Held \ Marked) \in Nat /\ Cardinality(Waiting) \in Nat /\ drift.queued \in Nat
    BY <2>1, CountsAreNumbers, FS_Subset, FS_CardinalityType DEF QuotaTypeOK
  <2> QED BY <1>2, <2>2, <2>3 DEF QueueInv, QueueOvercountsByExpiry, QuotaTypeOK
<1> QED BY <1>1, <1>2 DEF QuotaTypeOK

\* The field "queued" may fall behind, when a run is dropped that was not counted any
\* more; it runs ahead of the reservations that wait only by those that expired under
\* it, which is how a leaked reservation keeps a place in the queue for ever.
THEOREM QueueCounterOvercounts == QuotaSpec => []QueueOvercountsByExpiry
<1> DEFINE I == QuotaTypeOK /\ HeldInv /\ OrderInv /\ QueueInv
<1>1. QuotaInit => I
  <2> SUFFICES ASSUME QuotaInit PROVE I
    OBVIOUS
  <2>1. \A r \in Run : ~Executing(r)
    BY QuotaAssumption DEF QuotaAssumption, QuotaInit, Executing, NoExecution
  <2>2. Marked = {}
    BY <2>1, MarkedAreExecuting
  <2>3. queued = 0 /\ drift.queued = 0 /\ Held \ Marked = {} /\ Waiting = {}
    BY HeldInvInit DEF QuotaInit
  <2>4. QueueInv
    BY <2>3, FS_EmptySet DEF QueueInv
  <2> QED BY <2>1, <2>2, <2>4, QuotaTypeInit, HeldInvInit DEF OrderInv
<1>2. I /\ [QuotaNext]_quotaVars => I'
  BY QuotaTypeStep, HeldInvStep, OrderStep, QueueStep
<1>3. I => QueueOvercountsByExpiry
  BY QueueIsEnough
<1> QED BY <1>1, <1>2, <1>3, PTL DEF QuotaSpec

-----------------------------------------------------------------------------
(* The tokens reserved                                                     *)

\* The tokens reserved today are at most those of the reservations made today.  Until
\* the first midnight what a reservation gives back is what it took.
TokenInv ==
  /\ reserved <= RunTokens * Cardinality(Charged)
  /\ day = 0 => reserved = RunTokens * Cardinality(Charged)
  /\ \A r \in Run : reservation[r].tokens > 0 => reservation[r].made \in Nat /\ reservation[r].made <= day

\* The last conjunct, over one step.
MadeBefore == \A r \in Run : reservation'[r].tokens > 0 => reservation'[r].made \in Nat /\ reservation'[r].made <= day'

LEMMA OneMoreTime ==
  ASSUME NEW a \in Nat, NEW n \in Nat
  PROVE  a * n \in Nat /\ a * (n + 1) = a * n + a
OBVIOUS

LEMMA OneMoreCharge ==
  ASSUME NEW S, IsFiniteSet(S), NEW x, x \notin S
  PROVE  RunTokens * Cardinality(S \union {x}) = RunTokens * Cardinality(S) + RunTokens
<1>1. Cardinality(S \union {x}) = Cardinality(S) + 1 /\ Cardinality(S) \in Nat
  BY FS_AddElement, FS_CardinalityType
<1> QED BY <1>1, OneMoreTime, QuotaAssumption DEF QuotaAssumption

LEMMA TokensReserved ==
  ASSUME QuotaTypeOK, HeldInv, TokenInv, NEW r \in Run, reserve(r), day' = day
  PROVE  TokenInv'
<1> DEFINE n == RunTokens * Cardinality(Charged)
<1>0. RunTokens \in Nat /\ day \in Nat /\ IsFiniteSet(Charged) /\ reserved \in Nat
  BY CountsAreNumbers, QuotaAssumption DEF QuotaAssumption, QuotaTypeOK, Day
<1>1. n \in Nat
  BY <1>0, CountsAreNumbers, OneMoreTime
<1>2. RunTokens * Cardinality(Charged') = n + RunTokens
  <2>1. CASE RunTokens > 0
    <3>1. r \notin Charged /\ Charged' = Charged \union {r}
      BY <2>1, ReserveSets
    <3> QED BY <1>0, <3>1, OneMoreCharge
  <2>2. CASE RunTokens = 0
    BY <1>0, <1>1, <2>2, ReserveSets
  <2> QED BY <1>0, <2>1, <2>2
<1>3. reserved' = reserved + RunTokens
  BY DEF reserve
<1>4. MadeBefore
  BY <1>0 DEF reserve, TokenInv, QuotaTypeOK, MadeBefore
<1>5. reserved <= n /\ (day = 0 => reserved = n)
  BY DEF TokenInv
<1> HIDE DEF n
<1>6. /\ reserved' <= RunTokens * Cardinality(Charged')
      /\ day' = 0 => reserved' = RunTokens * Cardinality(Charged')
  BY <1>0, <1>1, <1>2, <1>3, <1>5
<1> QED BY <1>4, <1>6 DEF TokenInv, MadeBefore

\* Giving back takes no more than the reservation counts for; a reservation of an
\* earlier day may take away what others hold.
LEMMA TokensReturned ==
  ASSUME QuotaTypeOK, HeldInv, TokenInv, NEW r \in Run, reservation[r].held, day' = day,
         DropReservation(r), ReturnTokens(r)
  PROVE  TokenInv'
<1> DEFINE n == RunTokens * Cardinality(Charged')
           k == RunTokens * Cardinality(Charged)
           t == reservation[r].tokens
<1>0. RunTokens \in Nat /\ day \in Nat /\ IsFiniteSet(Charged) /\ reserved \in Nat /\ t \in {0, RunTokens}
  BY CountsAreNumbers, QuotaAssumption DEF QuotaAssumption, QuotaTypeOK, Day
<1>1. Charged' = Charged \ {r} /\ IsFiniteSet(Charged') /\ Cardinality(Charged') \in Nat
  BY <1>0, DropSets, FS_RemoveElement, FS_CardinalityType
<1>2. n \in Nat
  BY <1>0, <1>1, OneMoreTime
<1>3. k = (IF r \in Charged THEN n + t ELSE n)
  <2>1. CASE r \in Charged
    <3>1. Charged = Charged' \union {r} /\ r \notin Charged'
      BY <1>1, <2>1
    <3>2. t = RunTokens
      BY <1>0, <2>1 DEF Charged
    <3> QED BY <1>1, <2>1, <3>1, <3>2, OneMoreCharge
  <2>2. CASE r \notin Charged
    <3>1. Charged' = Charged
      BY <1>1, <2>2
    <3> QED BY <2>2, <3>1
  <2> QED BY <2>1, <2>2
<1>4. day = 0 /\ r \notin Charged => t = 0
  BY <1>0 DEF Charged, Held, TokenInv
<1>5. reserved' = Remove(reserved, t)
  BY DEF ReturnTokens
<1>6. reserved <= k /\ (day = 0 => reserved = k)
  BY DEF TokenInv
<1>7. MadeBefore
  BY DEF DropReservation, NoReservation, TokenInv, QuotaTypeOK, MadeBefore
<1> HIDE DEF n, k, t
<1>8. reserved' <= n /\ (day = 0 => reserved' = n)
  BY <1>0, <1>2, <1>3, <1>4, <1>5, <1>6 DEF Remove
<1> QED BY <1>7, <1>8 DEF TokenInv, MadeBefore, n

LEMMA TokenStep ==
  ASSUME QuotaTypeOK, HeldInv, TokenInv, [QuotaNext]_quotaVars
  PROVE  TokenInv'
<1>0. CounterStep /\ day \in Nat /\ RunTokens \in Nat
  BY StepIsACounterStep, QuotaAssumption DEF QuotaAssumption, QuotaTypeOK, Day
<1>1. CASE reservation' = reservation /\ reserved' = reserved /\ day' = day
  BY <1>1, SameSets DEF TokenInv
<1>2. CASE NewDay
  <2>1. HeldInv'
    BY HeldInvStep
  <2>2. Cardinality(Charged') \in Nat
    BY <2>1, CountsPrimed
  <2>3. RunTokens * Cardinality(Charged') \in Nat
    BY <1>0, <2>2, OneMoreTime
  <2>4. reserved' = 0 /\ day' = day + 1 /\ reservation' = reservation
    BY <1>2 DEF NewDay
  <2>5. MadeBefore
    BY <1>0, <2>4 DEF TokenInv, MadeBefore
  <2> QED BY <1>0, <2>3, <2>4, <2>5 DEF TokenInv, MadeBefore
<1>3. CASE ProcessLost /\ day' = day
  <2>1. RunTokens * Cardinality(Charged') = 0
    BY <1>3, LostSets, FS_EmptySet, QuotaAssumption DEF QuotaAssumption
  <2>2. reserved' = 0 /\ MadeBefore
    BY <1>3 DEF ProcessLost, NoReservation, MadeBefore
  <2> QED BY <1>0, <1>3, <2>1, <2>2 DEF TokenInv, MadeBefore
<1>4. ASSUME NEW r \in Run, QuotaCall(r), day' = day
      PROVE  TokenInv'
  <2>1. CASE reserve(r)
    BY <1>4, <2>1, TokensReserved
  <2>2. CASE LocalMarkActive(r)
    BY <1>1, <1>4, <2>2 DEF LocalMarkActive
  <2>3. CASE RedisMarkActive(r)
    <3>1. CASE reservation[r].active
      BY <1>1, <1>4, <2>3, <3>1 DEF RedisMarkActive, NotYetActive
    <3>2. CASE ~reservation[r].active
      <4>1. Charged' = Charged /\ reserved' = reserved
        BY <1>4, <2>3, <3>2, RedisMarkSets DEF RedisMarkActive
      <4>2. \A q \in Run : /\ reservation'[q].tokens = reservation[q].tokens
                           /\ reservation'[q].made = reservation[q].made
        BY <2>3 DEF RedisMarkActive, QuotaTypeOK
      <4> QED BY <1>4, <4>1, <4>2 DEF TokenInv
    <3> QED BY <3>1, <3>2
  <2>4. CASE LocalDrops(r) \/ RedisDrops(r)
    BY <1>4, <2>4, TokensReturned DEF LocalDrops, LocalSettle, LocalRelease, RedisDrops, RedisFinish
  <2> QED BY <1>4, <2>1, <2>2, <2>3, <2>4 DEF QuotaCall
<1>5. ASSUME NEW r \in Run, ExpireReservation(r)
      PROVE  TokenInv'
  <2>1. Charged' = Charged \ {r} /\ reserved' = reserved /\ day' = day
    BY <1>5, DropSets DEF ExpireReservation, DropReservation
  <2>2. day # 0 /\ r \notin Charged
    BY <1>0, <1>5 DEF ExpireReservation, ReservationIsDue, ReservationLife, Never, Charged, QuotaTypeOK, Day
  <2>3. Charged' = Charged
    BY <2>1, <2>2
  <2>4. MadeBefore
    BY <1>5 DEF ExpireReservation, NoReservation, TokenInv, QuotaTypeOK, MadeBefore
  <2> QED BY <2>1, <2>2, <2>3, <2>4 DEF TokenInv, MadeBefore
<1> QED BY <1>0, <1>1, <1>2, <1>3, <1>4, <1>5 DEF CounterStep, counters, ExpireQueued, ExpireActive

\* The tokens reserved today never exceed those of the reservations made today and
\* still held, so budget is only withheld by a reservation somebody can find; before
\* the first midnight, after which a reservation may give back on another day than it
\* took, they are exactly those.
THEOREM TokenCounterIsCovered == QuotaSpec => []ReservedTokensAreHeld
<1> DEFINE I == QuotaTypeOK /\ HeldInv /\ TokenInv
<1>1. QuotaInit => I
  <2> SUFFICES ASSUME QuotaInit PROVE I
    OBVIOUS
  <2>1. RunTokens * Cardinality(Charged) = 0
    BY HeldInvInit, FS_EmptySet, QuotaAssumption DEF QuotaAssumption
  <2>2. \A r \in Run : reservation[r].tokens = 0
    BY DEF QuotaInit, NoReservation
  <2> QED BY <2>1, <2>2, QuotaTypeInit, HeldInvInit DEF TokenInv, QuotaInit
<1>2. I /\ [QuotaNext]_quotaVars => I'
  BY QuotaTypeStep, HeldInvStep, TokenStep
<1>3. I => ReservedTokensAreHeld
  <2>1. Charged = {r \in {q \in Held : reservation[q].made = day} : reservation[r].tokens > 0}
    BY DEF Charged
  <2> QED BY <2>1 DEF TokenInv, ReservedTokensAreHeld, TokensOf
<1> QED BY <1>1, <1>2, <1>3, PTL DEF QuotaSpec
=============================================================================
