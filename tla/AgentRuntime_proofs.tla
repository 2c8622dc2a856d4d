------------------------ MODULE AgentRuntime_proofs ------------------------
(***************************************************************************)
(* Proofs about AgentRuntime, for every number of processes, slots, runs,  *)
(* faults and cancels.                                                     *)
(*                                                                         *)
(*   RuntimeRefinesStore  every behaviour of the runtime is one of RunStore*)
(*   RuntimeTypeCorrect   the runtime's variables keep their types         *)
(*   SystemKeepsHistory   the theorems about the store, for the runtime    *)
(*   StartedComesFirst    every log opens with run.started                 *)
(*   FirstExecutionAnswers  a run that is never handed over answers its    *)
(*                        own question                                     *)
(*   CommittedRunsToldAll a committed run has told every step on its path  *)
(***************************************************************************)
EXTENDS AgentRuntime, RunStore_proofs

-----------------------------------------------------------------------------
(* What a step of the runtime does to the store *)

\* A slot beyond IDLE knows the run it claimed, and that run exists.
ClaimKnown ==
  \A s \in Slot : exec[s].pc \notin {"IDLE", "ENDED"} => exec[s].run \in RunId

RenewalKnown ==
  \A s \in Slot : exec[s].renewing => HasTask(s)

LEMMA TaskHasRun ==
  ASSUME ClaimKnown, NEW s \in Slot, HasTask(s)
  PROVE  exec[s].run \in RunId
BY DEF ClaimKnown, HasTask, AwaitPc, RunningPc

LEMMA SlotsHaveProcesses ==
  ProcessOf \in [Slot -> Worker] /\ NoSlot \notin Slot /\ MaxFaults \in Nat
BY RuntimeAssumption

LEMMA BoundedAppendIsNext ==
  ASSUME NEW r \in RunId, NEW e, AppendBounded(r, e)
  PROVE  Next
<1>1. e \in ProgressEvent
  BY DEF AppendBounded, AppendProgress, ProgressOf
<1> QED BY <1>1 DEF Next, AppendBounded

LEMMA GiveBackIsNext ==
  ASSUME NEW s \in Slot, exec[s].run \in RunId, GiveBack(s)
  PROVE  [Next]_vars
<1>1. ProcessOf[s] \in Worker
  BY RuntimeAssumption
<1> QED BY <1>1 DEF GiveBack, HoldsLease, Next

\* The runtime takes no step that the store was not analysed for.
LEMMA StoreStep ==
  ASSUME ClaimKnown, RenewalKnown, [RuntimeNext]_allVars
  PROVE  [Next]_vars
<1>1. ASSUME NEW m \in Message, Submit(m) PROVE [Next]_vars
  BY <1>1 DEF Submit, Next
<1>2. ASSUME NEW s \in Slot, ClaimRun(s) PROVE [Next]_vars
  <2>1. ProcessOf[s] \in Worker
    BY RuntimeAssumption
  <2> QED BY <1>2, <2>1 DEF ClaimRun, Next
<1>3. ASSUME NEW s \in Slot, SlotStep(s) PROVE [Next]_vars
  <2>1. ASSUME ReturnClaim(s) PROVE [Next]_vars
    <3>1. exec[s].run \in RunId
      BY <2>1 DEF ReturnClaim, At, ClaimKnown
    <3> QED BY <2>1, <3>1, GiveBackIsNext DEF ReturnClaim
  <2>2. ASSUME ReleaseRun(s) PROVE [Next]_vars
    <3>1. exec[s].run \in RunId
      BY <2>2 DEF ReleaseRun, At, ClaimKnown
    <3> QED BY <2>2, <3>1, GiveBackIsNext DEF ReleaseRun
  <2>3. ASSUME PublishStarted(s) PROVE [Next]_vars
    <3>1. exec[s].run \in RunId
      BY <2>3 DEF PublishStarted, At, AfterStarted, ClaimKnown
    <3> QED BY <2>3, <3>1, BoundedAppendIsNext DEF PublishStarted
  <2>4. ASSUME PublishNext(s) PROVE [Next]_vars
    <3>1. exec[s].run \in RunId
      BY <2>4 DEF PublishNext, At, ClaimKnown
    <3> QED BY <2>4, <3>1, BoundedAppendIsNext DEF PublishNext
  <2>5. ASSUME CompleteRun(s) PROVE [Next]_vars
    <3>1. exec[s].run \in RunId
      BY <2>5 DEF CompleteRun, At, ClaimKnown
    <3> QED BY <2>5, <3>1 DEF CompleteRun, Next
  <2>6. ASSUME PublishFailed(s) PROVE [Next]_vars
    <3>1. exec[s].run \in RunId
      BY <2>6 DEF PublishFailed, At, ClaimKnown
    <3> QED BY <2>6, <3>1 DEF PublishFailed, Next
  <2>7. ASSUME PublishCancelled(s) PROVE [Next]_vars
    <3>1. exec[s].run \in RunId
      BY <2>7 DEF PublishCancelled, At, ClaimKnown
    <3> QED BY <2>7, <3>1 DEF PublishCancelled, Next
  <2>8. CASE \/ BeginExecution(s) \/ FirstStep(s) \/ NeverRuns(s)
             \/ ReadSequence(s) \/ FindsItTerminal(s) \/ LoadResumed(s)
    BY <2>8 DEF BeginExecution, FirstStep, NeverRuns, ReadSequence,
                FindsItTerminal, LoadResumed
  <2>9. CASE \/ LoadFresh(s) \/ RunNode(s) \/ SaveCheckpoint(s) \/ EndStream(s)
             \/ AnswerFallsBack(s) \/ ExecutionFails(s)
             \/ StoreRefuses(s) \/ Interrupted(s)
    BY <2>9 DEF LoadFresh, RunNode, SaveCheckpoint, EndStream, AnswerFallsBack,
                ExecutionFails, StoreRefuses, Interrupted
  <2> QED
    BY <1>3, <2>1, <2>2, <2>3, <2>4, <2>5, <2>6, <2>7, <2>8, <2>9 DEF SlotStep
<1>4. ASSUME NEW s \in Slot, RenewLease(s) PROVE [Next]_vars
  <2>1. exec[s].run \in RunId
    BY <1>4, TaskHasRun DEF RenewLease, RenewalKnown
  <2>2. ProcessOf[s] \in Worker
    BY RuntimeAssumption
  <2>3. Renew(ProcessOf[s], exec[s].run, generation[exec[s].run])
    BY <1>4 DEF RenewLease, Renew, HoldsLease
  <2> QED BY <2>1, <2>2, <2>3 DEF Next
<1>5. ASSUME NEW s \in Slot,
             LoseLease(s) \/ RenewalDies(s) \/ DatabaseFails(s) \/ StopLoop(s)
      PROVE  [Next]_vars
  BY <1>5 DEF LoseLease, RenewalDies, DatabaseFails, StopLoop
<1>6. ASSUME NEW r \in RunId, RefuseQuota(r) PROVE [Next]_vars
  BY <1>6 DEF RefuseQuota, Next
<1>7. ASSUME NEW r \in RunId, LeaseTimesOut(r) \/ LeaseStalls(r) PROVE [Next]_vars
  BY <1>7 DEF LeaseTimesOut, LeaseStalls, Next
<1>8. ASSUME NEW r \in RunId, CancelElsewhere(r) \/ CancelStart(r) \/ CancelEnd(r)
      PROVE  [Next]_vars
  BY <1>8, BoundedAppendIsNext DEF CancelElsewhere, CancelStart, CancelEnd, Next
<1>9. ASSUME NEW p \in Worker,
             \/ \E r \in RunId : CancelHere(p, r)
             \/ Crash(p) \/ Shutdown(p) \/ GraceEnds(p) \/ Exit(p) \/ Restart(p)
      PROVE  [Next]_vars
  BY <1>9 DEF CancelHere, Crash, Shutdown, GraceEnds, Exit, Restart
<1>10. CASE UNCHANGED allVars
  BY <1>10 DEF allVars
<1> QED
  BY <1>1, <1>2, <1>3, <1>4, <1>5, <1>6, <1>7, <1>8, <1>9, <1>10 DEF RuntimeNext

-----------------------------------------------------------------------------
(* The slots *)

\* A slot record that a claim, or the absence of one, explains.
Known(x) ==
  /\ x \in Execution
  /\ x.pc \notin {"IDLE", "ENDED"} => x.run \in RunId
  /\ x.renewing => x.pc \in AwaitPc \union RunningPc \union {"CREATED"}

SlotsKnown ==
  /\ exec \in [Slot -> Execution]
  /\ \A s \in Slot : Known(exec[s])

\* A slot that is busy after the step was busy before it, with the same run.
KeepsClaims ==
  \A t \in Slot : \/ exec'[t].pc \in {"IDLE", "ENDED"}
                 \/ /\ exec[t].pc \notin {"IDLE", "ENDED"}
                    /\ exec'[t].run = exec[t].run

Busy(s) == exec[s].pc \notin {"IDLE", "ENDED"}

LEMMA NothingKnown == Known(NoExecution) /\ Known([NoExecution EXCEPT !.pc = "ENDED"])
BY DEF Known, NoExecution, Execution, Pc, AwaitPc, RunningPc

LEMMA Changes ==
  ASSUME SlotsKnown, NEW s \in Slot, NEW x, Known(x),
         x.pc \in {"IDLE", "ENDED"} \/ (Busy(s) /\ x.run = exec[s].run),
         exec' = [exec EXCEPT ![s] = x]
  PROVE  SlotsKnown' /\ KeepsClaims
BY DEF SlotsKnown, Known, KeepsClaims, Busy

LEMMA Ends ==
  ASSUME SlotsKnown, NEW s \in Slot,
         \/ exec' = [exec EXCEPT ![s] = NoExecution]
         \/ exec' = [exec EXCEPT ![s] = [NoExecution EXCEPT !.pc = "ENDED"]]
  PROVE  SlotsKnown' /\ KeepsClaims
<1>1. NoExecution.pc = "IDLE" /\ [NoExecution EXCEPT !.pc = "ENDED"].pc = "ENDED"
  BY DEF NoExecution
<1> QED BY <1>1, NothingKnown DEF SlotsKnown, Known, KeepsClaims

LEMMA Handles ==
  ASSUME SlotsKnown, NEW s \in Slot, NEW pc \in RunningPc, Busy(s), Handle(s, pc)
  PROVE  SlotsKnown' /\ KeepsClaims
<1> DEFINE x == [NoExecution EXCEPT !.pc = pc, !.run = exec[s].run, !.gen = exec[s].gen,
                                    !.renewing = exec[s].renewing]
<1>1. Known(x) /\ x.run = exec[s].run
  BY ZenonT(40) DEF SlotsKnown, Known, Execution, NoExecution, Pc, AwaitPc, RunningPc, Busy
<1>2. exec' = [exec EXCEPT ![s] = x]
  BY DEF Handle
<1> HIDE DEF x
<1> QED BY <1>1, <1>2, Changes

LEMMA Finishes ==
  ASSUME SlotsKnown, NEW s \in Slot, Done(s)
  PROVE  SlotsKnown' /\ KeepsClaims
BY Ends DEF Done

LEMMA Goes ==
  ASSUME SlotsKnown, NEW s \in Slot, Busy(s),
         NEW pc \in AwaitPc \union RunningPc \union {"CREATED"},
         Goto(s, pc)
  PROVE  SlotsKnown' /\ KeepsClaims
<1> DEFINE x == [exec[s] EXCEPT !.pc = pc]
<1>1. Known(x) /\ x.run = exec[s].run
  BY DEF SlotsKnown, Known, Execution, Pc, Busy
<1>2. exec' = [exec EXCEPT ![s] = x]
  BY DEF Goto
<1> HIDE DEF x
<1> QED BY <1>1, <1>2, Changes

LEMMA RaiseKeeps ==
  ASSUME SlotsKnown, NEW s \in Slot, Busy(s), Raise(s)
  PROVE  SlotsKnown' /\ KeepsClaims
BY Handles, Finishes DEF Raise, RunningPc

LEMMA SlotStepKeeps ==
  ASSUME SlotsKnown, NEW s \in Slot, SlotStep(s),
         checkpoint \in [Conversation -> Checkpoint],
         Busy(s) => conversation(exec[s].run) \in Conversation
  PROVE  SlotsKnown' /\ KeepsClaims
<1> USE DEF At, Awaited, Busy
<1>a. exec[s] \in Execution
  BY DEF SlotsKnown
<1>b. exec[s].pc \in AwaitPc \union RunningPc \union {"CREATED", "CLAIMED"} => exec[s].run \in RunId
  BY DEF SlotsKnown, Known, AwaitPc, RunningPc
<1>1. ASSUME BeginExecution(s) PROVE SlotsKnown' /\ KeepsClaims
  <2> DEFINE x == [exec[s] EXCEPT !.pc = "CREATED", !.renewing = TRUE]
  <2>1. Known(x) /\ x.run = exec[s].run
    BY <1>1 DEF BeginExecution, SlotsKnown, Known, Execution, Pc
  <2>2. exec' = [exec EXCEPT ![s] = x] /\ Busy(s)
    BY <1>1 DEF BeginExecution, SlotsKnown
  <2> HIDE DEF x
  <2> QED BY <2>1, <2>2, Changes
<1>2. ASSUME ReturnClaim(s) \/ NeverRuns(s) PROVE SlotsKnown' /\ KeepsClaims
  BY <1>2, Ends DEF ReturnClaim, NeverRuns
<1>3. ASSUME FirstStep(s) PROVE SlotsKnown' /\ KeepsClaims
  <2>1. Busy(s) /\ Goto(s, "PREPARE")
    BY <1>3 DEF FirstStep
  <2> QED BY <2>1, Goes DEF AwaitPc
<1>4. ASSUME ReadSequence(s) PROVE SlotsKnown' /\ KeepsClaims
  <2>1. Busy(s)
    BY <1>4 DEF ReadSequence
  <2>2. PICK pc \in AwaitPc \union RunningPc : Goto(s, pc)
    <3>1. exec[s].pc \in {"PREPARE", "FAIL", "CANCEL"}
      BY <1>4 DEF ReadSequence
    <3>2. IfEmpty[exec[s].pc] \in RunningPc /\ IfStarted[exec[s].pc] \in AwaitPc \union RunningPc
      BY <3>1 DEF IfEmpty, IfStarted, AwaitPc, RunningPc
    <3> QED BY <1>4, <3>2 DEF ReadSequence
  <2> QED BY <2>1, <2>2, Goes
<1>5. ASSUME FindsItTerminal(s) PROVE SlotsKnown' /\ KeepsClaims
  BY <1>5, Finishes DEF FindsItTerminal
<1>6. ASSUME PublishStarted(s) PROVE SlotsKnown' /\ KeepsClaims
  <2>1. Busy(s) /\ AfterStarted[exec[s].pc] \in AwaitPc \union RunningPc
    BY <1>6 DEF PublishStarted, AfterStarted, AwaitPc, RunningPc
  <2> QED BY <1>6, <2>1, Goes DEF PublishStarted
<1>7. ASSUME LoadResumed(s) PROVE SlotsKnown' /\ KeepsClaims
  <2> DEFINE k == checkpoint[conversation(exec[s].run)]
             x == [exec[s] EXCEPT !.pc = "STREAM", !.resume = FALSE,
                     !.question = k.question, !.answer = k.answer, !.node = k.node]
  <2>1. Busy(s) /\ exec[s].pc = "LOAD"
    BY <1>7 DEF LoadResumed
  <2>2. k \in Checkpoint
    BY <2>1
  <2>3. Known(x) /\ x.run = exec[s].run
    BY <2>1, <2>2, <1>a, <1>b DEF Known, Execution, Checkpoint, Pc, AwaitPc
  <2>4. exec' = [exec EXCEPT ![s] = x]
    BY <1>7 DEF LoadResumed, SlotsKnown
  <2> HIDE DEF x
  <2> QED BY <2>1, <2>3, <2>4, Changes
<1>8. ASSUME LoadFresh(s) PROVE SlotsKnown' /\ KeepsClaims
  <2> DEFINE x == [exec[s] EXCEPT !.pc = "STREAM", !.resume = FALSE,
                     !.question = exec[s].run, !.answer = NoRun, !.node = 1]
  <2>1. Busy(s) /\ exec[s].pc = "LOAD"
    BY <1>8 DEF LoadFresh
  <2>3. Known(x) /\ x.run = exec[s].run
    BY <2>1, <1>a, <1>b DEF Known, Execution, Pc, AwaitPc
  <2>4. exec' = [exec EXCEPT ![s] = x]
    BY <1>8 DEF LoadFresh, SlotsKnown
  <2> HIDE DEF x
  <2> QED BY <2>1, <2>3, <2>4, Changes
<1>9. ASSUME NEW pc \in AwaitPc \union RunningPc, NEW a \in RunId \union {NoRun}, Busy(s),
             exec' = [exec EXCEPT ![s].pc = pc, ![s].answer = a]
      PROVE  SlotsKnown' /\ KeepsClaims
  <2> DEFINE x == [exec[s] EXCEPT !.pc = pc, !.answer = a]
  <2>1. Known(x) /\ x.run = exec[s].run
    BY <1>9, <1>a DEF SlotsKnown, Known, Execution, Pc
  <2>2. exec' = [exec EXCEPT ![s] = x]
    BY <1>9 DEF SlotsKnown
  <2> HIDE DEF x
  <2> QED BY <1>9, <2>1, <2>2, Changes
<1>10. ASSUME RunNode(s) PROVE SlotsKnown' /\ KeepsClaims
  <2>1. AfterNode(Path[exec[s].node]) \in AwaitPc \union RunningPc
    BY DEF AfterNode, AwaitPc, RunningPc
  <2>2. AnswerAfter(Path[exec[s].node], exec[s]) \in RunId \union {NoRun}
    BY <1>a DEF AnswerAfter, Execution
  <2> QED BY <1>9, <1>10, <2>1, <2>2 DEF RunNode
<1>11. ASSUME AnswerFallsBack(s) PROVE SlotsKnown' /\ KeepsClaims
  <2>1. exec[s].question \in RunId \union {NoRun} /\ "FALLBACK" \in RunningPc
    BY <1>a DEF Execution, RunningPc
  <2> QED BY <1>9, <1>11, <2>1 DEF AnswerFallsBack
<1>12. ASSUME PublishNext(s) PROVE SlotsKnown' /\ KeepsClaims
  <2>1. Busy(s) /\ exec[s].pc \in {"EMIT", "FALLBACK"}
    BY <1>12 DEF PublishNext
  <2>2. PICK pc \in {"EMIT", "FALLBACK", "SAVE", "FALLBACK_COMPLETE"} :
          exec' = [exec EXCEPT ![s] = [exec[s] EXCEPT !.told = @ + 1, !.pc = pc]]
    <3> DEFINE last == exec[s].told + 1 = Len(EventsOf(Path[exec[s].node]))
               pc == IF ~last THEN exec[s].pc
                     ELSE IF exec[s].pc = "EMIT" THEN "SAVE" ELSE "FALLBACK_COMPLETE"
    <3>1. pc \in {"EMIT", "FALLBACK", "SAVE", "FALLBACK_COMPLETE"}
      BY <2>1
    <3>2. exec' = [exec EXCEPT ![s] = [exec[s] EXCEPT !.told = @ + 1, !.pc = pc]]
      BY <1>12, <1>a DEF PublishNext, SlotsKnown, Execution
    <3> QED BY <3>1, <3>2
  <2> DEFINE n == exec[s].told + 1
             x == [exec[s] EXCEPT !.told = n, !.pc = pc]
  <2>n. n \in Nat
    BY <1>a DEF Execution
  <2>m. x = [exec[s] EXCEPT !.told = @ + 1, !.pc = pc]
    OBVIOUS
  <2> HIDE DEF n
  <2>3. Known(x) /\ x.run = exec[s].run
    BY <2>1, <2>n, <1>a, <1>b DEF Known, Execution, Pc, AwaitPc, RunningPc
  <2> HIDE DEF x
  <2> QED BY <2>1, <2>2, <2>m, <2>3, Changes
<1>13. ASSUME SaveCheckpoint(s) PROVE SlotsKnown' /\ KeepsClaims
  <2> DEFINE n == exec[s].node + 1
             x == [exec[s] EXCEPT !.pc = "STREAM", !.node = n, !.told = 0]
  <2>1. Busy(s) /\ exec[s].pc = "SAVE"
    BY <1>13 DEF SaveCheckpoint
  <2>2. n \in Nat
    BY <1>a DEF Execution
  <2>4. exec' = [exec EXCEPT ![s] = x]
    BY <1>13, <1>a DEF SaveCheckpoint, SlotsKnown, Execution
  <2> HIDE DEF n
  <2>3. Known(x) /\ x.run = exec[s].run
    BY <2>1, <2>2, <1>a, <1>b DEF Known, Execution, Pc, AwaitPc
  <2> HIDE DEF x
  <2> QED BY <2>1, <2>3, <2>4, Changes
<1>14. ASSUME EndStream(s) PROVE SlotsKnown' /\ KeepsClaims
  <2>1. Busy(s) /\ Goto(s, "COMPLETE")
    BY <1>14 DEF EndStream
  <2> QED BY <2>1, Goes DEF RunningPc
<1>15. ASSUME ExecutionFails(s) PROVE SlotsKnown' /\ KeepsClaims
  <2>1. Busy(s) /\ Handle(s, "FAIL")
    BY <1>15 DEF ExecutionFails, AwaitPc
  <2> QED BY <2>1, Handles DEF RunningPc
<1>16. ASSUME CompleteRun(s) \/ PublishFailed(s) \/ PublishCancelled(s) \/ ReleaseRun(s)
       PROVE  SlotsKnown' /\ KeepsClaims
  BY <1>16, Finishes DEF CompleteRun, PublishFailed, PublishCancelled, ReleaseRun
<1>17. ASSUME StoreRefuses(s) PROVE SlotsKnown' /\ KeepsClaims
  <2>1. Busy(s) /\ Raise(s)
    BY <1>17 DEF StoreRefuses, AfterStarted
  <2> QED BY <2>1, RaiseKeeps
<1>18. ASSUME Interrupted(s) PROVE SlotsKnown' /\ KeepsClaims
  <2>1. Busy(s) /\ (Done(s) \/ Handle(s, "RELEASE") \/ Handle(s, "CANCEL"))
    BY <1>18 DEF Interrupted, AwaitPc
  <2> QED BY <2>1, Handles, Finishes DEF RunningPc
<1> QED
  BY <1>1, <1>2, <1>3, <1>4, <1>5, <1>6, <1>7, <1>8, <1>10, <1>11, <1>12, <1>13,
     <1>14, <1>15, <1>16, <1>17, <1>18, SlotStep(s) DEF SlotStep

-----------------------------------------------------------------------------
(* The inductive invariant of the runtime *)

ClaimsCreated == \A s \in Slot : Busy(s) => Created(exec[s].run)

OthersKnown ==
  /\ process \in [Worker -> {"UP", "STOPPING", "DOWN"}]
  /\ closing \in [Worker -> SUBSET Slot]
  /\ tasks \in [Worker -> [RunId -> Slot \union {NoSlot}]]
  /\ leaseLost \in [Worker -> SUBSET RunId]
  /\ shutdownCancelled \in [Worker -> SUBSET RunId]
  /\ checkpoint \in [Conversation -> Checkpoint]
  /\ admission \in [RunId -> {"NONE", "RESERVING", "REFUSED"}]
  /\ cancelling \in [RunId -> {"NO", "TASK", "START", "END", "OVER"}]
  /\ answerOf \in [RunId -> RunId \union {NoRun}]
  /\ faults \in 0 .. MaxFaults

RuntimeInv == TypeOK /\ RowKeys /\ SlotsKnown /\ ClaimsCreated /\ OthersKnown

LEMMA InvGivesType == RuntimeInv => RuntimeTypeOK
BY DEF RuntimeInv, RuntimeTypeOK, SlotsKnown, Known, OthersKnown, HasTask

LEMMA InvGivesClaims == RuntimeInv => ClaimKnown /\ RenewalKnown
BY DEF RuntimeInv, SlotsKnown, Known, ClaimKnown, RenewalKnown, HasTask

LEMMA RuntimeInvInit == RuntimeInit => RuntimeInv
<1> SUFFICES ASSUME RuntimeInit PROVE RuntimeInv
  OBVIOUS
<1>1. TypeOK /\ RowKeys
  BY TypeInit DEF RuntimeInit
<1>2. SlotsKnown
  BY NothingKnown DEF RuntimeInit, SlotsKnown, Known
<1>3. ClaimsCreated
  BY DEF RuntimeInit, ClaimsCreated, Busy, NoExecution
<1>4. OthersKnown
  BY RuntimeAssumption DEF RuntimeInit, OthersKnown, NoCheckpoint, Checkpoint
<1> QED BY <1>1, <1>2, <1>3, <1>4 DEF RuntimeInv

\* Rows are never deleted.
LEMMA RowsStay ==
  ASSUME TypeOK, [Next]_vars, NEW r \in RunId, Created(r)
  PROVE  Created(r)'
<1>1. ASSUME NEW m \in Message, Create(m) PROVE Created(r)'
  BY <1>1 DEF Create, Created, TypeOK
<1>2. ASSUME NEW w \in Worker, NEW q \in RunId, Claim(w, q) PROVE Created(r)'
  BY <1>2 DEF Claim, Created, TypeOK
<1>3. CASE Quiet
  BY <1>3 DEF Quiet
<1> QED BY <1>1, <1>2, <1>3, StepKinds

LEMMA ClaimStep ==
  ASSUME SlotsKnown, ClaimsCreated, TypeOK, NEW s \in Slot, ClaimRun(s)
  PROVE  SlotsKnown' /\ ClaimsCreated'
<1> PICK r \in RunId : /\ Claim(ProcessOf[s], r)
                       /\ exec' = [exec EXCEPT ![s] = [NoExecution EXCEPT
                            !.pc = "CLAIMED", !.run = r, !.gen = generation'[r],
                            !.resume = ResumesOnClaim(r)]]
  BY DEF ClaimRun
<1> DEFINE x == [NoExecution EXCEPT !.pc = "CLAIMED", !.run = r, !.gen = generation'[r],
                   !.resume = ResumesOnClaim(r)]
<1>1. generation'[r] \in Nat
  BY DEF Claim, TypeOK
<1>2. ResumesOnClaim(r) \in BOOLEAN
  BY DEF ResumesOnClaim
<1>3. Known(x) /\ x.run = r /\ x.pc = "CLAIMED"
  BY <1>1, <1>2 DEF Known, NoExecution, Execution, Pc
<1>4. Created(r)'
  BY DEF Claim, TypeOK, Created
<1>5. [Next]_vars
  <2>1. ProcessOf[s] \in Worker
    BY RuntimeAssumption
  <2> QED BY <2>1 DEF ClaimRun, Next
<1> HIDE DEF x
<1>6. exec' = [exec EXCEPT ![s] = x]
  BY DEF x
<1>7. SlotsKnown'
  <2>1. exec' \in [Slot -> Execution]
    BY <1>3, <1>6 DEF SlotsKnown, Known
  <2>2. \A t \in Slot : Known(exec'[t])
    BY <1>3, <1>6 DEF SlotsKnown
  <2> QED BY <2>1, <2>2 DEF SlotsKnown, Known
<1>8. ASSUME NEW t \in Slot, Busy(t)' PROVE Created(exec[t].run)'
  <2>1. CASE t = s
    BY <2>1, <1>3, <1>4, <1>6 DEF SlotsKnown
  <2>2. CASE t # s
    <3>1. exec'[t] = exec[t]
      BY <2>2, <1>6 DEF SlotsKnown
    <3>2. exec[t].run \in RunId /\ Created(exec[t].run)
      BY <3>1, <1>8 DEF Busy, ClaimsCreated, SlotsKnown, Known
    <3> QED BY <3>1, <3>2, <1>5, RowsStay DEF Created
  <2> QED BY <2>1, <2>2
<1> QED BY <1>7, <1>8 DEF ClaimsCreated

LEMMA ClaimsKept ==
  ASSUME SlotsKnown, ClaimsCreated, TypeOK, [Next]_vars, KeepsClaims
  PROVE  ClaimsCreated'
<1> SUFFICES ASSUME NEW t \in Slot, Busy(t)' PROVE Created(exec[t].run)'
  BY DEF ClaimsCreated
<1>1. Busy(t) /\ exec'[t].run = exec[t].run
  BY DEF KeepsClaims, Busy
<1>2. exec[t].run \in RunId /\ Created(exec[t].run)
  BY <1>1 DEF Busy, ClaimsCreated, SlotsKnown, Known
<1> QED BY <1>1, <1>2, RowsStay DEF Created

LEMMA SlotsStep ==
  ASSUME RuntimeInv, [RuntimeNext]_allVars, ~ \E s \in Slot : ClaimRun(s)
  PROVE  SlotsKnown' /\ KeepsClaims
<1> USE DEF RuntimeInv
<1>1. ASSUME NEW s \in Slot, SlotStep(s) PROVE SlotsKnown' /\ KeepsClaims
  <2>1. Busy(s) => conversation(exec[s].run) \in Conversation
    BY ConversationType DEF ClaimsCreated, SlotsKnown, Known, Busy
  <2> QED BY <1>1, <2>1, SlotStepKeeps DEF OthersKnown
<1>2. ASSUME NEW s \in Slot, LoseLease(s) PROVE SlotsKnown' /\ KeepsClaims
  <2> DEFINE x == [exec[s] EXCEPT !.interrupted = TRUE, !.renewing = FALSE]
  <2>1. Known(x) /\ x.run = exec[s].run /\ x.pc = exec[s].pc
    BY DEF SlotsKnown, Known, Execution
  <2>2. exec' = [exec EXCEPT ![s] = x]
    BY <1>2 DEF LoseLease, SlotsKnown
  <2> HIDE DEF x
  <2> QED BY <2>1, <2>2, Changes DEF Busy
<1>3. ASSUME NEW s \in Slot, RenewalDies(s) PROVE SlotsKnown' /\ KeepsClaims
  <2> DEFINE x == [exec[s] EXCEPT !.renewing = FALSE]
  <2>1. Known(x) /\ x.run = exec[s].run /\ x.pc = exec[s].pc
    BY DEF SlotsKnown, Known, Execution
  <2>2. exec' = [exec EXCEPT ![s] = x]
    BY <1>3 DEF RenewalDies, SlotsKnown
  <2> HIDE DEF x
  <2> QED BY <2>1, <2>2, Changes DEF Busy
<1>4. ASSUME NEW s \in Slot, DatabaseFails(s) PROVE SlotsKnown' /\ KeepsClaims
  <2>1. Busy(s) /\ Raise(s)
    BY <1>4 DEF DatabaseFails, At, RunningPc, Busy
  <2> QED BY <2>1, RaiseKeeps
<1>5. ASSUME NEW s \in Slot, exec' = [exec EXCEPT ![s].interrupted = TRUE]
      PROVE  SlotsKnown' /\ KeepsClaims
  <2> DEFINE x == [exec[s] EXCEPT !.interrupted = TRUE]
  <2>1. Known(x) /\ x.run = exec[s].run /\ x.pc = exec[s].pc
    BY DEF SlotsKnown, Known, Execution
  <2>2. exec' = [exec EXCEPT ![s] = x]
    BY <1>5 DEF SlotsKnown
  <2> HIDE DEF x
  <2> QED BY <2>1, <2>2, Changes DEF Busy
<1>6. ASSUME NEW s \in Slot, StopLoop(s) PROVE SlotsKnown' /\ KeepsClaims
  BY <1>5, <1>6, Ends DEF StopLoop
<1>7. ASSUME NEW p \in Worker, NEW r \in RunId, CancelHere(p, r)
      PROVE  SlotsKnown' /\ KeepsClaims
  <2>1. tasks[p][r] \in Slot
    BY <1>7 DEF CancelHere, OthersKnown
  <2> QED BY <1>5, <1>7, <2>1 DEF CancelHere
<1>8. ASSUME NEW p \in Worker, Stop(p) PROVE SlotsKnown' /\ KeepsClaims
  <2>1. NoExecution.pc = "IDLE"
    BY DEF NoExecution
  <2> QED BY <1>8, <2>1, NothingKnown DEF Stop, SlotsKnown, Known, KeepsClaims
<1>9. ASSUME NEW p \in Worker, GraceEnds(p) PROVE SlotsKnown' /\ KeepsClaims
  <2>1. exec' = [s \in Slot |-> [exec[s] EXCEPT !.interrupted = @ \/ s \in Unfinished(p)]]
    BY <1>9 DEF GraceEnds
  <2>2. ASSUME NEW s \in Slot
        PROVE  Known(exec'[s]) /\ exec'[s].pc = exec[s].pc /\ exec'[s].run = exec[s].run
    BY <2>1 DEF SlotsKnown, Known, Execution
  <2> QED BY <2>1, <2>2 DEF SlotsKnown, Known, KeepsClaims
<1>10. CASE exec' = exec
  <2>1. SlotsKnown'
    BY <1>10 DEF SlotsKnown, Known
  <2>2. KeepsClaims
    BY <1>10 DEF KeepsClaims
  <2> QED BY <2>1, <2>2
<1>11. ASSUME NEW m \in Message, Submit(m) PROVE exec' = exec
  BY <1>11 DEF Submit, loopVars
<1>12. ASSUME NEW r \in RunId,
              \/ RefuseQuota(r) \/ LeaseTimesOut(r) \/ LeaseStalls(r)
              \/ CancelElsewhere(r) \/ CancelStart(r) \/ CancelEnd(r)
       PROVE  exec' = exec
  BY <1>12 DEF RefuseQuota, LeaseTimesOut, LeaseStalls, CancelElsewhere, CancelStart,
               CancelEnd, loopVars, runtimeVars
<1>13. ASSUME NEW p \in Worker, Shutdown(p) \/ Restart(p) PROVE exec' = exec
  BY <1>13 DEF Shutdown, Restart
<1>14. ASSUME NEW s \in Slot, RenewLease(s) PROVE exec' = exec
  BY <1>14 DEF RenewLease, runtimeVars, loopVars
<1>15. ASSUME UNCHANGED allVars PROVE exec' = exec
  BY <1>15 DEF allVars, runtimeVars, loopVars
<1>16. ASSUME NEW p \in Worker, Crash(p) \/ Exit(p) PROVE Stop(p)
  BY <1>16 DEF Crash, Exit
<1> QED
  BY <1>1, <1>2, <1>3, <1>4, <1>6, <1>7, <1>8, <1>9, <1>10, <1>11, <1>12, <1>13,
     <1>14, <1>15, <1>16 DEF RuntimeNext

LEMMA OthersStep ==
  ASSUME RuntimeInv, [RuntimeNext]_allVars
  PROVE  OthersKnown'
<1> USE SlotsHaveProcesses DEF OthersKnown
<1>a. OthersKnown /\ SlotsKnown
  BY DEF RuntimeInv
<1>b. NoExecution.run = NoRun
  BY DEF NoExecution
<1>f. Fault => faults' \in 0 .. MaxFaults
  BY <1>a DEF Fault
<1>t. ASSUME NEW s \in Slot, NEW r, tasks' = [tasks EXCEPT ![ProcessOf[s]][r] = NoSlot]
      PROVE  tasks' \in [Worker -> [RunId -> Slot \union {NoSlot}]]
  BY <1>a, <1>t
<1>r. ASSUME NEW s \in Slot, Raise(s)
      PROVE  tasks' \in [Worker -> [RunId -> Slot \union {NoSlot}]]
  BY <1>a, <1>r, <1>t DEF Raise, Done, Forget
<1>1. ASSUME NEW m \in Message, Submit(m) PROVE OthersKnown'
  BY <1>1, <1>a DEF Submit, loopVars, procVars
<1>2. ASSUME NEW r \in RunId,
             RefuseQuota(r) \/ CancelElsewhere(r) \/ CancelStart(r) \/ CancelEnd(r)
      PROVE  OthersKnown'
  <2> USE DEF loopVars, procVars
  <2>1. CASE RefuseQuota(r)
    BY <2>1, <1>a DEF RefuseQuota
  <2>2. CASE CancelElsewhere(r)
    BY <2>2, <1>a DEF CancelElsewhere
  <2>3. CASE CancelStart(r) \/ CancelEnd(r)
    BY <2>3, <1>a DEF CancelStart, CancelEnd
  <2> QED BY <1>2, <2>1, <2>2, <2>3
<1>3. ASSUME NEW r \in RunId, LeaseTimesOut(r) \/ LeaseStalls(r) PROVE OthersKnown'
  BY <1>3, <1>a, <1>f DEF LeaseTimesOut, LeaseStalls, runtimeVars, loopVars, procVars, apiVars
<1>4. ASSUME NEW s \in Slot,
             ClaimRun(s) \/ RenewLease(s) \/ StopLoop(s)
      PROVE  OthersKnown'
  BY <1>4, <1>a DEF ClaimRun, RenewLease, StopLoop, runtimeVars, loopVars, procVars, apiVars
<1>5. ASSUME NEW s \in Slot, LoseLease(s) PROVE OthersKnown'
  <2>1. exec[s].run \in RunId
    BY <1>5, <1>a DEF LoseLease, At, AwaitPc, SlotsKnown, Known
  <2> QED BY <1>5, <1>a, <2>1 DEF LoseLease, procVars, apiVars
<1>6. ASSUME NEW s \in Slot, RenewalDies(s) PROVE OthersKnown'
  BY <1>6, <1>a, <1>f DEF RenewalDies, procVars, apiVars
<1>7. ASSUME NEW s \in Slot, DatabaseFails(s) PROVE OthersKnown'
  BY <1>7, <1>a, <1>f, <1>r DEF DatabaseFails, procVars, apiVars
<1>8. ASSUME NEW p \in Worker, NEW r \in RunId, CancelHere(p, r) PROVE OthersKnown'
  BY <1>8, <1>a DEF CancelHere, procVars
<1>9. ASSUME NEW p \in Worker, Crash(p) \/ Exit(p) PROVE OthersKnown'
  <2>1. Stop(p) /\ UNCHANGED <<apiVars, checkpoint, answerOf>>
    BY <1>9 DEF Crash, Exit
  <2>2. faults' \in 0 .. MaxFaults
    BY <1>9, <1>a, <1>f DEF Crash, Exit
  <2>3. tasks' \in [Worker -> [RunId -> Slot \union {NoSlot}]]
    <3>1. [r \in RunId |-> NoSlot] \in [RunId -> Slot \union {NoSlot}]
      OBVIOUS
    <3> QED BY <2>1, <3>1, <1>a DEF Stop
  <2>4. /\ process' \in [Worker -> {"UP", "STOPPING", "DOWN"}]
        /\ closing' \in [Worker -> SUBSET Slot]
        /\ leaseLost' \in [Worker -> SUBSET RunId]
        /\ shutdownCancelled' \in [Worker -> SUBSET RunId]
    BY <2>1, <1>a DEF Stop
  <2> QED BY <2>1, <2>2, <2>3, <2>4, <1>a DEF apiVars
<1>10. ASSUME NEW p \in Worker, Shutdown(p) PROVE OthersKnown'
  <2>1. {tasks[p][r] : r \in RunId} \ {NoSlot} \subseteq Slot
    BY <1>a
  <2> QED BY <1>10, <1>a, <1>f, <2>1 DEF Shutdown, apiVars
<1>11. ASSUME NEW p \in Worker, GraceEnds(p) PROVE OthersKnown'
  <2>1. {exec[s].run : s \in Unfinished(p)} \subseteq RunId
    <3>1. ASSUME NEW s \in Unfinished(p) PROVE exec[s].run \in RunId
      <4>1. s \in Slot /\ HasTask(s)
        BY <1>a DEF Unfinished
      <4> QED BY <4>1, <1>a DEF HasTask, AwaitPc, RunningPc, SlotsKnown, Known
    <3> QED BY <3>1
  <2> QED BY <1>11, <1>a, <2>1 DEF GraceEnds, procVars, apiVars
<1>12. ASSUME NEW p \in Worker, Restart(p) PROVE OthersKnown'
  BY <1>12, <1>a DEF Restart, apiVars
<1>13. CASE UNCHANGED allVars
  BY <1>13, <1>a DEF allVars, runtimeVars, loopVars, procVars, apiVars
<1>14. ASSUME NEW s \in Slot, SlotStep(s) PROVE OthersKnown'
  <2> USE DEF At, Awaited, procVars, apiVars
  <2>x. exec[s] \in Execution
    BY <1>a DEF SlotsKnown
  <2>1. CASE BeginExecution(s)
    BY <2>1, <1>a DEF BeginExecution
  <2>2. CASE ReturnClaim(s) \/ FirstStep(s) \/ ReadSequence(s) \/ PublishStarted(s)
    BY <2>2, <1>a DEF ReturnClaim, FirstStep, ReadSequence, PublishStarted
  <2>3. CASE LoadResumed(s) \/ RunNode(s) \/ PublishNext(s) \/ EndStream(s)
             \/ AnswerFallsBack(s) \/ ExecutionFails(s)
    BY <2>3, <1>a DEF LoadResumed, RunNode, PublishNext, EndStream, AnswerFallsBack,
                      ExecutionFails
  <2>4. CASE NeverRuns(s)
    BY <2>4, <1>a, <1>t DEF NeverRuns, Forget
  <2>5. CASE \/ FindsItTerminal(s) \/ PublishFailed(s) \/ PublishCancelled(s)
             \/ ReleaseRun(s)
    BY <2>5, <1>a, <1>t DEF FindsItTerminal, PublishFailed, PublishCancelled, ReleaseRun,
                            Done, Forget
  <2>6. CASE CompleteRun(s)
    <3>1. answerOf' \in [RunId -> RunId \union {NoRun}]
      BY <2>6, <1>a, <2>x DEF CompleteRun, Execution
    <3> QED BY <2>6, <3>1, <1>a, <1>t DEF CompleteRun, Done, Forget
  <2>7. CASE StoreRefuses(s)
    BY <2>7, <1>a, <1>r DEF StoreRefuses
  <2>8. CASE Interrupted(s)
    <3>1. tasks' \in [Worker -> [RunId -> Slot \union {NoSlot}]]
      BY <2>8, <1>a, <1>t DEF Interrupted, Done, Forget
    <3>2. /\ leaseLost' \in [Worker -> SUBSET RunId]
          /\ shutdownCancelled' \in [Worker -> SUBSET RunId]
      BY <2>8, <1>a DEF Interrupted
    <3> QED BY <2>8, <3>1, <3>2, <1>a DEF Interrupted
  <2>9. CASE LoadFresh(s)
    <3> DEFINE c == conversation(exec[s].run)
    <3>1. exec[s].run \in RunId
      BY <2>9, <1>a DEF LoadFresh, SlotsKnown, Known
    <3>2. checkpoint' = [checkpoint EXCEPT ![c] =
                           [question |-> exec[s].run, answer |-> @.answer, node |-> 1]]
      BY <2>9 DEF LoadFresh
    <3>3. checkpoint' \in [Conversation -> Checkpoint]
      BY <3>1, <3>2, <1>a DEF Checkpoint
    <3> QED BY <2>9, <3>3, <1>a DEF LoadFresh
  <2>10. CASE SaveCheckpoint(s)
    <3> DEFINE n == exec[s].node + 1
               k == [question |-> exec[s].question, answer |-> exec[s].answer, node |-> n]
    <3>1. n \in Nat
      BY <2>x DEF Execution
    <3>2. checkpoint' = [checkpoint EXCEPT ![conversation(exec[s].run)] = k]
      BY <2>10 DEF SaveCheckpoint
    <3> HIDE DEF n
    <3>3. k \in Checkpoint
      BY <3>1, <2>x DEF Checkpoint, Execution
    <3> HIDE DEF k
    <3>4. checkpoint' \in [Conversation -> Checkpoint]
      BY <3>2, <3>3, <1>a
    <3> QED BY <2>10, <3>4, <1>a DEF SaveCheckpoint
  <2> QED
    BY <1>14, <2>1, <2>2, <2>3, <2>4, <2>5, <2>6, <2>7, <2>8, <2>9, <2>10 DEF SlotStep
<1> QED
  BY <1>1, <1>2, <1>3, <1>4, <1>5, <1>6, <1>7, <1>8, <1>9, <1>10, <1>11, <1>12,
     <1>13, <1>14 DEF RuntimeNext

LEMMA RuntimeInvStep == RuntimeInv /\ [RuntimeNext]_allVars => RuntimeInv'
<1> SUFFICES ASSUME RuntimeInv, [RuntimeNext]_allVars PROVE RuntimeInv'
  OBVIOUS
<1>1. [Next]_vars
  BY InvGivesClaims, StoreStep
<1>2. TypeOK' /\ RowKeys'
  BY <1>1, TypeStep DEF RuntimeInv
<1>3. OthersKnown'
  BY OthersStep
<1>4. SlotsKnown' /\ ClaimsCreated'
  <2>1. CASE \E s \in Slot : ClaimRun(s)
    BY <2>1, ClaimStep DEF RuntimeInv
  <2>2. CASE ~ \E s \in Slot : ClaimRun(s)
    BY <2>2, <1>1, SlotsStep, ClaimsKept DEF RuntimeInv
  <2> QED BY <2>1, <2>2
<1> QED BY <1>2, <1>3, <1>4 DEF RuntimeInv

-----------------------------------------------------------------------------

LEMMA RuntimeInvAlways == RuntimeSpec => []RuntimeInv
BY RuntimeInvInit, RuntimeInvStep, PTL DEF RuntimeSpec

\* Whatever processes crash, whatever is cancelled: every variable of the runtime
\* keeps its type, a slot beyond IDLE knows which run it claimed, and a renewal
\* task never outlives the execution it was started for.
THEOREM RuntimeTypeCorrect == RuntimeSpec => []RuntimeTypeOK
<1>1. RuntimeInv => RuntimeTypeOK
  BY InvGivesType
<1> QED BY <1>1, RuntimeInvAlways, PTL

\* All that processes, slots, renewal tasks and API requests do to the database
\* are operations of the store in states where the store allows them.
THEOREM RuntimeRefinesStore == RuntimeSpec => UsesStoreAsSpecified
<1>1. RuntimeInit => Init
  BY DEF RuntimeInit
<1>2. RuntimeInv /\ [RuntimeNext]_allVars => [Next]_vars
  BY InvGivesClaims, StoreStep
<1>3. RuntimeSpec => Spec
  BY <1>1, <1>2, RuntimeInvAlways, PTL DEF RuntimeSpec, Spec
<1> QED BY <1>3 DEF UsesStoreAsSpecified

\* So the whole system keeps the commit history, the memory of a conversation
\* and the exclusive lease, for any number of processes, crashes and cancels.
THEOREM SystemKeepsHistory ==
  RuntimeSpec => /\ []CommitChain
                 /\ []MemoryIsEndOfLedger
                 /\ LeaseIsExclusive
                 /\ []ConversationCanMove
                 /\ ImplementsLedger
BY RuntimeRefinesStore, Commits, Remembers, LeaseExclusive, CanMove, LedgerRefinement
   DEF UsesStoreAsSpecified

-----------------------------------------------------------------------------
(* What a run has told and answered.  The invariant follows an execution   *)
(* through the graph: which question it holds, whose answer, and that the  *)
(* nodes behind it have been told.  It says the same of the checkpoints,   *)
(* from which another execution may go on.                                 *)

LoadedPc == {"STREAM", "EMIT", "SAVE", "FALLBACK", "FALLBACK_COMPLETE", "COMPLETE"}
StartedPc == LoadedPc \union {"LOAD", "FAIL_END", "CANCEL_END"}

\* The question q of conversation c has been claimed at some time.
Asked(c, q) == q \in RunId /\ generation[q] > 0 /\ conversation(q) = c

\* While a run is owed its events, only its own executions can be publishing
\* among those that hold its question.
Owed(q) == IsOpen(q) /\ ~EndedUnclaimed(conversation(q))

HeardEvent(q, e) == \E k \in DOMAIN log[q] : log[q][k] = e
Heard(q, i) == Owed(q) => Published(q, Path[i])

\* The answer a graph state may hold before its node n.
Answered(q, a, n) == (n > 1 => a \in {NoRun, q}) /\ (n > Len(Path) => a = q)

Position(c, q, a, n) ==
  /\ Asked(c, q) /\ n \in 1 .. Len(Path) + 1
  /\ Answered(q, a, n)
  /\ \A i \in DOMAIN Path : i < n => Heard(q, i)

CheckpointSound(k, c) == k # NoCheckpoint => Position(c, k.question, k.answer, k.node)

HeardSome(x) ==
  Owed(x.question) =>
    \A j \in 1 .. x.told : HeardEvent(x.question, EventsOf(Path[x.node])[j])

\* Within a node.
Midway(x) ==
  /\ x.pc = "STREAM" => x.told = 0
  /\ x.pc = "COMPLETE" => x.node = Len(Path) + 1
  /\ x.pc \notin {"STREAM", "COMPLETE"} =>
       x.node \in DOMAIN Path /\ Answered(x.question, x.answer, x.node + 1)
  /\ x.pc \in {"EMIT", "FALLBACK"} =>
       x.told < Len(EventsOf(Path[x.node])) /\ HeardSome(x)
  /\ x.pc \in {"SAVE", "FALLBACK_COMPLETE"} => Heard(x.question, x.node)
  /\ x.pc \in {"FALLBACK", "FALLBACK_COMPLETE"} => x.node = Len(Path)

Turn(x) ==
  x.pc \in LoadedPc =>
    Position(conversation(x.run), x.question, x.answer, x.node) /\ Midway(x)

\* No request of another process has taken the run out of its first execution's
\* hands, nor published run.started for it.
Kept(r) == cancelling[r] \in {"NO", "TASK"}

FirstAsks(x) ==
  x.gen = 1 /\ Kept(x.run) => ~x.resume /\ (x.pc \in LoadedPc => x.question = x.run)

SlotSound(x) ==
  x.pc \notin {"IDLE", "ENDED"} =>
    /\ x.gen \in 1 .. generation[x.run]
    /\ x.pc \in StartedPc => log[x.run] # <<>>
    /\ x.pc \notin LoadedPc => x.told = 0
    /\ FirstAsks(x)
    /\ Turn(x)

Opened(r) ==
  log[r] # <<>> => \/ log[r][1] = "run.started"
                   \/ admission[r] = "REFUSED" /\ log[r] = <<"run.failed">> /\ IsTerminal(r)

RunSound(r) ==
  /\ Opened(r)
  /\ cancelling[r] = "END" => log[r] # <<>>
  /\ log[r] # <<>> /\ Kept(r) /\ generation[r] = 0 => IsTerminal(r)
  /\ status[r] = "SUCCEEDED" /\ generation[r] = 1 /\ Kept(r) => answerOf[r] = r
  /\ status[r] = "SUCCEEDED" /\ answerOf[r] = r /\ ~EndedUnclaimed(conversation(r))
       => \A i \in DOMAIN Path : Published(r, Path[i])

SlotsSound == \A s \in Slot : \A x \in {exec[s]} : SlotSound(x)
CheckpointsSound == \A c \in Conversation : \A k \in {checkpoint[c]} : CheckpointSound(k, c)

TurnInv == SlotsSound /\ CheckpointsSound /\ \A r \in RunId : RunSound(r)

SystemInv == RuntimeInv /\ ChainInv /\ TurnInv

-----------------------------------------------------------------------------
(* What never goes back about a run *)

Grows(r) ==
  /\ Created(r) => Created(r)' /\ message'[r] = message[r]
  /\ generation[r] <= generation'[r]
  /\ IsTerminal(r) => /\ status'[r] = status[r] /\ log'[r] = log[r]
                      /\ generation'[r] = generation[r]
  /\ log'[r] = log[r] \/ (IsOpen(r) /\ \E e \in EventName : log'[r] = Append(log[r], e))

LEMMA StoreGrows ==
  ASSUME TypeOK, RowKeys, [Next]_vars, NEW q \in RunId
  PROVE  Grows(q)
<1> USE DEF Grows, TypeOK, Created, IsOpen, IsTerminal, OpenStatus, TERMINAL_STATUSES
<1>1. ASSUME NEW m \in Message, Create(m) PROVE Grows(q)
  BY <1>1 DEF Create, IsNextRow, leaseVars
<1>2. ASSUME NEW w \in Worker, NEW r \in RunId, Claim(w, r) PROVE Grows(q)
  BY <1>2 DEF Claim, Claimable
<1>3. ASSUME NEW r \in RunId, NEW w \in Worker, Renew(w, r, generation[r]) PROVE Grows(q)
  BY <1>3 DEF Renew, rowVars
<1>4. ASSUME NEW r \in RunId, NEW w \in Worker, Release(w, r, generation[r]) PROVE Grows(q)
  BY <1>4 DEF Release, rowVars
<1>5. ASSUME NEW r \in RunId, LeaseExpires(r) PROVE Grows(q)
  BY <1>5 DEF LeaseExpires, rowVars
<1>6. ASSUME NEW r \in RunId, NEW e \in ProgressEvent, AppendProgress(r, e) PROVE Grows(q)
  <2>1. e \in EventName
    BY DEF EventName
  <2>2. CASE q = r
    BY <1>6, <2>1, <2>2 DEF AppendProgress, AcceptsEvents, rowVars, leaseVars
  <2>3. CASE q # r
    BY <1>6, <2>3 DEF AppendProgress, rowVars, leaseVars
  <2> QED BY <2>2, <2>3
<1>7. ASSUME NEW r \in RunId, NEW e \in TerminalEvent, NEW s \in TERMINAL_STATUSES,
             Terminate(r, e, s), UNCHANGED rowVars
      PROVE  Grows(q)
  <2>1. e \in EventName
    BY DEF EventName
  <2>2. CASE q = r
    BY <1>7, <2>1, <2>2 DEF Terminate, AcceptsEvents, rowVars
  <2>3. CASE q # r
    BY <1>7, <2>3 DEF Terminate, rowVars
  <2> QED BY <2>2, <2>3
<1>8. ASSUME NEW r \in RunId, AppendFailed(r) \/ AppendCancelled(r) \/ Complete(r)
      PROVE  Grows(q)
  <2>1. {"run.failed", "run.cancelled", "run.completed"} \subseteq TerminalEvent
    BY DEF TerminalEvent
  <2> QED BY <1>7, <1>8, <2>1 DEF AppendFailed, AppendCancelled, Complete
<1>9. CASE UNCHANGED vars
  BY <1>9 DEF vars, rowVars, leaseVars
<1> QED BY <1>1, <1>2, <1>3, <1>4, <1>5, <1>6, <1>8, <1>9 DEF Next

\* The events of a run stay where they are.
LEMMA EventsStay ==
  ASSUME TypeOK, NEW r \in RunId, Grows(r)
  PROVE  /\ \A k \in DOMAIN log[r] : k \in DOMAIN log'[r] /\ log'[r][k] = log[r][k]
         /\ log[r] # <<>> => log'[r] # <<>>
<1>1. log[r] \in Seq(EventName)
  BY DEF TypeOK
<1>2. ASSUME NEW e \in EventName, log'[r] = Append(log[r], e)
      PROVE  /\ \A k \in DOMAIN log[r] : k \in DOMAIN log'[r] /\ log'[r][k] = log[r][k]
             /\ log'[r] # <<>>
  BY <1>1, <1>2, AppendProperties
<1> QED BY <1>2 DEF Grows

LEMMA HeardStays ==
  ASSUME TypeOK, NEW r \in RunId, Grows(r)
  PROVE  /\ \A e : HeardEvent(r, e) => HeardEvent(r, e)'
         /\ \A n : Published(r, n) => Published(r, n)'
<1>1. \A k \in DOMAIN log[r] : k \in DOMAIN log'[r] /\ log'[r][k] = log[r][k]
  BY EventsStay
<1> QED BY <1>1 DEF HeardEvent, Published

\* A conversation in which a run ended unclaimed remains one.
LEMMA EndedStays ==
  ASSUME TypeOK, \A r \in RunId : Grows(r), NEW c, EndedUnclaimed(c)
  PROVE  EndedUnclaimed(c)'
<1> PICK k \in RunsOf(c) : IsTerminal(k) /\ generation[k] = 0
  BY DEF EndedUnclaimed
<1>1. k \in RunId /\ Created(k) /\ conversation(k) = c
  BY DEF RunsOf
<1>2. Created(k)' /\ message'[k] = message[k] /\ generation'[k] = 0 /\ status'[k] = status[k]
  BY <1>1 DEF Grows
<1>3. k \in RunsOf(c)' /\ IsTerminal(k)'
  BY <1>1, <1>2 DEF RunsOf, conversation, IsTerminal
<1> QED BY <1>2, <1>3 DEF EndedUnclaimed

-----------------------------------------------------------------------------
(* What is said of a graph state stays true of it, whatever else happens *)

Onward == \A r \in RunId : Grows(r) /\ (Kept(r)' => Kept(r))

LEMMA AskedStays ==
  ASSUME TypeOK, TypeOK', ChainInv, Onward, NEW q \in RunId, generation[q] > 0
  PROVE  Created(q) /\ generation'[q] > 0 /\ conversation(q)' = conversation(q)
<1>1. Created(q)
  BY DEF ChainInv
<1>2. generation[q] \in Nat /\ generation'[q] >= generation[q]
  BY DEF Onward, Grows, TypeOK
<1>3. message'[q] = message[q]
  BY <1>1 DEF Onward, Grows
<1>4. generation'[q] > 0
  BY <1>2 DEF TypeOK
<1> QED BY <1>1, <1>3, <1>4 DEF conversation

LEMMA OwedStays ==
  ASSUME TypeOK, TypeOK', ChainInv, Onward, NEW q \in RunId, generation[q] > 0, Owed(q)'
  PROVE  Owed(q)
<1>1. Created(q) /\ conversation(q)' = conversation(q)
  BY AskedStays
<1>2. IsOpen(q)
  <2>1. IsOpen(q) \/ IsTerminal(q)
    BY <1>1 DEF TypeOK, Created, IsOpen, IsTerminal
  <2>2. ASSUME IsTerminal(q) PROVE FALSE
    <3>1. status'[q] = status[q]
      BY <2>2 DEF Onward, Grows
    <3> QED BY <3>1, <2>2 DEF Owed, IsOpen, IsTerminal, OpenStatus, TERMINAL_STATUSES
  <2> QED BY <2>1, <2>2
<1>3. ~EndedUnclaimed(conversation(q))
  <2>1. ~EndedUnclaimed(conversation(q))'
    BY DEF Owed
  <2> DEFINE c == conversation(q)
  <2>2. ASSUME NEW d, d = c, EndedUnclaimed(d) PROVE FALSE
    <3>1. EndedUnclaimed(d)'
      BY <2>2, EndedStays DEF Onward
    <3>2. d = conversation(q)'
      BY <1>1, <2>2
    <3> QED BY <2>1, <3>1, <3>2 DEF EndedUnclaimed
  <2> QED BY <2>2
<1> QED BY <1>2, <1>3 DEF Owed

LEMMA HeardOnward ==
  ASSUME TypeOK, TypeOK', ChainInv, Onward, NEW q \in RunId, generation[q] > 0
  PROVE  /\ \A i : Heard(q, i) => Heard(q, i)'
         /\ \A e : (Owed(q) => HeardEvent(q, e)) => (Owed(q)' => HeardEvent(q, e)')
<1>1. Owed(q)' => Owed(q)
  BY OwedStays
<1>2. Grows(q)
  BY DEF Onward
<1>3. /\ \A e : HeardEvent(q, e) => HeardEvent(q, e)'
      /\ \A n : Published(q, n) => Published(q, n)'
  BY <1>2, HeardStays
<1> QED BY <1>1, <1>3 DEF Heard

LEMMA PositionStays ==
  ASSUME TypeOK, TypeOK', ChainInv, Onward, NEW c, NEW q, NEW a, NEW n, Position(c, q, a, n)
  PROVE  Position(c, q, a, n)'
<1>1. q \in RunId /\ generation[q] > 0 /\ conversation(q) = c
  BY DEF Position, Asked
<1>2. Asked(c, q)'
  BY <1>1, AskedStays DEF Asked
<1>3. \A i \in DOMAIN Path : i < n => Heard(q, i)'
  BY <1>1, HeardOnward DEF Position
<1> QED BY <1>2, <1>3 DEF Position, Answered

LEMMA TurnStays ==
  ASSUME TypeOK, TypeOK', ChainInv, Onward, NEW x, x.run \in RunId, generation[x.run] > 0, Turn(x)
  PROVE  Turn(x)'
<1> SUFFICES ASSUME x.pc \in LoadedPc
             PROVE  Position(conversation(x.run), x.question, x.answer, x.node)' /\ Midway(x)'
  BY DEF Turn
<1>1. Position(conversation(x.run), x.question, x.answer, x.node) /\ Midway(x)
  BY DEF Turn
<1>2. Position(conversation(x.run), x.question, x.answer, x.node)'
  <2>1. conversation(x.run)' = conversation(x.run)
    BY AskedStays
  <2>2. ASSUME NEW c, c = conversation(x.run)
        PROVE  Position(c, x.question, x.answer, x.node)'
    BY <1>1, <2>2, PositionStays
  <2> QED BY <2>1, <2>2 DEF Position
<1>3. x.question \in RunId /\ generation[x.question] > 0
  BY <1>1 DEF Position, Asked
<1>4. Heard(x.question, x.node) => Heard(x.question, x.node)'
  BY <1>3, HeardOnward
<1>5. HeardSome(x) => HeardSome(x)'
  BY <1>3, HeardOnward, OwedStays DEF HeardSome
<1> QED BY <1>1, <1>2, <1>4, <1>5 DEF Midway, Answered

LEMMA SlotSoundStays ==
  ASSUME TypeOK, TypeOK', ChainInv, Onward, NEW x \in Execution, Known(x), SlotSound(x)
  PROVE  SlotSound(x)'
<1> SUFFICES ASSUME x.pc \notin {"IDLE", "ENDED"} PROVE SlotSound(x)'
  BY DEF SlotSound
<1>1. x.run \in RunId /\ x.gen \in 1 .. generation[x.run]
  BY DEF Known, SlotSound
<1>2. generation[x.run] \in Nat /\ generation'[x.run] \in Nat /\ Grows(x.run)
  BY <1>1 DEF TypeOK, Onward
<1>3. x.gen \in 1 .. generation'[x.run] /\ generation[x.run] > 0
  BY <1>1, <1>2 DEF Grows
<1>4. x.pc \in StartedPc => log'[x.run] # <<>>
  BY <1>1, <1>2, EventsStay DEF SlotSound
<1>5. FirstAsks(x)'
  BY <1>1 DEF SlotSound, FirstAsks, Onward
<1>6. Turn(x)'
  BY <1>1, <1>3, TurnStays DEF SlotSound
<1> QED BY <1>3, <1>4, <1>5, <1>6 DEF SlotSound

\* Two claimed runs of a conversation are not both open, unless a run between
\* them ended unclaimed.
LEMMA OnlyOneIsOwed ==
  ASSUME TypeOK, ChainInv, NEW q \in RunId, NEW r \in RunId,
         generation[q] > 0, generation[r] > 0, conversation(q) = conversation(r),
         Owed(q), IsOpen(r)
  PROVE  r = q
<1>1. Created(q) /\ Created(r)
  BY DEF ChainInv
<1>2. ASSUME NEW a \in RunId, NEW b \in RunId, a < b, generation[b] > 0, Created(b), IsOpen(a),
             conversation(a) = conversation(b)
      PROVE  EndedUnclaimed(conversation(a))
  <2> PICK k \in RunId : /\ a < k /\ k < b /\ conversation(k) = conversation(a)
                         /\ IsTerminal(k) /\ generation[k] = 0
    BY <1>2 DEF ChainInv, OverlapOnlyPastUnclaimedEnd
  <2>1. k \in RunsOf(conversation(a))
    BY DEF RunsOf, Created, IsTerminal, TERMINAL_STATUSES
  <2> QED BY <2>1 DEF EndedUnclaimed
<1>3. IsOpen(q) /\ ~EndedUnclaimed(conversation(q))
  BY DEF Owed
<1>4. r = q \/ r < q \/ q < r
  BY DEF RunId
<1> QED BY <1>1, <1>2, <1>3, <1>4

\* What a step that does not complete the run may do to it.
RunStep(r) ==
  /\ \/ log'[r] = log[r]
     \/ log[r] # <<>> /\ IsOpen(r)
     \/ /\ log[r] = <<>> /\ log'[r] = <<"run.started">>
        /\ generation[r] > 0 \/ ~Kept(r)'
     \/ /\ log[r] = <<>> /\ log'[r] = <<"run.failed">>
        /\ IsTerminal(r)' /\ admission'[r] = "REFUSED"
  /\ status'[r] = "SUCCEEDED" => status[r] = "SUCCEEDED"
  /\ cancelling'[r] = "END" => cancelling[r] = "END" \/ log'[r] # <<>>
  /\ IsTerminal(r) /\ admission[r] = "REFUSED" => admission'[r] = "REFUSED"
  /\ IsTerminal(r) => answerOf'[r] = answerOf[r]

LEMMA RunSoundStays ==
  ASSUME TypeOK, TypeOK', ChainInv, Onward, NEW r \in RunId, RunSound(r), RunStep(r)
  PROVE  RunSound(r)'
<1>1. Grows(r) /\ (Kept(r)' => Kept(r))
  BY DEF Onward
<1>2. log[r] \in Seq(EventName) /\ generation[r] \in Nat /\ generation'[r] \in Nat
  BY DEF TypeOK
<1>3. Opened(r)'
  <2>1. CASE log'[r] = log[r]
    <3>1. CASE log[r] # <<>> /\ log[r][1] = "run.started"
      BY <2>1, <3>1 DEF Opened
    <3>2. CASE log[r] = <<>>
      BY <2>1, <3>2 DEF Opened
    <3>3. CASE admission[r] = "REFUSED" /\ log[r] = <<"run.failed">> /\ IsTerminal(r)
      BY <1>1, <2>1, <3>3 DEF Opened, Grows, RunStep, IsTerminal
    <3> QED BY <3>1, <3>2, <3>3 DEF RunSound, Opened
  <2>2. CASE log'[r] # log[r] /\ log[r] # <<>> /\ IsOpen(r)
    <3>1. ~IsTerminal(r)
      BY <2>2 DEF IsOpen, IsTerminal, OpenStatus, TERMINAL_STATUSES
    <3>2. log[r][1] = "run.started"
      BY <2>2, <3>1 DEF RunSound, Opened
    <3>3. 1 \in DOMAIN log[r]
      BY <1>2, <2>2
    <3>4. log'[r][1] = log[r][1]
      BY <1>1, <3>3, EventsStay
    <3> QED BY <3>2, <3>4 DEF Opened
  <2>3. CASE log'[r] = <<"run.started">>
    BY <2>3 DEF Opened
  <2>4. CASE log'[r] = <<"run.failed">> /\ IsTerminal(r)' /\ admission'[r] = "REFUSED"
    BY <2>4 DEF Opened
  <2> QED BY <2>1, <2>2, <2>3, <2>4 DEF RunStep
<1>4. cancelling'[r] = "END" => log'[r] # <<>>
  BY <1>1, EventsStay DEF RunStep, RunSound
<1>5. ASSUME log'[r] # <<>>, Kept(r)', generation'[r] = 0 PROVE IsTerminal(r)'
  <2>1. generation[r] = 0 /\ Kept(r)
    BY <1>1, <1>2, <1>5 DEF Grows
  <2>2. CASE log[r] # <<>>
    <3>1. IsTerminal(r)
      BY <2>1, <2>2 DEF RunSound
    <3> QED BY <1>1, <3>1 DEF Grows, IsTerminal
  <2>3. CASE log[r] = <<>>
    BY <1>5, <2>1, <2>3 DEF RunStep
  <2> QED BY <2>2, <2>3
<1>6. ASSUME status'[r] = "SUCCEEDED"
      PROVE  /\ status[r] = "SUCCEEDED" /\ answerOf'[r] = answerOf[r]
             /\ generation'[r] = generation[r]
  BY <1>1, <1>6 DEF RunStep, Grows, IsTerminal, TERMINAL_STATUSES
<1>7. status'[r] = "SUCCEEDED" /\ generation'[r] = 1 /\ Kept(r)' => answerOf'[r] = r
  BY <1>1, <1>6 DEF RunSound
<1>8. ASSUME status'[r] = "SUCCEEDED", answerOf'[r] = r, ~EndedUnclaimed(conversation(r))'
      PROVE  \A i \in DOMAIN Path : Published(r, Path[i])'
  <2>1. ~EndedUnclaimed(conversation(r))
    <3>1. Created(r)
      BY <1>6, <1>8 DEF Created
    <3>2. conversation(r)' = conversation(r)
      BY <1>1, <3>1 DEF Grows, conversation
    <3>3. ASSUME NEW d, d = conversation(r), EndedUnclaimed(d) PROVE FALSE
      <4>1. EndedUnclaimed(d)'
        BY <3>3, EndedStays DEF Onward
      <4>2. d = conversation(r)'
        BY <3>2, <3>3
      <4> QED BY <1>8, <4>1, <4>2 DEF EndedUnclaimed
    <3> QED BY <3>3
  <2>2. \A i \in DOMAIN Path : Published(r, Path[i])
    BY <1>6, <1>8, <2>1 DEF RunSound
  <2>3. \A n : Published(r, n) => Published(r, n)'
    BY <1>1, HeardStays
  <2> QED BY <2>2, <2>3
<1> QED BY <1>3, <1>4, <1>5, <1>7, <1>8 DEF RunSound

-----------------------------------------------------------------------------
(* The events of a node *)

LEMMA NodeEvents ==
  ASSUME NEW n
  PROVE  /\ EventsOf(n) \in Seq({"route.selected", "retrieval.completed",
                                 "citation.added", "map.result", "answer.delta"})
         /\ n = "compose_answer" => Len(EventsOf(n)) = AnswerChunks
<1> DEFINE T == {"route.selected", "retrieval.completed", "citation.added", "map.result",
                 "answer.delta"}
<1>1. AnswerChunks \in Nat
  BY RuntimeAssumption
<1>2. [i \in 1 .. AnswerChunks |-> "answer.delta"] \in [1 .. AnswerChunks -> T]
  OBVIOUS
<1> DEFINE f == [i \in 1 .. AnswerChunks |-> "answer.delta"]
<1>3. f \in Seq(T) /\ Len(f) = AnswerChunks
  BY <1>1, <1>2, FunctionIsSeq
<1> HIDE DEF f
<1>4. EventsOf(n) = CASE n = "route_intent"       -> <<"route.selected">>
                      [] n = "retrieve_knowledge" -> <<"retrieval.completed", "citation.added">>
                      [] n = "execute_map_tools"  -> <<"map.result">>
                      [] n = "compose_answer"     -> f
                      [] OTHER                    -> <<>>
  BY DEF EventsOf, f
<1>5. /\ n = "compose_answer" => EventsOf(n) = f
      /\ n = "route_intent" => EventsOf(n) = <<"route.selected">>
      /\ n = "retrieve_knowledge" => EventsOf(n) = <<"retrieval.completed", "citation.added">>
      /\ n = "execute_map_tools" => EventsOf(n) = <<"map.result">>
      /\ n \notin {"compose_answer", "route_intent", "retrieve_knowledge",
                   "execute_map_tools"} => EventsOf(n) = <<>>
  BY <1>4
<1>6. /\ <<"route.selected">> \in Seq(T) /\ <<"map.result">> \in Seq(T)
      /\ <<"retrieval.completed", "citation.added">> \in Seq(T) /\ <<>> \in Seq(T)
  OBVIOUS
<1>7. EventsOf(n) \in Seq(T)
  BY <1>3, <1>5, <1>6
<1> QED BY <1>3, <1>5, <1>7

LEMMA PublishedIsEach ==
  ASSUME NEW r, NEW n
  PROVE  Published(r, n) <=> \A j \in 1 .. Len(EventsOf(n)) : HeardEvent(r, EventsOf(n)[j])
<1>1. DOMAIN EventsOf(n) = 1 .. Len(EventsOf(n))
  BY NodeEvents, LenProperties
<1> QED BY <1>1 DEF Published, HeardEvent

\* The shape of the graph.
LEMMA PathShape ==
  /\ Len(Path) \in Nat /\ DOMAIN Path = 1 .. Len(Path) /\ Len(Path) > 1
  /\ Path[1] = "route_intent"
  /\ \A i \in DOMAIN Path : Path[i] = "compose_answer" <=> i = Len(Path)
<1>1. Path \in Seq(Node) /\ Path # <<>>
  BY RuntimeAssumption
<1>2. Len(Path) \in Nat /\ DOMAIN Path = 1 .. Len(Path) /\ Len(Path) >= 1
  BY <1>1, LenProperties, EmptySeq
<1>3. /\ Path[1] = "route_intent"
      /\ \A i \in DOMAIN Path : Path[i] = "compose_answer" <=> i = Len(Path)
  BY RuntimeAssumption
<1>4. Len(Path) # 1
  BY <1>2, <1>3
<1> QED BY <1>2, <1>3, <1>4

-----------------------------------------------------------------------------
(* What a step of the runtime does to the runs *)

LEMMA OnwardStep ==
  ASSUME SystemInv, [RuntimeNext]_allVars
  PROVE  Onward
<1>1. [Next]_vars
  BY InvGivesClaims, StoreStep DEF SystemInv
<1>2. \A r \in RunId : Grows(r)
  BY <1>1, StoreGrows DEF SystemInv, RuntimeInv
<1>t. cancelling \in [RunId -> {"NO", "TASK", "START", "END", "OVER"}]
  BY DEF SystemInv, RuntimeInv, OthersKnown
<1>3. ASSUME NEW q \in RunId PROVE Kept(q)' => Kept(q)
  <2> USE <1>t DEF Kept
  <2>1. CASE UNCHANGED cancelling
    BY <2>1
  <2>2. ASSUME NEW p \in Worker, NEW r \in RunId, CancelHere(p, r) PROVE Kept(q)' => Kept(q)
    BY <2>2 DEF CancelHere, MayCancel
  <2>3. ASSUME NEW r \in RunId, CancelElsewhere(r) PROVE Kept(q)' => Kept(q)
    BY <2>3 DEF CancelElsewhere, MayCancel
  <2>4. ASSUME NEW r \in RunId, CancelStart(r) PROVE Kept(q)' => Kept(q)
    BY <2>4 DEF CancelStart
  <2>5. ASSUME NEW r \in RunId, CancelEnd(r) PROVE Kept(q)' => Kept(q)
    BY <2>5 DEF CancelEnd
  <2>6. ASSUME NEW s \in Slot, SlotStep(s) PROVE UNCHANGED cancelling
    BY <2>6 DEF SlotStep, BeginExecution, ReturnClaim, FirstStep, NeverRuns, ReadSequence,
         FindsItTerminal, PublishStarted, LoadResumed, LoadFresh, RunNode, PublishNext,
         SaveCheckpoint, EndStream, AnswerFallsBack, ExecutionFails, CompleteRun,
         PublishFailed, PublishCancelled, ReleaseRun, StoreRefuses, Interrupted, apiVars
  <2>7. ASSUME NEW s \in Slot,
               \/ ClaimRun(s) \/ RenewLease(s) \/ LoseLease(s)
               \/ RenewalDies(s) \/ DatabaseFails(s) \/ StopLoop(s)
        PROVE  UNCHANGED cancelling
    BY <2>7 DEF ClaimRun, RenewLease, LoseLease, RenewalDies, DatabaseFails, StopLoop,
                apiVars, runtimeVars
  <2>8. ASSUME NEW m \in Message, Submit(m) PROVE UNCHANGED cancelling
    BY <2>8 DEF Submit
  <2>9. ASSUME NEW r \in RunId, RefuseQuota(r) \/ LeaseTimesOut(r) \/ LeaseStalls(r)
        PROVE  UNCHANGED cancelling
    BY <2>9 DEF RefuseQuota, LeaseTimesOut, LeaseStalls, apiVars, runtimeVars
  <2>10. ASSUME NEW p \in Worker,
                Crash(p) \/ Shutdown(p) \/ GraceEnds(p) \/ Exit(p) \/ Restart(p)
         PROVE  UNCHANGED cancelling
    BY <2>10 DEF Crash, Shutdown, GraceEnds, Exit, Restart, apiVars
  <2>11. CASE UNCHANGED allVars
    BY <2>11 DEF allVars, runtimeVars, apiVars
  <2> HIDE DEF Kept
  <2> QED
    BY <2>1, <2>2, <2>3, <2>4, <2>5, <2>6, <2>7, <2>8, <2>9, <2>10, <2>11 DEF RuntimeNext
<1> QED BY <1>2, <1>3 DEF Onward

\* Steps that publish nothing, complete nothing and leave the requests alone.
LEMMA SilentRunStep ==
  ASSUME TypeOK, UNCHANGED <<apiVars, answerOf>>, UNCHANGED log,
         \A r \in RunId : status'[r] = "SUCCEEDED" => status[r] = "SUCCEEDED"
  PROVE  \A r \in RunId : RunStep(r)
BY DEF RunStep, apiVars

LEMMA AppendToEmpty == ASSUME NEW e \in EventName PROVE Append(<<>>, e) = <<e>>
OBVIOUS

\* Every event but run.started follows one; run.started comes from the execution
\* of a claimed run, or from the request that cancels it.
LEMMA PublishingRunStep ==
  ASSUME TypeOK, UNCHANGED <<status, answerOf, admission>>, NEW q \in RunId,
         NEW e \in EventName, AppendProgress(q, e),
         log[q] # <<>> \/ (e = "run.started" /\ (generation[q] > 0 \/ ~Kept(q)')),
         \A r \in RunId : cancelling'[r] # cancelling[r] => r = q
  PROVE  \A r \in RunId : RunStep(r)
<1> SUFFICES ASSUME NEW r \in RunId PROVE RunStep(r)
  OBVIOUS
<1>1. log' = [log EXCEPT ![q] = Append(@, e)] /\ log \in [RunId -> Seq(EventName)] /\ IsOpen(q)
  BY DEF AppendProgress, AcceptsEvents, TypeOK
<1>2. CASE r # q
  <2>1. log'[r] = log[r] /\ cancelling'[r] = cancelling[r]
    BY <1>1, <1>2
  <2> QED BY <2>1 DEF RunStep
<1>3. CASE r = q
  <2>1. log'[r] = Append(log[r], e) /\ log'[r] # <<>>
    <3>1. log'[r] = Append(log[r], e)
      BY <1>1, <1>3
    <3> QED BY <3>1, <1>1, AppendProperties
  <2>2. CASE log[q] # <<>>
    BY <1>1, <1>3, <2>1, <2>2 DEF RunStep
  <2>3. CASE log[q] = <<>> /\ e = "run.started" /\ (generation[q] > 0 \/ ~Kept(q)')
    <3>1. log'[r] = <<"run.started">>
      BY <2>1, <2>3, <1>3, AppendToEmpty
    <3> QED BY <3>1, <2>3, <1>3 DEF RunStep
  <2> QED BY <2>2, <2>3
<1> QED BY <1>2, <1>3

LEMMA EndingRunStep ==
  ASSUME TypeOK, UNCHANGED answerOf, NEW q \in RunId,
         NEW e \in TerminalEvent, NEW st \in {"FAILED", "CANCELLED"}, Terminate(q, e, st),
         \/ log[q] # <<>>
         \/ e = "run.failed" /\ admission'[q] = "REFUSED",
         \A r \in RunId : admission'[r] # admission[r] => r = q,
         \A r \in RunId : cancelling'[r] = "END" => cancelling[r] = "END"
  PROVE  \A r \in RunId : RunStep(r)
<1> SUFFICES ASSUME NEW r \in RunId PROVE RunStep(r)
  OBVIOUS
<1>1. /\ log' = [log EXCEPT ![q] = Append(@, e)] /\ log \in [RunId -> Seq(EventName)] /\ IsOpen(q)
      /\ status' = [status EXCEPT ![q] = st]
  BY DEF Terminate, AcceptsEvents, TypeOK
<1>2. CASE r # q
  <2>1. log'[r] = log[r] /\ status'[r] = status[r] /\ admission'[r] = admission[r]
    BY <1>1, <1>2 DEF TypeOK
  <2> QED BY <2>1 DEF RunStep
<1>3. CASE r = q
  <2>1. log'[r] = Append(log[r], e) /\ status'[r] = st
    BY <1>1, <1>3 DEF TypeOK
  <2>2. IsTerminal(r)' /\ status'[r] # "SUCCEEDED" /\ ~IsTerminal(r)
    BY <2>1, <1>1, <1>3 DEF IsTerminal, TERMINAL_STATUSES, IsOpen, OpenStatus
  <2>3. CASE log[q] # <<>>
    BY <1>1, <1>3, <2>2, <2>3 DEF RunStep
  <2>4. CASE log[q] = <<>> /\ e = "run.failed" /\ admission'[q] = "REFUSED"
    <3>1. log'[r] = <<"run.failed">>
      <4>1. e \in EventName
        BY DEF EventName
      <4> QED BY <2>1, <2>4, <1>3, <4>1, AppendToEmpty
    <3> QED BY <3>1, <2>2, <2>4, <1>3 DEF RunStep
  <2> QED BY <2>3, <2>4
<1> QED BY <1>2, <1>3

\* Giving a claim back requeues the run or does nothing.
LEMMA GiveBackIsSilent ==
  ASSUME TypeOK, NEW s \in Slot, exec[s].run \in RunId, GiveBack(s)
  PROVE  /\ UNCHANGED log
         /\ \A r \in RunId : status'[r] = "SUCCEEDED" => status[r] = "SUCCEEDED"
<1>1. CASE UNCHANGED vars
  BY <1>1 DEF vars
<1>2. CASE Release(ProcessOf[s], exec[s].run, exec[s].gen)
  BY <1>2 DEF Release, TypeOK
<1> QED BY <1>1, <1>2 DEF GiveBack

LEMMA BoundedAppendIs ==
  ASSUME NEW r \in RunId, NEW e, AppendBounded(r, e)
  PROVE  AppendProgress(r, e) /\ e \in EventName /\ IsOpen(r) /\ UNCHANGED status
BY DEF AppendBounded, AppendProgress, ProgressOf, EventName, AcceptsEvents

LEMMA SlotRunsStep ==
  ASSUME SystemInv, NEW s \in Slot, SlotStep(s), ~CompleteRun(s)
  PROVE  \A r \in RunId : RunStep(r)
<1> DEFINE x == exec[s]
<1>a. TypeOK /\ SlotSound(x) /\ Known(x)
  BY DEF SystemInv, RuntimeInv, TurnInv, SlotsSound, SlotsKnown
<1>b. x.pc \notin {"IDLE", "ENDED"} => x.run \in RunId /\ generation[x.run] > 0
  BY <1>a DEF Known, SlotSound, TypeOK
<1>1. CASE ReturnClaim(s) \/ ReleaseRun(s)
  <2>1. x.run \in RunId /\ GiveBack(s) /\ UNCHANGED <<apiVars, answerOf>>
    BY <1>1, <1>b DEF ReturnClaim, ReleaseRun, At
  <2> QED BY <1>a, <2>1, GiveBackIsSilent, SilentRunStep
<1>2. ASSUME NEW e, AppendBounded(x.run, e), UNCHANGED <<apiVars, answerOf>>,
             x.pc \notin {"IDLE", "ENDED"}, e = "run.started" \/ x.pc \in StartedPc
      PROVE  \A r \in RunId : RunStep(r)
  <2> DEFINE q == x.run
  <2>1. q \in RunId /\ generation[q] > 0 /\ (x.pc \in StartedPc => log[q] # <<>>)
    BY <1>2, <1>a, <1>b DEF SlotSound
  <2>2. /\ AppendProgress(q, e) /\ e \in EventName
        /\ UNCHANGED <<status, answerOf, admission>> /\ UNCHANGED cancelling
    BY <1>2, <2>1, BoundedAppendIs DEF apiVars
  <2> HIDE DEF q
  <2> QED BY <1>2, <1>a, <2>1, <2>2, PublishingRunStep
<1>3. CASE PublishStarted(s)
  <2>1. /\ AppendBounded(x.run, "run.started") /\ UNCHANGED <<apiVars, answerOf>>
        /\ x.pc \notin {"IDLE", "ENDED"}
    BY <1>3 DEF PublishStarted, At, AfterStarted
  <2> HIDE DEF x
  <2> QED BY <1>2, <2>1
<1>4. CASE PublishNext(s)
  <2>1. /\ AppendBounded(x.run, EventsOf(Path[x.node])[x.told + 1])
        /\ UNCHANGED <<apiVars, answerOf>>
        /\ x.pc \in {"EMIT", "FALLBACK"}
    BY <1>4 DEF PublishNext, At
  <2>2. x.pc \notin {"IDLE", "ENDED"} /\ x.pc \in StartedPc
    BY <2>1 DEF StartedPc, LoadedPc
  <2> HIDE DEF x
  <2> QED BY <1>2, <2>1, <2>2
<1>5. CASE PublishFailed(s) \/ PublishCancelled(s)
  <2>1. /\ x.pc \in {"FAIL_END", "CANCEL_END"} /\ UNCHANGED <<apiVars, answerOf>>
        /\ \/ Terminate(x.run, "run.failed", "FAILED")
           \/ Terminate(x.run, "run.cancelled", "CANCELLED")
    BY <1>5 DEF PublishFailed, PublishCancelled, At, AppendFailed, AppendCancelled
  <2> DEFINE q == x.run
  <2>2. q \in RunId /\ log[q] # <<>>
    BY <2>1, <1>a, <1>b DEF SlotSound, StartedPc
  <2>3. {"run.failed", "run.cancelled"} \subseteq TerminalEvent /\ UNCHANGED <<admission, cancelling>>
    BY <2>1 DEF TerminalEvent, apiVars
  <2> HIDE DEF q
  <2>4. CASE Terminate(q, "run.failed", "FAILED")
    BY <1>a, <2>1, <2>2, <2>3, <2>4, EndingRunStep
  <2>5. CASE Terminate(q, "run.cancelled", "CANCELLED")
    BY <1>a, <2>1, <2>2, <2>3, <2>5, EndingRunStep
  <2> QED BY <2>1, <2>4, <2>5 DEF q
<1>6. CASE UNCHANGED <<vars, apiVars, answerOf>>
  <2>1. UNCHANGED log /\ UNCHANGED status /\ UNCHANGED <<apiVars, answerOf>>
    BY <1>6 DEF vars
  <2> QED BY <1>a, <2>1, SilentRunStep
<1>7. CASE \/ BeginExecution(s) \/ FirstStep(s) \/ NeverRuns(s) \/ ReadSequence(s)
           \/ FindsItTerminal(s) \/ LoadResumed(s) \/ LoadFresh(s) \/ RunNode(s)
           \/ SaveCheckpoint(s) \/ EndStream(s) \/ AnswerFallsBack(s) \/ ExecutionFails(s)
           \/ StoreRefuses(s) \/ Interrupted(s)
  <2>1. UNCHANGED <<vars, apiVars, answerOf>>
    BY <1>7 DEF BeginExecution, FirstStep, NeverRuns, ReadSequence, FindsItTerminal,
         LoadResumed, LoadFresh, RunNode, SaveCheckpoint, EndStream, AnswerFallsBack,
         ExecutionFails, StoreRefuses, Interrupted
  <2> QED BY <1>6, <2>1
<1> QED BY <1>1, <1>3, <1>4, <1>5, <1>7 DEF SlotStep

LEMMA RunsStep ==
  ASSUME SystemInv, [RuntimeNext]_allVars, ~ \E s \in Slot : CompleteRun(s)
  PROVE  \A r \in RunId : RunStep(r)
<1>a. TypeOK /\ \A r \in RunId : RunSound(r)
  BY DEF SystemInv, RuntimeInv, TurnInv
<1>t. /\ admission \in [RunId -> {"NONE", "RESERVING", "REFUSED"}]
      /\ cancelling \in [RunId -> {"NO", "TASK", "START", "END", "OVER"}]
  BY DEF SystemInv, RuntimeInv, OthersKnown
<1>s. ASSUME UNCHANGED log, UNCHANGED <<apiVars, answerOf>>,
             \A r \in RunId : status'[r] = "SUCCEEDED" => status[r] = "SUCCEEDED"
      PROVE  \A r \in RunId : RunStep(r)
  BY <1>a, <1>s, SilentRunStep
<1>0. ASSUME UNCHANGED vars, UNCHANGED <<apiVars, answerOf>> PROVE \A r \in RunId : RunStep(r)
  BY <1>0, <1>s DEF vars
<1>1. ASSUME NEW m \in Message, Submit(m), NEW r \in RunId PROVE RunStep(r)
  <2>1. status'[r] = "SUCCEEDED" => status[r] = "SUCCEEDED"
    BY <1>1, <1>a DEF Submit, Create, TypeOK
  <2>2. IsTerminal(r) => admission'[r] = admission[r]
    BY <1>1 DEF Submit, IsTerminal, Created, TERMINAL_STATUSES
  <2>3. UNCHANGED <<log, cancelling, answerOf>>
    BY <1>1 DEF Submit, Create
  <2> QED BY <2>1, <2>2, <2>3 DEF RunStep
<1>2. ASSUME NEW s \in Slot, ClaimRun(s) PROVE \A r \in RunId : RunStep(r)
  <2> PICK q \in RunId : Claim(ProcessOf[s], q)
    BY <1>2 DEF ClaimRun
  <2>1. /\ UNCHANGED log
        /\ \A r \in RunId : status'[r] = "SUCCEEDED" => status[r] = "SUCCEEDED"
    BY <1>a DEF Claim, TypeOK
  <2> QED BY <1>2, <1>s, <2>1 DEF ClaimRun
<1>3. ASSUME NEW s \in Slot, SlotStep(s) PROVE \A r \in RunId : RunStep(r)
  BY <1>3, SlotRunsStep
<1>4. ASSUME NEW s \in Slot, RenewLease(s) PROVE \A r \in RunId : RunStep(r)
  BY <1>4, <1>s DEF RenewLease, Renew, runtimeVars, apiVars
<1>5. ASSUME NEW s \in Slot,
             LoseLease(s) \/ RenewalDies(s) \/ DatabaseFails(s) \/ StopLoop(s)
      PROVE  \A r \in RunId : RunStep(r)
  BY <1>5, <1>0 DEF LoseLease, RenewalDies, DatabaseFails, StopLoop
<1>6. ASSUME NEW q \in RunId, RefuseQuota(q) PROVE \A r \in RunId : RunStep(r)
  <2>0. /\ UNCHANGED <<cancelling, answerOf>> /\ admission'[q] = "REFUSED"
        /\ \A r \in RunId : r # q => admission'[r] = admission[r]
    BY <1>6, <1>t DEF RefuseQuota
  <2>1. CASE UNCHANGED vars
    <3>1. UNCHANGED log /\ UNCHANGED status
      BY <2>1 DEF vars
    <3> QED BY <2>0, <3>1 DEF RunStep
  <2>2. CASE Terminate(q, "run.failed", "FAILED")
    <3>1. "run.failed" \in TerminalEvent
      BY DEF TerminalEvent
    <3> QED BY <2>0, <2>2, <3>1, <1>a, EndingRunStep
  <2> QED BY <1>6, <2>1, <2>2 DEF RefuseQuota, AppendFailed
<1>7. ASSUME NEW q \in RunId, LeaseTimesOut(q) \/ LeaseStalls(q) PROVE \A r \in RunId : RunStep(r)
  BY <1>7, <1>s DEF LeaseTimesOut, LeaseStalls, LeaseExpires, runtimeVars, apiVars
<1>8. ASSUME NEW q \in RunId, CancelElsewhere(q), NEW r \in RunId PROVE RunStep(r)
  <2>1. UNCHANGED <<log, status, admission, answerOf>>
    BY <1>8 DEF CancelElsewhere, vars
  <2>2. cancelling'[r] = "END" => cancelling[r] = "END" \/ log[r] # <<>>
    BY <1>8, <1>t DEF CancelElsewhere
  <2> QED BY <2>1, <2>2 DEF RunStep
<1>9. ASSUME NEW q \in RunId, CancelStart(q) PROVE \A r \in RunId : RunStep(r)
  <2>0. UNCHANGED <<admission, answerOf>>
    BY <1>9 DEF CancelStart
  <2>1. CASE AppendBounded(q, "run.started") /\ cancelling' = [cancelling EXCEPT ![q] = "END"]
    <3>1. AppendProgress(q, "run.started") /\ "run.started" \in EventName /\ UNCHANGED status
      BY <2>1, BoundedAppendIs
    <3>2. ~Kept(q)' /\ \A r \in RunId : cancelling'[r] # cancelling[r] => r = q
      BY <2>1, <1>t DEF Kept
    <3> QED BY <2>0, <3>1, <3>2, <1>a, PublishingRunStep
  <2>2. CASE UNCHANGED vars /\ cancelling' = [cancelling EXCEPT ![q] = "OVER"]
    <3>1. UNCHANGED <<log, status>>
      BY <2>2 DEF vars
    <3>2. \A r \in RunId : cancelling'[r] = "END" => cancelling[r] = "END"
      BY <2>2, <1>t
    <3> QED BY <2>0, <3>1, <3>2 DEF RunStep
  <2> QED BY <1>9, <2>1, <2>2 DEF CancelStart
<1>10. ASSUME NEW q \in RunId, CancelEnd(q) PROVE \A r \in RunId : RunStep(r)
  <2>0. UNCHANGED <<admission, answerOf>>
    BY <1>10 DEF CancelEnd
  <2>1. /\ cancelling' = [cancelling EXCEPT ![q] = "OVER"] /\ cancelling[q] = "END"
        /\ AppendCancelled(q) \/ UNCHANGED vars
    BY <1>10 DEF CancelEnd
  <2>2. \A r \in RunId : cancelling'[r] = "END" => cancelling[r] = "END"
    BY <2>1, <1>t
  <2>3. CASE UNCHANGED vars
    <3>1. UNCHANGED <<log, status>>
      BY <2>3 DEF vars
    <3> QED BY <2>0, <2>2, <3>1 DEF RunStep
  <2>4. CASE AppendCancelled(q)
    <3>1. Terminate(q, "run.cancelled", "CANCELLED") /\ "run.cancelled" \in TerminalEvent
      BY <2>4 DEF AppendCancelled, TerminalEvent
    <3>2. log[q] # <<>>
      BY <2>1, <1>a DEF RunSound
    <3> QED BY <2>0, <2>2, <3>1, <3>2, <1>a, EndingRunStep
  <2> QED BY <2>1, <2>3, <2>4
<1>11. ASSUME NEW p \in Worker, NEW q \in RunId, CancelHere(p, q), NEW r \in RunId
       PROVE  RunStep(r)
  <2>1. UNCHANGED <<log, status, admission, answerOf>>
    BY <1>11 DEF CancelHere, vars
  <2>2. cancelling'[r] = "END" => cancelling[r] = "END"
    BY <1>11, <1>t DEF CancelHere
  <2> QED BY <2>1, <2>2 DEF RunStep
<1>12. ASSUME NEW p \in Worker,
              Crash(p) \/ Shutdown(p) \/ GraceEnds(p) \/ Exit(p) \/ Restart(p)
       PROVE  \A r \in RunId : RunStep(r)
  BY <1>12, <1>0 DEF Crash, Shutdown, GraceEnds, Exit, Restart
<1>13. CASE UNCHANGED allVars
  BY <1>13, <1>0 DEF allVars, runtimeVars
<1> QED
  BY <1>1, <1>2, <1>3, <1>4, <1>5, <1>6, <1>7, <1>8, <1>9, <1>10, <1>11, <1>12, <1>13
     DEF RuntimeNext

\* The commit: the execution has passed all its nodes with an answer.
LEMMA CompletedRunIsSound ==
  ASSUME SystemInv, TypeOK', Onward, NEW s \in Slot, CompleteRun(s),
         NEW x, NEW q, x = exec[s], q = x.run
  PROVE  \A r \in RunId : RunSound(r)'
<1>a. /\ TypeOK /\ ChainInv /\ SlotSound(x) /\ Known(x)
      /\ \A r \in RunId : RunSound(r)
      /\ answerOf \in [RunId -> RunId \union {NoRun}]
  BY DEF SystemInv, RuntimeInv, TurnInv, SlotsSound, SlotsKnown, OthersKnown
<1>1. /\ x.pc \in {"COMPLETE", "FALLBACK_COMPLETE"}
      /\ Complete(q) /\ answerOf' = [answerOf EXCEPT ![q] = x.answer]
      /\ UNCHANGED apiVars
  BY DEF CompleteRun, At
<1>2. q \in RunId /\ x.gen \in 1 .. generation[q] /\ log[q] # <<>> /\ FirstAsks(x) /\ Turn(x)
  BY <1>1, <1>a DEF Known, SlotSound, StartedPc, LoadedPc
<1>3. /\ log' = [log EXCEPT ![q] = Append(@, "run.completed")]
      /\ status' = [status EXCEPT ![q] = "SUCCEEDED"]
      /\ generation' = generation /\ message' = message
      /\ IsOpen(q)
  BY <1>1 DEF Complete, Terminate, AcceptsEvents, rowVars
<1>4. /\ Position(conversation(q), x.question, x.answer, x.node) /\ Midway(x)
  BY <1>1, <1>2 DEF Turn, LoadedPc
\* The answer is that of the question, and the question has been told in full.
<1>5. /\ x.answer = x.question
      /\ \A i \in DOMAIN Path : Heard(x.question, i)
  <2>0. /\ Len(Path) \in Nat /\ DOMAIN Path = 1 .. Len(Path) /\ Len(Path) > 1
    BY PathShape
  <2>1. CASE x.pc = "COMPLETE"
    <3>1. x.node = Len(Path) + 1
      BY <1>4, <2>1 DEF Midway
    <3>2. x.answer = x.question
      BY <1>4, <2>0, <3>1 DEF Position, Answered
    <3>3. \A i \in DOMAIN Path : i < x.node
      BY <2>0, <3>1
    <3> QED BY <1>4, <3>2, <3>3 DEF Position
  <2>2. CASE x.pc = "FALLBACK_COMPLETE"
    <3>1. /\ x.node = Len(Path) /\ Answered(x.question, x.answer, x.node + 1)
          /\ Heard(x.question, x.node)
      BY <1>4, <2>2 DEF Midway
    <3>2. x.answer = x.question
      BY <2>0, <3>1 DEF Answered
    <3>3. \A i \in DOMAIN Path : i < x.node \/ i = x.node
      BY <2>0, <3>1
    <3> QED BY <1>4, <3>1, <3>2, <3>3 DEF Position
  <2> QED BY <1>1, <2>1, <2>2
<1>6. ASSUME NEW r \in RunId, r # q PROVE RunSound(r)'
  <2>1. /\ log'[r] = log[r] /\ status'[r] = status[r] /\ answerOf'[r] = answerOf[r]
        /\ cancelling' = cancelling /\ admission' = admission
    BY <1>1, <1>3, <1>6, <1>a DEF TypeOK, apiVars
  <2>2. RunStep(r)
    BY <2>1 DEF RunStep
  <2> QED BY <1>a, <2>2, RunSoundStays
<1>7. RunSound(q)'
  <2>1. /\ log'[q] = Append(log[q], "run.completed") /\ status'[q] = "SUCCEEDED"
        /\ answerOf'[q] = x.answer
        /\ cancelling'[q] = cancelling[q] /\ admission'[q] = admission[q]
    BY <1>1, <1>2, <1>3, <1>a DEF TypeOK, apiVars
  <2>2. ~IsTerminal(q) /\ Grows(q)
    BY <1>2, <1>3 DEF IsOpen, IsTerminal, OpenStatus, TERMINAL_STATUSES, Onward
  <2>3. log[q][1] = "run.started"
    BY <1>2, <1>a, <2>2 DEF RunSound, Opened
  <2>4. log'[q] # <<>> /\ log'[q][1] = "run.started"
    <3>1. 1 \in DOMAIN log[q]
      BY <1>2, <1>a DEF TypeOK
    <3> QED BY <1>2, <1>a, <2>2, <2>3, <3>1, EventsStay
  <2>5. Opened(q)' /\ IsTerminal(q)'
    BY <2>1, <2>4 DEF Opened, IsTerminal, TERMINAL_STATUSES
  <2>6. ASSUME generation'[q] = 1, Kept(q)' PROVE answerOf'[q] = q
    <3>1. x.gen = 1 /\ Kept(q)
      BY <1>2, <1>3, <2>1, <2>6 DEF Kept
    <3>2. x.question = q
      BY <1>1, <1>2, <3>1 DEF FirstAsks, LoadedPc
    <3> QED BY <1>5, <2>1, <3>2
  <2>7. ASSUME answerOf'[q] = q, ~EndedUnclaimed(conversation(q))'
        PROVE  \A i \in DOMAIN Path : Published(q, Path[i])'
    <3>1. x.question = q
      BY <1>5, <2>1, <2>7
    <3>2. ~EndedUnclaimed(conversation(q))
      <4>1. conversation(q)' = conversation(q)
        BY <1>3 DEF conversation
      <4>2. ASSUME NEW d, d = conversation(q), EndedUnclaimed(d) PROVE FALSE
        <5>1. EndedUnclaimed(d)'
          BY <4>2, <1>a, EndedStays DEF Onward
        <5>2. d = conversation(q)'
          BY <4>1, <4>2
        <5> QED BY <2>7, <5>1, <5>2 DEF EndedUnclaimed
      <4> QED BY <4>2
    <3>3. Owed(q)
      BY <1>3, <3>2 DEF Owed
    <3>4. \A i \in DOMAIN Path : Published(q, Path[i])
      BY <1>5, <3>1, <3>3 DEF Heard
    <3>5. \A n : Published(q, n) => Published(q, n)'
      BY <1>2, <1>a, <2>2, HeardStays
    <3> QED BY <3>4, <3>5
  <2> QED BY <2>4, <2>5, <2>6, <2>7 DEF RunSound
<1> QED BY <1>6, <1>7

-----------------------------------------------------------------------------
(* What a step of the runtime does to the slots *)

\* The renewal and a pending cancellation say nothing about the turn.
SameTurn(x, y) ==
  /\ y.pc = x.pc /\ y.run = x.run /\ y.gen = x.gen /\ y.resume = x.resume
  /\ y.question = x.question /\ y.answer = x.answer /\ y.node = x.node /\ y.told = x.told

LEMMA SameTurnIsSound ==
  ASSUME NEW x, NEW y, SameTurn(x, y), SlotSound(x)
  PROVE  SlotSound(y)
BY DEF SameTurn, SlotSound, FirstAsks, Turn, Midway, HeardSome

LEMMA NothingIsSound ==
  ASSUME NEW x, x.pc \in {"IDLE", "ENDED"}
  PROVE  SlotSound(x)
BY DEF SlotSound

LEMMA SlotsChange ==
  ASSUME SystemInv, TypeOK', Onward,
         \A t \in Slot : \/ exec'[t].pc \in {"IDLE", "ENDED"}
                         \/ SameTurn(exec[t], exec'[t])
                         \/ \E y \in Execution : /\ y = exec'[t] /\ Known(y)
                                                 /\ SlotSound(y) \/ SlotSound(y)'
  PROVE  SlotsSound'
<1> SUFFICES ASSUME NEW t \in Slot, NEW y, y = exec'[t] PROVE SlotSound(y)'
  BY DEF SlotsSound
<1>1. CASE y.pc \in {"IDLE", "ENDED"}
  BY <1>1 DEF SlotSound
<1>2. CASE SameTurn(exec[t], exec'[t])
  <2> PICK x : x = exec[t]
    OBVIOUS
  <2>1. x \in Execution /\ Known(x) /\ SlotSound(x)
    BY DEF SystemInv, RuntimeInv, SlotsKnown, TurnInv, SlotsSound
  <2>2. SlotSound(x)'
    BY <2>1, SlotSoundStays DEF SystemInv, RuntimeInv
  <2>3. SameTurn(x, y)
    BY <1>2
  <2> QED BY <2>2, <2>3 DEF SameTurn, SlotSound, FirstAsks, Turn, Midway, HeardSome
<1>3. CASE \E z \in Execution : z = exec'[t] /\ Known(z) /\ SlotSound(z)
  <2>1. y \in Execution /\ Known(y) /\ SlotSound(y)
    BY <1>3
  <2> QED BY <2>1, SlotSoundStays DEF SystemInv, RuntimeInv
<1>4. CASE \E z \in Execution : z = exec'[t] /\ SlotSound(z)'
  <2> PICK z \in Execution : z = exec'[t] /\ SlotSound(z)'
    BY <1>4
  <2> QED BY DEF SlotSound, FirstAsks, Turn, Midway, HeardSome
<1> QED BY <1>1, <1>2, <1>3, <1>4

\* A step of one slot.
LEMMA SlotChanges ==
  ASSUME SystemInv, TypeOK', SlotsKnown', Onward, NEW s \in Slot, NEW y,
         exec' = [exec EXCEPT ![s] = y],
         SlotSound(y) \/ SlotSound(y)'
  PROVE  SlotsSound'
<1>1. exec \in [Slot -> Execution]
  BY DEF SystemInv, RuntimeInv, SlotsKnown
<1>2. exec'[s] = y /\ \A t \in Slot : t # s => exec'[t] = exec[t]
  BY <1>1
<1>3. y \in Execution /\ Known(y)
  BY <1>2 DEF SlotsKnown, Known
<1>4. ASSUME NEW t \in Slot
      PROVE  \/ SameTurn(exec[t], exec'[t])
             \/ \E z \in Execution : z = exec'[t] /\ Known(z) /\ (SlotSound(z) \/ SlotSound(z)')
  <2>1. CASE t # s
    BY <1>2, <2>1 DEF SameTurn
  <2>2. CASE t = s
    BY <1>2, <1>3, <2>2
  <2> QED BY <2>1, <2>2
<1> QED BY <1>4, SlotsChange

\* An execution that ended, or that an exception handler took over.
LEMMA HandledIsSound ==
  ASSUME SystemInv, TypeOK', SlotsKnown', Onward, NEW s \in Slot,
         NEW pc \in {"FAIL", "CANCEL", "RELEASE"}, exec[s].pc \notin {"IDLE", "ENDED"},
         Handle(s, pc)
  PROVE  SlotsSound'
<1> DEFINE y == [NoExecution EXCEPT !.pc = pc, !.run = exec[s].run, !.gen = exec[s].gen,
                                    !.renewing = exec[s].renewing]
<1>1. exec' = [exec EXCEPT ![s] = y]
  BY DEF Handle
<1>2. /\ y.pc = pc /\ y.run = exec[s].run /\ y.gen = exec[s].gen /\ y.resume = FALSE
      /\ y.told = 0
  BY DEF NoExecution
<1>3. SlotSound(exec[s])
  BY DEF SystemInv, TurnInv, SlotsSound
<1> HIDE DEF y
<1>4. SlotSound(y)
  BY <1>2, <1>3 DEF SlotSound, StartedPc, LoadedPc, FirstAsks, Turn
<1> PICK z : z = y
  OBVIOUS
<1>5. exec' = [exec EXCEPT ![s] = z] /\ SlotSound(z)
  BY <1>1, <1>4
<1> QED BY <1>5, SlotChanges

LEMMA EndedIsSound ==
  ASSUME SystemInv, TypeOK', Onward, NEW s \in Slot,
         \/ exec' = [exec EXCEPT ![s] = NoExecution]
         \/ exec' = [exec EXCEPT ![s] = [NoExecution EXCEPT !.pc = "ENDED"]]
  PROVE  SlotsSound'
<1>1. NoExecution.pc = "IDLE" /\ [NoExecution EXCEPT !.pc = "ENDED"].pc = "ENDED"
  BY DEF NoExecution
<1>2. exec \in [Slot -> Execution]
  BY DEF SystemInv, RuntimeInv, SlotsKnown
<1>3. ASSUME NEW t \in Slot
      PROVE  exec'[t].pc \in {"IDLE", "ENDED"} \/ SameTurn(exec[t], exec'[t])
  <2>1. CASE t = s
    BY <1>1, <1>2, <2>1
  <2>2. CASE t # s
    <3>1. exec'[t] = exec[t]
      BY <1>2, <2>2
    <3> QED BY <3>1 DEF SameTurn
  <2> QED BY <2>1, <2>2
<1> QED BY <1>3, SlotsChange

LEMMA RaisedIsSound ==
  ASSUME SystemInv, TypeOK', SlotsKnown', Onward, NEW s \in Slot,
         exec[s].pc \notin {"IDLE", "ENDED"}, Raise(s)
  PROVE  SlotsSound'
BY HandledIsSound, EndedIsSound DEF Raise, Done

-----------------------------------------------------------------------------
(* The steps of an execution through the graph.  In each lemma x is the    *)
(* slot's record before the step and y the one after it.                   *)

LEMMA LoadedFresh ==
  ASSUME SystemInv, NEW x \in Execution, Known(x), SlotSound(x), x.pc = "LOAD"
  PROVE  /\ SlotSound([x EXCEPT !.pc = "STREAM", !.resume = FALSE, !.question = x.run,
                                !.answer = NoRun, !.node = 1])
         /\ \A a : Position(conversation(x.run), x.run, a, 1)
<1> DEFINE y == [x EXCEPT !.pc = "STREAM", !.resume = FALSE, !.question = x.run,
                          !.answer = NoRun, !.node = 1]
<1>1. /\ y.pc = "STREAM" /\ y.resume = FALSE /\ y.question = x.run /\ y.node = 1
      /\ y.run = x.run /\ y.gen = x.gen /\ y.told = x.told
  BY DEF Execution
<1>2. x.run \in RunId /\ x.gen \in 1 .. generation[x.run] /\ log[x.run] # <<>> /\ x.told = 0
  BY DEF Known, SlotSound, StartedPc, LoadedPc
<1>3. generation[x.run] \in Nat
  BY <1>2 DEF SystemInv, RuntimeInv, TypeOK
<1>4. \A a : Position(conversation(x.run), x.run, a, 1)
  BY <1>2, <1>3, PathShape DEF Position, Asked, Answered
<1> HIDE DEF y
<1>5. Turn(y)
  BY <1>1, <1>2, <1>4 DEF Turn, Midway
<1>6. SlotSound(y)
  BY <1>1, <1>2, <1>5 DEF SlotSound, FirstAsks, LoadedPc
<1> QED BY <1>4, <1>6 DEF y

LEMMA LoadedCheckpoint ==
  ASSUME SystemInv, NEW x \in Execution, Known(x), SlotSound(x), x.pc = "LOAD", x.resume,
         NEW k \in Checkpoint, k # NoCheckpoint, CheckpointSound(k, conversation(x.run))
  PROVE  SlotSound([x EXCEPT !.pc = "STREAM", !.resume = FALSE, !.question = k.question,
                             !.answer = k.answer, !.node = k.node])
<1> DEFINE y == [x EXCEPT !.pc = "STREAM", !.resume = FALSE, !.question = k.question,
                          !.answer = k.answer, !.node = k.node]
<1>1. /\ y.pc = "STREAM" /\ y.question = k.question /\ y.node = k.node
      /\ y.answer = k.answer /\ y.run = x.run /\ y.gen = x.gen /\ y.told = x.told
  BY DEF Execution
<1>2. /\ x.gen \in 1 .. generation[x.run] /\ log[x.run] # <<>> /\ x.told = 0
      /\ ~(x.gen = 1 /\ Kept(x.run))
  BY DEF Known, SlotSound, StartedPc, LoadedPc, FirstAsks
<1> HIDE DEF y
<1>3. Turn(y)
  BY <1>1, <1>2 DEF Turn, Midway, CheckpointSound
<1>4. SlotSound(y)
  BY <1>1, <1>2, <1>3 DEF SlotSound, FirstAsks, LoadedPc
<1> QED BY <1>4 DEF y

\* route_intent clears what the checkpoint held of the turn before.
LEMMA NodeIsRun ==
  ASSUME SystemInv, NEW x \in Execution, Known(x), SlotSound(x), x.pc = "STREAM",
         x.node \in DOMAIN Path
  PROVE  SlotSound([x EXCEPT !.pc = AfterNode(Path[x.node]),
                             !.answer = AnswerAfter(Path[x.node], x)])
<1> DEFINE n == x.node
           a == AnswerAfter(Path[n], x)
           y == [x EXCEPT !.pc = AfterNode(Path[n]), !.answer = a]
<1>1. /\ y.pc = AfterNode(Path[n]) /\ y.question = x.question /\ y.node = n
      /\ y.answer = a /\ y.run = x.run /\ y.gen = x.gen /\ y.told = x.told
      /\ y.resume = x.resume
  BY DEF Execution
<1>2. /\ x.gen \in 1 .. generation[x.run] /\ log[x.run] # <<>> /\ FirstAsks(x)
      /\ Position(conversation(x.run), x.question, x.answer, n) /\ x.told = 0
  BY DEF Known, SlotSound, StartedPc, LoadedPc, Turn, Midway
<1>3. y.pc \in {"EMIT", "SAVE"} /\ (y.pc = "SAVE" <=> EventsOf(Path[n]) = <<>>)
  BY <1>1 DEF AfterNode
<1>4. Answered(x.question, a, n + 1) /\ Answered(x.question, a, n)
  <2>0. /\ Len(Path) \in Nat /\ DOMAIN Path = 1 .. Len(Path) /\ Len(Path) > 1
        /\ Path[1] = "route_intent"
        /\ Path[n] = "compose_answer" <=> n = Len(Path)
    BY PathShape
  <2>1. CASE n = 1
    <3>1. a = NoRun
      BY <2>0, <2>1 DEF AnswerAfter
    <3> QED BY <2>0, <2>1, <3>1 DEF Answered
  <2>2. CASE n = Len(Path)
    <3>1. a = x.question
      BY <2>0, <2>2 DEF AnswerAfter
    <3> QED BY <2>0, <2>2, <3>1 DEF Answered
  <2>3. CASE n > 1 /\ n < Len(Path)
    <3>1. x.answer \in {NoRun, x.question}
      BY <1>2, <2>3 DEF Position, Answered
    <3>2. a \in {NoRun, x.question, x.answer}
      BY <2>0, <2>3 DEF AnswerAfter
    <3> QED BY <2>0, <2>3, <3>1, <3>2 DEF Answered
  <2> QED BY <2>0, <2>1, <2>2, <2>3
<1>5. Position(conversation(x.run), x.question, a, n)
  BY <1>2, <1>4 DEF Position
<1> HIDE DEF a, y
<1>6. Midway(y)
  <2>1. y.pc = "EMIT" => 0 < Len(EventsOf(Path[n])) /\ HeardSome(y)
    <3>1. EventsOf(Path[n]) # <<>> => 0 < Len(EventsOf(Path[n]))
      BY NodeEvents, EmptySeq, LenProperties
    <3> QED BY <1>1, <1>2, <1>3, <3>1 DEF HeardSome
  <2>2. y.pc = "SAVE" => Heard(x.question, n)
    <3>1. EventsOf(Path[n]) = <<>> => Published(x.question, Path[n])
      BY DEF Published
    <3> QED BY <1>3, <3>1 DEF Heard
  <2> QED BY <1>1, <1>2, <1>3, <1>4, <2>1, <2>2 DEF Midway
<1>7. SlotSound(y)
  BY <1>1, <1>2, <1>3, <1>5, <1>6 DEF SlotSound, FirstAsks, LoadedPc, Turn
<1> QED BY <1>7 DEF y, a

LEMMA FallbackIsReached ==
  ASSUME SystemInv, NEW x \in Execution, Known(x), SlotSound(x), x.pc = "STREAM",
         x.node \in DOMAIN Path, Path[x.node] = "compose_answer"
  PROVE  SlotSound([x EXCEPT !.pc = "FALLBACK", !.answer = x.question])
<1> DEFINE n == x.node
           y == [x EXCEPT !.pc = "FALLBACK", !.answer = x.question]
<1>1. /\ y.pc = "FALLBACK" /\ y.question = x.question /\ y.node = n
      /\ y.answer = x.question /\ y.run = x.run /\ y.gen = x.gen /\ y.told = x.told
      /\ y.resume = x.resume
  BY DEF Execution
<1>2. /\ x.gen \in 1 .. generation[x.run] /\ log[x.run] # <<>> /\ FirstAsks(x)
      /\ Position(conversation(x.run), x.question, x.answer, n) /\ x.told = 0
  BY DEF Known, SlotSound, StartedPc, LoadedPc, Turn, Midway
<1>3. n = Len(Path)
  BY PathShape
<1>4. 0 < Len(EventsOf(Path[n]))
  <2>1. AnswerChunks \in Nat \ {0}
    BY RuntimeAssumption
  <2> QED BY <2>1, NodeEvents
<1> HIDE DEF y
<1>5. Turn(y)
  BY <1>1, <1>2, <1>3, <1>4 DEF Turn, Midway, HeardSome, Position, Answered
<1>6. SlotSound(y)
  BY <1>1, <1>2, <1>5 DEF SlotSound, FirstAsks, LoadedPc
<1> QED BY <1>6 DEF y

LEMMA StreamIsOver ==
  ASSUME SystemInv, NEW x \in Execution, Known(x), SlotSound(x), x.pc = "STREAM",
         x.node \notin DOMAIN Path
  PROVE  SlotSound([x EXCEPT !.pc = "COMPLETE"])
<1> DEFINE y == [x EXCEPT !.pc = "COMPLETE"]
<1>1. /\ y.pc = "COMPLETE" /\ y.question = x.question /\ y.node = x.node
      /\ y.answer = x.answer /\ y.run = x.run /\ y.gen = x.gen /\ y.resume = x.resume
  BY DEF Execution
<1>2. /\ x.gen \in 1 .. generation[x.run] /\ log[x.run] # <<>> /\ FirstAsks(x)
      /\ Position(conversation(x.run), x.question, x.answer, x.node)
  BY DEF Known, SlotSound, StartedPc, LoadedPc, Turn
<1>3. x.node = Len(Path) + 1
  BY <1>2, PathShape DEF Position
<1> HIDE DEF y
<1>4. Turn(y)
  BY <1>1, <1>2, <1>3 DEF Turn, Midway
<1> QED BY <1>1, <1>2, <1>4 DEF SlotSound, FirstAsks, LoadedPc, y

\* A checkpoint is saved only when the node's events have been published.
LEMMA NodeIsSaved ==
  ASSUME SystemInv, NEW x \in Execution, Known(x), SlotSound(x), x.pc = "SAVE"
  PROVE  /\ SlotSound([x EXCEPT !.pc = "STREAM", !.node = x.node + 1, !.told = 0])
         /\ Position(conversation(x.run), x.question, x.answer, x.node + 1)
<1> DEFINE n == x.node + 1
           y == [x EXCEPT !.pc = "STREAM", !.node = n, !.told = 0]
<1>1. /\ y.pc = "STREAM" /\ y.question = x.question /\ y.node = n /\ y.told = 0
      /\ y.answer = x.answer /\ y.run = x.run /\ y.gen = x.gen /\ y.resume = x.resume
  BY DEF Execution
<1>2. /\ x.gen \in 1 .. generation[x.run] /\ log[x.run] # <<>> /\ FirstAsks(x)
      /\ Position(conversation(x.run), x.question, x.answer, x.node) /\ Midway(x)
  BY DEF Known, SlotSound, StartedPc, LoadedPc, Turn
<1>3. x.node \in DOMAIN Path /\ Answered(x.question, x.answer, n) /\ Heard(x.question, x.node)
  BY <1>2 DEF Midway
<1>4. n \in 1 .. Len(Path) + 1 /\ \A i \in DOMAIN Path : i < n => i < x.node \/ i = x.node
  BY <1>3, PathShape
<1> HIDE DEF n
<1>5. Position(conversation(x.run), x.question, x.answer, n)
  BY <1>2, <1>3, <1>4 DEF Position
<1> HIDE DEF y
<1>6. Turn(y)
  BY <1>1, <1>5 DEF Turn, Midway
<1>7. SlotSound(y)
  BY <1>1, <1>2, <1>6 DEF SlotSound, FirstAsks, LoadedPc
<1> QED BY <1>5, <1>7 DEF y, n

\* The event goes into the log of the run that the slot executes.  When that is
\* not the run whose question it holds, the latter is not owed anything.
LEMMA NextIsHeard ==
  ASSUME SystemInv, TypeOK', Onward, NEW x \in Execution, Known(x), SlotSound(x),
         x.pc \in {"EMIT", "FALLBACK"},
         AppendBounded(x.run, EventsOf(Path[x.node])[x.told + 1])
  PROVE  Owed(x.question)' =>
           \A j \in 1 .. x.told + 1 : HeardEvent(x.question, EventsOf(Path[x.node])[j])'
<1> DEFINE e == EventsOf(Path[x.node])[x.told + 1]
<1>a. TypeOK /\ ChainInv
  BY DEF SystemInv, RuntimeInv
<1>1. /\ x.run \in RunId /\ x.gen \in 1 .. generation[x.run] /\ x.told \in Nat
      /\ Position(conversation(x.run), x.question, x.answer, x.node) /\ Midway(x)
  BY DEF Known, SlotSound, LoadedPc, Turn, Execution
<1>2. /\ x.question \in RunId /\ generation[x.question] > 0
      /\ conversation(x.question) = conversation(x.run) /\ HeardSome(x)
  BY <1>1 DEF Position, Asked, Midway
<1>3. generation[x.run] > 0
  BY <1>1, <1>a DEF TypeOK
<1> HIDE DEF e
<1>4. AppendProgress(x.run, e) /\ e \in EventName /\ IsOpen(x.run)
  BY <1>1, BoundedAppendIs DEF e
<1>5. HeardEvent(x.run, e)'
  <2>1. log'[x.run] = Append(log[x.run], e) /\ log[x.run] \in Seq(EventName)
    BY <1>1, <1>4, <1>a DEF AppendProgress, TypeOK
  <2>2. /\ Len(log[x.run]) + 1 \in DOMAIN log'[x.run]
        /\ log'[x.run][Len(log[x.run]) + 1] = e
    BY <1>4, <2>1, AppendProperties
  <2> QED BY <2>2 DEF HeardEvent
<1> SUFFICES ASSUME Owed(x.question)', NEW j \in 1 .. x.told + 1
             PROVE  HeardEvent(x.question, EventsOf(Path[x.node])[j])'
  OBVIOUS
<1>6. Owed(x.question)
  BY <1>2, <1>a, OwedStays
<1>7. CASE j \in 1 .. x.told
  <2> DEFINE d == EventsOf(Path[x.node])[j]
  <2>1. HeardEvent(x.question, d)
    BY <1>2, <1>6, <1>7 DEF HeardSome
  <2> HIDE DEF d
  <2>2. HeardEvent(x.question, d)'
    BY <1>2, <1>a, <2>1, HeardStays DEF Onward
  <2> QED BY <2>2 DEF d
<1>8. CASE j = x.told + 1
  <2>1. x.question = x.run
    BY <1>1, <1>2, <1>3, <1>4, <1>6, <1>a, OnlyOneIsOwed
  <2> QED BY <1>5, <1>8, <2>1 DEF e
<1> QED BY <1>1, <1>7, <1>8

LEMMA NextIsPublished ==
  ASSUME SystemInv, TypeOK', Onward, NEW s \in Slot, NEW x, NEW y, x = exec[s], y = exec'[s],
         PublishNext(s)
  PROVE  SlotSound(y)'
<1>a. TypeOK /\ ChainInv /\ x \in Execution /\ Known(x) /\ SlotSound(x) /\ exec \in [Slot -> Execution]
  BY DEF SystemInv, RuntimeInv, TurnInv, SlotsSound, SlotsKnown
<1> DEFINE events == EventsOf(Path[x.node])
           last == x.told + 1 = Len(events)
<1>1. /\ x.pc \in {"EMIT", "FALLBACK"}
      /\ AppendBounded(x.run, events[x.told + 1])
      /\ y = [x EXCEPT !.told = @ + 1,
                       !.pc = IF ~last THEN @
                              ELSE IF @ = "EMIT" THEN "SAVE" ELSE "FALLBACK_COMPLETE"]
  BY <1>a DEF PublishNext, At
<1>2. /\ y.told = x.told + 1 /\ y.question = x.question /\ y.node = x.node
      /\ y.answer = x.answer /\ y.run = x.run /\ y.gen = x.gen /\ y.resume = x.resume
      /\ ~last => y.pc = x.pc
      /\ last => y.pc = IF x.pc = "EMIT" THEN "SAVE" ELSE "FALLBACK_COMPLETE"
  BY <1>1, <1>a DEF Execution
<1>3. /\ x.run \in RunId /\ x.gen \in 1 .. generation[x.run] /\ log[x.run] # <<>>
      /\ FirstAsks(x) /\ x.told \in Nat /\ Turn(x)
  BY <1>1, <1>a DEF Known, SlotSound, StartedPc, LoadedPc, Execution
<1>4. Position(conversation(x.run), x.question, x.answer, x.node) /\ Midway(x)
  BY <1>1, <1>3 DEF Turn, LoadedPc
<1>5. generation[x.run] \in Nat /\ generation'[x.run] \in Nat /\ Grows(x.run) /\ generation[x.run] > 0
  BY <1>3, <1>a DEF TypeOK, Onward
<1>6. x.gen \in 1 .. generation'[x.run] /\ log'[x.run] # <<>> /\ FirstAsks(y)'
  <2>1. log'[x.run] # <<>>
    BY <1>3, <1>5, <1>a, EventsStay
  <2>2. x.gen \in 1 .. generation'[x.run]
    BY <1>3, <1>5 DEF Grows
  <2>3. FirstAsks(y)'
    BY <1>1, <1>2, <1>3 DEF FirstAsks, LoadedPc, Onward
  <2> QED BY <2>1, <2>2, <2>3
<1>7. Position(conversation(x.run), x.question, x.answer, x.node)'
  <2>1. Turn(x)'
    BY <1>a, <1>3, <1>5, TurnStays
  <2> QED BY <1>1, <2>1 DEF Turn, LoadedPc
<1>8. Owed(x.question)' => \A j \in 1 .. x.told + 1 : HeardEvent(x.question, events[j])'
  BY <1>1, <1>a, NextIsHeard
<1>9. x.told < Len(events) /\ Len(events) \in Nat
  BY <1>1, <1>4, NodeEvents, LenProperties DEF Midway
<1>10. Midway(y)'
  <2>1. CASE ~last
    <3>1. y.pc \in {"EMIT", "FALLBACK"} /\ y.told < Len(events)
      BY <1>1, <1>2, <1>3, <1>9, <2>1
    <3>2. HeardSome(y)'
      BY <1>2, <1>8 DEF HeardSome
    <3> QED BY <1>1, <1>2, <1>4, <2>1, <3>1, <3>2 DEF Midway, Answered
  <2>2. CASE last
    <3>1. Heard(x.question, x.node)'
      <4>1. DOMAIN events = 1 .. Len(events)
        BY NodeEvents, LenProperties
      <4> QED BY <1>8, <2>2, <4>1 DEF Heard, Published, HeardEvent
    <3>2. y.pc = IF x.pc = "EMIT" THEN "SAVE" ELSE "FALLBACK_COMPLETE"
      BY <1>2, <2>2
    <3> HIDE DEF last, events
    <3> QED BY <1>1, <1>2, <1>4, <3>1, <3>2 DEF Midway, Answered, Heard
  <2> QED BY <2>1, <2>2
<1>11. y.pc \in LoadedPc
  BY <1>1, <1>2 DEF LoadedPc
<1>12. Turn(y)'
  BY <1>2, <1>7, <1>10 DEF Turn, Position, Asked, Answered, Heard, conversation
<1> QED BY <1>2, <1>6, <1>11, <1>12 DEF SlotSound

LEMMA StartedIsPublished ==
  ASSUME SystemInv, TypeOK', Onward, NEW s \in Slot, NEW x, NEW y, x = exec[s], y = exec'[s],
         PublishStarted(s)
  PROVE  SlotSound(y)'
<1>a. TypeOK /\ x \in Execution /\ Known(x) /\ SlotSound(x) /\ exec \in [Slot -> Execution]
  BY DEF SystemInv, RuntimeInv, TurnInv, SlotsSound, SlotsKnown
<1>1. /\ x.pc \in {"START", "FAIL_START", "CANCEL_START"}
      /\ AppendBounded(x.run, "run.started")
      /\ y = [x EXCEPT !.pc = AfterStarted[x.pc]]
  BY <1>a DEF PublishStarted, At, AfterStarted, Goto
<1>2. AfterStarted[x.pc] \in {"LOAD", "FAIL_END", "CANCEL_END"}
  BY <1>1 DEF AfterStarted
<1>3. /\ y.pc \in {"LOAD", "FAIL_END", "CANCEL_END"}
      /\ y.run = x.run /\ y.gen = x.gen /\ y.resume = x.resume /\ y.told = x.told
  BY <1>1, <1>2, <1>a DEF Execution
<1>4. x.run \in RunId /\ x.gen \in 1 .. generation[x.run] /\ FirstAsks(x) /\ x.told = 0
  BY <1>1, <1>a DEF Known, SlotSound, LoadedPc
<1>5. generation[x.run] \in Nat /\ generation'[x.run] \in Nat /\ Grows(x.run)
  BY <1>4, <1>a DEF TypeOK, Onward
<1>6. x.gen \in 1 .. generation'[x.run]
  BY <1>4, <1>5 DEF Grows
<1>7. log'[x.run] # <<>>
  <2>1. AppendProgress(x.run, "run.started") /\ "run.started" \in EventName
    BY <1>1, <1>4, BoundedAppendIs
  <2>2. log'[x.run] = Append(log[x.run], "run.started") /\ log[x.run] \in Seq(EventName)
    BY <1>4, <1>a, <2>1 DEF AppendProgress, TypeOK
  <2> QED BY <2>1, <2>2, AppendProperties
<1>8. FirstAsks(y)'
  BY <1>3, <1>4 DEF FirstAsks, LoadedPc, Onward
<1> QED BY <1>3, <1>4, <1>6, <1>7, <1>8 DEF SlotSound, Turn, LoadedPc

\* The first claim of a run finds it without events, unless somebody cancels it.
LEMMA ClaimedIsSound ==
  ASSUME SystemInv, TypeOK', Onward, NEW s \in Slot, NEW y, y = exec'[s], ClaimRun(s)
  PROVE  SlotSound(y)'
<1>a. TypeOK /\ exec \in [Slot -> Execution] /\ \A r \in RunId : RunSound(r)
  BY DEF SystemInv, RuntimeInv, SlotsKnown, TurnInv
<1> PICK r \in RunId : /\ Claim(ProcessOf[s], r)
                       /\ exec' = [exec EXCEPT ![s] = [NoExecution EXCEPT
                            !.pc = "CLAIMED", !.run = r, !.gen = generation'[r],
                            !.resume = ResumesOnClaim(r)]]
  BY DEF ClaimRun
<1>1. /\ y.pc = "CLAIMED" /\ y.run = r /\ y.gen = generation'[r]
      /\ y.resume = (log[r] # <<>>) /\ y.told = 0
  BY <1>a DEF NoExecution, ResumesOnClaim
<1>2. generation'[r] = generation[r] + 1 /\ generation[r] \in Nat /\ IsOpen(r)
  BY <1>a DEF Claim, Claimable, TypeOK
<1>3. y.gen \in 1 .. generation'[r]
  BY <1>1, <1>2
<1>4. FirstAsks(y)'
  <2> SUFFICES ASSUME y.gen = 1, Kept(r)' PROVE ~y.resume
    BY <1>1 DEF FirstAsks, LoadedPc
  <2>1. generation[r] = 0 /\ Kept(r) /\ ~IsTerminal(r)
    BY <1>1, <1>2 DEF Onward, IsOpen, IsTerminal, OpenStatus, TERMINAL_STATUSES
  <2>2. log[r] = <<>>
    BY <1>a, <2>1 DEF RunSound
  <2> QED BY <1>1, <2>2
<1> QED BY <1>1, <1>3, <1>4 DEF SlotSound, Turn, StartedPc, LoadedPc

LEMMA SlotTurnStep ==
  ASSUME SystemInv, TypeOK', SlotsKnown', Onward, NEW s \in Slot, SlotStep(s)
  PROVE  SlotsSound'
<1> PICK x : x = exec[s]
  OBVIOUS
<1>a. /\ TypeOK /\ exec \in [Slot -> Execution] /\ x \in Execution /\ Known(x) /\ SlotSound(x)
      /\ checkpoint \in [Conversation -> Checkpoint] /\ CheckpointsSound
  BY DEF SystemInv, RuntimeInv, TurnInv, SlotsSound, SlotsKnown, OthersKnown
<1>b. ASSUME NEW y, exec' = [exec EXCEPT ![s] = y], SlotSound(y) \/ SlotSound(y)'
      PROVE  SlotsSound'
  BY <1>b, SlotChanges
<1> USE DEF At, Awaited
<1>1. CASE BeginExecution(s)
  <2> DEFINE y == [x EXCEPT !.pc = "CREATED", !.renewing = TRUE]
  <2>1. exec' = [exec EXCEPT ![s] = y] /\ x.pc = "CLAIMED"
    BY <1>1, <1>a DEF BeginExecution
  <2>2. SlotSound(y)
    BY <2>1, <1>a DEF SlotSound, FirstAsks, StartedPc, LoadedPc, Turn, Execution
  <2> HIDE DEF y
  <2> QED BY <2>1, <2>2, <1>b
<1>2. CASE ReturnClaim(s) \/ NeverRuns(s)
  BY <1>2, EndedIsSound DEF ReturnClaim, NeverRuns
<1>3. ASSUME NEW pc, x.pc \in {"CREATED", "PREPARE", "FAIL", "CANCEL"}, pc \notin LoadedPc,
             pc \in StartedPc => log[x.run] # <<>>, Goto(s, pc)
      PROVE  SlotsSound'
  <2> DEFINE y == [x EXCEPT !.pc = pc]
  <2>1. exec' = [exec EXCEPT ![s] = y]
    BY <1>3, <1>a DEF Goto
  <2>2. /\ y.pc = pc /\ y.run = x.run /\ y.gen = x.gen /\ y.resume = x.resume
        /\ y.told = x.told
    BY <1>a DEF Execution
  <2> HIDE DEF y
  <2>3. x.gen \in 1 .. generation[x.run] /\ FirstAsks(x) /\ x.told = 0
    BY <1>3, <1>a DEF SlotSound, LoadedPc
  <2>4. SlotSound(y)
    BY <2>2, <2>3, <1>3 DEF SlotSound, FirstAsks, Turn
  <2> QED BY <2>1, <2>4, <1>b
<1>4. CASE FirstStep(s)
  <2>1. x.pc = "CREATED" /\ Goto(s, "PREPARE") /\ "PREPARE" \notin StartedPc
    BY <1>4 DEF FirstStep, StartedPc, LoadedPc
  <2> QED BY <1>3, <2>1 DEF StartedPc
<1>5. CASE ReadSequence(s)
  <2>1. /\ x.pc \in {"PREPARE", "FAIL", "CANCEL"}
        /\ Goto(s, IF log[x.run] = <<>> THEN IfEmpty[x.pc] ELSE IfStarted[x.pc])
    BY <1>5 DEF ReadSequence
  <2>2. IfEmpty[x.pc] \notin StartedPc /\ IfStarted[x.pc] \in StartedPc \ LoadedPc
    BY <2>1 DEF IfEmpty, IfStarted, StartedPc, LoadedPc
  <2> DEFINE pc == IF log[x.run] = <<>> THEN IfEmpty[x.pc] ELSE IfStarted[x.pc]
  <2>3. pc \notin LoadedPc /\ (pc \in StartedPc => log[x.run] # <<>>) /\ Goto(s, pc)
    BY <2>1, <2>2 DEF StartedPc
  <2> HIDE DEF pc
  <2> QED BY <1>3, <2>1, <2>3
<1>6. CASE FindsItTerminal(s) \/ CompleteRun(s) \/ PublishFailed(s) \/ PublishCancelled(s)
           \/ ReleaseRun(s)
  BY <1>6, EndedIsSound DEF FindsItTerminal, CompleteRun, PublishFailed, PublishCancelled,
                            ReleaseRun, Done
<1>7. CASE PublishStarted(s)
  <2> PICK y : y = exec'[s]
    OBVIOUS
  <2>1. SlotSound(y)'
    BY <1>7, StartedIsPublished
  <2>2. exec' = [exec EXCEPT ![s] = y]
    BY <1>7, <1>a DEF PublishStarted, Goto
  <2> QED BY <1>b, <2>1, <2>2
<1>8. CASE PublishNext(s)
  <2> PICK y : y = exec'[s]
    OBVIOUS
  <2>1. SlotSound(y)'
    BY <1>8, NextIsPublished
  <2>2. exec' = [exec EXCEPT ![s] = y]
    BY <1>8, <1>a DEF PublishNext
  <2> QED BY <1>b, <2>1, <2>2
<1>9. CASE LoadResumed(s)
  <2> PICK k : k = checkpoint[conversation(x.run)]
    OBVIOUS
  <2> DEFINE y == [x EXCEPT !.pc = "STREAM", !.resume = FALSE, !.question = k.question,
                            !.answer = k.answer, !.node = k.node]
  <2>1. x.pc = "LOAD" /\ x.resume /\ k # NoCheckpoint /\ exec' = [exec EXCEPT ![s] = y]
    BY <1>9, <1>a DEF LoadResumed
  <2>2. conversation(x.run) \in Conversation
    BY <2>1, <1>a, ConversationType DEF SystemInv, RuntimeInv, ClaimsCreated, Busy, Known
  <2>3. k \in Checkpoint /\ CheckpointSound(k, conversation(x.run))
    BY <2>2, <1>a DEF CheckpointsSound
  <2>4. SlotSound(y)
    BY <1>a, <2>1, <2>3, LoadedCheckpoint
  <2> HIDE DEF y
  <2> QED BY <1>b, <2>1, <2>4
<1>10. CASE LoadFresh(s)
  <2> DEFINE y == [x EXCEPT !.pc = "STREAM", !.resume = FALSE, !.question = x.run,
                            !.answer = NoRun, !.node = 1]
  <2>1. x.pc = "LOAD" /\ exec' = [exec EXCEPT ![s] = y]
    BY <1>10, <1>a DEF LoadFresh
  <2>2. SlotSound(y)
    BY <1>a, <2>1, LoadedFresh
  <2> HIDE DEF y
  <2> QED BY <1>b, <2>1, <2>2
<1>11. CASE RunNode(s)
  <2> DEFINE y == [x EXCEPT !.pc = AfterNode(Path[x.node]),
                            !.answer = AnswerAfter(Path[x.node], x)]
  <2>1. x.pc = "STREAM" /\ x.node \in DOMAIN Path /\ exec' = [exec EXCEPT ![s] = y]
    BY <1>11, <1>a DEF RunNode
  <2>2. SlotSound(y)
    BY <1>a, <2>1, NodeIsRun
  <2> HIDE DEF y
  <2> QED BY <1>b, <2>1, <2>2
<1>12. CASE SaveCheckpoint(s)
  <2> DEFINE y == [x EXCEPT !.pc = "STREAM", !.node = x.node + 1, !.told = 0]
  <2>1. x.pc = "SAVE" /\ exec' = [exec EXCEPT ![s] = y]
    BY <1>12, <1>a DEF SaveCheckpoint, Execution
  <2>2. SlotSound(y)
    BY <1>a, <2>1, NodeIsSaved
  <2> HIDE DEF y
  <2> QED BY <1>b, <2>1, <2>2
<1>13. CASE EndStream(s)
  <2> DEFINE y == [x EXCEPT !.pc = "COMPLETE"]
  <2>1. x.pc = "STREAM" /\ x.node \notin DOMAIN Path /\ exec' = [exec EXCEPT ![s] = y]
    BY <1>13, <1>a DEF EndStream, Goto
  <2>2. SlotSound(y)
    BY <1>a, <2>1, StreamIsOver
  <2> HIDE DEF y
  <2> QED BY <1>b, <2>1, <2>2
<1>14. CASE AnswerFallsBack(s)
  <2> DEFINE y == [x EXCEPT !.pc = "FALLBACK", !.answer = x.question]
  <2>1. /\ x.pc = "STREAM" /\ x.node \in DOMAIN Path /\ Path[x.node] = "compose_answer"
        /\ exec' = [exec EXCEPT ![s] = y]
    BY <1>14, <1>a DEF AnswerFallsBack
  <2>2. SlotSound(y)
    BY <1>a, <2>1, FallbackIsReached
  <2> HIDE DEF y
  <2> QED BY <1>b, <2>1, <2>2
<1>15. CASE ExecutionFails(s)
  <2>1. Handle(s, "FAIL") /\ x.pc \notin {"IDLE", "ENDED"}
    BY <1>15 DEF ExecutionFails, AwaitPc
  <2> QED BY <2>1, HandledIsSound
<1>16. CASE StoreRefuses(s)
  <2>1. Raise(s) /\ x.pc \notin {"IDLE", "ENDED"}
    BY <1>16 DEF StoreRefuses, AfterStarted
  <2> QED BY <2>1, RaisedIsSound
<1>17. CASE Interrupted(s)
  <2>1. x.pc \notin {"IDLE", "ENDED"} /\ (Done(s) \/ Handle(s, "RELEASE") \/ Handle(s, "CANCEL"))
    BY <1>17 DEF Interrupted, AwaitPc
  <2> QED BY <2>1, HandledIsSound, EndedIsSound DEF Done
<1> QED
  BY <1>1, <1>2, <1>4, <1>5, <1>6, <1>7, <1>8, <1>9, <1>10, <1>11, <1>12, <1>13, <1>14,
     <1>15, <1>16, <1>17 DEF SlotStep

LEMMA SlotsTurnStep ==
  ASSUME SystemInv, TypeOK', SlotsKnown', Onward, [RuntimeNext]_allVars
  PROVE  SlotsSound'
<1>a. exec \in [Slot -> Execution]
  BY DEF SystemInv, RuntimeInv, SlotsKnown
<1>s. ASSUME \A t \in Slot : \/ exec'[t].pc \in {"IDLE", "ENDED"}
                             \/ SameTurn(exec[t], exec'[t])
      PROVE  SlotsSound'
  BY <1>s, SlotsChange
<1>0. ASSUME exec' = exec PROVE SlotsSound'
  BY <1>0, <1>s DEF SameTurn
<1>1. ASSUME NEW s \in Slot, SlotStep(s) PROVE SlotsSound'
  BY <1>1, SlotTurnStep
<1>2. ASSUME NEW s \in Slot, ClaimRun(s) PROVE SlotsSound'
  <2> PICK y : y = exec'[s]
    OBVIOUS
  <2>1. SlotSound(y)'
    BY <1>2, ClaimedIsSound
  <2>2. exec' = [exec EXCEPT ![s] = y]
    BY <1>2, <1>a DEF ClaimRun
  <2> QED BY <2>1, <2>2, SlotChanges
<1>3. ASSUME NEW s \in Slot, LoseLease(s) \/ RenewalDies(s) PROVE SlotsSound'
  <2>1. \A t \in Slot : SameTurn(exec[t], exec'[t])
    BY <1>3, <1>a DEF LoseLease, RenewalDies, SameTurn, Execution
  <2> QED BY <1>s, <2>1
<1>4. ASSUME NEW s \in Slot, DatabaseFails(s) PROVE SlotsSound'
  <2>1. Raise(s) /\ exec[s].pc \notin {"IDLE", "ENDED"}
    BY <1>4 DEF DatabaseFails, At, RunningPc
  <2> QED BY <2>1, RaisedIsSound
<1>5. ASSUME NEW s \in Slot, exec' = [exec EXCEPT ![s].interrupted = TRUE] PROVE SlotsSound'
  <2>1. \A t \in Slot : SameTurn(exec[t], exec'[t])
    BY <1>5, <1>a DEF SameTurn, Execution
  <2> QED BY <1>s, <2>1
<1>6. ASSUME NEW s \in Slot, StopLoop(s) PROVE SlotsSound'
  BY <1>5, <1>6, EndedIsSound DEF StopLoop
<1>7. ASSUME NEW p \in Worker, NEW r \in RunId, CancelHere(p, r) PROVE SlotsSound'
  <2>1. tasks[p][r] \in Slot
    BY <1>7 DEF CancelHere, SystemInv, RuntimeInv, OthersKnown
  <2> QED BY <1>5, <1>7, <2>1 DEF CancelHere
<1>8. ASSUME NEW p \in Worker, Stop(p) PROVE SlotsSound'
  <2>1. NoExecution.pc = "IDLE"
    BY DEF NoExecution
  <2>2. \A t \in Slot : exec'[t].pc \in {"IDLE", "ENDED"} \/ exec'[t] = exec[t]
    BY <1>8, <2>1 DEF Stop
  <2> QED BY <1>s, <2>2 DEF SameTurn
<1>9. ASSUME NEW p \in Worker, GraceEnds(p) PROVE SlotsSound'
  <2>1. exec' = [s \in Slot |-> [exec[s] EXCEPT !.interrupted = @ \/ s \in Unfinished(p)]]
    BY <1>9 DEF GraceEnds
  <2>2. \A t \in Slot : SameTurn(exec[t], exec'[t])
    BY <2>1, <1>a DEF SameTurn, Execution
  <2> QED BY <1>s, <2>2
<1>11. ASSUME NEW m \in Message, Submit(m) PROVE exec' = exec
  BY <1>11 DEF Submit, loopVars
<1>12. ASSUME NEW r \in RunId,
              \/ RefuseQuota(r) \/ LeaseTimesOut(r) \/ LeaseStalls(r)
              \/ CancelElsewhere(r) \/ CancelStart(r) \/ CancelEnd(r)
       PROVE  exec' = exec
  BY <1>12 DEF RefuseQuota, LeaseTimesOut, LeaseStalls, CancelElsewhere, CancelStart,
               CancelEnd, loopVars, runtimeVars
<1>13. ASSUME NEW p \in Worker, Shutdown(p) \/ Restart(p) PROVE exec' = exec
  BY <1>13 DEF Shutdown, Restart
<1>14. ASSUME NEW s \in Slot, RenewLease(s) PROVE exec' = exec
  BY <1>14 DEF RenewLease, runtimeVars, loopVars
<1>15. ASSUME UNCHANGED allVars PROVE exec' = exec
  BY <1>15 DEF allVars, runtimeVars, loopVars
<1>16. ASSUME NEW p \in Worker, Crash(p) \/ Exit(p) PROVE Stop(p)
  BY <1>16 DEF Crash, Exit
<1> QED
  BY <1>0, <1>1, <1>2, <1>3, <1>4, <1>6, <1>7, <1>8, <1>9, <1>11, <1>12, <1>13, <1>14,
     <1>15, <1>16 DEF RuntimeNext

\* Only the start of a turn and the end of a node write the checkpoint.
LEMMA OnlyTheseCheckpoint ==
  ASSUME [RuntimeNext]_allVars, ~ \E s \in Slot : LoadFresh(s) \/ SaveCheckpoint(s)
  PROVE  checkpoint' = checkpoint
<1>1. ASSUME NEW m \in Message, Submit(m) PROVE checkpoint' = checkpoint
  BY <1>1 DEF Submit
<1>2. ASSUME NEW s \in Slot, SlotStep(s) PROVE checkpoint' = checkpoint
  BY <1>2 DEF SlotStep, BeginExecution, ReturnClaim, FirstStep, NeverRuns, ReadSequence,
       FindsItTerminal, PublishStarted, LoadResumed, RunNode, PublishNext, EndStream,
       AnswerFallsBack, ExecutionFails, CompleteRun, PublishFailed, PublishCancelled,
       ReleaseRun, StoreRefuses, Interrupted
<1>3. ASSUME NEW s \in Slot,
             \/ ClaimRun(s) \/ RenewLease(s) \/ LoseLease(s)
             \/ RenewalDies(s) \/ DatabaseFails(s) \/ StopLoop(s)
      PROVE  checkpoint' = checkpoint
  BY <1>3 DEF ClaimRun, RenewLease, LoseLease, RenewalDies, DatabaseFails, StopLoop, runtimeVars
<1>4. ASSUME NEW r \in RunId,
             \/ RefuseQuota(r) \/ LeaseTimesOut(r) \/ LeaseStalls(r)
             \/ CancelElsewhere(r) \/ CancelStart(r) \/ CancelEnd(r)
      PROVE  checkpoint' = checkpoint
  BY <1>4 DEF RefuseQuota, LeaseTimesOut, LeaseStalls, CancelElsewhere, CancelStart, CancelEnd,
              runtimeVars
<1>5. ASSUME NEW p \in Worker,
             \/ \E r \in RunId : CancelHere(p, r)
             \/ Crash(p) \/ Shutdown(p) \/ GraceEnds(p) \/ Exit(p) \/ Restart(p)
      PROVE  checkpoint' = checkpoint
  BY <1>5 DEF CancelHere, Crash, Shutdown, GraceEnds, Exit, Restart
<1>6. CASE UNCHANGED allVars
  BY <1>6 DEF allVars, runtimeVars
<1> QED BY <1>1, <1>2, <1>3, <1>4, <1>5, <1>6 DEF RuntimeNext

LEMMA CheckpointStays ==
  ASSUME SystemInv, TypeOK', Onward, NEW c \in Conversation, NEW k, CheckpointSound(k, c)
  PROVE  CheckpointSound(k, c)'
BY PositionStays DEF CheckpointSound, SystemInv, RuntimeInv

LEMMA CheckpointsTurnStep ==
  ASSUME SystemInv, TypeOK', Onward, [RuntimeNext]_allVars
  PROVE  CheckpointsSound'
<1>a. /\ TypeOK /\ exec \in [Slot -> Execution] /\ CheckpointsSound
      /\ checkpoint \in [Conversation -> Checkpoint]
      /\ \A s \in Slot : Known(exec[s]) /\ SlotSound(exec[s])
  BY DEF SystemInv, RuntimeInv, TurnInv, SlotsSound, SlotsKnown, OthersKnown
<1> SUFFICES ASSUME NEW c \in Conversation, NEW k, k = checkpoint'[c]
             PROVE  CheckpointSound(k, c)'
  BY DEF CheckpointsSound
<1>1. CASE k = checkpoint[c]
  <2>1. CheckpointSound(k, c)
    BY <1>1, <1>a DEF CheckpointsSound
  <2> QED BY <2>1, CheckpointStays
<1>2. ASSUME NEW s \in Slot, NEW x, x = exec[s], LoadFresh(s), k # checkpoint[c]
      PROVE  CheckpointSound(k, c)'
  <2>1. /\ x.pc = "LOAD" /\ x \in Execution /\ Known(x) /\ SlotSound(x)
        /\ \E a : checkpoint' = [checkpoint EXCEPT ![conversation(x.run)] =
                                   [question |-> x.run, answer |-> a, node |-> 1]]
    BY <1>2, <1>a DEF LoadFresh, Awaited, At
  <2>2. PICK a : c = conversation(x.run) /\ k = [question |-> x.run, answer |-> a, node |-> 1]
    BY <1>2, <1>a, <2>1
  <2>3. Position(c, x.run, a, 1)
    BY <2>1, <2>2, LoadedFresh
  <2>4. CheckpointSound(k, c)
    BY <2>2, <2>3 DEF CheckpointSound
  <2> QED BY <2>4, CheckpointStays
<1>3. ASSUME NEW s \in Slot, NEW x, x = exec[s], SaveCheckpoint(s), k # checkpoint[c]
      PROVE  CheckpointSound(k, c)'
  <2>1. /\ x.pc = "SAVE" /\ x \in Execution /\ Known(x) /\ SlotSound(x)
        /\ checkpoint' = [checkpoint EXCEPT ![conversation(x.run)] =
             [question |-> x.question, answer |-> x.answer, node |-> x.node + 1]]
    BY <1>3, <1>a DEF SaveCheckpoint, Awaited, At
  <2>2. /\ c = conversation(x.run)
        /\ k = [question |-> x.question, answer |-> x.answer, node |-> x.node + 1]
    BY <1>3, <1>a, <2>1
  <2>3. Position(c, x.question, x.answer, x.node + 1)
    BY <2>1, <2>2, NodeIsSaved
  <2>4. CheckpointSound(k, c)
    BY <2>2, <2>3 DEF CheckpointSound
  <2> QED BY <2>4, CheckpointStays
<1> QED BY <1>1, <1>2, <1>3, OnlyTheseCheckpoint

LEMMA TurnInit == RuntimeInit => TurnInv
<1> SUFFICES ASSUME RuntimeInit PROVE TurnInv
  OBVIOUS
<1>1. SlotsSound
  <2>1. NoExecution.pc = "IDLE"
    BY DEF NoExecution
  <2> QED BY <2>1 DEF RuntimeInit, SlotsSound, SlotSound
<1>2. CheckpointsSound
  BY DEF RuntimeInit, CheckpointsSound, CheckpointSound
<1>3. \A r \in RunId : RunSound(r)
  BY DEF RuntimeInit, Init, RunSound, Opened
<1> QED BY <1>1, <1>2, <1>3 DEF TurnInv

LEMMA TurnStep ==
  ASSUME SystemInv, RuntimeInv', [RuntimeNext]_allVars
  PROVE  TurnInv'
<1>1. TypeOK' /\ SlotsKnown'
  BY DEF RuntimeInv
<1>2. Onward
  BY OnwardStep
<1>3. \A r \in RunId : RunSound(r)'
  <2>1. CASE \E s \in Slot : CompleteRun(s)
    BY <2>1, <1>1, <1>2, CompletedRunIsSound
  <2>2. CASE ~ \E s \in Slot : CompleteRun(s)
    BY <2>2, <1>1, <1>2, RunsStep, RunSoundStays DEF SystemInv, RuntimeInv, TurnInv
  <2> QED BY <2>1, <2>2
<1> QED BY <1>1, <1>2, <1>3, SlotsTurnStep, CheckpointsTurnStep DEF TurnInv

LEMMA SystemInvAlways == RuntimeSpec => []SystemInv
<1>1. RuntimeSpec => [](TypeOK /\ RowKeys /\ ChainInv)
  BY RuntimeRefinesStore, ChainAlways, PTL DEF UsesStoreAsSpecified
<1>2. RuntimeInv /\ ChainInv /\ TurnInv /\ RuntimeInv' /\ [RuntimeNext]_allVars => TurnInv'
  BY TurnStep DEF SystemInv
<1>3. RuntimeSpec => []TurnInv
  BY <1>1, <1>2, TurnInit, RuntimeInvAlways, PTL DEF RuntimeSpec
<1>4. RuntimeInv /\ ChainInv /\ TurnInv => SystemInv
  BY DEF SystemInv
<1> QED BY <1>1, <1>3, <1>4, RuntimeInvAlways, PTL

\* Whichever slots, processes and users act on a run, its log opens with
\* run.started: the only other log is the one run.failed of a refused quota.
THEOREM StartedComesFirst == RuntimeSpec => []OnlyRefusedRunsSkipStarted
<1>1. SystemInv => OnlyRefusedRunsSkipStarted
  BY DEF SystemInv, TurnInv, RunSound, Opened, OnlyRefusedRunsSkipStarted
<1> QED BY <1>1, SystemInvAlways, PTL

\* A run whose first execution gets through answers its own question, whatever
\* other runs, zombies included, leave in the checkpoint they share.
THEOREM FirstExecutionAnswers == RuntimeSpec => []FirstExecutionAnswersItsQuestion
<1>1. SystemInv => FirstExecutionAnswersItsQuestion
  BY DEF SystemInv, TurnInv, RunSound, Kept, FirstExecutionAnswersItsQuestion
<1> QED BY <1>1, SystemInvAlways, PTL

\* A run that commits its own answer has told the client every step on its path,
\* over any number of crashes, handovers and zombies, as long as no run of the
\* conversation ended unclaimed.
THEOREM CommittedRunsToldAll == RuntimeSpec => []CommittedRunToldItsSteps
<1>1. SystemInv => CommittedRunToldItsSteps
  BY DEF SystemInv, TurnInv, RunSound, CommittedRunToldItsSteps
<1> QED BY <1>1, SystemInvAlways, PTL

=============================================================================
