-------------------------------- MODULE Quota --------------------------------
(***************************************************************************)
(* The quota of one tenant, src/app/agent/quota.py: one quota service and  *)
(* the processes that call it.  The runtime calls reserve in start_run     *)
(* after the run was created, mark_active when an execution begins, settle *)
(* or release in its finally block.  Each call is one step: under a lock   *)
(* with "LOCAL", one Lua script with "REDIS".                              *)
(*                                                                         *)
(* With "REDIS" all processes call the service.  With "LOCAL" only the     *)
(* process that holds it does: a run may be created by another process, or *)
(* executed by one (the API and its worker are two), whose calls go to a   *)
(* service of their own and are not seen here.                             *)
(*                                                                         *)
(* Redis keys expire, the two counters a day after they were last raised,  *)
(* a reservation two days after it was made.  The clock counts days, and a *)
(* key may expire at any time of its last day.  Tokens are summed up by    *)
(* day, under keys that outlive it.  Tenants do not meet.  Request rates   *)
(* and the cost budget are left out: a refusal for the rate leaves the     *)
(* counters alone, as any refusal does.                                    *)
(***************************************************************************)
EXTENDS Integers, FiniteSets

CONSTANTS
  Run,
  Execution,    \* places where a run may be executed
  QueueLimit,   \* agent_tenant_queue_runs
  ActiveLimit,  \* agent_tenant_active_runs
  RunTokens,    \* agent_run_max_tokens
  DailyTokens,  \* agent_tenant_daily_tokens
  Spent,        \* tokens a run may turn out to have used
  LastDay,      \* bound: day changes
  MaxRetries,   \* bound: executions of runs that had one before
  NoRun

ASSUME QuotaAssumption ==
  /\ QueueLimit \in Nat /\ ActiveLimit \in Nat /\ RunTokens \in Nat /\ DailyTokens \in Nat
  /\ Spent \subseteq Nat
  /\ LastDay \in Nat /\ MaxRetries \in Nat
  /\ NoRun \notin Run

VARIABLES
  backend,      \* "LOCAL" or "REDIS": whether agent_redis_url is set
  day,
  queued, active,    \* counters
  reserved, used,    \* tokens, of the present day
  reservation,  \* of each run; NoReservation if there is none
  renewed,      \* the day on which the Redis key of a counter was last given a day more
  phase,        \* of each run in the store
  admission,    \* how far start_run is with it
  exec,         \* what each place in the processes that call this service executes
  claimed,      \* runs that have had an execution there
  retries,      \* executions of runs that had one before, so far
  slipped,      \* history: runs whose reservation came after an execution, or
                \* that had an execution without the call that ends it
  drift         \* history: by how much the expiry of keys may have moved a counter

counters == <<queued, active, reserved, used, reservation, renewed>>
quotaVars ==
  <<backend, day, counters, phase, admission, exec, claimed, retries, slipped, drift>>

Day == 0 .. LastDay
Never == -1

\* made: the day on which its time to live began; Never, if it has none.
NoReservation == [held |-> FALSE, active |-> FALSE, tokens |-> 0, made |-> Never]
NoExecution == [pc |-> "IDLE", run |-> NoRun, call |-> "NONE"]

Held == {r \in Run : reservation[r].held}
Waiting == {r \in Held : ~reservation[r].active}
Counted == {r \in Held : reservation[r].active}

TakeAway(n, k) == n - k                            \* mutation of Remove

Remove(n, k) == IF k <= n THEN n - k ELSE 0        \* max(0, n - k)

QuotaInit ==
  /\ backend \in {"LOCAL", "REDIS"}
  /\ day = 0
  /\ queued = 0 /\ active = 0
  /\ reserved = 0 /\ used = 0
  /\ reservation = [r \in Run |-> NoReservation]
  /\ renewed = [queued |-> 0, active |-> 0]
  /\ phase = [r \in Run |-> "NONE"]
  /\ admission = [r \in Run |-> "NONE"]
  /\ exec = [e \in Execution |-> NoExecution]
  /\ claimed = {} /\ retries = 0
  /\ slipped = {}
  /\ drift = [queued |-> 0, active |-> 0, forgotten |-> 0]

-----------------------------------------------------------------------------
(* reserve *)

QuotaAllows ==
  /\ queued < QueueLimit
  /\ used + reserved + RunTokens <= DailyTokens

Renew(counter) ==
  renewed' = IF backend = "REDIS" THEN [renewed EXCEPT ![counter] = day] ELSE renewed

reserve(r) ==
  /\ ~reservation[r].held
  /\ reservation' =
       [reservation EXCEPT
          ![r] = [held |-> TRUE, active |-> FALSE, tokens |-> RunTokens, made |-> day]]
  /\ queued' = queued + 1
  /\ reserved' = reserved + RunTokens
  /\ Renew("queued")
  /\ UNCHANGED <<active, used>>

-----------------------------------------------------------------------------
(* mark_active *)

LocalMarkActive(r) ==
  /\ IF reservation[r].held /\ queued > 0
     THEN queued' = queued - 1 /\ active' = active + 1
     ELSE UNCHANGED <<queued, active>>
  /\ UNCHANGED <<reserved, used, reservation, renewed>>

RedisMayActivate(r) == reservation[r].active \/ active < ActiveLimit

CountAgain(r) == TRUE                               \* mutation of NotYetActive

NotYetActive(r) == ~reservation[r].active

\* HSET makes a reservation where there is none (any more), without tokens and
\* without a time to live; it does not prolong that of an older one.
RedisMarkActive(r) ==
  /\ IF NotYetActive(r)
     THEN /\ reservation' = [reservation EXCEPT ![r].held = TRUE, ![r].active = TRUE]
          /\ queued' = Remove(queued, 1)
          /\ active' = active + 1
          /\ Renew("active")
     ELSE UNCHANGED <<reservation, queued, active, renewed>>
  /\ UNCHANGED <<reserved, used>>

-----------------------------------------------------------------------------
(* settle and release.  Both drop the reservation, from the day it is now.  *)
(* A counter that goes down keeps its time to live.                         *)

ReturnNothing(r) == UNCHANGED reserved              \* mutation of ReturnTokens

ReturnTokens(r) ==
  reserved' = Remove(reserved, reservation[r].tokens)

KeepReservation(r) == UNCHANGED reservation         \* mutation of DropReservation

DropReservation(r) == reservation' = [reservation EXCEPT ![r] = NoReservation]

\* Tokens past the daily limit raise, and are not counted.
LocalSettle(r, n) ==
  /\ DropReservation(r) /\ ReturnTokens(r)
  /\ active' = Remove(active, 1)
  /\ used' = IF used + n <= DailyTokens THEN used + n ELSE used
  /\ UNCHANGED <<queued, renewed>>

\* The run is taken out of both counters.
LocalRelease(r) ==
  /\ DropReservation(r) /\ ReturnTokens(r)
  /\ queued' = Remove(queued, 1)
  /\ active' = Remove(active, 1)
  /\ UNCHANGED <<used, renewed>>

KeepQueued(r) == queued' = queued                   \* mutation of LeaveQueue

LeaveQueue(r) == queued' = IF reservation[r].active THEN queued ELSE Remove(queued, 1)

RedisFinish(r, n) ==
  /\ DropReservation(r) /\ ReturnTokens(r)
  /\ LeaveQueue(r)
  /\ active' = IF reservation[r].active THEN Remove(active, 1) ELSE active
  /\ used' = used + n
  /\ UNCHANGED renewed

Settle(r, n) ==
  CASE ~reservation[r].held -> UNCHANGED counters
    [] reservation[r].held /\ backend = "LOCAL" -> LocalSettle(r, n)
    [] OTHER -> RedisFinish(r, n)

Release(r) ==
  CASE ~reservation[r].held -> UNCHANGED counters
    [] reservation[r].held /\ backend = "LOCAL" -> LocalRelease(r)
    [] OTHER -> RedisFinish(r, 0)

-----------------------------------------------------------------------------
(* The expiry of Redis keys.  A missing counter reads as 0.                 *)

CounterLife == 1        \* EXPIRE 86400
ReservationLife == 2    \* EXPIRE 172800

QueuedIsDue == queued > 0 /\ day >= renewed.queued + CounterLife
ActiveIsDue == active > 0 /\ day >= renewed.active + CounterLife

ReservationIsDue(r) ==
  reservation[r].held /\ reservation[r].made # Never /\ day >= reservation[r].made + ReservationLife

ExpireQueued ==
  /\ backend = "REDIS" /\ QueuedIsDue
  /\ queued' = 0
  /\ drift' = [drift EXCEPT !.queued = 0]
  /\ UNCHANGED <<backend, day, active, reserved, used, reservation, renewed, phase, admission,
                 exec, claimed, retries, slipped>>

\* The reservations marked active now are not counted from here on.
ExpireActive ==
  /\ backend = "REDIS" /\ ActiveIsDue
  /\ active' = 0
  /\ drift' = [drift EXCEPT !.active = 0, !.forgotten = Cardinality(Counted)]
  /\ UNCHANGED <<backend, day, queued, reserved, used, reservation, renewed, phase, admission,
                 exec, claimed, retries, slipped>>

\* A counter that has not expired goes on counting the reservation.
ExpireReservation(r) ==
  /\ backend = "REDIS" /\ ReservationIsDue(r)
  /\ reservation' = [reservation EXCEPT ![r] = NoReservation]
  /\ drift' = IF reservation[r].active
              THEN [drift EXCEPT !.active = IF active > 0 THEN @ + 1 ELSE @]
              ELSE [drift EXCEPT !.queued = IF queued > 0 THEN @ + 1 ELSE @]
  /\ UNCHANGED <<backend, day, queued, active, reserved, used, renewed, phase, admission,
                 exec, claimed, retries, slipped>>

KeysAreDue == QueuedIsDue \/ ActiveIsDue \/ \E r \in Run : ReservationIsDue(r)

-----------------------------------------------------------------------------
(* The runtime.  In the process of a LOCAL service no coroutine runs        *)
(* between the creation of a run and its reservation.                       *)

AdmissionIsOver == \A r \in Run : admission[r] \notin {"RESERVING", "REFUSED"}
MayStep == backend = "LOCAL" => AdmissionIsOver

StartRun(r) ==
  /\ MayStep
  /\ phase[r] = "NONE"
  /\ phase' = [phase EXCEPT ![r] = "OPEN"]
  /\ admission' = [admission EXCEPT ![r] = "RESERVING"]
  /\ UNCHANGED <<backend, day, counters, exec, claimed, retries, slipped, drift>>

\* LOCAL: a run created through another process, whose own service admitted it.
StartElsewhere(r) ==
  /\ backend = "LOCAL"
  /\ phase[r] = "NONE"
  /\ phase' = [phase EXCEPT ![r] = "OPEN"]
  /\ admission' = [admission EXCEPT ![r] = "DONE"]
  /\ UNCHANGED <<backend, day, counters, exec, claimed, retries, slipped, drift>>

\* With Redis a reservation that mark_active made is taken for ours.  A Redis error
\* is no AgentError: the run stays, without a reservation.
Reserve(r) ==
  /\ admission[r] = "RESERVING"
  /\ \/ QuotaAllows /\ reserve(r)
     \/ backend = "REDIS" /\ UNCHANGED counters
  /\ admission' = [admission EXCEPT ![r] = "DONE"]
  /\ slipped' = IF r \in claimed THEN slipped \union {r} ELSE slipped
  /\ UNCHANGED <<backend, day, phase, exec, claimed, retries, drift>>

\* RUN_QUEUE_FULL, TOKEN_QUOTA_EXCEEDED or RATE_LIMITED.
Refuse(r) ==
  /\ admission[r] = "RESERVING"
  /\ ~reservation[r].held
  /\ admission' = [admission EXCEPT ![r] = "REFUSED"]
  /\ UNCHANGED <<backend, day, counters, phase, exec, claimed, retries, slipped, drift>>

EndRun(r) == phase' = [phase EXCEPT ![r] = IF @ = "OPEN" THEN "OVER" ELSE @]

FailRefused(r) ==
  /\ admission[r] = "REFUSED"
  /\ admission' = [admission EXCEPT ![r] = "DONE"]
  /\ EndRun(r)
  /\ UNCHANGED <<backend, day, counters, exec, claimed, retries, slipped, drift>>

\* Nobody releases the reservation of a run that is cancelled in the queue.
CancelRun(r) ==
  /\ MayStep
  /\ phase[r] = "OPEN"
  /\ EndRun(r)
  /\ UNCHANGED <<backend, day, counters, admission, exec, claimed, retries, slipped, drift>>

\* LOCAL: a run cancelled through another process, or executed by one, whose calls
\* of settle and release find nothing in a service of its own.
EndElsewhere(r) ==
  /\ backend = "LOCAL"
  /\ phase[r] = "OPEN"
  /\ EndRun(r)
  /\ UNCHANGED <<backend, day, counters, admission, exec, claimed, retries, slipped, drift>>

\* A second execution of an open run begins when the lease of the first ran out.
Claim(e, r) ==
  /\ exec[e].pc = "IDLE"
  /\ phase[r] = "OPEN"
  /\ r \in claimed => retries < MaxRetries
  /\ claimed' = claimed \union {r}
  /\ retries' = IF r \in claimed THEN retries + 1 ELSE retries
  /\ exec' = [exec EXCEPT ![e] = [NoExecution EXCEPT !.pc = "START", !.run = r]]
  /\ UNCHANGED <<backend, day, counters, phase, admission, slipped, drift>>

\* The execution of a run is gone without the call that ends it.
SlipAway(e) == slipped' = slipped \union {exec[e].run}

\* A task cancelled before its first step runs neither the body nor the finally.
NeverRuns(e) ==
  /\ exec[e].pc = "START"
  /\ exec' = [exec EXCEPT ![e] = NoExecution]
  /\ SlipAway(e)
  /\ UNCHANGED <<backend, day, counters, phase, admission, claimed, retries, drift>>

MarkActive(e) ==
  /\ MayStep
  /\ exec[e].pc = "START"
  /\ IF backend = "LOCAL" THEN LocalMarkActive(exec[e].run)
     ELSE RedisMayActivate(exec[e].run) /\ RedisMarkActive(exec[e].run)
  /\ exec' = [exec EXCEPT ![e].pc = "RUN"]
  /\ UNCHANGED <<backend, day, phase, admission, claimed, retries, slipped, drift>>

\* CONCURRENCY_LIMIT, or a Redis error, fails the run, unless that fails too.
MarkActiveRaises(e) ==
  /\ exec[e].pc = "START"
  /\ backend = "REDIS"
  /\ exec' = [exec EXCEPT ![e].pc = "FINALLY", ![e].call = "RELEASE"]
  /\ EndRun(exec[e].run) \/ UNCHANGED phase
  /\ UNCHANGED <<backend, day, counters, admission, claimed, retries, slipped, drift>>

\* SETTLE if execution_status is SUCCEEDED, else RELEASE.  The run is over, or it
\* goes on: given back, its lease lost, or its end could not be written.  That may
\* happen after execution_status became SUCCEEDED, when the fallback for the answer
\* calls _complete_run.
EndExecution(e) ==
  /\ MayStep
  /\ exec[e].pc = "RUN"
  /\ EndRun(exec[e].run) \/ UNCHANGED phase
  /\ \E call \in {"SETTLE", "RELEASE"} :
       exec' = [exec EXCEPT ![e].pc = "FINALLY", ![e].call = call]
  /\ UNCHANGED <<backend, day, counters, admission, claimed, retries, slipped, drift>>

FinishExecution(e) ==
  /\ MayStep
  /\ exec[e].pc = "FINALLY"
  /\ \/ exec[e].call = "SETTLE" /\ \E n \in Spent : Settle(exec[e].run, n)
     \/ exec[e].call = "RELEASE" /\ Release(exec[e].run)
  /\ exec' = [exec EXCEPT ![e] = NoExecution]
  /\ UNCHANGED <<backend, day, phase, admission, claimed, retries, slipped, drift>>

\* The finally block logs a Redis error and goes on.
FinishRaises(e) ==
  /\ exec[e].pc = "FINALLY"
  /\ backend = "REDIS"
  /\ exec' = [exec EXCEPT ![e] = NoExecution]
  /\ SlipAway(e)
  /\ UNCHANGED <<backend, day, counters, phase, admission, claimed, retries, drift>>

\* With Redis one of the processes dies; otherwise the one that holds the service,
\* and with it all that the service knew.
Crash(e) ==
  /\ exec[e].pc # "IDLE"
  /\ IF backend = "REDIS"
     THEN /\ exec' = [exec EXCEPT ![e] = NoExecution]
          /\ SlipAway(e)
          /\ UNCHANGED <<counters, admission>>
     ELSE /\ exec' = [f \in Execution |-> NoExecution]
          /\ admission' = [r \in Run |-> IF admission[r] = "NONE" THEN "NONE" ELSE "DONE"]
          /\ queued' = 0 /\ active' = 0
          /\ reserved' = 0 /\ used' = 0
          /\ reservation' = [r \in Run |-> NoReservation]
          /\ UNCHANGED <<renewed, slipped>>
  /\ UNCHANGED <<backend, day, phase, claimed, retries, drift>>

\* The keys of the tokens of the last day are not read again.
Midnight ==
  /\ day < LastDay
  /\ backend = "REDIS" => ~KeysAreDue
  /\ day' = day + 1
  /\ reserved' = 0 /\ used' = 0
  /\ UNCHANGED <<backend, queued, active, reservation, renewed, phase, admission, exec, claimed,
                 retries, slipped, drift>>

-----------------------------------------------------------------------------
QuotaNext ==
  \/ \E r \in Run : \/ StartRun(r) \/ Reserve(r) \/ Refuse(r) \/ FailRefused(r)
                    \/ CancelRun(r) \/ StartElsewhere(r) \/ EndElsewhere(r)
                    \/ ExpireReservation(r)
                    \/ \E e \in Execution : Claim(e, r)
  \/ \E e \in Execution : \/ NeverRuns(e) \/ MarkActive(e) \/ MarkActiveRaises(e)
                          \/ EndExecution(e) \/ FinishExecution(e) \/ FinishRaises(e)
                          \/ Crash(e)
  \/ ExpireQueued \/ ExpireActive \/ Midnight

QuotaSpec == QuotaInit /\ [][QuotaNext]_quotaVars

-----------------------------------------------------------------------------
(* Properties *)

\* Counters and reservations keep their types; an execution knows its run.
QuotaTypeOK ==
  /\ backend \in {"LOCAL", "REDIS"} /\ day \in Day
  /\ queued \in Nat /\ active \in Nat
  /\ reserved \in Nat /\ used \in Nat
  /\ reservation \in [Run -> [held : BOOLEAN, active : BOOLEAN, tokens : {0, RunTokens},
                             made : Day \union {Never}]]
  /\ renewed \in [{"queued", "active"} -> Day]
  /\ phase \in [Run -> {"NONE", "OPEN", "OVER"}]
  /\ admission \in [Run -> {"NONE", "RESERVING", "REFUSED", "DONE"}]
  /\ exec \in [Execution -> [pc : {"IDLE", "START", "RUN", "FINALLY"},
                            run : Run \union {NoRun}, call : {"NONE", "SETTLE", "RELEASE"}]]
  /\ \A e \in Execution : exec[e].pc # "IDLE" => exec[e].run \in Run
  /\ claimed \subseteq Run /\ retries \in 0 .. MaxRetries
  /\ slipped \subseteq Run
  /\ drift \in [{"queued", "active", "forgotten"} -> Nat]

\* In whatever order runs are reserved, activated (again), released and settled,
\* only the expiry of a key takes the Redis counter of active runs away from the
\* reservations marked active: it misses those that were marked when the counter
\* expired, and counts on those that expired under it.  It stays within the limit.
ActiveDriftsByExpiry ==
  backend = "REDIS" =>
    /\ Cardinality(Counted) - drift.forgotten <= active
    /\ active <= Cardinality(Counted) + drift.active
    /\ active <= ActiveLimit

\* Nobody is refused a place in the queue but for a reservation that waits, or one
\* that expired under the counter: the counter may fall behind the reservations
\* that wait, but runs ahead of them only by expiry.
QueueOvercountsByExpiry == queued <= Cardinality(Waiting) + drift.queued

\* The tokens reserved today belong to reservations made today and still held;
\* until the first midnight they are exactly those.
TokensOf(R) == RunTokens * Cardinality({r \in R : reservation[r].tokens > 0})

ReservedTokensAreHeld ==
  LET today == {r \in Held : reservation[r].made = day}
  IN /\ reserved <= TokensOf(today)
     /\ day = 0 => reserved = TokensOf(today)

\* A reservation outlives its run only when no execution of the run that calls this
\* service came to its end: the run was cancelled while it waited, or (LOCAL) was
\* executed by another process; an execution died or never ran; or the reservation
\* was made after the run had been executed.
Executing(r) == \E e \in Execution : exec[e].run = r

LeftoversAreExplained ==
  \A r \in Held : phase[r] = "OVER" /\ ~Executing(r) => r \notin claimed \/ r \in slipped
=============================================================================
