--------------------------- MODULE RunStore_proofs ---------------------------
(***************************************************************************)
(* Proofs about RunStore, for every number of runs, messages, workers and  *)
(* conversations.                                                          *)
(*                                                                         *)
(*   TypeCorrect       the columns hold what the code writes               *)
(*   OneRun            a message has at most one run                       *)
(*   LeaseMatches      a run is leased exactly while it is RUNNING         *)
(*   LeaseExclusive    no step takes a live lease from its owner           *)
(*   ChainOfRuns       runs of a conversation overlap only past a run that *)
(*                     ended unclaimed                                     *)
(*   CanMove           the runs of a conversation never all wait           *)
(*   Commits           state versions form one chain of succeeded runs     *)
(*   Remembers         memory is the end of that chain                     *)
(*   LedgerRefinement  the store implements ConversationLedger             *)
(***************************************************************************)
EXTENDS RunStore, SequenceTheorems, WellFoundedInduction, TLAPS

-----------------------------------------------------------------------------
(* Least and greatest elements: what ORDER BY created_at LIMIT 1 returns *)

LEMMA HasLeast ==
  ASSUME NEW S \in SUBSET Nat, S # {}
  PROVE  \E x \in S : \A y \in S : x <= y
<1> DEFINE R == OpToRel(<, Nat)
<1>1. IsWellFoundedOn(R, Nat)
  BY NatLessThanWellFounded
<1>2. \E x \in S : \A y \in S : ~(<<y, x>> \in R)
  <2> HIDE DEF R
  <2> QED BY <1>1, WFMin, Zenon
<1>3. \A x, y \in Nat : x < y => <<x, y>> \in R
  BY DEF OpToRel
<1>4. PICK x \in S : \A y \in S : ~(<<y, x>> \in R)
  BY <1>2, Zenon
<1>5. \A y \in S : ~(y < x)
  <2> HIDE DEF R
  <2> QED BY <1>3, <1>4, Zenon
<1> QED BY <1>5

LEMMA HasGreatest ==
  ASSUME NEW n \in Nat, NEW S \in SUBSET (1 .. n), S # {}
  PROVE  \E x \in S : \A y \in S : y <= x
<1> DEFINE T == {n - x : x \in S}
<1>1. T \in SUBSET Nat /\ T # {}
  OBVIOUS
<1>2. PICK t \in T : \A u \in T : t <= u
  BY <1>1, HasLeast
<1>3. PICK x \in S : t = n - x
  BY <1>2
<1>4. ASSUME NEW y \in S PROVE y <= x
  <2>1. n - y \in T
    OBVIOUS
  <2> QED BY <1>2, <1>3, <2>1
<1> QED BY <1>4

\* Latest returns NoRun for no rows, and the newest row otherwise.
LEMMA LatestIsNewest ==
  ASSUME NEW S \in SUBSET RunId
  PROVE  /\ S = {} => Latest(S) = NoRun
         /\ S # {} => Latest(S) \in S /\ \A q \in S : q <= Latest(S)
<1>1. ASSUME S # {} PROVE \E x \in S : \A y \in S : y <= x
  BY <1>1, HasGreatest, StoreAssumption DEF RunId
<1> QED BY <1>1 DEF Latest

LEMMA DependencyType ==
  ASSUME NEW c
  PROVE  DependencyFor(c) \in {NoRun} \union RunId
<1> {r \in RunsOf(c) : IsOpen(r)} \in SUBSET RunId
  BY DEF RunsOf
<1> QED BY LatestIsNewest DEF DependencyFor

-----------------------------------------------------------------------------
(* Sequences, and what DELETE ... NOT IN (... LIMIT n) keeps of one *)

LEMMA FunctionIsSeq ==
  ASSUME NEW T, NEW n \in Nat, NEW f \in [1 .. n -> T]
  PROVE  f \in Seq(T) /\ Len(f) = n
<1>1. f \in Seq(T)
  BY SeqDef
<1>2. DOMAIN f = 1 .. n /\ DOMAIN f = 1 .. Len(f) /\ Len(f) \in Nat
  BY <1>1, LenProperties
<1> QED BY <1>1, <1>2

LEMMA ExtensionIsAppend ==
  ASSUME NEW T, NEW s \in Seq(T), NEW t \in Seq(T), NEW x \in T,
         Len(t) = Len(s) + 1,
         \A i \in 1 .. Len(s) : t[i] = s[i],
         t[Len(s) + 1] = x
  PROVE  t = Append(s, x)
<1> DEFINE u == Append(s, x)
<1>1. u \in Seq(T) /\ Len(u) = Len(s) + 1 /\ Len(s) \in Nat
  BY AppendProperties, LenProperties
<1>2. \A i \in 1 .. Len(t) : t[i] = u[i]
  BY <1>1, AppendProperties
<1> HIDE DEF u
<1>3. t = u
  BY <1>1, <1>2, SeqEqual
<1> QED BY <1>3 DEF u

LEMMA LastOfProperties ==
  ASSUME NEW T, NEW s \in Seq(T), NEW n \in Nat
  PROVE  /\ LastOf(s, n) \in Seq(T)
         /\ Len(LastOf(s, n)) = IF Len(s) <= n THEN Len(s) ELSE n
         /\ \A i \in 1 .. Len(LastOf(s, n)) :
              LastOf(s, n)[i] = s[Len(s) - Len(LastOf(s, n)) + i]
<1>1. Len(s) \in Nat
  BY LenProperties
<1>2. CASE Len(s) <= n
  BY <1>1, <1>2 DEF LastOf
<1>3. CASE ~(Len(s) <= n)
  <2> DEFINE a == Len(s) - n + 1
             u == SubSeq(s, a, Len(s))
  <2>1. a \in Int /\ Len(s) \in Int /\ \A i \in a .. Len(s) : s[i] \in T
    BY <1>1, <1>3, ElementOfSeq
  <2>2. /\ u \in Seq(T)
        /\ Len(u) = IF a <= Len(s) THEN Len(s) - a + 1 ELSE 0
        /\ \A i \in 1 .. Len(s) - a + 1 : u[i] = s[a + i - 1]
    BY <2>1, SubSeqProperties
  <2>3. Len(u) = n
    BY <1>1, <1>3, <2>2
  <2>4. \A i \in 1 .. n : u[i] = s[Len(s) - n + i]
    BY <1>1, <1>3, <2>2
  <2>5. u = LastOf(s, n)
    BY <1>3 DEF LastOf
  <2> HIDE DEF u
  <2> QED BY <1>3, <2>2, <2>3, <2>4, <2>5
<1> QED BY <1>2, <1>3

\* t is s with r put behind its i-th entry.
PutBehind(t, s, i, r) ==
  /\ Len(t) = Len(s) + 1
  /\ \A j \in 1 .. Len(s) + 1 :
       t[j] = IF j <= i THEN s[j] ELSE IF j = i + 1 THEN r ELSE s[j - 1]

\* An entry put at some place of a sequence: the others keep their order.
LEMMA InsertedIs ==
  ASSUME NEW T, NEW s \in Seq(T), NEW r \in T, NEW i \in 0 .. Len(s)
  PROVE  Inserted(s, i, r) \in Seq(T) /\ PutBehind(Inserted(s, i, r), s, i, r)
<1>1. PICK n \in Nat : n = Len(s)
  BY LenProperties
<1>2. \A j \in 1 .. n : s[j] \in T
  BY <1>1, ElementOfSeq
<1>3. PICK u : u = Inserted(s, i, r)
  OBVIOUS
<1>4. u = [j \in 1 .. n + 1 |-> IF j <= i THEN s[j] ELSE IF j = i + 1 THEN r ELSE s[j - 1]]
  BY <1>1, <1>3 DEF Inserted
<1>5. \A j \in 1 .. n + 1 :
        (IF j <= i THEN s[j] ELSE IF j = i + 1 THEN r ELSE s[j - 1]) \in T
  BY <1>1, <1>2
<1>6. u \in [1 .. n + 1 -> T]
  BY <1>4, <1>5
<1>7. u \in Seq(T) /\ Len(u) = n + 1
  BY <1>6, FunctionIsSeq
<1>8. PutBehind(u, s, i, r)
  BY <1>1, <1>4, <1>7 DEF PutBehind
<1> QED BY <1>3, <1>7, <1>8

\* Memory with its new entry, before the oldest entries are deleted.
LEMMA WithEntryType ==
  ASSUME NEW T, NEW s \in Seq(T), NEW r \in T, NEW t \in WithEntry(s, r)
  PROVE  t \in Seq(T)
<1>1. CASE \E i \in DOMAIN s : s[i] = r
  BY <1>1 DEF WithEntry
<1>2. CASE OneClock /\ ~(\E i \in DOMAIN s : s[i] = r)
  BY <1>2, AppendProperties DEF WithEntry
<1>3. CASE ~OneClock /\ ~(\E i \in DOMAIN s : s[i] = r)
  <2>1. PICK i \in 0 .. Len(s) : t = Inserted(s, i, r)
    BY <1>3 DEF WithEntry
  <2>2. Inserted(s, i, r) \in Seq(T)
    BY InsertedIs
  <2> QED BY <2>1, <2>2
<1> QED BY <1>1, <1>2, <1>3

LEMMA WithEntryIs ==
  ASSUME NEW T, NEW s \in Seq(T), NEW r \in T, NEW t \in WithEntry(s, r),
         ~(\E i \in DOMAIN s : s[i] = r)
  PROVE  /\ t \in Seq(T)
         /\ Len(t) = Len(s) + 1
         /\ OneClock => t = Append(s, r)
         /\ \E i \in 0 .. Len(s) : \A j \in 1 .. Len(s) + 1 :
              t[j] = IF j <= i THEN s[j] ELSE IF j = i + 1 THEN r ELSE s[j - 1]
<1>0. t \in Seq(T)
  BY WithEntryType
<1>1. PICK n \in Nat : n = Len(s)
  BY LenProperties
<1>2. CASE OneClock
  <2>1. t = Append(s, r)
    BY <1>2 DEF WithEntry
  <2>2. PICK u : u = Append(s, r)
    OBVIOUS
  <2>3. Len(u) = n + 1 /\ u[n + 1] = r /\ \A j \in 1 .. n : u[j] = s[j]
    BY <1>1, <2>2, AppendProperties
  <2>4. n \in 0 .. n /\ \A j \in 1 .. n + 1 :
          u[j] = IF j <= n THEN s[j] ELSE IF j = n + 1 THEN r ELSE s[j - 1]
    BY <2>3
  <2> QED BY <1>0, <1>1, <2>1, <2>2, <2>3, <2>4
<1>3. CASE ~OneClock
  <2>0. WithEntry(s, r) = {Inserted(s, i, r) : i \in 0 .. Len(s)}
    BY <1>3 DEF WithEntry
  <2>1. PICK i \in 0 .. Len(s) : t = Inserted(s, i, r)
    BY <2>0
  <2>2. PutBehind(Inserted(s, i, r), s, i, r)
    BY InsertedIs
  <2>3. PutBehind(t, s, i, r)
    BY <2>1, <2>2
  <2> QED BY <1>0, <1>3, <2>3 DEF PutBehind
<1> QED BY <1>2, <1>3

LEMMA LastOfAppend ==
  ASSUME NEW T, NEW s \in Seq(T), NEW x \in T, NEW n \in Nat \ {0}
  PROVE  LastOf(Append(LastOf(s, n), x), n) = LastOf(Append(s, x), n)
<1>1. PICK m : m = LastOf(s, n)
  OBVIOUS
<1>2. PICK u : u = Append(s, x)
  OBVIOUS
<1>3. PICK v : v = Append(m, x)
  OBVIOUS
<1>4. PICK a : a = LastOf(u, n)
  OBVIOUS
<1>5. PICK b : b = LastOf(v, n)
  OBVIOUS
<1>6. /\ m \in Seq(T) /\ Len(m) = IF Len(s) <= n THEN Len(s) ELSE n
      /\ \A i \in 1 .. Len(m) : m[i] = s[Len(s) - Len(m) + i]
  BY <1>1, LastOfProperties
<1>7. /\ u \in Seq(T) /\ Len(u) = Len(s) + 1 /\ u[Len(s) + 1] = x
      /\ \A i \in 1 .. Len(s) : u[i] = s[i]
  BY <1>2, AppendProperties
<1>8. /\ v \in Seq(T) /\ Len(v) = Len(m) + 1 /\ v[Len(m) + 1] = x
      /\ \A i \in 1 .. Len(m) : v[i] = m[i]
  BY <1>3, <1>6, AppendProperties
<1>9. /\ a \in Seq(T) /\ Len(a) = IF Len(u) <= n THEN Len(u) ELSE n
      /\ \A i \in 1 .. Len(a) : a[i] = u[Len(u) - Len(a) + i]
  <2>1. u \in Seq(T) /\ n \in Nat
    BY <1>7
  <2> QED BY <1>4, <2>1, LastOfProperties
<1>10. /\ b \in Seq(T) /\ Len(b) = IF Len(v) <= n THEN Len(v) ELSE n
       /\ \A i \in 1 .. Len(b) : b[i] = v[Len(v) - Len(b) + i]
  <2>1. v \in Seq(T) /\ n \in Nat
    BY <1>8
  <2> QED BY <1>5, <2>1, LastOfProperties
<1>11. PICK ls, lm, la \in Nat : ls = Len(s) /\ lm = Len(m) /\ la = Len(a)
  BY <1>6, <1>9, LenProperties
<1>12. /\ lm = IF ls <= n THEN ls ELSE n
       /\ la = IF ls + 1 <= n THEN ls + 1 ELSE n
  BY <1>6, <1>7, <1>9, <1>11
<1>13. Len(u) = ls + 1 /\ Len(v) = lm + 1 /\ Len(b) = la
  BY <1>7, <1>8, <1>10, <1>11, <1>12
<1>14. ASSUME NEW i \in 1 .. la PROVE a[i] = b[i]
  <2>1. a[i] = u[ls + 1 - la + i] /\ b[i] = v[lm + 1 - la + i]
    <3>1. i \in 1 .. Len(a) /\ i \in 1 .. Len(b)
      BY <1>11, <1>13
    <3>2. a[i] = u[Len(u) - Len(a) + i] /\ b[i] = v[Len(v) - Len(b) + i]
      BY <3>1, <1>9, <1>10
    <3> QED BY <3>2, <1>11, <1>13
  <2>2. CASE i = la
    <3>1. ls + 1 - la + i = ls + 1 /\ lm + 1 - la + i = lm + 1
      BY <2>2
    <3> QED BY <2>1, <3>1, <1>7, <1>8, <1>11
  <2>3. CASE i # la
    <3>1. PICK j : j = ls + 1 - la + i
      OBVIOUS
    <3>2. PICK k : k = lm + 1 - la + i
      OBVIOUS
    <3>3. j \in 1 .. ls /\ k \in 1 .. lm /\ ls - lm + k = j
      BY <2>3, <3>1, <3>2, <1>12
    <3>4. u[j] = s[j] /\ v[k] = m[k] /\ m[k] = s[ls - lm + k]
      BY <3>3, <1>6, <1>7, <1>8, <1>11
    <3> QED BY <2>1, <3>1, <3>2, <3>3, <3>4
  <2> QED BY <2>2, <2>3
<1>15. a = b
  BY <1>9, <1>10, <1>11, <1>13, <1>14, SeqEqual
<1> QED BY <1>15, <1>1, <1>2, <1>3, <1>4, <1>5

-----------------------------------------------------------------------------
(* Type correctness *)

\* A row that does not exist has no key; one that does has a message's key.
RowKeys == \A r \in RunId : Created(r) <=> message[r] \in Message

LEMMA ConversationType ==
  ASSUME TypeOK, RowKeys, NEW r \in RunId, Created(r)
  PROVE  conversation(r) \in Conversation
BY StoreAssumption DEF RowKeys, conversation

LEMMA TypeStep == TypeOK /\ RowKeys /\ [Next]_vars => TypeOK' /\ RowKeys'
<1> SUFFICES ASSUME TypeOK, RowKeys, [Next]_vars PROVE TypeOK' /\ RowKeys'
  OBVIOUS
<1> USE StoreAssumption
<1>a. "run.failed" \in EventName /\ "run.cancelled" \in EventName /\ "run.completed" \in EventName
  BY DEF EventName, TerminalEvent
<1>1. ASSUME NEW m \in Message, Create(m) PROVE TypeOK' /\ RowKeys'
  <2> PICK r \in RunId : Create(m)!(r)
    BY <1>1 DEF Create
  <2>1. ConversationOf[m] \in Conversation
    OBVIOUS
  <2>2. DependencyFor(ConversationOf[m]) \in {NoRun} \union RunId
    BY DependencyType
  <2>3. TypeOK'
    BY <2>1, <2>2 DEF TypeOK, OpenStatus, leaseVars
  <2>4. RowKeys'
    BY DEF TypeOK, RowKeys, Created
  <2> QED BY <2>3, <2>4
<1>2. ASSUME NEW r \in RunId, NEW w \in Worker, Claim(w, r) PROVE TypeOK' /\ RowKeys'
  <2>1. Created(r)
    BY <1>2 DEF Claim, Claimable, IsOpen, OpenStatus, Created
  <2>2. conversation(r) \in Conversation
    BY <2>1, ConversationType
  <2>3. TypeOK'
    BY SMTT(20), <1>2, <2>2 DEF Claim, TypeOK, OpenStatus, stateVars
  <2>4. RowKeys'
    BY <1>2, <2>1 DEF Claim, TypeOK, RowKeys, Created
  <2> QED BY <2>3, <2>4
<1>3. ASSUME NEW r \in RunId, NEW w \in Worker, Renew(w, r, generation[r])
      PROVE  TypeOK' /\ RowKeys'
  BY <1>3 DEF Renew, TypeOK, RowKeys, Created, rowVars, stateVars
<1>4. ASSUME NEW r \in RunId, NEW w \in Worker, Release(w, r, generation[r])
      PROVE  TypeOK' /\ RowKeys'
  <2>1. TypeOK'
    BY <1>4 DEF Release, TypeOK, OpenStatus, rowVars, stateVars
  <2>2. RowKeys'
    BY <1>4 DEF Release, TypeOK, RowKeys, Created, IsOpen, OpenStatus, rowVars
  <2> QED BY <2>1, <2>2
<1>5. ASSUME NEW r \in RunId, LeaseExpires(r) PROVE TypeOK' /\ RowKeys'
  BY <1>5 DEF LeaseExpires, TypeOK, RowKeys, Created, rowVars, stateVars
<1>6. ASSUME NEW r \in RunId, NEW e \in ProgressEvent, AppendProgress(r, e)
      PROVE  TypeOK' /\ RowKeys'
  BY <1>6 DEF AppendProgress, TypeOK, RowKeys, Created, EventName,
              rowVars, leaseVars, stateVars
<1>7. ASSUME NEW r \in RunId, NEW e \in EventName, NEW s \in TERMINAL_STATUSES,
             Terminate(r, e, s), UNCHANGED rowVars,
             version' \in [Conversation -> Nat],
             lastCommitted' \in [Conversation -> {NoRun} \union RunId],
             active' \in [Conversation -> {NoRun} \union RunId],
             memory' \in [Conversation -> Seq(RunId)]
      PROVE  TypeOK' /\ RowKeys'
  <2>1. TypeOK'
    BY <1>7 DEF Terminate, TypeOK, rowVars
  <2>2. RowKeys'
    BY <1>7 DEF Terminate, AcceptsEvents, TypeOK, RowKeys, Created, IsOpen,
                OpenStatus, TERMINAL_STATUSES, rowVars
  <2> QED BY <2>1, <2>2
<1>8. ASSUME NEW r \in RunId, AppendFailed(r) PROVE TypeOK' /\ RowKeys'
  BY <1>7, <1>8, <1>a DEF AppendFailed, TERMINAL_STATUSES, TypeOK, stateVars
<1>9. ASSUME NEW r \in RunId, AppendCancelled(r) PROVE TypeOK' /\ RowKeys'
  BY <1>7, <1>9, <1>a DEF AppendCancelled, TERMINAL_STATUSES, TypeOK, stateVars
<1>10. ASSUME NEW r \in RunId, Complete(r) PROVE TypeOK' /\ RowKeys'
  <2>1. Created(r)
    BY <1>10 DEF Complete, Terminate, AcceptsEvents, IsOpen, OpenStatus, Created
  <2>2. conversation(r) \in Conversation
    BY <2>1, ConversationType
  <2>3. memory' \in [Conversation -> Seq(RunId)]
    <3>1. PICK t \in WithEntry(memory[conversation(r)], r) :
            memory' = [memory EXCEPT ![conversation(r)] = LastOf(t, MemoryLimit)]
      BY <1>10 DEF Complete, Remember
    <3>2. memory[conversation(r)] \in Seq(RunId)
      BY <2>2 DEF TypeOK
    <3>3. LastOf(t, MemoryLimit) \in Seq(RunId)
      BY <3>2, WithEntryType, LastOfProperties, StoreAssumption
    <3> QED BY <3>1, <3>3 DEF TypeOK
  <2>4. /\ version' \in [Conversation -> Nat]
        /\ lastCommitted' \in [Conversation -> {NoRun} \union RunId]
        /\ active' \in [Conversation -> {NoRun} \union RunId]
    BY <1>10, <2>2 DEF Complete, TypeOK
  <2> QED BY <1>7, <1>10, <1>a, <2>3, <2>4 DEF Complete, TERMINAL_STATUSES
<1>11. CASE UNCHANGED vars
  BY <1>11 DEF vars, rowVars, leaseVars, stateVars, TypeOK, RowKeys, Created
<1> QED
  BY <1>1, <1>2, <1>3, <1>4, <1>5, <1>6, <1>8, <1>9, <1>10, <1>11 DEF Next

LEMMA TypeInit == Init => TypeOK /\ RowKeys
BY StoreAssumption DEF Init, TypeOK, RowKeys, Created

\* Every column keeps its type, and the statuses are the five the code writes.
THEOREM TypeCorrect == Spec => []TypeOK
<1>1. Spec => [](TypeOK /\ RowKeys)
  BY TypeInit, TypeStep, PTL DEF Spec
<1> QED BY <1>1, PTL

-----------------------------------------------------------------------------
(* Leases *)

LEMMA LeaseStepLemma ==
  TypeOK /\ LeasedExactlyWhenRunning /\ [Next]_vars
    => LeasedExactlyWhenRunning' /\ \A r \in RunId : LeaseStep(r)
<1> SUFFICES ASSUME TypeOK, LeasedExactlyWhenRunning, [Next]_vars
             PROVE  LeasedExactlyWhenRunning' /\ \A r \in RunId : LeaseStep(r)
  OBVIOUS
<1> USE StoreAssumption DEF LeasedExactlyWhenRunning, LeaseStep, TypeOK
<1>1. ASSUME NEW m \in Message, Create(m) PROVE LeasedExactlyWhenRunning' /\ \A r \in RunId : LeaseStep(r)
  BY <1>1 DEF Create, IsNextRow, Created, leaseVars
<1>2. ASSUME NEW r \in RunId, NEW w \in Worker, Claim(w, r)
      PROVE  LeasedExactlyWhenRunning' /\ \A q \in RunId : LeaseStep(q)
  BY <1>2 DEF Claim, Claimable
<1>3. ASSUME NEW r \in RunId, NEW w \in Worker, Renew(w, r, generation[r])
      PROVE  LeasedExactlyWhenRunning' /\ \A q \in RunId : LeaseStep(q)
  BY <1>3 DEF Renew
<1>4. ASSUME NEW r \in RunId, NEW w \in Worker, Release(w, r, generation[r])
      PROVE  LeasedExactlyWhenRunning' /\ \A q \in RunId : LeaseStep(q)
  BY <1>4 DEF Release
<1>5. ASSUME NEW r \in RunId, LeaseExpires(r)
      PROVE  LeasedExactlyWhenRunning' /\ \A q \in RunId : LeaseStep(q)
  BY <1>5 DEF LeaseExpires
<1>6. ASSUME NEW r \in RunId, NEW e \in ProgressEvent, AppendProgress(r, e)
      PROVE  LeasedExactlyWhenRunning' /\ \A q \in RunId : LeaseStep(q)
  BY <1>6 DEF AppendProgress, leaseVars
<1>7. ASSUME NEW r \in RunId, NEW e, NEW s \in TERMINAL_STATUSES, Terminate(r, e, s)
      PROVE  LeasedExactlyWhenRunning' /\ \A q \in RunId : LeaseStep(q)
  BY <1>7 DEF Terminate, TERMINAL_STATUSES
<1>8. ASSUME NEW r \in RunId, AppendFailed(r) \/ AppendCancelled(r) \/ Complete(r)
      PROVE  LeasedExactlyWhenRunning' /\ \A q \in RunId : LeaseStep(q)
  BY <1>7, <1>8 DEF AppendFailed, AppendCancelled, Complete, TERMINAL_STATUSES
<1>9. CASE UNCHANGED vars
  BY <1>9 DEF vars, leaseVars
<1> QED
  BY <1>1, <1>2, <1>3, <1>4, <1>5, <1>6, <1>8, <1>9 DEF Next

LEMMA LeaseInit == Init => LeasedExactlyWhenRunning
BY StoreAssumption DEF Init, LeasedExactlyWhenRunning

\* A run has an owner and a lease exactly while its status is RUNNING.
THEOREM LeaseMatches == Spec => []LeasedExactlyWhenRunning
BY TypeCorrect, LeaseInit, LeaseStepLemma, PTL DEF Spec

\* claim_next_run never takes a run whose lease is live, and every change of
\* hands raises lease_generation.
THEOREM LeaseExclusive == Spec => LeaseIsExclusive
<1>1. TypeOK /\ LeasedExactlyWhenRunning /\ [Next]_vars
        => [\A r \in RunId : LeaseStep(r)]_vars
  BY LeaseStepLemma
<1> QED BY <1>1, TypeCorrect, LeaseMatches, PTL DEF Spec, LeaseIsExclusive

-----------------------------------------------------------------------------
(* One run per message *)

LEMMA OneRunStep ==
  TypeOK /\ RowKeys /\ OneRunPerMessage /\ [Next]_vars => OneRunPerMessage'
<1> SUFFICES ASSUME TypeOK, RowKeys, RowKeys', OneRunPerMessage, [Next]_vars
             PROVE  OneRunPerMessage'
  BY TypeStep
<1>1. ASSUME NEW m \in Message, Create(m) PROVE OneRunPerMessage'
  BY <1>1, StoreAssumption
     DEF Create, IsNewMessage, TypeOK, RowKeys, OneRunPerMessage
<1>2. CASE message' = message
  BY <1>2 DEF RowKeys, OneRunPerMessage
<1>3. (\E m \in Message : Create(m)) \/ message' = message
  BY DEF Next, Claim, Renew, Release, LeaseExpires, AppendProgress, AppendFailed,
         AppendCancelled, Complete, vars, rowVars
<1> QED BY <1>1, <1>2, <1>3

\* create_or_attach is idempotent: no message ever gets a second row.
THEOREM OneRun == Spec => []OneRunPerMessage
<1>1. Spec => [](TypeOK /\ RowKeys)
  BY TypeInit, TypeStep, PTL DEF Spec
<1>2. Init => OneRunPerMessage
  BY DEF Init, OneRunPerMessage, Created
<1> QED BY <1>1, <1>2, OneRunStep, PTL DEF Spec

-----------------------------------------------------------------------------
(* The chain of runs of a conversation                                     *)
(*                                                                         *)
(* OverlapOnlyPastUnclaimedEnd is not inductive: what rules out an overlap *)
(* is that each row depends on the newest row that was open when it was    *)
(* created, hence on no row older than one that is still open.             *)

DependencyIsOlder ==
  \A r \in RunId : dependsOn[r] # NoRun =>
    /\ Created(r) /\ dependsOn[r] < r
    /\ Created(dependsOn[r]) /\ conversation(dependsOn[r]) = conversation(r)

DependencyCoversOpen ==
  \A r, q \in RunId :
    r < q /\ Created(q) /\ conversation(r) = conversation(q) /\ IsOpen(r)
      => r <= dependsOn[q]

ChainInv ==
  /\ \A r, q \in RunId : q < r /\ Created(r) => Created(q)
  /\ \A r \in RunId : generation[r] > 0 => Created(r)
  /\ DependencyIsOlder
  /\ DependencyCoversOpen
  /\ OverlapOnlyPastUnclaimedEnd

\* A step that creates and claims nothing: rows keep their key, dependency and
\* generation, and a terminal row stays terminal.
Quiet ==
  /\ message' = message /\ dependsOn' = dependsOn /\ generation' = generation
  /\ \A r \in RunId : /\ Created(r)' <=> Created(r)
                      /\ IsOpen(r)' => IsOpen(r)
                      /\ IsTerminal(r) => IsTerminal(r)'

\* The operations on a run that exists, a claim apart.
RowStep(r) ==
  \/ \E w \in Worker : Renew(w, r, generation[r]) \/ Release(w, r, generation[r])
  \/ LeaseExpires(r)
  \/ \E e \in ProgressEvent : AppendProgress(r, e)
  \/ AppendFailed(r) \/ AppendCancelled(r) \/ Complete(r)

LEMMA RowStepIsQuiet ==
  ASSUME TypeOK, NEW r \in RunId, RowStep(r)
  PROVE  Quiet
<1> USE DEF Quiet, TypeOK, Created, IsOpen, IsTerminal, OpenStatus, TERMINAL_STATUSES
<1>1. ASSUME NEW w \in Worker, Renew(w, r, generation[r]) PROVE Quiet
  BY <1>1 DEF Renew, rowVars
<1>2. ASSUME NEW w \in Worker, Release(w, r, generation[r]) PROVE Quiet
  BY <1>2 DEF Release, rowVars
<1>3. CASE LeaseExpires(r)
  BY <1>3 DEF LeaseExpires, rowVars
<1>4. ASSUME NEW e \in ProgressEvent, AppendProgress(r, e) PROVE Quiet
  BY <1>4 DEF AppendProgress, rowVars, leaseVars
<1>5. ASSUME NEW e, NEW s \in TERMINAL_STATUSES, Terminate(r, e, s), UNCHANGED rowVars
      PROVE  Quiet
  BY <1>5 DEF Terminate, AcceptsEvents, rowVars
<1>6. CASE AppendFailed(r) \/ AppendCancelled(r) \/ Complete(r)
  BY <1>5, <1>6 DEF AppendFailed, AppendCancelled, Complete
<1> QED BY <1>1, <1>2, <1>3, <1>4, <1>6 DEF RowStep

LEMMA StepKinds ==
  ASSUME TypeOK, [Next]_vars
  PROVE  \/ \E m \in Message : Create(m)
         \/ \E w \in Worker, r \in RunId : Claim(w, r)
         \/ Quiet
<1>1. CASE UNCHANGED vars
  BY <1>1 DEF vars, rowVars, leaseVars, Quiet, Created, IsOpen, IsTerminal
<1>2. CASE \E r \in RunId : RowStep(r)
  BY <1>2, RowStepIsQuiet
<1> QED BY <1>1, <1>2 DEF Next, RowStep

LEMMA ChainCreate ==
  ASSUME TypeOK, RowKeys, ChainInv, NEW m \in Message, Create(m)
  PROVE  ChainInv'
<1> PICK r \in RunId : Create(m)!(r)
  BY DEF Create
<1> DEFINE c == ConversationOf[m]
           d == DependencyFor(c)
           S == {q \in RunsOf(c) : IsOpen(q)}
<1>1. S \in SUBSET RunId
  BY DEF RunsOf
<1>2. (S = {} => d = NoRun) /\ (S # {} => d \in S /\ \A q \in S : q <= d)
  BY <1>1, LatestIsNewest DEF DependencyFor
<1>3. /\ ~Created(r) /\ Created(r)' /\ IsOpen(r)'
      /\ \A q \in RunId \ {r} : /\ Created(q)' <=> Created(q)
                                /\ IsOpen(q)' <=> IsOpen(q)
                                /\ IsTerminal(q)' <=> IsTerminal(q)
                                /\ conversation(q)' = conversation(q)
  BY DEF IsNextRow, TypeOK, Created, IsOpen, IsTerminal, conversation, OpenStatus
<1>4. conversation(r)' = c
  BY DEF TypeOK, conversation
<1>5. \A q \in RunId : Created(q) <=> q < r
  BY <1>3 DEF ChainInv, IsNextRow, RunId
<1>6. /\ \A q \in RunId \ {r} : dependsOn'[q] = dependsOn[q]
      /\ dependsOn'[r] = d
      /\ generation' = generation
      /\ generation[r] = 0
  BY <1>3 DEF TypeOK, leaseVars, ChainInv
<1>7. d # NoRun => d \in RunId /\ Created(d) /\ d < r /\ conversation(d) = c
  BY <1>2, <1>5 DEF RunsOf
<1>8. \A q \in RunId : Created(q)' /\ q # r => q < r
  BY <1>3, <1>5
<1>9. (\A q, p \in RunId : p < q /\ Created(q) => Created(p))'
  BY <1>3, <1>5, <1>8 DEF RunId
<1>10. (\A q \in RunId : generation[q] > 0 => Created(q))'
  BY <1>3, <1>6 DEF ChainInv
<1>11. DependencyIsOlder'
  <2> SUFFICES ASSUME NEW q \in RunId, dependsOn'[q] # NoRun
               PROVE  /\ Created(q)' /\ dependsOn'[q] < q
                      /\ Created(dependsOn[q])'
                      /\ conversation(dependsOn[q])' = conversation(q)'
    BY DEF DependencyIsOlder
  <2>1. CASE q = r
    BY <2>1, <1>3, <1>4, <1>6, <1>7, dependsOn'[r] \in RunId \ {r} DEF RunId
  <2>2. CASE q # r
    <3>1. dependsOn[q] # NoRun /\ dependsOn'[q] = dependsOn[q]
      BY <2>2, <1>6
    <3>2. /\ Created(q) /\ dependsOn[q] < q
          /\ Created(dependsOn[q]) /\ conversation(dependsOn[q]) = conversation(q)
      BY <3>1 DEF ChainInv, DependencyIsOlder
    <3>3. dependsOn[q] \in RunId \ {r}
      BY <3>1, <3>2, <1>3 DEF TypeOK
    <3> QED BY <2>2, <3>1, <3>2, <3>3, <1>3
  <2> QED BY <2>1, <2>2
<1>12. DependencyCoversOpen'
  <2> SUFFICES ASSUME NEW p \in RunId, NEW q \in RunId, p < q, Created(q)',
                      conversation(p)' = conversation(q)', IsOpen(p)'
               PROVE  p <= dependsOn'[q]
    BY DEF DependencyCoversOpen
  <2>1. p # r /\ IsOpen(p) /\ Created(p)
    BY <1>3, <1>8 DEF RunId, IsOpen, OpenStatus, Created
  <2>2. CASE q = r
    BY <2>1, <2>2, <1>2, <1>3, <1>4, <1>6 DEF RunsOf
  <2>3. CASE q # r
    BY <2>1, <2>3, <1>3, <1>6 DEF ChainInv, DependencyCoversOpen
  <2> QED BY <2>2, <2>3
<1>13. OverlapOnlyPastUnclaimedEnd'
  <2> SUFFICES ASSUME NEW p \in RunId, NEW q \in RunId, p < q, Created(q)',
                      conversation(p)' = conversation(q)', IsOpen(p)',
                      generation'[q] > 0
               PROVE  \E k \in RunId : /\ p < k /\ k < q
                                       /\ conversation(k)' = conversation(p)'
                                       /\ IsTerminal(k)' /\ generation'[k] = 0
    BY DEF OverlapOnlyPastUnclaimedEnd
  <2>1. q # r /\ p # r /\ Created(q) /\ Created(p)
    BY <1>3, <1>5, <1>6, <1>8 DEF RunId
  <2>2. PICK k \in RunId : /\ p < k /\ k < q
                           /\ conversation(k) = conversation(p)
                           /\ IsTerminal(k) /\ generation[k] = 0
    BY <2>1, <1>3, <1>6 DEF ChainInv, OverlapOnlyPastUnclaimedEnd
  <2>3. k # r
    BY <2>2, <1>3 DEF IsTerminal, TERMINAL_STATUSES, Created
  <2> QED BY <2>1, <2>2, <2>3, <1>3, <1>6
<1> QED BY <1>9, <1>10, <1>11, <1>12, <1>13 DEF ChainInv

LEMMA ChainClaim ==
  ASSUME TypeOK, ChainInv, NEW w \in Worker, NEW r \in RunId, Claim(w, r)
  PROVE  ChainInv'
<1>1. /\ IsOpen(r) /\ Created(r) /\ DependencyMet(r)
      /\ \A q \in RunId : /\ Created(q)' <=> Created(q)
                          /\ IsOpen(q)' <=> IsOpen(q)
                          /\ IsTerminal(q)' <=> IsTerminal(q)
  BY DEF Claim, Claimable, TypeOK, Created, IsOpen, IsTerminal, OpenStatus,
         TERMINAL_STATUSES
<1>2. /\ dependsOn' = dependsOn /\ message' = message
      /\ \A q \in RunId : conversation(q)' = conversation(q)
  BY DEF Claim, conversation
<1>3. /\ generation'[r] = generation[r] + 1
      /\ \A q \in RunId \ {r} : generation'[q] = generation[q]
  BY DEF Claim, TypeOK
<1>4. (\A q, p \in RunId : p < q /\ Created(q) => Created(p))'
  BY <1>1 DEF ChainInv
<1>5. (\A q \in RunId : generation[q] > 0 => Created(q))'
  BY <1>1, <1>3 DEF ChainInv
<1>6. DependencyIsOlder'
  BY <1>1, <1>2 DEF ChainInv, DependencyIsOlder, TypeOK
<1>7. DependencyCoversOpen'
  BY <1>1, <1>2 DEF ChainInv, DependencyCoversOpen
<1>8. OverlapOnlyPastUnclaimedEnd'
  <2> SUFFICES ASSUME NEW p \in RunId, NEW q \in RunId, p < q, Created(q),
                      conversation(p) = conversation(q), IsOpen(p),
                      generation'[q] > 0
               PROVE  \E k \in RunId : /\ p < k /\ k < q
                                       /\ conversation(k) = conversation(p)
                                       /\ IsTerminal(k) /\ generation'[k] = 0
    BY <1>1, <1>2 DEF OverlapOnlyPastUnclaimedEnd
  <2>a. \A k \in RunId : IsTerminal(k) => generation'[k] = generation[k]
    BY <1>1, <1>3 DEF IsTerminal, IsOpen, OpenStatus, TERMINAL_STATUSES
  <2>1. CASE generation[q] > 0
    BY <2>1, <2>a DEF ChainInv, OverlapOnlyPastUnclaimedEnd
  <2>2. CASE ~(generation[q] > 0)
    <3> DEFINE d == dependsOn[q]
    <3>1. q = r
      BY <2>2, <1>3
    <3>2. p <= d
      BY DEF ChainInv, DependencyCoversOpen
    <3>3. d \in RunId /\ d # NoRun
      BY <3>2 DEF TypeOK, RunId, NoRun
    <3>4. IsTerminal(d) /\ Created(d) /\ d < q /\ conversation(d) = conversation(q)
      BY <3>1, <3>3, <1>1 DEF ChainInv, DependencyIsOlder, DependencyMet
    <3>5. p # d
      BY <3>4 DEF IsTerminal, IsOpen, OpenStatus, TERMINAL_STATUSES
    <3>6. p < d
      BY <3>2, <3>3, <3>5 DEF RunId
    <3>7. CASE generation[d] = 0
      BY <3>3, <3>4, <3>6, <3>7, <2>a
    <3>8. CASE generation[d] # 0
      <4>1. generation[d] > 0
        BY <3>3, <3>8 DEF TypeOK
      <4>2. PICK k \in RunId : /\ p < k /\ k < d
                               /\ conversation(k) = conversation(p)
                               /\ IsTerminal(k) /\ generation[k] = 0
        BY <4>1, <3>3, <3>4, <3>6 DEF ChainInv, OverlapOnlyPastUnclaimedEnd
      <4>3. k < q
        BY <4>2, <3>3, <3>4 DEF RunId
      <4> QED BY <4>2, <4>3, <2>a
    <3> QED BY <3>7, <3>8
  <2> QED BY <2>1, <2>2
<1> QED BY <1>4, <1>5, <1>6, <1>7, <1>8 DEF ChainInv

LEMMA ChainQuiet ==
  ASSUME TypeOK, ChainInv, Quiet
  PROVE  ChainInv'
<1>1. \A q \in RunId : conversation(q)' = conversation(q)
  BY DEF Quiet, conversation
<1>2. DependencyIsOlder'
  BY <1>1 DEF Quiet, ChainInv, DependencyIsOlder, TypeOK
<1>3. DependencyCoversOpen'
  BY <1>1 DEF Quiet, ChainInv, DependencyCoversOpen
<1>4. OverlapOnlyPastUnclaimedEnd'
  BY <1>1 DEF Quiet, ChainInv, OverlapOnlyPastUnclaimedEnd
<1> QED BY <1>2, <1>3, <1>4 DEF Quiet, ChainInv

LEMMA ChainInit == Init => ChainInv
BY DEF Init, ChainInv, DependencyIsOlder, DependencyCoversOpen,
       OverlapOnlyPastUnclaimedEnd, Created

LEMMA ChainAlways == Spec => [](TypeOK /\ RowKeys /\ ChainInv)
<1>1. TypeOK /\ RowKeys /\ ChainInv /\ [Next]_vars => ChainInv'
  BY StepKinds, ChainCreate, ChainClaim, ChainQuiet
<1> QED BY <1>1, TypeInit, TypeStep, ChainInit, PTL DEF Spec

\* Two claimed runs of one conversation can only overlap past a run that ended
\* before anyone claimed it.
THEOREM ChainOfRuns == Spec => []OverlapOnlyPastUnclaimedEnd
<1>1. ChainInv => OverlapOnlyPastUnclaimedEnd
  BY DEF ChainInv
<1> QED BY <1>1, ChainAlways, PTL

\* The oldest open run of a conversation never waits.
THEOREM CanMove == Spec => []ConversationCanMove
<1>1. TypeOK /\ ChainInv => ConversationCanMove
  <2> SUFFICES ASSUME TypeOK, ChainInv, NEW r \in RunId, IsOpen(r)
               PROVE  \E q \in RunId : /\ q <= r /\ IsOpen(q) /\ DependencyMet(q)
                                       /\ conversation(q) = conversation(r)
    BY DEF ConversationCanMove
  <2> DEFINE S == {q \in RunId : IsOpen(q) /\ conversation(q) = conversation(r)}
  <2>1. S \in SUBSET Nat /\ S # {}
    BY DEF RunId
  <2>2. PICK q \in S : \A p \in S : q <= p
    BY <2>1, HasLeast
  <2>3. DependencyMet(q)
    <3> SUFFICES ASSUME dependsOn[q] # NoRun PROVE IsTerminal(dependsOn[q])
      BY DEF DependencyMet
    <3>1. /\ dependsOn[q] \in RunId /\ dependsOn[q] < q
          /\ Created(dependsOn[q]) /\ conversation(dependsOn[q]) = conversation(r)
      BY <2>2 DEF ChainInv, DependencyIsOlder, TypeOK
    <3>2. ~IsOpen(dependsOn[q])
      BY <2>2, <3>1 DEF RunId
    <3> QED BY <3>1, <3>2 DEF TypeOK, IsOpen, IsTerminal, Created
  <2> QED BY <2>2, <2>3
<1> QED BY <1>1, ChainAlways, PTL

-----------------------------------------------------------------------------
(* The commit history of a conversation *)

LEMMA CommittedAtIs ==
  ASSUME TypeOK, CommitChain, NEW c \in Conversation, NEW i \in 1 .. version[c]
  PROVE  /\ CommittedAt(c, i) \in Committed(c)
         /\ base[CommittedAt(c, i)] + 1 = i
         /\ \A r \in Committed(c) : base[r] + 1 = i => r = CommittedAt(c, i)
<1>1. \E r \in Committed(c) : base[r] + 1 = i
  BY DEF CommitChain
<1>2. CommittedAt(c, i) \in Committed(c) /\ base[CommittedAt(c, i)] + 1 = i
  BY <1>1 DEF CommittedAt
<1>3. \A r \in Committed(c) : base[r] \in Nat
  BY DEF Committed, RunsOf, TypeOK
<1>4. ASSUME NEW r \in Committed(c), base[r] + 1 = i PROVE r = CommittedAt(c, i)
  <2>1. base[r] = base[CommittedAt(c, i)]
    BY <1>2, <1>3, <1>4
  <2> QED BY <1>2, <2>1 DEF CommitChain
<1> QED BY <1>2, <1>4

\* A step that adds nothing to any conversation's history.
NoCommit ==
  /\ version' = version /\ memory' = memory /\ lastCommitted' = lastCommitted
  /\ \A c \in Conversation : /\ Committed(c)' = Committed(c)
                             /\ \A r \in Committed(c) : base'[r] = base[r]

LEMMA OnlyCompleteCommits ==
  ASSUME TypeOK, RowKeys, [Next]_vars
  PROVE  NoCommit \/ \E r \in RunId : Complete(r)
<1> USE DEF NoCommit, Committed, RunsOf, conversation, Created, TypeOK
<1>1. ASSUME NEW m \in Message, Create(m) PROVE NoCommit
  BY <1>1 DEF Create, IsNextRow
<1>2. ASSUME NEW w \in Worker, NEW r \in RunId, Claim(w, r) PROVE NoCommit
  BY <1>2 DEF Claim, Claimable, IsOpen, OpenStatus, stateVars
<1>3. ASSUME NEW r \in RunId, NEW w \in Worker, Renew(w, r, generation[r]) PROVE NoCommit
  BY <1>3 DEF Renew, rowVars, stateVars
<1>4. ASSUME NEW r \in RunId, NEW w \in Worker, Release(w, r, generation[r]) PROVE NoCommit
  BY <1>4 DEF Release, IsOpen, OpenStatus, rowVars, stateVars
<1>5. ASSUME NEW r \in RunId, LeaseExpires(r) PROVE NoCommit
  BY <1>5 DEF LeaseExpires, rowVars, stateVars
<1>6. ASSUME NEW r \in RunId, NEW e \in ProgressEvent, AppendProgress(r, e) PROVE NoCommit
  BY <1>6 DEF AppendProgress, rowVars, stateVars
<1>7. ASSUME NEW r \in RunId, AppendFailed(r) \/ AppendCancelled(r) PROVE NoCommit
  BY <1>7 DEF AppendFailed, AppendCancelled, Terminate, AcceptsEvents, IsOpen,
              OpenStatus, rowVars, stateVars
<1>8. CASE UNCHANGED vars
  BY <1>8 DEF vars, rowVars, stateVars
<1> QED BY <1>1, <1>2, <1>3, <1>4, <1>5, <1>6, <1>7, <1>8 DEF Next

LEMMA HistoryKept ==
  ASSUME TypeOK, TypeOK', CommitChain, NoCommit
  PROVE  CommitChain' /\ \A c \in Conversation : LedgerOf(c)' = LedgerOf(c)
<1>1. CommitChain'
  <2> SUFFICES ASSUME NEW c \in Conversation
               PROVE  /\ \A r \in Committed(c)' : base'[r] < version'[c]
                      /\ \A r, q \in Committed(c)' : base'[r] = base'[q] => r = q
                      /\ \A i \in 1 .. version'[c] :
                           \E r \in Committed(c)' : base'[r] + 1 = i
    BY DEF CommitChain
  <2> QED BY DEF CommitChain, NoCommit
<1>2. ASSUME NEW c \in Conversation PROVE LedgerOf(c)' = LedgerOf(c)
  <2>1. ASSUME NEW i \in 1 .. version[c] PROVE CommittedAt(c, i)' = CommittedAt(c, i)
    <3>1. CommittedAt(c, i)' \in Committed(c)' /\ base'[CommittedAt(c, i)'] + 1 = i
      <4>1. i \in 1 .. version'[c]
        BY DEF NoCommit
      <4>2. \E r \in Committed(c)' : base'[r] + 1 = i
        BY <1>1, <4>1 DEF CommitChain
      <4> QED BY <4>2 DEF CommittedAt
    <3>2. CommittedAt(c, i)' \in Committed(c) /\ base[CommittedAt(c, i)'] + 1 = i
      BY <3>1 DEF NoCommit
    <3> QED BY <3>2, CommittedAtIs
  <2>2. version'[c] = version[c]
    BY DEF NoCommit
  <2> QED BY <2>1, <2>2 DEF LedgerOf
<1> QED BY <1>1, <1>2

LEMMA HistoryGrows ==
  ASSUME TypeOK, TypeOK', RowKeys, CommitChain, NEW r \in RunId, Complete(r)
  PROVE  /\ CommitChain'
         /\ conversation(r) \in Conversation
         /\ \A c \in Conversation :
              LedgerOf(c)' = IF c = conversation(r) THEN Append(LedgerOf(c), r)
                                                    ELSE LedgerOf(c)
<1> DEFINE d == conversation(r)
<1>1. IsOpen(r) /\ Created(r) /\ base' = base /\ message' = message
  BY DEF Complete, Terminate, AcceptsEvents, IsOpen, OpenStatus, Created, rowVars
<1>2. d \in Conversation
  BY <1>1, ConversationType
<1>3. \A c \in Conversation :
        Committed(c)' = IF c = d THEN Committed(c) \union {r} ELSE Committed(c)
  BY <1>1 DEF Committed, RunsOf, conversation, Created, Complete, Terminate, TypeOK
<1>4. \A c \in Conversation :
        version'[c] = IF c = d THEN version[c] + 1 ELSE version[c]
  BY <1>2 DEF Complete, TypeOK
<1>5. base[r] = version[d] /\ version[d] \in Nat
  BY <1>2 DEF Complete, BaseIsCurrent, TypeOK
<1>6. \A c \in Conversation : \A q \in Committed(c) : base[q] \in Nat /\ base[q] < version[c]
  BY DEF CommitChain, Committed, RunsOf, TypeOK
<1>7. CommitChain'
  <2> SUFFICES ASSUME NEW c \in Conversation
               PROVE  /\ \A q \in Committed(c)' : base'[q] < version'[c]
                      /\ \A p, q \in Committed(c)' : base'[p] = base'[q] => p = q
                      /\ \A i \in 1 .. version'[c] :
                           \E q \in Committed(c)' : base'[q] + 1 = i
    BY DEF CommitChain
  <2>1. CASE c # d
    BY <2>1, <1>1, <1>3, <1>4 DEF CommitChain
  <2>2. CASE c = d
    <3>1. \A q \in Committed(c)' : base'[q] < version'[c]
      BY <2>2, <1>1, <1>3, <1>4, <1>5, <1>6
    <3>2. ASSUME NEW p \in Committed(c)', NEW q \in Committed(c)', base'[p] = base'[q]
          PROVE  p = q
      BY <2>2, <3>2, <1>1, <1>3, <1>5, <1>6 DEF CommitChain
    <3>3. ASSUME NEW i \in 1 .. version'[c]
          PROVE  \E q \in Committed(c)' : base'[q] + 1 = i
      <4>1. CASE i = version[c] + 1
        BY <2>2, <4>1, <1>1, <1>3, <1>5
      <4>2. CASE i # version[c] + 1
        <5>1. i \in 1 .. version[c]
          BY <2>2, <4>2, <1>4, <1>5
        <5> QED BY <2>2, <5>1, <1>1, <1>3 DEF CommitChain
      <4> QED BY <4>1, <4>2
    <3> QED BY <3>1, <3>2, <3>3
  <2> QED BY <2>1, <2>2
<1>8. ASSUME NEW c \in Conversation, NEW i \in 1 .. version'[c],
             NEW q \in Committed(c)', base'[q] + 1 = i
      PROVE  CommittedAt(c, i)' = q
  <2>1. CommittedAt(c, i)' \in Committed(c)' /\ base'[CommittedAt(c, i)'] + 1 = i
    <3>1. \E p \in Committed(c)' : base'[p] + 1 = i
      BY <1>8
    <3> QED BY <3>1 DEF CommittedAt
  <2>2. \A p \in Committed(c)' : base'[p] \in Nat
    BY <1>1, <1>3, <1>5, <1>6
  <2>3. base'[CommittedAt(c, i)'] = base'[q]
    BY <2>1, <2>2, <1>8
  <2> QED BY <2>1, <2>3, <1>7, <1>8 DEF CommitChain
<1>9. ASSUME NEW c \in Conversation, NEW i \in 1 .. version[c]
      PROVE  CommittedAt(c, i)' = CommittedAt(c, i)
  <2>1. CommittedAt(c, i) \in Committed(c) /\ base[CommittedAt(c, i)] + 1 = i
    BY CommittedAtIs
  <2>2. i \in 1 .. version'[c]
    <3>1. version[c] \in Nat
      BY DEF TypeOK
    <3>2. version'[c] = version[c] \/ version'[c] = version[c] + 1
      BY <1>4
    <3> QED BY <3>1, <3>2
  <2>3. CommittedAt(c, i) \in Committed(c)' /\ base'[CommittedAt(c, i)] + 1 = i
    BY <2>1, <1>1, <1>3
  <2> QED BY <2>2, <2>3, <1>8
<1>10. ASSUME NEW c \in Conversation, c = d, NEW n \in Nat, n = version[c]
       PROVE  CommittedAt(c, n + 1)' = r
  <2>1. Committed(c)' = Committed(c) \union {r}
    BY <1>3, <1>10
  <2>2. base'[r] + 1 = n + 1
    BY <1>1, <1>5, <1>10
  <2>3. version'[c] = n + 1
    BY <1>4, <1>10
  <2>4. n + 1 \in 1 .. version'[c]
    BY <2>3
  <2>5. r \in Committed(c)'
    BY <2>1
  <2> QED BY <2>2, <2>4, <2>5, <1>8
<1>11. ASSUME NEW c \in Conversation
       PROVE  LedgerOf(c)' = IF c = d THEN Append(LedgerOf(c), r) ELSE LedgerOf(c)
  <2>1. CASE c # d
    BY <2>1, <1>4, <1>9 DEF LedgerOf
  <2>2. CASE c = d
    <3> DEFINE s == LedgerOf(c)
               t == LedgerOf(c)'
    <3>1. PICK n \in Nat : n = version[c]
      BY DEF TypeOK
    <3>2. s \in Seq(RunId) /\ Len(s) = n
      <4>1. \A i \in 1 .. n : CommittedAt(c, i) \in RunId
        BY <3>1, CommittedAtIs DEF Committed, RunsOf
      <4>2. s \in [1 .. n -> RunId]
        BY <3>1, <4>1 DEF LedgerOf
      <4> HIDE DEF s
      <4> QED BY <4>2, FunctionIsSeq
    <3>3. t = [i \in 1 .. n + 1 |-> CommittedAt(c, i)']
      BY <2>2, <3>1, <1>4 DEF LedgerOf
    <3>4. \A i \in 1 .. n : t[i] = s[i]
      <4>1. s = [i \in 1 .. n |-> CommittedAt(c, i)]
        BY <3>1 DEF LedgerOf
      <4>2. \A i \in 1 .. n : CommittedAt(c, i)' = CommittedAt(c, i)
        BY <3>1, <1>9
      <4> HIDE DEF s, t
      <4> QED BY <3>3, <4>1, <4>2
    <3>5. t[n + 1] = r
      <4>1. CommittedAt(c, n + 1)' = r
        BY <2>2, <3>1, <1>10
      <4> HIDE DEF t
      <4> QED BY <3>3, <4>1
    <3>6. t \in Seq(RunId) /\ Len(t) = n + 1
      <4>1. \A i \in 1 .. n : s[i] \in RunId
        BY <3>2, ElementOfSeq
      <4>2. \A i \in 1 .. n + 1 : t[i] \in RunId
        <5> HIDE DEF s, t
        <5>1. ASSUME NEW i \in 1 .. n + 1 PROVE t[i] \in RunId
          <6>1. CASE i = n + 1
            BY <6>1, <3>5
          <6>2. CASE i # n + 1
            BY <6>2, <4>1, <3>4
          <6> QED BY <6>1, <6>2
        <5> QED BY <5>1
      <4>3. t \in [1 .. n + 1 -> RunId]
        <5> HIDE DEF t
        <5> QED BY <3>3, <4>2
      <4> HIDE DEF t
      <4> QED BY <4>3, FunctionIsSeq
    <3>7. t = Append(s, r)
      <4> HIDE DEF s, t
      <4> QED BY <3>2, <3>4, <3>5, <3>6, ExtensionIsAppend
    <3> QED BY <2>2, <3>7
  <2> QED BY <2>1, <2>2
<1> QED BY <1>2, <1>7, <1>11

LEMMA ChainOfCommitsAlways == Spec => [](TypeOK /\ RowKeys /\ CommitChain)
<1>1. Init => CommitChain
  BY DEF Init, CommitChain, Committed, RunsOf, Created
<1>2. TypeOK /\ RowKeys /\ CommitChain /\ [Next]_vars => CommitChain'
  BY TypeStep, OnlyCompleteCommits, HistoryKept, HistoryGrows
<1> QED BY <1>1, <1>2, TypeInit, TypeStep, PTL DEF Spec

\* Every state_version has exactly one succeeded run that produced it, from the
\* version before it.
THEOREM Commits == Spec => []CommitChain
BY ChainOfCommitsAlways, PTL

-----------------------------------------------------------------------------
(* What the next turn remembers *)

LEMMA LedgerElements ==
  ASSUME TypeOK, CommitChain, NEW c \in Conversation
  PROVE  /\ LedgerOf(c) \in Seq(RunId)
         /\ Len(LedgerOf(c)) = version[c]
         /\ \A i \in 1 .. Len(LedgerOf(c)) : LedgerOf(c)[i] \in Committed(c)
<1>1. PICK n \in Nat : n = version[c]
  BY DEF TypeOK
<1>2. \A i \in 1 .. n : CommittedAt(c, i) \in Committed(c) /\ CommittedAt(c, i) \in RunId
  BY <1>1, CommittedAtIs DEF Committed, RunsOf
<1>3. PICK s : s = LedgerOf(c)
  OBVIOUS
<1>4. s = [i \in 1 .. n |-> CommittedAt(c, i)]
  BY <1>1, <1>3 DEF LedgerOf
<1>5. s \in [1 .. n -> RunId]
  BY <1>2, <1>4
<1>6. s \in Seq(RunId) /\ Len(s) = n
  BY <1>5, FunctionIsSeq
<1>7. \A i \in 1 .. n : s[i] \in Committed(c)
  BY <1>2, <1>4
<1> QED BY <1>1, <1>3, <1>6, <1>7

\* An open run is not remembered yet, so ON CONFLICT(run_id) never fires.
LEMMA OpenIsNotRemembered ==
  ASSUME MemoryHoldsCommits, NEW c \in Conversation, NEW r \in RunId, IsOpen(r)
  PROVE  ~(\E i \in DOMAIN memory[c] : memory[c][i] = r)
BY DEF MemoryHoldsCommits, Committed, IsOpen, OpenStatus

\* The last entries of a sequence of different ones are different.
LEMMA LastOfDistinct ==
  ASSUME NEW T, NEW t \in Seq(T), NEW n \in Nat, NEW S,
         \A i \in 1 .. Len(t) : t[i] \in S,
         \A i, j \in 1 .. Len(t) : t[i] = t[j] => i = j
  PROVE  /\ LastOf(t, n) \in Seq(T)
         /\ Len(LastOf(t, n)) = IF Len(t) <= n THEN Len(t) ELSE n
         /\ \A i \in DOMAIN LastOf(t, n) : LastOf(t, n)[i] \in S
         /\ \A i, j \in DOMAIN LastOf(t, n) : LastOf(t, n)[i] = LastOf(t, n)[j] => i = j
<1>0. /\ LastOf(t, n) \in Seq(T)
      /\ Len(LastOf(t, n)) = IF Len(t) <= n THEN Len(t) ELSE n
      /\ \A i \in 1 .. Len(LastOf(t, n)) :
           LastOf(t, n)[i] = t[Len(t) - Len(LastOf(t, n)) + i]
  BY LastOfProperties, SMTT(20)
<1>1. PICK m : m = LastOf(t, n)
  OBVIOUS
<1>2. PICK lt \in Nat : lt = Len(t)
  BY LenProperties
<1>3. PICK lm \in Nat : lm = IF lt <= n THEN lt ELSE n
  OBVIOUS
<1>4. /\ m \in Seq(T) /\ Len(m) = lm
      /\ \A i \in 1 .. lm : m[i] = t[lt - lm + i]
  <2>1. /\ m \in Seq(T) /\ Len(m) = IF Len(t) <= n THEN Len(t) ELSE n
        /\ \A i \in 1 .. Len(m) : m[i] = t[Len(t) - Len(m) + i]
    BY <1>0, <1>1
  <2>2. Len(m) = lm
    BY <1>2, <1>3, <2>1
  <2> QED BY <1>2, <2>1, <2>2
<1>5. DOMAIN m = 1 .. lm
  BY <1>4, LenProperties
<1>6. \A i \in 1 .. lm : lt - lm + i \in 1 .. lt
  BY <1>3
<1>7. \A i \in 1 .. lm : m[i] \in S
  BY <1>2, <1>4, <1>6
<1>8. ASSUME NEW i \in 1 .. lm, NEW j \in 1 .. lm, m[i] = m[j] PROVE i = j
  <2>1. t[lt - lm + i] = t[lt - lm + j]
    BY <1>4, <1>8
  <2>2. lt - lm + i \in 1 .. Len(t) /\ lt - lm + j \in 1 .. Len(t)
    BY <1>2, <1>6
  <2>3. lt - lm + i = lt - lm + j
    BY <2>1, <2>2
  <2> QED BY <1>2, <1>3, <2>3
<1> QED BY <1>1, <1>2, <1>3, <1>4, <1>5, <1>7, <1>8

LEMMA RecallGrows ==
  ASSUME TypeOK, TypeOK', RowKeys, CommitChain, MemoryHoldsCommits,
         NEW r \in RunId, Complete(r)
  PROVE  MemoryHoldsCommits'
<1>1. PICK d \in Conversation : d = conversation(r)
  BY HistoryGrows
<1>2. IsOpen(r) /\ Created(r)
  BY DEF Complete, Terminate, AcceptsEvents, IsOpen, OpenStatus, Created
<1>3. \A c \in Conversation :
        Committed(c)' = IF c = d THEN Committed(c) \union {r} ELSE Committed(c)
  BY <1>1, <1>2 DEF Committed, RunsOf, conversation, Created, Complete, Terminate, TypeOK, rowVars
<1>4. \A c \in Conversation :
        version'[c] = IF c = d THEN version[c] + 1 ELSE version[c]
  BY <1>1 DEF Complete, TypeOK
<1>5. PICK t \in WithEntry(memory[d], r) : memory' = [memory EXCEPT ![d] = LastOf(t, MemoryLimit)]
  BY <1>1 DEF Complete, Remember
<1> SUFFICES ASSUME NEW c \in Conversation
             PROVE  /\ \A i \in DOMAIN memory'[c] : memory'[c][i] \in Committed(c)'
                    /\ \A i, j \in DOMAIN memory'[c] : memory'[c][i] = memory'[c][j] => i = j
                    /\ Len(memory'[c]) = IF version'[c] <= MemoryLimit THEN version'[c]
                                         ELSE MemoryLimit
  BY DEF MemoryHoldsCommits
<1>6. CASE c # d
  <2>1. memory'[c] = memory[c] /\ Committed(c)' = Committed(c) /\ version'[c] = version[c]
    BY <1>3, <1>4, <1>5, <1>6 DEF TypeOK
  <2> QED BY <2>1 DEF MemoryHoldsCommits
<1>7. CASE c = d
  <2>1. PICK m : m = memory[d]
    OBVIOUS
  <2>2. PICK S : S = Committed(d)
    OBVIOUS
  <2>3. m \in Seq(RunId)
    BY <1>1, <2>1 DEF TypeOK
  <2>4. PICK n \in Nat : n = Len(m)
    BY <2>3, LenProperties
  <2>5. DOMAIN m = 1 .. n
    BY <2>3, <2>4, LenProperties
  <2>6. ~(\E i \in DOMAIN m : m[i] = r)
    BY <1>1, <1>2, <2>1, OpenIsNotRemembered
  <2>7. /\ \A i \in 1 .. n : m[i] \in S
        /\ \A i, j \in 1 .. n : m[i] = m[j] => i = j
    BY <1>1, <2>1, <2>2, <2>5 DEF MemoryHoldsCommits
  <2>8. /\ t \in Seq(RunId) /\ Len(t) = n + 1
        /\ \E k \in 0 .. n : \A j \in 1 .. n + 1 :
             t[j] = IF j <= k THEN m[j] ELSE IF j = k + 1 THEN r ELSE m[j - 1]
    <3>1. t \in WithEntry(m, r)
      BY <1>5, <2>1
    <3>2. /\ t \in Seq(RunId) /\ Len(t) = Len(m) + 1
          /\ \E k \in 0 .. Len(m) : \A j \in 1 .. Len(m) + 1 :
               t[j] = IF j <= k THEN m[j] ELSE IF j = k + 1 THEN r ELSE m[j - 1]
      BY <2>3, <2>6, <3>1, WithEntryIs
    <3> QED BY <2>4, <3>2
  <2>9. PICK k \in 0 .. n : \A j \in 1 .. n + 1 :
             t[j] = IF j <= k THEN m[j] ELSE IF j = k + 1 THEN r ELSE m[j - 1]
    BY <2>8
  <2>10. \A i \in 1 .. n : m[i] # r
    BY <2>5, <2>6
  <2>11. \A i \in 1 .. Len(t) : t[i] \in S \union {r}
    <3>1. ASSUME NEW j \in 1 .. n + 1 PROVE t[j] \in S \union {r}
      <4>1. CASE j <= k
        BY <2>7, <2>9, <4>1
      <4>2. CASE j = k + 1
        BY <2>9, <4>2
      <4>3. CASE j > k + 1
        BY <2>7, <2>9, <4>3
      <4> QED BY <4>1, <4>2, <4>3
    <3> QED BY <2>8, <3>1
  <2>12. \A i, j \in 1 .. Len(t) : t[i] = t[j] => i = j
    <3>1. ASSUME NEW i \in 1 .. n + 1, NEW j \in 1 .. n + 1, t[i] = t[j], i < j
          PROVE  FALSE
      <4>1. CASE j <= k
        BY <2>7, <2>9, <3>1, <4>1
      <4>2. CASE j = k + 1
        <5>1. t[j] = r /\ t[i] = m[i] /\ i \in 1 .. n
          BY <2>9, <3>1, <4>2
        <5> QED BY <2>10, <3>1, <5>1
      <4>3. CASE j > k + 1 /\ i <= k
        <5>1. t[j] = m[j - 1] /\ t[i] = m[i] /\ i \in 1 .. n /\ j - 1 \in 1 .. n /\ i # j - 1
          BY <2>9, <3>1, <4>3
        <5> QED BY <2>7, <3>1, <5>1
      <4>4. CASE j > k + 1 /\ i = k + 1
        <5>1. t[j] = m[j - 1] /\ t[i] = r /\ j - 1 \in 1 .. n
          BY <2>9, <3>1, <4>4
        <5> QED BY <2>10, <3>1, <5>1
      <4>5. CASE j > k + 1 /\ i > k + 1
        <5>1. /\ t[j] = m[j - 1] /\ t[i] = m[i - 1] /\ i - 1 \in 1 .. n /\ j - 1 \in 1 .. n
              /\ i - 1 # j - 1
          BY <2>9, <3>1, <4>5
        <5> QED BY <2>7, <3>1, <5>1
      <4> QED BY <4>1, <4>2, <4>3, <4>4, <4>5
    <3>2. ASSUME NEW i \in 1 .. n + 1, NEW j \in 1 .. n + 1, t[i] = t[j] PROVE i = j
      BY <3>1, <3>2
    <3> QED BY <2>8, <3>2
  <2>13. memory'[d] = LastOf(t, MemoryLimit)
    BY <1>1, <1>5 DEF TypeOK
  <2>14. PICK u : u = LastOf(t, MemoryLimit)
    OBVIOUS
  <2>15. /\ Len(u) = IF n + 1 <= MemoryLimit THEN n + 1 ELSE MemoryLimit
         /\ \A i \in DOMAIN u : u[i] \in S \union {r}
         /\ \A i, j \in DOMAIN u : u[i] = u[j] => i = j
    <3>1. PICK P : P = S \union {r}
      OBVIOUS
    <3>2. \A i \in 1 .. Len(t) : t[i] \in P
      BY <2>11, <3>1
    <3>3. MemoryLimit \in Nat
      BY StoreAssumption
    <3>4. /\ Len(u) = IF Len(t) <= MemoryLimit THEN Len(t) ELSE MemoryLimit
          /\ \A i \in DOMAIN u : u[i] \in P
          /\ \A i, j \in DOMAIN u : u[i] = u[j] => i = j
      <4>1. t \in Seq(RunId)
        BY <2>8
      <4>2. \A i, j \in 1 .. Len(t) : t[i] = t[j] => i = j
        BY <2>12
      <4>3. /\ Len(LastOf(t, MemoryLimit)) = IF Len(t) <= MemoryLimit THEN Len(t) ELSE MemoryLimit
            /\ \A i \in DOMAIN LastOf(t, MemoryLimit) : LastOf(t, MemoryLimit)[i] \in P
            /\ \A i, j \in DOMAIN LastOf(t, MemoryLimit) :
                 LastOf(t, MemoryLimit)[i] = LastOf(t, MemoryLimit)[j] => i = j
        BY <3>2, <3>3, <4>1, <4>2, LastOfDistinct
      <4> QED BY <2>14, <4>3
    <3> QED BY <2>8, <3>1, <3>4
  <2>16. n = IF version[d] <= MemoryLimit THEN version[d] ELSE MemoryLimit
    BY <1>1, <2>1, <2>4 DEF MemoryHoldsCommits
  <2>17. Len(u) = IF version'[d] <= MemoryLimit THEN version'[d] ELSE MemoryLimit
    <3>1. PICK v \in Nat : v = version[d]
      BY <1>1 DEF TypeOK
    <3>2. PICK w \in Nat : w = MemoryLimit
      BY StoreAssumption
    <3>3. version'[d] = v + 1
      BY <1>1, <1>4, <3>1
    <3>4. n = IF v <= w THEN v ELSE w
      BY <2>16, <3>1, <3>2
    <3>5. Len(u) = IF n + 1 <= w THEN n + 1 ELSE w
      BY <2>15, <3>2
    <3>6. Len(u) = IF v + 1 <= w THEN v + 1 ELSE w
      BY <3>4, <3>5
    <3> QED BY <3>2, <3>3, <3>6
  <2>18. Committed(d)' = S \union {r}
    BY <1>1, <1>3, <2>2
  <2> QED BY <1>7, <2>13, <2>14, <2>15, <2>17, <2>18
<1> QED BY <1>6, <1>7

LEMMA RecallKept ==
  ASSUME MemoryHoldsCommits, NoCommit
  PROVE  MemoryHoldsCommits'
BY DEF MemoryHoldsCommits, NoCommit

LEMMA RecallInit == Init => MemoryHoldsCommits
BY EmptySeq, StoreAssumption DEF Init, MemoryHoldsCommits

LEMMA RecallAlways == Spec => []MemoryHoldsCommits
<1>1. TypeOK /\ TypeOK' /\ RowKeys /\ CommitChain /\ MemoryHoldsCommits /\ [Next]_vars
        => MemoryHoldsCommits'
  BY OnlyCompleteCommits, RecallGrows, RecallKept
<1> QED BY <1>1, RecallInit, ChainOfCommitsAlways, PTL DEF Spec

LEMMA MemoryGrows ==
  ASSUME TypeOK, TypeOK', RowKeys, CommitChain, MemoryHoldsCommits, MemoryIsEndOfLedger,
         NEW r \in RunId, Complete(r)
  PROVE  MemoryIsEndOfLedger'
<1>1. conversation(r) \in Conversation
  BY HistoryGrows
<1>2. IsOpen(r)
  BY DEF Complete, Terminate, AcceptsEvents
<1> SUFFICES ASSUME NEW c \in Conversation
             PROVE  /\ OneClock => memory'[c] = LastOf(LedgerOf(c)', MemoryLimit)
                    /\ lastCommitted'[c] = IF version'[c] = 0 THEN NoRun
                                           ELSE LedgerOf(c)'[version'[c]]
  BY DEF MemoryIsEndOfLedger
<1>3. CASE c # conversation(r)
  <2>1. LedgerOf(c)' = LedgerOf(c)
    BY <1>3, HistoryGrows
  <2>2. memory'[c] = memory[c] /\ lastCommitted'[c] = lastCommitted[c]
        /\ version'[c] = version[c]
    BY <1>3 DEF Complete, Remember, TypeOK
  <2> QED BY <2>1, <2>2 DEF MemoryIsEndOfLedger
<1>4. CASE c = conversation(r)
  <2>1. PICK s : s = LedgerOf(c)
    OBVIOUS
  <2>2. PICK n \in Nat : n = version[c]
    BY DEF TypeOK
  <2>3. s \in Seq(RunId) /\ Len(s) = n
    BY <2>1, <2>2, LedgerElements
  <2>4. LedgerOf(c)' = Append(s, r)
    BY <1>4, <2>1, HistoryGrows
  <2>5. ASSUME OneClock PROVE memory[c] = LastOf(s, MemoryLimit)
    BY <2>1, <2>5 DEF MemoryIsEndOfLedger
  <2>6. ASSUME OneClock PROVE memory'[c] = LastOf(Append(LastOf(s, MemoryLimit), r), MemoryLimit)
    <3>1. ~(\E i \in DOMAIN memory[c] : memory[c][i] = r)
      BY <1>2, OpenIsNotRemembered
    <3>2. memory'[c] = LastOf(Append(memory[c], r), MemoryLimit)
      <4>1. memory'[c] \in {LastOf(m, MemoryLimit) : m \in WithEntry(memory[c], r)}
        BY <1>4 DEF Complete, Remember, TypeOK
      <4>2. WithEntry(memory[c], r) = {Append(memory[c], r)}
        BY <2>6, <3>1 DEF WithEntry
      <4> QED BY <4>1, <4>2
    <3> QED BY <2>5, <2>6, <3>2
  <2>7. OneClock => memory'[c] = LastOf(Append(s, r), MemoryLimit)
    BY <2>3, <2>6, LastOfAppend, StoreAssumption
  <2>8. version'[c] = n + 1 /\ lastCommitted'[c] = r
    BY <1>4, <2>2 DEF Complete, TypeOK
  <2>9. Append(s, r)[n + 1] = r
    BY <2>3, AppendProperties
  <2> QED BY <2>4, <2>7, <2>8, <2>9
<1> QED BY <1>3, <1>4

LEMMA MemoryKept ==
  ASSUME TypeOK, TypeOK', CommitChain, MemoryIsEndOfLedger, NoCommit
  PROVE  MemoryIsEndOfLedger'
<1>1. \A c \in Conversation : LedgerOf(c)' = LedgerOf(c)
  BY HistoryKept
<1>2. memory' = memory /\ lastCommitted' = lastCommitted /\ version' = version
  BY DEF NoCommit
<1> QED BY <1>1, <1>2 DEF MemoryIsEndOfLedger

LEMMA MemoryInit == Init => MemoryIsEndOfLedger
<1> SUFFICES ASSUME Init, NEW c \in Conversation
             PROVE  /\ memory[c] = LastOf(LedgerOf(c), MemoryLimit)
                    /\ version[c] = 0 /\ lastCommitted[c] = NoRun
  BY DEF MemoryIsEndOfLedger
<1>1. memory[c] = <<>> /\ version[c] = 0 /\ lastCommitted[c] = NoRun
  BY DEF Init
<1>2. PICK s : s = LedgerOf(c)
  OBVIOUS
<1>3. s \in [1 .. 0 -> RunId]
  BY <1>1, <1>2 DEF LedgerOf
<1>4. s \in Seq(RunId) /\ Len(s) = 0
  BY <1>3, FunctionIsSeq
<1>5. s = <<>>
  BY <1>4, EmptySeq
<1>6. LastOf(s, MemoryLimit) = s
  BY <1>4, StoreAssumption DEF LastOf
<1> QED BY <1>1, <1>2, <1>5, <1>6

\* Where created_at follows the order of the commits, what a later turn reads as
\* memory is exactly the newest part of the chain of committed runs; and, whatever
\* the clock, last_committed_run_id is its last run.
THEOREM Remembers == Spec => []MemoryIsEndOfLedger
<1>1. TypeOK /\ TypeOK' /\ RowKeys /\ CommitChain /\ MemoryHoldsCommits /\ MemoryIsEndOfLedger
        /\ [Next]_vars => MemoryIsEndOfLedger'
  BY OnlyCompleteCommits, MemoryGrows, MemoryKept
<1> QED BY <1>1, MemoryInit, RecallAlways, ChainOfCommitsAlways, PTL DEF Spec

-----------------------------------------------------------------------------
(* Refinement: every step of the store is a step of ConversationLedger *)

History == [c \in Conversation |-> LedgerOf(c)]

LEMMA InitMaps == Init => Ledger!LedgerInit
<1> SUFFICES ASSUME Init PROVE Ledger!LedgerInit
  OBVIOUS
<1>1. ASSUME NEW c \in Conversation PROVE LedgerOf(c) = <<>>
  <2>1. PICK s : s = LedgerOf(c)
    OBVIOUS
  <2>2. s \in [1 .. 0 -> RunId]
    BY <2>1 DEF LedgerOf, Init
  <2>3. s \in Seq(RunId) /\ Len(s) = 0
    BY <2>2, FunctionIsSeq
  <2> QED BY <2>1, <2>3, EmptySeq
<1> QED BY <1>1 DEF Init, Ledger!LedgerInit

LEMMA StepMaps ==
  ASSUME TypeOK, TypeOK', RowKeys, CommitChain, [Next]_vars
  PROVE  [Ledger!LedgerNext]_(Ledger!ledgerVars)
<1>1. NoCommit => History' = History
  BY HistoryKept DEF History
<1>2. ASSUME NEW m \in Message, Create(m)
      PROVE  [Ledger!LedgerNext]_(Ledger!ledgerVars)
  <2>1. NoCommit
    BY <1>2 DEF NoCommit, Create, IsNextRow, Committed, RunsOf, conversation, Created, TypeOK
  <2>2. PICK r \in RunId : IsNextRow(r) /\ status' = [status EXCEPT ![r] = "QUEUED"]
                           /\ log' = log
    BY <1>2 DEF Create
  <2>3. Ledger!Accept(r)
    BY <1>1, <2>1, <2>2 DEF Ledger!Accept, IsNextRow, Created, History
  <2> QED BY <2>3 DEF Ledger!LedgerNext
<1>3. ASSUME NEW w \in Worker, NEW r \in RunId,
             Claim(w, r) \/ Release(w, r, generation[r])
      PROVE  [Ledger!LedgerNext]_(Ledger!ledgerVars)
  <2>1. NoCommit
    BY <1>3 DEF NoCommit, Claim, Release, Claimable, IsOpen, OpenStatus, stateVars, rowVars,
                Committed, RunsOf, conversation, Created, TypeOK
  <2>2. IsOpen(r) /\ log' = log
        /\ \E s \in OpenStatus : status' = [status EXCEPT ![r] = s]
    BY <1>3 DEF Claim, Release, Claimable, OpenStatus
  <2>3. Ledger!Schedule(r)
    BY <1>1, <2>1, <2>2 DEF Ledger!Schedule, Ledger!Open, IsOpen, OpenStatus, History
  <2> QED BY <2>3 DEF Ledger!LedgerNext
<1>4. ASSUME \/ \E r \in RunId : \/ LeaseExpires(r)
                                 \/ \E w \in Worker : Renew(w, r, generation[r])
             \/ UNCHANGED vars
      PROVE  [Ledger!LedgerNext]_(Ledger!ledgerVars)
  <2>1. NoCommit
    BY <1>4 DEF NoCommit, Renew, LeaseExpires, vars, stateVars, rowVars,
                Committed, RunsOf, conversation, Created, TypeOK
  <2>2. status' = status /\ log' = log
    BY <1>4 DEF Renew, LeaseExpires, vars
  <2> QED BY <1>1, <2>1, <2>2 DEF Ledger!ledgerVars, History
<1>5. ASSUME NEW r \in RunId, NEW e \in ProgressEvent, AppendProgress(r, e)
      PROVE  [Ledger!LedgerNext]_(Ledger!ledgerVars)
  <2>1. NoCommit
    BY <1>5 DEF NoCommit, AppendProgress, stateVars, rowVars,
                Committed, RunsOf, conversation, Created, TypeOK
  <2>2. Ledger!Publish(r, e)
    BY <1>1, <1>5, <2>1 DEF AppendProgress, AcceptsEvents, Ledger!Publish, Ledger!Open,
                            IsOpen, OpenStatus, History
  <2> QED BY <2>2 DEF Ledger!LedgerNext
<1>6. ASSUME NEW r \in RunId, AppendFailed(r) \/ AppendCancelled(r)
      PROVE  [Ledger!LedgerNext]_(Ledger!ledgerVars)
  <2>1. NoCommit
    BY <1>6 DEF NoCommit, AppendFailed, AppendCancelled, Terminate, AcceptsEvents, IsOpen,
                OpenStatus, stateVars, rowVars, Committed, RunsOf, conversation, Created, TypeOK
  <2>2. CASE AppendFailed(r)
    <3>1. Ledger!Abort(r, "run.failed")
      BY <1>1, <2>1, <2>2 DEF AppendFailed, Terminate, AcceptsEvents, IsOpen, OpenStatus,
                              Ledger!Abort, Ledger!Open, Ledger!OutcomeOf, History
    <3> QED BY <3>1 DEF Ledger!LedgerNext
  <2>3. CASE AppendCancelled(r)
    <3>1. Ledger!Abort(r, "run.cancelled")
      BY <1>1, <2>1, <2>3 DEF AppendCancelled, Terminate, AcceptsEvents, IsOpen, OpenStatus,
                              Ledger!Abort, Ledger!Open, Ledger!OutcomeOf, History
    <3> QED BY <3>1 DEF Ledger!LedgerNext
  <2> QED BY <1>6, <2>2, <2>3
<1>7. ASSUME NEW r \in RunId, Complete(r)
      PROVE  [Ledger!LedgerNext]_(Ledger!ledgerVars)
  <2>1. PICK c \in Conversation : c = conversation(r)
    BY <1>7, HistoryGrows
  <2>2. History' = [History EXCEPT ![c] = Append(@, r)]
    BY <1>7, <2>1, HistoryGrows DEF History
  <2>3. Ledger!Commit(r, c)
    BY <1>7, <2>2 DEF Complete, Terminate, AcceptsEvents, IsOpen, OpenStatus,
                      Ledger!Commit, Ledger!Open, History
  <2> QED BY <2>3 DEF Ledger!LedgerNext
<1> QED BY <1>2, <1>3, <1>4, <1>5, <1>6, <1>7 DEF Next

\* Every behaviour of the store, its leases, zombies and retries hidden, is a
\* behaviour of ConversationLedger.
THEOREM LedgerRefinement == Spec => ImplementsLedger
<1> QED BY InitMaps, StepMaps, TypeStep, ChainOfCommitsAlways, PTL
        DEF Spec, ImplementsLedger, Ledger!LedgerSpec
=============================================================================
