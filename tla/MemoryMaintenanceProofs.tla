---------------------- MODULE MemoryMaintenanceProofs ----------------------
(***************************************************************************)
(* Theorems about MemoryMaintenance for every set of types, records and    *)
(* workers and every limit.                                                *)
(***************************************************************************)
EXTENDS MemoryMaintenance, TLAPS

-----------------------------------------------------------------------------
\* The entities and rows the operators build.
Entity == [key: Jobs \cup {NoJob}, cursor: Nat, attempts: Nat]
Batch == [todo: SUBSET Records, next: Nat, rest: {"none", "some"}]

\* The rows that build, progress, complete, retry and fail leave.
LEMMA RowTypes ==
    /\ Absent \in Row /\ Built \in Row
    /\ NoEntity \in Entity /\ NothingFound \in Batch
    /\ \A job \in Entity : /\ Completed(job) \in Row
                           /\ Retried(job) \in Row
                           /\ FailedRow(job) \in Row
                           /\ \A c \in Nat : Progressed(job, c) \in Row
<1> USE DEF Row, Status, Entity, Batch
<1>1. Absent \in Row
  BY DEF Absent
<1>2. Built \in Row
  BY <1>1 DEF Built
<1>3. NoEntity \in Entity /\ NothingFound \in Batch
  BY DEF NoEntity, NothingFound
<1>4. ASSUME NEW job \in Entity, NEW c \in Nat
      PROVE  /\ Completed(job) \in Row /\ Retried(job) \in Row
             /\ FailedRow(job) \in Row /\ Progressed(job, c) \in Row
  <2>c. job.cursor \in Nat /\ job.attempts \in Nat
    OBVIOUS
  <2>1. Completed(job) \in Row
    BY <1>1, <2>c DEF Completed
  <2>e. ASSUME NEW d \in Nat, NEW n \in Nat, NEW st \in {"scheduled", "failed"}
        PROVE  [Absent EXCEPT !.status = st, !.cursor = d, !.attempts = n] \in Row
    BY <1>1
  <2>n. job.attempts + 1 \in Nat
    BY <2>c
  <2>3. Retried(job) \in Row
    BY <2>c, <2>e, <2>n DEF Retried
  <2>4. FailedRow(job) \in Row
    BY <2>c, <2>e, <2>n DEF FailedRow
  <2>2. Progressed(job, c) \in Row
    BY <1>2 DEF Progressed
  <2> QED
    BY <2>1, <2>2, <2>3, <2>4
<1> QED
  BY <1>1, <1>2, <1>3, <1>4

\* The initial states have the types.
LEMMA InitType == Init => TypeOK
BY RowTypes, NoJobAssumption DEF Init, TypeOK, NoEntity, Entity, Batch

\* The part of the type invariant that is about one worker's variables.
WorkerType ==
    /\ pc \in [Workers -> {"idle", "listing", "claiming", "running", "working"}]
    /\ listed \in [Workers -> SUBSET Jobs]
    /\ claimedAny \in [Workers -> {"yes", "no"}]
    /\ hand \in [Workers -> Entity]
    /\ found \in [Workers -> Batch]
    /\ processed \in [Workers -> Nat]
    /\ \A w \in Workers : hand[w].key = NoJob <=> pc[w] \notin {"running", "working"}

DataType ==
    /\ day \in Nat
    /\ rows \in [Jobs -> Row]
    /\ records \in SUBSET Records
    /\ owed \in [Jobs -> SUBSET Records]
    /\ redone \in SUBSET Jobs
    /\ done \in [Jobs -> SUBSET Records]
    /\ faults \in Nat

\* The types split into those of the workers and those of the data.
LEMMA TypeParts == TypeOK <=> WorkerType /\ DataType
BY DEF TypeOK, WorkerType, DataType, Entity, Batch

\* Putting the work away, for the next listed job or for good.
LEMMA NextListedType ==
    ASSUME WorkerType, NEW w \in Workers, NextListed(w)
    PROVE  WorkerType'
BY RowTypes DEF WorkerType, NextListed, NoEntity

\* A worker whose tick ends.
LEMMA IdleType ==
    ASSUME WorkerType, NEW w \in Workers, Idle(w)
    PROVE  WorkerType'
BY RowTypes DEF WorkerType, Idle, NoEntity

\* Each action keeps the types.
LEMMA NextType == TypeOK /\ [Next]_vars => TypeOK'
<1> SUFFICES ASSUME TypeOK, [Next]_vars PROVE TypeOK'
  OBVIOUS
<1> USE LimitsAssumption, RecordsAssumption, NoJobAssumption
<1>w. WorkerType /\ DataType
  BY TypeParts
<1> SUFFICES WorkerType' /\ DataType'
  BY TypeParts, PTL
<1>1. CASE Environment
  <2>1. WorkerType'
    BY <1>1, <1>w DEF Environment, NextDay, BecomeDue, LeaseLapses, RecordAppears,
                      RecordLeaves, workerVars, WorkerType
  <2>2. ASSUME NEW k \in Jobs, BecomeDue(k) \/ LeaseLapses(k) PROVE DataType'
    <3>1. rows' \in [Jobs -> Row]
      BY <2>2, <1>w DEF BecomeDue, LeaseLapses, DataType, Row
    <3>2. faults' \in Nat
      BY <2>2, <1>w DEF BecomeDue, LeaseLapses, DataType
    <3> QED
      BY <2>2, <3>1, <3>2, <1>w DEF BecomeDue, LeaseLapses, DataType, historyVars
  <2>3. ASSUME NEW i \in Records, RecordAppears(i) \/ RecordLeaves(i) PROVE DataType'
    BY <2>3, <1>w DEF RecordAppears, RecordLeaves, DataType, historyVars
  <2>4. ASSUME NextDay PROVE DataType'
    BY <2>4, <1>w DEF NextDay, DataType, historyVars
  <2> QED
    BY <1>1, <2>1, <2>2, <2>3, <2>4 DEF Environment
<1>2. ASSUME NEW w \in Workers, Tick(w) PROVE WorkerType' /\ DataType'
  <2>h. hand[w] \in Entity /\ found[w] \in Batch
    BY <1>w DEF WorkerType
  <2>1. CASE StartTick(w)
    <3>1. rows' \in [Jobs -> Row] /\ owed' \in [Jobs -> SUBSET Records]
      BY <2>1, <1>w, RowTypes DEF StartTick, DataType
    <3> QED
      BY <2>1, <3>1, <1>w DEF StartTick, DataType, WorkerType
  <2>2. CASE EndListing(w)
    BY <2>2, <1>w DEF EndListing, DataType, WorkerType, historyVars
  <2>3. CASE EndTick(w)
    BY <2>3, <1>w, IdleType DEF EndTick, DataType, historyVars
  <2>4. ASSUME NEW some \in SUBSET Jobs, ListDue(w, some) PROVE WorkerType' /\ DataType'
    BY <2>4, <1>w DEF ListDue, DataType, WorkerType, historyVars
  <2>5. ASSUME NEW k \in Jobs, Claim(w, k) PROVE WorkerType' /\ DataType'
    <3>r. [rows[k] EXCEPT !.status = "claimed", !.lease = "live", !.due = "passed", !.owner = w] \in Row
      <4>1. rows[k] \in Row
        BY <1>w DEF DataType
      <4> QED
        BY <4>1 DEF Row, Status
    <3>1. rows' \in [Jobs -> Row]
      BY <2>5, <3>r, <1>w DEF Claim, DataType
    <3>2. [key |-> k, cursor |-> rows[k].cursor, attempts |-> rows[k].attempts] \in Entity
      BY <1>w DEF DataType, Row, Entity
    <3>3. WorkerType'
      BY <2>5, <3>2, <1>w DEF Claim, WorkerType
    <3> QED
      BY <2>5, <3>1, <3>3, <1>w DEF Claim, DataType, historyVars
  <2>6. ASSUME NEW k \in Jobs, ClaimRefused(w, k) PROVE WorkerType' /\ DataType'
    BY <2>6, <1>w DEF ClaimRefused, DataType, WorkerType, historyVars
  <2>7. ASSUME NEW batch \in SUBSET Records, NEW next \in batch \cup {hand[w].cursor},
               ReadBatch(w, batch, next)
        PROVE  WorkerType' /\ DataType'
    <3>1. next \in Nat
      BY <2>h DEF Entity
    <3>2. [todo |-> batch, next |-> next,
           rest |-> IF batch = After(hand[w].cursor) THEN "none" ELSE "some"] \in Batch
      BY <3>1 DEF Batch
    <3>3. WorkerType'
      BY <2>7, <3>2, <1>w DEF ReadBatch, WorkerType
    <3> QED
      BY <2>7, <3>3, <1>w DEF ReadBatch, DataType, historyVars
  <2>8. CASE CommitBatch(w)
    <3>1. found[w].todo \in SUBSET Records /\ found[w].next \in Nat /\ hand[w].key \in Jobs
      BY <2>8, <2>h, <1>w DEF CommitBatch, Batch, WorkerType, Entity
    <3>2. rows' \in [Jobs -> Row]
      BY <2>8, <3>1, <2>h, <1>w, RowTypes DEF CommitBatch, DataType
    <3>3. /\ owed' \in [Jobs -> SUBSET Records] /\ done' \in [Jobs -> SUBSET Records]
          /\ redone' \in SUBSET Jobs
      BY <2>8, <3>1, <1>w DEF CommitBatch, Work, DataType
    <3> QED
      BY <2>8, <3>2, <3>3, <1>w, NextListedType DEF CommitBatch, DataType
  <2>9. CASE Retry(w) \/ Fail(w)
    <3>1. rows' \in [Jobs -> Row]
      BY <2>9, <2>h, <1>w, RowTypes DEF Retry, Fail, DataType
    <3> QED
      BY <2>9, <3>1, <1>w, NextListedType DEF Retry, Fail, DataType, historyVars
  <2> QED
    BY <1>2, <2>1, <2>2, <2>3, <2>4, <2>5, <2>6, <2>7, <2>8, <2>9 DEF Tick
<1>3. ASSUME NEW w \in Workers, Crash(w) PROVE WorkerType' /\ DataType'
  BY <1>3, <1>w, IdleType DEF Crash, DataType, historyVars
<1>4. CASE UNCHANGED vars
  BY <1>4, <1>w DEF vars, workerVars, historyVars, WorkerType, DataType
<1> QED
  BY <1>1, <1>2, <1>3, <1>4 DEF Next

\* Every variable keeps its type, and a worker has a job in hand exactly
\* between its claim and the commit of its outcome (run_due_jobs).
THEOREM TypeCorrect == Spec => []TypeOK
<1>1. Init => TypeOK
  BY InitType
<1>2. TypeOK /\ [Next]_vars => TypeOK'
  BY NextType
<1> QED
  BY <1>1, <1>2, PTL DEF Spec

-----------------------------------------------------------------------------
(* What each step may do to one row, whatever the number of workers. *)

\* The outcome of the entity in worker w's hand written over its row.
Outcome(w, row) ==
    LET job == hand[w] IN
    \/ row = Completed(job) /\ CommitBatch(w) /\ found[w].rest = "none"
    \/ row = Progressed(job, found[w].next) /\ CommitBatch(w) /\ found[w].rest = "some"
    \/ row = Retried(job) /\ Retry(w) /\ job.attempts + 1 < MaxAttempts
    \/ row = FailedRow(job) /\ Fail(w)

\* What a step may make of a row: build it, change its lease, claim it, or write an outcome over it.
LEMMA RowSteps ==
    ASSUME TypeOK, [Next]_vars, NEW k \in Jobs
    PROVE  \/ rows'[k] = rows[k]
           \/ rows'[k] = Built /\ rows[k].status = "absent" /\ owed'[k] \subseteq records
           \/ /\ rows'[k].status = rows[k].status
              /\ rows'[k].cursor = rows[k].cursor /\ rows'[k].attempts = rows[k].attempts
              /\ rows[k].status \in {"scheduled", "claimed"}
           \/ /\ Due(k) /\ rows'[k].status = "claimed"
              /\ rows'[k].cursor = rows[k].cursor /\ rows'[k].attempts = rows[k].attempts
           \/ \E w \in Workers : hand[w].key = k /\ Outcome(w, rows'[k])
<1> DEFINE Shape == \/ rows'[k] = rows[k]
                    \/ rows'[k] = Built /\ rows[k].status = "absent" /\ owed'[k] \subseteq records
                    \/ /\ rows'[k].status = rows[k].status
                       /\ rows'[k].cursor = rows[k].cursor
                       /\ rows'[k].attempts = rows[k].attempts
                       /\ rows[k].status \in {"scheduled", "claimed"}
                    \/ /\ Due(k) /\ rows'[k].status = "claimed"
                       /\ rows'[k].cursor = rows[k].cursor
                       /\ rows'[k].attempts = rows[k].attempts
                    \/ \E w \in Workers : hand[w].key = k /\ Outcome(w, rows'[k])
<1>t. rows \in [Jobs -> Row] /\ rows[k] \in Row
  BY DEF TypeOK
<1>1. ASSUME Environment PROVE Shape
  <2>1. ASSUME NEW j \in Jobs, BecomeDue(j) \/ LeaseLapses(j) PROVE Shape
    BY <2>1, <1>t DEF BecomeDue, LeaseLapses, Row
  <2>2. ASSUME UNCHANGED rows PROVE Shape
    BY <2>2
  <2> QED
    BY <1>1, <2>1, <2>2 DEF Environment, NextDay, RecordAppears, RecordLeaves
<1>2. ASSUME NEW w \in Workers, Tick(w) PROVE Shape
  <2>1. ASSUME StartTick(w) PROVE Shape
    BY <2>1, <1>t DEF StartTick, TypeOK
  <2>2. ASSUME NEW j \in Jobs, Claim(w, j) PROVE Shape
    BY <2>2, <1>t DEF Claim, Row
  <2>3. ASSUME CommitBatch(w) \/ Retry(w) \/ Fail(w) PROVE Shape
    <3>1. ASSUME hand[w].key # k PROVE rows'[k] = rows[k]
      BY <2>3, <3>1, <1>t DEF CommitBatch, Retry, Fail
    <3>2. ASSUME hand[w].key = k PROVE Outcome(w, rows'[k])
      <4>1. found[w].rest \in {"none", "some"}
        BY DEF TypeOK
      <4>2. CASE CommitBatch(w)
        BY <4>1, <4>2, <3>2, <1>t DEF CommitBatch, Outcome
      <4>3. CASE Retry(w)
        BY <4>3, <3>2, <1>t DEF Retry, Outcome
      <4>4. CASE Fail(w)
        BY <4>4, <3>2, <1>t DEF Fail, Outcome
      <4> QED
        BY <2>3, <4>2, <4>3, <4>4
    <3> QED
      BY <3>1, <3>2
  <2>4. ASSUME UNCHANGED rows PROVE Shape
    BY <2>4
  <2> QED
    BY <1>2, <2>1, <2>2, <2>3, <2>4
       DEF Tick, EndListing, EndTick, ListDue, ClaimRefused, ReadBatch
<1>3. ASSUME (\E w \in Workers : Crash(w)) \/ UNCHANGED vars PROVE Shape
  BY <1>3 DEF Crash, vars
<1> QED
  BY <1>1, <1>2, <1>3 DEF Next

\* What a step may do to a worker's entity and batch.
LEMMA HandSteps ==
    ASSUME TypeOK, [Next]_vars, NEW w \in Workers
    PROVE  \/ hand'[w] = hand[w] /\ found'[w] = found[w] /\ (pc'[w] = "working" <=> pc[w] = "working")
           \/ hand'[w] = NoEntity /\ pc'[w] # "working"
           \/ \E k \in Jobs : /\ Due(k) /\ pc'[w] = "running"
                              /\ hand'[w] = [key |-> k, cursor |-> rows[k].cursor,
                                             attempts |-> rows[k].attempts]
                              /\ rows'[k].status = "claimed"
                              /\ rows'[k].cursor = rows[k].cursor
           \/ /\ \E batch \in SUBSET Records : \E next \in batch \cup {hand[w].cursor} :
                    ReadBatch(w, batch, next)
              /\ hand'[w] = hand[w]
<1> DEFINE Shape == \/ hand'[w] = hand[w] /\ found'[w] = found[w]
                          /\ (pc'[w] = "working" <=> pc[w] = "working")
                    \/ hand'[w] = NoEntity /\ pc'[w] # "working"
                    \/ \E k \in Jobs : /\ Due(k) /\ pc'[w] = "running"
                                       /\ hand'[w] = [key |-> k, cursor |-> rows[k].cursor,
                                                      attempts |-> rows[k].attempts]
                                       /\ rows'[k].status = "claimed"
                                       /\ rows'[k].cursor = rows[k].cursor
                    \/ /\ \E batch \in SUBSET Records : \E next \in batch \cup {hand[w].cursor} :
                             ReadBatch(w, batch, next)
                       /\ hand'[w] = hand[w]
<1>1. ASSUME UNCHANGED <<hand, found, pc>> PROVE Shape
  BY <1>1
<1>2. ASSUME NEW v \in Workers, Tick(v) PROVE Shape
  <2>1. ASSUME StartTick(v) \/ EndListing(v) \/ (\E some \in SUBSET Jobs : ListDue(v, some))
               \/ (\E k \in Jobs : ClaimRefused(v, k))
        PROVE  Shape
    <3>1. hand' = hand /\ found' = found
      BY <2>1 DEF StartTick, EndListing, ListDue, ClaimRefused
    <3>2. pc'[w] = "working" <=> pc[w] = "working"
      BY <2>1 DEF StartTick, EndListing, ListDue, ClaimRefused, TypeOK
    <3> QED
      BY <3>1, <3>2
  <2>2. ASSUME EndTick(v) PROVE Shape
    BY <2>2 DEF EndTick, Idle, TypeOK
  <2>3. ASSUME NEW k \in Jobs, Claim(v, k) PROVE Shape
    <3>1. CASE v = w
      <4>1. rows' = [rows EXCEPT ![k] = [rows[k] EXCEPT !.status = "claimed", !.lease = "live",
                                             !.due = "passed", !.owner = w]]
        BY <2>3, <3>1 DEF Claim
      <4>2. rows[k] \in Row /\ rows \in [Jobs -> Row]
        BY DEF TypeOK
      <4>3. rows'[k].status = "claimed" /\ rows'[k].cursor = rows[k].cursor
        BY <4>1, <4>2 DEF Row
      <4>4. /\ Due(k) /\ pc'[w] = "running"
            /\ hand'[w] = [key |-> k, cursor |-> rows[k].cursor, attempts |-> rows[k].attempts]
        BY <2>3, <3>1 DEF Claim, TypeOK
      <4> QED
        BY <4>3, <4>4
    <3>2. CASE v # w
      BY <2>3, <3>2 DEF Claim, TypeOK
    <3> QED
      BY <3>1, <3>2
  <2>4. ASSUME NEW batch \in SUBSET Records, NEW next \in batch \cup {hand[v].cursor},
               ReadBatch(v, batch, next)
        PROVE  Shape
    <3>1. CASE v = w
      BY <2>4, <3>1 DEF ReadBatch
    <3>2. CASE v # w
      BY <2>4, <3>2 DEF ReadBatch, TypeOK
    <3> QED
      BY <3>1, <3>2
  <2>5. ASSUME CommitBatch(v) \/ Retry(v) \/ Fail(v) PROVE Shape
    BY <2>5 DEF CommitBatch, Retry, Fail, NextListed, TypeOK
  <2> QED
    BY <1>2, <2>1, <2>2, <2>3, <2>4, <2>5 DEF Tick
<1>3. ASSUME NEW v \in Workers, Crash(v) PROVE Shape
  BY <1>3 DEF Crash, Idle, TypeOK
<1> QED
  BY <1>1, <1>2, <1>3 DEF Next, Environment, NextDay, BecomeDue, LeaseLapses,
     RecordAppears, RecordLeaves, workerVars, vars

-----------------------------------------------------------------------------
(* Budget. *)

\* The bound holds of claimed rows and of entities in hand as well, so that
\* no stale write puts an exhausted job back in the queue.
BudgetInv ==
    /\ \A k \in Jobs : rows[k].status \in {"scheduled", "claimed"} =>
           rows[k].attempts < MaxAttempts
    /\ \A w \in Workers : hand[w].key # NoJob => hand[w].attempts < MaxAttempts

\* Each step keeps the budget, also a write by a holder that lost its lease.
LEMMA BudgetNext == TypeOK /\ BudgetInv /\ [Next]_vars => BudgetInv'
<1> SUFFICES ASSUME TypeOK, BudgetInv, [Next]_vars PROVE BudgetInv'
  OBVIOUS
<1>1. ASSUME NEW k \in Jobs, rows'[k].status \in {"scheduled", "claimed"}
      PROVE  rows'[k].attempts < MaxAttempts
  <2>1. CASE \E w \in Workers : hand[w].key = k /\ Outcome(w, rows'[k])
    <3>1. PICK w \in Workers : hand[w].key = k /\ Outcome(w, rows'[k])
      BY <2>1
    <3>2. hand[w].attempts < MaxAttempts
      BY <3>1, NoJobAssumption DEF BudgetInv
    <3> QED
      BY <1>1, <3>1, <3>2 DEF Outcome, Completed, Progressed, Retried, FailedRow, Built, Absent
  <2>2. CASE rows'[k] = Built
    BY <2>2, LimitsAssumption DEF Built, Absent
  <2> QED
    BY <1>1, <2>1, <2>2, RowSteps DEF BudgetInv, Due
<1>2. ASSUME NEW w \in Workers, hand'[w].key # NoJob
      PROVE  hand'[w].attempts < MaxAttempts
  <2>1. CASE hand'[w] = hand[w]
    BY <1>2, <2>1 DEF BudgetInv
  <2>2. ASSUME NEW k \in Jobs, Due(k),
               hand'[w] = [key |-> k, cursor |-> rows[k].cursor, attempts |-> rows[k].attempts]
        PROVE  hand'[w].attempts < MaxAttempts
    <3>1. rows[k].attempts < MaxAttempts
      BY <2>2 DEF BudgetInv, Due
    <3> QED
      BY <2>2, <3>1
  <2>3. hand'[w] # NoEntity
    BY <1>2 DEF NoEntity
  <2> QED
    BY <2>1, <2>2, <2>3, HandSteps
<1> QED
  BY <1>1, <1>2 DEF BudgetInv

\* A scheduled job has an attempt left, with any number of workers writing
\* over each other's rows (retry() and fail() in _handle_failure).
THEOREM WaitingJobsHaveBudget == Spec => []WaitingHasBudget
<1>1. Init => BudgetInv
  <2> SUFFICES ASSUME Init PROVE BudgetInv
    OBVIOUS
  <2>1. \A k \in Jobs : rows[k].status = "absent"
    BY DEF Init, Absent
  <2>2. \A w \in Workers : hand[w].key = NoJob
    BY DEF Init, NoEntity
  <2> QED
    BY <2>1, <2>2 DEF BudgetInv
<1>2. TypeOK /\ BudgetInv /\ [Next]_vars => BudgetInv'
  BY BudgetNext
<1>3. BudgetInv => WaitingHasBudget
  BY DEF BudgetInv, WaitingHasBudget
<1> QED
  BY <1>1, <1>2, <1>3, TypeCorrect, PTL DEF Spec

-----------------------------------------------------------------------------
(* Coverage. *)

\* Everything a job owes lies after every cursor anyone may continue it from:
\* the row's, and those of the entities in hand, stale ones included.
CoverInv ==
    /\ \A k \in Jobs : owed[k] \subseteq records
    /\ \A k \in Jobs : \A i \in owed[k] : i > rows[k].cursor
    /\ CompletedOwesNothing
    /\ \A w \in Workers : hand[w].key # NoJob =>
          /\ rows[hand[w].key].status # "absent"
          /\ \A i \in owed[hand[w].key] : i > hand[w].cursor
    /\ \A w \in Workers : pc[w] = "working" =>
          \A i \in owed[hand[w].key] :
              i \in found[w].todo \/ (found[w].rest = "some" /\ i > found[w].next)

\* A step seeds an absent job, or leaves a job owing no more than before; a
\* batch committed by w is no longer owed.
LEMMA OwedSteps ==
    ASSUME TypeOK, CoverInv, [Next]_vars
    PROVE  /\ \A k \in Jobs : owed'[k] \subseteq records'
           /\ \A k \in Jobs : \/ owed'[k] \subseteq owed[k]
                              \/ rows[k].status = "absent" /\ rows'[k] = Built
           /\ \A k \in Jobs : rows[k].status # "absent" => rows'[k].status # "absent"
           /\ \A w \in Workers : CommitBatch(w) =>
                 owed'[hand[w].key] \cap found[w].todo = {}
<1>o. owed \in [Jobs -> SUBSET Records] /\ rows \in [Jobs -> Row]
  BY DEF TypeOK
<1>1. ASSUME NEW i \in Records, RecordAppears(i) \/ RecordLeaves(i)
      PROVE  \A k \in Jobs : owed'[k] \subseteq records' /\ owed'[k] \subseteq owed[k]
  BY <1>1, <1>o DEF RecordAppears, RecordLeaves, CoverInv, historyVars
<1>2. ASSUME NEW w \in Workers, StartTick(w)
      PROVE  \A k \in Jobs : /\ owed'[k] \subseteq records'
                             /\ \/ owed'[k] \subseteq owed[k]
                                \/ rows[k].status = "absent" /\ rows'[k] = Built
  BY <1>2, <1>o DEF StartTick, CoverInv
<1>3. ASSUME NEW w \in Workers, CommitBatch(w)
      PROVE  /\ \A k \in Jobs : owed'[k] \subseteq records' /\ owed'[k] \subseteq owed[k]
             /\ owed'[hand[w].key] \cap found[w].todo = {}
  <2>1. hand[w].key \in Jobs
    BY <1>3, NoJobAssumption DEF CommitBatch, TypeOK
  <2> QED
    BY <1>3, <1>o, <2>1 DEF CommitBatch, Work, CoverInv
<1>4. ASSUME UNCHANGED <<owed, records>>
      PROVE  \A k \in Jobs : owed'[k] \subseteq records' /\ owed'[k] \subseteq owed[k]
  BY <1>4 DEF CoverInv
<1>5. \/ \E i \in Records : RecordAppears(i) \/ RecordLeaves(i)
      \/ \E w \in Workers : StartTick(w) \/ CommitBatch(w)
      \/ UNCHANGED <<owed, records>>
  <2>1. ASSUME NEW w \in Workers, Tick(w)
        PROVE  StartTick(w) \/ CommitBatch(w) \/ UNCHANGED <<owed, records>>
    <3>1. ASSUME NEW k \in Jobs, Claim(w, k) \/ ClaimRefused(w, k)
          PROVE  UNCHANGED <<owed, records>>
      BY <3>1 DEF Claim, ClaimRefused, historyVars
    <3>2. ASSUME NEW some, ListDue(w, some) PROVE UNCHANGED <<owed, records>>
      BY <3>2 DEF ListDue, historyVars
    <3>3. ASSUME NEW batch, NEW next, ReadBatch(w, batch, next)
          PROVE  UNCHANGED <<owed, records>>
      BY <3>3 DEF ReadBatch, historyVars
    <3>4. ASSUME EndListing(w) \/ EndTick(w) \/ Retry(w) \/ Fail(w)
          PROVE  UNCHANGED <<owed, records>>
      BY <3>4 DEF EndListing, EndTick, Retry, Fail, historyVars
    <3> QED
      BY <2>1, <3>1, <3>2, <3>3, <3>4 DEF Tick
  <2>2. ASSUME NextDay \/ (\E k \in Jobs : BecomeDue(k) \/ LeaseLapses(k))
               \/ (\E w \in Workers : Crash(w)) \/ UNCHANGED vars
        PROVE  UNCHANGED <<owed, records>>
    BY <2>2 DEF NextDay, BecomeDue, LeaseLapses, Crash, historyVars, vars
  <2> QED
    BY <2>1, <2>2 DEF Next, Environment
<1>6. ASSUME NEW k \in Jobs, rows[k].status # "absent"
      PROVE  rows'[k].status # "absent"
  <2>1. \A w \in Workers : Outcome(w, rows'[k]) => rows'[k].status # "absent"
    BY DEF Outcome, Completed, Progressed, Retried, FailedRow, Built, Absent
  <2> QED
    BY <1>6, <2>1, RowSteps
<1>7. \A k \in Jobs : /\ owed'[k] \subseteq records'
                      /\ \/ owed'[k] \subseteq owed[k]
                         \/ rows[k].status = "absent" /\ rows'[k] = Built
  BY <1>1, <1>2, <1>3, <1>4, <1>5
<1> QED
  BY <1>3, <1>6, <1>7

\* Each step keeps CoverInv: a cursor moves past the records dealt with only.
LEMMA CoverNext == TypeOK /\ CoverInv /\ [Next]_vars => CoverInv'
<1> SUFFICES ASSUME TypeOK, CoverInv, [Next]_vars PROVE CoverInv'
  OBVIOUS
<1> USE NoJobAssumption
<1>r. rows \in [Jobs -> Row] /\ owed \in [Jobs -> SUBSET Records]
  BY DEF TypeOK
<1>p. \A i \in Records : i \in Nat /\ i > 0
  BY RecordsAssumption
<1>1. \A k \in Jobs : owed'[k] \subseteq records'
  BY OwedSteps
<1>2. ASSUME NEW w \in Workers, pc[w] = "working"
      PROVE  hand[w].key \in Jobs /\ owed'[hand[w].key] \subseteq owed[hand[w].key]
  <2>1. hand[w].key \in Jobs /\ hand[w].key # NoJob
    BY <1>2 DEF TypeOK
  <2> QED
    BY <2>1, OwedSteps DEF CoverInv
\* What a job owes after w's batch lies behind the batch.
<1>3. ASSUME NEW w \in Workers, CommitBatch(w)
      PROVE  \A i \in owed'[hand[w].key] : found[w].rest = "some" /\ i > found[w].next
  <2>1. pc[w] = "working"
    BY <1>3 DEF CommitBatch
  <2> QED
    BY <1>2, <1>3, <2>1, OwedSteps DEF CoverInv
<1>4. ASSUME NEW k \in Jobs
      PROVE  /\ \A i \in owed'[k] : i > rows'[k].cursor
             /\ rows'[k].status = "completed" => owed'[k] = {}
  <2>1. ASSUME NEW w \in Workers, hand[w].key = k, Outcome(w, rows'[k])
        PROVE  /\ \A i \in owed'[k] : i > rows'[k].cursor
               /\ rows'[k].status = "completed" => owed'[k] = {}
    <3>0. rows[k].status # "absent" /\ \A i \in owed[k] : i > hand[w].cursor
      BY <2>1 DEF CoverInv
    <3>1. owed'[k] \subseteq owed[k]
      BY <3>0, OwedSteps
    <3>2. CASE CommitBatch(w) /\ found[w].rest = "none"
      BY <1>3, <2>1, <3>2
    <3>3. CASE rows'[k] = Progressed(hand[w], found[w].next) /\ CommitBatch(w)
      BY <1>3, <2>1, <3>3 DEF Progressed, Built, Absent
    <3>4. CASE rows'[k] = Retried(hand[w]) \/ rows'[k] = FailedRow(hand[w])
      BY <3>0, <3>1, <3>4 DEF Retried, FailedRow, Absent
    <3> QED
      BY <2>1, <3>2, <3>3, <3>4 DEF Outcome
  <2>2. CASE rows'[k] = Built
    <3>1. owed'[k] \subseteq Records
      BY NextType DEF TypeOK
    <3> QED
      BY <2>2, <3>1, <1>p DEF Built, Absent
  <2>3. ASSUME rows'[k].cursor = rows[k].cursor, owed'[k] \subseteq owed[k],
               rows'[k].status = "completed" => rows[k].status = "completed"
        PROVE  /\ \A i \in owed'[k] : i > rows'[k].cursor
               /\ rows'[k].status = "completed" => owed'[k] = {}
    BY <2>3 DEF CoverInv, CompletedOwesNothing
  <2>4. owed'[k] \subseteq owed[k] \/ rows'[k] = Built
    BY OwedSteps
  <2> QED
    BY <2>1, <2>2, <2>3, <2>4, RowSteps
<1>5. ASSUME NEW w \in Workers, hand'[w].key # NoJob
      PROVE  /\ rows'[hand'[w].key].status # "absent"
             /\ \A i \in owed'[hand'[w].key] : i > hand'[w].cursor
  <2>1. CASE hand'[w] = hand[w]
    <3>1. hand[w].key \in Jobs /\ rows[hand[w].key].status # "absent"
      BY <1>5, <2>1 DEF TypeOK, CoverInv
    <3>2. owed'[hand[w].key] \subseteq owed[hand[w].key]
      BY <3>1, OwedSteps DEF Built, Absent
    <3> QED
      BY <1>5, <2>1, <3>1, <3>2, OwedSteps DEF CoverInv
  <2>2. ASSUME NEW k \in Jobs, Due(k), rows'[k].status = "claimed", rows'[k].cursor = rows[k].cursor,
               hand'[w] = [key |-> k, cursor |-> rows[k].cursor, attempts |-> rows[k].attempts]
        PROVE  /\ rows'[hand'[w].key].status # "absent"
               /\ \A i \in owed'[hand'[w].key] : i > hand'[w].cursor
    <3>1. hand'[w].key = k /\ hand'[w].cursor = rows'[k].cursor
      BY <2>2
    <3> QED
      BY <2>2, <3>1, <1>4
  <2>3. hand'[w] # NoEntity
    BY <1>5 DEF NoEntity
  <2> QED
    BY <2>1, <2>2, <2>3, HandSteps
<1>6. ASSUME NEW w \in Workers, pc'[w] = "working"
      PROVE  \A i \in owed'[hand'[w].key] :
                 i \in found'[w].todo \/ (found'[w].rest = "some" /\ i > found'[w].next)
  <2>1. CASE hand'[w] = hand[w] /\ found'[w] = found[w] /\ pc[w] = "working"
    BY <2>1, <1>2 DEF CoverInv
  <2>2. ASSUME NEW batch \in SUBSET Records, NEW next \in batch \cup {hand[w].cursor},
               ReadBatch(w, batch, next), hand'[w] = hand[w]
        PROVE  \A i \in owed'[hand'[w].key] :
                 i \in found'[w].todo \/ (found'[w].rest = "some" /\ i > found'[w].next)
    <3>1. /\ found'[w].todo = batch /\ found'[w].next = next
          /\ found'[w].rest = IF batch = After(hand[w].cursor) THEN "none" ELSE "some"
      BY <2>2 DEF ReadBatch, TypeOK
    <3>2. owed' = owed /\ pc[w] = "running" /\ hand[w].key \in Jobs /\ hand[w].key # NoJob
      BY <2>2 DEF ReadBatch, historyVars, TypeOK
    <3>3. ASSUME NEW i \in owed[hand[w].key] PROVE i \in After(hand[w].cursor) /\ i \in Nat
      BY <3>2, <3>3, <1>r, <1>p DEF CoverInv, After
    <3>4. ASSUME NEW i \in After(hand[w].cursor), i \notin batch, i \in Nat PROVE i > next
      <4>1. CASE batch = {}
        BY <2>2, <3>4, <4>1 DEF After
      <4>2. CASE batch # {}
        <5>1. next \in batch
          BY <2>2, <4>2 DEF ReadBatch
        <5> QED
          BY <2>2, <3>4, <5>1, <1>p DEF ReadBatch, FirstOf
      <4> QED
        BY <4>1, <4>2
    <3> QED
      BY <2>2, <3>1, <3>2, <3>3, <3>4
  <2> QED
    BY <1>6, <2>1, <2>2, HandSteps
<1> QED
  BY <1>1, <1>4, <1>5, <1>6 DEF CoverInv, CompletedOwesNothing

\* A job reported completed owes nothing: no record that was there at seeding
\* is skipped by crashes, lost leases, retries, stale cursors or records that
\* come and go (the cursor of progress() and the batch are committed together).
THEOREM CompletedSweepsAreWhole == Spec => []CompletedOwesNothing
<1>1. Init => CoverInv
  <2> SUFFICES ASSUME Init PROVE CoverInv
    OBVIOUS
  <2>1. \A k \in Jobs : rows[k].status = "absent" /\ owed[k] = {}
    BY DEF Init, Absent
  <2>2. \A w \in Workers : hand[w].key = NoJob /\ pc[w] = "idle"
    BY DEF Init, NoEntity
  <2> QED
    BY <2>1, <2>2 DEF CoverInv, CompletedOwesNothing
<1>2. TypeOK /\ CoverInv /\ [Next]_vars => CoverInv'
  BY CoverNext
<1>3. CoverInv => CompletedOwesNothing
  BY DEF CoverInv
<1> QED
  BY <1>1, <1>2, <1>3, TypeCorrect, PTL DEF Spec

-----------------------------------------------------------------------------
(* One worker. *)

Worker == CHOOSE w : w \in Workers
SingleWorker == Workers = {Worker}

\* With one worker the entity in hand agrees with its row, which is claimed,
\* and no unfinished job has worked beyond its row's cursor.
OnceInv ==
    /\ redone = {}
    /\ \A k \in Jobs : rows[k].status \notin Finished =>
          \A i \in done[k] : i <= rows[k].cursor
    /\ \A k \in Jobs : rows[k].status = "absent" => done[k] = {}
    /\ hand[Worker].key # NoJob =>
          /\ rows[hand[Worker].key].status = "claimed"
          /\ rows[hand[Worker].key].cursor = hand[Worker].cursor
    /\ pc[Worker] = "working" =>
          /\ \A i \in found[Worker].todo : i > hand[Worker].cursor /\ i <= found[Worker].next
          /\ hand[Worker].cursor <= found[Worker].next

\* Only the commit of a batch adds to the work done.
LEMMA DoneSteps ==
    ASSUME SingleWorker, TypeOK, [Next]_vars
    PROVE  \/ CommitBatch(Worker)
           \/ UNCHANGED <<done, redone>>
<1>1. ASSUME Tick(Worker) PROVE CommitBatch(Worker) \/ UNCHANGED <<done, redone>>
  <2>1. ASSUME NEW k \in Jobs, Claim(Worker, k) \/ ClaimRefused(Worker, k)
        PROVE  UNCHANGED <<done, redone>>
    BY <2>1 DEF Claim, ClaimRefused, historyVars
  <2>2. ASSUME NEW some, ListDue(Worker, some) PROVE UNCHANGED <<done, redone>>
    BY <2>2 DEF ListDue, historyVars
  <2>3. ASSUME NEW batch, NEW next, ReadBatch(Worker, batch, next)
        PROVE  UNCHANGED <<done, redone>>
    BY <2>3 DEF ReadBatch, historyVars
  <2>4. ASSUME StartTick(Worker) \/ EndListing(Worker) \/ EndTick(Worker) \/ Retry(Worker)
                 \/ Fail(Worker)
        PROVE  UNCHANGED <<done, redone>>
    BY <2>4 DEF StartTick, EndListing, EndTick, Retry, Fail, historyVars
  <2> QED
    BY <1>1, <2>1, <2>2, <2>3, <2>4 DEF Tick
<1>2. ASSUME Environment \/ Crash(Worker) \/ UNCHANGED vars PROVE UNCHANGED <<done, redone>>
  BY <1>2 DEF Environment, NextDay, BecomeDue, LeaseLapses, RecordAppears, RecordLeaves,
              Crash, historyVars, vars
<1> QED
  BY <1>1, <1>2 DEF Next, SingleWorker

\* The row of the entity in hand changes only with the entity.
LEMMA HandRow ==
    ASSUME SingleWorker, TypeOK, OnceInv, [Next]_vars, hand'[Worker] = hand[Worker],
           hand[Worker].key # NoJob
    PROVE  /\ rows'[hand[Worker].key].status = "claimed"
           /\ rows'[hand[Worker].key].cursor = hand[Worker].cursor
<1> USE NoJobAssumption
<1>k. PICK k \in Jobs : k = hand[Worker].key
  BY DEF SingleWorker, TypeOK
<1>0. rows[k].status = "claimed" /\ rows[k].cursor = hand[Worker].cursor
  BY <1>k DEF OnceInv
<1>1. ~(CommitBatch(Worker) \/ Retry(Worker) \/ Fail(Worker))
  <2> SUFFICES ASSUME CommitBatch(Worker) \/ Retry(Worker) \/ Fail(Worker) PROVE FALSE
    OBVIOUS
  <2>1. hand'[Worker] = NoEntity
    BY DEF CommitBatch, Retry, Fail, NextListed, TypeOK, SingleWorker
  <2> QED
    BY <2>1, <1>k DEF NoEntity
<1>2. \A w \in Workers : ~Outcome(w, rows'[k])
  BY <1>1 DEF Outcome, SingleWorker
<1>3. \/ rows'[k].status = rows[k].status /\ rows'[k].cursor = rows[k].cursor
      \/ rows'[k].status = "claimed" /\ rows'[k].cursor = rows[k].cursor
  BY <1>0, <1>2, RowSteps
<1> QED
  BY <1>0, <1>3, <1>k

\* With one worker each step keeps OnceInv: a batch and its cursor are committed together.
LEMMA OnceNext ==
    ASSUME SingleWorker, TypeOK, OnceInv, [Next]_vars
    PROVE  OnceInv'
<1> USE NoJobAssumption DEF SingleWorker
<1>t. /\ rows \in [Jobs -> Row] /\ done \in [Jobs -> SUBSET Records]
      /\ hand[Worker].key = NoJob <=> pc[Worker] \notin {"running", "working"}
  BY DEF TypeOK
<1>p. \A i \in Records : i \in Nat
  BY RecordsAssumption
\* Two facts about the commit of a batch.
<1>c. ASSUME NEW k \in Jobs, CommitBatch(Worker), k = hand[Worker].key
      PROVE  /\ done' = [done EXCEPT ![k] = @ \cup found[Worker].todo]
             /\ redone' = {}
             /\ \A i \in done[k] : i <= hand[Worker].cursor
             /\ rows' = [rows EXCEPT ![k] =
                            IF found[Worker].rest = "none" THEN Completed(hand[Worker])
                            ELSE Progressed(hand[Worker], found[Worker].next)]
  <2>1. rows[k].status = "claimed" /\ rows[k].cursor = hand[Worker].cursor
    BY <1>c DEF OnceInv
  <2>2. \A i \in done[k] : i <= hand[Worker].cursor
    BY <2>1 DEF OnceInv, Finished
  <2>3. pc[Worker] = "working" /\ hand[Worker].cursor \in Nat
    BY <1>c DEF CommitBatch, TypeOK
  <2>4. found[Worker].todo \cap done[k] = {}
    BY <2>2, <2>3, <1>p, <1>t DEF OnceInv
  <2> QED
    BY <1>c, <2>2, <2>4 DEF CommitBatch, Work, OnceInv
<1>1. redone' = {}
  <2>1. CASE CommitBatch(Worker)
    <3>1. PICK k \in Jobs : k = hand[Worker].key
      BY <2>1 DEF CommitBatch, TypeOK
    <3> QED
      BY <1>c, <2>1, <3>1
  <2> QED
    BY <2>1, DoneSteps DEF OnceInv
<1>2. ASSUME NEW k \in Jobs, rows'[k].status \notin Finished, NEW i \in done'[k]
      PROVE  i <= rows'[k].cursor
  <2>1. CASE CommitBatch(Worker) /\ k = hand[Worker].key
    <3>1. rows'[k] = Progressed(hand[Worker], found[Worker].next)
      <4>1. Completed(hand[Worker]).status = "completed"
        BY DEF Completed, Absent
      <4>2. rows'[k] = IF found[Worker].rest = "none" THEN Completed(hand[Worker])
                       ELSE Progressed(hand[Worker], found[Worker].next)
        BY <1>c, <2>1, <1>t
      <4> QED
        BY <1>2, <4>1, <4>2 DEF Finished
    <3>2. rows'[k].cursor = found[Worker].next
      BY <3>1 DEF Progressed, Built, Absent
    <3>3. i \in found[Worker].todo \/ i <= hand[Worker].cursor
      BY <1>2, <1>c, <2>1, <1>t
    <3>4. pc[Worker] = "working" /\ hand[Worker].cursor <= found[Worker].next
      BY <2>1 DEF CommitBatch, OnceInv
    <3>5. found[Worker].next \in Nat /\ hand[Worker].cursor \in Nat /\ i \in Nat
      BY <1>2, <1>p, NextType DEF TypeOK
    <3> QED
      BY <3>2, <3>3, <3>4, <3>5 DEF OnceInv
  <2>2. CASE ~(CommitBatch(Worker) /\ k = hand[Worker].key)
    <3>1. i \in done[k]
      <4>1. CASE CommitBatch(Worker)
        BY <1>2, <2>2, <4>1, <1>t DEF CommitBatch, Work
      <4> QED
        BY <1>2, <4>1, DoneSteps
    <3>2. ASSUME Outcome(Worker, rows'[k]), hand[Worker].key = k
          PROVE  rows'[k].cursor = hand[Worker].cursor /\ rows[k].status = "claimed"
      <4>1. rows'[k] = Retried(hand[Worker]) \/ rows'[k] = FailedRow(hand[Worker])
        BY <2>2, <3>2 DEF Outcome
      <4>2. rows[k].status = "claimed"
        BY <3>2 DEF OnceInv
      <4> QED
        BY <4>1, <4>2 DEF Retried, FailedRow, Absent
    <3>3. rows[k].status # "absent"
      BY <3>1 DEF OnceInv
    <3>4. rows[k].status \notin Finished /\ rows'[k].cursor = rows[k].cursor
      <4>1. CASE Outcome(Worker, rows'[k]) /\ hand[Worker].key = k
        BY <3>2, <4>1 DEF OnceInv, Finished
      <4>2. CASE Due(k) /\ rows'[k].cursor = rows[k].cursor
        BY <4>2 DEF Due, Finished
      <4> QED
        BY <1>2, <3>3, <4>1, <4>2, RowSteps DEF Finished
    <3> QED
      BY <3>1, <3>4 DEF OnceInv
  <2> QED
    BY <2>1, <2>2
<1>3. ASSUME NEW k \in Jobs, rows'[k].status = "absent" PROVE done'[k] = {}
  <2>1. rows[k].status = "absent" /\ done[k] = {}
    <3>1. ASSUME Outcome(Worker, rows'[k]) PROVE FALSE
      BY <1>3, <3>1 DEF Outcome, Completed, Progressed, Retried, FailedRow, Built, Absent
    <3>2. rows[k].status = "absent"
      BY <1>3, <3>1, RowSteps DEF Built, Absent
    <3> QED
      BY <3>2 DEF OnceInv
  <2>2. hand[Worker].key # k
    BY <2>1 DEF OnceInv
  <2> QED
    BY <2>1, <2>2, <1>t, DoneSteps DEF CommitBatch, Work
<1>4. ASSUME hand'[Worker].key # NoJob
      PROVE  /\ rows'[hand'[Worker].key].status = "claimed"
             /\ rows'[hand'[Worker].key].cursor = hand'[Worker].cursor
  <2>1. CASE hand'[Worker] = hand[Worker]
    BY <1>4, <2>1, HandRow
  <2>2. ASSUME NEW k \in Jobs, rows'[k].status = "claimed", rows'[k].cursor = rows[k].cursor,
               hand'[Worker] = [key |-> k, cursor |-> rows[k].cursor, attempts |-> rows[k].attempts]
        PROVE  /\ rows'[hand'[Worker].key].status = "claimed"
               /\ rows'[hand'[Worker].key].cursor = hand'[Worker].cursor
    <3>1. hand'[Worker].key = k /\ hand'[Worker].cursor = rows[k].cursor
      BY <2>2
    <3> QED
      BY <2>2, <3>1
  <2>3. hand'[Worker] # NoEntity
    BY <1>4 DEF NoEntity
  <2> QED
    BY <2>1, <2>2, <2>3, HandSteps
<1>5. ASSUME pc'[Worker] = "working"
      PROVE  /\ \A i \in found'[Worker].todo : i > hand'[Worker].cursor /\ i <= found'[Worker].next
             /\ hand'[Worker].cursor <= found'[Worker].next
  <2>1. CASE hand'[Worker] = hand[Worker] /\ found'[Worker] = found[Worker] /\ pc[Worker] = "working"
    BY <2>1 DEF OnceInv
  <2>2. ASSUME NEW batch \in SUBSET Records, NEW next \in batch \cup {hand[Worker].cursor},
               ReadBatch(Worker, batch, next), hand'[Worker] = hand[Worker]
        PROVE  /\ \A i \in found'[Worker].todo : i > hand'[Worker].cursor /\ i <= found'[Worker].next
               /\ hand'[Worker].cursor <= found'[Worker].next
    <3>1. found'[Worker].todo = batch /\ found'[Worker].next = next
      BY <2>2 DEF ReadBatch, TypeOK
    <3>2. /\ \A i \in batch : i > hand[Worker].cursor /\ i <= next
          /\ hand[Worker].cursor \in Nat
      BY <2>2 DEF ReadBatch, After, TypeOK
    <3>3. hand[Worker].cursor <= next
      BY <2>2, <3>2, <1>p
    <3> QED
      BY <2>2, <3>1, <3>2, <3>3
  <2> QED
    BY <1>5, <2>1, <2>2, HandSteps
<1> QED
  BY <1>1, <1>2, <1>3, <1>4, <1>5 DEF OnceInv

\* With one worker OnceInv holds always.
LEMMA OnceInvariant == ASSUME SingleWorker PROVE Spec => [](TypeOK /\ OnceInv)
<1>1. Init => TypeOK /\ OnceInv
  <2> SUFFICES ASSUME Init PROVE OnceInv
    BY InitType
  <2>1. \A k \in Jobs : done[k] = {}
    BY DEF Init
  <2>2. hand[Worker].key = NoJob /\ pc[Worker] = "idle" /\ redone = {}
    BY DEF Init, NoEntity, SingleWorker
  <2> QED
    BY <2>1, <2>2 DEF OnceInv
<1>2. TypeOK /\ OnceInv /\ [Next]_vars => (TypeOK /\ OnceInv)'
  BY OnceNext, NextType
<1> QED
  BY <1>1, <1>2, PTL DEF Spec

\* With one worker no job works on a record twice: a batch is permanent only
\* together with the cursor that passes it (_handle_failure rolls back first).
THEOREM NothingSweptTwice == ASSUME SingleWorker PROVE Spec => []SweptOnce
<1>1. OnceInv => SweptOnce
  BY DEF OnceInv, SweptOnce
<1> QED
  BY <1>1, OnceInvariant, PTL

\* With one worker a finished job's row never changes again.
THEOREM FinishedForGood == ASSUME SingleWorker PROVE Spec => FinishedIsFinal
<1> DEFINE Step == \A k \in Jobs : rows[k].status \in Finished => rows'[k] = rows[k]
<1>1. TypeOK /\ OnceInv /\ [Next]_vars => [Step]_vars
  <2> SUFFICES ASSUME TypeOK, OnceInv, [Next]_vars, NEW k \in Jobs, rows[k].status \in Finished
               PROVE  rows'[k] = rows[k]
    OBVIOUS
  <2>1. ASSUME NEW w \in Workers, hand[w].key = k PROVE FALSE
    BY <2>1, NoJobAssumption DEF OnceInv, SingleWorker, Finished
  <2> QED
    BY <2>1, RowSteps DEF Finished, Due
<1> HIDE DEF Step
<1>2. SingleWorker => (Spec => [][Step]_vars)
  BY <1>1, OnceInvariant, PTL DEF Spec
<1> QED
  BY <1>2 DEF Step, FinishedIsFinal

=============================================================================
