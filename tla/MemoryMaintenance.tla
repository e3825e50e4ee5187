------------------------- MODULE MemoryMaintenance -------------------------
(***************************************************************************)
(* The memory maintenance queue: the rows of memory_maintenance_jobs and   *)
(* the workers that run MemoryMaintenanceService.run_due_jobs over them.   *)
(*                                                                         *)
(* A job sweeps the records of one profile in the order of their ids, a    *)
(* batch at a time: after each batch the row goes back to the queue with   *)
(* the id of the last record as its cursor.  Work and row are committed    *)
(* together and rolled back together.  A record stands for what the job's  *)
(* type iterates over: a memory, an open conflict set, or a group of       *)
(* memories to compress (named by its smallest id).                        *)
(*                                                                         *)
(* One profile is modelled: no action reads the jobs of two.  A claim is a *)
(* compare-and-set on the row, every other write puts the fields of the    *)
(* claimed entity over the row, whatever the row has become.               *)
(***************************************************************************)
EXTENDS Naturals, FiniteSets

CONSTANTS
    Types,        \* job types
    LastDay,      \* bound on the window days whose jobs are followed
    Records,      \* ids a record of the profile may have
    Workers,
    NoJob,        \* "no job in hand"
    MaxAttempts,  \* max_attempts of a row (3 in the code)
    PerTick,      \* jobs_per_tick (5 in the code)
    BatchSize,    \* batch_size (20 in the code)
    MaxFaults     \* bound: crashes plus leases that lapse under a live holder

\* A job is named by its type and its window day.
Jobs == Types \X (1 .. LastDay)

ASSUME RecordsAssumption == Records \subseteq Nat \ {0}
ASSUME NoJobAssumption == NoJob \notin Jobs
ASSUME LimitsAssumption ==
    /\ MaxAttempts \in Nat \ {0} /\ PerTick \in Nat \ {0}
    /\ BatchSize \in Nat \ {0} /\ LastDay \in Nat \ {0} /\ MaxFaults \in Nat

VARIABLES
    day,       \* today's window_key
    rows,      \* the table
    records,   \* the records of the profile the sweeps can see
    owed,      \* history: records there at seeding and not yet dealt with
    redone,    \* history: jobs that committed work on some record twice
    done,      \* history: records each job has committed work on
    pc,        \* where each worker is in run_due_jobs
    listed,    \* the due jobs it listed and has not tried to claim
    claimedAny,\* whether it claimed one of this listing
    hand,      \* the claimed entity it works on
    found,     \* the batch it read, and whether records remain after it
    processed, \* its counter against PerTick
    faults     \* faults spent so far

workerVars == <<pc, listed, claimedAny, hand, found, processed>>
historyVars == <<owed, redone, done>>
vars == <<day, rows, records, historyVars, workerVars, faults>>

-----------------------------------------------------------------------------
Status == {"absent", "scheduled", "claimed", "completed", "failed"}
Finished == {"completed", "failed"}

Row == [status: Status, due: {"later", "passed"},
        lease: {"none", "live", "lapsed"}, owner: Workers \cup {NoJob},
        cursor: Nat, attempts: Nat]

Absent == [status |-> "absent", due |-> "later", lease |-> "none",
           owner |-> NoJob, cursor |-> 0, attempts |-> 0]

\* build: due at once, cursor None (0 here: before every id).
Built == [Absent EXCEPT !.status = "scheduled", !.due = "passed"]

\* What progress, complete, retry and fail of an entity leave in the row.
Progressed(job, cursor) == [Built EXCEPT !.cursor = cursor, !.attempts = job.attempts]
Completed(job) ==
    [Absent EXCEPT !.status = "completed", !.cursor = job.cursor, !.attempts = job.attempts]
Retried(job) ==
    [Absent EXCEPT !.status = "scheduled", !.cursor = job.cursor,
                   !.attempts = job.attempts + 1]
FailedRow(job) ==
    [Absent EXCEPT !.status = "failed", !.cursor = job.cursor,
                   !.attempts = job.attempts + 1]

NoEntity == [key |-> NoJob, cursor |-> 0, attempts |-> 0]
NothingFound == [todo |-> {}, next |-> 0, rest |-> "none"]

\* Mutant of Due: lapsed claims are never due again.
DueWithoutRecovery(k) == rows[k].status = "scheduled" /\ rows[k].due = "passed"

\* The condition list_due selects rows by and claim re-checks in its UPDATE.
Due(k) ==
    \/ rows[k].status = "scheduled" /\ rows[k].due = "passed"
    \/ rows[k].status = "claimed" /\ rows[k].lease = "lapsed"

-----------------------------------------------------------------------------
Init ==
    /\ day = 1
    /\ rows = [k \in Jobs |-> Absent]
    /\ records \in SUBSET Records
    /\ owed = [k \in Jobs |-> {}]
    /\ redone = {}
    /\ done = [k \in Jobs |-> {}]
    /\ pc = [w \in Workers |-> "idle"]
    /\ listed = [w \in Workers |-> {}]
    /\ claimedAny = [w \in Workers |-> "no"]
    /\ hand = [w \in Workers |-> NoEntity]
    /\ found = [w \in Workers |-> NothingFound]
    /\ processed = [w \in Workers |-> 0]
    /\ faults = 0

-----------------------------------------------------------------------------
(* The environment. *)

\* The day after LastDay comes too: the last jobs are yesterday's then, and its
\* own jobs are beyond the bound.
NextDay ==
    /\ day <= LastDay
    /\ day' = day + 1
    /\ UNCHANGED <<rows, records, historyVars, workerVars, faults>>

BecomeDue(k) ==
    /\ rows[k].status = "scheduled" /\ rows[k].due = "later"
    /\ rows' = [rows EXCEPT ![k].due = "passed"]
    /\ UNCHANGED <<day, records, historyVars, workerVars, faults>>

\* Nobody renews a lease: it may lapse under a live holder, for a fault.
LeaseLapses(k) ==
    /\ rows[k].status = "claimed" /\ rows[k].lease = "live"
    /\ rows' = [rows EXCEPT ![k].lease = "lapsed"]
    /\ \/ (\A w \in Workers : hand[w].key # k) /\ UNCHANGED faults
       \/ /\ \E w \in Workers : hand[w].key = k
          /\ faults < MaxFaults
          /\ faults' = faults + 1
    /\ UNCHANGED <<day, records, historyVars, workerVars>>

\* New evidence makes a record visible to the sweeps; ids are random (uuid4),
\* so it may come before a sweep's cursor.
RecordAppears(i) ==
    /\ i \notin records
    /\ records' = records \cup {i}
    /\ UNCHANGED <<day, rows, historyVars, workerVars, faults>>

\* A record leaves the statuses the sweeps select: no sweep owes it anything.
RecordLeaves(i) ==
    /\ i \in records
    /\ records' = records \ {i}
    /\ owed' = [k \in Jobs |-> owed[k] \ {i}]
    /\ UNCHANGED <<day, rows, redone, done, workerVars, faults>>

-----------------------------------------------------------------------------
(* The worker. *)

\* seed_due_jobs: today's jobs of a profile that has records, then a commit.
StartTick(w) ==
    /\ pc[w] = "idle"
    /\ LET new == {k \in Jobs : k[2] = day /\ rows[k].status = "absent" /\ records # {}}
       IN  /\ rows' = [k \in Jobs |-> IF k \in new THEN Built ELSE rows[k]]
           /\ owed' = [k \in Jobs |-> IF k \in new THEN records ELSE owed[k]]
    /\ pc' = [pc EXCEPT ![w] = "listing"]
    /\ UNCHANGED <<day, records, redone, done, listed, claimedAny, hand, found,
                   processed, faults>>

\* while processed < target: list_due(target - processed).
ListDue(w, some) ==
    /\ pc[w] = "listing" /\ processed[w] < PerTick
    /\ some # {} /\ some \subseteq {k \in Jobs : Due(k)}
    /\ \/ Cardinality(some) = PerTick - processed[w]
       \/ /\ Cardinality(some) < PerTick - processed[w]
          /\ some = {k \in Jobs : Due(k)}
    /\ pc' = [pc EXCEPT ![w] = "claiming"]
    /\ listed' = [listed EXCEPT ![w] = some]
    /\ claimedAny' = [claimedAny EXCEPT ![w] = "no"]
    /\ UNCHANGED <<day, rows, records, historyVars, hand, found, processed, faults>>

\* UPDATE ... WHERE the row is still due, one row affected; the entity is read
\* back from the row, and the claim is committed.
Claim(w, k) ==
    /\ pc[w] = "claiming" /\ k \in listed[w] /\ Due(k)
    /\ rows' = [rows EXCEPT ![k] = [@ EXCEPT !.status = "claimed", !.lease = "live",
                                             !.due = "passed", !.owner = w]]
    /\ pc' = [pc EXCEPT ![w] = "running"]
    /\ listed' = [listed EXCEPT ![w] = @ \ {k}]
    /\ claimedAny' = [claimedAny EXCEPT ![w] = "yes"]
    /\ hand' = [hand EXCEPT ![w] = [key |-> k, cursor |-> rows[k].cursor,
                                    attempts |-> rows[k].attempts]]
    /\ UNCHANGED <<day, records, historyVars, found, processed, faults>>

\* No row affected: ValidationError, rollback, continue.
ClaimRefused(w, k) ==
    /\ pc[w] = "claiming" /\ k \in listed[w] /\ ~Due(k)
    /\ listed' = [listed EXCEPT ![w] = @ \ {k}]
    /\ UNCHANGED <<day, rows, records, historyVars, pc, claimedAny, hand, found,
                   processed, faults>>

\* The listing is used up: list again, unless none of it could be claimed.
EndListing(w) ==
    /\ pc[w] = "claiming" /\ listed[w] = {} /\ claimedAny[w] = "yes"
    /\ pc' = [pc EXCEPT ![w] = "listing"]
    /\ UNCHANGED <<day, rows, records, historyVars, listed, claimedAny, hand,
                   found, processed, faults>>

\* The worker forgets everything but the database.
Idle(w) ==
    /\ pc' = [pc EXCEPT ![w] = "idle"]
    /\ listed' = [listed EXCEPT ![w] = {}]
    /\ claimedAny' = [claimedAny EXCEPT ![w] = "no"]
    /\ hand' = [hand EXCEPT ![w] = NoEntity]
    /\ found' = [found EXCEPT ![w] = NothingFound]
    /\ processed' = [processed EXCEPT ![w] = 0]

EndTick(w) ==
    /\ \/ pc[w] = "listing" /\ (processed[w] >= PerTick \/ \A k \in Jobs : ~Due(k))
       \/ pc[w] = "claiming" /\ listed[w] = {} /\ claimedAny[w] = "no"
    /\ Idle(w)
    /\ UNCHANGED <<day, rows, records, historyVars, faults>>

\* The records after a cursor, in the order of their ids.
After(cursor) == {i \in records : i > cursor}
FirstOf(some, all) == \A i \in some, j \in all \ some : i < j

\* Mutant of ReadBatch: an off-by-one in the test for remaining records.
ReadBatchOneShort(w, batch, next) ==
    /\ pc[w] = "running"
    /\ batch \subseteq After(hand[w].cursor) /\ FirstOf(batch, After(hand[w].cursor))
    /\ \/ Cardinality(batch) = BatchSize
       \/ Cardinality(batch) < BatchSize /\ batch = After(hand[w].cursor)
    /\ next \in (IF batch = {} THEN {hand[w].cursor} ELSE batch)
    /\ \A i \in batch : i <= next
    /\ found' = [found EXCEPT ![w] =
                    [todo |-> batch, next |-> next,
                     rest |-> IF Cardinality(After(hand[w].cursor)) <= BatchSize + 1
                              THEN "none" ELSE "some"]]
    /\ pc' = [pc EXCEPT ![w] = "working"]
    /\ UNCHANGED <<day, rows, records, historyVars, listed, claimedAny, hand,
                   processed, faults>>

\* list_by_profile_after_id(limit = batch_size + 1): a batch, the id of its
\* last record (the cursor itself if it is empty), and whether records remain.
ReadBatch(w, batch, next) ==
    /\ pc[w] = "running"
    /\ batch \subseteq After(hand[w].cursor) /\ FirstOf(batch, After(hand[w].cursor))
    /\ \/ Cardinality(batch) = BatchSize
       \/ Cardinality(batch) < BatchSize /\ batch = After(hand[w].cursor)
    /\ next \in (IF batch = {} THEN {hand[w].cursor} ELSE batch)
    /\ \A i \in batch : i <= next
    /\ found' = [found EXCEPT ![w] =
                    [todo |-> batch, next |-> next,
                     rest |-> IF batch = After(hand[w].cursor) THEN "none" ELSE "some"]]
    /\ pc' = [pc EXCEPT ![w] = "working"]
    /\ UNCHANGED <<day, rows, records, historyVars, listed, claimedAny, hand,
                   processed, faults>>

\* processed += 1 and on to the next listed job.
NextListed(w) ==
    /\ pc' = [pc EXCEPT ![w] = "claiming"]
    /\ hand' = [hand EXCEPT ![w] = NoEntity]
    /\ found' = [found EXCEPT ![w] = NothingFound]
    /\ processed' = [processed EXCEPT ![w] = @ + 1]
    /\ UNCHANGED <<listed, claimedAny>>

\* The batch's work becomes permanent.
Work(k, todo) ==
    /\ owed' = [owed EXCEPT ![k] = @ \ todo]
    /\ redone' = IF todo \cap done[k] = {} THEN redone ELSE redone \cup {k}
    /\ done' = [done EXCEPT ![k] = @ \cup todo]

\* The batch and the row of progress() or complete() are committed.
CommitBatch(w) ==
    /\ pc[w] = "working"
    /\ LET job == hand[w]
           todo == found[w].todo
       IN  /\ Work(job.key, todo)
           /\ rows' = [rows EXCEPT ![job.key] =
                          IF found[w].rest = "none" THEN Completed(job)
                          ELSE Progressed(job, found[w].next)]
    /\ NextListed(w)
    /\ UNCHANGED <<day, records, faults>>

\* Mutants of Retry: one attempt too many; the batch is not rolled back.
RetryOnceMore(w) ==
    /\ pc[w] \in {"running", "working"} /\ hand[w].attempts < MaxAttempts
    /\ rows' = [rows EXCEPT ![hand[w].key] = Retried(hand[w])]
    /\ NextListed(w)
    /\ UNCHANGED <<day, records, historyVars, faults>>

RetryWithoutRollback(w) ==
    /\ pc[w] \in {"running", "working"} /\ hand[w].attempts + 1 < MaxAttempts
    /\ Work(hand[w].key, found[w].todo)
    /\ rows' = [rows EXCEPT ![hand[w].key] = Retried(hand[w])]
    /\ NextListed(w)
    /\ UNCHANGED <<day, records, faults>>

\* _handle_failure: the batch is rolled back; an error that is not a
\* ValidationError is retried while attempts are left.
Retry(w) ==
    /\ pc[w] \in {"running", "working"} /\ hand[w].attempts + 1 < MaxAttempts
    /\ rows' = [rows EXCEPT ![hand[w].key] = Retried(hand[w])]
    /\ NextListed(w)
    /\ UNCHANGED <<day, records, historyVars, faults>>

\* ... and the job fails on a ValidationError or with its attempts used up.
Fail(w) ==
    /\ pc[w] \in {"running", "working"}
    /\ rows' = [rows EXCEPT ![hand[w].key] = FailedRow(hand[w])]
    /\ NextListed(w)
    /\ UNCHANGED <<day, records, historyVars, faults>>

\* The process dies, or an exception escapes run_due_jobs.
Crash(w) ==
    /\ pc[w] # "idle" /\ faults < MaxFaults
    /\ faults' = faults + 1
    /\ Idle(w)
    /\ UNCHANGED <<day, rows, records, historyVars>>

-----------------------------------------------------------------------------
Environment ==
    \/ NextDay
    \/ \E k \in Jobs : BecomeDue(k) \/ LeaseLapses(k)
    \/ \E i \in Records : RecordAppears(i) \/ RecordLeaves(i)

Tick(w) ==
    \/ StartTick(w) \/ EndListing(w) \/ EndTick(w)
    \/ \E some \in SUBSET Jobs : ListDue(w, some)
    \/ \E k \in Jobs : Claim(w, k) \/ ClaimRefused(w, k)
    \/ \E batch \in SUBSET Records : \E next \in batch \cup {hand[w].cursor} :
          ReadBatch(w, batch, next)
    \/ CommitBatch(w) \/ Retry(w) \/ Fail(w)

Next == Environment \/ \E w \in Workers : Tick(w) \/ Crash(w)

Spec == Init /\ [][Next]_vars

\* Workers poll forever and are restarted; leases and due times pass by
\* themselves.  Nothing is assumed of the records.
Fairness ==
    /\ \A w \in Workers : WF_vars(Tick(w))
    /\ \A k \in Jobs : /\ WF_vars(BecomeDue(k))
                       /\ WF_vars(LeaseLapses(k) /\ UNCHANGED faults)

FairSpec == Spec /\ Fairness

-----------------------------------------------------------------------------
TypeOK ==
    /\ day \in Nat
    /\ rows \in [Jobs -> Row]
    /\ records \in SUBSET Records
    /\ owed \in [Jobs -> SUBSET Records]
    /\ redone \in SUBSET Jobs
    /\ done \in [Jobs -> SUBSET Records]
    /\ pc \in [Workers -> {"idle", "listing", "claiming", "running", "working"}]
    /\ listed \in [Workers -> SUBSET Jobs]
    /\ claimedAny \in [Workers -> {"yes", "no"}]
    /\ hand \in [Workers -> [key: Jobs \cup {NoJob}, cursor: Nat, attempts: Nat]]
    /\ found \in [Workers -> [todo: SUBSET Records, next: Nat, rest: {"none", "some"}]]
    /\ processed \in [Workers -> Nat]
    /\ faults \in Nat
    /\ \A w \in Workers : hand[w].key = NoJob <=> pc[w] \notin {"running", "working"}

\* A sweep that is reported completed has dealt with every record that was
\* there when the job was seeded and did not leave, however many workers ran
\* its batches, crashed, lost their leases or overwrote each other's cursor.
CompletedOwesNothing ==
    \A k \in Jobs : rows[k].status = "completed" => owed[k] = {}

\* A waiting job has an attempt left, also after a stale holder's write.
WaitingHasBudget ==
    \A k \in Jobs : rows[k].status = "scheduled" => rows[k].attempts < MaxAttempts

\* With one worker no record is worked on twice by the same job, whatever
\* crashes, failures and retries happen between its batches.
SweptOnce == redone = {}

\* With one worker a finished job stays finished.
FinishedIsFinal ==
    [][\A k \in Jobs : rows[k].status \in Finished => rows'[k] = rows[k]]_vars

\* Every seeded job is eventually completed or failed, although the records
\* keep changing and a claimed job may lose its holder.
EventuallySettled ==
    \A k \in Jobs : rows[k].status \in {"scheduled", "claimed"}
                        ~> rows[k].status \in Finished
=============================================================================
