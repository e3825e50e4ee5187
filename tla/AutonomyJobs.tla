---------------------------- MODULE AutonomyJobs ----------------------------
(***************************************************************************)
(* The autonomy job queue: the rows of scheduled_autonomy_jobs, the        *)
(* processes that run TaskAutonomySchedulingService.run_due_autonomy_jobs  *)
(* (the worker's tick and the requests that run the queue inline), and the *)
(* requests that submit jobs or re-ensure the daily materialization job.   *)
(*                                                                         *)
(* A row is named by its idempotency key.  Clock readings are abstracted   *)
(* to what the queries compare: whether due_at has passed (due) and        *)
(* whether lease_expires_at has passed (lease).  One goal is modelled: no  *)
(* query of the runner filters by goal, and the daily job's does.          *)
(*                                                                         *)
(* A runner works on the entities it listed, not on the rows: claim and    *)
(* update write the fields of a possibly outdated entity over the row.     *)
(***************************************************************************)
EXTENDS Naturals, FiniteSets

CONSTANTS
    Keys,          \* idempotency keys that may ever be submitted
    Dispatched,    \* keys whose handler commits together with complete()
    Replay,        \* keys of type long_term_memory_materialization_replay
    DailyType,     \* keys of type daily_task_materialization
    DayKeys,       \* daily keys an ensure may compute (one per day and zone)
    Ensuring,      \* keys whose handler re-ensures the daily job
    Runners,       \* processes that run run_due_autonomy_jobs
    Raising,       \* the runners called with raise_on_error=True
    Requests,      \* requests that re-ensure the daily job
    NoKey,         \* "no entity in hand"
    MaxAttempts,   \* max_attempts of a row (3 in the code)
    Limit,         \* limit of one run (20 in the code)
    MaxFaults      \* bound: crashes plus leases that lapse under a live holder

ASSUME KeysAssumption ==
    /\ Dispatched \subseteq Keys
    /\ Replay \subseteq Keys \ Dispatched
    /\ DayKeys \subseteq DailyType
    /\ DailyType \subseteq Dispatched
    /\ Ensuring \subseteq Dispatched
    /\ NoKey \notin Keys
ASSUME RunnersAssumption == Raising \subseteq Runners
ASSUME BoundsAssumption ==
    /\ MaxAttempts \in Nat \ {0} /\ Limit \in Nat \ {0}
    /\ MaxFaults \in Nat

VARIABLES
    jobs,       \* the table: one row per key
    pc,         \* where each runner is in run_due_autonomy_jobs
    batch,      \* listed, not yet claimed: attempt_count of each as listed
    held,       \* the key of the entity a runner claimed and works on
    tries,      \* attempt_count of that entity
    processed,  \* the runner's counter against Limit
    reqKey,     \* the daily key a request computed
    reqActive,  \* the active daily rows it read: attempt_count of each
    effects,    \* history: committed executions of each job's handler
    faults      \* faults spent so far

runnerVars == <<pc, batch, held, tries, processed>>
requestVars == <<reqKey, reqActive>>
vars == <<jobs, runnerVars, requestVars, effects, faults>>

-----------------------------------------------------------------------------
(* Rows.  "absent" is a key with no row yet. *)

Finished == {"completed", "failed", "cancelled"}
NoEntities == [k \in {} |-> 0]  \* an empty list of entities

ActiveStatus == {"scheduled", "claimed"}
Status == {"absent"} \cup ActiveStatus \cup Finished

\* Whether due_at is still to come or in the past.
DueTimes == {"later", "passed"}

Row == [status: Status, due: DueTimes, lease: {"none", "live", "lapsed"},
        attempts: Nat, owner: Runners \cup {NoKey}]

Absent == [status |-> "absent", due |-> "later", lease |-> "none",
           attempts |-> 0, owner |-> NoKey]

\* A row as ScheduledAutonomyJob.build leaves it.
Built(due) == [Absent EXCEPT !.status = "scheduled", !.due = due]

\* Due time and lease of a finished row are kept in the table but no query
\* reads them again: they are dropped here.
Ended(status, attempts) ==
    [Absent EXCEPT !.status = status, !.attempts = attempts]

Claimed(attempts, r) ==
    [Absent EXCEPT !.status = "claimed", !.lease = "live", !.due = "passed",
                   !.attempts = attempts, !.owner = r]

Retried(attempts) == [Built("later") EXCEPT !.attempts = attempts]

\* Mutant of Due: no branch for lapsed leases.
DueWithoutRecovery(k) == jobs[k].status = "scheduled" /\ jobs[k].due = "passed"

\* The rows list_due selects.
Due(k) ==
    \/ jobs[k].status = "scheduled" /\ jobs[k].due = "passed"
    \/ jobs[k].status = "claimed" /\ jobs[k].lease = "lapsed"

\* Mutant of Create: an upsert that rebuilds a finished row.
CreateUpsert(rows, k, due) ==
    IF rows[k].status \in ActiveStatus THEN rows ELSE [rows EXCEPT ![k] = Built(due)]

\* create(): a key that has a row, in whatever status, keeps it.
Create(rows, k, due) ==
    IF rows[k].status = "absent" THEN [rows EXCEPT ![k] = Built(due)] ELSE rows

\* _ensure_daily_materialization_job for key k over the rows it read: keep
\* the job of that key if it is among the active ones, else cancel the active
\* daily jobs and create the wanted one.
Ensure(rows, k, active, due) ==
    IF k \in DOMAIN active THEN rows
    ELSE Create([j \in Keys |-> IF j \in DOMAIN active
                                THEN Ended("cancelled", active[j])
                                ELSE rows[j]], k, due)

\* list_active_by_goal for the daily type.
ActiveDaily == [k \in {j \in DailyType : jobs[j].status \in ActiveStatus} |->
                   jobs[k].attempts]

-----------------------------------------------------------------------------
Init ==
    /\ jobs = [k \in Keys |-> Absent]
    /\ pc = [r \in Runners |-> "idle"]
    /\ batch = [r \in Runners |-> NoEntities]
    /\ held = [r \in Runners |-> NoKey]
    /\ tries = [r \in Runners |-> 0]
    /\ processed = [r \in Runners |-> 0]
    /\ reqKey = [q \in Requests |-> NoKey]
    /\ reqActive = [q \in Requests |-> NoEntities]
    /\ effects = [k \in Keys |-> 0]
    /\ faults = 0

-----------------------------------------------------------------------------
(* Submissions and the passage of time. *)

\* A request schedules a job other than a day's daily job and commits:
\* create_job, or the inline branch.
Submit(k, due) ==
    /\ k \notin DayKeys
    /\ jobs' = Create(jobs, k, due)
    /\ UNCHANGED <<runnerVars, requestVars, effects, faults>>

\* update_availability, resume and the task follow-ups re-ensure the daily
\* job: the active rows are read first ...
EnsureRead(q, k) ==
    /\ reqKey[q] = NoKey
    /\ reqKey' = [reqKey EXCEPT ![q] = k]
    /\ reqActive' = [reqActive EXCEPT ![q] = ActiveDaily]
    /\ UNCHANGED <<jobs, runnerVars, effects, faults>>

\* ... and the cancellations and the new row are committed later, whatever
\* the rows have become.
EnsureCommit(q, due) ==
    /\ reqKey[q] # NoKey
    /\ jobs' = Ensure(jobs, reqKey[q], reqActive[q], due)
    /\ reqKey' = [reqKey EXCEPT ![q] = NoKey]
    /\ reqActive' = [reqActive EXCEPT ![q] = NoEntities]
    /\ UNCHANGED <<runnerVars, effects, faults>>

BecomeDue(k) ==
    /\ jobs[k].status = "scheduled" /\ ~jobs[k].due = "passed"
    /\ jobs' = [jobs EXCEPT ![k].due = "passed"]
    /\ UNCHANGED <<runnerVars, requestVars, effects, faults>>

\* The 300 s lease of the last claim runs out.  Nobody renews it, so it may
\* run out while its holder is still working, at the price of a fault.
LeaseLapses(k) ==
    /\ jobs[k].status = "claimed" /\ jobs[k].lease = "live"
    /\ \/ (\A r \in Runners : held[r] # k) /\ UNCHANGED faults
       \/ /\ \E r \in Runners : held[r] = k
          /\ faults < MaxFaults
          /\ faults' = faults + 1
    /\ jobs' = [jobs EXCEPT ![k].lease = "lapsed"]
    /\ UNCHANGED <<runnerVars, requestVars, effects>>

-----------------------------------------------------------------------------
(* The runner. *)

\* The runner returns, or the next while iteration starts.
Leave(r) ==
    /\ pc' = [pc EXCEPT ![r] = "idle"]
    /\ batch' = [batch EXCEPT ![r] = NoEntities]
    /\ held' = [held EXCEPT ![r] = NoKey]
    /\ tries' = [tries EXCEPT ![r] = 0]
    /\ processed' = [processed EXCEPT ![r] = 0]

\* The for loop goes on to the next listed entity after one is dealt with.
\* counted is 1 when the branch increments processed.
NextEntity(r, counted) ==
    /\ pc' = [pc EXCEPT ![r] = "looping"]
    /\ held' = [held EXCEPT ![r] = NoKey]
    /\ tries' = [tries EXCEPT ![r] = 0]
    /\ processed' = [processed EXCEPT ![r] = @ + counted]
    /\ UNCHANGED batch

StartRun(r) ==
    /\ pc[r] = "idle"
    /\ pc' = [pc EXCEPT ![r] = "looping"]
    /\ UNCHANGED <<jobs, batch, held, tries, processed, requestVars, effects, faults>>

\* while processed < limit: list_due(limit - processed).
ListDue(r, listed) ==
    /\ pc[r] = "looping" /\ DOMAIN batch[r] = {} /\ processed[r] < Limit
    /\ listed # {} /\ listed \subseteq {k \in Keys : Due(k)}
    /\ \/ Cardinality(listed) = Limit - processed[r]
       \/ Cardinality(listed) < Limit - processed[r]
          /\ listed = {k \in Keys : Due(k)}
    /\ batch' = [batch EXCEPT ![r] = [k \in listed |-> jobs[k].attempts]]
    /\ UNCHANGED <<jobs, pc, held, tries, processed, requestVars, effects, faults>>

\* The loop ends: nothing is due, or the limit is reached.
EndRun(r) ==
    /\ pc[r] = "looping" /\ DOMAIN batch[r] = {}
    /\ processed[r] >= Limit \/ \A k \in Keys : ~Due(k)
    /\ Leave(r)
    /\ UNCHANGED <<jobs, requestVars, effects, faults>>

\* claim() checks the listed entity, not the row, and writes the claim over
\* whatever the row says now; the claim is committed at once.
Claim(r, k) ==
    /\ pc[r] = "looping" /\ k \in DOMAIN batch[r]
    /\ jobs' = [jobs EXCEPT ![k] = Claimed(batch[r][k] + 1, r)]
    /\ pc' = [pc EXCEPT ![r] = "running"]
    /\ batch' = [batch EXCEPT ![r] = [j \in DOMAIN batch[r] \ {k} |-> batch[r][j]]]
    /\ held' = [held EXCEPT ![r] = k]
    /\ tries' = [tries EXCEPT ![r] = batch[r][k] + 1]
    /\ UNCHANGED <<processed, requestVars, effects, faults>>

\* The rows after update(complete()) in the same transaction as `rows`.
Completed(rows, r) ==
    [rows EXCEPT ![held[r]] = Ended("completed", tries[r])]

\* Mutant of DispatchSucceeds: the handler commits its work on its own.
DispatchCommitsEarly(r) ==
    /\ pc[r] = "running" /\ held[r] \in Dispatched
    /\ effects' = [effects EXCEPT ![held[r]] = @ + 1]
    /\ pc' = [pc EXCEPT ![r] = "committed"]
    /\ UNCHANGED <<jobs, batch, held, tries, processed, requestVars, faults>>

\* A registered handler returns: its writes, the daily job it re-ensures and
\* the completed row are committed together.
DispatchSucceeds(r) ==
    /\ pc[r] = "running" /\ held[r] \in Dispatched
    /\ \/ jobs' = Completed(jobs, r)
       \/ /\ held[r] \in Ensuring
          /\ \E k \in DayKeys, due \in DueTimes :
                jobs' = Completed(Ensure(jobs, k, ActiveDaily, due), r)
    /\ effects' = [effects EXCEPT ![held[r]] = @ + 1]
    /\ NextEntity(r, 1)
    /\ UNCHANGED <<requestVars, faults>>

\* _process_autonomy_job commits its own work first ...
CallbackCommits(r) ==
    /\ pc[r] = "running" /\ held[r] \notin Dispatched
    /\ effects' = [effects EXCEPT ![held[r]] = @ + 1]
    /\ pc' = [pc EXCEPT ![r] = "committed"]
    /\ UNCHANGED <<jobs, batch, held, tries, processed, requestVars, faults>>

\* ... and the completed row is a second transaction.
CallbackCompletes(r) ==
    /\ pc[r] = "committed"
    /\ jobs' = Completed(jobs, r)
    /\ NextEntity(r, 1)
    /\ UNCHANGED <<requestVars, effects, faults>>

\* What a failing handler has already written is committed with the failure:
\* the error path never rolls back, except that a replay runs in a savepoint.
PartialWork(r) ==
    \/ UNCHANGED effects
    \/ /\ pc[r] = "running" /\ held[r] \notin Replay
       /\ effects' = [effects EXCEPT ![held[r]] = @ + 1]

\* Mutant of HandlerRetries: every type is retried.
HandlerRetriesAnyType(r) ==
    /\ pc[r] \in {"running", "committed"}
    /\ tries[r] < MaxAttempts
    /\ jobs' = [jobs EXCEPT ![held[r]] = Retried(tries[r])]
    /\ NextEntity(r, 1)
    /\ UNCHANGED <<requestVars, effects, faults>>

\* The except branch for a replay job with attempts left: back to scheduled.
HandlerRetries(r) ==
    /\ pc[r] \in {"running", "committed"}
    /\ held[r] \in Replay /\ tries[r] < MaxAttempts
    /\ jobs' = [jobs EXCEPT ![held[r]] = Retried(tries[r])]
    /\ NextEntity(r, 1)
    /\ UNCHANGED <<requestVars, effects, faults>>

\* Mutant of HandlerFails: the exception is swallowed and the job completed.
HandlerFailsSilently(r) ==
    /\ pc[r] \in {"running", "committed"}
    /\ jobs' = Completed(jobs, r)
    /\ PartialWork(r)
    /\ NextEntity(r, 1)
    /\ UNCHANGED <<requestVars, faults>>

\* The rows after update(fail()) in the same transaction as `rows`.
Failed(rows, r) == [rows EXCEPT ![held[r]] = Ended("failed", tries[r])]

\* The except branch for every other failure: the job is failed for good, the
\* daily job the handler re-ensured before it raised is committed with it, and
\* a runner called with raise_on_error leaves with its batch unclaimed.
HandlerFails(r) ==
    /\ pc[r] \in {"running", "committed"}
    /\ ~(held[r] \in Replay /\ tries[r] < MaxAttempts)
    /\ \/ jobs' = Failed(jobs, r)
       \/ /\ pc[r] = "running" /\ held[r] \in Ensuring
          /\ \E k \in DayKeys, due \in DueTimes :
                jobs' = Failed(Ensure(jobs, k, ActiveDaily, due), r)
    /\ PartialWork(r)
    /\ \/ r \in Raising /\ Leave(r)
       \/ r \notin Raising /\ NextEntity(r, 0)
    /\ UNCHANGED <<requestVars, faults>>

\* The process dies, or an exception escapes the loop (the failure path itself
\* fails): the session is closed and what was not committed is lost.
Crash(r) ==
    /\ pc[r] # "idle" /\ faults < MaxFaults
    /\ faults' = faults + 1
    /\ Leave(r)
    /\ UNCHANGED <<jobs, requestVars, effects>>

-----------------------------------------------------------------------------
Handler(r) ==
    \/ DispatchSucceeds(r) \/ CallbackCommits(r) \/ CallbackCompletes(r)
    \/ HandlerRetries(r) \/ HandlerFails(r)

Loop(r) ==
    \/ StartRun(r) \/ EndRun(r)
    \/ \E listed \in SUBSET Keys : ListDue(r, listed)
    \/ \E k \in Keys : Claim(r, k)

Environment ==
    \/ \E k \in Keys, due \in DueTimes : Submit(k, due)
    \/ \E q \in Requests, k \in DayKeys : EnsureRead(q, k)
    \/ \E q \in Requests, due \in DueTimes : EnsureCommit(q, due)
    \/ \E k \in Keys : BecomeDue(k) \/ LeaseLapses(k)

Next ==
    \/ Environment
    \/ \E r \in Runners : Loop(r) \/ Handler(r) \/ Crash(r)

Spec == Init /\ [][Next]_vars

\* The worker process is restarted when it dies and its loop never stops; a
\* handler returns or raises (its LLM calls time out).  Requests are users:
\* nothing makes them come.  Due times and leases pass on their own.
Fairness ==
    /\ \A r \in Runners \ Raising : WF_vars(Loop(r) \/ Handler(r))
    /\ \A k \in Keys : /\ WF_vars(BecomeDue(k))
                       /\ WF_vars(LeaseLapses(k) /\ UNCHANGED faults)

FairSpec == Spec /\ Fairness

-----------------------------------------------------------------------------
IsEntities(list) == DOMAIN list \subseteq Keys /\ list \in [DOMAIN list -> Nat]

\* Every variable keeps its type; a runner holds an entity exactly while its
\* handler runs, and never one that is still in its batch.
TypeOK ==
    /\ jobs \in [Keys -> Row]
    /\ pc \in [Runners -> {"idle", "looping", "running", "committed"}]
    /\ DOMAIN batch = Runners /\ \A r \in Runners : IsEntities(batch[r])
    /\ held \in [Runners -> Keys \cup {NoKey}]
    /\ tries \in [Runners -> Nat]
    /\ processed \in [Runners -> Nat]
    /\ reqKey \in [Requests -> DayKeys \cup {NoKey}]
    /\ DOMAIN reqActive = Requests /\ \A q \in Requests : IsEntities(reqActive[q])
    /\ effects \in [Keys -> Nat]
    /\ faults \in Nat
    /\ \A r \in Runners :
          /\ held[r] = NoKey <=> pc[r] \in {"idle", "looping"}
          /\ held[r] \notin DOMAIN batch[r]

\* A job is reported completed only when its handler's work was committed at
\* least once, with any number of runners, crashes and lapsed leases
\* (task_autonomy_scheduling.py: complete() follows the dispatch).
CompletedMeansDone ==
    \A k \in Keys : jobs[k].status = "completed" => effects[k] >= 1

\* A row waiting to be run has attempts left, and only a replay ever waits
\* with an attempt behind it: no other failure is retried, and no stale
\* write puts an exhausted replay back in the queue.
WaitingHasBudget ==
    \A k \in Keys : jobs[k].status = "scheduled" =>
        /\ jobs[k].attempts < MaxAttempts
        /\ jobs[k].attempts > 0 => k \in Replay

\* A row that is finished changes again only under a runner or a request that
\* read it before it finished: submitting the same idempotency key again, or
\* ensuring the daily job again, never reopens it.
FinishedChangesOnlyFromStaleReads ==
    [][\A k \in Keys :
          (jobs[k].status \in Finished /\ jobs'[k] # jobs[k]) =>
              \/ \E r \in Runners : held[r] = k \/ k \in DOMAIN batch[r]
              \/ \E q \in Requests : k \in DOMAIN reqActive[q]]_vars

\* With one runner, work that is not committed together with the completed
\* row is repeated at most once per fault (replays: once per attempt more).
ReworkCostsAFault ==
    \A k \in Keys : effects[k] <= faults + (IF k \in Replay THEN MaxAttempts ELSE 1)

\* With one runner, a job that completed or failed is never queued or claimed
\* again, whatever requests cancel meanwhile.
NoRerunOfFinished ==
    [][\A k \in Keys : jobs[k].status \in {"completed", "failed"} =>
          jobs'[k].status \notin ActiveStatus]_vars

\* With one runner, a dispatched job's work is committed at most once, crashes
\* and lapsed leases included: the queue implements WorkLedger.
Ledger == INSTANCE WorkLedger WITH
    Work <- Dispatched,
    known <- {k \in Dispatched : jobs[k].status # "absent"},
    runs <- [k \in Dispatched |-> effects[k]]

AtMostOnce == Ledger!Spec

\* While a claim's lease is live nobody else claims the row.
NoLeaseStolen ==
    [][\A k \in Keys :
          (jobs[k].status = "claimed" /\ jobs[k].lease = "live"
              /\ jobs'[k].status = "claimed") => jobs'[k].owner = jobs[k].owner]_vars

\* After a request has ensured the daily job, some daily job is waiting or
\* being run, so that the goal's materialization goes on
\* (tests/test_task_service.py expects one after update_goal_availability).
EnsureLeavesADailyJob ==
    [][\A q \in Requests :
          (reqKey[q] # NoKey /\ reqKey'[q] = NoKey) =>
              \E k \in DailyType : jobs'[k].status \in ActiveStatus]_vars

\* Every job that waits or is claimed is eventually finished, although a
\* claimed one may lose its holder: the worker polls, lists the due rows and
\* takes over claims whose lease has lapsed.
EventuallySettled ==
    \A k \in Keys : jobs[k].status \in ActiveStatus ~> jobs[k].status \in Finished
=============================================================================
