# agent-edu: specification and proofs

TLA+ modules of the autonomous part of agent-edu (the Python backend under
`packages/agent_core`), TLC configurations that check them on small instances,
and TLAPS proofs of what matters most for every value of the constants.
Paths below are relative to `packages/agent_core/src/agent_core/` unless they
start with `apps/`, `tests/`, `rules/` or `docs/`. `task.py` and the other files
without a directory are in `application/services/`.

## 1. The system

A learner has goals. A goal has a study plan in versions; a plan has stages and
a blueprint of tasks, which are materialized into daily tasks as days come near.
Requests of the API and the jobs of a queue change these; an LLM drafts plans
and content. Around them the backend keeps long-term memories of the learner,
reflects on outcomes, proposes changes to its own prompts, workflows and skills,
and rolls approved proposals out. Everything is in one PostgreSQL database, read
through SQLAlchemy sessions at the read committed level with
`expire_on_commit=False`: a session does not see what others change in rows it
has read, and entities are immutable values. `update` takes a whole entity,
selects its row by id and assigns every column; SQLAlchemy then writes those that
differ from what it selected. A change committed before that select is written
over whole; one that is committed after it, while the update waits for the row's
lock, is kept in the columns that the update did not mean to change. **Most of
what can go wrong here follows from that**: an entity read before an LLM call is
written after it, over whatever the row has become.

| Part | State | Operations | Interacts with |
| --- | --- | --- | --- |
| Worker (`apps/worker/main.py`) | none | `run_forever`: autonomy queue, memory maintenance, skill curator, each on its own session | all queues |
| Autonomy job queue (`task_autonomy_scheduling.py`, `learner/autonomy.py`, `repositories/learner.py`) | `scheduled_autonomy_jobs`: status, due time, lease, attempts, idempotency key | create, list due, claim, complete, retry, fail, cancel, re-ensure the daily job | job handlers; requests run it inline too |
| Goals and autonomy phases (`goal.py`, `GoalAutonomyState`) | goal status, phase, current plan | activate, pause, resume, archive, manual replan | plan lifecycle |
| Plan lifecycle (`task_plan_lifecycle.py`, `task.py`) | plans, stages, daily tasks | generate, supersede, extend, replan full or partial, update a task | planner, queue |
| Stage gate and materialization (`task.py`, `planner.py`) | daily tasks, milestones, `materialized_until_date` | extension, daily materialization, milestone generation, suppression | queue, learner |
| Task execution and follow-ups (`task_execution.py`, `task_status_update_support.py`) | runs, attempts, mastery | execute, complete, fail, skip | queue, reflection |
| Memory maintenance queue (`memory_maintenance.py`) | `memory_maintenance_jobs` with cursor and lease | seed, claim, batch, progress, retry | memories |
| Long-term memory (`memory.py`) | knowledge and behaviour memories, embeddings, conflict sets | upsert, reinforce, govern, compress, suppress, restore | materialization, retrieval |
| Materialization and replay (`long_term_memory_materialization*.py`) | memories; replay jobs | materialize in a savepoint, replay with backoff | queue |
| Sessions, chat, quiz (`chat.py`, `session.py`, `quiz.py`) | sessions, messages, quizzes, usages | a turn, a quiz, a change of status | LLM, memory |
| Reflection (`reflection*.py`, `strategy_cards.py`) | records, actions, evaluations, cards, insights | trigger, aggregate, evaluate, resolve, override | proposals, prompts |
| Proposals and sandbox (`reflection_proposals.py`, `reflection_proposal_sandbox.py`) | proposals, sandbox runs | enqueue, run, approve, reject | queue, rollouts |
| Rollouts (`reflection_proposal_rollouts.py` and its schedulers) | rollouts, bindings, observations, decisions | activate, observe, promote, roll back | plans, skills |
| Skills (`skills.py`) | artifacts, recommendations | stage, activate, replace, stabilize, suppress, restore, archive, recommend, accept | curator, rollouts |
| Skill runtime (`tool_plan_*.py`, `dynamic_runtime_registry.py`, `goal_skill_binding_resolver.py`) | usage of rollouts | resolve, check, preview and execute tool plans | jobs, observations |
| Provider guards (`llm_guard.py`, `circuit_breaker.py`) | call times; breaker state of the process | check, allow, record success or failure | every LLM call |
| Rest: access control, rate limit, audit, metrics, CLI, frontend | rows or counters | reading and checking | |

What makes the behaviour hard:

* **concurrency**: the worker, and requests which run the same queue inline
  (`materialize_today`, `manual_replan_goal`), work on the same rows, most of
  them without row locks;
* **partial commits**: some handlers commit before their job's row is completed
  (callback jobs, `task.py:546`), a failed handler's writes are committed with
  the failure (`task_autonomy_scheduling.py:390`), a savepoint may be lost while
  its transaction is kept (`chat.py:795`);
* **crashes and leases**: a claimed row comes back when its lease has lapsed,
  with nothing known of how far the handler came;
* **late answers**: calls of the LLM overlap, and answer after the breaker
  opened, the session closed or the plan was replaced;
* **idempotency keys that are spent for ever**, by finished and cancelled rows;
* **status machines shared by several writers**: phase, plan, task, job,
  proposal, rollout, artifact, memory;
* **judgement after the fact**: artifacts are promoted on observations of usage
  that other runs have left, and rolled back while something else is open.

What makes each part correct is stated as its module's properties (section 3).

## 2. The modules

| Module | Models |
| --- | --- |
| `AutonomyJobs` | the job queue, its runners and the requests that ensure the daily job |
| `WorkLedger` | abstract specification: what the queue promises of submitted work |
| `MemoryMaintenance` | the maintenance queue and its paged sweeps |
| `GoalPlanning` | goal, phase, plan versions, tasks, replan jobs |
| `StageGate`, `MCStageGate` | blueprint, window, milestones, gate, repairs |
| `ProviderGuard` | call budget and circuit breaker of a process |
| `SessionTurns`, `MCSessionTurns` | turns, quizzes and status changes of a session; implements `ProviderGuard` |
| `Memories` | long-term memories, embeddings, compression, conflict sets |
| `Reflections`, `MCReflections` | records, their evaluation and governance, strategy cards, insights |
| `Rollouts` | proposals, sandbox, approval, rollouts with bindings and overlay |
| `SkillArtifacts` | artifacts of a skill and the curator's recommendations |
| `SkillRuntime`, `MCSkillRuntime` | tool plans of the autonomy jobs, their usage and observation; implements `SkillArtifacts` |
| `AutonomyProofs` (of `AutonomyJobs` and `Reflections`), `MemoryMaintenanceProofs`, `GoalPlanningProofs`, `StageGateProofs`, `SessionTurnsProofs`, `MemoriesProofs`, `RolloutsProofs`, `SkillRuntimeProofs` | theorems |

One pattern recurs. A transaction that reads a row and writes it later is a
*hand*: `Begin` puts into it what was read, other transactions commit, `Commit`
writes. What a hand writes is decided by what it holds, not by what the rows
have become, as far as the code does the same; rows that are selected `FOR
UPDATE` cannot be taken by another meanwhile. `Rollouts`, `Memories` and
`SessionTurns` have both outcomes of an update, the row as it was read and the
columns that differ; the other modules write rows whole, and leave out the
mixture that a wait for a lock may give. A transaction that meets nobody is one
step (`Undisturbed`). `stale` is a history variable that says that some
hand wrote over a later change: properties that hold without it say what the
code guarantees when nothing overlaps badly, and the others what it guarantees
always.

**AutonomyJobs.** A row is named by its idempotency key. `jobs` is the table; a
runner has a program counter, the `batch` it listed (with the attempt count of
each entity as listed), the entity it `held` and its count against the limit.
Times are what the queries compare: `due` is later or passed, `lease` none, live
or lapsed. `ListDue`, `Claim`, `DispatchSucceeds`, `CallbackCommits` then
`CallbackCompletes`, `HandlerRetries`, `HandlerFails` are the statements of
`run_due_autonomy_jobs` between its commits; `EnsureRead` and `EnsureCommit` are
a request that computed the day's key and the active rows before it cancels
them. `effects` is a history variable: how often a handler's work was committed.
A handler that raises commits, with its row's failure, the daily job it may have
ensured by then (`HandlerFails`); the rest of its partial work is in `GoalPlanning`
and `StageGate`.

**MemoryMaintenance.** A row per job type and window day. A tick seeds, lists,
claims by compare and set, reads a batch after the cursor with one look-ahead
record, and commits work and row together. Records come and go between batches.
`owed` is what the sweep found at its seeding and has not dealt with; `done` and
`redone` say what was worked on, once or twice.

**GoalPlanning.** An actor is a transaction of a request or of a job handler.
`Begin...` is what it reads first (the active plan, a task), `ReadState` the
later reading of the autonomy state, `Commit...` its writes. `waiting`, `done`
and `failed` are the keys of replan jobs; `FailHalfway` is the error path that
commits what was written.

**StageGate.** Days are numbers; an item of the blueprint has a stage and a day.
`tasks` holds the statuses of the tasks made for each item, of the milestones
and repairs of each stage, in order. A runner's `hand` has the tasks and the
gate its handler read; `Reread` is the second query of the daily handler.

**ProviderGuard.** Calls are coroutines of one process, so a step is what runs
between two awaits. Ages instead of clock readings, capped where nothing
distinguishes them. One provider per process: the mock answers at once under the
budget alone, DashScope is called through the breaker with retries.

**SessionTurns.** A request is a coroutine of `ProviderGuard`. `Begin` reads the
row of the session, the calls are the guard's own actions, `PersistTurn`,
`LoseTurn`, `PersistQuiz`, `LoseQuiz`, `SetStatus` and `LoseStatus` end it, and
`Replay` and `ReplayFails` are the replay job's handler (its attempts are
counted in `AutonomyJobs`). An invalid reply is repaired by a second call with
retries of its own. `Overlaid` is what an update leaves of a row: the whole row
as read, or only the columns that differ, when another transaction still held
the row. Quizzes reach the mock only: `quiz.py:100` passes arguments that the
DashScope provider's `generate_quiz_draft` does not take.

**Memories.** `memories` are the rows of one kind (knowledge or behaviour) of
one topic, `embeddings` the status that retrieval reads, `eligibility` the
current promotion record, `conflicts` the goals with an open set. A hand has the
rows it read and those it will write: a refreshed candidate (`Refreshes`), a
governed memory (`Governances`), a compression (`Compression`), each with a call
of the embedding provider in between. A memory may have no embedding: one is
asked for with a new candidate (`Insert`), when governance promotes a knowledge
candidate and for the result of a compression (`Asked`), and created if a provider
is configured then (`Creatable`; without one nothing is compressed, `Made`). Every
other write only changes the status of one that exists (`Embedded`). `Unprovided`
are the memories that may be handled while no provider is configured: any set in
the proofs, the first one to be created in the two passing runs. A compression writes to the embeddings it has listed; that its list
misses one created since is left out: its sources are in production, and only a
candidate gets an embedding later. `Evidence` reduces the scores to what the
thresholds tell apart.

**Reflections.** `Begin` is what the first step of a transaction looks up: the
row to change and the active card; `Commit` writes that step over what the rows
have become and goes on with the remaining steps on the rows as they are. The
verdict's scores are a choice of cause. A day is a tick of 24 hours: cooldowns,
windows and due dates are counted in them.

**Rollouts.** Proposals of one goal for one surface. The sandbox job locks the
proposal's row with its first flush, asks the LLM, and commits: it is one step, at
its commit. Requests, the curator, observations, decisions, promotions and
rollbacks are hands. What an update makes of a row it has read is a set
(`Updated`, `Rewritten`): its select found the row as it was read, because it ran
before another's commit and waited for the lock, or as it is now. So an approval
that waited for the sandbox job changes the status and leaves the verdict.
`bindings` are what the runtime resolves; a rollout's binding is read again and
follows it. When the surface is that of plans, `overlay` is the rollout the plan in
use was built with. Plans are built by the generation of a plan (a goal's first
plan and every full replan), which looks up the overlay that is rolled out before
it asks the LLM (`BeginPlan`, `CommitPlan`), by an activation, with its own
rollout, and by a rollback, with what is rolled out then. Each supersedes the plan
it read: when another took its place meanwhile two are active, and either is in use
(`Replanned`; the query orders by a version that may be the same).
`CommitHalfway` is a governor's rollback that raises and is committed with the
failed decision job. `MaxOpen` bounds the transactions in whose course others are
committed, not the transactions.

**SkillArtifacts.** The artifacts of one name and scope, with the partial unique
indexes as guards of what may be committed (`Indexed`). `trials` is the status of
the rollout of each artifact's proposal, `evidence` what its usage and
observations amount to. Activation and replacement lock the artifacts they touch
(`LockedBy`) from their reads on. The others read without a lock, and wait for one
where they write (`Writes`): a dismissal writes no artifact, nor does the rollback
of one that is not in production, so neither waits for an activation. `Gather` and `Regress` are the environment here.

**SkillRuntime.** The environment of `SkillArtifacts` made explicit. A tool plan
is a sequence of steps with a tool, an id and a payload of literals, variables
and references; `Accepted` is the contract, `Previews` the dry run of the
sandbox, `Reports` the executions that are possible, `Verdicts` what a completed
run says of its plan and `Observe` what the observation job makes of the usage.
`Sound` is a plan that can run without anything being held against it. Between
the look-up of the artifact and the commit nothing is visible to others, so that
execution and recording are one step; runs of a goal follow each other.

### How they compose

`SessionTurns` extends `ProviderGuard`: each request's steps are steps of the
guard or stutters, which is proved. `SkillRuntime` extends `SkillArtifacts`: runs
and observations are its `Gather` and `Regress`, which is proved. `AutonomyJobs`
with one runner implements `WorkLedger`, which is proved and checked; it
establishes what handlers may assume of the queue: one runner runs dispatched
work at most once, callback work again only after a fault, and two runners may
run a job at once. `GoalPlanning`, `StageGate`, `Rollouts` and the rest take
exactly that as their environment (a job is a transaction, may be run again
after a crash, may overlap another). They are separate because their product has
more states than TLC can visit and shares only job keys, or one status:
`Rollouts` gives `SkillArtifacts` its trials, `Reflections` gives `Rollouts` its
feedback, `MemoryMaintenance` drives the sweeps of `Memories`.

## 3. The runs

| Run | Configuration | Shows |
| --- | --- | --- |
| `jobs_worker` | `AutonomyJobsWorker.cfg` | one worker and a request, two faults: dispatched work happens at most once (`AtMostOnce`, the refinement of `WorkLedger`), callback work is repeated only for a fault, every job settles |
| `jobs_two` | `AutonomyJobsTwo.cfg` | two runners: completed means done, a finished row changes only by a stale entity |
| `maint` | `MemoryMaintenance.cfg` | two workers, the day of a job and the day after: a completed sweep skipped nothing, jobs settle |
| `plan_one` | `GoalPlanningOne.cfg` | transactions one after another: the newest plan is the active one, state, plan and tasks agree, settled tasks stay so, replans are served |
| `gate_one` | `StageGateOne.cfg` | one runner and the learner: the gate holds, an item is materialized once, a stage has one milestone and gets it when due |
| `session` | `SessionTurns.cfg` | two overlapping requests: messages are counted, turns remembered or replayed, usages true, the provider rests for its cooldown |
| `rollouts` | `Rollouts.cfg` | two proposals on the plans' surface, a transaction in whose course others commit, and a fault: one rollout in use, bindings follow it, which transactions may approve against a verdict, leave an overlay behind or bring a rollout back, regressions and evaluations are served |
| `skills` | `SkillRuntime.cfg` | an artifact, the replacement built for it, and the runs of their plans: production rests on rollouts, what is retired stays, ready replacements are recommended, plans that cannot run well are not served, bad runs tell |
| `memories` | `Memories.cfg` | two memories of a topic, a candidate open while others commit: the embeddings there are follow, eligible candidates are promoted, conflict sets open and close |
| `memories_compress` | `MemoriesCompress.cfg` | three memories, a compression open: only an operator, or a transaction that read it before, brings a suppressed one back |
| `memories_restored` | `MemoriesRestored.cfg` | **violated** `SuppressedIsNotRestored`: a governance batch that read a memory before it was suppressed brings it back, against `rules/security.md:135` |
| `reflections` | `Reflections.cfg` | two overlapping transactions, an operator and a periodic reflection: reviews stay due, duplicates are counted, the newest card is active |

### Configurations kept beside the runs

They end without an error, on instances or properties the runs do not have:

* `GoalPlanningTwo.cfg`: two overlapping transactions; the newest plan is
  active, superseded plans have a successor, a replan job is in one state;
* `MemoryMaintenanceOne.cfg`: one worker, batches of two; nothing is swept twice;
* `ProviderGuard.cfg`: the guards alone with a wider window; `BreakerCounts`;
* `SkillArtifacts.cfg`: every operation may stay open while others commit, with
  `AcceptedIsDone` and without the runtime (about a minute).

They end with a counterexample and document where a promise is not kept:

* `AutonomyJobsLease.cfg`: two runners that listed a job both claim it
  (`repositories/learner.py:376`);
* `AutonomyJobsDaily.cfg`: re-ensuring the daily job may leave none, when the
  day's key is spent (`task_autonomy_scheduling.py:486`);
* `GoalPlanningReply.cfg`: a repeated manual replan does nothing and leaves the
  phase;
* `GoalPlanningRace.cfg`: two overlapping `generate_plan` leave two active
  plans (`task_plan_lifecycle.py:135`);
* `GoalPlanningArchived.cfg`: a stale entity takes a goal out of `archived`
  (`repositories/learner.py:258`, `learner/autonomy.py:120`);
* `GoalPlanningRollback.cfg`: a replan job that fails leaves its repair task
  (`rules/backend.md:76` wants a rollback);
* `StageGateRelease.cfg`: items the gate has suppressed do not come back;
* `StageGateFailed.cfg`: a failed milestone opens the gate once its repair
  exists (`task.py:2576`);
* `StageGateLost.cfg`: suppression overwrites a task completed meanwhile;
* `StageGateTwice.cfg`: overlapping handlers create one item twice;
* `ProviderGuardProbe.cfg`: a half-open breaker lets more than one probe
  through (`circuit_breaker.py:13`);
* `SkillArtifactsRollback.cfg`: activation locks the artifact and reads its
  rollout unlocked (`skills.py:1038`, `:1620`), and a rollback passes in between
  (`reflection_proposal_rollouts.py:331`): an artifact whose rollout is rolled
  back is in use (`rules/security.md:144`);
* `ReflectionsReview.cfg`: a stale occurrence writes the status back to what it
  was before an operator's review.

### Bounds

* Jobs: three keys, of the kinds the code treats differently; two attempts
  instead of three, so that one retry and one exhaustion happen; one or two
  faults; limit 2, so that a run ends by its limit with a row left.
* Maintenance: two workers with batches of one, one fault: enough for a stale
  holder; the jobs of one window day, followed into the day after (that day's own jobs
  are beyond the bound). With one worker, three records in batches of two (a full
  batch, a rest, an empty page).
* Plans: a budget of three requests, scheduled jobs or crashes, one task for a
  plan. A superseded plan, a resurrected one and a third need three.
* Gate: two stages of one item each; one intervention (a failure, a replan, a
  crash). The deadline ends the model.
* Session: two coroutines, two turns and a quiz, threshold 2, cooldown 2 ticks,
  one retry, one call per window; `Closed` has one status, because the code
  treats all of them alike. Turns and quizzes are drawn from `Turns` and
  `Quizzes` and end with them.
* Rollouts: two proposals, one of them a package and one that is approved at the
  beginning, so that they compete; two requests, one fault, and one transaction
  that stays open while others commit. Every operation, and the generation of a
  plan, may be that one; the properties name what such a transaction may do.
* Skills: one artifact from its candidate on and one replacement governed by it;
  the offers of `MCSkillRuntime` have plans of every surface, sound ones and
  three kinds the contract and the preview accept though they cannot run or drop
  what they created. The one transaction that stays open is a replacement, which
  touches two artifacts; `SkillArtifacts.cfg` has all.
* Memories: two memories suffice for a conflict and a merge of identities, three
  for a compression (two sources and its result); `Held` names the operations
  that may be open in a configuration.
* Reflections: two tasks, a repair among them, an assessment, one failed run, one
  decision, two days: a duplicate within a cooldown and one after it.

Deadlock is checked for `MemoryMaintenance` and for `ProviderGuard` alone.
Elsewhere the system may stop: bounded requests, items or days are used up and
nothing is due.

### Fairness

What `run_forever` gives: the worker's loop goes on after every exception, a
handler returns or raises because its LLM calls time out, due times and leases
pass. Users, record changes and crashes are never fair.

* `AutonomyJobs`, `MemoryMaintenance`, `GoalPlanning`: weak fairness of the
  steps of runners and workers, and of time where it must pass.
* `StageGate`: the claim of a daily or milestone job is strongly fair: the
  listing orders jobs by due time, so a job that is due again and again comes to
  the head.
* `Rollouts`: weak fairness of the evaluation jobs, of each decision, and of the
  commit of what is open. Observations are not fair: they follow use.
* `SkillRuntime`: weak fairness of each observation job and of each
  recommendation of the curator, which runs periodically.
* `Memories`: weak fairness of the governance of each memory and of the refresh of
  conflicts, which jobs seed again every window.
* `Reflections`, `SessionTurns`: none; their properties are safety. A turn need
  never be asked, and a replay may be exhausted.

## 4. What is proved

All theorems are for any constants that satisfy the modules' assumptions: any
number of keys, runners, records, plans, requests, proposals, artifacts and
faults. Some are for one actor only; they say so by a hypothesis (`SingleRunner`,
`SingleWorker`, `SingleActor`, `Alone`). `AutonomyJobsLease.cfg`,
`GoalPlanningRace.cfg` and `StageGateTwice.cfg` show what becomes of such a
property with two. Each inductive invariant was checked with TLC on the
instances of the runs before it was proved.

* `AutonomyProofs`, of the queue: `TypeCorrect`; `CompletedJobsWereDone`, by `DoneInv`: a
  runner past its handler's commit has an effect behind it, and no stale claim
  or retry takes effects away; `WaitingJobsHaveBudget`, which needs that an
  entity in a batch or in hand has no more attempts than its row allows.
  With one runner: `DispatchedWorkAtMostOnce`, the refinement of `WorkLedger`,
  and `FinishedNeverRerun`. `LedgerInv` ties the runner's batch to the table:
  what it listed has not finished since, except by cancellation, and a
  dispatched job with an effect is completed. It is not true with two runners,
  as `AutonomyJobsLease.cfg` shows, and the proof uses the hypothesis where it
  must. `RepeatedWorkCostsAFault` bounds how often a job's work is committed by
  the faults that happened. The bound is not inductive: an attempt that is still to
  come may commit the work once more. `CostInv` states, for each place a job can
  be in (scheduled, listed, claimed, running, committed), the room that the
  attempts so far leave. With any number of runners and requests
  `StaleReadsAlone`: a finished row changes only under one that has it in hand,
  or read it as active before.
* `AutonomyProofs`, of `Reflections`: `ReflectionsTypeCorrect`, `ReviewStaysDue`,
  `NoOccurrenceIsLost` and `NewestCardStaysActive`, from `ReflectionsInv`: these
  four, that every row is older than the next transaction, and that what a
  transaction has read is a row that is there. The evaluation of outcomes and the
  sum of the counts are recursions over any number of rows. `InductionUpTo` and
  `Recursion` are induction and the existence of a recursive function, stated
  with sets and proved from the well-foundedness of the numbers. Each step of the
  evaluation stays among the tables that follow from those it began with
  (`Follows`, `EvaluatedFollows`): a record is left as it was, or dated and in the
  status it had, the status the first step has read, or under review. A first step
  that has read what the row still is changes nothing that the theorems say; one
  that has read an older copy dates the row, so that the record counts as stale.
  The sums are compared row by row (`CountsCompared`, `CountsAppended`), and a
  second trigger is new exactly if it was so before the first, since their dedupe
  keys differ. A refresh of any card, superseded or not, adds one that is newer
  than the card it supersedes, hence the newest stays active (`RefreshShape`).
* `MemoryMaintenanceProofs`: `TypeCorrect`, `WaitingJobsHaveBudget`
  (`BudgetInv`), `CompletedSweepsAreWhole` (`CoverInv`: every owed record lies
  behind the row's cursor, behind every holder's cursor and in or behind the
  batch it read, so that even a stale cursor only repeats); with one worker
  `NothingSweptTwice` (`OnceInv`: what is done lies before the cursor) and
  `FinishedForGood`.
* `GoalPlanningProofs`: `TypeCorrect`, `NewestPlanActive`,
  `PlansAreSucceeded`, `JobsHaveOneState` for overlapping transactions, from
  `IInv`: a transaction is about a plan and a task that exist. With transactions
  that do not overlap: `SingleActorOnePlan`; and by `FollowInv`, which says that
  what the one transaction read is what the rows still are, so that its late
  writes overwrite nothing, `SingleActorStateFollows` (the goal, its phase and
  its newest plan agree), `SingleActorTasksFollow` (a task that is open belongs
  to the newest plan) and `SingleActorTasksSettle` (a settled task stays so).
* `StageGateProofs`: `TypeCorrect`; for any number of runners
  `OneTaskOfEachRunner`, by `OnceInv`: the tasks of an item and the runners that
  have read none of them are together no more than the runners. Every action is
  first shown to be of one of few kinds (it leaves the tasks, closes some, reads,
  or commits what it admits), and the invariants are proved on the kinds. With a
  single runner `OneMilestoneOfAStage` and `GateIsKept`, by `AloneInv`: the
  handler that runs has read every milestone that is not superseded, and the
  gate is shut for it wherever it is shut now, since in the meantime the learner
  can only open it.
* `SessionTurnsProofs`: of the guard, `BreakerCountsFailures` and
  `ProviderRestsForCooldown`, inductive together: the breaker is open while the
  latest failure that counted is younger than the cooldown. Of sessions,
  `SessionImplementsGuard`, from which the guard's two theorems hold of them;
  `SessionCountsMessages` (a request holds no row that counts more messages than
  are stored), `SessionReplaysTurns`, `SessionUsageTellsOutcome`,
  `SessionClosedStays`.
* `MemoriesProofs`: `TypeCorrect`; `EmbeddingsHaveTheStatus` (an embedding that
  exists has the status of its memory until a stale write),
  `CompressedNamesAnother` and `SuppressedIsKept`, inductive with what a hand
  holds: its writes are for rows it has read or for a free one, and a merged
  memory's sources exist.
* `RolloutsProofs`: `TypeCorrect`; `OneRolloutInUse` and `BindingsFollowRollouts`
  hold until the first commit that writes over a later change, and are inductive
  together (`InUse`): a surface has at most one rollout in use, a binding has the
  status of its rollout; a completed sandbox row comes from a completed
  run and has a verdict (`Sound`), and an open transaction was granted on such a
  row (`HandsSound`). Three
  theorems say of every behaviour, stale writes included, which steps may break
  what operators rely on. `VerdictsHold`: a proposal comes to be approved against
  its latest verdict only by an approval or a review that read it before that
  verdict or decision. `PlansDropOverlays`: the plan in use gets, or keeps, the
  overlay of a rollout that is out of use only by a transaction that was overtaken
  (its rows, the overlay it found or the plan it replaces have changed), or by a
  rollback that raised. `RolledBackIsKept`: only a transaction that read a rollout
  before brings it back. That `NoOverlay` is no proposal is an assumption of the
  module.
* `SkillRuntimeProofs`: `SkillTypeCorrect`, `SkillProductionIsRolledOut` and
  `SkillRetiredStays`, from `HandOK`: a transaction that puts an artifact in use
  was granted that on a row that was staged or active and a rollout that was
  rolled out. `EffectShape` says once what any transaction can do to the rows.
  `RuntimeImplementsArtifacts` carries these over to the runtime.
  `RuntimeServesSoundPlans` is by `Trusted` and `UsedWell`: artifacts with
  evidence, in production, or about to be put there, and artifacts whose usage
  has no regression, all have sound plans. It is an invariant because a completed
  run that leaves nothing bad is itself the witness that its plan is sound, and
  because what is held against a rollout is never forgotten.

Model-checked only: everything under fairness (`WF_`, `SF_`), since TLAPS proves no
liveness here, and that the configurations of section 3 find the violations named
there. Every other property that a passing run checks has its theorem.

## 5. Observations about the code

Beside the run that ends in a violation and the configurations above, these were
met while the modules were written. They are part of the modelled behaviour where
the component is modelled.

Jobs, plans and tasks

* A reclaim does not compare `attempt_count` with `max_attempts`
  (`learner/autonomy.py:178`): a job that kills its worker is run for ever.
* The next day's daily job is ensured by the handler of this day's
  (`task.py:1674`): when that fails the chain ends until a request comes.
* A failing job commits what its earlier steps created
  (`task_autonomy_scheduling.py:364-422`).
* Jobs that run while a goal is paused set it active
  (`task_autonomy_scheduling.py:261`).
* A partial replan without a source takes the newest task whatever its state
  (`task.py:1003`).
* The failed run is written into the transaction that is rolled back, and with it
  the reflection on the failure (`task_execution.py:222`, `:247`).

Provider, sessions and quizzes

* The call budget counts calls the breaker rejects (`llm_guard.py:16`).
* `quiz.py:100` passes `skill_directives` and `feedback_style`, which the DashScope
  provider's `generate_quiz_draft` does not take: with the real provider every
  quiz fails with a TypeError, and the study plan falls back to the blueprint in
  the same way (`docs/IMPLEMENTATION_PLAN.md:36` says that quizzes already reach the
  real model).
* Turns that overlap are counted once in `message_count`, and a turn that began
  before its session was closed opens it again (the row is written whole after
  the call, `repositories/session.py:174`). `create_message` never looks at the
  session's status, and any status may follow any.
* An embedding that fails for a session memory takes the whole turn with it
  although the LLM replied; long-term materialization is isolated.
* A chat turn whose persisting fails leaves no usage; a quiz leaves a failed one.
* A failing flush while the replay is enqueued poisons the transaction: the
  handler that reports "replay_enqueue_failed" does not save the turn. Sessions
  without a goal have no replay at all.
* The audit of a blocked skill in a session request is recorded in a transaction
  that is never committed.

Memories

* `memory_conflict_policy.py:36` says that an open set
  "blocks_promotion_and_adds_demotion_pressure"; nothing blocks promotion on it.
* Stable memories can never be archived; suppressing a compressed source leaves
  the compressed copy; restoring one serves its content twice.
* Compression groups by scope and key (`memory.py:5240`), memories of different
  goals included; when the merged identity is already a candidate's or a
  suppressed memory's, every retry ends in an integrity error.
* Two eligible candidates of different category are both promoted.
* An update that waited for a suppression leaves the row suppressed and its
  embedding active (`memory.py:784-845`).

Reflections

* Outcomes are evaluated in the transaction that makes the record, on attempts
  before it included, while `docs/SYSTEM_DESIGN.md:484` names the next three
  opportunities; only the records of repair tasks' replans wait.
* The job that sweeps pending outcomes does nothing: the repository has no
  `list_pending` (`reflection_outcomes.py:89`).
* Overrides of the root cause and of the action's type are not persisted
  (`repositories/reflection.py:185-204`, `:357-365`); a proposed action that needs
  approval is never executed.
* A record past its cooldown stays open beside the next one of its key
  (`docs/SYSTEM_DESIGN.md:481`); insights have no uniqueness.

Proposals and rollouts

* An approval that read a proposal before the sandbox job's verdict and waited for
  its lock leaves an approved proposal with the verdict `ineffective`, which may then
  be activated (`reflection_proposal_sandbox.py:94-172`,
  `repositories/reflection.py:876-891`).
* A plan whose generation looked for an overlay before a rollback and is committed
  after it keeps the overlay of the rollout that was rolled back
  (`planner.py:76-89`, `task_plan_lifecycle.py:155`); nothing builds another plan
  until the next replan.
* A replan while a rollout is staged drops its overlay: the planner asks for what is
  rolled out, `include_staged` is false. The rollout is then observed and promoted
  on plans that were not built with it.
* A rollback of the governor that raises after its first flush commits the status
  without a new plan; the rollout is no longer in use, so that no retry builds one.

Skills and tool plans

* `skill_replacement_auto_execution.py:594` calls the repository without the
  required `accepted_by` (`repositories/skill.py:684`): the automatic replacement
  raises a TypeError as soon as it comes this far, and its job is marked failed.
* A package with a tool plan for `review_scheduling` or `assessment_generation`
  never gets good evidence: the usage of these surfaces has no sequence in it, so
  every run is a regression (`docs/IMPLEMENTATION_PLAN.md:588`, `:591`). The model
  says the same: no plan of these surfaces is `Sound`.
* In a replan, a follow-up review whose step is not called `followup_review`, or a
  run near the deadline that creates no review, counts against the rollout, and so
  does any full replan, whose usage has no sequence.
* Contract and preview accept plans without what their tool cannot do without
  (`source_task_id`), which fail in every run; empty plans always fail the preview.
* The resolver reads suppressed and then selectable artifacts without a lock
  (`skills.py:4378`, `:4404`): a suppression in between gives the static fallback
  "missing_artifact" instead of "blocked". While a skill is suppressed every job of
  its surface fails and leaves no usage, so that a replacement's trial gathers
  nothing.
* A failing full replan and a run that is skipped early record usage but schedule
  no observation: an artifact may be activated on the observation before.

## 6. Not modelled

* What the LLM returns, wording, minutes, scores and mastery figures: a choice
  among what the thresholds tell apart.
* Reading, display, metrics, CLI and frontend; access control and the API's rate
  limiter, which keep no state that interleaves; the audit trail, which nothing
  modelled reads; review intervals, a pure function.
* Several goals, profiles or topics at once, except where an operation relates
  them (memories of two goals in one compression, the queue's listing over keys).
* Recommendations of the curator to patch, merge, flag or review a rollback: they
  change no artifact. Automatic replacement, which cannot run (section 5).
* The onboarding conversation before the first plan, session-scoped memories and
  the choice of messages for a prompt.
* Two updates of one task at a time are left to `GoalPlanning`; in `Reflections` a
  task is updated once.
