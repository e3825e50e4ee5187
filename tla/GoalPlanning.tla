---------------------------- MODULE GoalPlanning ----------------------------
(***************************************************************************)
(* One learner goal: its status, the phase of its GoalAutonomyState, the   *)
(* versions of its study plan, its daily tasks and its replan jobs.        *)
(*                                                                         *)
(* Requests and job handlers are transactions of the actors, at the read   *)
(* committed level.  What a transaction reads when it starts (Begin...) it *)
(* acts on when it commits (Commit...); between the two an LLM drafts a    *)
(* plan, a task is executed, and other actors commit.  Late in its course  *)
(* it reads the goal's autonomy state (ReadState), and writes it back as a *)
(* whole.                                                                  *)
(*                                                                         *)
(* Each replan job is run by one actor; what the queue does when several   *)
(* claim it is the subject of AutonomyJobs.  Of the other jobs only the    *)
(* tasks and the phase they leave matter here: Extend and Review.          *)
(***************************************************************************)
EXTENDS Naturals, Sequences

CONSTANTS
    Actors,        \* concurrent transactions: API requests and the worker
    TasksPerPlan,  \* tasks a new plan materializes
    Budget         \* bound on requests, scheduled jobs and crashes

ASSUME TasksAssumption == TasksPerPlan \in Nat
ASSUME BudgetAssumption == Budget \in Nat

VARIABLES
    goal,     \* status of the learner goal
    phase,    \* phase of its autonomy state
    current,  \* current_plan_id of its autonomy state (0: none)
    plans,    \* the study plans in the order they were created
    tasks,    \* the daily tasks in the order they were created
    waiting,  \* keys of replan jobs that are scheduled
    done,     \* keys of completed replan jobs
    failed,   \* keys of failed replan jobs
    hand,     \* the transaction of each actor
    inline,   \* actors running due jobs for a manual replan
    reply,    \* phase a manual replan last answered with
    budget

stateVars == <<phase, current>>
jobVars == <<waiting, done, failed>>
vars == <<goal, stateVars, plans, tasks, jobVars, hand, inline, reply, budget>>

-----------------------------------------------------------------------------
Phases == {"active", "assessment_due", "paused", "replanning", "review_due",
           "completed", "archived"}
GoalStatuses == {"active", "paused", "completed", "archived"}
Modes == {"full", "partial"}
Open == {"pending", "in_progress"}
Outcomes == {"completed", "skipped", "failed"}
TaskStatuses == Open \cup Outcomes \cup {"superseded"}
Kinds == {"planned", "milestone", "derived"}

\* _transition_allowed.
Allowed(from, to) ==
    \/ from = to
    \/ /\ from = "active"
       /\ to \in Phases
    \/ /\ from = "assessment_due"
       /\ to \in {"active", "paused", "replanning", "completed", "archived"}
    \/ from = "paused" /\ to \in {"active", "archived", "completed"}
    \/ from = "replanning" /\ to \in {"active", "paused", "archived", "completed"}
    \/ /\ from = "review_due"
       /\ to \in {"active", "paused", "assessment_due", "completed", "archived"}
    \/ from = "completed" /\ to = "archived"

\* A job's key: who asked for the replan, for which task (0: none), its mode.
Keys == {"task", "manual"} \X Nat \X Modes
NoKey == <<"none", 0, "none">>

\* What a transaction is about and what it has read.
NotRead == <<"none", 0>>
Idle == [op |-> "none", plan |-> 0, task |-> 0, to |-> "none", key |-> NoKey,
         seen |-> NotRead]

Transaction ==
    [op: {"none", "generate", "extend", "review", "execute", "update", "repair",
          "manual", "control", "status"},
     plan: Nat, task: Nat, to: Phases \cup Outcomes \cup Modes \cup {"none"},
     key: Keys \cup {NoKey}, seen: (Phases \cup {"none"}) \X Nat]

Plan == [status: {"active", "superseded"}, version: Nat]
Task == [status: TaskStatuses, plan: Nat, kind: Kinds]

ActivePlans == {p \in DOMAIN plans : plans[p].status = "active"}

\* get_active_by_goal: an active plan of the highest version, 0 if there is none.
SeesActive(p) ==
    \/ p = 0 /\ ActivePlans = {}
    \/ p \in ActivePlans /\ \A q \in ActivePlans : plans[q].version <= plans[p].version

\* create of the job repository: a key that exists is left as it is.
Enqueue(k) ==
    waiting' = IF k \in done \cup failed \cup {hand[a].key : a \in Actors}
               THEN waiting ELSE waiting \cup {k}

-----------------------------------------------------------------------------
(* Transactions. *)

Spend == budget > 0 /\ budget' = budget - 1

Begin(a, transaction) ==
    /\ hand[a] = Idle
    /\ hand' = [hand EXCEPT ![a] = transaction]

Request(a, transaction) ==
    /\ a \notin inline /\ Spend
    /\ Begin(a, transaction)
    /\ UNCHANGED <<goal, stateVars, plans, tasks, jobVars, inline, reply>>

Job(a, transaction) ==
    /\ Spend
    /\ Begin(a, transaction)
    /\ UNCHANGED <<goal, stateVars, plans, tasks, jobVars, inline, reply>>

\* get_by_goal of the state repository.
ReadState(a) ==
    /\ hand[a].op \notin {"none", "execute"} /\ hand[a].seen = NotRead
    /\ hand' = [hand EXCEPT ![a].seen = stateVars]
    /\ UNCHANGED <<goal, stateVars, plans, tasks, jobVars, inline, reply, budget>>

\* _sync_goal_state: the transition is checked on what was read.  The update
\* loads the row again: columns that differ from it are written, the others
\* keep what another transaction may have committed since.
Sync(a, to, plan) ==
    LET seen == hand[a].seen
    IN  /\ seen # NotRead
        /\ Allowed(seen[1], to)
        /\ \/ phase' = to /\ current' = plan
           \/ /\ phase' = IF to = seen[1] THEN phase ELSE to
              /\ current' = IF plan = seen[2] THEN current ELSE plan

SyncPhase(a, to) == Sync(a, to, hand[a].seen[2])

\* The commit, and the end of the job the transaction was for.
Commit(a) ==
    /\ hand' = [hand EXCEPT ![a] = Idle]
    /\ done' = IF hand[a].key = NoKey THEN done ELSE done \cup {hand[a].key}
    /\ UNCHANGED <<failed, reply, budget>>

\* The end of a job that fails, for good.  What it has written is committed:
\* the queue does not roll it back.  A manual replan that ran it raises.
CommitFailure(a) ==
    /\ hand' = [hand EXCEPT ![a] = Idle]
    /\ failed' = IF hand[a].key = NoKey THEN failed ELSE failed \cup {hand[a].key}
    /\ inline' = inline \ {a}
    /\ UNCHANGED <<done, reply, budget>>

\* A replan job may fail after its last write (a reflection is triggered).
EndJob(a) ==
    \/ Commit(a) /\ UNCHANGED inline
    \/ hand[a].key # NoKey /\ CommitFailure(a)

-----------------------------------------------------------------------------
Init ==
    /\ goal = "active" /\ phase = "active" /\ current = 0
    /\ plans = <<>> /\ tasks = <<>>
    /\ waiting = {} /\ done = {} /\ failed = {}
    /\ hand = [a \in Actors |-> Idle]
    /\ inline = {}
    /\ reply = "none"
    /\ budget = Budget

-----------------------------------------------------------------------------
(* Plans. *)

\* generate_plan reads the active plan; with one it needs a replan trigger.
\* The plan of a rollout, staged or restored, is generated alike.
BeginGenerate(a, p, trigger) ==
    /\ SeesActive(p)
    /\ trigger = "initial" => p = 0
    /\ Request(a, [Idle EXCEPT !.op = "generate", !.plan = p])

\* Mutant of PlansAfter: the old plan stays active.
PlansAfterBoth(p) ==
    Append(plans, [status |-> "active",
                   version |-> IF p = 0 THEN 1 ELSE plans[p].version + 1])

\* Mutant of PlansAfter: the new plan is the one that is superseded.
PlansAfterSwapped(p) ==
    Append(plans, [status |-> IF p = 0 THEN "active" ELSE "superseded",
                   version |-> IF p = 0 THEN 1 ELSE plans[p].version + 1])

\* The plan p is superseded and the next version created.
PlansAfter(p) ==
    Append([q \in DOMAIN plans |->
               IF q = p THEN [plans[q] EXCEPT !.status = "superseded"] ELSE plans[q]],
           [status |-> "active", version |-> IF p = 0 THEN 1 ELSE plans[p].version + 1])

\* Mutant of Superseded: no task is superseded.
SupersededNot(p) == tasks

\* bulk_mark_superseded: the open tasks of the plan.
Superseded(p) ==
    [t \in DOMAIN tasks |->
        IF tasks[t].plan = p /\ tasks[t].status \in Open
        THEN [tasks[t] EXCEPT !.status = "superseded"] ELSE tasks[t]]

New(p, kind) == [status |-> "pending", plan |-> p, kind |-> kind]

FirstWindow(p) == [i \in 1 .. TasksPerPlan |-> New(p, "planned")]

\* Mutant of CommitGenerate: the state keeps pointing to the old plan.
CommitGenerateKeepsCurrent(a) ==
    /\ hand[a].op = "generate"
    /\ SyncPhase(a, "active")
    /\ plans' = PlansAfter(hand[a].plan)
    /\ tasks' = Superseded(hand[a].plan) \o FirstWindow(Len(plans) + 1)
    /\ EndJob(a)
    /\ UNCHANGED <<goal, waiting>>

\* The plan read at the beginning is superseded with its open tasks, the next
\* version is created with the tasks of its first window.
CommitGenerate(a) ==
    /\ hand[a].op = "generate"
    /\ Sync(a, "active", Len(plans) + 1)
    /\ plans' = PlansAfter(hand[a].plan)
    /\ tasks' = Superseded(hand[a].plan) \o FirstWindow(Len(plans) + 1)
    /\ EndJob(a)
    /\ UNCHANGED <<goal, waiting>>

\* plan_extension, daily_task_materialization, milestone_generation and
\* assessment_generation read the active plan and add a task to it (behind
\* which stages is the subject of StageGate).
BeginExtend(a, p) ==
    /\ p # 0 /\ SeesActive(p)
    /\ Job(a, [Idle EXCEPT !.op = "extend", !.plan = p])

CommitTask(a, kind, to) ==
    /\ hand[a].op = "extend"
    /\ kind \in {"planned", "milestone"} /\ to \in {"active", "assessment_due"}
    /\ SyncPhase(a, to)
    /\ tasks' = Append(tasks, New(hand[a].plan, kind))
    /\ Commit(a)
    /\ UNCHANGED <<goal, plans, waiting, inline>>

\* The first two also move the plan's window (with_materialized_until): the
\* row is written as it was read, with the status it had then.
CommitWindow(a, to) ==
    /\ hand[a].op = "extend"
    /\ to \in {"active", "assessment_due"}
    /\ SyncPhase(a, to)
    /\ \/ UNCHANGED tasks
       \/ tasks' = Append(tasks, New(hand[a].plan, "planned"))
    /\ plans' = [plans EXCEPT ![hand[a].plan].status = "active"]
    /\ Commit(a)
    /\ UNCHANGED <<goal, waiting, inline>>

\* review_scheduling: a review in the plan of the completed task.
BeginReview(a, t) ==
    /\ tasks[t].status = "completed"
    /\ Job(a, [Idle EXCEPT !.op = "review", !.task = t])

CommitReview(a) ==
    /\ hand[a].op = "review"
    /\ SyncPhase(a, "active")
    /\ tasks' = Append(tasks, New(tasks[hand[a].task].plan, "derived"))
    /\ Commit(a)
    /\ UNCHANGED <<goal, plans, waiting, inline>>

-----------------------------------------------------------------------------
(* Tasks. *)

\* Mutant of BeginExecute: a task of any status is started.
BeginExecuteAny(a, t) == Request(a, [Idle EXCEPT !.op = "execute", !.task = t])

BeginExecute(a, t) ==
    /\ tasks[t].status = "pending"
    /\ Request(a, [Idle EXCEPT !.op = "execute", !.task = t])

\* with_execution_session and a blind update of the row.
CommitExecute(a) ==
    /\ hand[a].op = "execute"
    /\ tasks' = [tasks EXCEPT ![hand[a].task].status = "in_progress"]
    /\ Commit(a)
    /\ UNCHANGED <<goal, stateVars, plans, waiting, inline>>

\* update_task_status accepts an outcome for an open task.
BeginUpdate(a, t, outcome) ==
    /\ tasks[t].status \in Open
    /\ outcome \in Outcomes
    /\ Request(a, [Idle EXCEPT !.op = "update", !.task = t, !.to = outcome])

\* _enqueue_autonomy_followups.
Followups(a, mode) ==
    LET t == hand[a].task
        milestone == tasks[t].kind = "milestone"
        completed == hand[a].to = "completed"
    IN  \/ milestone /\ completed /\ SyncPhase(a, "active") /\ UNCHANGED waiting
        \/ ~milestone /\ completed /\ UNCHANGED <<stateVars, waiting>>
        \/ /\ milestone /\ ~completed /\ mode = "partial"
           /\ SyncPhase(a, "assessment_due")
           /\ Enqueue(<<"task", t, mode>>)
        \/ /\ ~milestone /\ ~completed
           /\ SyncPhase(a, "replanning")
           /\ Enqueue(<<"task", t, mode>>)

\* The status is a blind update of the row; it is rolled back (Fail) when the
\* phase has no transition to the one the follow-up asks for.
CommitUpdate(a, mode) ==
    /\ hand[a].op = "update"
    /\ tasks' = [tasks EXCEPT ![hand[a].task].status = hand[a].to]
    /\ Followups(a, mode)
    /\ Commit(a)
    /\ UNCHANGED <<goal, plans, inline>>

-----------------------------------------------------------------------------
(* Replan jobs. *)

Run(a, k, transaction) ==
    /\ waiting' = waiting \ {k}
    /\ Begin(a, transaction)
    /\ UNCHANGED <<goal, stateVars, plans, tasks, done, failed, inline, reply, budget>>

\* _process_replan_job: a full replan, also for want of a source or a plan.
RunFull(a, k, p) ==
    /\ SeesActive(p)
    /\ k[3] = "full" \/ (k[2] = 0 /\ tasks = <<>>) \/ p = 0
    /\ Run(a, k, [Idle EXCEPT !.op = "generate", !.plan = p, !.key = k])

\* ... or a repair task for the source, which is a recent task if none is named.
RunPartial(a, k, t) ==
    /\ k[3] = "partial" /\ ActivePlans # {}
    /\ k[2] \in {0, t}
    /\ Run(a, k, [Idle EXCEPT !.op = "repair", !.task = t, !.key = k])

\* A milestone makes way for its repair.
CommitRepair(a) ==
    /\ hand[a].op = "repair"
    /\ LET t == hand[a].task
       IN  tasks' = Append([tasks EXCEPT ![t].status =
                               IF tasks[t].kind = "milestone" THEN "superseded" ELSE @],
                           New(tasks[t].plan, "derived"))
    /\ SyncPhase(a, "active")
    /\ EndJob(a)
    /\ UNCHANGED <<goal, plans, waiting>>

\* A job raises before its last write, at the latest when the phase has no
\* transition to the one it asks for: some of its tasks and its window stay.
FailHalfway(a) ==
    /\ \/ /\ hand[a].op = "extend"
          /\ \/ tasks' = Append(tasks, New(hand[a].plan, "milestone"))
             \/ tasks' = Append(tasks, New(hand[a].plan, "planned"))
          /\ UNCHANGED plans
       \/ /\ hand[a].op = "extend"
          /\ plans' = [plans EXCEPT ![hand[a].plan].status = "active"]
          /\ \/ UNCHANGED tasks
             \/ tasks' = Append(tasks, New(hand[a].plan, "planned"))
       \/ /\ hand[a].op \in {"review", "repair"}
          /\ tasks' = Append(tasks, New(tasks[hand[a].task].plan, "derived"))
          /\ UNCHANGED plans
    /\ CommitFailure(a)
    /\ UNCHANGED <<goal, stateVars, waiting>>

\* manual_replan_goal: the job and the phase are committed, due jobs are run.
BeginManualReplan(a, t, mode) ==
    Request(a, [Idle EXCEPT !.op = "manual", !.task = t, !.to = mode])

CommitManualReplan(a) ==
    /\ hand[a].op = "manual"
    /\ Enqueue(<<"manual", hand[a].task, hand[a].to>>)
    /\ SyncPhase(a, "replanning")
    /\ inline' = inline \cup {a}
    /\ Commit(a)
    /\ UNCHANGED <<goal, plans, tasks>>

ManualReply(a) ==
    /\ a \in inline /\ hand[a] = Idle /\ waiting = {}
    /\ reply' = phase
    /\ inline' = inline \ {a}
    /\ UNCHANGED <<goal, stateVars, plans, tasks, jobVars, hand, budget>>

\* Mutant of Fail: the job of a rolled-back transaction is forgotten.
FailSilently(a) ==
    /\ hand[a] # Idle
    /\ hand' = [hand EXCEPT ![a] = Idle]
    /\ inline' = inline \ {a}
    /\ UNCHANGED <<goal, stateVars, plans, tasks, jobVars, reply, budget>>

\* A request fails, or generate_plan does, or a job that has written nothing:
\* rolled back.  The job fails for good, a manual replan raises.
Fail(a) ==
    /\ hand[a] # Idle
    /\ hand' = [hand EXCEPT ![a] = Idle]
    /\ failed' = IF hand[a].key = NoKey THEN failed ELSE failed \cup {hand[a].key}
    /\ inline' = inline \ {a}
    /\ UNCHANGED <<goal, stateVars, plans, tasks, waiting, done, reply, budget>>

\* The process dies: rolled back, and the job is due again when its lease ends.
Crash(a) ==
    /\ hand[a] # Idle /\ Spend
    /\ hand' = [hand EXCEPT ![a] = Idle]
    /\ waiting' = IF hand[a].key = NoKey THEN waiting ELSE waiting \cup {hand[a].key}
    /\ inline' = inline \ {a}
    /\ UNCHANGED <<goal, stateVars, plans, tasks, done, failed, reply>>

-----------------------------------------------------------------------------
(* The learner's controls. *)

\* pause_goal_autonomy and resume_goal_autonomy.
BeginControl(a, to) ==
    /\ to \in {"paused", "active"}
    /\ Request(a, [Idle EXCEPT !.op = "control", !.to = to])

CommitControl(a) ==
    /\ hand[a].op = "control"
    /\ SyncPhase(a, hand[a].to)
    /\ Commit(a)
    /\ UNCHANGED <<goal, plans, tasks, waiting, inline>>

\* update_goal_status writes the goal, whose row is locked until the commit.
BeginSetStatus(a, status) ==
    /\ \A b \in Actors : hand[b].op # "status"
    /\ Request(a, [Idle EXCEPT !.op = "status", !.to = status])

\* _sync_goal_autonomy_status.
CommitSetStatus(a) ==
    /\ hand[a].op = "status"
    /\ goal' = hand[a].to
    /\ \/ hand[a].seen[1] = hand[a].to /\ UNCHANGED stateVars
       \/ hand[a].seen[1] # hand[a].to /\ SyncPhase(a, hand[a].to)
    /\ Commit(a)
    /\ UNCHANGED <<plans, tasks, waiting, inline>>

-----------------------------------------------------------------------------
Requests(a) ==
    \/ \E p \in 0 .. Len(plans), trigger \in {"initial", "replan"} :
          BeginGenerate(a, p, trigger)
    \/ \E t \in DOMAIN tasks : BeginExecute(a, t)
    \/ \E t \in DOMAIN tasks, outcome \in Outcomes : BeginUpdate(a, t, outcome)
    \/ \E t \in 0 .. Len(tasks), mode \in Modes : BeginManualReplan(a, t, mode)
    \/ \E to \in Phases : BeginControl(a, to)
    \/ \E status \in GoalStatuses : BeginSetStatus(a, status)

Scheduled(a) ==
    \/ \E p \in 1 .. Len(plans) : BeginExtend(a, p)
    \/ \E t \in DOMAIN tasks : BeginReview(a, t)

Replans(a) ==
    \E k \in waiting : \/ \E p \in 0 .. Len(plans) : RunFull(a, k, p)
                       \/ \E t \in DOMAIN tasks : RunPartial(a, k, t)

Commits(a) ==
    \/ CommitGenerate(a) \/ CommitReview(a) \/ CommitExecute(a) \/ CommitRepair(a)
    \/ FailHalfway(a)
    \/ \E kind \in Kinds, to \in Phases : CommitTask(a, kind, to)
    \/ \E to \in Phases : CommitWindow(a, to)
    \/ \E mode \in Modes : CommitUpdate(a, mode)
    \/ CommitManualReplan(a) \/ CommitControl(a) \/ CommitSetStatus(a)

Proceeds(a) == ReadState(a) \/ Commits(a) \/ Fail(a) \/ ManualReply(a)

Next ==
    \E a \in Actors :
        Requests(a) \/ Scheduled(a) \/ Replans(a) \/ Proceeds(a) \/ Crash(a)

Spec == Init /\ [][Next]_vars

\* A transaction goes on until it ends, and each actor runs due replan jobs:
\* the worker's loop does.  Nobody has to send requests.
Fairness == \A a \in Actors : WF_vars(Proceeds(a)) /\ WF_vars(Replans(a))

FairSpec == Spec /\ Fairness

-----------------------------------------------------------------------------
TypeOK ==
    /\ goal \in GoalStatuses /\ phase \in Phases /\ current \in Nat
    /\ plans \in Seq(Plan) /\ tasks \in Seq(Task)
    /\ waiting \subseteq Keys /\ done \subseteq Keys /\ failed \subseteq Keys
    /\ hand \in [Actors -> Transaction]
    /\ inline \subseteq Actors
    /\ reply \in Phases \cup {"none"}
    /\ budget \in Nat

\* Once a goal has a plan it always has an active one, its newest, however
\* many replans, extensions and rollouts overlap (generate_plan).
NewestPlanIsActive ==
    plans # <<>> => plans[Len(plans)].status = "active"

\* However many replans overlap, a superseded plan has a successor: a later
\* plan of the next version.  The history of versions has no gap.
SupersededHasSuccessor ==
    \A p \in DOMAIN plans :
        plans[p].status = "superseded" =>
            \E q \in DOMAIN plans : q > p /\ plans[q].version = plans[p].version + 1

\* A replan job is never lost and never forked: its key is in one state only,
\* scheduled, running in one transaction, completed or failed.
OneStatePerJob ==
    /\ waiting \cap (done \cup failed) = {} /\ done \cap failed = {}
    /\ \A a \in Actors :
          hand[a].key # NoKey =>
             /\ hand[a].key \notin waiting \cup done \cup failed
             /\ \A b \in Actors \ {a} : hand[b].key # hand[a].key

\* With transactions that do not overlap, the goal's state points to its
\* newest plan, and a goal has ended exactly when its autonomy has.
StateFollows ==
    /\ current = Len(plans)
    /\ \A s \in {"completed", "archived"} : goal = s <=> phase = s

\* With transactions that do not overlap a goal has one active plan, and each
\* version is newer than the ones before.
OneActivePlan ==
    \A p, q \in DOMAIN plans :
        p < q => plans[p].status = "superseded" /\ plans[p].version < plans[q].version

\* With transactions that do not overlap the open tasks belong to the active
\* plan, but for the reviews and repairs derived from older ones.
OpenTasksFollowThePlan ==
    \A t \in DOMAIN tasks :
        (tasks[t].kind # "derived" /\ tasks[t].status \in Open)
            => plans[tasks[t].plan].status = "active"

\* With transactions that do not overlap a task that is no longer open keeps
\* its status, but for a milestone that its repair supersedes.
SettledTasksStaySettled ==
    [][\A t \in DOMAIN tasks :
          tasks[t].status \notin Open =>
             (\/ tasks'[t].status = tasks[t].status
              \/ tasks[t].kind = "milestone" /\ tasks'[t].status = "superseded")]_vars

\* A replan that was asked for is made or fails: it does not wait forever,
\* whatever is replanned, paused or ended meanwhile.
ReplansAreServed ==
    \A k \in {"task", "manual"} \X (0 .. 3) \X Modes :
        k \in waiting ~> k \in done \cup failed

\* test_autonomy_endpoints_cover_state_availability_pause_and_manual_replan:
\* a goal whose manual replan succeeded is not left in the phase "replanning".
ManualReplanLeavesReplanning == reply # "replanning"

\* rules/backend.md: on an error what was written is rolled back, so that a
\* replan job that fails leaves plans, tasks and phase as they were.
FailedReplansAreRolledBack ==
    [][failed' # failed => UNCHANGED <<plans, tasks, stateVars>>]_vars

\* generate_plan: "An active study plan already exists for this goal."
NoTwoActivePlans == \A p, q \in ActivePlans : p = q

\* _transition_allowed: no phase follows "archived".
ArchivedIsFinal == [][phase = "archived" => phase' = "archived"]_vars
=============================================================================
