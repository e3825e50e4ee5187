------------------------------ MODULE StageGate ------------------------------
(***************************************************************************)
(* The stages of one active study plan: its blueprint is materialized into *)
(* daily tasks day by day, a stage that is half done gets a milestone, and *)
(* a milestone that is not passed blocks the stages behind it.             *)
(*                                                                         *)
(* The handlers of plan_extension, daily_task_materialization,             *)
(* milestone_generation and partial replan jobs read the tasks and the     *)
(* gate when they begin, and write when they commit; the learner works on  *)
(* the tasks in between.  The rows a session has read it does not read     *)
(* again (expire_on_commit=False, one session per run).                    *)
(*                                                                         *)
(* A full replan starts another plan, a phase that refuses a transition    *)
(* fails the job: these are the subject of GoalPlanning, claims and leases *)
(* that of AutonomyJobs.                                                   *)
(***************************************************************************)
EXTENDS Naturals, Sequences, FiniteSets

CONSTANTS
    Items,     \* the tasks of the blueprint
    Stages,    \* positions of the stages
    StageOf,   \* stage_position of each item
    DayOf,     \* scheduled_for of each item
    EndOf,     \* end_date of each stage
    Deadline,  \* deadline_date of the goal; the model ends with it
    Window,    \* planning_window_days (14 in the code)
    Reach,     \* days ahead that daily materialization looks (7 in the code)
    Runners,   \* who runs due jobs: the worker, requests
    Budget     \* bound on failed tasks, manual replans, crashes, failing jobs

ASSUME BlueprintAssumption ==
    /\ Stages \subseteq Nat
    /\ StageOf \in [Items -> Stages]
    /\ DayOf \in [Items -> Nat]
    /\ EndOf \in [Stages -> Nat]
    /\ IsFiniteSet(Items)

\* The worker is always there.
ASSUME RunnersAssumption == IsFiniteSet(Runners) /\ Runners # {}

ASSUME WindowAssumption ==
    /\ Deadline \in Nat /\ Window \in Nat \ {0}
    /\ Reach \in Nat /\ Budget \in Nat

VARIABLES
    today,    \* the date
    until,    \* materialized_until_date of the plan
    tasks,    \* status of the tasks made for each item, of the milestones and
              \* of the repairs of each stage, in the order they were made
    waiting,  \* keys of scheduled jobs
    used,     \* idempotency keys of all jobs
    cancelled,  \* daily jobs that were cancelled while they ran
    failures, \* number of failed jobs
    hand,     \* what each runner is at
    budget

jobVars == <<waiting, used, cancelled, failures>>
vars == <<today, until, tasks, jobVars, hand, budget>>

-----------------------------------------------------------------------------
(* Tasks. *)

\* Pending and in progress are one status here, so are failed and skipped.
Statuses == {"open", "completed", "failed", "superseded"}

Tasks == [lessons : [Items -> Seq(Statuses)],
          milestones : [Stages -> Seq(Statuses)],
          repairs : [Stages -> Seq(Statuses)]]

\* A row is named by its kind, its item or stage, and its number.
Named(kind, slots, rows) ==
    UNION {{<<kind, x, n>> : n \in DOMAIN rows[kind][x]} : x \in slots}

RowsOf(rows) ==
    Named("lessons", Items, rows) \cup Named("milestones", Stages, rows)
        \cup Named("repairs", Stages, rows)

StatusOf(rows, row) == rows[row[1]][row[2]][row[3]]

StageOfRow(row) == IF row[1] = "lessons" THEN StageOf[row[2]] ELSE row[2]

\* DailyTask.build.
Fresh == "open"

\* Stages with a milestone that is neither completed nor superseded.
Blocked(rows) ==
    {s \in Stages : \E n \in DOMAIN rows.milestones[s] :
                       rows.milestones[s][n] \in {"open", "failed"}}

\* _blocked_stage_position: a stage is behind the least blocked position.
Beyond(s, blocked) == \E b \in blocked : b < s

\* Mutant of Live: a milestone that was passed does not count.
LiveUnpassed(rows, s) == s \in Blocked(rows)

\* Some milestone of the stage is not superseded.
Live(rows, s) ==
    \E n \in DOMAIN rows.milestones[s] : rows.milestones[s][n] # "superseded"

\* Mutant of Made: a superseded task does not count.
MadeOpen(rows) ==
    {i \in Items : \E n \in DOMAIN rows.lessons[i] : rows.lessons[i][n] # "superseded"}

\* existing_keys: the items that have a task of whatever status.
Made(rows) == {i \in Items : rows.lessons[i] # <<>>}

\* _suppress_downstream_stage_tasks closes the tasks it has read as open.
Close(now, seen, beyond) ==
    [n \in DOMAIN now |->
        IF beyond /\ n \in DOMAIN seen /\ seen[n] = "open" THEN "superseded" ELSE now[n]]

Suppressed(rows, seen, blocked) ==
    [lessons |-> [i \in Items |-> Close(rows.lessons[i], seen.lessons[i],
                                        Beyond(StageOf[i], blocked))],
     milestones |-> [s \in Stages |-> Close(rows.milestones[s], seen.milestones[s],
                                            Beyond(s, blocked))],
     repairs |-> [s \in Stages |-> Close(rows.repairs[s], seen.repairs[s],
                                         Beyond(s, blocked))]]

\* create_many.
WithLessons(rows, new) ==
    [rows EXCEPT !.lessons =
        [i \in Items |-> IF i \in new THEN Append(rows.lessons[i], Fresh)
                         ELSE rows.lessons[i]]]

-----------------------------------------------------------------------------
(* Jobs: <<"daily", day>>, <<"milestone", stage, attempt>>,                *)
(* <<"extension", completed task>>, <<"repair", who asked, source task>>.  *)

Row == {"lessons", "milestones", "repairs"} \X (Items \cup Stages) \X Nat

Jobs == ({"daily"} \X Nat) \cup ({"milestone"} \X Stages \X Nat)
           \cup ({"extension"} \X Row) \cup ({"repair"} \X {"task", "manual"} \X Row)

Dailies == {k \in waiting : k[1] = "daily"}

\* create: a key that exists is left as it is.
Scheduling(keys) ==
    /\ waiting' = waiting \cup (keys \ used)
    /\ used' = used \cup keys
    /\ UNCHANGED cancelled

\* _ensure_daily_materialization_job: other days' jobs are cancelled, those that
\* others run included.
Ensuring(keys, day, others) ==
    LET k == <<"daily", day>>
        running == {hand[r].job : r \in others}
        active == k \in waiting \cup running
    IN  /\ waiting' = (IF active THEN waiting ELSE waiting \ Dailies)
                          \cup ((keys \cup {k}) \ used)
        /\ used' = used \cup keys \cup {k}
        /\ cancelled' = cancelled \cup
               IF active THEN {} ELSE {j \in running : j[1] = "daily"}

Nothing == [lessons |-> [i \in Items |-> <<>>],
            milestones |-> [s \in Stages |-> <<>>],
            repairs |-> [s \in Stages |-> <<>>]]

Idle == [op |-> "none", job |-> <<"none">>, seen |-> Nothing, blocked |-> {},
         until |-> 0]

Hand == [op : {"none", "run", "finish"}, job : Jobs \cup {<<"none">>},
         seen : Tasks, blocked : SUBSET Stages, until : Nat]

\* The last day of the window that begins today.
Target == IF Deadline < today + Window - 1 THEN Deadline ELSE today + Window - 1

Init ==
    /\ today = 0
    /\ until = Target
    /\ tasks = WithLessons(Nothing, {i \in Items : DayOf[i] <= Target})
    /\ waiting = {<<"daily", 0>>} /\ used = {<<"daily", 0>>}
    /\ cancelled = {} /\ failures = 0
    /\ hand = [r \in Runners |-> Idle]
    /\ budget = Budget

Spend == budget > 0 /\ budget' = budget - 1

NextDay ==
    /\ today < Deadline
    /\ today' = today + 1
    /\ UNCHANGED <<until, tasks, jobVars, hand, budget>>

-----------------------------------------------------------------------------
(* The learner. *)

SetStatus(row, status) ==
    [tasks EXCEPT ![row[1]][row[2]][row[3]] = status]

\* update_task_status of an open task, with its follow-ups: the day's
\* materialization, and the extension of the window.
Complete(row) ==
    /\ StatusOf(tasks, row) = "open"
    /\ tasks' = SetStatus(row, "completed")
    /\ Ensuring(IF row[1] = "milestones" THEN {} ELSE {<<"extension", row>>}, today,
                Runners)
    /\ UNCHANGED <<today, until, failures, hand, budget>>

\* A task that fails or is skipped is repaired (or the plan is replaced).
FailTask(row) ==
    /\ StatusOf(tasks, row) = "open" /\ Spend
    /\ tasks' = SetStatus(row, "failed")
    /\ Scheduling({<<"repair", "task", row>>})
    /\ UNCHANGED <<today, until, failures, hand>>

\* manual_replan_goal, partial, for any task.
ManualReplan(row) ==
    /\ Spend
    /\ Scheduling({<<"repair", "manual", row>>})
    /\ UNCHANGED <<today, until, tasks, failures, hand>>

-----------------------------------------------------------------------------
(* Runners. *)

\* A job that is due is claimed; its handler reads plan, tasks and gate.
Begin(r, k) ==
    /\ hand[r] = Idle
    /\ k \in waiting
    /\ k[1] = "daily" => k[2] <= today
    /\ waiting' = waiting \ {k}
    /\ hand' = [hand EXCEPT ![r] = [op |-> "run", job |-> k, seen |-> tasks,
                                    blocked |-> Blocked(tasks), until |-> until]]
    /\ UNCHANGED <<today, until, tasks, used, cancelled, failures, budget>>

Running(r, type) == hand[r].op = "run" /\ hand[r].job[1] = type

\* Daily materialization lists the tasks again: rows it has read stay as they
\* were, new ones are added.
Later(seen, now) ==
    [n \in DOMAIN now |-> IF n \in DOMAIN seen THEN seen[n] ELSE now[n]]

Reread(r) ==
    /\ Running(r, "daily")
    /\ LET seen == hand[r].seen
       IN  hand' = [hand EXCEPT ![r].seen =
              [lessons |-> [i \in Items |-> Later(seen.lessons[i], tasks.lessons[i])],
               milestones |-> [s \in Stages |-> Later(seen.milestones[s],
                                                      tasks.milestones[s])],
               repairs |-> [s \in Stages |-> Later(seen.repairs[s], tasks.repairs[s])]]]
    /\ UNCHANGED <<today, until, tasks, jobVars, budget>>

\* Mutant of Admitted: the gate is not asked.
AdmittedAll(r, items) == items \ Made(hand[r].seen)

\* Items that have no task yet and are not behind the gate.
Admitted(r, items) ==
    {i \in items \ Made(hand[r].seen) : ~ Beyond(StageOf[i], hand[r].blocked)}

\* extend_plan_window, up to the gate.
Extension(r) ==
    IF hand[r].until >= Target THEN {}
    ELSE Admitted(r, {i \in Items : DayOf[i] <= Target})

ExtendWindow(r) == until' = IF hand[r].until >= Target THEN until ELSE Target

\* What the rows become: tasks behind the gate are closed, new ones appended.
Written(rows, r, new) ==
    WithLessons(Suppressed(rows, hand[r].seen, hand[r].blocked), new)

\* A handler that reaches its end commits with the completed job, or commits
\* and completes its job next, or raises and is committed with the failed job.
Completed(r) ==
    hand' = [hand EXCEPT ![r] = Idle] /\ UNCHANGED <<failures, budget>>

CompletesNext(r) ==
    /\ hand' = [hand EXCEPT ![r] = [Idle EXCEPT !.op = "finish", !.job = hand[r].job]]
    /\ UNCHANGED <<failures, budget>>

Raised(r) ==
    /\ Spend
    /\ hand' = [hand EXCEPT ![r] = Idle]
    /\ failures' = failures + 1

\* _process_plan_extension_job.
CommitExtension(r) ==
    /\ Running(r, "extension")
    /\ tasks' = Written(tasks, r, Extension(r))
    /\ ExtendWindow(r)
    /\ CompletesNext(r) \/ Raised(r)
    /\ UNCHANGED <<today, waiting, used, cancelled>>

\* A stage is due for its milestone when half of its tasks are completed, the
\* superseded ones counted, or when it ends.
StageDue(rows, s) ==
    LET all == {row \in RowsOf(rows) : row[1] # "milestones" /\ StageOfRow(row) = s}
        completed == {row \in all : StatusOf(rows, row) = "completed"}
    IN  /\ all # {}
        /\ 2 * Cardinality(completed) >= Cardinality(all) \/ today >= EndOf[s]

\* Mutant of MilestoneJobs: the key of an attempt is always that of the first.
MilestoneJobsFirst(rows) ==
    {<<"milestone", s, 1>> :
        s \in {x \in Stages : StageDue(rows, x) /\ ~ Live(rows, x)}}

\* _ensure_milestone_jobs.
MilestoneJobs(rows) ==
    {<<"milestone", s, Len(rows.milestones[s]) + 1>> :
        s \in {x \in Stages : StageDue(rows, x) /\ ~ Live(rows, x)}}

\* _process_daily_task_materialization_job: those of the day's items for which
\* the day has minutes left, and the window when it ends soon.
CommitDaily(r, fit) ==
    /\ Running(r, "daily")
    /\ LET day == hand[r].job[2]
           short == hand[r].until < day + Reach
           new == Admitted(r, {i \in fit : DayOf[i] = day})
                     \cup (IF short THEN Extension(r) ELSE {})
       IN  /\ tasks' = Written(tasks, r, new)
           /\ IF short THEN ExtendWindow(r) ELSE UNCHANGED until
           /\ Ensuring(MilestoneJobs(Written(hand[r].seen, r, new)), today + 1,
                       Runners \ {r})
    /\ Completed(r) \/ Raised(r)
    /\ UNCHANGED today

\* _process_milestone_generation_job.
CommitMilestone(r) ==
    /\ Running(r, "milestone")
    /\ LET s == hand[r].job[2]
       IN  tasks' = IF Live(hand[r].seen, s) THEN tasks
                    ELSE [tasks EXCEPT !.milestones[s] = Append(@, Fresh)]
    /\ CompletesNext(r) \/ Raised(r)
    /\ UNCHANGED <<today, until, waiting, used, cancelled>>

\* The partial replan of a source: a repair in its stage, which a milestone
\* makes way for.
CommitRepair(r) ==
    /\ Running(r, "repair")
    /\ LET row == hand[r].job[3]
           rows == IF row[1] = "milestones" THEN SetStatus(row, "superseded") ELSE tasks
       IN  tasks' = [rows EXCEPT !.repairs[StageOfRow(row)] = Append(@, Fresh)]
    /\ Completed(r) \/ Raised(r)
    /\ UNCHANGED <<today, until, waiting, used, cancelled>>

Finish(r) ==
    /\ hand[r].op = "finish"
    /\ Completed(r)
    /\ UNCHANGED <<today, until, tasks, waiting, used, cancelled>>

\* A handler raises before it has written anything.
Fail(r) ==
    /\ hand[r].op = "run"
    /\ Raised(r)
    /\ UNCHANGED <<today, until, tasks, waiting, used, cancelled>>

\* The process dies.  The job runs again when its lease has ended, unless it
\* was cancelled meanwhile.
Crash(r) ==
    /\ hand[r] # Idle /\ Spend
    /\ hand' = [hand EXCEPT ![r] = Idle]
    /\ waiting' = waiting \cup ({hand[r].job} \ cancelled)
    /\ UNCHANGED <<today, until, tasks, used, cancelled, failures>>

-----------------------------------------------------------------------------
Learner ==
    \E row \in RowsOf(tasks) : Complete(row) \/ FailTask(row) \/ ManualReplan(row)

Proceed(r) ==
    \/ CommitExtension(r) \/ CommitMilestone(r) \/ CommitRepair(r) \/ Finish(r)
    \/ \E fit \in SUBSET Items : CommitDaily(r, fit)

Work(r) == Proceed(r) \/ (\E k \in waiting : Begin(r, k))

Next ==
    \/ NextDay \/ Learner
    \/ \E r \in Runners : Work(r) \/ Reread(r) \/ Fail(r) \/ Crash(r)

Spec == Init /\ [][Next]_vars

\* run_forever claims whatever is due, and goes on with what it has claimed.
FairSpec ==
    /\ Spec
    /\ \A r \in Runners :
          /\ WF_vars(Proceed(r))
          /\ SF_vars(\E k \in Dailies : Begin(r, k))
          /\ \A s \in Stages :
                SF_vars(\E k \in waiting : /\ k[1] = "milestone" /\ k[2] = s
                                           /\ Begin(r, k))

-----------------------------------------------------------------------------
TypeOK ==
    /\ today \in Nat /\ until \in Nat
    /\ tasks \in Tasks
    /\ waiting \subseteq Jobs /\ used \subseteq Jobs /\ cancelled \subseteq Jobs
    /\ failures \in Nat
    /\ hand \in [Runners -> Hand]
    /\ budget \in Nat

\* With one runner, no item behind the gate gets a task, whatever the learner
\* does between the reading of the gate and the commit, and whatever job is
\* run twice (plan extension and daily materialization).
GateHolds ==
    [][\A i \in Items :
          (Len(tasks'.lessons[i]) > Len(tasks.lessons[i]))
              => ~ Beyond(StageOf[i], Blocked(tasks))]_vars

\* An item of the blueprint gets at most a task of each runner whose handlers
\* overlap, however often its day, its window and their jobs are run
\* (existing_keys).
OncePerRunner == \A i \in Items : Len(tasks.lessons[i]) <= Cardinality(Runners)

\* With one runner a stage has one milestone that is not superseded, however
\* many attempts are scheduled and jobs run twice.
OneMilestone ==
    \A s \in Stages : \A m, n \in DOMAIN tasks.milestones[s] :
        (/\ tasks.milestones[s][m] # "superseded"
         /\ tasks.milestones[s][n] # "superseded") => m = n

\* A stage that is due for its milestone while the day's materialization waits
\* gets it the same day, unless a job fails or the stage is no longer due.
DueStagesGetMilestones ==
    \A s \in Stages, day \in 0 .. Deadline :
        (StageDue(tasks, s) /\ today = day /\ <<"daily", day>> \in waiting)
        ~> (Live(tasks, s) \/ ~ StageDue(tasks, s) \/ failures > 0 \/ today > day)

\* ARCHITECTURE.md: downstream materialization is blocked until release.  When
\* daily materialization finds the gate open, none of the day's tasks is left
\* superseded by it.
ReleasedDayIsMaterialized ==
    [][\A r \in Runners, i \in Items, day \in 0 .. Deadline :
          (/\ hand[r].op = "run" /\ hand[r].job = <<"daily", day>>
           /\ hand'[r] = Idle /\ used' # used
           /\ hand[r].blocked = {} /\ DayOf[i] = day)
          => \A n \in DOMAIN tasks'.lessons[i] : tasks'.lessons[i][n] # "superseded"]_vars

\* test_milestone_gate_blocks_downstream_until_completed: an item gets a task
\* only if each stage before it that has had a milestone has completed one.
BlockedUntilCompleted ==
    [][\A i \in Items :
          (Len(tasks'.lessons[i]) > Len(tasks.lessons[i])) =>
              \A s \in Stages :
                  (s < StageOf[i] /\ tasks.milestones[s] # <<>>) =>
                      \E n \in DOMAIN tasks.milestones[s] :
                          tasks.milestones[s][n] = "completed"]_vars

\* rules/backend.md: "Retry paths must be safe against duplicate side effects."
\* An item gets one task, whoever runs the jobs.
MaterializedOnce == \A i \in Items : Len(tasks.lessons[i]) <= 1

\* update_task_status: "Only pending or in-progress tasks can be updated."  A
\* lesson the learner has completed stays completed.
CompletedLessonsStay ==
    [][\A i \in Items : \A n \in DOMAIN tasks.lessons[i] :
          tasks.lessons[i][n] = "completed" => tasks'.lessons[i][n] = "completed"]_vars
=============================================================================
