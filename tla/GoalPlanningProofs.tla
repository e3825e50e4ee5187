------------------------- MODULE GoalPlanningProofs -------------------------
(***************************************************************************)
(* Theorems about GoalPlanning for every set of actors, every number of    *)
(* tasks in a window and every bound.                                      *)
(***************************************************************************)
EXTENDS GoalPlanning, TLAPS

-----------------------------------------------------------------------------
(* Plans and tasks. *)

\* Superseding the plan p and creating its successor appends one plan.
LEMMA PlansAfterShape ==
    ASSUME plans \in Seq(Plan), NEW p \in 0 .. Len(plans)
    PROVE  /\ PlansAfter(p) \in Seq(Plan)
           /\ Len(PlansAfter(p)) = Len(plans) + 1
           /\ PlansAfter(p)[Len(plans) + 1].status = "active"
           /\ PlansAfter(p)[Len(plans) + 1].version
                 = IF p = 0 THEN 1 ELSE plans[p].version + 1
           /\ \A q \in 1 .. Len(plans) :
                 /\ PlansAfter(p)[q].version = plans[q].version
                 /\ PlansAfter(p)[q].status
                       = IF q = p THEN "superseded" ELSE plans[q].status
<1> DEFINE old == [q \in DOMAIN plans |->
                      IF q = p THEN [plans[q] EXCEPT !.status = "superseded"] ELSE plans[q]]
           new == [status |-> "active", version |-> IF p = 0 THEN 1 ELSE plans[p].version + 1]
<1>0. DOMAIN plans = 1 .. Len(plans) /\ \A q \in 1 .. Len(plans) : plans[q] \in Plan
  OBVIOUS
<1>1. \A q \in DOMAIN plans : plans[q] \in Plan /\ plans[q].version \in Nat
  BY <1>0 DEF Plan
<1>2. ASSUME NEW r \in Plan
      PROVE  /\ [r EXCEPT !.status = "superseded"] \in Plan
             /\ [r EXCEPT !.status = "superseded"].version = r.version
             /\ [r EXCEPT !.status = "superseded"].status = "superseded"
  BY DEF Plan
<1>3. old \in Seq(Plan) /\ Len(old) = Len(plans)
  BY <1>1, <1>2
<1>4. new \in Plan
  BY <1>1 DEF Plan
<1>5. PlansAfter(p) = Append(old, new)
  BY DEF PlansAfter
<1>6. \A q \in 1 .. Len(plans) :
         old[q] = IF q = p THEN [plans[q] EXCEPT !.status = "superseded"] ELSE plans[q]
  OBVIOUS
<1> HIDE DEF old
<1>7. /\ Append(old, new) \in Seq(Plan)
      /\ Len(Append(old, new)) = Len(plans) + 1
      /\ Append(old, new)[Len(plans) + 1] = new
      /\ \A q \in 1 .. Len(plans) : Append(old, new)[q] = old[q]
  BY <1>3, <1>4
<1>8. /\ Append(old, new)[Len(plans) + 1].status = "active"
      /\ Append(old, new)[Len(plans) + 1].version
            = IF p = 0 THEN 1 ELSE plans[p].version + 1
  BY <1>7
<1>9. ASSUME NEW q \in 1 .. Len(plans)
      PROVE  /\ old[q].version = plans[q].version
             /\ old[q].status = IF q = p THEN "superseded" ELSE plans[q].status
  <2>1. plans[q] \in Plan
    BY <1>0
  <2> QED
    BY <2>1, <1>2, <1>6
<1> HIDE DEF new
<1> QED
  BY <1>5, <1>7, <1>8, <1>9

\* Writing a plan's row with the status "active" leaves the other plans and all
\* versions as they are.
LEMMA RevivedShape ==
    ASSUME plans \in Seq(Plan), NEW p
    PROVE  LET new == [plans EXCEPT ![p].status = "active"]
           IN  /\ new \in Seq(Plan) /\ Len(new) = Len(plans)
               /\ \A q \in 1 .. Len(plans) :
                     /\ new[q].version = plans[q].version
                     /\ new[q].status = IF q = p THEN "active" ELSE plans[q].status
<1>1. ASSUME NEW r \in Plan
      PROVE  /\ [r EXCEPT !.status = "active"] \in Plan
             /\ [r EXCEPT !.status = "active"].version = r.version
             /\ [r EXCEPT !.status = "active"].status = "active"
  BY DEF Plan
<1>2. DOMAIN plans = 1 .. Len(plans) /\ Len(plans) \in Nat /\ \A q \in 1 .. Len(plans) : plans[q] \in Plan
  OBVIOUS
<1> DEFINE new == [plans EXCEPT ![p].status = "active"]
<1>3. DOMAIN new = 1 .. Len(plans)
  BY <1>2
<1>4. \A q \in 1 .. Len(plans) :
         new[q] = IF q = p THEN [plans[q] EXCEPT !.status = "active"] ELSE plans[q]
  BY <1>2
<1>5. \A q \in 1 .. Len(plans) : new[q] \in Plan
  BY <1>1, <1>2, <1>4
<1>6. new \in Seq(Plan) /\ Len(new) = Len(plans)
  <2>1. new \in [1 .. Len(plans) -> Plan]
    BY <1>2, <1>3, <1>5
  <2> HIDE DEF new
  <2> QED
    BY <1>2, <2>1
<1>7. \A q \in 1 .. Len(plans) :
         /\ new[q].version = plans[q].version
         /\ new[q].status = IF q = p THEN "active" ELSE plans[q].status
  BY <1>1, <1>2, <1>4
<1> QED
  BY <1>6, <1>7

\* Superseding a plan's open tasks keeps the tasks, their plans and kinds.
LEMMA SupersededShape ==
    ASSUME tasks \in Seq(Task), NEW p
    PROVE  /\ Superseded(p) \in Seq(Task)
           /\ Len(Superseded(p)) = Len(tasks)
<1>1. ASSUME NEW r \in Task PROVE [r EXCEPT !.status = "superseded"] \in Task
  BY DEF Task, TaskStatuses
<1> QED
  BY <1>1 DEF Superseded

\* New tasks are tasks.
LEMMA NewType ==
    ASSUME NEW p \in Nat, NEW kind \in Kinds
    PROVE  New(p, kind) \in Task
BY DEF New, Task, TaskStatuses, Open

\* A new plan's tasks follow those that exist.
LEMMA WindowShape ==
    ASSUME tasks \in Seq(Task), NEW p, NEW q \in Nat
    PROVE  /\ Superseded(p) \o FirstWindow(q) \in Seq(Task)
           /\ Len(Superseded(p) \o FirstWindow(q)) = Len(tasks) + TasksPerPlan
<1>1. FirstWindow(q) \in Seq(Task) /\ Len(FirstWindow(q)) = TasksPerPlan
  BY TasksAssumption, NewType DEF FirstWindow, Kinds
<1> QED
  BY <1>1, SupersededShape

-----------------------------------------------------------------------------
(* Transactions. *)

\* What a transaction is about exists, and is of the sort its operation needs.
Fitting(x) ==
    /\ x \in Transaction
    /\ x.plan \in 0 .. Len(plans)
    /\ x.task \in 0 .. Len(tasks)
    /\ x.op \in {"review", "execute", "update", "repair"} => x.task # 0
    /\ x.op = "update" => x.to \in Outcomes
    /\ x.op = "manual" => x.to \in Modes
    /\ x.op \in {"control", "status"} => x.to \in GoalStatuses

Hands == hand \in [Actors -> Transaction] /\ \A a \in Actors : Fitting(hand[a])

StateTypes ==
    /\ goal \in GoalStatuses /\ phase \in Phases /\ current \in Nat
    /\ reply \in Phases \cup {"none"} /\ budget \in Nat /\ inline \subseteq Actors

ListTypes == plans \in Seq(Plan) /\ tasks \in Seq(Task)

JobTypes == waiting \subseteq Keys /\ done \subseteq Keys /\ failed \subseteq Keys

IInv == StateTypes /\ ListTypes /\ JobTypes /\ Hands

\* The inductive invariant contains the types.
LEMMA TypePart == IInv => TypeOK
BY DEF IInv, StateTypes, ListTypes, JobTypes, Hands, TypeOK

\* The idle transaction, and one with some of its fields set.
LEMMA IdleFits ==
    ASSUME ListTypes
    PROVE  Fitting(Idle)
BY DEF Fitting, Idle, Transaction, NoKey, NotRead, ListTypes

\* The transactions that requests and jobs begin are fitting.
LEMMA GenerateFits ==
    ASSUME ListTypes, NEW p \in 0 .. Len(plans)
    PROVE  Fitting([Idle EXCEPT !.op = "generate", !.plan = p])
<1> DEFINE x == [Idle EXCEPT !.op = "generate", !.plan = p]
<1>1. p \in Nat /\ 0 \in 0 .. Len(plans) /\ 0 \in 0 .. Len(tasks)
  BY DEF ListTypes, GoalStatuses, Phases
<1>2. x \in Transaction
  BY <1>1 DEF Idle, Transaction, NotRead
<1>3. x.op = "generate" /\ x.plan = p /\ x.task = 0
  BY DEF Idle
<1> HIDE DEF x
<1>4. x.plan \in 0 .. Len(plans) /\ x.task \in 0 .. Len(tasks)
  BY <1>1, <1>3
<1>5. Fitting(x)
  BY <1>1, <1>2, <1>3, <1>4 DEF Fitting
<1> QED
  BY <1>5 DEF x

\* The transaction of a job that replans in full.
LEMMA GenerateJobFits ==
    ASSUME ListTypes, NEW p \in 0 .. Len(plans), NEW k \in Keys
    PROVE  Fitting([Idle EXCEPT !.op = "generate", !.plan = p, !.key = k])
<1> DEFINE x == [Idle EXCEPT !.op = "generate", !.plan = p, !.key = k]
<1>1. p \in Nat /\ 0 \in 0 .. Len(plans) /\ 0 \in 0 .. Len(tasks)
  BY DEF ListTypes, GoalStatuses, Phases
<1>2. x \in Transaction
  BY <1>1 DEF Idle, Transaction, NotRead
<1>3. x.op = "generate" /\ x.plan = p /\ x.task = 0
  BY DEF Idle
<1> HIDE DEF x
<1>4. x.plan \in 0 .. Len(plans) /\ x.task \in 0 .. Len(tasks)
  BY <1>1, <1>3
<1>5. Fitting(x)
  BY <1>1, <1>2, <1>3, <1>4 DEF Fitting
<1> QED
  BY <1>5 DEF x

\* The transaction of an extension, a daily or a milestone job.
LEMMA ExtendFits ==
    ASSUME ListTypes, NEW p \in 0 .. Len(plans)
    PROVE  Fitting([Idle EXCEPT !.op = "extend", !.plan = p])
<1> DEFINE x == [Idle EXCEPT !.op = "extend", !.plan = p]
<1>1. p \in Nat /\ 0 \in 0 .. Len(plans) /\ 0 \in 0 .. Len(tasks)
  BY DEF ListTypes, GoalStatuses, Phases
<1>2. x \in Transaction
  BY <1>1 DEF Idle, Transaction, NotRead
<1>3. x.op = "extend" /\ x.plan = p /\ x.task = 0
  BY DEF Idle
<1> HIDE DEF x
<1>4. x.plan \in 0 .. Len(plans) /\ x.task \in 0 .. Len(tasks)
  BY <1>1, <1>3
<1>5. Fitting(x)
  BY <1>1, <1>2, <1>3, <1>4 DEF Fitting
<1> QED
  BY <1>5 DEF x

\* The transaction of a review job.
LEMMA ReviewFits ==
    ASSUME ListTypes, NEW t \in DOMAIN tasks
    PROVE  Fitting([Idle EXCEPT !.op = "review", !.task = t])
<1> DEFINE x == [Idle EXCEPT !.op = "review", !.task = t]
<1>1. t \in Nat \ {0} /\ t \in 0 .. Len(tasks) /\ 0 \in 0 .. Len(plans) /\ 0 \in 0 .. Len(tasks)
  BY DEF ListTypes, GoalStatuses, Phases
<1>2. x \in Transaction
  BY <1>1 DEF Idle, Transaction, NotRead
<1>3. x.op = "review" /\ x.plan = 0 /\ x.task = t
  BY DEF Idle
<1> HIDE DEF x
<1>4. x.plan \in 0 .. Len(plans) /\ x.task \in 0 .. Len(tasks)
  BY <1>1, <1>3
<1>5. Fitting(x)
  BY <1>1, <1>2, <1>3, <1>4 DEF Fitting
<1> QED
  BY <1>5 DEF x

\* The transaction that starts a task.
LEMMA ExecuteFits ==
    ASSUME ListTypes, NEW t \in DOMAIN tasks
    PROVE  Fitting([Idle EXCEPT !.op = "execute", !.task = t])
<1> DEFINE x == [Idle EXCEPT !.op = "execute", !.task = t]
<1>1. t \in Nat \ {0} /\ t \in 0 .. Len(tasks) /\ 0 \in 0 .. Len(plans) /\ 0 \in 0 .. Len(tasks)
  BY DEF ListTypes, GoalStatuses, Phases
<1>2. x \in Transaction
  BY <1>1 DEF Idle, Transaction, NotRead
<1>3. x.op = "execute" /\ x.plan = 0 /\ x.task = t
  BY DEF Idle
<1> HIDE DEF x
<1>4. x.plan \in 0 .. Len(plans) /\ x.task \in 0 .. Len(tasks)
  BY <1>1, <1>3
<1>5. Fitting(x)
  BY <1>1, <1>2, <1>3, <1>4 DEF Fitting
<1> QED
  BY <1>5 DEF x

\* The transaction that settles a task.
LEMMA UpdateFits ==
    ASSUME ListTypes, NEW t \in DOMAIN tasks, NEW outcome \in Outcomes
    PROVE  Fitting([Idle EXCEPT !.op = "update", !.task = t, !.to = outcome])
<1> DEFINE x == [Idle EXCEPT !.op = "update", !.task = t, !.to = outcome]
<1>1. t \in Nat \ {0} /\ t \in 0 .. Len(tasks) /\ 0 \in 0 .. Len(plans) /\ 0 \in 0 .. Len(tasks)
  BY DEF ListTypes, GoalStatuses, Phases
<1>2. x \in Transaction
  BY <1>1 DEF Idle, Transaction, NotRead
<1>3. x.op = "update" /\ x.plan = 0 /\ x.task = t /\ x.to = outcome
  BY DEF Idle
<1> HIDE DEF x
<1>4. x.plan \in 0 .. Len(plans) /\ x.task \in 0 .. Len(tasks)
  BY <1>1, <1>3
<1>5. Fitting(x)
  BY <1>1, <1>2, <1>3, <1>4 DEF Fitting
<1> QED
  BY <1>5 DEF x

\* The transaction of a job that replans in part.
LEMMA RepairFits ==
    ASSUME ListTypes, NEW t \in DOMAIN tasks, NEW k \in Keys
    PROVE  Fitting([Idle EXCEPT !.op = "repair", !.task = t, !.key = k])
<1> DEFINE x == [Idle EXCEPT !.op = "repair", !.task = t, !.key = k]
<1>1. t \in Nat \ {0} /\ t \in 0 .. Len(tasks) /\ 0 \in 0 .. Len(plans) /\ 0 \in 0 .. Len(tasks)
  BY DEF ListTypes, GoalStatuses, Phases
<1>2. x \in Transaction
  BY <1>1 DEF Idle, Transaction, NotRead
<1>3. x.op = "repair" /\ x.plan = 0 /\ x.task = t
  BY DEF Idle
<1> HIDE DEF x
<1>4. x.plan \in 0 .. Len(plans) /\ x.task \in 0 .. Len(tasks)
  BY <1>1, <1>3
<1>5. Fitting(x)
  BY <1>1, <1>2, <1>3, <1>4 DEF Fitting
<1> QED
  BY <1>5 DEF x

\* The transaction of a manual replan.
LEMMA ManualFits ==
    ASSUME ListTypes, NEW t \in 0 .. Len(tasks), NEW mode \in Modes
    PROVE  Fitting([Idle EXCEPT !.op = "manual", !.task = t, !.to = mode])
<1> DEFINE x == [Idle EXCEPT !.op = "manual", !.task = t, !.to = mode]
<1>1. t \in Nat /\ 0 \in 0 .. Len(plans) /\ 0 \in 0 .. Len(tasks)
  BY DEF ListTypes, GoalStatuses, Phases
<1>2. x \in Transaction
  BY <1>1 DEF Idle, Transaction, NotRead
<1>3. x.op = "manual" /\ x.plan = 0 /\ x.task = t /\ x.to = mode
  BY DEF Idle
<1> HIDE DEF x
<1>4. x.plan \in 0 .. Len(plans) /\ x.task \in 0 .. Len(tasks)
  BY <1>1, <1>3
<1>5. Fitting(x)
  BY <1>1, <1>2, <1>3, <1>4 DEF Fitting
<1> QED
  BY <1>5 DEF x

\* The transaction that pauses or resumes.
LEMMA ControlFits ==
    ASSUME ListTypes, NEW to \in {"paused", "active"}
    PROVE  Fitting([Idle EXCEPT !.op = "control", !.to = to])
<1> DEFINE x == [Idle EXCEPT !.op = "control", !.to = to]
<1>1. to \in GoalStatuses /\ to \in Phases /\ 0 \in 0 .. Len(plans) /\ 0 \in 0 .. Len(tasks)
  BY DEF ListTypes, GoalStatuses, Phases
<1>2. x \in Transaction
  BY <1>1 DEF Idle, Transaction, NotRead
<1>3. x.op = "control" /\ x.plan = 0 /\ x.task = 0 /\ x.to = to
  BY DEF Idle
<1> HIDE DEF x
<1>4. x.plan \in 0 .. Len(plans) /\ x.task \in 0 .. Len(tasks)
  BY <1>1, <1>3
<1>5. Fitting(x)
  BY <1>1, <1>2, <1>3, <1>4 DEF Fitting
<1> QED
  BY <1>5 DEF x

\* The transaction that sets the goal's status.
LEMMA StatusFits ==
    ASSUME ListTypes, NEW status \in GoalStatuses
    PROVE  Fitting([Idle EXCEPT !.op = "status", !.to = status])
<1> DEFINE x == [Idle EXCEPT !.op = "status", !.to = status]
<1>1. status \in Phases /\ 0 \in 0 .. Len(plans) /\ 0 \in 0 .. Len(tasks)
  BY DEF ListTypes, GoalStatuses, Phases
<1>2. x \in Transaction
  BY <1>1 DEF Idle, Transaction, NotRead
<1>3. x.op = "status" /\ x.plan = 0 /\ x.task = 0 /\ x.to = status
  BY DEF Idle
<1> HIDE DEF x
<1>4. x.plan \in 0 .. Len(plans) /\ x.task \in 0 .. Len(tasks)
  BY <1>1, <1>3
<1>5. Fitting(x)
  BY <1>1, <1>2, <1>3, <1>4 DEF Fitting
<1> QED
  BY <1>5 DEF x

\* The step of one actor's hand leaves every hand fitting, as plans and tasks
\* are never removed.
LEMMA HandStep ==
    ASSUME Hands, ListTypes, ListTypes', Len(plans) <= Len(plans'), Len(tasks) <= Len(tasks'),
           NEW a \in Actors, NEW x, x \in Transaction, Fitting(x)',
           hand' = [hand EXCEPT ![a] = x]
    PROVE  Hands'
<1>1. hand' \in [Actors -> Transaction]
  BY DEF Hands
<1>2. ASSUME NEW b \in Actors, b # a PROVE Fitting(hand[b])'
  <2>1. hand'[b] = hand[b] /\ Fitting(hand[b])
    BY <1>2 DEF Hands
  <2>2. /\ Len(plans) \in Nat /\ Len(plans') \in Nat
        /\ Len(tasks) \in Nat /\ Len(tasks') \in Nat
    BY DEF ListTypes
  <2> QED
    BY <2>1, <2>2 DEF Fitting
<1>3. Fitting(hand[a])'
  BY DEF Hands, Fitting
<1> QED
  BY <1>1, <1>2, <1>3 DEF Hands

\* A transaction that begins, and one that ends.
LEMMA BeginStep ==
    ASSUME IInv, NEW a \in Actors, NEW x, Fitting(x), Begin(a, x), UNCHANGED <<plans, tasks>>
    PROVE  Hands'
<1>1. ListTypes' /\ Fitting(x)' /\ x \in Transaction
  BY DEF IInv, ListTypes, Fitting
<1>2. /\ Len(plans) <= Len(plans') /\ Len(tasks) <= Len(tasks')
  BY DEF IInv, ListTypes
<1> QED
  BY <1>1, <1>2, HandStep DEF IInv, Begin

\* A transaction that ends leaves the others as they fit.
LEMMA EndStep ==
    ASSUME IInv, ListTypes', Len(plans) <= Len(plans'), Len(tasks) <= Len(tasks'),
           NEW a \in Actors, hand' = [hand EXCEPT ![a] = Idle]
    PROVE  Hands'
<1>1. Fitting(Idle)' /\ Idle \in Transaction
  BY IdleFits DEF Fitting, Idle, Transaction, NoKey, NotRead, ListTypes
<1> QED
  BY <1>1, HandStep DEF IInv

\* A commit completes a replan job or none.
LEMMA CommitKeys ==
    ASSUME IInv, NEW a \in Actors, Commit(a) \/ CommitFailure(a)
    PROVE  done' \subseteq Keys /\ failed' \subseteq Keys
BY DEF IInv, JobTypes, Hands, Transaction, Commit, CommitFailure

\* The autonomy state stays a state.
LEMMA SyncType ==
    ASSUME IInv, NEW a \in Actors, NEW to \in Phases, NEW plan \in Nat, Sync(a, to, plan)
    PROVE  phase' \in Phases /\ current' \in Nat
BY DEF IInv, StateTypes, Sync

\* The same for a transition that leaves the current plan.
LEMMA SyncPhaseType ==
    ASSUME IInv, NEW a \in Actors, NEW to \in Phases, SyncPhase(a, to)
    PROVE  phase' \in Phases /\ current' \in Nat
<1>1. hand[a].seen[2] \in Nat
  BY DEF IInv, Hands, Transaction
<1> QED
  BY <1>1, SyncType DEF SyncPhase

\* Enqueueing a key leaves keys.
LEMMA EnqueueType ==
    ASSUME IInv, NEW k \in Keys, Enqueue(k)
    PROVE  waiting' \subseteq Keys
BY DEF IInv, JobTypes, Enqueue

-----------------------------------------------------------------------------
(* Steps of each sort keep the types. *)

\* The requests.
LEMMA RequestType ==
    ASSUME IInv, NEW a \in Actors, Requests(a)
    PROVE  IInv'
<1>1. ASSUME NEW x, Fitting(x), Request(a, x)
      PROVE  IInv'
  <2>1. Hands'
    BY <1>1, BeginStep DEF Request
  <2> QED
    BY <1>1, <2>1 DEF IInv, StateTypes, ListTypes, JobTypes, Request, Spend, stateVars, jobVars
<1>2. ASSUME NEW p \in 0 .. Len(plans), NEW trigger, BeginGenerate(a, p, trigger)
      PROVE  IInv'
  <2>1. Fitting([Idle EXCEPT !.op = "generate", !.plan = p])
    BY GenerateFits DEF IInv
  <2> QED
    BY <1>1, <1>2, <2>1 DEF BeginGenerate
<1>3. ASSUME NEW t \in DOMAIN tasks, BeginExecute(a, t)
      PROVE  IInv'
  <2>1. Fitting([Idle EXCEPT !.op = "execute", !.task = t])
    BY ExecuteFits DEF IInv
  <2> QED
    BY <1>1, <1>3, <2>1 DEF BeginExecute
<1>4. ASSUME NEW t \in DOMAIN tasks, NEW outcome \in Outcomes, BeginUpdate(a, t, outcome)
      PROVE  IInv'
  <2>1. Fitting([Idle EXCEPT !.op = "update", !.task = t, !.to = outcome])
    BY UpdateFits DEF IInv
  <2> QED
    BY <1>1, <1>4, <2>1 DEF BeginUpdate
<1>5. ASSUME NEW t \in 0 .. Len(tasks), NEW mode \in Modes, BeginManualReplan(a, t, mode)
      PROVE  IInv'
  <2>1. Fitting([Idle EXCEPT !.op = "manual", !.task = t, !.to = mode])
    BY ManualFits DEF IInv
  <2> QED
    BY <1>1, <1>5, <2>1 DEF BeginManualReplan
<1>6. ASSUME NEW to \in Phases, BeginControl(a, to)
      PROVE  IInv'
  <2>1. Fitting([Idle EXCEPT !.op = "control", !.to = to])
    BY <1>6, ControlFits DEF IInv, BeginControl
  <2> QED
    BY <1>1, <1>6, <2>1 DEF BeginControl
<1>7. ASSUME NEW status \in GoalStatuses, BeginSetStatus(a, status)
      PROVE  IInv'
  <2>1. Fitting([Idle EXCEPT !.op = "status", !.to = status])
    BY StatusFits DEF IInv
  <2> QED
    BY <1>1, <1>7, <2>1 DEF BeginSetStatus
<1> QED
  BY <1>2, <1>3, <1>4, <1>5, <1>6, <1>7 DEF Requests

\* The scheduled jobs other than replans.
LEMMA ScheduledType ==
    ASSUME IInv, NEW a \in Actors, Scheduled(a)
    PROVE  IInv'
<1>0. Len(plans) \in Nat /\ Len(tasks) \in Nat
  BY DEF IInv, ListTypes
<1>1. ASSUME NEW x, Fitting(x), Job(a, x)
      PROVE  IInv'
  <2>1. Hands'
    BY <1>1, BeginStep DEF Job
  <2> QED
    BY <1>1, <2>1 DEF IInv, StateTypes, ListTypes, JobTypes, Job, Spend, stateVars, jobVars
<1>2. ASSUME NEW p \in 1 .. Len(plans), BeginExtend(a, p)
      PROVE  IInv'
  <2>0. p \in 0 .. Len(plans)
    BY <1>0
  <2>1. Fitting([Idle EXCEPT !.op = "extend", !.plan = p])
    BY <2>0, ExtendFits DEF IInv
  <2> QED
    BY <1>1, <1>2, <2>1 DEF BeginExtend
<1>3. ASSUME NEW t \in DOMAIN tasks, BeginReview(a, t)
      PROVE  IInv'
  <2>1. Fitting([Idle EXCEPT !.op = "review", !.task = t])
    BY ReviewFits DEF IInv
  <2> QED
    BY <1>1, <1>3, <2>1 DEF BeginReview
<1> QED
  BY <1>2, <1>3 DEF Scheduled

\* The replan jobs, when they are taken up.
LEMMA ReplanType ==
    ASSUME IInv, NEW a \in Actors, Replans(a)
    PROVE  IInv'
<1>0. Len(plans) \in Nat /\ Len(tasks) \in Nat
  BY DEF IInv, ListTypes
<1>1. PICK k \in waiting : \/ \E p \in 0 .. Len(plans) : RunFull(a, k, p)
                           \/ \E t \in DOMAIN tasks : RunPartial(a, k, t)
  BY DEF Replans
<1>2. k \in Keys
  BY DEF IInv, JobTypes
<1>3. ASSUME NEW x, Fitting(x), Run(a, k, x)
      PROVE  IInv'
  <2>1. Hands'
    BY <1>3, BeginStep DEF Run
  <2> QED
    BY <1>3, <2>1 DEF IInv, StateTypes, ListTypes, JobTypes, Run, stateVars
<1>4. ASSUME NEW p \in 0 .. Len(plans), RunFull(a, k, p)
      PROVE  IInv'
  <2>1. Fitting([Idle EXCEPT !.op = "generate", !.plan = p, !.key = k])
    BY <1>2, GenerateJobFits DEF IInv
  <2> QED
    BY <1>3, <1>4, <2>1 DEF RunFull
<1>5. ASSUME NEW t \in DOMAIN tasks, RunPartial(a, k, t)
      PROVE  IInv'
  <2>1. Fitting([Idle EXCEPT !.op = "repair", !.task = t, !.key = k])
    BY <1>2, RepairFits DEF IInv
  <2> QED
    BY <1>3, <1>5, <2>1 DEF RunPartial
<1> QED
  BY <1>1, <1>4, <1>5

\* What every commit has in common: only the lists, the autonomy state, the
\* scheduled jobs and the goal may change, and keep their types.
LEMMA CommitStep ==
    ASSUME IInv, NEW a \in Actors, Commit(a) \/ CommitFailure(a), ListTypes',
           Len(plans) <= Len(plans'), Len(tasks) <= Len(tasks'),
           goal' \in GoalStatuses, phase' \in Phases, current' \in Nat,
           waiting' \subseteq Keys, inline' \subseteq Actors
    PROVE  IInv'
<1>1. Hands'
  BY EndStep DEF Commit, CommitFailure
<1>2. JobTypes'
  BY CommitKeys DEF JobTypes
<1>3. StateTypes'
  BY DEF IInv, StateTypes, Commit, CommitFailure
<1> QED
  BY <1>1, <1>2, <1>3 DEF IInv

\* One more task, or another status of one, leaves a list of tasks.
LEMMA TaskLists ==
    ASSUME tasks \in Seq(Task)
    PROVE  /\ \A x \in Task : /\ Append(tasks, x) \in Seq(Task)
                              /\ Len(Append(tasks, x)) = Len(tasks) + 1
           /\ \A t \in 1 .. Len(tasks), s \in TaskStatuses :
                 /\ [tasks EXCEPT ![t].status = s] \in Seq(Task)
                 /\ Len([tasks EXCEPT ![t].status = s]) = Len(tasks)
<1>1. ASSUME NEW r \in Task, NEW s \in TaskStatuses
      PROVE  [r EXCEPT !.status = s] \in Task
  BY DEF Task
<1>2. \A t \in 1 .. Len(tasks) : tasks[t] \in Task
  OBVIOUS
<1>3. ASSUME NEW t \in 1 .. Len(tasks), NEW s \in TaskStatuses
      PROVE  /\ [tasks EXCEPT ![t].status = s] \in Seq(Task)
             /\ Len([tasks EXCEPT ![t].status = s]) = Len(tasks)
  <2>1. [tasks[t] EXCEPT !.status = s] \in Task
    BY <1>1, <1>2
  <2> QED
    BY <2>1
<1> QED
  BY <1>3

\* The commits, each with what it writes.
LEMMA CommitsType ==
    ASSUME IInv, NEW a \in Actors, Commits(a)
    PROVE  IInv'
<1> DEFINE h == hand[a]
<1>0. /\ Len(plans) \in Nat /\ Len(tasks) \in Nat /\ Len(tasks) + 1 \in Nat
      /\ plans \in Seq(Plan) /\ tasks \in Seq(Task)
      /\ \A t \in 1 .. Len(tasks) : tasks[t] \in Task /\ tasks[t].plan \in Nat
      /\ goal \in GoalStatuses /\ phase \in Phases /\ current \in Nat
      /\ waiting \subseteq Keys /\ inline \subseteq Actors
  <2>1. /\ plans \in Seq(Plan) /\ tasks \in Seq(Task)
        /\ goal \in GoalStatuses /\ phase \in Phases /\ current \in Nat
        /\ waiting \subseteq Keys /\ inline \subseteq Actors
    BY DEF IInv, ListTypes, StateTypes, JobTypes
  <2>2. \A t \in 1 .. Len(tasks) : tasks[t] \in Task
    BY <2>1
  <2>3. \A t \in 1 .. Len(tasks) : tasks[t].plan \in Nat
    BY <2>2 DEF Task
  <2> QED
    BY <2>1, <2>2, <2>3
<1>1. Fitting(h)
  BY DEF IInv, Hands
<1>2. "active" \in Phases /\ "replanning" \in Phases /\ "assessment_due" \in Phases
  BY DEF Phases
<1>3. CASE CommitGenerate(a)
  <2>1. phase' \in Phases /\ current' \in Nat
    BY <1>0, <1>2, <1>3, SyncType DEF CommitGenerate
  <2>2. h.plan \in 0 .. Len(plans)
    BY <1>1 DEF Fitting
  <2>3. plans' \in Seq(Plan) /\ Len(plans') = Len(plans) + 1
    BY <1>0, <1>3, <2>2, PlansAfterShape DEF CommitGenerate
  <2>4. tasks' \in Seq(Task) /\ Len(tasks') = Len(tasks) + TasksPerPlan
    BY <1>0, <1>3, WindowShape DEF CommitGenerate
  <2>5. ListTypes' /\ Len(plans) <= Len(plans') /\ Len(tasks) <= Len(tasks')
    BY <1>0, <2>3, <2>4, TasksAssumption DEF ListTypes
  <2>6. /\ Commit(a) \/ CommitFailure(a)
        /\ goal' = goal /\ waiting' = waiting /\ inline' \subseteq Actors
    BY <1>0, <1>3 DEF CommitGenerate, EndJob, CommitFailure
  <2> QED
    BY <1>0, <2>1, <2>5, <2>6, CommitStep
<1>4. ASSUME NEW x \in Task, tasks' = Append(tasks, x), SyncPhase(a, "active") \/ SyncPhase(a, "assessment_due"),
             Commit(a), UNCHANGED <<goal, plans, waiting, inline>>
      PROVE  IInv'
  <2>1. phase' \in Phases /\ current' \in Nat
    BY <1>2, <1>4, SyncPhaseType
  <2>2. tasks' \in Seq(Task) /\ Len(tasks') = Len(tasks) + 1
    BY <1>0, <1>4, TaskLists
  <2>3. ListTypes' /\ Len(plans) <= Len(plans') /\ Len(tasks) <= Len(tasks')
    BY <1>0, <1>4, <2>2 DEF ListTypes
  <2> QED
    BY <1>0, <1>4, <2>1, <2>3, CommitStep
<1>5. CASE CommitReview(a)
  <2>1. h.task \in 1 .. Len(tasks)
    BY <1>0, <1>1, <1>5 DEF Fitting, CommitReview
  <2>2. New(tasks[h.task].plan, "derived") \in Task
    BY <1>0, <2>1, NewType DEF Kinds
  <2> QED
    BY <1>4, <1>5, <2>2 DEF CommitReview
<1>6. ASSUME NEW kind \in Kinds, NEW to \in Phases, CommitTask(a, kind, to)
      PROVE  IInv'
  <2>1. h.plan \in Nat
    BY <1>0, <1>1 DEF Fitting
  <2>2. New(h.plan, kind) \in Task
    BY <2>1, NewType
  <2>3. to = "active" \/ to = "assessment_due"
    BY <1>6 DEF CommitTask
  <2> QED
    BY <1>4, <1>6, <2>2, <2>3 DEF CommitTask
<1>7. ASSUME NEW t \in 1 .. Len(tasks), NEW s \in TaskStatuses,
             tasks' = [tasks EXCEPT ![t].status = s], Commit(a),
             UNCHANGED <<goal, plans, inline>>,
             phase' \in Phases, current' \in Nat, waiting' \subseteq Keys
      PROVE  IInv'
  <2>1. tasks' \in Seq(Task) /\ Len(tasks') = Len(tasks)
    BY <1>0, <1>7, TaskLists
  <2>2. ListTypes' /\ Len(plans) <= Len(plans') /\ Len(tasks) <= Len(tasks')
    BY <1>0, <1>7, <2>1 DEF ListTypes
  <2> QED
    BY <1>0, <1>7, <2>2, CommitStep
<1>8. CASE CommitExecute(a)
  <2>1. h.task \in 1 .. Len(tasks) /\ "in_progress" \in TaskStatuses
    BY <1>0, <1>1, <1>8 DEF Fitting, CommitExecute, TaskStatuses, Open
  <2> QED
    BY <1>0, <1>7, <1>8, <2>1 DEF CommitExecute, stateVars
<1>9. ASSUME NEW mode \in Modes, CommitUpdate(a, mode)
      PROVE  IInv'
  <2>1. h.task \in 1 .. Len(tasks) /\ h.to \in TaskStatuses
    BY <1>0, <1>1, <1>9 DEF Fitting, CommitUpdate, TaskStatuses
  <2>2. <<"task", h.task, mode>> \in Keys
    BY <2>1 DEF Keys
  <2>3. phase' \in Phases /\ current' \in Nat
    BY <1>0, <1>2, <1>9, SyncPhaseType DEF CommitUpdate, Followups, stateVars
  <2>4. waiting' \subseteq Keys
    BY <1>0, <1>9, <2>2, EnqueueType DEF CommitUpdate, Followups
  <2> QED
    BY <1>7, <1>9, <2>1, <2>3, <2>4 DEF CommitUpdate
<1>10. CASE CommitRepair(a)
  <2>1. h.task \in 1 .. Len(tasks)
    BY <1>0, <1>1, <1>10 DEF Fitting, CommitRepair
  <2> DEFINE s == IF tasks[h.task].kind = "milestone" THEN "superseded" ELSE tasks[h.task].status
             x == New(tasks[h.task].plan, "derived")
             rest == [tasks EXCEPT ![h.task].status = s]
  <2>2. s \in TaskStatuses
    BY <1>0, <2>1 DEF Task, TaskStatuses
  <2>3. x \in Task
    BY <1>0, <2>1, NewType DEF Kinds
  <2>4. rest \in Seq(Task) /\ Len(rest) = Len(tasks)
    BY <1>0, <2>1, <2>2, TaskLists
  <2>5. tasks' = Append(rest, x)
    BY <1>10 DEF CommitRepair
  <2> HIDE DEF rest, x
  <2>6. tasks' \in Seq(Task) /\ Len(tasks') = Len(tasks) + 1
    BY <2>3, <2>4, <2>5
  <2>7. phase' \in Phases /\ current' \in Nat
    BY <1>2, <1>10, SyncPhaseType DEF CommitRepair
  <2>8. /\ Commit(a) \/ CommitFailure(a)
        /\ UNCHANGED <<goal, plans, waiting>> /\ inline' \subseteq Actors
    BY <1>0, <1>10 DEF CommitRepair, EndJob, CommitFailure
  <2>9. ListTypes' /\ Len(plans) <= Len(plans') /\ Len(tasks) <= Len(tasks')
    BY <1>0, <2>6, <2>8 DEF ListTypes
  <2> QED
    BY <1>0, <2>7, <2>8, <2>9, CommitStep
<1>11. ASSUME Commit(a), UNCHANGED <<plans, tasks>>, goal' \in GoalStatuses,
              phase' \in Phases, current' \in Nat, waiting' \subseteq Keys, inline' \subseteq Actors
       PROVE  IInv'
  <2>1. ListTypes' /\ Len(plans) <= Len(plans') /\ Len(tasks) <= Len(tasks')
    BY <1>0, <1>11 DEF ListTypes
  <2> QED
    BY <1>11, <2>1, CommitStep
<1>12. CASE CommitManualReplan(a)
  <2>1. h.to \in Modes /\ h.task \in Nat
    BY <1>0, <1>1, <1>12 DEF Fitting, CommitManualReplan
  <2>2. <<"manual", h.task, h.to>> \in Keys
    BY <2>1 DEF Keys
  <2>3. waiting' \subseteq Keys
    BY <1>12, <2>2, EnqueueType DEF CommitManualReplan
  <2>4. phase' \in Phases /\ current' \in Nat
    BY <1>2, <1>12, SyncPhaseType DEF CommitManualReplan
  <2> QED
    BY <1>0, <1>11, <1>12, <2>3, <2>4 DEF CommitManualReplan
<1>13. CASE CommitControl(a)
  <2>1. h.to \in Phases
    BY <1>1, <1>13 DEF Fitting, CommitControl, GoalStatuses, Phases
  <2>2. phase' \in Phases /\ current' \in Nat
    BY <1>13, <2>1, SyncPhaseType DEF CommitControl
  <2> QED
    BY <1>0, <1>11, <1>13, <2>2 DEF CommitControl
<1>14. CASE CommitSetStatus(a)
  <2>1. h.to \in Phases /\ h.to \in GoalStatuses
    BY <1>1, <1>14 DEF Fitting, CommitSetStatus, GoalStatuses, Phases
  <2>2. phase' \in Phases /\ current' \in Nat
    BY <1>0, <1>14, <2>1, SyncPhaseType DEF CommitSetStatus, stateVars
  <2> QED
    BY <1>0, <1>11, <1>14, <2>1, <2>2 DEF CommitSetStatus
<1>15. ASSUME NEW to \in Phases, CommitWindow(a, to)
       PROVE  IInv'
  <2>1. h.plan \in Nat
    BY <1>0, <1>1 DEF Fitting
  <2>2. New(h.plan, "planned") \in Task
    BY <2>1, NewType DEF Kinds
  <2>3. tasks' \in Seq(Task) /\ Len(tasks') \in {Len(tasks), Len(tasks) + 1}
    BY <1>0, <1>15, <2>2, TaskLists DEF CommitWindow
  <2>4. plans' \in Seq(Plan) /\ Len(plans') = Len(plans)
    BY <1>0, <1>15, RevivedShape DEF CommitWindow
  <2>5. phase' \in Phases /\ current' \in Nat
    BY <1>15, SyncPhaseType DEF CommitWindow
  <2>6. ListTypes' /\ Len(plans) <= Len(plans') /\ Len(tasks) <= Len(tasks')
    BY <1>0, <2>3, <2>4 DEF ListTypes
  <2>7. Commit(a) /\ UNCHANGED <<goal, waiting, inline>>
    BY <1>15 DEF CommitWindow
  <2> QED
    BY <1>0, <2>5, <2>6, <2>7, CommitStep
<1>16. CASE FailHalfway(a)
  <2>1. /\ CommitFailure(a) /\ UNCHANGED <<goal, stateVars, waiting>>
        /\ inline' \subseteq Actors
    BY <1>0, <1>16 DEF FailHalfway, CommitFailure
  <2>2. phase' \in Phases /\ current' \in Nat
    BY <1>0, <2>1 DEF stateVars
  <2>3. plans' \in Seq(Plan) /\ Len(plans') = Len(plans)
    BY <1>0, <1>16, RevivedShape DEF FailHalfway
  <2>4. tasks' \in Seq(Task) /\ Len(tasks') \in {Len(tasks), Len(tasks) + 1}
    <3>1. /\ h.plan \in Nat
          /\ h.op \in {"review", "repair"} => h.task \in 1 .. Len(tasks)
      BY <1>0, <1>1 DEF Fitting
    <3>2. /\ New(h.plan, "planned") \in Task /\ New(h.plan, "milestone") \in Task
          /\ h.op \in {"review", "repair"} => New(tasks[h.task].plan, "derived") \in Task
      BY <1>0, <3>1, NewType DEF Kinds
    <3>3. \/ tasks' = tasks \/ \E x \in Task : tasks' = Append(tasks, x)
      BY <1>16, <3>2 DEF FailHalfway
    <3> QED
      BY <1>0, <3>3, TaskLists
  <2>5. ListTypes' /\ Len(plans) <= Len(plans') /\ Len(tasks) <= Len(tasks')
    BY <1>0, <2>3, <2>4 DEF ListTypes
  <2> QED
    BY <1>0, <2>1, <2>2, <2>5, CommitStep
<1> QED
  BY <1>3, <1>5, <1>6, <1>8, <1>9, <1>10, <1>12, <1>13, <1>14, <1>15, <1>16 DEF Commits

\* The reads, commits, failures, replies and crashes.
LEMMA ProceedsType ==
    ASSUME IInv, NEW a \in Actors, Proceeds(a) \/ Crash(a)
    PROVE  IInv'
<1>0. ListTypes /\ Hands /\ StateTypes /\ JobTypes
  BY DEF IInv
<1>1. CASE ReadState(a)
  <2> DEFINE x == [hand[a] EXCEPT !.seen = stateVars]
  <2>1. PICK y : y = x
    OBVIOUS
  <2>2. stateVars \in (Phases \cup {"none"}) \X Nat
    BY <1>0 DEF StateTypes, stateVars
  <2>3. hand[a] \in Transaction /\ Fitting(hand[a])
    BY <1>0 DEF Hands
  <2>4. y \in Transaction
    BY <2>1, <2>2, <2>3 DEF Transaction
  <2>5. y.op = hand[a].op /\ y.plan = hand[a].plan /\ y.task = hand[a].task /\ y.to = hand[a].to
    BY <2>1, <2>3 DEF Transaction
  <2>6. Fitting(y)
    BY <2>3, <2>4, <2>5 DEF Fitting
  <2>7. UNCHANGED <<plans, tasks, waiting, done, failed, goal, phase, current, reply, budget, inline>>
    BY <1>1 DEF ReadState, stateVars, jobVars
  <2>8. Fitting(y)' /\ ListTypes' /\ Len(plans) <= Len(plans') /\ Len(tasks) <= Len(tasks')
    BY <1>0, <2>6, <2>7 DEF Fitting, ListTypes
  <2>9. hand' = [hand EXCEPT ![a] = y]
    BY <1>1, <2>1 DEF ReadState
  <2>10. Hands'
    BY <1>0, <2>4, <2>8, <2>9, HandStep
  <2> QED
    BY <1>0, <2>7, <2>8, <2>10 DEF IInv, StateTypes, JobTypes
<1>2. ASSUME hand' = [hand EXCEPT ![a] = Idle], UNCHANGED <<plans, tasks, goal, stateVars>>,
             waiting' \subseteq Keys, done' \subseteq Keys, failed' \subseteq Keys,
             reply' = reply, budget' \in Nat, inline' \subseteq Actors
      PROVE  IInv'
  <2>1. ListTypes' /\ Len(plans) <= Len(plans') /\ Len(tasks) <= Len(tasks')
    BY <1>0, <1>2 DEF ListTypes
  <2>2. Hands'
    BY <1>2, <2>1, EndStep
  <2> QED
    BY <1>0, <1>2, <2>1, <2>2 DEF IInv, StateTypes, JobTypes, stateVars
<1>3. hand[a].key \in Keys \cup {NoKey}
  BY <1>0 DEF Hands, Transaction
<1>4. CASE Fail(a)
  BY <1>0, <1>2, <1>3, <1>4 DEF Fail, JobTypes, StateTypes
<1>5. CASE Crash(a)
  BY <1>0, <1>2, <1>3, <1>5 DEF Crash, Spend, JobTypes, StateTypes
<1>6. CASE ManualReply(a)
  <2>1. ListTypes' /\ Hands'
    BY <1>0, <1>6 DEF ManualReply, ListTypes, Hands, Fitting
  <2> QED
    BY <1>0, <1>6, <2>1 DEF ManualReply, IInv, StateTypes, JobTypes, stateVars, jobVars
<1> QED
  BY <1>1, <1>4, <1>5, <1>6, CommitsType DEF Proceeds

\* The initial states satisfy the inductive invariant.
LEMMA InitType == Init => IInv
<1> SUFFICES ASSUME Init PROVE IInv
  OBVIOUS
<1>1. ListTypes
  BY DEF Init, ListTypes
<1>2. Hands
  <2>1. Idle \in Transaction
    BY DEF Idle, Transaction, NoKey, NotRead
  <2> QED
    BY <1>1, <2>1, IdleFits DEF Init, Hands
<1>3. StateTypes /\ JobTypes
  BY BudgetAssumption DEF Init, StateTypes, JobTypes, GoalStatuses, Phases
<1> QED
  BY <1>1, <1>2, <1>3 DEF IInv

\* So does a state after a stuttering step.
LEMMA StutterType ==
    ASSUME IInv, UNCHANGED vars
    PROVE  IInv'
<1>1. UNCHANGED <<goal, phase, current, plans, tasks, waiting, done, failed, hand, inline, reply, budget>>
  BY DEF vars, stateVars, jobVars
<1> QED
  BY <1>1 DEF IInv, StateTypes, ListTypes, JobTypes, Hands, Fitting

\* Every step keeps the inductive invariant.
LEMMA StepType == IInv /\ [Next]_vars => IInv'
<1> SUFFICES ASSUME IInv, [Next]_vars PROVE IInv'
  OBVIOUS
<1>1. CASE UNCHANGED vars
  BY <1>1, StutterType
<1>2. ASSUME NEW a \in Actors,
             Requests(a) \/ Scheduled(a) \/ Replans(a) \/ Proceeds(a) \/ Crash(a)
      PROVE  IInv'
  BY <1>2, RequestType, ScheduledType, ReplanType, ProceedsType
<1> QED
  BY <1>1, <1>2 DEF Next

\* The inductive invariant: types, and transactions about plans and tasks that exist.
THEOREM Typed == Spec => []IInv
BY InitType, StepType, PTL DEF Spec

\* The types of all variables, for any actors (no code relies on a bound).
THEOREM TypeCorrect == Spec => []TypeOK
BY Typed, TypePart, PTL

-----------------------------------------------------------------------------
(* The versions of the plan. *)

\* The changes of the plans: a plan takes the place of another, or is written
\* back as the active plan it was.
Revived(p) == [plans EXCEPT ![p].status = "active"]

\* A step leaves the plans, replaces one by its next version, or writes one back.
LEMMA PlanStep ==
    ASSUME IInv, [Next]_vars
    PROVE  \/ plans' = plans
           \/ \E p \in 0 .. Len(plans) : plans' = PlansAfter(p)
           \/ \E p \in 0 .. Len(plans) : plans' = Revived(p)
<1>1. CASE UNCHANGED vars
  BY <1>1 DEF vars
<1>2. ASSUME NEW a \in Actors, Requests(a) \/ Scheduled(a)
      PROVE  plans' = plans
  BY <1>2 DEF Requests, Scheduled, Request, Job, BeginGenerate, BeginExecute, BeginUpdate,
     BeginManualReplan, BeginControl, BeginSetStatus, BeginExtend, BeginReview
<1>3. ASSUME NEW a \in Actors, Replans(a)
      PROVE  plans' = plans
  BY <1>3 DEF Replans, Run, RunFull, RunPartial
<1>4. ASSUME NEW a \in Actors, Crash(a) \/ ReadState(a) \/ Fail(a) \/ ManualReply(a)
      PROVE  plans' = plans
  BY <1>4 DEF Crash, ReadState, Fail, ManualReply
<1>5. ASSUME NEW a \in Actors, CommitGenerate(a)
      PROVE  \E p \in 0 .. Len(plans) : plans' = PlansAfter(p)
  <2>1. hand[a].plan \in 0 .. Len(plans)
    BY DEF IInv, Hands, Fitting
  <2> QED
    BY <1>5, <2>1 DEF CommitGenerate
<1>6. ASSUME NEW a \in Actors, NEW to, CommitWindow(a, to)
      PROVE  \E p \in 0 .. Len(plans) : plans' = Revived(p)
  <2>1. hand[a].plan \in 0 .. Len(plans)
    BY DEF IInv, Hands, Fitting
  <2> QED
    BY <1>6, <2>1 DEF CommitWindow, Revived
<1>8. ASSUME NEW a \in Actors, FailHalfway(a)
      PROVE  plans' = plans \/ \E p \in 0 .. Len(plans) : plans' = Revived(p)
  <2>1. hand[a].plan \in 0 .. Len(plans)
    BY DEF IInv, Hands, Fitting
  <2> QED
    BY <1>8, <2>1 DEF FailHalfway, Revived
<1>7. ASSUME NEW a \in Actors, Commits(a),
             ~CommitGenerate(a), ~FailHalfway(a), ~\E to : CommitWindow(a, to)
      PROVE  plans' = plans
  BY <1>7 DEF Commits, CommitReview, CommitExecute, CommitRepair, CommitTask, CommitUpdate,
     CommitManualReplan, CommitControl, CommitSetStatus
<1> QED
  BY <1>1, <1>2, <1>3, <1>4, <1>5, <1>6, <1>7, <1>8 DEF Next, Proceeds

\* However many replans overlap, the newest plan is active (CommitGenerate).
THEOREM NewestPlanActive == Spec => []NewestPlanIsActive
<1>1. Init => NewestPlanIsActive
  BY DEF Init, NewestPlanIsActive
<1>2. IInv /\ NewestPlanIsActive /\ [Next]_vars => NewestPlanIsActive'
  <2> SUFFICES ASSUME IInv, NewestPlanIsActive, [Next]_vars PROVE NewestPlanIsActive'
    OBVIOUS
  <2>1. CASE plans' = plans
    BY <2>1 DEF NewestPlanIsActive
  <2>2. ASSUME NEW p \in 0 .. Len(plans), plans' = PlansAfter(p)
        PROVE  NewestPlanIsActive'
    <3>1. Len(plans') = Len(plans) + 1 /\ plans'[Len(plans) + 1].status = "active"
      BY <2>2, PlansAfterShape DEF IInv, ListTypes
    <3> QED
      BY <3>1 DEF NewestPlanIsActive
  <2>3. ASSUME NEW p \in 0 .. Len(plans), plans' = Revived(p)
        PROVE  NewestPlanIsActive'
    <3>1. /\ Len(plans') = Len(plans) /\ Len(plans) \in Nat
          /\ \A q \in 1 .. Len(plans) :
                plans'[q].status = IF q = p THEN "active" ELSE plans[q].status
          /\ plans = <<>> <=> Len(plans) = 0
          /\ plans' = <<>> <=> Len(plans') = 0
      BY <2>3, RevivedShape DEF IInv, ListTypes, Revived
    <3> QED
      BY <3>1 DEF NewestPlanIsActive
  <2> QED
    BY <2>1, <2>2, <2>3, PlanStep
<1> QED
  BY <1>1, <1>2, Typed, PTL DEF Spec

\* However many replans overlap, a plan is superseded by a later one of the
\* next version (_supersede_active_plan and generate_plan).
THEOREM PlansAreSucceeded == Spec => []SupersededHasSuccessor
<1>1. Init => SupersededHasSuccessor
  BY DEF Init, SupersededHasSuccessor
<1>2. IInv /\ SupersededHasSuccessor /\ [Next]_vars => SupersededHasSuccessor'
  <2> SUFFICES ASSUME IInv, SupersededHasSuccessor, [Next]_vars
               PROVE  SupersededHasSuccessor'
    OBVIOUS
  <2>0. plans \in Seq(Plan) /\ Len(plans) \in Nat /\ DOMAIN plans = 1 .. Len(plans)
    BY DEF IInv, ListTypes
  <2>1. CASE plans' = plans
    BY <2>1 DEF SupersededHasSuccessor
  <2>2. ASSUME NEW p \in 0 .. Len(plans), plans' = PlansAfter(p)
        PROVE  SupersededHasSuccessor'
    <3> DEFINE n == Len(plans) + 1
    <3>1. /\ Len(plans') = n /\ DOMAIN plans' = 1 .. n
          /\ plans'[n].status = "active"
          /\ plans'[n].version = IF p = 0 THEN 1 ELSE plans[p].version + 1
          /\ \A q \in 1 .. Len(plans) :
                /\ plans'[q].version = plans[q].version
                /\ plans'[q].status = IF q = p THEN "superseded" ELSE plans[q].status
      BY <2>0, <2>2, PlansAfterShape
    <3>2. ASSUME NEW q \in 1 .. Len(plans), plans'[q].status = "superseded"
          PROVE  \E r \in 1 .. n : r > q /\ plans'[r].version = plans'[q].version + 1
      <4>1. CASE q = p
        <5>1. n \in 1 .. n /\ n > q /\ plans'[n].version = plans'[q].version + 1
          BY <2>0, <3>1, <4>1
        <5> QED
          BY <5>1
      <4>2. CASE q # p
        <5>1. plans[q].status = "superseded"
          BY <3>1, <3>2, <4>2
        <5>2. PICK r \in 1 .. Len(plans) : r > q /\ plans[r].version = plans[q].version + 1
          BY <2>0, <5>1 DEF SupersededHasSuccessor
        <5>3. r \in 1 .. n /\ plans'[r].version = plans'[q].version + 1
          BY <2>0, <3>1, <5>2
        <5> QED
          BY <5>2, <5>3
      <4> QED
        BY <4>1, <4>2
    <3>3. \A q \in 1 .. n : q \in 1 .. Len(plans) \/ q = n
      BY <2>0
    <3> QED
      BY <3>1, <3>2, <3>3 DEF SupersededHasSuccessor
  <2>3. ASSUME NEW p \in 0 .. Len(plans), plans' = Revived(p)
        PROVE  SupersededHasSuccessor'
    <3>1. /\ DOMAIN plans' = 1 .. Len(plans)
          /\ \A q \in 1 .. Len(plans) :
                /\ plans'[q].version = plans[q].version
                /\ plans'[q].status = IF q = p THEN "active" ELSE plans[q].status
      <4>1. plans' \in Seq(Plan) /\ Len(plans') = Len(plans)
        BY <2>0, <2>3, RevivedShape DEF Revived
      <4> QED
        BY <2>0, <2>3, <4>1, RevivedShape DEF Revived
    <3> QED
      BY <2>0, <3>1 DEF SupersededHasSuccessor
  <2> QED
    BY <2>1, <2>2, <2>3, PlanStep
<1> QED
  BY <1>1, <1>2, Typed, PTL DEF Spec

-----------------------------------------------------------------------------
(* Replan jobs. *)

\* What a step may do to a job: a transaction without a job begins or goes on,
\* a scheduled job is taken up, or a transaction ends with its job in one state.
Begun(a) ==
    /\ \E x : x.key = hand[a].key /\ hand' = [hand EXCEPT ![a] = x]
    /\ UNCHANGED <<waiting, done, failed>>

TakenUp(a) ==
    \E k \in waiting : \E x :
        /\ hand[a].key = NoKey /\ x.key = k /\ hand' = [hand EXCEPT ![a] = x]
        /\ waiting' = waiting \ {k} /\ UNCHANGED <<done, failed>>

Over(a) ==
    LET k == hand[a].key
        freed == IF k = NoKey THEN {} ELSE {k}
    IN  /\ hand' = [hand EXCEPT ![a] = Idle]
        /\ \/ /\ done' = done \cup freed /\ failed' = failed
              /\ waiting' = waiting \/ \E new \in Keys : Enqueue(new)
           \/ done' = done /\ failed' = failed \cup freed /\ waiting' = waiting
           \/ done' = done /\ failed' = failed /\ waiting' = waiting \cup freed

\* A step leaves the jobs, or one transaction begins, takes up or ends one.
LEMMA JobStep ==
    ASSUME IInv, [Next]_vars
    PROVE  \/ UNCHANGED <<hand, waiting, done, failed>>
           \/ \E a \in Actors : Begun(a) \/ TakenUp(a) \/ Over(a)
<1> DEFINE Goal == \/ UNCHANGED <<hand, waiting, done, failed>>
                   \/ \E a \in Actors : Begun(a) \/ TakenUp(a) \/ Over(a)
<1>1. CASE UNCHANGED vars
  BY <1>1 DEF vars, jobVars
<1>2. ASSUME NEW a \in Actors, Requests(a) \/ Scheduled(a)
      PROVE  Goal
  <2>1. ASSUME NEW x, x.key = NoKey, Request(a, x) \/ Job(a, x)
        PROVE  Begun(a)
    BY <2>1 DEF Request, Job, Begin, Begun, Idle, jobVars
  <2>2. \E x : x.key = NoKey /\ (Request(a, x) \/ Job(a, x))
    <3>1. /\ \A p : [Idle EXCEPT !.op = "generate", !.plan = p].key = NoKey
          /\ \A p : [Idle EXCEPT !.op = "extend", !.plan = p].key = NoKey
          /\ \A t : [Idle EXCEPT !.op = "review", !.task = t].key = NoKey
          /\ \A t : [Idle EXCEPT !.op = "execute", !.task = t].key = NoKey
          /\ \A t, to : [Idle EXCEPT !.op = "update", !.task = t, !.to = to].key = NoKey
          /\ \A t, to : [Idle EXCEPT !.op = "manual", !.task = t, !.to = to].key = NoKey
          /\ \A to : [Idle EXCEPT !.op = "control", !.to = to].key = NoKey
          /\ \A to : [Idle EXCEPT !.op = "status", !.to = to].key = NoKey
      BY DEF Idle
    <3>2. CASE Requests(a)
      BY <3>1, <3>2 DEF Requests, BeginGenerate, BeginExecute, BeginUpdate,
         BeginManualReplan, BeginControl, BeginSetStatus
    <3>3. CASE Scheduled(a)
      BY <3>1, <3>3 DEF Scheduled, BeginExtend, BeginReview
    <3> QED
      BY <1>2, <3>2, <3>3
  <2> QED
    BY <2>1, <2>2
<1>3. ASSUME NEW a \in Actors, Replans(a)
      PROVE  Goal
  <2>1. PICK k \in waiting : \/ \E p \in 0 .. Len(plans) : RunFull(a, k, p)
                             \/ \E t \in DOMAIN tasks : RunPartial(a, k, t)
    BY <1>3 DEF Replans
  <2>2. ASSUME NEW x, x.key = k, Run(a, k, x)
        PROVE  TakenUp(a)
    <3>1. hand[a].key = NoKey
      BY <2>2 DEF Run, Begin, Idle
    <3>2. /\ hand' = [hand EXCEPT ![a] = x]
          /\ waiting' = waiting \ {k} /\ UNCHANGED <<done, failed>>
      BY <2>2 DEF Run, Begin
    <3> QED
      BY <2>2, <3>1, <3>2 DEF TakenUp
  <2>3. /\ \A p : [Idle EXCEPT !.op = "generate", !.plan = p, !.key = k].key = k
        /\ \A t : [Idle EXCEPT !.op = "repair", !.task = t, !.key = k].key = k
    BY DEF Idle
  <2> QED
    BY <2>1, <2>2, <2>3 DEF RunFull, RunPartial
<1>4. ASSUME NEW a \in Actors, ReadState(a)
      PROVE  Goal
  <2>1. PICK x : x = [hand[a] EXCEPT !.seen = stateVars]
    OBVIOUS
  <2>2. x.key = hand[a].key
    BY <2>1 DEF IInv, Hands, Transaction
  <2> QED
    BY <1>4, <2>1, <2>2 DEF ReadState, Begun, jobVars
<1>5. ASSUME NEW a \in Actors, Commits(a)
      PROVE  Over(a)
  <2>1. ASSUME Commit(a), waiting' = waiting \/ \E new \in Keys : Enqueue(new)
        PROVE  Over(a)
    BY <2>1 DEF Commit, Over
  <2>5. ASSUME CommitFailure(a), waiting' = waiting
        PROVE  Over(a)
    BY <2>5 DEF CommitFailure, Over
  <2>2. hand[a].task \in Nat /\ hand[a].to \in Phases \cup Outcomes \cup Modes \cup {"none"}
        /\ Fitting(hand[a])
    BY DEF IInv, Hands, Transaction
  <2>3. CASE CommitManualReplan(a)
    <3>1. <<"manual", hand[a].task, hand[a].to>> \in Keys
      BY <2>2, <2>3 DEF CommitManualReplan, Fitting, Keys
    <3> QED
      BY <2>1, <2>3, <3>1 DEF CommitManualReplan
  <2>4. ASSUME NEW mode \in Modes, CommitUpdate(a, mode)
        PROVE  Over(a)
    <3>1. <<"task", hand[a].task, mode>> \in Keys
      BY <2>2 DEF Keys
    <3> QED
      BY <2>1, <2>4, <3>1 DEF CommitUpdate, Followups
  <2> QED
    BY <1>5, <2>1, <2>3, <2>4, <2>5 DEF Commits, CommitGenerate, CommitReview, CommitExecute,
       CommitRepair, CommitTask, CommitWindow, CommitControl, CommitSetStatus, EndJob,
       FailHalfway
<1>6. ASSUME NEW a \in Actors, Fail(a) \/ Crash(a)
      PROVE  Over(a)
  BY <1>6 DEF Fail, Crash, Over
<1>7. ASSUME NEW a \in Actors, ManualReply(a)
      PROVE  Goal
  BY <1>7 DEF ManualReply, jobVars
<1> QED
  BY <1>1, <1>2, <1>3, <1>4, <1>5, <1>6, <1>7 DEF Next, Proceeds

\* A replan job is never lost and never forked, whoever takes it up, fails or
\* crashes (create of the job repository, _process_replan_job).
THEOREM JobsHaveOneState == Spec => []OneStatePerJob
<1>0. Idle.key = NoKey /\ NoKey \notin Keys
  BY DEF Idle, NoKey, Keys
<1>1. Init => OneStatePerJob
  BY <1>0 DEF Init, OneStatePerJob
<1>2. IInv /\ OneStatePerJob /\ [Next]_vars => OneStatePerJob'
  <2> SUFFICES ASSUME IInv, OneStatePerJob, [Next]_vars PROVE OneStatePerJob'
    OBVIOUS
  <2>0. DOMAIN hand = Actors /\ waiting \subseteq Keys /\ done \subseteq Keys /\ failed \subseteq Keys
    BY DEF IInv, Hands, JobTypes
  <2>1. CASE UNCHANGED <<hand, waiting, done, failed>>
    BY <2>1 DEF OneStatePerJob
  <2>2. ASSUME NEW a \in Actors, Begun(a) PROVE OneStatePerJob'
    BY <2>0, <2>2 DEF OneStatePerJob, Begun
  <2>3. ASSUME NEW a \in Actors, TakenUp(a) PROVE OneStatePerJob'
    BY <1>0, <2>0, <2>3 DEF OneStatePerJob, TakenUp
  <2>4. ASSUME NEW a \in Actors, Over(a) PROVE OneStatePerJob'
    <3> DEFINE k == hand[a].key
               freed == IF k = NoKey THEN {} ELSE {k}
    <3>1. /\ freed \cap (waiting \cup done \cup failed) = {}
          /\ \A b \in Actors \ {a} : hand[b].key \notin freed
      BY <2>0 DEF OneStatePerJob
    <3>2. /\ hand'[a].key = NoKey
          /\ \A b \in Actors \ {a} : hand'[b].key = hand[b].key
      BY <1>0, <2>0, <2>4 DEF Over
    <3>3. \/ done' = done \cup freed /\ failed' = failed
             /\ \A j \in waiting' : j \in waiting
                   \/ j \notin done \cup failed \cup {hand[b].key : b \in Actors}
          \/ done' = done /\ failed' = failed \cup freed /\ waiting' = waiting
          \/ done' = done /\ failed' = failed /\ waiting' = waiting \cup freed
      BY <2>4 DEF Over, Enqueue
    <3>4. /\ \A j \in waiting' : j \notin done' \cup failed'
          /\ \A j \in done' : j \notin failed'
      BY <3>1, <3>3 DEF OneStatePerJob
    <3>5. ASSUME NEW b \in Actors, b # a, hand[b].key # NoKey
          PROVE  hand[b].key \notin waiting' \cup done' \cup failed'
      BY <3>1, <3>3, <3>5 DEF OneStatePerJob
    <3> QED
      BY <3>2, <3>4, <3>5 DEF OneStatePerJob
  <2> QED
    BY <2>1, <2>2, <2>3, <2>4, JobStep
<1> QED
  BY <1>1, <1>2, Typed, PTL DEF Spec

-----------------------------------------------------------------------------
(* Transactions that do not overlap. *)

\* One actor at a time: the worker alone, or requests one after the other.
SingleActor == \A a, b \in Actors : a = b

\* A plan that is replaced or extended is one that was seen active.
Planning == {"generate", "extend"}

Keeps(a) == hand'[a].op \in Planning =>
                \/ /\ hand[a].op \in Planning /\ hand'[a].plan = hand[a].plan
                   /\ hand'[a].op = hand[a].op
                \/ /\ SeesActive(hand'[a].plan)
                   /\ hand'[a].op = "extend" => hand'[a].plan # 0

Replaced(a) == hand[a].op = "generate" /\ plans' = PlansAfter(hand[a].plan)

WrittenBack(a) == hand[a].op = "extend" /\ plans' = Revived(hand[a].plan)

\* The plan replaced or written back is the one its transaction read; the others keep theirs.
LEMMA GenerateStep ==
    ASSUME IInv, [Next]_vars
    PROVE  \/ plans' = plans /\ \A b \in Actors : Keeps(b)
           \/ \E a \in Actors : /\ Replaced(a) \/ WrittenBack(a)
                                /\ hand' = [hand EXCEPT ![a] = Idle]
<1> DEFINE Goal == \/ plans' = plans /\ \A b \in Actors : Keeps(b)
                   \/ \E a \in Actors : /\ Replaced(a) \/ WrittenBack(a)
                                        /\ hand' = [hand EXCEPT ![a] = Idle]
           Good(x) == x.op \in Planning => SeesActive(x.plan) /\ (x.op = "extend" => x.plan # 0)
<1>0. DOMAIN hand = Actors /\ Idle.op = "none"
  BY DEF IInv, Hands, Idle
<1>1. CASE UNCHANGED vars
  BY <1>1 DEF vars, Keeps
<1>2. ASSUME NEW a \in Actors, NEW x, hand' = [hand EXCEPT ![a] = x], plans' = plans,
             Good(x) \/ (x.op = hand[a].op /\ x.plan = hand[a].plan)
      PROVE  Goal
  BY <1>0, <1>2 DEF Keeps
<1>3. ASSUME NEW a \in Actors, Requests(a) \/ Scheduled(a)
      PROVE  Goal
  <2>1. ASSUME NEW x, Request(a, x) \/ Job(a, x), Good(x)
        PROVE  Goal
    BY <1>2, <2>1 DEF Request, Job, Begin
  <2>2. /\ \A p : [Idle EXCEPT !.op = "generate", !.plan = p].plan = p
        /\ \A p : [Idle EXCEPT !.op = "generate", !.plan = p].op # "extend"
        /\ \A p : [Idle EXCEPT !.op = "extend", !.plan = p].plan = p
        /\ \A t : [Idle EXCEPT !.op = "review", !.task = t].op \notin Planning
        /\ \A t : [Idle EXCEPT !.op = "execute", !.task = t].op \notin Planning
        /\ \A t, to : [Idle EXCEPT !.op = "update", !.task = t, !.to = to].op \notin Planning
        /\ \A t, to : [Idle EXCEPT !.op = "manual", !.task = t, !.to = to].op \notin Planning
        /\ \A to : [Idle EXCEPT !.op = "control", !.to = to].op \notin Planning
        /\ \A to : [Idle EXCEPT !.op = "status", !.to = to].op \notin Planning
    BY DEF Idle, Planning
  <2>3. ASSUME NEW p, NEW trigger, BeginGenerate(a, p, trigger) PROVE Goal
    <3>1. PICK x : x = [Idle EXCEPT !.op = "generate", !.plan = p]
      OBVIOUS
    <3>2. Request(a, x) /\ SeesActive(x.plan) /\ x.op # "extend"
      BY <2>2, <2>3, <3>1 DEF BeginGenerate
    <3> QED
      BY <2>1, <3>2
  <2>4. ASSUME NEW x, Request(a, x) \/ Job(a, x), x.op \notin Planning PROVE Goal
    BY <2>1, <2>4
  <2> HIDE DEF Goal
  <2>5. CASE Scheduled(a)
    <3>1. ASSUME NEW p, BeginExtend(a, p) PROVE Goal
      <4>1. PICK x : x = [Idle EXCEPT !.op = "extend", !.plan = p]
        OBVIOUS
      <4>2. Job(a, x) /\ SeesActive(x.plan) /\ x.plan # 0
        BY <2>2, <3>1, <4>1 DEF BeginExtend
      <4> QED
        BY <2>1, <4>2
    <3>2. ASSUME NEW t, BeginReview(a, t) PROVE Goal
      BY <2>2, <2>4, <3>2 DEF BeginReview
    <3> QED
      BY <2>5, <3>1, <3>2 DEF Scheduled
  <2>6. CASE Requests(a)
    <3>1. ASSUME NEW t, BeginExecute(a, t) PROVE Goal
      BY <2>2, <2>4, <3>1 DEF BeginExecute
    <3>2. ASSUME NEW t, NEW to, BeginUpdate(a, t, to) PROVE Goal
      <4>1. PICK x : x = [Idle EXCEPT !.op = "update", !.task = t, !.to = to]
        OBVIOUS
      <4>2. x.op \notin Planning
        BY <4>1 DEF Idle, Planning
      <4> QED
        BY <2>4, <3>2, <4>1, <4>2 DEF BeginUpdate
    <3>3. ASSUME NEW t, NEW to, BeginManualReplan(a, t, to) PROVE Goal
      <4>1. PICK x : x = [Idle EXCEPT !.op = "manual", !.task = t, !.to = to]
        OBVIOUS
      <4>2. x.op \notin Planning
        BY <4>1 DEF Idle, Planning
      <4> QED
        BY <2>4, <3>3, <4>1, <4>2 DEF BeginManualReplan
    <3>4. ASSUME NEW to, BeginControl(a, to) \/ BeginSetStatus(a, to) PROVE Goal
      BY <2>2, <2>4, <3>4 DEF BeginControl, BeginSetStatus
    <3> QED
      BY <2>3, <2>6, <3>1, <3>2, <3>3, <3>4 DEF Requests
  <2> QED
    BY <1>3, <2>3, <2>4, <2>5, <2>6
<1>4. ASSUME NEW a \in Actors, Replans(a)
      PROVE  Goal
  <2>1. ASSUME NEW k, NEW x, Run(a, k, x), Good(x)
        PROVE  Goal
    BY <1>2, <2>1 DEF Run, Begin
  <2>2. ASSUME NEW k, NEW p, RunFull(a, k, p) PROVE Goal
    <3>1. PICK x : x = [Idle EXCEPT !.op = "generate", !.plan = p, !.key = k]
      OBVIOUS
    <3>2. x.plan = p /\ x.op = "generate"
      BY <3>1 DEF Idle
    <3>3. Run(a, k, x) /\ SeesActive(x.plan) /\ x.op # "extend"
      BY <2>2, <3>1, <3>2 DEF RunFull
    <3> QED
      BY <2>1, <3>3
  <2>3. ASSUME NEW k, NEW t, RunPartial(a, k, t) PROVE Goal
    <3>1. PICK x : x = [Idle EXCEPT !.op = "repair", !.task = t, !.key = k]
      OBVIOUS
    <3>2. x.op \notin Planning
      BY <3>1 DEF Idle, Planning
    <3> QED
      BY <2>1, <2>3, <3>1, <3>2 DEF RunPartial
  <2> QED
    BY <1>4, <2>2, <2>3 DEF Replans
<1>5. ASSUME NEW a \in Actors, ReadState(a)
      PROVE  Goal
  <2>1. PICK x : x = [hand[a] EXCEPT !.seen = stateVars]
    OBVIOUS
  <2>2. x.op = hand[a].op /\ x.plan = hand[a].plan
    BY <2>1 DEF IInv, Hands, Transaction
  <2> QED
    BY <1>2, <1>5, <2>1, <2>2 DEF ReadState
<1>6. ASSUME NEW a \in Actors, Fail(a) \/ Crash(a)
      PROVE  Goal
  BY <1>0, <1>2, <1>6 DEF Fail, Crash, Planning
<1>7. ASSUME NEW a \in Actors, ManualReply(a)
      PROVE  Goal
  BY <1>7 DEF ManualReply, Keeps
<1>8. ASSUME NEW a \in Actors, CommitGenerate(a) \/ \E to : CommitWindow(a, to)
      PROVE  Goal
  BY <1>8 DEF CommitGenerate, CommitWindow, Commit, EndJob, CommitFailure, Replaced, WrittenBack,
     Revived
<1>10. ASSUME NEW a \in Actors, FailHalfway(a)
       PROVE  Goal
  <2>1. hand' = [hand EXCEPT ![a] = Idle] /\ (plans' = plans \/ WrittenBack(a))
    BY <1>10 DEF FailHalfway, CommitFailure, WrittenBack, Revived
  <2>2. CASE plans' = plans
    BY <1>0, <1>2, <2>1, <2>2 DEF Planning
  <2>3. CASE WrittenBack(a)
    BY <2>1, <2>3
  <2> QED
    BY <2>1, <2>2, <2>3
<1>9. ASSUME NEW a \in Actors, Commits(a),
             ~CommitGenerate(a), ~FailHalfway(a), ~\E to : CommitWindow(a, to)
      PROVE  Goal
  <2>1. hand' = [hand EXCEPT ![a] = Idle] /\ plans' = plans
    BY <1>9 DEF Commits, CommitReview, CommitExecute, CommitRepair, CommitTask, CommitUpdate,
       CommitManualReplan, CommitControl, CommitSetStatus, Commit, EndJob, CommitFailure
  <2> QED
    BY <1>0, <1>2, <2>1 DEF Planning
<1> QED
  BY <1>1, <1>3, <1>4, <1>5, <1>6, <1>7, <1>8, <1>9, <1>10 DEF Next, Proceeds

\* The plan replaced or extended is the newest, the only active plan.
DraftsFollow == \A a \in Actors : hand[a].op \in Planning => hand[a].plan = Len(plans)

\* Numbers up to n.
LEMMA UpTo ==
    \A n \in Nat : /\ \A q \in 1 .. n : q < n \/ q = n
                   /\ \A p, q \in 1 .. n : p < q => p # n
OBVIOUS

\* When the newest plan is the only active one, it is the one a reader sees.
LEMMA SeesNewest ==
    ASSUME IInv, NewestPlanIsActive, OneActivePlan, NEW p, SeesActive(p)
    PROVE  p = Len(plans)
<1>0. plans \in Seq(Plan) /\ Len(plans) \in Nat /\ DOMAIN plans = 1 .. Len(plans)
  BY DEF IInv, ListTypes
<1>1. CASE plans = <<>>
  BY <1>0, <1>1 DEF SeesActive, ActivePlans
<1>2. CASE plans # <<>>
  <2>1. Len(plans) \in ActivePlans
    BY <1>0, <1>2 DEF NewestPlanIsActive, ActivePlans
  <2>2. \A q \in ActivePlans : q \in DOMAIN plans /\ plans[q].status = "active"
    BY DEF ActivePlans
  <2>3. p \in ActivePlans
    BY <2>1 DEF SeesActive
  <2>4. p \in 1 .. Len(plans) /\ ~(p < Len(plans))
    BY <1>0, <1>2, <2>2, <2>3 DEF OneActivePlan
  <2> QED
    BY <1>0, <2>4, UpTo
<1> QED
  BY <1>1, <1>2

\* With transactions that do not overlap what is drafted follows the one active
\* plan.
LEMMA SingleActorDrafts ==
    ASSUME SingleActor
    PROVE  Spec => [](OneActivePlan /\ DraftsFollow)
<1> DEFINE Inv == OneActivePlan /\ DraftsFollow
<1>1. Init => Inv
  BY DEF Init, OneActivePlan, DraftsFollow, Idle, Planning
<1>2. IInv /\ NewestPlanIsActive /\ Inv /\ [Next]_vars => Inv'
  <2> SUFFICES ASSUME IInv, NewestPlanIsActive, Inv, [Next]_vars PROVE Inv'
    OBVIOUS
  <2>0. plans \in Seq(Plan) /\ Len(plans) \in Nat /\ DOMAIN plans = 1 .. Len(plans)
    BY DEF IInv, ListTypes
  <2>1. CASE plans' = plans /\ \A b \in Actors : Keeps(b)
    <3>1. OneActivePlan'
      BY <2>1 DEF OneActivePlan
    <3>2. ASSUME NEW b \in Actors, hand'[b].op \in Planning
          PROVE  hand'[b].plan = Len(plans)
      BY <2>1, <3>2, SeesNewest DEF Keeps, DraftsFollow
    <3> QED
      BY <2>1, <3>1, <3>2 DEF DraftsFollow
  <2>2. ASSUME NEW a \in Actors, Replaced(a), hand' = [hand EXCEPT ![a] = Idle]
        PROVE  Inv'
    <3> DEFINE n == Len(plans) + 1
    <3>0. plans' = PlansAfter(Len(plans)) /\ Len(plans) \in 0 .. Len(plans)
      BY <2>0, <2>2 DEF DraftsFollow, Replaced, Planning
    <3>1. /\ Len(plans') = n /\ DOMAIN plans' = 1 .. n
          /\ plans'[n].status = "active"
          /\ plans'[n].version = IF Len(plans) = 0 THEN 1 ELSE plans[Len(plans)].version + 1
          /\ \A q \in 1 .. Len(plans) :
                /\ plans'[q].version = plans[q].version
                /\ plans'[q].status = IF q = Len(plans) THEN "superseded" ELSE plans[q].status
      <4> DEFINE after == PlansAfter(Len(plans))
      <4>1. /\ after \in Seq(Plan) /\ Len(after) = n
            /\ after[n].status = "active"
            /\ after[n].version = IF Len(plans) = 0 THEN 1 ELSE plans[Len(plans)].version + 1
            /\ \A q \in 1 .. Len(plans) :
                  /\ after[q].version = plans[q].version
                  /\ after[q].status = IF q = Len(plans) THEN "superseded" ELSE plans[q].status
        BY <2>0, <3>0, PlansAfterShape
      <4> HIDE DEF after
      <4>2. DOMAIN after = 1 .. n
        BY <4>1
      <4>3. plans' = after
        BY <3>0 DEF after
      <4> QED
        BY <4>1, <4>2, <4>3
    <3>2. ASSUME NEW p \in 1 .. Len(plans)
          PROVE  /\ plans'[p].status = "superseded"
                 /\ plans[p].version <= plans[Len(plans)].version
                 /\ plans[p].version \in Nat /\ plans[Len(plans)].version \in Nat
      <4>1. plans[p] \in Plan /\ plans[Len(plans)] \in Plan
        BY <2>0
      <4>2. plans[p].version \in Nat /\ plans[Len(plans)].version \in Nat
        BY <4>1 DEF Plan
      <4>3. CASE p = Len(plans)
        BY <3>1, <4>2, <4>3
      <4>4. CASE p < Len(plans)
        <5>1. plans[p].status = "superseded" /\ plans[p].version < plans[Len(plans)].version
          BY <2>0, <4>4 DEF OneActivePlan
        <5> QED
          BY <3>1, <4>2, <4>4, <5>1
      <4> QED
        BY <2>0, <4>3, <4>4, UpTo
    <3>3. ASSUME NEW p \in 1 .. n, NEW q \in 1 .. n, p < q
          PROVE  plans'[p].status = "superseded" /\ plans'[p].version < plans'[q].version
      <4>1. p \in 1 .. Len(plans) /\ Len(plans) # 0
        BY <2>0, <3>3
      <4>2. CASE q = n
        BY <3>1, <3>2, <4>1, <4>2
      <4>3. CASE q # n
        <5>1. q \in 1 .. Len(plans)
          BY <2>0, <4>3
        <5>2. plans[p].version < plans[q].version
          BY <2>0, <3>3, <4>1, <5>1 DEF OneActivePlan
        <5> QED
          BY <3>1, <3>2, <4>1, <5>1, <5>2
      <4> QED
        BY <4>2, <4>3
    <3>4. \A b \in Actors : hand'[b].op \notin Planning
      BY <2>2 DEF SingleActor, IInv, Hands, Idle, Planning
    <3> QED
      BY <3>1, <3>3, <3>4 DEF OneActivePlan, DraftsFollow
  <2>3. ASSUME NEW a \in Actors, WrittenBack(a), hand' = [hand EXCEPT ![a] = Idle]
        PROVE  Inv'
    <3>1. plans' = Revived(Len(plans))
      BY <2>3 DEF DraftsFollow, WrittenBack, Planning
    <3>2. /\ DOMAIN plans' = 1 .. Len(plans)
          /\ \A q \in 1 .. Len(plans) :
                /\ plans'[q].version = plans[q].version
                /\ plans'[q].status = IF q = Len(plans) THEN "active" ELSE plans[q].status
      <4>1. plans' \in Seq(Plan) /\ Len(plans') = Len(plans)
        BY <2>0, <3>1, RevivedShape DEF Revived
      <4> QED
        BY <2>0, <3>1, <4>1, RevivedShape DEF Revived
    <3>3. OneActivePlan'
      <4>1. ASSUME NEW p \in 1 .. Len(plans), NEW q \in 1 .. Len(plans), p < q
            PROVE  plans'[p].status = "superseded" /\ plans'[p].version < plans'[q].version
        <5>1. p # Len(plans)
          BY <2>0, <4>1, UpTo
        <5>2. plans[p].status = "superseded" /\ plans[p].version < plans[q].version
          BY <2>0, <4>1 DEF OneActivePlan
        <5> QED
          BY <3>2, <5>1, <5>2
      <4> QED
        BY <3>2, <4>1 DEF OneActivePlan
    <3>4. \A b \in Actors : hand'[b].op \notin Planning
      BY <2>3 DEF SingleActor, IInv, Hands, Idle, Planning
    <3> QED
      BY <3>3, <3>4 DEF DraftsFollow
  <2> QED
    BY <2>1, <2>2, <2>3, GenerateStep
<1> HIDE DEF Inv
<1>3. Spec => []Inv
  BY <1>1, <1>2, Typed, NewestPlanActive, PTL DEF Spec
<1> QED
  BY <1>3 DEF Inv

\* With transactions that do not overlap a goal has one active plan and ever
\* newer versions (generate_plan).
THEOREM SingleActorOnePlan ==
    ASSUME SingleActor
    PROVE  Spec => []OneActivePlan
<1>1. Spec => [](OneActivePlan /\ DraftsFollow)
  BY SingleActorDrafts
<1> QED
  BY <1>1, PTL

-----------------------------------------------------------------------------
(* The autonomy state and the tasks, when transactions do not overlap. *)

\* What the one transaction holds is what the rows are.
Fresh(x) ==
    /\ x.seen \in {NotRead, stateVars}
    /\ x.op = "control" => x.to \in {"paused", "active"}
    /\ x.op = "execute" => tasks[x.task].status = "pending"
    /\ x.op = "update" => tasks[x.task].status \in Open
    /\ x.op = "extend" => x.plan # 0

HandsFresh == \A a \in Actors : Fresh(hand[a])

\* The open tasks of the plans are those of the newest.
TasksFollow ==
    \A t \in DOMAIN tasks :
        /\ tasks[t].plan \in 1 .. Len(plans)
        /\ (tasks[t].kind # "derived" /\ tasks[t].status \in Open)
              => tasks[t].plan = Len(plans)

FollowInv == StateFollows /\ TasksFollow /\ HandsFresh

\* The step of SettledTasksStaySettled.
Settled ==
    \A t \in DOMAIN tasks :
        tasks[t].status \notin Open =>
           (\/ tasks'[t].status = tasks[t].status
            \/ tasks[t].kind = "milestone" /\ tasks'[t].status = "superseded")

\* What a transaction is about when it begins.
Opened(x) ==
    /\ x.seen = NotRead
    /\ x.op = "control" => x.to \in {"paused", "active"}
    /\ x.op = "execute" => tasks[x.task].status = "pending"
    /\ x.op = "update" => tasks[x.task].status \in Open
    /\ x.op = "extend" => x.plan # 0

Rows == <<goal, stateVars, plans, tasks>>

\* A step begins the transaction, reads the state, commits or changes no row.
LEMMA AloneKinds ==
    ASSUME IInv, [Next]_vars
    PROVE  \/ UNCHANGED <<hand, Rows>>
           \/ \E a \in Actors : ReadState(a) \/ Commits(a)
           \/ \E a \in Actors : \E x : /\ Opened(x) /\ hand' = [hand EXCEPT ![a] = x]
                                      /\ UNCHANGED Rows
<1> DEFINE Goal == \/ UNCHANGED <<hand, Rows>>
                   \/ \E a \in Actors : ReadState(a) \/ Commits(a)
                   \/ \E a \in Actors : \E x : /\ Opened(x) /\ hand' = [hand EXCEPT ![a] = x]
                                              /\ UNCHANGED Rows
<1>1. CASE UNCHANGED vars
  BY <1>1 DEF vars, Rows
<1>2. ASSUME NEW a \in Actors, NEW x, Opened(x),
             Request(a, x) \/ Job(a, x) \/ \E k : Run(a, k, x)
      PROVE  Goal
  BY <1>2 DEF Request, Job, Run, Begin, Rows
<1> HIDE DEF Goal
<1>3. ASSUME NEW a \in Actors, Requests(a)
      PROVE  Goal
  <2>1. ASSUME NEW p, NEW trigger, BeginGenerate(a, p, trigger) PROVE Goal
    <3>1. PICK x : x = [Idle EXCEPT !.op = "generate", !.plan = p]
      OBVIOUS
    <3>2. Opened(x)
      BY <3>1 DEF Opened, Idle
    <3> QED
      BY <1>2, <2>1, <3>1, <3>2 DEF BeginGenerate
  <2>2. ASSUME NEW t, BeginExecute(a, t) PROVE Goal
    <3>1. PICK x : x = [Idle EXCEPT !.op = "execute", !.task = t]
      OBVIOUS
    <3>2. Opened(x)
      BY <2>2, <3>1 DEF Opened, Idle, BeginExecute
    <3> QED
      BY <1>2, <2>2, <3>1, <3>2 DEF BeginExecute
  <2>3. ASSUME NEW t, NEW outcome, BeginUpdate(a, t, outcome) PROVE Goal
    <3>1. PICK x : x = [Idle EXCEPT !.op = "update", !.task = t, !.to = outcome]
      OBVIOUS
    <3>2. Opened(x)
      BY <2>3, <3>1 DEF Opened, Idle, BeginUpdate
    <3> QED
      BY <1>2, <2>3, <3>1, <3>2 DEF BeginUpdate
  <2>4. ASSUME NEW t, NEW mode, BeginManualReplan(a, t, mode) PROVE Goal
    <3>1. PICK x : x = [Idle EXCEPT !.op = "manual", !.task = t, !.to = mode]
      OBVIOUS
    <3>2. Opened(x)
      BY <3>1 DEF Opened, Idle
    <3> QED
      BY <1>2, <2>4, <3>1, <3>2 DEF BeginManualReplan
  <2>5. ASSUME NEW to, BeginControl(a, to) PROVE Goal
    <3>1. PICK x : x = [Idle EXCEPT !.op = "control", !.to = to]
      OBVIOUS
    <3>2. Opened(x)
      BY <2>5, <3>1 DEF Opened, Idle, BeginControl
    <3> QED
      BY <1>2, <2>5, <3>1, <3>2 DEF BeginControl
  <2>6. ASSUME NEW status, BeginSetStatus(a, status) PROVE Goal
    <3>1. PICK x : x = [Idle EXCEPT !.op = "status", !.to = status]
      OBVIOUS
    <3>2. Opened(x)
      BY <3>1 DEF Opened, Idle
    <3> QED
      BY <1>2, <2>6, <3>1, <3>2 DEF BeginSetStatus
  <2> QED
    BY <1>3, <2>1, <2>2, <2>3, <2>4, <2>5, <2>6 DEF Requests
<1>4. ASSUME NEW a \in Actors, Scheduled(a)
      PROVE  Goal
  <2>1. ASSUME NEW p, BeginExtend(a, p) PROVE Goal
    <3>1. PICK x : x = [Idle EXCEPT !.op = "extend", !.plan = p]
      OBVIOUS
    <3>2. Opened(x)
      BY <2>1, <3>1 DEF Opened, Idle, BeginExtend
    <3> QED
      BY <1>2, <2>1, <3>1, <3>2 DEF BeginExtend
  <2>2. ASSUME NEW t, BeginReview(a, t) PROVE Goal
    <3>1. PICK x : x = [Idle EXCEPT !.op = "review", !.task = t]
      OBVIOUS
    <3>2. Opened(x)
      BY <3>1 DEF Opened, Idle
    <3> QED
      BY <1>2, <2>2, <3>1, <3>2 DEF BeginReview
  <2> QED
    BY <1>4, <2>1, <2>2 DEF Scheduled
<1>5. ASSUME NEW a \in Actors, Replans(a)
      PROVE  Goal
  <2>1. ASSUME NEW k, NEW p, RunFull(a, k, p) PROVE Goal
    <3>1. PICK x : x = [Idle EXCEPT !.op = "generate", !.plan = p, !.key = k]
      OBVIOUS
    <3>2. Opened(x)
      BY <3>1 DEF Opened, Idle
    <3> QED
      BY <1>2, <2>1, <3>1, <3>2 DEF RunFull
  <2>2. ASSUME NEW k, NEW t, RunPartial(a, k, t) PROVE Goal
    <3>1. PICK x : x = [Idle EXCEPT !.op = "repair", !.task = t, !.key = k]
      OBVIOUS
    <3>2. Opened(x)
      BY <3>1 DEF Opened, Idle
    <3> QED
      BY <1>2, <2>2, <3>1, <3>2 DEF RunPartial
  <2> QED
    BY <1>5, <2>1, <2>2 DEF Replans
<1>6. ASSUME NEW a \in Actors, Fail(a) \/ Crash(a)
      PROVE  Goal
  <2>1. Opened(Idle)
    BY DEF Opened, Idle
  <2> QED
    BY <1>6, <2>1 DEF Fail, Crash, Rows, Goal
<1>7. ASSUME NEW a \in Actors, ManualReply(a) \/ ReadState(a) \/ Commits(a)
      PROVE  Goal
  BY <1>7 DEF ManualReply, Rows, Goal
<1> QED
  BY <1>1, <1>3, <1>4, <1>5, <1>6, <1>7 DEF Next, Proceeds, Goal

\* A phase that has ended is followed by one that has ended.
LEMMA EndedStays ==
    ASSUME NEW from, NEW to, Allowed(from, to), to \notin {"completed", "archived"}
    PROVE  from \notin {"completed", "archived"}
BY DEF Allowed

\* A transaction that met nobody writes the transition it checked.
LEMMA SyncAlone ==
    ASSUME IInv, NEW a \in Actors, Fresh(hand[a]), NEW to \in Phases, NEW plan \in Nat,
           Sync(a, to, plan)
    PROVE  Allowed(phase, to) /\ phase' = to /\ current' = plan
<1>1. hand[a].seen = <<phase, current>>
  BY DEF Fresh, Sync, stateVars
<1>2. hand[a].seen[1] = phase /\ hand[a].seen[2] = current
  BY <1>1
<1> QED
  BY <1>2 DEF Sync

\* The same for a transition that leaves the current plan.
LEMMA SyncPhaseAlone ==
    ASSUME IInv, NEW a \in Actors, Fresh(hand[a]), NEW to \in Phases, SyncPhase(a, to)
    PROVE  Allowed(phase, to) /\ phase' = to /\ current' = current
<1>1. hand[a].seen = <<phase, current>>
  BY DEF Fresh, SyncPhase, Sync, stateVars
<1>2. hand[a].seen[2] \in Nat /\ hand[a].seen[2] = current
  BY <1>1 DEF IInv, StateTypes
<1> QED
  BY <1>2, SyncAlone DEF SyncPhase

\* A step that ends nothing leaves goal and phase in agreement.
LEMMA StateKept ==
    ASSUME IInv, StateFollows, goal' = goal, current' = Len(plans'),
           \/ phase' = phase
           \/ phase' \notin {"completed", "archived"} /\ Allowed(phase, phase')
    PROVE  StateFollows'
<1>1. CASE phase' = phase
  BY <1>1 DEF StateFollows
<1>2. CASE phase' \notin {"completed", "archived"} /\ Allowed(phase, phase')
  <2>1. phase \notin {"completed", "archived"}
    BY <1>2, EndedStays
  <2> QED
    BY <1>2, <2>1 DEF StateFollows
<1> QED
  BY <1>1, <1>2

\* Every commit leaves the autonomy state pointing to the newest plan, and
\* ended exactly when the goal has ended.
LEMMA StateCommit ==
    ASSUME IInv, FollowInv, NEW a \in Actors, Commits(a)
    PROVE  StateFollows'
<1>0. /\ StateFollows /\ Fresh(hand[a]) /\ Fitting(hand[a])
      /\ plans \in Seq(Plan) /\ Len(plans) \in Nat /\ current = Len(plans)
  BY DEF FollowInv, HandsFresh, IInv, ListTypes, Hands, StateFollows
<1>1. ASSUME goal' = goal, Len(plans') = Len(plans),
             NEW to \in Phases \ {"completed", "archived"}, SyncPhase(a, to)
      PROVE  StateFollows'
  <2>1. Allowed(phase, to) /\ phase' = to /\ current' = current
    BY <1>0, <1>1, SyncPhaseAlone
  <2> QED
    BY <1>0, <1>1, <2>1, StateKept
<1>2. ASSUME goal' = goal, Len(plans') = Len(plans), UNCHANGED stateVars
      PROVE  StateFollows'
  BY <1>0, <1>2, StateKept DEF stateVars
<1>3. /\ "active" \in Phases \ {"completed", "archived"}
      /\ "assessment_due" \in Phases \ {"completed", "archived"}
      /\ "replanning" \in Phases \ {"completed", "archived"}
      /\ "paused" \in Phases \ {"completed", "archived"}
  BY DEF Phases
<1>4. ASSUME NEW p, plans' = [plans EXCEPT ![p].status = "active"]
      PROVE  Len(plans') = Len(plans)
  BY <1>0, <1>4, RevivedShape
<1>5. CASE CommitGenerate(a)
  <2>1. hand[a].plan \in 0 .. Len(plans)
    BY <1>0 DEF Fitting
  <2>2. Len(plans') = Len(plans) + 1
    BY <1>0, <1>5, <2>1, PlansAfterShape DEF CommitGenerate
  <2>3. Allowed(phase, "active") /\ phase' = "active" /\ current' = Len(plans) + 1
    BY <1>0, <1>3, <1>5, SyncAlone DEF CommitGenerate
  <2> QED
    BY <1>0, <1>5, <2>2, <2>3, StateKept DEF CommitGenerate
<1>6. CASE CommitReview(a)
  BY <1>1, <1>3, <1>6 DEF CommitReview
<1>7. CASE CommitExecute(a)
  BY <1>2, <1>7 DEF CommitExecute
<1>8. CASE CommitRepair(a)
  BY <1>1, <1>3, <1>8 DEF CommitRepair
<1>9. CASE FailHalfway(a)
  <2>1. Len(plans') = Len(plans)
    BY <1>4, <1>9 DEF FailHalfway
  <2> QED
    BY <1>2, <1>9, <2>1 DEF FailHalfway
<1>10. ASSUME NEW kind, NEW to, CommitTask(a, kind, to)
       PROVE  StateFollows'
  BY <1>1, <1>3, <1>10 DEF CommitTask
<1>11. ASSUME NEW to, CommitWindow(a, to)
       PROVE  StateFollows'
  <2>1. Len(plans') = Len(plans)
    BY <1>4, <1>11 DEF CommitWindow
  <2> QED
    BY <1>1, <1>3, <1>11, <2>1 DEF CommitWindow
<1>12. ASSUME NEW mode, CommitUpdate(a, mode)
       PROVE  StateFollows'
  BY <1>1, <1>2, <1>3, <1>12 DEF CommitUpdate, Followups
<1>13. CASE CommitManualReplan(a)
  BY <1>1, <1>3, <1>13 DEF CommitManualReplan
<1>14. CASE CommitControl(a)
  <2>1. hand[a].to \in {"paused", "active"}
    BY <1>0, <1>14 DEF Fresh, CommitControl
  <2> QED
    BY <1>1, <1>3, <1>14, <2>1 DEF CommitControl
<1>15. CASE CommitSetStatus(a)
  <2>1. hand[a].to \in GoalStatuses /\ hand[a].to \in Phases /\ hand[a].to # "none"
    BY <1>0, <1>15 DEF Fitting, CommitSetStatus, GoalStatuses, Phases
  <2>2. goal' = hand[a].to /\ plans' = plans
    BY <1>15 DEF CommitSetStatus
  <2>3. CASE hand[a].seen[1] = hand[a].to /\ UNCHANGED stateVars
    <3>1. hand[a].seen # NotRead
      BY <2>1, <2>3 DEF NotRead
    <3>2. hand[a].seen = <<phase, current>>
      BY <1>0, <3>1 DEF Fresh, stateVars
    <3>3. phase' = hand[a].to /\ current' = current
      BY <2>3, <3>2 DEF stateVars
    <3> QED
      BY <1>0, <2>2, <3>3 DEF StateFollows
  <2>4. CASE SyncPhase(a, hand[a].to)
    <3>1. phase' = hand[a].to /\ current' = current
      BY <1>0, <2>1, <2>4, SyncPhaseAlone
    <3> QED
      BY <1>0, <2>2, <3>1 DEF StateFollows
  <2> QED
    BY <1>15, <2>3, <2>4 DEF CommitSetStatus
<1> QED
  BY <1>5, <1>6, <1>7, <1>8, <1>9, <1>10, <1>11, <1>12, <1>13, <1>14, <1>15 DEF Commits

\* The tasks after one more is added.
LEMMA AppendedTasks ==
    ASSUME NEW old \in Seq(Task), NEW x, NEW new, new = Append(old, x)
    PROVE  /\ DOMAIN new = 1 .. Len(old) + 1
           /\ new[Len(old) + 1] = x
           /\ \A t \in 1 .. Len(old) : new[t] = old[t]
OBVIOUS

\* The elements of two sequences one after the other.
LEMMA Concatenated ==
    ASSUME NEW S, NEW s \in Seq(S), NEW r \in Seq(S)
    PROVE  /\ Len(s \o r) = Len(s) + Len(r)
           /\ \A t \in 1 .. Len(s) + Len(r) :
                 (s \o r)[t] = IF t <= Len(s) THEN s[t] ELSE r[t - Len(s)]
OBVIOUS

\* The tasks after a generation.
Renewed(p, q) == Superseded(p) \o FirstWindow(q)

\* Those that were open are superseded if they belong to the old plan, the first
\* window of the new plan follows.
LEMMA WindowTasks ==
    ASSUME tasks \in Seq(Task), NEW p, NEW q \in Nat
    PROVE  /\ DOMAIN Renewed(p, q) = 1 .. Len(tasks) + TasksPerPlan
           /\ \A t \in 1 .. Len(tasks) :
                 /\ Renewed(p, q)[t].plan = tasks[t].plan
                 /\ Renewed(p, q)[t].kind = tasks[t].kind
                 /\ Renewed(p, q)[t].status
                       = IF tasks[t].plan = p /\ tasks[t].status \in Open
                         THEN "superseded" ELSE tasks[t].status
           /\ \A t \in DOMAIN Renewed(p, q) :
                 t \notin 1 .. Len(tasks) => Renewed(p, q)[t] = New(q, "planned")
<1> DEFINE old == Superseded(p)
           window == FirstWindow(q)
<1>1. ASSUME NEW r \in Task
      PROVE  /\ [r EXCEPT !.status = "superseded"].plan = r.plan
             /\ [r EXCEPT !.status = "superseded"].kind = r.kind
             /\ [r EXCEPT !.status = "superseded"].status = "superseded"
  BY DEF Task
<1>2. DOMAIN tasks = 1 .. Len(tasks) /\ Len(tasks) \in Nat
      /\ \A t \in 1 .. Len(tasks) : tasks[t] \in Task
  OBVIOUS
<1>3. old \in Seq(Task) /\ Len(old) = Len(tasks)
  BY SupersededShape
<1>4. \A t \in 1 .. Len(tasks) :
         old[t] = IF tasks[t].plan = p /\ tasks[t].status \in Open
                  THEN [tasks[t] EXCEPT !.status = "superseded"] ELSE tasks[t]
  BY <1>2 DEF Superseded
<1>5. \A t \in 1 .. Len(tasks) :
         /\ old[t].plan = tasks[t].plan /\ old[t].kind = tasks[t].kind
         /\ old[t].status = IF tasks[t].plan = p /\ tasks[t].status \in Open
                            THEN "superseded" ELSE tasks[t].status
  BY <1>1, <1>2, <1>4
<1>6. /\ window \in Seq(Task) /\ Len(window) = TasksPerPlan
      /\ \A i \in 1 .. TasksPerPlan : window[i] = New(q, "planned")
  BY TasksAssumption, NewType DEF FirstWindow, Kinds
<1> HIDE DEF old, window
<1>7. /\ DOMAIN (old \o window) = 1 .. Len(tasks) + TasksPerPlan
      /\ \A t \in 1 .. Len(tasks) : (old \o window)[t] = old[t]
      /\ \A t \in 1 .. Len(tasks) + TasksPerPlan :
            t \notin 1 .. Len(tasks) => (old \o window)[t] = New(q, "planned")
  <2>0. /\ Len(old \o window) = Len(old) + Len(window)
        /\ \A t \in 1 .. Len(old) + Len(window) :
              (old \o window)[t] = IF t <= Len(old) THEN old[t] ELSE window[t - Len(old)]
    <3>1. old \in Seq(Task) /\ window \in Seq(Task)
      BY <1>3, <1>6
    <3> QED
      BY <3>1, Concatenated
  <2>1. Len(old \o window) = Len(tasks) + TasksPerPlan
    BY <1>3, <1>6, <2>0
  <2>2. \A t \in 1 .. Len(tasks) : (old \o window)[t] = old[t]
    BY <1>2, <1>3, <1>6, <2>0, TasksAssumption
  <2>3. ASSUME NEW t \in 1 .. Len(tasks) + TasksPerPlan, t \notin 1 .. Len(tasks)
        PROVE  (old \o window)[t] = New(q, "planned")
    <3>1. t - Len(tasks) \in 1 .. TasksPerPlan /\ t > Len(tasks)
      BY <1>2, <2>3, TasksAssumption
    <3>2. (old \o window)[t] = window[t - Len(tasks)]
      BY <1>2, <1>3, <1>6, <2>0, <2>3, <3>1, TasksAssumption
    <3> QED
      BY <1>6, <3>1, <3>2
  <2>4. old \o window \in Seq(Task)
    BY <1>3, <1>6
  <2> HIDE DEF old, window
  <2>5. DOMAIN (old \o window) = 1 .. Len(old \o window)
    BY <2>4
  <2> QED
    BY <2>1, <2>2, <2>3, <2>5
<1>8. Renewed(p, q) = old \o window
  BY DEF old, window, Renewed
<1> QED
  BY <1>5, <1>7, <1>8

\* The tasks after one row is written.
Written(u, s) == [tasks EXCEPT ![u].status = s]

\* The row has the new status; the others are as they were.
LEMMA WrittenTask ==
    ASSUME tasks \in Seq(Task), NEW u \in DOMAIN tasks, NEW s \in TaskStatuses
    PROVE  /\ Written(u, s) \in Seq(Task)
           /\ DOMAIN Written(u, s) = DOMAIN tasks /\ Len(Written(u, s)) = Len(tasks)
           /\ \A t \in DOMAIN tasks :
                 /\ Written(u, s)[t].plan = tasks[t].plan
                 /\ Written(u, s)[t].kind = tasks[t].kind
                 /\ Written(u, s)[t].status = IF t = u THEN s ELSE tasks[t].status
<1>0. PICK new : new = [tasks EXCEPT ![u].status = s]
  OBVIOUS
<1>1. ASSUME NEW r \in Task
      PROVE  /\ [r EXCEPT !.status = s] \in Task
             /\ [r EXCEPT !.status = s].plan = r.plan
             /\ [r EXCEPT !.status = s].kind = r.kind
             /\ [r EXCEPT !.status = s].status = s
  BY DEF Task
<1>2. DOMAIN tasks = 1 .. Len(tasks) /\ Len(tasks) \in Nat
      /\ \A t \in 1 .. Len(tasks) : tasks[t] \in Task
  OBVIOUS
<1>3. DOMAIN new = 1 .. Len(tasks)
      /\ \A t \in 1 .. Len(tasks) :
            new[t] = IF t = u THEN [tasks[t] EXCEPT !.status = s] ELSE tasks[t]
  BY <1>0, <1>2
<1>4. \A t \in 1 .. Len(tasks) : new[t] \in Task
  BY <1>1, <1>2, <1>3
<1>5. new = [t \in 1 .. Len(tasks) |-> new[t]]
  BY <1>0, <1>2, <1>3
<1>6. new \in [1 .. Len(tasks) -> Task]
  BY <1>4, <1>5
<1>7. new \in Seq(Task) /\ Len(new) = Len(tasks)
  BY <1>2, <1>6
<1>8. \A t \in DOMAIN tasks :
         /\ new[t].plan = tasks[t].plan /\ new[t].kind = tasks[t].kind
         /\ new[t].status = IF t = u THEN s ELSE tasks[t].status
  BY <1>1, <1>2, <1>3
<1>9. Written(u, s) = new
  BY <1>0 DEF Written
<1> QED
  BY <1>2, <1>3, <1>7, <1>8, <1>9

\* A task more, of the newest plan or derived from one that exists.
LEMMA TaskAdded ==
    ASSUME IInv, TasksFollow, Len(plans') = Len(plans), NEW p \in 1 .. Len(plans),
           NEW kind, kind = "derived" \/ p = Len(plans), tasks' = Append(tasks, New(p, kind))
    PROVE  TasksFollow' /\ Settled
<1>0. tasks \in Seq(Task) /\ Len(tasks) \in Nat /\ DOMAIN tasks = 1 .. Len(tasks)
  BY DEF IInv, ListTypes
<1>1. /\ DOMAIN tasks' = 1 .. Len(tasks) + 1
      /\ tasks'[Len(tasks) + 1] = New(p, kind)
      /\ \A t \in 1 .. Len(tasks) : tasks'[t] = tasks[t]
  BY <1>0, AppendedTasks
<1>2. New(p, kind).plan = p /\ New(p, kind).kind = kind
  BY DEF New
<1>3. \A t \in DOMAIN tasks' : t \in 1 .. Len(tasks) \/ t = Len(tasks) + 1
  BY <1>0, <1>1
<1> QED
  BY <1>0, <1>1, <1>2, <1>3 DEF TasksFollow, Settled

\* The tasks are as they were.
LEMMA TasksKept ==
    ASSUME TasksFollow, Len(plans') = Len(plans), tasks' = tasks
    PROVE  TasksFollow' /\ Settled
BY DEF TasksFollow, Settled

\* An open task is written by the transaction that found it open.
LEMMA TaskWritten ==
    ASSUME IInv, TasksFollow, Len(plans') = Len(plans), NEW u \in DOMAIN tasks,
           tasks[u].status \in Open, NEW s \in TaskStatuses, tasks' = Written(u, s)
    PROVE  TasksFollow' /\ Settled
<1>0. tasks \in Seq(Task)
  BY DEF IInv, ListTypes
<1>1. /\ DOMAIN tasks' = DOMAIN tasks
      /\ \A t \in DOMAIN tasks :
            /\ tasks'[t].plan = tasks[t].plan /\ tasks'[t].kind = tasks[t].kind
            /\ tasks'[t].status = IF t = u THEN s ELSE tasks[t].status
  BY <1>0, WrittenTask
<1> QED
  BY <1>1 DEF TasksFollow, Settled

\* The tasks after one row is written and one is added.
LEMMA RepairedTasks ==
    ASSUME tasks \in Seq(Task), NEW u \in DOMAIN tasks, NEW s \in TaskStatuses,
           NEW x, NEW new, new = Append(Written(u, s), x)
    PROVE  /\ DOMAIN new = 1 .. Len(tasks) + 1
           /\ new[Len(tasks) + 1] = x
           /\ \A t \in DOMAIN tasks :
                 /\ new[t].plan = tasks[t].plan /\ new[t].kind = tasks[t].kind
                 /\ new[t].status = IF t = u THEN s ELSE tasks[t].status
<1>0. PICK left : left = Written(u, s)
  OBVIOUS
<1>1. /\ left \in Seq(Task) /\ Len(left) = Len(tasks)
      /\ \A t \in DOMAIN tasks :
            /\ left[t].plan = tasks[t].plan /\ left[t].kind = tasks[t].kind
            /\ left[t].status = IF t = u THEN s ELSE tasks[t].status
  BY <1>0, WrittenTask
<1>2. left \in Seq(Task) /\ new = Append(left, x)
  BY <1>0, <1>1
<1>3. /\ DOMAIN new = 1 .. Len(left) + 1
      /\ new[Len(left) + 1] = x
      /\ \A t \in 1 .. Len(left) : new[t] = left[t]
  BY <1>2, AppendedTasks
<1>4. DOMAIN tasks = 1 .. Len(left)
  BY <1>1
<1> QED
  BY <1>1, <1>3, <1>4

\* A new plan: the open tasks of the old one are superseded.
LEMMA TasksReplaced ==
    ASSUME IInv, TasksFollow, Len(plans') = Len(plans) + 1,
           \A t \in DOMAIN tasks :
              /\ tasks'[t].plan = tasks[t].plan /\ tasks'[t].kind = tasks[t].kind
              /\ tasks'[t].status = IF tasks[t].plan = Len(plans) /\ tasks[t].status \in Open
                                    THEN "superseded" ELSE tasks[t].status,
           \A t \in DOMAIN tasks' :
              t \notin DOMAIN tasks => tasks'[t] = New(Len(plans) + 1, "planned")
    PROVE  TasksFollow' /\ Settled
<1>0. Len(plans) \in Nat
  BY DEF IInv, ListTypes
<1>1. New(Len(plans) + 1, "planned").plan = Len(plans) + 1
  BY DEF New
<1>2. "superseded" \notin Open
  BY DEF Open
<1>3. ASSUME NEW t \in DOMAIN tasks'
      PROVE  /\ tasks'[t].plan \in 1 .. Len(plans) + 1
             /\ (tasks'[t].kind # "derived" /\ tasks'[t].status \in Open)
                   => tasks'[t].plan = Len(plans) + 1
  <2>1. CASE t \in DOMAIN tasks
    <3>1. /\ tasks[t].plan \in 1 .. Len(plans)
          /\ (tasks[t].kind # "derived" /\ tasks[t].status \in Open)
                => tasks[t].plan = Len(plans)
      BY <2>1 DEF TasksFollow
    <3>2. tasks[t].plan \in 1 .. Len(plans) + 1
      BY <1>0, <3>1
    <3> QED
      BY <1>2, <2>1, <3>1, <3>2
  <2>2. CASE t \notin DOMAIN tasks
    BY <1>0, <1>1, <2>2
  <2> QED
    BY <2>1, <2>2
<1>4. TasksFollow'
  BY <1>3 DEF TasksFollow
<1>5. Settled
  BY DEF Settled
<1> QED
  BY <1>4, <1>5

\* Every commit keeps the open tasks in the newest plan and those that are
\* settled as they are.
LEMMA TaskCommit ==
    ASSUME IInv, FollowInv, DraftsFollow, NEW a \in Actors, Commits(a)
    PROVE  TasksFollow' /\ Settled
<1>0. /\ TasksFollow /\ Fresh(hand[a]) /\ Fitting(hand[a])
      /\ plans \in Seq(Plan) /\ tasks \in Seq(Task)
      /\ Len(plans) \in Nat /\ Len(tasks) \in Nat
      /\ DOMAIN tasks = 1 .. Len(tasks)
  BY DEF FollowInv, HandsFresh, IInv, ListTypes, Hands
<1>1. hand[a].op \in {"review", "execute", "update", "repair"} => hand[a].task \in DOMAIN tasks
  BY <1>0 DEF Fitting
<1>2. hand[a].op = "extend" => hand[a].plan = Len(plans) /\ hand[a].plan \in 1 .. Len(plans)
  BY <1>0 DEF Fitting, Fresh, DraftsFollow, Planning
<1>3. ASSUME NEW p, plans' = [plans EXCEPT ![p].status = "active"]
      PROVE  Len(plans') = Len(plans)
  BY <1>0, <1>3, RevivedShape
<1>4. \A t \in DOMAIN tasks : tasks[t].plan \in 1 .. Len(plans)
  BY <1>0 DEF TasksFollow
<1>5. CASE CommitGenerate(a)
  <2>1. hand[a].plan = Len(plans) /\ Len(plans) \in 0 .. Len(plans)
    BY <1>0, <1>5 DEF DraftsFollow, Planning, CommitGenerate
  <2>2. Len(plans') = Len(plans) + 1
    BY <1>0, <1>5, <2>1, PlansAfterShape DEF CommitGenerate
  <2>3. /\ \A t \in 1 .. Len(tasks) :
              /\ tasks'[t].plan = tasks[t].plan /\ tasks'[t].kind = tasks[t].kind
              /\ tasks'[t].status = IF tasks[t].plan = Len(plans) /\ tasks[t].status \in Open
                                    THEN "superseded" ELSE tasks[t].status
        /\ \A t \in DOMAIN tasks' :
              t \notin 1 .. Len(tasks) => tasks'[t] = New(Len(plans) + 1, "planned")
    <3>1. tasks' = Renewed(Len(plans), Len(plans) + 1)
      BY <1>5, <2>1 DEF CommitGenerate, Renewed
    <3>2. tasks \in Seq(Task) /\ Len(plans) + 1 \in Nat
      BY <1>0
    <3> QED
      BY <3>1, <3>2, WindowTasks
  <2> QED
    BY <1>0, <2>2, <2>3, TasksReplaced
<1>6. CASE CommitReview(a)
  BY <1>0, <1>1, <1>4, <1>6, TaskAdded DEF CommitReview
<1>7. CASE CommitExecute(a)
  <2>1. tasks[hand[a].task].status \in Open /\ "in_progress" \in TaskStatuses
    BY <1>0, <1>7 DEF Fresh, CommitExecute, Open, TaskStatuses
  <2> QED
    BY <1>0, <1>1, <1>7, <2>1, TaskWritten DEF CommitExecute, Written
<1>8. CASE CommitRepair(a)
  <2>0. hand[a].task \in DOMAIN tasks /\ tasks[hand[a].task] \in Task
    BY <1>0, <1>1, <1>8 DEF CommitRepair
  <2>1. PICK u \in DOMAIN tasks : u = hand[a].task
    BY <2>0
  <2>2. PICK s : s = IF tasks[u].kind = "milestone" THEN "superseded" ELSE tasks[u].status
    OBVIOUS
  <2>3. PICK x : x = New(tasks[u].plan, "derived")
    OBVIOUS
  <2>5. tasks' = Append(Written(u, s), x) /\ plans' = plans
    BY <1>8, <2>1, <2>2, <2>3 DEF CommitRepair, Written
  <2>6. s \in TaskStatuses
    BY <2>0, <2>1, <2>2 DEF Task, TaskStatuses
  <2>7. /\ DOMAIN tasks' = 1 .. Len(tasks) + 1
        /\ tasks'[Len(tasks) + 1] = x
        /\ \A t \in DOMAIN tasks :
              /\ tasks'[t].plan = tasks[t].plan /\ tasks'[t].kind = tasks[t].kind
              /\ tasks'[t].status = IF t = u THEN s ELSE tasks[t].status
    <3>1. tasks \in Seq(Task)
      BY <1>0
    <3> QED
      BY <2>1, <2>5, <2>6, <3>1, RepairedTasks
  <2>8. x.plan = tasks[u].plan /\ x.kind = "derived"
    BY <2>3 DEF New
  <2>9. (s = "superseded" /\ tasks[u].kind = "milestone") \/ s = tasks[u].status
    BY <2>2
  <2>10. \A t \in DOMAIN tasks' : t \in DOMAIN tasks \/ t = Len(tasks) + 1
    BY <1>0, <2>7
  <2>11. "superseded" \notin Open
    BY DEF Open
  <2>12. Len(plans') = Len(plans)
    BY <2>5
  <2>13. TasksFollow'
    BY <1>0, <2>1, <2>7, <2>8, <2>9, <2>10, <2>11, <2>12 DEF TasksFollow
  <2>14. Settled
    BY <2>7, <2>9 DEF Settled
  <2> QED
    BY <2>13, <2>14
<1>9. CASE FailHalfway(a)
  <2>1. Len(plans') = Len(plans)
    BY <1>3, <1>9 DEF FailHalfway
  <2>2. \/ tasks' = tasks
        \/ hand[a].op = "extend" /\ \E kind : tasks' = Append(tasks, New(hand[a].plan, kind))
        \/ /\ hand[a].op \in {"review", "repair"}
           /\ tasks' = Append(tasks, New(tasks[hand[a].task].plan, "derived"))
    BY <1>9 DEF FailHalfway
  <2> QED
    BY <1>0, <1>1, <1>2, <1>4, <2>1, <2>2, TasksKept, TaskAdded
<1>10. ASSUME NEW kind, NEW to, CommitTask(a, kind, to)
       PROVE  TasksFollow' /\ Settled
  BY <1>0, <1>2, <1>10, TaskAdded DEF CommitTask
<1>11. ASSUME NEW to, CommitWindow(a, to)
       PROVE  TasksFollow' /\ Settled
  <2>1. Len(plans') = Len(plans)
    BY <1>3, <1>11 DEF CommitWindow
  <2> QED
    BY <1>0, <1>2, <1>11, <2>1, TasksKept, TaskAdded DEF CommitWindow
<1>12. ASSUME NEW mode, CommitUpdate(a, mode)
       PROVE  TasksFollow' /\ Settled
  <2>1. tasks[hand[a].task].status \in Open /\ hand[a].to \in TaskStatuses
    BY <1>0, <1>12 DEF Fresh, Fitting, CommitUpdate, TaskStatuses
  <2> QED
    BY <1>0, <1>1, <1>12, <2>1, TaskWritten DEF CommitUpdate, Written
<1>13. ASSUME CommitManualReplan(a) \/ CommitControl(a) \/ CommitSetStatus(a)
       PROVE  TasksFollow' /\ Settled
  BY <1>0, <1>13, TasksKept DEF CommitManualReplan, CommitControl, CommitSetStatus
<1> QED
  BY <1>5, <1>6, <1>7, <1>8, <1>9, <1>10, <1>11, <1>12, <1>13 DEF Commits

\* A commit ends the transaction.
LEMMA CommitEnds ==
    ASSUME NEW a \in Actors, Commits(a)
    PROVE  hand' = [hand EXCEPT ![a] = Idle]
BY DEF Commits, CommitGenerate, CommitReview, CommitExecute, CommitRepair, FailHalfway,
   CommitTask, CommitWindow, CommitUpdate, CommitManualReplan, CommitControl, CommitSetStatus,
   Commit, CommitFailure, EndJob

\* With one transaction at a time it has read what is, state and tasks follow
\* the newest plan, and what is settled stays.
LEMMA FollowStep ==
    ASSUME SingleActor, IInv, FollowInv, DraftsFollow, [Next]_vars
    PROVE  FollowInv' /\ Settled
<1>0. DOMAIN hand = Actors /\ StateFollows /\ TasksFollow /\ HandsFresh
  BY DEF IInv, Hands, FollowInv
<1>1. ASSUME UNCHANGED Rows
      PROVE  /\ StateFollows' /\ TasksFollow' /\ Settled
             /\ \A x : Fresh(x)' <=> Fresh(x)
  BY <1>0, <1>1 DEF Rows, StateFollows, TasksFollow, Settled, Fresh, stateVars
<1>2. CASE UNCHANGED <<hand, Rows>>
  BY <1>0, <1>1, <1>2 DEF FollowInv, HandsFresh, Fresh, Rows, stateVars
<1>3. ASSUME NEW a \in Actors, NEW x, Opened(x), hand' = [hand EXCEPT ![a] = x], UNCHANGED Rows
      PROVE  FollowInv' /\ Settled
  <2>1. \A b \in Actors : hand'[b] = x
    BY <1>0, <1>3 DEF SingleActor
  <2>2. HandsFresh'
    BY <1>3, <2>1 DEF HandsFresh, Fresh, Opened, Rows, stateVars
  <2> QED
    BY <1>1, <1>3, <2>2 DEF FollowInv
<1>4. ASSUME NEW a \in Actors, ReadState(a)
      PROVE  FollowInv' /\ Settled
  <2>1. PICK x : x = [hand[a] EXCEPT !.seen = stateVars]
    OBVIOUS
  <2>2. hand[a] \in Transaction
    BY DEF IInv, Hands
  <2>3. /\ x.seen = stateVars
        /\ x.op = hand[a].op /\ x.to = hand[a].to /\ x.task = hand[a].task
        /\ x.plan = hand[a].plan
    BY <2>1, <2>2 DEF Transaction
  <2>4. UNCHANGED Rows /\ hand' = [hand EXCEPT ![a] = x]
    BY <1>4, <2>1 DEF ReadState, Rows
  <2>5. \A b \in Actors : hand'[b] = x
    BY <1>0, <2>4 DEF SingleActor
  <2>6. Fresh(hand[a])
    BY <1>0 DEF HandsFresh
  <2>7. HandsFresh'
    BY <2>3, <2>4, <2>5, <2>6 DEF HandsFresh, Fresh, Rows, stateVars
  <2> QED
    BY <1>1, <2>4, <2>7 DEF FollowInv
<1>5. ASSUME NEW a \in Actors, Commits(a)
      PROVE  FollowInv' /\ Settled
  <2>1. StateFollows' /\ TasksFollow' /\ Settled
    BY <1>5, StateCommit, TaskCommit
  <2>2. \A b \in Actors : hand'[b] = Idle
    BY <1>0, <1>5, CommitEnds DEF SingleActor
  <2>3. HandsFresh'
    BY <2>2 DEF HandsFresh, Fresh, Idle
  <2> QED
    BY <2>1, <2>3 DEF FollowInv
<1> QED
  BY <1>2, <1>3, <1>4, <1>5, AloneKinds

\* The first state has neither plans nor tasks nor transactions.
LEMMA FollowInit == Init => FollowInv
BY DEF Init, FollowInv, StateFollows, TasksFollow, HandsFresh, Fresh, Idle

\* The invariant of transactions that do not overlap.
LEMMA Followed ==
    ASSUME SingleActor
    PROVE  Spec => []FollowInv
<1>1. IInv /\ (OneActivePlan /\ DraftsFollow) /\ FollowInv /\ [Next]_vars => FollowInv'
  BY FollowStep
<1>2. Spec => [](OneActivePlan /\ DraftsFollow)
  BY SingleActorDrafts
<1> QED
  BY <1>1, <1>2, FollowInit, Typed, PTL DEF Spec

\* With transactions that do not overlap the autonomy state points to the newest
\* plan, and it has ended exactly when the goal has (_sync_goal_state,
\* _sync_goal_autonomy_status).
THEOREM SingleActorStateFollows ==
    ASSUME SingleActor
    PROVE  Spec => []StateFollows
<1>1. FollowInv => StateFollows
  BY DEF FollowInv
<1> QED
  BY <1>1, Followed, PTL

\* With transactions that do not overlap no task of a superseded plan stays
\* open, but for the reviews and repairs (bulk_mark_superseded).
THEOREM SingleActorTasksFollow ==
    ASSUME SingleActor
    PROVE  Spec => []OpenTasksFollowThePlan
<1>1. IInv /\ NewestPlanIsActive /\ FollowInv => OpenTasksFollowThePlan
  <2> SUFFICES ASSUME IInv, NewestPlanIsActive, FollowInv, NEW t \in DOMAIN tasks,
                      tasks[t].kind # "derived", tasks[t].status \in Open
               PROVE  plans[tasks[t].plan].status = "active"
    BY DEF OpenTasksFollowThePlan
  <2>1. Len(plans) \in 1 .. Len(plans) /\ tasks[t].plan = Len(plans)
    BY DEF FollowInv, TasksFollow
  <2>2. plans # <<>>
    BY <2>1
  <2> QED
    BY <2>1, <2>2 DEF NewestPlanIsActive
<1> QED
  BY <1>1, Followed, Typed, NewestPlanActive, PTL

\* With transactions that do not overlap the outcome of a task is final, but for
\* a milestone that its repair supersedes.
THEOREM SingleActorTasksSettle ==
    ASSUME SingleActor
    PROVE  Spec => SettledTasksStaySettled
<1>1. IInv /\ (OneActivePlan /\ DraftsFollow) /\ FollowInv /\ [Next]_vars => [Settled]_vars
  BY FollowStep
<1>2. Spec => [](OneActivePlan /\ DraftsFollow)
  BY SingleActorDrafts
<1>3. Spec => [][Settled]_vars
  BY <1>1, <1>2, Followed, Typed, PTL DEF Spec
<1> QED
  BY <1>3 DEF SettledTasksStaySettled, Settled
=============================================================================
