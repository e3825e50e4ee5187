----------------------------- MODULE Reflections -----------------------------
(***************************************************************************)
(* What the failures of a goal teach: reflection records and their         *)
(* aggregation, the action a record proposes, the evaluation of its        *)
(* outcome and the feedback of that, the strategy cards and insights       *)
(* gained, and the decisions of an operator.                               *)
(*                                                                         *)
(* `Begin` is what a transaction looks up for its first step: the row to   *)
(* change and the active card.  A call of the LLM or the wait for another  *)
(* transaction's lock may follow.  `Commit` is that step, which writes     *)
(* whole rows over what they have become, and the rest of the transaction, *)
(* whose steps read the rows as they are.                                  *)
(***************************************************************************)
EXTENDS FiniteSets, Naturals, Sequences

CONSTANTS Tasks,          \* tasks about one topic
          Repairs,        \* those that partial replans create
          Assessments,    \* those that are assessments
          Earlier,        \* number of tasks completed before that were none
          Outcomes,       \* how tasks end
          FullReplans,    \* jobs that replan the goal and create no task
          Causes,         \* verdicts on what did not fail in a workflow
          Resolutions,    \* statuses by which the operator resolves
          Actors,         \* transactions that may overlap
          PeriodicDays,   \* days with a periodic reflection
          MaxFailedRuns, MaxDecisions, LastDay  \* bounds

Statuses == {"pending", "completed", "actioned", "needs_review", "failed"}

ASSUME ReflectionsAssumption ==
    /\ Repairs \cup Assessments \subseteq Tasks
    /\ {"none", "earlier"} \cap Tasks = {} /\ FullReplans \cap Tasks = {}
    /\ "completed" \in Outcomes /\ Outcomes \subseteq {"completed", "failed", "skipped"}
    /\ Causes # {} /\ "workflow_issue" \notin Causes
    /\ Resolutions \subseteq Statuses /\ PeriodicDays \subseteq Nat
    /\ {Earlier, MaxFailedRuns, MaxDecisions, LastDay} \subseteq Nat

VARIABLES records,      \* rows in the order of their creation
          actions,      \* status of the action of each record
          evaluations,  \* status of the evaluation of each record
          cards, insights,
          attempts,     \* [task, outcome], oldest first
          replans,      \* jobs done
          day,
          clock,        \* transactions so far, by which rows are dated
          hands,
          decisions,    \* number of requests of the operator
          occurrences,  \* history: number of occurrences reflected on
          resolved,     \* history: records the operator resolved
          stale         \* history: records overwritten by an older copy

tables == <<records, actions, evaluations, cards, insights>>
external == <<day, attempts, replans>>
history == <<occurrences, resolved, stale>>
reflectionVars == <<tables, external, clock, hands, decisions, history>>

-----------------------------------------------------------------------------
(* The rows. *)

Unsuccessful == {"failed", "skipped"}

\* what a trigger is about: the task or "none", the verdict and the dedupe key
Occurrence(kind, task, cause, key) ==
    [kind |-> kind, task |-> task, cause |-> cause, key |-> key]

Topic(o) == IF o.task = "none" THEN "general" ELSE "topic"

\* aggregation_key
Group(o) == IF o.kind = "workflow" THEN <<"workflow">> ELSE <<o.kind, Topic(o), o.cause>>

\* memory_key of an insight
Theme(o) == <<o.cause, Topic(o)>>

Cooldown(o) == IF o.kind = "goal" THEN 3 ELSE 1

\* every other cause has an action of low risk
ApprovalRequired(o) == o.cause = "workflow_issue"

\* the row of S written last, or 0
Latest(rows, S) ==
    IF S = {} THEN 0
    ELSE CHOOSE i \in S : \A j \in S :
             rows[j].at < rows[i].at \/ (rows[j].at = rows[i].at /\ j <= i)

\* the record that takes another occurrence, or 0
OpenRecord(rows, o) ==
    LET i == Latest(rows, {j \in DOMAIN rows : Group(rows[j]) = Group(o)})
    IN  IF i # 0 /\ rows[i].until > day THEN i ELSE 0

\* the active cards of the highest version: any of them is read as the active one
ActiveCards(rows) ==
    LET active == {i \in DOMAIN rows : rows[i].status = "active"}
    IN  {i \in active : \A j \in active : rows[j].version <= rows[i].version}

\* _build_verdict: any of the scores may be the highest
PrimaryVerdicts(workflowFailed) == IF workflowFailed THEN {"workflow_issue"} ELSE Causes

Known(rows, key) == \E i \in DOMAIN rows : rows[i].key = key

-----------------------------------------------------------------------------
(* Steps of a transaction: v is the tables as it leaves them, `seen` what   *)
(* the step has read, a row with its index, or 0, and the active card.      *)

NoRow == [row |-> 0, copy |-> [status |-> "none"]]
RowOf(rows, i) == IF i = 0 THEN NoRow ELSE [row |-> i, copy |-> rows[i]]

\* Mutant of Refresh: the new card has the version of the old one.
RefreshInPlace(rows, card) ==
    IF card = 0 THEN Append(rows, [version |-> 1, status |-> "active"])
    ELSE Append([rows EXCEPT ![card].status = "superseded"],
                [version |-> rows[card].version, status |-> "active"])

Refresh(rows, card) ==
    IF card = 0 THEN Append(rows, [version |-> 1, status |-> "active"])
    ELSE Append([rows EXCEPT ![card].status = "superseded"],
                [version |-> rows[card].version + 1, status |-> "active"])

\* cards of one version are alike
CardOf(rows) == IF ActiveCards(rows) = {} THEN 0 ELSE CHOOSE c \in ActiveCards(rows) : TRUE

Insight(theme) == [theme |-> theme, status |-> "candidate", at |-> clock]

\* a candidate has one piece of evidence, so that the next suffices
Promote(rows, theme, effective) ==
    LET i == Latest(rows, {j \in DOMAIN rows : rows[j].theme = theme})
        next(status) == IF effective THEN "active"
                        ELSE IF status = "active" THEN "archived" ELSE status
    IN  IF i = 0 THEN Append(rows, Insight(theme))
        ELSE [rows EXCEPT ![i].status = next(@), ![i].at = clock]

\* a record that needs no review teaches at once
Learn(v, o, card) ==
    [v EXCEPT !.cards = Refresh(@, card), !.insights = Append(@, Insight(Theme(o)))]

\* _execute_action: blocked, or a job made of it
Executed(o) == IF ApprovalRequired(o) THEN "blocked" ELSE "executed"

FinalStatus(o) == IF Executed(o) = "blocked" THEN "needs_review" ELSE "actioned"

CreateRecord(v, o, card) ==
    LET record == [kind |-> o.kind, task |-> o.task, cause |-> o.cause, key |-> o.key,
                   status |-> FinalStatus(o), count |-> 0,
                   until |-> day + Cooldown(o), at |-> clock]
        added == [v EXCEPT !.records = Append(@, record),
                           !.actions = Append(@, Executed(o)),
                           !.evaluations = Append(@, "pending")]
    IN  IF FinalStatus(o) = "needs_review" THEN added ELSE Learn(added, o, card)

\* Mutant of Aggregate: a duplicate only keeps the record open.
Prolong(v, seen) ==
    [v EXCEPT !.records[seen.row] =
        [seen.copy EXCEPT !.until = day + Cooldown(seen.copy), !.at = clock]]

Aggregate(v, seen) ==
    [v EXCEPT !.records[seen.row] =
        [seen.copy EXCEPT !.count = @ + 1, !.until = day + Cooldown(seen.copy), !.at = clock]]

Trigger(v, o, seen, card) == IF seen.row # 0 THEN Aggregate(v, seen) ELSE CreateRecord(v, o, card)

\* a later trigger of the transaction: trigger_reflection and all it reads
TriggerNext(v, o) ==
    IF Known(v.records, o.key) THEN v
    ELSE Trigger(v, o, RowOf(v.records, OpenRecord(v.records, o)), CardOf(v.cards))

EndedAs(how, tried) == Cardinality({i \in DOMAIN tried : tried[i].outcome \in how})

\* the last three attempts
Recent(tried) == SubSeq(tried, IF Len(tried) > 3 THEN Len(tried) - 2 ELSE 1, Len(tried))

Verdict(tried) ==
    IF Len(tried) < 3 THEN "inconclusive"
    ELSE IF EndedAs({"completed"}, tried) >= 2 THEN "effective" ELSE "ineffective"

\* Mutant of Feedback: a record that is actioned stays so.
FeedbackOnInsights(v, seen, verdict) ==
    LET rated == [v EXCEPT !.evaluations[seen.row] = verdict]
        effective == verdict = "effective"
    IN  IF verdict = "inconclusive" THEN rated
        ELSE [rated EXCEPT !.records[seen.row] = [seen.copy EXCEPT !.at = clock],
                           !.cards = IF effective THEN Refresh(@, CardOf(@)) ELSE @,
                           !.insights = Promote(@, Theme(seen.copy), effective)]

\* evaluate and apply_outcome_feedback
Feedback(v, seen, verdict) ==
    LET rated == [v EXCEPT !.evaluations[seen.row] = verdict]
        theme == Theme(seen.copy)
        dated == [seen.copy EXCEPT !.at = clock]
    IN  CASE verdict = "inconclusive" -> rated
          [] verdict = "effective" ->
                [rated EXCEPT !.records[seen.row] = dated,
                              !.cards = Refresh(@, CardOf(@)),
                              !.insights = Promote(@, theme, TRUE)]
          [] verdict = "ineffective" ->
                [rated EXCEPT !.records[seen.row] = [dated EXCEPT !.status = "needs_review"],
                              !.insights = Promote(@, theme, FALSE)]

-----------------------------------------------------------------------------
(* Requests, and what their transactions do. *)

\* _has_consecutive_topic_failures
Consecutive(tried) == EndedAs(Unsuccessful, Recent(tried)) >= 2

\* the triggers of a request, in their order
Triggers(r, tried) ==
    CASE r.op = "run" -> <<Occurrence("workflow", "none", r.cause, <<"run", r.number>>)>>
      [] r.op = "periodic" -> <<Occurrence("goal", "none", r.cause, <<"day", r.number>>)>>
      [] r.op = "replan" -> <<Occurrence("goal", IF r.job \in Repairs THEN r.job ELSE "none",
                                         r.cause, <<"replan", r.job>>)>>
      [] r.op = "update" ->
            LET task == Occurrence("task", r.task, r.cause, <<"task", r.task, r.outcome>>)
                goal == Occurrence("goal", r.task, r.cause, <<"goal", r.task, r.outcome>>)
            IN  IF r.outcome \in Unsuccessful
                THEN IF Consecutive(tried) THEN <<task, goal>> ELSE <<task>>
                ELSE IF r.task \in Assessments THEN <<task, goal>> ELSE <<>>
      [] OTHER -> <<>>

\* the attempts once the request has recorded its own
Tried(r) == IF r.op = "update" THEN Append(attempts, [task |-> r.task, outcome |-> r.outcome])
            ELSE attempts

\* the records of the updated task
Own(r, rows) == {i \in DOMAIN rows : r.op = "update" /\ rows[i].task = r.task}

\* the newest of the rows of S, or 0
Newest(S) == IF S = {} THEN 0 ELSE CHOOSE i \in S : \A j \in S : j <= i

\* the row that the first step changes
Target(r) ==
    LET triggers == Triggers(r, Tried(r))
    IN  IF r.op \in {"resolve", "override"} THEN r.row
        ELSE IF triggers # <<>> THEN OpenRecord(records, triggers[1])
        ELSE Newest(Own(r, records))

\* feedback on the records of the set own, newest first; the first step of a
\* transaction has read the row in `seen`, the others read the rows as they are
Evaluated(v, own, seen, verdict) ==
    LET last == Len(v.records)
        \* the tables after the n newest rows
        after[n \in 0..last] ==
            IF n = 0 THEN v
            ELSE LET i == last + 1 - n
                     now == after[n - 1]
                 IN  IF i \notin own THEN now
                     ELSE Feedback(now, IF i = seen.row THEN seen ELSE RowOf(now.records, i), verdict)
    IN  after[last]

\* the triggers of a transaction, at most two; the first has looked up its rows
Triggered(v, triggers, seen, card) ==
    LET first == Trigger(v, triggers[1], seen, card)
    IN  IF Len(triggers) = 1 THEN first ELSE TriggerNext(first, triggers[2])

\* all steps of the transaction; override_root_cause writes the row with
\* another cause, which the repository does not write
Process(h, now) ==
    LET r == h.request
        tried == Tried(r)
        triggers == Triggers(r, tried)
        triggered == Triggered(now, triggers, h.seen, h.card)
        verdict == Verdict(Recent(tried))
    IN  CASE r.op = "resolve" ->
                [now EXCEPT !.records[r.row] = [h.seen.copy EXCEPT !.status = r.status, !.at = clock]]
          [] r.op = "override" -> [now EXCEPT !.records[r.row] = h.seen.copy]
          [] OTHER -> IF triggers = <<>> THEN Evaluated(now, Own(r, now.records), h.seen, verdict)
                      ELSE Evaluated(triggered, Own(r, triggered.records), NoRow, verdict)

\* the occurrences of a request that are new when they are looked up
Reflected(r) ==
    LET triggers == Triggers(r, Tried(r))
    IN  IF triggers = <<>> THEN 0
        ELSE IF Len(triggers) = 1 \/ Known(records, triggers[2].key) THEN 1 ELSE 2

-----------------------------------------------------------------------------
(* Transactions. *)

Idle == [request |-> [op |-> "none"], seen |-> NoRow, card |-> 0]
Open(r) == \E a \in Actors : hands[a].request = r

Begin(r) ==
    LET newest == ActiveCards(cards)
    IN  \E a \in Actors, c \in IF newest = {} THEN {0} ELSE newest :
            /\ hands[a] = Idle
            /\ hands' = [hands EXCEPT ![a] =
                  [request |-> r, seen |-> RowOf(records, Target(r)), card |-> c]]
            /\ UNCHANGED <<tables, external, clock, history>>

\* a task that is pending, once a repair has been made; two updates of one
\* task at a time are left to GoalPlanning
UpdateTask(t, outcome, cause) ==
    /\ \A i \in DOMAIN attempts : attempts[i].task # t
    /\ \A a \in Actors : hands[a].request.op = "update" => hands[a].request.task # t
    /\ t \in Repairs => t \in replans
    /\ Begin([op |-> "update", task |-> t, outcome |-> outcome, cause |-> cause])
    /\ UNCHANGED decisions

Replan(job, cause) ==
    LET r == [op |-> "replan", job |-> job, cause |-> cause]
    IN  /\ job \notin replans /\ ~Open(r)
        /\ Begin(r)
        /\ UNCHANGED decisions

\* by its job or by request, once a day
Periodic(cause) ==
    /\ day \in PeriodicDays /\ ~Known(records, <<"day", day>>)
    /\ Begin([op |-> "periodic", number |-> day, cause |-> cause])
    /\ UNCHANGED decisions

\* a plan's generation has failed in a job
FailRun(n, cause) ==
    LET r == [op |-> "run", number |-> n, cause |-> cause]
    IN  /\ ~Known(records, <<"run", n>>) /\ ~Open(r)
        /\ Begin(r)
        /\ UNCHANGED decisions

Operate(i, r) ==
    /\ i \in DOMAIN records /\ decisions < MaxDecisions
    /\ Begin(r)
    /\ decisions' = decisions + 1

Resolve(i, status) == Operate(i, [op |-> "resolve", row |-> i, status |-> status])
OverrideRootCause(i) == Operate(i, [op |-> "override", row |-> i])

\* the repository writes neither type nor payload of the action
OverrideAction(i) ==
    /\ i \in DOMAIN actions /\ decisions < MaxDecisions
    /\ actions' = [actions EXCEPT ![i] = "proposed"]
    /\ decisions' = decisions + 1
    /\ UNCHANGED <<records, evaluations, cards, insights, external, clock, hands, history>>

\* the insert of a dedupe key in use fails
Commit(a) ==
    LET h == hands[a]
        r == h.request
        now == [records |-> records, actions |-> actions, evaluations |-> evaluations,
                cards |-> cards, insights |-> insights]
        after == Process(h, now)
        triggers == Triggers(r, Tried(r))
    IN  /\ h # Idle
        /\ triggers # <<>> /\ h.seen.row = 0 => ~Known(records, triggers[1].key)
        /\ records' = after.records
        /\ actions' = after.actions
        /\ evaluations' = after.evaluations
        /\ cards' = after.cards
        /\ insights' = after.insights
        /\ attempts' = Tried(r)
        /\ replans' = IF r.op = "replan" THEN replans \cup {r.job} ELSE replans
        /\ hands' = [hands EXCEPT ![a] = Idle]
        /\ clock' = clock + 1
        /\ occurrences' = occurrences + Reflected(r)
        /\ resolved' = IF r.op = "resolve" THEN resolved \cup {r.row} ELSE resolved
        /\ stale' = stale \cup {i \in {h.seen.row} \cap DOMAIN records :
                        h.seen.copy # records[i] /\ after.records[i] # records[i]}
        /\ UNCHANGED <<day, decisions>>

\* rolled back
Abort(a) ==
    /\ hands[a] # Idle
    /\ hands' = [hands EXCEPT ![a] = Idle]
    /\ UNCHANGED <<tables, external, clock, decisions, history>>

NextDay ==
    /\ day < LastDay
    /\ day' = day + 1
    /\ UNCHANGED <<tables, attempts, replans, clock, hands, decisions, history>>

ReflectionsInit ==
    /\ records = <<>> /\ actions = <<>> /\ evaluations = <<>>
    /\ cards = <<>> /\ insights = <<>>
    /\ attempts = [i \in 1..Earlier |-> [task |-> "earlier", outcome |-> "completed"]]
    /\ replans = {}
    /\ day = 0 /\ clock = 0
    /\ hands = [a \in Actors |-> Idle]
    /\ decisions = 0
    /\ occurrences = 0 /\ resolved = {} /\ stale = {}

ReflectionsNext ==
    \/ \E t \in Tasks, outcome \in Outcomes, cause \in PrimaryVerdicts(FALSE) :
           UpdateTask(t, outcome, cause)
    \/ \E job \in Repairs \cup FullReplans, cause \in PrimaryVerdicts(FALSE) : Replan(job, cause)
    \/ \E cause \in PrimaryVerdicts(FALSE) : Periodic(cause)
    \/ \E n \in 1..MaxFailedRuns, cause \in PrimaryVerdicts(TRUE) : FailRun(n, cause)
    \/ \E i \in DOMAIN records : \/ \E status \in Resolutions : Resolve(i, status)
                                \/ OverrideRootCause(i)
                                \/ OverrideAction(i)
    \/ \E a \in Actors : Commit(a) \/ Abort(a)
    \/ NextDay

ReflectionsSpec == ReflectionsInit /\ [][ReflectionsNext]_reflectionVars

-----------------------------------------------------------------------------
(* Properties. *)

\* Every row and every request has its shape.
DedupeKeys ==
    ({"run", "day"} \X Nat) \cup ({"replan"} \X (Repairs \cup FullReplans))
        \cup ({"task", "goal"} \X Tasks \X Outcomes)
Record == [kind: {"task", "goal", "workflow"}, task: Tasks \cup {"none"},
           cause: Causes \cup {"workflow_issue"}, key: DedupeKeys, status: Statuses,
           count: Nat, until: Nat, at: Nat]
Card == [version: Nat, status: {"active", "superseded"}]
Themes == (Causes \cup {"workflow_issue"}) \X {"general", "topic"}
Attempt == [task: Tasks \cup {"earlier"}, outcome: Outcomes]
Tables == [records: Seq(Record), actions: Seq({"proposed", "executed", "blocked"}),
           evaluations: Seq({"pending", "effective", "ineffective", "inconclusive"}),
           cards: Seq(Card),
           insights: Seq([theme: Themes, status: {"candidate", "active", "archived"}, at: Nat])]
Updates == [op: {"update"}, task: Tasks, outcome: Outcomes, cause: Causes]
Replans == [op: {"replan"}, job: Repairs \cup FullReplans, cause: Causes]
Periodics == [op: {"periodic"}, number: Nat, cause: Causes]
FailedRuns == [op: {"run"}, number: Nat, cause: {"workflow_issue"}]
Resolves == [op: {"resolve"}, row: Nat, status: Resolutions]
Overrides == [op: {"override"}, row: Nat]
Hand ==
    [request: Updates \cup Replans \cup Periodics \cup FailedRuns \cup Resolves \cup Overrides,
     seen: [row: Nat, copy: Record] \cup {NoRow}, card: Nat]

ReflectionsTypeOK ==
    /\ [records |-> records, actions |-> actions, evaluations |-> evaluations,
        cards |-> cards, insights |-> insights] \in Tables
    /\ Len(actions) = Len(records) /\ Len(evaluations) = Len(records)
    /\ attempts \in Seq(Attempt) /\ replans \subseteq Repairs \cup FullReplans
    /\ day \in 0..LastDay /\ decisions \in 0..MaxDecisions
    /\ clock \in Nat /\ occurrences \in Nat
    /\ resolved \cup stale \subseteq DOMAIN records
    /\ hands \in [Actors -> Hand \cup {Idle}]

\* A blocked action and an outcome that did not improve wait for a review,
\* until the operator resolves it or an older copy of the row is written back.
ReviewIsDue ==
    \A i \in DOMAIN records \ (resolved \cup stale) :
        actions[i] = "blocked" \/ evaluations[i] = "ineffective" => records[i].status = "needs_review"

\* While no older copy is written back, each occurrence reflected on is a record
\* or counts once as the duplicate of one.
Counted(rows) ==
    LET sum[n \in 0..Len(rows)] == IF n = 0 THEN 0 ELSE sum[n - 1] + 1 + rows[n].count
    IN  sum[Len(rows)]
OccurrencesAreCounted == stale = {} => Counted(records) = occurrences

\* What does not improve waits for a review whatever overlaps.  It fails: an
\* aggregation or an override begun before writes back the status it has read.
ReviewIsNotLost ==
    \A i \in DOMAIN records \ resolved :
        evaluations[i] = "ineffective" => records[i].status = "needs_review"

\* However transactions overlap, the card of the highest version, which is the
\* one that chats and plans read, has not been superseded.
NewestCardIsActive ==
    \A i \in DOMAIN cards :
        (\A j \in DOMAIN cards : cards[j].version <= cards[i].version) => cards[i].status = "active"
=============================================================================
