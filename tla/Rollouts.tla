------------------------------- MODULE Rollouts -------------------------------
(***************************************************************************)
(* Evolution proposals of one goal for one surface: sandbox, approval,     *)
(* activation, observation, promotion and rollback, and the plans that are *)
(* built with the overlay of a rollout.                                    *)
(*                                                                         *)
(* A transaction reads what it decides on (`Begin`) and writes later       *)
(* (`Commit`), over whatever the rows have become.  update() takes a whole *)
(* entity, selects its row, and sets the columns in which the two differ:  *)
(* a column that the transaction did not mean to change is written back    *)
(* when its row was changed before that select, and is left alone when it  *)
(* was changed after it, while the update waited for the row's lock.       *)
(*                                                                         *)
(* The sandbox job holds that lock from its first flush to its commit and  *)
(* is one step, at its commit; an update may wait for it.                  *)
(***************************************************************************)
EXTENDS Naturals, FiniteSets

CONSTANTS Proposals,     \* their ids; a proposal's rollout has no name of its own
          Packages,      \* the proposals of type skill_package
          AutoAdmitted,  \* the proposals of low or medium risk
          Ready,         \* the proposals that are approved when the behaviour begins
          OnPlans,       \* TRUE when the surface is plan_generation
          Actors,        \* transactions that may be open while others run
          MaxRequests,   \* bound: requests of operators
          MaxOpen,       \* bound: transactions in whose course others are committed
          MaxFaults      \* bound: transactions lost and handlers that raise

NoOverlay == "no overlay"

ASSUME RolloutsAssumption ==
    /\ Packages \subseteq Proposals /\ AutoAdmitted \subseteq Proposals
    /\ Ready \subseteq Proposals
    /\ OnPlans \in BOOLEAN /\ MaxRequests \in Nat
    /\ MaxOpen \in Nat /\ MaxFaults \in Nat
    /\ NoOverlay \notin Proposals

VARIABLES proposals, evaluations, rollouts, bindings, observing, deciding,
          overlay,  \* the rollout the active plan was built with, or NoOverlay
          hands, requests, opened, faults,
          stale     \* history: a transaction wrote on rows it had read before

rows == <<proposals, evaluations, rollouts, bindings, observing, deciding,
          overlay>>
vars == <<rows, hands, requests, opened, faults, stale>>

-----------------------------------------------------------------------------
(* The rows. *)

\* `evaluation` is a column of the proposal, `assessment` the row of its
\* evaluation; `run` is how its latest sandbox run ended
Verdicts == {"effective", "ineffective", "inconclusive"}
Proposal == [status: {"none", "proposed", "sandbox_queued",
                      "sandbox_completed", "approved", "rejected"},
             evaluation: {"pending"} \cup Verdicts,
             assessment: {"none"} \cup Verdicts,
             run: {"none", "completed", "failed"}]

\* evaluation jobs by the last part of their key: auto_sandbox, sandbox
Keys == {"auto", "operator"}
JobState == {"none", "due", "settled"}

Recommendations == {"collecting", "promote", "rollback"}
Rollout == [status: {"none", "staged", "rolled_out", "rolled_back"},
            latest: {"none"} \cup Recommendations]

Absent == [status |-> "none", evaluation |-> "pending", assessment |-> "none",
           run |-> "none"]
Evaluated == [status |-> "approved", evaluation |-> "effective",
              assessment |-> "effective", run |-> "completed"]
NoRollout == [status |-> "none", latest |-> "none"]

Requests == {"enqueue", "approve", "reject", "review", "activate",
             "promote", "rollback"}
Sweeps == {"admit", "vet"}
Jobs == {"observe", "decide"}
Operations == Requests \cup Sweeps \cup Jobs
OnRollouts == {"promote", "rollback", "observe", "decide"}
Replanning == {"activate", "rollback", "decide"}

Overlays == Proposals \cup {NoOverlay}

\* what an open transaction has read: the two rows, whether the surface had no
\* rollout or binding in use, and the plan it replaces
Hand == [op: Operations, p: Proposals, proposal: Proposal, rollout: Rollout,
         clear: BOOLEAN, plan: Overlays]

\* an open generation of a plan: the overlay it found and the plan it replaces
Draft == [op: {"generate"}, found: Overlays, plan: Overlays]
Idle == [op |-> "none"]

TypeOK ==
    /\ proposals \in [Proposals -> Proposal]
    /\ evaluations \in [Proposals -> [Keys -> JobState]]
    /\ rollouts \in [Proposals -> Rollout]
    /\ bindings \in [Proposals -> {"none", "staged", "rolled_out", "rolled_back"}]
    /\ observing \subseteq Proposals /\ deciding \subseteq Proposals
    /\ overlay \in Overlays
    /\ hands \in [Actors -> Hand \cup Draft \cup {Idle}]
    /\ requests \in 0..MaxRequests /\ opened \in 0..MaxOpen /\ faults \in 0..MaxFaults
    /\ stale \in BOOLEAN

Init ==
    /\ proposals = [p \in Proposals |-> IF p \in Ready THEN Evaluated ELSE Absent]
    /\ evaluations = [p \in Proposals |-> [k \in Keys |->
                         IF p \in Ready /\ k = "auto" THEN "settled" ELSE "none"]]
    /\ rollouts = [p \in Proposals |-> NoRollout]
    /\ bindings = [p \in Proposals |-> "none"]
    /\ observing = {} /\ deciding = {} /\ overlay = NoOverlay
    /\ hands = [a \in Actors |-> Idle]
    /\ requests = 0 /\ opened = 0 /\ faults = 0
    /\ stale = FALSE

\* Mutant of Live: what was rolled back counts.
LiveOnceActivated(r) == r.status # "none"

Live(r) == r.status \in {"staged", "rolled_out"}

\* Mutant of SurfaceIsClear: what is rolled out is not looked for.
SurfaceHasNothingStaged == \A p \in Proposals : rollouts[p].status # "staged" /\ bindings[p] # "staged"

\* get_active_by_goal_and_surface of the rollouts and of the bindings
SurfaceIsClear ==
    \A p \in Proposals : ~Live(rollouts[p]) /\ bindings[p] \notin {"staged", "rolled_out"}

\* Mutant of Ensured: the job is not created.
NotEnsured(jobs, key) == jobs

\* create() returns the job that has the key, whatever its state
Ensured(jobs, key) == IF jobs[key] = "none" THEN [jobs EXCEPT ![key] = "due"] ELSE jobs

\* enqueue_sandbox; the run id it notes is the job's and names no sandbox run
Queued(row) ==
    [row EXCEPT !.status = "sandbox_queued", !.evaluation = "pending", !.run = "none"]

\* get_active_overlay: a rollout that is rolled out; which of several is left open
Resolved(r) ==
    LET out == {p \in Proposals : OnPlans /\ r[p].status = "rolled_out"}
    IN  IF out = {} THEN {NoOverlay} ELSE out

-----------------------------------------------------------------------------
(* A reflection proposes; what is not of high risk goes to the sandbox.     *)

\* _auto_admit_to_sandbox
Admitted(p) ==
    IF p \in AutoAdmitted
    THEN /\ proposals' = [proposals EXCEPT ![p] = Queued(@)]
         /\ evaluations' = [evaluations EXCEPT ![p] = Ensured(@, "auto")]
    ELSE /\ proposals' = [proposals EXCEPT ![p].status = "proposed"]
         /\ UNCHANGED evaluations

Propose(p) ==
    /\ proposals[p] = Absent
    /\ Admitted(p)
    /\ UNCHANGED <<rollouts, bindings, observing, deciding, overlay, hands, requests,
                   opened, faults, stale>>

-----------------------------------------------------------------------------
(* The evaluation job.                                                      *)

\* mark_sandbox_queued and mark_sandbox_started refuse decided proposals
MayRun(p) == proposals[p].status \notin {"approved", "rejected"}

\* the replay's verdict, and the proposal's: with fewer than two samples an
\* effective proposal is called inconclusive
VerdictPairs == {<<v, v>> : v \in Verdicts} \cup {<<"effective", "inconclusive">>}

\* execute(): a raising evaluation puts the proposal back, and the failure of
\* the job commits that
Outcome(p) ==
    \/ \E v \in VerdictPairs :
          proposals' = [proposals EXCEPT ![p].status = "sandbox_completed",
              ![p].assessment = v[1], ![p].evaluation = v[2], ![p].run = "completed"]
    \/ proposals' = [proposals EXCEPT ![p].status = "proposed",
              ![p].evaluation = "pending", ![p].run = "failed"]

\* the handler commits before its job is completed: a fault in between leaves
\* the job to be run again
Evaluate(p, key) ==
    /\ evaluations[p][key] = "due"
    /\ IF MayRun(p) THEN Outcome(p) ELSE UNCHANGED proposals
    /\ \/ /\ evaluations' = [evaluations EXCEPT ![p][key] = "settled"]
          /\ UNCHANGED faults
       \/ /\ MayRun(p) /\ faults < MaxFaults
          /\ faults' = faults + 1
          /\ UNCHANGED evaluations
    /\ UNCHANGED <<rollouts, bindings, observing, deciding, overlay, hands, requests,
                   opened, stale>>

-----------------------------------------------------------------------------
(* Transactions begin by reading.                                           *)

\* what an operation on proposals, and one on rollouts, reads
Hold(op, p) ==
    [op |-> op, p |-> p, clear |-> op = "activate" /\ SurfaceIsClear,
     proposal |-> IF op \in OnRollouts THEN Absent ELSE proposals[p],
     rollout |-> IF op \in OnRollouts THEN rollouts[p] ELSE NoRollout,
     plan |-> IF op \in Replanning THEN overlay ELSE NoOverlay]

\* auto-staging goes by the evaluation's row, not by the proposal's column: it
\* approves what is effective there and rejects the rest
Validated(row) == row.assessment = "effective"

\* Mutant of Reviewable: an approved proposal takes another verdict.
AlwaysReviewable(row) == TRUE

\* with_status() refuses "approved" for what is approved
Reviewable(row) == row.status # "approved"

\* what the entities and services check of what was read; a request they refuse
\* changes nothing
Granted(h) ==
    CASE h.op = "enqueue"  -> h.proposal.status = "proposed"
      [] h.op = "approve"  -> /\ h.proposal.status = "sandbox_completed"
                              /\ h.proposal.evaluation # "ineffective"
      [] h.op = "reject"   -> h.proposal.status # "rejected"
      [] h.op = "review"   -> Reviewable(h.proposal)
      [] h.op = "activate" -> h.proposal.status = "approved" /\ h.clear
      [] h.op \in {"promote", "rollback"} -> Live(h.rollout)
      [] h.op = "admit"    -> h.proposal.status = "proposed"
      [] h.op = "vet"      -> /\ h.proposal.status = "sandbox_completed"
                              /\ Validated(h.proposal) => h.proposal.evaluation # "ineffective"
      [] h.op = "observe"  -> TRUE
      [] h.op = "decide"   -> /\ h.rollout.status = "staged"
                              /\ h.rollout.latest \in {"promote", "rollback"}

\* requests of the API; the evolution curator's sweep over packages; a runner's
\* observation and decision jobs
Arrives(op, p) ==
    /\ proposals[p] # Absent
    /\ op \in Requests => requests < MaxRequests
    /\ op \in Sweeps => p \in Packages \cap AutoAdmitted
    /\ op = "observe" => p \in observing
    /\ op = "decide" => p \in deciding
    /\ Granted(Hold(op, p))

Counted(op) == IF op \in Requests THEN requests + 1 ELSE requests

\* others may be committed until it ends
Opens(a, h) ==
    /\ hands[a] = Idle /\ opened < MaxOpen
    /\ hands' = [hands EXCEPT ![a] = h]
    /\ opened' = opened + 1

Begin(a, op, p) ==
    /\ Opens(a, Hold(op, p))
    /\ Arrives(op, p)
    /\ requests' = Counted(op)
    /\ UNCHANGED <<rows, faults, stale>>

\* a decision job that leaves the rollout as it is
NoDecision(p) ==
    /\ p \in deciding
    /\ ~Granted(Hold("decide", p))
    /\ deciding' = deciding \ {p}
    /\ UNCHANGED <<proposals, evaluations, rollouts, bindings, observing, overlay, hands,
                   requests, opened, faults, stale>>

\* use of the surface schedules an observation of the rollout in use
Use(p) ==
    /\ Live(rollouts[p])
    /\ observing' = observing \cup {p}
    /\ UNCHANGED <<proposals, evaluations, rollouts, bindings, deciding, overlay, hands,
                   requests, opened, faults, stale>>

-----------------------------------------------------------------------------
(* Plans.                                                                   *)

\* the plan that was read is superseded; when another plan took its place since,
\* two are active with versions that may be equal, and either is the one in use
Replanned(read, built) ==
    overlay' \in IF overlay = read THEN {built} ELSE {built, overlay}

\* generate_plan() schedules an observation of a rollout in use
Generated(read, built) ==
    /\ Replanned(read, built)
    /\ LET live == {p \in Proposals : Live(rollouts[p])}
       IN  IF live = {} THEN UNCHANGED observing
           ELSE \E p \in live : observing' = observing \cup {p}
    /\ UNCHANGED <<proposals, evaluations, rollouts, bindings, deciding>>

\* the planner looks for an overlay before the draft is asked of the LLM
BeginPlan(a) ==
    /\ OnPlans
    /\ \E o \in Resolved(rollouts) :
          Opens(a, [op |-> "generate", found |-> o, plan |-> overlay])
    /\ UNCHANGED <<rows, requests, faults, stale>>

CommitPlan(a) ==
    /\ hands[a].op = "generate"
    /\ Generated(hands[a].plan, hands[a].found)
    /\ hands' = [hands EXCEPT ![a] = Idle]
    /\ UNCHANGED <<requests, opened, faults, stale>>

\* a plan in whose generation nothing else is committed
Plan ==
    /\ OnPlans
    /\ \E o \in Resolved(rollouts) : Generated(overlay, o)
    /\ UNCHANGED <<hands, requests, opened, faults, stale>>

-----------------------------------------------------------------------------
(* Commits about proposals.  `h` is the transaction's hand.                 *)

Column(selected, written, now) == IF written = selected THEN now ELSE written

\* what update() makes of the row of a proposal.  Its select finds what the
\* transaction had read, or what the row is now
Updated(h, row) ==
    {[proposals[h.p] EXCEPT !.status = Column(selected.status, row.status, @),
                            !.evaluation = Column(selected.evaluation, row.evaluation, @),
                            !.run = Column(selected.run, row.run, @)] :
        selected \in {h.proposal, proposals[h.p]}}

WriteProposal(p, row) ==
    /\ proposals' = [proposals EXCEPT ![p] = row]
    /\ UNCHANGED <<rollouts, bindings, observing, deciding, overlay>>

\* the id of the run is a new one
Enqueue(h, key) ==
    /\ \E row \in Updated(h, Queued(h.proposal)) :
          WriteProposal(h.p, [row EXCEPT !.run = "none"])
    /\ evaluations' = [evaluations EXCEPT ![h.p] = Ensured(@, key)]

Approve(h) ==
    /\ \E row \in Updated(h, [h.proposal EXCEPT !.status = "approved"]) :
          WriteProposal(h.p, row)
    /\ UNCHANGED evaluations

Rejected(row) ==
    [row EXCEPT !.status = "rejected",
                !.evaluation = IF @ = "pending" THEN "ineffective" ELSE @]

Reject(h) ==
    /\ \E row \in Updated(h, Rejected(h.proposal)) : WriteProposal(h.p, row)
    /\ UNCHANGED evaluations

\* the feedback on a reflection's outcome replays the proposal and reviews it
\* with the verdict; an operator's review writes back what it read
Review(h) ==
    /\ \/ \E v \in Verdicts : \E row \in Updated(h, [h.proposal EXCEPT !.evaluation = v]) :
             WriteProposal(h.p, [row EXCEPT !.assessment = v])
       \/ \E row \in Updated(h, h.proposal) : WriteProposal(h.p, row)
    /\ UNCHANGED evaluations

\* the curator rejects a package whose last sandbox run failed, and enqueues
\* the others
Admit(h) ==
    IF h.proposal.run = "failed" THEN Reject(h) ELSE Enqueue(h, "auto")

Vet(h) == IF Validated(h.proposal) THEN Approve(h) ELSE Reject(h)

-----------------------------------------------------------------------------
(* Commits about rollouts.                                                  *)

Activate(h) ==
    /\ rollouts' = [rollouts EXCEPT ![h.p] = [status |-> "staged", latest |-> "none"]]
    /\ IF OnPlans THEN Replanned(h.plan, h.p) ELSE UNCHANGED overlay
    /\ bindings' = IF h.p \in Packages THEN [bindings EXCEPT ![h.p] = "staged"] ELSE bindings
    /\ observing' = observing \cup {h.p}
    /\ UNCHANGED <<proposals, evaluations, deciding>>

\* Mutant of Rebound: the binding keeps its status.
NotRebound(p, status) == bindings

\* the binding of a rollout is read again and takes any status
Rebound(p, status) ==
    IF bindings[p] = "none" THEN bindings ELSE [bindings EXCEPT ![p] = status]

\* what update() makes of the row of a rollout, as of that of a proposal
Rewritten(h, status) ==
    {[status |-> Column(selected.status, status, rollouts[h.p].status),
      latest |-> Column(selected.latest, h.rollout.latest, rollouts[h.p].latest)] :
        selected \in {h.rollout, rollouts[h.p]}}

\* the rollout, and the binding of the rollout, get a status
Move(h, status) ==
    /\ \E row \in Rewritten(h, status) : rollouts' = [rollouts EXCEPT ![h.p] = row]
    /\ bindings' = Rebound(h.p, status)
    /\ UNCHANGED <<proposals, evaluations, observing>>

Promote(h) == Move(h, "rolled_out") /\ UNCHANGED overlay

\* Mutant of Rollback: no new plan is built.
RollbackKeepsPlan(h) == Move(h, "rolled_back") /\ UNCHANGED overlay

\* the plans' surface gets a new plan, without the overlay of this rollout: the
\* planner looks for one that is rolled out
Rollback(h) ==
    /\ Move(h, "rolled_back")
    /\ IF OnPlans THEN \E o \in Resolved(rollouts') : Replanned(h.plan, o)
                  ELSE UNCHANGED overlay

\* Mutant of DecisionDue: no decision is scheduled.
NoDecisionDue(h) == deciding

\* schedule_rollout_decision, on the row that observe() has just written
DecisionDue(h) ==
    IF rollouts'[h.p].status = "staged" THEN deciding \cup {h.p} ELSE deciding

\* observe() writes the rollout back with the status it read and a new
\* observation, and schedules a decision while that is staged
Observe(h) ==
    /\ \E row \in Rewritten(h, h.rollout.status), r \in Recommendations :
          rollouts' = [rollouts EXCEPT ![h.p] = [row EXCEPT !.latest = r]]
    /\ observing' = observing \ {h.p}
    /\ deciding' = DecisionDue(h)
    /\ UNCHANGED <<proposals, evaluations, bindings, overlay>>

\* the governor follows the latest observation
Decide(h) ==
    /\ IF h.rollout.latest = "promote" THEN Promote(h) ELSE Rollback(h)
    /\ deciding' = deciding \ {h.p}

\* building the plan raises after the rollout and its binding were flushed;
\* the failure of the job commits them
DecideHalfway(h) ==
    /\ OnPlans /\ h.rollout.latest = "rollback"
    /\ Move(h, "rolled_back")
    /\ deciding' = deciding \ {h.p}
    /\ UNCHANGED overlay

-----------------------------------------------------------------------------
(* Transactions end.                                                        *)

Effect(h) ==
    CASE h.op = "enqueue"  -> Enqueue(h, "operator")
      [] h.op = "admit"    -> Admit(h)
      [] h.op = "approve"  -> Approve(h)
      [] h.op = "vet"      -> Vet(h)
      [] h.op = "reject"   -> Reject(h)
      [] h.op = "review"   -> Review(h)
      [] h.op = "activate" -> Activate(h)
      [] h.op = "promote"  -> Promote(h) /\ UNCHANGED deciding
      [] h.op = "rollback" -> Rollback(h) /\ UNCHANGED deciding
      [] h.op = "observe"  -> Observe(h)
      [] h.op = "decide"   -> Decide(h)

\* what the transaction read is what its rows still are
Fresh(h) == h = [Hold(h.op, h.p) EXCEPT !.plan = h.plan]

\* a proposal has one rollout: the insert of another is refused by the column
Insertable(h) == h.op = "activate" => rollouts[h.p] = NoRollout

\* a transaction in whose course nothing else is committed
Undisturbed(op, p) ==
    /\ Arrives(op, p) /\ Insertable(Hold(op, p))
    /\ Effect(Hold(op, p))
    /\ requests' = Counted(op)
    /\ UNCHANGED <<hands, opened, faults, stale>>

Commit(a) ==
    /\ hands[a].op \in Operations
    /\ IF Insertable(hands[a])
       THEN /\ Effect(hands[a])
            /\ stale' = (stale \/ ~Fresh(hands[a]))
       ELSE UNCHANGED <<rows, stale>>
    /\ hands' = [hands EXCEPT ![a] = Idle]
    /\ UNCHANGED <<requests, opened, faults>>

CommitHalfway(a) ==
    /\ hands[a].op = "decide"
    /\ faults < MaxFaults
    /\ DecideHalfway(hands[a])
    /\ hands' = [hands EXCEPT ![a] = Idle]
    /\ stale' = (stale \/ ~Fresh(hands[a]))
    /\ faults' = faults + 1
    /\ UNCHANGED <<requests, opened>>

\* the process dies or the connection is lost: a job stays to be claimed again
Lose(a) ==
    /\ hands[a] # Idle
    /\ faults < MaxFaults
    /\ hands' = [hands EXCEPT ![a] = Idle]
    /\ faults' = faults + 1
    /\ UNCHANGED <<rows, requests, opened, stale>>

Next ==
    \/ \E p \in Proposals :
          \/ Propose(p)
          \/ Use(p)
          \/ NoDecision(p)
          \/ \E k \in Keys : Evaluate(p, k)
          \/ \E op \in Operations : Undisturbed(op, p) \/ \E a \in Actors : Begin(a, op, p)
    \/ Plan
    \/ \E a \in Actors : BeginPlan(a) \/ CommitPlan(a) \/ Commit(a) \/ CommitHalfway(a) \/ Lose(a)

Spec == Init /\ [][Next]_vars

\* the worker's loop takes due evaluations and each due decision, and what is open
\* ends; requests are not fair
FairSpec ==
    /\ Spec
    /\ WF_vars(\E p \in Proposals, k \in Keys : Evaluate(p, k))
    /\ \A p \in Proposals : WF_vars(NoDecision(p) \/ Undisturbed("decide", p))
    /\ WF_vars(\E a \in Actors : Commit(a) \/ CommitPlan(a))

-----------------------------------------------------------------------------
(* Properties.  `stale` marks behaviours in which some transaction wrote    *)
(* over rows that were changed after it had read them; what such a write    *)
(* itself may do is told by the action properties.                          *)

\* Without such a write a surface has at most one rollout in use.
OneActiveRollout ==
    ~stale => Cardinality({p \in Proposals : Live(rollouts[p])}) <= 1

\* Without such a write the binding of a package says what its rollout says,
\* whoever moved the rollout, and also when a rollback raised halfway.
BindingFollowsRollout ==
    ~stale => \A p \in Packages : bindings[p] = rollouts[p].status

\* the transaction of an actor ends in this step
Ends(a) == hands[a] # Idle /\ hands'[a] = Idle

Outdated(a) == hands[a].op \in Operations /\ ~Fresh(hands[a])

Misjudged(p) ==
    /\ proposals[p].status = "approved"
    /\ \/ proposals[p].evaluation \notin {"effective", "inconclusive"}
       \/ proposals[p].run # "completed"

\* A proposal becomes one that is approved though its latest sandbox run or review
\* found it ineffective or failed only by an approval or a review that had read
\* the proposal before that run or decision was committed.
VerdictsAreHeeded ==
    [][\A p \in Proposals : (~Misjudged(p) /\ Misjudged(p)') =>
          \E a \in Actors : /\ Ends(a) /\ Outdated(a) /\ hands[a].p = p
                            /\ hands[a].op \in {"approve", "vet", "review"}]_vars

\* A rollout that was rolled back is put in use again only by a transaction that
\* had read it before.
RolledBackStays ==
    [][\A p \in Proposals :
          (rollouts[p].status = "rolled_back" /\ rollouts'[p].status # "rolled_back") =>
              \E a \in Actors : Ends(a) /\ Outdated(a) /\ hands[a].p = p]_vars

\* what the transaction of the actor goes by is no longer so: its rows, the
\* overlay it found, or the plan it replaces
Overtaken(a) ==
    \/ Outdated(a)
    \/ hands[a].op = "generate" /\ hands[a].found \notin Resolved(rollouts)
    \/ hands[a].op \in Replanning \cup {"generate"} /\ hands[a].plan # overlay

LeftBehind(p) == overlay = p /\ ~Live(rollouts[p])

\* The plan in use comes to have the overlay of a rollout that is no longer in use
\* only by a transaction that was overtaken, or by a rollback of the governor that
\* raises before its plan is built.
NoOverlayIsLeftBehind ==
    [][\A p \in Proposals : (~LeftBehind(p) /\ LeftBehind(p)') =>
          \E a \in Actors :
              /\ Ends(a)
              /\ Overtaken(a) \/ (hands[a].op = "decide" /\ faults' # faults)]_vars

\* A regression seen on a staged rollout is acted on: it leaves "staged" or is
\* observed again, or some write was stale.
RegressionsAreDealtWith ==
    \A p \in Proposals :
        (rollouts[p].status = "staged" /\ rollouts[p].latest = "rollback")
            ~> (stale \/ rollouts[p].status # "staged" \/ rollouts[p].latest # "rollback")

\* A proposal that is queued for its first evaluation gets one.
FirstEvaluationIsServed ==
    \A p \in Proposals :
        (proposals[p].status = "sandbox_queued" /\ \A k \in Keys : evaluations[p][k] # "settled")
            ~> (stale \/ proposals[p].status # "sandbox_queued")

=============================================================================
