----------------------------- MODULE SkillRuntime -----------------------------
(***************************************************************************)
(* The runtime of skill packages on the autonomy surfaces: tool plans,     *)
(* their contract, preview and execution, what a run leaves in the usage   *)
(* of the rollout it ran under, and what the rollout's observation makes   *)
(* of that for the artifact.                                               *)
(*                                                                         *)
(* The artifacts are SkillArtifacts', whose Gather and Regress happen here *)
(* when an observation job has looked at the usage.  A run that finds no   *)
(* binding leaves nothing artifacts are judged by and is left out.         *)
(***************************************************************************)
EXTENDS SkillArtifacts, Naturals, Sequences

CONSTANT Offers  \* what may have been proposed: surface, plans and snapshots

VARIABLES offer,  \* the one the behaviour is about
          run,    \* the artifact whose binding the open run has found
          usage,  \* what was recorded under the rollout of an artifact
          due     \* artifacts whose rollout has an observation job waiting

runtime == <<offer, run, usage, due>>

-----------------------------------------------------------------------------
(* Tool plans.                                                              *)

Surfaces == {"review_scheduling", "assessment_generation", "replan"}
Tools == {"review_scheduling", "assessment_generation", "partial_replan"}

ASSUME SkillRuntimeAssumption == \A o \in Offers : o.surface \in Surfaces

\* the sequences of tools and the variables a surface's plans may use, and the
\* outputs of a tool that later steps may refer to
Sequences == [review_scheduling |-> {<<"review_scheduling">>},
              assessment_generation |-> {<<"assessment_generation">>},
              replan |-> {<<"partial_replan">>, <<"partial_replan", "review_scheduling">>}]
Variables == [review_scheduling |-> {"$source_task_id"},
              assessment_generation |-> {"$learner_goal_id", "$topic_focus"},
              replan |-> {"$source_task_id"}]
Outputs == [partial_replan |-> {"created_task_ids[0]"}, review_scheduling |-> {},
            assessment_generation |-> {}]

\* a payload's value is written down, a variable, or an output of the step `name`
Literal == [kind |-> "literal"]
Variable(name) == [kind |-> "variable", name |-> name]
Reference(name, field) == [kind |-> "reference", name |-> name, field |-> field]

\* the contract is about templates: what a tool cannot do without is not asked for
Permitted(surface, plan, i, value) ==
    \/ value.kind = "literal"
    \/ value.kind = "variable" /\ value.name \in Variables[surface]
    \/ value.kind = "reference" /\ \E j \in 1..(i - 1) :
          plan[j].id = value.name /\ value.field \in Outputs[plan[j].tool]

Accepted(surface, plan) ==
    /\ [i \in 1..Len(plan) |-> plan[i].tool] \in Sequences[surface]
    /\ \A i, j \in 1..Len(plan) : plan[i].id = plan[j].id => i = j
    /\ \A i \in 1..Len(plan) : \A key \in DOMAIN plan[i].payload :
          Permitted(surface, plan, i, plan[i].payload[key])

-----------------------------------------------------------------------------
(* Execution.  `report` has the number of tasks each step created, one for  *)
(* any number above that.                                                   *)

\* a value is found in the context or in the output of a step
Found(plan, i, report, context, value) ==
    \/ value.kind = "literal"
    \/ value.kind = "variable" /\ value.name \in context
    \/ value.kind = "reference" /\ \E j \in 1..(i - 1) :
          plan[j].id = value.name /\ report[j] > 0

Resolves(plan, report, context) ==
    \A i \in 1..Len(plan) : \A key \in DOMAIN plan[i].payload :
        Found(plan, i, report, context, plan[i].payload[key])

\* the context a surface's job executes its plan in
Context == [review_scheduling |-> {"$learner_goal_id", "$source_task_id", "$topic_focus"},
            assessment_generation |-> {"$learner_goal_id", "$topic_focus"},
            replan |-> {"$learner_goal_id", "$source_task_id", "$topic_focus"}]

\* a tool raises without the key of what it works on
Subject == [review_scheduling |-> "source_task_id", partial_replan |-> "source_task_id",
            assessment_generation |-> "learner_goal_id"]

\* reviews past the deadline or on a day that has one are not created, and an
\* assessment needs a plan
Yield == [review_scheduling |-> {0, 1}, partial_replan |-> {1},
          assessment_generation |-> {0, 1}]

Reports(surface, plan) ==
    {report \in [1..Len(plan) -> {0, 1}] :
        /\ Resolves(plan, report, Context[surface])
        /\ \A i \in 1..Len(plan) : /\ Subject[plan[i].tool] \in DOMAIN plan[i].payload
                                   /\ report[i] \in Yield[plan[i].tool]}

\* the sandbox job runs the plan dry, where each step previews a task, in the
\* context of the proposal's evidence; an empty plan is refused
Previews(plan, known) ==
    /\ plan # <<>>
    /\ Resolves(plan, [i \in 1..Len(plan) |-> 1], {"$learner_goal_id"} \cup known)

-----------------------------------------------------------------------------
(* What a completed run says of its plan: "good" when it is a successful    *)
(* usage, "bad" when it does not match the sequence the rollout's contract  *)
(* expects.                                                                 *)

\* the repair is looked for by its step's id, and is the first step's otherwise
RepairStep(plan) ==
    IF \E i \in 1..Len(plan) : plan[i].id = "repair"
    THEN CHOOSE i \in 1..Len(plan) : plan[i].id = "repair" ELSE 1

\* the follow-up reviews by their step's id alone
Reviewed(plan, report) ==
    \E i \in 1..Len(plan) : plan[i].id = "followup_review" /\ report[i] > 0

Expects(plan, tool) == \E i \in 1..Len(plan) : plan[i].tool = tool

\* a run that repaired nothing is skipped, and says so without a repair
Replanned(plan, report) ==
    IF report[RepairStep(plan)] = 0 THEN {"bad"}
    ELSE {"good"} \cup IF Expects(plan, "review_scheduling") /\ ~Reviewed(plan, report)
                       THEN {"bad"} ELSE {}

\* the usage of the other surfaces has no sequence in it
Scheduled == {"good", "bad"}
Assessed(report) == IF report[1] = 0 THEN {"bad"} ELSE {"good", "bad"}

Verdicts(surface, plan, report) ==
    CASE surface = "replan"                -> Replanned(plan, report)
      [] surface = "review_scheduling"     -> Scheduled
      [] surface = "assessment_generation" -> Assessed(report)

\* a plan that can run without anything being held against its rollout
Sound(surface, plan) ==
    \E report \in Reports(surface, plan) : Verdicts(surface, plan, report) = {"good"}

-----------------------------------------------------------------------------
(* Runs of the surface's jobs.                                              *)

InUseTrials == {"staged", "rolled_out"}

Plan(x) == offer.plans[x]

RuntimeTypeOK ==
    /\ TypeOK
    /\ offer \in Offers
    /\ run \in Artifacts \cup {"none"}
    /\ usage \in [Artifacts -> SUBSET {"rollout", "approval", "bad"}]
    /\ due \subseteq Artifacts

\* packages and artifacts are refused when the contract does not accept the plan
RuntimeInit ==
    /\ Init
    /\ offer \in {o \in Offers : \A x \in Artifacts : Accepted(o.surface, o.plans[x])}
    /\ run = "none" /\ usage = [x \in Artifacts |-> {}] /\ due = {}

\* the rollout's binding is in use, staged ones included, and the skill is not
\* suppressed: a run that finds it suppressed fails and leaves nothing
MayStart(x) == trials[x] \in InUseTrials /\ Having({"suppressed"}) = {}

\* The plan is the binding's, whatever artifact is looked up next.
Start(x) ==
    /\ run = "none" /\ MayStart(x)
    /\ run' = x
    /\ UNCHANGED <<vars, offer, usage, due>>

\* a success counts since the rollout's activation, or since the artifact's approval
Since(x) == IF artifacts[x].status \in Production THEN "approval" ELSE "rollout"

\* Mutant of Recorded: a success is all that is recorded of a run.
RecordedOnSuccess(x, verdicts) == IF "good" \in verdicts THEN {Since(x)} ELSE {"bad"}

Recorded(x, verdicts) ==
    (IF "good" \in verdicts THEN {Since(x)} ELSE {}) \cup (verdicts \cap {"bad"})

End(verdicts, observed) ==
    /\ run # "none"
    /\ usage' = [usage EXCEPT ![run] = @ \cup Recorded(run, verdicts)]
    /\ due' = IF observed /\ trials[run] \in InUseTrials THEN due \cup {run} ELSE due
    /\ run' = "none"
    /\ UNCHANGED <<vars, offer>>

\* an assessment that created nothing is not observed
Execute ==
    /\ run # "none"
    /\ \E report \in Reports(offer.surface, Plan(run)) :
          End(Verdicts(offer.surface, Plan(run), report),
              offer.surface = "assessment_generation" => report[1] > 0)

\* a full replan completes without the plan, and its usage has no sequence
ReplanFully ==
    /\ offer.surface = "replan"
    /\ End({"good", "bad"}, TRUE)

\* a step raises: what the steps before it created is committed with the
\* failure of the job, and the usage has no sequence
Fail == End({"bad"}, TRUE)

\* a run that fails or is skipped before it has a workflow run is not observed
FailEarly == End({"bad"}, FALSE)

LoseRun ==
    /\ run # "none"
    /\ run' = "none"
    /\ UNCHANGED <<vars, offer, usage, due>>

-----------------------------------------------------------------------------
(* Observations.                                                            *)

\* the latest observation is "promote" and there are successes: one run that does
\* not match the contract is a regression
Promising(x) == Since(x) \in usage[x] /\ "bad" \notin usage[x]

\* Mutant of Observe: what does not promote changes nothing.
ObservePromising(x) ==
    /\ x \in due
    /\ due' = due \ {x}
    /\ IF trials[x] \in InUseTrials /\ Promising(x) THEN Gather(x) ELSE UNCHANGED vars
    /\ UNCHANGED <<offer, run, usage>>

\* tasks that learners fail or skip make it a regression as well
Observe(x) ==
    /\ x \in due
    /\ due' = due \ {x}
    /\ IF trials[x] \in InUseTrials
       THEN (Promising(x) /\ Gather(x)) \/ Regress(x)
       ELSE UNCHANGED vars
    /\ UNCHANGED <<offer, run, usage>>

\* a rollout needs a proposal whose plan was previewed
Previewed == \A x \in Artifacts :
    (trials[x] = "none" /\ trials'[x] # "none") => Previews(Plan(x), offer.known[x])

Live == Lifecycle /\ Previewed /\ UNCHANGED runtime

RuntimeNext ==
    \/ Live
    \/ \E x \in Artifacts : Start(x) \/ Observe(x)
    \/ Execute \/ ReplanFully \/ Fail \/ FailEarly \/ LoseRun

allVars == <<vars, runtime>>

RuntimeSpec == RuntimeInit /\ [][RuntimeNext]_allVars

\* the worker's loop takes observation jobs; the curator's job runs periodically
FairRuntimeSpec ==
    /\ RuntimeSpec
    /\ \A x \in Artifacts : WF_allVars(Observe(x))
    /\ \A x \in Artifacts, c \in Actions : WF_allVars(Recommend(x, c) /\ UNCHANGED runtime)

-----------------------------------------------------------------------------
(* Properties.                                                              *)

\* What came into production by its rollout has a plan that can run without
\* anything being held against it, though neither the contract nor the preview
\* asks for that.
ServedPlansAreSound ==
    \A x \in Having(Production) \ InUse : Sound(offer.surface, Plan(x))

\* A run that is held against a rollout and is to be observed withdraws the
\* artifact's evidence, or the rollout ends.
BadRunsTell ==
    \A x \in Artifacts :
        ("bad" \in usage[x] /\ x \in due)
            ~> (evidence[x] = "none" \/ trials[x] \notin InUseTrials)

=============================================================================
