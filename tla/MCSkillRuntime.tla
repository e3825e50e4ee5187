---------------------------- MODULE MCSkillRuntime ----------------------------
(* Tool plans for SkillRuntime: sound ones, and some the contract accepts that *)
(* cannot run, drop what they created or run where no sequence is recorded.    *)
EXTENDS SkillRuntime, TLC

CONSTANTS a, b

Source == Variable("$source_task_id")
Step(tool, id, payload) == [tool |-> tool, id |-> id, payload |-> payload]

Repairs == <<Step("partial_replan", "step_1", [source_task_id |-> Source])>>
ReviewsCalled(id) ==
    <<Step("partial_replan", "repair", [source_task_id |-> Source]),
      Step("review_scheduling", id,
           [source_task_id |-> Reference("repair", "created_task_ids[0]")])>>
Aimless == <<Step("partial_replan", "repair", [topic_focus |-> Literal])>>
Reviews == <<Step("review_scheduling", "step_1", [source_task_id |-> Source])>>
Assesses == <<Step("assessment_generation", "step_1",
                   [learner_goal_id |-> Variable("$learner_goal_id")])>>

Offer(surface, x, y) ==
    [surface |-> surface, plans |-> (a :> x) @@ (b :> y),
     known |-> [z \in Artifacts |-> {"$source_task_id"}]]

Offered ==
    {Offer("replan", Repairs, plan) :
        plan \in {ReviewsCalled("followup_review"), ReviewsCalled("reviews"), Aimless}}
    \cup {Offer("review_scheduling", Reviews, Reviews),
          Offer("assessment_generation", Assesses, Assesses)}
=============================================================================
