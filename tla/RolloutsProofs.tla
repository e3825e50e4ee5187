---------------------------- MODULE RolloutsProofs ----------------------------
(***************************************************************************)
(* Theorems about Rollouts, for every set of proposals and transactions,   *)
(* every surface and every bound.                                          *)
(***************************************************************************)
EXTENDS Rollouts, FiniteSetTheorems, TLAPS

-----------------------------------------------------------------------------
(* The inductive invariant. *)

\* What a completed run leaves in the row of a proposal: a verdict.
Sound(row) ==
    row.status = "sandbox_completed" => row.run = "completed" /\ row.evaluation # "pending"

\* An open transaction was granted, and the row it read was sound.
HandsSound ==
    \A a \in Actors :
        /\ hands[a].op \in Operations => Granted(hands[a]) /\ Sound(hands[a].proposal)
        /\ hands[a].op = "generate" => OnPlans

\* What holds of the rollouts in use until a transaction writes over rows that
\* were changed after it read them.
AtMostOneLive == \A p, q \in Proposals : Live(rollouts[p]) /\ Live(rollouts[q]) => p = q
Bound == \A p \in Packages : bindings[p] = rollouts[p].status
InUse == AtMostOneLive /\ Bound

PlanSurface == ~OnPlans => overlay = NoOverlay

IInv ==
    /\ TypeOK
    /\ \A p \in Proposals : Sound(proposals[p])
    /\ HandsSound
    /\ PlanSurface
    /\ ~stale => InUse

-----------------------------------------------------------------------------
(* Rows and hands. *)

\* The fields of the row of a proposal.
LEMMA ProposalFields ==
    ASSUME NEW row \in Proposal
    PROVE  /\ row.status \in {"none", "proposed", "sandbox_queued", "sandbox_completed",
                              "approved", "rejected"}
           /\ row.evaluation \in {"pending"} \cup Verdicts
           /\ row.assessment \in {"none"} \cup Verdicts
           /\ row.run \in {"none", "completed", "failed"}
BY DEF Proposal

\* The rows that proposals and rollouts begin with are rows, and sound.
LEMMA FirstRows ==
    /\ Absent \in Proposal /\ Sound(Absent)
    /\ Evaluated \in Proposal /\ Sound(Evaluated)
    /\ NoRollout \in Rollout
BY DEF Absent, Evaluated, NoRollout, Proposal, Rollout, Sound, Verdicts

\* A proposal that is queued again for the sandbox is sound.
LEMMA QueuedRow ==
    ASSUME NEW row \in Proposal
    PROVE  Queued(row) \in Proposal /\ Sound(Queued(row))
BY DEF Queued, Proposal, Sound

\* Ensuring a job leaves a table of jobs.
LEMMA EnsuredJobs ==
    ASSUME NEW jobs \in [Keys -> JobState], NEW key \in Keys
    PROVE  Ensured(jobs, key) \in [Keys -> JobState]
BY DEF Ensured, JobState

\* A transaction reads sound rows, whatever it is about.
LEMMA HandRead ==
    ASSUME TypeOK, \A p \in Proposals : Sound(proposals[p]),
           NEW op \in Operations, NEW p \in Proposals
    PROVE  /\ Hold(op, p) \in Hand /\ Sound(Hold(op, p).proposal)
           /\ Hold(op, p).op = op /\ Hold(op, p).p = p
           /\ Fresh(Hold(op, p))
           /\ op \in Replanning => Hold(op, p).plan = overlay
<1>1. /\ proposals[p] \in Proposal /\ Absent \in Proposal
      /\ rollouts[p] \in Rollout /\ NoRollout \in Rollout
      /\ overlay \in Overlays /\ NoOverlay \in Overlays
  BY FirstRows DEF TypeOK, Overlays
<1>2. (op = "activate" /\ SurfaceIsClear) \in BOOLEAN
  OBVIOUS
<1>3. Hold(op, p) \in Hand
  BY <1>1, <1>2 DEF Hold, Hand
<1>4. Sound(Hold(op, p).proposal)
  BY FirstRows DEF Hold
<1>5. /\ Hold(op, p).op = op /\ Hold(op, p).p = p
      /\ op \in Replanning => Hold(op, p).plan = overlay
  BY DEF Hold
<1>6. Hold(op, p) = [Hold(op, p) EXCEPT !.plan = Hold(op, p).plan]
  BY DEF Hold
<1> QED
  BY <1>3, <1>4, <1>5, <1>6 DEF Fresh

\* The fields of the hand of an open transaction.
LEMMA HandFields ==
    ASSUME NEW h \in Hand
    PROVE  /\ h.op \in Operations /\ h.p \in Proposals /\ h.proposal \in Proposal
           /\ h.rollout \in Rollout /\ h.clear \in BOOLEAN /\ h.plan \in Overlays
BY DEF Hand

\* Which of its kinds a hand is, by its operation.
LEMMA HandKinds ==
    ASSUME TypeOK, NEW a \in Actors
    PROVE  /\ hands[a].op \in Operations => hands[a] \in Hand
           /\ hands[a].op = "generate" => hands[a] \in Draft
           /\ hands[a].op \in Operations \cup {"generate"} => hands[a] # Idle
<1>1. Idle.op = "none" /\ "none" \notin Operations \cup {"generate"}
  BY DEF Idle, Operations, Requests, Sweeps, Jobs
<1>2. "generate" \notin Operations
  BY DEF Operations, Requests, Sweeps, Jobs
<1>3. \A h \in Draft : h.op = "generate"
  BY DEF Draft
<1>4. hands[a] \in Hand \cup Draft \cup {Idle}
  BY DEF TypeOK
<1> QED
  BY <1>1, <1>2, <1>3, <1>4, HandFields

\* What a transaction read is what its rows still are.
LEMMA FreshReads ==
    ASSUME NEW h \in Hand, Granted(h), Fresh(h)
    PROVE  /\ h.op \in OnRollouts => h.rollout = rollouts[h.p]
           /\ h.op \notin OnRollouts => h.proposal = proposals[h.p]
           /\ h.op = "activate" => SurfaceIsClear
<1> DEFINE now == Hold(h.op, h.p)
<1>1. /\ now.rollout = IF h.op \in OnRollouts THEN rollouts[h.p] ELSE NoRollout
      /\ now.proposal = IF h.op \in OnRollouts THEN Absent ELSE proposals[h.p]
      /\ now.clear = (h.op = "activate" /\ SurfaceIsClear)
  BY DEF Hold
<1>2. /\ [now EXCEPT !.plan = h.plan].rollout = now.rollout
      /\ [now EXCEPT !.plan = h.plan].proposal = now.proposal
      /\ [now EXCEPT !.plan = h.plan].clear = now.clear
  BY DEF Hold
<1>3. h = [now EXCEPT !.plan = h.plan]
  BY DEF Fresh
<1>4. h.op = "activate" => h.clear
  BY DEF Granted
<1> HIDE DEF now
<1> QED
  BY <1>1, <1>2, <1>3, <1>4

-----------------------------------------------------------------------------
(* Commits about proposals.                                                 *)

\* the opposite of Misjudged, of a row
Judged(row) ==
    row.status = "approved" => row.evaluation \in {"effective", "inconclusive"}
                               /\ row.run = "completed"

\* A verdict is disregarded only by these, over a row that has changed.
Blamed(h) == h.op \in {"approve", "vet", "review"} /\ ~Fresh(h)

\* what such a commit does: it writes one sound row, and approves none that is
\* not judged unless it is to blame
ProposalStep(h) ==
    /\ UNCHANGED <<rollouts, bindings, observing, deciding, overlay>>
    /\ \E row \in Proposal : /\ Sound(row) /\ (Judged(row) \/ Blamed(h))
                             /\ proposals' = [proposals EXCEPT ![h.p] = row]
    /\ evaluations' \in [Proposals -> [Keys -> JobState]]

\* The columns of an updated row: those of the written row, when the select found
\* what the row is; else those that the transaction changed.
LEMMA UpdatedRow ==
    ASSUME TypeOK, NEW h \in Hand, NEW new \in Proposal, NEW row \in Updated(h, new)
    PROVE  /\ row \in Proposal
           /\ \/ /\ row.status = new.status /\ row.evaluation = new.evaluation
                 /\ row.run = new.run
              \/ /\ row.status = Column(h.proposal.status, new.status, proposals[h.p].status)
                 /\ row.evaluation = Column(h.proposal.evaluation, new.evaluation,
                                            proposals[h.p].evaluation)
                 /\ row.run = Column(h.proposal.run, new.run, proposals[h.p].run)
<1>1. h.p \in Proposals /\ h.proposal \in Proposal /\ proposals[h.p] \in Proposal
  BY HandFields DEF TypeOK
<1>2. PICK selected \in {h.proposal, proposals[h.p]} :
          row = [proposals[h.p] EXCEPT
                    !.status = Column(selected.status, new.status, @),
                    !.evaluation = Column(selected.evaluation, new.evaluation, @),
                    !.run = Column(selected.run, new.run, @)]
  BY DEF Updated
<1>3. /\ Column(selected.status, new.status, proposals[h.p].status)
             \in {new.status, proposals[h.p].status}
      /\ Column(selected.evaluation, new.evaluation, proposals[h.p].evaluation)
             \in {new.evaluation, proposals[h.p].evaluation}
      /\ Column(selected.run, new.run, proposals[h.p].run)
             \in {new.run, proposals[h.p].run}
  BY DEF Column
<1>4. /\ row.status = Column(selected.status, new.status, proposals[h.p].status)
      /\ row.evaluation = Column(selected.evaluation, new.evaluation, proposals[h.p].evaluation)
      /\ row.run = Column(selected.run, new.run, proposals[h.p].run)
  BY <1>1, <1>2 DEF Proposal
<1>5. row \in Proposal
  BY <1>1, <1>2, <1>3 DEF Proposal
<1>6. CASE selected = proposals[h.p]
  BY <1>4, <1>5, <1>6 DEF Column
<1>7. CASE selected = h.proposal
  BY <1>4, <1>5, <1>7
<1> QED
  BY <1>6, <1>7

\* Queueing an evaluation leaves the row queued.
LEMMA EnqueueStep ==
    ASSUME TypeOK, NEW h \in Hand, NEW key \in Keys, Enqueue(h, key),
           h.proposal.status = "proposed"
    PROVE  ProposalStep(h)
<1>1. h.p \in Proposals /\ Queued(h.proposal) \in Proposal
  BY HandFields, QueuedRow
<1>2. evaluations' \in [Proposals -> [Keys -> JobState]]
  <2>1. Ensured(evaluations[h.p], key) \in [Keys -> JobState]
    BY <1>1, EnsuredJobs DEF TypeOK
  <2> QED
    BY <2>1 DEF Enqueue, TypeOK
<1>3. PICK row \in Updated(h, Queued(h.proposal)) : WriteProposal(h.p, [row EXCEPT !.run = "none"])
  BY DEF Enqueue
<1>4. row \in Proposal /\ row.status = "sandbox_queued"
  <2>1. Queued(h.proposal).status = "sandbox_queued"
    BY HandFields DEF Queued, Proposal
  <2> QED
    BY <1>1, <2>1, UpdatedRow DEF Column
<1>5. /\ [row EXCEPT !.run = "none"] \in Proposal
      /\ [row EXCEPT !.run = "none"].status = "sandbox_queued"
  BY <1>4 DEF Proposal
<1>6. Sound([row EXCEPT !.run = "none"]) /\ Judged([row EXCEPT !.run = "none"])
  BY <1>5 DEF Sound, Judged
<1> QED
  BY <1>2, <1>3, <1>5, <1>6 DEF WriteProposal, ProposalStep

\* An approval that was granted is one of a judged row, unless the row was changed.
LEMMA ApproveStep ==
    ASSUME TypeOK, NEW h \in Hand, Approve(h), Sound(h.proposal),
           h.proposal.status = "sandbox_completed", h.proposal.evaluation # "ineffective",
           h.proposal = proposals[h.p] \/ Blamed(h)
    PROVE  ProposalStep(h)
<1> DEFINE new == [h.proposal EXCEPT !.status = "approved"]
<1>1. /\ new \in Proposal /\ new.status = "approved"
      /\ new.evaluation = h.proposal.evaluation /\ new.run = h.proposal.run
  BY HandFields DEF Proposal
<1>2. h.proposal.evaluation \in {"effective", "inconclusive"} /\ h.proposal.run = "completed"
  BY HandFields DEF Sound, Proposal, Verdicts
<1>3. PICK row \in Updated(h, new) : WriteProposal(h.p, row)
  BY DEF Approve
<1> HIDE DEF new
<1>4. /\ row \in Proposal /\ row.status = "approved"
      /\ h.proposal = proposals[h.p] =>
            row.evaluation = h.proposal.evaluation /\ row.run = h.proposal.run
  BY <1>1, UpdatedRow DEF Column
<1>5. Sound(row) /\ (Judged(row) \/ Blamed(h))
  BY <1>2, <1>4 DEF Sound, Judged
<1>6. evaluations' \in [Proposals -> [Keys -> JobState]]
  BY DEF Approve, TypeOK
<1> QED
  BY <1>3, <1>4, <1>5, <1>6 DEF WriteProposal, ProposalStep

\* A rejection leaves the row rejected.
LEMMA RejectStep ==
    ASSUME TypeOK, NEW h \in Hand, Reject(h), h.proposal.status # "rejected"
    PROVE  ProposalStep(h)
<1>1. Rejected(h.proposal) \in Proposal /\ Rejected(h.proposal).status = "rejected"
  BY HandFields DEF Rejected, Proposal, Verdicts
<1>2. PICK row \in Updated(h, Rejected(h.proposal)) : WriteProposal(h.p, row)
  BY DEF Reject
<1>3. row \in Proposal /\ row.status = "rejected"
  BY <1>1, UpdatedRow DEF Column
<1>4. Sound(row) /\ Judged(row)
  BY <1>3 DEF Sound, Judged
<1>5. evaluations' \in [Proposals -> [Keys -> JobState]]
  BY DEF Reject, TypeOK
<1> QED
  BY <1>2, <1>3, <1>4, <1>5 DEF WriteProposal, ProposalStep

\* A review writes a verdict over the row it read or over the row there is.
LEMMA ReviewStep ==
    ASSUME TypeOK, NEW h \in Hand, Review(h), Sound(h.proposal),
           Sound(proposals[h.p]), h.proposal.status # "approved",
           h.proposal = proposals[h.p] \/ Blamed(h)
    PROVE  ProposalStep(h)
<1>0. evaluations' \in [Proposals -> [Keys -> JobState]]
  BY DEF Review, TypeOK
<1>1. h.p \in Proposals /\ h.proposal \in Proposal /\ proposals[h.p] \in Proposal
  BY HandFields DEF TypeOK
<1>2. ASSUME NEW v \in Verdicts, NEW row \in Updated(h, [h.proposal EXCEPT !.evaluation = v]),
             WriteProposal(h.p, [row EXCEPT !.assessment = v])
      PROVE  ProposalStep(h)
  <2> DEFINE new == [h.proposal EXCEPT !.evaluation = v]
  <2>1. /\ new \in Proposal /\ new.evaluation = v
        /\ new.status = h.proposal.status /\ new.run = h.proposal.run
    BY <1>1 DEF Proposal
  <2>2. row \in Updated(h, new)
    BY <1>2
  <2> HIDE DEF new
  <2>3. /\ row \in Proposal
        /\ \/ row.status = h.proposal.status /\ row.evaluation = v /\ row.run = h.proposal.run
           \/ /\ row.status = proposals[h.p].status /\ row.run = proposals[h.p].run
              /\ row.evaluation \in {v, proposals[h.p].evaluation}
    BY <2>1, <2>2, UpdatedRow DEF Column
  <2>4. Sound(row) /\ (Judged(row) \/ Blamed(h))
    BY <2>3, <1>1 DEF Sound, Judged, Verdicts
  <2> DEFINE last == [row EXCEPT !.assessment = v]
  <2>5. /\ last \in Proposal /\ last.status = row.status
        /\ last.evaluation = row.evaluation /\ last.run = row.run
    BY <2>3 DEF Proposal
  <2>6. proposals' = [proposals EXCEPT ![h.p] = last]
    BY <1>2 DEF WriteProposal
  <2>7. UNCHANGED <<rollouts, bindings, observing, deciding, overlay>>
    BY <1>2 DEF WriteProposal
  <2> HIDE DEF last
  <2>8. Sound(last) /\ (Judged(last) \/ Blamed(h))
    BY <2>4, <2>5 DEF Sound, Judged
  <2> QED
    BY <1>0, <2>5, <2>6, <2>7, <2>8 DEF ProposalStep
<1>3. ASSUME NEW row \in Updated(h, h.proposal), WriteProposal(h.p, row)
      PROVE  ProposalStep(h)
  <2>1. /\ row \in Proposal
        /\ \/ /\ row.status = h.proposal.status /\ row.evaluation = h.proposal.evaluation
              /\ row.run = h.proposal.run
           \/ /\ row.status = proposals[h.p].status /\ row.run = proposals[h.p].run
              /\ row.evaluation = proposals[h.p].evaluation
    BY <1>1, <1>3, UpdatedRow DEF Column
  <2>2. Sound(row) /\ (Judged(row) \/ Blamed(h))
    BY <2>1, <1>1 DEF Sound, Judged
  <2> QED
    BY <1>0, <1>3, <2>1, <2>2 DEF WriteProposal, ProposalStep
<1> QED
  BY <1>2, <1>3 DEF Review

ProposalOps == {"enqueue", "admit", "approve", "vet", "reject", "review"}

\* Every operation on a proposal leaves a sound row, and a judged one unless it is
\* to blame.
LEMMA ProposalEffect ==
    ASSUME TypeOK, NEW h \in Hand, Granted(h), Sound(h.proposal), Sound(proposals[h.p]),
           h.op \in ProposalOps, Effect(h)
    PROVE  ProposalStep(h)
<1>0. Fresh(h) => h.proposal = proposals[h.p]
  <2>1. h.op \notin OnRollouts
    BY DEF ProposalOps, OnRollouts
  <2> QED
    BY <2>1, FreshReads
<1>b. h.op \in {"approve", "vet", "review"} => h.proposal = proposals[h.p] \/ Blamed(h)
  BY <1>0 DEF Blamed
<1>1. CASE h.op = "enqueue"
  <2>1. Enqueue(h, "operator") /\ "operator" \in Keys /\ h.proposal.status = "proposed"
    BY <1>1 DEF Effect, Keys, Granted
  <2> QED
    BY <2>1, EnqueueStep
<1>2. CASE h.op = "admit"
  <2>1. /\ h.proposal.status = "proposed"
        /\ Reject(h) \/ (Enqueue(h, "auto") /\ "auto" \in Keys)
    BY <1>2 DEF Effect, Admit, Keys, Granted
  <2>2. CASE Reject(h)
    BY <2>1, <2>2, RejectStep
  <2>3. CASE Enqueue(h, "auto") /\ "auto" \in Keys
    BY <2>1, <2>3, EnqueueStep
  <2> QED
    BY <2>1, <2>2, <2>3
<1>3. CASE h.op = "approve"
  <2>1. Approve(h) /\ h.proposal.status = "sandbox_completed" /\ h.proposal.evaluation # "ineffective"
    BY <1>3 DEF Effect, Granted
  <2>2. h.proposal = proposals[h.p] \/ Blamed(h)
    BY <1>3, <1>b
  <2> QED
    BY <2>1, <2>2, ApproveStep
<1>4. CASE h.op = "vet"
  <2>1. /\ h.proposal.status = "sandbox_completed"
        /\ \/ Approve(h) /\ h.proposal.evaluation # "ineffective"
           \/ Reject(h)
    BY <1>4 DEF Effect, Granted, Vet
  <2>2. h.proposal = proposals[h.p] \/ Blamed(h)
    BY <1>4, <1>b
  <2>3. CASE Reject(h)
    BY <2>1, <2>3, RejectStep
  <2>4. CASE Approve(h) /\ h.proposal.evaluation # "ineffective"
    BY <2>1, <2>2, <2>4, ApproveStep
  <2> QED
    BY <2>1, <2>3, <2>4
<1>5. CASE h.op = "reject"
  <2>1. Reject(h) /\ h.proposal.status # "rejected"
    BY <1>5 DEF Effect, Granted
  <2> QED
    BY <2>1, RejectStep
<1>6. CASE h.op = "review"
  <2>1. Review(h) /\ h.proposal.status # "approved"
    BY <1>6 DEF Effect, Granted, Reviewable
  <2>2. h.proposal = proposals[h.p] \/ Blamed(h)
    BY <1>6, <1>b
  <2> QED
    BY <2>1, <2>2, ReviewStep
<1> QED
  BY <1>1, <1>2, <1>3, <1>4, <1>5, <1>6 DEF ProposalOps

\* what a step keeps that no approval goes wrong in, at any proposal or any but one
Heeds == \A q \in Proposals : Misjudged(q)' => Misjudged(q)
HeedsBut(p) == \A q \in Proposals \ {p} : Misjudged(q)' => Misjudged(q)

\* It leaves the rollouts in use as they are, and the other proposals.
LEMMA ProposalStepKeeps ==
    ASSUME TypeOK, \A p \in Proposals : Sound(proposals[p]), NEW h \in Hand, ProposalStep(h)
    PROVE  /\ proposals' \in [Proposals -> Proposal]
           /\ \A q \in Proposals : Sound(proposals'[q])
           /\ InUse => InUse'
           /\ HeedsBut(h.p) /\ (Heeds \/ Blamed(h))
<1>0. h.p \in Proposals
  BY HandFields
<1>1. PICK row \in Proposal : /\ Sound(row) /\ (Judged(row) \/ Blamed(h))
                              /\ proposals' = [proposals EXCEPT ![h.p] = row]
  BY DEF ProposalStep
<1>2. proposals' \in [Proposals -> Proposal]
  BY <1>0, <1>1 DEF TypeOK
<1>3. \A q \in Proposals : proposals'[q] = IF q = h.p THEN row ELSE proposals[q]
  BY <1>0, <1>1 DEF TypeOK
<1>4. InUse => InUse'
  BY DEF ProposalStep, InUse, AtMostOneLive, Bound, Live
<1>5. HeedsBut(h.p)
  BY <1>3 DEF HeedsBut, Misjudged
<1>6. Judged(row) => Heeds
  BY <1>3 DEF Heeds, Misjudged, Judged
<1> QED
  BY <1>1, <1>2, <1>3, <1>4, <1>5, <1>6

-----------------------------------------------------------------------------
(* Commits about rollouts.                                                  *)

RolloutTypes ==
    /\ proposals \in [Proposals -> Proposal]
    /\ evaluations \in [Proposals -> [Keys -> JobState]]
    /\ rollouts \in [Proposals -> Rollout]
    /\ bindings \in [Proposals -> {"none", "staged", "rolled_out", "rolled_back"}]
    /\ observing \subseteq Proposals /\ deciding \subseteq Proposals
    /\ overlay \in Overlays

\* what a commit that wrote over nothing leaves alone, or all rollouts but one
Kept ==
    /\ InUse => InUse'
    /\ \A q \in Proposals : rollouts[q].status = "rolled_back" => rollouts'[q].status = "rolled_back"
KeptBut(p) ==
    \A q \in Proposals \ {p} :
        rollouts[q].status = "rolled_back" => rollouts'[q].status = "rolled_back"

\* no plan comes to have the overlay of a rollout that is not in use
Drops == \A q \in Proposals : LeftBehind(q)' => LeftBehind(q)

\* an operation's effect on rollouts and plans: what it does in any case, when the
\* rollout was not changed since it was read, and when the plan was not either
RolloutStep(h) ==
    /\ RolloutTypes' /\ UNCHANGED proposals /\ PlanSurface'
    /\ KeptBut(h.p)
    /\ h.rollout = rollouts[h.p] => Kept

\* The rows that update() makes of a rollout: the one it should be, when the rollout
\* is the one that was read.
LEMMA RewrittenRow ==
    ASSUME TypeOK, NEW h \in Hand,
           NEW status \in {"none", "staged", "rolled_out", "rolled_back"},
           NEW row \in Rewritten(h, status)
    PROVE  /\ row \in Rollout
           /\ h.rollout = rollouts[h.p] => row.status = status
<1>1. h.p \in Proposals /\ h.rollout \in Rollout /\ rollouts[h.p] \in Rollout
  BY HandFields DEF TypeOK
<1>2. PICK selected \in {h.rollout, rollouts[h.p]} :
          row = [status |-> Column(selected.status, status, rollouts[h.p].status),
                 latest |-> Column(selected.latest, h.rollout.latest, rollouts[h.p].latest)]
  BY DEF Rewritten
<1>3. /\ Column(selected.status, status, rollouts[h.p].status)
             \in {status, rollouts[h.p].status}
      /\ Column(selected.latest, h.rollout.latest, rollouts[h.p].latest)
             \in {h.rollout.latest, rollouts[h.p].latest}
  BY DEF Column
<1>4. row \in Rollout
  BY <1>1, <1>2, <1>3 DEF Rollout
<1>5. selected = rollouts[h.p] => row.status = status
  BY <1>2 DEF Column
<1> QED
  BY <1>4, <1>5

\* Moving a rollout writes its row and the row of its binding, and no other.
LEMMA MoveShape ==
    ASSUME TypeOK, NEW h \in Hand, NEW status \in {"rolled_out", "rolled_back"},
           Move(h, status)
    PROVE  /\ rollouts' \in [Proposals -> Rollout]
           /\ bindings' \in [Proposals -> {"none", "staged", "rolled_out", "rolled_back"}]
           /\ \A q \in Proposals \ {h.p} : rollouts'[q] = rollouts[q]
           /\ h.rollout = rollouts[h.p] => rollouts'[h.p].status = status
           /\ \A q \in Proposals : bindings'[q] = IF q = h.p /\ bindings[h.p] # "none"
                                                  THEN status ELSE bindings[q]
           /\ UNCHANGED <<proposals, evaluations, observing>>
<1>0. h.p \in Proposals
  BY HandFields
<1>1. PICK row \in Rewritten(h, status) : rollouts' = [rollouts EXCEPT ![h.p] = row]
  BY DEF Move
<1>2. row \in Rollout /\ (h.rollout = rollouts[h.p] => row.status = status)
  BY RewrittenRow
<1>3. bindings' = IF bindings[h.p] = "none" THEN bindings ELSE [bindings EXCEPT ![h.p] = status]
  BY DEF Move, Rebound
<1>4. /\ rollouts' \in [Proposals -> Rollout]
      /\ \A q \in Proposals : rollouts'[q] = IF q = h.p THEN row ELSE rollouts[q]
  BY <1>0, <1>1, <1>2 DEF TypeOK
<1>5. /\ bindings' \in [Proposals -> {"none", "staged", "rolled_out", "rolled_back"}]
      /\ \A q \in Proposals : bindings'[q] = IF q = h.p /\ bindings[h.p] # "none"
                                             THEN status ELSE bindings[q]
  BY <1>0, <1>3 DEF TypeOK
<1> QED
  BY <1>0, <1>2, <1>4, <1>5 DEF Move

\* A rollout in use that is moved takes its binding with it.
LEMMA Moved ==
    ASSUME TypeOK, NEW h \in Hand, NEW status \in {"rolled_out", "rolled_back"},
           Move(h, status), Live(h.rollout), h.rollout = rollouts[h.p]
    PROVE  Kept
<1>1. /\ h.p \in Proposals
      /\ \A q \in Proposals \ {h.p} : rollouts'[q] = rollouts[q]
      /\ rollouts'[h.p].status = status
      /\ \A q \in Proposals : bindings'[q] = IF q = h.p /\ bindings[h.p] # "none"
                                             THEN status ELSE bindings[q]
  BY MoveShape, HandFields
<1>2. ASSUME AtMostOneLive PROVE AtMostOneLive'
  BY <1>1, <1>2 DEF AtMostOneLive, Live
<1>3. ASSUME Bound PROVE Bound'
  <2> SUFFICES ASSUME NEW q \in Packages PROVE bindings'[q] = rollouts'[q].status
    BY DEF Bound
  <2>1. q \in Proposals /\ bindings[q] = rollouts[q].status
    BY <1>3, RolloutsAssumption DEF Bound
  <2>2. rollouts[h.p].status # "none"
    BY DEF Live
  <2> QED
    BY <1>1, <2>1, <2>2
<1>4. \A q \in Proposals : rollouts[q].status = "rolled_back" => rollouts'[q].status = "rolled_back"
  BY <1>1 DEF Live
<1> QED
  BY <1>2, <1>3, <1>4 DEF Kept, InUse

\* The other rollouts stay as they are.
LEMMA MovedBut ==
    ASSUME TypeOK, NEW h \in Hand, NEW status \in {"rolled_out", "rolled_back"},
           Move(h, status)
    PROVE  KeptBut(h.p)
BY MoveShape DEF KeptBut

\* The overlay that a plan gets is none, or that of a rollout that is rolled out.
LEMMA ResolvedOverlay ==
    ASSUME NEW o \in Resolved(rollouts)
    PROVE  /\ o \in Overlays
           /\ o # NoOverlay => OnPlans /\ Live(rollouts[o])
BY DEF Resolved, Overlays, Live

\* A plan in use is one of the two that may be.
LEMMA ReplannedOverlay ==
    ASSUME NEW read, NEW built, Replanned(read, built)
    PROVE  overlay' \in {built, overlay} /\ (read = overlay => overlay' = built)
BY DEF Replanned

\* A promotion keeps what is in use in order, when the rollout it read is the
\* rollout there is.
LEMMA PromoteStep ==
    ASSUME TypeOK, RolloutTypes, PlanSurface, NEW h \in Hand, Live(h.rollout), Promote(h),
           deciding' \subseteq Proposals
    PROVE  /\ RolloutStep(h)
           /\ h.rollout = rollouts[h.p] => Drops
<1>1. Move(h, "rolled_out") /\ UNCHANGED overlay
  BY DEF Promote
<1>2. RolloutTypes' /\ UNCHANGED proposals
  BY <1>1, MoveShape DEF RolloutTypes
<1>3. KeptBut(h.p) /\ (h.rollout = rollouts[h.p] => Kept)
  BY <1>1, Moved, MovedBut
<1>4. ASSUME h.rollout = rollouts[h.p] PROVE Drops
  <2>1. /\ \A q \in Proposals \ {h.p} : rollouts'[q] = rollouts[q]
        /\ rollouts'[h.p].status = "rolled_out"
    BY <1>1, <1>4, MoveShape
  <2> QED
    BY <1>1, <2>1 DEF Drops, LeftBehind, Live
<1> QED
  BY <1>1, <1>2, <1>3, <1>4 DEF RolloutStep, PlanSurface

\* The plan that a rollback builds has no overlay of a rollout that is not in use.
LEMMA RollbackStep ==
    ASSUME TypeOK, RolloutTypes, PlanSurface, NEW h \in Hand, Live(h.rollout), Rollback(h),
           deciding' \subseteq Proposals
    PROVE  /\ RolloutStep(h)
           /\ h.rollout = rollouts[h.p] /\ h.plan = overlay => Drops
<1>1. /\ Move(h, "rolled_back")
      /\ IF OnPlans THEN \E o \in Resolved(rollouts') : Replanned(h.plan, o)
                    ELSE UNCHANGED overlay
  BY DEF Rollback
<1>2. overlay' \in Overlays /\ PlanSurface'
  <2>1. CASE OnPlans
    <3>1. PICK o \in Resolved(rollouts') : Replanned(h.plan, o)
      BY <1>1, <2>1
    <3>2. o \in Overlays
      BY <3>1 DEF Resolved, Overlays
    <3>3. overlay' \in {o, overlay}
      BY <3>1, ReplannedOverlay
    <3> QED
      BY <2>1, <3>2, <3>3 DEF RolloutTypes, PlanSurface
  <2>2. CASE ~OnPlans
    BY <1>1, <2>2 DEF RolloutTypes, PlanSurface
  <2> QED
    BY <2>1, <2>2
<1>3. RolloutTypes' /\ UNCHANGED proposals
  BY <1>1, <1>2, MoveShape DEF RolloutTypes
<1>4. KeptBut(h.p) /\ (h.rollout = rollouts[h.p] => Kept)
  BY <1>1, Moved, MovedBut
<1>5. ASSUME h.plan = overlay PROVE Drops
  <2>1. CASE OnPlans
    <3>1. PICK o \in Resolved(rollouts') : Replanned(h.plan, o)
      BY <1>1, <2>1
    <3>2. overlay' = o
      BY <1>5, <3>1, ReplannedOverlay
    <3>3. \A q \in Proposals : o = q => Live(rollouts'[q])
      BY <3>1, RolloutsAssumption DEF Resolved, Live
    <3> QED
      BY <3>2, <3>3 DEF Drops, LeftBehind
  <2>2. CASE ~OnPlans
    BY <1>2, <2>2, RolloutsAssumption DEF Drops, LeftBehind, PlanSurface
  <2> QED
    BY <2>1, <2>2
<1> QED
  BY <1>2, <1>3, <1>4, <1>5 DEF RolloutStep

\* The rollback that raises keeps the rollouts in use in order.
LEMMA HalfwayStep ==
    ASSUME TypeOK, RolloutTypes, PlanSurface, NEW h \in Hand, Live(h.rollout), DecideHalfway(h)
    PROVE  RolloutStep(h)
<1>1. Move(h, "rolled_back") /\ UNCHANGED overlay /\ deciding' = deciding \ {h.p}
  BY DEF DecideHalfway
<1>2. RolloutTypes' /\ UNCHANGED proposals
  BY <1>1, MoveShape DEF RolloutTypes
<1>3. KeptBut(h.p) /\ (h.rollout = rollouts[h.p] => Kept)
  BY <1>1, Moved, MovedBut
<1> QED
  BY <1>1, <1>2, <1>3 DEF RolloutStep, PlanSurface

\* An observation keeps the status of the rollout, when it is what was read.
LEMMA ObserveStep ==
    ASSUME TypeOK, RolloutTypes, PlanSurface, NEW h \in Hand, Observe(h)
    PROVE  /\ RolloutStep(h)
           /\ h.rollout = rollouts[h.p] => Drops
<1>0. h.p \in Proposals /\ h.rollout \in Rollout
  BY HandFields
<1>1. PICK row \in Rewritten(h, h.rollout.status), r \in Recommendations :
          rollouts' = [rollouts EXCEPT ![h.p] = [row EXCEPT !.latest = r]]
  BY DEF Observe
<1>2. row \in Rollout /\ (h.rollout = rollouts[h.p] => row.status = h.rollout.status)
  <2>1. h.rollout.status \in {"none", "staged", "rolled_out", "rolled_back"}
    BY <1>0 DEF Rollout
  <2> QED
    BY <2>1, RewrittenRow
<1> DEFINE last == [row EXCEPT !.latest = r]
<1>3. last \in Rollout /\ last.status = row.status
  BY <1>2 DEF Rollout
<1>4. rollouts' = [rollouts EXCEPT ![h.p] = last]
  BY <1>1
<1> HIDE DEF last
<1>5. \A q \in Proposals : rollouts'[q] = IF q = h.p THEN last ELSE rollouts[q]
  BY <1>0, <1>4 DEF RolloutTypes
<1>6. UNCHANGED <<proposals, evaluations, bindings, overlay>> /\ observing' = observing \ {h.p}
  BY DEF Observe
<1>7. RolloutTypes'
  <2>1. deciding' \subseteq Proposals
    BY <1>0 DEF Observe, DecisionDue, RolloutTypes
  <2>2. rollouts' \in [Proposals -> Rollout]
    BY <1>3, <1>4 DEF RolloutTypes
  <2> QED
    BY <1>6, <2>1, <2>2 DEF RolloutTypes
<1>8. KeptBut(h.p)
  BY <1>5 DEF KeptBut
<1>9. ASSUME h.rollout = rollouts[h.p] PROVE Kept /\ Drops
  <2>1. \A q \in Proposals : rollouts'[q].status = rollouts[q].status
    BY <1>2, <1>3, <1>5, <1>9
  <2>2. Kept
    BY <1>6, <2>1, RolloutsAssumption DEF Kept, InUse, AtMostOneLive, Bound, Live
  <2>3. Drops
    BY <1>6, <2>1 DEF Drops, LeftBehind, Live
  <2> QED
    BY <2>2, <2>3
<1> QED
  BY <1>6, <1>7, <1>8, <1>9 DEF RolloutStep, PlanSurface

\* A new rollout keeps what is in use in order, when the surface is clear, and its
\* plan has its overlay.
LEMMA ActivateStep ==
    ASSUME TypeOK, RolloutTypes, PlanSurface, NEW h \in Hand, Activate(h),
           rollouts[h.p] = NoRollout
    PROVE  /\ RolloutTypes' /\ UNCHANGED proposals /\ PlanSurface'
           /\ KeptBut(h.p)
           /\ SurfaceIsClear => Kept
           /\ h.plan = overlay => Drops
<1> DEFINE row == [status |-> "staged", latest |-> "none"]
<1>1. row \in Rollout /\ row.status = "staged"
  BY DEF Rollout
<1>2. h.p \in Proposals /\ rollouts' = [rollouts EXCEPT ![h.p] = row]
  BY HandFields DEF Activate
<1> HIDE DEF row
<1>3. \A q \in Proposals : rollouts'[q] = IF q = h.p THEN row ELSE rollouts[q]
  BY <1>2 DEF RolloutTypes
<1>4. IF OnPlans THEN Replanned(h.plan, h.p) ELSE UNCHANGED overlay
  BY DEF Activate
<1>5. overlay' \in Overlays /\ PlanSurface'
  BY <1>2, <1>4, ReplannedOverlay DEF Overlays, PlanSurface, RolloutTypes
<1>6. RolloutTypes' /\ UNCHANGED proposals
  BY <1>1, <1>2, <1>5 DEF RolloutTypes, Activate
<1>7. \A q \in Packages : bindings'[q] = IF q = h.p THEN "staged" ELSE bindings[q]
  BY <1>2, RolloutsAssumption DEF RolloutTypes, Activate
<1>8. ASSUME SurfaceIsClear, InUse PROVE InUse'
  <2>1. AtMostOneLive'
    BY <1>1, <1>3, <1>8 DEF AtMostOneLive, Live, SurfaceIsClear
  <2>2. Bound'
    BY <1>1, <1>3, <1>7, <1>8, RolloutsAssumption DEF InUse, Bound
  <2> QED
    BY <2>1, <2>2 DEF InUse
<1>9. \A q \in Proposals : rollouts[q].status = "rolled_back" => rollouts'[q].status = "rolled_back"
  BY <1>2, <1>3 DEF NoRollout
<1>10. ASSUME h.plan = overlay PROVE Drops
  <2>1. Live(rollouts'[h.p])
    BY <1>1, <1>2, <1>3 DEF Live
  <2>2. overlay' = h.p \/ overlay' = overlay
    BY <1>4, ReplannedOverlay
  <2> QED
    BY <1>3, <2>1, <2>2 DEF Drops, LeftBehind
<1> QED
  BY <1>5, <1>6, <1>8, <1>9, <1>10 DEF Kept, KeptBut

-----------------------------------------------------------------------------
(* Commits of every kind.                                                   *)

AllSound == \A p \in Proposals : Sound(proposals[p])

\* what a transaction does, whether its rows were changed or not
EffectOf(h) ==
    /\ RolloutTypes' /\ AllSound' /\ PlanSurface'
    /\ KeptBut(h.p) /\ HeedsBut(h.p)
    /\ Heeds \/ Blamed(h)
    /\ Fresh(h) => Kept
    /\ Fresh(h) /\ (h.op \in Replanning => h.plan = overlay) => Drops

\* A step that leaves the proposals as they are disregards no verdict.
LEMMA ProposalsKept ==
    ASSUME UNCHANGED proposals
    PROVE  Heeds /\ (AllSound => AllSound') /\ \A p \in Proposals : HeedsBut(p)
BY DEF Heeds, HeedsBut, Misjudged, AllSound

\* Every transaction leaves types and sound rows, and keeps what is in use in
\* order when its rows were not changed.
LEMMA EffectStep ==
    ASSUME TypeOK, AllSound, PlanSurface, NEW h \in Hand, Granted(h), Sound(h.proposal),
           Insertable(h), Effect(h)
    PROVE  EffectOf(h)
<1>0. h.op \in Operations /\ h.p \in Proposals /\ RolloutTypes
  BY HandFields DEF TypeOK, RolloutTypes
<1>f. Fresh(h) => /\ h.op \in OnRollouts => h.rollout = rollouts[h.p]
                  /\ h.op = "activate" => SurfaceIsClear
  BY FreshReads
<1>1. CASE h.op \in ProposalOps
  <2>1. ProposalStep(h)
    BY <1>0, <1>1, ProposalEffect DEF AllSound
  <2>2. /\ proposals' \in [Proposals -> Proposal]
        /\ AllSound' /\ (InUse => InUse')
        /\ HeedsBut(h.p) /\ (Heeds \/ Blamed(h))
    BY <1>0, <2>1, ProposalStepKeeps DEF AllSound
  <2>3. RolloutTypes'
    BY <1>0, <2>1, <2>2 DEF ProposalStep, RolloutTypes
  <2>4. UNCHANGED <<rollouts, overlay>>
    BY <2>1 DEF ProposalStep
  <2>5. Kept /\ KeptBut(h.p) /\ Drops /\ PlanSurface'
    BY <2>2, <2>4 DEF Kept, KeptBut, Drops, LeftBehind, Live, PlanSurface
  <2> QED
    BY <2>2, <2>3, <2>5 DEF EffectOf
<1>r. ASSUME RolloutStep(h), h.op \in OnRollouts,
             h.rollout = rollouts[h.p] /\ (h.op \in Replanning => h.plan = overlay) => Drops
      PROVE  EffectOf(h)
  BY <1>0, <1>f, <1>r, ProposalsKept DEF EffectOf, RolloutStep
<1>2. CASE h.op = "activate"
  <2>1. Activate(h) /\ rollouts[h.p] = NoRollout
    BY <1>2 DEF Effect, Insertable
  <2>2. /\ RolloutTypes' /\ UNCHANGED proposals /\ PlanSurface'
        /\ KeptBut(h.p) /\ (SurfaceIsClear => Kept) /\ (h.plan = overlay => Drops)
    BY <1>0, <2>1, ActivateStep
  <2>3. h.op \in Replanning
    BY <1>2 DEF Replanning
  <2> QED
    BY <1>0, <1>f, <1>2, <2>2, <2>3, ProposalsKept DEF EffectOf
<1>3. CASE h.op = "promote"
  <2>1. Promote(h) /\ UNCHANGED deciding /\ Live(h.rollout)
    BY <1>3 DEF Effect, Granted
  <2>2. deciding' \subseteq Proposals
    BY <1>0, <2>1 DEF RolloutTypes
  <2>3. RolloutStep(h) /\ (h.rollout = rollouts[h.p] => Drops)
    BY <1>0, <2>1, <2>2, PromoteStep
  <2> QED
    BY <1>r, <1>3, <2>3 DEF OnRollouts
<1>4. CASE h.op = "rollback"
  <2>1. Rollback(h) /\ UNCHANGED deciding /\ Live(h.rollout)
    BY <1>4 DEF Effect, Granted
  <2>2. deciding' \subseteq Proposals
    BY <1>0, <2>1 DEF RolloutTypes
  <2>3. RolloutStep(h) /\ (h.rollout = rollouts[h.p] /\ h.plan = overlay => Drops)
    BY <1>0, <2>1, <2>2, RollbackStep
  <2> QED
    BY <1>r, <1>4, <2>3 DEF OnRollouts, Replanning
<1>5. CASE h.op = "observe"
  <2>1. Observe(h)
    BY <1>5 DEF Effect
  <2>2. RolloutStep(h) /\ (h.rollout = rollouts[h.p] => Drops)
    BY <1>0, <2>1, ObserveStep
  <2> QED
    BY <1>r, <1>5, <2>2 DEF OnRollouts
<1>6. CASE h.op = "decide"
  <2>1. (Promote(h) \/ Rollback(h)) /\ Live(h.rollout)
    BY <1>6 DEF Effect, Decide, Granted, Live
  <2>2. deciding' \subseteq Proposals
    BY <1>0, <1>6 DEF RolloutTypes, Effect, Decide
  <2>3. RolloutStep(h) /\ (h.rollout = rollouts[h.p] /\ h.plan = overlay => Drops)
    BY <1>0, <2>1, <2>2, PromoteStep, RollbackStep
  <2> QED
    BY <1>r, <1>6, <2>3 DEF OnRollouts, Replanning
<1> QED
  BY <1>0, <1>1, <1>2, <1>3, <1>4, <1>5, <1>6
     DEF Operations, Requests, Sweeps, Jobs, ProposalOps

-----------------------------------------------------------------------------
(* Every step keeps the invariant, and what comes of writes over later      *)
(* changes comes of them only.                                              *)

\* a rollout leaves "rolled_back" by a commit over a row that has changed only
Resurrected ==
    \A p \in Proposals :
        (rollouts[p].status = "rolled_back" /\ rollouts'[p].status # "rolled_back") =>
            \E a \in Actors : Ends(a) /\ Outdated(a) /\ hands[a].p = p

\* so does a verdict that is disregarded
Disregarded ==
    \A p \in Proposals : (~Misjudged(p) /\ Misjudged(p)') =>
        \E a \in Actors : /\ Ends(a) /\ Outdated(a) /\ hands[a].p = p
                          /\ hands[a].op \in {"approve", "vet", "review"}

\* and an overlay that is left behind, unless the rollback raised
Forgotten ==
    \A p \in Proposals : (~LeftBehind(p) /\ LeftBehind(p)') =>
        \E a \in Actors : /\ Ends(a)
                          /\ Overtaken(a) \/ (hands[a].op = "decide" /\ faults' # faults)

Stepped == Resurrected /\ Disregarded /\ Forgotten

Quiet == Kept /\ Heeds /\ Drops

\* A step that keeps everything in order needs no excuse.
LEMMA QuietStep == ASSUME Quiet PROVE Stepped
BY DEF Quiet, Kept, Heeds, Drops, Stepped, Resurrected, Disregarded, Forgotten

Held == Hand \cup Draft \cup {Idle}

\* The invariant holds at first.
LEMMA InitIInv == Init => IInv
<1> SUFFICES ASSUME Init PROVE IInv
  OBVIOUS
<1>1. \A p \in Proposals : proposals[p] \in Proposal /\ Sound(proposals[p])
  BY FirstRows DEF Init
<1>2. TypeOK
  <2>1. proposals \in [Proposals -> Proposal]
    BY <1>1 DEF Init
  <2>2. evaluations \in [Proposals -> [Keys -> JobState]]
    BY DEF Init, JobState
  <2>3. rollouts \in [Proposals -> Rollout]
    BY FirstRows DEF Init
  <2>4. requests \in 0..MaxRequests /\ opened \in 0..MaxOpen /\ faults \in 0..MaxFaults
    BY RolloutsAssumption DEF Init
  <2>5. /\ bindings \in [Proposals -> {"none", "staged", "rolled_out", "rolled_back"}]
        /\ hands \in [Actors -> Hand \cup Draft \cup {Idle}]
    BY DEF Init
  <2>6. /\ observing \subseteq Proposals /\ deciding \subseteq Proposals
        /\ overlay \in Overlays /\ stale \in BOOLEAN
    BY DEF Init, Overlays
  <2> QED
    BY <2>1, <2>2, <2>3, <2>4, <2>5, <2>6 DEF TypeOK
<1>3. HandsSound
  <2>1. \A a \in Actors : hands[a].op = "none"
    BY DEF Init, Idle
  <2>2. "none" \notin Operations
    BY DEF Operations, Requests, Sweeps, Jobs
  <2> QED
    BY <2>1, <2>2 DEF HandsSound
<1>4. InUse /\ PlanSurface
  BY RolloutsAssumption DEF Init, InUse, AtMostOneLive, Bound, Live, NoRollout, PlanSurface
<1> QED
  BY <1>1, <1>2, <1>3, <1>4 DEF IInv

\* The transactions that remain open are as sound as before.
LEMMA HandsReleased ==
    ASSUME TypeOK, HandsSound, NEW a \in Actors, hands' = [hands EXCEPT ![a] = Idle]
    PROVE  hands' \in [Actors -> Held] /\ HandsSound'
<1>1. \A b \in Actors : hands'[b] = IF b = a THEN Idle ELSE hands[b]
  BY DEF TypeOK
<1>2. hands' \in [Actors -> Held]
  BY DEF TypeOK, Held
<1>3. Idle.op \notin Operations /\ Idle.op # "generate"
  BY DEF Idle, Operations, Requests, Sweeps, Jobs
<1> QED
  BY <1>1, <1>2, <1>3 DEF HandsSound

\* What is left of the types when the rows have theirs.
LEMMA TypesTogether ==
    ASSUME RolloutTypes', hands' \in [Actors -> Held], requests' \in 0..MaxRequests,
           opened' \in 0..MaxOpen, faults' \in 0..MaxFaults, stale' \in BOOLEAN
    PROVE  TypeOK'
BY DEF RolloutTypes, TypeOK, Held

\* Steps that write no row of a rollout, a binding or a plan.
LEMMA RolloutsKept ==
    ASSUME UNCHANGED <<rollouts, bindings, overlay>>
    PROVE  /\ InUse => InUse'
           /\ Kept /\ Drops
           /\ PlanSurface => PlanSurface'
BY DEF InUse, AtMostOneLive, Bound, Live, Kept, Drops, LeftBehind, PlanSurface

\* An evaluation leaves a sound row that is not approved, or the row that was there.
LEMMA EvaluateStep ==
    ASSUME TypeOK, NEW p \in Proposals, NEW k \in Keys, Evaluate(p, k), Sound(proposals[p])
    PROVE  /\ \E row \in Proposal :
                 /\ Sound(row) /\ (row.status # "approved" \/ row = proposals[p])
                 /\ proposals' = [proposals EXCEPT ![p] = row]
           /\ evaluations' \in [Proposals -> [Keys -> JobState]]
<1>0. proposals[p] \in Proposal /\ proposals = [proposals EXCEPT ![p] = proposals[p]]
  BY DEF TypeOK
<1>1. evaluations' \in [Proposals -> [Keys -> JobState]]
  <2>1. "settled" \in JobState /\ evaluations \in [Proposals -> [Keys -> JobState]]
    BY DEF JobState, TypeOK
  <2>2. UNCHANGED evaluations \/ evaluations' = [evaluations EXCEPT ![p][k] = "settled"]
    BY DEF Evaluate
  <2> QED
    BY <2>1, <2>2
<1>2. CASE UNCHANGED proposals
  BY <1>0, <1>1, <1>2
<1>3. ASSUME NEW v \in VerdictPairs,
             proposals' = [proposals EXCEPT ![p].status = "sandbox_completed",
                 ![p].assessment = v[1], ![p].evaluation = v[2], ![p].run = "completed"]
      PROVE  \E row \in Proposal : /\ Sound(row) /\ row.status # "approved"
                                   /\ proposals' = [proposals EXCEPT ![p] = row]
  <2> DEFINE row == [proposals[p] EXCEPT !.status = "sandbox_completed",
                        !.assessment = v[1], !.evaluation = v[2], !.run = "completed"]
  <2>1. v[1] \in Verdicts /\ v[2] \in Verdicts
    BY DEF VerdictPairs, Verdicts
  <2>2. row \in Proposal
    BY <1>0, <2>1 DEF Proposal
  <2>3. Sound(row) /\ row.status # "approved"
    BY <1>0, <2>1 DEF Proposal, Sound, Verdicts
  <2>4. proposals' = [proposals EXCEPT ![p] = row]
    BY <1>3 DEF TypeOK
  <2> QED
    BY <2>2, <2>3, <2>4
<1>4. ASSUME proposals' = [proposals EXCEPT ![p].status = "proposed",
                 ![p].evaluation = "pending", ![p].run = "failed"]
      PROVE  \E row \in Proposal : /\ Sound(row) /\ row.status # "approved"
                                   /\ proposals' = [proposals EXCEPT ![p] = row]
  <2> DEFINE row == [proposals[p] EXCEPT !.status = "proposed",
                        !.evaluation = "pending", !.run = "failed"]
  <2>1. row \in Proposal
    BY <1>0 DEF Proposal
  <2>2. Sound(row) /\ row.status # "approved"
    BY <1>0 DEF Proposal, Sound
  <2>3. proposals' = [proposals EXCEPT ![p] = row]
    BY <1>4 DEF TypeOK
  <2> QED
    BY <2>1, <2>2, <2>3
<1>5. CASE Outcome(p)
  BY <1>1, <1>3, <1>4, <1>5 DEF Outcome
<1> QED
  BY <1>2, <1>5 DEF Evaluate

\* So does a proposal that is made.
LEMMA ProposeStep ==
    ASSUME TypeOK, NEW p \in Proposals, Propose(p)
    PROVE  /\ \E row \in Proposal :
                 /\ Sound(row) /\ (row.status # "approved" \/ row = proposals[p])
                 /\ proposals' = [proposals EXCEPT ![p] = row]
           /\ evaluations' \in [Proposals -> [Keys -> JobState]]
<1>0. proposals[p] \in Proposal
  BY DEF TypeOK
<1>1. CASE p \in AutoAdmitted
  <2>1. Queued(proposals[p]) \in Proposal /\ Sound(Queued(proposals[p]))
    BY <1>0, QueuedRow
  <2>2. Queued(proposals[p]).status # "approved"
    BY <1>0 DEF Queued, Proposal
  <2>3. Ensured(evaluations[p], "auto") \in [Keys -> JobState]
    BY EnsuredJobs DEF TypeOK, Keys
  <2>4. /\ proposals' = [proposals EXCEPT ![p] = Queued(proposals[p])]
        /\ evaluations' = [evaluations EXCEPT ![p] = Ensured(evaluations[p], "auto")]
    BY <1>1 DEF Propose, Admitted
  <2> QED
    BY <2>1, <2>2, <2>3, <2>4 DEF TypeOK
<1>2. CASE p \notin AutoAdmitted
  <2> DEFINE row == [proposals[p] EXCEPT !.status = "proposed"]
  <2>1. row \in Proposal /\ Sound(row) /\ row.status # "approved"
    BY <1>0 DEF Proposal, Sound
  <2>2. proposals' = [proposals EXCEPT ![p] = row] /\ UNCHANGED evaluations
    BY <1>2 DEF Propose, Admitted
  <2> QED
    BY <2>1, <2>2 DEF TypeOK
<1> QED
  BY <1>1, <1>2

\* Steps that are no transaction of a hand keep the invariant, and need no excuse.
LEMMA JobsStep ==
    ASSUME IInv, NEW p \in Proposals,
           Propose(p) \/ Use(p) \/ NoDecision(p) \/ (\E k \in Keys : Evaluate(p, k))
    PROVE  IInv' /\ Quiet
<1> USE DEF IInv
<1>1. UNCHANGED <<bindings, rollouts, overlay, hands, opened, stale>>
  BY DEF Propose, Use, NoDecision, Evaluate
<1>2. requests' \in 0..MaxRequests /\ faults' \in 0..MaxFaults
  BY RolloutsAssumption DEF Propose, Use, NoDecision, Evaluate, TypeOK
<1>3. observing' \subseteq Proposals /\ deciding' \subseteq Proposals
  BY DEF Propose, Use, NoDecision, Evaluate, TypeOK
<1>4. /\ \E row \in Proposal :
            /\ Sound(row) /\ (row.status # "approved" \/ row = proposals[p])
            /\ proposals' = [proposals EXCEPT ![p] = row]
      /\ evaluations' \in [Proposals -> [Keys -> JobState]]
  <2>1. CASE Use(p) \/ NoDecision(p)
    <3>1. proposals[p] \in Proposal /\ proposals = [proposals EXCEPT ![p] = proposals[p]]
      BY DEF TypeOK
    <3> QED
      BY <2>1, <3>1 DEF Use, NoDecision, TypeOK
  <2> QED
    BY <2>1, ProposeStep, EvaluateStep
<1>5. PICK row \in Proposal : /\ Sound(row) /\ (row.status # "approved" \/ row = proposals[p])
                              /\ proposals' = [proposals EXCEPT ![p] = row]
  BY <1>4
<1>6. /\ proposals' \in [Proposals -> Proposal]
      /\ \A q \in Proposals : proposals'[q] = IF q = p THEN row ELSE proposals[q]
  BY <1>5 DEF TypeOK
<1>7. TypeOK'
  BY <1>1, <1>2, <1>3, <1>4, <1>6 DEF TypeOK
<1>8. HandsSound'
  BY <1>1 DEF HandsSound
<1>9. Heeds
  BY <1>5, <1>6 DEF Heeds, Misjudged
<1>10. (InUse => InUse') /\ Kept /\ Drops /\ PlanSurface'
  BY <1>1, RolloutsKept
<1>11. \A q \in Proposals : Sound(proposals'[q])
  BY <1>5, <1>6
<1> QED
  BY <1>1, <1>7, <1>8, <1>9, <1>10, <1>11 DEF Quiet

\* Steps that write no row.
LEMMA RowsKept ==
    ASSUME UNCHANGED rows
    PROVE  /\ InUse => InUse'
           /\ PlanSurface => PlanSurface'
           /\ AllSound => AllSound'
           /\ Quiet
BY RolloutsKept, ProposalsKept DEF rows, Quiet

\* A transaction that begins reads sound rows and grants itself what they allow.
LEMMA BeginStep ==
    ASSUME IInv, NEW a \in Actors, NEW op \in Operations, NEW p \in Proposals, Begin(a, op, p)
    PROVE  IInv' /\ Quiet
<1> USE DEF IInv
<1>1. /\ Hold(op, p) \in Hand /\ Granted(Hold(op, p)) /\ Sound(Hold(op, p).proposal)
      /\ Hold(op, p).op = op /\ op # "generate"
  BY HandRead DEF Begin, Arrives, Operations, Requests, Sweeps, Jobs
<1>2. /\ hands' \in [Actors -> Held]
      /\ \A b \in Actors : hands'[b] = IF b = a THEN Hold(op, p) ELSE hands[b]
  BY <1>1 DEF Begin, Opens, TypeOK, Held
<1>3. HandsSound'
  BY <1>1, <1>2 DEF HandsSound
<1>4. requests' \in 0..MaxRequests /\ opened' \in 0..MaxOpen
  BY RolloutsAssumption DEF Begin, Opens, Arrives, Counted, TypeOK
<1>5. UNCHANGED <<rows, faults, stale>>
  BY DEF Begin
<1>6. TypeOK'
  BY <1>2, <1>4, <1>5 DEF TypeOK, rows, Held
<1> QED
  BY <1>3, <1>5, <1>6, RowsKept DEF AllSound

\* A generation of a plan begins on the plans' surface.
LEMMA BeginPlanStep ==
    ASSUME IInv, NEW a \in Actors, BeginPlan(a)
    PROVE  IInv' /\ Quiet
<1> USE DEF IInv
<1>1. OnPlans /\ UNCHANGED <<rows, requests, faults, stale>>
  BY DEF BeginPlan
<1>2. PICK o \in Resolved(rollouts) :
          Opens(a, [op |-> "generate", found |-> o, plan |-> overlay])
  BY DEF BeginPlan
<1> DEFINE h == [op |-> "generate", found |-> o, plan |-> overlay]
<1>3. h \in Draft /\ h.op = "generate" /\ "generate" \notin Operations
  BY <1>2, ResolvedOverlay DEF Draft, TypeOK, Operations, Requests, Sweeps, Jobs
<1>4. hands' = [hands EXCEPT ![a] = h] /\ opened' \in 0..MaxOpen
  BY <1>2, RolloutsAssumption DEF Opens, TypeOK
<1> HIDE DEF h
<1>5. /\ hands' \in [Actors -> Held]
      /\ \A b \in Actors : hands'[b] = IF b = a THEN h ELSE hands[b]
  BY <1>3, <1>4 DEF TypeOK, Held
<1>6. HandsSound'
  BY <1>1, <1>3, <1>5 DEF HandsSound
<1>7. TypeOK'
  BY <1>1, <1>4, <1>5 DEF TypeOK, rows, Held
<1> QED
  BY <1>1, <1>6, <1>7, RowsKept DEF AllSound

\* A plan that is generated leaves the rollouts alone; it has the overlay that was
\* found, when the plan that was read is the one in use.
LEMMA GeneratedStep ==
    ASSUME TypeOK, OnPlans, NEW read, NEW built \in Overlays, Generated(read, built)
    PROVE  /\ RolloutTypes' /\ PlanSurface'
           /\ InUse => InUse'
           /\ AllSound => AllSound'
           /\ Kept /\ Heeds
           /\ read = overlay /\ built \in Resolved(rollouts) => Drops
<1>1. Replanned(read, built) /\ UNCHANGED <<proposals, evaluations, rollouts, bindings, deciding>>
  BY DEF Generated
<1>2. overlay' \in {built, overlay} /\ (read = overlay => overlay' = built)
  BY <1>1, ReplannedOverlay
<1>3. observing' \subseteq Proposals
  BY DEF Generated, TypeOK
<1>4. RolloutTypes' /\ PlanSurface'
  BY <1>1, <1>2, <1>3 DEF TypeOK, RolloutTypes, PlanSurface
<1>5. (InUse => InUse') /\ Kept
  BY <1>1 DEF InUse, AtMostOneLive, Bound, Kept
<1>6. Heeds /\ (AllSound => AllSound')
  BY <1>1, ProposalsKept
<1>7. ASSUME read = overlay, built \in Resolved(rollouts) PROVE Drops
  <2>1. overlay' = built /\ (built # NoOverlay => Live(rollouts[built]))
    BY <1>2, <1>7, ResolvedOverlay
  <2> QED
    BY <1>1, <2>1, RolloutsAssumption DEF Drops, LeftBehind
<1> QED
  BY <1>4, <1>5, <1>6, <1>7

\* A plan in whose generation nothing else is committed needs no excuse.
LEMMA PlanStep ==
    ASSUME IInv, Plan
    PROVE  IInv' /\ Quiet
<1> USE DEF IInv
<1>1. OnPlans /\ UNCHANGED <<hands, requests, opened, faults, stale>>
  BY DEF Plan
<1>2. PICK o \in Resolved(rollouts) : Generated(overlay, o)
  BY DEF Plan
<1>3. o \in Overlays
  BY <1>2, ResolvedOverlay
<1>4. /\ RolloutTypes' /\ PlanSurface' /\ (InUse => InUse') /\ (AllSound => AllSound')
      /\ Kept /\ Heeds /\ Drops
  BY <1>1, <1>2, <1>3, GeneratedStep
<1>5. TypeOK'
  BY <1>1, <1>4 DEF TypeOK, RolloutTypes
<1>6. HandsSound'
  BY <1>1 DEF HandsSound
<1> QED
  BY <1>1, <1>4, <1>5, <1>6 DEF Quiet, AllSound

\* A generation that ends leaves an overlay behind only if it was overtaken.
LEMMA CommitPlanStep ==
    ASSUME IInv, NEW a \in Actors, CommitPlan(a)
    PROVE  IInv' /\ Stepped
<1> USE DEF IInv
<1>1. /\ hands[a].op = "generate" /\ hands' = [hands EXCEPT ![a] = Idle]
      /\ UNCHANGED <<requests, opened, faults, stale>>
  BY DEF CommitPlan
<1>2. hands[a] \in Draft /\ hands[a] # Idle /\ OnPlans
  BY <1>1, HandKinds DEF HandsSound
<1>3. hands[a].found \in Overlays
  BY <1>2 DEF Draft
<1>4. /\ RolloutTypes' /\ PlanSurface' /\ (InUse => InUse') /\ (AllSound => AllSound')
      /\ Kept /\ Heeds
      /\ hands[a].plan = overlay /\ hands[a].found \in Resolved(rollouts) => Drops
  BY <1>2, <1>3, GeneratedStep DEF CommitPlan
<1>5. hands' \in [Actors -> Held] /\ HandsSound'
  BY <1>1, HandsReleased
<1>6. TypeOK'
  BY <1>1, <1>4, <1>5, TypesTogether DEF TypeOK
<1>7. Ends(a)
  BY <1>1, <1>2 DEF Ends, TypeOK
<1>8. Drops \/ Overtaken(a)
  BY <1>1, <1>4 DEF Overtaken
<1>9. Stepped
  BY <1>4, <1>7, <1>8
     DEF Stepped, Kept, Heeds, Drops, Resurrected, Disregarded, Forgotten
<1> QED
  BY <1>1, <1>4, <1>5, <1>6, <1>9 DEF AllSound

\* A transaction that meets nobody keeps the invariant: its rows are the rows.
LEMMA UndisturbedStep ==
    ASSUME IInv, NEW op \in Operations, NEW p \in Proposals, Undisturbed(op, p)
    PROVE  IInv' /\ Quiet
<1> USE DEF IInv
<1> DEFINE h == Hold(op, p)
<1>1. /\ h \in Hand /\ Sound(h.proposal) /\ h.op = op /\ h.p = p /\ Fresh(h)
      /\ h.op \in Replanning => h.plan = overlay
  BY HandRead
<1>2. /\ Granted(h) /\ Insertable(h) /\ Effect(h)
      /\ UNCHANGED <<hands, opened, faults, stale>>
  BY DEF Undisturbed, Arrives
<1> HIDE DEF h
<1>3. EffectOf(h)
  BY <1>1, <1>2, EffectStep DEF AllSound
<1>4. RolloutTypes' /\ AllSound' /\ PlanSurface' /\ Kept /\ Drops /\ Heeds
  BY <1>1, <1>3 DEF EffectOf, Blamed
<1>5. requests' \in 0..MaxRequests
  BY RolloutsAssumption DEF Undisturbed, Arrives, Counted, TypeOK
<1>6. TypeOK'
  BY <1>2, <1>4, <1>5 DEF TypeOK, RolloutTypes
<1>7. HandsSound'
  BY <1>2 DEF HandsSound
<1> QED
  BY <1>2, <1>4, <1>6, <1>7 DEF AllSound, Kept, Quiet

\* A commit over rows and a plan that have not changed needs no excuse; another has
\* one.
LEMMA CommitStep ==
    ASSUME IInv, NEW a \in Actors, Commit(a)
    PROVE  IInv' /\ Stepped
<1> USE DEF IInv
<1> DEFINE h == hands[a]
<1>1. /\ h.op \in Operations /\ hands' = [hands EXCEPT ![a] = Idle]
      /\ UNCHANGED <<requests, opened, faults>>
  BY DEF Commit
<1>2. h \in Hand /\ h # Idle /\ Granted(h) /\ Sound(h.proposal)
  BY <1>1, HandKinds DEF HandsSound
<1>3. hands' \in [Actors -> Held] /\ HandsSound'
  BY <1>1, HandsReleased
<1>4. Ends(a) /\ (~Fresh(h) => Outdated(a))
  BY <1>1, <1>2 DEF Ends, Outdated, TypeOK
<1>5. stale' \in BOOLEAN
  BY DEF Commit, TypeOK
<1>6. CASE Insertable(h) /\ Effect(h) /\ stale' = (stale \/ ~Fresh(h))
  <2> HIDE DEF h
  <2>1. EffectOf(h)
    BY <1>2, <1>6, EffectStep DEF AllSound
  <2>2. TypeOK'
    BY <1>1, <1>3, <1>5, <2>1, TypesTogether DEF EffectOf, TypeOK
  <2>3. ~stale' => InUse'
    BY <1>6, <2>1 DEF EffectOf, Kept
  <2>4. Resurrected
    <3>1. CASE Fresh(h)
      BY <2>1, <3>1 DEF EffectOf, Kept, Resurrected
    <3>2. CASE ~Fresh(h)
      BY <1>4, <2>1, <3>2 DEF EffectOf, KeptBut, Resurrected, h
    <3> QED
      BY <3>1, <3>2
  <2>5. Disregarded
    <3>1. CASE Heeds
      BY <3>1 DEF Heeds, Disregarded
    <3>2. CASE Blamed(h)
      <4>1. \A q \in Proposals \ {h.p} : Misjudged(q)' => Misjudged(q)
        BY <2>1 DEF EffectOf, HeedsBut
      <4>2. Ends(a) /\ Outdated(a) /\ h.op \in {"approve", "vet", "review"}
        BY <1>4, <3>2 DEF Blamed
      <4> QED
        BY <4>1, <4>2 DEF Disregarded, h
    <3> QED
      BY <2>1, <3>1, <3>2 DEF EffectOf
  <2>6. Forgotten
    <3>1. CASE Drops
      BY <3>1 DEF Drops, Forgotten
    <3>2. CASE ~Drops
      <4>1. ~Fresh(h) \/ (h.op \in Replanning /\ h.plan # overlay)
        BY <2>1, <3>2 DEF EffectOf
      <4>2. Overtaken(a)
        BY <1>4, <4>1 DEF Overtaken, h
      <4> QED
        BY <1>4, <4>2 DEF Forgotten
    <3> QED
      BY <3>1, <3>2
  <2> QED
    BY <1>3, <2>1, <2>2, <2>3, <2>4, <2>5, <2>6 DEF EffectOf, AllSound, Stepped
<1>7. CASE UNCHANGED <<rows, stale>>
  <2>1. TypeOK'
    BY <1>1, <1>3, <1>7 DEF TypeOK, rows, Held
  <2> QED
    BY <1>3, <1>7, <2>1, RowsKept, QuietStep DEF AllSound
<1> QED
  BY <1>6, <1>7 DEF Commit

\* The governor's rollback that raises leaves its plan, and is the one that does.
LEMMA CommitHalfwayStep ==
    ASSUME IInv, NEW a \in Actors, CommitHalfway(a)
    PROVE  IInv' /\ Stepped
<1> USE DEF IInv
<1> DEFINE h == hands[a]
<1>1. /\ h.op = "decide" /\ hands' = [hands EXCEPT ![a] = Idle]
      /\ DecideHalfway(h) /\ stale' = (stale \/ ~Fresh(h))
      /\ faults < MaxFaults /\ faults' = faults + 1
      /\ UNCHANGED <<requests, opened>>
  BY DEF CommitHalfway
<1>2. h.op \in Operations
  BY <1>1 DEF Operations, Jobs
<1>3. h \in Hand /\ h # Idle /\ Granted(h)
  BY <1>2, HandKinds DEF HandsSound
<1>4. hands' \in [Actors -> Held] /\ HandsSound'
  BY <1>1, HandsReleased
<1>5. Ends(a) /\ (~Fresh(h) => Outdated(a))
  BY <1>1, <1>2, <1>3 DEF Ends, Outdated, TypeOK
<1>6. faults' \in 0..MaxFaults /\ faults' # faults
  BY <1>1, RolloutsAssumption DEF TypeOK
<1>7. RolloutTypes /\ stale' \in BOOLEAN
  BY <1>1 DEF TypeOK, RolloutTypes
<1>8. Forgotten
  BY <1>1, <1>5, <1>6 DEF Forgotten
<1> HIDE DEF h
<1>9. RolloutStep(h)
  <2>1. Live(h.rollout)
    BY <1>1, <1>3 DEF Granted, Live
  <2> QED
    BY <1>1, <1>3, <1>7, <2>1, HalfwayStep
<1>10. Fresh(h) => h.rollout = rollouts[h.p]
  BY <1>1, <1>3, FreshReads DEF OnRollouts
<1>11. Disregarded /\ AllSound'
  BY <1>9, ProposalsKept DEF RolloutStep, Heeds, Disregarded, AllSound
<1>12. Resurrected
  <2>1. CASE Fresh(h)
    BY <1>9, <1>10, <2>1 DEF RolloutStep, Kept, Resurrected
  <2>2. CASE ~Fresh(h)
    BY <1>5, <1>9, <2>2 DEF RolloutStep, KeptBut, Resurrected, h
  <2> QED
    BY <2>1, <2>2
<1>13. TypeOK'
  <2>1. requests' \in 0..MaxRequests /\ opened' \in 0..MaxOpen
    BY <1>1 DEF TypeOK
  <2> QED
    BY <1>4, <1>6, <1>7, <1>9, <2>1, TypesTogether DEF RolloutStep
<1>14. ~stale' => InUse'
  BY <1>1, <1>9, <1>10 DEF RolloutStep, Kept
<1> QED
  BY <1>4, <1>8, <1>9, <1>11, <1>12, <1>13, <1>14 DEF RolloutStep, AllSound, Stepped

\* A transaction that is rolled back leaves nothing.
LEMMA LoseStep ==
    ASSUME IInv, NEW a \in Actors, Lose(a)
    PROVE  IInv' /\ Quiet
<1> USE DEF IInv
<1>1. UNCHANGED <<rows, requests, opened, stale>> /\ hands' = [hands EXCEPT ![a] = Idle]
  BY DEF Lose
<1>2. hands' \in [Actors -> Held] /\ HandsSound'
  BY <1>1, HandsReleased
<1>3. faults' \in 0..MaxFaults
  BY RolloutsAssumption DEF Lose, TypeOK
<1>4. TypeOK'
  BY <1>1, <1>2, <1>3 DEF TypeOK, rows, Held
<1> QED
  BY <1>1, <1>2, <1>4, RowsKept DEF AllSound

\* Every step keeps the invariant, and has its excuse when it disregards a verdict,
\* a rollback or the plan of a rollback.
LEMMA NextStep ==
    ASSUME IInv, [Next]_vars
    PROVE  IInv' /\ Stepped
<1>1. ASSUME NEW p \in Proposals,
             Propose(p) \/ Use(p) \/ NoDecision(p) \/ (\E k \in Keys : Evaluate(p, k))
      PROVE  IInv' /\ Stepped
  BY <1>1, QuietStep, JobsStep
<1>2. ASSUME NEW p \in Proposals, NEW op \in Operations, Undisturbed(op, p)
      PROVE  IInv' /\ Stepped
  BY <1>2, QuietStep, UndisturbedStep
<1>3. ASSUME NEW p \in Proposals, NEW op \in Operations, NEW a \in Actors, Begin(a, op, p)
      PROVE  IInv' /\ Stepped
  BY <1>3, QuietStep, BeginStep
<1>4. ASSUME NEW a \in Actors, Commit(a) \/ CommitHalfway(a) \/ CommitPlan(a)
      PROVE  IInv' /\ Stepped
  BY <1>4, CommitStep, CommitHalfwayStep, CommitPlanStep
<1>5. ASSUME NEW a \in Actors, BeginPlan(a) \/ Lose(a)
      PROVE  IInv' /\ Stepped
  BY <1>5, QuietStep, BeginPlanStep, LoseStep
<1>6. CASE Plan
  BY <1>6, QuietStep, PlanStep
<1>7. CASE UNCHANGED vars
  <2>1. TypeOK'
    BY <1>7 DEF IInv, TypeOK, vars, rows
  <2>2. HandsSound'
    BY <1>7 DEF IInv, HandsSound, vars
  <2>3. UNCHANGED rows /\ UNCHANGED stale
    BY <1>7 DEF vars
  <2> QED
    BY <2>1, <2>2, <2>3, RowsKept, QuietStep DEF IInv, AllSound
<1> QED
  BY <1>1, <1>2, <1>3, <1>4, <1>5, <1>6, <1>7 DEF Next

-----------------------------------------------------------------------------
(* The theorems. *)

\* So the invariant holds of every behaviour.
LEMMA Inductive == Spec => []IInv
<1>1. IInv /\ [Next]_vars => IInv'
  BY NextStep
<1> QED
  BY <1>1, InitIInv, PTL DEF Spec

\* The rows of proposals, rollouts and bindings and what open transactions hold
\* have their types, for any number of them.
THEOREM TypeCorrect == Spec => []TypeOK
<1>1. IInv => TypeOK
  BY DEF IInv
<1> QED
  BY <1>1, Inductive, PTL

\* Until a transaction writes over rows it did not read, a surface has one
\* rollout in use at most, whoever activates, promotes and rolls back.
THEOREM OneRolloutInUse == Spec => []OneActiveRollout
<1>1. IInv => OneActiveRollout
  <2> SUFFICES ASSUME IInv, ~stale
               PROVE  Cardinality({p \in Proposals : Live(rollouts[p])}) <= 1
    BY DEF OneActiveRollout
  <2> DEFINE L == {p \in Proposals : Live(rollouts[p])}
  <2>1. \A p, q \in L : p = q
    BY DEF IInv, InUse, AtMostOneLive
  <2>2. CASE L = {}
    BY <2>2, FS_EmptySet
  <2>3. ASSUME NEW p \in L PROVE Cardinality(L) <= 1
    <3>1. L = {p}
      BY <2>1
    <3> QED
      BY <3>1, FS_Singleton
  <2> QED
    BY <2>2, <2>3
<1> QED
  BY <1>1, Inductive, PTL

\* Until then the binding of a package has the status of its rollout, also when
\* the governor's rollback raised halfway.
THEOREM BindingsFollowRollouts == Spec => []BindingFollowsRollout
<1>1. IInv => BindingFollowsRollout
  BY DEF IInv, InUse, Bound, BindingFollowsRollout
<1> QED
  BY <1>1, Inductive, PTL

\* An approved proposal has a verdict of a completed run for it, except by an
\* approval or a review that had read it before that verdict was committed:
\* sandbox jobs, requests, sweeps and queues take no verdict away.
THEOREM VerdictsHold == Spec => VerdictsAreHeeded
<1>1. IInv /\ [Next]_vars => [Disregarded]_vars
  BY NextStep DEF Stepped
<1>2. Spec => [][Disregarded]_vars
  BY <1>1, Inductive, PTL DEF Spec
<1> QED
  BY <1>2 DEF VerdictsAreHeeded, Disregarded

\* A plan keeps or gets the overlay of a rollout that is not in use only by a
\* transaction whose rows, overlay or plan changed since it read them, be it a
\* generation of a plan or a rollback, and by a rollback that raised.
THEOREM PlansDropOverlays == Spec => NoOverlayIsLeftBehind
<1>1. IInv /\ [Next]_vars => [Forgotten]_vars
  BY NextStep DEF Stepped
<1>2. Spec => [][Forgotten]_vars
  BY <1>1, Inductive, PTL DEF Spec
<1> QED
  BY <1>2 DEF NoOverlayIsLeftBehind, Forgotten

\* A rollout that was rolled back is put in use again only by a transaction
\* that read it before.
THEOREM RolledBackIsKept == Spec => RolledBackStays
<1>1. IInv /\ [Next]_vars => [Resurrected]_vars
  BY NextStep DEF Stepped
<1>2. Spec => [][Resurrected]_vars
  BY <1>1, Inductive, PTL DEF Spec
<1> QED
  BY <1>2 DEF RolledBackStays, Resurrected

=============================================================================
