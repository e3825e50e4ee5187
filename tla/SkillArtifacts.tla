---------------------------- MODULE SkillArtifacts ----------------------------
(***************************************************************************)
(* The skill artifacts of one name and scope: candidates, staging,         *)
(* activation, replacement, stabilization, suppression, retirement, the    *)
(* rollout that gives each its evidence, and the curator's recommendations.*)
(*                                                                         *)
(* An operation that reads rows without a lock, or whose evidence lies in  *)
(* rows it does not lock, is a hand that begins and commits; the others    *)
(* work on rows they have locked and are one step.                         *)
(***************************************************************************)
CONSTANTS Artifacts,  \* ids; each is built from a package proposal of its own
          Governed,   \* built to replace another: realized patches and merges
          InUse,      \* active when the behaviour begins, one at most
          Advised,    \* the actions the curator's thresholds let it recommend
          Actors,     \* transactions that may be open while others run
          Held        \* the operations such a transaction may be

AtMostOne(S) == \A x, y \in S : x = y

ASSUME SkillArtifactsAssumption ==
    /\ Governed \subseteq Artifacts /\ InUse \subseteq Artifacts \ Governed
    /\ AtMostOne(InUse) /\ "none" \notin Artifacts

VARIABLES artifacts,
          trials,     \* status of the rollout of the artifact's proposal
          evidence,   \* what the rollout's observations and usage amount to
          recommendations,
          hands,
          stale       \* history: a transaction wrote on rows it had read before

vars == <<artifacts, trials, evidence, recommendations, hands, stale>>

-----------------------------------------------------------------------------
(* The rows. *)

Selectable == {"active", "stable"}
Production == Selectable \cup {"suppressed"}
Retired == {"deprecated", "archived"}
Statuses == {"none", "candidate", "staged"} \cup Production \cup Retired

\* `previous` is the status before the suppression; `supersedes` is the
\* artifact it was built to replace or did replace
Artifact == [status: Statuses, previous: {"none"} \cup Selectable,
             supersedes: {"none"} \cup Artifacts]
Unbuilt == [status |-> "none", previous |-> "none", supersedes |-> "none"]

\* enough promote observations and usage since the rollout was activated, or
\* since the artifact's own last approval; one negative observation is too many
Evidence == {"none", "rollout", "approval"}

Actions == {"activate_staged", "replace_selectable", "stabilize_active",
            "archive_deprecated"}
Decided == {"accepted", "dismissed"}
Transactions == {"stage", "activate_staged", "replace_selectable",
                 "stabilize_active", "rollback", "accept", "dismiss"}

\* `action` and `recommended` are those of the recommendation decided on;
\* `over` is the artifact that is to be replaced
Hand == [op: Transactions, id: Artifacts, row: Artifact,
         trial: {"none", "staged", "rolled_out", "rolled_back"},
         action: {"none"} \cup Actions, recommended: {"none", "pending"} \cup Decided,
         over: {"none"} \cup Artifacts]
Idle == [op |-> "none"]

TypeOK ==
    /\ artifacts \in [Artifacts -> Artifact]
    /\ trials \in [Artifacts -> {"none", "staged", "rolled_out", "rolled_back"}]
    /\ evidence \in [Artifacts -> Evidence]
    /\ recommendations \in [Artifacts -> [Actions -> {"none", "pending"} \cup Decided]]
    /\ hands \in [Actors -> Hand \cup {Idle}]
    /\ stale \in BOOLEAN

Init ==
    /\ artifacts = [x \in Artifacts |->
                      [Unbuilt EXCEPT !.status = IF x \in InUse THEN "active" ELSE "none"]]
    /\ trials = [x \in Artifacts |-> IF x \in InUse THEN "rolled_out" ELSE "none"]
    /\ evidence = [x \in Artifacts |-> "none"]
    /\ recommendations = [x \in Artifacts |-> [c \in Actions |-> "none"]]
    /\ hands = [t \in Actors |-> Idle]
    /\ stale = FALSE

Having(S) == {x \in Artifacts : artifacts[x].status \in S}

\* the partial unique indexes: one selectable row, one suppressed row
Indexed(rows) ==
    /\ AtMostOne({x \in Artifacts : rows[x].status \in Selectable})
    /\ AtMostOne({x \in Artifacts : rows[x].status = "suppressed"})

\* rows selected FOR UPDATE stay locked until their transaction ends
LockedBy(t) ==
    IF hands[t] # Idle /\ hands[t].op \in {"activate_staged", "replace_selectable"}
    THEN {hands[t].id, hands[t].over} ELSE {}

Locked(x) == \E t \in Actors : x \in LockedBy(t)

-----------------------------------------------------------------------------
(* Rollouts, as far as artifacts read them.                                 *)

StartTrial(x) ==
    /\ trials[x] = "none"
    /\ trials' = [trials EXCEPT ![x] = "staged"]
    /\ UNCHANGED <<artifacts, evidence, recommendations, hands, stale>>

PromoteTrial(x) ==
    /\ trials[x] = "staged"
    /\ trials' = [trials EXCEPT ![x] = "rolled_out"]
    /\ UNCHANGED <<artifacts, evidence, recommendations, hands, stale>>

\* use and observation go on while the rollout is in use
Gather(x) ==
    /\ trials[x] \in {"staged", "rolled_out"}
    /\ evidence' = [evidence EXCEPT ![x] =
                       IF artifacts[x].status \in Production THEN "approval" ELSE "rollout"]
    /\ UNCHANGED <<artifacts, trials, recommendations, hands, stale>>

Regress(x) ==
    /\ trials[x] \in {"staged", "rolled_out"}
    /\ evidence' = [evidence EXCEPT ![x] = "none"]
    /\ UNCHANGED <<artifacts, trials, recommendations, hands, stale>>

\* approved_at is set: what counts for the next approval begins anew
Approved(x) == [evidence EXCEPT ![x] = IF @ = "none" THEN @ ELSE "rollout"]

-----------------------------------------------------------------------------
(* Candidates.                                                              *)

Insert(x, row) ==
    /\ artifacts[x] = Unbuilt
    /\ artifacts' = [artifacts EXCEPT ![x] = row]
    /\ UNCHANGED <<trials, evidence, recommendations, hands, stale>>

CreateCandidate(x) ==
    /\ x \notin Governed
    /\ Insert(x, [Unbuilt EXCEPT !.status = "candidate"])

\* a replacement is anchored on an artifact that is in use, locked meanwhile;
\* its candidate is created and staged in one transaction
StageReplacement(x, source) ==
    /\ x \in Governed /\ x # source
    /\ artifacts[source].status \in Selectable /\ ~Locked(source)
    /\ Insert(x, [Unbuilt EXCEPT !.status = "staged", !.supersedes = source])

-----------------------------------------------------------------------------
(* What a transaction needs.                                                *)

Proven(x) == trials[x] = "rolled_out" /\ evidence[x] # "none"

\* evaluate_artifact on a governed replacement, and activation's own checks
MayActivate(x) ==
    /\ artifacts[x].status = "staged" /\ Proven(x)
    /\ Having(Selectable) \subseteq {x}

\* what is replaced by a governed artifact is the one it was built to replace
Anchored(x, over) == x \in Governed => over = artifacts[x].supersedes

MayReplace(x, over) ==
    /\ artifacts[x].status = "staged" /\ Proven(x)
    /\ over \in Having(Selectable) \ {x}
    /\ Anchored(x, over)

MayStabilize(x) ==
    /\ artifacts[x].status = "active"
    /\ Having(Selectable) \subseteq {x}
    /\ trials[x] = "rolled_out" /\ evidence[x] = "approval"

Granted(h) ==
    CASE h.op = "stage"              -> h.row.status = "candidate"
      [] h.op = "activate_staged"    -> MayActivate(h.id) /\ ~Locked(h.id)
      [] h.op = "replace_selectable" -> /\ MayReplace(h.id, h.over)
                                        /\ ~Locked(h.id) /\ ~Locked(h.over)
      [] h.op = "stabilize_active"   -> MayStabilize(h.id)
      [] h.op = "rollback"           -> h.trial \in {"staged", "rolled_out"}
      [] h.op \in {"accept", "dismiss"} -> h.recommended = "pending"

Hold(op, x, c, over) ==
    [op |-> op, id |-> x, row |-> artifacts[x], trial |-> trials[x],
     action |-> c, over |-> over,
     recommended |-> IF c = "none" THEN "none" ELSE recommendations[x][c]]

\* the hands a transaction can begin with
Openings(op, x) ==
    CASE op \in {"accept", "dismiss"} -> {Hold(op, x, c, "none") : c \in Actions}
      [] op = "replace_selectable"    -> {Hold(op, x, "none", s) : s \in Having(Selectable)}
      [] OTHER                        -> {Hold(op, x, "none", "none")}

-----------------------------------------------------------------------------
(* What a transaction writes.  A row that was read is written whole.        *)

Deprecated(row) == [row EXCEPT !.status = "deprecated", !.previous = "none"]

\* Mutant of RolledBack: a suppressed artifact is left.
RolledBackIfServed(row) == IF row.status \in Selectable THEN Deprecated(row) ELSE row

\* a rollback deprecates the artifact it read if that was in production
RolledBack(row) == IF row.status \in Production THEN Deprecated(row) ELSE row

Staged(h) == [artifacts EXCEPT ![h.id] = [h.row EXCEPT !.status = "staged"]]
Activated(h) == [artifacts EXCEPT ![h.id] = [h.row EXCEPT !.status = "active"]]
Replaced(h) ==
    [artifacts EXCEPT ![h.over] = Deprecated(@),
                      ![h.id] = [h.row EXCEPT !.status = "active", !.supersedes = h.over]]
Stabilized(h) == [artifacts EXCEPT ![h.id] = [h.row EXCEPT !.status = "stable"]]

Rows(h) ==
    CASE h.op = "stage"              -> Staged(h)
      [] h.op = "activate_staged"    -> Activated(h)
      [] h.op = "replace_selectable" -> Replaced(h)
      [] h.op = "stabilize_active"   -> Stabilized(h)
      [] h.op = "rollback"           -> IF RolledBack(h.row) = h.row THEN artifacts
                                        ELSE [artifacts EXCEPT ![h.id] = RolledBack(h.row)]

\* the lifecycle services answer with the artifact when it is already there
Reused(c, row) ==
    \/ c = "activate_staged" /\ row.status = "active"
    \/ /\ c = "replace_selectable" /\ row.status = "active"
       /\ row.supersedes # "none" /\ artifacts[row.supersedes].status = "deprecated"
    \/ c = "stabilize_active" /\ row.status = "stable"
    \/ c = "archive_deprecated" /\ row.status = "archived"

Archive(x) == [artifacts EXCEPT ![x].status = "archived"]

\* Mutant of Executed: what is refused counts as executed.
ExecutedOrRefused(c, x) ==
    \/ UNCHANGED <<artifacts, evidence>>
    \/ /\ c = "archive_deprecated" /\ artifacts[x].status = "deprecated"
       /\ artifacts' = Archive(x) /\ UNCHANGED evidence

\* accepting executes the action first; a refusal leaves the recommendation
Executed(c, x) ==
    \/ Reused(c, artifacts[x]) /\ UNCHANGED <<artifacts, evidence>>
    \/ /\ c = "archive_deprecated" /\ artifacts[x].status = "deprecated"
       /\ artifacts' = Archive(x) /\ UNCHANGED evidence
    \/ /\ c \in Transactions
       /\ \E h \in Openings(c, x) : Granted(h) /\ artifacts' = Rows(h)
       /\ Indexed(artifacts')
       /\ evidence' = Approved(x)

Decision(h, status) ==
    recommendations' = [recommendations EXCEPT ![h.id][h.action] = status]

Effect(h) ==
    CASE h.op = "accept"   -> /\ Executed(h.action, h.id)
                              /\ Decision(h, "accepted")
                              /\ UNCHANGED trials
      [] h.op = "dismiss"  -> /\ Decision(h, "dismissed")
                              /\ UNCHANGED <<artifacts, trials, evidence>>
      [] h.op = "rollback" -> /\ trials' = [trials EXCEPT ![h.id] = "rolled_back"]
                              /\ artifacts' = Rows(h)
                              /\ UNCHANGED <<evidence, recommendations>>
      [] OTHER             -> /\ artifacts' = Rows(h)
                              /\ evidence' = IF h.op = "stage" THEN evidence ELSE Approved(h.id)
                              /\ UNCHANGED <<trials, recommendations>>

-----------------------------------------------------------------------------
(* Transactions.                                                            *)

Fresh(h) == h = Hold(h.op, h.id, h.action, h.over)

Begin(t, h) ==
    /\ hands[t] = Idle /\ h.op \in Held
    /\ Granted(h)
    /\ hands' = [hands EXCEPT ![t] = h]
    /\ UNCHANGED <<artifacts, trials, evidence, recommendations, stale>>

\* the artifact whose row a transaction writes and has not locked when it was read;
\* a dismissal writes none, nor does the rollback of an artifact out of production
Writes(h) ==
    CASE h.op = "dismiss"  -> {}
      [] h.op = "rollback" -> IF RolledBack(h.row) = h.row THEN {} ELSE {h.id}
      [] OTHER             -> {h.id}

\* a transaction in whose course nothing else is committed
Undisturbed(h) ==
    /\ Granted(h) /\ \A x \in Writes(h) : ~Locked(x)
    /\ Effect(h) /\ Indexed(artifacts')
    /\ UNCHANGED <<hands, stale>>

\* it has waited for the rows that others had locked
Commit(t) ==
    /\ hands[t] # Idle
    /\ \A u \in Actors \ {t} : Writes(hands[t]) \cap LockedBy(u) = {}
    /\ Effect(hands[t]) /\ Indexed(artifacts')
    /\ hands' = [hands EXCEPT ![t] = Idle]
    /\ stale' = (stale \/ ~Fresh(hands[t]))

\* an index or a check refuses the write, or the connection is lost
Abort(t) ==
    /\ hands[t] # Idle
    /\ hands' = [hands EXCEPT ![t] = Idle]
    /\ UNCHANGED <<artifacts, trials, evidence, recommendations, stale>>

-----------------------------------------------------------------------------
(* Operations on locked rows.                                               *)

Rewrite(x, rows) ==
    /\ ~Locked(x) /\ Indexed(rows)
    /\ artifacts' = rows
    /\ UNCHANGED <<trials, evidence, recommendations, hands, stale>>

SuppressSelectable(x) ==
    /\ artifacts[x].status \in Selectable
    /\ Rewrite(x, [artifacts EXCEPT ![x].status = "suppressed", ![x].previous = artifacts[x].status])

\* Mutant of Restorable: a deprecated artifact comes back as well.
RestorableLater(row) == row.status \in {"suppressed", "deprecated"}

Restorable(row) == row.status = "suppressed" /\ row.previous # "none"

\* a row of another artifact that is selectable refuses it, and so does the index
RestoreSuppressed(x) ==
    /\ Restorable(artifacts[x])
    /\ Rewrite(x, [artifacts EXCEPT ![x].status = artifacts[x].previous, ![x].previous = "none"])

ArchiveDeprecated(x) ==
    /\ artifacts[x].status = "deprecated"
    /\ Rewrite(x, Archive(x))

\* refused while the proposal's rollout or binding is in use
DeactivateActive(x) ==
    /\ artifacts[x].status \in Selectable
    /\ trials[x] \notin {"staged", "rolled_out"}
    /\ Rewrite(x, [artifacts EXCEPT ![x] = Deprecated(@)])

-----------------------------------------------------------------------------
(* The curator's job.                                                       *)

\* Mutant of Recommended: replacements are looked for when nothing is in use.
RecommendedUnopposed(x) ==
    IF artifacts[x].status = "staged" /\ MayActivate(x) THEN {"activate_staged"}
    ELSE IF artifacts[x].status = "deprecated" THEN {"archive_deprecated"} ELSE {}

\* the action it recommends for an artifact as it stands
Recommended(x) ==
    CASE artifacts[x].status = "staged" /\ x \in Governed ->
             IF \E s \in Having(Selectable) : MayReplace(x, s) THEN {"replace_selectable"}
             ELSE IF MayActivate(x) THEN {"activate_staged"} ELSE {}
      [] artifacts[x].status = "active" ->
             IF trials[x] = "rolled_out" /\ evidence[x] = "approval" THEN {"stabilize_active"} ELSE {}
      [] artifacts[x].status = "deprecated" -> {"archive_deprecated"}
      [] OTHER -> {}

CreateRecommendation(x, c) ==
    /\ recommendations' = [recommendations EXCEPT ![x][c] = "pending"]
    /\ UNCHANGED <<artifacts, trials, evidence, hands, stale>>

\* once in its window, and not again while one is pending
Recommend(x, c) ==
    /\ c \in Recommended(x) \cap Advised
    /\ recommendations[x][c] = "none"
    /\ CreateRecommendation(x, c)

\* the scan takes artifacts in every status but candidate
Curate(x) == \E c \in Actions : Recommend(x, c)

\* everything but the rollouts' observations
Lifecycle ==
    \/ \E x \in Artifacts :
          \/ StartTrial(x) \/ PromoteTrial(x)
          \/ CreateCandidate(x)
          \/ \E s \in Artifacts : StageReplacement(x, s)
          \/ SuppressSelectable(x) \/ RestoreSuppressed(x)
          \/ ArchiveDeprecated(x) \/ DeactivateActive(x)
          \/ Curate(x)
          \/ \E op \in Transactions : \E h \in Openings(op, x) :
                Undisturbed(h) \/ \E t \in Actors : Begin(t, h)
    \/ \E t \in Actors : Commit(t) \/ Abort(t)

Next == Lifecycle \/ \E x \in Artifacts : Gather(x) \/ Regress(x)

Spec == Init /\ [][Next]_vars

\* the curator's job runs periodically; operators need never come
FairSpec ==
    /\ Spec
    /\ \A x \in Artifacts, c \in Actions : WF_vars(Recommend(x, c))

-----------------------------------------------------------------------------
(* Properties.                                                              *)

\* Without a stale write, what is in production, or suppressed there, rests on a
\* rollout that is rolled out.
ProductionIsRolledOut ==
    ~stale => \A x \in Having(Production) : trials[x] = "rolled_out"

\* Only a stale write brings a deprecated artifact back.
RetiredStays ==
    [][\A x \in Artifacts :
          (artifacts[x].status \in Retired /\ artifacts'[x].status \notin Retired)
              => (\E t \in Actors : hands[t] # Idle /\ ~Fresh(hands[t]))]_vars

\* A recommendation that becomes accepted has been carried out.
Outcome == [activate_staged |-> {"active"}, replace_selectable |-> {"active"},
            stabilize_active |-> {"stable"}, archive_deprecated |-> {"archived"}]
AcceptedIsDone ==
    [][\A x \in Artifacts, c \in Actions :
          (recommendations[x][c] # "accepted" /\ recommendations'[x][c] = "accepted")
              => artifacts'[x].status \in Outcome[c]]_vars

\* What the curator should recommend is recommended, or is no longer called for.
ReadyIsRecommended ==
    \A x \in Governed :
        (artifacts[x].status = "staged" /\ \E s \in Having(Selectable) : MayReplace(x, s))
            ~> \/ recommendations[x]["replace_selectable"] # "none"
               \/ ~\E s \in Having(Selectable) : MayReplace(x, s)

\* rules/security.md: what was rolled back is not silently put in use again.
RolledBackIsNotInUse ==
    \A x \in Having(Selectable) : trials[x] # "rolled_back"

=============================================================================
