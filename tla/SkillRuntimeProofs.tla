-------------------------- MODULE SkillRuntimeProofs --------------------------
(***************************************************************************)
(* Proofs about SkillArtifacts and SkillRuntime, for any artifacts, any    *)
(* transactions left open and any plans offered.                           *)
(*                                                                         *)
(* A transaction that puts an artifact in use was granted that on rows it  *)
(* had read: HandOK is what the grant leaves behind, and EffectShape what  *)
(* such a transaction can do to the rows.                                  *)
(***************************************************************************)
EXTENDS SkillRuntime, TLAPS

Installing == {"activate_staged", "replace_selectable", "stabilize_active"}

\* What a transaction that was granted knows of the rows it has read.
HandOK(h) ==
    /\ h \in Hand
    /\ h.op = "stage" => h.row.status = "candidate"
    /\ h.op \in Installing => h.row.status \in {"staged", "active"} /\ h.trial = "rolled_out"
    /\ h.op = "replace_selectable" => h.over \in Artifacts \ {h.id}
    /\ h.op \in {"accept", "dismiss"} => h.action \in Actions

Ready == TypeOK /\ \A t \in Actors : hands[t] = Idle \/ HandOK(hands[t])

\* What is written on the row of an artifact that is not left, or retired.
Written(h, y, row) ==
    /\ y = h.id
    /\ \/ h.op = "stage" /\ row.status = "staged"
       \/ h.op \in Installing /\ row.status \in Selectable

-----------------------------------------------------------------------------
(* Rows and hands.                                                          *)

\* The fields of a row, and of one that is given another status.
LEMMA ArtifactFields ==
    ASSUME NEW r \in Artifact
    PROVE  r.status \in Statuses /\ r.previous \in {"none"} \cup Selectable
BY DEF Artifact

\* Changing the status of an artifact leaves an artifact.
LEMMA StatusGiven ==
    ASSUME NEW r \in Artifact, NEW s \in Statuses
    PROVE  [r EXCEPT !.status = s] \in Artifact /\ [r EXCEPT !.status = s].status = s
BY DEF Artifact

\* So does changing its status with the artifact to return to.
LEMMA RowGiven ==
    ASSUME NEW r \in Artifact, NEW s \in Statuses, NEW q \in {"none"} \cup Selectable
    PROVE  /\ [r EXCEPT !.status = s, !.previous = q] \in Artifact
           /\ [r EXCEPT !.status = s, !.previous = q].status = s
<1> DEFINE given == [r EXCEPT !.status = s]
<1>1. given \in Artifact /\ given.status = s
  BY StatusGiven
<1>2. [r EXCEPT !.status = s, !.previous = q] = [given EXCEPT !.previous = q]
  OBVIOUS
<1> HIDE DEF given
<1>3. [given EXCEPT !.previous = q] \in Artifact /\ [given EXCEPT !.previous = q].status = s
  BY <1>1 DEF Artifact
<1> QED
  BY <1>2, <1>3

\* A deprecated artifact is an artifact of that status.
LEMMA DeprecatedShape ==
    ASSUME NEW r \in Artifact
    PROVE  Deprecated(r) \in Artifact /\ Deprecated(r).status = "deprecated"
BY DEF Artifact, Deprecated, Statuses, Retired

\* The fields of the hand of an open transaction.
LEMMA HandFields ==
    ASSUME NEW h \in Hand
    PROVE  /\ h.op \in Transactions /\ h.id \in Artifacts /\ h.row \in Artifact
           /\ h.trial \in {"none", "staged", "rolled_out", "rolled_back"}
           /\ h.over \in {"none"} \cup Artifacts
BY DEF Hand

\* What a transaction reads when it begins.
LEMMA OpeningShape ==
    ASSUME TypeOK, NEW op \in Transactions, NEW x \in Artifacts, NEW h \in Openings(op, x)
    PROVE  /\ h \in Hand /\ h.op = op /\ h.id = x
           /\ h.row = artifacts[x] /\ h.trial = trials[x] /\ Fresh(h)
           /\ op \in {"accept", "dismiss"} => h.action \in Actions
           /\ op = "replace_selectable" => h.over \in Having(Selectable)
<1>1. PICK c \in {"none"} \cup Actions, over \in {"none"} \cup Artifacts :
          /\ h = Hold(op, x, c, over)
          /\ op \in {"accept", "dismiss"} => c \in Actions
          /\ op = "replace_selectable" => over \in Having(Selectable)
  <2>1. CASE op \in {"accept", "dismiss"}
    <3>1. Openings(op, x) = {Hold(op, x, c, "none") : c \in Actions}
      BY <2>1 DEF Openings
    <3> QED
      BY <2>1, <3>1
  <2>2. CASE op = "replace_selectable"
    <3>1. Openings(op, x) = {Hold(op, x, "none", s) : s \in Having(Selectable)}
      BY <2>2 DEF Openings
    <3> QED
      BY <2>2, <3>1 DEF Having
  <2>3. CASE op \notin {"accept", "dismiss", "replace_selectable"}
    <3>1. Openings(op, x) = {Hold(op, x, "none", "none")}
      BY <2>3 DEF Openings
    <3> QED
      BY <2>3, <3>1
  <2> QED
    BY <2>1, <2>2, <2>3
<1> DEFINE r == IF c = "none" THEN "none" ELSE recommendations[x][c]
<1>2. r \in {"none", "pending"} \cup Decided
  BY DEF TypeOK
<1>3. h = [op |-> op, id |-> x, row |-> artifacts[x], trial |-> trials[x],
           action |-> c, over |-> over, recommended |-> r]
  BY <1>1 DEF Hold
<1>4. artifacts[x] \in Artifact /\ trials[x] \in {"none", "staged", "rolled_out", "rolled_back"}
  BY DEF TypeOK
<1> HIDE DEF r
<1>5. h \in Hand
  BY <1>2, <1>3, <1>4 DEF Hand
<1>6. /\ h.op = op /\ h.id = x /\ h.row = artifacts[x] /\ h.trial = trials[x]
      /\ h.action = c /\ h.over = over
  BY <1>3
<1>7. Fresh(h)
  BY <1>1, <1>6 DEF Fresh
<1> QED
  BY <1>1, <1>5, <1>6, <1>7

\* What a grant leaves behind.
LEMMA GrantShape ==
    ASSUME TypeOK, NEW op \in Transactions, NEW x \in Artifacts, NEW h \in Openings(op, x),
           Granted(h)
    PROVE  HandOK(h) /\ (op \in Installing => evidence[x] # "none")
<1>1. /\ h \in Hand /\ h.op = op /\ h.id = x
      /\ h.row = artifacts[x] /\ h.trial = trials[x]
      /\ op \in {"accept", "dismiss"} => h.action \in Actions
  BY OpeningShape
<1>2. CASE op = "stage"
  <2>1. h.row.status = "candidate"
    BY <1>1, <1>2 DEF Granted
  <2> QED
    BY <1>1, <1>2, <2>1 DEF HandOK, Installing
<1>3. CASE op = "activate_staged"
  <2>1. MayActivate(x)
    BY <1>1, <1>3 DEF Granted
  <2>2. artifacts[x].status = "staged" /\ trials[x] = "rolled_out" /\ evidence[x] # "none"
    BY <2>1 DEF MayActivate, Proven
  <2> QED
    BY <1>1, <1>3, <2>2 DEF HandOK, Installing
<1>4. CASE op = "replace_selectable"
  <2>1. MayReplace(x, h.over)
    BY <1>1, <1>4 DEF Granted
  <2>2. /\ artifacts[x].status = "staged" /\ trials[x] = "rolled_out" /\ evidence[x] # "none"
        /\ h.over \in Artifacts \ {x}
    BY <2>1 DEF MayReplace, Proven, Having
  <2> QED
    BY <1>1, <1>4, <2>2 DEF HandOK, Installing
<1>5. CASE op = "stabilize_active"
  <2>1. MayStabilize(x)
    BY <1>1, <1>5 DEF Granted
  <2>2. artifacts[x].status = "active" /\ trials[x] = "rolled_out" /\ evidence[x] # "none"
    BY <2>1 DEF MayStabilize
  <2> QED
    BY <1>1, <1>5, <2>2 DEF HandOK, Installing
<1>6. CASE op \in {"rollback", "accept", "dismiss"}
  BY <1>1, <1>6 DEF HandOK, Installing
<1> QED
  BY <1>2, <1>3, <1>4, <1>5, <1>6 DEF Transactions

-----------------------------------------------------------------------------
(* What a transaction does to the rows.                                     *)

\* Every row but its own is left or deprecated; a rollback deprecates its own if
\* that was in production.
LEMMA RowsShape ==
    ASSUME TypeOK, NEW h, HandOK(h), h.op \in {"stage", "rollback"} \cup Installing
    PROVE  /\ Rows(h) \in [Artifacts -> Artifact]
           /\ \A y \in Artifacts : \/ Rows(h)[y] = artifacts[y]
                                  \/ Rows(h)[y].status = "deprecated"
                                  \/ Written(h, y, Rows(h)[y])
           /\ (h.op = "rollback" /\ h.row.status \in Production)
                  => Rows(h)[h.id].status = "deprecated"
<1>1. /\ artifacts \in [Artifacts -> Artifact] /\ h.id \in Artifacts /\ h.row \in Artifact
      /\ h.over \in {"none"} \cup Artifacts
  BY HandFields DEF TypeOK, HandOK
<1>2. \A s \in {"staged", "active", "stable"} :
          /\ [h.row EXCEPT !.status = s] \in Artifact
          /\ [h.row EXCEPT !.status = s].status = s
  BY <1>1, StatusGiven DEF Statuses, Production, Selectable
<1>3. CASE h.op = "stage"
  <2> DEFINE new == [h.row EXCEPT !.status = "staged"]
  <2>1. Rows(h) = [artifacts EXCEPT ![h.id] = new]
    BY <1>3 DEF Rows, Staged
  <2>2. new \in Artifact /\ new.status = "staged"
    BY <1>2
  <2> HIDE DEF new
  <2> QED
    BY <1>1, <1>3, <2>1, <2>2 DEF Written
<1>4. CASE h.op = "activate_staged"
  <2> DEFINE new == [h.row EXCEPT !.status = "active"]
  <2>1. Rows(h) = [artifacts EXCEPT ![h.id] = new]
    BY <1>4 DEF Rows, Activated
  <2>2. new \in Artifact /\ new.status = "active"
    BY <1>2
  <2> HIDE DEF new
  <2> QED
    BY <1>1, <1>4, <2>1, <2>2 DEF Written, Installing, Selectable
<1>5. CASE h.op = "replace_selectable"
  <2> DEFINE new == [h.row EXCEPT !.status = "active", !.supersedes = h.over]
             old == Deprecated(artifacts[h.over])
  <2>0. h.over \in Artifacts \ {h.id}
    BY <1>5 DEF HandOK
  <2>1. Rows(h) = [artifacts EXCEPT ![h.over] = old, ![h.id] = new]
    BY <1>1, <1>5, <2>0 DEF Rows, Replaced
  <2>2. new \in Artifact /\ new.status = "active"
    BY <1>1, <2>0 DEF Artifact, Statuses, Production, Selectable
  <2>3. old \in Artifact /\ old.status = "deprecated"
    BY <1>1, <2>0, DeprecatedShape
  <2> HIDE DEF new, old
  <2> QED
    BY <1>1, <1>5, <2>0, <2>1, <2>2, <2>3 DEF Written, Installing, Selectable
<1>6. CASE h.op = "stabilize_active"
  <2> DEFINE new == [h.row EXCEPT !.status = "stable"]
  <2>1. Rows(h) = [artifacts EXCEPT ![h.id] = new]
    BY <1>6 DEF Rows, Stabilized
  <2>2. new \in Artifact /\ new.status = "stable"
    BY <1>2
  <2> HIDE DEF new
  <2> QED
    BY <1>1, <1>6, <2>1, <2>2 DEF Written, Installing, Selectable
<1>7. CASE h.op = "rollback"
  <2> DEFINE new == RolledBack(h.row)
  <2>1. Rows(h) = IF new = h.row THEN artifacts ELSE [artifacts EXCEPT ![h.id] = new]
    BY <1>7 DEF Rows
  <2>2. /\ new = h.row \/ (new \in Artifact /\ new.status = "deprecated")
        /\ h.row.status \in Production => new # h.row
    BY <1>1, DeprecatedShape DEF RolledBack, Production, Selectable
  <2> HIDE DEF new
  <2> QED
    BY <1>1, <1>7, <2>1, <2>2
<1> QED
  BY <1>3, <1>4, <1>5, <1>6, <1>7 DEF Installing

\* An artifact archived on the way was deprecated.
LEMMA ArchiveShape ==
    ASSUME TypeOK, NEW x \in Artifacts
    PROVE  /\ Archive(x) \in [Artifacts -> Artifact]
           /\ Archive(x)[x].status = "archived"
           /\ \A y \in Artifacts \ {x} : Archive(x)[y] = artifacts[y]
<1>1. artifacts \in [Artifacts -> Artifact] /\ "archived" \in Statuses
  BY DEF TypeOK, Statuses, Retired
<1>2. /\ [artifacts[x] EXCEPT !.status = "archived"] \in Artifact
      /\ [artifacts[x] EXCEPT !.status = "archived"].status = "archived"
  BY <1>1, StatusGiven
<1>3. Archive(x) = [artifacts EXCEPT ![x] = [artifacts[x] EXCEPT !.status = "archived"]]
  BY <1>1 DEF Archive
<1> QED
  BY <1>1, <1>2, <1>3

\* An approval makes no evidence where there was none.
LEMMA ApprovedShape ==
    ASSUME TypeOK, NEW x \in Artifacts
    PROVE  /\ Approved(x) \in [Artifacts -> Evidence]
           /\ \A y \in Artifacts : Approved(x)[y] # "none" => evidence[y] # "none"
BY DEF TypeOK, Approved, Evidence

\* Accepting puts an artifact in use on what holds when it commits.
LEMMA ExecutedShape ==
    ASSUME TypeOK, NEW c \in Actions, NEW x \in Artifacts, Executed(c, x)
    PROVE  /\ artifacts' \in [Artifacts -> Artifact] /\ evidence' \in [Artifacts -> Evidence]
           /\ \A y \in Artifacts : evidence'[y] # "none" => evidence[y] # "none"
           /\ \A y \in Artifacts :
                 \/ artifacts'[y] = artifacts[y]
                 \/ artifacts'[y].status \in Retired
                 \/ /\ y = x /\ artifacts'[y].status \in Selectable
                    /\ artifacts[y].status \in {"staged", "active"}
                    /\ trials[y] = "rolled_out" /\ evidence[y] # "none"
<1>1. CASE UNCHANGED <<artifacts, evidence>>
  BY <1>1 DEF TypeOK
<1>2. CASE c = "archive_deprecated" /\ artifacts' = Archive(x) /\ UNCHANGED evidence
  BY <1>2, ArchiveShape DEF TypeOK, Retired
<1>3. CASE /\ c \in Transactions
           /\ \E h \in Openings(c, x) : Granted(h) /\ artifacts' = Rows(h)
           /\ evidence' = Approved(x)
  <2>1. PICK h \in Openings(c, x) : Granted(h) /\ artifacts' = Rows(h)
    BY <1>3
  <2>2. c \in Installing /\ c \in Transactions
    BY <1>3 DEF Actions, Transactions, Installing
  <2>3. h.op = c /\ h.id = x /\ h.row = artifacts[x] /\ h.trial = trials[x]
    BY <2>2, OpeningShape
  <2>4. HandOK(h) /\ evidence[x] # "none"
    BY <2>1, <2>2, GrantShape
  <2>5. artifacts[x].status \in {"staged", "active"} /\ trials[x] = "rolled_out"
    BY <2>2, <2>3, <2>4 DEF HandOK
  <2>6. /\ Rows(h) \in [Artifacts -> Artifact]
        /\ \A y \in Artifacts : \/ Rows(h)[y] = artifacts[y]
                               \/ Rows(h)[y].status = "deprecated"
                               \/ Written(h, y, Rows(h)[y])
    BY <2>2, <2>3, <2>4, RowsShape
  <2>7. \A y \in Artifacts : Written(h, y, Rows(h)[y]) =>
            y = x /\ Rows(h)[y].status \in Selectable
    BY <2>2, <2>3 DEF Written, Installing
  <2> QED
    BY <1>3, <2>1, <2>4, <2>5, <2>6, <2>7, ApprovedShape DEF Retired
<1> QED
  BY <1>1, <1>2, <1>3 DEF Executed

\* What the writes of a transaction that was granted amount to.
Touched(h, y, row) ==
    \/ row = artifacts[y]
    \/ row.status \in Retired
    \/ Written(h, y, row)
    \/ /\ y = h.id /\ h.op = "accept" /\ row.status \in Selectable
       /\ artifacts[y].status \in {"staged", "active"}
       /\ trials[y] = "rolled_out" /\ evidence[y] # "none"

\* What a transaction can do: it touches artifacts as its hand allows, makes no
\* evidence, and ends a trial only by a rollback.
LEMMA EffectShape ==
    ASSUME TypeOK, NEW h, HandOK(h), Effect(h)
    PROVE  /\ artifacts' \in [Artifacts -> Artifact]
           /\ evidence' \in [Artifacts -> Evidence]
           /\ trials' \in [Artifacts -> {"none", "staged", "rolled_out", "rolled_back"}]
           /\ recommendations' \in
                  [Artifacts -> [Actions -> {"none", "pending"} \cup Decided]]
           /\ \A y \in Artifacts : evidence'[y] # "none" => evidence[y] # "none"
           /\ \A y \in Artifacts : Touched(h, y, artifacts'[y])
           /\ IF h.op = "rollback"
              THEN /\ trials' = [trials EXCEPT ![h.id] = "rolled_back"]
                   /\ h.row.status \in Production => artifacts'[h.id].status = "deprecated"
              ELSE trials' = trials
<1>1. /\ h.id \in Artifacts /\ h.op \in Transactions
      /\ artifacts \in [Artifacts -> Artifact] /\ evidence \in [Artifacts -> Evidence]
      /\ trials \in [Artifacts -> {"none", "staged", "rolled_out", "rolled_back"}]
      /\ recommendations \in [Artifacts -> [Actions -> {"none", "pending"} \cup Decided]]
  BY HandFields DEF TypeOK, HandOK
<1>2. ASSUME NEW s \in Decided, Decision(h, s), h.op \in {"accept", "dismiss"}
      PROVE  recommendations' \in [Artifacts -> [Actions -> {"none", "pending"} \cup Decided]]
  <2>1. h.action \in Actions
    BY <1>2 DEF HandOK
  <2>2. recommendations' = [recommendations EXCEPT ![h.id] =
                               [recommendations[h.id] EXCEPT ![h.action] = s]]
    BY <1>2 DEF Decision
  <2>3. [recommendations[h.id] EXCEPT ![h.action] = s]
            \in [Actions -> {"none", "pending"} \cup Decided]
    BY <1>1, <1>2, <2>1
  <2> QED
    BY <1>1, <2>2, <2>3
<1>3. CASE h.op = "accept"
  <2>1. Executed(h.action, h.id) /\ Decision(h, "accepted") /\ UNCHANGED trials
    BY <1>3 DEF Effect
  <2>2. h.action \in Actions
    BY <1>3 DEF HandOK
  <2>3. /\ artifacts' \in [Artifacts -> Artifact] /\ evidence' \in [Artifacts -> Evidence]
        /\ \A y \in Artifacts : evidence'[y] # "none" => evidence[y] # "none"
        /\ \A y \in Artifacts :
              \/ artifacts'[y] = artifacts[y]
              \/ artifacts'[y].status \in Retired
              \/ /\ y = h.id /\ artifacts'[y].status \in Selectable
                 /\ artifacts[y].status \in {"staged", "active"}
                 /\ trials[y] = "rolled_out" /\ evidence[y] # "none"
    BY <1>1, <2>1, <2>2, ExecutedShape
  <2>4. \A y \in Artifacts : Touched(h, y, artifacts'[y])
    BY <1>3, <2>3 DEF Touched
  <2>5. "accepted" \in Decided
    BY DEF Decided
  <2>6. recommendations' \in [Artifacts -> [Actions -> {"none", "pending"} \cup Decided]]
    BY <1>2, <1>3, <2>1, <2>5
  <2> QED
    BY <1>1, <1>3, <2>1, <2>3, <2>4, <2>6
<1>4. CASE h.op = "dismiss"
  <2>1. Decision(h, "dismissed") /\ UNCHANGED <<artifacts, trials, evidence>>
    BY <1>4 DEF Effect
  <2>2. "dismissed" \in Decided
    BY DEF Decided
  <2>3. recommendations' \in [Artifacts -> [Actions -> {"none", "pending"} \cup Decided]]
    BY <1>2, <1>4, <2>1, <2>2
  <2>4. \A y \in Artifacts : Touched(h, y, artifacts'[y])
    BY <2>1 DEF Touched
  <2> QED
    BY <1>1, <1>4, <2>1, <2>3, <2>4
<1>5. ASSUME h.op \in {"stage", "rollback"} \cup Installing
      PROVE  /\ Rows(h) \in [Artifacts -> Artifact]
             /\ \A y \in Artifacts : Touched(h, y, Rows(h)[y])
             /\ (h.op = "rollback" /\ h.row.status \in Production)
                    => Rows(h)[h.id].status = "deprecated"
  <2>1. /\ Rows(h) \in [Artifacts -> Artifact]
        /\ \A y \in Artifacts : \/ Rows(h)[y] = artifacts[y]
                               \/ Rows(h)[y].status = "deprecated"
                               \/ Written(h, y, Rows(h)[y])
        /\ (h.op = "rollback" /\ h.row.status \in Production)
               => Rows(h)[h.id].status = "deprecated"
    BY <1>5, RowsShape
  <2>2. "deprecated" \in Retired
    BY DEF Retired
  <2> QED
    BY <2>1, <2>2 DEF Touched
<1>6. CASE h.op = "rollback"
  <2>1. /\ trials' = [trials EXCEPT ![h.id] = "rolled_back"]
        /\ artifacts' = Rows(h) /\ UNCHANGED <<evidence, recommendations>>
    BY <1>6 DEF Effect
  <2>2. trials' \in [Artifacts -> {"none", "staged", "rolled_out", "rolled_back"}]
    BY <1>1, <2>1
  <2> QED
    BY <1>1, <1>5, <1>6, <2>1, <2>2
<1>7. CASE h.op \in {"stage"} \cup Installing
  <2>1. /\ artifacts' = Rows(h)
        /\ evidence' = IF h.op = "stage" THEN evidence ELSE Approved(h.id)
        /\ UNCHANGED <<trials, recommendations>>
    BY <1>7 DEF Effect, Installing
  <2>2. evidence' \in [Artifacts -> Evidence]
        /\ \A y \in Artifacts : evidence'[y] # "none" => evidence[y] # "none"
    BY <1>1, <2>1, ApprovedShape
  <2>3. h.op # "rollback"
    BY <1>7 DEF Installing
  <2> QED
    BY <1>1, <1>5, <1>7, <2>1, <2>2, <2>3
<1> QED
  BY <1>1, <1>3, <1>4, <1>6, <1>7 DEF Transactions, Installing

-----------------------------------------------------------------------------
(* The kinds of steps.                                                      *)

Trials == {"none", "staged", "rolled_out", "rolled_back"}

\* A rollout is started or promoted, or the curator recommends something.
RecordStep ==
    /\ trials' \in [Artifacts -> Trials]
    /\ \A y \in Artifacts : trials[y] = "rolled_out" => trials'[y] = "rolled_out"
    /\ recommendations' \in [Artifacts -> [Actions -> {"none", "pending"} \cup Decided]]
    /\ UNCHANGED <<artifacts, evidence, hands, stale>>

\* Rows that are locked while they are changed.
LockedStep ==
    /\ artifacts' \in [Artifacts -> Artifact]
    /\ \A y \in Artifacts :
          \/ artifacts'[y] = artifacts[y]
          \/ artifacts'[y].status \in Retired
          \/ artifacts[y].status \in Production /\ artifacts'[y].status \in Production
          \/ artifacts[y].status = "none" /\ artifacts'[y].status \in {"candidate", "staged"}
    /\ UNCHANGED <<trials, evidence, recommendations, hands, stale>>

\* A transaction that is granted, and the one that begins with it.
Entitled(h) == HandOK(h) /\ Fresh(h) /\ (h.op \in Installing => evidence[h.id] # "none")

BeginStep(t, h) ==
    /\ Entitled(h)
    /\ hands' = [hands EXCEPT ![t] = h]
    /\ UNCHANGED <<artifacts, trials, evidence, recommendations, stale>>

WholeStep(h) == Entitled(h) /\ Effect(h) /\ UNCHANGED <<hands, stale>>

\* The operations that lock the row they read are of one kind.
LEMMA LockedSteps ==
    ASSUME TypeOK, NEW x \in Artifacts,
           \/ CreateCandidate(x) \/ \E s \in Artifacts : StageReplacement(x, s)
           \/ SuppressSelectable(x) \/ RestoreSuppressed(x)
           \/ ArchiveDeprecated(x) \/ DeactivateActive(x)
    PROVE  LockedStep
<1> USE DEF LockedStep
<1>1. artifacts \in [Artifacts -> Artifact]
  BY DEF TypeOK
<1>2. artifacts[x].status \in Statuses /\ artifacts[x].previous \in {"none"} \cup Selectable
  BY <1>1, ArtifactFields
<1>3. CASE CreateCandidate(x)
  <2> DEFINE new == [Unbuilt EXCEPT !.status = "candidate"]
  <2>1. new \in Artifact /\ new.status = "candidate"
    BY DEF Unbuilt, Artifact, Statuses
  <2>2. artifacts[x].status = "none" /\ artifacts' = [artifacts EXCEPT ![x] = new]
        /\ UNCHANGED <<trials, evidence, recommendations, hands, stale>>
    BY <1>3 DEF CreateCandidate, Insert, Unbuilt
  <2> HIDE DEF new
  <2> QED
    BY <1>1, <2>1, <2>2
<1>4. CASE \E s \in Artifacts : StageReplacement(x, s)
  <2>0. PICK s \in Artifacts : StageReplacement(x, s)
    BY <1>4
  <2> DEFINE new == [Unbuilt EXCEPT !.status = "staged", !.supersedes = s]
  <2>1. new \in Artifact /\ new.status = "staged"
    BY DEF Unbuilt, Artifact, Statuses
  <2>3. Insert(x, new)
    BY <2>0 DEF StageReplacement
  <2>4. Unbuilt.status = "none"
    BY DEF Unbuilt
  <2> HIDE DEF new
  <2>2. artifacts[x].status = "none" /\ artifacts' = [artifacts EXCEPT ![x] = new]
        /\ UNCHANGED <<trials, evidence, recommendations, hands, stale>>
    BY <2>3, <2>4 DEF Insert
  <2> QED
    BY <1>1, <2>1, <2>2
<1>5. CASE SuppressSelectable(x)
  <2> DEFINE new == [artifacts[x] EXCEPT !.status = "suppressed",
                                         !.previous = artifacts[x].status]
  <2>1. artifacts[x].status \in Selectable
    BY <1>5 DEF SuppressSelectable
  <2>2. new \in Artifact /\ new.status = "suppressed"
    BY <1>1, <2>1, RowGiven DEF Statuses, Production
  <2>3. artifacts' = [artifacts EXCEPT ![x] = new]
        /\ UNCHANGED <<trials, evidence, recommendations, hands, stale>>
    BY <1>1, <1>5 DEF SuppressSelectable, Rewrite
  <2> HIDE DEF new
  <2> QED
    BY <1>1, <2>1, <2>2, <2>3 DEF Production
<1>6. CASE RestoreSuppressed(x)
  <2> DEFINE new == [artifacts[x] EXCEPT !.status = artifacts[x].previous,
                                         !.previous = "none"]
  <2>1. artifacts[x].status = "suppressed" /\ artifacts[x].previous \in Selectable
    BY <1>2, <1>6 DEF RestoreSuppressed, Restorable
  <2>4. artifacts[x].previous \in Statuses /\ artifacts[x] \in Artifact
    BY <1>1, <2>1 DEF Statuses, Production
  <2>5. PICK s \in Statuses : s = artifacts[x].previous
    BY <2>4
  <2>6. /\ [artifacts[x] EXCEPT !.status = s, !.previous = "none"] \in Artifact
        /\ [artifacts[x] EXCEPT !.status = s, !.previous = "none"].status = s
    BY <2>4, RowGiven
  <2>2. new \in Artifact /\ new.status \in Selectable
    BY <2>1, <2>5, <2>6
  <2>3. artifacts' = [artifacts EXCEPT ![x] = new]
        /\ UNCHANGED <<trials, evidence, recommendations, hands, stale>>
    BY <1>1, <1>6 DEF RestoreSuppressed, Rewrite
  <2> HIDE DEF new
  <2> QED
    BY <1>1, <2>1, <2>2, <2>3 DEF Production
<1>7. CASE ArchiveDeprecated(x)
  <2>1. artifacts' = Archive(x) /\ UNCHANGED <<trials, evidence, recommendations, hands, stale>>
    BY <1>7 DEF ArchiveDeprecated, Rewrite
  <2> QED
    BY <2>1, ArchiveShape DEF Retired
<1>8. CASE DeactivateActive(x)
  <2> DEFINE new == Deprecated(artifacts[x])
  <2>1. new \in Artifact /\ new.status \in Retired
    BY <1>1, DeprecatedShape DEF Retired
  <2>2. artifacts' = [artifacts EXCEPT ![x] = new]
        /\ UNCHANGED <<trials, evidence, recommendations, hands, stale>>
    BY <1>1, <1>8 DEF DeactivateActive, Rewrite
  <2> HIDE DEF new
  <2> QED
    BY <1>1, <2>1, <2>2
<1> QED
  BY <1>3, <1>4, <1>5, <1>6, <1>7, <1>8

\* So are those that only write trials and recommendations, and take no trial back.
LEMMA RecordSteps ==
    ASSUME TypeOK, NEW x \in Artifacts, StartTrial(x) \/ PromoteTrial(x) \/ Curate(x)
    PROVE  RecordStep
<1> USE DEF RecordStep, Trials
<1>1. /\ trials \in [Artifacts -> Trials]
      /\ recommendations \in [Artifacts -> [Actions -> {"none", "pending"} \cup Decided]]
  BY DEF TypeOK
<1>2. CASE StartTrial(x)
  BY <1>1, <1>2 DEF StartTrial
<1>3. CASE PromoteTrial(x)
  BY <1>1, <1>3 DEF PromoteTrial
<1>4. CASE Curate(x)
  <2>1. PICK c \in Actions : Recommend(x, c)
    BY <1>4 DEF Curate
  <2>2. recommendations' = [recommendations EXCEPT ![x] =
                               [recommendations[x] EXCEPT ![c] = "pending"]]
        /\ UNCHANGED <<artifacts, trials, evidence, hands, stale>>
    BY <2>1 DEF Recommend, CreateRecommendation
  <2>3. [recommendations[x] EXCEPT ![c] = "pending"]
            \in [Actions -> {"none", "pending"} \cup Decided]
    BY <1>1
  <2> QED
    BY <1>1, <2>2, <2>3
<1> QED
  BY <1>2, <1>3, <1>4

\* Every step of the lifecycle is of one of these kinds, or a step of a hand.
LEMMA LifecycleSteps ==
    ASSUME Ready, Lifecycle
    PROVE  \/ RecordStep \/ LockedStep
           \/ \E t \in Actors : \E h \in Hand : BeginStep(t, h)
           \/ \E h \in Hand : WholeStep(h)
           \/ \E t \in Actors : Commit(t) \/ Abort(t)
<1>1. TypeOK
  BY DEF Ready
<1>2. CASE \E x \in Artifacts : StartTrial(x) \/ PromoteTrial(x) \/ Curate(x)
  BY <1>1, <1>2, RecordSteps
<1>3. CASE \E x \in Artifacts :
              \/ CreateCandidate(x) \/ \E s \in Artifacts : StageReplacement(x, s)
              \/ SuppressSelectable(x) \/ RestoreSuppressed(x)
              \/ ArchiveDeprecated(x) \/ DeactivateActive(x)
  BY <1>1, <1>3, LockedSteps
<1>4. ASSUME NEW x \in Artifacts, NEW op \in Transactions, NEW h \in Openings(op, x),
             Undisturbed(h) \/ \E t \in Actors : Begin(t, h)
      PROVE  (\E t \in Actors : BeginStep(t, h)) \/ WholeStep(h)
  <2>1. Granted(h)
    BY <1>4 DEF Undisturbed, Begin
  <2>2. HandOK(h) /\ (op \in Installing => evidence[x] # "none")
    BY <1>1, <2>1, GrantShape
  <2>3. h.op = op /\ h.id = x /\ Fresh(h)
    BY <1>1, OpeningShape
  <2>4. Entitled(h)
    BY <2>2, <2>3 DEF Entitled
  <2> QED
    BY <1>4, <2>4 DEF Undisturbed, Begin, BeginStep, WholeStep
<1>5. CASE \E x \in Artifacts : \E op \in Transactions : \E h \in Openings(op, x) :
              Undisturbed(h) \/ \E t \in Actors : Begin(t, h)
  <2>1. PICK x \in Artifacts, op \in Transactions :
            \E h \in Openings(op, x) : Undisturbed(h) \/ \E t \in Actors : Begin(t, h)
    BY <1>5
  <2>2. PICK h \in Openings(op, x) : Undisturbed(h) \/ \E t \in Actors : Begin(t, h)
    BY <2>1
  <2>3. h \in Hand
    BY <1>1, OpeningShape
  <2> QED
    BY <1>4, <2>2, <2>3
<1> QED
  BY <1>2, <1>3, <1>5 DEF Lifecycle

\* What the commit of a transaction does, fresh or not.
LEMMA CommitShape ==
    ASSUME Ready, NEW t \in Actors, Commit(t)
    PROVE  /\ hands[t] # Idle /\ HandOK(hands[t]) /\ Effect(hands[t])
           /\ hands' = [hands EXCEPT ![t] = Idle]
           /\ stale' = (stale \/ ~Fresh(hands[t]))
BY DEF Ready, Commit

\* A hand whose rows were not changed holds the rows there are.
LEMMA FreshShape ==
    ASSUME NEW h, Fresh(h)
    PROVE  h.row = artifacts[h.id] /\ h.trial = trials[h.id]
BY DEF Fresh, Hold

-----------------------------------------------------------------------------
(* Type correctness.                                                        *)

\* Steps of the lifecycle keep the types and what hands were granted.
LEMMA ReadyLifecycle ==
    ASSUME Ready, Lifecycle
    PROVE  Ready'
<1>1. TypeOK /\ \A t \in Actors : hands[t] = Idle \/ HandOK(hands[t])
  BY DEF Ready
<1>2. CASE RecordStep \/ LockedStep
  BY <1>1, <1>2 DEF RecordStep, LockedStep, Ready, TypeOK, Trials
<1>3. ASSUME NEW t \in Actors, NEW h \in Hand, BeginStep(t, h)
      PROVE  Ready'
  <2>1. hands' \in [Actors -> Hand \cup {Idle}]
    BY <1>1, <1>3 DEF BeginStep, TypeOK
  <2>2. HandOK(h) /\ hands' = [hands EXCEPT ![t] = h]
    BY <1>3 DEF BeginStep, Entitled
  <2>3. \A u \in Actors : hands'[u] = Idle \/ HandOK(hands'[u])
    BY <1>1, <2>2 DEF TypeOK
  <2>4. TypeOK'
    BY <1>1, <1>3, <2>1 DEF BeginStep, TypeOK
  <2> QED
    BY <2>3, <2>4 DEF Ready
<1>4. ASSUME NEW h, WholeStep(h)
      PROVE  Ready'
  <2>1. HandOK(h) /\ Effect(h) /\ UNCHANGED <<hands, stale>>
    BY <1>4 DEF WholeStep, Entitled
  <2>2. TypeOK'
    BY <1>1, <2>1, EffectShape DEF TypeOK
  <2> QED
    BY <1>1, <2>1, <2>2 DEF Ready
<1>5. ASSUME NEW t \in Actors, Commit(t)
      PROVE  Ready'
  <2>1. /\ HandOK(hands[t]) /\ Effect(hands[t]) /\ hands' = [hands EXCEPT ![t] = Idle]
        /\ stale' = (stale \/ ~Fresh(hands[t]))
    BY <1>5, CommitShape
  <2>2. hands' \in [Actors -> Hand \cup {Idle}]
        /\ \A u \in Actors : hands'[u] = Idle \/ HandOK(hands'[u])
    BY <1>1, <2>1 DEF TypeOK
  <2>3. stale' \in BOOLEAN
    BY <1>1, <2>1 DEF TypeOK
  <2>4. TypeOK'
    BY <1>1, <2>1, <2>2, <2>3, EffectShape DEF TypeOK
  <2> QED
    BY <2>2, <2>4 DEF Ready
<1>6. ASSUME NEW t \in Actors, Abort(t)
      PROVE  Ready'
  <2>1. /\ hands' = [hands EXCEPT ![t] = Idle]
        /\ UNCHANGED <<artifacts, trials, evidence, recommendations, stale>>
    BY <1>6 DEF Abort
  <2>2. hands' \in [Actors -> Hand \cup {Idle}]
        /\ \A u \in Actors : hands'[u] = Idle \/ HandOK(hands'[u])
    BY <1>1, <2>1 DEF TypeOK
  <2>3. TypeOK'
    BY <1>1, <2>1, <2>2 DEF TypeOK
  <2> QED
    BY <2>2, <2>3 DEF Ready
<1> QED
  BY <1>2, <1>3, <1>4, <1>5, <1>6, LifecycleSteps

\* So do evidence that arrives and evidence that regresses.
LEMMA ReadyEvidence ==
    ASSUME Ready, NEW x \in Artifacts, Gather(x) \/ Regress(x)
    PROVE  Ready'
<1>1. evidence' \in [Artifacts -> Evidence]
  <2>1. evidence \in [Artifacts -> Evidence]
    BY DEF Ready, TypeOK
  <2> QED
    BY <2>1 DEF Gather, Regress, Evidence
<1>2. UNCHANGED <<artifacts, trials, recommendations, hands, stale>>
  BY DEF Gather, Regress
<1> QED
  BY <1>1, <1>2 DEF Ready, TypeOK

\* Both hold at first.
LEMMA ReadyInit == Init => Ready
<1> SUFFICES ASSUME Init
             PROVE  Ready
  OBVIOUS
<1>1. \A x \in Artifacts : artifacts[x] \in Artifact
  <2> TAKE x \in Artifacts
  <2> DEFINE s == IF x \in InUse THEN "active" ELSE "none"
  <2>1. artifacts[x] = [Unbuilt EXCEPT !.status = s]
    BY DEF Init
  <2>2. Unbuilt \in Artifact /\ s \in Statuses
    BY DEF Unbuilt, Artifact, Statuses, Production, Selectable
  <2> HIDE DEF s
  <2> QED
    BY <2>1, <2>2, StatusGiven
<1>2. artifacts \in [Artifacts -> Artifact]
  <2>1. artifacts = [x \in Artifacts |-> artifacts[x]]
    BY DEF Init
  <2> QED
    BY <1>1, <2>1
<1>3. /\ trials \in [Artifacts -> {"none", "staged", "rolled_out", "rolled_back"}]
      /\ evidence \in [Artifacts -> Evidence]
      /\ recommendations \in [Artifacts -> [Actions -> {"none", "pending"} \cup Decided]]
      /\ hands \in [Actors -> Hand \cup {Idle}] /\ stale \in BOOLEAN
      /\ \A t \in Actors : hands[t] = Idle
  BY DEF Init, Evidence
<1> QED
  BY <1>2, <1>3 DEF Ready, TypeOK

\* So every step keeps them.
LEMMA ReadyNext ==
    ASSUME Ready, [Next]_vars
    PROVE  Ready'
<1>1. CASE Lifecycle
  BY <1>1, ReadyLifecycle
<1>2. CASE \E x \in Artifacts : Gather(x) \/ Regress(x)
  BY <1>2, ReadyEvidence
<1>3. CASE UNCHANGED vars
  BY <1>3 DEF vars, Ready, TypeOK
<1> QED
  BY <1>1, <1>2, <1>3 DEF Next

\* Every row and every open transaction has its type.
THEOREM SkillTypeCorrect == Spec => []TypeOK
<1>1. Ready /\ [Next]_vars => Ready'
  BY ReadyNext
<1>2. Ready => TypeOK
  BY DEF Ready
<1> QED
  BY <1>1, <1>2, ReadyInit, PTL DEF Spec

-----------------------------------------------------------------------------
(* What is in production rests on its rollout, and what is retired stays.   *)

Backed == \A x \in Artifacts : artifacts[x].status \in Production => trials[x] = "rolled_out"

RetiredKept ==
    \A x \in Artifacts : artifacts[x].status \in Retired => artifacts'[x].status \in Retired

\* The statuses in production and the retired ones are disjoint; the early ones
\* are neither.
LEMMA StatusesApart ==
    /\ Selectable \subseteq Production /\ Retired \cap Production = {}
    /\ \A s \in {"none", "candidate", "staged"} : s \notin Production \cup Retired
    /\ "active" \notin Retired /\ "deprecated" \in Retired
BY DEF Production, Selectable, Retired

\* A transaction that writes on the rows it has read.
LEMMA FreshKeeps ==
    ASSUME Ready, NEW h, HandOK(h), Effect(h), Fresh(h)
    PROVE  RetiredKept /\ (Backed => Backed')
<1>1. TypeOK /\ h.row = artifacts[h.id] /\ h.trial = trials[h.id] /\ h.id \in Artifacts
  BY FreshShape, HandFields DEF Ready, HandOK
<1>2. /\ \A y \in Artifacts : Touched(h, y, artifacts'[y])
      /\ IF h.op = "rollback"
         THEN /\ trials' = [trials EXCEPT ![h.id] = "rolled_back"]
              /\ h.row.status \in Production => artifacts'[h.id].status = "deprecated"
         ELSE trials' = trials
  BY <1>1, EffectShape
<1>3. h.op = "stage" => artifacts[h.id].status = "candidate"
  BY <1>1 DEF HandOK
<1>4. h.op \in Installing => /\ artifacts[h.id].status \in {"staged", "active"}
                             /\ trials[h.id] = "rolled_out"
  BY <1>1 DEF HandOK
<1>5. RetiredKept
  BY <1>2, <1>3, <1>4, StatusesApart DEF RetiredKept, Touched, Written
<1>6. ASSUME Backed, NEW y \in Artifacts, artifacts'[y].status \in Production
      PROVE  trials'[y] = "rolled_out"
  <2>1. trials[y] = "rolled_out"
    BY <1>2, <1>4, <1>6, StatusesApart DEF Backed, Touched, Written
  <2>2. CASE h.op = "rollback" /\ y = h.id
    <3>1. artifacts[y].status \notin Production
      BY <1>1, <1>2, <1>6, <2>2, StatusesApart
    <3> QED
      BY <1>2, <1>6, <2>2, <3>1, StatusesApart DEF Touched, Written, Installing
  <2> QED
    BY <1>1, <1>2, <2>1, <2>2 DEF TypeOK
<1> QED
  BY <1>5, <1>6 DEF Backed

\* Steps that leave artifacts in production to what they rest on.
LEMMA LifecycleKeeps ==
    ASSUME Ready, Lifecycle
    PROVE  /\ RetiredKept \/ \E t \in Actors : hands[t] # Idle /\ ~Fresh(hands[t])
           /\ (~stale => Backed) => (~stale => Backed)'
<1>1. CASE RecordStep
  BY <1>1 DEF RecordStep, RetiredKept, Backed
<1>2. CASE LockedStep
  BY <1>2, StatusesApart DEF LockedStep, RetiredKept, Backed
<1>3. CASE \E t \in Actors : \E h \in Hand : BeginStep(t, h)
  BY <1>3 DEF BeginStep, RetiredKept, Backed
<1>4. CASE \E h \in Hand : WholeStep(h)
  <2>1. PICK h \in Hand : WholeStep(h)
    BY <1>4
  <2>2. HandOK(h) /\ Fresh(h) /\ Effect(h) /\ UNCHANGED <<hands, stale>>
    BY <2>1 DEF WholeStep, Entitled
  <2>3. RetiredKept /\ (Backed => Backed')
    BY <2>2, FreshKeeps
  <2> QED
    BY <2>2, <2>3
<1>5. ASSUME NEW t \in Actors, Commit(t)
      PROVE  /\ RetiredKept \/ (hands[t] # Idle /\ ~Fresh(hands[t]))
             /\ (~stale => Backed) => (~stale => Backed)'
  <2>1. /\ hands[t] # Idle /\ HandOK(hands[t]) /\ Effect(hands[t])
        /\ stale' = (stale \/ ~Fresh(hands[t]))
    BY <1>5, CommitShape
  <2>2. CASE Fresh(hands[t])
    <3>1. RetiredKept /\ (Backed => Backed')
      BY <2>1, <2>2, FreshKeeps
    <3> QED
      BY <2>1, <2>2, <3>1
  <2>3. CASE ~Fresh(hands[t])
    BY <2>1, <2>3
  <2> QED
    BY <2>2, <2>3
<1>6. ASSUME NEW t \in Actors, Abort(t)
      PROVE  RetiredKept /\ ((~stale => Backed) => (~stale => Backed)')
  BY <1>6 DEF Abort, RetiredKept, Backed
<1> QED
  BY <1>1, <1>2, <1>3, <1>4, <1>5, <1>6, LifecycleSteps

\* Without a stale write, what is in production rests on a rollout that is rolled
\* out, whichever transactions overlap (ProductionIsRolledOut).
THEOREM SkillProductionIsRolledOut == Spec => []ProductionIsRolledOut
<1> DEFINE Inv == Ready /\ (~stale => Backed)
<1>1. Init => Inv
  <2> SUFFICES ASSUME Init
               PROVE  Inv
    OBVIOUS
  <2>1. \A x \in Artifacts : artifacts[x] = [Unbuilt EXCEPT !.status =
                                                IF x \in InUse THEN "active" ELSE "none"]
    BY DEF Init
  <2>2. \A x \in Artifacts : artifacts[x].status = IF x \in InUse THEN "active" ELSE "none"
    BY <2>1 DEF Unbuilt
  <2>3. Backed
    BY <2>2, StatusesApart DEF Init, Backed
  <2> QED
    BY <2>3, ReadyInit
<1>2. Inv /\ [Next]_vars => Inv'
  <2> SUFFICES ASSUME Inv, [Next]_vars
               PROVE  Inv'
    OBVIOUS
  <2>1. CASE Lifecycle
    BY <2>1, ReadyLifecycle, LifecycleKeeps
  <2>2. CASE \E x \in Artifacts : Gather(x) \/ Regress(x)
    <3>1. UNCHANGED <<artifacts, trials, stale>>
      BY <2>2 DEF Gather, Regress
    <3> QED
      BY <2>2, <3>1, ReadyEvidence DEF Backed
  <2>3. CASE UNCHANGED vars
    BY <2>3 DEF vars, Ready, TypeOK, Backed
  <2> QED
    BY <2>1, <2>2, <2>3 DEF Next
<1>3. Inv => ProductionIsRolledOut
  BY DEF ProductionIsRolledOut, Backed, Having
<1> QED
  BY <1>1, <1>2, <1>3, PTL DEF Spec

\* Only a transaction that writes rows it read before brings a retired artifact
\* back (RetiredStays).
THEOREM SkillRetiredStays == Spec => RetiredStays
<1> DEFINE Step == \A x \in Artifacts :
                      (artifacts[x].status \in Retired /\ artifacts'[x].status \notin Retired)
                          => (\E t \in Actors : hands[t] # Idle /\ ~Fresh(hands[t]))
<1>1. Ready /\ [Next]_vars => Ready'
  BY ReadyNext
<1>2. Ready /\ [Next]_vars => [Step]_vars
  <2> SUFFICES ASSUME Ready, Next
               PROVE  Step
    BY DEF vars
  <2>1. CASE Lifecycle
    BY <2>1, LifecycleKeeps DEF RetiredKept
  <2>2. CASE \E x \in Artifacts : Gather(x) \/ Regress(x)
    BY <2>2 DEF Gather, Regress
  <2> QED
    BY <2>1, <2>2 DEF Next
<1> HIDE DEF Step
<1>3. Spec => [][Step]_vars
  BY <1>1, <1>2, ReadyInit, PTL DEF Spec
<1> QED
  BY <1>3 DEF RetiredStays, Step

-----------------------------------------------------------------------------
(* The runtime of tool plans.                                               *)

\* A step of the runtime is one of the artifacts, or leaves them.
LEMMA RuntimeSteps ==
    ASSUME [RuntimeNext]_allVars
    PROVE  [Next]_vars
<1>1. CASE Live
  BY <1>1 DEF Live, Next
<1>2. CASE \E x \in Artifacts : Start(x) \/ Observe(x)
  BY <1>2 DEF Start, Observe, Next
<1>3. CASE Execute \/ ReplanFully \/ Fail \/ FailEarly \/ LoseRun
  BY <1>3 DEF Execute, ReplanFully, Fail, FailEarly, LoseRun, End
<1>4. CASE UNCHANGED allVars
  BY <1>4 DEF allVars
<1> QED
  BY <1>1, <1>2, <1>3, <1>4 DEF RuntimeNext

\* The runtime's runs and observations are ways of gathering and losing the
\* evidence artifacts are judged by.
THEOREM RuntimeImplementsArtifacts == RuntimeSpec => Spec
<1>1. RuntimeInit => Init
  BY DEF RuntimeInit
<1> QED
  BY <1>1, RuntimeSteps, PTL DEF RuntimeSpec, Spec

\* Without a stale write, what is in production rests on a rollout that is rolled
\* out, also where runs give it its evidence (ProductionIsRolledOut).
THEOREM RuntimeProductionIsRolledOut == RuntimeSpec => []ProductionIsRolledOut
BY RuntimeImplementsArtifacts, SkillProductionIsRolledOut, PTL

\* Only a transaction that writes rows it read before brings a retired artifact
\* back, also where runs give it its evidence (RetiredStays).
THEOREM RuntimeRetiredStays == RuntimeSpec => RetiredStays
BY RuntimeImplementsArtifacts, SkillRetiredStays, PTL

\* The artifacts that have evidence, are in production or are about to be.
Trusted(G) ==
    /\ \A x \in Artifacts : evidence[x] # "none" \/ artifacts[x].status \in Production => x \in G
    /\ \A t \in Actors : hands[t] = Idle \/ hands[t].op \notin Installing \/ hands[t].id \in G

\* A transaction puts in use only what has evidence, or had it when it was granted.
LEMMA TransactionTrusts ==
    ASSUME Ready, NEW CONSTANT G, Trusted(G), NEW h, HandOK(h), Effect(h),
           h.op \in Installing => h.id \in G
    PROVE  \A x \in Artifacts :
               evidence'[x] # "none" \/ artifacts'[x].status \in Production => x \in G
<1>1. /\ \A y \in Artifacts : evidence'[y] # "none" => evidence[y] # "none"
      /\ \A y \in Artifacts : Touched(h, y, artifacts'[y])
  BY EffectShape DEF Ready
<1> QED
  BY <1>1, StatusesApart DEF Trusted, Touched, Written

\* Every step of the lifecycle keeps the artifacts with evidence, in production
\* or about to be among the trusted ones.
LEMMA LifecycleTrusts ==
    ASSUME Ready, Lifecycle, NEW CONSTANT G, Trusted(G)
    PROVE  Trusted(G)'
<1>1. CASE RecordStep
  BY <1>1 DEF RecordStep, Trusted
<1>2. CASE LockedStep
  BY <1>2, StatusesApart DEF LockedStep, Trusted
<1>3. ASSUME NEW t \in Actors, NEW h \in Hand, BeginStep(t, h)
      PROVE  Trusted(G)'
  <2>1. /\ hands' = [hands EXCEPT ![t] = h] /\ UNCHANGED <<artifacts, evidence>>
        /\ h.op \in Installing => evidence[h.id] # "none"
    BY <1>3 DEF BeginStep, Entitled
  <2>2. h.op \in Installing => h.id \in G
    BY <2>1, HandFields DEF Trusted
  <2>3. hands \in [Actors -> Hand \cup {Idle}]
    BY DEF Ready, TypeOK
  <2> QED
    BY <2>1, <2>2, <2>3 DEF Trusted
<1>4. ASSUME NEW h \in Hand, WholeStep(h)
      PROVE  Trusted(G)'
  <2>1. /\ HandOK(h) /\ Effect(h) /\ UNCHANGED hands
        /\ h.op \in Installing => evidence[h.id] # "none"
    BY <1>4 DEF WholeStep, Entitled
  <2>2. h.op \in Installing => h.id \in G
    BY <2>1, HandFields DEF Trusted
  <2>3. \A x \in Artifacts :
            evidence'[x] # "none" \/ artifacts'[x].status \in Production => x \in G
    BY <2>1, <2>2, TransactionTrusts
  <2> QED
    BY <2>1, <2>3 DEF Trusted
<1>5. ASSUME NEW t \in Actors, Commit(t)
      PROVE  Trusted(G)'
  <2>1. /\ hands[t] # Idle /\ HandOK(hands[t]) /\ Effect(hands[t])
        /\ hands' = [hands EXCEPT ![t] = Idle]
    BY <1>5, CommitShape
  <2>2. hands[t].op \in Installing => hands[t].id \in G
    BY <2>1 DEF Trusted
  <2>3. \A x \in Artifacts :
            evidence'[x] # "none" \/ artifacts'[x].status \in Production => x \in G
    BY <2>1, <2>2, TransactionTrusts
  <2>4. hands \in [Actors -> Hand \cup {Idle}]
    BY DEF Ready, TypeOK
  <2> QED
    BY <2>1, <2>3, <2>4 DEF Trusted
<1>6. ASSUME NEW t \in Actors, Abort(t)
      PROVE  Trusted(G)'
  <2>1. hands' = [hands EXCEPT ![t] = Idle] /\ UNCHANGED <<artifacts, evidence>>
    BY <1>6 DEF Abort
  <2>2. hands \in [Actors -> Hand \cup {Idle}]
    BY DEF Ready, TypeOK
  <2> QED
    BY <2>1, <2>2 DEF Trusted
<1> QED
  BY <1>1, <1>2, <1>3, <1>4, <1>5, <1>6, LifecycleSteps

\* What a completed run says is never empty, so what says nothing bad is good.
LEMMA VerdictsShape ==
    ASSUME NEW surface \in Surfaces, NEW plan, NEW report
    PROVE  Verdicts(surface, plan, report) \in {{"good"}, {"bad"}, {"good", "bad"}}
<1>1. CASE surface = "replan"
  <2>1. Verdicts(surface, plan, report) = Replanned(plan, report)
    BY <1>1 DEF Verdicts
  <2>2. Replanned(plan, report) \in {{"good"}, {"bad"}, {"good", "bad"}}
    BY DEF Replanned
  <2> QED
    BY <2>1, <2>2
<1>2. CASE surface = "review_scheduling"
  <2>1. Verdicts(surface, plan, report) = {"good", "bad"}
    BY <1>2 DEF Verdicts, Scheduled
  <2> QED
    BY <2>1
<1>3. CASE surface = "assessment_generation"
  <2>1. Verdicts(surface, plan, report) = Assessed(report)
    BY <1>3 DEF Verdicts
  <2> QED
    BY <2>1 DEF Assessed
<1> QED
  BY <1>1, <1>2, <1>3 DEF Surfaces

\* A run that leaves nothing bad shows that its plan is sound.
LEMMA GoodRunIsSound ==
    ASSUME NEW surface \in Surfaces, NEW plan, NEW report \in Reports(surface, plan),
           "bad" \notin Verdicts(surface, plan, report)
    PROVE  Sound(surface, plan)
<1>1. Verdicts(surface, plan, report) = {"good"}
  BY VerdictsShape
<1> QED
  BY <1>1 DEF Sound

\* The artifacts that may be trusted with what is offered.
Sounds(o) == InUse \cup {x \in Artifacts : Sound(o.surface, o.plans[x])}

\* What has been used well only is sound.
UsedWell(G) == \A x \in Artifacts : usage[x] = {} \/ "bad" \in usage[x] \/ x \in G

\* The end of a run keeps that usage without a bad one belongs to artifacts
\* whose plan is sound.
LEMMA EndKeeps ==
    ASSUME RuntimeTypeOK, NEW CONSTANT G, UsedWell(G), NEW verdicts, NEW observed,
           verdicts \in SUBSET {"good", "bad"}, "bad" \in verdicts \/ run \in G,
           End(verdicts, observed)
    PROVE  /\ usage' \in [Artifacts -> SUBSET {"rollout", "approval", "bad"}]
           /\ due' \subseteq Artifacts /\ run' \in Artifacts \cup {"none"}
           /\ UsedWell(G)'
<1>1. /\ run \in Artifacts /\ run' = "none"
      /\ usage' = [usage EXCEPT ![run] = @ \cup Recorded(run, verdicts)]
      /\ due' = due \/ due' = due \cup {run}
  BY DEF End, RuntimeTypeOK
<1>2. /\ Recorded(run, verdicts) \in SUBSET {"rollout", "approval", "bad"}
      /\ "bad" \in verdicts => "bad" \in Recorded(run, verdicts)
  BY DEF Recorded, Since
<1>3. usage \in [Artifacts -> SUBSET {"rollout", "approval", "bad"}] /\ due \subseteq Artifacts
  BY DEF RuntimeTypeOK
<1> DEFINE new == Recorded(run, verdicts)
<1> HIDE DEF new
<1>4. /\ usage' \in [Artifacts -> SUBSET {"rollout", "approval", "bad"}]
      /\ \A x \in Artifacts : x = run \/ usage'[x] = usage[x]
      /\ usage'[run] = usage[run] \cup Recorded(run, verdicts)
  BY <1>1, <1>2, <1>3
<1> QED
  BY <1>1, <1>2, <1>3, <1>4 DEF UsedWell

Inv == /\ Ready /\ RuntimeTypeOK
       /\ Trusted(Sounds(offer)) /\ UsedWell(Sounds(offer))

\* So the invariant of the runtime holds of every behaviour.
LEMMA RuntimeInduction == RuntimeSpec => []Inv
<1> USE DEF Inv
<1>1. RuntimeInit => Inv
  <2> SUFFICES ASSUME RuntimeInit
               PROVE  Inv
    OBVIOUS
  <2>1. Ready
    BY ReadyInit DEF RuntimeInit
  <2>2. \A x \in Artifacts : artifacts[x] = [Unbuilt EXCEPT !.status =
                                                IF x \in InUse THEN "active" ELSE "none"]
    BY DEF RuntimeInit, Init
  <2>3. \A x \in Artifacts : artifacts[x].status = IF x \in InUse THEN "active" ELSE "none"
    BY <2>2 DEF Unbuilt
  <2>4. \A x \in Artifacts : artifacts[x].status \in Production => x \in InUse
    BY <2>3, StatusesApart
  <2>5. Trusted(Sounds(offer))
    BY <2>4 DEF Trusted, Sounds, RuntimeInit, Init
  <2>6. RuntimeTypeOK
    BY <2>1 DEF RuntimeInit, RuntimeTypeOK, Ready
  <2>7. UsedWell(Sounds(offer))
    BY DEF RuntimeInit, UsedWell
  <2> QED
    BY <2>1, <2>5, <2>6, <2>7
<1>2. Inv /\ [RuntimeNext]_allVars => Inv'
  <2> SUFFICES ASSUME Inv, [RuntimeNext]_allVars
               PROVE  Inv'
    OBVIOUS
  <2>1. Ready'
    BY RuntimeSteps, ReadyNext
  <2>2. PICK G : G = Sounds(offer)
    OBVIOUS
  <2>3. offer' = offer
    BY DEF RuntimeNext, Live, runtime, Start, Observe, Execute, ReplanFully, Fail,
           FailEarly, LoseRun, End, allVars
  <2>4. Sounds(offer)' = G
    BY <2>2, <2>3 DEF Sounds
  <2>5. Trusted(G) /\ UsedWell(G) /\ RuntimeTypeOK /\ Ready /\ offer \in Offers
    BY <2>2 DEF RuntimeTypeOK
  <2>6. SUFFICES /\ run' \in Artifacts \cup {"none"}
                 /\ usage' \in [Artifacts -> SUBSET {"rollout", "approval", "bad"}]
                 /\ due' \subseteq Artifacts
                 /\ Trusted(G)' /\ UsedWell(G)'
    BY <2>1, <2>3, <2>4, <2>5 DEF RuntimeTypeOK, Ready, Trusted, UsedWell
  <2>7. CASE Live
    <3>1. Trusted(G)'
      BY <2>5, <2>7, LifecycleTrusts DEF Live
    <3> QED
      BY <2>5, <2>7, <3>1 DEF Live, runtime, RuntimeTypeOK, UsedWell
  <2>8. ASSUME NEW x \in Artifacts, Start(x)
        PROVE  /\ run' \in Artifacts \cup {"none"}
               /\ usage' \in [Artifacts -> SUBSET {"rollout", "approval", "bad"}]
               /\ due' \subseteq Artifacts
               /\ Trusted(G)' /\ UsedWell(G)'
    BY <2>5, <2>8 DEF Start, vars, Trusted, UsedWell, RuntimeTypeOK
  <2>9. ASSUME NEW x \in Artifacts, Observe(x)
        PROVE  /\ run' \in Artifacts \cup {"none"}
               /\ usage' \in [Artifacts -> SUBSET {"rollout", "approval", "bad"}]
               /\ due' \subseteq Artifacts
               /\ Trusted(G)' /\ UsedWell(G)'
    <3>1. due' = due \ {x} /\ UNCHANGED <<offer, run, usage>>
      BY <2>9 DEF Observe
    <3>2. \/ UNCHANGED vars
          \/ Promising(x) /\ Gather(x)
          \/ Regress(x)
      BY <2>9 DEF Observe
    <3>3. Promising(x) => x \in G
      BY <2>5 DEF Promising, UsedWell
    <3>4. evidence \in [Artifacts -> Evidence]
      BY <2>5 DEF Ready, TypeOK
    <3>5. Trusted(G)'
      <4>1. CASE UNCHANGED vars
        BY <2>5, <4>1 DEF vars, Trusted
      <4>2. CASE x \in G /\ Gather(x)
        BY <2>5, <3>4, <4>2 DEF Gather, Trusted
      <4>3. CASE Regress(x)
        BY <2>5, <3>4, <4>3 DEF Regress, Trusted
      <4> QED
        BY <3>2, <3>3, <4>1, <4>2, <4>3
    <3> QED
      BY <2>5, <3>1, <3>5 DEF RuntimeTypeOK, UsedWell
  <2>10. ASSUME NEW verdicts, NEW observed, verdicts \in SUBSET {"good", "bad"},
                "bad" \in verdicts \/ run \in G, End(verdicts, observed)
         PROVE  /\ run' \in Artifacts \cup {"none"}
                /\ usage' \in [Artifacts -> SUBSET {"rollout", "approval", "bad"}]
                /\ due' \subseteq Artifacts
                /\ Trusted(G)' /\ UsedWell(G)'
    <3>1. Trusted(G)'
      BY <2>5, <2>10 DEF End, vars, Trusted
    <3> QED
      BY <2>5, <2>10, <3>1, EndKeeps
  <2>11. CASE ReplanFully \/ Fail \/ FailEarly
    BY <2>10, <2>11 DEF ReplanFully, Fail, FailEarly
  <2>12. CASE Execute
    <3>1. PICK report \in Reports(offer.surface, Plan(run)) :
              End(Verdicts(offer.surface, Plan(run), report),
                  offer.surface = "assessment_generation" => report[1] > 0)
      BY <2>12 DEF Execute
    <3>2. offer.surface \in Surfaces /\ run \in Artifacts
      BY <2>5, <2>12, SkillRuntimeAssumption DEF RuntimeTypeOK, Execute
    <3>3. Verdicts(offer.surface, Plan(run), report) \in SUBSET {"good", "bad"}
      BY <3>2, VerdictsShape
    <3>4. \/ "bad" \in Verdicts(offer.surface, Plan(run), report)
          \/ run \in G
      BY <2>2, <3>2, GoodRunIsSound DEF Plan, Sounds
    <3> QED
      BY <2>10, <3>1, <3>3, <3>4
  <2>13. CASE LoseRun
    BY <2>5, <2>13 DEF LoseRun, vars, Trusted, UsedWell, RuntimeTypeOK
  <2>14. CASE UNCHANGED allVars
    BY <2>5, <2>14 DEF allVars, vars, runtime, Trusted, UsedWell, RuntimeTypeOK
  <2> QED
    BY <2>7, <2>8, <2>9, <2>11, <2>12, <2>13, <2>14 DEF RuntimeNext
<1> HIDE DEF Inv
<1> QED
  BY <1>1, <1>2, PTL DEF RuntimeSpec

\* The runtime's state has its type.
THEOREM RuntimeTypeCorrect == RuntimeSpec => []RuntimeTypeOK
<1>1. Inv => RuntimeTypeOK
  BY DEF Inv
<1> QED
  BY <1>1, RuntimeInduction, PTL

\* What came into production by its rollout has a plan that can run without
\* anything being held against it (ServedPlansAreSound).
THEOREM RuntimeServesSoundPlans == RuntimeSpec => []ServedPlansAreSound
<1>1. Inv => ServedPlansAreSound
  BY DEF Inv, Trusted, Sounds, ServedPlansAreSound, Having, Plan
<1> QED
  BY <1>1, RuntimeInduction, PTL

=============================================================================
