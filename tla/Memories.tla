------------------------------ MODULE Memories ------------------------------
(***************************************************************************)
(* A learner's long-term memories of one kind about one topic: candidates  *)
(* from chat turns, tasks and reflections, promotion, governance,          *)
(* compression, suppression by an operator, and the conflict sets that     *)
(* contradictory evidence opens.                                           *)
(*                                                                         *)
(* No row is locked.  An operation that rewrites a row it has read earlier *)
(* is a hand that begins and commits: embedding calls lie in between.      *)
(***************************************************************************)
EXTENDS FiniteSets, Naturals

CONSTANTS Kind,      \* "knowledge" or "behavior"
          Memories,  \* ids
          Goals,
          Batch,     \* how many memories are compressed into one, at most
          Held,      \* the operations that may be open while others commit
          Actors,    \* the transactions that may be open
          Unprovided \* memories that may be handled without an embedding provider

ASSUME MemoriesAssumption ==
    /\ Kind \in {"knowledge", "behavior"} /\ Held \subseteq {"upsert", "govern", "compress"}
    /\ "none" \notin Memories /\ Goals # {} /\ Unprovided \subseteq Memories

VARIABLES memories,
          embeddings,   \* status of the memory's embedding, which retrieval reads
          eligibility,  \* current promotion eligibility record of the memory
          conflicts,    \* goals with an open conflict set
          hands,
          stale         \* history: a transaction wrote over a later change

vars == <<memories, embeddings, eligibility, conflicts, hands, stale>>

-----------------------------------------------------------------------------
(* The rows.                                                                *)

Production == {"active", "stable"}
Visible == {"candidate"} \cup Production
Current == Visible \cup {"suppressed"}
Statuses == {"none", "archived", "compressed"} \cup Current

\* what a learner's memory of a topic is identified by, besides the topic
Categories == {"prerequisite", "concept"}
Identity == [goal: Goals, category: Categories]

\* what the evidence links amount to: the contradiction score is below the conflict
\* threshold, or has reached it
Evidence == {"supported", "contested"}

Memory == [status: Statuses, goal: Goals, category: Categories,
           evidence: Evidence, into: {"none"} \cup Memories]

Absent == [status |-> "none", goal |-> CHOOSE g \in Goals : TRUE,
           category |-> "concept", evidence |-> "supported", into |-> "none"]

Candidate(i) == [status |-> "candidate", goal |-> i.goal, category |-> i.category,
                 evidence |-> "supported", into |-> "none"]

\* with_status
Given(row, status) == [row EXCEPT !.status = status]

\* "none" also stands for too little evidence, or too low a score
Records == {"none", "conflict_blocked", "eligible"}

Operations == {"upsert", "govern", "compress"}

\* `writes` is what the transaction will write over `read`, new rows included
IsHand(h) ==
    \E S \in SUBSET Memories :
        h \in [op: Operations, read: [S -> Memory], writes: [S -> Memory]]
Idle == [op |-> "none"]

TypeOK ==
    /\ memories \in [Memories -> Memory]
    /\ embeddings \in [Memories -> Statuses]
    /\ eligibility \in [Memories -> Records]
    /\ conflicts \in SUBSET Goals
    /\ \A t \in Actors : hands[t] = Idle \/ IsHand(hands[t])
    /\ stale \in BOOLEAN

Init ==
    /\ memories = [m \in Memories |-> Absent]
    /\ embeddings = [m \in Memories |-> "none"]
    /\ eligibility = [m \in Memories |-> "none"]
    /\ conflicts = {}
    /\ hands = [t \in Actors |-> Idle]
    /\ stale = FALSE

Having(S) == {m \in Memories : memories[m].status \in S}

Same(row, i) == row.goal = i.goal /\ row.category = i.category

\* the partial unique index of current identities
Indexed(rows) ==
    \A m, n \in Memories :
        (rows[m].status \in Current /\ rows[n].status \in Current /\ Same(rows[m], rows[n]))
            => m = n

Written(writes) ==
    [m \in Memories |-> IF m \in DOMAIN writes THEN writes[m] ELSE memories[m]]

\* Mutant of Embedded: an embedding that exists keeps its status.
EmbeddedOnce(writes, made) ==
    [m \in Memories |-> IF m \in DOMAIN writes \cap made /\ embeddings[m] = "none"
                        THEN writes[m].status ELSE embeddings[m]]

\* An embedding that exists takes the status the memory is given.  Of the missing
\* ones, those in `made` are created.
Embedded(writes, made) ==
    [m \in Memories |-> IF m \in DOMAIN writes /\ (m \in made \/ embeddings[m] # "none")
                        THEN writes[m].status ELSE embeddings[m]]

Store(writes, made) ==
    /\ memories' = Written(writes)
    /\ Indexed(memories')
    /\ embeddings' = Embedded(writes, made)

\* ids are random: which of the unused ones is drawn makes no difference
Drawn == CHOOSE m \in Memories : memories[m].status = "none"

Only(m, row) == [x \in {m} |-> row]

-----------------------------------------------------------------------------
(* Candidates.                                                              *)

\* the embeddings that are created are those asked for, unless no provider is
\* configured at the time
Creatable(S) == {S, S \ Unprovided}

Insert(m, row) == \E made \in Creatable({m}) : Store(Only(m, row), made)

\* a new candidate, unless one of its identity is current; when another
\* transaction creates it first, the index says so and that one is taken
Create(i) ==
    /\ ~\E m \in Having(Current) : Same(memories[m], i)
    /\ Having({"none"}) # {} /\ Insert(Drawn, Candidate(i))
    /\ UNCHANGED <<eligibility, conflicts, hands, stale>>

\* the candidate that is current is refreshed; an active, stable or suppressed
\* one is left as it is
Refreshes == {[op |-> "upsert", read |-> Only(m, memories[m]), writes |-> Only(m, memories[m])] :
                  m \in Having({"candidate"})}

-----------------------------------------------------------------------------
(* Governance.                                                              *)

\* Mutant of KnowledgeStatuses: eligibility is left to an operator.
KnowledgeKept(row, record) ==
    IF row.status = "candidate" THEN {"candidate"} ELSE {"active", "stable", "archived"}

\* the statuses a memory can be given, by its scores, its evidence and, for a
\* candidate, its eligibility record
KnowledgeStatuses(row, record) ==
    CASE row.status = "candidate" -> IF record = "eligible" THEN {"active"}
                                     ELSE IF record = "conflict_blocked" THEN {"suppressed"}
                                     ELSE {"candidate"}
      [] row.status = "active"    -> {"active", "archived"} \cup
                                     (IF row.evidence = "contested" THEN {} ELSE {"stable"})
      [] row.status = "stable"    -> IF row.evidence = "contested" THEN {"active"}
                                     ELSE {"active", "stable"}

BehaviorStatuses(row) ==
    CASE row.status = "candidate" -> {"candidate", "active"}
      [] row.status = "active"    -> {"active", "stable", "archived"}
      [] row.status = "stable"    -> IF row.evidence = "contested" THEN {"active"}
                                     ELSE {"active", "stable"}

GovernedStatuses(row, record) ==
    IF Kind = "knowledge" THEN KnowledgeStatuses(row, record) ELSE BehaviorStatuses(row)

\* the evidence is read anew and the status follows from it
Governed(m, evidence) ==
    LET row == [memories[m] EXCEPT !.evidence = evidence]
    IN {Given(row, s) : s \in GovernedStatuses(row, eligibility[m])}

Governances ==
    UNION {{[op |-> "govern", read |-> Only(m, memories[m]), writes |-> Only(m, row)] :
               row \in UNION {Governed(m, e) : e \in Evidence}} :
           m \in Having(Visible)}

\* another memory of the goal and topic is in production already
Blocked(m) == \E n \in Having(Production) \ {m} : memories[n].goal = memories[m].goal

Evaluate(m, record) ==
    /\ Kind = "knowledge" /\ memories[m].status = "candidate"
    /\ record \in IF Blocked(m) THEN {"conflict_blocked"} ELSE {"none", "eligible"}
    /\ eligibility' = [eligibility EXCEPT ![m] = record]
    /\ UNCHANGED <<memories, embeddings, conflicts, hands, stale>>

-----------------------------------------------------------------------------
(* Compression.                                                             *)

\* the level is the highest of the sources', and gives the category
MergedKnowledge(S) ==
    IF \E m \in S : memories[m].category = "concept" THEN "concept" ELSE "prerequisite"

\* the goal, and a behavior's category, are those of the source that comes first
Merged(S, first) ==
    [status |-> "active", goal |-> memories[first].goal, into |-> "none",
     category |-> IF Kind = "knowledge" THEN MergedKnowledge(S) ELSE memories[first].category,
     evidence |-> IF \E m \in S : memories[m].evidence = "contested"
                  THEN "contested" ELSE "supported"]

Compressed(row, target) == [row EXCEPT !.status = "compressed", !.into = target]

Compression(S, first, target) ==
    [op |-> "compress",
     read |-> [m \in S \cup {target} |-> memories[m]],
     writes |-> [m \in S \cup {target} |->
                   IF m = target THEN Merged(S, first) ELSE Compressed(memories[m], target)]]

\* Mutant of Groups: every current memory of the topic is compressed.
GroupsOfCurrent == IF Having({"none"}) = {} THEN {}
                   ELSE {S \in SUBSET Having(Current) : Cardinality(S) \in 2..Batch}

\* whatever goal and category they have, memories of the topic are one group
Groups == IF Having({"none"}) = {} THEN {}
          ELSE {S \in SUBSET Having(Production) : Cardinality(S) \in 2..Batch}

Compressions ==
    UNION {{Compression(S, first, Drawn) : first \in S} : S \in Groups}

-----------------------------------------------------------------------------
(* Transactions.                                                            *)

Work == Refreshes \cup Governances \cup Compressions

Begin(t, h) ==
    /\ h.op \in Held
    /\ hands[t] = Idle
    /\ hands' = [hands EXCEPT ![t] = h]
    /\ UNCHANGED <<memories, embeddings, eligibility, conflicts, stale>>

\* a compression embeds what it builds, and governance a knowledge memory that
\* it promotes
Asked(h) ==
    {m \in DOMAIN h.writes :
        /\ h.writes[m].status = "active"
        /\ h.read[m].status \in {"none"} \cup (IF Kind = "knowledge" THEN {"candidate"} ELSE {})}

\* nothing is compressed without a provider
Made(h) == IF h.op = "compress" THEN {Asked(h)} ELSE Creatable(Asked(h))

\* nothing else is committed from its reads to its writes
Undisturbed(h) ==
    /\ \E made \in Made(h) : Store(h.writes, made)
    /\ UNCHANGED <<eligibility, conflicts, hands, stale>>

Fresh(h) == \A m \in DOMAIN h.read : memories[m] = h.read[m]

\* an id that another transaction has taken meanwhile is not drawn twice
Drawable(h) ==
    \A m \in DOMAIN h.read : h.read[m].status = "none" => memories[m].status = "none"

\* The update selects the row again and writes the columns that differ from
\* what it selects.  A later change that is committed by then is overwritten;
\* one whose transaction is still open holds the row's lock, and is kept in the
\* columns the update leaves as they were before that change.
Differing(read, row, now) ==
    [now EXCEPT !.status = IF row.status = read.status THEN @ ELSE row.status,
                !.evidence = IF row.evidence = read.evidence THEN @ ELSE row.evidence,
                !.into = IF row.into = read.into THEN @ ELSE row.into]

Waited(h) == [m \in DOMAIN h.writes |-> Differing(h.read[m], h.writes[m], memories[m])]

\* the embedding is selected once the row is locked, and written whole
Commit(t) ==
    /\ hands[t] # Idle /\ Drawable(hands[t])
    /\ \E writes \in {hands[t].writes, Waited(hands[t])} :
          /\ memories' = Written(writes)
          /\ \E made \in Made(hands[t]) : embeddings' = Embedded(hands[t].writes, made)
    /\ Indexed(memories')
    /\ stale' = (stale \/ ~Fresh(hands[t]))
    /\ hands' = [hands EXCEPT ![t] = Idle]
    /\ UNCHANGED <<eligibility, conflicts>>

\* the index refuses a write, a call to the provider fails, or a crash
Abort(t) ==
    /\ hands[t] # Idle
    /\ hands' = [hands EXCEPT ![t] = Idle]
    /\ UNCHANGED <<memories, embeddings, eligibility, conflicts, stale>>

-----------------------------------------------------------------------------
(* The operator.                                                            *)

\* whatever status the memory has
Decide(m, status) ==
    /\ memories[m].status # "none"
    /\ Store(Only(m, Given(memories[m], status)), {})
    /\ UNCHANGED <<eligibility, conflicts, hands, stale>>

Suppress(m) == Decide(m, "suppressed")

Restore(m, status) == Decide(m, status)

-----------------------------------------------------------------------------
(* Conflict sets.                                                           *)

Contested(g) ==
    \E m \in Having(Visible) : memories[m].goal = g /\ memories[m].evidence = "contested"

\* what the refresh opens, or leaves open
Found == {g \in Goals : Contested(g)}

\* Mutant of Remaining: a set that is open is never closed.
RemainingOpen(open) == open

\* the open sets that are not closed: their members are contested and visible
Remaining(open) == {g \in open : Contested(g)}

RefreshConflicts ==
    /\ conflicts' = Remaining(conflicts \cup Found)
    /\ UNCHANGED <<memories, embeddings, eligibility, hands, stale>>

Next ==
    \/ \E i \in Identity : Create(i)
    \/ \E m \in Memories :
          \/ \E record \in Records : Evaluate(m, record)
          \/ Suppress(m)
          \/ \E status \in {"candidate", "active"} : Restore(m, status)
    \/ \E h \in Work : Undisturbed(h) \/ \E t \in Actors : Begin(t, h)
    \/ \E t \in Actors : Commit(t) \/ Abort(t)
    \/ RefreshConflicts

Spec == Init /\ [][Next]_vars

Govern(m) == \E h \in Governances : m \in DOMAIN h.read /\ Undisturbed(h)

\* the jobs are seeded, and run, again and again
FairSpec ==
    /\ Spec
    /\ WF_vars(RefreshConflicts)
    /\ \A m \in Memories : WF_vars(Govern(m))

-----------------------------------------------------------------------------
(* Properties.                                                              *)

\* Retrieval reads embeddings alone.  Without a stale write, what it serves has
\* the status of the memory.
EmbeddingsFollow == ~stale => \A m \in Memories : embeddings[m] \in {"none", memories[m].status}

\* A compressed memory is one that another memory was built from.
CompressedIsCovered ==
    \A m \in Having({"compressed"}) :
        /\ memories[m].into \notin {m, "none"}
        /\ memories[memories[m].into].status # "none"

\* What was suppressed comes back by an operator's decision, or by a transaction
\* that commits over it what it has read before.
SuppressedStays ==
    [][\A m \in Memories :
          (memories[m].status = "suppressed" /\ memories'[m].status # "suppressed")
              => \/ \E status \in {"candidate", "active"} : Restore(m, status)
                 \/ \E t \in Actors : Commit(t) /\ m \in DOMAIN hands[t].read
                                      /\ hands[t].read[m] # memories[m]]_vars

\* A candidate found eligible is promoted, or is found eligible no longer.
EligibleIsGoverned ==
    \A m \in Memories :
        (memories[m].status = "candidate" /\ eligibility[m] = "eligible")
            ~> (memories[m].status # "candidate" \/ eligibility[m] # "eligible")

\* A goal's conflict set is opened, opened again and closed as its memories
\* come to be contested, decided on or supported.
ConflictsSettle ==
    \A g \in Goals : (g \in conflicts) # Contested(g) ~> (g \in conflicts) = Contested(g)

\* rules/security.md: suppressed memories must not be automatically restored.
SuppressedIsNotRestored ==
    [][\A m \in Memories :
          (memories[m].status = "suppressed" /\ memories'[m].status # "suppressed")
              => \E status \in {"candidate", "active"} : Restore(m, status)]_vars

=============================================================================
