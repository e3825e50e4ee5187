--------------------------- MODULE MemoriesProofs ---------------------------
(***************************************************************************)
(* Theorems about Memories for any memories, goals and open transactions.  *)
(***************************************************************************)
EXTENDS Memories, TLAPS

-----------------------------------------------------------------------------
(* Rows.                                                                    *)

\* The fields of a memory, and of one that is given other fields.
LEMMA MemoryFields ==
    ASSUME NEW r \in Memory
    PROVE  /\ r.status \in Statuses /\ r.goal \in Goals /\ r.category \in Categories
           /\ r.evidence \in Evidence /\ r.into \in {"none"} \cup Memories
BY DEF Memory

\* Changing the status of a memory changes nothing else of its row.
LEMMA StatusGiven ==
    ASSUME NEW r \in Memory, NEW s \in Statuses
    PROVE  LET q == Given(r, s)
           IN  /\ q \in Memory /\ q.status = s /\ q.into = r.into
               /\ q.goal = r.goal /\ q.category = r.category /\ q.evidence = r.evidence
BY DEF Memory, Given

\* Changing the evidence of a memory leaves its status and the memory it was
\* compressed into.
LEMMA EvidenceGiven ==
    ASSUME NEW r \in Memory, NEW e \in Evidence
    PROVE  LET q == [r EXCEPT !.evidence = e]
           IN  q \in Memory /\ q.status = r.status /\ q.into = r.into
BY DEF Memory

\* A compressed memory has that status and names the memory it was merged into.
LEMMA CompressedShape ==
    ASSUME NEW r \in Memory, NEW t \in Memories
    PROVE  /\ Compressed(r, t) \in Memory
           /\ Compressed(r, t).status = "compressed" /\ Compressed(r, t).into = t
BY DEF Memory, Compressed, Statuses

\* What an update leaves of a row that changed since it was read.
LEMMA DifferingShape ==
    ASSUME NEW read \in Memory, NEW row \in Memory, NEW now \in Memory
    PROVE  LET d == Differing(read, row, now)
           IN  /\ d \in Memory
               /\ d.status = IF row.status = read.status THEN now.status ELSE row.status
               /\ d.into = IF row.into = read.into THEN now.into ELSE row.into
               /\ now = read => d.status = row.status
<1> DEFINE d == [now EXCEPT !.status = IF row.status = read.status THEN @ ELSE row.status,
                            !.evidence = IF row.evidence = read.evidence THEN @ ELSE row.evidence,
                            !.into = IF row.into = read.into THEN @ ELSE row.into]
<1>1. /\ d \in Memory
      /\ d.status = IF row.status = read.status THEN now.status ELSE row.status
      /\ d.into = IF row.into = read.into THEN now.into ELSE row.into
  BY DEF Memory
<1>2. d = Differing(read, row, now)
  BY DEF Differing
<1> HIDE DEF d
<1> QED
  BY <1>1, <1>2

\* A free row is a row, and is merged into nothing.
LEMMA AbsentShape == Absent \in Memory /\ Absent.status = "none" /\ Absent.into = "none"
<1>1. (CHOOSE g \in Goals : TRUE) \in Goals
  BY MemoriesAssumption
<1> DEFINE g == CHOOSE g \in Goals : TRUE
<1> HIDE DEF g
<1>2. [status |-> "none", goal |-> g, category |-> "concept", evidence |-> "supported",
       into |-> "none"] \in Memory
  BY <1>1 DEF Memory, Statuses, Categories, Evidence, g
<1> QED
  BY <1>2 DEF Absent, g

\* A new memory is a candidate, merged into nothing.
LEMMA CandidateShape ==
    ASSUME NEW i \in Identity
    PROVE  Candidate(i) \in Memory /\ Candidate(i).status = "candidate"
           /\ Candidate(i).into = "none"
BY DEF Evidence, Candidate, Memory, Identity, Statuses, Current, Visible

\* An id is drawn from the unused ones.
LEMMA DrawnIsUnused ==
    ASSUME Having({"none"}) # {}
    PROVE  Drawn \in Memories /\ memories[Drawn].status = "none"
BY DEF Drawn, Having

\* The statuses governance gives.
LEMMA GovernedStatusesShape ==
    ASSUME NEW row \in Memory, NEW record, row.status \in Visible,
           NEW s \in GovernedStatuses(row, record)
    PROVE  s \in Statuses /\ s \notin {"none", "compressed"}
<1>1. row.status \in {"candidate", "active", "stable"}
  BY DEF Visible, Production
<1>2. s \in {"candidate", "active", "stable", "archived", "suppressed"}
  <2>1. CASE Kind = "knowledge"
    BY <1>1, <2>1 DEF GovernedStatuses, KnowledgeStatuses
  <2>2. CASE Kind # "knowledge"
    BY <1>1, <2>2 DEF GovernedStatuses, BehaviorStatuses
  <2> QED
    BY <2>1, <2>2
<1> QED
  BY <1>2 DEF Statuses, Current, Visible, Production

\* The memory that a compression writes is active, merged into nothing.
LEMMA MergedShape ==
    ASSUME memories \in [Memories -> Memory], NEW S, NEW first \in Memories
    PROVE  /\ Merged(S, first) \in Memory
           /\ Merged(S, first).status = "active" /\ Merged(S, first).into = "none"
<1>1. memories[first].goal \in Goals /\ memories[first].category \in Categories
  BY MemoryFields
<1>2. MergedKnowledge(S) \in Categories
  BY DEF MergedKnowledge, Categories
<1> DEFINE c == IF Kind = "knowledge" THEN MergedKnowledge(S) ELSE memories[first].category
           e == IF \E m \in S : memories[m].evidence = "contested" THEN "contested" ELSE "supported"
           g == memories[first].goal
<1>3. c \in Categories /\ e \in Evidence /\ g \in Goals
  BY <1>1, <1>2 DEF Evidence
<1>4. Merged(S, first) = [status |-> "active", goal |-> g, into |-> "none", category |-> c,
                          evidence |-> e]
  BY DEF Merged
<1> HIDE DEF c, e, g
<1> QED
  BY <1>3, <1>4 DEF Memory, Statuses, Current, Visible, Production

-----------------------------------------------------------------------------
(* The inductive invariant: rows name existing memories, and a transaction  *)
(* writes on rows it may write on.                                          *)

RowsInv(rows) ==
    \A m \in Memories :
        /\ rows[m].status = "none" => rows[m].into = "none"
        /\ rows[m].into # "none" => rows[rows[m].into].status # "none"
        /\ rows[m].status = "compressed" => rows[m].into \notin {m, "none"}

\* what it has read exists as long as it is held; what it will compress names
\* another memory it writes, and is not compressed yet
HandOK(h, rows) ==
    \A m \in DOMAIN h.writes :
        /\ h.read[m].status \in Visible \cup {"none"}
        /\ h.writes[m].status # "none"
        /\ h.read[m].status # "none" => rows[m].status # "none"
        /\ h.read[m].into # "none" => rows[h.read[m].into].status # "none"
        /\ \/ h.writes[m].status # "compressed" /\ h.writes[m].into = h.read[m].into
           \/ /\ h.writes[m].status = "compressed"
              /\ h.writes[m].into \in DOMAIN h.writes \ {m}
              /\ h.writes[m].into # h.read[m].into

HandsInv == /\ DOMAIN hands = Actors
            /\ \A t \in Actors : hands[t] # Idle => HandOK(hands[t], memories)

IInv == TypeOK /\ RowsInv(memories) /\ HandsInv /\ EmbeddingsFollow

\* A hand reads and writes one set of memories.
LEMMA HandFields ==
    ASSUME NEW h, IsHand(h)
    PROVE  \E S \in SUBSET Memories :
              /\ h.read \in [S -> Memory] /\ h.writes \in [S -> Memory]
              /\ DOMAIN h.read = S /\ DOMAIN h.writes = S
<1>1. PICK S \in SUBSET Memories :
          h \in [op : Operations, read : [S -> Memory], writes : [S -> Memory]]
  BY DEF IsHand
<1> QED
  BY <1>1

\* A transaction on one row that was read.
LEMMA OneRowHand ==
    ASSUME TypeOK, RowsInv(memories), NEW op \in Operations,
           NEW m \in Memories, memories[m].status \in Visible,
           NEW row \in Memory, row.status \notin {"none", "compressed"},
           row.into = memories[m].into,
           NEW h, h = [op |-> op, read |-> Only(m, memories[m]), writes |-> Only(m, row)]
    PROVE  /\ IsHand(h) /\ HandOK(h, memories)
           /\ \A x \in DOMAIN h.writes : h.read[x] = memories[x]
<1>1. memories[m] \in Memory
  BY DEF TypeOK
<1>2. /\ Only(m, memories[m]) \in [{m} -> Memory]
      /\ Only(m, row) \in [{m} -> Memory]
  BY <1>1 DEF Only
<1>3. h \in [op : Operations, read : [{m} -> Memory], writes : [{m} -> Memory]]
  BY <1>2
<1>4. IsHand(h)
  BY <1>3 DEF IsHand
<1>5. /\ DOMAIN h.writes = {m}
      /\ h.read[m] = memories[m] /\ h.writes[m] = row
  BY DEF Only
<1>6. memories[m].status # "none"
  BY DEF Visible, Production
<1>7. memories[m].into # "none" => memories[memories[m].into].status # "none"
  BY DEF RowsInv
<1>8. HandOK(h, memories)
  BY <1>5, <1>6, <1>7 DEF HandOK
<1> QED
  BY <1>4, <1>5, <1>8

\* A compression, of memories in production into an unused id.
LEMMA CompressionHand ==
    ASSUME TypeOK, RowsInv(memories), Having({"none"}) # {},
           NEW S \in SUBSET Having(Production), NEW first \in S,
           NEW h, h = Compression(S, first, Drawn)
    PROVE  /\ IsHand(h) /\ HandOK(h, memories)
           /\ \A x \in DOMAIN h.writes : h.read[x] = memories[x]
<1>1. Drawn \in Memories /\ memories[Drawn].status = "none"
  BY DrawnIsUnused
<1>2. /\ S \subseteq Memories
      /\ \A m \in S : memories[m].status \in Production
  BY DEF Having
<1> DEFINE d == Drawn
           T == S \cup {d}
           mr == Merged(S, first)
<1>3. d \notin S
  BY <1>1, <1>2 DEF Production
<1> HIDE DEF d
<1>4. /\ d \in Memories /\ memories[d].status = "none" /\ d \notin S /\ d = Drawn
  BY <1>1, <1>3 DEF d
<1>5. memories \in [Memories -> Memory] /\ first \in Memories
  BY <1>2 DEF TypeOK
<1>6. mr \in Memory /\ mr.status = "active" /\ mr.into = "none"
  BY <1>5, MergedShape
<1> HIDE DEF mr
<1>7. \A m \in S : /\ Compressed(memories[m], d) \in Memory
                   /\ Compressed(memories[m], d).status = "compressed"
                   /\ Compressed(memories[m], d).into = d
  BY <1>2, <1>4, <1>5, CompressedShape
<1> DEFINE rd == [m \in T |-> memories[m]]
           wr == [m \in T |-> IF m = d THEN mr ELSE Compressed(memories[m], d)]
<1>8. rd \in [T -> Memory] /\ wr \in [T -> Memory]
  BY <1>2, <1>4, <1>5, <1>6, <1>7
<1>9. h = [op |-> "compress", read |-> rd, writes |-> wr]
  BY <1>4 DEF Compression, mr
<1>10. /\ h.read = rd /\ h.writes = wr /\ DOMAIN h.writes = T
  BY <1>9
<1>11. IsHand(h)
  <2>1. T \in SUBSET Memories /\ "compress" \in Operations
    BY <1>2, <1>4 DEF Operations
  <2> HIDE DEF T, rd, wr
  <2> QED
    BY <1>8, <1>9, <2>1 DEF IsHand
<1>12. \A x \in T : h.read[x] = memories[x]
  BY <1>10
<1>13. ASSUME NEW m \in T
       PROVE  /\ h.read[m].status \in Visible \cup {"none"}
              /\ h.writes[m].status # "none"
              /\ h.read[m].status # "none" => memories[m].status # "none"
              /\ h.read[m].into # "none" => memories[h.read[m].into].status # "none"
              /\ \/ h.writes[m].status # "compressed" /\ h.writes[m].into = h.read[m].into
                 \/ /\ h.writes[m].status = "compressed"
                    /\ h.writes[m].into \in T \ {m}
                    /\ h.writes[m].into # h.read[m].into
  <2>1. m \in Memories /\ h.read[m] = memories[m]
    BY <1>2, <1>4, <1>12
  <2>2. /\ memories[m].into # "none" => memories[memories[m].into].status # "none"
        /\ memories[m].status = "none" => memories[m].into = "none"
    BY <2>1 DEF RowsInv
  <2>3. CASE m = d
    <3>1. h.writes[m] = mr
      BY <1>10, <2>3
    <3> QED
      BY <1>4, <1>6, <2>1, <2>2, <2>3, <3>1
  <2>4. CASE m # d
    <3>1. m \in S /\ h.writes[m] = Compressed(memories[m], d)
      BY <1>10, <2>4
    <3>2. memories[m].status \in Visible
      BY <1>2, <3>1 DEF Visible
    <3>3. memories[m].into # d
      <4>1. "none" # d
        BY <1>4, MemoriesAssumption
      <4> QED
        BY <1>4, <2>2, <4>1
    <3>4. d \in T \ {m}
      BY <2>4
    <3>5. memories[m].status # "none"
      BY <3>2 DEF Visible, Production
    <3>6. h.writes[m].status = "compressed" /\ h.writes[m].into = d
      BY <1>7, <3>1
    <3> HIDE DEF T
    <3> QED
      BY <2>1, <2>2, <3>2, <3>3, <3>4, <3>5, <3>6
  <2> QED
    BY <2>3, <2>4
<1>14. HandOK(h, memories)
  <2> HIDE DEF T, rd, wr
  <2> QED
    BY <1>10, <1>13 DEF HandOK
<1> QED
  BY <1>10, <1>11, <1>12, <1>14

\* Whatever a transaction sets out to do, it has read the rows as they are.
LEMMA WorkIsSound ==
    ASSUME TypeOK, RowsInv(memories), NEW h \in Work
    PROVE  /\ IsHand(h) /\ HandOK(h, memories)
           /\ \A x \in DOMAIN h.writes : h.read[x] = memories[x]
<1>0. \A m \in Memories : memories[m] \in Memory
  BY DEF TypeOK
<1>1. CASE h \in Refreshes
  <2>1. PICK m \in Having({"candidate"}) :
            h = [op |-> "upsert", read |-> Only(m, memories[m]), writes |-> Only(m, memories[m])]
    BY <1>1 DEF Refreshes
  <2>2. m \in Memories /\ memories[m].status = "candidate" /\ memories[m] \in Memory
    BY <1>0 DEF Having
  <2>3. memories[m].status \in Visible /\ memories[m].status \notin {"none", "compressed"}
        /\ "upsert" \in Operations
    BY <2>2 DEF Visible, Operations
  <2> QED
    BY <2>1, <2>2, <2>3, OneRowHand
<1>2. CASE h \in Governances
  <2>1. PICK m \in Having(Visible) :
            \E e \in Evidence : \E row \in Governed(m, e) :
               h = [op |-> "govern", read |-> Only(m, memories[m]), writes |-> Only(m, row)]
    BY <1>2 DEF Governances
  <2>2. m \in Memories /\ memories[m].status \in Visible /\ memories[m] \in Memory
    BY <1>0 DEF Having
  <2>3. PICK e \in Evidence : \E row \in Governed(m, e) :
            h = [op |-> "govern", read |-> Only(m, memories[m]), writes |-> Only(m, row)]
    BY <2>1
  <2>4. PICK row \in Governed(m, e) :
            h = [op |-> "govern", read |-> Only(m, memories[m]), writes |-> Only(m, row)]
    BY <2>3
  <2> DEFINE r == [memories[m] EXCEPT !.evidence = e]
  <2>5. r \in Memory /\ r.status = memories[m].status /\ r.into = memories[m].into
    BY <2>2, EvidenceGiven
  <2>6. PICK s \in GovernedStatuses(r, eligibility[m]) : row = Given(r, s)
    BY DEF Governed
  <2> HIDE DEF r
  <2>7. s \in Statuses /\ s \notin {"none", "compressed"}
    BY <2>2, <2>5, GovernedStatusesShape
  <2>8. row \in Memory /\ row.status = s /\ row.into = memories[m].into
    BY <2>5, <2>6, <2>7, StatusGiven
  <2>9. "govern" \in Operations
    BY DEF Operations
  <2> QED
    BY <2>2, <2>4, <2>7, <2>8, <2>9, OneRowHand
<1>3. CASE h \in Compressions
  <2>1. PICK S \in Groups : \E first \in S : h = Compression(S, first, Drawn)
    BY <1>3 DEF Compressions
  <2>2. Having({"none"}) # {} /\ S \in SUBSET Having(Production)
    BY <2>1 DEF Groups
  <2> QED
    BY <2>1, <2>2, CompressionHand
<1> QED
  BY <1>1, <1>2, <1>3 DEF Work

-----------------------------------------------------------------------------
(* Writes.                                                                  *)

\* Rows written that are not absent, and whose `into` exists, keep the table
\* in order, and no memory becomes absent.
LEMMA RewrittenRows ==
    ASSUME TypeOK, RowsInv(memories), NEW S \in SUBSET Memories, NEW writes \in [S -> Memory],
           \A m \in S :
              /\ writes[m].status # "none"
              /\ writes[m].into # "none"
                    => writes[m].into \in S \/ memories[writes[m].into].status # "none"
              /\ writes[m].status = "compressed" => writes[m].into \notin {m, "none"},
           NEW rows, rows = Written(writes)
    PROVE  /\ rows \in [Memories -> Memory]
           /\ RowsInv(rows)
           /\ \A m \in Memories : memories[m].status # "none" => rows[m].status # "none"
<1>0. DOMAIN writes = S /\ memories \in [Memories -> Memory]
  BY DEF TypeOK
<1>1. \A m \in Memories : rows[m] = IF m \in S THEN writes[m] ELSE memories[m]
  BY <1>0 DEF Written
<1>2. rows \in [Memories -> Memory]
  BY <1>0 DEF Written
<1>3. \A m \in Memories : memories[m].status # "none" => rows[m].status # "none"
  BY <1>1
<1>4. ASSUME NEW m \in Memories
      PROVE  /\ rows[m].status = "none" => rows[m].into = "none"
             /\ rows[m].into # "none" => rows[rows[m].into].status # "none"
             /\ rows[m].status = "compressed" => rows[m].into \notin {m, "none"}
  <2>1. rows[m].into \in {"none"} \cup Memories
    BY <1>2, MemoryFields
  <2>2. CASE m \in S
    BY <1>1, <1>3, <2>1, <2>2
  <2>3. CASE m \notin S
    BY <1>1, <1>3, <2>1, <2>3 DEF RowsInv
  <2> QED
    BY <2>2, <2>3
<1> QED
  BY <1>2, <1>3, <1>4 DEF RowsInv

\* Both outcomes of a commit write such rows.
LEMMA HandWrites ==
    ASSUME TypeOK, RowsInv(memories), NEW h, IsHand(h), HandOK(h, memories),
           NEW writes \in {h.writes, Waited(h)}
    PROVE  \E S \in SUBSET Memories :
              /\ writes \in [S -> Memory] /\ DOMAIN h.writes = S
              /\ \A m \in S :
                    /\ writes[m].status # "none"
                    /\ writes[m].into # "none"
                          => writes[m].into \in S \/ memories[writes[m].into].status # "none"
                    /\ writes[m].status = "compressed" => writes[m].into \notin {m, "none"}
<1>1. PICK S \in SUBSET Memories :
              /\ h.read \in [S -> Memory] /\ h.writes \in [S -> Memory]
              /\ DOMAIN h.read = S /\ DOMAIN h.writes = S
  BY HandFields
<1>2. \A m \in S : memories[m] \in Memory /\ h.read[m] \in Memory /\ h.writes[m] \in Memory
  BY <1>1 DEF TypeOK
<1>3. ASSUME NEW m \in S
      PROVE  /\ h.read[m].status \in Visible \cup {"none"}
             /\ h.writes[m].status # "none"
             /\ h.read[m].status # "none" => memories[m].status # "none"
             /\ h.read[m].into # "none" => memories[h.read[m].into].status # "none"
             /\ \/ h.writes[m].status # "compressed" /\ h.writes[m].into = h.read[m].into
                \/ /\ h.writes[m].status = "compressed"
                   /\ h.writes[m].into \in S \ {m}
                   /\ h.writes[m].into # h.read[m].into
             /\ memories[m].into # "none" => memories[memories[m].into].status # "none"
             /\ memories[m].status = "compressed" => memories[m].into \notin {m, "none"}
  BY <1>1 DEF HandOK, RowsInv
<1>4. "none" \notin S /\ "compressed" \notin Visible \cup {"none"}
  BY MemoriesAssumption DEF Visible, Production
<1>5. CASE writes = h.writes
  <2>1. \A m \in S :
           /\ writes[m].status # "none"
           /\ writes[m].into # "none"
                 => writes[m].into \in S \/ memories[writes[m].into].status # "none"
           /\ writes[m].status = "compressed" => writes[m].into \notin {m, "none"}
    BY <1>3, <1>4, <1>5
  <2> QED
    BY <1>1, <1>5, <2>1
<1>6. CASE writes = Waited(h)
  <2>1. writes = [m \in S |-> Differing(h.read[m], h.writes[m], memories[m])]
    BY <1>1, <1>6 DEF Waited
  <2>2. ASSUME NEW m \in S
        PROVE  /\ writes[m] \in Memory
               /\ writes[m].status = IF h.writes[m].status = h.read[m].status
                                     THEN memories[m].status ELSE h.writes[m].status
               /\ writes[m].into = IF h.writes[m].into = h.read[m].into
                                   THEN memories[m].into ELSE h.writes[m].into
    BY <1>2, <2>1, DifferingShape
  <2>3. writes \in [S -> Memory]
    BY <2>1, <2>2
  <2>4. ASSUME NEW m \in S
        PROVE  /\ writes[m].status # "none"
               /\ writes[m].into # "none"
                     => writes[m].into \in S \/ memories[writes[m].into].status # "none"
               /\ writes[m].status = "compressed" => writes[m].into \notin {m, "none"}
    <3>1. writes[m].status # "none"
      BY <1>3, <2>2
    <3>2. writes[m].into # "none"
             => writes[m].into \in S \/ memories[writes[m].into].status # "none"
      BY <1>3, <2>2
    <3>3. writes[m].status = "compressed" => writes[m].into \notin {m, "none"}
      BY <1>3, <1>4, <2>2
    <3> QED
      BY <3>1, <3>2, <3>3
  <2> QED
    BY <1>1, <2>3, <2>4
<1> QED
  BY <1>5, <1>6

\* A transaction stays sound while others write.
LEMMA HandKept ==
    ASSUME NEW h, HandOK(h, memories), IsHand(h),
           \A m \in Memories : memories[m].status # "none" => memories'[m].status # "none"
    PROVE  HandOK(h, memories')
<1>1. PICK S \in SUBSET Memories :
              /\ h.read \in [S -> Memory] /\ h.writes \in [S -> Memory]
              /\ DOMAIN h.read = S /\ DOMAIN h.writes = S
  BY HandFields
<1>2. \A m \in S : h.read[m].into \in {"none"} \cup Memories
  BY <1>1, MemoryFields
<1> QED
  BY <1>1, <1>2 DEF HandOK

\* What a write of existing rows leaves of the invariant.
LEMMA WriteStep ==
    ASSUME IInv, NEW S \in SUBSET Memories, NEW writes \in [S -> Memory],
           \A m \in S :
              /\ writes[m].status # "none"
              /\ writes[m].into # "none"
                    => writes[m].into \in S \/ memories[writes[m].into].status # "none"
              /\ writes[m].status = "compressed" => writes[m].into \notin {m, "none"},
           memories' = Written(writes)
    PROVE  /\ memories' \in [Memories -> Memory] /\ RowsInv(memories')
           /\ \A t \in Actors : hands[t] # Idle => HandOK(hands[t], memories')
<1>1. TypeOK /\ RowsInv(memories)
  BY DEF IInv
<1>2. PICK rows : rows = Written(writes)
  OBVIOUS
<1>3. /\ rows \in [Memories -> Memory]
      /\ RowsInv(rows)
      /\ \A m \in Memories : memories[m].status # "none" => rows[m].status # "none"
  BY <1>1, <1>2, RewrittenRows
<1>4. memories' = rows
  BY <1>2
<1>5. RowsInv(memories')
  BY <1>3, <1>4
<1>6. ASSUME NEW t \in Actors, hands[t] # Idle
      PROVE  HandOK(hands[t], memories')
  <2>1. PICK h : h = hands[t]
    OBVIOUS
  <2>2. HandOK(h, memories) /\ IsHand(h)
    BY <1>6, <2>1 DEF IInv, HandsInv, TypeOK
  <2> QED
    BY <1>3, <1>4, <2>1, <2>2, HandKept
<1> QED
  BY <1>3, <1>4, <1>5, <1>6

-----------------------------------------------------------------------------
(* The steps.                                                               *)

\* Steps that write no memory.
LEMMA QuietStep ==
    ASSUME IInv, UNCHANGED <<memories, embeddings>>,
           conflicts' \in SUBSET Goals, eligibility' \in [Memories -> Records],
           stale' = stale, DOMAIN hands' = Actors,
           \A t \in Actors : \/ hands'[t] \in {hands[t], Idle}
                             \/ IsHand(hands'[t]) /\ HandOK(hands'[t], memories)
    PROVE  IInv'
<1>1. TypeOK'
  BY DEF IInv, TypeOK
<1>2. RowsInv(memories)'
  BY DEF IInv, RowsInv
<1>3. HandsInv'
  BY DEF IInv, HandsInv, HandOK
<1>4. EmbeddingsFollow'
  BY DEF IInv, EmbeddingsFollow
<1> QED
  BY <1>1, <1>2, <1>3, <1>4 DEF IInv

\* Steps that write memories and what is embedded with them.
LEMMA LoudStep ==
    ASSUME IInv, NEW h, IsHand(h), HandOK(h, memories),
           NEW writes \in {h.writes, Waited(h)},
           memories' = Written(writes), NEW made, embeddings' = Embedded(h.writes, made),
           UNCHANGED <<eligibility, conflicts>>, stale' \in BOOLEAN,
           ~stale' => ~stale /\ \A m \in DOMAIN h.writes : h.read[m] = memories[m],
           DOMAIN hands' = Actors,
           \A t \in Actors : hands'[t] \in {hands[t], Idle}
    PROVE  IInv'
<1>1. TypeOK /\ RowsInv(memories)
  BY DEF IInv
<1>2. PICK S \in SUBSET Memories :
              /\ writes \in [S -> Memory] /\ DOMAIN h.writes = S
              /\ \A m \in S :
                    /\ writes[m].status # "none"
                    /\ writes[m].into # "none"
                          => writes[m].into \in S \/ memories[writes[m].into].status # "none"
                    /\ writes[m].status = "compressed" => writes[m].into \notin {m, "none"}
  BY <1>1, HandWrites
<1>3. PICK R \in SUBSET Memories :
              /\ h.read \in [R -> Memory] /\ h.writes \in [R -> Memory]
              /\ DOMAIN h.read = R /\ DOMAIN h.writes = R
  BY HandFields
<1>4. R = S
  BY <1>2, <1>3
<1>5. /\ memories' \in [Memories -> Memory] /\ RowsInv(memories')
      /\ \A t \in Actors : hands[t] # Idle => HandOK(hands[t], memories')
  BY <1>2, WriteStep
<1>6. \A m \in S : h.writes[m].status \in Statuses
  BY <1>3, <1>4, MemoryFields
<1>7. embeddings' \in [Memories -> Statuses]
  BY <1>1, <1>2, <1>6 DEF Embedded, TypeOK
<1>8. TypeOK'
  BY <1>1, <1>5, <1>7 DEF TypeOK
<1>9. HandsInv'
  BY <1>5 DEF IInv, HandsInv
<1>10. ASSUME ~stale', NEW m \in Memories
       PROVE  embeddings'[m] \in {"none", memories'[m].status}
  <2>1. /\ memories'[m] = IF m \in S THEN writes[m] ELSE memories[m]
        /\ embeddings'[m] = IF m \in S /\ (m \in made \/ embeddings[m] # "none")
                            THEN h.writes[m].status ELSE embeddings[m]
    BY <1>2 DEF Written, Embedded
  <2>2. embeddings[m] \in {"none", memories[m].status}
    BY <1>10 DEF IInv, EmbeddingsFollow
  <2>3. ASSUME m \in S PROVE writes[m].status = h.writes[m].status
    <3>1. h.read[m] = memories[m]
      BY <1>2, <1>10, <2>3
    <3>2. CASE writes = h.writes
      BY <3>2
    <3>3. CASE writes = Waited(h)
      <4>1. h.read[m] \in Memory /\ h.writes[m] \in Memory /\ memories[m] \in Memory
        BY <1>1, <1>3, <1>4, <2>3 DEF TypeOK
      <4>2. writes[m] = Differing(h.read[m], h.writes[m], memories[m])
        BY <1>2, <2>3, <3>3 DEF Waited
      <4> QED
        BY <3>1, <4>1, <4>2, DifferingShape
    <3> QED
      BY <3>2, <3>3
  <2> QED
    BY <2>1, <2>2, <2>3
<1>11. EmbeddingsFollow'
  BY <1>10 DEF EmbeddingsFollow
<1> QED
  BY <1>5, <1>8, <1>9, <1>11 DEF IInv

\* Steps that write one memory, in a transaction of their own.
LEMMA SingleStep ==
    ASSUME IInv, NEW m \in Memories, NEW row \in Memory,
           row.status \notin {"none", "compressed"}, row.into = memories[m].into,
           NEW made, Store(Only(m, row), made), UNCHANGED <<eligibility, conflicts, hands, stale>>
    PROVE  IInv'
<1>1. TypeOK /\ RowsInv(memories)
  BY DEF IInv
<1> DEFINE writes == Only(m, row)
<1>2. writes \in [{m} -> Memory] /\ DOMAIN writes = {m} /\ writes[m] = row
  BY DEF Only
<1>3. memories' = Written(writes) /\ embeddings' = Embedded(writes, made)
  BY DEF Store
<1> HIDE DEF writes
<1>4. memories[m].into # "none" => memories[memories[m].into].status # "none"
  BY <1>1 DEF RowsInv
<1>5. /\ memories' \in [Memories -> Memory] /\ RowsInv(memories')
      /\ \A t \in Actors : hands[t] # Idle => HandOK(hands[t], memories')
  <2>1. {m} \in SUBSET Memories
    OBVIOUS
  <2>2. \A x \in {m} :
              /\ writes[x].status # "none"
              /\ writes[x].into # "none"
                    => writes[x].into \in {m} \/ memories[writes[x].into].status # "none"
              /\ writes[x].status = "compressed" => writes[x].into \notin {x, "none"}
    BY <1>2, <1>4
  <2> QED
    BY <1>2, <1>3, <2>1, <2>2, WriteStep
<1>6. row.status \in Statuses
  BY MemoryFields
<1>7. embeddings' = [x \in Memories |-> IF x \in {m} /\ (x \in made \/ embeddings[x] # "none")
                                       THEN writes[x].status ELSE embeddings[x]]
  BY <1>2, <1>3 DEF Embedded
<1>8. embeddings' \in [Memories -> Statuses]
  BY <1>1, <1>2, <1>6, <1>7 DEF TypeOK
<1>9. TypeOK'
  BY <1>1, <1>5, <1>8 DEF TypeOK
<1>10. HandsInv'
  BY <1>5 DEF IInv, HandsInv
<1>11. EmbeddingsFollow'
  <2>1. memories' = [x \in Memories |-> IF x \in {m} THEN writes[x] ELSE memories[x]]
    BY <1>2, <1>3 DEF Written
  <2> QED
    BY <1>7, <2>1 DEF EmbeddingsFollow, IInv
<1> QED
  BY <1>5, <1>9, <1>10, <1>11 DEF IInv

\* The invariant holds at first.
LEMMA InitIInv == Init => IInv
<1> SUFFICES ASSUME Init PROVE IInv
  OBVIOUS
<1>1. memories = [m \in Memories |-> Absent] /\ Absent \in Memory
      /\ Absent.status = "none" /\ Absent.into = "none"
  BY AbsentShape DEF Init
<1>2. TypeOK
  BY <1>1 DEF Init, TypeOK, Statuses, Records
<1>3. RowsInv(memories)
  BY <1>1 DEF RowsInv
<1>4. HandsInv
  BY DEF Init, HandsInv
<1>5. EmbeddingsFollow
  BY <1>1 DEF Init, EmbeddingsFollow
<1> QED
  BY <1>2, <1>3, <1>4, <1>5 DEF IInv

\* Every step of the memories keeps the invariant.
LEMMA NextIInv == IInv /\ [Next]_vars => IInv'
<1> SUFFICES ASSUME IInv, [Next]_vars PROVE IInv'
  OBVIOUS
<1>0. /\ TypeOK /\ RowsInv(memories) /\ HandsInv
      /\ eligibility \in [Memories -> Records] /\ conflicts \in SUBSET Goals
      /\ stale \in BOOLEAN /\ DOMAIN hands = Actors
      /\ \A m \in Memories : memories[m] \in Memory
  BY DEF IInv, TypeOK, HandsInv
<1>1. ASSUME NEW i \in Identity, Create(i) PROVE IInv'
  <2>1. Drawn \in Memories /\ memories[Drawn].status = "none"
    BY <1>1, DrawnIsUnused DEF Create
  <2>2. memories[Drawn].into = "none"
    BY <1>0, <2>1 DEF RowsInv
  <2>3. Candidate(i) \in Memory /\ Candidate(i).status = "candidate" /\ Candidate(i).into = "none"
    BY CandidateShape
  <2>4. /\ UNCHANGED <<eligibility, conflicts, hands, stale>>
        /\ \E made \in Creatable({Drawn}) : Store(Only(Drawn, Candidate(i)), made)
    BY <1>1 DEF Create, Insert
  <2> QED
    BY <2>1, <2>2, <2>3, <2>4, SingleStep
<1>2. ASSUME NEW m \in Memories, NEW record \in Records, Evaluate(m, record) PROVE IInv'
  <2>1. eligibility' \in [Memories -> Records]
    BY <1>0, <1>2 DEF Evaluate
  <2> QED
    BY <1>0, <1>2, <2>1, QuietStep DEF Evaluate
<1>3. ASSUME NEW m \in Memories, NEW s \in {"candidate", "active", "suppressed"},
             Decide(m, s)
      PROVE  IInv'
  <2>1. s \in Statuses /\ s \notin {"none", "compressed"}
    BY DEF Statuses, Current, Visible, Production
  <2>2. PICK row : row = Given(memories[m], s)
    OBVIOUS
  <2>3. row \in Memory /\ row.status = s /\ row.into = memories[m].into
    BY <1>0, <2>1, <2>2, StatusGiven
  <2>4. Store(Only(m, row), {}) /\ UNCHANGED <<eligibility, conflicts, hands, stale>>
    BY <1>3, <2>2 DEF Decide
  <2> QED
    BY <2>1, <2>3, <2>4, SingleStep
<1>4. ASSUME NEW h \in Work, Undisturbed(h) PROVE IInv'
  <2>1. /\ IsHand(h) /\ HandOK(h, memories)
        /\ \A x \in DOMAIN h.writes : h.read[x] = memories[x]
    BY <1>0, WorkIsSound
  <2>2. UNCHANGED <<eligibility, conflicts, hands, stale>>
    BY <1>4 DEF Undisturbed
  <2>3. PICK made \in Made(h) :
            memories' = Written(h.writes) /\ embeddings' = Embedded(h.writes, made)
    BY <1>4 DEF Undisturbed, Store
  <2> QED
    BY <1>0, <2>1, <2>2, <2>3, LoudStep
<1>5. ASSUME NEW h \in Work, NEW t \in Actors, Begin(t, h) PROVE IInv'
  <2>1. IsHand(h) /\ HandOK(h, memories)
    BY <1>0, WorkIsSound
  <2>2. /\ hands' = [hands EXCEPT ![t] = h]
        /\ UNCHANGED <<memories, embeddings, eligibility, conflicts, stale>>
    BY <1>5 DEF Begin
  <2>3. /\ DOMAIN hands' = Actors
        /\ \A u \in Actors : hands'[u] = IF u = t THEN h ELSE hands[u]
    BY <1>0, <2>2
  <2> QED
    BY <1>0, <2>1, <2>2, <2>3, QuietStep
<1>6. ASSUME NEW t \in Actors, Commit(t) PROVE IInv'
  <2>1. PICK h : h = hands[t]
    OBVIOUS
  <2>2. h # Idle /\ IsHand(h) /\ HandOK(h, memories)
    BY <1>0, <1>6, <2>1 DEF Commit, TypeOK, HandsInv
  <2>3. PICK writes \in {h.writes, Waited(h)} :
            /\ memories' = Written(writes)
            /\ \E made \in Made(h) : embeddings' = Embedded(h.writes, made)
    BY <1>6, <2>1 DEF Commit
  <2>4. PICK made \in Made(h) : embeddings' = Embedded(h.writes, made)
    BY <2>3
  <2>5. /\ stale' = (stale \/ ~Fresh(h)) /\ hands' = [hands EXCEPT ![t] = Idle]
        /\ UNCHANGED <<eligibility, conflicts>>
    BY <1>6, <2>1 DEF Commit
  <2>6. /\ DOMAIN hands' = Actors
        /\ \A u \in Actors : hands'[u] = IF u = t THEN Idle ELSE hands[u]
    BY <1>0, <2>5
  <2>7. PICK S : DOMAIN h.read = S /\ DOMAIN h.writes = S
    BY <2>2, HandFields
  <2>8. stale' \in BOOLEAN
    BY <1>0, <2>5 DEF Fresh
  <2>9. ~stale' => ~stale /\ \A m \in DOMAIN h.writes : h.read[m] = memories[m]
    BY <2>5, <2>7 DEF Fresh
  <2> QED
    BY <2>2, <2>3, <2>5, <2>6, <2>8, <2>9, <2>4, LoudStep
<1>7. ASSUME NEW t \in Actors, Abort(t) PROVE IInv'
  <2>1. /\ hands' = [hands EXCEPT ![t] = Idle]
        /\ UNCHANGED <<memories, embeddings, eligibility, conflicts, stale>>
    BY <1>7 DEF Abort
  <2>2. /\ DOMAIN hands' = Actors
        /\ \A u \in Actors : hands'[u] = IF u = t THEN Idle ELSE hands[u]
    BY <1>0, <2>1
  <2> QED
    BY <1>0, <2>1, <2>2, QuietStep
<1>8. CASE RefreshConflicts
  BY <1>0, <1>8, QuietStep DEF RefreshConflicts, Remaining, Found
<1>9. CASE UNCHANGED vars
  BY <1>0, <1>9, QuietStep DEF vars
<1> QED
  BY <1>1, <1>2, <1>3, <1>4, <1>5, <1>6, <1>7, <1>8, <1>9 DEF Next, Suppress, Restore

\* So it holds of every behaviour.
LEMMA Inductive == Spec => []IInv
BY InitIInv, NextIInv, PTL DEF Spec

-----------------------------------------------------------------------------
(* The theorems.                                                            *)

\* The variables have their types: rows, hands and conflict sets as
\* services/memory.py keeps them.
THEOREM TypeCorrect == Spec => []TypeOK
<1>1. IInv => TypeOK
  BY DEF IInv
<1> QED
  BY <1>1, Inductive, PTL

\* Without a stale write the embeddings that retrieval reads have the status of
\* the memories, whatever is created, governed, compressed or decided on.
THEOREM EmbeddingsHaveTheStatus == Spec => []EmbeddingsFollow
<1>1. IInv => EmbeddingsFollow
  BY DEF IInv
<1> QED
  BY <1>1, Inductive, PTL

\* A compressed memory names another memory that exists, also after the blind
\* and the column-wise writes of transactions that overlap.
THEOREM CompressedNamesAnother == Spec => []CompressedIsCovered
<1>1. IInv => CompressedIsCovered
  BY DEF IInv, RowsInv, CompressedIsCovered, Having
<1> QED
  BY <1>1, Inductive, PTL

\* A suppressed memory comes back by an operator's decision, or by a transaction
\* that writes on a row it read before.
THEOREM SuppressedIsKept == Spec => SuppressedStays
<1> DEFINE Step == \A m \in Memories :
          (memories[m].status = "suppressed" /\ memories'[m].status # "suppressed")
              => \/ \E status \in {"candidate", "active"} : Restore(m, status)
                 \/ \E t \in Actors : Commit(t) /\ m \in DOMAIN hands[t].read
                                      /\ hands[t].read[m] # memories[m]
<1>1. IInv /\ [Next]_vars => [Step]_vars
  <2> SUFFICES ASSUME IInv, Next, NEW m \in Memories,
                      memories[m].status = "suppressed", memories'[m].status # "suppressed",
                      \A t \in Actors : Commit(t) /\ m \in DOMAIN hands[t].read
                                          => hands[t].read[m] = memories[m]
               PROVE  \E status \in {"candidate", "active"} : Restore(m, status)
    OBVIOUS
  <2>0. TypeOK /\ RowsInv(memories) /\ HandsInv /\ \A x \in Memories : memories[x] \in Memory
    BY DEF IInv, TypeOK
  <2>1. ASSUME NEW x \in Memories, NEW row, row.status = "suppressed" \/ x # m,
               memories' = Written(Only(x, row))
        PROVE  FALSE
    BY <2>1 DEF Written, Only
  <2>2. ASSUME NEW i \in Identity, Create(i) PROVE FALSE
    <3>1. Drawn \in Memories /\ Drawn # m
      BY <2>2, DrawnIsUnused DEF Create
    <3> QED
      BY <2>1, <2>2, <3>1 DEF Create, Insert, Store
  <2>3. ASSUME NEW x \in Memories, Suppress(x) PROVE FALSE
    <3>1. PICK row : row = Given(memories[x], "suppressed")
      OBVIOUS
    <3>2. row.status = "suppressed"
      BY <2>0, <3>1, StatusGiven DEF Statuses, Current
    <3> QED
      BY <2>1, <2>3, <3>1, <3>2 DEF Suppress, Decide, Store
  <2>4. ASSUME NEW x \in Memories, NEW status \in {"candidate", "active"}, Restore(x, status),
               x # m
        PROVE  FALSE
    BY <2>1, <2>4 DEF Restore, Decide, Store
  <2>5. ASSUME NEW h, IsHand(h), HandOK(h, memories), NEW writes \in {h.writes, Waited(h)},
               m \in DOMAIN h.read => h.read[m] = memories[m],
               memories' = Written(writes)
        PROVE  FALSE
    <3>1. PICK S \in SUBSET Memories : writes \in [S -> Memory] /\ DOMAIN h.writes = S
      BY <2>0, <2>5, HandWrites
    <3>2. m \in S
      BY <2>5, <3>1 DEF Written
    <3>4. DOMAIN h.read = S
      BY <2>5, <3>1, HandFields
    <3>3. h.read[m].status \in Visible \cup {"none"} /\ h.read[m] = memories[m]
      BY <2>5, <3>1, <3>2, <3>4 DEF HandOK
    <3> QED
      BY <3>3 DEF Visible, Production
  <2>6. ASSUME NEW h \in Work, Undisturbed(h) PROVE FALSE
    <3>1. /\ IsHand(h) /\ HandOK(h, memories)
          /\ \A x \in DOMAIN h.writes : h.read[x] = memories[x]
      BY <2>0, WorkIsSound
    <3>2. memories' = Written(h.writes)
      BY <2>6 DEF Undisturbed, Store
    <3>3. DOMAIN h.read = DOMAIN h.writes
      BY <3>1, HandFields
    <3> QED
      BY <2>5, <3>1, <3>2, <3>3
  <2>7. ASSUME NEW t \in Actors, Commit(t) PROVE FALSE
    <3>1. PICK h : h = hands[t]
      OBVIOUS
    <3>2. h # Idle /\ IsHand(h) /\ HandOK(h, memories)
      BY <2>0, <2>7, <3>1 DEF Commit, TypeOK, HandsInv
    <3>3. PICK writes \in {h.writes, Waited(h)} : memories' = Written(writes)
      BY <2>7, <3>1 DEF Commit
    <3>4. m \in DOMAIN h.read => h.read[m] = memories[m]
      BY <2>7, <3>1
    <3> QED
      BY <2>5, <3>2, <3>3, <3>4
  <2>8. /\ ~(\E x \in Memories, record \in Records : Evaluate(x, record))
        /\ ~(\E h \in Work, t \in Actors : Begin(t, h))
        /\ ~(\E t \in Actors : Abort(t)) /\ ~RefreshConflicts
    BY DEF Evaluate, Begin, Abort, RefreshConflicts
  <2>9. PICK x \in Memories : \E status \in {"candidate", "active"} : Restore(x, status)
    BY <2>2, <2>3, <2>6, <2>7, <2>8 DEF Next
  <2> QED
    BY <2>4, <2>9
<1> HIDE DEF Step
<1>2. Spec => [][Step]_vars
  BY <1>1, Inductive, PTL DEF Spec
<1> QED
  BY <1>2 DEF SuppressedStays, Step
=============================================================================
