---------------------------- MODULE StageGateProofs ----------------------------
(***************************************************************************)
(* Theorems about StageGate, for every blueprint, window and budget: an    *)
(* item gets a task of each runner at most, for any number of runners; and *)
(* with a single runner the gate holds and a stage has one milestone.      *)
(***************************************************************************)
EXTENDS StageGate, SequenceTheorems, FiniteSetTheorems, TLAPS

-----------------------------------------------------------------------------
(* Sequences of statuses. *)

\* A function on 1..n is a sequence.
LEMMA FunctionIsSeq ==
    ASSUME NEW S, NEW n \in Nat, NEW f \in [1..n -> S]
    PROVE  f \in Seq(S) /\ Len(f) = n
<1>1. f \in Seq(S)
  BY SeqDef
<1>2. DOMAIN f = 1..n /\ DOMAIN f = 1..Len(f) /\ Len(f) \in Nat
  BY <1>1, LenProperties
<1> QED
  BY <1>1, <1>2

\* The length, the domain and the elements of a sequence of statuses.
LEMMA StatusAt ==
    ASSUME NEW seq \in Seq(Statuses)
    PROVE  /\ Len(seq) \in Nat /\ DOMAIN seq = 1..Len(seq)
           /\ \A n \in DOMAIN seq : seq[n] \in Statuses
           /\ Len(seq) = 0 <=> seq = <<>>
BY LenProperties, EmptySeq, ElementOfSeq

\* Suppression closes tasks and makes none.
LEMMA CloseShape ==
    ASSUME NEW now \in Seq(Statuses), NEW seen, NEW beyond
    PROVE  /\ Close(now, seen, beyond) \in Seq(Statuses)
           /\ Len(Close(now, seen, beyond)) = Len(now)
           /\ DOMAIN Close(now, seen, beyond) = DOMAIN now
           /\ \A n \in DOMAIN now : Close(now, seen, beyond)[n] \in {now[n], "superseded"}
<1> DEFINE new == Close(now, seen, beyond)
<1>1. DOMAIN now = 1..Len(now) /\ Len(now) \in Nat /\ \A n \in DOMAIN now : now[n] \in Statuses
  BY StatusAt
<1>2. /\ DOMAIN new = 1..Len(now)
      /\ \A n \in DOMAIN now : new[n] \in {now[n], "superseded"}
      /\ new = [n \in 1..Len(now) |-> new[n]]
  BY <1>1 DEF Close
<1> HIDE DEF new
<1>3. \A n \in 1..Len(now) : new[n] \in Statuses
  BY <1>1, <1>2 DEF Statuses
<1>4. new \in [1..Len(now) -> Statuses]
  BY <1>2, <1>3
<1> QED
  BY <1>1, <1>2, <1>4, FunctionIsSeq DEF new

\* A task made is the last one.
LEMMA AppendShape ==
    ASSUME NEW seq \in Seq(Statuses)
    PROVE  /\ Append(seq, Fresh) \in Seq(Statuses)
           /\ Len(Append(seq, Fresh)) = Len(seq) + 1
           /\ DOMAIN Append(seq, Fresh) = 1..(Len(seq) + 1)
           /\ \A n \in DOMAIN seq : Append(seq, Fresh)[n] = seq[n]
           /\ Append(seq, Fresh)[Len(seq) + 1] = "open"
<1>1. "open" \in Statuses
  BY DEF Statuses
<1> QED
  BY <1>1, AppendProperties, LenProperties DEF Fresh

\* Changing the status of a task makes no task.
LEMMA SetShape ==
    ASSUME NEW seq \in Seq(Statuses), NEW k \in DOMAIN seq, NEW status \in Statuses
    PROVE  /\ [seq EXCEPT ![k] = status] \in Seq(Statuses)
           /\ Len([seq EXCEPT ![k] = status]) = Len(seq)
BY ExceptSeq, LenProperties

-----------------------------------------------------------------------------
(* Tables of tasks. *)

\* The lists of a table of tasks.
LEMMA TaskFields ==
    ASSUME NEW rows \in Tasks
    PROVE  /\ \A i \in Items : rows.lessons[i] \in Seq(Statuses)
           /\ \A s \in Stages : rows.milestones[s] \in Seq(Statuses)
           /\ \A s \in Stages : rows.repairs[s] \in Seq(Statuses)
BY DEF Tasks

\* The empty table is a table.
LEMMA NoTasks == Nothing \in Tasks /\ \A i \in Items : Nothing.lessons[i] = <<>>
<1>1. <<>> \in Seq(Statuses)
  BY EmptySeq
<1> QED
  BY <1>1 DEF Nothing, Tasks

\* Suppression over a whole table closes tasks, and neither makes nor reopens one.
LEMMA SuppressedShape ==
    ASSUME NEW rows \in Tasks, NEW seen, NEW blocked
    PROVE  /\ Suppressed(rows, seen, blocked) \in Tasks
           /\ \A i \in Items :
                 Len(Suppressed(rows, seen, blocked).lessons[i]) = Len(rows.lessons[i])
           /\ \A s \in Stages :
                 /\ DOMAIN Suppressed(rows, seen, blocked).milestones[s] = DOMAIN rows.milestones[s]
                 /\ \A n \in DOMAIN rows.milestones[s] :
                       Suppressed(rows, seen, blocked).milestones[s][n]
                           \in {rows.milestones[s][n], "superseded"}
<1> DEFINE L(i) == Close(rows.lessons[i], seen.lessons[i], Beyond(StageOf[i], blocked))
           M(s) == Close(rows.milestones[s], seen.milestones[s], Beyond(s, blocked))
           R(s) == Close(rows.repairs[s], seen.repairs[s], Beyond(s, blocked))
<1>1. \A i \in Items : L(i) \in Seq(Statuses) /\ Len(L(i)) = Len(rows.lessons[i])
  BY TaskFields, CloseShape
<1>2. \A s \in Stages : /\ M(s) \in Seq(Statuses)
                        /\ DOMAIN M(s) = DOMAIN rows.milestones[s]
                        /\ \A n \in DOMAIN rows.milestones[s] :
                              M(s)[n] \in {rows.milestones[s][n], "superseded"}
  BY TaskFields, CloseShape
<1>3. \A s \in Stages : R(s) \in Seq(Statuses)
  BY TaskFields, CloseShape
<1>4. Suppressed(rows, seen, blocked) =
          [lessons |-> [i \in Items |-> L(i)], milestones |-> [s \in Stages |-> M(s)],
           repairs |-> [s \in Stages |-> R(s)]]
  BY DEF Suppressed
<1> HIDE DEF L, M, R
<1> QED
  BY <1>1, <1>2, <1>3, <1>4 DEF Tasks

\* create_many adds one task for each item.
LEMMA WithLessonsShape ==
    ASSUME NEW rows \in Tasks, NEW new
    PROVE  /\ WithLessons(rows, new) \in Tasks
           /\ \A i \in Items :
                 Len(WithLessons(rows, new).lessons[i]) =
                     IF i \in new THEN Len(rows.lessons[i]) + 1 ELSE Len(rows.lessons[i])
           /\ WithLessons(rows, new).milestones = rows.milestones
           /\ WithLessons(rows, new).repairs = rows.repairs
<1> DEFINE L(i) == IF i \in new THEN Append(rows.lessons[i], Fresh) ELSE rows.lessons[i]
<1>1. \A i \in Items :
          /\ L(i) \in Seq(Statuses)
          /\ Len(L(i)) = IF i \in new THEN Len(rows.lessons[i]) + 1 ELSE Len(rows.lessons[i])
  BY TaskFields, AppendShape
<1>2. WithLessons(rows, new) = [rows EXCEPT !.lessons = [i \in Items |-> L(i)]]
  BY DEF WithLessons
<1>3. /\ WithLessons(rows, new).lessons = [i \in Items |-> L(i)]
      /\ WithLessons(rows, new).milestones = rows.milestones
      /\ WithLessons(rows, new).repairs = rows.repairs
      /\ WithLessons(rows, new) = [lessons |-> [i \in Items |-> L(i)],
                                   milestones |-> rows.milestones, repairs |-> rows.repairs]
  BY <1>2 DEF Tasks
<1> HIDE DEF L
<1>4. WithLessons(rows, new) \in Tasks
  BY <1>1, <1>3 DEF Tasks
<1>5. \A i \in Items : WithLessons(rows, new).lessons[i] = L(i)
  BY <1>3
<1> QED
  BY <1>1, <1>3, <1>4, <1>5

\* A window that is written adds one task for each item that is new, and no milestone.
LEMMA WrittenShape ==
    ASSUME NEW rows \in Tasks, NEW r, NEW new
    PROVE  /\ Written(rows, r, new) \in Tasks
           /\ \A i \in Items :
                 Len(Written(rows, r, new).lessons[i]) =
                     IF i \in new THEN Len(rows.lessons[i]) + 1 ELSE Len(rows.lessons[i])
           /\ \A s \in Stages :
                 /\ DOMAIN Written(rows, r, new).milestones[s] = DOMAIN rows.milestones[s]
                 /\ \A n \in DOMAIN rows.milestones[s] :
                       Written(rows, r, new).milestones[s][n] \in {rows.milestones[s][n], "superseded"}
<1> DEFINE sup == Suppressed(rows, hand[r].seen, hand[r].blocked)
<1>1. /\ sup \in Tasks
      /\ \A i \in Items : Len(sup.lessons[i]) = Len(rows.lessons[i])
      /\ \A s \in Stages :
            /\ DOMAIN sup.milestones[s] = DOMAIN rows.milestones[s]
            /\ \A n \in DOMAIN rows.milestones[s] :
                  sup.milestones[s][n] \in {rows.milestones[s][n], "superseded"}
  BY SuppressedShape
<1>2. Written(rows, r, new) = WithLessons(sup, new)
  BY DEF Written
<1> HIDE DEF sup
<1>3. /\ WithLessons(sup, new) \in Tasks
      /\ \A i \in Items : Len(WithLessons(sup, new).lessons[i]) =
                               IF i \in new THEN Len(sup.lessons[i]) + 1 ELSE Len(sup.lessons[i])
      /\ WithLessons(sup, new).milestones = sup.milestones
  BY <1>1, WithLessonsShape
<1> QED
  BY <1>1, <1>2, <1>3

\* One row gets a status.
LEMMA SetStatusShape ==
    ASSUME tasks \in Tasks, NEW row \in RowsOf(tasks), NEW status \in Statuses
    PROVE  /\ SetStatus(row, status) \in Tasks
           /\ \A i \in Items : Len(SetStatus(row, status).lessons[i]) = Len(tasks.lessons[i])
           /\ \A s \in Stages :
                 /\ DOMAIN SetStatus(row, status).milestones[s] = DOMAIN tasks.milestones[s]
                 /\ \A n \in DOMAIN tasks.milestones[s] :
                       \/ SetStatus(row, status).milestones[s][n] = tasks.milestones[s][n]
                       \/ /\ SetStatus(row, status).milestones[s][n] = status
                          /\ StatusOf(tasks, row) = tasks.milestones[s][n]
<1>1. ASSUME NEW i \in Items, NEW n \in DOMAIN tasks.lessons[i], row = <<"lessons", i, n>>
      PROVE  /\ SetStatus(row, status) \in Tasks
             /\ \A j \in Items : Len(SetStatus(row, status).lessons[j]) = Len(tasks.lessons[j])
             /\ SetStatus(row, status).milestones = tasks.milestones
  <2> DEFINE new == [tasks.lessons[i] EXCEPT ![n] = status]
  <2>1. new \in Seq(Statuses) /\ Len(new) = Len(tasks.lessons[i])
    BY TaskFields, SetShape
  <2>2. row[1] = "lessons" /\ row[2] = i /\ row[3] = n
    BY <1>1
  <2>3. SetStatus(row, status) = [tasks EXCEPT !["lessons"][i][n] = status]
    BY <2>2, Zenon DEF SetStatus
  <2>4. /\ SetStatus(row, status).lessons = [tasks.lessons EXCEPT ![i] = new]
        /\ SetStatus(row, status).milestones = tasks.milestones
        /\ SetStatus(row, status).repairs = tasks.repairs
        /\ SetStatus(row, status) = [lessons |-> [tasks.lessons EXCEPT ![i] = new],
                                     milestones |-> tasks.milestones, repairs |-> tasks.repairs]
    BY <2>3 DEF Tasks
  <2> HIDE DEF new
  <2> QED
    BY <2>1, <2>4 DEF Tasks
<1>2. ASSUME NEW s \in Stages, NEW n \in DOMAIN tasks.milestones[s], row = <<"milestones", s, n>>
      PROVE  /\ SetStatus(row, status) \in Tasks
             /\ SetStatus(row, status).lessons = tasks.lessons
             /\ \A t \in Stages :
                   /\ DOMAIN SetStatus(row, status).milestones[t] = DOMAIN tasks.milestones[t]
                   /\ \A m \in DOMAIN tasks.milestones[t] :
                         \/ SetStatus(row, status).milestones[t][m] = tasks.milestones[t][m]
                         \/ /\ SetStatus(row, status).milestones[t][m] = status
                            /\ t = s /\ m = n
             /\ StatusOf(tasks, row) = tasks.milestones[s][n]
  <2> DEFINE new == [tasks.milestones[s] EXCEPT ![n] = status]
  <2>1. /\ new \in Seq(Statuses) /\ DOMAIN new = DOMAIN tasks.milestones[s]
        /\ \A m \in DOMAIN tasks.milestones[s] : new[m] = IF m = n THEN status ELSE tasks.milestones[s][m]
    BY TaskFields, SetShape
  <2>2. row[1] = "milestones" /\ row[2] = s /\ row[3] = n
    BY <1>2
  <2>3. SetStatus(row, status) = [tasks EXCEPT !["milestones"][s][n] = status]
    BY <2>2, Zenon DEF SetStatus
  <2>4. /\ SetStatus(row, status).milestones = [tasks.milestones EXCEPT ![s] = new]
        /\ SetStatus(row, status).lessons = tasks.lessons
        /\ SetStatus(row, status).repairs = tasks.repairs
        /\ SetStatus(row, status) = [milestones |-> [tasks.milestones EXCEPT ![s] = new],
                                     lessons |-> tasks.lessons, repairs |-> tasks.repairs]
    BY <2>3 DEF Tasks
  <2>5. StatusOf(tasks, row) = tasks.milestones[s][n]
    BY <2>2 DEF StatusOf
  <2> HIDE DEF new
  <2> QED
    BY <2>1, <2>4, <2>5 DEF Tasks
<1>3. ASSUME NEW s \in Stages, NEW n \in DOMAIN tasks.repairs[s], row = <<"repairs", s, n>>
      PROVE  /\ SetStatus(row, status) \in Tasks
             /\ SetStatus(row, status).lessons = tasks.lessons
             /\ SetStatus(row, status).milestones = tasks.milestones
  <2> DEFINE new == [tasks.repairs[s] EXCEPT ![n] = status]
  <2>1. new \in Seq(Statuses)
    BY TaskFields, SetShape
  <2>2. row[1] = "repairs" /\ row[2] = s /\ row[3] = n
    BY <1>3
  <2>3. SetStatus(row, status) = [tasks EXCEPT !["repairs"][s][n] = status]
    BY <2>2, Zenon DEF SetStatus
  <2>4. /\ SetStatus(row, status).milestones = tasks.milestones
        /\ SetStatus(row, status).lessons = tasks.lessons
        /\ SetStatus(row, status) = [repairs |-> [tasks.repairs EXCEPT ![s] = new],
                                     lessons |-> tasks.lessons, milestones |-> tasks.milestones]
    BY <2>3 DEF Tasks
  <2> HIDE DEF new
  <2> QED
    BY <2>1, <2>4 DEF Tasks
<1>4. \/ \E i \in Items : \E n \in DOMAIN tasks.lessons[i] : row = <<"lessons", i, n>>
      \/ \E s \in Stages : \E n \in DOMAIN tasks.milestones[s] : row = <<"milestones", s, n>>
      \/ \E s \in Stages : \E n \in DOMAIN tasks.repairs[s] : row = <<"repairs", s, n>>
  BY DEF RowsOf, Named
<1> QED
  BY <1>1, <1>2, <1>3, <1>4

-----------------------------------------------------------------------------
(* Types. *)

TypeInv ==
    /\ TypeOK
    /\ \A r \in Runners : hand[r] = Idle \/ (hand[r].op # "none" /\ hand[r].job \in Jobs)

\* The rows of a table are rows.
LEMMA RowsAreRows == ASSUME NEW rows \in Tasks PROVE RowsOf(rows) \subseteq Row
<1>1. /\ \A i \in Items : DOMAIN rows.lessons[i] \subseteq Nat
      /\ \A s \in Stages : DOMAIN rows.milestones[s] \subseteq Nat
      /\ \A s \in Stages : DOMAIN rows.repairs[s] \subseteq Nat
  BY TaskFields, StatusAt
<1>2. Named("lessons", Items, rows) \subseteq Row
  BY <1>1 DEF Named, Row
<1>3. Named("milestones", Stages, rows) \subseteq Row
  BY <1>1 DEF Named, Row
<1>4. Named("repairs", Stages, rows) \subseteq Row
  BY <1>1 DEF Named, Row
<1> QED
  BY <1>2, <1>3, <1>4 DEF RowsOf

\* What the key of a job names.
LEMMA JobKinds ==
    ASSUME NEW k \in Jobs
    PROVE  /\ k[1] = "daily" => k[2] \in Nat
           /\ k[1] = "milestone" => k[2] \in Stages
           /\ k # <<"none">>
BY DEF Jobs

\* The fields of the hand of a runner.
LEMMA HandFields ==
    ASSUME TypeInv, NEW r \in Runners
    PROVE  /\ hand[r].op \in {"none", "run", "finish"}
           /\ hand[r].job \in Jobs \cup {<<"none">>}
           /\ hand[r].op # "none" => hand[r].job \in Jobs
           /\ hand[r].seen \in Tasks /\ hand[r].blocked \subseteq Stages /\ hand[r].until \in Nat
<1>1. hand[r] \in Hand
  BY DEF TypeInv, TypeOK
<1>2. Idle.op = "none"
  BY DEF Idle
<1> QED
  BY <1>1, <1>2 DEF Hand, TypeInv

\* The hand of an idle runner is a hand.
LEMMA IdleType == Idle \in Hand /\ Idle.op = "none"
BY NoTasks DEF Idle, Hand

\* The day that the window is to reach is a day.
LEMMA TargetType == today \in Nat => Target \in Nat
BY WindowAssumption DEF Target

\* Scheduling jobs leaves sets of jobs.
LEMMA SchedulingType ==
    ASSUME TypeInv, NEW keys \in SUBSET Jobs, Scheduling(keys)
    PROVE  waiting' \subseteq Jobs /\ used' \subseteq Jobs /\ cancelled' \subseteq Jobs
BY DEF Scheduling, TypeInv, TypeOK

\* Ensuring jobs, cancelled ones included, leaves sets of jobs.
LEMMA EnsuringType ==
    ASSUME TypeInv, NEW keys \in SUBSET Jobs, NEW day \in Nat, NEW others \in SUBSET Runners,
           Ensuring(keys, day, others)
    PROVE  waiting' \subseteq Jobs /\ used' \subseteq Jobs /\ cancelled' \subseteq Jobs
<1> DEFINE k == <<"daily", day>>
           running == {hand[r].job : r \in others}
           active == k \in waiting \cup running
<1>1. k \in Jobs
  BY DEF Jobs
<1>2. {j \in running : j[1] = "daily"} \subseteq Jobs
  <2> SUFFICES ASSUME NEW r \in others, hand[r].job[1] = "daily" PROVE hand[r].job \in Jobs
    OBVIOUS
  <2>1. hand[r].job \in Jobs \cup {<<"none">>}
    BY HandFields
  <2>2. <<"none">>[1] = "none"
    OBVIOUS
  <2> QED
    BY <2>1, <2>2
<1>3. /\ waiting' = (IF active THEN waiting ELSE waiting \ Dailies) \cup ((keys \cup {k}) \ used)
      /\ used' = used \cup keys \cup {k}
      /\ cancelled' = cancelled \cup IF active THEN {} ELSE {j \in running : j[1] = "daily"}
  BY DEF Ensuring
<1> HIDE DEF k, running, active
<1> QED
  BY <1>1, <1>2, <1>3 DEF TypeInv, TypeOK

\* One runner's hand changes.
LEMMA HandChanges ==
    ASSUME TypeInv, NEW r \in Runners, NEW h \in Hand, h = Idle \/ (h.op # "none" /\ h.job \in Jobs),
           hand' = [hand EXCEPT ![r] = h]
    PROVE  /\ hand' \in [Runners -> Hand]
           /\ \A q \in Runners : hand'[q] = IF q = r THEN h ELSE hand[q]
           /\ \A q \in Runners : hand'[q] = Idle \/ (hand'[q].op # "none" /\ hand'[q].job \in Jobs)
BY DEF TypeInv, TypeOK

\* A handler that ends lets go of what it has read.
LEMMA HandlerEnds ==
    ASSUME TypeInv, NEW r \in Runners, hand[r].op # "none",
           Completed(r) \/ CompletesNext(r) \/ Raised(r)
    PROVE  /\ hand' \in [Runners -> Hand]
           /\ \A q \in Runners : hand'[q] = Idle \/ (hand'[q].op # "none" /\ hand'[q].job \in Jobs)
           /\ \A q \in Runners \ {r} : hand'[q] = hand[q]
           /\ hand'[r].op # "run"
           /\ failures' \in Nat /\ budget' \in Nat
<1> DEFINE next == [Idle EXCEPT !.op = "finish", !.job = hand[r].job]
<1>1. next \in Hand /\ next.op = "finish" /\ next.job \in Jobs
  BY IdleType, HandFields DEF Hand
<1>2. failures' \in Nat /\ budget' \in Nat
  BY DEF Completed, CompletesNext, Raised, Spend, TypeInv, TypeOK
<1>3. CASE hand' = [hand EXCEPT ![r] = Idle]
  BY <1>2, <1>3, IdleType, HandChanges
<1>4. CASE hand' = [hand EXCEPT ![r] = next]
  <2> HIDE DEF next
  <2> QED
    BY <1>1, <1>2, <1>4, HandChanges
<1> QED
  BY <1>3, <1>4 DEF Completed, CompletesNext, Raised

-----------------------------------------------------------------------------
(* What the steps do to rows, and to what a runner has read. *)

\* A task that is closed, or stays as it is.
OnlyCloses(before, after) ==
    /\ DOMAIN after = DOMAIN before
    /\ \A n \in DOMAIN before : after[n] \in {before[n], "superseded"}

\* Rows that have been read stay as they were read.
LEMMA LaterShape ==
    ASSUME NEW seen \in Seq(Statuses), NEW now \in Seq(Statuses)
    PROVE  /\ Later(seen, now) \in Seq(Statuses)
           /\ DOMAIN Later(seen, now) = DOMAIN now
           /\ \A n \in DOMAIN now :
                 Later(seen, now)[n] = IF n \in DOMAIN seen THEN seen[n] ELSE now[n]
<1> DEFINE new == Later(seen, now)
<1>1. /\ DOMAIN now = 1..Len(now) /\ Len(now) \in Nat
      /\ \A n \in DOMAIN now : now[n] \in Statuses
      /\ \A n \in DOMAIN seen : seen[n] \in Statuses
  BY StatusAt
<1>2. /\ DOMAIN new = 1..Len(now)
      /\ \A n \in DOMAIN now : new[n] = IF n \in DOMAIN seen THEN seen[n] ELSE now[n]
      /\ new = [n \in 1..Len(now) |-> new[n]]
  BY <1>1 DEF Later
<1> HIDE DEF new
<1>3. new \in [1..Len(now) -> Statuses]
  BY <1>1, <1>2
<1> QED
  BY <1>1, <1>2, <1>3, FunctionIsSeq DEF new

\* create of a milestone.
LEMMA MilestoneAdded ==
    ASSUME NEW rows \in Tasks, NEW s \in Stages,
           NEW new, new = [rows EXCEPT !.milestones[s] = Append(@, Fresh)]
    PROVE  /\ new \in Tasks
           /\ new.lessons = rows.lessons
           /\ new.milestones = [rows.milestones EXCEPT ![s] = Append(rows.milestones[s], Fresh)]
<1> DEFINE added == Append(rows.milestones[s], Fresh)
<1>1. added \in Seq(Statuses)
  BY TaskFields, AppendShape
<1>2. /\ new.lessons = rows.lessons
      /\ new.milestones = [rows.milestones EXCEPT ![s] = added]
      /\ new.repairs = rows.repairs
      /\ new = [lessons |-> rows.lessons, milestones |-> [rows.milestones EXCEPT ![s] = added],
                repairs |-> rows.repairs]
  BY DEF Tasks
<1> HIDE DEF added
<1>3. new \in Tasks
  BY <1>1, <1>2 DEF Tasks
<1> QED
  BY <1>2, <1>3 DEF added

\* create of a repair; a source in no stage of the blueprint gets none.
LEMMA RepairAdded ==
    ASSUME NEW rows \in Tasks, NEW s,
           NEW new, new = [rows EXCEPT !.repairs[s] = Append(@, Fresh)]
    PROVE  /\ new \in Tasks
           /\ new.lessons = rows.lessons
           /\ new.milestones = rows.milestones
<1> DEFINE added == Append(rows.repairs[s], Fresh)
           all == [rows.repairs EXCEPT ![s] = added]
<1>1. s \in Stages => added \in Seq(Statuses)
  BY TaskFields, AppendShape
<1>2. rows.repairs \in [Stages -> Seq(Statuses)]
  BY DEF Tasks
<1>3. /\ new.lessons = rows.lessons
      /\ new.milestones = rows.milestones
      /\ new = [lessons |-> rows.lessons, milestones |-> rows.milestones, repairs |-> all]
  BY DEF Tasks
<1> HIDE DEF added
<1>4. all \in [Stages -> Seq(Statuses)]
  BY <1>1, <1>2
<1> HIDE DEF all
<1>5. new \in Tasks
  <2>1. rows.lessons \in [Items -> Seq(Statuses)] /\ rows.milestones \in [Stages -> Seq(Statuses)]
    BY DEF Tasks
  <2>2. [lessons |-> rows.lessons, milestones |-> rows.milestones, repairs |-> all] \in Tasks
    BY <2>1, <1>4 DEF Tasks
  <2> QED
    BY <2>2, <1>3
<1> QED
  BY <1>3, <1>5

\* A milestone that makes way, when there is one of this name.
LEMMA MilestoneClosed ==
    ASSUME NEW rows \in Tasks, NEW x, NEW k,
           NEW new, new = [rows EXCEPT !["milestones"][x][k] = "superseded"]
    PROVE  /\ new \in Tasks
           /\ new.lessons = rows.lessons
           /\ \A s \in Stages : OnlyCloses(rows.milestones[s], new.milestones[s])
<1> DEFINE closed == [rows.milestones[x] EXCEPT ![k] = "superseded"]
           all == [rows.milestones EXCEPT ![x] = closed]
<1>1. ASSUME x \in Stages
      PROVE  closed \in Seq(Statuses) /\ OnlyCloses(rows.milestones[x], closed)
  <2> DEFINE seq == rows.milestones[x]
  <2>1. seq \in Seq(Statuses) /\ DOMAIN seq = 1..Len(seq) /\ Len(seq) \in Nat
    BY <1>1, TaskFields, StatusAt
  <2>2. CASE k \in DOMAIN seq
    <3>1. "superseded" \in Statuses
      BY DEF Statuses
    <3>2. [seq EXCEPT ![k] = "superseded"] \in Seq(Statuses)
      BY <2>1, <2>2, <3>1, SetShape
    <3> QED
      BY <3>2 DEF OnlyCloses
  <2>3. CASE k \notin DOMAIN seq
    <3>1. seq = [n \in 1..Len(seq) |-> seq[n]]
      BY <2>1
    <3>2. closed = [n \in 1..Len(seq) |-> seq[n]]
      BY <2>1, <2>3
    <3>3. closed = seq
      BY <3>1, <3>2
    <3> QED
      BY <2>1, <3>3 DEF OnlyCloses
  <2> QED
    BY <2>2, <2>3
<1>2. rows.milestones \in [Stages -> Seq(Statuses)]
  BY DEF Tasks
<1>3. /\ new.lessons = rows.lessons /\ new.milestones = all
      /\ new = [lessons |-> rows.lessons, milestones |-> all, repairs |-> rows.repairs]
  BY DEF Tasks
<1> HIDE DEF closed
<1>4. /\ all \in [Stages -> Seq(Statuses)]
      /\ \A s \in Stages : all[s] = IF s = x THEN closed ELSE rows.milestones[s]
  BY <1>1, <1>2
<1> HIDE DEF all
<1>5. new \in Tasks
  BY <1>3, <1>4 DEF Tasks
<1>6. \A s \in Stages : OnlyCloses(rows.milestones[s], new.milestones[s])
  BY <1>1, <1>3, <1>4 DEF OnlyCloses
<1> QED
  BY <1>3, <1>5, <1>6

-----------------------------------------------------------------------------
(* The kinds of steps. *)

OthersKeep(r) == \A q \in Runners \ {r} : hand'[q] = hand[q]

\* No task changes, and no handler goes on but those that are as they were.
Quiet ==
    /\ tasks' = tasks
    /\ \A r \in Runners : hand'[r] = hand[r] \/ hand'[r].op # "run"

\* The learner makes no task, and closes only what is open.
Learns ==
    /\ hand' = hand
    /\ \A i \in Items : Len(tasks'.lessons[i]) = Len(tasks.lessons[i])
    /\ \A s \in Stages :
          /\ DOMAIN tasks'.milestones[s] = DOMAIN tasks.milestones[s]
          /\ \A n \in DOMAIN tasks.milestones[s] :
                \/ tasks'.milestones[s][n] = tasks.milestones[s][n]
                \/ /\ tasks.milestones[s][n] = "open"
                   /\ tasks'.milestones[s][n] \in {"completed", "failed"}

\* A handler begins with the rows and the gate as they are.
Reads(r) ==
    /\ tasks' = tasks /\ OthersKeep(r)
    /\ hand'[r].seen = tasks /\ hand'[r].blocked = Blocked(tasks)

\* A handler reads the rows it has not read.
ReadsMore(r) ==
    /\ tasks' = tasks /\ OthersKeep(r)
    /\ hand[r].op = "run" /\ hand'[r].blocked = hand[r].blocked
    /\ \A i \in Items :
          hand'[r].seen.lessons[i] = Later(hand[r].seen.lessons[i], tasks.lessons[i])
    /\ \A s \in Stages :
          hand'[r].seen.milestones[s] = Later(hand[r].seen.milestones[s], tasks.milestones[s])

\* The lessons a handler makes are those it admits.
Makes(r, new) ==
    /\ new \subseteq Admitted(r, Items)
    /\ \A i \in Items : Len(tasks'.lessons[i]) =
                             IF i \in new THEN Len(tasks.lessons[i]) + 1
                             ELSE Len(tasks.lessons[i])

\* A milestone of a stage that has read none.
AddsMilestone(r, s) ==
    /\ ~ Live(hand[r].seen, s)
    /\ tasks'.milestones = [tasks.milestones EXCEPT ![s] = Append(tasks.milestones[s], Fresh)]

\* A handler commits, and is done with what it has read.
Commits(r) ==
    /\ hand[r].op = "run" /\ hand'[r].op # "run" /\ OthersKeep(r)
    /\ \E new \in SUBSET Items : Makes(r, new)
    /\ \/ \A s \in Stages : OnlyCloses(tasks.milestones[s], tasks'.milestones[s])
       \/ \E s \in Stages : AddsMilestone(r, s)

\* The types hold at first.
LEMMA InitType == Init => TypeInv
<1> SUFFICES ASSUME Init PROVE TypeInv
  OBVIOUS
<1>1. tasks \in Tasks
  BY NoTasks, WithLessonsShape DEF Init
<1>2. <<"daily", 0>> \in Jobs
  BY DEF Jobs
<1>3. hand \in [Runners -> Hand] /\ \A r \in Runners : hand[r] = Idle
  BY IdleType DEF Init
<1>4. today \in Nat /\ until \in Nat /\ budget \in Nat /\ failures \in Nat
  BY TargetType, WindowAssumption DEF Init
<1>5. waiting = {<<"daily", 0>>} /\ used = {<<"daily", 0>>} /\ cancelled = {}
  BY DEF Init
<1> QED
  BY <1>1, <1>2, <1>3, <1>4, <1>5 DEF TypeInv, TypeOK

\* A day that passes leaves tasks and hands.
LEMMA NextDayKind == ASSUME TypeInv, NextDay PROVE TypeInv' /\ Quiet
<1>1. today' \in Nat
  BY DEF NextDay, TypeInv, TypeOK
<1> QED
  BY <1>1 DEF NextDay, Quiet, TypeInv, TypeOK, jobVars

\* A task that was open gets a status.
LEMMA OpenTaskSet ==
    ASSUME TypeInv, NEW row \in RowsOf(tasks), StatusOf(tasks, row) = "open", hand' = hand,
           NEW status \in {"completed", "failed"}, tasks' = SetStatus(row, status)
    PROVE  tasks' \in Tasks /\ Learns
<1>1. tasks \in Tasks /\ status \in Statuses
  BY DEF TypeInv, TypeOK, Statuses
<1>2. /\ SetStatus(row, status) \in Tasks
      /\ \A i \in Items : Len(SetStatus(row, status).lessons[i]) = Len(tasks.lessons[i])
      /\ \A s \in Stages :
            /\ DOMAIN SetStatus(row, status).milestones[s] = DOMAIN tasks.milestones[s]
            /\ \A n \in DOMAIN tasks.milestones[s] :
                  \/ SetStatus(row, status).milestones[s][n] = tasks.milestones[s][n]
                  \/ /\ SetStatus(row, status).milestones[s][n] = status
                     /\ StatusOf(tasks, row) = tasks.milestones[s][n]
  BY <1>1, SetStatusShape
<1> QED
  BY <1>2 DEF Learns

\* A task that is completed only changes its status.
LEMMA CompleteKind ==
    ASSUME TypeInv, NEW row \in RowsOf(tasks), Complete(row) PROVE TypeInv' /\ Learns
<1> DEFINE keys == IF row[1] = "milestones" THEN {} ELSE {<<"extension", row>>}
<1>1. hand' = hand /\ StatusOf(tasks, row) = "open" /\ tasks' = SetStatus(row, "completed")
  BY DEF Complete
<1>2. tasks' \in Tasks /\ Learns
  BY <1>1, OpenTaskSet
<1>3. keys \in SUBSET Jobs
  BY RowsAreRows DEF Jobs, TypeInv, TypeOK
<1>4. Ensuring(keys, today, Runners)
  BY DEF Complete
<1> HIDE DEF keys
<1>5. waiting' \subseteq Jobs /\ used' \subseteq Jobs /\ cancelled' \subseteq Jobs
  BY <1>3, <1>4, EnsuringType DEF TypeInv, TypeOK
<1>6. UNCHANGED <<today, until, failures, hand, budget>>
  BY DEF Complete
<1> QED
  BY <1>2, <1>5, <1>6 DEF TypeInv, TypeOK

\* The job that repairs a row is a job.
LEMMA RepairKey ==
    ASSUME TypeInv, NEW row \in RowsOf(tasks), NEW source \in {"task", "manual"}
    PROVE  {<<"repair", source, row>>} \in SUBSET Jobs
BY RowsAreRows DEF Jobs, TypeInv, TypeOK

\* A task that fails only changes its status.
LEMMA FailTaskKind ==
    ASSUME TypeInv, NEW row \in RowsOf(tasks), FailTask(row) PROVE TypeInv' /\ Learns
<1>1. hand' = hand /\ StatusOf(tasks, row) = "open" /\ tasks' = SetStatus(row, "failed")
  BY DEF FailTask
<1>2. tasks' \in Tasks /\ Learns
  BY <1>1, OpenTaskSet
<1>3. waiting' \subseteq Jobs /\ used' \subseteq Jobs /\ cancelled' \subseteq Jobs
  BY RepairKey, SchedulingType DEF FailTask
<1>4. budget' \in Nat /\ UNCHANGED <<today, until, failures, hand>>
  BY DEF FailTask, Spend, TypeInv, TypeOK
<1> QED
  BY <1>2, <1>3, <1>4 DEF TypeInv, TypeOK

\* A request to replan leaves tasks and hands.
LEMMA ManualReplanKind ==
    ASSUME TypeInv, NEW row \in RowsOf(tasks), ManualReplan(row) PROVE TypeInv' /\ Quiet
<1>1. waiting' \subseteq Jobs /\ used' \subseteq Jobs /\ cancelled' \subseteq Jobs
  BY RepairKey, SchedulingType DEF ManualReplan
<1>2. budget' \in Nat /\ UNCHANGED <<today, until, tasks, failures, hand>>
  BY DEF ManualReplan, Spend, TypeInv, TypeOK
<1> QED
  BY <1>1, <1>2 DEF Quiet, TypeInv, TypeOK

\* A runner that begins reads the tasks there are.
LEMMA BeginKind ==
    ASSUME TypeInv, NEW r \in Runners, NEW k \in waiting, Begin(r, k)
    PROVE  TypeInv' /\ Reads(r)
<1> DEFINE h == [op |-> "run", job |-> k, seen |-> tasks, blocked |-> Blocked(tasks),
                 until |-> until]
<1>1. k \in Jobs /\ Blocked(tasks) \subseteq Stages
  BY DEF TypeInv, TypeOK, Blocked
<1>2. h \in Hand /\ h.op = "run" /\ h.job = k /\ h.seen = tasks /\ h.blocked = Blocked(tasks)
  BY <1>1 DEF Hand, TypeInv, TypeOK
<1>3. hand' = [hand EXCEPT ![r] = h]
  BY DEF Begin
<1> HIDE DEF h
<1>4. /\ hand' \in [Runners -> Hand]
      /\ \A q \in Runners : hand'[q] = IF q = r THEN h ELSE hand[q]
      /\ \A q \in Runners : hand'[q] = Idle \/ (hand'[q].op # "none" /\ hand'[q].job \in Jobs)
  BY <1>1, <1>2, <1>3, HandChanges
<1>5. waiting' \subseteq waiting /\ UNCHANGED <<today, until, tasks, used, cancelled, failures, budget>>
  BY DEF Begin
<1>6. TypeInv'
  BY <1>4, <1>5 DEF TypeInv, TypeOK
<1> QED
  BY <1>2, <1>4, <1>5, <1>6 DEF Reads, OthersKeep

\* A runner that reads again adds the rows it had not read.
LEMMA RereadKind ==
    ASSUME TypeInv, NEW r \in Runners, Reread(r) PROVE TypeInv' /\ ReadsMore(r)
<1> DEFINE seen == hand[r].seen
           L(i) == Later(seen.lessons[i], tasks.lessons[i])
           M(s) == Later(seen.milestones[s], tasks.milestones[s])
           R(s) == Later(seen.repairs[s], tasks.repairs[s])
           more == [lessons |-> [i \in Items |-> L(i)], milestones |-> [s \in Stages |-> M(s)],
                    repairs |-> [s \in Stages |-> R(s)]]
           h == [hand[r] EXCEPT !.seen = more]
<1>1. hand[r] \in Hand /\ seen \in Tasks /\ tasks \in Tasks /\ hand[r].op = "run"
      /\ hand[r].job \in Jobs
  BY HandFields DEF Reread, Running, TypeInv, TypeOK
<1>2. hand' = [hand EXCEPT ![r] = h]
  BY DEF Reread
<1>3. /\ \A i \in Items : L(i) \in Seq(Statuses)
      /\ \A s \in Stages : M(s) \in Seq(Statuses) /\ R(s) \in Seq(Statuses)
  BY <1>1, TaskFields, LaterShape
<1> HIDE DEF L, M, R
<1>4. /\ more \in Tasks
      /\ \A i \in Items : more.lessons[i] = L(i)
      /\ \A s \in Stages : more.milestones[s] = M(s)
  BY <1>3 DEF Tasks
<1> HIDE DEF more
<1>5. /\ h \in Hand /\ h.op = "run" /\ h.job \in Jobs
      /\ h.seen = more /\ h.blocked = hand[r].blocked
  BY <1>1, <1>4 DEF Hand
<1> HIDE DEF h
<1>6. /\ hand' \in [Runners -> Hand]
      /\ \A q \in Runners : hand'[q] = IF q = r THEN h ELSE hand[q]
      /\ \A q \in Runners : hand'[q] = Idle \/ (hand'[q].op # "none" /\ hand'[q].job \in Jobs)
  BY <1>2, <1>5, HandChanges
<1>7. UNCHANGED <<today, until, tasks, waiting, used, cancelled, failures, budget>>
  BY DEF Reread, jobVars
<1>8. TypeInv'
  BY <1>6, <1>7 DEF TypeInv, TypeOK
<1> QED
  BY <1>1, <1>4, <1>5, <1>6, <1>7, <1>8 DEF ReadsMore, OthersKeep, L, M

\* What a handler of the window writes.
LEMMA WritingKind ==
    ASSUME TypeInv, NEW r \in Runners, NEW new \in SUBSET Admitted(r, Items),
           hand[r].op = "run", tasks' = Written(tasks, r, new),
           Completed(r) \/ CompletesNext(r) \/ Raised(r)
    PROVE  tasks' \in Tasks /\ Commits(r)
<1>1. tasks \in Tasks
  BY DEF TypeInv, TypeOK
<1>2. /\ tasks' \in Tasks
      /\ \A i \in Items : Len(tasks'.lessons[i]) =
                               IF i \in new THEN Len(tasks.lessons[i]) + 1
                               ELSE Len(tasks.lessons[i])
      /\ \A s \in Stages : OnlyCloses(tasks.milestones[s], tasks'.milestones[s])
  BY <1>1, WrittenShape DEF OnlyCloses
<1>3. new \in SUBSET Items /\ Makes(r, new)
  BY <1>2 DEF Makes, Admitted
<1>4. hand'[r].op # "run" /\ OthersKeep(r)
  BY HandlerEnds DEF OthersKeep
<1> QED
  BY <1>2, <1>3, <1>4 DEF Commits

\* An extension is drawn from the items that the runner's window admits.
LEMMA ExtensionAdmits == ASSUME NEW r PROVE Extension(r) \subseteq Admitted(r, Items)
BY DEF Extension, Admitted

\* The end of the window is a day.
LEMMA WindowType == ASSUME TypeInv, NEW r, ExtendWindow(r) PROVE until' \in Nat
BY TargetType DEF ExtendWindow, TypeInv, TypeOK

\* So an extension makes only lessons that are admitted.
LEMMA CommitExtensionKind ==
    ASSUME TypeInv, NEW r \in Runners, CommitExtension(r) PROVE TypeInv' /\ Commits(r)
<1>1. /\ hand[r].op = "run" /\ tasks' = Written(tasks, r, Extension(r)) /\ ExtendWindow(r)
      /\ CompletesNext(r) \/ Raised(r)
      /\ UNCHANGED <<today, waiting, used, cancelled>>
  BY DEF CommitExtension, Running
<1>2. tasks' \in Tasks /\ Commits(r)
  BY <1>1, ExtensionAdmits, WritingKind
<1>3. until' \in Nat
  BY <1>1, WindowType
<1>4. /\ hand' \in [Runners -> Hand]
      /\ \A q \in Runners : hand'[q] = Idle \/ (hand'[q].op # "none" /\ hand'[q].job \in Jobs)
      /\ failures' \in Nat /\ budget' \in Nat
  BY <1>1, HandlerEnds
<1> QED
  BY <1>1, <1>2, <1>3, <1>4 DEF TypeInv, TypeOK

\* The jobs for due milestones are jobs.
LEMMA MilestoneJobsType ==
    ASSUME NEW rows \in Tasks PROVE MilestoneJobs(rows) \in SUBSET Jobs
<1> SUFFICES ASSUME NEW s \in Stages PROVE <<"milestone", s, Len(rows.milestones[s]) + 1>> \in Jobs
  BY DEF MilestoneJobs
<1>1. Len(rows.milestones[s]) + 1 \in Nat
  BY TaskFields, StatusAt
<1> QED
  BY <1>1 DEF Jobs

\* A daily job makes only lessons that its window admits.
LEMMA CommitDailyKind ==
    ASSUME TypeInv, NEW r \in Runners, NEW fit \in SUBSET Items, CommitDaily(r, fit)
    PROVE  TypeInv' /\ Commits(r)
<1> DEFINE day == hand[r].job[2]
           short == hand[r].until < day + Reach
           new == Admitted(r, {i \in fit : DayOf[i] = day}) \cup (IF short THEN Extension(r) ELSE {})
           keys == MilestoneJobs(Written(hand[r].seen, r, new))
<1>1. /\ hand[r].op = "run" /\ tasks' = Written(tasks, r, new)
      /\ IF short THEN ExtendWindow(r) ELSE UNCHANGED until
      /\ Ensuring(keys, today + 1, Runners \ {r})
      /\ Completed(r) \/ Raised(r)
      /\ UNCHANGED today
  BY DEF CommitDaily, Running
<1>2. new \in SUBSET Admitted(r, Items)
  BY ExtensionAdmits DEF Admitted
<1> HIDE DEF new
<1>3. tasks' \in Tasks /\ Commits(r)
  BY <1>1, <1>2, WritingKind
<1>4. until' \in Nat
  BY <1>1, WindowType DEF TypeInv, TypeOK
<1>5. /\ hand' \in [Runners -> Hand]
      /\ \A q \in Runners : hand'[q] = Idle \/ (hand'[q].op # "none" /\ hand'[q].job \in Jobs)
      /\ failures' \in Nat /\ budget' \in Nat
  BY <1>1, HandlerEnds
<1>6. Written(hand[r].seen, r, new) \in Tasks
  BY HandFields, WrittenShape
<1>7. keys \in SUBSET Jobs /\ today + 1 \in Nat
  BY <1>6, MilestoneJobsType DEF TypeInv, TypeOK
<1> HIDE DEF keys
<1>8. waiting' \subseteq Jobs /\ used' \subseteq Jobs /\ cancelled' \subseteq Jobs
  BY <1>1, <1>7, EnsuringType
<1> QED
  BY <1>1, <1>3, <1>4, <1>5, <1>8 DEF TypeInv, TypeOK

\* Where the lessons are left alone, no lesson is made.
LEMMA NoLessonMade ==
    ASSUME NEW r, tasks'.lessons = tasks.lessons PROVE \E new \in SUBSET Items : Makes(r, new)
<1> SUFFICES Makes(r, {})
  OBVIOUS
<1> QED
  BY DEF Makes

\* A milestone job makes a milestone of a stage only if its runner saw no live one.
LEMMA CommitMilestoneKind ==
    ASSUME TypeInv, NEW r \in Runners, CommitMilestone(r) PROVE TypeInv' /\ Commits(r)
<1> DEFINE s == hand[r].job[2]
<1>1. /\ hand[r].op = "run" /\ hand[r].job[1] = "milestone"
      /\ tasks' = IF Live(hand[r].seen, s) THEN tasks
                  ELSE [tasks EXCEPT !.milestones[s] = Append(@, Fresh)]
      /\ CompletesNext(r) \/ Raised(r)
      /\ UNCHANGED <<today, until, waiting, used, cancelled>>
  BY DEF CommitMilestone, Running
<1>2. s \in Stages /\ tasks \in Tasks
  BY <1>1, HandFields, JobKinds DEF TypeInv, TypeOK
<1>3. /\ hand' \in [Runners -> Hand]
      /\ \A q \in Runners : hand'[q] = Idle \/ (hand'[q].op # "none" /\ hand'[q].job \in Jobs)
      /\ failures' \in Nat /\ budget' \in Nat
      /\ hand'[r].op # "run" /\ OthersKeep(r)
  BY <1>1, HandlerEnds DEF OthersKeep
<1> HIDE DEF s
<1>4. /\ tasks' \in Tasks /\ tasks'.lessons = tasks.lessons
      /\ \/ \A t \in Stages : OnlyCloses(tasks.milestones[t], tasks'.milestones[t])
         \/ AddsMilestone(r, s)
  <2>1. CASE Live(hand[r].seen, s)
    BY <1>1, <1>2, <2>1 DEF OnlyCloses
  <2>2. CASE ~ Live(hand[r].seen, s)
    <3>1. tasks' = [tasks EXCEPT !.milestones[s] = Append(@, Fresh)]
      BY <1>1, <2>2
    <3>2. /\ tasks' \in Tasks /\ tasks'.lessons = tasks.lessons
          /\ tasks'.milestones = [tasks.milestones EXCEPT ![s] = Append(tasks.milestones[s], Fresh)]
      BY <1>2, <3>1, MilestoneAdded
    <3> QED
      BY <2>2, <3>2 DEF AddsMilestone
  <2> QED
    BY <2>1, <2>2
<1>5. Commits(r)
  BY <1>1, <1>2, <1>3, <1>4, NoLessonMade DEF Commits
<1> QED
  BY <1>1, <1>3, <1>4, <1>5 DEF TypeInv, TypeOK

\* A repair makes no lesson and no milestone, and may close one.
LEMMA CommitRepairKind ==
    ASSUME TypeInv, NEW r \in Runners, CommitRepair(r) PROVE TypeInv' /\ Commits(r)
<1> DEFINE row == hand[r].job[3]
           rows == IF row[1] = "milestones" THEN SetStatus(row, "superseded") ELSE tasks
<1>1. /\ hand[r].op = "run"
      /\ tasks' = [rows EXCEPT !.repairs[StageOfRow(row)] = Append(@, Fresh)]
      /\ Completed(r) \/ Raised(r)
      /\ UNCHANGED <<today, until, waiting, used, cancelled>>
  BY DEF CommitRepair, Running
<1>2. tasks \in Tasks
  BY DEF TypeInv, TypeOK
<1>3. /\ hand' \in [Runners -> Hand]
      /\ \A q \in Runners : hand'[q] = Idle \/ (hand'[q].op # "none" /\ hand'[q].job \in Jobs)
      /\ failures' \in Nat /\ budget' \in Nat
      /\ hand'[r].op # "run" /\ OthersKeep(r)
  BY <1>1, HandlerEnds DEF OthersKeep
<1>4. /\ rows \in Tasks /\ rows.lessons = tasks.lessons
      /\ \A t \in Stages : OnlyCloses(tasks.milestones[t], rows.milestones[t])
  <2>1. CASE row[1] = "milestones"
    <3> HIDE DEF row
    <3>1. SetStatus(row, "superseded") = [tasks EXCEPT !["milestones"][row[2]][row[3]] = "superseded"]
      BY <2>1, Zenon DEF SetStatus
    <3>2. /\ SetStatus(row, "superseded") \in Tasks
          /\ SetStatus(row, "superseded").lessons = tasks.lessons
          /\ \A t \in Stages :
                OnlyCloses(tasks.milestones[t], SetStatus(row, "superseded").milestones[t])
      BY <1>2, <3>1, MilestoneClosed
    <3> QED
      BY <2>1, <3>2
  <2>2. CASE row[1] # "milestones"
    BY <1>2, <2>2 DEF OnlyCloses
  <2> QED
    BY <2>1, <2>2
<1> HIDE DEF rows
<1>5. tasks' \in Tasks /\ tasks'.lessons = rows.lessons /\ tasks'.milestones = rows.milestones
  BY <1>1, <1>4, RepairAdded
<1>6. Commits(r)
  BY <1>1, <1>3, <1>4, <1>5, NoLessonMade DEF Commits
<1> QED
  BY <1>1, <1>3, <1>5, <1>6 DEF TypeInv, TypeOK

\* A handler that stops having written nothing.
LEMMA StopKind ==
    ASSUME TypeInv, NEW r \in Runners, hand[r].op # "none", Completed(r) \/ Raised(r),
           UNCHANGED <<today, until, tasks, waiting, used, cancelled>>
    PROVE  TypeInv' /\ Quiet
<1>1. /\ hand' \in [Runners -> Hand]
      /\ \A q \in Runners : hand'[q] = Idle \/ (hand'[q].op # "none" /\ hand'[q].job \in Jobs)
      /\ failures' \in Nat /\ budget' \in Nat
      /\ \A q \in Runners \ {r} : hand'[q] = hand[q]
      /\ hand'[r].op # "run"
  BY HandlerEnds
<1> QED
  BY <1>1 DEF Quiet, TypeInv, TypeOK

\* A crash empties a hand and leaves the tasks.
LEMMA CrashKind == ASSUME TypeInv, NEW r \in Runners, Crash(r) PROVE TypeInv' /\ Quiet
<1>1. /\ hand[r] # Idle /\ hand' = [hand EXCEPT ![r] = Idle] /\ budget' \in Nat
      /\ waiting' = waiting \cup ({hand[r].job} \ cancelled)
      /\ UNCHANGED <<today, until, tasks, used, cancelled, failures>>
  BY DEF Crash, Spend, TypeInv, TypeOK
<1>2. hand[r].job \in Jobs
  BY <1>1 DEF TypeInv
<1>3. /\ hand' \in [Runners -> Hand]
      /\ \A q \in Runners : hand'[q] = IF q = r THEN Idle ELSE hand[q]
      /\ \A q \in Runners : hand'[q] = Idle \/ (hand'[q].op # "none" /\ hand'[q].job \in Jobs)
  BY <1>1, IdleType, HandChanges
<1>4. waiting' \subseteq Jobs
  BY <1>1, <1>2 DEF TypeInv, TypeOK
<1> QED
  BY <1>1, <1>3, <1>4, IdleType DEF Quiet, TypeInv, TypeOK

Kinds == Quiet \/ Learns \/ (\E r \in Runners : Reads(r) \/ ReadsMore(r) \/ Commits(r))

\* A step that changes nothing is quiet.
LEMMA StutterKind == ASSUME TypeInv, UNCHANGED vars PROVE TypeInv' /\ Quiet
BY DEF vars, jobVars, Quiet, TypeInv, TypeOK

\* Every step keeps the types and is of one of the kinds.
LEMMA StepKinds == ASSUME TypeInv, [Next]_vars PROVE TypeInv' /\ Kinds
<1>1. CASE UNCHANGED vars
  BY <1>1, StutterKind DEF Kinds
<1>2. CASE NextDay
  BY <1>2, NextDayKind DEF Kinds
<1>3. CASE Learner
  BY <1>3, CompleteKind, FailTaskKind, ManualReplanKind DEF Learner, Kinds
<1>4. ASSUME NEW r \in Runners, Work(r) \/ Reread(r) \/ Fail(r) \/ Crash(r)
      PROVE  TypeInv' /\ Kinds
  <2>1. CASE CommitExtension(r)
    BY <2>1, CommitExtensionKind DEF Kinds
  <2>2. CASE CommitMilestone(r)
    BY <2>2, CommitMilestoneKind DEF Kinds
  <2>3. CASE CommitRepair(r)
    BY <2>3, CommitRepairKind DEF Kinds
  <2>4. CASE \E fit \in SUBSET Items : CommitDaily(r, fit)
    BY <2>4, CommitDailyKind DEF Kinds
  <2>5. CASE Finish(r)
    BY <2>5, StopKind DEF Finish, Kinds
  <2>6. CASE Fail(r)
    BY <2>6, StopKind DEF Fail, Kinds
  <2>7. CASE Crash(r)
    BY <2>7, CrashKind DEF Kinds
  <2>8. CASE Reread(r)
    BY <2>8, RereadKind DEF Kinds
  <2>9. CASE \E k \in waiting : Begin(r, k)
    BY <2>9, BeginKind DEF Kinds
  <2> QED
    BY <1>4, <2>1, <2>2, <2>3, <2>4, <2>5, <2>6, <2>7, <2>8, <2>9 DEF Work, Proceed
<1> QED
  BY <1>1, <1>2, <1>3, <1>4 DEF Next

\* Every reachable state is one the types allow, whatever the blueprint and
\* however many runners work on it.
THEOREM TypeCorrect == Spec => []TypeOK
<1>1. Init => TypeInv
  BY InitType
<1>2. TypeInv /\ [Next]_vars => TypeInv'
  BY StepKinds
<1>3. TypeInv => TypeOK
  BY DEF TypeInv
<1> QED
  BY <1>1, <1>2, <1>3, PTL DEF Spec

-----------------------------------------------------------------------------
(* A task of each runner at most. *)

\* The runners that may still make a task for an item: they have read none.
Unread(i) == {r \in Runners : hand[r].op = "run" /\ hand[r].seen.lessons[i] = <<>>}

\* OncePerRunner alone is not inductive: an item may have a task of each runner
\* and a handler that has read none of them.
OnceInv ==
    \A i \in Items :
        \/ tasks.lessons[i] = <<>>
        \/ Len(tasks.lessons[i]) + Cardinality(Unread(i)) <= Cardinality(Runners)

\* A set of runners is finite, and no larger than the set of all.
LEMMA Counted ==
    ASSUME NEW A \in SUBSET Runners
    PROVE  IsFiniteSet(A) /\ Cardinality(A) \in Nat /\ Cardinality(A) <= Cardinality(Runners)
BY RunnersAssumption, FS_Subset, FS_CardinalityType

\* Who has read the tasks of an item that has some, will have read some of them.
LEMMA NoneForgets ==
    ASSUME TypeInv, TypeInv', Kinds, NEW i \in Items, tasks.lessons[i] # <<>>
    PROVE  Unread(i)' \subseteq Unread(i)
<1>1. SUFFICES ASSUME NEW q \in Runners, hand'[q].op = "run", hand'[q].seen.lessons[i] = <<>>,
                      hand'[q] # hand[q]
               PROVE  FALSE
  BY DEF Unread
<1>2. CASE Quiet
  BY <1>1, <1>2 DEF Quiet
<1>3. CASE Learns
  BY <1>1, <1>3 DEF Learns
<1>4. ASSUME NEW r \in Runners, Reads(r) PROVE FALSE
  BY <1>1, <1>4 DEF Reads, OthersKeep
<1>5. ASSUME NEW r \in Runners, ReadsMore(r) PROVE FALSE
  <2>1. q = r
    BY <1>1, <1>5 DEF ReadsMore, OthersKeep
  <2> DEFINE seen == hand[r].seen.lessons[i]
             now == tasks.lessons[i]
  <2>2. Later(seen, now) = <<>>
    BY <1>1, <1>5, <2>1 DEF ReadsMore
  <2>3. seen \in Seq(Statuses) /\ now \in Seq(Statuses)
    BY HandFields, TaskFields DEF TypeInv, TypeOK
  <2> HIDE DEF seen
  <2>4. DOMAIN Later(seen, now) = DOMAIN now /\ Later(seen, now) \in Seq(Statuses)
    BY <2>3, LaterShape
  <2>5. DOMAIN now = {}
    BY <2>2, <2>4
  <2>6. DOMAIN now = 1..Len(now) /\ Len(now) \in Nat
    BY <2>3, StatusAt
  <2>7. 1 \notin 1..Len(now)
    BY <2>5, <2>6
  <2>8. Len(now) = 0
    BY <2>6, <2>7
  <2> QED
    BY <2>3, <2>8, StatusAt
<1>6. ASSUME NEW r \in Runners, Commits(r) PROVE FALSE
  BY <1>1, <1>6 DEF Commits, OthersKeep
<1> QED
  BY <1>2, <1>3, <1>4, <1>5, <1>6 DEF Kinds

\* Only a handler that commits makes tasks.
LEMMA OnlyCommitsMake ==
    ASSUME Kinds, NEW i \in Items
    PROVE  \/ Len(tasks'.lessons[i]) = Len(tasks.lessons[i])
           \/ \E r \in Runners : \E new \in SUBSET Items : Commits(r) /\ Makes(r, new) /\ i \in new
<1>1. CASE Quiet
  BY <1>1 DEF Quiet
<1>2. CASE Learns
  BY <1>2 DEF Learns
<1>3. ASSUME NEW r \in Runners, Reads(r) \/ ReadsMore(r)
      PROVE  Len(tasks'.lessons[i]) = Len(tasks.lessons[i])
  BY <1>3 DEF Reads, ReadsMore
<1>4. ASSUME NEW r \in Runners, Commits(r)
      PROVE  \/ Len(tasks'.lessons[i]) = Len(tasks.lessons[i])
             \/ \E new \in SUBSET Items : Makes(r, new) /\ i \in new
  BY <1>4 DEF Commits, Makes
<1> QED
  BY <1>1, <1>2, <1>3, <1>4 DEF Kinds

\* At first no item has a task.
LEMMA OnceInit == Init => OnceInv
<1> SUFFICES ASSUME Init, NEW i \in Items
             PROVE  \/ tasks.lessons[i] = <<>>
                    \/ Len(tasks.lessons[i]) + Cardinality(Unread(i)) <= Cardinality(Runners)
  BY DEF OnceInv
<1>1. Unread(i) = {}
  BY IdleType DEF Init, Unread
<1>2. Len(tasks.lessons[i]) \in {0, 1}
  <2> DEFINE new == {j \in Items : DayOf[j] <= Target}
  <2>1. /\ Nothing \in Tasks /\ Len(Nothing.lessons[i]) = 0
        /\ tasks = WithLessons(Nothing, new)
    BY NoTasks, EmptySeq DEF Init
  <2> HIDE DEF new
  <2>2. Len(tasks.lessons[i]) = IF i \in new THEN Len(Nothing.lessons[i]) + 1
                                 ELSE Len(Nothing.lessons[i])
    BY <2>1, WithLessonsShape
  <2> QED
    BY <2>1, <2>2
<1>3. Cardinality(Unread(i)) = 0
  BY <1>1, FS_EmptySet
<1>4. Cardinality(Runners) \in Nat /\ Cardinality(Runners) # 0
  BY RunnersAssumption, FS_EmptySet, FS_CardinalityType
<1>5. Cardinality(Runners) >= 1
  BY <1>4
<1> DEFINE made == Len(tasks.lessons[i])
<1>6. made + 0 <= Cardinality(Runners)
  <2>1. made \in {0, 1}
    BY <1>2
  <2> HIDE DEF made
  <2> QED
    BY <1>4, <1>5, <2>1
<1> QED
  BY <1>3, <1>6

\* Every step keeps the bound: the runner that makes a task of an item had read none.
LEMMA OnceNext == ASSUME TypeInv, TypeInv', Kinds, OnceInv PROVE OnceInv'
<1> SUFFICES ASSUME NEW i \in Items
             PROVE  \/ tasks'.lessons[i] = <<>>
                    \/ Len(tasks'.lessons[i]) + Cardinality(Unread(i)') <= Cardinality(Runners)
  BY DEF OnceInv
<1>1. /\ Len(tasks.lessons[i]) \in Nat /\ Len(tasks'.lessons[i]) \in Nat
      /\ Len(tasks.lessons[i]) = 0 <=> tasks.lessons[i] = <<>>
      /\ Len(tasks'.lessons[i]) = 0 <=> tasks'.lessons[i] = <<>>
  BY TaskFields, StatusAt DEF TypeInv, TypeOK
<1>2. Unread(i) \in SUBSET Runners /\ Unread(i)' \in SUBSET Runners
  BY DEF Unread
<1>3. /\ IsFiniteSet(Unread(i)) /\ IsFiniteSet(Unread(i)')
      /\ Cardinality(Unread(i)) \in Nat /\ Cardinality(Unread(i)') \in Nat
      /\ Cardinality(Runners) \in Nat
  BY <1>2, Counted
<1>4. CASE Len(tasks'.lessons[i]) = Len(tasks.lessons[i])
  <2>1. CASE tasks.lessons[i] = <<>>
    BY <1>1, <1>4, <2>1
  <2>2. CASE tasks.lessons[i] # <<>>
    <3>1. Cardinality(Unread(i)') <= Cardinality(Unread(i))
      BY <1>3, <2>2, NoneForgets, FS_Subset
    <3>2. Len(tasks.lessons[i]) + Cardinality(Unread(i)) <= Cardinality(Runners)
      BY <2>2 DEF OnceInv
    <3> QED
      BY <1>1, <1>3, <1>4, <3>1, <3>2
  <2> QED
    BY <2>1, <2>2
<1>5. ASSUME NEW r \in Runners, NEW new \in SUBSET Items, Commits(r), Makes(r, new), i \in new
      PROVE  Len(tasks'.lessons[i]) + Cardinality(Unread(i)') <= Cardinality(Runners)
  <2>1. Len(tasks'.lessons[i]) = Len(tasks.lessons[i]) + 1
    BY <1>5 DEF Makes
  <2>2. r \in Unread(i)
    <3>1. i \in Admitted(r, Items) /\ hand[r].op = "run"
      BY <1>5 DEF Makes, Commits
    <3> QED
      BY <3>1 DEF Unread, Admitted, Made
  <2>3. r \notin Unread(i)'
    BY <1>5 DEF Unread, Commits
  <2>4. CASE tasks.lessons[i] = <<>>
    <3>1. /\ IsFiniteSet(Runners \ {r})
          /\ Cardinality(Runners \ {r}) = Cardinality(Runners) - 1
      BY RunnersAssumption, FS_RemoveElement
    <3>2. Unread(i)' \subseteq Runners \ {r}
      BY <1>2, <2>3
    <3>3. Cardinality(Unread(i)') <= Cardinality(Runners \ {r})
      BY <3>1, <3>2, FS_Subset
    <3> QED
      BY <1>1, <1>3, <2>1, <2>4, <3>1, <3>3
  <2>5. CASE tasks.lessons[i] # <<>>
    <3>1. /\ IsFiniteSet(Unread(i) \ {r})
          /\ Cardinality(Unread(i) \ {r}) = Cardinality(Unread(i)) - 1
      BY <1>3, <2>2, FS_RemoveElement
    <3>2. Unread(i)' \subseteq Unread(i) \ {r}
      BY <2>3, <2>5, NoneForgets
    <3>3. Cardinality(Unread(i)') <= Cardinality(Unread(i) \ {r})
      BY <3>1, <3>2, FS_Subset
    <3>4. Len(tasks.lessons[i]) + Cardinality(Unread(i)) <= Cardinality(Runners)
      BY <2>5 DEF OnceInv
    <3> QED
      BY <1>1, <1>3, <2>1, <3>1, <3>3, <3>4
  <2> QED
    BY <2>4, <2>5
<1> QED
  BY <1>4, <1>5, OnlyCommitsMake

\* For any number of runners whose handlers overlap in any order, crash and run
\* again: an item gets at most a task of each runner (existing_keys).
THEOREM OneTaskOfEachRunner == Spec => []OncePerRunner
<1>1. Init => TypeInv /\ OnceInv
  BY InitType, OnceInit
<1>2. (TypeInv /\ OnceInv) /\ [Next]_vars => (TypeInv /\ OnceInv)'
  BY StepKinds, OnceNext
<1>3. TypeInv /\ OnceInv => OncePerRunner
  <2> SUFFICES ASSUME TypeInv, OnceInv, NEW i \in Items
               PROVE  Len(tasks.lessons[i]) <= Cardinality(Runners)
    BY DEF OncePerRunner
  <2>1. /\ Len(tasks.lessons[i]) \in Nat
        /\ Len(tasks.lessons[i]) = 0 <=> tasks.lessons[i] = <<>>
    BY TaskFields, StatusAt DEF TypeInv, TypeOK
  <2>2. Unread(i) \in SUBSET Runners
    BY DEF Unread
  <2>3. Cardinality(Unread(i)) \in Nat /\ Cardinality(Runners) \in Nat
    BY <2>2, Counted
  <2> QED
    BY <2>1, <2>3 DEF OnceInv
<1> QED
  BY <1>1, <1>2, <1>3, PTL DEF Spec

-----------------------------------------------------------------------------
(* A single runner. *)

Alone == \A p, q \in Runners : p = q

\* OneMilestone needs that the handler that runs has read every milestone that
\* is not superseded: only its own commit supersedes one or makes another.
MilestonesRead ==
    \A r \in Runners : hand[r].op = "run" =>
        \A s \in Stages : \A n \in DOMAIN tasks.milestones[s] :
            tasks.milestones[s][n] # "superseded" =>
                /\ n \in DOMAIN hand[r].seen.milestones[s]
                /\ hand[r].seen.milestones[s][n] # "superseded"

\* GateHolds needs that the gate the handler has read is shut for every stage
\* it is shut for now: in the meantime the learner only opens it.
GateRead ==
    \A r \in Runners : hand[r].op = "run" => Blocked(tasks) \subseteq hand[r].blocked

AloneInv == OneMilestone /\ MilestonesRead /\ GateRead

\* At first there is no milestone, and no handler runs.
LEMMA AloneInit == Init => AloneInv
<1> SUFFICES ASSUME Init PROVE AloneInv
  OBVIOUS
<1>1. \A s \in Stages : tasks.milestones[s] = <<>>
  <2>1. tasks.milestones = Nothing.milestones
    BY NoTasks, WithLessonsShape DEF Init
  <2> QED
    BY <2>1 DEF Nothing
<1>2. \A r \in Runners : hand[r].op = "none"
  BY IdleType DEF Init
<1>3. OneMilestone
  BY <1>1 DEF OneMilestone
<1> QED
  BY <1>2, <1>3 DEF AloneInv, MilestonesRead, GateRead

\* What the learner does leaves at most the blocks there were.
LEMMA LearnerOpens == ASSUME Learns PROVE Blocked(tasks') \subseteq Blocked(tasks)
BY DEF Learns, Blocked

\* With one runner, every step keeps that what the handler read is what there is.
LEMMA AloneNext ==
    ASSUME Alone, TypeInv, TypeInv', Kinds, AloneInv PROVE AloneInv'
<1>1. CASE Quiet
  <2>1. tasks' = tasks /\ \A r \in Runners : hand'[r].op = "run" => hand'[r] = hand[r]
    BY <1>1 DEF Quiet
  <2> QED
    BY <2>1 DEF AloneInv, OneMilestone, MilestonesRead, GateRead
<1>2. CASE Learns
  <2>1. OneMilestone'
    BY <1>2 DEF Learns, AloneInv, OneMilestone
  <2>2. MilestonesRead'
    BY <1>2 DEF Learns, AloneInv, MilestonesRead
  <2>3. GateRead'
    BY <1>2, LearnerOpens DEF Learns, AloneInv, GateRead
  <2> QED
    BY <2>1, <2>2, <2>3 DEF AloneInv
<1>3. ASSUME NEW r \in Runners, Reads(r) PROVE AloneInv'
  <2>1. \A q \in Runners : q = r
    BY DEF Alone
  <2>2. OneMilestone'
    BY <1>3 DEF Reads, AloneInv, OneMilestone
  <2> QED
    BY <1>3, <2>1, <2>2 DEF Reads, AloneInv, MilestonesRead, GateRead
<1>4. ASSUME NEW r \in Runners, ReadsMore(r) PROVE AloneInv'
  <2>1. \A q \in Runners : q = r
    BY DEF Alone
  <2>2. OneMilestone'
    BY <1>4 DEF ReadsMore, AloneInv, OneMilestone
  <2>3. GateRead'
    BY <1>4, <2>1 DEF ReadsMore, AloneInv, GateRead
  <2>4. ASSUME NEW s \in Stages, NEW n \in DOMAIN tasks.milestones[s],
               tasks.milestones[s][n] # "superseded"
        PROVE  /\ n \in DOMAIN hand'[r].seen.milestones[s]
               /\ hand'[r].seen.milestones[s][n] # "superseded"
    <3> DEFINE seen == hand[r].seen.milestones[s]
               now == tasks.milestones[s]
    <3>1. n \in DOMAIN seen /\ seen[n] # "superseded"
      BY <1>4, <2>4 DEF ReadsMore, AloneInv, MilestonesRead
    <3>2. seen \in Seq(Statuses) /\ now \in Seq(Statuses)
      BY HandFields, TaskFields DEF TypeInv, TypeOK
    <3>3. n \in DOMAIN Later(seen, now) /\ Later(seen, now)[n] = seen[n]
      BY <3>1, <3>2, LaterShape
    <3>4. hand'[r].seen.milestones[s] = Later(seen, now)
      BY <1>4 DEF ReadsMore
    <3> QED
      BY <3>1, <3>3, <3>4
  <2>5. MilestonesRead'
    <3>1. tasks' = tasks
      BY <1>4 DEF ReadsMore
    <3> QED
      BY <3>1, <2>1, <2>4 DEF MilestonesRead
  <2> QED
    BY <2>2, <2>3, <2>5 DEF AloneInv
<1>5. ASSUME NEW r \in Runners, Commits(r) PROVE AloneInv'
  <2>1. \A q \in Runners : hand'[q].op # "run"
    BY <1>5 DEF Commits, Alone
  <2>2. CASE \A s \in Stages : OnlyCloses(tasks.milestones[s], tasks'.milestones[s])
    <3>1. OneMilestone'
      BY <2>2 DEF OnlyCloses, AloneInv, OneMilestone
    <3> QED
      BY <2>1, <3>1 DEF AloneInv, MilestonesRead, GateRead
  <2>3. ASSUME NEW s \in Stages, AddsMilestone(r, s) PROVE AloneInv'
    <3> DEFINE old == tasks.milestones[s]
    <3>1. \A n \in DOMAIN old : old[n] = "superseded"
      BY <1>5, <2>3 DEF Commits, AddsMilestone, Live, AloneInv, MilestonesRead
    <3>2. old \in Seq(Statuses) /\ tasks.milestones \in [Stages -> Seq(Statuses)]
      BY DEF TypeInv, TypeOK, Tasks
    <3>3. /\ tasks'.milestones[s] = Append(old, Fresh)
          /\ \A t \in Stages \ {s} : tasks'.milestones[t] = tasks.milestones[t]
      BY <2>3, <3>2 DEF AddsMilestone
    <3> HIDE DEF old
    <3>4. /\ DOMAIN Append(old, Fresh) = 1..(Len(old) + 1) /\ Len(old) \in Nat
          /\ DOMAIN old = 1..Len(old)
          /\ \A n \in DOMAIN old : Append(old, Fresh)[n] = old[n]
      BY <3>2, AppendShape, StatusAt
    <3>5. \A n \in DOMAIN Append(old, Fresh) :
              Append(old, Fresh)[n] # "superseded" => n = Len(old) + 1
      BY <3>1, <3>4
    <3>6. OneMilestone'
      <4> SUFFICES ASSUME NEW t \in Stages, NEW m \in DOMAIN tasks'.milestones[t],
                          NEW n \in DOMAIN tasks'.milestones[t],
                          tasks'.milestones[t][m] # "superseded",
                          tasks'.milestones[t][n] # "superseded"
                   PROVE  m = n
        BY DEF OneMilestone
      <4>1. CASE t = s
        BY <4>1, <3>3, <3>5
      <4>2. CASE t # s
        BY <4>2, <3>3 DEF AloneInv, OneMilestone
      <4> QED
        BY <4>1, <4>2
    <3> QED
      BY <2>1, <3>6 DEF AloneInv, MilestonesRead, GateRead
  <2> QED
    BY <1>5, <2>2, <2>3 DEF Commits
<1> QED
  BY <1>1, <1>2, <1>3, <1>4, <1>5 DEF Kinds

\* So types and invariant are inductive together.
LEMMA AloneStep ==
    ASSUME Alone PROVE (TypeInv /\ AloneInv) /\ [Next]_vars => (TypeInv /\ AloneInv)'
BY StepKinds, AloneNext

\* With one runner a stage has one milestone that is not superseded, however
\* often it is due, its jobs are run again and a repair supersedes it.
THEOREM OneMilestoneOfAStage == ASSUME Alone PROVE Spec => []OneMilestone
<1>1. Init => TypeInv /\ AloneInv
  BY InitType, AloneInit
<1>2. (TypeInv /\ AloneInv) /\ [Next]_vars => (TypeInv /\ AloneInv)'
  BY AloneStep
<1>3. TypeInv /\ AloneInv => OneMilestone
  BY DEF AloneInv
<1> QED
  BY <1>1, <1>2, <1>3, PTL DEF Spec

\* What GateHolds says of a step.
GateHoldsStep ==
    \A i \in Items :
        (Len(tasks'.lessons[i]) > Len(tasks.lessons[i])) => ~ Beyond(StageOf[i], Blocked(tasks))

\* A lesson that is made is not beyond a stage whose gate is closed.
LEMMA GateStep ==
    ASSUME TypeInv, AloneInv, [Next]_vars PROVE GateHoldsStep
<1> SUFFICES ASSUME NEW i \in Items, Len(tasks'.lessons[i]) > Len(tasks.lessons[i])
             PROVE  ~ Beyond(StageOf[i], Blocked(tasks))
  BY DEF GateHoldsStep
<1>1. TypeInv' /\ Kinds
  BY StepKinds
<1>2. Len(tasks'.lessons[i]) \in Nat /\ Len(tasks.lessons[i]) \in Nat
  BY <1>1, TaskFields, StatusAt DEF TypeInv, TypeOK
<1>3. Len(tasks'.lessons[i]) # Len(tasks.lessons[i])
  BY <1>2
<1>4. PICK r \in Runners, new \in SUBSET Items : Commits(r) /\ Makes(r, new) /\ i \in new
  BY <1>1, <1>3, OnlyCommitsMake
<1>5. ~ Beyond(StageOf[i], hand[r].blocked)
  BY <1>4 DEF Makes, Admitted
<1>6. Blocked(tasks) \subseteq hand[r].blocked
  BY <1>4 DEF Commits, AloneInv, GateRead
<1> QED
  BY <1>5, <1>6 DEF Beyond

\* With one runner no item behind the gate gets a task, whatever the learner
\* does between the reading of the gate and the commit.
THEOREM GateIsKept == ASSUME Alone PROVE Spec => GateHolds
<1>1. Init => TypeInv /\ AloneInv
  BY InitType, AloneInit
<1>2. (TypeInv /\ AloneInv) /\ [Next]_vars => (TypeInv /\ AloneInv)'
  BY AloneStep
<1>3. (TypeInv /\ AloneInv) /\ [Next]_vars => [GateHoldsStep]_vars
  BY GateStep
<1>4. Spec => [][GateHoldsStep]_vars
  BY <1>1, <1>2, <1>3, PTL DEF Spec
<1>5. [][GateHoldsStep]_vars => GateHolds
  BY DEF GateHoldsStep, GateHolds
<1> QED
  BY <1>4, <1>5

=============================================================================
