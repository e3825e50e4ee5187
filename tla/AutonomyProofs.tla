--------------------------- MODULE AutonomyProofs ---------------------------
(***************************************************************************)
(* Theorems about the autonomy of a goal: in the first part about          *)
(* AutonomyJobs, the queue of its jobs, for every set of keys, runners and *)
(* requests and every bound; in the second about Reflections, what its     *)
(* failures teach, for any tasks, transactions, days and decisions.        *)
(***************************************************************************)
EXTENDS AutonomyJobs, Reflections, SequenceTheorems, WellFoundedInduction, TLAPS

-----------------------------------------------------------------------------
(* Lists of entities. *)

\* The empty list is a list of entities.
LEMMA NoEntitiesType == IsEntities(NoEntities) /\ DOMAIN NoEntities = {}
BY DEF IsEntities, NoEntities

\* Putting an entity aside leaves a list without it.
LEMMA RemoveType ==
    ASSUME NEW list, IsEntities(list), NEW k
    PROVE  LET rest == [j \in DOMAIN list \ {k} |-> list[j]]
           IN  IsEntities(rest) /\ k \notin DOMAIN rest /\ DOMAIN rest \subseteq DOMAIN list
BY DEF IsEntities

\* The rows the operators build are rows.
LEMMA RowTypes ==
    /\ Absent \in Row
    /\ \A b \in DueTimes : Built(b) \in Row
    /\ \A s \in Finished, n \in Nat : Ended(s, n) \in Row
    /\ \A n \in Nat, r \in Runners : Claimed(n, r) \in Row
    /\ \A n \in Nat : Retried(n) \in Row
BY DEF Absent, Built, Ended, Claimed, Retried, Row, DueTimes, Status, Finished, ActiveStatus

\* Creating a job and ensuring the daily job leave a table.
LEMMA CreateType ==
    ASSUME NEW rows \in [Keys -> Row], NEW k \in Keys, NEW b \in DueTimes
    PROVE  Create(rows, k, b) \in [Keys -> Row]
BY RowTypes DEF Create

\* Ensuring the daily job leaves a table, whatever rows it cancels.
LEMMA EnsureType ==
    ASSUME NEW rows \in [Keys -> Row], NEW k \in Keys, NEW b \in DueTimes,
           NEW active, IsEntities(active)
    PROVE  Ensure(rows, k, active, b) \in [Keys -> Row]
<1> DEFINE after == [j \in Keys |-> IF j \in DOMAIN active
                                    THEN Ended("cancelled", active[j])
                                    ELSE rows[j]]
<1>1. after \in [Keys -> Row]
  BY RowTypes DEF IsEntities, Finished
<1>2. Create(after, k, b) \in [Keys -> Row]
  BY <1>1, CreateType
<1> QED
  BY <1>2 DEF Ensure

\* The active daily jobs a request reads are a batch of entities.
LEMMA ActiveDailyType == TypeOK => IsEntities(ActiveDaily)
BY KeysAssumption DEF TypeOK, IsEntities, ActiveDaily, Row

-----------------------------------------------------------------------------
(* Steps that several actions end in. *)

\* A runner that leaves, or goes on to the next entity, keeps the types.
RunnerType ==
    /\ pc \in [Runners -> {"idle", "looping", "running", "committed"}]
    /\ DOMAIN batch = Runners /\ \A r \in Runners : IsEntities(batch[r])
    /\ held \in [Runners -> Keys \cup {NoKey}]
    /\ tries \in [Runners -> Nat]
    /\ processed \in [Runners -> Nat]
    /\ \A r \in Runners :
          /\ held[r] = NoKey <=> pc[r] \in {"idle", "looping"}
          /\ held[r] \notin DOMAIN batch[r]

TableType ==
    /\ jobs \in [Keys -> Row]
    /\ reqKey \in [Requests -> DayKeys \cup {NoKey}]
    /\ DOMAIN reqActive = Requests /\ \A q \in Requests : IsEntities(reqActive[q])
    /\ effects \in [Keys -> Nat]
    /\ faults \in Nat

\* The types split into those of the runners and those of the table.
LEMMA TypeParts == TypeOK <=> RunnerType /\ TableType
BY DEF TypeOK, RunnerType, TableType

\* A runner that gives up its batch.
LEMMA LeaveType ==
    ASSUME RunnerType, NEW r \in Runners, Leave(r)
    PROVE  RunnerType'
BY NoEntitiesType, KeysAssumption DEF RunnerType, Leave

\* A runner that turns to the next entity of its batch.
LEMMA NextEntityType ==
    ASSUME RunnerType, NEW r \in Runners, NEW n \in {0, 1}, NextEntity(r, n)
    PROVE  RunnerType'
<1>1. held'[r] = NoKey /\ pc'[r] = "looping"
  BY DEF RunnerType, NextEntity
<1>2. NoKey \notin DOMAIN batch[r]
  BY KeysAssumption DEF RunnerType, IsEntities
<1> QED
  BY <1>1, <1>2 DEF RunnerType, NextEntity

-----------------------------------------------------------------------------
\* The initial states have the types.
LEMMA InitType == Init => TypeOK
BY NoEntitiesType, RowTypes, KeysAssumption DEF Init, TypeOK

\* Each action keeps the types.
LEMMA NextType == TypeOK /\ [Next]_vars => TypeOK'
<1> SUFFICES ASSUME TypeOK, [Next]_vars PROVE TypeOK'
  OBVIOUS
<1> USE KeysAssumption, BoundsAssumption
<1>t. RunnerType /\ TableType
  BY TypeParts
<1>q. RunnerType' /\ TableType' => TypeOK'
  BY DEF TypeOK, RunnerType, TableType
<1>1. ASSUME NEW k \in Keys, NEW b \in DueTimes, Submit(k, b) PROVE TypeOK'
  <2>1. jobs' \in [Keys -> Row]
    BY <1>1, <1>t, CreateType DEF Submit, TableType
  <2> QED
    BY <2>1, <1>1 DEF TypeOK, Submit, runnerVars, requestVars
<1>2. ASSUME NEW q \in Requests, NEW k \in DayKeys, EnsureRead(q, k) PROVE TypeOK'
  BY <1>2, ActiveDailyType DEF TypeOK, EnsureRead, runnerVars
<1>3. ASSUME NEW q \in Requests, NEW b \in DueTimes, EnsureCommit(q, b) PROVE TypeOK'
  <2>1. reqKey[q] \in Keys /\ IsEntities(reqActive[q])
    BY <1>3, <1>t DEF TableType, EnsureCommit
  <2>2. jobs' \in [Keys -> Row]
    BY <1>3, <2>1, <1>t, EnsureType DEF EnsureCommit, TableType
  <2> QED
    BY <2>2, <1>3, NoEntitiesType DEF TypeOK, EnsureCommit, runnerVars
<1>4. ASSUME NEW k \in Keys, BecomeDue(k) PROVE TypeOK'
  <2>1. [jobs[k] EXCEPT !.due = "passed"] \in Row
    BY DEF TypeOK, Row, DueTimes
  <2>2. jobs' \in [Keys -> Row]
    BY <2>1, <1>4 DEF TypeOK, BecomeDue
  <2> QED
    BY <2>2, <1>4 DEF TypeOK, BecomeDue, runnerVars, requestVars
<1>5. ASSUME NEW k \in Keys, LeaseLapses(k) PROVE TypeOK'
  BY <1>5 DEF TypeOK, LeaseLapses, runnerVars, requestVars, Row
<1>6. ASSUME NEW r \in Runners, StartRun(r) PROVE TypeOK'
  BY <1>6 DEF TypeOK, StartRun, requestVars
<1>7. ASSUME NEW r \in Runners, EndRun(r) PROVE TypeOK'
  BY <1>7, <1>t, <1>q, LeaveType DEF EndRun, TableType, requestVars
<1>8. ASSUME NEW r \in Runners, NEW listed \in SUBSET Keys, ListDue(r, listed) PROVE TypeOK'
  <2>1. IsEntities([k \in listed |-> jobs[k].attempts])
    BY <1>8 DEF TypeOK, IsEntities, Row
  <2> QED
    BY <2>1, <1>8 DEF TypeOK, ListDue, requestVars, IsEntities
<1>9. ASSUME NEW r \in Runners, NEW k \in Keys, Claim(r, k) PROVE TypeOK'
  <2>1. batch[r][k] \in Nat /\ IsEntities(batch[r])
    BY <1>9 DEF TypeOK, Claim, IsEntities
  <2>2. jobs' \in [Keys -> Row]
    <3>1. batch[r][k] + 1 \in Nat
      BY <2>1
    <3>2. Claimed(batch[r][k] + 1, r) \in Row
      BY <3>1, RowTypes
    <3> QED
      BY <3>2, <1>9 DEF TypeOK, Claim
  <2>3. IsEntities(batch'[r]) /\ k \notin DOMAIN batch'[r]
    BY <2>1, <1>9, RemoveType DEF TypeOK, Claim
  <2>4. \A s \in Runners \ {r} : batch'[s] = batch[s] /\ held'[s] = held[s] /\ pc'[s] = pc[s]
    BY <1>9 DEF TypeOK, Claim
  <2>5. held'[r] = k /\ pc'[r] = "running" /\ k # NoKey
    BY <1>9 DEF TypeOK, Claim
  <2>6. RunnerType'
    BY <1>9, <1>t, <2>1, <2>3, <2>4, <2>5 DEF RunnerType, Claim
  <2> QED
    BY <2>2, <2>6, <1>t, <1>q, <1>9 DEF TableType, Claim, requestVars
<1>10. ASSUME NEW r \in Runners, Handler(r) PROVE TypeOK'
  <2>a. ASSUME held[r] \in Keys, NEW rows \in [Keys -> Row] PROVE Completed(rows, r) \in [Keys -> Row]
    BY <2>a, RowTypes DEF Completed, TypeOK, Finished
  <2>b. pc[r] \in {"running", "committed"} => held[r] \in Keys
    BY DEF TypeOK
  <2>1. CASE DispatchSucceeds(r)
    <3>1. jobs' \in [Keys -> Row]
      BY <2>1, <2>a, <2>b, EnsureType, ActiveDailyType DEF DispatchSucceeds, TypeOK
    <3>2. RunnerType'
      BY <2>1, <1>t, NextEntityType DEF DispatchSucceeds
    <3> QED
      BY <2>1, <3>1, <3>2, <1>q, <1>t DEF DispatchSucceeds, TableType, requestVars
  <2>2. CASE CallbackCommits(r)
    BY <2>2 DEF CallbackCommits, TypeOK, requestVars
  <2>3. CASE CallbackCompletes(r)
    <3>1. jobs' \in [Keys -> Row]
      BY <2>3, <2>a, <2>b DEF CallbackCompletes, TypeOK
    <3>2. RunnerType'
      BY <2>3, <1>t, NextEntityType DEF CallbackCompletes
    <3> QED
      BY <2>3, <3>1, <3>2, <1>q, <1>t DEF CallbackCompletes, TableType, requestVars
  <2>4. CASE HandlerRetries(r)
    <3>1. jobs' \in [Keys -> Row]
      BY <2>4, <2>b, RowTypes DEF HandlerRetries, TypeOK
    <3>2. RunnerType'
      BY <2>4, <1>t, NextEntityType DEF HandlerRetries
    <3> QED
      BY <2>4, <3>1, <3>2, <1>q, <1>t DEF HandlerRetries, TableType, requestVars
  <2>5. CASE HandlerFails(r)
    <3>1. jobs' \in [Keys -> Row]
      <4>1. ASSUME NEW rows \in [Keys -> Row] PROVE Failed(rows, r) \in [Keys -> Row]
        BY <2>5, <2>b, RowTypes DEF Failed, HandlerFails, TypeOK, Finished
      <4>2. IsEntities(ActiveDaily) /\ jobs \in [Keys -> Row]
        BY ActiveDailyType DEF TypeOK
      <4>3. \A k \in DayKeys, b \in DueTimes : Ensure(jobs, k, ActiveDaily, b) \in [Keys -> Row]
        BY <4>2, EnsureType, KeysAssumption
      <4> QED
        BY <2>5, <4>1, <4>2, <4>3 DEF HandlerFails
    <3>2. RunnerType'
      BY <2>5, <1>t, NextEntityType, LeaveType DEF HandlerFails
    <3>3. effects' \in [Keys -> Nat]
      BY <2>5 DEF HandlerFails, PartialWork, TypeOK
    <3> QED
      BY <2>5, <3>1, <3>2, <3>3, <1>q, <1>t DEF HandlerFails, TableType, requestVars
  <2> QED
    BY <1>10, <2>1, <2>2, <2>3, <2>4, <2>5 DEF Handler
<1>11. ASSUME NEW r \in Runners, Crash(r) PROVE TypeOK'
  BY <1>11, <1>t, <1>q, LeaveType DEF Crash, TableType, requestVars
<1>12. CASE UNCHANGED vars
  BY <1>12 DEF TypeOK, vars, runnerVars, requestVars
<1> QED
  BY <1>1, <1>2, <1>3, <1>4, <1>5, <1>6, <1>7, <1>8, <1>9, <1>10, <1>11, <1>12
     DEF Next, Environment, Loop

\* Type correctness, for every instance.
THEOREM TypeCorrect == Spec => []TypeOK
<1>1. Init => TypeOK
  BY InitType
<1>2. TypeOK /\ [Next]_vars => TypeOK'
  BY NextType
<1> QED
  BY <1>1, <1>2, PTL DEF Spec

-----------------------------------------------------------------------------
(* What each step may do to one row, whatever the instance. *)

\* Creating a job leaves every other row and every existing row alone.
LEMMA CreateRow ==
    ASSUME NEW rows \in [Keys -> Row], NEW k \in Keys, NEW b \in DueTimes, NEW j \in Keys
    PROVE  \/ Create(rows, k, b)[j] = rows[j]
           \/ j = k /\ rows[k].status = "absent" /\ Create(rows, k, b)[j] = Built(b)
BY DEF Create

\* Ensuring the daily job leaves a row alone, cancels it, or creates it.
LEMMA EnsureRow ==
    ASSUME NEW rows \in [Keys -> Row], NEW k \in Keys, NEW b \in DueTimes,
           NEW active, IsEntities(active), NEW j \in Keys
    PROVE  LET row == Ensure(rows, k, active, b)[j]
           IN  \/ row = rows[j]
               \/ j \in DOMAIN active /\ row.status = "cancelled"
               \/ j = k /\ rows[k].status = "absent" /\ row = Built(b)
<1> DEFINE after == [i \in Keys |-> IF i \in DOMAIN active
                                    THEN Ended("cancelled", active[i])
                                    ELSE rows[i]]
<1>1. after \in [Keys -> Row]
  BY RowTypes DEF IsEntities, Finished
<1>2. \/ Create(after, k, b)[j] = after[j]
      \/ j = k /\ after[k].status = "absent" /\ Create(after, k, b)[j] = Built(b)
  BY <1>1, CreateRow
<1>3. j \in DOMAIN active => after[j].status = "cancelled"
  BY DEF Ended, Absent
<1>4. j \notin DOMAIN active => after[j] = rows[j]
  OBVIOUS
<1>5. CASE k \in DOMAIN active
  BY <1>5 DEF Ensure
<1>6. CASE k \notin DOMAIN active
  <2>1. Ensure(rows, k, active, b) = Create(after, k, b)
    BY <1>6 DEF Ensure
  <2> QED
    BY <2>1, <1>2, <1>3, <1>4, <1>6
<1> QED
  BY <1>5, <1>6

\* A failing handler's row is failed; of the others it may have cancelled the
\* active daily ones and created the one of the day.
LEMMA FailedRows ==
    ASSUME TypeOK, NEW r \in Runners, HandlerFails(r)
    PROVE  /\ held[r] \in Keys /\ jobs'[held[r]] = Ended("failed", tries[r])
           /\ \E k \in Keys : \A j \in Keys \ {held[r]} :
                 \/ jobs'[j] = jobs[j]
                 \/ jobs[j].status \in ActiveStatus /\ jobs'[j].status = "cancelled"
                 \/ /\ jobs[j].status = "absent" /\ j = k
                    /\ \E b \in DueTimes : jobs'[j] = Built(b)
<1> USE KeysAssumption
<1>h. held[r] \in Keys
  BY DEF HandlerFails, TypeOK
<1>f. ASSUME NEW rows \in [Keys -> Row]
      PROVE  /\ \A j \in Keys \ {held[r]} : Failed(rows, r)[j] = rows[j]
             /\ Failed(rows, r)[held[r]] = Ended("failed", tries[r])
  BY <1>h DEF Failed
<1>1. CASE jobs' = Failed(jobs, r)
  BY <1>h, <1>f, <1>1 DEF TypeOK
<1>2. ASSUME NEW k \in DayKeys, NEW b \in DueTimes,
             jobs' = Failed(Ensure(jobs, k, ActiveDaily, b), r)
      PROVE  /\ jobs'[held[r]] = Ended("failed", tries[r])
             /\ \A j \in Keys \ {held[r]} :
                 \/ jobs'[j] = jobs[j]
                 \/ jobs[j].status \in ActiveStatus /\ jobs'[j].status = "cancelled"
                 \/ jobs[j].status = "absent" /\ j = k /\ jobs'[j] = Built(b)
  <2>1. IsEntities(ActiveDaily) /\ jobs \in [Keys -> Row] /\ k \in Keys
    BY ActiveDailyType DEF TypeOK
  <2> DEFINE rows == Ensure(jobs, k, ActiveDaily, b)
  <2>2. rows \in [Keys -> Row]
    BY <2>1, EnsureType
  <2>3. \A j \in Keys : \/ rows[j] = jobs[j]
                        \/ j \in DOMAIN ActiveDaily /\ rows[j].status = "cancelled"
                        \/ j = k /\ jobs[k].status = "absent" /\ rows[j] = Built(b)
    BY <2>1, EnsureRow
  <2>4. \A j \in DOMAIN ActiveDaily : jobs[j].status \in ActiveStatus
    BY DEF ActiveDaily
  <2> HIDE DEF rows
  <2>5. jobs' = Failed(rows, r)
    BY <1>2 DEF rows
  <2> QED
    BY <1>f, <2>2, <2>3, <2>4, <2>5
<1> QED
  BY <1>h, <1>1, <1>2 DEF HandlerFails

\* The row of a job that failed.
LEMMA FailedStatus ==
    ASSUME TypeOK, NEW r \in Runners, HandlerFails(r)
    PROVE  jobs'[held[r]].status = "failed"
<1>1. jobs'[held[r]] = Ended("failed", tries[r])
  BY FailedRows
<1> QED
  BY <1>1 DEF Ended, Absent

\* A step of a runner's loop other than a claim leaves the table alone; a
\* claim makes the row claimed.
LEMMA LoopRows ==
    ASSUME TypeOK, NEW r \in Runners, Loop(r)
    PROVE  /\ UNCHANGED <<effects, reqActive, faults>>
           /\ \A j \in Keys : \/ jobs'[j] = jobs[j]
                              \/ j \in DOMAIN batch[r] /\ jobs'[j].status = "claimed"
           /\ pc'[r] # "committed"
<1>1. CASE StartRun(r)
  BY <1>1 DEF StartRun, TypeOK, requestVars
<1>2. CASE EndRun(r)
  BY <1>2 DEF EndRun, Leave, TypeOK, requestVars
<1>3. ASSUME NEW listed \in SUBSET Keys, ListDue(r, listed)
      PROVE  /\ UNCHANGED <<effects, reqActive, faults, jobs>>
             /\ pc'[r] # "committed"
  BY <1>3 DEF ListDue, TypeOK, requestVars
<1>4. ASSUME NEW k \in Keys, Claim(r, k)
      PROVE  /\ UNCHANGED <<effects, reqActive, faults>>
             /\ \A j \in Keys : \/ jobs'[j] = jobs[j]
                                \/ j \in DOMAIN batch[r] /\ jobs'[j].status = "claimed"
             /\ pc'[r] # "committed"
  BY <1>4 DEF Claim, TypeOK, requestVars, Claimed, Absent
<1> QED
  BY <1>1, <1>2, <1>3, <1>4 DEF Loop

-----------------------------------------------------------------------------
(* Completed means done. *)

\* The strengthening: an entity whose callback has committed has been done.
DoneInv ==
    /\ CompletedMeansDone
    /\ \A r \in Runners : pc[r] = "committed" => effects[held[r]] >= 1

\* At first no job is completed and no callback has committed.
LEMMA DoneInit == Init => DoneInv
BY DEF Init, DoneInv, CompletedMeansDone, Absent

\* Each action keeps DoneInv: only a runner whose callback committed completes a row.
LEMMA DoneNext == TypeOK /\ DoneInv /\ [Next]_vars => DoneInv'
<1> SUFFICES ASSUME TypeOK, DoneInv, [Next]_vars PROVE DoneInv'
  OBVIOUS
<1> USE KeysAssumption
<1>t. TypeOK'
  BY NextType
<1>1. ASSUME NEW k \in Keys, NEW b \in DueTimes, Submit(k, b) PROVE DoneInv'
  <2>1. ASSUME NEW j \in Keys PROVE jobs'[j] = jobs[j] \/ jobs'[j].status # "completed"
    <3>1. jobs' = Create(jobs, k, b) /\ jobs \in [Keys -> Row]
      BY <1>1 DEF Submit, TypeOK
    <3>2. jobs'[j] = jobs[j] \/ jobs'[j] = Built(b)
      BY <3>1, CreateRow
    <3> QED
      BY <3>2 DEF Built, Absent
  <2> QED
    BY <2>1, <1>1 DEF Submit, runnerVars, DoneInv, CompletedMeansDone
<1>2. ASSUME NEW q \in Requests, NEW k \in DayKeys, EnsureRead(q, k) PROVE DoneInv'
  BY <1>2 DEF EnsureRead, runnerVars, DoneInv, CompletedMeansDone
<1>3. ASSUME NEW q \in Requests, NEW b \in DueTimes, EnsureCommit(q, b) PROVE DoneInv'
  <2>1. reqKey[q] \in Keys /\ IsEntities(reqActive[q])
    BY <1>3 DEF TypeOK, EnsureCommit
  <2>2. ASSUME NEW j \in Keys PROVE jobs'[j] = jobs[j] \/ jobs'[j].status # "completed"
    <3>1. jobs' = Ensure(jobs, reqKey[q], reqActive[q], b) /\ jobs \in [Keys -> Row]
      BY <1>3 DEF EnsureCommit, TypeOK
    <3>2. jobs'[j] = jobs[j] \/ jobs'[j].status = "cancelled" \/ jobs'[j] = Built(b)
      BY <3>1, <2>1, EnsureRow
    <3> QED
      BY <3>2 DEF Built, Absent
  <2> QED
    BY <2>2, <1>3 DEF EnsureCommit, runnerVars, DoneInv, CompletedMeansDone
<1>4. ASSUME NEW k \in Keys, BecomeDue(k) \/ LeaseLapses(k) PROVE DoneInv'
  <2>1. \A j \in Keys : jobs'[j].status = jobs[j].status
    BY <1>4 DEF BecomeDue, LeaseLapses, TypeOK, Row
  <2> QED
    BY <2>1, <1>4 DEF BecomeDue, LeaseLapses, runnerVars, DoneInv, CompletedMeansDone
<1>5. ASSUME NEW r \in Runners, Loop(r) PROVE DoneInv'
  <2>1. \A j \in Keys : jobs'[j] = jobs[j] \/ jobs'[j].status # "completed"
    BY <1>5, LoopRows
  <2>2. \A s \in Runners : pc'[s] = "committed" => pc[s] = "committed" /\ held'[s] = held[s]
    <3>1. ASSUME NEW listed \in SUBSET Keys, ListDue(r, listed) PROVE pc' = pc /\ held' = held
      BY <3>1 DEF ListDue
    <3>2. ASSUME NEW k \in Keys, Claim(r, k)
          PROVE  \A s \in Runners : pc'[s] = "committed" => pc[s] = "committed" /\ held'[s] = held[s]
      BY <3>2 DEF Claim, TypeOK
    <3>3. CASE StartRun(r)
      BY <3>3 DEF StartRun, TypeOK
    <3>4. CASE EndRun(r)
      BY <3>4 DEF EndRun, Leave, TypeOK
    <3> QED
      BY <1>5, <3>1, <3>2, <3>3, <3>4 DEF Loop
  <2> QED
    BY <2>1, <2>2, <1>5, LoopRows DEF DoneInv, CompletedMeansDone
<1>6. ASSUME NEW r \in Runners, Handler(r) PROVE DoneInv'
  <2>h. pc[r] \in {"running", "committed"} => held[r] \in Keys
    BY DEF TypeOK
  <2>o. \A s \in Runners \ {r} : pc'[s] = pc[s] /\ held'[s] = held[s]
    BY <1>6 DEF Handler, DispatchSucceeds, CallbackCommits, CallbackCompletes,
                HandlerRetries, HandlerFails, NextEntity, Leave, TypeOK
  <2>e. \A j \in Keys : effects'[j] >= effects[j]
    BY <1>6, <2>h DEF Handler, DispatchSucceeds, CallbackCommits, CallbackCompletes,
                HandlerRetries, HandlerFails, PartialWork, TypeOK
  <2>p. pc'[r] = "committed" => effects'[held'[r]] >= 1
    BY <1>6, <2>h DEF Handler, DispatchSucceeds, CallbackCommits, CallbackCompletes,
                HandlerRetries, HandlerFails, NextEntity, Leave, TypeOK
  <2>j. \A j \in Keys : jobs'[j].status = "completed" =>
           jobs[j].status = "completed" \/ effects'[j] >= 1
    <3>1. CASE DispatchSucceeds(r)
      <4>1. ASSUME NEW rows \in [Keys -> Row], NEW j \in Keys \ {held[r]}
            PROVE  Completed(rows, r)[j] = rows[j]
        BY DEF Completed
      <4>2. \A j \in Keys \ {held[r]} : jobs'[j] = jobs[j] \/ jobs'[j].status # "completed"
        <5>1. CASE jobs' = Completed(jobs, r)
          BY <5>1, <4>1 DEF TypeOK
        <5>2. ASSUME NEW k \in DayKeys, NEW b \in DueTimes,
                     jobs' = Completed(Ensure(jobs, k, ActiveDaily, b), r)
              PROVE  \A j \in Keys \ {held[r]} :
                        jobs'[j] = jobs[j] \/ jobs'[j].status # "completed"
          <6> TAKE j \in Keys \ {held[r]}
          <6>1. IsEntities(ActiveDaily) /\ jobs \in [Keys -> Row] /\ k \in Keys
            BY ActiveDailyType DEF TypeOK
          <6> DEFINE rows == Ensure(jobs, k, ActiveDaily, b)
          <6>2. rows \in [Keys -> Row]
            BY <6>1, EnsureType
          <6>3. rows[j] = jobs[j] \/ rows[j].status = "cancelled" \/ rows[j] = Built(b)
            BY <6>1, EnsureRow
          <6>4. jobs'[j] = rows[j]
            BY <5>2, <4>1, <6>2
          <6> QED
            BY <6>3, <6>4 DEF Built, Absent
        <5> QED
          BY <3>1, <5>1, <5>2 DEF DispatchSucceeds
      <4>3. effects'[held[r]] >= 1
        BY <3>1, <2>h DEF DispatchSucceeds, TypeOK
      <4> QED
        BY <4>2, <4>3
    <3>2. CASE CallbackCompletes(r)
      BY <3>2, <2>h DEF CallbackCompletes, Completed, TypeOK, DoneInv
    <3>3. CASE CallbackCommits(r)
      BY <3>3 DEF CallbackCommits
    <3>4. CASE HandlerRetries(r)
      BY <3>4, <2>h DEF HandlerRetries, TypeOK, Retried, Built, Absent
    <3>5. CASE HandlerFails(r)
      <4>1. jobs'[held[r]].status # "completed"
        BY <3>5, FailedStatus
      <4>2. \A j \in Keys \ {held[r]} :
               \/ jobs'[j] = jobs[j] \/ jobs'[j].status = "cancelled"
               \/ \E b \in DueTimes : jobs'[j] = Built(b)
        BY <3>5, FailedRows
      <4> QED
        BY <4>1, <4>2 DEF Built, Absent
    <3> QED
      BY <1>6, <3>1, <3>2, <3>3, <3>4, <3>5 DEF Handler
  <2>t. effects \in [Keys -> Nat] /\ effects' \in [Keys -> Nat]
    BY <1>t DEF TypeOK
  <2>1. CompletedMeansDone'
    BY <2>j, <2>e, <2>t DEF DoneInv, CompletedMeansDone
  <2>2. ASSUME NEW s \in Runners, pc'[s] = "committed" PROVE effects'[held'[s]] >= 1
    <3>1. CASE s = r
      BY <3>1, <2>2, <2>p
    <3>2. CASE s # r
      <4>1. pc[s] = "committed" /\ held'[s] = held[s]
        BY <3>2, <2>2, <2>o
      <4>2. held[s] \in Keys /\ effects[held[s]] >= 1
        BY <4>1 DEF TypeOK, DoneInv
      <4> QED
        BY <4>1, <4>2, <2>e, <2>t
    <3> QED
      BY <3>1, <3>2
  <2> QED
    BY <2>1, <2>2 DEF DoneInv
<1>7. ASSUME NEW r \in Runners, Crash(r) PROVE DoneInv'
  BY <1>7 DEF Crash, Leave, DoneInv, CompletedMeansDone, TypeOK
<1>8. CASE UNCHANGED vars
  BY <1>8 DEF DoneInv, CompletedMeansDone, vars, runnerVars
<1> QED
  BY <1>1, <1>2, <1>3, <1>4, <1>5, <1>6, <1>7, <1>8 DEF Next, Environment

\* A completed job's work was committed at least once, with any number of
\* runners that claim from stale lists and write over each other.
THEOREM CompletedJobsWereDone == Spec => []CompletedMeansDone
<1>1. Init => DoneInv
  BY DoneInit
<1>2. TypeOK /\ DoneInv /\ [Next]_vars => DoneInv'
  BY DoneNext
<1>3. DoneInv => CompletedMeansDone
  BY DEF DoneInv
<1> QED
  BY <1>1, <1>2, <1>3, TypeCorrect, PTL DEF Spec

-----------------------------------------------------------------------------
(* Waiting has budget. *)

\* Each action keeps WaitingHasBudget: a row becomes scheduled by create, reset or retry.
LEMMA BudgetNext == TypeOK /\ WaitingHasBudget /\ [Next]_vars => WaitingHasBudget'
<1> SUFFICES ASSUME TypeOK, WaitingHasBudget, [Next]_vars,
                    NEW j \in Keys, jobs'[j].status = "scheduled"
             PROVE  jobs'[j].attempts < MaxAttempts /\ (jobs'[j].attempts > 0 => j \in Replay)
  BY DEF WaitingHasBudget
<1> DEFINE Kept == jobs[j].status = "scheduled" /\ jobs'[j].attempts = jobs[j].attempts
           Fresh == \E b \in DueTimes : jobs'[j] = Built(b)
<1> USE KeysAssumption
<1>k. Kept => jobs'[j].attempts < MaxAttempts /\ (jobs'[j].attempts > 0 => j \in Replay)
  BY DEF WaitingHasBudget
<1>f. Fresh => jobs'[j].attempts < MaxAttempts /\ (jobs'[j].attempts > 0 => j \in Replay)
  <2>1. Fresh => jobs'[j].attempts = 0
    BY DEF Built, Absent
  <2> QED
    BY <2>1, BoundsAssumption
<1>1. ASSUME NEW k \in Keys, NEW b \in DueTimes, Submit(k, b) PROVE Kept \/ Fresh
  <2>1. jobs' = Create(jobs, k, b) /\ jobs \in [Keys -> Row]
    BY <1>1 DEF Submit, TypeOK
  <2> QED
    BY <2>1, CreateRow
<1>2. ASSUME NEW q \in Requests, NEW b \in DueTimes, EnsureCommit(q, b) PROVE Kept \/ Fresh
  <2>1. jobs' = Ensure(jobs, reqKey[q], reqActive[q], b) /\ jobs \in [Keys -> Row]
    BY <1>2 DEF EnsureCommit, TypeOK
  <2>2. reqKey[q] \in Keys /\ IsEntities(reqActive[q])
    BY <1>2 DEF TypeOK, EnsureCommit
  <2>3. jobs'[j] = jobs[j] \/ jobs'[j].status = "cancelled" \/ jobs'[j] = Built(b)
    BY <2>1, <2>2, EnsureRow
  <2> QED
    BY <2>3
<1>3. ASSUME NEW k \in Keys, BecomeDue(k) \/ LeaseLapses(k) PROVE Kept
  BY <1>3 DEF BecomeDue, LeaseLapses, TypeOK, Row
<1>4. ASSUME NEW r \in Runners, Loop(r) PROVE Kept
  BY <1>4, LoopRows
<1>5. ASSUME NEW r \in Runners, Handler(r)
      PROVE  \/ Kept \/ Fresh
             \/ j \in Replay /\ jobs'[j].attempts < MaxAttempts
  <2>h. pc[r] \in {"running", "committed"} => held[r] \in Keys
    BY DEF TypeOK
  <2>c. ASSUME NEW rows \in [Keys -> Row], held[r] \in Keys, jobs' = Completed(rows, r)
        PROVE  j # held[r] /\ jobs'[j] = rows[j]
    BY <2>c DEF Completed, Ended, Absent
  <2>1. CASE DispatchSucceeds(r)
    <3>1. CASE jobs' = Completed(jobs, r)
      BY <3>1, <2>1, <2>h, <2>c DEF DispatchSucceeds, TypeOK
    <3>2. ASSUME NEW k \in DayKeys, NEW b \in DueTimes,
                 jobs' = Completed(Ensure(jobs, k, ActiveDaily, b), r)
          PROVE  Kept \/ Fresh
      <4>1. IsEntities(ActiveDaily) /\ jobs \in [Keys -> Row] /\ k \in Keys
        BY ActiveDailyType DEF TypeOK
      <4> DEFINE rows == Ensure(jobs, k, ActiveDaily, b)
      <4>2. rows \in [Keys -> Row]
        BY <4>1, EnsureType
      <4>3. rows[j] = jobs[j] \/ rows[j].status = "cancelled" \/ rows[j] = Built(b)
        BY <4>1, EnsureRow
      <4>4. jobs'[j] = rows[j]
        BY <3>2, <4>2, <2>1, <2>h, <2>c DEF DispatchSucceeds
      <4> QED
        BY <4>3, <4>4
    <3> QED
      BY <2>1, <3>1, <3>2 DEF DispatchSucceeds
  <2>2. CASE CallbackCommits(r)
    BY <2>2 DEF CallbackCommits
  <2>3. CASE CallbackCompletes(r)
    BY <2>3, <2>h, <2>c DEF CallbackCompletes, TypeOK
  <2>4. CASE HandlerRetries(r)
    BY <2>4, <2>h DEF HandlerRetries, TypeOK, Retried, Built, Absent
  <2>5. CASE HandlerFails(r)
    BY <2>5, FailedRows DEF Ended, Absent
  <2> QED
    BY <1>5, <2>1, <2>2, <2>3, <2>4, <2>5 DEF Handler
<1>6. ASSUME NEW r \in Runners, Crash(r) PROVE Kept
  BY <1>6 DEF Crash
<1>7. ASSUME NEW q \in Requests, NEW k \in DayKeys, EnsureRead(q, k) PROVE Kept
  BY <1>7 DEF EnsureRead
<1>8. CASE UNCHANGED vars
  <2>1. Kept
    BY <1>8 DEF vars
  <2> QED
    BY <2>1, <1>k
<1>9. CASE Next
  <2>1. Kept \/ Fresh \/ (j \in Replay /\ jobs'[j].attempts < MaxAttempts)
    BY <1>9, <1>1, <1>2, <1>3, <1>4, <1>5, <1>6, <1>7 DEF Next, Environment
  <2> QED
    BY <2>1, <1>k, <1>f
<1> QED
  BY <1>8, <1>9

\* No stale write of any runner puts an exhausted replay back in the queue,
\* and nothing but a replay ever waits for another attempt.
THEOREM WaitingJobsHaveBudget == Spec => []WaitingHasBudget
<1>1. Init => WaitingHasBudget
  BY DEF Init, WaitingHasBudget, Absent
<1>2. TypeOK /\ WaitingHasBudget /\ [Next]_vars => WaitingHasBudget'
  BY BudgetNext
<1> QED
  BY <1>1, <1>2, TypeCorrect, PTL DEF Spec

-----------------------------------------------------------------------------
(* With a single runner the queue implements WorkLedger: the work of a      *)
(* dispatched job is committed at most once, whatever the requests,         *)
(* crashes, lapsed leases and stale reads of the requests.                  *)

\* The deployment the project ships: one worker process, and no request that
\* runs the queue inline at the same time.
Worker == CHOOSE r : r \in Runners
SingleRunner == Runners = {Worker}

-----------------------------------------------------------------------------
\* A key that the runner has in hand or in its batch.
InHand(k) == held[Worker] = k \/ k \in DOMAIN batch[Worker]

\* What the row of an entity in hand can say: a request may have cancelled it.
Unfinished == ActiveStatus \cup {"cancelled"}

\* Work once committed is never committed again because the row is finished
\* and the runner has no entity of it left; entities in hand have rows.
LedgerInv ==
    /\ \A k \in Dispatched :
          \/ effects[k] = 0
          \/ (effects[k] = 1 /\ jobs[k].status \in Finished /\ ~InHand(k))
    /\ \A k \in Keys : InHand(k) => jobs[k].status \in Unfinished
    /\ \A q \in Requests : \A k \in DOMAIN reqActive[q] : jobs[k].status # "absent"
    /\ pc[Worker] = "committed" => held[Worker] \notin Dispatched

\* No job has run at first.
LEMMA LedgerInit == SingleRunner /\ Init => LedgerInv
<1> SUFFICES ASSUME SingleRunner, Init PROVE LedgerInv
  OBVIOUS
<1>1. \A k \in Keys : ~InHand(k) /\ effects[k] = 0
  BY KeysAssumption, NoEntitiesType DEF SingleRunner, Init, InHand
<1>2. \A q \in Requests : DOMAIN reqActive[q] = {}
  BY NoEntitiesType DEF Init
<1>3. pc[Worker] = "idle"
  BY DEF SingleRunner, Init
<1> QED
  BY <1>1, <1>2, <1>3, KeysAssumption DEF LedgerInv, Init

\* What a step that is not a handler's may do to rows and entities.
LEMMA LedgerEnvironment == TypeOK /\ LedgerInv /\ Environment => LedgerInv'
<1> SUFFICES ASSUME TypeOK, LedgerInv, Environment PROVE LedgerInv'
  OBVIOUS
<1> USE KeysAssumption
<1>a. UNCHANGED <<pc, batch, held, effects>>
  BY DEF Environment, Submit, EnsureRead, EnsureCommit, BecomeDue, LeaseLapses, runnerVars
<1>b. \A k \in Keys : InHand(k)' <=> InHand(k)
  BY <1>a DEF InHand
<1>c. ASSUME \A j \in Keys : /\ jobs[j].status # "absent" => jobs'[j].status # "absent"
                             /\ jobs[j].status \in Finished => jobs'[j].status \in Finished
                             /\ jobs[j].status \in Unfinished => jobs'[j].status \in Unfinished,
             \A q \in Requests : \A k \in DOMAIN reqActive'[q] : jobs'[k].status # "absent"
      PROVE  LedgerInv'
  BY <1>a, <1>b, <1>c DEF LedgerInv
<1>r. \A q \in Requests : DOMAIN reqActive[q] \subseteq Keys
  BY DEF TypeOK, IsEntities
<1>1. ASSUME NEW k \in Keys, NEW b \in DueTimes, Submit(k, b) PROVE LedgerInv'
  <2>1. jobs' = Create(jobs, k, b) /\ jobs \in [Keys -> Row] /\ reqActive' = reqActive
    BY <1>1 DEF Submit, TypeOK, requestVars
  <2>2. ASSUME NEW j \in Keys
        PROVE  /\ jobs[j].status # "absent" => jobs'[j].status # "absent"
               /\ jobs[j].status \in Finished => jobs'[j].status \in Finished
               /\ jobs[j].status \in Unfinished => jobs'[j].status \in Unfinished
    <3>1. jobs'[j] = jobs[j] \/ (jobs[j].status = "absent" /\ jobs'[j] = Built(b))
      BY <2>1, CreateRow
    <3> QED
      BY <3>1 DEF Built, Absent, Finished, Unfinished, ActiveStatus
  <2> QED
    BY <2>1, <2>2, <1>c, <1>r DEF LedgerInv
<1>2. ASSUME NEW q \in Requests, NEW k \in DayKeys, EnsureRead(q, k) PROVE LedgerInv'
  <2>1. \A j \in DOMAIN ActiveDaily : jobs[j].status # "absent"
    BY DEF ActiveDaily, ActiveStatus
  <2>2. \A p \in Requests : reqActive'[p] = reqActive[p] \/ reqActive'[p] = ActiveDaily
    BY <1>2 DEF EnsureRead, TypeOK
  <2>3. \A p \in Requests : \A j \in DOMAIN reqActive'[p] : jobs[j].status # "absent"
    BY <2>1, <2>2 DEF LedgerInv
  <2> QED
    BY <2>3, <1>2, <1>c DEF EnsureRead
<1>3. ASSUME NEW q \in Requests, NEW b \in DueTimes, EnsureCommit(q, b) PROVE LedgerInv'
  <2>1. jobs' = Ensure(jobs, reqKey[q], reqActive[q], b) /\ jobs \in [Keys -> Row]
    BY <1>3 DEF EnsureCommit, TypeOK
  <2>2. reqKey[q] \in Keys /\ IsEntities(reqActive[q])
    BY <1>3 DEF TypeOK, EnsureCommit
  <2>3. ASSUME NEW j \in Keys
        PROVE  /\ jobs[j].status # "absent" => jobs'[j].status # "absent"
               /\ jobs[j].status \in Finished => jobs'[j].status \in Finished
               /\ jobs[j].status \in Unfinished => jobs'[j].status \in Unfinished
    <3>1. \/ jobs'[j] = jobs[j] \/ jobs'[j].status = "cancelled"
          \/ j = reqKey[q] /\ jobs[j].status = "absent" /\ jobs'[j] = Built(b)
      BY <2>1, <2>2, EnsureRow
    <3> QED
      BY <3>1 DEF Built, Absent, Finished, Unfinished, ActiveStatus
  <2>4. \A p \in Requests : \A k \in DOMAIN reqActive'[p] : k \in DOMAIN reqActive[p]
    BY <1>3, NoEntitiesType DEF EnsureCommit, TypeOK
  <2> QED
    BY <2>3, <2>4, <1>c, <1>r DEF LedgerInv
<1>4. ASSUME NEW k \in Keys, BecomeDue(k) \/ LeaseLapses(k) PROVE LedgerInv'
  <2>1. \A j \in Keys : jobs'[j].status = jobs[j].status
    BY <1>4 DEF BecomeDue, LeaseLapses, TypeOK, Row
  <2>2. reqActive' = reqActive
    BY <1>4 DEF BecomeDue, LeaseLapses, requestVars
  <2> QED
    BY <2>1, <2>2, <1>c, <1>r DEF LedgerInv
<1> QED
  BY <1>1, <1>2, <1>3, <1>4 DEF Environment

\* The runner's loop keeps the ledger: what it takes up has not run.
LEMMA LedgerLoop == SingleRunner /\ TypeOK /\ LedgerInv /\ Loop(Worker) => LedgerInv'
<1> SUFFICES ASSUME SingleRunner, TypeOK, LedgerInv, Loop(Worker) PROVE LedgerInv'
  OBVIOUS
<1> USE KeysAssumption DEF SingleRunner
<1>0. \A q \in Requests : DOMAIN reqActive[q] \subseteq Keys
  BY DEF TypeOK, IsEntities
<1>1. CASE StartRun(Worker)
  BY <1>1 DEF StartRun, LedgerInv, InHand, TypeOK, requestVars
<1>2. CASE EndRun(Worker)
  BY <1>2, NoEntitiesType DEF EndRun, Leave, LedgerInv, InHand, TypeOK, requestVars
<1>3. ASSUME NEW listed \in SUBSET Keys, ListDue(Worker, listed) PROVE LedgerInv'
  <2>1. \A k \in listed : Due(k)
    BY <1>3 DEF ListDue
  <2>2. \A k \in listed : jobs[k].status \in {"scheduled", "claimed"}
    BY <2>1 DEF Due
  <2>3. DOMAIN batch'[Worker] = listed /\ UNCHANGED <<jobs, pc, held, effects, reqActive>>
    BY <1>3 DEF ListDue, TypeOK, requestVars
  <2>4. \A k \in Keys : InHand(k)' <=> held[Worker] = k \/ k \in listed
    BY <2>3 DEF InHand
  <2> QED
    BY <2>2, <2>3, <2>4 DEF LedgerInv, InHand, Finished, Unfinished, ActiveStatus
<1>4. ASSUME NEW k \in Keys, Claim(Worker, k) PROVE LedgerInv'
  <2>1. InHand(k) /\ effects' = effects /\ reqActive' = reqActive
    BY <1>4 DEF Claim, InHand, requestVars
  <2>2. \A j \in Keys : j # k => jobs'[j] = jobs[j]
    BY <1>4 DEF Claim, TypeOK
  <2>3. jobs'[k].status = "claimed" /\ pc'[Worker] = "running"
    BY <1>4 DEF Claim, TypeOK, Claimed, Absent
  <2>4. held'[Worker] = k /\ DOMAIN batch'[Worker] \subseteq DOMAIN batch[Worker]
    BY <1>4 DEF Claim, TypeOK
  <2>5. \A j \in Keys : InHand(j)' => InHand(j)
    BY <2>1, <2>4 DEF InHand
  <2>6. k \in Dispatched => effects[k] = 0
    BY <2>1 DEF LedgerInv
  <2> QED
    BY <1>0, <2>1, <2>2, <2>3, <2>5, <2>6 DEF LedgerInv, Unfinished, ActiveStatus
<1> QED
  BY <1>1, <1>2, <1>3, <1>4 DEF Loop

\* What a handler step does to the work, the rows and the entities.
LEMMA LedgerHandler == SingleRunner /\ TypeOK /\ LedgerInv /\ Handler(Worker) => LedgerInv'
<1> SUFFICES ASSUME SingleRunner, TypeOK, LedgerInv, Handler(Worker) PROVE LedgerInv'
  OBVIOUS
<1> USE KeysAssumption DEF SingleRunner
\* h is the key in hand before the step (not priming with it).
<1>p. PICK h \in Keys : h = held[Worker]
  BY DEF Handler, DispatchSucceeds, CallbackCommits, CallbackCompletes,
         HandlerRetries, HandlerFails, TypeOK
<1>h. h = held[Worker] /\ InHand(h) /\ h \notin DOMAIN batch[Worker]
  BY <1>p DEF TypeOK, InHand
<1>0. \A q \in Requests : DOMAIN reqActive[q] \subseteq Keys
  BY DEF TypeOK, IsEntities
<1>z. h \in Dispatched => effects[h] = 0
  BY <1>h DEF LedgerInv
<1>q. UNCHANGED reqActive
  BY DEF Handler, DispatchSucceeds, CallbackCommits, CallbackCompletes,
         HandlerRetries, HandlerFails, requestVars
<1>s. ASSUME /\ \A j \in Keys \ {h} : /\ effects'[j] = effects[j]
                                      /\ jobs[j].status # "absent" => jobs'[j].status # "absent"
                                      /\ jobs[j].status \in Finished => jobs'[j].status \in Finished
                                      /\ jobs[j].status \in Unfinished => jobs'[j].status \in Unfinished,
             \A j \in Keys : InHand(j)' => InHand(j),
             jobs'[h].status # "absent",
             InHand(h)' => jobs'[h].status \in Unfinished,
             h \in Dispatched => \/ effects'[h] = 0
                                 \/ /\ effects'[h] = 1 /\ jobs'[h].status \in Finished
                                    /\ ~InHand(h)',
             pc'[Worker] = "committed" => held'[Worker] \notin Dispatched
      PROVE  LedgerInv'
  BY <1>s, <1>q, <1>h, <1>0 DEF LedgerInv
<1>n. ASSUME NEW n \in {0, 1}, NextEntity(Worker, n) \/ Leave(Worker)
      PROVE  /\ \A j \in Keys : InHand(j)' => InHand(j)
             /\ ~InHand(h)'
             /\ pc'[Worker] # "committed"
  <2>1. held'[Worker] = NoKey /\ pc'[Worker] # "committed"
    BY <1>n DEF NextEntity, Leave, TypeOK
  <2>2. batch'[Worker] = batch[Worker] \/ batch'[Worker] = NoEntities
    BY <1>n DEF NextEntity, Leave, TypeOK
  <2>3. DOMAIN batch'[Worker] \subseteq DOMAIN batch[Worker]
    BY <2>2, NoEntitiesType
  <2> QED
    BY <2>1, <2>3, <1>h DEF InHand
<1>c. ASSUME NEW rows \in [Keys -> Row]
      PROVE  /\ \A j \in Keys \ {h} : Completed(rows, Worker)[j] = rows[j]
             /\ Completed(rows, Worker)[h].status = "completed"
  BY <1>h DEF Completed, Ended, Absent
<1>1. CASE DispatchSucceeds(Worker)
  <2>1. effects' = [effects EXCEPT ![h] = @ + 1] /\ NextEntity(Worker, 1)
    BY <1>1, <1>h DEF DispatchSucceeds
  <2>2. ASSUME NEW j \in Keys \ {h}
        PROVE  /\ jobs[j].status # "absent" => jobs'[j].status # "absent"
               /\ jobs[j].status \in Finished => jobs'[j].status \in Finished
               /\ jobs[j].status \in Unfinished => jobs'[j].status \in Unfinished
    <3>1. CASE jobs' = Completed(jobs, Worker)
      BY <3>1, <1>c DEF TypeOK
    <3>2. ASSUME NEW k \in DayKeys, NEW b \in DueTimes,
                 jobs' = Completed(Ensure(jobs, k, ActiveDaily, b), Worker)
          PROVE  /\ jobs[j].status # "absent" => jobs'[j].status # "absent"
                 /\ jobs[j].status \in Finished => jobs'[j].status \in Finished
                 /\ jobs[j].status \in Unfinished => jobs'[j].status \in Unfinished
      <4>1. IsEntities(ActiveDaily) /\ jobs \in [Keys -> Row] /\ k \in Keys
        BY ActiveDailyType DEF TypeOK
      <4> DEFINE rows == Ensure(jobs, k, ActiveDaily, b)
      <4>2. rows \in [Keys -> Row]
        BY <4>1, EnsureType
      <4>3. \/ rows[j] = jobs[j] \/ rows[j].status = "cancelled"
            \/ jobs[j].status = "absent" /\ rows[j] = Built(b)
        BY <4>1, EnsureRow
      <4>4. jobs'[j] = rows[j]
        BY <3>2, <4>2, <1>c
      <4> QED
        BY <4>3, <4>4 DEF Built, Absent, Finished, Unfinished, ActiveStatus
    <3> QED
      BY <1>1, <3>1, <3>2 DEF DispatchSucceeds
  <2>3. jobs'[h].status = "completed"
    <3>1. CASE jobs' = Completed(jobs, Worker)
      BY <3>1, <1>c DEF TypeOK
    <3>2. ASSUME NEW k \in DayKeys, NEW b \in DueTimes,
                 jobs' = Completed(Ensure(jobs, k, ActiveDaily, b), Worker)
          PROVE  jobs'[h].status = "completed"
      <4>1. IsEntities(ActiveDaily) /\ jobs \in [Keys -> Row] /\ k \in Keys
        BY ActiveDailyType DEF TypeOK
      <4> QED
        BY <3>2, <4>1, <1>c, EnsureType
    <3> QED
      BY <1>1, <3>1, <3>2 DEF DispatchSucceeds
  <2>4. h \in Dispatched => effects'[h] = 1
    BY <2>1, <1>z, <1>h DEF TypeOK
  <2>5. \A j \in Keys \ {h} : effects'[j] = effects[j]
    BY <2>1, <1>h DEF TypeOK
  <2> QED
    BY <1>s, <1>n, <2>1, <2>2, <2>3, <2>4, <2>5 DEF Finished
<1>2. CASE CallbackCommits(Worker)
  <2>1. h \notin Dispatched /\ effects' = [effects EXCEPT ![h] = @ + 1]
        /\ UNCHANGED <<jobs, batch, held>>
    BY <1>2, <1>h DEF CallbackCommits
  <2>2. \A j \in Keys : InHand(j)' <=> InHand(j)
    BY <2>1 DEF InHand
  <2>3. jobs'[h].status # "absent" /\ jobs'[h].status \in Unfinished
    BY <2>1, <1>h DEF LedgerInv, Unfinished, ActiveStatus
  <2>4. \A j \in Keys \ {h} : effects'[j] = effects[j]
    BY <2>1, <1>h DEF TypeOK
  <2> QED
    BY <1>s, <1>h, <2>1, <2>2, <2>3, <2>4
<1>3. CASE CallbackCompletes(Worker)
  <2>1. jobs' = Completed(jobs, Worker) /\ NextEntity(Worker, 1) /\ effects' = effects
    BY <1>3 DEF CallbackCompletes
  <2>2. h \notin Dispatched
    BY <1>3, <1>h DEF CallbackCompletes, LedgerInv
  <2> QED
    <3>1. \A j \in Keys \ {h} : jobs'[j] = jobs[j]
      BY <1>c, <2>1 DEF TypeOK
    <3>2. jobs'[h].status = "completed"
      BY <1>c, <2>1 DEF TypeOK
    <3> QED
      BY <1>s, <1>n, <2>1, <2>2, <3>1, <3>2
<1>4. CASE HandlerRetries(Worker)
  <2>1. h \notin Dispatched /\ NextEntity(Worker, 1) /\ effects' = effects
    BY <1>4, <1>h DEF HandlerRetries
  <2>2. \A j \in Keys \ {h} : jobs'[j] = jobs[j]
    BY <1>4, <1>h DEF HandlerRetries, TypeOK
  <2>3. jobs'[h].status = "scheduled"
    BY <1>4, <1>h DEF HandlerRetries, TypeOK, Retried, Built, Absent
  <2> QED
    BY <1>s, <1>n, <2>1, <2>2, <2>3
<1>5. CASE HandlerFails(Worker)
  <2>1. NextEntity(Worker, 0) \/ Leave(Worker)
    BY <1>5 DEF HandlerFails
  <2>2. \A j \in Keys \ {h} : /\ effects'[j] = effects[j]
                              /\ jobs[j].status # "absent" => jobs'[j].status # "absent"
                              /\ jobs[j].status \in Finished => jobs'[j].status \in Finished
                              /\ jobs[j].status \in Unfinished => jobs'[j].status \in Unfinished
    <3>1. \A j \in Keys \ {h} : effects'[j] = effects[j]
      BY <1>5, <1>h DEF HandlerFails, PartialWork, TypeOK
    <3>2. \A j \in Keys \ {h} : \/ jobs'[j] = jobs[j]
                                \/ jobs[j].status \in ActiveStatus /\ jobs'[j].status = "cancelled"
                                \/ jobs[j].status = "absent"
      BY <1>5, <1>h, FailedRows
    <3> QED
      BY <3>1, <3>2 DEF Finished, Unfinished, ActiveStatus
  <2>3. jobs'[h].status = "failed"
    BY <1>5, <1>h, FailedStatus
  <2>4. h \in Dispatched => effects'[h] \in {0, 1}
    BY <1>5, <1>z, <1>h DEF HandlerFails, PartialWork, TypeOK
  <2>5. /\ \A j \in Keys : InHand(j)' => InHand(j)
        /\ ~InHand(h)' /\ pc'[Worker] # "committed"
    BY <1>n, <2>1
  <2>6. jobs'[h].status # "absent" /\ jobs'[h].status \in Finished
    BY <2>3 DEF Finished
  <2>7. h \in Dispatched => \/ effects'[h] = 0
                            \/ /\ effects'[h] = 1 /\ jobs'[h].status \in Finished
                               /\ ~InHand(h)'
    BY <2>4, <2>5, <2>6
  <2>8. InHand(h)' => jobs'[h].status \in Unfinished
    BY <2>5
  <2>9. pc'[Worker] = "committed" => held'[Worker] \notin Dispatched
    BY <2>5
  <2> QED
    BY <1>s, <2>2, <2>5, <2>6, <2>7, <2>8, <2>9
<1> QED
  BY <1>1, <1>2, <1>3, <1>4, <1>5 DEF Handler

\* Every step keeps the ledger, by the runner's, the requests' and the environment's steps.
LEMMA LedgerNext == SingleRunner /\ TypeOK /\ LedgerInv /\ [Next]_vars => LedgerInv'
<1> SUFFICES ASSUME SingleRunner, TypeOK, LedgerInv, [Next]_vars PROVE LedgerInv'
  OBVIOUS
<1>1. CASE Crash(Worker)
  BY <1>1, NoEntitiesType, KeysAssumption
     DEF SingleRunner, Crash, Leave, LedgerInv, InHand, TypeOK, requestVars
<1>2. CASE UNCHANGED vars
  BY <1>2 DEF LedgerInv, InHand, vars, runnerVars, requestVars
<1> QED
  BY <1>1, <1>2, LedgerEnvironment, LedgerLoop, LedgerHandler DEF Next, SingleRunner

\* The strengthened invariant holds of every behaviour with one worker.
LEMMA LedgerInvariant == ASSUME SingleRunner PROVE Spec => [](TypeOK /\ LedgerInv)
<1>1. Init => TypeOK /\ LedgerInv
  BY LedgerInit, InitType
<1>2. TypeOK /\ LedgerInv /\ [Next]_vars => (TypeOK /\ LedgerInv)'
  BY LedgerNext, NextType
<1> QED
  BY <1>1, <1>2, PTL DEF Spec

-----------------------------------------------------------------------------
(* The refinement. *)

\* A step that does no work and makes at most the row of one key known.
LEMMA AcceptOrStutter ==
    ASSUME NEW k \in Keys,
           \A j \in Dispatched : effects'[j] = effects[j],
           \A j \in Keys : jobs[j].status # "absent" => jobs'[j].status # "absent",
           \A j \in Keys \ {k} : jobs'[j].status # "absent" => jobs[j].status # "absent"
    PROVE  [Ledger!Next]_(Ledger!vars)
<1> DEFINE known == {j \in Dispatched : jobs[j].status # "absent"}
<1>1. [j \in Dispatched |-> effects[j]]' = [j \in Dispatched |-> effects[j]]
  OBVIOUS
<1>2. CASE k \in Dispatched /\ k \notin known /\ k \in known'
  <2>1. known' = known \cup {k}
    BY <1>2, KeysAssumption
  <2>2. Ledger!Accept(k)
    BY <1>1, <1>2, <2>1 DEF Ledger!Accept
  <2> QED
    BY <1>2, <2>2 DEF Ledger!Next
<1>3. CASE ~(k \in Dispatched /\ k \notin known /\ k \in known')
  <2>1. known' = known
    BY <1>3, KeysAssumption
  <2> QED
    BY <1>1, <2>1 DEF Ledger!vars
<1> QED
  BY <1>2, <1>3

\* A step that does the work of one known key for the first time.
LEMMA Performs ==
    ASSUME NEW k \in Dispatched, TypeOK,
           effects[k] = 0, jobs[k].status # "absent",
           effects' = [effects EXCEPT ![k] = @ + 1],
           \A j \in Keys : jobs[j].status # "absent" => jobs'[j].status # "absent"
    PROVE  Ledger!Next
<1> DEFINE known == {j \in Dispatched : jobs[j].status # "absent"}
           runs == [j \in Dispatched |-> effects[j]]
<1>1. k \in known /\ runs[k] = 0
  OBVIOUS
<1>2. runs' = [runs EXCEPT ![k] = 1]
  <2>1. effects'[k] = 1 /\ \A j \in Dispatched \ {k} : effects'[j] = effects[j]
    BY KeysAssumption DEF TypeOK
  <2> QED
    BY <2>1
<1>3. known' \ known \in SUBSET (Dispatched \ known) /\ known' = known \cup (known' \ known)
  BY KeysAssumption
<1>4. Ledger!Perform(k)
  BY <1>1, <1>2, <1>3 DEF Ledger!Perform
<1> QED
  BY <1>4 DEF Ledger!Next

\* Environment steps leave a row alone, cancel one that exists, or create
\* the row of one key k.
LEMMA EnvironmentRows ==
    ASSUME TypeOK, LedgerInv, Environment
    PROVE  /\ effects' = effects
           /\ \E k \in Keys : \A j \in Keys :
                 \/ jobs'[j].status = jobs[j].status
                 \/ jobs'[j].status = "cancelled" /\ jobs[j].status # "absent"
                 \/ j = k /\ jobs[j].status = "absent"
<1>e. effects' = effects
  BY DEF Environment, Submit, EnsureRead, EnsureCommit, BecomeDue, LeaseLapses
<1>0. jobs \in [Keys -> Row]
  BY DEF TypeOK
<1> DEFINE Shape(k) == \A j \in Keys :
              \/ jobs'[j].status = jobs[j].status
              \/ jobs'[j].status = "cancelled" /\ jobs[j].status # "absent"
              \/ j = k /\ jobs[j].status = "absent"
<1>1. ASSUME NEW k \in Keys, NEW b \in DueTimes, Submit(k, b)
      PROVE  Shape(k)
  <2>1. jobs' = Create(jobs, k, b)
    BY <1>1 DEF Submit
  <2>2. \A j \in Keys : \/ jobs'[j] = jobs[j]
                        \/ j = k /\ jobs[j].status = "absent" /\ jobs'[j] = Built(b)
    BY <1>0, <2>1, CreateRow
  <2> QED
    BY <2>2
<1>2. ASSUME NEW q \in Requests, NEW b \in DueTimes, EnsureCommit(q, b)
      PROVE  reqKey[q] \in Keys /\ Shape(reqKey[q])
  <2>1. /\ jobs' = Ensure(jobs, reqKey[q], reqActive[q], b)
        /\ reqKey[q] \in Keys /\ IsEntities(reqActive[q])
    BY <1>2, KeysAssumption DEF EnsureCommit, TypeOK
  <2>2. \A j \in Keys : \/ jobs'[j] = jobs[j]
                        \/ j \in DOMAIN reqActive[q] /\ jobs'[j].status = "cancelled"
                        \/ j = reqKey[q] /\ jobs[j].status = "absent" /\ jobs'[j] = Built(b)
    BY <1>0, <2>1, EnsureRow
  <2>3. \A j \in DOMAIN reqActive[q] : jobs[j].status # "absent"
    BY DEF LedgerInv
  <2> QED
    BY <2>1, <2>2, <2>3
<1>3. ASSUME NEW k \in Keys, NEW q \in Requests, EnsureRead(q, k) PROVE Shape(k)
  BY <1>3 DEF EnsureRead
<1>4. ASSUME NEW k \in Keys, BecomeDue(k) \/ LeaseLapses(k) PROVE Shape(k)
  BY <1>4 DEF BecomeDue, LeaseLapses, TypeOK, Row
<1> HIDE DEF Shape
<1>5. \E k \in Keys : Shape(k)
  BY <1>1, <1>2, <1>3, <1>4, KeysAssumption DEF Environment
<1> QED
  BY <1>e, <1>5 DEF Shape

\* Handler steps: the row in hand exists; the others are as above; new rows
\* come only with the first execution of a dispatched job's work.
LEMMA HandlerRows ==
    ASSUME SingleRunner, TypeOK, LedgerInv, Handler(Worker)
    PROVE  LET h == held[Worker]
           IN  /\ h \in Keys /\ jobs[h].status \in Unfinished /\ jobs'[h].status # "absent"
               /\ h \in Dispatched => effects[h] = 0
               /\ \E k \in Keys : \A j \in Keys \ {h} :
                     \/ jobs'[j].status = jobs[j].status
                     \/ jobs'[j].status = "cancelled" /\ jobs[j].status # "absent"
                     \/ /\ jobs[j].status = "absent"
                        /\ j = k \/ (h \in Dispatched /\ effects' # effects)
               /\ effects' = effects \/ effects' = [effects EXCEPT ![h] = @ + 1]
<1> USE KeysAssumption DEF SingleRunner
<1> DEFINE h == held[Worker]
<1>1. h \in Keys /\ InHand(h)
  BY DEF Handler, DispatchSucceeds, CallbackCommits, CallbackCompletes,
         HandlerRetries, HandlerFails, TypeOK, InHand
<1>2. jobs[h].status \in Unfinished /\ (h \in Dispatched => effects[h] = 0)
  BY <1>1 DEF LedgerInv
<1>3. effects' = effects \/ effects' = [effects EXCEPT ![h] = @ + 1]
  BY DEF Handler, DispatchSucceeds, CallbackCommits, CallbackCompletes,
         HandlerRetries, HandlerFails, PartialWork
<1>c. ASSUME NEW rows \in [Keys -> Row]
      PROVE  /\ \A j \in Keys \ {h} : Completed(rows, Worker)[j] = rows[j]
             /\ Completed(rows, Worker)[h].status = "completed"
  BY <1>1 DEF Completed, Ended, Absent
<1>d. ASSUME NEW rows \in [Keys -> Row], jobs' = Completed(rows, Worker),
             DispatchSucceeds(Worker) \/ rows = jobs,
             \A j \in Keys : \/ rows[j] = jobs[j]
                             \/ rows[j].status = "cancelled" /\ jobs[j].status # "absent"
                             \/ jobs[j].status = "absent"
      PROVE  /\ jobs'[h].status # "absent"
             /\ \A j \in Keys \ {h} :
                     \/ jobs'[j].status = jobs[j].status
                     \/ jobs'[j].status = "cancelled" /\ jobs[j].status # "absent"
                     \/ jobs[j].status = "absent" /\ h \in Dispatched /\ effects' # effects
  <2>1. DispatchSucceeds(Worker) => h \in Dispatched /\ effects' # effects
    <3>1. ASSUME DispatchSucceeds(Worker) PROVE effects'[h] = effects[h] + 1 /\ h \in Dispatched
      BY <3>1, <1>1 DEF DispatchSucceeds, TypeOK
    <3> QED
      BY <3>1, <1>1 DEF TypeOK
  <2> QED
    BY <1>c, <1>d, <2>1
<1> DEFINE Goal == /\ jobs'[h].status # "absent"
                   /\ \E k \in Keys : \A j \in Keys \ {h} :
                        \/ jobs'[j].status = jobs[j].status
                        \/ jobs'[j].status = "cancelled" /\ jobs[j].status # "absent"
                        \/ /\ jobs[j].status = "absent"
                           /\ j = k \/ (h \in Dispatched /\ effects' # effects)
<1>4. ASSUME DispatchSucceeds(Worker) PROVE Goal
  <2>1. ASSUME jobs' = Completed(jobs, Worker) PROVE Goal
    <3>1. /\ jobs'[h].status # "absent"
          /\ \A j \in Keys \ {h} : jobs'[j] = jobs[j]
      BY <1>c, <2>1 DEF TypeOK
    <3> QED
      BY <1>1, <3>1
  <2>2. ASSUME NEW k \in DayKeys, NEW b \in DueTimes,
               jobs' = Completed(Ensure(jobs, k, ActiveDaily, b), Worker)
        PROVE  Goal
    <3>1. IsEntities(ActiveDaily) /\ jobs \in [Keys -> Row] /\ k \in Keys
      BY ActiveDailyType DEF TypeOK
    <3> DEFINE rows == Ensure(jobs, k, ActiveDaily, b)
    <3>2. rows \in [Keys -> Row]
      BY <3>1, EnsureType
    <3>3. \A j \in Keys : \/ rows[j] = jobs[j]
                          \/ j \in DOMAIN ActiveDaily /\ rows[j].status = "cancelled"
                          \/ jobs[j].status = "absent"
      BY <3>1, EnsureRow
    <3>4. \A j \in DOMAIN ActiveDaily : jobs[j].status # "absent"
      BY DEF ActiveDaily, ActiveStatus
    <3> HIDE DEF rows
    <3>5. jobs' = Completed(rows, Worker)
      BY <2>2 DEF rows
    <3> QED
      BY <1>4, <1>d, <3>2, <3>3, <3>4, <3>5
  <2> QED
    BY <1>4, <2>1, <2>2 DEF DispatchSucceeds
<1>5. ASSUME CallbackCommits(Worker) PROVE Goal
  <2>1. jobs' = jobs /\ jobs[h].status # "absent"
    BY <1>2, <1>5 DEF CallbackCommits, Unfinished, ActiveStatus
  <2> QED
    BY <1>1, <2>1
<1>6. ASSUME CallbackCompletes(Worker) PROVE Goal
  BY <1>6, <1>d DEF CallbackCompletes, TypeOK
<1>7. ASSUME HandlerRetries(Worker) PROVE Goal
  BY <1>7, <1>1 DEF HandlerRetries, Retried, Built, Absent, TypeOK
<1>8. ASSUME HandlerFails(Worker) PROVE Goal
  <2>1. jobs'[h].status = "failed"
    BY <1>8, FailedStatus
  <2>2. PICK k \in Keys : \A j \in Keys \ {h} :
            \/ jobs'[j] = jobs[j]
            \/ jobs[j].status \in ActiveStatus /\ jobs'[j].status = "cancelled"
            \/ jobs[j].status = "absent" /\ j = k
    BY <1>8, FailedRows DEF SingleRunner
  <2> QED
    BY <2>1, <2>2 DEF ActiveStatus
<1>9. Goal
  BY <1>4, <1>5, <1>6, <1>7, <1>8 DEF Handler
<1> QED
  BY <1>1, <1>2, <1>3, <1>9

\* Every step does the work of one key, makes one key known, or neither.
LEMMA LedgerStep ==
    ASSUME SingleRunner, TypeOK, LedgerInv, [Next]_vars
    PROVE  [Ledger!Next]_(Ledger!vars)
<1> USE KeysAssumption
<1>1. CASE Environment
  <2>1. PICK k \in Keys : \A j \in Keys :
                 \/ jobs'[j].status = jobs[j].status
                 \/ jobs'[j].status = "cancelled" /\ jobs[j].status # "absent"
                 \/ j = k /\ jobs[j].status = "absent"
    BY <1>1, EnvironmentRows
  <2> QED
    BY <1>1, <2>1, EnvironmentRows, AcceptOrStutter
<1>2. CASE Loop(Worker)
  <2>1. \A j \in Keys : \/ jobs'[j] = jobs[j]
                        \/ j \in DOMAIN batch[Worker] /\ jobs'[j].status = "claimed"
    BY <1>2, LoopRows DEF SingleRunner
  <2>2. \A j \in Keys : jobs'[j].status # "absent" <=> jobs[j].status # "absent"
    BY <2>1 DEF LedgerInv, InHand, Unfinished, ActiveStatus
  <2>3. effects' = effects
    BY <1>2, LoopRows DEF SingleRunner
  <2>4. {j \in Dispatched : jobs[j].status # "absent"}' = {j \in Dispatched : jobs[j].status # "absent"}
    BY <2>2
  <2> QED
    BY <2>3, <2>4 DEF Ledger!vars
<1>3. CASE Handler(Worker)
  <2>1. PICK h \in Keys : h = held[Worker]
    BY <1>3, HandlerRows
  <2>2. CASE effects' = effects \/ h \notin Dispatched
    <3>1. \A j \in Dispatched : effects'[j] = effects[j]
      BY <1>3, <2>1, <2>2, HandlerRows DEF TypeOK
    <3>2. PICK k \in Keys : \A j \in Keys \ {h} :
              \/ jobs'[j].status = jobs[j].status
              \/ jobs'[j].status = "cancelled" /\ jobs[j].status # "absent"
              \/ jobs[j].status = "absent" /\ j = k
      BY <1>3, <2>1, <2>2, HandlerRows
    <3>3. jobs[h].status # "absent" /\ jobs'[h].status # "absent"
      BY <1>3, <2>1, HandlerRows DEF Unfinished, ActiveStatus
    <3>4. \A j \in Keys : /\ jobs[j].status # "absent" => jobs'[j].status # "absent"
                          /\ j # k /\ jobs'[j].status # "absent" => jobs[j].status # "absent"
      BY <3>2, <3>3
    <3> QED
      BY <3>1, <3>4, AcceptOrStutter
  <2>3. CASE effects' # effects /\ h \in Dispatched
    <3>1. /\ effects[h] = 0 /\ jobs[h].status # "absent"
          /\ effects' = [effects EXCEPT ![h] = @ + 1]
          /\ \A j \in Keys : jobs[j].status # "absent" => jobs'[j].status # "absent"
      BY <1>3, <2>1, <2>3, HandlerRows DEF Unfinished, ActiveStatus
    <3> QED
      BY <2>3, <3>1, Performs
  <2> QED
    BY <2>2, <2>3
<1>4. CASE Crash(Worker) \/ UNCHANGED vars
  BY <1>4 DEF Crash, vars, Ledger!vars
<1> QED
  BY <1>1, <1>2, <1>3, <1>4 DEF Next, SingleRunner

\* With one worker, whatever crashes, lapsed leases and stale reads occur, the
\* queue implements WorkLedger: run_due_autonomy_jobs commits the work of a
\* dispatched job at most once, and only of a job that was submitted.
THEOREM DispatchedWorkAtMostOnce == ASSUME SingleRunner PROVE Spec => AtMostOnce
<1>1. Init => Ledger!Init
  BY KeysAssumption DEF Init, Absent, Ledger!Init
<1>2. TypeOK /\ LedgerInv /\ [Next]_vars => [Ledger!Next]_(Ledger!vars)
  BY LedgerStep
<1> QED
  BY <1>1, <1>2, LedgerInvariant, PTL DEF Spec, AtMostOnce, Ledger!Spec

\* With one worker, a job that completed or failed is never waiting or claimed
\* again.
THEOREM FinishedNeverRerun == ASSUME SingleRunner PROVE Spec => NoRerunOfFinished
<1> DEFINE Step == \A k \in Keys : jobs[k].status \in {"completed", "failed"} =>
                      jobs'[k].status \notin ActiveStatus
<1>1. TypeOK /\ LedgerInv /\ [Next]_vars => [Step]_vars
  <2> SUFFICES ASSUME TypeOK, LedgerInv, [Next]_vars, NEW k \in Keys,
                      jobs[k].status \in {"completed", "failed"}
               PROVE  jobs'[k].status \notin ActiveStatus
    OBVIOUS
  <2>1. ~InHand(k)
    BY DEF LedgerInv, Unfinished, ActiveStatus
  <2>2. CASE Environment
    BY <2>2, EnvironmentRows DEF ActiveStatus
  <2>3. CASE Loop(Worker)
    BY <2>1, <2>3, LoopRows DEF SingleRunner, InHand, ActiveStatus
  <2>4. CASE Handler(Worker)
    BY <2>1, <2>4, HandlerRows DEF InHand, ActiveStatus
  <2>5. CASE Crash(Worker) \/ UNCHANGED vars
    BY <2>5 DEF Crash, vars, ActiveStatus
  <2> QED
    BY <2>2, <2>3, <2>4, <2>5 DEF Next, SingleRunner
<1> HIDE DEF Step
<1>2. SingleRunner => (Spec => [][Step]_vars)
  BY <1>1, LedgerInvariant, PTL DEF Spec
<1> QED
  BY <1>2 DEF Step, NoRerunOfFinished

-----------------------------------------------------------------------------
(* Finished rows change only under entities that were read before. *)

\* What a handler may do to the rows it does not hold: its job may ensure the
\* daily job, which cancels active rows and creates one.
LEMMA HandlerOtherRows ==
    ASSUME TypeOK, NEW r \in Runners, Handler(r), NEW j \in Keys, j # held[r]
    PROVE  \/ jobs'[j] = jobs[j]
           \/ jobs[j].status \in ActiveStatus /\ jobs'[j].status = "cancelled"
           \/ \E b \in DueTimes : jobs[j].status = "absent" /\ jobs'[j] = Built(b)
<1> USE KeysAssumption
<1>c. ASSUME NEW rows \in [Keys -> Row] PROVE Completed(rows, r)[j] = rows[j]
  BY DEF Completed
<1>1. CASE DispatchSucceeds(r)
  <2>1. CASE jobs' = Completed(jobs, r)
    BY <2>1, <1>c DEF TypeOK
  <2>2. ASSUME NEW k \in DayKeys, NEW b \in DueTimes,
               jobs' = Completed(Ensure(jobs, k, ActiveDaily, b), r)
        PROVE  \/ jobs'[j] = jobs[j]
               \/ jobs[j].status \in ActiveStatus /\ jobs'[j].status = "cancelled"
               \/ jobs[j].status = "absent" /\ jobs'[j] = Built(b)
    <3>1. IsEntities(ActiveDaily) /\ jobs \in [Keys -> Row] /\ k \in Keys
      BY ActiveDailyType DEF TypeOK
    <3> DEFINE rows == Ensure(jobs, k, ActiveDaily, b)
    <3>2. rows \in [Keys -> Row]
      BY <3>1, EnsureType
    <3>3. \/ rows[j] = jobs[j]
          \/ j \in DOMAIN ActiveDaily /\ rows[j].status = "cancelled"
          \/ j = k /\ jobs[k].status = "absent" /\ rows[j] = Built(b)
      BY <3>1, EnsureRow
    <3>4. \A i \in DOMAIN ActiveDaily : jobs[i].status \in ActiveStatus
      BY DEF ActiveDaily
    <3> HIDE DEF rows
    <3>5. jobs'[j] = rows[j]
      BY <2>2, <1>c, <3>2 DEF rows
    <3> QED
      BY <3>3, <3>4, <3>5
  <2> QED
    BY <1>1, <2>1, <2>2 DEF DispatchSucceeds
<1>2. CASE CallbackCommits(r)
  BY <1>2 DEF CallbackCommits
<1>3. CASE CallbackCompletes(r)
  BY <1>3, <1>c DEF CallbackCompletes, TypeOK
<1>4. CASE HandlerRetries(r)
  BY <1>4 DEF HandlerRetries, TypeOK
<1>5. CASE HandlerFails(r)
  BY <1>5, FailedRows
<1> QED
  BY <1>1, <1>2, <1>3, <1>4, <1>5 DEF Handler

\* What requests and the passage of time may do to a row.
LEMMA EnvironmentRow ==
    ASSUME TypeOK, Environment, NEW j \in Keys
    PROVE  \/ jobs'[j] = jobs[j]
           \/ /\ jobs[j].status \in ActiveStatus /\ jobs'[j].status = jobs[j].status
              /\ jobs'[j].attempts = jobs[j].attempts
           \/ jobs'[j].status = "cancelled" /\ \E q \in Requests : j \in DOMAIN reqActive[q]
           \/ \E b \in DueTimes : jobs[j].status = "absent" /\ jobs'[j] = Built(b)
<1> USE KeysAssumption
<1>0. jobs \in [Keys -> Row]
  BY DEF TypeOK
<1>1. ASSUME NEW k \in Keys, NEW b \in DueTimes, Submit(k, b)
      PROVE  jobs'[j] = jobs[j] \/ (jobs[j].status = "absent" /\ jobs'[j] = Built(b))
  BY <1>0, <1>1, CreateRow DEF Submit
<1>2. ASSUME NEW q \in Requests, NEW b \in DueTimes, EnsureCommit(q, b)
      PROVE  \/ jobs'[j] = jobs[j]
             \/ jobs'[j].status = "cancelled" /\ j \in DOMAIN reqActive[q]
             \/ jobs[j].status = "absent" /\ jobs'[j] = Built(b)
  <2>1. /\ jobs' = Ensure(jobs, reqKey[q], reqActive[q], b)
        /\ reqKey[q] \in Keys /\ IsEntities(reqActive[q])
    BY <1>2 DEF EnsureCommit, TypeOK
  <2> QED
    BY <1>0, <2>1, EnsureRow
<1>3. ASSUME NEW q \in Requests, NEW k \in DayKeys, EnsureRead(q, k) PROVE jobs'[j] = jobs[j]
  BY <1>3 DEF EnsureRead
<1>4. ASSUME NEW k \in Keys, BecomeDue(k) \/ LeaseLapses(k)
      PROVE  \/ jobs'[j] = jobs[j]
             \/ /\ jobs[j].status \in ActiveStatus /\ jobs'[j].status = jobs[j].status
                /\ jobs'[j].attempts = jobs[j].attempts
  BY <1>0, <1>4 DEF BecomeDue, LeaseLapses, Row, ActiveStatus
<1> QED
  BY <1>1, <1>2, <1>3, <1>4 DEF Environment

\* With any number of runners and requests, a finished row changes only under
\* one that has it in hand, listed it or read it as active before.
THEOREM StaleReadsAlone == Spec => FinishedChangesOnlyFromStaleReads
<1> DEFINE Step == \A k \in Keys : (jobs[k].status \in Finished /\ jobs'[k] # jobs[k]) =>
                      \/ \E r \in Runners : held[r] = k \/ k \in DOMAIN batch[r]
                      \/ \E q \in Requests : k \in DOMAIN reqActive[q]
<1>1. TypeOK /\ [Next]_vars => [Step]_vars
  <2> SUFFICES ASSUME TypeOK, Next, NEW k \in Keys,
                      jobs[k].status \in Finished, jobs'[k] # jobs[k]
               PROVE  \/ \E r \in Runners : held[r] = k \/ k \in DOMAIN batch[r]
                      \/ \E q \in Requests : k \in DOMAIN reqActive[q]
    OBVIOUS
  <2>1. jobs[k].status \notin ActiveStatus /\ jobs[k].status # "absent"
    BY DEF Finished, ActiveStatus
  <2>2. CASE Environment
    BY <2>1, <2>2, EnvironmentRow
  <2>3. ASSUME NEW r \in Runners, Loop(r) PROVE k \in DOMAIN batch[r]
    BY <2>3, LoopRows
  <2>4. ASSUME NEW r \in Runners, Handler(r) PROVE held[r] = k
    BY <2>1, <2>4, HandlerOtherRows
  <2>5. ASSUME NEW r \in Runners, Crash(r) PROVE FALSE
    BY <2>5 DEF Crash
  <2> QED
    BY <2>2, <2>3, <2>4, <2>5 DEF Next
<1> HIDE DEF Step
<1>2. Spec => [][Step]_vars
  BY <1>1, TypeCorrect, PTL DEF Spec
<1> QED
  BY <1>2 DEF Step, FinishedChangesOnlyFromStaleReads

-----------------------------------------------------------------------------
(* Work that is repeated costs a fault. *)

\* How often a job's work may be committed without a fault.
Cap(k) == IF k \in Replay THEN MaxAttempts ELSE 1
Capped(k, n) == IF n < Cap(k) THEN n ELSE Cap(k)

\* ReworkCostsAFault is not inductive: an attempt that is still to come may
\* commit the work once more, unless the attempts before it, or the fault that
\* took the job from its last holder, leave room for it.
Cost(k) ==
    /\ effects[k] <= faults + Cap(k)
    /\ jobs[k].status = "absent" => effects[k] <= faults
    /\ jobs[k].status = "scheduled" => effects[k] <= faults + jobs[k].attempts
    /\ (jobs[k].status = "claimed" /\ held[Worker] # k) =>
          effects[k] + 1 <= faults + Capped(k, jobs[k].attempts)
    /\ k \in DOMAIN batch[Worker] =>
          effects[k] + 1 <= faults + Capped(k, batch[Worker][k] + 1)
    /\ held[Worker] = k =>
          /\ \/ jobs[k].status = "cancelled"
             \/ jobs[k].status = "claimed" /\ jobs[k].attempts = tries[Worker]
          /\ pc[Worker] = "running" => effects[k] + 1 <= faults + Capped(k, tries[Worker])
          /\ pc[Worker] = "committed" => effects[k] <= faults + Capped(k, tries[Worker])

CostInv == \A k \in Keys : Cost(k)

\* A count that is cut off at its cap grows with the count and never passes the cap.
LEMMA CappedBounds ==
    ASSUME NEW k, NEW n \in Nat
    PROVE  /\ Cap(k) \in Nat /\ Cap(k) >= 1 /\ Capped(k, n) \in Nat
           /\ Capped(k, n) <= Cap(k) /\ Capped(k, n) <= Capped(k, n + 1)
           /\ n < Cap(k) => Capped(k, n) = n /\ Capped(k, n + 1) = n + 1
<1>1. Cap(k) \in Nat /\ Cap(k) >= 1
  BY BoundsAssumption DEF Cap
<1> QED
  BY <1>1 DEF Capped

\* The numbers in Cost.
LEMMA CostTypes ==
    ASSUME SingleRunner, TypeOK, NEW k \in Keys
    PROVE  /\ effects[k] \in Nat /\ faults \in Nat /\ jobs[k].attempts \in Nat
           /\ tries[Worker] \in Nat
           /\ k \in DOMAIN batch[Worker] => batch[Worker][k] \in Nat
BY DEF SingleRunner, TypeOK, Row, IsEntities

\* The bound on effects holds at the start.
LEMMA CostInit == SingleRunner /\ Init => CostInv
<1> SUFFICES ASSUME SingleRunner, Init, NEW k \in Keys PROVE Cost(k)
  BY DEF CostInv
<1>1. /\ effects[k] = 0 /\ faults = 0 /\ jobs[k].status = "absent"
      /\ held[Worker] = NoKey /\ batch[Worker] = NoEntities
  BY DEF SingleRunner, Init, Absent
<1>2. k # NoKey /\ k \notin DOMAIN batch[Worker]
  BY <1>1, NoEntitiesType, KeysAssumption
<1>3. Cap(k) \in Nat
  BY CappedBounds
<1> QED
  BY <1>1, <1>2, <1>3 DEF Cost

\* A row that stays as it is, or that others cancel or create, costs nothing.
LEMMA DriftKeepsCost ==
    ASSUME SingleRunner, TypeOK, TypeOK', NEW k \in Keys, Cost(k),
           \/ jobs'[k].status = jobs[k].status /\ jobs'[k].attempts = jobs[k].attempts
           \/ jobs'[k].status = "cancelled"
           \/ /\ jobs[k].status = "absent" /\ jobs'[k].status = "scheduled"
              /\ jobs'[k].attempts = 0,
           effects'[k] = effects[k], faults' = faults \/ faults' = faults + 1,
           held'[Worker] = k <=> held[Worker] = k,
           held[Worker] = k => tries'[Worker] = tries[Worker] /\ pc'[Worker] = pc[Worker],
           k \in DOMAIN batch'[Worker] =>
               k \in DOMAIN batch[Worker] /\ batch'[Worker][k] = batch[Worker][k]
    PROVE  Cost(k)'
<1> DEFINE e == effects[k]
           a == jobs[k].attempts
           t == tries[Worker]
           b == batch[Worker][k]
<1>1. /\ e \in Nat /\ faults \in Nat /\ faults' \in Nat /\ a \in Nat /\ t \in Nat
      /\ k \in DOMAIN batch[Worker] => b \in Nat
      /\ faults' >= faults
  BY CostTypes
<1>2. /\ Cap(k) \in Nat /\ Capped(k, a) \in Nat /\ Capped(k, t) \in Nat
      /\ k \in DOMAIN batch[Worker] => Capped(k, b + 1) \in Nat
  <2>1. k \in DOMAIN batch[Worker] => b + 1 \in Nat
    BY <1>1
  <2> QED
    BY <1>1, <2>1, CappedBounds
<1>3. effects'[k] <= faults' + Cap(k)
  BY <1>1, <1>2 DEF Cost
<1>4. jobs'[k].status = "absent" => effects'[k] <= faults'
  BY <1>1 DEF Cost
<1>5. jobs'[k].status = "scheduled" => effects'[k] <= faults' + jobs'[k].attempts
  BY <1>1 DEF Cost
<1>6. (jobs'[k].status = "claimed" /\ held'[Worker] # k) =>
          effects'[k] + 1 <= faults' + Capped(k, jobs'[k].attempts)
  BY <1>1, <1>2 DEF Cost
<1>7. k \in DOMAIN batch'[Worker] =>
          effects'[k] + 1 <= faults' + Capped(k, batch'[Worker][k] + 1)
  BY <1>1, <1>2 DEF Cost
<1>8. held'[Worker] = k =>
          /\ \/ jobs'[k].status = "cancelled"
             \/ jobs'[k].status = "claimed" /\ jobs'[k].attempts = tries'[Worker]
          /\ pc'[Worker] = "running" => effects'[k] + 1 <= faults' + Capped(k, tries'[Worker])
          /\ pc'[Worker] = "committed" => effects'[k] <= faults' + Capped(k, tries'[Worker])
  BY <1>1, <1>2 DEF Cost
<1> QED
  BY <1>3, <1>4, <1>5, <1>6, <1>7, <1>8 DEF Cost, Cap, Capped

\* Submissions, requests that ensure the daily job, time and a lease that lapses
\* keep the bound.
LEMMA CostEnvironment ==
    ASSUME SingleRunner, TypeOK, TypeOK', CostInv, Environment PROVE CostInv'
<1> SUFFICES ASSUME NEW k \in Keys PROVE Cost(k)'
  BY DEF CostInv
<1>1. UNCHANGED <<pc, batch, held, tries, effects>>
  BY DEF Environment, Submit, EnsureRead, EnsureCommit, BecomeDue, LeaseLapses, runnerVars
<1>2. faults' = faults \/ faults' = faults + 1
  BY DEF Environment, Submit, EnsureRead, EnsureCommit, BecomeDue, LeaseLapses
<1>3. \/ jobs'[k].status = jobs[k].status /\ jobs'[k].attempts = jobs[k].attempts
      \/ jobs'[k].status = "cancelled"
      \/ /\ jobs[k].status = "absent" /\ jobs'[k].status = "scheduled"
         /\ jobs'[k].attempts = 0
  BY EnvironmentRow DEF Built, Absent
<1>4. Cost(k)
  BY DEF CostInv
<1> QED
  BY <1>1, <1>2, <1>3, <1>4, DriftKeepsCost

\* What a list of due rows may still cost: those that wait have an attempt
\* left, those whose holder is gone had a fault.
LEMMA CostListDue ==
    ASSUME SingleRunner, TypeOK, TypeOK', WaitingHasBudget, CostInv,
           NEW listed \in SUBSET Keys, ListDue(Worker, listed), NEW k \in Keys
    PROVE  Cost(k)'
<1>0. Worker \in Runners /\ Cost(k)
  BY DEF SingleRunner, CostInv
<1>1. /\ UNCHANGED <<jobs, pc, held, tries, effects, faults>>
      /\ batch'[Worker] = [j \in listed |-> jobs[j].attempts]
      /\ held[Worker] # k
  BY <1>0, KeysAssumption DEF ListDue, TypeOK
<1>2. CASE k \notin listed
  BY <1>0, <1>1, <1>2, DriftKeepsCost
<1>3. CASE k \in listed
  <2> DEFINE e == effects[k]
             a == jobs[k].attempts
  <2>1. e \in Nat /\ faults \in Nat /\ a \in Nat
    BY CostTypes
  <2>2. /\ Capped(k, a) \in Nat /\ Capped(k, a + 1) \in Nat /\ Capped(k, a) <= Capped(k, a + 1)
        /\ a < Cap(k) => Capped(k, a + 1) = a + 1
    BY <2>1, CappedBounds
  <2>3. jobs[k].status \in {"scheduled", "claimed"}
    BY <1>3 DEF ListDue, Due
  <2>4. e + 1 <= faults + Capped(k, a + 1)
    <3>1. CASE jobs[k].status = "scheduled"
      <4>1. a < Cap(k)
        BY <2>1, <3>1 DEF WaitingHasBudget, Cap
      <4>2. e <= faults + a
        BY <1>0, <3>1 DEF Cost
      <4> QED
        BY <2>1, <2>2, <4>1, <4>2
    <3>2. CASE jobs[k].status = "claimed"
      <4>1. e + 1 <= faults + Capped(k, a)
        BY <1>0, <1>1, <3>2 DEF Cost
      <4> QED
        BY <2>1, <2>2, <4>1
    <3> QED
      BY <2>3, <3>1, <3>2
  <2>5. batch'[Worker][k] = a
    BY <1>1, <1>3
  <2> QED
    BY <1>0, <1>1, <2>4, <2>5 DEF Cost, Cap, Capped
<1> QED
  BY <1>2, <1>3

\* A claim keeps the bound: the attempt it begins is the one its batch entry
\* left room for.
LEMMA CostClaim ==
    ASSUME SingleRunner, TypeOK, TypeOK', CostInv,
           NEW j \in Keys, Claim(Worker, j), NEW k \in Keys
    PROVE  Cost(k)'
<1>0. Worker \in Runners /\ Cost(k)
  BY DEF SingleRunner, CostInv
<1>1. /\ j \in DOMAIN batch[Worker] /\ UNCHANGED <<effects, faults>>
      /\ held'[Worker] = j /\ pc'[Worker] = "running" /\ held[Worker] = NoKey
      /\ tries'[Worker] = batch[Worker][j] + 1
      /\ batch'[Worker] = [i \in DOMAIN batch[Worker] \ {j} |-> batch[Worker][i]]
      /\ jobs' = [jobs EXCEPT ![j] = Claimed(batch[Worker][j] + 1, Worker)]
  BY <1>0 DEF Claim, TypeOK
<1>2. k # NoKey
  BY KeysAssumption
<1>3. CASE k # j
  <2>1. jobs'[k] = jobs[k]
    BY <1>1, <1>3 DEF TypeOK
  <2>2. k \in DOMAIN batch'[Worker] =>
            k \in DOMAIN batch[Worker] /\ batch'[Worker][k] = batch[Worker][k]
    BY <1>1
  <2> QED
    BY <1>0, <1>1, <1>2, <1>3, <2>1, <2>2, DriftKeepsCost
<1>4. CASE k = j
  <2> DEFINE b == batch[Worker][k]
  <2>1. /\ jobs'[k].status = "claimed" /\ jobs'[k].attempts = b + 1
        /\ tries'[Worker] = b + 1 /\ k \notin DOMAIN batch'[Worker]
    BY <1>1, <1>4 DEF TypeOK, Claimed, Absent
  <2>2. effects'[k] + 1 <= faults' + Capped(k, b + 1) /\ effects'[k] <= faults' + Cap(k)
    BY <1>0, <1>1, <1>4 DEF Cost
  <2> HIDE DEF b
  <2> QED
    BY <1>1, <1>4, <2>1, <2>2 DEF Cost, Cap, Capped
<1> QED
  BY <1>3, <1>4

\* Each step of the single runner keeps the bound: an effect is paid for by the
\* attempt it ran in.
LEMMA CostLoop ==
    ASSUME SingleRunner, TypeOK, TypeOK', WaitingHasBudget, CostInv, Loop(Worker)
    PROVE  CostInv'
<1> SUFFICES ASSUME NEW k \in Keys PROVE Cost(k)'
  BY DEF CostInv
<1>0. Worker \in Runners /\ Cost(k) /\ k # NoKey
  BY KeysAssumption DEF SingleRunner, CostInv
<1>1. CASE StartRun(Worker)
  <2>1. UNCHANGED <<jobs, batch, held, tries, effects, faults>> /\ held[Worker] = NoKey
    BY <1>0, <1>1 DEF StartRun, TypeOK
  <2> QED
    BY <1>0, <2>1, DriftKeepsCost
<1>2. CASE EndRun(Worker)
  <2>1. /\ UNCHANGED <<jobs, effects, faults>> /\ held[Worker] = NoKey
        /\ held'[Worker] = NoKey /\ batch'[Worker] = NoEntities
    BY <1>0, <1>2 DEF EndRun, Leave, TypeOK
  <2> QED
    BY <1>0, <2>1, NoEntitiesType, DriftKeepsCost
<1> QED
  BY <1>1, <1>2, CostListDue, CostClaim DEF Loop

\* The rows a handler does not hold.
LEMMA CostOthers ==
    ASSUME SingleRunner, TypeOK, TypeOK', CostInv, Handler(Worker), NEW k \in Keys,
           k # held[Worker]
    PROVE  Cost(k)'
<1>0. Worker \in Runners /\ Cost(k) /\ k # NoKey
  BY KeysAssumption DEF SingleRunner, CostInv
<1>1. \/ jobs'[k].status = jobs[k].status /\ jobs'[k].attempts = jobs[k].attempts
      \/ jobs'[k].status = "cancelled"
      \/ /\ jobs[k].status = "absent" /\ jobs'[k].status = "scheduled"
         /\ jobs'[k].attempts = 0
  BY <1>0, HandlerOtherRows DEF Built, Absent
<1>2. effects'[k] = effects[k] /\ faults' = faults
  BY DEF Handler, DispatchSucceeds, CallbackCommits, CallbackCompletes, HandlerRetries,
         HandlerFails, PartialWork, TypeOK
<1>3. held'[Worker] # k
  BY <1>0 DEF Handler, DispatchSucceeds, CallbackCommits, CallbackCompletes, HandlerRetries,
              HandlerFails, NextEntity, Leave, TypeOK
<1>4. batch'[Worker] = batch[Worker] \/ batch'[Worker] = NoEntities
  BY <1>0 DEF Handler, DispatchSucceeds, CallbackCommits, CallbackCompletes, HandlerRetries,
              HandlerFails, NextEntity, Leave, TypeOK
<1>5. k \in DOMAIN batch'[Worker] =>
          k \in DOMAIN batch[Worker] /\ batch'[Worker][k] = batch[Worker][k]
  BY <1>4, NoEntitiesType
<1> QED
  BY <1>0, <1>1, <1>2, <1>3, <1>5, DriftKeepsCost

\* The row a handler ends with is finished, or waits with an attempt left.
LEMMA CostHandler ==
    ASSUME SingleRunner, TypeOK, TypeOK', CostInv, Handler(Worker)
    PROVE  CostInv'
<1> USE KeysAssumption
<1>0. Worker \in Runners
  BY DEF SingleRunner
<1>p. PICK h \in Keys : h = held[Worker]
  BY <1>0 DEF Handler, DispatchSucceeds, CallbackCommits, CallbackCompletes,
              HandlerRetries, HandlerFails, TypeOK
<1>h. h = held[Worker] /\ h \notin DOMAIN batch[Worker] /\ h # NoKey /\ Cost(h)
  BY <1>0, <1>p DEF TypeOK, CostInv
<1> DEFINE e == effects[h]
           t == tries[Worker]
<1>t. /\ e \in Nat /\ faults \in Nat /\ t \in Nat
      /\ Cap(h) \in Nat /\ Capped(h, t) \in Nat /\ Capped(h, t) <= Cap(h)
      /\ t < Cap(h) => Capped(h, t) = t
  BY CostTypes, CappedBounds
<1>r. pc[Worker] = "running" => e + 1 <= faults + Capped(h, t)
  BY <1>h DEF Cost
<1>d. pc[Worker] = "committed" => e <= faults + Capped(h, t)
  BY <1>h DEF Cost
<1>n. ASSUME NEW n \in {0, 1}, NextEntity(Worker, n) \/ Leave(Worker)
      PROVE  held'[Worker] = NoKey /\ h \notin DOMAIN batch'[Worker]
  <2>1. held'[Worker] = NoKey
    BY <1>0, <1>n DEF NextEntity, Leave, TypeOK
  <2>2. batch'[Worker] = batch[Worker] \/ batch'[Worker] = NoEntities
    BY <1>0, <1>n DEF NextEntity, Leave, TypeOK
  <2> QED
    BY <1>h, <2>1, <2>2, NoEntitiesType
\* A row that is finished and out of hand.
<1>f. ASSUME held'[Worker] = NoKey, h \notin DOMAIN batch'[Worker],
             jobs'[h].status \in Finished, effects'[h] <= faults' + Cap(h)
      PROVE  Cost(h)'
  BY <1>f, <1>h DEF Cost, Cap, Finished
<1>1. ASSUME DispatchSucceeds(Worker) PROVE Cost(h)'
  <2>1. jobs'[h].status = "completed"
    <3>1. ASSUME NEW rows \in [Keys -> Row], jobs' = Completed(rows, Worker)
          PROVE  jobs'[h].status = "completed"
      BY <3>1, <1>h DEF Completed, Ended, Absent
    <3>2. jobs \in [Keys -> Row] /\ IsEntities(ActiveDaily)
      BY ActiveDailyType DEF TypeOK
    <3>3. \A k \in DayKeys, b \in DueTimes : Ensure(jobs, k, ActiveDaily, b) \in [Keys -> Row]
      BY <3>2, EnsureType
    <3> QED
      BY <1>1, <3>1, <3>2, <3>3 DEF DispatchSucceeds
  <2>2. effects'[h] = e + 1 /\ faults' = faults /\ pc[Worker] = "running"
        /\ NextEntity(Worker, 1)
    BY <1>1, <1>h DEF DispatchSucceeds, TypeOK
  <2>3. effects'[h] <= faults' + Cap(h)
    BY <1>t, <1>r, <2>2
  <2> QED
    BY <1>f, <1>n, <2>1, <2>2, <2>3 DEF Finished
<1>2. ASSUME CallbackCommits(Worker) PROVE Cost(h)'
  <2>1. /\ effects'[h] = e + 1 /\ pc[Worker] = "running" /\ pc'[Worker] = "committed"
        /\ UNCHANGED <<jobs, batch, held, tries, faults>>
    BY <1>0, <1>2, <1>h DEF CallbackCommits, TypeOK
  <2>2. /\ effects'[h] <= faults + Capped(h, t)
        /\ effects'[h] <= faults + Cap(h)
    BY <1>t, <1>r, <2>1
  <2>3. \/ jobs[h].status = "cancelled"
        \/ jobs[h].status = "claimed" /\ jobs[h].attempts = t
    BY <1>h DEF Cost
  <2> QED
    BY <1>h, <2>1, <2>2, <2>3 DEF Cost, Cap, Capped
<1>3. ASSUME CallbackCompletes(Worker) PROVE Cost(h)'
  <2>1. /\ jobs'[h].status = "completed" /\ UNCHANGED <<effects, faults>>
        /\ NextEntity(Worker, 1)
    BY <1>3, <1>h DEF CallbackCompletes, Completed, Ended, Absent, TypeOK
  <2>2. effects'[h] <= faults' + Cap(h)
    BY <1>h, <2>1 DEF Cost
  <2> QED
    BY <1>f, <1>n, <2>1, <2>2 DEF Finished
<1>4. ASSUME HandlerRetries(Worker) PROVE Cost(h)'
  <2>1. /\ jobs'[h].status = "scheduled" /\ jobs'[h].attempts = t
        /\ UNCHANGED <<effects, faults>> /\ NextEntity(Worker, 1)
        /\ pc[Worker] \in {"running", "committed"} /\ h \in Replay /\ t < MaxAttempts
    BY <1>4, <1>h DEF HandlerRetries, Retried, Built, Absent, TypeOK
  <2>2. e <= faults + t
    BY <1>t, <1>r, <1>d, <2>1 DEF Cap
  <2>3. e <= faults + Cap(h)
    BY <1>h DEF Cost
  <2>4. held'[Worker] = NoKey /\ h \notin DOMAIN batch'[Worker]
    BY <1>n, <2>1
  <2> QED
    BY <1>h, <2>1, <2>2, <2>3, <2>4 DEF Cost, Cap
<1>5. ASSUME HandlerFails(Worker) PROVE Cost(h)'
  <2>1. jobs'[h].status = "failed" /\ (NextEntity(Worker, 0) \/ Leave(Worker)) /\ faults' = faults
    <3>1. jobs'[h].status = "failed"
      BY <1>0, <1>5, <1>h, FailedStatus
    <3> QED
      BY <1>5, <3>1 DEF HandlerFails
  <2>2. effects'[h] = e \/ (effects'[h] = e + 1 /\ pc[Worker] = "running")
    BY <1>5, <1>h DEF HandlerFails, PartialWork, TypeOK
  <2>3. e <= faults + Cap(h)
    BY <1>h DEF Cost
  <2>4. effects'[h] <= faults' + Cap(h)
    BY <1>t, <1>r, <2>1, <2>2, <2>3
  <2> QED
    BY <1>f, <1>n, <2>1, <2>4 DEF Finished
<1>6. Cost(h)'
  BY <1>1, <1>2, <1>3, <1>4, <1>5 DEF Handler
<1> QED
  BY <1>6, <1>p, CostOthers DEF CostInv

\* A crash leaves the row claimed, and pays for the work that is done again.
LEMMA CostCrash ==
    ASSUME SingleRunner, TypeOK, TypeOK', CostInv, Crash(Worker) PROVE CostInv'
<1> SUFFICES ASSUME NEW k \in Keys PROVE Cost(k)'
  BY DEF CostInv
<1>0. Worker \in Runners /\ Cost(k) /\ k # NoKey
  BY KeysAssumption DEF SingleRunner, CostInv
<1>1. /\ faults' = faults + 1 /\ UNCHANGED <<jobs, effects>>
      /\ held'[Worker] = NoKey /\ batch'[Worker] = NoEntities
  BY <1>0 DEF Crash, Leave, TypeOK
<1>2. k \notin DOMAIN batch'[Worker]
  BY <1>1, NoEntitiesType
<1>3. CASE held[Worker] # k
  BY <1>0, <1>1, <1>2, <1>3, DriftKeepsCost
<1>4. CASE held[Worker] = k
  <2> DEFINE e == effects[k]
             t == tries[Worker]
  <2>1. /\ e \in Nat /\ faults \in Nat /\ t \in Nat /\ Cap(k) \in Nat /\ Capped(k, t) \in Nat
    BY CostTypes, CappedBounds
  <2>2. pc[Worker] \in {"running", "committed"}
    BY <1>0, <1>4 DEF TypeOK
  <2>3. e + 1 <= faults + Capped(k, t) \/ e <= faults + Capped(k, t)
    BY <1>0, <1>4, <2>2 DEF Cost
  <2>4. e + 1 <= (faults + 1) + Capped(k, t)
    BY <2>1, <2>3
  <2>5. e <= faults + Cap(k)
    BY <1>0 DEF Cost
  <2>6. e <= (faults + 1) + Cap(k)
    BY <2>1, <2>5
  <2>7. \/ jobs[k].status = "cancelled"
        \/ jobs[k].status = "claimed" /\ jobs[k].attempts = t
    BY <1>0, <1>4 DEF Cost
  <2> QED
    BY <1>0, <1>1, <1>2, <2>4, <2>6, <2>7 DEF Cost, Cap, Capped
<1> QED
  BY <1>3, <1>4

\* Every step keeps the bound on effects.
LEMMA CostNext ==
    ASSUME SingleRunner, TypeOK, WaitingHasBudget, CostInv, [Next]_vars PROVE CostInv'
<1>1. TypeOK'
  BY NextType
<1>2. CASE UNCHANGED vars
  BY <1>2 DEF vars, runnerVars, CostInv, Cost, Cap, Capped
<1> QED
  BY <1>1, <1>2, CostEnvironment, CostLoop, CostHandler, CostCrash DEF Next, SingleRunner

\* With one worker, a job's work is committed once more than once at most per
\* fault, a replay's once more per attempt, whatever requests cancel meanwhile.
THEOREM RepeatedWorkCostsAFault == ASSUME SingleRunner PROVE Spec => []ReworkCostsAFault
<1>1. Init => CostInv
  BY CostInit
<1>2. TypeOK /\ WaitingHasBudget /\ CostInv /\ [Next]_vars => CostInv'
  BY CostNext
<1>3. CostInv => ReworkCostsAFault
  BY DEF CostInv, Cost, Cap, ReworkCostsAFault
<1> QED
  BY <1>1, <1>2, <1>3, TypeCorrect, WaitingJobsHaveBudget, PTL DEF Spec

-----------------------------------------------------------------------------
(* Induction over data.  Lemmas about numbers and functions that recursion  *)
(* defines, stated with sets, so that the provers can use them.             *)

\* A set of numbers that has 0, and the successor of each of its elements, has all.
LEMMA InductionOnNat ==
    ASSUME NEW S \in SUBSET Nat, 0 \in S, \A n \in Nat : n \in S => n + 1 \in S
    PROVE  S = Nat
<1> DEFINE T == Nat \ S
           R == OpToRel(<, Nat)
<1>1. \A x, y \in Nat : <<x, y>> \in R <=> x < y
  BY DEF OpToRel
<1>2. IsWellFoundedOn(R, Nat)
  BY NatLessThanWellFounded
<1> HIDE DEF R
<1> SUFFICES ASSUME T # {} PROVE FALSE
  OBVIOUS
<1>3. PICK x \in T : \A y \in T : ~ (<<y, x>> \in R)
  BY <1>2, WFMin
<1>4. x \in Nat /\ x # 0 /\ x - 1 \in Nat /\ x - 1 < x /\ (x - 1) + 1 = x
  BY <1>3
<1>5. x - 1 \in S
  BY <1>1, <1>3, <1>4
<1> QED
  BY <1>3, <1>4, <1>5

\* A set of numbers with a bound has a greatest.
LEMMA GreatestNumber ==
    ASSUME NEW S \in SUBSET Nat, NEW x \in S, NEW bound \in Nat, \A n \in S : n <= bound
    PROVE  \E m \in S : \A n \in S : n <= m
<1> DEFINE T == {b \in Nat : \A n \in S : n <= b}
           R == OpToRel(<, Nat)
<1>1. \A a, b \in Nat : <<a, b>> \in R <=> a < b
  BY DEF OpToRel
<1>2. IsWellFoundedOn(R, Nat)
  BY NatLessThanWellFounded
<1> HIDE DEF R
<1>3. T \subseteq Nat /\ T # {}
  OBVIOUS
<1>4. PICK m \in T : \A b \in T : ~ (<<b, m>> \in R)
  BY <1>2, <1>3, WFMin
<1>5. m \in Nat /\ \A n \in S : n <= m
  BY <1>4
<1>6. \A b \in T : ~ (b < m)
  BY <1>1, <1>3, <1>4
<1>7. ASSUME m \notin S PROVE FALSE
  <2>1. \A n \in S : n < m
    BY <1>5, <1>7
  <2>2. m # 0
    BY <1>5, <2>1
  <2>3. m - 1 \in Nat /\ m - 1 < m
    BY <1>5, <2>2
  <2>4. \A n \in S : n <= m - 1
    BY <1>5, <2>1, <2>3
  <2> QED
    BY <1>6, <2>3, <2>4
<1> QED
  BY <1>5, <1>7

\* What is said of 0, and of n + 1 if of n, is true up to any bound.
LEMMA InductionUpTo ==
    ASSUME NEW last \in Nat, NEW S, 0 \in S, \A n \in 0..last : n \in S /\ n < last => n + 1 \in S
    PROVE  \A n \in 0..last : n \in S
<1> DEFINE T == {n \in Nat : n <= last => n \in S}
<1>1. T \in SUBSET Nat /\ 0 \in T
  OBVIOUS
<1>2. \A n \in Nat : n \in T => n + 1 \in T
  OBVIOUS
<1> HIDE DEF T
<1>3. T = Nat
  BY <1>1, <1>2, InductionOnNat
<1> QED
  BY <1>3 DEF T

\* A function that starts in a set, and whose steps stay there, exists.
LEMMA Recursion ==
    ASSUME NEW V, NEW first \in V, NEW last \in Nat, NEW step \in [1..last -> [V -> V]]
    PROVE  \E f \in [0..last -> V] :
               f[0] = first /\ \A n \in 1..last : f[n] = step[n][f[n - 1]]
<1> DEFINE Upto(n, f) == f[0] = first /\ \A m \in 1..n : f[m] = step[m][f[m - 1]]
           S == {n \in Nat : \E f \in [0..n -> V] : Upto(n, f)}
<1>1. 0 \in S
  <2> DEFINE f == [m \in 0..0 |-> first]
  <2>1. f \in [0..0 -> V] /\ Upto(0, f)
    OBVIOUS
  <2> QED
    BY <2>1
<1>2. ASSUME NEW n \in 0..last, n \in S, n < last PROVE n + 1 \in S
  <2>1. PICK f \in [0..n -> V] : Upto(n, f)
    BY <1>2
  <2> DEFINE g == [m \in 0..(n + 1) |-> IF m <= n THEN f[m] ELSE step[n + 1][f[n]]]
  <2>2. step[n + 1][f[n]] \in V
    BY <1>2, <2>1
  <2>3. g \in [0..(n + 1) -> V]
    BY <2>1, <2>2
  <2>4. Upto(n + 1, g)
    BY <2>1
  <2>5. n + 1 \in Nat
    BY <1>2
  <2> HIDE DEF g, Upto
  <2> QED
    BY <2>3, <2>4, <2>5
<1> HIDE DEF S
<1>3. \A n \in 0..last : n \in S
  BY <1>1, <1>2, InductionUpTo
<1>4. last \in 0..last
  OBVIOUS
<1> QED
  BY <1>3, <1>4 DEF S

-----------------------------------------------------------------------------
(* The number of occurrences that the records stand for.                    *)

\* The sums that Counted defines.
Sums(rows, sum) ==
    /\ sum \in [0..Len(rows) -> Nat] /\ sum[0] = 0
    /\ \A n \in 1..Len(rows) : sum[n] = sum[n - 1] + 1 + rows[n].count

\* Counted is the last of them.
LEMMA CountedSums ==
    ASSUME NEW rows, Len(rows) \in Nat, \A n \in 1..Len(rows) : rows[n].count \in Nat
    PROVE  \E sum : Sums(rows, sum) /\ Counted(rows) = sum[Len(rows)]
<1> DEFINE last == Len(rows)
           step == [n \in 1..last |-> [v \in Nat |-> v + 1 + rows[n].count]]
           Defines(f) == f = [n \in 0..last |-> IF n = 0 THEN 0 ELSE f[n - 1] + 1 + rows[n].count]
           sum == CHOOSE f : Defines(f)
<1>1. last \in Nat /\ 0 \in Nat
  OBVIOUS
<1>2. step \in [1..last -> [Nat -> Nat]]
  OBVIOUS
<1>3. \A n \in 1..last, v \in Nat : step[n][v] = v + 1 + rows[n].count
  OBVIOUS
<1>4. Counted(rows) = sum[last]
  BY DEF Counted
<1> HIDE DEF step, last
<1>5. PICK f \in [0..last -> Nat] : f[0] = 0 /\ \A n \in 1..last : f[n] = step[n][f[n - 1]]
  <2> DEFINE N == Nat
  <2>1. 0 \in N /\ step \in [1..last -> [N -> N]]
    BY <1>1, <1>2
  <2> HIDE DEF N
  <2>2. \E f \in [0..last -> N] : f[0] = 0 /\ \A n \in 1..last : f[n] = step[n][f[n - 1]]
    BY <1>1, <2>1, Recursion
  <2> QED
    BY <2>2 DEF N
<1>6. ASSUME NEW n \in 1..last PROVE f[n] = f[n - 1] + 1 + rows[n].count
  <2>1. n - 1 \in 0..last /\ f[n - 1] \in Nat
    BY <1>1, <1>5
  <2>2. f[n] = step[n][f[n - 1]]
    BY <1>5
  <2> QED
    BY <1>3, <2>1, <2>2
<1>7. Defines(f)
  BY <1>1, <1>5, <1>6
<1>8. Defines(sum)
  BY <1>7
<1> HIDE DEF sum
<1>9. DOMAIN sum = 0..last /\ sum[0] = 0 /\ \A n \in 1..last : sum[n] = sum[n - 1] + 1 + rows[n].count
  BY <1>1, <1>8
<1> DEFINE S == {n \in Nat : sum[n] \in Nat}
<1>10. \A n \in 0..last : n \in S
  <2>1. 0 \in S
    BY <1>9
  <2>2. ASSUME NEW n \in 0..last, n \in S, n < last PROVE n + 1 \in S
    <3>1. n + 1 \in 1..last /\ (n + 1) - 1 = n
      BY <1>1, <2>2
    <3>2. sum[n + 1] = sum[n] + 1 + rows[n + 1].count
      BY <1>9, <3>1
    <3>3. rows[n + 1].count \in Nat
      BY <3>1 DEF last
    <3> QED
      BY <2>2, <3>1, <3>2, <3>3
  <2> HIDE DEF S
  <2> QED
    BY <1>1, <2>1, <2>2, InductionUpTo
<1>11. sum \in [0..last -> Nat]
  <2>1. sum = [n \in 0..last |-> sum[n]]
    BY <1>8
  <2> QED
    BY <1>10, <2>1
<1> QED
  BY <1>4, <1>9, <1>11 DEF Sums, last

\* It is a number.
LEMMA CountedNumber ==
    ASSUME NEW rows, Len(rows) \in Nat, \A n \in 1..Len(rows) : rows[n].count \in Nat
    PROVE  Counted(rows) \in Nat
<1>1. PICK sum : Sums(rows, sum) /\ Counted(rows) = sum[Len(rows)]
  BY CountedSums
<1> QED
  BY <1>1 DEF Sums

\* Records with the same counts stand for the same number; a record whose count
\* is one greater stands for one more.
LEMMA CountsCompared ==
    ASSUME NEW old, NEW new, Len(old) \in Nat, Len(new) = Len(old), NEW k \in 0..Len(old),
           \A n \in 1..Len(old) : old[n].count \in Nat,
           \A n \in 1..Len(old) : new[n].count = IF n = k THEN old[n].count + 1 ELSE old[n].count
    PROVE  Counted(new) = IF k = 0 THEN Counted(old) ELSE Counted(old) + 1
<1>1. PICK a : Sums(old, a) /\ Counted(old) = a[Len(old)]
  BY CountedSums
<1>2. PICK b : Sums(new, b) /\ Counted(new) = b[Len(new)]
  BY CountedSums
<1> DEFINE S == {n \in Nat : b[n] = IF k # 0 /\ k <= n THEN a[n] + 1 ELSE a[n]}
<1>3. 0 \in S
  BY <1>1, <1>2 DEF Sums
<1>4. ASSUME NEW n \in 0..Len(old), n \in S, n < Len(old) PROVE n + 1 \in S
  <2>1. n + 1 \in 1..Len(old) /\ (n + 1) - 1 = n
    BY <1>4
  <2>2. a[n + 1] = a[n] + 1 + old[n + 1].count /\ b[n + 1] = b[n] + 1 + new[n + 1].count
    BY <1>1, <1>2, <2>1 DEF Sums
  <2>3. a[n] \in Nat
    BY <1>1 DEF Sums
  <2>4. old[n + 1].count \in Nat
    BY <2>1
  <2>5. b[n] = IF k # 0 /\ k <= n THEN a[n] + 1 ELSE a[n]
    BY <1>4
  <2>6. new[n + 1].count = IF n + 1 = k THEN old[n + 1].count + 1 ELSE old[n + 1].count
    BY <2>1
  <2>7. b[n + 1] = IF k # 0 /\ k <= n + 1 THEN a[n + 1] + 1 ELSE a[n + 1]
    <3>1. CASE k = n + 1
      BY <2>2, <2>3, <2>4, <2>5, <2>6, <3>1
    <3>2. CASE k # 0 /\ k <= n
      BY <2>2, <2>3, <2>4, <2>5, <2>6, <3>2
    <3>3. CASE k = 0 \/ k > n + 1
      <4>1. b[n] = a[n] /\ new[n + 1].count = old[n + 1].count
        BY <2>5, <2>6, <3>3
      <4>2. b[n + 1] = a[n + 1]
        BY <2>2, <4>1
      <4> QED
        BY <3>3, <4>2
    <3> QED
      BY <3>1, <3>2, <3>3
  <2> QED
    BY <2>1, <2>7
<1> HIDE DEF S
<1>5. Len(old) \in S
  <2>1. \A n \in 0..Len(old) : n \in S
    BY <1>3, <1>4, InductionUpTo, Zenon
  <2> QED
    BY <2>1
<1> QED
  BY <1>1, <1>2, <1>5 DEF S

\* Another record stands for itself and its count.
LEMMA CountsAppended ==
    ASSUME NEW old, NEW new, Len(old) \in Nat, Len(new) = Len(old) + 1,
           \A n \in 1..Len(new) : new[n].count \in Nat,
           \A n \in 1..Len(old) : new[n].count = old[n].count
    PROVE  Counted(new) = Counted(old) + 1 + new[Len(new)].count
<1>0. \A n \in 1..Len(old) : old[n].count \in Nat
  OBVIOUS
<1>1. PICK a : Sums(old, a) /\ Counted(old) = a[Len(old)]
  BY <1>0, CountedSums
<1>2. PICK b : Sums(new, b) /\ Counted(new) = b[Len(new)]
  BY CountedSums
<1> DEFINE S == {n \in Nat : b[n] = a[n]}
<1>3. 0 \in S
  BY <1>1, <1>2 DEF Sums
<1>4. ASSUME NEW n \in 0..Len(old), n \in S, n < Len(old) PROVE n + 1 \in S
  <2>1. n + 1 \in 1..Len(old) /\ (n + 1) - 1 = n /\ n + 1 \in 1..Len(new)
    BY <1>4
  <2>2. a[n + 1] = a[n] + 1 + old[n + 1].count /\ b[n + 1] = b[n] + 1 + new[n + 1].count
    BY <1>1, <1>2, <2>1 DEF Sums
  <2> QED
    BY <1>4, <2>1, <2>2
<1> HIDE DEF S
<1>5. Len(old) \in S
  <2>1. \A n \in 0..Len(old) : n \in S
    BY <1>3, <1>4, InductionUpTo, Zenon
  <2> QED
    BY <2>1
<1>6. b[Len(new)] = b[Len(old)] + 1 + new[Len(new)].count
  BY <1>2 DEF Sums
<1> QED
  BY <1>1, <1>2, <1>5, <1>6 DEF S

-----------------------------------------------------------------------------
(* Rows.                                                                    *)

\* The lists of a table of rows.
LEMMA TablesFields ==
    ASSUME NEW v \in Tables
    PROVE  /\ v.records \in Seq(Record)
           /\ v.actions \in Seq({"proposed", "executed", "blocked"})
           /\ v.evaluations \in Seq({"pending", "effective", "ineffective", "inconclusive"})
           /\ v.cards \in Seq(Card)
           /\ v.insights \in Seq([theme: Themes, status: {"candidate", "active", "archived"}, at: Nat])
BY DEF Tables

\* The rows of a list.
LEMMA RowAt ==
    ASSUME NEW S, NEW rows \in Seq(S)
    PROVE  /\ Len(rows) \in Nat /\ DOMAIN rows = 1..Len(rows)
           /\ \A i \in 1..Len(rows) : rows[i] \in S
BY LenProperties, ElementOfSeq

\* A row that is added is the last.
LEMMA RowAdded ==
    ASSUME NEW S, NEW rows \in Seq(S), NEW row \in S
    PROVE  /\ Append(rows, row) \in Seq(S) /\ Len(Append(rows, row)) = Len(rows) + 1
           /\ \A i \in 1..Len(rows) : Append(rows, row)[i] = rows[i]
           /\ Append(rows, row)[Len(rows) + 1] = row
BY AppendProperties, LenProperties

\* A row that is written changes no other.
LEMMA RowWritten ==
    ASSUME NEW S, NEW rows \in Seq(S), NEW k \in 1..Len(rows), NEW row \in S
    PROVE  /\ [rows EXCEPT ![k] = row] \in Seq(S) /\ Len([rows EXCEPT ![k] = row]) = Len(rows)
           /\ \A i \in 1..Len(rows) : [rows EXCEPT ![k] = row][i] = IF i = k THEN row ELSE rows[i]
BY ExceptSeq

\* The row of a set that was written last is a row of the set.
LEMMA LatestRow ==
    ASSUME NEW rows, NEW S \in SUBSET (Nat \ {0}), NEW last \in Nat, NEW bound \in Nat,
           \A i \in S : i <= last /\ rows[i].at \in Nat /\ rows[i].at <= bound
    PROVE  IF S = {} THEN Latest(rows, S) = 0 ELSE Latest(rows, S) \in S
<1>1. CASE S = {}
  BY <1>1 DEF Latest
<1>2. CASE S # {}
  <2> DEFINE times == {rows[i].at : i \in S}
  <2>1. PICK x \in S : TRUE
    BY <1>2
  <2>2. times \in SUBSET Nat /\ rows[x].at \in times /\ \A n \in times : n <= bound
    OBVIOUS
  <2>3. PICK m \in times : \A n \in times : n <= m
    BY <2>2, GreatestNumber
  <2> DEFINE newest == {i \in S : rows[i].at = m}
  <2>4. PICK y \in S : rows[y].at = m
    BY <2>3
  <2>5. newest \in SUBSET Nat /\ y \in newest /\ \A n \in newest : n <= last
    BY <2>4
  <2> HIDE DEF newest
  <2>6. PICK k \in newest : \A n \in newest : n <= k
    BY <2>5, GreatestNumber
  <2> DEFINE IsLatest(i) == \A j \in S : rows[j].at < rows[i].at \/ (rows[j].at = rows[i].at /\ j <= i)
  <2>7. k \in S /\ IsLatest(k)
    <3>1. k \in S /\ rows[k].at = m
      BY <2>6 DEF newest
    <3>2. ASSUME NEW j \in S PROVE rows[j].at < rows[k].at \/ (rows[j].at = rows[k].at /\ j <= k)
      <4>1. rows[j].at \in Nat /\ m \in Nat /\ rows[j].at <= m
        BY <2>2, <2>3
      <4>2. rows[j].at = m => j \in newest
        BY DEF newest
      <4> QED
        BY <2>6, <3>1, <4>1, <4>2
    <3> QED
      BY <3>1, <3>2
  <2>8. Latest(rows, S) = CHOOSE i \in S : IsLatest(i)
    BY <1>2 DEF Latest
  <2> HIDE DEF IsLatest
  <2> QED
    BY <1>2, <2>7, <2>8
<1> QED
  BY <1>1, <1>2

\* The newest of a set of rows is one of them.
LEMMA NewestRow ==
    ASSUME NEW S \in SUBSET Nat, NEW last \in Nat, \A i \in S : i <= last
    PROVE  IF S = {} THEN Newest(S) = 0 ELSE Newest(S) \in S
<1>1. CASE S = {}
  BY <1>1 DEF Newest
<1>2. CASE S # {}
  <2>1. \E m \in S : \A n \in S : n <= m
    BY <1>2, GreatestNumber
  <2> QED
    BY <1>2, <2>1 DEF Newest
<1> QED
  BY <1>1, <1>2

\* The clock has dated every row, and the day is a number.
Dated == clock \in Nat /\ day \in Nat
Before(rows) == \A i \in 1..Len(rows) : rows[i].at <= clock

\* The record that is open to an occurrence is a record.
LEMMA OpenRecordRow ==
    ASSUME Dated, NEW rows \in Seq(Record), Before(rows), NEW o
    PROVE  OpenRecord(rows, o) \in 0..Len(rows)
<1> DEFINE S == {j \in DOMAIN rows : Group(rows[j]) = Group(o)}
<1>0. Len(rows) \in Nat /\ DOMAIN rows = 1..Len(rows) /\ \A i \in 1..Len(rows) : rows[i] \in Record
  BY RowAt, Zenon
<1>1. Len(rows) \in Nat /\ DOMAIN rows = 1..Len(rows) /\ \A i \in 1..Len(rows) : rows[i].at \in Nat
  BY <1>0 DEF Record
<1>2. S \in SUBSET (Nat \ {0}) /\ \A i \in S : i <= Len(rows) /\ rows[i].at \in Nat /\ rows[i].at <= clock
  BY <1>1 DEF Before
<1>3. S \subseteq 1..Len(rows)
  BY <1>1
<1> HIDE DEF S
<1>4. IF S = {} THEN Latest(rows, S) = 0 ELSE Latest(rows, S) \in S
  BY <1>1, <1>2, LatestRow DEF Dated
<1>5. Latest(rows, S) \in 0..Len(rows)
  <2>1. CASE S = {}
    BY <1>1, <1>4, <2>1
  <2>2. CASE S # {}
    <3>1. Latest(rows, S) \in 1..Len(rows)
      BY <1>3, <1>4, <2>2, Zenon
    <3> QED
      BY <1>1, <3>1
  <2> QED
    BY <2>1, <2>2
<1>6. OpenRecord(rows, o) = 0 \/ OpenRecord(rows, o) = Latest(rows, S)
  BY DEF OpenRecord, S
<1> QED
  BY <1>1, <1>5, <1>6

-----------------------------------------------------------------------------
(* Cards and insights.                                                      *)

\* What NewestCardIsActive says of a list of cards.
NewestActive(rows) ==
    \A i \in DOMAIN rows :
        (\A j \in DOMAIN rows : rows[j].version <= rows[i].version) => rows[i].status = "active"

\* The card that is read as the active one is a card.
LEMMA CardRow ==
    ASSUME NEW rows \in Seq(Card)
    PROVE  /\ ActiveCards(rows) \subseteq 1..Len(rows)
           /\ CardOf(rows) \in 0..Len(rows)
<1>1. ActiveCards(rows) \subseteq 1..Len(rows) /\ Len(rows) \in Nat
  BY RowAt DEF ActiveCards
<1> QED
  BY <1>1 DEF CardOf

\* A refresh that follows any card, the active one or one superseded since,
\* leaves the newest card active: what it supersedes is older than what it adds.
LEMMA RefreshShape ==
    ASSUME NEW rows \in Seq(Card), NewestActive(rows), NEW card \in 0..Len(rows)
    PROVE  /\ Refresh(rows, card) \in Seq(Card) /\ NewestActive(Refresh(rows, card))
           /\ Len(Refresh(rows, card)) = Len(rows) + 1
<1>0. Len(rows) \in Nat /\ DOMAIN rows = 1..Len(rows) /\ \A i \in 1..Len(rows) : rows[i] \in Card
  BY RowAt
<1>1. CASE card = 0
  <2> DEFINE row == [version |-> 1, status |-> "active"]
             new == Append(rows, row)
  <2>1. Refresh(rows, card) = new
    BY <1>1 DEF Refresh
  <2>2. row \in Card /\ row.status = "active"
    BY DEF Card
  <2> HIDE DEF row
  <2>3. /\ new \in Seq(Card) /\ Len(new) = Len(rows) + 1
        /\ \A i \in 1..Len(rows) : new[i] = rows[i]
        /\ new[Len(rows) + 1] = row
    BY <2>2, RowAdded
  <2>4. DOMAIN new = 1..(Len(rows) + 1)
    BY <2>3, RowAt
  <2> HIDE DEF new
  <2>5. NewestActive(new)
    BY <1>0, <2>2, <2>3, <2>4 DEF NewestActive
  <2> QED
    BY <2>1, <2>3, <2>5
<1>2. CASE card # 0
  <2> DEFINE old == [rows[card] EXCEPT !.status = "superseded"]
             mid == [rows EXCEPT ![card] = old]
             row == [version |-> rows[card].version + 1, status |-> "active"]
             new == Append(mid, row)
  <2>1. Refresh(rows, card) = new
    BY <1>2 DEF Refresh
  <2>2. /\ card \in 1..Len(rows) /\ rows[card] \in Card
        /\ old \in Card /\ old.version = rows[card].version
        /\ row \in Card /\ row.status = "active" /\ row.version = rows[card].version + 1
    BY <1>0, <1>2 DEF Card
  <2> HIDE DEF row, old
  <2>3. /\ mid \in Seq(Card) /\ Len(mid) = Len(rows)
        /\ \A i \in 1..Len(rows) : mid[i] = IF i = card THEN old ELSE rows[i]
    BY <2>2, RowWritten
  <2> HIDE DEF mid
  <2>4. /\ new \in Seq(Card) /\ Len(new) = Len(rows) + 1
        /\ \A i \in 1..Len(rows) : new[i] = mid[i]
        /\ new[Len(rows) + 1] = row
    BY <2>2, <2>3, RowAdded
  <2>5. DOMAIN new = 1..(Len(rows) + 1)
    BY <2>4, RowAt
  <2> HIDE DEF new
  <2>6. /\ \A i \in 1..Len(rows) : new[i] = IF i = card THEN old ELSE rows[i]
        /\ \A i \in 1..Len(rows) : rows[i].version \in Nat
    BY <1>0, <2>3, <2>4 DEF Card
  <2>7. NewestActive(new)
    <3> SUFFICES ASSUME NEW i \in 1..(Len(rows) + 1),
                        \A j \in 1..(Len(rows) + 1) : new[j].version <= new[i].version
                 PROVE  new[i].status = "active"
      BY <2>5 DEF NewestActive
    <3>1. CASE i = Len(rows) + 1
      BY <2>2, <2>4, <3>1
    <3>2. CASE i = card
      <4>1. new[Len(rows) + 1].version <= new[i].version /\ Len(rows) + 1 \in 1..(Len(rows) + 1)
        BY <1>0
      <4> QED
        BY <2>2, <2>4, <2>6, <3>2, <4>1
    <3>3. CASE i \in 1..Len(rows) /\ i # card
      <4>1. \A j \in 1..Len(rows) : rows[j].version <= rows[i].version
        BY <1>0, <2>2, <2>6, <3>3
      <4> QED
        BY <1>0, <2>6, <3>3, <4>1 DEF NewestActive
    <3> QED
      BY <1>0, <3>1, <3>2, <3>3
  <2> QED
    BY <2>1, <2>4, <2>7
<1> QED
  BY <1>1, <1>2

InsightRow == [theme: Themes, status: {"candidate", "active", "archived"}, at: Nat]

\* An insight about an occurrence is a candidate of its theme.
LEMMA InsightShape ==
    ASSUME Dated, NEW theme \in Themes
    PROVE  Insight(theme) \in InsightRow /\ Insight(theme).at = clock
BY DEF Dated, Insight, InsightRow

\* Promotion dates an insight, or adds one.
LEMMA PromoteShape ==
    ASSUME Dated, NEW rows \in Seq(InsightRow), Before(rows), NEW theme \in Themes,
           NEW effective \in BOOLEAN
    PROVE  /\ Promote(rows, theme, effective) \in Seq(InsightRow)
           /\ Before(Promote(rows, theme, effective))
<1> DEFINE S == {j \in DOMAIN rows : rows[j].theme = theme}
           next(status) == IF effective THEN "active"
                           ELSE IF status = "active" THEN "archived" ELSE status
           k == Latest(rows, S)
<1>0. Len(rows) \in Nat /\ DOMAIN rows = 1..Len(rows) /\ \A i \in 1..Len(rows) : rows[i] \in InsightRow
  BY RowAt, Zenon
<1>1. /\ Len(rows) \in Nat /\ DOMAIN rows = 1..Len(rows)
      /\ \A i \in 1..Len(rows) : rows[i] \in InsightRow /\ rows[i].at \in Nat
  BY <1>0 DEF InsightRow
<1>2. S \in SUBSET (Nat \ {0}) /\ \A i \in S : i <= Len(rows) /\ rows[i].at \in Nat /\ rows[i].at <= clock
  BY <1>1 DEF Before
<1>3. S \subseteq 1..Len(rows)
  BY <1>1
<1> HIDE DEF S
<1>4. IF S = {} THEN k = 0 ELSE k \in S
  BY <1>1, <1>2, LatestRow DEF Dated
<1>5. CASE k = 0
  <2>1. Promote(rows, theme, effective) = Append(rows, Insight(theme))
    BY <1>5 DEF Promote, S
  <2>2. /\ Append(rows, Insight(theme)) \in Seq(InsightRow)
        /\ Len(Append(rows, Insight(theme))) = Len(rows) + 1
        /\ \A i \in 1..Len(rows) : Append(rows, Insight(theme))[i] = rows[i]
        /\ Append(rows, Insight(theme))[Len(rows) + 1].at = clock
    BY InsightShape, RowAdded
  <2> QED
    BY <1>1, <2>1, <2>2 DEF Before, Dated
<1>6. CASE k # 0
  <2> DEFINE row == [rows[k] EXCEPT !.status = next(@), !.at = clock]
             new == [rows EXCEPT ![k] = row]
  <2>1. Promote(rows, theme, effective) = new
    BY <1>6 DEF Promote, S
  <2>2. k \in 1..Len(rows)
    BY <1>3, <1>4, <1>6
  <2>3. row \in InsightRow /\ row.at = clock
    BY <1>1, <2>2 DEF InsightRow, Dated
  <2> HIDE DEF row, k
  <2>4. /\ new \in Seq(InsightRow) /\ Len(new) = Len(rows)
        /\ \A i \in 1..Len(rows) : new[i] = IF i = k THEN row ELSE rows[i]
    BY <2>2, <2>3, RowWritten
  <2> QED
    BY <2>1, <2>3, <2>4 DEF Before, Dated
<1> QED
  BY <1>5, <1>6


-----------------------------------------------------------------------------
(* What a step of a transaction makes of the tables.                        *)

Verdicts == {"effective", "ineffective", "inconclusive"}
Occurrences == [kind: {"task", "goal", "workflow"}, task: Tasks \cup {"none"},
                cause: Causes \cup {"workflow_issue"}, key: DedupeKeys]

\* Tables whose rows belong together.
Shape(v) ==
    /\ v \in Tables
    /\ Len(v.actions) = Len(v.records) /\ Len(v.evaluations) = Len(v.records)
    /\ Before(v.records) /\ Before(v.insights)
    /\ NewestActive(v.cards)

\* What ReviewIsDue says of a record.
DueReview(v, i) ==
    v.actions[i] = "blocked" \/ v.evaluations[i] = "ineffective" => v.records[i].status = "needs_review"

\* A record whose outcome did not improve needs a review.
Reviewed(v, i) == v.evaluations[i] = "ineffective" => v.records[i].status = "needs_review"

\* w follows from v by steps of which some have read seen, and the others the
\* rows as they were: what a record waits for is kept, except for the lost rows.
Follows(v, w, seen, lost) ==
    /\ Shape(w)
    /\ Len(v.records) <= Len(w.records) /\ Len(v.cards) <= Len(w.cards)
    /\ \A i \in 1..Len(v.records) :
           /\ w.actions[i] = v.actions[i]
           /\ w.records[i].at = clock \/ (w.records[i] = v.records[i] /\ i \notin lost)
           /\ i \notin lost =>
                /\ w.evaluations[i] = v.evaluations[i] \/ Reviewed(w, i)
                /\ \/ w.records[i].status \in {v.records[i].status, "needs_review"}
                   \/ i = seen.row /\ w.records[i].status = seen.copy.status /\ Reviewed(w, i)
    /\ \A i \in (Len(v.records) + 1)..Len(w.records) : DueReview(w, i)

\* They have added no record, and counted nothing.
SameCounts(v, w, seen) ==
    /\ Len(w.records) = Len(v.records)
    /\ \A i \in 1..Len(v.records) :
           \/ w.records[i].count = v.records[i].count
           \/ i = seen.row /\ w.records[i].count = seen.copy.count

\* What has been read is what the row is.
Exact(v, seen) == seen.row = 0 \/ seen.copy = v.records[seen.row]

\* A row of the tables, or none, that some transaction may have read earlier.
Reading(v, seen) == seen.row \in 0..Len(v.records) /\ (seen.row # 0 => seen.copy \in Record)

\* The lists of well-formed tables have the length of the records.
LEMMA ShapeLengths ==
    ASSUME NEW v, Shape(v)
    PROVE  /\ Len(v.records) \in Nat /\ DOMAIN v.records = 1..Len(v.records)
           /\ \A i \in 1..Len(v.records) : v.records[i] \in Record
           /\ Len(v.cards) \in Nat
BY RowAt, TablesFields, Zenon DEF Shape

\* Nothing follows from itself.
LEMMA FollowsItself ==
    ASSUME NEW v, Shape(v), NEW seen
    PROVE  Follows(v, v, seen, {}) /\ SameCounts(v, v, seen)
<1>1. Len(v.records) \in Nat /\ Len(v.cards) \in Nat
  BY ShapeLengths
<1>2. \A i \in (Len(v.records) + 1)..Len(v.records) : FALSE
  BY <1>1
<1>3. Follows(v, v, seen, {})
  BY <1>1, <1>2 DEF Follows
<1> QED
  BY <1>3 DEF SameCounts

\* Steps follow each other, when the later has read the same row, or the row as
\* the earlier has left it.
LEMMA FollowsOn ==
    ASSUME NEW v, NEW w, NEW x, NEW seen, NEW next, NEW lost,
           Shape(v), seen.row \in 0..Len(v.records), Follows(v, w, seen, lost), Follows(w, x, next, {}),
           next = seen \/ Exact(w, next)
    PROVE  Follows(v, x, seen, lost)
<1>1. /\ Shape(w) /\ Shape(x)
      /\ Len(v.records) \in Nat /\ Len(w.records) \in Nat /\ Len(x.records) \in Nat
      /\ Len(v.records) <= Len(w.records) /\ Len(w.records) <= Len(x.records)
  BY ShapeLengths DEF Follows
<1>2. ASSUME NEW i \in 1..Len(w.records)
      PROVE  /\ x.actions[i] = w.actions[i]
             /\ x.records[i].at = clock \/ x.records[i] = w.records[i]
             /\ x.evaluations[i] = w.evaluations[i] \/ Reviewed(x, i)
             /\ \/ x.records[i].status \in {w.records[i].status, "needs_review"}
                \/ i = seen.row /\ x.records[i].status = seen.copy.status /\ Reviewed(x, i)
  <2>1. i # 0
    BY <1>1
  <2>2. /\ x.actions[i] = w.actions[i]
        /\ x.records[i].at = clock \/ x.records[i] = w.records[i]
        /\ x.evaluations[i] = w.evaluations[i] \/ Reviewed(x, i)
        /\ \/ x.records[i].status \in {w.records[i].status, "needs_review"}
           \/ i = next.row /\ x.records[i].status = next.copy.status /\ Reviewed(x, i)
    BY DEF Follows
  <2> QED
    BY <2>1, <2>2 DEF Exact
<1>3. ASSUME NEW i \in 1..Len(v.records)
      PROVE  /\ x.actions[i] = v.actions[i]
             /\ x.records[i].at = clock \/ (x.records[i] = v.records[i] /\ i \notin lost)
             /\ i \notin lost =>
                  /\ x.evaluations[i] = v.evaluations[i] \/ Reviewed(x, i)
                  /\ \/ x.records[i].status \in {v.records[i].status, "needs_review"}
                     \/ i = seen.row /\ x.records[i].status = seen.copy.status /\ Reviewed(x, i)
  <2>1. i \in 1..Len(w.records)
    BY <1>1
  <2>2. /\ w.actions[i] = v.actions[i]
        /\ w.records[i].at = clock \/ (w.records[i] = v.records[i] /\ i \notin lost)
        /\ i \notin lost =>
             /\ w.evaluations[i] = v.evaluations[i] \/ Reviewed(w, i)
             /\ \/ w.records[i].status \in {v.records[i].status, "needs_review"}
                \/ i = seen.row /\ w.records[i].status = seen.copy.status /\ Reviewed(w, i)
    BY DEF Follows
  <2> QED
    BY <1>2, <2>1, <2>2 DEF Reviewed
<1>4. ASSUME NEW i \in (Len(v.records) + 1)..Len(x.records) PROVE DueReview(x, i)
  <2>1. CASE i \in (Len(w.records) + 1)..Len(x.records)
    BY <2>1 DEF Follows
  <2>2. CASE i \in 1..Len(w.records)
    <3>1. DueReview(w, i) /\ i # seen.row
      BY <1>1, <2>2 DEF Follows
    <3> QED
      BY <1>2, <2>2, <3>1 DEF DueReview, Reviewed
  <2> QED
    BY <1>1, <2>1, <2>2
<1>5. Len(v.records) <= Len(x.records) /\ Len(v.cards) <= Len(x.cards)
  <2>1. Len(v.cards) \in Nat /\ Len(w.cards) \in Nat /\ Len(x.cards) \in Nat
    BY <1>1, ShapeLengths
  <2>2. Len(v.cards) <= Len(w.cards) /\ Len(w.cards) <= Len(x.cards)
    BY DEF Follows
  <2> QED
    BY <1>1, <2>1, <2>2
<1> QED
  BY <1>1, <1>3, <1>4, <1>5 DEF Follows

\* The counts of steps that add no record.
LEMMA SameCountsOn ==
    ASSUME NEW v, NEW w, NEW x, NEW seen, NEW next, Shape(v),
           SameCounts(v, w, seen), SameCounts(w, x, next), next = seen \/ Exact(w, next)
    PROVE  SameCounts(v, x, seen)
BY ShapeLengths DEF SameCounts, Exact

-----------------------------------------------------------------------------
(* Feedback on an outcome.                                                  *)

\* The fields that the step of an inconclusive verdict leaves alone.
LEMMA RatedShape ==
    ASSUME NEW v, Shape(v), NEW k \in 1..Len(v.records), NEW verdict \in Verdicts
    PROVE  LET rated == [v EXCEPT !.evaluations[k] = verdict]
           IN  /\ rated \in Tables
               /\ rated.records = v.records /\ rated.actions = v.actions
               /\ rated.cards = v.cards /\ rated.insights = v.insights
               /\ Len(rated.evaluations) = Len(v.records)
               /\ \A i \in 1..Len(v.records) :
                      rated.evaluations[i] = IF i = k THEN verdict ELSE v.evaluations[i]
<1> DEFINE Marks == {"pending", "effective", "ineffective", "inconclusive"}
           marks == [v.evaluations EXCEPT ![k] = verdict]
           rated == [v EXCEPT !.evaluations = marks]
<1>1. verdict \in Marks /\ v.evaluations \in Seq(Marks) /\ k \in 1..Len(v.evaluations)
  BY TablesFields DEF Verdicts, Shape
<1>2. /\ marks \in Seq(Marks) /\ Len(marks) = Len(v.records)
      /\ \A i \in 1..Len(v.records) : marks[i] = IF i = k THEN verdict ELSE v.evaluations[i]
  BY <1>1, RowWritten DEF Shape
<1> HIDE DEF marks
<1>3. v \in Tables
  BY DEF Shape
<1>4. rated \in Tables /\ rated.evaluations = marks
  BY <1>2, <1>3 DEF Tables
<1>5. /\ rated.records = v.records /\ rated.actions = v.actions
      /\ rated.cards = v.cards /\ rated.insights = v.insights
  BY <1>3 DEF Tables
<1> QED
  BY <1>2, <1>4, <1>5 DEF marks

\* Tables whose record k is written, with their cards and insights.
Written(v, k, row, strategies, lessons) ==
    [v EXCEPT !.records[k] = row, !.cards = strategies, !.insights = lessons]

\* The fields of these.
LEMMA WrittenShape ==
    ASSUME NEW v, v \in Tables, NEW k \in 1..Len(v.records), NEW row \in Record,
           NEW strategies \in Seq(Card), NEW lessons \in Seq(InsightRow)
    PROVE  LET w == Written(v, k, row, strategies, lessons)
           IN  /\ w \in Tables
               /\ w.actions = v.actions /\ w.evaluations = v.evaluations
               /\ w.cards = strategies /\ w.insights = lessons
               /\ Len(w.records) = Len(v.records)
               /\ \A i \in 1..Len(v.records) : w.records[i] = IF i = k THEN row ELSE v.records[i]
<1> DEFINE rows == [v.records EXCEPT ![k] = row]
           w == [v EXCEPT !.records = rows, !.cards = strategies, !.insights = lessons]
<1>1. /\ rows \in Seq(Record) /\ Len(rows) = Len(v.records)
      /\ \A i \in 1..Len(v.records) : rows[i] = IF i = k THEN row ELSE v.records[i]
  BY RowWritten, TablesFields
<1> HIDE DEF rows
<1>2. w \in Tables /\ w.records = rows
  BY <1>1 DEF Tables, InsightRow
<1>3. /\ w.actions = v.actions /\ w.evaluations = v.evaluations
      /\ w.cards = strategies /\ w.insights = lessons
  BY DEF Tables
<1> QED
  BY <1>1, <1>2, <1>3 DEF rows, Written

\* The step that leaves the cards alone.
Noted(v, k, row, lessons) == [v EXCEPT !.records[k] = row, !.insights = lessons]

\* It writes the cards that there are.
LEMMA WrittenCards ==
    ASSUME NEW v, v \in Tables, NEW k, NEW row, NEW lessons
    PROVE  Written(v, k, row, v.cards, lessons) = Noted(v, k, row, lessons)
<1> DEFINE rows == [v.records EXCEPT ![k] = row]
<1>1. [v EXCEPT !.records = rows, !.cards = v.cards, !.insights = lessons]
        = [v EXCEPT !.records = rows, !.insights = lessons]
  <2> HIDE DEF rows
  <2> QED
    BY DEF Tables
<1> QED
  BY <1>1 DEF Written, Noted

\* A theme of a record, or of an occurrence.
LEMMA ThemeOfRecord ==
    ASSUME NEW o, o.cause \in Causes \cup {"workflow_issue"}
    PROVE  Theme(o) \in Themes
BY DEF Theme, Topic, Themes

\* Feedback rates a record, and writes it as it was read unless the verdict is
\* inconclusive; a record whose outcome did not improve needs a review.
LEMMA FeedbackFollows ==
    ASSUME Dated, NEW v, Shape(v), NEW seen, seen.row \in 1..Len(v.records), seen.copy \in Record,
           NEW verdict \in Verdicts
    PROVE  LET w == Feedback(v, seen, verdict) IN Follows(v, w, seen, {}) /\ SameCounts(v, w, seen)
<1> DEFINE k == seen.row
           rated == [v EXCEPT !.evaluations[seen.row] = verdict]
           w == Feedback(v, seen, verdict)
<1>1. /\ rated \in Tables
      /\ rated.records = v.records /\ rated.actions = v.actions
      /\ rated.cards = v.cards /\ rated.insights = v.insights
      /\ Len(rated.evaluations) = Len(v.records)
      /\ \A i \in 1..Len(v.records) :
             rated.evaluations[i] = IF i = k THEN verdict ELSE v.evaluations[i]
  BY RatedShape
<1>2. /\ Len(v.records) \in Nat /\ Len(v.actions) = Len(v.records)
      /\ \A i \in 1..Len(v.records) : v.records[i] \in Record
      /\ Before(v.records) /\ Before(v.insights) /\ NewestActive(v.cards)
      /\ v.cards \in Seq(Card) /\ v.insights \in Seq(InsightRow)
      /\ \A i \in (Len(v.records) + 1)..Len(v.records) : FALSE
  <2>1. Len(v.records) \in Nat /\ \A i \in 1..Len(v.records) : v.records[i] \in Record
    BY ShapeLengths
  <2>2. v.cards \in Seq(Card) /\ v.insights \in Seq(InsightRow)
    BY TablesFields DEF Shape, InsightRow
  <2>3. \A i \in (Len(v.records) + 1)..Len(v.records) : FALSE
    BY <2>1
  <2> QED
    BY <2>1, <2>2, <2>3 DEF Shape
<1> HIDE DEF rated
<1>0. Len(v.cards) \in Nat
  BY ShapeLengths
<1>3. CASE verdict = "inconclusive"
  <2>1. w = rated
    BY <1>3 DEF Feedback, rated
  <2>2. Shape(rated)
    BY <1>1, <1>2 DEF Shape
  <2>3. Follows(v, rated, seen, {})
    BY <1>0, <1>1, <1>2, <1>3, <2>2 DEF Follows, Reviewed
  <2> QED
    BY <1>1, <2>1, <2>3 DEF SameCounts
<1>4. CASE verdict # "inconclusive"
  <2> DEFINE effective == verdict = "effective"
             dated == [seen.copy EXCEPT !.at = clock]
             row == IF effective THEN dated ELSE [dated EXCEPT !.status = "needs_review"]
             strategies == IF effective THEN Refresh(v.cards, CardOf(v.cards)) ELSE v.cards
             lessons == Promote(v.insights, Theme(seen.copy), effective)
  <2>1. verdict = "effective" \/ verdict = "ineffective"
    BY <1>4 DEF Verdicts
  <2>2. w = Written(rated, seen.row, row, strategies, lessons)
    <3>1. CASE verdict = "effective"
      BY <1>1, <3>1 DEF Feedback, rated, Written
    <3>2. CASE verdict = "ineffective"
      <4>1. w = Noted(rated, seen.row, row, lessons)
        BY <1>1, <3>2 DEF Feedback, rated, Noted
      <4>2. strategies = rated.cards
        BY <1>1, <3>2
      <4>3. w = Written(rated, seen.row, row, rated.cards, lessons)
        <5> HIDE DEF w, row, lessons
        <5>1. rated \in Tables
          BY <1>1
        <5>2. Written(rated, seen.row, row, rated.cards, lessons) = Noted(rated, seen.row, row, lessons)
          BY <5>1, WrittenCards
        <5> QED
          BY <4>1, <5>2, Zenon
      <4> QED
        BY <4>2, <4>3
    <3> QED
      BY <2>1, <3>1, <3>2
  <2>3. /\ row \in Record /\ row.at = clock /\ row.count = seen.copy.count
        /\ row.status = IF effective THEN seen.copy.status ELSE "needs_review"
    BY DEF Record, Dated, Statuses
  <2>4. strategies \in Seq(Card) /\ NewestActive(strategies) /\ Len(v.cards) <= Len(strategies)
    <3>1. CardOf(v.cards) \in 0..Len(v.cards)
      BY <1>2, CardRow
    <3>2. /\ Refresh(v.cards, CardOf(v.cards)) \in Seq(Card)
          /\ NewestActive(Refresh(v.cards, CardOf(v.cards)))
          /\ Len(Refresh(v.cards, CardOf(v.cards))) = Len(v.cards) + 1
      BY <1>2, <3>1, RefreshShape
    <3>3. Len(v.cards) \in Nat
      BY ShapeLengths
    <3> QED
      BY <1>2, <3>2, <3>3
  <2>5. lessons \in Seq(InsightRow) /\ Before(lessons)
    <3>1. Theme(seen.copy) \in Themes
      BY ThemeOfRecord DEF Record
    <3> QED
      BY <1>2, <3>1, PromoteShape
  <2> HIDE DEF row, strategies, lessons
  <2>6. /\ w \in Tables
        /\ w.actions = rated.actions /\ w.evaluations = rated.evaluations
        /\ w.cards = strategies /\ w.insights = lessons
        /\ Len(w.records) = Len(rated.records)
        /\ \A i \in 1..Len(rated.records) : w.records[i] = IF i = seen.row THEN row ELSE rated.records[i]
    <3>1. rated \in Tables /\ seen.row \in 1..Len(rated.records)
      BY <1>1
    <3> HIDE DEF w
    <3> QED
      BY <2>2, <2>3, <2>4, <2>5, <3>1, WrittenShape
  <2> HIDE DEF w
  <2>7. /\ Len(w.records) = Len(v.records)
        /\ \A i \in 1..Len(v.records) :
               /\ w.records[i] = IF i = seen.row THEN row ELSE v.records[i]
               /\ w.actions[i] = v.actions[i]
               /\ w.evaluations[i] = IF i = seen.row THEN verdict ELSE v.evaluations[i]
    BY <1>1, <2>6
  <2>8. Before(w.records)
    BY <1>2, <2>3, <2>7 DEF Before, Dated
  <2>9. Shape(w)
    BY <1>1, <1>2, <2>4, <2>5, <2>6, <2>8 DEF Shape
  <2>10. ASSUME NEW i \in 1..Len(v.records)
         PROVE  /\ w.records[i].at = clock \/ w.records[i] = v.records[i]
                /\ w.evaluations[i] = v.evaluations[i] \/ Reviewed(w, i)
                /\ \/ w.records[i].status \in {v.records[i].status, "needs_review"}
                   \/ i = seen.row /\ w.records[i].status = seen.copy.status /\ Reviewed(w, i)
                /\ \/ w.records[i].count = v.records[i].count
                   \/ i = seen.row /\ w.records[i].count = seen.copy.count
    BY <2>1, <2>3, <2>7 DEF Reviewed
  <2>11. Follows(v, w, seen, {})
    <3>1. Len(w.records) = Len(v.records) /\ Len(v.cards) <= Len(w.cards)
      BY <2>4, <2>6, <2>7
    <3>2. Len(v.records) <= Len(w.records) /\ \A i \in (Len(v.records) + 1)..Len(w.records) : FALSE
      BY <1>2, <3>1
    <3>3. \A i \in 1..Len(v.records) : w.actions[i] = v.actions[i]
      BY <2>7
    <3> QED
      BY <2>9, <2>10, <3>1, <3>2, <3>3 DEF Follows
  <2>12. SameCounts(v, w, seen)
    BY <2>7, <2>10 DEF SameCounts
  <2> QED
    BY <2>11, <2>12 DEF w
<1> QED
  BY <1>3, <1>4

\* The rows of one step of the evaluation are those that are there.
LEMMA RowOfReading ==
    ASSUME NEW v, Shape(v), NEW i \in 0..Len(v.records)
    PROVE  /\ RowOf(v.records, i).row = i
           /\ i # 0 => RowOf(v.records, i).copy = v.records[i]
           /\ Exact(v, RowOf(v.records, i)) /\ Reading(v, RowOf(v.records, i))
<1>1. Len(v.records) \in Nat /\ \A j \in 1..Len(v.records) : v.records[j] \in Record
  BY ShapeLengths
<1>2. RowOf(v.records, i).row = i /\ (i # 0 => RowOf(v.records, i).copy = v.records[i])
  BY <1>1 DEF RowOf, NoRow
<1> QED
  BY <1>1, <1>2 DEF Exact, Reading

\* The evaluation of any set of records gives tables that follow from those it
\* starts with: each step of the recursion stays among these.
LEMMA EvaluatedFollows ==
    ASSUME Dated, NEW v, Shape(v), NEW seen, Reading(v, seen), NEW own, NEW verdict \in Verdicts
    PROVE  LET w == Evaluated(v, own, seen, verdict)
           IN  Follows(v, w, seen, {}) /\ SameCounts(v, w, seen)
<1> DEFINE last == Len(v.records)
           \* the tables after the row i
           one(now, i) ==
               IF i \notin own THEN now
               ELSE Feedback(now, IF i = seen.row THEN seen ELSE RowOf(now.records, i), verdict)
           V == {w \in Tables : Follows(v, w, seen, {}) /\ SameCounts(v, w, seen)}
           step == [n \in 1..last |-> [w \in V |-> one(w, last + 1 - n)]]
           Defines(f) == f = [n \in 0..last |-> IF n = 0 THEN v ELSE one(f[n - 1], last + 1 - n)]
           after == CHOOSE f : Defines(f)
<1>1. last \in Nat /\ v \in V /\ seen.row \in 0..last
  BY ShapeLengths, FollowsItself DEF Shape, Reading
<1>2. ASSUME NEW w \in V, NEW i \in 1..last PROVE one(w, i) \in V
  <2>1. Follows(v, w, seen, {}) /\ SameCounts(v, w, seen) /\ Shape(w) /\ Len(w.records) = last
    BY DEF Follows, SameCounts
  <2>2. CASE i \notin own
    BY <2>2
  <2>3. CASE i \in own
    <3> DEFINE row == IF i = seen.row THEN seen ELSE RowOf(w.records, i)
               x == Feedback(w, row, verdict)
    <3>1. /\ row.row = i /\ row.copy \in Record
          /\ row = seen \/ Exact(w, row)
      <4>1. CASE i = seen.row
        BY <1>1, <4>1 DEF Reading
      <4>2. CASE i # seen.row
        <5>1. i \in 0..Len(w.records) /\ i # 0
          BY <1>1, <2>1
        <5>2. Exact(w, RowOf(w.records, i)) /\ Reading(w, RowOf(w.records, i)) /\ RowOf(w.records, i).row = i
          BY <2>1, <5>1, RowOfReading
        <5> QED
          BY <4>2, <5>1, <5>2 DEF Reading
      <4> QED
        BY <4>1, <4>2
    <3>2. one(w, i) = x
      BY <2>3
    <3> HIDE DEF row
    <3>3. row.row \in 1..Len(w.records)
      BY <2>1, <3>1
    <3>4. Follows(w, x, row, {}) /\ SameCounts(w, x, row)
      BY <2>1, <3>1, <3>3, FeedbackFollows
    <3> HIDE DEF x
    <3>5. Follows(v, x, seen, {})
      BY <1>1, <2>1, <3>1, <3>4, FollowsOn
    <3>6. SameCounts(v, x, seen)
      BY <2>1, <3>1, <3>4, SameCountsOn
    <3>7. x \in Tables
      BY <3>5 DEF Follows, Shape
    <3> QED
      BY <3>2, <3>5, <3>6, <3>7
  <2> QED
    BY <2>2, <2>3
<1>3. Evaluated(v, own, seen, verdict) = after[last]
  BY DEF Evaluated
<1> HIDE DEF V, one
<1>4. step \in [1..last -> [V -> V]]
  <2>1. \A n \in 1..last : last + 1 - n \in 1..last
    BY <1>1
  <2> QED
    BY <1>2, <2>1
<1>5. \A n \in 1..last, w \in V : step[n][w] = one(w, last + 1 - n)
  OBVIOUS
<1> HIDE DEF step, last
<1>6. PICK f \in [0..last -> V] : f[0] = v /\ \A n \in 1..last : f[n] = step[n][f[n - 1]]
  <2>1. last \in Nat /\ v \in V /\ step \in [1..last -> [V -> V]]
    BY <1>1, <1>4
  <2> QED
    BY <2>1, Recursion
<1>7. \A n \in 1..last : f[n] = one(f[n - 1], last + 1 - n)
  <2> SUFFICES ASSUME NEW n \in 1..last PROVE f[n] = one(f[n - 1], last + 1 - n)
    OBVIOUS
  <2>1. n - 1 \in 0..last
    BY <1>1
  <2>2. f[n - 1] \in V
    BY <1>6, <2>1
  <2> QED
    BY <1>5, <1>6, <2>2
<1>8. Defines(f)
  BY <1>1, <1>6, <1>7
<1>9. Defines(after)
  BY <1>8
<1> HIDE DEF after
<1>10. /\ after[0] = v
       /\ \A n \in 1..last : after[n] = one(after[n - 1], last + 1 - n)
  BY <1>1, <1>9
<1> DEFINE S == {n \in Nat : after[n] \in V}
<1>11. 0 \in S
  BY <1>1, <1>10
<1>12. ASSUME NEW n \in 0..last, n \in S, n < last PROVE n + 1 \in S
  <2>1. n + 1 \in 1..last /\ (n + 1) - 1 = n /\ last + 1 - (n + 1) \in 1..last
    BY <1>1, <1>12
  <2>2. after[n + 1] = one(after[n], last + 1 - (n + 1))
    BY <1>10, <2>1
  <2>3. after[n + 1] \in V
    BY <1>2, <1>12, <2>1, <2>2
  <2> QED
    BY <2>1, <2>3
<1> HIDE DEF S
<1>13. \A n \in 0..last : n \in S
  BY <1>1, <1>11, <1>12, InductionUpTo, Zenon
<1>14. last \in S
  BY <1>1, <1>13
<1> QED
  BY <1>3, <1>14 DEF S, V

-----------------------------------------------------------------------------
(* A trigger.                                                               *)

\* What a trigger has made of the record it aggregates into has lost what was
\* written to it since it was read.
LostBy(v, seen) == IF Exact(v, seen) THEN {} ELSE {seen.row}

\* A trigger adds a record, or counts as the duplicate of one: either way it is
\* counted, and only records of its own dedupe key come to be.
TriggeredOnce(v, w, seen, key) ==
    /\ Follows(v, w, NoRow, LostBy(v, seen))
    /\ Exact(v, seen) =>
         /\ Counted(w.records) = Counted(v.records) + 1
         /\ \A other : other # key => (Known(w.records, other) <=> Known(v.records, other))

\* The step of a duplicate.
LEMMA AggregateShape ==
    ASSUME Dated, NEW v, Shape(v), NEW seen, seen.row \in 1..Len(v.records), seen.copy \in Record, NEW key
    PROVE  TriggeredOnce(v, Aggregate(v, seen), seen, key)
<1> DEFINE row == [seen.copy EXCEPT !.count = @ + 1, !.until = day + Cooldown(seen.copy), !.at = clock]
           w == Aggregate(v, seen)
           rows == [v.records EXCEPT ![seen.row] = row]
<1>1. /\ row \in Record /\ row.at = clock /\ row.count = seen.copy.count + 1
      /\ row.status = seen.copy.status /\ row.key = seen.copy.key
  <2>1. Cooldown(seen.copy) \in Nat /\ day \in Nat /\ clock \in Nat /\ seen.copy.count \in Nat
    BY DEF Record, Dated, Cooldown
  <2>2. seen.copy.count + 1 \in Nat /\ day + Cooldown(seen.copy) \in Nat
    BY <2>1
  <2> QED
    BY <2>1, <2>2 DEF Record
<1> HIDE DEF row
<1>2. /\ Len(v.records) \in Nat /\ Len(v.actions) = Len(v.records) /\ Len(v.cards) \in Nat
      /\ v.records \in Seq(Record)
      /\ \A i \in 1..Len(v.records) : v.records[i] \in Record
      /\ Before(v.records) /\ Before(v.insights) /\ NewestActive(v.cards)
      /\ DOMAIN v.records = 1..Len(v.records)
  BY ShapeLengths, TablesFields DEF Shape
<1>3. /\ rows \in Seq(Record) /\ Len(rows) = Len(v.records)
      /\ \A i \in 1..Len(v.records) : rows[i] = IF i = seen.row THEN row ELSE v.records[i]
  BY <1>1, <1>2, RowWritten
<1>4. w = [v EXCEPT !.records = rows]
  BY DEF Aggregate, row
<1> HIDE DEF rows, w
<1>5. /\ w \in Tables /\ w.records = rows
      /\ w.actions = v.actions /\ w.evaluations = v.evaluations
      /\ w.cards = v.cards /\ w.insights = v.insights
  BY <1>3, <1>4 DEF Shape, Tables
<1>6. Before(w.records)
  BY <1>1, <1>2, <1>3, <1>5 DEF Before, Dated
<1>7. Shape(w)
  BY <1>2, <1>3, <1>5, <1>6 DEF Shape
<1>8. \A i \in (Len(v.records) + 1)..Len(w.records) : FALSE
  BY <1>2, <1>3, <1>5
<1>9. Follows(v, w, NoRow, LostBy(v, seen))
  BY <1>1, <1>2, <1>3, <1>5, <1>7, <1>8 DEF Follows, LostBy, Exact
<1>10. ASSUME Exact(v, seen)
       PROVE  /\ Counted(w.records) = Counted(v.records) + 1
              /\ \A other : Known(w.records, other) <=> Known(v.records, other)
  <2>1. seen.copy = v.records[seen.row]
    BY <1>2, <1>10 DEF Exact
  <2>2. \A i \in 1..Len(v.records) :
            /\ v.records[i].count \in Nat
            /\ w.records[i].count = IF i = seen.row THEN v.records[i].count + 1 ELSE v.records[i].count
            /\ w.records[i].key = v.records[i].key
    BY <1>1, <1>2, <1>3, <1>5, <2>1 DEF Record
  <2>3. Len(w.records) = Len(v.records) /\ seen.row \in 0..Len(v.records) /\ seen.row # 0
    BY <1>2, <1>3, <1>5
  <2>4. Counted(w.records) = Counted(v.records) + 1
    BY <1>2, <2>2, <2>3, CountsCompared
  <2>5. DOMAIN w.records = 1..Len(v.records)
    BY <1>3, <1>5, RowAt
  <2> QED
    BY <1>2, <2>2, <2>4, <2>5 DEF Known
<1> QED
  BY <1>9, <1>10 DEF TriggeredOnce, w

\* The step of an occurrence that no open record takes: a new one, whose action
\* is executed unless it needs a review.
LEMMA CreateShape ==
    ASSUME Dated, NEW v, Shape(v), NEW seen, seen.row = 0, NEW o \in Occurrences,
           NEW card \in 0..Len(v.cards)
    PROVE  TriggeredOnce(v, CreateRecord(v, o, card), seen, o.key)
<1> DEFINE Marks == {"pending", "effective", "ineffective", "inconclusive"}
           Acts == {"proposed", "executed", "blocked"}
           record == [kind |-> o.kind, task |-> o.task, cause |-> o.cause, key |-> o.key,
                      status |-> FinalStatus(o), count |-> 0,
                      until |-> day + Cooldown(o), at |-> clock]
           rows == Append(v.records, record)
           acts == Append(v.actions, Executed(o))
           marks == Append(v.evaluations, "pending")
           added == [v EXCEPT !.records = rows, !.actions = acts, !.evaluations = marks]
           w == CreateRecord(v, o, card)
           last == Len(v.records)
<1>1. /\ o.kind \in {"task", "goal", "workflow"} /\ o.task \in Tasks \cup {"none"}
      /\ o.cause \in Causes \cup {"workflow_issue"} /\ o.key \in DedupeKeys
  BY DEF Occurrences
<1>2. /\ Executed(o) \in Acts /\ FinalStatus(o) \in Statuses
      /\ Executed(o) = "blocked" => FinalStatus(o) = "needs_review"
  BY DEF Executed, FinalStatus, Statuses
<1>3. /\ record \in Record /\ record.at = clock /\ record.count = 0
      /\ record.status = FinalStatus(o) /\ record.key = o.key
  <2>1. day + Cooldown(o) \in Nat /\ clock \in Nat
    BY DEF Dated, Cooldown
  <2> QED
    BY <1>1, <1>2, <2>1 DEF Record
<1> HIDE DEF record
<1>4. /\ last \in Nat /\ Len(v.actions) = last /\ Len(v.evaluations) = last
      /\ \A i \in 1..last : v.records[i] \in Record
      /\ DOMAIN v.records = 1..last
      /\ Before(v.records) /\ Before(v.insights) /\ NewestActive(v.cards)
  BY ShapeLengths DEF Shape
<1>0. Len(v.cards) \in Nat
  BY ShapeLengths
<1>5. /\ v.records \in Seq(Record) /\ v.actions \in Seq(Acts) /\ v.evaluations \in Seq(Marks)
      /\ v.cards \in Seq(Card) /\ v.insights \in Seq(InsightRow)
  BY TablesFields DEF Shape, InsightRow
<1>6. /\ rows \in Seq(Record) /\ Len(rows) = last + 1
      /\ \A i \in 1..last : rows[i] = v.records[i]
      /\ rows[last + 1] = record
  BY <1>3, <1>5, RowAdded
<1>7. /\ acts \in Seq(Acts) /\ Len(acts) = last + 1
      /\ \A i \in 1..last : acts[i] = v.actions[i]
      /\ acts[last + 1] = Executed(o)
  BY <1>2, <1>4, <1>5, RowAdded
<1>8. /\ marks \in Seq(Marks) /\ Len(marks) = last + 1
      /\ \A i \in 1..last : marks[i] = v.evaluations[i]
      /\ marks[last + 1] = "pending"
  <2>1. "pending" \in Marks
    OBVIOUS
  <2> QED
    BY <2>1, <1>4, <1>5, RowAdded
<1>9. w = IF FinalStatus(o) = "needs_review" THEN added ELSE Learn(added, o, card)
  BY DEF CreateRecord, record
<1> HIDE DEF rows, acts, marks, w, Marks, Acts
<1>10. /\ added \in Tables
       /\ added.records = rows /\ added.actions = acts /\ added.evaluations = marks
       /\ added.cards = v.cards /\ added.insights = v.insights
  BY <1>6, <1>7, <1>8 DEF Shape, Tables, Marks, Acts
<1> HIDE DEF added
<1>11. /\ w \in Tables
       /\ w.records = rows /\ w.actions = acts /\ w.evaluations = marks
       /\ Before(w.insights) /\ NewestActive(w.cards) /\ Len(v.cards) <= Len(w.cards)
  <2>1. CASE FinalStatus(o) = "needs_review"
    BY <1>0, <1>4, <1>9, <1>10, <2>1
  <2>2. CASE FinalStatus(o) # "needs_review"
    <3> DEFINE strategies == Refresh(v.cards, card)
               lessons == Append(v.insights, Insight(Theme(o)))
    <3>1. strategies \in Seq(Card) /\ NewestActive(strategies) /\ Len(v.cards) <= Len(strategies)
      BY <1>0, <1>4, <1>5, RefreshShape
    <3>2. Insight(Theme(o)) \in InsightRow /\ Insight(Theme(o)).at = clock
      BY <1>1, ThemeOfRecord, InsightShape
    <3>3. /\ lessons \in Seq(InsightRow) /\ Len(lessons) = Len(v.insights) + 1
          /\ \A i \in 1..Len(v.insights) : lessons[i] = v.insights[i]
          /\ lessons[Len(v.insights) + 1] = Insight(Theme(o))
      BY <1>5, <3>2, RowAdded
    <3>4. Before(lessons)
      <4>1. Len(v.insights) \in Nat
        BY <1>5, RowAt, Zenon
      <4> QED
        BY <1>4, <3>2, <3>3, <4>1 DEF Before, Dated
    <3>5. w = [added EXCEPT !.cards = strategies, !.insights = lessons]
      BY <1>9, <1>10, <2>2 DEF Learn
    <3> HIDE DEF strategies, lessons
    <3> QED
      BY <1>10, <3>1, <3>3, <3>4, <3>5 DEF Tables, InsightRow
  <2> QED
    BY <2>1, <2>2
<1>12. Before(rows)
  BY <1>3, <1>4, <1>6 DEF Before, Dated
<1>13. Shape(w)
  BY <1>6, <1>7, <1>8, <1>11, <1>12 DEF Shape
<1>14. Exact(v, seen) /\ LostBy(v, seen) = {}
  BY DEF Exact, LostBy
<1>15. /\ Len(w.records) = last + 1 /\ DOMAIN w.records = 1..(last + 1)
       /\ \A i \in 1..last : w.records[i] = v.records[i]
       /\ w.records[last + 1] = record
  BY <1>6, <1>11, RowAt
<1>16. /\ \A i \in 1..last : w.actions[i] = v.actions[i] /\ w.evaluations[i] = v.evaluations[i]
       /\ w.actions[last + 1] = Executed(o) /\ w.evaluations[last + 1] = "pending"
  BY <1>7, <1>8, <1>11
<1>17. ASSUME NEW i \in (last + 1)..Len(w.records) PROVE DueReview(w, i)
  <2>1. i = last + 1 /\ last \in Nat
    BY <1>4, <1>15
  <2> QED
    BY <1>2, <1>3, <1>15, <1>16, <2>1 DEF DueReview
<1>18. Follows(v, w, NoRow, {})
  <2>1. Len(v.records) <= Len(w.records) /\ Len(v.cards) <= Len(w.cards)
    BY <1>4, <1>11, <1>15
  <2> QED
    BY <1>13, <1>15, <1>16, <1>17, <2>1 DEF Follows
<1>19. \A i \in 1..last : v.records[i].count \in Nat
  BY <1>4 DEF Record
<1>20. Counted(w.records) = Counted(v.records) + 1
  <2>1. \A i \in 1..Len(w.records) : w.records[i].count \in Nat
    <3> SUFFICES ASSUME NEW i \in 1..Len(w.records) PROVE w.records[i].count \in Nat
      OBVIOUS
    <3>1. i \in 1..last \/ i = last + 1
      BY <1>4, <1>15
    <3> QED
      BY <1>3, <1>15, <1>19, <3>1
  <2>2. Counted(w.records) = Counted(v.records) + 1 + w.records[Len(w.records)].count
    BY <1>4, <1>15, <2>1, CountsAppended
  <2>3. w.records[Len(w.records)].count = 0
    BY <1>3, <1>15
  <2>4. Counted(v.records) \in Nat
    BY <1>4, <1>19, CountedNumber
  <2> QED
    BY <2>2, <2>3, <2>4
<1>21. ASSUME NEW other, other # o.key
       PROVE  Known(w.records, other) <=> Known(v.records, other)
  <2>1. last \in Nat /\ DOMAIN v.records = 1..last /\ record.key # other
    BY <1>3, <1>4, <1>21
  <2>2. \A i \in 1..(last + 1) : i \in 1..last \/ i = last + 1
    BY <2>1
  <2>3. \A i \in 1..last : i \in 1..(last + 1)
    BY <2>1
  <2> QED
    BY <1>15, <2>1, <2>2, <2>3, Zenon DEF Known
<1>22. TriggeredOnce(v, w, seen, o.key)
  BY <1>14, <1>18, <1>20, <1>21 DEF TriggeredOnce
<1> QED
  BY <1>22 DEF w

\* A trigger that has read a record, or none, and any card.
LEMMA TriggerFollows ==
    ASSUME Dated, NEW v, Shape(v), NEW seen, Reading(v, seen), NEW o \in Occurrences,
           NEW card \in 0..Len(v.cards)
    PROVE  TriggeredOnce(v, Trigger(v, o, seen, card), seen, o.key)
<1>1. Len(v.records) \in Nat
  BY ShapeLengths
<1>2. CASE seen.row = 0
  BY <1>2, CreateShape DEF Trigger
<1>3. CASE seen.row # 0
  <2>1. seen.row \in 1..Len(v.records) /\ seen.copy \in Record
    BY <1>1, <1>3 DEF Reading
  <2> QED
    BY <1>3, <2>1, AggregateShape DEF Trigger
<1> QED
  BY <1>2, <1>3

\* A later trigger reads the rows as they are.
LEMMA TriggerNextFollows ==
    ASSUME Dated, NEW v, Shape(v), NEW o \in Occurrences
    PROVE  LET w == TriggerNext(v, o)
           IN  /\ Follows(v, w, NoRow, {})
               /\ Counted(w.records) =
                     IF Known(v.records, o.key) THEN Counted(v.records) ELSE Counted(v.records) + 1
<1> DEFINE w == TriggerNext(v, o)
           row == RowOf(v.records, OpenRecord(v.records, o))
<1>1. CASE Known(v.records, o.key)
  BY <1>1, FollowsItself DEF TriggerNext
<1>2. CASE ~Known(v.records, o.key)
  <2>1. v.records \in Seq(Record) /\ v.cards \in Seq(Card) /\ Before(v.records)
    BY TablesFields DEF Shape
  <2>2. OpenRecord(v.records, o) \in 0..Len(v.records)
    BY <2>1, OpenRecordRow
  <2>3. Exact(v, row) /\ Reading(v, row)
    BY <2>2, RowOfReading
  <2>4. CardOf(v.cards) \in 0..Len(v.cards)
    BY <2>1, CardRow
  <2> HIDE DEF row
  <2>5. TriggeredOnce(v, Trigger(v, o, row, CardOf(v.cards)), row, o.key)
    BY <2>3, <2>4, TriggerFollows
  <2>6. w = Trigger(v, o, row, CardOf(v.cards))
    BY <1>2 DEF TriggerNext, row
  <2> HIDE DEF w
  <2>7. Follows(v, w, NoRow, {}) /\ Counted(w.records) = Counted(v.records) + 1
    BY <2>3, <2>5, <2>6 DEF TriggeredOnce, LostBy
  <2> QED
    BY <1>2, <2>7 DEF w
<1> QED
  BY <1>1, <1>2

\* The triggers of a transaction.
TriggersOf(t) ==
    /\ Len(t) \in {1, 2} /\ \A i \in 1..Len(t) : t[i] \in Occurrences
    /\ Len(t) = 2 => t[1].key # t[2].key

\* All triggers of a transaction are counted, unless the first has lost a count.
LEMMA TriggeredFollows ==
    ASSUME Dated, NEW v, Shape(v), NEW seen, Reading(v, seen), NEW t, TriggersOf(t),
           NEW card \in 0..Len(v.cards)
    PROVE  LET w == Triggered(v, t, seen, card)
           IN  /\ Follows(v, w, NoRow, LostBy(v, seen))
               /\ Exact(v, seen) => Counted(w.records) = Counted(v.records)
                     + (IF Len(t) = 1 \/ Known(v.records, t[2].key) THEN 1 ELSE 2)
<1> DEFINE first == Trigger(v, t[1], seen, card)
           w == Triggered(v, t, seen, card)
           x == TriggerNext(first, t[2])
<1>1. t[1] \in Occurrences /\ (Len(t) # 1 => t[2] \in Occurrences /\ t[1].key # t[2].key)
  BY DEF TriggersOf
<1>2. TriggeredOnce(v, first, seen, t[1].key)
  BY <1>1, TriggerFollows
<1>3. CASE Len(t) = 1
  BY <1>2, <1>3 DEF Triggered, TriggeredOnce
<1>4. CASE Len(t) # 1
  <2>1. w = x
    BY <1>4 DEF Triggered
  <2> HIDE DEF first
  <2>2. Shape(first) /\ Follows(v, first, NoRow, LostBy(v, seen))
    BY <1>2 DEF TriggeredOnce, Follows
  <2>3. /\ Follows(first, x, NoRow, {})
        /\ Counted(x.records) =
              IF Known(first.records, t[2].key) THEN Counted(first.records) ELSE Counted(first.records) + 1
    BY <1>1, <1>4, <2>2, TriggerNextFollows
  <2> HIDE DEF x, w
  <2>4. NoRow.row = 0 /\ NoRow.row \in 0..Len(v.records) /\ Len(v.records) \in Nat
    BY ShapeLengths DEF NoRow
  <2>5. Follows(v, x, NoRow, LostBy(v, seen))
    BY <2>2, <2>3, <2>4, FollowsOn
  <2>6. ASSUME Exact(v, seen)
        PROVE  Counted(x.records) = Counted(v.records) + (IF Known(v.records, t[2].key) THEN 1 ELSE 2)
    <3>1. Counted(first.records) = Counted(v.records) + 1
      BY <1>2, <2>6 DEF TriggeredOnce
    <3>2. Known(first.records, t[2].key) <=> Known(v.records, t[2].key)
      BY <1>1, <1>2, <1>4, <2>6 DEF TriggeredOnce
    <3>3. Counted(v.records) \in Nat
      BY ShapeLengths, CountedNumber DEF Record
    <3> QED
      BY <2>3, <3>1, <3>2, <3>3
  <2> QED
    BY <1>4, <2>1, <2>5, <2>6 DEF w
<1> QED
  BY <1>3, <1>4

-----------------------------------------------------------------------------
(* A transaction.                                                           *)

ReflectionRequests == Updates \cup Replans \cup Periodics \cup FailedRuns \cup Resolves \cup Overrides

\* The tables as they are.
Rows == [records |-> records, actions |-> actions, evaluations |-> evaluations,
         cards |-> cards, insights |-> insights]

\* What a transaction has read is still there, and an operator decides on it.
HandReads(h) ==
    /\ Reading(Rows, h.seen) /\ h.card \in 0..Len(cards)
    /\ h.seen.row # 0 => h.seen.copy.at < clock
    /\ h.request.op \in {"resolve", "override"} => h.request.row = h.seen.row /\ h.seen.row # 0

\* The transaction has written an older copy over the record i.
Overwritten(h, w, i) == i = h.seen.row /\ h.seen.copy # records[i] /\ w.records[i] # records[i]

\* What a transaction promises of the tables it leaves.
Processed(h, w) ==
    /\ Shape(w) /\ Len(records) <= Len(w.records) /\ Len(cards) <= Len(w.cards)
    /\ \A i \in 1..Len(records) :
           \/ Overwritten(h, w, i)
           \/ h.request.op = "resolve" /\ i = h.request.row
           \/ DueReview(Rows, i) => DueReview(w, i)
    /\ \A i \in (Len(records) + 1)..Len(w.records) : DueReview(w, i)
    /\ (\A i \in 1..Len(records) : ~Overwritten(h, w, i)) =>
           Counted(w.records) = Counted(records) + Reflected(h.request)

\* A request has no trigger, one, or two of different dedupe keys.
LEMMA TriggersShape ==
    ASSUME NEW r \in ReflectionRequests, NEW tried
    PROVE  Triggers(r, tried) = <<>> \/ TriggersOf(Triggers(r, tried))
<1>1. CASE r \in Updates
  <2> DEFINE task == Occurrence("task", r.task, r.cause, <<"task", r.task, r.outcome>>)
             goal == Occurrence("goal", r.task, r.cause, <<"goal", r.task, r.outcome>>)
  <2>1. task \in Occurrences /\ goal \in Occurrences /\ task.key # goal.key
    <3>1. r.task \in Tasks /\ r.outcome \in Outcomes /\ r.cause \in Causes
      BY <1>1 DEF Updates
    <3>2. <<"task", r.task, r.outcome>> \in DedupeKeys /\ <<"goal", r.task, r.outcome>> \in DedupeKeys
      BY <3>1 DEF DedupeKeys
    <3> QED
      BY <3>1, <3>2 DEF Occurrence, Occurrences
  <2>2. r.op = "update"
    BY <1>1 DEF Updates
  <2>3. Triggers(r, tried) \in {<<>>, <<task>>, <<task, goal>>}
    BY <2>2 DEF Triggers
  <2> HIDE DEF task, goal
  <2>4. TriggersOf(<<task>>) /\ TriggersOf(<<task, goal>>)
    BY <2>1 DEF TriggersOf
  <2> QED
    BY <2>3, <2>4
<1>2. CASE r \in Replans
  <2> DEFINE o == Occurrence("goal", IF r.job \in Repairs THEN r.job ELSE "none",
                             r.cause, <<"replan", r.job>>)
  <2>1. r.op = "replan" /\ r.job \in Repairs \cup FullReplans /\ r.cause \in Causes
    BY <1>2 DEF Replans
  <2>2. o \in Occurrences
    <3>1. <<"replan", r.job>> \in DedupeKeys
      BY <2>1 DEF DedupeKeys
    <3> QED
      BY <2>1, <3>1, ReflectionsAssumption DEF Occurrence, Occurrences
  <2>3. Triggers(r, tried) = <<o>>
    BY <2>1 DEF Triggers
  <2> HIDE DEF o
  <2>4. TriggersOf(<<o>>)
    BY <2>2 DEF TriggersOf
  <2> QED
    BY <2>3, <2>4
<1>3. CASE r \in Periodics
  <2> DEFINE o == Occurrence("goal", "none", r.cause, <<"day", r.number>>)
  <2>1. r.op = "periodic" /\ r.number \in Nat /\ r.cause \in Causes
    BY <1>3 DEF Periodics
  <2>2. o \in Occurrences
    <3>1. <<"day", r.number>> \in DedupeKeys
      BY <2>1 DEF DedupeKeys
    <3> QED
      BY <2>1, <3>1 DEF Occurrence, Occurrences
  <2>3. Triggers(r, tried) = <<o>>
    BY <2>1 DEF Triggers
  <2> HIDE DEF o
  <2>4. TriggersOf(<<o>>)
    BY <2>2 DEF TriggersOf
  <2> QED
    BY <2>3, <2>4
<1>4. CASE r \in FailedRuns
  <2> DEFINE o == Occurrence("workflow", "none", r.cause, <<"run", r.number>>)
  <2>1. r.op = "run" /\ r.number \in Nat /\ r.cause = "workflow_issue"
    BY <1>4 DEF FailedRuns
  <2>2. o \in Occurrences
    <3>1. <<"run", r.number>> \in DedupeKeys
      BY <2>1 DEF DedupeKeys
    <3> QED
      BY <2>1, <3>1 DEF Occurrence, Occurrences
  <2>3. Triggers(r, tried) = <<o>>
    BY <2>1 DEF Triggers
  <2> HIDE DEF o
  <2>4. TriggersOf(<<o>>)
    BY <2>2 DEF TriggersOf
  <2> QED
    BY <2>3, <2>4
<1>5. CASE r \in Resolves \cup Overrides
  BY <1>5 DEF Resolves, Overrides, Triggers
<1> QED
  BY <1>1, <1>2, <1>3, <1>4, <1>5 DEF ReflectionRequests

\* A decision of the operator writes one record.
Decided(v, k, row) == [v EXCEPT !.records[k] = row]

\* What it writes.
LEMMA DecidedShape ==
    ASSUME Dated, NEW v, Shape(v), NEW k \in 1..Len(v.records), NEW row \in Record, row.at <= clock
    PROVE  LET w == Decided(v, k, row)
           IN  /\ Shape(w) /\ Len(w.records) = Len(v.records)
               /\ w.actions = v.actions /\ w.evaluations = v.evaluations /\ w.cards = v.cards
               /\ \A i \in 1..Len(v.records) : w.records[i] = IF i = k THEN row ELSE v.records[i]
<1> DEFINE rows == [v.records EXCEPT ![k] = row]
           w == Decided(v, k, row)
<1>1. /\ v.records \in Seq(Record) /\ Len(v.records) \in Nat
      /\ Before(v.records) /\ Before(v.insights) /\ NewestActive(v.cards)
  BY ShapeLengths, TablesFields DEF Shape
<1>2. /\ rows \in Seq(Record) /\ Len(rows) = Len(v.records)
      /\ \A i \in 1..Len(v.records) : rows[i] = IF i = k THEN row ELSE v.records[i]
  BY <1>1, RowWritten
<1>3. w = [v EXCEPT !.records = rows]
  BY DEF Decided
<1> HIDE DEF rows, w
<1>4. /\ w \in Tables /\ w.records = rows
      /\ w.actions = v.actions /\ w.evaluations = v.evaluations
      /\ w.cards = v.cards /\ w.insights = v.insights
  BY <1>2, <1>3 DEF Shape, Tables
<1>5. Before(w.records)
  BY <1>1, <1>2, <1>4 DEF Before
<1>6. Shape(w)
  BY <1>1, <1>2, <1>4, <1>5 DEF Shape
<1> QED
  BY <1>2, <1>4, <1>6 DEF w

\* A decision, which may write an older copy over the record it is about.
LEMMA DecisionProcessed ==
    ASSUME Dated, Shape(Rows), NEW h, HandReads(h), h.request \in Resolves \cup Overrides,
           \A i \in 1..Len(records) : records[i].at < clock
    PROVE  Processed(h, Process(h, Rows))
<1> DEFINE r == h.request
           k == h.seen.row
           row == IF r.op = "resolve" THEN [h.seen.copy EXCEPT !.status = r.status, !.at = clock]
                  ELSE h.seen.copy
           w == Process(h, Rows)
<1>1. /\ Rows.records = records /\ Rows.actions = actions /\ Rows.evaluations = evaluations
      /\ Rows.cards = cards
  BY DEF Rows
<1>2. /\ Len(records) \in Nat /\ \A i \in 1..Len(records) : records[i] \in Record
      /\ DOMAIN records = 1..Len(records) /\ Len(cards) \in Nat
  BY <1>1, ShapeLengths
<1>3. r.op \in {"resolve", "override"} /\ (r.op = "resolve" => r.status \in Resolutions)
  BY DEF Resolves, Overrides
<1>4. k \in 1..Len(records) /\ r.row = k /\ h.seen.copy \in Record /\ h.seen.copy.at < clock
  BY <1>1, <1>2, <1>3 DEF HandReads, Reading
<1>5. /\ row \in Record /\ row.at <= clock /\ row.count = h.seen.copy.count
      /\ r.op = "resolve" => row.at = clock
      /\ r.op # "resolve" => row = h.seen.copy
  <2>1. r.op = "resolve" => r.status \in Statuses
    BY <1>3, ReflectionsAssumption
  <2>2. CASE r.op = "resolve"
    <3> DEFINE copy == [h.seen.copy EXCEPT !.status = r.status, !.at = clock]
    <3>1. copy \in Record /\ copy.at = clock /\ copy.count = h.seen.copy.count
      BY <1>4, <2>1, <2>2 DEF Record, Dated
    <3>2. row = copy
      BY <2>2
    <3> QED
      BY <2>2, <3>1, <3>2 DEF Dated
  <2>3. CASE r.op # "resolve"
    <3>1. row = h.seen.copy
      BY <2>3
    <3>2. h.seen.copy.at \in Nat
      BY <1>4 DEF Record
    <3> QED
      BY <1>4, <2>3, <3>1, <3>2 DEF Dated
  <2> QED
    BY <2>2, <2>3
<1>6. w = Decided(Rows, k, row)
  <2>1. CASE r.op = "resolve"
    BY <1>4, <2>1 DEF Process, Decided
  <2>2. CASE r.op = "override"
    BY <1>4, <2>2 DEF Process, Decided
  <2> QED
    BY <1>3, <2>1, <2>2
<1> HIDE DEF row, w
<1>7. /\ Shape(w) /\ Len(w.records) = Len(records)
      /\ w.actions = actions /\ w.evaluations = evaluations /\ w.cards = cards
      /\ \A i \in 1..Len(records) : w.records[i] = IF i = k THEN row ELSE records[i]
  BY <1>1, <1>4, <1>5, <1>6, DecidedShape
<1>8. \A i \in (Len(records) + 1)..Len(w.records) : FALSE
  BY <1>2, <1>7
<1>9. ASSUME NEW i \in 1..Len(records)
      PROVE  Overwritten(h, w, i) \/ (r.op = "resolve" /\ i = r.row) \/ (DueReview(Rows, i) => DueReview(w, i))
  BY <1>1, <1>3, <1>4, <1>5, <1>7 DEF Overwritten, DueReview
<1>10. ASSUME \A i \in 1..Len(records) : ~Overwritten(h, w, i)
       PROVE  Counted(w.records) = Counted(records) + Reflected(r)
  <2>1. h.seen.copy = records[k]
    <3>1. h.seen.copy = records[k] \/ row = records[k]
      BY <1>4, <1>7, <1>10 DEF Overwritten
    <3> QED
      BY <1>2, <1>4, <1>5, <3>1 DEF Record, Dated
  <2>2. \A i \in 1..Len(records) : records[i].count \in Nat /\ w.records[i].count = records[i].count
    BY <1>2, <1>5, <1>7, <2>1 DEF Record
  <2>3. 0 \in 0..Len(records) /\ \A i \in 1..Len(records) : i # 0
    BY <1>2
  <2>4. Counted(w.records) = Counted(records)
    BY <1>2, <1>7, <2>2, <2>3, CountsCompared
  <2>5. Reflected(r) = 0
    BY <1>3 DEF Reflected, Triggers
  <2>6. Counted(records) \in Nat
    BY <1>2, <2>2, CountedNumber
  <2> QED
    BY <2>4, <2>5, <2>6
<1>11. Processed(h, w)
  BY <1>2, <1>7, <1>8, <1>9, <1>10 DEF Processed
<1> QED
  BY <1>11 DEF w

\* Tables that follow from those there are wait for a review where these do,
\* unless an older copy has been written.
LEMMA FollowsProcessed ==
    ASSUME Dated, Shape(Rows), NEW h, HandReads(h),
           \A i \in 1..Len(records) : records[i].at < clock,
           NEW w, NEW seen \in {h.seen, NoRow}, NEW lost \in {{}, LostBy(Rows, h.seen)},
           Follows(Rows, w, seen, lost), NEW i \in 1..Len(records)
    PROVE  Overwritten(h, w, i) \/ (DueReview(Rows, i) => DueReview(w, i))
<1>1. Rows.records = records /\ Rows.actions = actions /\ Rows.evaluations = evaluations
  BY DEF Rows
<1>2. Len(records) \in Nat /\ records[i] \in Record /\ records[i].at \in Nat /\ records[i].at # clock /\ i # 0
  <2>1. Len(records) \in Nat /\ records[i] \in Record
    BY <1>1, ShapeLengths
  <2>2. records[i].at \in Nat
    BY <2>1 DEF Record
  <2>3. records[i].at < clock
    OBVIOUS
  <2> QED
    BY <2>1, <2>2, <2>3 DEF Dated
<1>3. /\ w.actions[i] = actions[i]
      /\ w.records[i].at = clock \/ (w.records[i] = records[i] /\ i \notin lost)
      /\ i \notin lost =>
           /\ w.evaluations[i] = evaluations[i] \/ Reviewed(w, i)
           /\ \/ w.records[i].status \in {records[i].status, "needs_review"}
              \/ i = seen.row /\ w.records[i].status = seen.copy.status /\ Reviewed(w, i)
  BY <1>1 DEF Follows
<1>4. CASE i \in lost
  <2>1. ~Exact(Rows, h.seen) /\ i = h.seen.row
    BY <1>4 DEF LostBy
  <2> QED
    BY <1>1, <1>2, <1>3, <1>4, <2>1 DEF Overwritten, Exact
<1>5. CASE i \notin lost
  <2>1. seen.row = i => seen = h.seen
    BY <1>2 DEF NoRow
  <2>2. CASE i = h.seen.row /\ h.seen.copy # records[i]
    BY <1>1, <1>3, <1>5, <2>2 DEF Overwritten, DueReview, Reviewed
  <2>3. CASE i # h.seen.row \/ h.seen.copy = records[i]
    <3>1. /\ w.evaluations[i] = evaluations[i] \/ Reviewed(w, i)
          /\ w.records[i].status \in {records[i].status, "needs_review"}
      BY <1>3, <1>5, <2>1, <2>3
    <3> QED
      BY <1>1, <1>3, <3>1 DEF DueReview, Reviewed
  <2> QED
    BY <2>2, <2>3
<1> QED
  BY <1>4, <1>5

\* The triggers of a transaction, and the evaluation of outcomes after them.
LEMMA ReflectionProcessed ==
    ASSUME Dated, Shape(Rows), NEW h, HandReads(h), h.request \in ReflectionRequests,
           h.request.op \notin {"resolve", "override"},
           \A i \in 1..Len(records) : records[i].at < clock
    PROVE  Processed(h, Process(h, Rows))
<1> DEFINE r == h.request
           t == Triggers(r, Tried(r))
           verdict == Verdict(Recent(Tried(r)))
           w == Process(h, Rows)
<1>1. Rows.records = records /\ Rows.cards = cards
  BY DEF Rows
<1>2. /\ Len(records) \in Nat /\ \A i \in 1..Len(records) : records[i] \in Record
      /\ \A i \in 1..Len(records) : i # 0 /\ records[i].count \in Nat
  <2>1. Len(records) \in Nat /\ \A i \in 1..Len(records) : records[i] \in Record
    BY <1>1, ShapeLengths
  <2> QED
    BY <2>1 DEF Record
<1>3. verdict \in Verdicts
  BY DEF Verdict, Verdicts
<1>4. Reading(Rows, h.seen) /\ h.card \in 0..Len(Rows.cards)
  BY <1>1 DEF HandReads
<1>5. Counted(records) \in Nat
  BY <1>2, CountedNumber
<1> HIDE DEF verdict
<1>6. ASSUME NEW seen \in {h.seen, NoRow}, NEW lost \in {{}, LostBy(Rows, h.seen)},
             Follows(Rows, w, seen, lost),
             (\A i \in 1..Len(records) : ~Overwritten(h, w, i)) =>
                 Counted(w.records) = Counted(records) + Reflected(r)
      PROVE  Processed(h, w)
  <2> HIDE DEF w
  <2>1. \A i \in 1..Len(records) : Overwritten(h, w, i) \/ (DueReview(Rows, i) => DueReview(w, i))
    BY <1>6, FollowsProcessed
  <2>2. /\ Shape(w) /\ Len(records) <= Len(w.records) /\ Len(cards) <= Len(w.cards)
        /\ \A i \in (Len(records) + 1)..Len(w.records) : DueReview(w, i)
    BY <1>1, <1>6 DEF Follows
  <2> QED
    BY <1>6, <2>1, <2>2 DEF Processed
<1>7. CASE t = <<>>
  <2>1. w = Evaluated(Rows, Own(r, Rows.records), h.seen, verdict)
    BY <1>7 DEF Process, verdict
  <2>2. Follows(Rows, w, h.seen, {}) /\ SameCounts(Rows, w, h.seen)
    BY <1>3, <1>4, <2>1, EvaluatedFollows
  <2>3. ASSUME \A i \in 1..Len(records) : ~Overwritten(h, w, i)
        PROVE  Counted(w.records) = Counted(records) + Reflected(r)
    <3> HIDE DEF w
    <3>1. Len(w.records) = Len(records) /\ 0 \in 0..Len(records)
      BY <1>1, <1>2, <2>2 DEF SameCounts
    <3>2. \A i \in 1..Len(records) : w.records[i].count = records[i].count
      BY <1>1, <2>2, <2>3 DEF SameCounts, Overwritten
    <3>3. Counted(w.records) = Counted(records)
      BY <1>2, <3>1, <3>2, CountsCompared
    <3>4. Reflected(r) = 0
      BY <1>7 DEF Reflected
    <3> QED
      BY <1>5, <3>3, <3>4
  <2> QED
    BY <1>6, <2>2, <2>3
<1>8. CASE t # <<>>
  <2> DEFINE x == Triggered(Rows, t, h.seen, h.card)
             lost == LostBy(Rows, h.seen)
  <2>1. TriggersOf(t)
    BY <1>8, TriggersShape
  <2> HIDE DEF t
  <2>2. /\ Follows(Rows, x, NoRow, lost)
        /\ Exact(Rows, h.seen) => Counted(x.records) = Counted(records)
              + (IF Len(t) = 1 \/ Known(records, t[2].key) THEN 1 ELSE 2)
    BY <1>1, <1>4, <2>1, TriggeredFollows
  <2>3. w = Evaluated(x, Own(r, x.records), NoRow, verdict)
    BY <1>8 DEF Process, verdict, t
  <2>4. Shape(x) /\ NoRow.row = 0 /\ Reading(x, NoRow) /\ Exact(x, NoRow)
    <3>1. Shape(x) /\ NoRow.row = 0
      BY <2>2 DEF Follows, NoRow
    <3>2. Len(x.records) \in Nat
      BY <3>1, ShapeLengths
    <3> QED
      BY <3>1, <3>2 DEF Reading, Exact
  <2> HIDE DEF x
  <2>5. Follows(x, w, NoRow, {}) /\ SameCounts(x, w, NoRow)
    BY <1>3, <2>3, <2>4, EvaluatedFollows
  <2> HIDE DEF w
  <2>6. Follows(Rows, w, NoRow, lost)
    <3>1. NoRow.row \in 0..Len(Rows.records)
      BY <1>1, <1>2, <2>4
    <3> QED
      BY <2>2, <2>4, <2>5, <3>1, FollowsOn
  <2>7. ASSUME \A i \in 1..Len(records) : ~Overwritten(h, w, i)
        PROVE  Counted(w.records) = Counted(records) + Reflected(r)
    <3>1. Exact(Rows, h.seen)
      <4> SUFFICES ASSUME ~Exact(Rows, h.seen) PROVE FALSE
        OBVIOUS
      <4>1. /\ h.seen.row \in 1..Len(records) /\ h.seen.copy # records[h.seen.row]
            /\ h.seen.row \in lost
        BY <1>1, <1>2, <1>4 DEF Exact, Reading, LostBy
      <4>2. w.records[h.seen.row].at = clock
        BY <1>1, <2>6, <4>1 DEF Follows
      <4>3. records[h.seen.row].at \in Nat /\ records[h.seen.row].at < clock
        BY <1>2, <4>1 DEF Record
      <4> QED
        BY <2>7, <4>1, <4>2, <4>3 DEF Overwritten, Dated
    <3>2. Len(x.records) \in Nat /\ \A i \in 1..Len(x.records) : x.records[i].count \in Nat
      BY <2>4, ShapeLengths DEF Record
    <3>3. /\ Len(w.records) = Len(x.records) /\ 0 \in 0..Len(x.records)
          /\ \A i \in 1..Len(x.records) : i # 0 /\ w.records[i].count = x.records[i].count
      BY <2>4, <2>5, <3>2 DEF SameCounts
    <3>4. Counted(w.records) = Counted(x.records)
      BY <3>2, <3>3, CountsCompared
    <3>5. Reflected(r) = IF Len(t) = 1 \/ Known(records, t[2].key) THEN 1 ELSE 2
      BY <1>8 DEF Reflected, t
    <3> QED
      BY <2>2, <3>1, <3>4, <3>5
  <2> QED
    BY <1>6, <2>6, <2>7 DEF w
<1> QED
  BY <1>7, <1>8

-----------------------------------------------------------------------------
(* The inductive invariant.                                                 *)

\* The conjuncts of the type invariant, by what the steps change.
TablesMatch == Rows \in Tables /\ Len(actions) = Len(records) /\ Len(evaluations) = Len(records)
HandsMatch == hands \in [Actors -> Hand \cup {Idle}]
RestMatches ==
    /\ attempts \in Seq(Attempt) /\ replans \subseteq Repairs \cup FullReplans
    /\ day \in 0..LastDay /\ decisions \in 0..MaxDecisions
    /\ clock \in Nat /\ occurrences \in Nat
    /\ resolved \cup stale \subseteq DOMAIN records

\* All rows are older than the transactions to come.
RowsAreOlder ==
    /\ \A i \in 1..Len(records) : records[i].at < clock
    /\ \A i \in 1..Len(insights) : insights[i].at < clock

HandsRead == \A a \in Actors : hands[a] # Idle => HandReads(hands[a])

ReflectionsInv ==
    /\ TablesMatch /\ HandsMatch /\ RestMatches
    /\ RowsAreOlder /\ HandsRead
    /\ ReviewIsDue /\ OccurrencesAreCounted /\ NewestCardIsActive

\* The type invariant, in its parts.
LEMMA ReflectionsTypeParts == ReflectionsTypeOK <=> TablesMatch /\ HandsMatch /\ RestMatches
BY DEF ReflectionsTypeOK, TablesMatch, HandsMatch, RestMatches, Rows

\* What the lemmas about steps assume of the tables.
LEMMA InvShape ==
    ASSUME ReflectionsInv
    PROVE  /\ Dated /\ Shape(Rows)
           /\ Len(records) \in Nat /\ DOMAIN records = 1..Len(records)
           /\ \A i \in 1..Len(records) : records[i] \in Record
           /\ Len(cards) \in Nat
<1>1. Rows.records = records /\ Rows.actions = actions /\ Rows.evaluations = evaluations
      /\ Rows.cards = cards /\ Rows.insights = insights
  BY DEF Rows
<1>2. Dated
  BY ReflectionsAssumption DEF ReflectionsInv, RestMatches, Dated
<1>3. Rows \in Tables /\ Len(actions) = Len(records) /\ Len(evaluations) = Len(records)
  BY DEF ReflectionsInv, TablesMatch
<1>4. /\ Len(records) \in Nat /\ DOMAIN records = 1..Len(records)
      /\ \A i \in 1..Len(records) : records[i] \in Record
      /\ Len(insights) \in Nat /\ \A i \in 1..Len(insights) : insights[i] \in InsightRow
      /\ Len(cards) \in Nat
  <2>1. records \in Seq(Record) /\ insights \in Seq(InsightRow) /\ cards \in Seq(Card)
    BY <1>1, <1>3, TablesFields DEF InsightRow
  <2> QED
    BY <2>1, RowAt, Zenon
<1>5. Before(records) /\ Before(insights)
  BY <1>2, <1>4 DEF ReflectionsInv, RowsAreOlder, Before, Dated, Record, InsightRow
<1>6. NewestActive(cards)
  BY DEF ReflectionsInv, NewestCardIsActive, NewestActive
<1>7. Shape(Rows)
  BY <1>1, <1>3, <1>5, <1>6 DEF Shape
<1> QED
  BY <1>2, <1>4, <1>7

\* At the start there is nothing.
LEMMA InitReflections == ReflectionsInit => ReflectionsInv
<1> SUFFICES ASSUME ReflectionsInit PROVE ReflectionsInv
  OBVIOUS
<1> USE DEF ReflectionsInit
<1>1. TablesMatch
  <2>1. \A S : <<>> \in Seq(S)
    OBVIOUS
  <2> QED
    BY <2>1 DEF TablesMatch, Tables, Rows
<1>2. HandsMatch
  BY DEF HandsMatch
<1>3. RestMatches
  <2>1. attempts \in Seq(Attempt)
    <3>1. Earlier \in Nat /\ [task |-> "earlier", outcome |-> "completed"] \in Attempt
      BY ReflectionsAssumption DEF Attempt
    <3> QED
      BY <3>1
  <2> QED
    BY <2>1, ReflectionsAssumption DEF RestMatches
<1>4. RowsAreOlder /\ HandsRead
  BY DEF RowsAreOlder, HandsRead
<1>5. ReviewIsDue /\ NewestCardIsActive
  BY DEF ReviewIsDue, NewestCardIsActive
<1>6. OccurrencesAreCounted
  <2>1. Len(records) = 0 /\ \A n \in 1..Len(records) : records[n].count \in Nat
    OBVIOUS
  <2>2. PICK sum : Sums(records, sum) /\ Counted(records) = sum[Len(records)]
    BY <2>1, CountedSums
  <2>3. Counted(records) = 0
    BY <2>1, <2>2 DEF Sums
  <2> QED
    BY <2>3 DEF OccurrencesAreCounted
<1> QED
  BY <1>1, <1>2, <1>3, <1>4, <1>5, <1>6 DEF ReflectionsInv

\* While the tables stay, so do the rows that were read, and what is said of rows.
LEMMA StayingTables ==
    ASSUME ReflectionsInv, UNCHANGED <<tables, clock, history>>
    PROVE  /\ TablesMatch' /\ RowsAreOlder'
           /\ ReviewIsDue' /\ OccurrencesAreCounted' /\ NewestCardIsActive'
           /\ \A h : HandReads(h) => HandReads(h)'
BY DEF ReflectionsInv, tables, history, TablesMatch, RowsAreOlder, ReviewIsDue, OccurrencesAreCounted,
       NewestCardIsActive, HandReads, Rows, Reading

\* The row to change is a row that is there, or none.
LEMMA TargetRow ==
    ASSUME ReflectionsInv, NEW r, r.op \in {"resolve", "override"} => r.row \in DOMAIN records
    PROVE  Target(r) \in 0..Len(records)
<1> DEFINE t == Triggers(r, Tried(r))
<1>1. /\ Dated /\ Before(records) /\ records \in Seq(Record)
      /\ Len(records) \in Nat /\ DOMAIN records = 1..Len(records)
  <2>1. Rows.records = records
    BY DEF Rows
  <2> QED
    BY <2>1, InvShape, TablesFields DEF Shape
<1>2. CASE r.op \in {"resolve", "override"}
  BY <1>1, <1>2 DEF Target
<1>3. CASE r.op \notin {"resolve", "override"} /\ t # <<>>
  <2>1. Target(r) = OpenRecord(records, t[1])
    BY <1>3 DEF Target
  <2> QED
    BY <1>1, <2>1, OpenRecordRow
<1>4. CASE r.op \notin {"resolve", "override"} /\ t = <<>>
  <2>1. Target(r) = Newest(Own(r, records))
    BY <1>4 DEF Target
  <2>2. Own(r, records) \subseteq 1..Len(records)
    BY <1>1 DEF Own
  <2>3. IF Own(r, records) = {} THEN Newest(Own(r, records)) = 0
        ELSE Newest(Own(r, records)) \in Own(r, records)
    <3>1. Own(r, records) \in SUBSET Nat /\ \A i \in Own(r, records) : i <= Len(records)
      BY <1>1, <2>2
    <3> QED
      BY <1>1, <3>1, NewestRow
  <2> QED
    BY <1>1, <2>1, <2>2, <2>3
<1> QED
  BY <1>2, <1>3, <1>4

\* A transaction begins: what it reads is there.
LEMMA BeginKeeps ==
    ASSUME ReflectionsInv, NEW r \in ReflectionRequests, Begin(r),
           r.op \in {"resolve", "override"} => r.row \in DOMAIN records,
           decisions' \in 0..MaxDecisions
    PROVE  ReflectionsInv'
<1>1. /\ Dated /\ Shape(Rows) /\ Rows.records = records
      /\ Len(records) \in Nat /\ DOMAIN records = 1..Len(records)
      /\ \A i \in 1..Len(records) : records[i] \in Record
      /\ Len(cards) \in Nat
  BY InvShape DEF Rows
<1>2. UNCHANGED <<tables, external, clock, history>>
  BY DEF Begin
<1>3. PICK a \in Actors, c \in IF ActiveCards(cards) = {} THEN {0} ELSE ActiveCards(cards) :
          hands' = [hands EXCEPT ![a] = [request |-> r, seen |-> RowOf(records, Target(r)), card |-> c]]
  BY DEF Begin
<1> DEFINE h == [request |-> r, seen |-> RowOf(records, Target(r)), card |-> c]
<1>4. Target(r) \in 0..Len(records)
  BY TargetRow
<1>5. c \in 0..Len(cards)
  <2>1. cards \in Seq(Card)
    BY TablesFields DEF ReflectionsInv, TablesMatch, Rows
  <2>2. ActiveCards(cards) \subseteq 1..Len(cards)
    BY <2>1, CardRow
  <2> QED
    BY <1>1, <2>2
<1>6. /\ Reading(Rows, h.seen) /\ h.seen.row = Target(r)
      /\ Target(r) # 0 => h.seen.copy = records[Target(r)]
  BY <1>1, <1>4, RowOfReading
<1>7. HandReads(h)
  <2>1. Target(r) # 0 => h.seen.copy.at < clock
    BY <1>1, <1>4, <1>6 DEF ReflectionsInv, RowsAreOlder
  <2>2. r.op \in {"resolve", "override"} => r.row = Target(r) /\ r.row # 0
    BY <1>1 DEF Target
  <2> QED
    BY <1>5, <1>6, <2>1, <2>2 DEF HandReads
<1>8. h \in Hand
  <2>1. h.seen \in [row: Nat, copy: Record] \cup {NoRow}
    <3>1. CASE Target(r) = 0
      BY <3>1 DEF RowOf
    <3>2. CASE Target(r) # 0
      BY <1>1, <1>4, <3>2 DEF RowOf
    <3> QED
      BY <3>1, <3>2
  <2>2. c \in Nat
    BY <1>1, <1>5
  <2> QED
    BY <2>1, <2>2 DEF Hand, ReflectionRequests
<1> HIDE DEF h
<1>9. hands' = [hands EXCEPT ![a] = h]
  BY <1>3 DEF h
<1>10. HandsMatch'
  BY <1>8, <1>9 DEF ReflectionsInv, HandsMatch
<1>11. /\ TablesMatch' /\ RowsAreOlder'
       /\ ReviewIsDue' /\ OccurrencesAreCounted' /\ NewestCardIsActive'
       /\ \A k : HandReads(k) => HandReads(k)'
  BY <1>2, StayingTables
<1>12. HandsRead'
  BY <1>7, <1>9, <1>11 DEF ReflectionsInv, HandsMatch, HandsRead
<1>13. RestMatches'
  BY <1>2 DEF ReflectionsInv, RestMatches, tables, external, history
<1> QED
  BY <1>10, <1>11, <1>12, <1>13 DEF ReflectionsInv

\* A transaction ends: it writes what its steps have made of the tables, and
\* leaves what the others have read.
LEMMA CommitKeeps ==
    ASSUME ReflectionsInv, NEW a \in Actors, Commit(a)
    PROVE  ReflectionsInv'
<1> DEFINE h == hands[a]
           r == h.request
           w == Process(h, Rows)
<1>1. /\ Dated /\ Shape(Rows) /\ Rows.records = records
      /\ Len(records) \in Nat /\ DOMAIN records = 1..Len(records)
      /\ \A i \in 1..Len(records) : records[i] \in Record
      /\ Len(cards) \in Nat
  BY InvShape DEF Rows
<1>2. h \in Hand /\ HandReads(h) /\ r \in ReflectionRequests
  <2>1. h # Idle
    BY DEF Commit
  <2> QED
    BY <2>1 DEF ReflectionsInv, HandsMatch, HandsRead, Hand, ReflectionRequests
<1>3. \A i \in 1..Len(records) : records[i].at < clock
  BY DEF ReflectionsInv, RowsAreOlder
<1>4. Processed(h, w)
  <2>1. CASE r \in Resolves \cup Overrides
    BY <1>1, <1>2, <1>3, <2>1, DecisionProcessed
  <2>2. CASE r \notin Resolves \cup Overrides
    <3>1. r.op \notin {"resolve", "override"}
      BY <1>2, <2>2 DEF ReflectionRequests, Updates, Replans, Periodics, FailedRuns
    <3> QED
      BY <1>1, <1>2, <1>3, <3>1, ReflectionProcessed
  <2> QED
    BY <2>1, <2>2
<1>5. /\ records' = w.records /\ actions' = w.actions /\ evaluations' = w.evaluations
      /\ cards' = w.cards /\ insights' = w.insights
  BY DEF Commit, Rows
<1>6. /\ attempts' = Tried(r)
      /\ replans' = IF r.op = "replan" THEN replans \cup {r.job} ELSE replans
      /\ hands' = [hands EXCEPT ![a] = Idle]
      /\ clock' = clock + 1
      /\ occurrences' = occurrences + Reflected(r)
      /\ resolved' = IF r.op = "resolve" THEN resolved \cup {r.row} ELSE resolved
      /\ UNCHANGED <<day, decisions>>
  BY DEF Commit
<1>7. stale' = stale \cup {i \in {h.seen.row} \cap DOMAIN records :
                   h.seen.copy # records[i] /\ w.records[i] # records[i]}
  BY DEF Commit, Rows
<1> HIDE DEF w
<1>8. \A i \in 1..Len(records) : i \in stale' <=> i \in stale \/ Overwritten(h, w, i)
  BY <1>1, <1>7 DEF Overwritten
<1>9. /\ w \in Tables /\ Len(w.actions) = Len(w.records) /\ Len(w.evaluations) = Len(w.records)
      /\ Len(w.records) \in Nat /\ DOMAIN w.records = 1..Len(w.records)
      /\ \A i \in 1..Len(w.records) : w.records[i] \in Record
      /\ Before(w.records) /\ Before(w.insights) /\ NewestActive(w.cards)
      /\ Len(w.cards) \in Nat
  BY <1>4, ShapeLengths DEF Processed, Shape
<1>10. TablesMatch'
  <2>1. [records |-> w.records, actions |-> w.actions, evaluations |-> w.evaluations,
         cards |-> w.cards, insights |-> w.insights] \in Tables
    BY <1>9, TablesFields DEF Tables
  <2> QED
    BY <1>5, <1>9, <2>1 DEF TablesMatch, Rows
<1>11. HandsMatch'
  BY <1>6 DEF ReflectionsInv, HandsMatch
<1>12. RestMatches'
  <2>1. attempts' \in Seq(Attempt)
    <3>1. attempts \in Seq(Attempt)
      BY DEF ReflectionsInv, RestMatches
    <3>2. r.op = "update" => [task |-> r.task, outcome |-> r.outcome] \in Attempt
      BY <1>2 DEF ReflectionRequests, Updates, Replans, Periodics, FailedRuns, Resolves, Overrides, Attempt
    <3> QED
      BY <1>6, <3>1, <3>2 DEF Tried
  <2>2. replans' \subseteq Repairs \cup FullReplans
    <3>1. r.op = "replan" => r.job \in Repairs \cup FullReplans
      BY <1>2 DEF ReflectionRequests, Updates, Replans, Periodics, FailedRuns, Resolves, Overrides
    <3> QED
      BY <1>6, <3>1 DEF ReflectionsInv, RestMatches
  <2>3. occurrences' \in Nat /\ clock' \in Nat
    <3>1. Reflected(r) \in Nat
      BY DEF Reflected
    <3> QED
      BY <1>6, <3>1 DEF ReflectionsInv, RestMatches
  <2>4. resolved' \cup stale' \subseteq DOMAIN records'
    <3>1. DOMAIN records \subseteq DOMAIN records'
      BY <1>1, <1>4, <1>5, <1>9 DEF Processed
    <3>2. r.op = "resolve" => r.row \in DOMAIN records
      BY <1>1, <1>2 DEF HandReads, Reading
    <3>3. resolved \cup stale \subseteq DOMAIN records
      BY DEF ReflectionsInv, RestMatches
    <3> QED
      BY <1>6, <1>7, <3>1, <3>2, <3>3
  <2> QED
    BY <1>6, <2>1, <2>2, <2>3, <2>4 DEF ReflectionsInv, RestMatches
<1>13. RowsAreOlder'
  <2>1. \A i \in 1..Len(w.records) : w.records[i].at \in Nat
    BY <1>9 DEF Record
  <2>2. \A i \in 1..Len(w.insights) : w.insights[i].at \in Nat
    <3>1. w.insights \in Seq(InsightRow)
      BY <1>9, TablesFields DEF InsightRow
    <3>2. \A i \in 1..Len(w.insights) : w.insights[i] \in InsightRow
      BY <3>1, RowAt, Zenon
    <3> QED
      BY <3>2 DEF InsightRow
  <2> QED
    BY <1>1, <1>5, <1>6, <1>9, <2>1, <2>2 DEF RowsAreOlder, Before, Dated
<1>14. HandsRead'
  <2> SUFFICES ASSUME NEW b \in Actors, hands'[b] # Idle PROVE HandReads(hands[b])'
    BY DEF HandsRead
  <2>1. hands'[b] = hands[b] /\ hands[b] # Idle
    BY <1>6 DEF ReflectionsInv, HandsMatch
  <2>2. HandReads(hands[b]) /\ hands[b] \in Hand
    BY <2>1 DEF ReflectionsInv, HandsMatch, HandsRead
  <2>3. Reading(Rows, hands[b].seen)'
    BY <1>1, <1>4, <1>5, <1>9, <2>1, <2>2 DEF HandReads, Reading, Rows, Processed
  <2>4. hands[b].card \in 0..Len(cards')
    BY <1>1, <1>4, <1>5, <1>9, <2>2 DEF HandReads, Processed
  <2>5. hands[b].seen.row # 0 => hands[b].seen.copy.at < clock'
    <3>1. hands[b].seen.row # 0 => hands[b].seen.copy.at \in Nat
      BY <2>2 DEF HandReads, Reading, Record
    <3> QED
      BY <1>1, <1>6, <2>2, <3>1 DEF HandReads, Dated
  <2> QED
    BY <2>1, <2>2, <2>3, <2>4, <2>5 DEF HandReads
<1>15. ReviewIsDue'
  <2> SUFFICES ASSUME NEW i \in DOMAIN records' \ (resolved' \cup stale') PROVE DueReview(w, i)
    BY <1>5 DEF ReviewIsDue, DueReview
  <2>1. CASE i \in (Len(records) + 1)..Len(w.records)
    BY <1>4, <2>1 DEF Processed
  <2>2. CASE i \in 1..Len(records)
    <3>1. i \notin resolved \cup stale
      BY <1>6, <1>7
    <3>2. DueReview(Rows, i)
      BY <1>1, <2>2, <3>1 DEF ReflectionsInv, ReviewIsDue, DueReview, Rows
    <3>3. ~Overwritten(h, w, i) /\ ~(r.op = "resolve" /\ i = r.row)
      BY <1>6, <1>8, <2>2
    <3> QED
      BY <1>4, <2>2, <3>2, <3>3 DEF Processed
  <2>3. i \in 1..Len(w.records)
    BY <1>5, <1>9
  <2> QED
    BY <1>1, <1>9, <2>1, <2>2, <2>3
<1>16. OccurrencesAreCounted'
  <2> SUFFICES ASSUME stale' = {} PROVE Counted(records') = occurrences'
    BY DEF OccurrencesAreCounted
  <2>1. stale = {} /\ \A i \in 1..Len(records) : ~Overwritten(h, w, i)
    BY <1>7, <1>8
  <2>2. Counted(records) = occurrences
    BY <2>1 DEF ReflectionsInv, OccurrencesAreCounted
  <2> QED
    BY <1>4, <1>5, <1>6, <2>1, <2>2 DEF Processed
<1>17. NewestCardIsActive'
  BY <1>5, <1>9 DEF NewestCardIsActive, NewestActive
<1> QED
  BY <1>10, <1>11, <1>12, <1>13, <1>14, <1>15, <1>16, <1>17 DEF ReflectionsInv

\* Whatever a step leaves alone of hands but one, and of the tables.
LEMMA HandsDropped ==
    ASSUME ReflectionsInv, NEW a \in Actors, hands' = [hands EXCEPT ![a] = Idle],
           UNCHANGED <<tables, external, clock, decisions, history>>
    PROVE  ReflectionsInv'
<1>1. /\ TablesMatch' /\ RowsAreOlder'
      /\ ReviewIsDue' /\ OccurrencesAreCounted' /\ NewestCardIsActive'
      /\ \A k : HandReads(k) => HandReads(k)'
  BY StayingTables
<1>2. HandsMatch'
  BY DEF ReflectionsInv, HandsMatch
<1>3. HandsRead'
  BY <1>1 DEF ReflectionsInv, HandsMatch, HandsRead
<1>4. RestMatches'
  BY DEF ReflectionsInv, RestMatches, tables, external, history
<1> QED
  BY <1>1, <1>2, <1>3, <1>4 DEF ReflectionsInv

\* A step that leaves transactions and tables alone.
LEMMA DayOrStutter ==
    ASSUME ReflectionsInv, NextDay \/ UNCHANGED reflectionVars
    PROVE  ReflectionsInv'
<1>1. /\ UNCHANGED <<tables, attempts, replans, clock, hands, decisions, history>>
      /\ day' \in 0..LastDay
  BY ReflectionsAssumption DEF ReflectionsInv, RestMatches, NextDay, reflectionVars, external
<1>2. /\ TablesMatch' /\ RowsAreOlder'
      /\ ReviewIsDue' /\ OccurrencesAreCounted' /\ NewestCardIsActive'
      /\ \A k : HandReads(k) => HandReads(k)'
  BY <1>1, StayingTables
<1>3. HandsMatch' /\ HandsRead'
  BY <1>1, <1>2 DEF ReflectionsInv, HandsMatch, HandsRead
<1>4. RestMatches'
  BY <1>1 DEF ReflectionsInv, RestMatches, tables, history
<1> QED
  BY <1>2, <1>3, <1>4 DEF ReflectionsInv

\* An operator proposes another action for a record: it no longer is blocked.
LEMMA OverrideActionKeeps ==
    ASSUME ReflectionsInv, NEW i, OverrideAction(i)
    PROVE  ReflectionsInv'
<1> DEFINE Acts == {"proposed", "executed", "blocked"}
<1>1. /\ i \in DOMAIN actions /\ decisions < MaxDecisions
      /\ actions' = [actions EXCEPT ![i] = "proposed"]
      /\ decisions' = decisions + 1
      /\ UNCHANGED <<records, evaluations, cards, insights, external, clock, hands, history>>
  BY DEF OverrideAction
<1>2. /\ Rows \in Tables /\ actions \in Seq(Acts)
      /\ Len(actions) = Len(records) /\ Len(evaluations) = Len(records)
      /\ Len(records) \in Nat /\ DOMAIN records = 1..Len(records)
  BY InvShape, TablesFields DEF ReflectionsInv, TablesMatch, Rows
<1>3. /\ actions' \in Seq(Acts) /\ Len(actions') = Len(actions)
      /\ \A j \in 1..Len(records) : actions'[j] = IF j = i THEN "proposed" ELSE actions[j]
  <2>1. "proposed" \in Acts /\ i \in 1..Len(actions)
    BY <1>1, <1>2, RowAt
  <2> QED
    BY <1>1, <1>2, <2>1, RowWritten
<1>4. TablesMatch'
  <2>1. /\ records \in Seq(Record)
        /\ evaluations \in Seq({"pending", "effective", "ineffective", "inconclusive"})
        /\ cards \in Seq(Card)
        /\ insights \in Seq([theme: Themes, status: {"candidate", "active", "archived"}, at: Nat])
    BY <1>2, TablesFields DEF Rows
  <2> QED
    BY <1>1, <1>2, <1>3, <2>1 DEF TablesMatch, Rows, Tables
<1>5. HandsMatch' /\ RowsAreOlder' /\ OccurrencesAreCounted' /\ NewestCardIsActive'
  BY <1>1 DEF ReflectionsInv, HandsMatch, RowsAreOlder, OccurrencesAreCounted, NewestCardIsActive, history
<1>6. HandsRead'
  BY <1>1 DEF ReflectionsInv, HandsRead, HandReads, Reading, Rows
<1>7. ReviewIsDue'
  BY <1>1, <1>2, <1>3 DEF ReflectionsInv, ReviewIsDue, history
<1>8. RestMatches'
  BY <1>1, ReflectionsAssumption DEF ReflectionsInv, RestMatches, external, history
<1> QED
  BY <1>4, <1>5, <1>6, <1>7, <1>8 DEF ReflectionsInv

\* Every step keeps the invariant.
LEMMA NextReflections ==
    ASSUME ReflectionsInv, [ReflectionsNext]_reflectionVars
    PROVE  ReflectionsInv'
<1>0. decisions \in 0..MaxDecisions /\ MaxDecisions \in Nat /\ day \in Nat
  BY ReflectionsAssumption DEF ReflectionsInv, RestMatches
<1>1. ASSUME NEW t \in Tasks, NEW outcome \in Outcomes, NEW cause \in PrimaryVerdicts(FALSE),
             UpdateTask(t, outcome, cause)
      PROVE  ReflectionsInv'
  <2> DEFINE r == [op |-> "update", task |-> t, outcome |-> outcome, cause |-> cause]
  <2>1. r \in ReflectionRequests /\ r.op = "update"
    BY DEF ReflectionRequests, Updates, PrimaryVerdicts
  <2>2. Begin(r) /\ decisions' = decisions
    BY <1>1 DEF UpdateTask
  <2> HIDE DEF r
  <2> QED
    BY <1>0, <2>1, <2>2, BeginKeeps
<1>2. ASSUME NEW job \in Repairs \cup FullReplans, NEW cause \in PrimaryVerdicts(FALSE), Replan(job, cause)
      PROVE  ReflectionsInv'
  <2> DEFINE r == [op |-> "replan", job |-> job, cause |-> cause]
  <2>1. r \in ReflectionRequests /\ r.op = "replan"
    BY DEF ReflectionRequests, Replans, PrimaryVerdicts
  <2>2. Begin(r) /\ decisions' = decisions
    BY <1>2 DEF Replan
  <2> HIDE DEF r
  <2> QED
    BY <1>0, <2>1, <2>2, BeginKeeps
<1>3. ASSUME NEW cause \in PrimaryVerdicts(FALSE), Periodic(cause) PROVE ReflectionsInv'
  <2> DEFINE r == [op |-> "periodic", number |-> day, cause |-> cause]
  <2>1. r \in ReflectionRequests /\ r.op = "periodic"
    BY <1>0 DEF ReflectionRequests, Periodics, PrimaryVerdicts
  <2>2. Begin(r) /\ decisions' = decisions
    BY <1>3 DEF Periodic
  <2> HIDE DEF r
  <2> QED
    BY <1>0, <2>1, <2>2, BeginKeeps
<1>4. ASSUME NEW n \in 1..MaxFailedRuns, NEW cause \in PrimaryVerdicts(TRUE), FailRun(n, cause)
      PROVE  ReflectionsInv'
  <2> DEFINE r == [op |-> "run", number |-> n, cause |-> cause]
  <2>1. r \in ReflectionRequests /\ r.op = "run"
    BY ReflectionsAssumption DEF ReflectionRequests, FailedRuns, PrimaryVerdicts
  <2>2. Begin(r) /\ decisions' = decisions
    BY <1>4 DEF FailRun
  <2> HIDE DEF r
  <2> QED
    BY <1>0, <2>1, <2>2, BeginKeeps
<1>5. ASSUME NEW i \in DOMAIN records, NEW status \in Resolutions, Resolve(i, status)
      PROVE  ReflectionsInv'
  <2> DEFINE r == [op |-> "resolve", row |-> i, status |-> status]
  <2>1. r \in ReflectionRequests /\ r.row \in DOMAIN records
    BY InvShape DEF ReflectionRequests, Resolves
  <2>2. Begin(r) /\ decisions' \in 0..MaxDecisions
    BY <1>0, <1>5 DEF Resolve, Operate
  <2> HIDE DEF r
  <2> QED
    BY <2>1, <2>2, BeginKeeps
<1>6. ASSUME NEW i \in DOMAIN records, OverrideRootCause(i) PROVE ReflectionsInv'
  <2> DEFINE r == [op |-> "override", row |-> i]
  <2>1. r \in ReflectionRequests /\ r.row \in DOMAIN records
    BY InvShape DEF ReflectionRequests, Overrides
  <2>2. Begin(r) /\ decisions' \in 0..MaxDecisions
    BY <1>0, <1>6 DEF OverrideRootCause, Operate
  <2> HIDE DEF r
  <2> QED
    BY <2>1, <2>2, BeginKeeps
<1>7. ASSUME NEW i \in DOMAIN records, OverrideAction(i) PROVE ReflectionsInv'
  BY <1>7, OverrideActionKeeps
<1>8. ASSUME NEW a \in Actors, Commit(a) PROVE ReflectionsInv'
  BY <1>8, CommitKeeps
<1>9. ASSUME NEW a \in Actors, Abort(a) PROVE ReflectionsInv'
  BY <1>9, HandsDropped DEF Abort
<1>10. CASE NextDay \/ UNCHANGED reflectionVars
  BY <1>10, DayOrStutter
<1> QED
  BY <1>1, <1>2, <1>3, <1>4, <1>5, <1>6, <1>7, <1>8, <1>9, <1>10 DEF ReflectionsNext

\* The invariant holds always.
LEMMA ReflectionsInvHolds == ReflectionsSpec => []ReflectionsInv
BY InitReflections, NextReflections, PTL DEF ReflectionsSpec

-----------------------------------------------------------------------------
(* The theorems.                                                            *)

\* Every row, every request and what a transaction has read has its shape, for
\* any number of tasks, transactions and days.
THEOREM ReflectionsTypeCorrect == ReflectionsSpec => []ReflectionsTypeOK
<1>1. ReflectionsInv => ReflectionsTypeOK
  BY ReflectionsTypeParts DEF ReflectionsInv
<1> QED
  BY <1>1, ReflectionsInvHolds, PTL

\* A blocked action, and an outcome that did not improve, wait for a review until
\* the operator resolves the record or an older copy of it is written back.
THEOREM ReviewStaysDue == ReflectionsSpec => []ReviewIsDue
<1>1. ReflectionsInv => ReviewIsDue
  BY DEF ReflectionsInv
<1> QED
  BY <1>1, ReflectionsInvHolds, PTL

\* While no older copy is written back, no occurrence that was reflected on is
\* lost or counted twice, whatever overlaps and however many are aggregated.
THEOREM NoOccurrenceIsLost == ReflectionsSpec => []OccurrencesAreCounted
<1>1. ReflectionsInv => OccurrencesAreCounted
  BY DEF ReflectionsInv
<1> QED
  BY <1>1, ReflectionsInvHolds, PTL

\* The card of the highest version, which chats and plans read, is active, even
\* when two transactions refresh the same card.
THEOREM NewestCardStaysActive == ReflectionsSpec => []NewestCardIsActive
<1>1. ReflectionsInv => NewestCardIsActive
  BY DEF ReflectionsInv
<1> QED
  BY <1>1, ReflectionsInvHolds, PTL
=============================================================================
