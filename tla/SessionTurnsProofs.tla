-------------------------- MODULE SessionTurnsProofs --------------------------
(***************************************************************************)
(* Proofs about ProviderGuard and SessionTurns, for every number of        *)
(* coroutines, turns and quizzes, every window, budget, threshold and      *)
(* cooldown: what the breaker promises, what the session's rows promise,   *)
(* and that the requests of a session are calls as ProviderGuard has them, *)
(* so that its theorems hold of them.                                      *)
(***************************************************************************)
EXTENDS SessionTurns, TLAPS, FiniteSetTheorems

-----------------------------------------------------------------------------
(* The guards.  What the budget has counted plays no part: the breaker      *)
(* alone keeps its promises.                                                *)

\* The types the argument needs.
Typed ==
    /\ state \in States /\ failures \in 0 .. Threshold
    /\ opened \in 0 .. Cooldown /\ rest \in 0 .. Cooldown
    /\ call \in [Calls -> {"idle", "closed", "half_open"}]

\* While the provider rests the breaker is open, and has not been open for
\* longer than since the last failure: it cannot turn half open too early.
OpenWhileResting == rest < Cooldown => (state = "open" /\ opened <= rest)

IInv == Typed /\ BreakerCounts /\ OpenWhileResting

-----------------------------------------------------------------------------
(* The operators. *)

\* Ages stay within their limit, and grow by one until they reach it.
LEMMA Ages ==
    ASSUME NEW limit \in Nat, NEW age \in 0 .. limit
    PROVE  /\ Older(age, limit) \in 0 .. limit
           /\ age <= Older(age, limit)
           /\ Older(age, limit) < limit => Older(age, limit) = age + 1
    BY SMT DEF Older

\* Time does not change the order of two ages.
LEMMA OlderInOrder ==
    ASSUME NEW limit \in Nat, NEW a \in 0 .. limit, NEW b \in 0 .. limit, a <= b
    PROVE  Older(a, limit) <= Older(b, limit)
    BY SMT DEF Older

\* The breaker becomes half open only when its cooldown has elapsed.
LEMMA CurrentState ==
    ASSUME state \in States
    PROVE  /\ Current \in States
           /\ Current = "closed" <=> state = "closed"
           /\ Current = state \/ (state = "open" /\ opened >= Cooldown)
    BY SMT DEF Current, States

\* Looking at the state keeps the invariant, at whatever time it is done.
LEMMA MovedState ==
    ASSUME IInv, state' = Current, UNCHANGED <<failures, opened, rest>>,
           call' \in [Calls -> {"idle", "closed", "half_open"}]
    PROVE  IInv'
    <1>1. Typed'
        BY CurrentState, SMT DEF IInv, Typed
    <1>2. BreakerCounts'
        BY CurrentState, SMT DEF IInv, Typed, BreakerCounts
    <1>3. OpenWhileResting'
        BY CurrentState, GuardAssumption, SMT DEF IInv, Typed, OpenWhileResting
    <1>4. QED
        BY <1>1, <1>2, <1>3 DEF IInv

\* A failure adds one to the count, up to the threshold, and the breaker is
\* open from the threshold on.
LEMMA FailureCounts ==
    ASSUME Typed, BreakerCounts, Failure
    PROVE  /\ state' \in States /\ failures' \in 0 .. Threshold /\ opened' \in 0 .. Cooldown
           /\ BreakerCounts'
           /\ state' = "open" => opened' = 0
           /\ state = "open" => state' = "open"
    <1>1. CASE failures + 1 >= Threshold
        BY <1>1, GuardAssumption, SMT DEF Typed, BreakerCounts, Failure, States
    <1>2. CASE failures + 1 < Threshold
        BY <1>2, GuardAssumption, SMT DEF Typed, BreakerCounts, Failure, States
    <1>3. QED
        BY <1>1, <1>2, GuardAssumption, SMT DEF Typed

-----------------------------------------------------------------------------
(* The invariant. *)

\* The guard's invariant holds of a fresh process.
LEMMA Initially == ASSUME Init PROVE IInv
    BY GuardAssumption, SMT
       DEF Init, IInv, Typed, BreakerCounts, OpenWhileResting, States

\* Every step of the guard keeps its invariant.
LEMMA Inductive == ASSUME IInv, [Next]_vars PROVE IInv'
    <1> USE DEF vars, breaker
    <1>1. CASE UNCHANGED vars
        BY <1>1 DEF IInv, Typed, BreakerCounts, OpenWhileResting
    <1>2. CASE Tick
        <2>1. /\ opened' = Older(opened, Cooldown) /\ rest' = Older(rest, Cooldown)
              /\ UNCHANGED <<state, failures, call>>
            BY <1>2 DEF Tick
        <2>2. Typed'
            BY <2>1, Ages, GuardAssumption, SMT DEF IInv, Typed
        <2>3. BreakerCounts'
            BY <2>1 DEF IInv, BreakerCounts
        <2>4. OpenWhileResting'
            BY <2>1, Ages, OlderInOrder, GuardAssumption, SMT
               DEF IInv, Typed, OpenWhileResting
        <2>5. QED
            BY <2>2, <2>3, <2>4 DEF IInv
    <1>3. CASE Status
        BY <1>3, MovedState DEF Status, IInv, Typed
    <1>4. ASSUME NEW c \in Calls, OverBudget(c) \/ Mocked(c) \/ Rejected(c) \/ Retried(c)
          PROVE  IInv'
        BY <1>4 DEF OverBudget, Mocked, Rejected, Retried, IInv, Typed, BreakerCounts,
                    OpenWhileResting
    <1>5. ASSUME NEW c \in Calls, Send(c) PROVE IInv'
        <2>1. Current \in {"closed", "half_open"}
            BY <1>5, CurrentState DEF Send, IInv, Typed, States
        <2>2. call' \in [Calls -> {"idle", "closed", "half_open"}]
            BY <1>5, <2>1 DEF Send, IInv, Typed
        <2>3. QED
            BY <1>5, <2>2, MovedState DEF Send
    <1>6. ASSUME NEW c \in Calls, Answered(c) PROVE IInv'
        <2>1. call' \in [Calls -> {"idle", "closed", "half_open"}]
            BY <1>6 DEF Answered, Return, IInv, Typed
        <2>2. state' = "closed" /\ failures' = 0 /\ opened' = 0 /\ rest' = Cooldown
            BY <1>6 DEF Answered, Success
        <2>3. QED
            BY <2>1, <2>2, GuardAssumption, SMT
               DEF IInv, Typed, BreakerCounts, OpenWhileResting, States
    <1>7. ASSUME NEW c \in Calls, GivenUp(c) PROVE IInv'
        <2>1. call' \in [Calls -> {"idle", "closed", "half_open"}]
            BY <1>7 DEF GivenUp, Return, IInv, Typed
        <2>2. Failure /\ rest' = IF state' = "open" THEN 0 ELSE rest
            BY <1>7 DEF GivenUp
        <2>3. /\ state' \in States /\ failures' \in 0 .. Threshold
              /\ opened' \in 0 .. Cooldown /\ BreakerCounts'
              /\ state' = "open" => opened' = 0
              /\ state = "open" => state' = "open"
            BY <2>2, FailureCounts DEF IInv
        <2>4. Typed'
            BY <2>1, <2>2, <2>3, GuardAssumption, SMT DEF IInv, Typed
        <2>5. OpenWhileResting'
            BY <2>2, <2>3, GuardAssumption, SMT DEF IInv, Typed, OpenWhileResting
        <2>6. QED
            BY <2>3, <2>4, <2>5 DEF IInv
    <1>8. ASSUME NEW c \in Calls, Escaped(c) PROVE IInv'
        BY <1>8 DEF Escaped, Return, IInv, Typed, BreakerCounts, OpenWhileResting
    <1>9. QED
        BY <1>1, <1>2, <1>3, <1>4, <1>5, <1>6, <1>7, <1>8 DEF Next

-----------------------------------------------------------------------------
(* The theorems. *)

\* The breaker is closed exactly while fewer failures than the threshold have
\* been recorded since the last success (record_success, record_failure and the
\* property state of CircuitBreaker), however the calls of a process overlap.
THEOREM BreakerCountsFailures == Spec => []BreakerCounts
    <1>1. Init => IInv
        BY Initially
    <1>2. IInv /\ [Next]_vars => IInv'
        BY Inductive
    <1>3. IInv => BreakerCounts
        BY DEF IInv
    <1>4. QED
        BY <1>1, <1>2, <1>3, PTL DEF Spec

\* After a failure that leaves the breaker open no call is sent for the whole
\* cooldown (allow_call), unless one that was already on its way succeeds.
THEOREM ProviderRestsForCooldown == Spec => ProviderRests
    <1> DEFINE Step == \A c \in Calls :
                           (call[c] = "idle" /\ call'[c] # "idle") => rest >= Cooldown
    <1>1. Init => IInv
        BY Initially
    <1>2. IInv /\ [Next]_vars => IInv'
        BY Inductive
    <1>3. IInv /\ [Next]_vars => [Step]_vars
        <2> SUFFICES ASSUME IInv, Next,
                            NEW c \in Calls, call[c] = "idle", call'[c] # "idle"
                     PROVE  rest >= Cooldown
            OBVIOUS
        <2>1. call \in [Calls -> {"idle", "closed", "half_open"}]
            BY DEF IInv, Typed
        <2>2. PICK d \in Calls : Send(d) \/ Answered(d) \/ GivenUp(d) \/ Escaped(d)
            BY DEF Next, Tick, Status, OverBudget, Mocked, Rejected, Retried
        <2>3. Send(d)
            BY <2>1, <2>2 DEF Answered, GivenUp, Escaped, Return
        <2>4. Current # "open"
            BY <2>3 DEF Send
        <2>5. QED
            BY <2>4, GuardAssumption, SMT DEF Current, IInv, Typed, OpenWhileResting
    <1> HIDE DEF Step
    <1>4. Spec => [][Step]_vars
        BY <1>1, <1>2, <1>3, PTL DEF Spec
    <1>5. QED
        BY <1>4 DEF ProviderRests, Step

-----------------------------------------------------------------------------
(* Turns, quizzes, usage and replays. *)

ItemTypes ==
    /\ stored \subseteq Items /\ usage \in [Items -> {"none", "completed", "failed"}]
    /\ replays \in [Turns -> {"none", "waiting", "completed", "failed"}]

\* Every fact is about one turn or quiz, and a transaction writes all of one.
ItemsInv == ItemTypes /\ TurnsAreReplayed /\ UsageTellsOutcome

\* An item that is drawn for a new row is one that was never used.
LEMMA DrawnIsUnused ==
    ASSUME NEW S, Unused(S) # {}
    PROVE  Drawn(S) \in S /\ usage[Drawn(S)] = "none"
    BY DEF Drawn, Unused

\* Storing a turn keeps the usage of its row and its replay in order.
LEMMA TurnStored ==
    ASSUME ItemsInv, NEW c \in Calls, PersistTurn(c)
    PROVE  ItemsInv'
    <1> DEFINE t == Drawn(Turns)
    <1>1. t \in Turns /\ usage[t] = "none"
        BY DrawnIsUnused DEF PersistTurn
    <1>2. stored' = stored \cup {t} /\ usage' = [usage EXCEPT ![t] = "completed"]
        BY DEF PersistTurn
    <1>3. Remember(t)
        BY DEF PersistTurn
    <1> HIDE DEF t
    <1>4. ItemTypes'
        BY <1>1, <1>2, <1>3 DEF ItemsInv, ItemTypes, Items, Remember, Materialized, Queued
    <1>5. UsageTellsOutcome'
        BY <1>1, <1>2 DEF ItemsInv, ItemTypes, UsageTellsOutcome, Items
    <1>6. t \notin stored
        BY <1>1 DEF ItemsInv, UsageTellsOutcome, Items
    <1>7. replays[t] = "none"
        BY <1>1, <1>6 DEF ItemsInv, TurnsAreReplayed
    <1>8. TurnsAreReplayed'
        BY <1>1, <1>2, <1>3, <1>7 DEF ItemsInv, ItemTypes, TurnsAreReplayed, Remember, Materialized, Queued
    <1>9. QED
        BY <1>4, <1>5, <1>8 DEF ItemsInv

\* So does the end of a quiz, stored or lost.
LEMMA QuizSettled ==
    ASSUME ItemsInv, NEW c \in Calls, PersistQuiz(c) \/ LoseQuiz(c)
    PROVE  ItemsInv'
    <1> DEFINE q == Drawn(Quizzes)
    <1>1. q \in Quizzes /\ usage[q] = "none"
        BY DrawnIsUnused DEF PersistQuiz, LoseQuiz
    <1>2. \/ stored' = stored \cup {q} /\ usage' = [usage EXCEPT ![q] = "completed"]
          \/ stored' = stored /\ usage' \in {usage, [usage EXCEPT ![q] = "failed"]}
        BY DEF PersistQuiz, LoseQuiz
    <1>3. UNCHANGED <<remembered, replays>>
        BY DEF PersistQuiz, LoseQuiz
    <1> HIDE DEF q
    <1>4. q \notin Turns /\ q \in Items /\ q \notin stored
        BY <1>1, SessionAssumption DEF ItemsInv, UsageTellsOutcome, Items
    <1>5. ItemTypes'
        BY <1>2, <1>3, <1>4 DEF ItemsInv, ItemTypes
    <1>6. UsageTellsOutcome'
        BY <1>1, <1>2, <1>4 DEF ItemsInv, ItemTypes, UsageTellsOutcome
    <1>7. TurnsAreReplayed'
        BY <1>2, <1>3, <1>4 DEF ItemsInv, TurnsAreReplayed
    <1>8. QED
        BY <1>5, <1>6, <1>7 DEF ItemsInv

\* Every step keeps what is stored of turns and quizzes in order.
LEMMA ItemsInductive ==
    ASSUME ItemsInv, [SessionNext]_all
    PROVE  ItemsInv'
    <1> USE DEF rows, all
    <1>1. CASE UNCHANGED <<stored, usage, remembered, replays>>
        BY <1>1 DEF ItemsInv, ItemTypes, TurnsAreReplayed, UsageTellsOutcome
    <1>2. ASSUME NEW c \in Calls, PersistTurn(c) PROVE ItemsInv'
        BY <1>2, TurnStored
    <1>3. ASSUME NEW c \in Calls, PersistQuiz(c) \/ LoseQuiz(c) PROVE ItemsInv'
        BY <1>3, QuizSettled
    <1>4. ASSUME NEW t \in Turns, Replay(t) \/ ReplayFails(t) PROVE ItemsInv'
        <2>1. ItemTypes'
            BY <1>4 DEF Replay, Materialized, ReplayFails, ItemsInv, ItemTypes
        <2>2. UsageTellsOutcome'
            BY <1>4 DEF Replay, Materialized, ReplayFails, ItemsInv, UsageTellsOutcome
        <2>3. TurnsAreReplayed'
            BY <1>4 DEF Replay, Materialized, ReplayFails, ItemsInv, ItemTypes, TurnsAreReplayed
        <2>4. QED
            BY <2>1, <2>2, <2>3 DEF ItemsInv
    <1>5. QED
        BY <1>1, <1>2, <1>3, <1>4
           DEF SessionNext, Begin, LookUpFails, Unsupported, Ask, AskMock, AskAgain, Repair,
               Reply, Replied, NoReply,
               LoseTurn, SetStatus, LoseStatus

-----------------------------------------------------------------------------
(* The count of messages. *)

\* Any set of turns is finite and has a size.
LEMMA MessagesType ==
    ASSUME NEW S
    PROVE  IsFiniteSet(S \cap Turns) /\ Cardinality(S \cap Turns) \in Nat
    <1>1. IsFiniteSet(S \cap Turns)
        BY FS_Subset, SessionAssumption
    <1>2. QED
        BY <1>1, FS_CardinalityType

\* The number of stored messages is a number.
LEMMA MessagesNat == Messages \in Nat
    <1>1. Cardinality(stored \cap Turns) \in Nat
        BY MessagesType
    <1>2. QED
        BY <1>1, SMT DEF Messages

\* A turn adds two messages, a quiz none.
LEMMA MessagesGrow ==
    ASSUME NEW t, t \notin stored, stored' = stored \cup {t}
    PROVE  Messages' = IF t \in Turns THEN Messages + 2 ELSE Messages
    <1>1. CASE t \in Turns
        <2>1. stored' \cap Turns = (stored \cap Turns) \cup {t} /\ t \notin stored \cap Turns
            BY <1>1
        <2>2. Cardinality(stored' \cap Turns) = Cardinality(stored \cap Turns) + 1
            BY <2>1, MessagesType, FS_AddElement
        <2>3. QED
            BY <1>1, <2>2, MessagesType, SMT DEF Messages
    <1>2. CASE t \notin Turns
        <2>1. stored' \cap Turns = stored \cap Turns
            BY <1>2
        <2>2. QED
            BY <1>2, <2>1 DEF Messages
    <1>3. QED
        BY <1>1, <1>2

Row(r) == r = [status |-> r.status, message_count |-> r.message_count]

\* What a request that will write the row has read does not count too many.
CountRead(r) ==
    r.kind \in {"turn"} \cup SessionStatuses =>
        /\ Row(r.read)
        /\ r.read.message_count \in Nat /\ r.read.message_count <= Messages

CountsInv ==
    /\ Row(session) /\ session.message_count \in Nat
    /\ MessagesAreCounted
    /\ request = [c \in Calls |-> request[c]]
    /\ \A c \in Calls : CountRead(request[c])

\* An idle request is of no kind, and holds no status of a session.
LEMMA NoRequestReads == ASSUME TRUE PROVE NoRequest.kind = "none" /\ "none" \notin SessionStatuses
    BY SessionAssumption DEF NoRequest, SessionStatuses, Open

\* The requests that stay have read what they had, and messages only grow.
LEMMA OthersRead ==
    ASSUME CountsInv, NEW c \in Calls, Leave(c), Messages' \in Nat, Messages <= Messages'
    PROVE  /\ request' = [d \in Calls |-> request'[d]]
           /\ \A d \in Calls : CountRead(request[d])'
    <1>1. request' = [d \in Calls |-> IF d = c THEN NoRequest ELSE request[d]]
        BY DEF Leave, CountsInv
    <1>2. Messages \in Nat
        BY MessagesNat
    <1>3. ASSUME NEW d \in Calls PROVE CountRead(request[d])'
        <2>1. CASE d = c
            BY <1>1, <2>1, NoRequestReads DEF CountRead
        <2>2. CASE d # c
            <3>1. request'[d] = request[d] /\ CountRead(request[d])
                BY <1>1, <2>2 DEF CountsInv
            <3>2. QED
                BY <3>1, <1>2, SMT DEF CountRead
        <2>3. QED
            BY <2>1, <2>2
    <1>4. QED
        BY <1>1, <1>3

\* An update of the row keeps its count right, whichever of the two rows it
\* leaves, when the count it writes is the one read or that and the new turn's.
LEMMA RowUpdated ==
    ASSUME CountsInv, NEW c \in Calls, NEW row, NEW n \in {0, 2},
           request[c].kind \in {"turn"} \cup SessionStatuses,
           Row(row), row.message_count = request[c].read.message_count + n,
           Messages' = Messages + n, Update(c, row)
    PROVE  Row(session)' /\ session'.message_count \in Nat /\ MessagesAreCounted'
    <1> DEFINE read == request[c].read
               kept == [status |-> IF row.status = read.status
                                   THEN session.status ELSE row.status,
                        message_count |-> IF row.message_count = read.message_count
                                          THEN session.message_count ELSE row.message_count]
    <1>1. session' \in {row, kept} /\ stale' = (stale \/ session # read)
        BY DEF Update, Overlaid
    <1>2. read.message_count \in Nat /\ read.message_count <= Messages
        BY DEF CountsInv, CountRead
    <1>3. Messages \in Nat
        BY MessagesNat
    <1>4. session'.message_count \in {row.message_count, session.message_count}
        BY <1>1
    <1>5. session'.message_count # row.message_count => n = 0
        BY <1>1, <1>2, SMT
    <1>6. session'.message_count \in Nat /\ session'.message_count <= Messages'
        BY <1>2, <1>3, <1>4, <1>5, SMT DEF CountsInv, MessagesAreCounted
    <1>7. ASSUME ~stale' PROVE session'.message_count = Messages'
        <2>1. session = read /\ ~stale
            BY <1>1, <1>7
        <2>2. session.message_count = Messages
            BY <2>1 DEF CountsInv, MessagesAreCounted
        <2>3. row.message_count = Messages + n
            BY <2>1, <2>2
        <2>4. QED
            BY <2>2, <2>3, <1>3, <1>4, <1>5, SMT
    <1>8. Row(session)'
        BY <1>1 DEF Row
    <1>9. QED
        BY <1>6, <1>7, <1>8 DEF MessagesAreCounted

\* A turn writes the count it read and its two messages, a status itself alone.
LEMMA Written ==
    ASSUME NEW read, Row(read), NEW status
    PROVE  /\ Row(Turned(read)) /\ Turned(read).message_count = read.message_count + 2
           /\ Row([read EXCEPT !.status = status])
           /\ [read EXCEPT !.status = status].message_count = read.message_count
    <1>1. read = [status |-> read.status, message_count |-> read.message_count]
        BY DEF Row
    <1>2. Turned(read) = [status |-> read.status, message_count |-> read.message_count + 2]
        BY <1>1 DEF Turned
    <1>3. [read EXCEPT !.status = status]
              = [status |-> status, message_count |-> read.message_count]
        BY <1>1
    <1>4. QED
        BY <1>2, <1>3 DEF Row

\* Every step keeps the bound on the counters that the requests hold.
LEMMA CountsInductive ==
    ASSUME ItemsInv, CountsInv, [SessionNext]_all
    PROVE  CountsInv'
    <1> USE DEF rows, all
    <1>1. Messages \in Nat
        BY MessagesNat
    <1>2. CASE UNCHANGED <<session, stored, stale, request>>
        BY <1>2 DEF CountsInv, MessagesAreCounted, Messages, CountRead, Row
    <1>3. ASSUME NEW c \in Calls, Leave(c), UNCHANGED <<session, stored, stale>>
          PROVE  CountsInv'
        <2>1. Messages' = Messages
            BY <1>3 DEF Messages
        <2>2. /\ request' = [d \in Calls |-> request'[d]]
              /\ \A d \in Calls : CountRead(request[d])'
            BY <1>1, <1>3, <2>1, OthersRead
        <2>3. QED
            BY <1>3, <2>1, <2>2 DEF CountsInv, MessagesAreCounted
    <1>4. ASSUME NEW c \in Calls, NEW kind \in Kinds, Begin(c, kind)
          PROVE  CountsInv'
        <2>1. UNCHANGED <<session, stored, stale>>
            BY <1>4 DEF Begin
        <2>2. Messages' = Messages
            BY <2>1 DEF Messages
        <2>3. request' = [d \in Calls |->
                            IF d = c THEN [kind |-> kind, read |-> Reading(kind),
                                           reply |-> "none"]
                                     ELSE request[d]]
            BY <1>4 DEF Begin, CountsInv
        <2>4. ASSUME NEW d \in Calls PROVE CountRead(request[d])'
            <3>1. CASE d = c
                <4>1. request'[d].kind = kind /\ request'[d].read = Reading(kind)
                    BY <2>3, <3>1
                <4>2. kind \in {"turn"} \cup SessionStatuses => request'[d].read = session
                    BY <4>1, SessionAssumption DEF Reading, SessionStatuses, Open
                <4>3. QED
                    BY <2>2, <4>1, <4>2 DEF CountRead, CountsInv, MessagesAreCounted
            <3>2. CASE d # c
                BY <2>2, <2>3, <3>2 DEF CountRead, CountsInv
            <3>3. QED
                BY <3>1, <3>2
        <2>5. request' = [d \in Calls |-> request'[d]]
            BY <2>3
        <2>6. QED
            BY <2>1, <2>2, <2>4, <2>5 DEF CountsInv, MessagesAreCounted
    <1>5. ASSUME NEW c \in Calls, AskMock(c) \/ Repair(c) \/ Reply(c) PROVE CountsInv'
        <2>1. UNCHANGED <<session, stored, stale>>
            BY <1>5 DEF AskMock, Repair, Reply
        <2>2. Messages' = Messages
            BY <2>1 DEF Messages
        <2>3. PICK reply \in {"invalid", "valid"} : Replied(c, reply)
            BY <1>5 DEF AskMock, Repair, Reply
        <2>4. request' = [d \in Calls |->
                            IF d = c THEN [request[c] EXCEPT !.reply = reply]
                                     ELSE request[d]]
            BY <2>3 DEF Replied, CountsInv
        <2>5. request' = [d \in Calls |-> request'[d]]
            BY <2>4
        <2>6. QED
            BY <2>1, <2>2, <2>4, <2>5 DEF CountsInv, MessagesAreCounted, CountRead
    <1>6. ASSUME NEW c \in Calls, PersistTurn(c) PROVE CountsInv'
        <2>1. Drawn(Turns) \in Turns /\ usage[Drawn(Turns)] = "none"
            BY <1>6, DrawnIsUnused DEF PersistTurn
        <2>2. Drawn(Turns) \notin stored
            BY <2>1 DEF ItemsInv, UsageTellsOutcome, Items
        <2>3. stored' = stored \cup {Drawn(Turns)} /\ Leave(c)
              /\ Update(c, Turned(request[c].read)) /\ request[c].kind = "turn"
            BY <1>6 DEF PersistTurn, Pursues
        <2>4. Messages' = Messages + 2
            BY <2>1, <2>2, <2>3, MessagesGrow
        <2>5. request[c].kind \in {"turn"} \cup SessionStatuses
              /\ Row(Turned(request[c].read))
              /\ Turned(request[c].read).message_count = request[c].read.message_count + 2
            BY <1>6, <2>3, Written DEF CountsInv, CountRead
        <2>6. Row(session)' /\ session'.message_count \in Nat /\ MessagesAreCounted'
            BY <2>3, <2>4, <2>5, RowUpdated
        <2>7. /\ request' = [d \in Calls |-> request'[d]]
              /\ \A d \in Calls : CountRead(request[d])'
            BY <1>1, <2>3, <2>4, OthersRead
        <2>8. QED
            BY <2>6, <2>7 DEF CountsInv
    <1>7. ASSUME NEW c \in Calls, PersistQuiz(c) PROVE CountsInv'
        <2>1. Drawn(Quizzes) \in Quizzes /\ usage[Drawn(Quizzes)] = "none"
            BY <1>7, DrawnIsUnused DEF PersistQuiz
        <2>2. Drawn(Quizzes) \notin stored /\ Drawn(Quizzes) \notin Turns
            BY <2>1, SessionAssumption DEF ItemsInv, UsageTellsOutcome, Items
        <2>3. /\ stored' = stored \cup {Drawn(Quizzes)} /\ Leave(c)
              /\ UNCHANGED <<session, stale>>
            BY <1>7 DEF PersistQuiz
        <2>4. Messages' = Messages
            BY <2>2, <2>3, MessagesGrow
        <2>5. /\ request' = [d \in Calls |-> request'[d]]
              /\ \A d \in Calls : CountRead(request[d])'
            BY <1>1, <2>3, <2>4, OthersRead
        <2>6. QED
            BY <2>3, <2>4, <2>5 DEF CountsInv, MessagesAreCounted
    <1>8. ASSUME NEW c \in Calls, SetStatus(c) PROVE CountsInv'
        <2> DEFINE row == [request[c].read EXCEPT !.status = request[c].kind]
        <2>1. /\ request[c].kind \in SessionStatuses /\ Update(c, row) /\ Leave(c)
              /\ stored' = stored
            BY <1>8 DEF SetStatus, Pursues
        <2>2. Messages' = Messages + 0
            BY <1>1, <2>1, SMT DEF Messages
        <2>3. Row(row) /\ row.message_count = request[c].read.message_count + 0
            <3>1. Row(request[c].read) /\ request[c].read.message_count \in Nat
                BY <2>1 DEF CountsInv, CountRead
            <3>2. Row(row) /\ row.message_count = request[c].read.message_count
                BY <3>1, Written
            <3>3. QED
                BY <3>1, <3>2, SMT
        <2> HIDE DEF row
        <2>4. Row(session)' /\ session'.message_count \in Nat /\ MessagesAreCounted'
            BY <2>1, <2>2, <2>3, RowUpdated
        <2>5. /\ request' = [d \in Calls |-> request'[d]]
              /\ \A d \in Calls : CountRead(request[d])'
            BY <1>1, <2>1, <2>2, OthersRead
        <2>6. QED
            BY <2>4, <2>5 DEF CountsInv
    <1>9. QED
        BY <1>2, <1>3, <1>4, <1>5, <1>6, <1>7, <1>8
           DEF SessionNext, LookUpFails, Unsupported, Ask, AskAgain, NoReply, LoseTurn, LoseQuiz,
               LoseStatus, Replay, ReplayFails

-----------------------------------------------------------------------------
(* Every step. *)

\* Both parts hold before the first request.
LEMMA SessionInitially == ASSUME SessionInit PROVE ItemsInv /\ CountsInv
    <1>1. ItemsInv
        BY SessionAssumption
           DEF SessionInit, ItemsInv, ItemTypes, TurnsAreReplayed, UsageTellsOutcome, Items
    <1>2. Cardinality(stored \cap Turns) = 0
        <2>1. stored \cap Turns = {}
            BY DEF SessionInit
        <2>2. QED
            BY <2>1, FS_EmptySet
    <1>3. session.message_count = 0 /\ Messages = 0 /\ Row(session)
        BY <1>2, SMT DEF SessionInit, Messages, Row
    <1>4. ASSUME NEW c \in Calls PROVE CountRead(request[c])
        BY NoRequestReads DEF SessionInit, CountRead
    <1>5. request = [c \in Calls |-> request[c]]
        BY DEF SessionInit
    <1>6. QED
        BY <1>1, <1>3, <1>4, <1>5, SMT DEF CountsInv, MessagesAreCounted

\* Every step of a session keeps both parts.
LEMMA SessionInductive ==
    ASSUME ItemsInv /\ CountsInv, [SessionNext]_all
    PROVE  (ItemsInv /\ CountsInv)'
    BY ItemsInductive, CountsInductive

\* Each step of a session is a step of the guard, or none of its business.
LEMMA StepsAreCalls == ASSUME [SessionNext]_all PROVE [Next]_vars
    <1> USE DEF guards, all
    <1>1. CASE (Tick \/ Status) /\ UNCHANGED <<rows, request, provider>>
        BY <1>1 DEF Next
    <1>2. ASSUME NEW c \in Calls, \/ Ask(c) \/ AskMock(c) \/ AskAgain(c)
                              \/ Repair(c) \/ Reply(c) \/ NoReply(c),
                 UNCHANGED provider
          PROVE  Next
        BY <1>2 DEF Ask, AskMock, AskAgain, Repair, Reply, NoReply, Next
    <1>3. CASE UNCHANGED vars
        BY <1>3
    <1>4. QED
        BY <1>1, <1>2, <1>3
           DEF SessionNext, vars, Begin, LookUpFails, Unsupported, PersistTurn, LoseTurn, PersistQuiz,
               LoseQuiz, SetStatus, LoseStatus, Replay, ReplayFails

-----------------------------------------------------------------------------
(* The theorems. *)

\* The requests of a session are calls to the provider as ProviderGuard has
\* them (_generate_reply, generate_quiz and the provider's complete): whatever
\* a request does beside its call is a stutter of the guards.
THEOREM SessionImplementsGuard == SessionSpec => Spec
    <1>1. SessionInit => Init
        BY DEF SessionInit
    <1>2. [SessionNext]_all => [Next]_vars
        BY StepsAreCalls
    <1>3. QED
        BY <1>1, <1>2, PTL DEF SessionSpec, Spec

\* The requests of a session leave the breaker (record_success,
\* record_failure) counting failures as it should.
COROLLARY SessionBreakerCounts == SessionSpec => []BreakerCounts
    BY SessionImplementsGuard, BreakerCountsFailures, PTL

\* The requests of a session let the provider rest (allow_call).
COROLLARY SessionProviderRests == SessionSpec => ProviderRests
    BY SessionImplementsGuard, ProviderRestsForCooldown

\* However many turns overlap (_persist_turn and SessionRepository.update), the
\* count of messages is never too high, and is right unless a request wrote
\* over a change that it had not read.
THEOREM SessionCountsMessages == SessionSpec => []MessagesAreCounted
    <1>1. SessionInit => ItemsInv /\ CountsInv
        BY SessionInitially
    <1>2. (ItemsInv /\ CountsInv) /\ [SessionNext]_all => (ItemsInv /\ CountsInv)'
        BY SessionInductive
    <1>3. ItemsInv /\ CountsInv => MessagesAreCounted
        BY DEF CountsInv
    <1>4. QED
        BY <1>1, <1>2, <1>3, PTL DEF SessionSpec

\* A turn of a goal has its long-term memory or a replay of it
\* (_materialize_chat_turn_isolated, _schedule_chat_materialization_replay).
THEOREM SessionReplaysTurns == SessionSpec => []TurnsAreReplayed
    <1>1. SessionInit => ItemsInv
        BY SessionInitially
    <1>2. ItemsInv /\ [SessionNext]_all => ItemsInv'
        BY ItemsInductive
    <1>3. ItemsInv => TurnsAreReplayed
        BY DEF ItemsInv
    <1>4. QED
        BY <1>1, <1>2, <1>3, PTL DEF SessionSpec

\* The usage event that names a turn or a quiz tells whether its transaction
\* was committed (_persist_turn, generate_quiz).
THEOREM SessionUsageTellsOutcome == SessionSpec => []UsageTellsOutcome
    <1>1. SessionInit => ItemsInv
        BY SessionInitially
    <1>2. ItemsInv /\ [SessionNext]_all => ItemsInv'
        BY ItemsInductive
    <1>3. ItemsInv => UsageTellsOutcome
        BY DEF ItemsInv
    <1>4. QED
        BY <1>1, <1>2, <1>3, PTL DEF SessionSpec

\* A session that was closed is opened again by a request for that or by one
\* that wrote over the closing, which it had not read (_persist_turn,
\* update_session_status and SessionRepository.update).
THEOREM SessionClosedStays == SessionSpec => ClosedStays
    <1> DEFINE Opened == session.status \in Closed /\ session'.status = Open
               Asked == \E c \in Calls : Pursues(c, {Open}) /\ SetStatus(c)
               Step == Opened => (stale' \/ Asked)
               Inv == ItemsInv /\ CountsInv
    <1>1. SessionInit => Inv
        BY SessionInitially
    <1>2. Inv /\ [SessionNext]_all => Inv'
        BY SessionInductive
    <1>3. Inv /\ [SessionNext]_all => [Step]_all
        <2> SUFFICES ASSUME Inv, SessionNext, Opened, ~stale' PROVE Asked
            OBVIOUS
        <2>1. session'.status # session.status
            BY SessionAssumption DEF Open
        <2>2. PICK c \in Calls : PersistTurn(c) \/ SetStatus(c)
            BY <2>1
               DEF SessionNext, rows, Begin, LookUpFails, Unsupported, Ask, AskMock, AskAgain, Repair,
               Reply, Replied, NoReply,
                   LoseTurn, PersistQuiz, LoseQuiz, LoseStatus, Replay, ReplayFails
        <2>3. /\ request[c].kind \in {"turn"} \cup SessionStatuses
              /\ Row(request[c].read)
            BY <2>2 DEF PersistTurn, SetStatus, Pursues, CountsInv, CountRead
        <2>4. CASE PersistTurn(c)
            <3> DEFINE row == Turned(request[c].read)
            <3>1. session = request[c].read /\ session' \in Overlaid(request[c].read, row)
                BY <2>4 DEF PersistTurn, Update
            <3>2. row.status = request[c].read.status
                BY <2>3 DEF Turned, Row
            <3> HIDE DEF row
            <3>3. session'.status = session.status
                BY <3>1, <3>2 DEF Overlaid
            <3>4. QED
                BY <2>1, <3>3
        <2>5. CASE SetStatus(c)
            <3> DEFINE row == [request[c].read EXCEPT !.status = request[c].kind]
            <3>1. session = request[c].read /\ session' \in Overlaid(request[c].read, row)
                BY <2>5 DEF SetStatus, Update
            <3>2. row.status = request[c].kind
                BY <2>3 DEF Row
            <3> HIDE DEF row
            <3>3. session'.status \in {session.status, request[c].kind}
                BY <3>1, <3>2 DEF Overlaid
            <3>4. request[c].kind = Open
                BY <2>1, <3>3
            <3>5. QED
                BY <2>5, <3>4 DEF Pursues
        <2>6. QED
            BY <2>2, <2>4, <2>5
    <1> HIDE DEF Step, Inv
    <1>4. SessionSpec => [][Step]_all
        BY <1>1, <1>2, <1>3, PTL DEF SessionSpec
    <1>5. QED
        BY <1>4 DEF ClosedStays, Step

=============================================================================
