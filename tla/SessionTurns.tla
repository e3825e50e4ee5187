----------------------------- MODULE SessionTurns -----------------------------
(***************************************************************************)
(* The requests on one learning session, each a coroutine of the API: chat *)
(* turns, quizzes and changes of status.  Turns and quizzes call the LLM   *)
(* through the guards of ProviderGuard, so that a request reads the        *)
(* session's row, waits for a reply, and writes what it read anew.  The    *)
(* long-term memory of a turn is written under a savepoint; when that      *)
(* fails a job replays it.                                                 *)
(***************************************************************************)
EXTENDS ProviderGuard, FiniteSets

CONSTANTS Turns,    \* ids: a turn is the learner's message and the reply
          Quizzes,  \* ids
          WithGoal, \* the session belongs to a goal
          Closed    \* the statuses that are not "active"

ASSUME SessionAssumption ==
    /\ IsFiniteSet(Turns) /\ Turns \cap Quizzes = {} /\ WithGoal \in BOOLEAN
    /\ Closed \subseteq {"archived", "completed"}

VARIABLES
    session,     \* the row
    stored,      \* turns and quizzes that are committed
    usage,       \* outcome of the usage event that names the turn or quiz
    remembered,  \* turns whose long-term memory is written
    replays,     \* status of the turn's replay job
    request,     \* per coroutine: what it does, and the row it read
    stale        \* history: a request wrote over a later change of the row

rows == <<session, stored, usage, remembered, replays, stale>>
guards == <<made, breaker, call, tries, rest>>
all == <<vars, rows, request>>

-----------------------------------------------------------------------------
(* The rows. *)

Open == "active"
SessionStatuses == {Open} \cup Closed

Items == Turns \cup Quizzes

\* a turn is two messages
Session == [status: SessionStatuses, message_count: {2 * n : n \in 0 .. Cardinality(Turns)}]

Kinds == {"turn", "quiz"} \cup SessionStatuses
NoRequest == [kind |-> "none"]
NoRow == [status |-> "none", message_count |-> 0]
Request == [kind: Kinds, read: Session \cup {NoRow},
            reply: {"none", "invalid", "valid"}]

SessionTypeOK ==
    /\ TypeOK
    /\ session \in Session
    /\ stored \subseteq Items /\ usage \in [Items -> {"none", "completed", "failed"}]
    /\ remembered \subseteq Turns
    /\ replays \in [Turns -> {"none", "waiting", "completed", "failed"}]
    /\ request \in [Calls -> Request \cup {NoRequest}]
    /\ stale \in BOOLEAN

SessionInit ==
    /\ Init
    /\ session = [status |-> Open, message_count |-> 0]
    /\ stored = {} /\ usage = [i \in Items |-> "none"]
    /\ remembered = {} /\ replays = [t \in Turns |-> "none"]
    /\ request = [c \in Calls |-> NoRequest]
    /\ stale = FALSE

Pursues(c, kinds) == request[c].kind \in kinds

Leave(c) == request' = [request EXCEPT ![c] = NoRequest]

\* The update selects the row again and writes what differs from it: a later
\* change that is committed by then is overwritten, one whose transaction still
\* holds the row is kept in the columns this update leaves as they were.
Overlaid(read, row) ==
    {row, [status |-> IF row.status = read.status THEN session.status ELSE row.status,
           message_count |-> IF row.message_count = read.message_count
                             THEN session.message_count ELSE row.message_count]}

Update(c, row) ==
    /\ session' \in Overlaid(request[c].read, row)
    /\ stale' = (stale \/ session # request[c].read)

-----------------------------------------------------------------------------
(* Requests. *)

\* a quiz makes no use of what it read
Reading(kind) == IF kind = "quiz" THEN NoRow ELSE session

\* the row is read, then history, hint, memories and the skill's release
Begin(c, kind) ==
    /\ request[c] = NoRequest
    /\ request' = [request EXCEPT ![c] =
                      [kind |-> kind, read |-> Reading(kind), reply |-> "none"]]
    /\ UNCHANGED <<guards, rows>>

\* the skill is blocked, the hint's quiz is not the session's, or a retrieval fails
LookUpFails(c) ==
    /\ Pursues(c, {"turn", "quiz"}) /\ call[c] = "idle" /\ request[c].reply = "none"
    /\ Leave(c)
    /\ UNCHANGED <<guards, rows>>

\* quizzes pass the provider arguments that DashScope's does not take: the
\* quiz fails before the guards are asked
Unsupported(c) ==
    /\ Pursues(c, {"quiz"}) /\ provider = "dashscope"
    /\ Leave(c)
    /\ UNCHANGED <<guards, rows>>

\* the first call, or the one that has an invalid reply repaired
Ask(c) ==
    /\ Pursues(c, {"turn"}) /\ request[c].reply # "valid"
    /\ Send(c)
    /\ UNCHANGED <<rows, request>>

Replied(c, reply) == request' = [request EXCEPT ![c].reply = reply]

\* the mock's reply is valid, and is there at once
AskMock(c) ==
    /\ Pursues(c, {"turn", "quiz"}) /\ request[c].reply = "none"
    /\ Mocked(c)
    /\ Replied(c, "valid")
    /\ UNCHANGED rows

\* a failed usage is committed alone; it names no turn and no quiz.  A repaired
\* reply may be invalid as well, and a valid hint may give the answer away.
NoReply(c) ==
    /\ Pursues(c, {"turn", "quiz"}) /\ request[c].reply # "valid"
    /\ OverBudget(c) \/ Rejected(c) \/ GivenUp(c) \/ Escaped(c) \/ Answered(c)
    /\ Leave(c)
    /\ UNCHANGED rows

AskAgain(c) == Retried(c) /\ UNCHANGED <<rows, request>>

\* a first reply is not the JSON that was asked for: another call shall mend it
Repair(c) ==
    /\ Answered(c) /\ request[c].reply = "none"
    /\ Replied(c, "invalid")
    /\ UNCHANGED rows

Reply(c) ==
    /\ Answered(c)
    /\ Replied(c, "valid")
    /\ UNCHANGED rows

-----------------------------------------------------------------------------
(* Turns. *)

\* ids are random: which of the unused ones is drawn makes no difference
Unused(S) == {i \in S : usage[i] = "none"}
Drawn(S) == CHOOSE i \in Unused(S) : TRUE

Turned(row) == [row EXCEPT !.message_count = @ + 2]

\* what becomes of the memories themselves is Memories'
Materialized(t) == remembered' = remembered \cup {t}

\* a session without a goal has no replay
Queued(t) == replays' = [replays EXCEPT ![t] = IF WithGoal THEN "waiting" ELSE "none"]

\* Mutant of Remember: no replay is queued.
RememberOnce(t) == (Materialized(t) \/ UNCHANGED remembered) /\ UNCHANGED replays

\* long-term memory is written in a savepoint, or its replay is queued with the
\* turn's transaction
Remember(t) ==
    \/ Materialized(t) /\ UNCHANGED replays
    \/ Queued(t) /\ UNCHANGED remembered

\* messages, row, memory events, usage and observations are one transaction
PersistTurn(c) ==
    /\ Pursues(c, {"turn"}) /\ request[c].reply = "valid"
    /\ Unused(Turns) # {}
    /\ LET t == Drawn(Turns) IN
          /\ stored' = stored \cup {t}
          /\ usage' = [usage EXCEPT ![t] = "completed"]
          /\ Remember(t)
    /\ Update(c, Turned(request[c].read))
    /\ Leave(c)
    /\ UNCHANGED guards

\* Mutant of LoseTurn: the row is written by the time the turn fails.
LoseTurnLate(c) ==
    /\ Pursues(c, {"turn"}) /\ request[c].reply = "valid"
    /\ Update(c, Turned(request[c].read))
    /\ Leave(c)
    /\ UNCHANGED <<guards, stored, usage, remembered, replays>>

\* an event's embedding, a write or the commit fails: nothing is left, and no
\* usage says so
LoseTurn(c) ==
    /\ Pursues(c, {"turn"}) /\ request[c].reply = "valid"
    /\ Leave(c)
    /\ UNCHANGED <<guards, rows>>

-----------------------------------------------------------------------------
(* Quizzes. *)

\* quiz, questions, usage and observation are one transaction
PersistQuiz(c) ==
    /\ Pursues(c, {"quiz"}) /\ request[c].reply = "valid"
    /\ Unused(Quizzes) # {}
    /\ stored' = stored \cup {Drawn(Quizzes)}
    /\ usage' = [usage EXCEPT ![Drawn(Quizzes)] = "completed"]
    /\ Leave(c)
    /\ UNCHANGED <<guards, session, remembered, replays, stale>>

\* Mutant of LoseQuiz: the quiz is not rolled back.
LoseQuizLate(c) ==
    /\ Pursues(c, {"quiz"}) /\ request[c].reply = "valid"
    /\ Unused(Quizzes) # {}
    /\ stored' \in {stored, stored \cup {Drawn(Quizzes)}}
    /\ usage' = [usage EXCEPT ![Drawn(Quizzes)] = "failed"]
    /\ Leave(c)
    /\ UNCHANGED <<guards, session, remembered, replays, stale>>

\* rolled back; then a failed usage that names the quiz is committed, if that
\* does not fail as well
LoseQuiz(c) ==
    /\ Pursues(c, {"quiz"}) /\ request[c].reply = "valid"
    /\ Unused(Quizzes) # {}
    /\ usage' \in {usage, [usage EXCEPT ![Drawn(Quizzes)] = "failed"]}
    /\ Leave(c)
    /\ UNCHANGED <<guards, session, stored, remembered, replays, stale>>

-----------------------------------------------------------------------------
(* The status, and the replay. *)

\* any status follows any other
SetStatus(c) ==
    /\ Pursues(c, SessionStatuses)
    /\ Update(c, [request[c].read EXCEPT !.status = request[c].kind])
    /\ Leave(c)
    /\ UNCHANGED <<guards, stored, usage, remembered, replays>>

LoseStatus(c) ==
    /\ Pursues(c, SessionStatuses)
    /\ Leave(c)
    /\ UNCHANGED <<guards, rows>>

\* what the job was queued for is read again
Replay(t) ==
    /\ replays[t] = "waiting" /\ t \in stored
    /\ replays' = [replays EXCEPT ![t] = "completed"]
    /\ Materialized(t)
    /\ UNCHANGED <<vars, session, stored, usage, request, stale>>

\* the last attempt fails; the earlier ones leave the job waiting
ReplayFails(t) ==
    /\ replays[t] = "waiting"
    /\ replays' = [replays EXCEPT ![t] = "failed"]
    /\ UNCHANGED <<vars, session, stored, usage, remembered, request, stale>>

SessionNext ==
    /\ \/ (Tick \/ Status) /\ UNCHANGED <<rows, request>>
       \/ \E c \in Calls :
              \/ \E kind \in Kinds : Begin(c, kind)
              \/ LookUpFails(c) \/ Unsupported(c)
              \/ Ask(c) \/ AskMock(c) \/ AskAgain(c) \/ Repair(c) \/ Reply(c) \/ NoReply(c)
              \/ PersistTurn(c) \/ LoseTurn(c)
              \/ PersistQuiz(c) \/ LoseQuiz(c)
              \/ SetStatus(c) \/ LoseStatus(c)
       \/ \E t \in Turns : Replay(t) \/ ReplayFails(t)
    /\ UNCHANGED provider

SessionSpec == SessionInit /\ [][SessionNext]_all

-----------------------------------------------------------------------------
(* Properties. *)

Messages == 2 * Cardinality(stored \cap Turns)

\* However turns and changes of status overlap, the row never counts more
\* messages than there are, and without a stale write it counts them all.
MessagesAreCounted ==
    /\ session.message_count <= Messages
    /\ ~stale => session.message_count = Messages

\* A session that is archived or completed is active again by a request for
\* that, or by one that had read it before; a turn alone does not open it.
ClosedStays ==
    [][(session.status \in Closed /\ session'.status = Open)
          => stale' \/ \E c \in Calls : Pursues(c, {Open}) /\ SetStatus(c)]_all

\* A turn of a goal is remembered or has a replay, and a replay has its turn.
TurnsAreReplayed ==
    \A t \in Turns :
        /\ replays[t] # "none" => t \in stored
        /\ (WithGoal /\ t \in stored) => (t \in remembered \/ replays[t] # "none")
        /\ replays[t] = "completed" => t \in remembered

\* The usage that names a turn or a quiz tells whether it is there.
UsageTellsOutcome ==
    \A i \in Items : usage[i] = "completed" <=> i \in stored

=============================================================================
