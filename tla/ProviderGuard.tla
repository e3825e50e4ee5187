---------------------------- MODULE ProviderGuard ----------------------------
(***************************************************************************)
(* The calls of one process to the LLM provider, and the two guards they   *)
(* pass: LLMCallGuard, a budget of calls per hour, and CircuitBreaker.     *)
(* A call is a coroutine: what it does up to its first await is one step,  *)
(* each answer of the provider another.  The mock answers without waiting  *)
(* and has the budget alone.  Times are ages, in ticks.                    *)
(***************************************************************************)
EXTENDS Naturals, Sequences

CONSTANTS
    Calls,       \* coroutines that call the provider
    Hour,        \* length of the budget's window
    MaxCalls,    \* max_calls_per_hour
    MaxRetries,  \* max_retries of the provider
    Threshold,   \* failure_threshold
    Cooldown     \* cooldown_seconds

ASSUME GuardAssumption ==
    /\ Hour \in Nat \ {0} /\ MaxCalls \in Nat /\ MaxRetries \in Nat
    /\ Threshold \in Nat \ {0} /\ Cooldown \in Nat

VARIABLES
    provider,  \* what get_llm_provider gave the process
    made,      \* age of each call the budget has counted
    state,     \* _state of the breaker
    failures,  \* _failure_count
    opened,    \* age of _opened_at, up to Cooldown
    call,      \* per coroutine: idle, or the state it was let through in
    tries,     \* per coroutine: attempts that failed
    rest       \* history: age of the last failure that left the breaker open

breaker == <<state, failures, opened>>
vars == <<provider, made, breaker, call, tries, rest>>

Providers == {"mock", "dashscope"}
States == {"closed", "open", "half_open"}

-----------------------------------------------------------------------------
(* The budget. *)

\* _calls after pruning.
Recent(ages) == SelectSeq(ages, LAMBDA age : age < Hour)

Older(age, limit) == IF age < limit THEN age + 1 ELSE age

-----------------------------------------------------------------------------
(* The breaker. *)

\* The property state: an open breaker whose cooldown has elapsed.
Current == IF state = "open" /\ opened >= Cooldown THEN "half_open" ELSE state

\* record_success, whatever the state.
Success == state' = "closed" /\ failures' = 0 /\ opened' = 0

\* Mutant of Failure: a breaker that opens again keeps its old time.
FailureKeepsTime ==
    /\ failures' = IF failures < Threshold THEN failures + 1 ELSE failures
    /\ IF failures + 1 >= Threshold
       THEN /\ state' = "open"
            /\ opened' = IF state = "closed" THEN 0 ELSE opened
       ELSE UNCHANGED <<state, opened>>

\* record_failure, whatever the state.  The cap on the count is the model's:
\* only its being below Threshold matters.
Failure ==
    /\ failures' = IF failures < Threshold THEN failures + 1 ELSE failures
    /\ IF failures + 1 >= Threshold THEN state' = "open" /\ opened' = 0
                                    ELSE UNCHANGED <<state, opened>>

-----------------------------------------------------------------------------
Init ==
    /\ provider \in Providers
    /\ made = <<>>
    /\ state = "closed" /\ failures = 0 /\ opened = 0
    /\ call = [c \in Calls |-> "idle"] /\ tries = [c \in Calls |-> 0]
    /\ rest = Cooldown

Tick ==
    /\ made' = [i \in DOMAIN made |-> Older(made[i], Hour)]
    /\ opened' = Older(opened, Cooldown)
    /\ rest' = Older(rest, Cooldown)
    /\ UNCHANGED <<state, failures, call, tries>>

\* check raises.
OverBudget(c) ==
    /\ call[c] = "idle"
    /\ Len(Recent(made)) >= MaxCalls
    /\ made' = Recent(made)
    /\ UNCHANGED <<breaker, call, tries, rest>>

\* check counts the call, then allow_call raises.
Rejected(c) ==
    /\ provider = "dashscope" /\ call[c] = "idle"
    /\ Len(Recent(made)) < MaxCalls
    /\ made' = Append(Recent(made), 0)
    /\ Current = "open"
    /\ UNCHANGED <<breaker, call, tries, rest>>

\* Both let the call through, its first request is sent.
Send(c) ==
    /\ provider = "dashscope" /\ call[c] = "idle"
    /\ Len(Recent(made)) < MaxCalls
    /\ made' = Append(Recent(made), 0)
    /\ Current # "open"
    /\ state' = Current
    /\ call' = [call EXCEPT ![c] = Current]
    /\ UNCHANGED <<failures, opened, tries, rest>>

\* The mock's _check_guard is passed, its answer is at hand.
Mocked(c) ==
    /\ provider = "mock" /\ call[c] = "idle"
    /\ Len(Recent(made)) < MaxCalls
    /\ made' = Append(Recent(made), 0)
    /\ UNCHANGED <<breaker, call, tries, rest>>

Return(c) ==
    /\ call' = [call EXCEPT ![c] = "idle"]
    /\ tries' = [tries EXCEPT ![c] = 0]
    /\ UNCHANGED made

Answered(c) ==
    /\ call[c] # "idle"
    /\ Success
    /\ rest' = Cooldown
    /\ Return(c)

Retried(c) ==
    /\ call[c] # "idle" /\ tries[c] < MaxRetries
    /\ tries' = [tries EXCEPT ![c] = @ + 1]
    /\ UNCHANGED <<made, breaker, call, rest>>

GivenUp(c) ==
    /\ call[c] # "idle" /\ tries[c] = MaxRetries
    /\ Failure
    /\ rest' = IF state' = "open" THEN 0 ELSE rest
    /\ Return(c)

\* The request is cancelled, or raises what the loop does not catch.
Escaped(c) ==
    /\ call[c] # "idle"
    /\ Return(c)
    /\ UNCHANGED <<breaker, rest>>

\* The status endpoint reads the property, which moves the state.
Status == state' = Current /\ UNCHANGED <<made, failures, opened, call, tries, rest>>

Next ==
    /\ \/ Tick \/ Status
       \/ \E c \in Calls : \/ OverBudget(c) \/ Mocked(c) \/ Rejected(c) \/ Send(c)
                           \/ Answered(c) \/ Retried(c) \/ GivenUp(c) \/ Escaped(c)
    /\ UNCHANGED provider

Spec == Init /\ [][Next]_vars

-----------------------------------------------------------------------------
TypeOK ==
    /\ provider \in Providers
    /\ made \in Seq(0 .. Hour)
    /\ state \in States /\ failures \in 0 .. Threshold /\ opened \in 0 .. Cooldown
    /\ call \in [Calls -> {"idle", "closed", "half_open"}]
    /\ tries \in [Calls -> 0 .. MaxRetries]
    /\ rest \in 0 .. Cooldown

\* However calls overlap, the breaker is closed exactly while fewer failures
\* than the threshold have been recorded since the last success, so that a
\* single failure opens it again when it is half open.
BreakerCounts == state = "closed" <=> failures < Threshold

\* After a failure that leaves the breaker open no call is sent for the whole
\* cooldown, unless one that was already on its way succeeds.
ProviderRests ==
    [][\A c \in Calls : (call[c] = "idle" /\ call'[c] # "idle") => rest >= Cooldown]_vars

\* CircuitBreaker: "half-open: one probe call is allowed through".
OneProbe == \A c, d \in Calls : (call[c] = "half_open" /\ call[d] = "half_open") => c = d
=============================================================================
