----------------------------- MODULE WorkLedger -----------------------------
(***************************************************************************)
(* What a job queue promises the services that submit work to it: an item  *)
(* becomes known once, and its work is done at most once, after it became  *)
(* known.                                                                  *)
(***************************************************************************)
EXTENDS Naturals

CONSTANT Work
VARIABLES known, runs

vars == <<known, runs>>

Init == known = {} /\ runs = [w \in Work |-> 0]

Accept(w) ==
    /\ w \notin known
    /\ known' = known \cup {w}
    /\ UNCHANGED runs

Perform(w) ==
    /\ w \in known /\ runs[w] = 0
    /\ runs' = [runs EXCEPT ![w] = 1]
    \* Committing one item's work may make another item known.
    /\ \E new \in SUBSET (Work \ known) : known' = known \cup new

Next == \E w \in Work : Accept(w) \/ Perform(w)

Spec == Init /\ [][Next]_vars
=============================================================================
