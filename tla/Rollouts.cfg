SPECIFICATION FairSpec
CONSTANTS
    Proposals = {p, q}
    Packages = {p}
    AutoAdmitted = {p}
    Ready = {q}
    OnPlans = TRUE
    Actors = {a}
    MaxRequests = 2
    MaxOpen = 1
    MaxFaults = 1
INVARIANTS OneActiveRollout BindingFollowsRollout
PROPERTIES VerdictsAreHeeded NoOverlayIsLeftBehind RolledBackStays RegressionsAreDealtWith FirstEvaluationIsServed
CHECK_DEADLOCK FALSE
