SPECIFICATION Spec

CONSTANTS
    t1 = t1
    t2 = t2
    s1 = s1
    None = none
    Ticket = {t1, t2}
    Scope = {s1}
    ScopeOf <- OneScope
    DependsOn <- Chain
    ReviewSkip = {t2}
    NeedsUx = {t2}
    HumanHold = {}
    Stamped = {}
    Forge = TRUE
    UxReady = TRUE
    MaxRetries = 2
    MaxLaunches = 8
    ReviseCap = 1
    SlotCap = 8
    UsageKnown = TRUE
    Faults = {"bad_plan", "verify_fail"}
    AcpReview = FALSE
    Commands = {"pause", "resume", "cancel"}
    Verdicts = {"approve", "revise"}
    InitStatus = "RUNNING"

INVARIANTS
    ImplPlanReviewed
    ImplUxReviewed
    VerdictIsFresh

\* A wave that is over or paused is not ticked any more.
CHECK_DEADLOCK FALSE
