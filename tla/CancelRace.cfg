SPECIFICATION Spec

CONSTANTS
    t1 = t1
    t2 = t2
    s1 = s1
    None = none
    Ticket = {t1}
    Scope = {s1}
    ScopeOf <- OneScope
    DependsOn <- NoDeps
    ReviewSkip = {}
    NeedsUx = {}
    HumanHold = {}
    Stamped = {}
    Forge = TRUE
    UxReady = TRUE
    MaxRetries = 1
    MaxLaunches = 8
    ReviseCap = 1
    SlotCap = 2
    UsageKnown = TRUE
    Faults = {}
    AcpReview = FALSE
    Commands = {"cancel"}
    Verdicts = {"approve", "revise"}
    InitStatus = "RUNNING"

PROPERTIES
    CancelIsSticky

\* A wave that is over or paused is not ticked any more.
CHECK_DEADLOCK FALSE
