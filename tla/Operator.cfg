SPECIFICATION Spec

CONSTANTS
    t1 = t1
    t2 = t2
    s1 = s1
    None = none
    Ticket = {t1, t2}
    Scope = {s1}
    ScopeOf <- OneScope
    DependsOn <- NoDeps
    ReviewSkip = {t1}
    NeedsUx = {}
    HumanHold = {t1}
    Stamped = {}
    Forge = TRUE
    UxReady = TRUE
    MaxRetries = 1
    MaxLaunches = 4
    ReviseCap = 1
    SlotCap = 2
    UsageKnown = FALSE
    Faults = {"launch_error"}
    AcpReview = FALSE
    Commands = {"freeze", "start", "pause", "resume", "approve", "revise", "cancel"}
    Verdicts = {"approve", "incomplete"}
    InitStatus = "DRAFT"

INVARIANTS
    AttemptsSerial
    OneImplPerScope
    BooksClosed

\* A wave that is over or paused is not ticked any more.
CHECK_DEADLOCK FALSE
