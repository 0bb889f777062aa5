SPECIFICATION FairSpec

CONSTANTS
    t1 = t1
    t2 = t2
    s1 = s1
    None = none
    Ticket = {t1, t2}
    Scope = {s1}
    ScopeOf <- OneScope
    DependsOn <- Chain
    ReviewSkip = {t1, t2}
    NeedsUx = {}
    HumanHold = {}
    Stamped = {}
    Forge = TRUE
    UxReady = TRUE
    MaxRetries = 1
    MaxLaunches = 6
    ReviseCap = 1
    SlotCap = 2
    UsageKnown = TRUE
    Faults = {"crash", "worker_fail", "hung", "launch_error", "land_fail"}
    AcpReview = FALSE
    Commands = {}
    Verdicts = {"approve", "revise"}
    InitStatus = "RUNNING"

INVARIANTS
    ImplHoldsLease
    DependenciesDone
    NoForgottenWorker
    RecordsAgree

PROPERTIES
    WaveTerminates
    LandingRecorded
    TerminalStays

\* A wave that is over or paused is not ticked any more.
CHECK_DEADLOCK FALSE
