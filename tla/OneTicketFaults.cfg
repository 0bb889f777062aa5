SPECIFICATION Spec

CONSTANTS
    t1 = t1
    t2 = t2
    s1 = s1
    None = none
    Ticket = {t1}
    Scope = {s1}
    ScopeOf <- OneScope
    DependsOn <- NoDeps
    ReviewSkip = {}
    NeedsUx = {}
    HumanHold = {}
    Stamped = {}
    Forge = TRUE
    UxReady = TRUE
    MaxRetries = 1
    MaxLaunches = 4
    ReviseCap = 1
    SlotCap = 2
    UsageKnown = TRUE
    Faults = {"crash", "worker_fail", "lost", "launch_error", "prepare_error", "link_error",
              "inspect_error", "fatal", "bad_plan", "verify_fail", "land_fail", "land_throw",
              "land_busy", "hung", "cancel_fails", "dirty", "pool_full", "authority_held",
              "ceiling", "deadline", "no_verdict"}
    AcpReview = FALSE
    Commands = {"cancel"}
    Verdicts = {"approve", "revise"}
    InitStatus = "RUNNING"

INVARIANTS
    TypeOK
    LaunchOnce
    KeysFresh
    LaunchesBounded
    DoneMeansLanded
    ErrorsIsolated

PROPERTIES
    BudgetResolvedOnce

\* A wave that is over or paused is not ticked any more.
CHECK_DEADLOCK FALSE
