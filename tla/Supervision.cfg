SPECIFICATION FairSpec

CONSTANTS
    a = a
    b = b
    c = c
    d = d
    e = e
    f = f
    g = g
    old = old
    wab = wab
    wc = wc
    wd = wd
    wf = wf
    wg = wg
    Ticket = {a, b, c, d, e, f, g, old}
    Files <- Board
    NeedsJason = {e}
    Gated = {}
    ForAgents = {b, c, f, g}
    StrangeWorker = {f}
    ReviewSkip = {c}
    NeedsUx = {a}
    MaxTickets = 2
    MaxLaunches = 7
    Ledger = {1, 2}
    Wave = {wab, wc, wd, wf, wg}
    LedgerOf <- Home
    Asked <- Asks
    Kick = {1, 2}
    Copy = {3, 4}
    None = 0
    StuckTicks = 2
    FailLimit = 2
    IdleCycles = 1
    Eager = {}
    MaxKicks = 2
    MaxFaults = 1

INVARIANTS
    TypeOK
    FrozenInOrder
    EligibleAccepted
    OneSupervisor

PROPERTIES
    StuckStopsHonestly
    StartedStays
    LanesServed
    SupervisorEnds

\* The supervisor exits when there is nothing to do.
CHECK_DEADLOCK FALSE
