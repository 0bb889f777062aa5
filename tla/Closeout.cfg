SPECIFICATION FairSpec

CONSTANTS
    a1 = a1
    a2 = a2
    b1 = b1
    wa = wa
    wb = wb
    shared = shared
    None = none
    Wave = {wa, wb}
    Ticket = {a1, a2, b1}
    Scope = {shared}
    WaveOf <- WaveOfAAB
    ScopeOf <- OneScope
    Mode <- ModeA2Apply
    MaxRetries = 0
    MaxFaults = 1
    RetryTickets = {a1, a2}

INVARIANTS
    TypeOK
    NoLostWork

PROPERTIES
    ImplementsRepoLanding
    FenceSound
    VerifyingResolves

\* The waves end.
CHECK_DEADLOCK FALSE
