SPECIFICATION Spec

CONSTANTS
    a1 = a1
    a2 = a2
    b1 = b1
    wa = wa
    wb = wb
    shared = shared
    None = none
    Wave = {wa, wb}
    Ticket = {a1, a2, b1}
    Scope = {shared}
    WaveOf <- WaveOfAAB
    ScopeOf <- OneScope
    Mode <- AllCommit
    MaxRetries = 0
    MaxFaults = 0
    RetryTickets = {a1}

INVARIANTS
    ScopeExclusive

\* The waves end.
CHECK_DEADLOCK FALSE
