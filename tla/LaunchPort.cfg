SPECIFICATION FairSpec

CONSTANTS
    supervisor = supervisor
    operator = operator
    Row = {1, 2}
    Ticker = {supervisor, operator}
    Supervisor = supervisor
    CliRow = {2}
    MaxFaults = 1

INVARIANTS
    TypeOK
    DoubleLaunchExplained
    OrphanExplained

PROPERTIES
    ImplementsLaunchLog
    RowsClose

\* The wave ends once its rows are closed.
CHECK_DEADLOCK FALSE
