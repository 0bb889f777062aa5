----------------------------- MODULE WaveLedger -----------------------------
(***************************************************************************)
(* One wave's durable ledger (the SQLite rows) and what its transactions    *)
(* do to it.  A launch row, its stage run and its budget entry are created  *)
(* together and share the idempotency key wave:ticket:stage:attempt, so     *)
(* each is a function of that key; "NONE" stands for "no such row".         *)
(*                                                                         *)
(* The ledger of this module is used by one ticker identity: a lease row is *)
(* then its resource and its holder ticket (with a single identity the      *)
(* generation of a held lease never changes), and time is left out: what    *)
(* depends on a clock is a choice of the modules that use this one.         *)
(***************************************************************************)
EXTENDS Integers, FiniteSets, FiniteSetsExt, WaveStates

CONSTANTS
    Ticket,       \* the tickets frozen in the wave's manifest
    Scope,        \* writer scopes
    ScopeOf,      \* the writer scope of each ticket
    DependsOn,    \* the tickets each ticket depends on
    ReviewSkip,   \* tickets with planReviewSkip
    NeedsUx,      \* tickets with needsUx
    HumanHold,    \* tickets with humanHold
    Stamped,      \* tickets whose plan carries an "APPROVED by" stamp
    Forge,        \* the review forge is configured
    UxReady,      \* the UX workspace and the UX spec are present
    MaxRetries,   \* limits.maxRetriesPerStage
    MaxLaunches,  \* limits.maxLaunches
    ReviseCap,    \* planReviewReviseCap and uxReviewReviseCap
    SlotCap,      \* min(perProviderConcurrency, ACP slots)
    UsageKnown,   \* the usage adapter reports actual usage
    None          \* no ticket, no item

Stage == {"PLAN", "REVIEW", "UX_REVIEW", "IMPL"}
GateStage == {"REVIEW", "UX_REVIEW"}
Attempt == 1 .. (MaxRetries + 1)
Key == [ticket : Ticket, stage : Stage, attempt : Attempt]

ASSUME LedgerAssumption ==
    /\ IsFiniteSet(Ticket)
    /\ ScopeOf \in [Ticket -> Scope]
    /\ DependsOn \in [Ticket -> SUBSET Ticket]
    /\ ReviewSkip \subseteq Ticket /\ NeedsUx \subseteq Ticket
    /\ HumanHold \subseteq Ticket /\ Stamped \subseteq Ticket
    /\ {Forge, UxReady, UsageKnown} \subseteq BOOLEAN
    /\ {MaxRetries, MaxLaunches, ReviseCap, SlotCap} \subseteq Nat
    /\ None \notin Ticket

VARIABLES
    waveStatus,       \* waves.status
    cancelRequested,  \* waves.cancel_requested
    launches,         \* waves.counters.launches
    ticket,           \* tickets.status, by ticket
    outbox,           \* launch_outbox.state, by key
    stageRun,         \* stage_runs.status, by key
    budget,           \* budgets.state, by key
    receipt,          \* keys whose outbox row carries a launch receipt
    hopLaunch,        \* plan_review_launch and ux_review_launch events
    revises,          \* number of *_review_revise events, by ticket and gate
    lease,            \* leases "writer:<repo>:<scope>": the holder ticket
    landLock          \* lease "land:<repo>": the holder ticket

rowVars == <<outbox, stageRun, budget, receipt, launches>>
gateVars == <<hopLaunch, revises>>
leaseVars == <<lease, landLock>>
ledgerVars == <<waveStatus, cancelRequested, ticket, rowVars, gateVars, leaseVars>>

\* The ledger's part of the type invariant.
LedgerTypeOK ==
    /\ waveStatus \in WaveStatus
    /\ cancelRequested \in BOOLEAN
    /\ launches \in Nat
    /\ ticket \in [Ticket -> TicketStatus]
    /\ outbox \in [Key -> OutboxState \cup {"NONE"}]
    /\ stageRun \in [Key -> StageStatus \cup {"NONE"}]
    /\ budget \in [Key -> BudgetState \cup {"NONE"}]
    /\ receipt \subseteq Key
    /\ hopLaunch \subseteq Ticket \X GateStage \X (Attempt \cup {0})
    /\ revises \in [Ticket -> [GateStage -> Nat]]
    /\ lease \in [Scope -> Ticket \cup {None}]
    /\ landLock \in Ticket \cup {None}

----------------------------------------------------------------------------
(* Queries. *)

Rows == {k \in Key : outbox[k] # "NONE"}
OpenRows == {k \in Rows : outbox[k] \notin ClosedRow}
RowsIn(states) == {k \in Key : outbox[k] \in states}
RowsOf(t, s) == {k \in Rows : k.ticket = t /\ k.stage = s}
OpenRowsOf(t) == {k \in OpenRows : k.ticket = t}

\* latestPlanAttempt: the last PLAN attempt that succeeded, 0 if none.
LatestPlan(t) ==
    Max({0} \cup {k.attempt : k \in {p \in RowsOf(t, "PLAN") : stageRun[p] = "SUCCEEDED"}})

\* hasHopLaunch for the current plan attempt, and hasLaunch for any attempt.
HopLaunched(t, gate) == <<t, gate, LatestPlan(t)>> \in hopLaunch
EverLaunched(t, gate) == \E n \in Attempt : <<t, gate, n>> \in hopLaunch

\* openStageOutbox or stageBusy, leaving out the rows in settling, which the
\* same transaction has just closed.
GateBusy(t, gate, settling) ==
    \E k \in RowsOf(t, gate) \ settling :
        outbox[k] \notin ClosedRow \/ stageRun[k] \in {"PENDING", "RUNNING"}

\* nearestDeadAncestor walks the dependency graph from a ticket: these are the
\* tickets it reaches.
AncestorsWithin[n \in 0 .. Cardinality(Ticket)] ==
    IF n = 0 THEN DependsOn
    ELSE [t \in Ticket |-> AncestorsWithin[n - 1][t] \cup
                              UNION {DependsOn[u] : u \in AncestorsWithin[n - 1][t]}]
Ancestors(t) == AncestorsWithin[Cardinality(Ticket)][t]

----------------------------------------------------------------------------
(* Values that transactions write. *)

MarkIndeterminate(b) == IF b \in {"COMMITTED", "RELEASED"} THEN b ELSE "INDETERMINATE"

ApplyUsage(b) ==
    IF ~UsageKnown THEN MarkIndeterminate(b)
    ELSE IF b \in {"RESERVED", "INDETERMINATE"} THEN "COMMITTED" ELSE b

\* Seeded fault: charged entries are marked too.
ReservationsReopened ==
    [k \in Key |-> IF budget[k] # "NONE" THEN "INDETERMINATE" ELSE "NONE"]

ReservationsClosed ==
    [k \in Key |-> IF budget[k] = "RESERVED" THEN "INDETERMINATE" ELSE budget[k]]

\* Seeded fault: a swept lease is dropped whatever its ticket is doing.
LeasesDropped(st, swept) == [s \in Scope |-> IF s \in swept THEN None ELSE lease[s]]

\* The leases left once those held by tickets that are not IMPL-active under
\* the statuses st are released; only the scopes in swept are looked at.
LeasesSwept(st, swept) ==
    [s \in Scope |-> IF /\ s \in swept
                        /\ lease[s] \in Ticket
                        /\ st[lease[s]] \notin ImplActive
                     THEN None ELSE lease[s]]
LandSwept(st) ==
    IF landLock \in Ticket /\ st[landLock] \notin ImplActive THEN None ELSE landLock

\* releaseInactiveWriterLeases: sweeps every lease of the wave, the land lock too.
ReleaseInactive(st) ==
    /\ lease' = LeasesSwept(st, Scope)
    /\ landLock' = LandSwept(st)

\* releaseWriterLeaseIfHeld for ticket t once its status is s.
LeaseAfter(t, s) ==
    IF s \notin ImplActive /\ lease[ScopeOf[t]] = t
    THEN [lease EXCEPT ![ScopeOf[t]] = None] ELSE lease

----------------------------------------------------------------------------
(* queueStage: what makes it refuse, and the rows it inserts. *)

\* Seeded fault: attempts that failed to launch are not counted.
NextKeySettled(t, s) ==
    [ticket |-> t, stage |-> s,
     attempt |-> Cardinality({k \in RowsOf(t, s) : outbox[k] = "SETTLED"}) + 1]

NextKey(t, s) == [ticket |-> t, stage |-> s, attempt |-> Cardinality(RowsOf(t, s)) + 1]

RetriesSpent(t, s) == Cardinality(RowsOf(t, s)) > MaxRetries
OwnSlotsFull == Cardinality(OpenRows) >= SlotCap
\* Seeded fault: off by one.
LaunchesSpentLate == launches > MaxLaunches

LaunchesSpent == launches + 1 > MaxLaunches

StageTicketStatus(s) == IF s = "PLAN" THEN "PLANNING" ELSE "IMPLEMENTING"

\* The ticket cannot enter the stage from its present status.
IllegalEntry(t, s) ==
    /\ s \notin GateStage
    /\ LET from == IF ticket[t] = "PENDING" THEN "CLAIMED" ELSE ticket[t]
       IN  ~TicketMayMove(from, StageTicketStatus(s), cancelRequested)

\* The admission transaction: stage run, reservation, outbox row and, for IMPL,
\* the writer lease (one identity: a lease it already holds is simply retaken).
InsertRow(t, s) ==
    LET k == NextKey(t, s) IN
    /\ outbox' = [outbox EXCEPT ![k] = "PENDING"]
    /\ stageRun' = [stageRun EXCEPT ![k] = "PENDING"]
    /\ budget' = [budget EXCEPT ![k] = "RESERVED"]
    /\ launches' = launches + 1
    /\ ticket' = IF s \in GateStage THEN ticket
                 ELSE [ticket EXCEPT ![t] = StageTicketStatus(s)]
    /\ lease' = IF s = "IMPL" THEN [lease EXCEPT ![ScopeOf[t]] = t] ELSE lease
    /\ UNCHANGED <<receipt, landLock>>

----------------------------------------------------------------------------
(* Failing a row, and stopping or completing the wave. *)

\* Seeded fault: a failed IMPL goes back to planning.
RearmPlanning(s) == IF s \in {"PLAN", "IMPL"} THEN "REVISING" ELSE "PLAN_REVIEW"

Rearm(s) == CASE s = "PLAN" -> "REVISING"
              [] s \in GateStage -> "PLAN_REVIEW"
              [] s = "IMPL" -> "APPROVED"

\* A death that leaves a retry; fatal deaths (stageDeathNoRetry) never do.
RetryRemains(k, fatal) == k.attempt - 1 < MaxRetries /\ ~fatal

\* The re-arm is not a legal ticket move: the transaction throws and rolls back.
RearmThrows(k, fatal) ==
    RetryRemains(k, fatal) /\ ~TicketMayMove(ticket[k.ticket], Rearm(k.stage), FALSE)

DeathStatus(k, fatal) == IF RetryRemains(k, fatal) THEN Rearm(k.stage) ELSE "FAILED"

\* failLaunchWithoutReceipt, when it throws and when it does not.
FailLaunchThrows(k, fatal) ==
    /\ outbox[k] \notin ClosedRow
    /\ ticket[k.ticket] \notin TerminalTicket
    /\ RearmThrows(k, fatal)

\* Seeded fault: the row is put back in the queue instead of being failed.
FailLaunchRequeues(k, fatal) ==
    /\ outbox' = IF outbox[k] \in ClosedRow THEN outbox ELSE [outbox EXCEPT ![k] = "PENDING"]
    /\ UNCHANGED <<stageRun, budget, receipt, launches, ticket>>

FailLaunch(k, fatal) ==
    /\ IF outbox[k] \in ClosedRow
       THEN UNCHANGED <<outbox, stageRun, budget, ticket>>
       ELSE /\ outbox' = [outbox EXCEPT ![k] = "FAILED"]
            /\ stageRun' = [stageRun EXCEPT ![k] = "FAILED"]
            /\ budget' = [budget EXCEPT ![k] = MarkIndeterminate(budget[k])]
            /\ ticket' = IF ticket[k.ticket] \in TerminalTicket THEN ticket
                         ELSE [ticket EXCEPT ![k.ticket] = DeathStatus(k, fatal)]
    /\ UNCHANGED <<receipt, launches>>

\* stopForBudget.
StopForBudget ==
    IF waveStatus \in TerminalWave
    THEN UNCHANGED <<waveStatus, ticket, budget, leaseVars>>
    ELSE LET stopped == [t \in Ticket |-> IF ticket[t] \in TerminalTicket THEN ticket[t]
                                          ELSE "BUDGET_STOPPED"]
         IN  /\ waveStatus' = "BUDGET_STOPPED"
             /\ ticket' = stopped
             /\ budget' = ReservationsClosed
             /\ ReleaseInactive(stopped)

\* Seeded fault: dependents of a dead ticket wait for it.
DependentsWait == ticket

\* failDependentsOfDeadTickets: the ticket statuses it leaves.
DependentsFailed ==
    [t \in Ticket |->
        IF /\ ~cancelRequested
           /\ ticket[t] \notin TerminalTicket
           /\ \E u \in Ancestors(t) : ticket[u] \in {"FAILED", "CANCELLED"}
        THEN "FAILED" ELSE ticket[t]]

\* maybeCompleteWave.
CompletedStatus(st) ==
    IF \A t \in Ticket : st[t] = "CANCELLED" THEN "CANCELLED"
    ELSE IF \E t \in Ticket : st[t] \in {"FAILED", "BLOCKED", "BUDGET_STOPPED"}
    THEN "FAILED" ELSE "COMPLETED"

\* Seeded fault: the early return for a wave that is over is missing.
MaybeCompleteAgain ==
    /\ ticket' = DependentsFailed
    /\ waveStatus' = IF \A t \in Ticket : DependentsFailed[t] \in TerminalTicket
                     THEN CompletedStatus(DependentsFailed) ELSE waveStatus
    /\ UNCHANGED budget

MaybeCompleteWave ==
    IF waveStatus \in TerminalWave
    THEN UNCHANGED <<waveStatus, ticket, budget>>
    ELSE /\ ticket' = DependentsFailed
         /\ IF \A t \in Ticket : DependentsFailed[t] \in TerminalTicket
            THEN /\ waveStatus' = CompletedStatus(DependentsFailed)
                 /\ budget' = ReservationsClosed
            ELSE UNCHANGED <<waveStatus, budget>>
=============================================================================
