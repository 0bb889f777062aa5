------------------------------ MODULE WaveTick ------------------------------
(***************************************************************************)
(* The ticker: tickWave (src/core/tick.ts) as the operator loop drives it,  *)
(* through tickLiveWaves (src/core/run-supervisor.ts), over one wave.       *)
(*                                                                         *)
(* A step of the ticker is one ledger transaction with the synchronous code *)
(* around it, or the end of one await; between two steps an operator        *)
(* command may commit, a worker may finish, or the process may die.  A loop *)
(* over rows or tickets takes its snapshot (todo) when it starts, as the    *)
(* code does, and visits it in any order.                                   *)
(***************************************************************************)
EXTENDS WaveGate

CONSTANTS
    Faults,    \* what may go wrong: a subset of FaultKind
    AcpReview  \* REVIEW runs on the ACP worker, whose inspection reads files first

FaultKind == {"crash", "worker_fail", "lost", "launch_error", "prepare_error", "link_error",
              "inspect_error", "fatal", "bad_plan", "verify_fail", "land_fail", "land_throw",
              "land_busy", "hung", "cancel_fails", "dirty", "pool_full", "authority_held",
              "ceiling", "deadline", "no_verdict"}

ASSUME FaultAssumption == Faults \subseteq FaultKind /\ AcpReview \in BOOLEAN

VARIABLES
    worker,   \* the external worker of each key
    spawns,   \* how many times a worker was spawned for each key
    landed,   \* tickets with a durable LAND.json, ok = true
    phase,    \* where in tickWave the ticker is
    step,     \* where in the treatment of one item
    todo,     \* the rest of the loop's snapshot
    item,     \* the row or ticket being treated
    truth,    \* the worker outcome being settled
    idle,     \* queued === 0 && open.length === 0
    busy      \* busyImplScopes

worldVars == <<worker, spawns, review, landed>>
scratch == <<idle, busy>>
tickVars == <<phase, step, todo, item, truth, scratch>>
vars == <<ledgerVars, worldVars, tickVars>>

RowPhase == {"reconcile", "dispatch", "observe", "watchdog", "closeout", "gateDispatch",
             "gateObserve", "isolate"}
TicketPhase == {"gateQueue", "uxQueue", "gateAdmit", "advanceImpl", "advancePlan"}
Phase == RowPhase \cup TicketPhase \cup {"idle", "dead", "unlaunchable", "complete",
                                         "escaped"}
RowStep == {"launch", "receipt", "recover", "inspect", "settle", "commit", "land", "landing",
            "recordLand"}
Step == RowStep \cup {"next", "dirty"}

\* The type invariant of what is outside the ledger, and of the ticker.
WorldTypeOK ==
    /\ worker \in [Key -> {"none", "running", "succeeded", "failed"}]
    /\ spawns \in [Key -> Nat]
    /\ review \in [Ticket -> [GateStage -> ReviewFile]]
    /\ landed \subseteq Ticket

TickTypeOK ==
    /\ phase \in Phase /\ step \in Step
    /\ todo \subseteq (IF phase \in RowPhase THEN Key ELSE Ticket)
    /\ step \in RowStep => phase \in RowPhase /\ item \in Key
    /\ step = "dirty" => phase \in TicketPhase /\ item \in Ticket
    /\ truth \in {"none", "succeeded", "failed", "fatal"}
    /\ idle \in BOOLEAN
    /\ busy \subseteq Scope

May(fault) == fault \in Faults
Deaths == {FALSE} \cup {fatal \in {TRUE} : May("fatal")}

Goto(p, work) ==
    /\ phase' = p /\ step' = "next" /\ todo' = work /\ item' = None /\ truth' = "none"

\* Leave x and take the next item of the same loop.
Leave(x) == Goto(phase, todo \ {x}) /\ UNCHANGED scratch

\* Await something on behalf of x.
Await(x, s) == item' = x /\ step' = s /\ UNCHANGED <<phase, todo, truth, scratch>>

\* The error leaves tickWave and reaches the handler of tickLiveWaves.
Throw == Goto("isolate", RowsIn({"CLAIMED", "RECONCILING"})) /\ idle' = FALSE /\ busy' = {}

RestAs(p) == Goto(p, {}) /\ idle' = FALSE /\ busy' = {}

----------------------------------------------------------------------------
(* tickWave starts: leases, then reconcile. *)

\* expireStaleLeases: a lease past its TTL or held by a dead pid is renewed if
\* its ticket is IMPL-active and dropped otherwise.  Which leases are stale is
\* a choice: every tick of the CLI driver is a new process, hence a new pid.
TickBegin ==
    /\ phase \in {"idle", "dead"}
    /\ waveStatus \notin TerminalWave \cup {"PAUSED"}
    /\ \E stale \in SUBSET Scope : lease' = LeasesSwept(ticket, stale)
    /\ landLock' \in {landLock, LandSwept(ticket)}
    /\ Goto("reconcile", RowsIn({"CLAIMED", "LAUNCHED", "RECONCILING"}))
    /\ UNCHANGED <<waveStatus, cancelRequested, ticket, rowVars, gateVars, worldVars, scratch>>

TickDeadline ==
    /\ May("deadline")
    /\ phase \in {"idle", "dead"}
    /\ waveStatus \notin TerminalWave \cup {"PAUSED"}
    /\ StopForBudget
    /\ UNCHANGED <<cancelRequested, outbox, stageRun, receipt, launches, gateVars, worldVars,
                   tickVars>>

----------------------------------------------------------------------------
(* reconcile and observeLaunched. *)

ReconcileRow(k) ==
    /\ phase = "reconcile" /\ step = "next" /\ k \in todo
    /\ outbox' = IF outbox[k] \in {"CLAIMED", "LAUNCHED"}
                 THEN [outbox EXCEPT ![k] = "RECONCILING"] ELSE outbox
    /\ Await(k, IF k \in receipt THEN "inspect" ELSE "recover")
    /\ UNCHANGED <<waveStatus, cancelRequested, ticket, stageRun, budget, receipt, launches,
                   gateVars, leaseVars, worldVars>>

\* Rows that a transaction marks LAUNCHED, with the receipt it stores.
MarkLaunched(k) ==
    /\ outbox' = [outbox EXCEPT ![k] = "LAUNCHED"]
    /\ receipt' = receipt \cup {k}
    /\ stageRun' = [stageRun EXCEPT ![k] = "RUNNING"]
    /\ UNCHANGED <<budget, launches>>

\* worker.recover found the worker that an earlier process spawned.
Recovered(k) ==
    /\ step = "recover" /\ item = k
    /\ spawns[k] > 0
    /\ IF RowMayMove(outbox[k], "LAUNCHED")
       THEN MarkLaunched(k) /\ Leave(k)
       ELSE Throw /\ UNCHANGED rowVars
    /\ UNCHANGED <<waveStatus, cancelRequested, ticket, gateVars, leaseVars, worldVars>>

\* Nothing was spawned, or the adapter cannot find it: "lost_spawn".
FailOrThrow(k, fatal) ==
    IF FailLaunchThrows(k, fatal)
    THEN Throw /\ UNCHANGED <<rowVars, ticket>>
    ELSE FailLaunch(k, fatal) /\ Leave(k)

\* Seeded fault: a row without a receipt is failed without asking for its worker.
LostSpawnUnasked(k) ==
    /\ step = "recover" /\ item = k
    /\ FailOrThrow(k, FALSE)
    /\ UNCHANGED <<waveStatus, cancelRequested, gateVars, leaseVars, worldVars>>

LostSpawn(k) ==
    /\ step = "recover" /\ item = k
    /\ spawns[k] = 0 \/ May("lost")
    /\ FailOrThrow(k, FALSE)
    /\ UNCHANGED <<waveStatus, cancelRequested, gateVars, leaseVars, worldVars>>

\* worker.inspect.  A REVIEW counts as done when a valid review file is there:
\* for the CLI worker once its process is dead, for the ACP worker at any time.
\* A worker that is lost, or left no attestation, reads as running.
ReviewFileDecides(k) ==
    /\ k.stage = "REVIEW" /\ Forge
    /\ AcpReview \/ worker[k] # "running"
    /\ VerdictOf(k.ticket, "REVIEW") \in Verdict

Truth(k) == IF ReviewFileDecides(k) THEN "succeeded" ELSE worker[k]

Inspected(k) ==
    \/ /\ Truth(k) = "running"
       /\ outbox' = IF outbox[k] = "RECONCILING" THEN [outbox EXCEPT ![k] = "LAUNCHED"]
                    ELSE outbox
       /\ Leave(k)
    \/ /\ Truth(k) \in {"succeeded", "failed"}
       /\ \E died \in Deaths :
             truth' = IF Truth(k) = "failed" /\ died THEN "fatal" ELSE Truth(k)
       /\ item' = k /\ step' = "settle"
       /\ UNCHANGED <<outbox, phase, todo, scratch>>
    \/ May("inspect_error") /\ Throw /\ UNCHANGED outbox

InspectReconciled(k) ==
    /\ step = "inspect" /\ item = k
    /\ Inspected(k)
    /\ UNCHANGED <<waveStatus, cancelRequested, ticket, stageRun, budget, receipt, launches,
                   gateVars, leaseVars, worldVars>>

ObserveRow(k) ==
    /\ phase \in {"observe", "gateObserve"} /\ step = "next" /\ k \in todo
    /\ Inspected(k)
    /\ UNCHANGED <<waveStatus, cancelRequested, ticket, stageRun, budget, receipt, launches,
                   gateVars, leaseVars, worldVars>>

\* After reconcile a wave waiting for a human is only completed, if it can be.
EndReconcile ==
    /\ phase = "reconcile" /\ step = "next" /\ todo = {}
    /\ IF waveStatus = "WAITING_APPROVAL"
       THEN Goto("complete", {}) ELSE Goto("dispatch", RowsIn({"PENDING"}))
    /\ UNCHANGED <<ledgerVars, worldVars, scratch>>

----------------------------------------------------------------------------
(* dispatchPending. *)

Dispatching == phase \in {"dispatch", "gateDispatch"}

\* Claim a PENDING row; in a cancelled wave the claimed row is failed at once,
\* and only the row: stage run, budget and ticket keep what they had.
ClaimRow(k) ==
    /\ Dispatching /\ step = "next" /\ k \in todo
    /\ LET claimed == IF outbox[k] = "PENDING" THEN "CLAIMED" ELSE outbox[k] IN
       IF cancelRequested
       THEN /\ outbox' = [outbox EXCEPT ![k] = IF claimed = "SETTLED" THEN claimed ELSE "FAILED"]
            /\ Leave(k)
       ELSE /\ outbox' = [outbox EXCEPT ![k] = claimed]
            /\ Await(k, "launch")
    /\ UNCHANGED <<waveStatus, cancelRequested, ticket, stageRun, budget, receipt, launches,
                   gateVars, leaseVars, worldVars>>

\* createImplWorktree rejects.
PrepareError(k) ==
    /\ May("prepare_error")
    /\ step = "launch" /\ item = k
    /\ k.stage \in {"PLAN", "IMPL"}
    /\ Throw
    /\ UNCHANGED <<ledgerVars, worldVars>>

\* prepareImplContract refuses the launch.
HandoffRefused(k) ==
    /\ k.stage = "IMPL"
    /\ Forge
    /\ VerdictOf(k.ticket, "REVIEW") = "incomplete"

\* failClosedImplHandoff: again only the outbox row is failed.
RefuseHandoff(k) ==
    /\ step = "launch" /\ item = k
    /\ HandoffRefused(k)
    /\ outbox' = IF outbox[k] = "SETTLED" THEN outbox ELSE [outbox EXCEPT ![k] = "FAILED"]
    /\ Leave(k)
    /\ UNCHANGED <<waveStatus, cancelRequested, ticket, stageRun, budget, receipt, launches,
                   gateVars, leaseVars, worldVars>>

\* worker.launch resolves: from here a worker runs under this key, and the
\* receipt is not stored yet.
Spawn(k) ==
    /\ step = "launch" /\ item = k
    /\ ~HandoffRefused(k)
    /\ worker' = [worker EXCEPT ![k] = "running"]
    /\ spawns' = [spawns EXCEPT ![k] = @ + 1]
    /\ Await(k, "receipt")
    /\ UNCHANGED <<ledgerVars, review, landed>>

\* worker.launch rejects.
LaunchError(k) ==
    /\ May("launch_error")
    /\ step = "launch" /\ item = k
    /\ ~HandoffRefused(k)
    /\ \E fatal \in Deaths : FailOrThrow(k, fatal)
    /\ UNCHANGED <<waveStatus, cancelRequested, gateVars, leaseVars, worldVars>>

StoreReceipt(k) ==
    /\ step = "receipt" /\ item = k
    /\ IF RowMayMove(outbox[k], "LAUNCHED")
       THEN MarkLaunched(k) /\ Leave(k)
       ELSE Throw /\ UNCHANGED rowVars
    /\ UNCHANGED <<waveStatus, cancelRequested, ticket, gateVars, leaseVars, worldVars>>

\* workflow.linkStageTask rejects between the spawn and the receipt.
LinkError(k) ==
    /\ May("link_error")
    /\ step = "receipt" /\ item = k
    /\ Throw
    /\ UNCHANGED <<ledgerVars, worldVars>>

EndDispatch ==
    /\ Dispatching /\ step = "next" /\ todo = {}
    /\ Goto(IF phase = "dispatch" THEN "observe" ELSE "gateObserve", RowsIn({"LAUNCHED"}))
    /\ UNCHANGED <<ledgerVars, worldVars, scratch>>

----------------------------------------------------------------------------
(* applyStageWatchdog and applyReadFileWatchdog. *)

EndObserve ==
    /\ phase = "observe" /\ step = "next" /\ todo = {}
    /\ \E overdue \in SUBSET RowsIn({"LAUNCHED", "RECONCILING"}) :
          /\ overdue = {} \/ May("hung")
          /\ Goto("watchdog", overdue)
    /\ UNCHANGED <<ledgerVars, worldVars, scratch>>

\* failHungOutbox: cancel the worker, as far as that works, then settle "failed".
CancelHung(k) ==
    /\ phase = "watchdog" /\ step = "next" /\ k \in todo
    /\ \/ worker' = [worker EXCEPT ![k] = IF @ = "running" THEN "failed" ELSE @]
       \/ May("cancel_fails") /\ UNCHANGED worker
    /\ item' = k /\ step' = "settle" /\ truth' = "failed"
    /\ UNCHANGED <<ledgerVars, spawns, review, landed, phase, todo, scratch>>

----------------------------------------------------------------------------
(* settleOutbox. *)

FenceBroken(k) == lease[ScopeOf[k.ticket]] # k.ticket

\* An IMPL that its worker calls done is fenced, then verified and committed
\* in its worktree; a broken fence or a missing verify command is fatal.
VerifyImpl(k) ==
    /\ step = "settle" /\ item = k
    /\ k.stage = "IMPL" /\ truth = "succeeded"
    /\ truth' \in IF FenceBroken(k) THEN {"fatal"}
                  ELSE {"succeeded"} \cup {f \in {"failed"} : May("verify_fail")}
                                     \cup {f \in {"fatal"} : May("fatal")}
    /\ step' = "commit"
    /\ UNCHANGED <<ledgerVars, worldVars, phase, todo, item, scratch>>

ReadyToSettle(k) ==
    /\ item = k
    /\ \/ step = "commit"
       \/ step = "settle" /\ ~(k.stage = "IMPL" /\ truth = "succeeded")

\* After the transaction: a succeeded IMPL goes on to land.
AfterSettle(k) ==
    IF k.stage = "IMPL" /\ truth = "succeeded"
    THEN step' = "land" /\ UNCHANGED <<phase, todo, item, truth, scratch>>
    ELSE Leave(k)

\* Seeded fault: the stage run is left running.
CloseRowOnly(k, result) ==
    /\ outbox' = [outbox EXCEPT ![k] = "SETTLED"]
    /\ budget' = [budget EXCEPT ![k] = ApplyUsage(budget[k])]
    /\ UNCHANGED <<stageRun, receipt, launches>>

CloseRow(k, result) ==
    /\ outbox' = [outbox EXCEPT ![k] = "SETTLED"]
    /\ stageRun' = [stageRun EXCEPT ![k] = result]
    /\ budget' = [budget EXCEPT ![k] = ApplyUsage(budget[k])]
    /\ UNCHANGED <<receipt, launches>>

SettleAgain(k) ==
    /\ ReadyToSettle(k)
    /\ outbox[k] = "SETTLED"
    /\ AfterSettle(k)
    /\ UNCHANGED <<ledgerVars, worldVars>>

Fatal == truth = "fatal"

SettleThrows(k) ==
    /\ ReadyToSettle(k)
    /\ outbox[k] # "SETTLED"
    /\ \/ ~RowMayMove(outbox[k], "SETTLED")
       \/ truth # "succeeded" /\ ~cancelRequested /\ RearmThrows(k, Fatal)
       \/ truth = "succeeded" /\ k.stage = "REVIEW" /\ PlanDecision(k.ticket, {k}) = "throw"
       \/ truth = "succeeded" /\ k.stage = "UX_REVIEW" /\ UxDecision(k.ticket) = "throw"
    /\ Throw
    /\ UNCHANGED <<ledgerVars, worldVars>>

Settles(k) ==
    /\ ReadyToSettle(k)
    /\ RowMayMove(outbox[k], "SETTLED") /\ outbox[k] # "SETTLED"

\* The worker failed, or its work was refused: cancel, retry or fail the
\* ticket, whatever its present status.
SettleDeath(k) ==
    /\ Settles(k)
    /\ truth # "succeeded"
    /\ cancelRequested \/ ~RearmThrows(k, Fatal)
    /\ CloseRow(k, "FAILED")
    /\ LET after == IF cancelRequested THEN "CANCELLED" ELSE DeathStatus(k, Fatal) IN
       /\ ticket' = [ticket EXCEPT ![k.ticket] = after]
       /\ lease' = IF k.stage = "IMPL" THEN LeaseAfter(k.ticket, after) ELSE lease
    /\ waveStatus' = IF ~cancelRequested /\ RetryRemains(k, Fatal) THEN GateOpened
                     ELSE waveStatus
    /\ AfterSettle(k)
    /\ UNCHANGED <<cancelRequested, gateVars, landLock, worldVars>>

SettlePlan(k) ==
    /\ Settles(k)
    /\ truth = "succeeded" /\ k.stage = "PLAN"
    /\ CloseRow(k, "SUCCEEDED")
    /\ \E ok \in {TRUE} \cup {bad \in {FALSE} : May("bad_plan")} : PlanSettled(k.ticket, ok)
    /\ AfterSettle(k)
    /\ UNCHANGED <<cancelRequested, leaseVars, worldVars>>

SettleReview(k) ==
    /\ Settles(k)
    /\ truth = "succeeded" /\ k.stage \in GateStage
    /\ LET d == IF k.stage = "REVIEW" THEN PlanDecision(k.ticket, {k}) ELSE UxDecision(k.ticket)
       IN  d # "throw" /\ Decide(k.ticket, k.stage, d)
    /\ CloseRow(k, "SUCCEEDED")
    /\ AfterSettle(k)
    /\ UNCHANGED <<cancelRequested, leaseVars, worldVars>>

SettleImpl(k) ==
    /\ Settles(k)
    /\ truth = "succeeded" /\ k.stage = "IMPL"
    /\ CloseRow(k, "SUCCEEDED")
    /\ ticket' = [ticket EXCEPT ![k.ticket] = "VERIFYING"]
    /\ AfterSettle(k)
    /\ UNCHANGED <<waveStatus, cancelRequested, gateVars, leaseVars, worldVars>>

----------------------------------------------------------------------------
(* advancePendingCloseouts and finalizeImplLand (land mode "commit").  The  *)
(* impl worktree exists: the dispatch that precedes any IMPL created it.    *)

\* Seeded fault: a ticket that has landed is not looked at again.
EndWatchdogUnlanded ==
    /\ phase = "watchdog" /\ step = "next" /\ todo = {}
    /\ Goto("closeout", {k \in RowsIn({"SETTLED"}) :
                            /\ k.stage = "IMPL" /\ stageRun[k] = "SUCCEEDED"
                            /\ ticket[k.ticket] = "VERIFYING" /\ k.ticket \notin landed})
    /\ UNCHANGED <<ledgerVars, worldVars, scratch>>

EndWatchdog ==
    /\ phase = "watchdog" /\ step = "next" /\ todo = {}
    /\ Goto("closeout", {[ticket |-> t, stage |-> "IMPL", attempt |->
                             Max({1} \cup {k.attempt : k \in {r \in RowsOf(t, "IMPL") :
                                                                 outbox[r] = "SETTLED"}})]
                         : t \in {u \in Ticket : ticket[u] = "VERIFYING"}})
    /\ UNCHANGED <<ledgerVars, worldVars, scratch>>

CloseoutRow(k) ==
    /\ phase = "closeout" /\ step = "next" /\ k \in todo
    /\ Await(k, "land")
    /\ UNCHANGED <<ledgerVars, worldVars>>

\* A durable LAND.json finishes the ticket without landing again.
FinishFromProof(k) ==
    /\ step = "land" /\ item = k
    /\ ticket[k.ticket] = "DONE" \/ k.ticket \in landed
    /\ ticket' = [ticket EXCEPT ![k.ticket] = "DONE"]
    /\ lease' = IF ticket[k.ticket] = "DONE" THEN lease ELSE LeaseAfter(k.ticket, "DONE")
    /\ Leave(k)
    /\ UNCHANGED <<waveStatus, cancelRequested, rowVars, gateVars, landLock, worldVars>>

MustLand(k) == ticket[k.ticket] # "DONE" /\ k.ticket \notin landed

\* acquireExclusiveLandLock: another ticket holds the lock, of this wave or of
\* another one; the ticket stays VERIFYING and keeps its writer lease.
DeferLand(k) ==
    /\ step = "land" /\ item = k
    /\ MustLand(k)
    /\ landLock \notin {None, k.ticket} \/ May("land_busy")
    /\ Leave(k)
    /\ UNCHANGED <<ledgerVars, worldVars>>

StartLand(k) ==
    /\ step = "land" /\ item = k
    /\ MustLand(k)
    /\ landLock \in {None, k.ticket}
    /\ landLock' = k.ticket
    /\ step' = "landing"
    /\ UNCHANGED <<waveStatus, cancelRequested, ticket, rowVars, gateVars, lease, worldVars,
                   phase, todo, item, truth, scratch>>

\* landToMain writes LAND.json before it returns, or returns a failure.
Land(k) ==
    /\ step = "landing" /\ item = k
    /\ \/ landed' = landed \cup {k.ticket} /\ truth' = "succeeded"
       \/ May("land_fail") /\ truth' = "failed" /\ UNCHANGED landed
    /\ step' = "recordLand"
    /\ UNCHANGED <<ledgerVars, worker, spawns, review, phase, todo, item, scratch>>

\* releaseExclusiveLandLock: only its holder gives it back.
LandLockFreed(t) == IF landLock = t THEN None ELSE landLock

\* landToMain rejects: the finally block gives the land lock back.
LandThrows(k) ==
    /\ May("land_throw")
    /\ step = "landing" /\ item = k
    /\ landLock' = LandLockFreed(k.ticket)
    /\ lease' = IF ticket[k.ticket] = "VERIFYING" THEN lease
                ELSE LeaseAfter(k.ticket, ticket[k.ticket])
    /\ Throw
    /\ UNCHANGED <<waveStatus, cancelRequested, ticket, rowVars, gateVars, worldVars>>

\* Seeded fault: the result of the landing is not looked at.
RecordLandUnchecked(k) ==
    /\ step = "recordLand" /\ item = k
    /\ ticket' = [ticket EXCEPT ![k.ticket] = "DONE"]
    /\ lease' = LeaseAfter(k.ticket, "DONE")
    /\ landLock' = LandLockFreed(k.ticket)
    /\ Leave(k)
    /\ UNCHANGED <<waveStatus, cancelRequested, rowVars, gateVars, worldVars>>

\* recordCommitLand, then the finally block.
RecordLand(k) ==
    /\ step = "recordLand" /\ item = k
    /\ LET after == IF truth = "succeeded" THEN "DONE" ELSE "FAILED" IN
       /\ ticket' = [ticket EXCEPT ![k.ticket] = after]
       /\ lease' = LeaseAfter(k.ticket, after)
    /\ landLock' = LandLockFreed(k.ticket)
    /\ Leave(k)
    /\ UNCHANGED <<waveStatus, cancelRequested, rowVars, gateVars, worldVars>>

----------------------------------------------------------------------------
(* queueStageOrBudget, in the ways it ends; the caller says what follows.    *)

Denied(t, s) == cancelRequested \/ RetriesSpent(t, s)

MayAdmit(t, s) == ~Denied(t, s) /\ ~OwnSlotsFull

HardBudget(t, s) == MayAdmit(t, s) /\ (LaunchesSpent \/ May("ceiling"))

OtherRefusal(t, s) ==
    \/ Denied(t, s)
    \/ MayAdmit(t, s) /\ ~LaunchesSpent /\ IllegalEntry(t, s)

\* queueStage returns without inserting anything: the ACP pool is full, or the
\* scope's authority is with another operator.  The caller sees "queued".
QueuedElsewhere(t, s) ==
    /\ \/ ~Denied(t, s) /\ (OwnSlotsFull \/ May("pool_full"))
       \/ s = "IMPL" /\ May("authority_held") /\ MayAdmit(t, s) /\ ~LaunchesSpent
    /\ UNCHANGED <<rowVars, ticket, leaseVars>>

QueuedHere(t, s) ==
    /\ MayAdmit(t, s) /\ ~LaunchesSpent /\ ~IllegalEntry(t, s)
    /\ InsertRow(t, s)

Queue(t, s, queued, stopped, deferred) ==
    /\ \/ /\ QueuedHere(t, s) \/ QueuedElsewhere(t, s)
          /\ queued /\ idle' = FALSE
          /\ UNCHANGED waveStatus
       \/ /\ HardBudget(t, s) /\ idle
          /\ StopForBudget
          /\ stopped
          /\ UNCHANGED <<outbox, stageRun, receipt, launches, hopLaunch, scratch>>
       \/ /\ HardBudget(t, s) \/ OtherRefusal(t, s)
          /\ ~idle
          /\ deferred
          /\ UNCHANGED <<waveStatus, ticket, rowVars, hopLaunch, leaseVars, scratch>>
       \/ /\ OtherRefusal(t, s) /\ idle
          /\ Throw
          /\ UNCHANGED <<waveStatus, ticket, rowVars, hopLaunch, leaseVars>>
    /\ UNCHANGED <<cancelRequested, revises, worldVars>>

----------------------------------------------------------------------------
(* queueMissingPlanReviews, queueMissingUxReviews and maybeAdmitPlanGate.    *)

EnterQueue(p, tickets) == Goto(p, tickets) /\ idle' = (OpenRows = {}) /\ UNCHANGED busy

\* Seeded fault: open IMPL rows do not make their scope busy.
EnterAdvanceUnserial ==
    IF cancelRequested \/ waveStatus \in TerminalWave \cup IdleGate
    THEN Goto("unlaunchable", {}) /\ UNCHANGED scratch
    ELSE /\ Goto("advanceImpl", {t \in Ticket : ticket[t] = "APPROVED"})
         /\ idle' = (OpenRows = {}) /\ busy' = {}

EnterAdvance ==
    IF cancelRequested \/ waveStatus \in TerminalWave \cup IdleGate
    THEN Goto("unlaunchable", {}) /\ UNCHANGED scratch
    ELSE /\ Goto("advanceImpl", {t \in Ticket : ticket[t] = "APPROVED"})
         /\ idle' = (OpenRows = {})
         /\ busy' = {ScopeOf[k.ticket] : k \in {r \in OpenRows : r.stage = "IMPL"}}

\* What tickWave does with a wave that is not, or no longer, at a plan gate.
PastGate ==
    IF waveStatus = "WAITING_APPROVAL"
    THEN Goto("complete", {}) /\ UNCHANGED scratch ELSE EnterAdvance

EndCloseout ==
    /\ phase = "closeout" /\ step = "next" /\ todo = {}
    /\ ReleaseInactive(ticket)
    /\ IF waveStatus = "AWAITING_PLAN_GATE"
       THEN EnterQueue("gateQueue", {t \in Ticket \ ReviewSkip : ticket[t] = "PLAN_REVIEW"})
       ELSE PastGate
    /\ UNCHANGED <<waveStatus, cancelRequested, ticket, rowVars, gateVars, worldVars>>

EnterUxQueue ==
    IF waveStatus = "AWAITING_PLAN_GATE"
    THEN EnterQueue("uxQueue", {t \in NeedsUx : ticket[t] = "PLAN_REVIEW"})
    ELSE PastGate

\* The ticket's gate worker for this plan attempt is neither launched nor running.
HopMissing(t, gate) ==
    ~GateBusy(t, gate, {}) /\ LatestPlan(t) > 0 /\ ~HopLaunched(t, gate)

WantsReview(t) == HopMissing(t, "REVIEW") /\ Forge
WantsUxReview(t) == HopMissing(t, "UX_REVIEW") /\ PlanReviewSatisfied(t) /\ UxReady

\* The launch event is written whenever queueStage returns.
HopQueued(t, gate) ==
    hopLaunch' = hopLaunch \cup {<<t, gate, LatestPlan(t)>>} /\ UNCHANGED busy

SkipTicket(t) ==
    /\ Leave(t)
    /\ UNCHANGED <<ledgerVars, worldVars>>

GateQueue(t) ==
    /\ phase = "gateQueue" /\ t \in todo
    /\ IF WantsReview(t)
       THEN Queue(t, "REVIEW", Goto(phase, todo \ {t}) /\ HopQueued(t, "REVIEW"),
                  Goto("complete", {}), Goto(phase, {}))
       ELSE SkipTicket(t)

EndGateQueue ==
    /\ phase = "gateQueue" /\ todo = {}
    /\ EnterUxQueue
    /\ UNCHANGED <<ledgerVars, worldVars>>

UxQueue(t) ==
    /\ phase = "uxQueue" /\ t \in todo
    /\ IF WantsUxReview(t)
       THEN Queue(t, "UX_REVIEW", Goto(phase, todo \ {t}) /\ HopQueued(t, "UX_REVIEW"),
                  Goto("complete", {}), Goto(phase, {}))
       ELSE SkipTicket(t)

EndUxQueue ==
    /\ phase = "uxQueue" /\ todo = {}
    /\ IF waveStatus = "AWAITING_PLAN_GATE"
       THEN Goto("gateDispatch", RowsIn({"PENDING"})) /\ UNCHANGED scratch
       ELSE PastGate
    /\ UNCHANGED <<ledgerVars, worldVars>>

EndGateObserve ==
    /\ phase = "gateObserve" /\ step = "next" /\ todo = {}
    /\ Goto("gateAdmit", {t \in Ticket : ticket[t] = "PLAN_REVIEW"
                                       /\ waveStatus = "AWAITING_PLAN_GATE"})
    /\ UNCHANGED <<ledgerVars, worldVars, scratch>>

\* Outside a transaction: a revise that throws has already written its event.
GateAdmit(t) ==
    /\ phase = "gateAdmit" /\ t \in todo
    /\ LET plan == PlanDecision(t, {})
           gate == IF plan = "none" THEN "UX_REVIEW" ELSE "REVIEW"
           decision == IF plan = "none" THEN UxDecision(t) ELSE plan
       IN  IF decision = "throw"
           THEN /\ Throw
                /\ revises' = [revises EXCEPT ![t][gate] = @ + 1]
                /\ UNCHANGED <<ticket, waveStatus, hopLaunch>>
           ELSE Decide(t, gate, decision) /\ Leave(t)
    /\ UNCHANGED <<cancelRequested, rowVars, leaseVars, worldVars>>

EndGateAdmit ==
    /\ phase = "gateAdmit" /\ todo = {}
    /\ Goto("complete", {})
    /\ UNCHANGED <<ledgerVars, worldVars, scratch>>

----------------------------------------------------------------------------
(* advanceReadyTickets, failUnlaunchableApproved and maybeCompleteWave.      *)

Advancing == phase \in {"advanceImpl", "advancePlan"}

\* writerLeaseBlocksImpl: a lease whose holder is over is freed on the way.
Holder(t) == lease[ScopeOf[t]]
HolderOver(t) ==
    Holder(t) \in Ticket \ {t} /\ ticket[Holder(t)] \in TerminalTicket
LeaseBlocks(t) ==
    Holder(t) \in Ticket \ {t} /\ ticket[Holder(t)] \notin TerminalTicket

AdvanceImpl(t) ==
    /\ phase = "advanceImpl" /\ step = "next" /\ t \in todo
    /\ \/ /\ ScopeOf[t] \in busy \/ LeaseBlocks(t) \/ May("authority_held")
          /\ Leave(t)
          /\ lease' = IF ScopeOf[t] \notin busy /\ HolderOver(t)
                      THEN [lease EXCEPT ![ScopeOf[t]] = None] ELSE lease
       \/ /\ ScopeOf[t] \notin busy /\ ~LeaseBlocks(t)
          /\ Await(t, "dirty")
          /\ lease' = IF HolderOver(t) THEN [lease EXCEPT ![ScopeOf[t]] = None] ELSE lease
    /\ UNCHANGED <<waveStatus, cancelRequested, ticket, rowVars, gateVars, landLock, worldVars>>

\* Seeded fault: a ticket with open rows is planned again.
AdvancePlanBusy(t) ==
    /\ phase = "advancePlan" /\ step = "next" /\ t \in todo
    /\ Await(t, "dirty")
    /\ UNCHANGED <<ledgerVars, worldVars>>

AdvancePlan(t) ==
    /\ phase = "advancePlan" /\ step = "next" /\ t \in todo
    /\ IF OpenRowsOf(t) # {} THEN Leave(t) ELSE Await(t, "dirty")
    /\ UNCHANGED <<ledgerVars, worldVars>>

\* failClosedIfPrimaryDirty writes FAILED over the status it read before its await.
PrimaryDirty(t) ==
    /\ May("dirty")
    /\ Advancing /\ step = "dirty" /\ item = t
    /\ ticket' = [ticket EXCEPT ![t] = "FAILED"]
    /\ Leave(t)
    /\ UNCHANGED <<waveStatus, cancelRequested, rowVars, gateVars, leaseVars, worldVars>>

\* Seeded fault: a dependency that is over in any way counts as done.
EnterPlansAfterAny ==
    Goto("advancePlan", {t \in Ticket : /\ ticket[t] \in {"PENDING", "REVISING"}
                                        /\ \A d \in DependsOn[t] : ticket[d] \in TerminalTicket})

EnterPlans ==
    Goto("advancePlan", {t \in Ticket : /\ ticket[t] \in {"PENDING", "REVISING"}
                                        /\ \A d \in DependsOn[t] : ticket[d] = "DONE"})

QueueImpl(t) ==
    /\ phase = "advanceImpl" /\ step = "dirty" /\ item = t
    /\ Queue(t, "IMPL",
             /\ Goto(phase, todo \ {t})
             /\ busy' = busy \cup {ScopeOf[t]}
             /\ UNCHANGED hopLaunch,
             Goto("unlaunchable", {}), EnterPlans)

QueuePlan(t) ==
    /\ phase = "advancePlan" /\ step = "dirty" /\ item = t
    /\ Queue(t, "PLAN",
             Goto(phase, todo \ {t}) /\ UNCHANGED <<busy, hopLaunch>>,
             Goto("unlaunchable", {}), Goto("unlaunchable", {}))

EndAdvance ==
    /\ Advancing /\ step = "next" /\ todo = {}
    /\ IF phase = "advanceImpl" THEN EnterPlans ELSE Goto("unlaunchable", {})
    /\ UNCHANGED <<ledgerVars, worldVars, scratch>>

\* liveForeignOrSiblingLease, for the leases of this wave.
LeaseLives(t) == Holder(t) \in Ticket /\ (Holder(t) = t \/ ticket[Holder(t)] \in ImplActive)

FailUnlaunchable ==
    /\ phase = "unlaunchable"
    /\ LET stuck == /\ waveStatus = "RUNNING"
                    /\ \A t \in Ticket : ticket[t] \in TerminalTicket \cup {"APPROVED"}
                    /\ OpenRows = {}
       IN  ticket' = [t \in Ticket |->
                        IF stuck /\ ticket[t] = "APPROVED" /\ ~LeaseLives(t)
                        THEN "FAILED" ELSE ticket[t]]
    /\ Goto("complete", {})
    /\ UNCHANGED <<waveStatus, cancelRequested, rowVars, gateVars, leaseVars, worldVars, scratch>>

EndTick ==
    /\ phase = "complete"
    /\ MaybeCompleteWave
    /\ RestAs("idle")
    /\ UNCHANGED <<cancelRequested, outbox, stageRun, receipt, launches, gateVars, leaseVars,
                   worldVars>>

----------------------------------------------------------------------------
(* The handler of tickLiveWaves, and the death of the process.               *)

\* The handler fails every row it finds in CLAIMED or RECONCILING; an error in
\* it leaves tickLiveWaves, and the waves after this one are not ticked.
Isolate(k) ==
    /\ phase = "isolate" /\ k \in todo
    /\ IF FailLaunchThrows(k, FALSE)
       THEN Goto("escaped", {}) /\ UNCHANGED <<rowVars, ticket, scratch>>
       ELSE FailLaunch(k, FALSE) /\ Leave(k)
    /\ UNCHANGED <<waveStatus, cancelRequested, gateVars, leaseVars, worldVars>>

EndIsolate ==
    /\ phase = "escaped" \/ (phase = "isolate" /\ todo = {})
    /\ RestAs("idle")
    /\ UNCHANGED <<ledgerVars, worldVars>>

\* What it had in memory is gone; the next tick is that of a new process.
Crash ==
    /\ May("crash")
    /\ phase \notin {"idle", "dead"}
    /\ RestAs("dead")
    /\ UNCHANGED <<ledgerVars, worldVars>>

----------------------------------------------------------------------------

RowAction(k) ==
    \/ ReconcileRow(k) \/ Recovered(k) \/ LostSpawn(k) \/ InspectReconciled(k) \/ ObserveRow(k)
    \/ ClaimRow(k) \/ PrepareError(k) \/ RefuseHandoff(k)
    \/ Spawn(k) \/ LaunchError(k) \/ StoreReceipt(k) \/ LinkError(k)
    \/ CancelHung(k) \/ VerifyImpl(k) \/ SettleAgain(k) \/ SettleThrows(k)
    \/ SettleDeath(k) \/ SettlePlan(k) \/ SettleReview(k) \/ SettleImpl(k)
    \/ CloseoutRow(k) \/ FinishFromProof(k) \/ DeferLand(k) \/ StartLand(k)
    \/ Land(k) \/ LandThrows(k) \/ RecordLand(k) \/ Isolate(k)

TicketAction(t) ==
    \/ GateQueue(t) \/ UxQueue(t) \/ GateAdmit(t)
    \/ AdvanceImpl(t) \/ AdvancePlan(t) \/ PrimaryDirty(t) \/ QueueImpl(t) \/ QueuePlan(t)

LoopEnd ==
    \/ EndReconcile \/ EndDispatch \/ EndObserve \/ EndWatchdog \/ EndCloseout
    \/ EndGateQueue \/ EndUxQueue \/ EndGateObserve \/ EndGateAdmit
    \/ EndAdvance \/ FailUnlaunchable \/ EndTick \/ EndIsolate

Tick ==
    \/ TickBegin \/ TickDeadline
    \/ \E k \in Key : RowAction(k)
    \/ \E t \in Ticket : TicketAction(t)
    \/ LoopEnd
=============================================================================
