----------------------------- MODULE WaveRunner -----------------------------
(***************************************************************************)
(* A wave, its ticker, its workers and its operator: the composition the    *)
(* properties are about.  The operator's commands (src/core/               *)
(* wave-commands.ts) run in processes of their own and commit between any    *)
(* two steps of the ticker; workers run outside and are only known through   *)
(* what inspecting them says.                                               *)
(***************************************************************************)
EXTENDS WaveTick

CONSTANTS
    Commands,   \* the commands the operator may give: a subset of CommandKind
    Verdicts,   \* the verdicts a gate worker may write
    InitStatus  \* the wave's status when the ticker is first run

CommandKind == {"freeze", "start", "pause", "resume", "approve", "revise", "cancel"}

ASSUME CommandAssumption ==
    /\ Commands \subseteq CommandKind
    /\ Verdicts \subseteq Verdict
    /\ InitStatus \in {"DRAFT", "FROZEN", "RUNNING"}

VARIABLE cancelling   \* a cancel command is between its two transactions

allVars == <<vars, cancelling>>

Init ==
    /\ waveStatus = InitStatus
    /\ cancelRequested = FALSE
    /\ launches = 0
    /\ ticket = [t \in Ticket |-> "PENDING"]
    /\ outbox = [k \in Key |-> "NONE"]
    /\ stageRun = [k \in Key |-> "NONE"]
    /\ budget = [k \in Key |-> "NONE"]
    /\ receipt = {}
    /\ hopLaunch = {}
    /\ revises = [t \in Ticket |-> [g \in GateStage |-> 0]]
    /\ lease = [s \in Scope |-> None]
    /\ landLock = None
    /\ worker = [k \in Key |-> "none"]
    /\ spawns = [k \in Key |-> 0]
    /\ review = [t \in Ticket |-> [g \in GateStage |-> Missing]]
    /\ landed = {}
    /\ phase = "idle" /\ step = "next" /\ todo = {} /\ item = None /\ truth = "none"
    /\ idle = FALSE /\ busy = {}
    /\ cancelling = FALSE

----------------------------------------------------------------------------
(* Operator commands. *)

SetWave(command, from, to) ==
    /\ command \in Commands
    /\ waveStatus \in from
    /\ WaveMayMove(waveStatus, to, cancelRequested)
    /\ waveStatus' = to
    /\ UNCHANGED <<cancelRequested, ticket, rowVars, gateVars, leaseVars, worldVars, tickVars,
                   cancelling>>

Freeze == SetWave("freeze", {"DRAFT"}, "FROZEN")
Start == SetWave("start", {"FROZEN"}, "RUNNING")
Pause == SetWave("pause", WaveStatus, "PAUSED")
Resume == SetWave("resume", WaveStatus, "RUNNING")

\* A verdict on a ticket; it also opens the gate.
Judge(command, t, to) ==
    /\ command \in Commands
    /\ TicketMayMove(ticket[t], to, cancelRequested)
    /\ ticket' = [ticket EXCEPT ![t] = to]
    /\ waveStatus' = GateOpened
    /\ UNCHANGED <<cancelRequested, rowVars, gateVars, leaseVars, worldVars, tickVars, cancelling>>

Approve(t) == ~cancelRequested /\ Judge("approve", t, "APPROVED")
Revise(t) == Judge("revise", t, "REVISING")

\* cancelWave, first transaction.
CancelWave ==
    /\ "cancel" \in Commands
    /\ ~cancelling
    /\ cancelRequested' = TRUE
    /\ waveStatus' = IF waveStatus \in TerminalWave THEN waveStatus ELSE "CANCELLED"
    /\ cancelling' = TRUE
    /\ UNCHANGED <<ticket, rowVars, gateVars, leaseVars, worldVars, tickVars>>

\* Seeded fault: the reservations of a cancelled wave stay open.
CancelTicketsOnly ==
    /\ cancelling
    /\ ticket' = [t \in Ticket |-> IF ticket[t] \in TerminalTicket THEN ticket[t] ELSE "CANCELLED"]
    /\ ReleaseInactive(ticket') \/ UNCHANGED leaseVars
    /\ cancelling' = FALSE
    /\ UNCHANGED <<waveStatus, cancelRequested, rowVars, gateVars, worldVars, tickVars>>

\* Second transaction.  The command's process sweeps the leases only if it runs
\* under the ticker's identity.
CancelTickets ==
    /\ cancelling
    /\ ticket' = [t \in Ticket |-> IF ticket[t] \in TerminalTicket THEN ticket[t] ELSE "CANCELLED"]
    /\ budget' = ReservationsClosed
    /\ ReleaseInactive(ticket') \/ UNCHANGED leaseVars
    /\ cancelling' = FALSE
    /\ UNCHANGED <<waveStatus, cancelRequested, outbox, stageRun, receipt, launches, gateVars,
                   worldVars, tickVars>>

\* The command dies between its transactions.
CancelCrash ==
    /\ May("crash")
    /\ cancelling
    /\ cancelling' = FALSE
    /\ UNCHANGED vars

Operator ==
    \/ Freeze \/ Start \/ Pause \/ Resume
    \/ \E t \in Ticket : Approve(t) \/ Revise(t)
    \/ CancelWave \/ CancelTickets \/ CancelCrash

----------------------------------------------------------------------------
(* Workers: processes outside the repository. *)

\* A gate worker writes the review file, about the plan it finds.
WriteReview(k, verdict) ==
    /\ worker[k] = "running" /\ k.stage \in GateStage
    /\ review[k.ticket][k.stage].plan # LatestPlan(k.ticket)
    /\ review' = [review EXCEPT ![k.ticket][k.stage] =
                      [verdict |-> verdict, plan |-> LatestPlan(k.ticket)]]
    /\ UNCHANGED <<ledgerVars, worker, spawns, landed, tickVars, cancelling>>

WorkerEnds(k, result) ==
    /\ worker[k] = "running"
    /\ worker' = [worker EXCEPT ![k] = result]
    /\ UNCHANGED <<ledgerVars, spawns, review, landed, tickVars, cancelling>>

\* A gate worker that does its job writes its file before it ends.
WorkerSucceeds(k) ==
    /\ k.stage \in GateStage =>
          \/ review[k.ticket][k.stage].plan = LatestPlan(k.ticket)
          \/ May("no_verdict")
    /\ WorkerEnds(k, "succeeded")

WorkerFails(k) == May("worker_fail") /\ WorkerEnds(k, "failed")

WorkerStep(k) ==
    \/ \E verdict \in Verdicts : WriteReview(k, verdict)
    \/ WorkerSucceeds(k)
    \/ WorkerFails(k)

----------------------------------------------------------------------------

Ticker == Tick /\ UNCHANGED cancelling
TickerDies == Crash /\ UNCHANGED cancelling

Next ==
    \/ Ticker
    \/ TickerDies
    \/ Operator
    \/ \E k \in Key : WorkerStep(k)

Spec == Init /\ [][Next]_allVars

\* The operator loop and its supervisor run the ticker again and again, also
\* after its process died, and it does not die for ever; a worker that is running ends.
\* Nobody owes a command or a fault.
Fairness ==
    /\ WF_allVars(Ticker)
    /\ <>[][~TickerDies]_allVars
    /\ \A k \in Key : WF_allVars(WorkerStep(k))

FairSpec == Spec /\ Fairness

----------------------------------------------------------------------------
(* Properties. *)

\* Every variable has its type; a loop over rows works on keys, a loop over
\* tickets on tickets, and a step on behalf of an item has one.
TypeOK == LedgerTypeOK /\ WorldTypeOK /\ TickTypeOK /\ cancelling \in BOOLEAN

\* One launch per {wave, ticket, stage, attempt} key: whatever is lost, crashes
\* or is retried between claim, spawn and receipt, no key ever gets a second worker
\* (README, invariant 4; dispatchPending and reconcile in src/core/launch.ts).
LaunchOnce == \A k \in Key : spawns[k] <= 1

\* The row at hand, and the rows still to be visited, exist; a row about to be
\* launched is claimed.
RowsInHand ==
    /\ phase \in RowPhase \ {"closeout"} => todo \subseteq Rows
    /\ step \in {"launch", "receipt", "recover", "inspect", "settle", "commit"} => item \in Rows
    /\ step = "launch" => outbox[item] = "CLAIMED"

\* A row that is not yet claimed has no worker, a row about to be launched has none
\* either, and during dispatch only the row at hand has left PENDING.
Unspawned ==
    /\ \A k \in Key : outbox[k] \in {"NONE", "PENDING"} => spawns[k] = 0
    /\ step = "launch" => spawns[item] = 0
    /\ Dispatching => \A k \in todo : outbox[k] = "PENDING" \/ (step # "next" /\ k = item)

\* Attempts are numbered without a gap, so that the number after the last is free.
NoGaps == \A k \in Rows : \A n \in 1 .. k.attempt : [k EXCEPT !.attempt = n] \in Rows

\* What makes LaunchOnce true of every step: admission never takes a key that was
\* used, and a worker is only spawned for a row just claimed (queueStage in
\* src/core/admission.ts, dispatchPending in src/core/launch.ts).  With TypeOK,
\* LaunchOnce and LaunchesBounded it is the inductive invariant of WaveRunnerProofs.
KeysFresh == RowsInHand /\ Unspawned /\ NoGaps

\* The three records of one attempt agree: the stage run and the reservation are
\* over exactly when the launch row is closed, and the stage runs exactly when a receipt
\* is stored, so that no settlement, failure or crash touches one without the others.
RecordsAgree ==
    \A k \in Rows :
        /\ outbox[k] \in ClosedRow <=> stageRun[k] \in {"SUCCEEDED", "FAILED"}
        /\ outbox[k] \in ClosedRow => budget[k] \in {"COMMITTED", "INDETERMINATE"}
        /\ outbox[k] \notin ClosedRow => (k \in receipt <=> stageRun[k] = "RUNNING")
        /\ outbox[k] = "LAUNCHED" => k \in receipt

\* A wave that is over leaves no reservation open, however it came to an end
\* (maybeCompleteWave, stopForBudget and the two transactions of cancelWave).
BooksClosed ==
    waveStatus \in TerminalWave /\ ~cancelling => \A k \in Key : budget[k] # "RESERVED"

\* Admission counts every row it inserts, and never goes over limits.maxLaunches,
\* retries and review loops included (admitReservation in src/core/budget.ts).
LaunchesBounded == launches = Cardinality(Rows) /\ launches <= MaxLaunches

\* Attempts of one stage of one ticket are consecutive and one at a time: an
\* attempt starts only after every earlier one is closed, although operators revise
\* and approve at any moment and queueStage itself looks at no open row.
AttemptsSerial ==
    \A k, l \in Rows :
        k.ticket = l.ticket /\ k.stage = l.stage /\ k.attempt < l.attempt
            => outbox[k] \in ClosedRow

\* Two tickets of one writer scope never implement at the same time: there is at
\* most one open IMPL row per scope (README, invariant 3; busyImplScopes and
\* writerLeaseBlocksImpl).
OneImplPerScope ==
    \A k, l \in OpenRows :
        k.stage = "IMPL" /\ l.stage = "IMPL" /\ ScopeOf[k.ticket] = ScopeOf[l.ticket] => k = l

\* While a ticket implements, verifies or lands, its scope's writer lease is its own.
ImplHoldsLease ==
    \A t \in Ticket :
        ticket[t] \in {"IMPLEMENTING", "VERIFYING"} => lease[ScopeOf[t]] = t

\* A ticket is worked on only after every ticket it depends on is DONE, and it
\* stays so: a dependency is never taken back under a dependent.
DependenciesDone ==
    \A k \in Rows : \A d \in DependsOn[k.ticket] : ticket[d] = "DONE"

\* A ticket is DONE only with a durable landing of work that was verified, and
\* nothing lands without that (finalizeImplLand, recordCommitLand).
DoneMeansLanded ==
    /\ \A t \in Ticket : ticket[t] = "DONE" => t \in landed
    /\ \A t \in landed : \E k \in RowsOf(t, "IMPL") : stageRun[k] = "SUCCEEDED"

\* An IMPL implements the plan that was reviewed: without an operator's approval or a
\* leftover stamp, a reviewed ticket implements only a plan attempt that its own
\* REVIEW approved.
ImplPlanReviewed ==
    \A t \in Ticket \ ReviewSkip :
        RowsOf(t, "IMPL") # {} =>
            /\ review[t]["REVIEW"].plan = LatestPlan(t)
            /\ VerdictOf(t, "REVIEW") # "revise"

\* Likewise a ticket that needs UX implements only a plan its UX_REVIEW approved.
ImplUxReviewed ==
    \A t \in NeedsUx :
        RowsOf(t, "IMPL") # {} =>
            /\ review[t]["UX_REVIEW"].plan = LatestPlan(t)
            /\ VerdictOf(t, "UX_REVIEW") # "revise"

\* When the gate takes a plan's REVIEW for launched and over, the verdict it reads is
\* about that plan and not about an earlier attempt (planReviewHopReady; WR-038).
VerdictIsFresh ==
    LET settling == {k \in {item} : step = "settle" /\ truth = "succeeded"} IN
    \A t \in Ticket :
        ticket[t] = "PLAN_REVIEW" /\ PlanReviewReady(t, settling)
            => review[t]["REVIEW"].plan \in {0, LatestPlan(t)}

\* A worker that still runs has an open row: the controller has not forgotten it.
NoForgottenWorker ==
    \A k \in Key : worker[k] = "running" => outbox[k] \notin ClosedRow

\* An error of one wave's tick stays with that wave: the handler of tickLiveWaves
\* does not throw in its turn (README, invariant 10).
ErrorsIsolated == phase # "escaped"

----------------------------------------------------------------------------
(* Action properties. *)

\* A reservation is resolved once: what was charged is not reserved or charged again.
BudgetResolvedOnce ==
    [][\A k \in Rows :
          /\ budget[k] # "RESERVED" => budget'[k] # "RESERVED"
          /\ budget[k] = "COMMITTED" => budget'[k] = "COMMITTED"]_allVars

\* What is over stays over: no step of the ticker, in any order of settlements,
\* failures and crashes, revives a wave or a ticket in a terminal status.
TerminalStays ==
    [][/\ waveStatus \in TerminalWave => waveStatus' = waveStatus
       /\ \A t \in Ticket : ticket[t] \in TerminalTicket => ticket'[t] = ticket[t]]_allVars

\* Cancellation is sticky (README, invariant 7): once the cancel command has
\* cancelled a ticket, nothing revives it.
CancelIsSticky ==
    [][\A t \in Ticket : ticket[t] = "CANCELLED" => ticket'[t] = "CANCELLED"]_allVars

\* An APPROVED ticket that cannot get a slot now is deferred, not failed
\* (src/core/admission.ts:45).
DeferralIsNotFailure ==
    [][\A t \in Ticket : ticket[t] = "APPROVED" => ticket'[t] # "FAILED"]_allVars

----------------------------------------------------------------------------
(* Liveness, under FairSpec. *)

\* Every wave terminates (README, invariant 8).
WaveTerminates == <>(waveStatus \in TerminalWave)

\* What has landed is recorded as DONE.
LandingRecorded == \A t \in Ticket : t \in landed ~> ticket[t] = "DONE"
=============================================================================
