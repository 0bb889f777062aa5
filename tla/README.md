# A formal model of the wave controller

This directory models openclaw-wave-runner in TLA+: the deterministic
controller (`src/src/core/`) that takes the tickets of a frozen wave through
PLAN, REVIEW, UX_REVIEW and IMPL, with workers that run outside, an operator who
gives commands at any time, and a process that may die between any two steps;
and around it what one wave alone does not show: several processes at one launch
row, several waves at one scope and one checkout, the shell loop that ticks all
ledgers and the commands that feed it. TLC checks it on small instances; TLAPS
proves most of the safety properties of all four models, and that two of them
implement an abstract specification, for every number of tickets, waves, rows,
processes and launches, and any set of faults.

Paths below are relative to the repository (`src/core/tick.ts` is
`src/src/core/tick.ts` in `PROJECT.json`).

## 1. The system

| Part | State it keeps | Operations |
| --- | --- | --- |
| Store (`store/`) | SQLite rows: waves, tickets, stage runs, budget entries, launch outbox, leases, events, artifacts | transactions |
| Manifest and creation (`core/manifest.ts`, `wave-create.ts`) | the frozen manifest and its hash | create, freeze |
| Operator commands (`core/wave-commands.ts`) | wave and ticket statuses | freeze, start, pause, resume, approve, revise, cancel |
| Tick (`core/tick.ts`) | scratch of one pass: open rows, busy scopes, "queued something" | reconcile, dispatch, observe, watchdog, closeouts, gate, advance, complete |
| Run supervisor (`core/run-supervisor.ts`) | none | ticks every live wave, isolates an error to its wave |
| Admission (`core/admission.ts`, `launch-hops.ts`, `acp-slots.ts`) | inserts stage run, reservation, outbox row, lease | queueStage, queueStageOrBudget |
| Launch (`core/launch.ts`, `fail-launch.ts`, `impl-handoff.ts`) | outbox state, receipt | dispatchPending, reconcile, observeLaunched, failLaunchWithoutReceipt |
| Settlement (`core/settlement.ts`, `plan-settle.ts`) | everything an attempt owns | settleOutbox |
| Gates (`core/plan-review-settle.ts`, `ux-review-settle.ts`) | launch and revise events; review files on disk | queue a hop, read a verdict, admit, revise, cap |
| Budget (`core/budget.ts`, `budget-stop.ts`) | reservation state, counters | reserve, apply usage, mark indeterminate, stop |
| Writer leases (`core/lease.ts`, `lease-release.ts`) | one lease per repo and scope | acquire, refresh, expire, release, block |
| Land closeout (`core/land-closeout.ts`, `land-lock.ts`, `pending-closeout.ts`) | land lock, `LAND.json`, ticket status | lock, land, record, defer, resume |
| Watchdog (`core/stage-watchdog.ts`) | none | cancel a hung worker, settle it as failed |
| Workers (`adapters/*worker*`, `grok-cli.ts`) | processes and files outside the ledger | launch, recover, inspect, cancel |
| Repo authority (`adapters/repo-authority.ts`) | a host file lock per writer scope | acquire, release, heldBy |
| Apply closeout (`core/apply-closeout.ts`, `adapters/apply-workdir.ts`) | `APPLY.json`, ticket status | copy, record, apply what an exhausted IMPL left |
| Supervisor (`scripts/wave-supervisor.sh`, `supervisor-health.sh`) | pidfile, heartbeat, failure, stuck and idle counts | tick every ledger, stop |
| Kicks (`scripts/run-backlog-wave.sh`) | none | dry run, join or spawn the supervisor, create, start |
| Trackers and selection (`adapters/*-tracker.ts`, `eligible-select.ts`) | ticket files on the board | snapshot, select |
| Briefs, plugin surface, simulator, backup | — | see "Not modelled" |

How they interact. Everything durable is in the ledger. One ticker drives the
wave: each pass of `tickWave` alternates synchronous transactions with awaits
on the worker, the workspace and the workflow backend. Operator commands are
processes of their own that commit between any two of those steps. Workers are
known only through `recover` and `inspect`; a gate worker additionally leaves a
review file, which the gates read from disk. In CLI use every tick is a new
process. One supervisor is to tick all ledgers again and again; but an operator's
`start` and `tick` run a tick of their own beside it, and with
`WAVE_JOIN_SUPERVISOR=0` each wave has a loop and an identity of its own, so that
ledger, leases, land lock and primary checkout are shared between processes.

What is hard. A crash between the spawn of a worker and its receipt; a command
between a snapshot and its use; a result that arrives after a cancel, a stop or
a verdict; one review file for many plan attempts; three records per attempt
closed by half a dozen transactions; a full pool that looks like success; a
landing that is durable before it is recorded; a dead process's leases; a row two
tickers work on at once; a heartbeat that outlives its process. `PROJECT.json`
lists each hazard at its line with the properties that cover it, or why none does.

What makes each part correct:

- *Launch and admission*: one worker per key, ever; keys never reused; attempts
  of a stage one at a time; the launch limit never exceeded.
- *Settlement*: the records of an attempt close together; nothing over is
  revived; a failure leads to a legal status.
- *Gates*: only a plan that was itself reviewed is implemented; a verdict is not
  older than the plan it is applied to.
- *Leases*: one implementer per scope, and it holds the lease.
- *Closeout*: DONE means landed, landed means verified; what landed is recorded.
- *Budget*: a reservation is resolved once; a finished wave leaves none open.
- *Launch under several processes*: a second copy, or a worker nobody waits for, is
  never made by one healthy process; every row closes.
- *Closeout under several waves*: no worktree is removed before its work is on the
  checkout and proven; DONE is final; the fence holds to the settlement.
- *Supervision*: one supervisor; a started wave is ticked; a stop is deserved; what
  is frozen was selected, accepted and is in order.
- *Tick and supervisor*: dependencies come first; an error stays with its wave;
  every wave terminates.

## 2. Modules

| Module | Models | Extends |
| --- | --- | --- |
| `WaveStates` | statuses and transition tables (`domain/types.ts`, `state-machine.ts`, `outbox.ts`) | – |
| `WaveLedger` | the durable rows of one wave; queries; the transactions of admission, budget, leases, failed launches, stopping and completing | `WaveStates` |
| `WaveGate` | plan settlement and the two review gates, with the review files | `WaveLedger` |
| `WaveTick` | `tickWave` under `tickLiveWaves`, step by step, with every fault | `WaveGate` |
| `WaveRunner` | the composition: ticker, crashes, operator, workers; fairness; all properties | `WaveTick` |
| `LaunchPort` | the outbox rows of a wave under several processes, cut at every await, over the gateway and CLI adapters, their receipts and terminals | `WaveStates` |
| `LaunchLog` | what the outbox promises of each row, abstractly | – |
| `Closeout` | leases, file locks, land lock, verification, landing, apply and land-retry of several waves with identities of their own | – |
| `RepoLanding` | what closeout promises of each ticket, abstractly | – |
| `WaveIntake` | selection, normalisation, checks and topological order, as functions of a board | – |
| `Supervision` | kicks and copies of the supervisor over several ledgers | `WaveIntake` |
| `MCWaveRunner`, `MCLaunchPort`, `MCCloseout`, `MCSupervision` | values for TLC | the module named |
| `WaveRunnerProofs` | type correctness, launch and budget invariants, proved | `WaveRunner`, `TLAPS` |
| `WaveRunnerRows` | attempts one at a time, one implementer, DONE means landed; the records of an attempt, the reservations, the writer lease, proved | `WaveRunnerProofs` |
| `WaveRunnerGates` | only reviewed plans are implemented, proved | `WaveRunnerRows` |
| `WaveRunnerOrder` | dependencies first, what is over stays over, errors isolated, proved | `WaveRunnerRows` |
| `WaveRunnerWorkers` | no worker is forgotten, verdicts are fresh, proved | `WaveRunnerOrder` |
| `CloseoutProofs` | types, no lost work, the refinement, the fence, proved | `Closeout`, `TLAPS` |
| `LaunchPortProofs` | types, the refinement, copies and orphans explained, proved | `LaunchPort`, `TLAPS` |
| `SupervisionProofs` | types, freezing, refusals, who ticks, stops, proved | `Supervision`, `TLAPS` |

State and code. A launch row, a stage run and a budget entry are created in one
transaction and share the idempotency key `wave:ticket:stage:attempt`; so
`outbox`, `stageRun` and `budget` are functions of that key, and `"NONE"` means
that the row does not exist. `receipt`, `hopLaunch`, `revises`, `lease` and
`landLock` are the receipt column, the launch and revise events and the lease
rows. Outside the ledger are `worker` and `spawns` (the process behind a key and
how often one was started), `review` (the review file of a ticket and gate: its
verdict, and the plan attempt it was written about, which the code cannot see)
and `landed` (a durable `LAND.json`). The ticker's own position is `phase` (the
function within `tickWave`), `step` (the await within one item), `todo` (the
rest of the snapshot a loop took), `item` and `truth` (what inspection said),
`idle` and `busy` (the locals `queued === 0 && open.length === 0` and
`busyImplScopes`).

Steps and code. An action of the ticker is one transaction with the synchronous
code around it, or the end of one await. For a launch: `ClaimRow` (claim, or
"cancelled before launch"), `PrepareError`/`RefuseHandoff`/`LaunchError`/`Spawn`,
then `LinkError`/`StoreReceipt`; a crash may come between any two. After a
crash a new process finds the row by `ReconcileRow` and either `Recovered` or
`LostSpawn`. `InspectReconciled`, `ObserveRow` and `CancelHung` produce a
`truth`; `VerifyImpl` fences and verifies; `SettlePlan`, `SettleReview`,
`SettleImpl`, `SettleDeath`, `SettleAgain` and `SettleThrows` are the outcomes of
`settleOutbox`. Landing is `StartLand`, `Land`, `RecordLand`, or `DeferLand`,
`FinishFromProof`, `LandThrows`. `GateQueue`, `UxQueue` and `GateAdmit` are the
gate phases, `AdvanceImpl`, `QueueImpl`, `AdvancePlan`, `QueuePlan` and
`PrimaryDirty` those of `advanceReadyTickets`. `Queue` is `queueStageOrBudget`
with its four endings: queued, budget stop, deferred, thrown. An error that
leaves `tickWave` goes to the handler of `tickLiveWaves` (`Throw`, `Isolate`);
an error in the handler leaves the loop (`phase = "escaped"`).

Modelling decisions of `WaveRunner`:

- One ticker identity. A held lease then never changes its generation, and is
  its resource and holder ticket.
- No clock. Which leases are stale, which rows are overdue, whether the deadline
  has passed are choices, where the fault set allows them. `TickBegin` may find
  any subset of the leases stale, because each CLI tick is a new pid.
- A loop visits its snapshot in any order. The code's order is one of them.
- Each decision of `maybeAdmitPlanGate` is one step although it is not in a
  transaction; the code between its reads and writes is synchronous. A revise
  that throws has already written its event, in the code and in the model.
- Two writes that follow a transaction at once are in its step, so that no crash comes
  between: the launch event of a gate hop after its admission
  (`plan-review-settle.ts:146`, `ux-review-settle.ts:198`; `HopQueued`), and the release of
  land lock and lease after a landing is recorded (`land-closeout.ts:223-229`;
  `RecordLand`). `Closeout` has the second pair apart.
- `start` commits RUNNING; the tick it makes itself is the ticker's next tick.
- A worker that is lost, or ended without an attestation, reads as running.
- A gate worker writes at most one file per plan attempt, about the latest plan.
- The status CANCELLED of a stage run is folded into FAILED.
- The land mode is "commit".
- Faults are a constant: a run allows some of the 21 kinds in `FaultKind`, each
  the rejection, refusal or failure of one call of the code.
- Definitions marked "Seeded fault" are used by no action. Each is a plausible
  bug in the definition that follows it, and shows that the property named for
  it in `PROJECT.json` can be broken.

The other three models look at the same code from where it shares something.

`LaunchPort` (state: `row`, `receipt`; on disk `disk` = launch-receipt.json,
`reported` = terminal.json or an ended gateway task; outside `launches`, `live` =
the copies of a worker; `at` = where each process is in its loop, with the row it
holds over an await). `Begin`/`EndLoop` take the snapshot of each loop;
`Reconcile`, `Recover`, `Inspect`, `Observe`, `Watch`, `CancelHung`, `Settle`,
`Claim`, `Launch`, `WriteReceipt`, `StoreReceipt` are the stretches between two
awaits of `launch.ts`, `stage-watchdog.ts`, `acp-worker.ts` and `grok-cli.ts`. The
supervisor ticks again and again through `tickLiveWaves`, whose error handler is
`Throw`; an operator's command ticks once.

- The gateway starts one task per idempotency key (its contract, external), and
  may not list it yet; the CLI launcher remembers a worker by its file alone.
- Tickets, budgets and cancellation are `WaveRunner`'s; here rows are admitted
  before and only closed. Rows are visited by `created_at`, as in the code.
- A tick looks at the receipt a row has when `inspect` returns; the code at the one it
  read before (`launch.ts:135`). A stored receipt differs only if another process has just
  replaced it by that of another copy.
- Which rows are past their wall is a choice, for good. Nobody ticks once all rows
  are closed, and the worker of a closed row ends only while a process holds the
  row: two bounds that remove no bad state.

`Closeout` (state: `status`, `attempt`, `worker`; on disk `tree` = worktrees,
`proven` = LAND.json or APPLY.json with ok, `primary` = work on the checkout;
`lease`, `fileLock`; `at` = each process, a tick or a land-retry of one wave).
`Dispatch` to `EndTick` follow `tickWave`; `TakeLandLock`, `Integrate`, `Publish`,
`Prune`, `Record`, `Unlock` cut a closeout where a crash makes a difference.

- A wave is one identity (`cli-wave:<WAVE_ID>`), as with `WAVE_JOIN_SUPERVISOR=0`.
  The TTL of two hours is longer than any process here lives; generations restart
  at 1 whenever a row is deleted, so the fence compares the ticket alone.
- How worker and tests end is a choice; reconcile and observe are one pass; the
  dirty check finds nothing. Deadlines, cancels and reviews are `WaveRunner`'s.
- A copy of apply mode is one step; the host file beside the land lock's lease row
  is left out. Removing a worktree fails only with its process.
- land-retry takes a FAILED ticket of either mode, as `retryImplLand` does. One of apply mode
  may be landed at the same time by its own exhausted apply: the two share the land lock
  (`land-lock.ts:59`), so that `recordApplyOutcome` may write FAILED over DONE, and a failing
  copy its proof over the one with ok. `crowded` remembers those tickets.

`WaveIntake` (a board: for each ticket its files in the order of their paths). Duplicate
files are read in three ways: any closed one closes the ticket (`Closed`), selection reads
the first (`FirstFile`), the snapshot the last (`LastFile`).

`Supervision` (state: `phase` = a wave as the loop sees it,
`frozen`, `kick` = where each `run-backlog-wave.sh` is, `sup` = each copy of
`wave-supervisor.sh`, `pidfile`, `fresh` = the heartbeat's age, `failing` and `unlisted` =
ledgers whose tick, or whose list of live waves, fails). `Begin`
to `Start` are a kick: dry run, `ensure_supervisor`, `createWave` with its await,
freeze and start. `Boot`, `Tick`, `TickFails`, `EndCycle` are the supervisor's loop.

- A tick is atomic, and its effect on a wave one of `Moves`; `LaunchPort` and
  `WaveRunner` cut it open. A jammed wave is RUNNING and its ticks change nothing. A
  DRAFT wave is ticked too, may be planned and leave its draft (`run-supervisor.ts:13`);
  `Eager` bounds which waves do. A ledger that cannot be listed is passed over without a
  word (`wave-supervisor.sh:54`); either failure is for good.
- The board does not change, and each wave id goes with one list of tickets. The
  preflight throws, or asks for more launches than the kick allows (`Preflight`); a
  kick that finds the primary dirty in its scope does nothing, so it is no step.
  Warnings that refuse nothing, the single-wave mode of the supervisor and the loop
  of `WAVE_JOIN_SUPERVISOR=0` are left out.
- Ages and clocks are choices: the heartbeat ages while no copy beats, or while
  all that beat are in a tick.

Variables marked "history" (`intruded`, `crowded`, `disturbed`, `still`, `excuses`) are read by
properties only.

## 3. Runs

The first eight runs instantiate `MCWaveRunner`. Bounds: `MaxRetries` 1 (two attempts of a
stage, so that a retry and its exhaustion both happen) or, where revisions are the point,
2 (`Gate`: the code's default, three plans, hence a verdict that is two plans old),
`ReviseCap` 1 (one revision and the cap), `SlotCap` 2 (both tickets at work, and a third
row refused; in `Gate` 8, a slot for every stage of both), `MaxLaunches` 4 or 6 where the
limit is to be hit (a reviewed ticket needs three launches and has one left for a retry or a
new plan; in `Operator` four let both tickets implement; in `FairChain` six are two short of
every retry) and 8 where it is not, one scope, at most two tickets: a pair is what serial
scopes, dependencies and sharing of slots are about. Symmetry is not used: the tickets differ.

| Run | Instance | Checks |
| --- | --- | --- |
| `OneTicketFaults` | one reviewed ticket, all faults, cancel | `TypeOK`, `LaunchOnce`, `KeysFresh`, `LaunchesBounded`, `DoneMeansLanded`, `ErrorsIsolated`, `BudgetResolvedOnce` |
| `Operator` | two tickets in one scope, one held for a human, all commands from DRAFT, rejected launches | `AttemptsSerial`, `OneImplPerScope`, `BooksClosed` |
| `Gate` | a reviewed ticket and a dependent with UX review; revise loops, bad plans, failing verifications; pause, resume, cancel | `ImplPlanReviewed`, `ImplUxReviewed`, `VerdictIsFresh` |
| `FairChain` | a chain of two without reviews, under `FairSpec`; crash, failing and hung workers, rejected launches, failing landings, a budget that may run out | `ImplHoldsLease`, `DependenciesDone`, `NoForgottenWorker`, `RecordsAgree`, `WaveTerminates`, `LandingRecorded`, `TerminalStays` |
| `ReviewDies` | one reviewed ticket, failing worker, `FairSpec` | `WaveTerminates`: violated |
| `CancelRace` | one reviewed ticket, cancel | `CancelIsSticky`: violated |
| `StaleUxRevise` | one ticket with both gates, no fault | `ImplPlanReviewed`: violated |
| `PoolElsewhere` | one ticket, pool full elsewhere | `DeferralIsNotFailure`: violated |
| `LaunchPort` | a gateway row and a CLI row, a supervisor and a command; one fault; `FairSpec` | `TypeOK`, `DoubleLaunchExplained`, `OrphanExplained`, `ImplementsLaunchLog`, `RowsClose` |
| `Closeout` | two waves in one scope, two tickets and one, one of apply mode; one crash or land-retry of either mode; `FairSpec` | `TypeOK`, `NoLostWork`, `ImplementsRepoLanding`, `FenceSound`, `VerifyingResolves` |
| `ScopeShared` | the same waves, all commit, no fault | `ScopeExclusive`: violated |
| `Supervision` | five waves on two ledgers, eight tickets, two kicks, two copies, one fault; `FairSpec` | `TypeOK`, `FrozenInOrder`, `EligibleAccepted`, `OneSupervisor`, `StuckStopsHonestly`, `StartedStays`, `LanesServed`, `SupervisorEnds` |

Bounds of the last four. Two rows, one per adapter, and two processes are what it
takes to meet at a row and to throw out of each other's work (about a million
states). Two waves and three tickets of one scope, one of apply mode, give every
pair a closeout can meet: same wave, other wave, commit against apply. `MaxRetries`
is 0 there (a retried IMPL is `WaveRunner`'s), and one fault is one dead process
or one land-retry. Two copies and two kicks are what can overlap; two ledgers
share a count, five waves give a chain with a dependency that needs every launch
allowed, a ticket of two files that agree with a dependency closed in one of its two, and
three selections the dry run refuses, two of them of tickets the drain selects (an unknown
plan worker; a verify command in the first file only); `StuckTicks` and
`FailLimit` are 2, so that a count is begun and reset, `IdleCycles` 1. `Eager` is empty:
draft waves that move under a kick multiply the states by three. With all five waves in it
all eight properties held as well (2.4 million states, seven minutes); the theorems are
about any `Eager`.

What is refined. `Closeout` implements `RepoLanding` and `LaunchPort` implements
`LaunchLog`, each by INSTANCE ... WITH a refinement mapping, checked as a PROPERTY:
whatever the processes do to each other, no ticket becomes DONE without its work
on the checkout and nothing happens to it afterwards; no row is settled before its
worker has reported or its wall is over, and none is reopened.

Deadlock is not checked: a wave that is over or paused is not ticked any more, a
supervisor without work exits, so the system really stops.

Between them the passing runs take every action and every branch of the ticker,
except five that only a second ticker on the same ledger can take, and that are
there because the code has them: `SettleAgain` (the row was settled meanwhile),
the throws of `Recovered` and `StoreReceipt` (the row left the states from which
it may be LAUNCHED), a failed launch of a closed row, and a budget stop of a wave
that is over. `LaunchPort` is where several tickers meet and these are taken.

A passing run holds under the faults and commands it names, and for some
properties not beyond them:

- `RecordsAgree` needs no cancel and no refused handoff: both fail the outbox
  row alone and leave stage run and reservation to the end of the wave
  (`launch.ts:170`, `impl-handoff.ts`). `BooksClosed` is what still holds then.
- `ErrorsIsolated` needs that nobody approves while a REVIEW runs: its late
  death is then an illegal re-arm on every tick. It is proved where there is no
  UX review, no approval and no revise by the operator.
- `DependenciesDone` needs that no review outlives the decision it was asked for:
  after an approval, or a UX verdict that admits, an open REVIEW dies late and its
  settlement writes FAILED over whatever the ticket has become, DONE included
  (`settlement.ts:196`).
- `ImplHoldsLease` needs that nothing is cancelled: cancel releases the leases, and
  a ticket that a late settlement then revives implements without one.
- `TerminalStays` is about the ticker alone; cancel breaks it (`CancelRace`), and so
  does what breaks `DependenciesDone`.
- `VerdictIsFresh` holds for the CLI review worker; the ACP worker's inspection
  reads the old file while its REVIEW runs (`AcpReview = TRUE`, WR-038). It needs besides
  that no REVIEW row fails: `planReviewHopReady` takes a launch event without an open row
  for a review that is over (`plan-review-settle.ts:103`). With a crash among the `Faults`
  and `MaxRetries` 2, TLC finds a REVIEW that is lost before it starts; the file that
  revised the previous plan is then read as the verdict on this one, and its cap fails the
  ticket. A full pool does the same: `queueStage` returns silently, and the launch event is
  written after it (`plan-review-settle.ts:146`).
- `NoForgottenWorker` needs that workers are found, inspected and cancelled without an
  error: the handler of `tickLiveWaves` fails rows whose worker is alive. After a crash any
  error of the next reconcile does the same, and a settlement that throws is one: TLC
  finds it violated for two tickets under crash and cancel.
- `ImplPlanReviewed` and `ImplUxReviewed` in `Gate` are about tickets with one gate, one
  revision and no operator approval or revise. With both gates the first is what
  `StaleUxRevise` refutes. The second fails as well, with the code's limits and no fault
  (`StaleUxRevise.cfg` with `MaxRetries` 2, `MaxLaunches` 10, `ImplUxReviewed`):
  `admitUxReviewTicket` does not ask whether the hop's UX_REVIEW is over
  (`ux-review-settle.ts:257`), so that when a REVIEW with a revise of its own overtakes the
  UX review of the same plan, the UX approval left on disk admits the next plan.
- `DoubleLaunchExplained` and `OrphanExplained` name what they need: a fault, a
  second process, a passed wall. A second copy of a CLI worker, and a worker
  that runs on for a closed row, both do happen under two processes
  (`launch.ts:163`, `launch.ts:99`), against "One launch per ... idempotency key".
- `VerifyingResolves` needs that no exhausted apply fails for ever: it is tried on
  every tick and may have the land lock whenever the others ask
  (`pending-closeout.ts:51`).
- `NoLostWork` and `ImplementsRepoLanding` excuse a ticket that an exhausted apply and a
  land-retry landed at once (`apply-closeout.ts:73`): its DONE may become FAILED, and its
  proof be lost after its worktree is gone. The run does reach both. That its work is on the
  checkout is not excused.
- `EligibleAccepted` excuses a ticket whose first and last file differ in `depends_on` or
  verify: the drain selects by one and the dry run refuses by the other
  (`eligible-select.ts:37`, `markdown-tracker.ts:185`).
- `OneSupervisor`, `LanesServed`, `StartedStays` likewise name the overlap, death or
  stop that excuses them; without one they hold. `SupervisorEnds` is about at most
  one live ledger: two that are jammed reset each other's count, and the loop then
  never stops (`wave-supervisor.sh:176-190`).
- `WaveTerminates` in `FairChain` is about tickets without reviews; with one it
  is what `ReviewDies` refutes.

The five violations, in the code:

- *A failed REVIEW strands its wave* (`settlement.ts:188-194`). The ticket goes
  back to PLAN_REVIEW and the wave to RUNNING; the gate phases run only at
  AWAITING_PLAN_GATE and this hop counts as launched. Without a deadline the
  wave never ends, against README invariant 8.
- *A cancelled wave revives* (`settlement.ts:211`, `plan-settle.ts:84,107`). Only
  failures look at `cancelRequested`; a PLAN that succeeds after the cancel
  writes PLAN_REVIEW and AWAITING_PLAN_GATE, against README invariant 7.
- *A UX revise lets the next plan pass unreviewed* (`ux-review-settle.ts:129`).
  `crawmakSatisfiedForHop` does not ask whether the hop's REVIEW is over, and
  reads the file about the previous plan; the title of
  `test/wr-037-ux-review.test.ts:241` says it does not admit.
- *A deferred ticket fails* (`admission.ts:45`, `lease-release.ts:204`). A full pool
  is a silent return, and `failUnlaunchableApproved` then finds an APPROVED
  ticket with no open row and no lease, and fails it in the same tick.
- *Two waves implement one scope* (`lease-release.ts:120`). `expireStaleLeases` goes
  over all leases; one whose pid is dead is refreshed if it is the caller's own
  and deleted otherwise, also when its ticket is IMPLEMENTING with a live worker
  between two ticks of its wave. The runbook (`docs/OPERATOR-RUNBOOK.md:98-100`) says
  that same-scope IMPL is exclusive across waves. `FenceSound` is what is left: the
  intruded ticket is not verified.

Fairness (`FairSpec`). Weak fairness of the ticker: the operator loop and its
supervisor run it as long as the wave lives, also after a crash
(`scripts/wave-supervisor.sh`). It does not crash for ever: a process that dies
in every tick makes no progress in the code either. A running worker ends, or
writes its file: the watchdog and the provider see to that. Nothing is assumed
of the operator and no fault is owed.

In `LaunchPort` the supervisor keeps ticking (weak fairness) and walls do pass
(strong fairness of finding every open row late, since a loop looks at the clock
only at its end); workers, the operator's command and faults owe nothing. In
`Closeout` every wave's loop goes on ticking and a process that runs goes on: weak
fairness of `Advance(p)`, written as `[]<>Resting(p) \/ []<><<TRUE>>_(at[p])`, because a
process has a next step exactly while it is not at rest, and every step moves it. In
`Supervision` the copies of the supervisor that are up go on; kicks may stop
anywhere. That is weak fairness of the supervisors' steps, written as
`[]<>(Up = {}) \/ []<><<SupMoves>>_vars`: a step of theirs is enabled exactly while
one is up, and TLC need not evaluate ENABLED.

## 4. Proofs

Proved with TLAPS for every value of the constants that satisfies the named
assumptions. Those say that constants have their types, that the tickets (or the
processes, or the ledgers) are finitely many, and that the values standing for
"nobody" are not among them: `LedgerAssumption`, `FaultAssumption` and
`CommandAssumption` for `WaveRunner`; `CloseoutAssumption`; `LaunchAssumption`; `IntakeAssumption` and
`SupervisionAssumption`, which adds that the three limits of the loop are positive. No
shape of the dependency graph is assumed, not even that it has no cycle.

### WaveRunner

| Theorem | States | Under |
| --- | --- | --- |
| `TypeCorrect` | `[]TypeOK` | |
| `LaunchInvariant`, `LaunchedOnce`, `FreshKeys`, `LaunchBudget` | `[]LaunchInv`, hence `[]LaunchOnce`, `[]KeysFresh`, `[]LaunchesBounded` | |
| `BudgetOnce` | `BudgetResolvedOnce` | |
| `RowsInvariant`, `OneAttempt`, `OneImplementer`, `DoneLanded` | `[]RowsInv`, hence `[]AttemptsSerial`, `[]OneImplPerScope`, `[]DoneMeansLanded` | |
| `RecordsTogether` | `[]RecordsAgree` | `RowsFailWhole` |
| `BooksClose` | `[]BooksClosed` | `CancelsEnd` |
| `ImplementerHoldsLease` | `[]ImplHoldsLease` | no cancel |
| `OrderInvariant`, `DependenciesFirst`, `DoneForGood` | `[]OrderInv`, hence `[]DependenciesDone` and `[][DoneStays]_allVars` | `Undisturbed` |
| `ErrorsStay` | `[]ErrorsIsolated` | `Undisturbed`, no revise |
| `LiveInvariant`, `OverForGood` | `[]LiveInv`, hence `TerminalStays` | `Undisturbed`, no cancel |
| `GateInvariant`, `PlanReviewed`, `UxReviewed` | `[]GateInv`, hence `[]ImplPlanReviewed`, `[]ImplUxReviewed` | `OneGate` |
| `HeldInvariant`, `WorkersHeld` | `[]HeldInv`, hence `[]NoForgottenWorker` | `Answered`, `Steady` |
| `VerdictsFresh` | `[]VerdictIsFresh` | `ReviewsAnswer` |

Down to `OneGate` the hypotheses restrict commands and inputs, never tickets, limits or
faults, except that `CancelsEnd` is about crashes and `OneGate` about the revise cap; the
last three are about what workers and their adapters may do. Each shuts out
behaviours in which the code does break the property:

- `RowsFailWhole`: no cancel, and with forged reviews no verdict that leaves the handoff
  incomplete. A cancel that finds a claimed row, and a refused handoff, fail the
  outbox row alone.
- `CancelsEnd`: a wave that can be cancelled has no crash. The command first marks the
  wave and then releases the reservations; if it dies between, they stay open.
- No cancel, for the lease and for `TerminalStays`; `Undisturbed` (no ticket needs a UX
  review, no approval), for order and for what is over: see section 3.
- No revise, for `ErrorsIsolated`: after an operator's revise under a running REVIEW the
  re-arm by its failure, from REVISING to PLAN_REVIEW, is an illegal transition.
- `OneGate`: a ticket has one gate at most, `ReviseCap` is at most 1 (the code's default),
  nobody approves, revises or stamps a plan from outside. With two gates or two revisions
  the approval of an earlier plan can still be on disk (`StaleUxRevise`).
  Revises by the tracker's gates, lost workers, late files, crashes, pauses and cancels are
  all in.
- `Answered`: an adapter finds the worker it spawned, says that it has ended only when it
  has, ends what it is told to, and rejects no call between spawn and receipt. `Steady`: where the
  process may crash, nothing lets a settlement throw in the reconcile that follows, which
  would fail the rows whose workers are not yet found.
- `ReviewsAnswer`: `Answered`, no crash, a worker that is launched reviews before it ends,
  and slots for every stage of every ticket. It bounds neither revisions nor commands nor
  gates. A full pool leaves a launch event without a row, a failed REVIEW row leaves it
  without a verdict; either way the old file is read (section 3).

*The launch.* `LaunchOnce` is not inductive: nothing in "each key was spawned at most once"
keeps the next `Spawn` from taking a key that was spawned. What does is a chain
of facts. A worker is spawned only for the row at hand in step `launch`; that
row was PENDING when it was claimed (`Unspawned`: no PENDING row was ever
spawned); no row goes back to PENDING; and a new row takes a key that is free
(lemma `FreshKey`), because attempts are numbered by counting and rows have no
gap (`NoGaps`) and are never deleted. The rows at hand exist (`RowsInHand`), or a
step could settle, fail or launch what was never admitted. `LaunchInv` joins
these in two halves: `Books` (no gap, finitely many rows, as many as the counter
says, at most `MaxLaunches`), kept because a step either leaves the set of rows
alone or is an admission, and `Hand` (the rows at hand and their spawns), kept
action by action. `TypeCorrect` is proved in three parts as well, ledger, world
and ticker, with one lemma for each transaction.

*The rows.* What the ticker reads before an await must still hold when it writes.
`BusyKnown` says so of the busy scopes and of a ticket's open rows, `Alive` of the rows a
loop still has to visit, `Proven` of the verification and the landing behind a
closeout. All three last because only the ticker opens or closes a row: no
command does either. Lemma `RowKeeps` is the centre: a step on behalf of
a row writes no other row, and none that is closed.

*The records.* `RecordInv` adds to `RecordsAgree` that nothing is cancelled, that only
rows have receipts and reservations, and that whatever is inspected was launched.
`ClosedInv` adds to `BooksClosed` where the ticker can be once a wave is over
(`Ended`): past every admission of its tick. `LeaseInv` adds to `ImplHoldsLease` that the
fence read before a verification holds at its commit, and that the lease
`advanceReadyTickets` found free is free when it queues after its await; the sweeps and
`releaseWriterLeaseIfHeld` spare an IMPL-active ticket's lease, even one found stale.

*The order.* `OrderInv` says that an open row is the only one of its ticket and goes with
the status its ticket has while that stage is at work, or with one of a stopped ticket
(`Matched`); that a ticket past PENDING has its dependencies DONE (`Begun`); and that
what a loop chose before an await may still be begun (`Chosen`) or landed (`Lands`).
With no open row left beside the landing one, nothing can write over DONE.

*What is over.* `LiveInv` says that nothing is left that could write to a stopped ticket or
an ended wave: no open row of it (`Working`), no place in a loop that admits (`Picked`) or
lands (`Closing`), and a ticker past all of these once the wave is over (`Over`). The step
that needs an argument is the end of a tick, which fails the tickets below a failed one: none
of them has an open row, because a ticket at work has its dependencies DONE (`OrderInv`), and
then, over the recursive function `AncestorsWithin`, all its ancestors (`AncestorsDone`).

*The gates.* The code cannot see which plan a review file is about. `GateInv` says what
the file holds instead, by where the ticket is: while it is planned or revised, the file is
about the last plan so far and does not pass it (`Bars`); it falls behind only then, so an
outdated file says "revise", and that revision was counted; and from APPROVED on it is up to
date and passes (`Reads`). A second "revise" is over the cap and fails the ticket, so an
outdated file admits nothing. For this a ticket with an open PLAN must do nothing else
(`PlansAlone`), or a late plan would outdate a file that was just read.

*The workers.* Between a spawn and its receipt only a CLAIMED row tells of a worker, and
RECONCILING after a death; these are the rows the handler of an error fails unasked.
`Adrift` says where a running worker has no better row: in the launch or the inspection
under way, after a death, or ahead in the reconcile of the next process. `NotRunning` says
that what is settled, or in the handler's list, runs no more. After a crash that takes
`OrderInv` as well: the settlements of that reconcile must not throw.

*The verdicts.* `FreshInv` ties the launch event to a row, the row to a worker and the worker
to the file: a REVIEW whose event is there has written its verdict on the last plan, or has a
row whose worker is still to come or to end (`Asked`), and then `planReviewHopReady` finds it
open. That a REVIEW never waits for a slot is a count: the open rows map one to one into
tickets and stages and miss the one that is queued (`SlotIsFree`).

`LeaseInv` and `OrderInv` were checked by TLC on seven instances each before they were
proved, `LiveInv` on five, `HeldInv` on four, `GateInv` and `FreshInv` on three each. The
runs check every conjunct of `Serial`, `LaunchInv` (except the finiteness of
`Rows`, plain in a finite instance), `RecordsAgree`, `BooksClosed`, `ImplHoldsLease`
and `DependenciesDone`.

### Closeout

| Theorem | States |
| --- | --- |
| `Invariant`, `TypeCorrect`, `NothingLost` | `[](TypeOK /\ CloseoutInv)`, hence `[]TypeOK`, `[]NoLostWork` |
| `Implements` | `ImplementsRepoLanding`: initial states and every step, of any process; a crowded ticket passes for FAILED |
| `FenceHoldsToCommit` | `FenceSound` |

`CloseoutInv` has two parts. `ProcOK`, for each process: it is at a step of its phase,
and what it has in hand has the status it may rely on, through all the steps of a
landing. `BooksOK`, for each ticket: what its status vouches for, on disk and on the
checkout. Two processes have the same ticket in hand only if it is over and of apply mode
(`Exclusive`): a tick of another wave has other tickets, and a land-retry beside a tick
works on FAILED tickets, of which a tick touches only those its exhausted apply is due for.
Two of them past the land lock make the ticket `crowded` for good (`Crowding`), and from
then on nothing is claimed of its status or proof, only that its work is on the checkout
once the worktree is gone or DONE was written. For this the proof needs that a ticket two
processes are landing is crowded already (`OneUnderLock`); the land lock itself lets the
second one through. `FenceSound` needs `FenceInv` besides: a file lock goes with the lease
of the same ticket, a tick that observes holds both, and a ticket whose lease was taken is
on record as intruded.

### LaunchPort

| Theorem | States |
| --- | --- |
| `Invariant`, `TypeCorrect` | `[](TypeOK /\ PortInv)`, hence `[]TypeOK` |
| `Implements` | `ImplementsLaunchLog` |
| `DoubleLaunch`, `Orphan` | `[]DoubleLaunchExplained`, `[]OrphanExplained` |

Even the type needs a count: copies of a worker are numbered, and are never more than
processes, because a process may start one once for each time it took the row into its
snapshot, which it does only while the row is PENDING. `Counted` states it as a sum:
copies started plus processes that may still start one. `HandOK` says that what a process
knows of the row it holds over an await stays true meanwhile, whoever else works on it;
the refinement follows, since a settlement is always backed by what was known. The
explanations need `CalmInv`: of a row that met neither a fault nor two processes at
once, a copy that was started has its receipt on disk, or its process is about to
write it.

### Supervision

| Theorem | States |
| --- | --- |
| `Invariant`, `TypeCorrect` | `[](TypeOK /\ SupervisionInv)`, hence `[]TypeOK` |
| `FrozenOrdered`, `OnlyUnfitRefused` | `[]FrozenInOrder`, `[]EligibleAccepted` |
| `AtMostOne`, `StartedKept`, `StopsHonest` | `[]OneSupervisor`, `StartedStays`, `StuckStopsHonestly` |

`SupervisionInv` joins what a kick past its dry run may rely on, what was frozen and
refused, `Alone` (until something goes wrong around the supervisor one kick at a time
spawns, none while a copy is up, and the pidfile names the copy), the creates that may
overlap, and the counts of the loop. That `TopologicalOrder` places each ticket once and
after its dependencies is a fact about a recursive function. The library's induction
theorems cannot be used here, so the lemmas about it take the least step at which the
claim fails and refute that one (`LeastNatural`, over `WellFoundedInduction`).
`OnlyUnfitRefused` takes from the first file of a ticket to its last exactly what
`Disputed` denies, and from there that a selection of the drain needs no order at all.

### Only model-checked

`WaveTerminates`, `LandingRecorded`, `VerifyingResolves`, `RowsClose`, `LanesServed`
and `SupervisorEnds`: liveness under fairness, and ENABLED, are out of the prover's
reach. Induction over data through an operator parameter is as well; no module declares a
RECURSIVE operator, and what is proved of `TopologicalOrder` and `AncestorsWithin` goes by
least counterexamples. Every safety and action property of the passing runs is proved, those
of `WaveRunner` under the hypotheses above, which every run that checks the property meets.
Beyond them there is only what section 3 lists.

## 5. Not modelled

- *Amounts*: tokens, cost, wall time; the refusal is the fault `ceiling`.
- *Lease TTLs and generations*, the land lock's host file, a pid used again by another process.
- *A partly copied apply*, and the byte rules of a copy.
- *The flow controller of `src/controller.ts`* and the plugin surface (`index.ts`,
  `runtime.ts`, `contracts.ts`): an older single-ticket path and wiring.
- *The ACP bridges* (`codex-acp-compat.mjs`, `grok-acp-compat.mjs`) and the gateway's
  RPC: protocol translation outside the controller; what it relies on is in
  `Launch`, `Recover` and `Inspect`.
- *Single-wave mode of the supervisor*, exit codes and result files of the drivers,
  the parallel and drain scripts.
- Board projection, prompts, text checks, parsing, git and shell I/O, the
  simulator, backup and repository checks: I/O or stateless.

## 6. Plan

1. Done: `WaveRunner` and its runs, `TypeCorrect` and the launch theorems;
   `LaunchPort` with `LaunchLog`, `Closeout` with `RepoLanding`, `WaveIntake` and
   `Supervision`.
2. Done: the proofs of section 4.
3. Weaker hypotheses: `Undisturbed` to allow a UX review that ends before its ticket is
   admitted, `OneGate` to allow operator commands that leave no verdict unread.
4. `Budget`: tokens, cost and launches as numbers; reservations never exceed the
   limit, and what late usage may add to it.
5. Progress across pause and resume, under an assumption about the operator.
