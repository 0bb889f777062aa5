----------------------------- MODULE LaunchPort -----------------------------
(***************************************************************************)
(* Launch rows and their workers when several processes tick one wave: the  *)
(* supervisor (tick-all) and the CLI of an operator (start, tick).  The     *)
(* ticks' three loops over the outbox (launch.ts, fail-launch.ts, outbox.ts, *)
(* stage-watchdog.ts, run-supervisor.ts) are cut at every await; the worker *)
(* adapters behind them are the ACP gateway and the grok CLI launcher       *)
(* (acp-worker.ts, openclaw-acp.ts, grok-cli.ts, routed-worker.ts).         *)
(*                                                                         *)
(* A worker is one of the copies started for its row; a receipt names the   *)
(* copy, 0 for none.  Rows are numbered in the order they were admitted in,  *)
(* which is the order of every loop (ORDER BY created_at).  What settling   *)
(* does to tickets is the subject of WaveTick.  The wave is never cancelled *)
(* here, and each process ticks it over and over.                           *)
(***************************************************************************)
EXTENDS WaveStates, Naturals, FiniteSets

CONSTANTS
    Row,          \* launch rows, by created_at
    Ticker,       \* processes that tick the wave
    Supervisor,   \* the one that ticks again and again, through tickLiveWaves;
                  \* the others are commands of an operator that tick once
    CliRow,       \* rows whose agent goes to the grok CLI
    MaxFaults     \* bound: crashes and rejected calls

ASSUME LaunchAssumption ==
    /\ Supervisor \in Ticker /\ IsFiniteSet(Ticker) /\ CliRow \subseteq Row
    /\ Row \subseteq Nat \ {0} /\ MaxFaults \in Nat

VARIABLES
    row,          \* LaunchOutbox.state
    receipt,      \* LaunchOutbox.receiptJson
    disk,         \* launch-receipt.json of the attempt
    launches,     \* copies of the worker started so far
    live,         \* those that run
    reported,     \* rows with a terminal.json, or an ended gateway task
    overdue,      \* rows a watchdog found older than their wall time
    at,           \* where each process is
    faults,
    disturbed     \* history: rows that met a fault or two processes at once

workerVars == <<launches, live, reported>>
vars == <<row, receipt, disk, workerVars, overdue, at, faults, disturbed>>

None == 0
Copy == 0..Cardinality(Ticker)
Phase == {"off", "over", "reconcile", "dispatch", "observe", "watch"}
Step == {"next", "recover", "inspect", "settle", "launch", "exec", "link"}
Place == [phase : Phase, todo : SUBSET Row, job : Row \cup {None}, step : Step, copy : Copy]

\* The type invariant; no process starts a worker of the same row twice, and the
\* gateway never.
TypeOK ==
    /\ row \in [Row -> OutboxState]
    /\ receipt \in [Row -> Copy] /\ disk \in [Row -> Copy] /\ launches \in [Row -> Copy]
    /\ \A r \in Row \ CliRow : launches[r] <= 1
    /\ live \in [Row -> SUBSET Copy]
    /\ reported \subseteq Row /\ overdue \subseteq Row /\ disturbed \subseteq Row
    /\ at \in [Ticker -> Place]
    /\ faults \in 0..MaxFaults

Off == [phase |-> "off", todo |-> {}, job |-> None, step |-> "next", copy |-> 0]

Init ==
    /\ row = [r \in Row |-> "PENDING"]
    /\ receipt = [r \in Row |-> 0] /\ disk = [r \in Row |-> 0] /\ launches = [r \in Row |-> 0]
    /\ live = [r \in Row |-> {}]
    /\ reported = {} /\ overdue = {} /\ disturbed = {}
    /\ at = [p \in Ticker |-> Off]
    /\ faults = 0

----------------------------------------------------------------------------
(* Where a process goes. *)

RowsIn(states) == {r \in Row : row[r] \in states}
Closed(r) == row[r] \in ClosedRow

Doing(p, s) == at[p].step = s
Job(p) == at[p].job
Go(p, place) == at' = [at EXCEPT ![p] = place]
Await(p, s) == Go(p, [at[p] EXCEPT !.step = s])

\* The next row of the snapshot.
Following(p) == {r \in at[p].todo : \A q \in at[p].todo : r <= q}
AwaitFor(p, r, s) == Go(p, [at[p] EXCEPT !.job = r, !.step = s])
Enter(p, ph, rows) == Go(p, [Off EXCEPT !.phase = ph, !.todo = rows])

\* The loop goes on with the next row of its snapshot.
Leave(p) == Enter(p, at[p].phase, at[p].todo \ {Job(p)})

SetRow(r, st) == row' = [row EXCEPT ![r] = st]

\* claimOutbox and markReconciling throw on a row in another state; the loops skip it.
ClaimOutbox(r) == row' = [row EXCEPT ![r] = IF @ = "PENDING" THEN "CLAIMED" ELSE @]
MarkReconciling(r) ==
    row' = [row EXCEPT ![r] = IF @ \in {"CLAIMED", "LAUNCHED"} THEN "RECONCILING" ELSE @]

\* failLaunchWithoutReceipt looks only whether the row is closed.
FailRow(r) == row' = [row EXCEPT ![r] = IF Closed(r) THEN @ ELSE "FAILED"]

\* The process is over; a supervisor comes again.
Exit(p) == Go(p, IF p = Supervisor THEN Off ELSE [Off EXCEPT !.phase = "over"])

\* An error leaves the tick; tickLiveWaves then fails whatever is in between.
Throw(p) ==
    /\ row' = [r \in Row |-> IF p = Supervisor /\ row[r] \in {"CLAIMED", "RECONCILING"}
                             THEN "FAILED" ELSE row[r]]
    /\ Exit(p)

Fault == faults < MaxFaults /\ faults' = faults + 1

----------------------------------------------------------------------------
(* Snapshots: each loop begins with the rows it will look at. *)

\* Seeded fault: the reconcile loop looks at LAUNCHED rows only.
BeginLaunched(p) ==
    /\ at[p].phase = "off" /\ \E r \in Row : ~Closed(r)
    /\ Enter(p, "reconcile", RowsIn({"LAUNCHED"}))
    /\ UNCHANGED <<row, receipt, disk, workerVars, overdue, faults>>

\* Bound: nobody ticks once all rows are closed.
Begin(p) ==
    /\ at[p].phase = "off" /\ \E r \in Row : ~Closed(r)
    /\ Enter(p, "reconcile", RowsIn({"CLAIMED", "LAUNCHED", "RECONCILING"}))
    /\ UNCHANGED <<row, receipt, disk, workerVars, overdue, faults>>

Finished(p, ph) == at[p].phase = ph /\ Doing(p, "next") /\ at[p].todo = {}

EndLoop(p) ==
    /\ \/ Finished(p, "reconcile") /\ Enter(p, "dispatch", RowsIn({"PENDING"}))
       \/ Finished(p, "dispatch") /\ Enter(p, "observe", RowsIn({"LAUNCHED"}))
       \/ Finished(p, "watch") /\ Exit(p)
    /\ UNCHANGED <<row, receipt, disk, workerVars, overdue, faults>>

\* now - createdAt: which rows have passed their wall by now, for good, is a choice.
Late(p, more) ==
    /\ Finished(p, "observe")
    /\ overdue' = overdue \cup more
    /\ Enter(p, "watch", RowsIn({"LAUNCHED", "RECONCILING"}) \cap overdue')
    /\ UNCHANGED <<row, receipt, disk, workerVars, faults>>

Watched == RowsIn({"LAUNCHED", "RECONCILING"})

Watch(p) == \E more \in SUBSET Watched : Late(p, more)

----------------------------------------------------------------------------
(* reconcile, observeLaunched, the watchdog. *)

\* markReconciling, and the row read again.
Reconcile(p) == \E r \in Following(p) :
    /\ at[p].phase = "reconcile" /\ Doing(p, "next")
    /\ MarkReconciling(r)
    /\ AwaitFor(p, r, IF receipt[r] = 0 THEN "recover" ELSE "inspect")
    /\ UNCHANGED <<receipt, disk, workerVars, overdue, faults>>

\* The launcher is remembered by its file only; the gateway also by its task, which
\* may not be listed yet.
Remembered(r) == {disk[r]} \ {0}
Listed(r) == IF r \notin CliRow /\ launches[r] # 0 THEN {1} ELSE {}
Recoverable(r) == Remembered(r) \cup Listed(r)

\* Seeded fault: a row that was closed meanwhile is opened again.
MarkLaunchedAnyway(p, r, c) ==
    /\ SetRow(r, "LAUNCHED") /\ receipt' = [receipt EXCEPT ![r] = c] /\ Leave(p)

\* markLaunched throws on a row that was closed meanwhile.
MarkLaunched(p, r, c) ==
    IF RowMayMove(row[r], "LAUNCHED")
    THEN SetRow(r, "LAUNCHED") /\ receipt' = [receipt EXCEPT ![r] = c] /\ Leave(p)
    ELSE Throw(p) /\ UNCHANGED receipt

Recover(p) ==
    /\ Doing(p, "recover")
    /\ LET r == Job(p) IN
       \/ \E c \in Recoverable(r) : MarkLaunched(p, r, c)
       \/ disk[r] = 0 /\ FailRow(r) /\ Leave(p) /\ UNCHANGED receipt
    /\ UNCHANGED <<disk, workerVars, overdue, faults>>

\* The CLI's inspect looks first whether the pid of the receipt is alive.
StillAlive(r) == r \in CliRow /\ receipt[r] \in live[r]

\* An outcome inspect reports: the gateway adapter takes a successful terminal.json
\* of a task that is still running.
Decided(r) == r \in reported /\ ~StillAlive(r)

\* Seeded fault: a worker inspect knows nothing of is taken for failed.
InspectStrict(p) ==
    /\ Doing(p, "inspect")
    /\ Await(p, "settle")
    /\ UNCHANGED <<row, receipt, disk, workerVars, overdue, faults>>

Inspect(p) ==
    /\ Doing(p, "inspect")
    /\ LET r == Job(p) IN
       IF Decided(r) THEN Await(p, "settle") /\ UNCHANGED row
       ELSE /\ row' = [row EXCEPT ![r] = IF @ = "RECONCILING" THEN "LAUNCHED" ELSE @]
            /\ Leave(p)
    /\ UNCHANGED <<receipt, disk, workerVars, overdue, faults>>

Observe(p) == \E r \in Following(p) :
    /\ at[p].phase = "observe" /\ Doing(p, "next")
    /\ IF Decided(r) THEN AwaitFor(p, r, "settle")
       ELSE Enter(p, "observe", at[p].todo \ {r})
    /\ UNCHANGED <<row, receipt, disk, workerVars, overdue, faults>>

\* Cancel is best effort, and the CLI has none.
Cancel(r) ==
    \/ r \notin CliRow /\ live' = [live EXCEPT ![r] = {}]
    \/ UNCHANGED live

\* failHungOutbox.
CancelHung(p) == \E r \in Following(p) :
    /\ at[p].phase = "watch" /\ Doing(p, "next")
    /\ Cancel(r)
    /\ AwaitFor(p, r, "settle")
    /\ UNCHANGED <<row, receipt, disk, launches, reported, overdue, faults>>

\* settleOutbox: a row that is SETTLED already is left alone, a FAILED one throws.
Settle(p) ==
    /\ Doing(p, "settle")
    /\ IF RowMayMove(row[Job(p)], "SETTLED")
       THEN SetRow(Job(p), "SETTLED") /\ Leave(p)
       ELSE Throw(p)
    /\ UNCHANGED <<receipt, disk, workerVars, overdue, faults>>

----------------------------------------------------------------------------
(* dispatchPending. *)

\* The row is read again after the claim, but not whether the claim was this one's.
Claim(p) == \E r \in Following(p) :
    /\ at[p].phase = "dispatch" /\ Doing(p, "next")
    /\ ClaimOutbox(r)
    /\ AwaitFor(p, r, "launch")
    /\ UNCHANGED <<receipt, disk, workerVars, overdue, faults>>

\* The copy a launch starts: the launcher's always a new one, the gateway's the first
\* with the row's idempotency key.
Started(r) == IF r \in CliRow THEN launches[r] + 1 ELSE 1

\* Seeded fault: the receipt file of another process is not looked for.
LaunchUnrecovered(p) ==
    /\ Doing(p, "launch")
    /\ LET r == Job(p)
           c == Started(r)
       IN  /\ launches' = [launches EXCEPT ![r] = c]
           /\ live' = [live EXCEPT ![r] = IF launches[r] < c THEN @ \cup {c} ELSE @]
           /\ Go(p, [at[p] EXCEPT !.step = "exec", !.copy = c])
    /\ UNCHANGED <<row, receipt, disk, reported, overdue, faults>>

\* Seeded fault: the gateway is called without an idempotency key.
LaunchUnkeyed(p) ==
    /\ Doing(p, "launch")
    /\ LET r == Job(p)
           c == launches[r] + 1
       IN  \/ \E found \in Recoverable(r) :
                 /\ Go(p, [at[p] EXCEPT !.step = "link", !.copy = found])
                 /\ UNCHANGED <<launches, live>>
           \/ /\ disk[r] = 0
              /\ launches' = [launches EXCEPT ![r] = c]
              /\ live' = [live EXCEPT ![r] = @ \cup {c}]
              /\ Go(p, [at[p] EXCEPT !.step = "exec", !.copy = c])
    /\ UNCHANGED <<row, receipt, disk, reported, overdue, faults>>

\* launch first recovers; else it starts a copy.
Launch(p) ==
    /\ Doing(p, "launch")
    /\ LET r == Job(p)
           c == Started(r)
       IN  \/ \E found \in Recoverable(r) :
                 /\ Go(p, [at[p] EXCEPT !.step = "link", !.copy = found])
                 /\ UNCHANGED <<launches, live>>
           \/ /\ disk[r] = 0
              /\ launches' = [launches EXCEPT ![r] = c]
              /\ live' = [live EXCEPT ![r] = IF launches[r] < c THEN @ \cup {c} ELSE @]
              /\ Go(p, [at[p] EXCEPT !.step = "exec", !.copy = c])
    /\ UNCHANGED <<row, receipt, disk, reported, overdue, faults>>

\* The launcher exits, the gateway lists the task: the receipt goes to disk.
WriteReceipt(p) ==
    /\ Doing(p, "exec")
    /\ disk' = [disk EXCEPT ![Job(p)] = at[p].copy]
    /\ Await(p, "link")
    /\ UNCHANGED <<row, receipt, workerVars, overdue, faults>>

\* linkStageTask has returned.
StoreReceipt(p) ==
    /\ Doing(p, "link")
    /\ MarkLaunched(p, Job(p), at[p].copy)
    /\ UNCHANGED <<disk, workerVars, overdue, faults>>

----------------------------------------------------------------------------
(* Faults, workers, time. *)

\* The supervisor dies with a row at hand, and is started again; a command that dies
\* takes no further step.
Crash(p) ==
    /\ p = Supervisor /\ Job(p) # None /\ Fault
    /\ Exit(p)
    /\ UNCHANGED <<row, receipt, disk, workerVars, overdue>>

\* launchClaimed: a rejected launch, before or after the worker was started.
LaunchRejected(p) ==
    /\ at[p].step \in {"launch", "exec"} /\ Fault
    /\ FailRow(Job(p)) /\ Leave(p)
    /\ UNCHANGED <<receipt, disk, workerVars, overdue>>

\* recover, createImplWorktree before a launch, linkStageTask, usage.settle before a
\* settlement and, for a gateway receipt without a task id, inspect reject.
CallRejected(p) ==
    /\ \/ at[p].step \in {"recover", "launch", "link", "settle"}
       \/ Doing(p, "inspect") /\ Job(p) \notin CliRow
       \/ at[p].phase = "observe" /\ Doing(p, "next") /\ Following(p) \ CliRow # {}
    /\ Fault
    /\ Throw(p)
    /\ UNCHANGED <<receipt, disk, workerVars, overdue>>

\* Bound: the worker of a closed row ends only while a process has the row at hand.
Looked(r) == ~Closed(r) \/ \E p \in Ticker : Job(p) = r

\* A worker ends, with or without an outcome; a gateway task that has written its
\* terminal.json counts as ended, inspect asks no more of it.
End(r) == \E c \in live[r], outcome \in SUBSET {r} :
    /\ Looked(r)
    /\ live' = [live EXCEPT ![r] = @ \ {c}]
    /\ reported' = reported \cup outcome
    /\ UNCHANGED <<row, receipt, disk, launches, overdue, at, faults>>

----------------------------------------------------------------------------

TickStep(p) ==
    \/ Begin(p) \/ EndLoop(p) \/ Watch(p) \/ Reconcile(p) \/ Recover(p) \/ Inspect(p) \/ Observe(p)
    \/ CancelHung(p) \/ Settle(p) \/ Claim(p) \/ Launch(p) \/ WriteReceipt(p) \/ StoreReceipt(p)

FaultStep(p) == Crash(p) \/ LaunchRejected(p) \/ CallRejected(p)

\* The rows this step of p disturbs: its own by a fault, another's by meeting it there.
Disturbs(p) ==
    disturbed' = disturbed
        \cup (IF faults' # faults THEN {Job(p)} \ {None} ELSE {})
        \cup {r \in Row : \E q \in Ticker \ {p} :
                Job(q) = r /\ (row'[r] # row[r] \/ at'[p].job = r)}

Next ==
    \/ \E p \in Ticker : (TickStep(p) \/ FaultStep(p)) /\ Disturbs(p)
    \/ \E r \in Row : End(r) /\ UNCHANGED disturbed

Spec == Init /\ [][Next]_vars

\* The supervisor keeps ticking, and the walls of open rows pass; workers and commands
\* owe nothing.
Fairness ==
    /\ WF_vars(TickStep(Supervisor) /\ Disturbs(Supervisor))
    /\ SF_vars(Late(Supervisor, Watched) /\ Disturbs(Supervisor))

FairSpec == Spec /\ Fairness

----------------------------------------------------------------------------
(* Properties. *)

Log == INSTANCE LaunchLog WITH
          fate <- [r \in Row |-> IF Closed(r) THEN row[r] ELSE "open"],
          begun <- {r \in Row : launches[r] > 0},
          late <- overdue,
          known <- {r \in Row : receipt[r] # 0}

\* Whatever the processes do to each other's rows, every row follows LaunchLog: a
\* receipt is one of a worker that was started, rows settle on an outcome or the
\* wall, and a late launch, settlement or error never reopens a closed row.
ImplementsLaunchLog == Log!Spec

\* One process that meets no fault starts one worker per row: a second copy in the
\* same attempt directory takes two processes at the row, or a crash before its
\* receipt was on disk.
DoubleLaunchExplained == \A r \in Row : launches[r] > 1 => r \in disturbed

\* A worker runs on for a closed row only if it was overdue, has left its outcome,
\* or met a fault or a second process: no loop gives up a healthy worker by itself.
OrphanExplained == \A r \in Row :
    Closed(r) /\ live[r] # {} => r \in overdue \cup reported \cup disturbed

\* No row stays open for ever: lost workers, crashes, rejected calls and processes
\* that throw out of each other's work leave something the next ticks close.
RowsClose == \A r \in Row : <>[]Closed(r)
=============================================================================
