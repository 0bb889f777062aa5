-------------------------- MODULE WaveRunnerWorkers --------------------------
(***************************************************************************)
(* No worker is forgotten: a worker that runs has an open launch row, so    *)
(* some tick will look at it again.  Between a spawn and its receipt the     *)
(* ledger has nothing but a CLAIMED row, and CLAIMED and RECONCILING rows    *)
(* are what the handler of an error fails without asking for their workers  *)
(* (tickLiveWaves in src/core/run-supervisor.ts).  HeldInv says where such   *)
(* workers can be, and hence which errors are harmless.                      *)
(*                                                                         *)
(* The second part is why the verdict a gate reads is about the last plan:   *)
(* the code sees an event that a REVIEW was launched, and that none is open.  *)
(* FreshInv says that such a REVIEW had a worker, which has reviewed.         *)
(***************************************************************************)
EXTENDS WaveRunnerOrder

\* What a worker adapter answers is so: it finds the worker it spawned, it says when that
\* worker has ended and not before, it ends the worker it is told to, and no call rejects
\* between a spawn and its receipt.
Answered == ~AcpReview /\ Faults \cap {"lost", "inspect_error", "link_error", "cancel_fails"} = {}

\* If the process may die, then no error may hit the reconcile that follows: it would fail
\* the rows whose workers were not found yet.
Steady ==
    May("crash") =>
        ~May("land_throw") /\ Undisturbed /\ {"revise", "cancel"} \cap Commands = {}

\* A worker runs that no receipt tells of.
Drifting(k) == worker[k] = "running" /\ outbox[k] \in {"CLAIMED", "RECONCILING"}

\* Workers drift while their launch or their inspection is under way, and after a death until
\* the reconcile of the next process has found them.
Adrift ==
    \A k \in Key : Drifting(k) =>
        \/ phase = "dead" /\ May("crash")
        \/ phase = "reconcile" /\ May("crash") /\ k \in todo
        \/ step \in {"receipt", "recover", "inspect"} /\ k = item

Spawned == \A k \in Key : worker[k] # "none" => spawns[k] > 0

\* What is settled, or failed by the handler of an error, runs no more.
NotRunning ==
    /\ step \in {"settle", "commit"} => worker[item] # "running"
    /\ phase = "isolate" => \A k \in todo : worker[k] # "running"

\* Where rows are launched and where they are found again.
Places ==
    /\ step \in {"launch", "receipt"} => Dispatching
    /\ step = "receipt" => outbox[item] = "CLAIMED"
    /\ step \in {"recover", "inspect"} => phase = "reconcile"
    /\ phase = "reconcile" /\ step \in {"recover", "inspect", "settle", "commit"} =>
           outbox[item] = "RECONCILING"
    /\ phase = "reconcile" /\ step \in Landing => outbox[item] = "SETTLED"
    /\ phase = "reconcile" => \A k \in todo : outbox[k] # "PENDING"

HeldInv == Spawned /\ NoForgottenWorker /\ NotRunning /\ Adrift /\ Places

\* The next item of the same loop, when the row at hand is not adrift.
LEMMA LeaveHeld ==
    ASSUME LaunchInv, HeldInv, NEW k \in Key, Leave(k), step = "next" \/ item = k,
           \A l \in Key \ {k} : UNCHANGED <<worker[l], spawns[l], outbox[l]>>,
           worker'[k] # "none" => spawns'[k] > 0,
           worker'[k] = "running" => outbox'[k] \notin ClosedRow \cup {"CLAIMED", "RECONCILING"}
    PROVE  HeldInv'
<1>0. phase \in RowPhase => todo \subseteq Key
  BY DEF LaunchInv, TypeOK, TickTypeOK
<1>1. phase' = phase /\ todo' = todo \ {k} /\ step' = "next"
  BY DEF Leave, Goto
<1>2. Spawned' /\ NoForgottenWorker'
  BY DEF HeldInv, Spawned, NoForgottenWorker
<1>3. Adrift'
  <2> SUFFICES ASSUME NEW l \in Key, Drifting(l)'
               PROVE  \/ phase' = "dead" /\ May("crash")
                      \/ phase' = "reconcile" /\ May("crash") /\ l \in todo'
    BY DEF Adrift
  <2>1. l # k
    BY DEF Drifting
  <2>2. Drifting(l)
    BY <2>1 DEF Drifting
  <2> QED BY <1>1, <2>1, <2>2 DEF HeldInv, Adrift
<1>4. NotRunning'
  BY <1>0, <1>1 DEF HeldInv, NotRunning, RowPhase
<1>5. Places'
  BY <1>0, <1>1 DEF HeldInv, Places, RowPhase, Landing
<1> QED BY <1>2, <1>3, <1>4, <1>5 DEF HeldInv

\* The way to the handler, when no worker is adrift.
LEMMA ThrowHeld ==
    ASSUME HeldInv, Throw, UNCHANGED <<worker, spawns, outbox>>, \A l \in Key : ~Drifting(l)
    PROVE  HeldInv'
<1>1. phase' = "isolate" /\ todo' = RowsIn({"CLAIMED", "RECONCILING"}) /\ step' = "next"
  BY DEF Throw, Goto
<1>2. Spawned' /\ NoForgottenWorker' /\ Adrift'
  BY DEF HeldInv, Spawned, NoForgottenWorker, Adrift, Drifting
<1>3. NotRunning' /\ Places'
  BY <1>1 DEF NotRunning, Places, RowsIn, Drifting, Landing
<1> QED BY <1>2, <1>3 DEF HeldInv

\* A further step for the row at hand, in the same loop.
LEMMA StayHeld ==
    ASSUME LaunchInv, HeldInv, NEW k \in Key, UNCHANGED <<phase, todo>>, item' = k,
           step = "next" \/ item = k, phase # "isolate",
           \A l \in Key \ {k} : UNCHANGED <<worker[l], spawns[l], outbox[l]>>,
           worker'[k] # "none" => spawns'[k] > 0,
           worker'[k] = "running" => outbox'[k] \notin ClosedRow,
           Drifting(k)' => step' \in {"receipt", "recover", "inspect"},
           step' \in {"settle", "commit"} => worker'[k] # "running",
           phase = "reconcile" => outbox'[k] # "PENDING",
           step' \in {"launch", "receipt"} => Dispatching,
           step' = "receipt" => outbox'[k] = "CLAIMED",
           step' \in {"recover", "inspect"} => phase = "reconcile",
           phase = "reconcile" /\ step' \in {"recover", "inspect", "settle", "commit"} =>
               outbox'[k] = "RECONCILING",
           phase = "reconcile" /\ step' \in Landing => outbox'[k] = "SETTLED"
    PROVE  HeldInv'
<1>1. Spawned' /\ NoForgottenWorker'
  BY DEF HeldInv, Spawned, NoForgottenWorker
<1>2. Adrift'
  <2> SUFFICES ASSUME NEW l \in Key, Drifting(l)'
               PROVE  \/ phase' = "dead" /\ May("crash")
                      \/ phase' = "reconcile" /\ May("crash") /\ l \in todo'
                      \/ step' \in {"receipt", "recover", "inspect"} /\ l = item'
    BY DEF Adrift
  <2>1. CASE l = k
    BY <2>1
  <2>2. CASE l # k
    <3>1. Drifting(l)
      BY <2>2 DEF Drifting
    <3> QED BY <2>2, <3>1 DEF HeldInv, Adrift
  <2> QED BY <2>1, <2>2
<1>3. NotRunning'
  BY DEF NotRunning
<1>4. Places'
  <2>1. phase \in RowPhase => todo \subseteq Key
    BY DEF LaunchInv, TypeOK, TickTypeOK
  <2> QED BY <2>1 DEF HeldInv, Places, Dispatching, RowPhase
<1> QED BY <1>1, <1>2, <1>3, <1>4 DEF HeldInv

\* In a steady run nothing throws on behalf of an open row.
LEMMA NoThrow ==
    ASSUME May("crash"), Steady, LaunchInv, OrderInv, LiveInv, waveStatus \notin TerminalWave,
           NEW k \in OpenRows, NEW fatal
    PROVE  /\ ~RearmThrows(k, fatal) /\ k.stage # "UX_REVIEW"
           /\ \A settling : PlanDecision(k.ticket, settling) # "throw"
<1>1. Undisturbed /\ Revised = {} /\ k \in Rows /\ k.stage \in Stage
  BY DEF Steady, Revised, OpenRows, Rows, Key
<1>2. ticket[k.ticket] \in At(k.stage)
  BY DEF OrderInv, Matched, LiveInv, Working, Going
<1>3. TicketMayMove(ticket[k.ticket], Rearm(k.stage), FALSE)
  BY <1>1, <1>2 DEF At, Stage, Rearm, GateStage, TicketMayMove, TicketMoves, TicketStops,
                    TicketStatus
<1>4. \A settling : PlanDecision(k.ticket, settling) # "throw"
  BY DEF PlanDecision, ReviseOutcome, LiveInv
<1> QED BY <1>1, <1>3, <1>4 DEF RearmThrows, OrderInv, Reviewed

\* Reconcile, and the inspections after it.
LEMMA FindHeld ==
    ASSUME Answered, Steady, LaunchInv, RowsInv, HeldInv, May("crash") => OrderInv /\ LiveInv,
           NEW k \in Key,
           \/ ReconcileRow(k) \/ Recovered(k) \/ LostSpawn(k) \/ InspectReconciled(k)
           \/ ObserveRow(k)
    PROVE  HeldInv'
<1>0. /\ outbox \in [Key -> OutboxState \cup {"NONE"}] /\ RowPhase \cap Past = {}
      /\ k \in OpenRows
  <2>1. k \in OpenRows
    <3>1. CASE ReconcileRow(k) \/ ObserveRow(k)
      BY <3>1 DEF ReconcileRow, ObserveRow, RowsInv, Alive, RowPhase, Landing
    <3>2. CASE Recovered(k) \/ LostSpawn(k) \/ InspectReconciled(k)
      BY <3>2 DEF Recovered, LostSpawn, InspectReconciled, RowsInv, Alive, RowStep, Landing
    <3> QED BY <3>1, <3>2
  <2> QED BY <2>1 DEF LaunchInv, TypeOK, LedgerTypeOK, RowPhase, Past
<1>1. CASE ReconcileRow(k)
  <2>1. /\ phase = "reconcile" /\ step = "next" /\ UNCHANGED <<phase, todo, worker, spawns>>
        /\ item' = k /\ step' \in {"inspect", "recover"}
    BY <1>1 DEF ReconcileRow, Await, worldVars
  <2>2. outbox[k] \in {"CLAIMED", "LAUNCHED", "RECONCILING"}
    BY <1>0, <1>1, <2>1 DEF ReconcileRow, HeldInv, Places, OpenRows, Rows, ClosedRow, OutboxState
  <2>3. outbox' = [outbox EXCEPT ![k] = "RECONCILING"]
    BY <1>0, <1>1, <2>2 DEF ReconcileRow
  <2>4. outbox'[k] = "RECONCILING" /\ \A l \in Key \ {k} : outbox'[l] = outbox[l]
    BY <1>0, <2>3
  <2> QED BY <2>1, <2>4, StayHeld DEF HeldInv, Spawned, ClosedRow, Landing
<1>2. CASE Recovered(k)
  <2>1. step = "recover" /\ item = k /\ outbox[k] = "RECONCILING" /\ UNCHANGED <<worker, spawns>>
    BY <1>2 DEF Recovered, HeldInv, Places, worldVars
  <2>2. RowMayMove(outbox[k], "LAUNCHED")
    BY <2>1 DEF RowMayMove, OutboxMoves, OutboxState
  <2>3. Leave(k) /\ outbox' = [outbox EXCEPT ![k] = "LAUNCHED"]
    BY <1>2, <2>2 DEF Recovered, MarkLaunched
  <2>4. outbox'[k] = "LAUNCHED" /\ \A l \in Key \ {k} : outbox'[l] = outbox[l]
    BY <1>0, <2>3
  <2> QED BY <2>1, <2>3, <2>4, LeaveHeld DEF HeldInv, Spawned, ClosedRow
<1>3. CASE LostSpawn(k)
  <2>1. /\ step = "recover" /\ item = k /\ phase = "reconcile" /\ UNCHANGED <<worker, spawns>>
        /\ spawns[k] = 0 /\ FailOrThrow(k, FALSE)
    BY <1>3 DEF LostSpawn, Answered, May, HeldInv, Places, worldVars
  <2>2. worker[k] = "none"
    BY <2>1 DEF HeldInv, Spawned
  <2>3. CASE FailLaunchThrows(k, FALSE)
    <3>1. ~May("crash")
      BY <1>0, <2>1, <2>3, NoThrow DEF FailLaunchThrows, LiveInv, Over, RowPhase
    <3>2. \A l \in Key : ~Drifting(l)
      BY <2>1, <2>2, <3>1 DEF HeldInv, Adrift, Drifting
    <3>3. Throw /\ UNCHANGED outbox
      BY <2>1, <2>3 DEF FailOrThrow, rowVars
    <3> QED BY <2>1, <3>2, <3>3, ThrowHeld
  <2>4. CASE ~FailLaunchThrows(k, FALSE)
    <3>1. Leave(k) /\ \A l \in Key \ {k} : outbox'[l] = outbox[l]
      BY <1>0, <2>1, <2>4 DEF FailOrThrow, FailLaunch
    <3> QED BY <2>1, <2>2, <3>1, LeaveHeld
  <2> QED BY <2>3, <2>4
<1>4. CASE InspectReconciled(k) \/ ObserveRow(k)
  <2>1. /\ UNCHANGED <<worker, spawns>> /\ Inspected(k) /\ ~May("inspect_error")
        /\ phase # "isolate" /\ (step = "next" \/ item = k)
        /\ phase = "reconcile" => outbox[k] = "RECONCILING"
        /\ phase # "reconcile" => phase \in {"observe", "gateObserve"} /\ step = "next"
    BY <1>4 DEF InspectReconciled, ObserveRow, Answered, May, HeldInv, Places, worldVars
  <2>2. worker[k] = "running" => Truth(k) = "running"
    BY DEF Truth, ReviewFileDecides, Answered
  <2>3. ASSUME Truth(k) = "running", Leave(k),
               outbox' = IF outbox[k] = "RECONCILING" THEN [outbox EXCEPT ![k] = "LAUNCHED"]
                         ELSE outbox
        PROVE  HeldInv'
    <3>1. ~Drifting(k) \/ outbox[k] = "RECONCILING"
      <4>1. Drifting(k) => phase = "reconcile"
        BY <2>1 DEF HeldInv, Adrift
      <4> QED BY <2>1, <4>1
    <3>2. \A l \in Key \ {k} : outbox'[l] = outbox[l]
      BY <1>0, <2>3
    <3>3. worker[k] = "running" => outbox'[k] \notin ClosedRow \cup {"CLAIMED", "RECONCILING"}
      BY <1>0, <2>3, <3>1 DEF HeldInv, NoForgottenWorker, Drifting, ClosedRow
    <3> QED BY <2>1, <2>3, <3>2, <3>3, LeaveHeld DEF HeldInv, Spawned
  <2>4. ASSUME Truth(k) # "running", item' = k, step' = "settle", UNCHANGED <<outbox, phase, todo>>
        PROVE  HeldInv'
    <3>1. phase = "reconcile" => outbox'[k] = "RECONCILING"
      BY <2>1, <2>4
    <3> QED BY <2>1, <2>2, <2>4, <3>1, StayHeld DEF HeldInv, Spawned, Drifting, Landing
  <2> QED BY <2>1, <2>3, <2>4 DEF Inspected
<1> QED BY <1>1, <1>2, <1>3, <1>4

\* Dispatch.
LEMMA LaunchHeld ==
    ASSUME Answered, LaunchInv, RowsInv, HeldInv, NEW k \in Key,
           \/ ClaimRow(k) \/ PrepareError(k) \/ RefuseHandoff(k) \/ Spawn(k) \/ LaunchError(k)
           \/ StoreReceipt(k) \/ LinkError(k)
    PROVE  HeldInv'
<1>0. /\ outbox \in [Key -> OutboxState \cup {"NONE"}] /\ spawns \in [Key -> Nat]
      /\ worker \in [Key -> {"none", "running", "succeeded", "failed"}]
  BY DEF LaunchInv, TypeOK, LedgerTypeOK, WorldTypeOK
<1>1. phase \in {"dispatch", "gateDispatch"}
  BY DEF ClaimRow, PrepareError, RefuseHandoff, Spawn, LaunchError, StoreReceipt, LinkError,
         HeldInv, Places, Dispatching
<1>2. CASE ClaimRow(k)
  <2>1. /\ k \in todo /\ step = "next" /\ UNCHANGED <<worker, spawns>>
        /\ \A l \in Key \ {k} : outbox'[l] = outbox[l]
        /\ Leave(k) \/ (UNCHANGED <<phase, todo>> /\ item' = k /\ step' = "launch")
    BY <1>0, <1>2 DEF ClaimRow, Await, worldVars
  <2>2. worker[k] = "none"
    <3>1. outbox[k] = "PENDING"
      BY <1>1, <2>1 DEF LaunchInv, Hand, Unspawned, Dispatching
    <3>2. spawns[k] = 0
      BY <3>1 DEF LaunchInv, Hand, Unspawned
    <3> QED BY <3>2 DEF HeldInv, Spawned
  <2>3. CASE Leave(k)
    BY <2>1, <2>2, <2>3, LeaveHeld
  <2>4. CASE UNCHANGED <<phase, todo>> /\ item' = k /\ step' = "launch"
    BY <1>1, <2>1, <2>2, <2>4, StayHeld DEF Drifting, Dispatching
  <2> QED BY <2>1, <2>3, <2>4
<1>3. ASSUME step = "launch", item = k PROVE worker[k] = "none" /\ \A l \in Key : ~Drifting(l)
  BY <1>1, <1>3 DEF LaunchInv, Hand, Unspawned, HeldInv, Spawned, Adrift
<1>4. CASE PrepareError(k)
  BY <1>3, <1>4, ThrowHeld DEF PrepareError, ledgerVars, rowVars, worldVars
<1>5. CASE RefuseHandoff(k)
  <2>1. /\ step = "launch" /\ item = k /\ Leave(k) /\ UNCHANGED <<worker, spawns>>
        /\ \A l \in Key \ {k} : outbox'[l] = outbox[l]
    BY <1>0, <1>5 DEF RefuseHandoff, worldVars
  <2> QED BY <1>3, <2>1, LeaveHeld
<1>6. CASE Spawn(k)
  <2>1. /\ step = "launch" /\ item = k /\ item' = k /\ step' = "receipt"
        /\ UNCHANGED <<phase, todo, outbox>> /\ outbox[k] = "CLAIMED"
        /\ worker' = [worker EXCEPT ![k] = "running"] /\ spawns' = [spawns EXCEPT ![k] = @ + 1]
    BY <1>6 DEF Spawn, Await, ledgerVars, rowVars, LaunchInv, Hand, RowsInHand
  <2>2. /\ \A l \in Key \ {k} : worker'[l] = worker[l] /\ spawns'[l] = spawns[l]
        /\ spawns'[k] > 0
    BY <1>0, <2>1
  <2> QED BY <1>1, <2>1, <2>2, StayHeld DEF ClosedRow, Dispatching
<1>7. CASE LaunchError(k)
  <2>1. PICK fatal \in BOOLEAN : FailOrThrow(k, fatal)
    BY <1>7 DEF LaunchError, Deaths
  <2>2. step = "launch" /\ item = k /\ UNCHANGED <<worker, spawns>>
    BY <1>7 DEF LaunchError, worldVars
  <2>3. CASE FailLaunchThrows(k, fatal)
    BY <1>3, <2>1, <2>2, <2>3, ThrowHeld DEF FailOrThrow, rowVars
  <2>4. CASE ~FailLaunchThrows(k, fatal)
    <3>1. Leave(k) /\ \A l \in Key \ {k} : outbox'[l] = outbox[l]
      BY <1>0, <2>1, <2>4 DEF FailOrThrow, FailLaunch
    <3> QED BY <1>3, <2>2, <3>1, LeaveHeld
  <2> QED BY <2>3, <2>4
<1>8. CASE StoreReceipt(k)
  <2>1. step = "receipt" /\ item = k /\ outbox[k] = "CLAIMED" /\ UNCHANGED <<worker, spawns>>
    BY <1>8 DEF StoreReceipt, HeldInv, Places, worldVars
  <2>2. RowMayMove(outbox[k], "LAUNCHED")
    BY <2>1 DEF RowMayMove, OutboxMoves, OutboxState, IdleGate
  <2>3. Leave(k) /\ outbox' = [outbox EXCEPT ![k] = "LAUNCHED"]
    BY <1>8, <2>2 DEF StoreReceipt, MarkLaunched
  <2>4. outbox'[k] = "LAUNCHED" /\ \A l \in Key \ {k} : outbox'[l] = outbox[l]
    BY <1>0, <2>3
  <2> QED BY <2>1, <2>3, <2>4, LeaveHeld DEF HeldInv, Spawned, ClosedRow
<1>9. ~LinkError(k)
  BY DEF LinkError, May, Answered
<1> QED BY <1>2, <1>4, <1>5, <1>6, <1>7, <1>8, <1>9

\* The watchdog, and settling.
LEMMA SettleHeld ==
    ASSUME Answered, Steady, LaunchInv, RowsInv, HeldInv, May("crash") => OrderInv /\ LiveInv,
           NEW k \in Key,
           \/ CancelHung(k) \/ VerifyImpl(k) \/ SettleAgain(k) \/ SettleThrows(k)
           \/ SettleDeath(k) \/ SettlePlan(k) \/ SettleReview(k) \/ SettleImpl(k)
    PROVE  HeldInv'
<1>0. /\ outbox \in [Key -> OutboxState \cup {"NONE"}]
      /\ worker \in [Key -> {"none", "running", "succeeded", "failed"}]
  BY DEF LaunchInv, TypeOK, LedgerTypeOK, WorldTypeOK
<1>1. CASE CancelHung(k)
  <2>1. /\ phase = "watchdog" /\ step = "next" /\ UNCHANGED <<phase, todo, outbox, spawns>>
        /\ item' = k /\ step' = "settle"
        /\ worker' = [worker EXCEPT ![k] = IF @ = "running" THEN "failed" ELSE @]
    BY <1>1 DEF CancelHung, Answered, May, ledgerVars, rowVars
  <2>2. /\ worker'[k] # "running" /\ (worker'[k] # "none" => worker[k] # "none")
        /\ \A l \in Key \ {k} : worker'[l] = worker[l]
    BY <1>0, <2>1
  <2> QED BY <2>1, <2>2, StayHeld DEF HeldInv, Spawned, Drifting
<1>2. ASSUME step \in {"settle", "commit"}, item = k
      PROVE  /\ worker[k] # "running" /\ k \in OpenRows /\ phase \in RowPhase
             /\ phase # "isolate" /\ \A l \in Key : Drifting(l) => phase = "reconcile" /\ May("crash")
  <2>1. /\ phase \in RowPhase /\ k \in OpenRows /\ phase # "isolate"
    BY <1>2 DEF LaunchInv, TypeOK, TickTypeOK, RowStep, RowsInv, Alive, Landing
  <2> QED BY <1>2, <2>1 DEF HeldInv, NotRunning, Adrift, RowPhase
<1>3. CASE VerifyImpl(k)
  <2>1. /\ step = "settle" /\ item = k /\ step' = "commit" /\ item' = k
        /\ UNCHANGED <<phase, todo, outbox, worker, spawns>>
    BY <1>3 DEF VerifyImpl, ledgerVars, rowVars, worldVars
  <2> QED BY <1>2, <2>1, StayHeld DEF HeldInv, Spawned, Places, Drifting, Landing
<1>4. ~SettleAgain(k)
  BY <1>2 DEF SettleAgain, ReadyToSettle, OpenRows, ClosedRow
<1>5. CASE SettleThrows(k)
  <2>1. /\ step \in {"settle", "commit"} /\ item = k /\ Throw
        /\ UNCHANGED <<outbox, worker, spawns>>
    BY <1>5 DEF SettleThrows, ReadyToSettle, ledgerVars, rowVars, worldVars
  <2>2. ASSUME phase = "reconcile", May("crash") PROVE FALSE
    <3>1. outbox[k] = "RECONCILING"
      BY <2>1, <2>2 DEF HeldInv, Places
    <3>2. RowMayMove(outbox[k], "SETTLED")
      BY <3>1 DEF RowMayMove, OutboxMoves, OutboxState
    <3>3. waveStatus \notin TerminalWave
      BY <2>2 DEF LiveInv, Over, Past
    <3>4. /\ ~RearmThrows(k, Fatal) /\ k.stage # "UX_REVIEW"
          /\ PlanDecision(k.ticket, {k}) # "throw"
      BY <1>2, <2>1, <2>2, <3>3, NoThrow
    <3> QED BY <1>5, <3>2, <3>4 DEF SettleThrows
  <2> QED BY <1>2, <2>1, <2>2, ThrowHeld
<1>6. CASE SettleDeath(k) \/ SettlePlan(k) \/ SettleReview(k) \/ SettleImpl(k)
  <2>1. /\ step \in {"settle", "commit"} /\ item = k /\ AfterSettle(k)
        /\ outbox' = [outbox EXCEPT ![k] = "SETTLED"] /\ UNCHANGED <<worker, spawns>>
    BY <1>6 DEF SettleDeath, SettlePlan, SettleReview, SettleImpl, Settles, ReadyToSettle, CloseRow,
                worldVars
  <2>2. outbox'[k] = "SETTLED" /\ \A l \in Key \ {k} : outbox'[l] = outbox[l]
    BY <1>0, <2>1
  <2>3. CASE Leave(k)
    BY <1>2, <2>1, <2>2, <2>3, LeaveHeld DEF HeldInv, Spawned
  <2>4. CASE step' = "land" /\ UNCHANGED <<phase, todo, item>>
    BY <1>2, <2>1, <2>2, <2>4, StayHeld DEF HeldInv, Spawned, Drifting
  <2> QED BY <2>1, <2>3, <2>4 DEF AfterSettle
<1> QED BY <1>1, <1>3, <1>4, <1>5, <1>6

\* Closeout, and the handler.
LEMMA LandHeld ==
    ASSUME Steady, LaunchInv, RowsInv, HeldInv, NEW k \in Key,
           \/ CloseoutRow(k) \/ FinishFromProof(k) \/ DeferLand(k) \/ StartLand(k) \/ Land(k)
           \/ LandThrows(k) \/ RecordLand(k) \/ Isolate(k)
    PROVE  HeldInv'
<1>0. outbox \in [Key -> OutboxState \cup {"NONE"}]
  BY DEF LaunchInv, TypeOK, LedgerTypeOK
<1>1. ASSUME step \in Landing, item = k
      PROVE  /\ phase \in RowPhase /\ phase # "isolate" /\ ~Drifting(k)
             /\ \A l \in Key : Drifting(l) => phase = "reconcile" /\ May("crash")
  <2>1. phase \in RowPhase /\ phase # "isolate"
    BY <1>1 DEF LaunchInv, TypeOK, TickTypeOK, RowStep, RowsInv, Alive, Landing
  <2>2. \A l \in Key : Drifting(l) => phase = "reconcile" /\ May("crash")
    BY <1>1, <2>1 DEF HeldInv, Adrift, RowPhase, Landing
  <2>3. phase = "reconcile" => outbox[k] = "SETTLED"
    BY <1>1 DEF HeldInv, Places
  <2> QED BY <2>1, <2>2, <2>3 DEF Drifting
<1>2. CASE CloseoutRow(k)
  <2>1. /\ phase = "closeout" /\ step = "next" /\ UNCHANGED <<phase, todo, outbox, worker, spawns>>
        /\ item' = k /\ step' = "land"
    BY <1>2 DEF CloseoutRow, Await, ledgerVars, rowVars, worldVars
  <2>2. ~Drifting(k)
    BY <2>1 DEF HeldInv, Adrift
  <2> QED BY <2>1, <2>2, StayHeld DEF HeldInv, Spawned, NoForgottenWorker, Drifting
<1>3. CASE StartLand(k) \/ Land(k)
  <2>1. /\ step \in Landing /\ item = k /\ step' \in Landing /\ item' = k
        /\ UNCHANGED <<phase, todo, outbox, worker, spawns>>
    BY <1>3 DEF StartLand, Land, Landing, ledgerVars, rowVars, worldVars
  <2> QED BY <1>1, <2>1, StayHeld DEF HeldInv, Spawned, NoForgottenWorker, Places, Drifting, Landing
<1>4. CASE FinishFromProof(k) \/ DeferLand(k) \/ RecordLand(k)
  <2>1. /\ step \in Landing /\ item = k /\ Leave(k) /\ UNCHANGED <<outbox, worker, spawns>>
    BY <1>4 DEF FinishFromProof, DeferLand, RecordLand, Landing, ledgerVars, rowVars, worldVars
  <2> QED BY <1>1, <2>1, LeaveHeld DEF HeldInv, Spawned, NoForgottenWorker, Drifting
<1>5. CASE LandThrows(k)
  <2>1. /\ step \in Landing /\ item = k /\ Throw /\ UNCHANGED <<outbox, worker, spawns>>
        /\ ~May("crash")
    BY <1>5 DEF LandThrows, Landing, Steady, ledgerVars, rowVars, worldVars
  <2> QED BY <1>1, <2>1, ThrowHeld
<1>6. CASE Isolate(k)
  <2>1. /\ phase = "isolate" /\ step = "next" /\ k \in todo /\ worker[k] # "running"
        /\ UNCHANGED <<worker, spawns>>
    BY <1>6 DEF Isolate, RowsInv, Alive, HeldInv, NotRunning, worldVars
  <2>2. CASE FailLaunchThrows(k, FALSE)
    <3>1. UNCHANGED outbox /\ phase' = "escaped" /\ step' = "next"
      BY <1>6, <2>2 DEF Isolate, Goto, rowVars
    <3>2. \A l \in Key : ~Drifting(l)'
      BY <2>1, <3>1 DEF HeldInv, Adrift, Drifting
    <3> QED BY <2>1, <3>1, <3>2 DEF HeldInv, Spawned, NoForgottenWorker, NotRunning, Adrift, Places,
                                    Landing
  <2>3. CASE ~FailLaunchThrows(k, FALSE)
    <3>1. Leave(k) /\ \A l \in Key \ {k} : outbox'[l] = outbox[l]
      BY <1>0, <1>6, <2>3 DEF Isolate, FailLaunch
    <3> QED BY <2>1, <3>1, LeaveHeld DEF HeldInv, Spawned
  <2> QED BY <2>2, <2>3
<1> QED BY <1>2, <1>3, <1>4, <1>5, <1>6

\* The loops over tickets: no worker is adrift there, and a new row has none.
LEMMA TicketHeld ==
    ASSUME LaunchInv, HeldInv, NEW t \in Ticket, TicketAction(t)
    PROVE  HeldInv'
<1>1. /\ phase \in TicketPhase /\ step \notin RowStep /\ UNCHANGED <<worker, spawns>>
      /\ outbox \in [Key -> OutboxState \cup {"NONE"}]
  <2>1. phase \in TicketPhase /\ UNCHANGED <<worker, spawns>>
    BY DEF TicketAction, GateQueue, UxQueue, SkipTicket, GateAdmit, AdvanceImpl, AdvancePlan,
       PrimaryDirty, QueueImpl, QueuePlan, Queue, Advancing, worldVars, TicketPhase
  <2> QED BY <2>1 DEF LaunchInv, TypeOK, LedgerTypeOK, TickTypeOK, RowPhase, TicketPhase
<1>2. \A l \in Key : ~Drifting(l)
  BY <1>1 DEF HeldInv, Adrift, TicketPhase, RowStep
<1>3. CASE Throw /\ UNCHANGED outbox
  BY <1>1, <1>2, <1>3, ThrowHeld
<1>4. CASE phase' \in TicketPhase \cup {"complete", "unlaunchable"} /\ step' \in {"next", "dirty"}
  <2>1. \A l \in Key : outbox'[l] \in {outbox[l], "PENDING"}
    <3>1. UNCHANGED outbox \/ \E k : outbox' = [outbox EXCEPT ![k] = "PENDING"]
      BY TicketTouches DEF QueuedHere, InsertRow
    <3> QED BY <1>1, <3>1
  <2>2. NoForgottenWorker' /\ \A l \in Key : ~Drifting(l)'
    BY <1>1, <1>2, <2>1 DEF HeldInv, NoForgottenWorker, Drifting, ClosedRow
  <2>3. NotRunning' /\ Places'
    BY <1>4 DEF NotRunning, Places, TicketPhase, Landing
  <2> QED BY <1>1, <2>2, <2>3 DEF HeldInv, Spawned, Adrift
<1> QED BY <1>3, <1>4, TicketPlace

\* Where a loop starts or ends: after a death, the reconcile looks at every worker adrift.
LEMMA LoopHeld ==
    ASSUME LaunchInv, HeldInv, LoopEnd \/ TickBegin \/ Crash
    PROVE  HeldInv'
<1> USE DEF Goto
<1>1. UNCHANGED <<outbox, worker, spawns>>
  <2>1. UNCHANGED <<worker, spawns>>
    BY DEF LoopEnd, EndReconcile, EndDispatch, EndObserve, EndWatchdog, EndCloseout, EndGateQueue,
       EndUxQueue, EndGateObserve, EndGateAdmit, EndAdvance, FailUnlaunchable, EndTick, EndIsolate,
       TickBegin, Crash, worldVars
  <2> QED BY <2>1, RestTouches
<1>2. Spawned' /\ NoForgottenWorker' /\ \A l \in Key : Drifting(l)' <=> Drifting(l)
  BY <1>1 DEF HeldInv, Spawned, NoForgottenWorker, Drifting
<1>3. phase \notin RowPhase => step \notin RowStep
  BY DEF LaunchInv, TypeOK, TickTypeOK
<1>4. CASE TickBegin
  <2>1. /\ phase \in {"idle", "dead"} /\ phase' = "reconcile" /\ step' = "next"
        /\ todo' = RowsIn({"CLAIMED", "LAUNCHED", "RECONCILING"})
    BY <1>4 DEF TickBegin
  <2>2. \A l \in Key : Drifting(l) => May("crash") /\ l \in todo'
    BY <1>3, <2>1 DEF HeldInv, Adrift, Drifting, RowPhase, RowStep, RowsIn
  <2>3. Adrift' /\ NotRunning' /\ Places'
    BY <1>1, <1>2, <2>1, <2>2 DEF Adrift, NotRunning, Places, RowsIn, Landing
  <2> QED BY <1>2, <2>3 DEF HeldInv
<1>5. CASE Crash
  <2>1. May("crash") /\ phase' = "dead" /\ step' = "next"
    BY <1>5 DEF Crash, RestAs
  <2> QED BY <1>2, <2>1 DEF HeldInv, Adrift, NotRunning, Places, Landing
<1>6. CASE LoopEnd
  <2>1. step' = "next" /\ phase' \notin {"reconcile", "isolate"}
    BY <1>6 DEF LoopEnd, EndReconcile, EndDispatch, EndObserve, EndWatchdog, EndCloseout,
       EndGateQueue, EndUxQueue, EndGateObserve, EndGateAdmit, EndAdvance, FailUnlaunchable,
       EndTick, EndIsolate, EnterUxQueue, EnterQueue, PastGate, EnterAdvance, EnterPlans, RestAs
  <2>2. \A l \in Key : ~Drifting(l)
    <3>1. CASE EndReconcile
      BY <3>1 DEF EndReconcile, HeldInv, Adrift
    <3>2. CASE EndIsolate
      BY <1>3, <3>2 DEF EndIsolate, HeldInv, Adrift, Places, RowPhase, RowStep, Dispatching
    <3>3. CASE ~(EndReconcile \/ EndIsolate)
      <4>1. phase \notin {"dead", "reconcile"} /\ (step = "next" \/ phase \notin RowPhase)
        BY <1>6, <3>3 DEF LoopEnd, EndDispatch, EndObserve, EndWatchdog, EndCloseout, EndGateQueue,
           EndUxQueue, EndGateObserve, EndGateAdmit, EndAdvance, FailUnlaunchable, EndTick,
           Dispatching, Advancing, RowPhase
      <4> QED BY <1>3, <4>1 DEF HeldInv, Adrift, RowStep
    <3> QED BY <3>1, <3>2, <3>3
  <2> QED BY <1>2, <2>1, <2>2 DEF HeldInv, Adrift, NotRunning, Places, Landing
<1> QED BY <1>4, <1>5, <1>6

\* The operator touches no row and no worker, and workers only end.
LEMMA FrameHeld ==
    ASSUME LaunchInv, HeldInv,
           TickDeadline \/ Operator \/ (\E k \in Key : WorkerStep(k)) \/ UNCHANGED allVars
    PROVE  HeldInv'
<1>1. /\ UNCHANGED <<outbox, spawns, tickVars>>
      /\ \A l \in Key : \/ worker'[l] = worker[l]
                        \/ worker[l] = "running" /\ worker'[l] \in {"succeeded", "failed"}
  <2>1. UNCHANGED outbox
    BY RestTouches DEF allVars, vars, ledgerVars, rowVars
  <2>2. CASE Operator
    BY <2>1, <2>2 DEF Operator, Freeze, Start, Pause, Resume, SetWave, Approve, Revise, Judge,
       CancelWave, CancelTickets, CancelCrash, vars, worldVars
  <2>3. CASE TickDeadline \/ UNCHANGED allVars
    BY <2>1, <2>3 DEF TickDeadline, allVars, vars, worldVars
  <2>4. CASE \E k \in Key : WorkerStep(k)
    BY <2>1, <2>4 DEF WorkerStep, WriteReview, WorkerSucceeds, WorkerFails, WorkerEnds,
       LaunchInv, TypeOK, WorldTypeOK
  <2> QED BY <2>2, <2>3, <2>4
<1>2. \A l \in Key : /\ worker'[l] = "running" => worker[l] = "running"
                     /\ worker'[l] # "none" => worker[l] # "none"
  BY <1>1
<1>3. /\ phase' = phase /\ step' = step /\ todo' = todo /\ item' = item
      /\ \A l \in Key : Drifting(l)' => Drifting(l)
  BY <1>1, <1>2 DEF tickVars, Drifting
<1>4. Spawned' /\ NoForgottenWorker' /\ Adrift'
  BY <1>1, <1>2, <1>3 DEF HeldInv, Spawned, NoForgottenWorker, Adrift
<1>5. NotRunning' /\ Places'
  <2>1. /\ phase \in RowPhase => todo \subseteq Key
        /\ step \in RowStep => item \in Key
    BY DEF LaunchInv, TypeOK, TickTypeOK
  <2> QED BY <1>1, <1>2, <1>3, <2>1 DEF HeldInv, NotRunning, Places, RowPhase, RowStep, Dispatching
<1> QED BY <1>4, <1>5 DEF HeldInv

\* Every step preserves HeldInv.
LEMMA HeldStep ==
    ASSUME Answered, Steady, LaunchInv, RowsInv, HeldInv, May("crash") => OrderInv /\ LiveInv,
           [Next]_allVars
    PROVE  HeldInv'
<1>1. ASSUME NEW k \in Key, RowAction(k) PROVE HeldInv'
  BY <1>1, FindHeld, LaunchHeld, SettleHeld, LandHeld DEF RowAction
<1>2. ASSUME NEW t \in Ticket, TicketAction(t) PROVE HeldInv'
  BY <1>2, TicketHeld
<1>3. Ticker \/ TickerDies => HeldInv'
  BY <1>1, <1>2, LoopHeld, FrameHeld DEF Ticker, TickerDies, Tick
<1> QED BY <1>3, FrameHeld DEF Next

\* HeldInv holds at first.
LEMMA HeldInit == Init => HeldInv
  BY DEF Init, HeldInv, Spawned, NoForgottenWorker, NotRunning, Adrift, Drifting, Places, Landing

\* HeldInv holds of every reachable state.  Without deaths it rests on the launches and the
\* rows alone; with deaths, on the order in which what was begun is worked on too.
THEOREM HeldInvariant ==
    ASSUME Answered, Steady
    PROVE  Spec => []HeldInv
<1>1. CASE May("crash")
  <2>1. Undisturbed /\ "cancel" \notin Commands
    BY <1>1 DEF Steady
  <2>2. LaunchInv /\ RowsInv /\ OrderInv /\ LiveInv /\ HeldInv /\ [Next]_allVars => HeldInv'
    BY HeldStep
  <2>3. Spec => [](LaunchInv /\ RowsInv /\ OrderInv) /\ []LiveInv
    BY <2>1, OrderInvariant, LiveInvariant
  <2> QED BY <2>2, <2>3, HeldInit, PTL DEF Spec
<1>2. CASE ~May("crash")
  <2>1. LaunchInv /\ RowsInv /\ HeldInv /\ [Next]_allVars => HeldInv'
    BY <1>2, HeldStep
  <2> QED BY RowsInvariant, <2>1, HeldInit, PTL DEF Spec
<1> QED BY <1>1, <1>2

\* Every worker that still runs has an open row, whatever the operator does and however its
\* row's ticket ends, as long as the process lives and the adapter answers; and also across
\* deaths, where the reconcile of the next process meets no error.  Between a spawn and its
\* receipt the ledger knows the row only as CLAIMED, which is what the handler of an error
\* fails: Adrift says that no error can find such a row.
THEOREM WorkersHeld ==
    ASSUME Answered, Steady
    PROVE  Spec => []NoForgottenWorker
<1>1. HeldInv => NoForgottenWorker
  BY DEF HeldInv
<1> QED BY <1>1, HeldInvariant, PTL

----------------------------------------------------------------------------
(* The verdict the gate reads.                                               *)

\* Every REVIEW that is launched gets its worker, and the worker reviews before it ends: it
\* neither fails nor is it ended by the watchdog, and there is a slot for every stage of every
\* ticket, for the launch event is written whether or not a row was queued.
ReviewsAnswer ==
    /\ Answered
    /\ Faults \cap {"crash", "worker_fail", "launch_error", "hung", "no_verdict", "pool_full"} = {}
    /\ SlotCap >= Cardinality(Ticket \X Stage)

\* No worker fails, and what was spawned is there.
Unfailed == \A k \in Key : worker[k] # "failed" /\ (worker[k] = "none" => spawns[k] = 0)

\* A REVIEW that has no worker yet is still to be claimed, or was given up before it was
\* launched; either way its stage run reads as pending.
Unreviewed(k) == k.stage = "REVIEW" /\ spawns[k] = 0
Waits(k) ==
    /\ outbox[k] \in {"PENDING", "FAILED"} \/ (step = "launch" /\ item = k)
    /\ stageRun[k] = "PENDING"
Waiting == \A k \in Rows : Unreviewed(k) => Waits(k)

\* The rows that are looked at were claimed, and what settles had a worker.
Met ==
    /\ phase \in {"observe", "gateObserve", "isolate"} => \A k \in todo : outbox[k] # "PENDING"
    /\ phase = "watchdog" => todo = {}
    /\ step \in {"settle", "commit"} => worker[item] # "none"

\* No REVIEW is asked for before its plan is there, and after that it has reviewed or is
\* still to do so.
Asked(t) ==
    /\ \A n \in Attempt : <<t, "REVIEW", n>> \in hopLaunch => n <= LatestPlan(t)
    /\ LatestPlan(t) > 0 /\ HopLaunched(t, "REVIEW") =>
           \/ review[t]["REVIEW"].plan = LatestPlan(t)
           \/ \E k \in RowsOf(t, "REVIEW") : worker[k] \in {"none", "running"}

FreshInv == Unfailed /\ Waiting /\ Met /\ \A t \in Ticket : Asked(t)

\* The last of more plans is not earlier.
LEMMA PlanGrows ==
    ASSUME LaunchInv, LaunchInv', NEW t \in Ticket, Planned(t) \subseteq Planned(t)'
    PROVE  /\ {LatestPlan(t), LatestPlan(t)'} \subseteq Attempt \cup {0}
           /\ LatestPlan(t)' >= LatestPlan(t)
<1> DEFINE A == {0} \cup {k.attempt : k \in Planned(t)}
           B == {0} \cup {k.attempt : k \in Planned(t)'}
<1>1. LatestPlan(t) = Max(A) /\ LatestPlan(t)' = Max(B)
  BY DEF LatestPlan, Planned
<1>2. LatestPlan(t) \in Attempt \cup {0}
  BY LatestPlanType
<1>3. MaxRetries + 1 \in Nat
  BY LedgerAssumption
<1>4. A \in SUBSET (0 .. (MaxRetries + 1)) /\ B \in SUBSET (0 .. (MaxRetries + 1))
  BY <1>3 DEF Planned, RowsOf, Rows, Key, Attempt
<1>5. A # {} /\ B # {} /\ A \subseteq B
  OBVIOUS
<1> HIDE DEF A, B
<1>6. Max(A) \in A /\ Max(B) \in B /\ \A n \in B : n <= Max(B)
  BY <1>3, <1>4, <1>5, MaxOfBounded
<1>7. Max(B) \in Attempt \cup {0}
  <2>1. Max(B) \in 0 .. (MaxRetries + 1)
    BY <1>4, <1>6
  <2> QED BY <1>3, <2>1 DEF Attempt
<1>8. Max(A) \in B
  BY <1>5, <1>6
<1>9. Max(B) >= Max(A)
  BY <1>3, <1>4, <1>6, <1>8
<1> QED BY <1>1, <1>2, <1>7, <1>9

\* A REVIEW is queued only while none of the ticket is open, and then a slot is free.
LEMMA SlotIsFree ==
    ASSUME ReviewsAnswer, LaunchInv, Serial, NEW t \in Ticket, HopMissing(t, "REVIEW")
    PROVE  ~OwnSlotsFull
<1> DEFINE f == [k \in OpenRows |-> <<k.ticket, k.stage>>]
           T == Ticket \X Stage
<1>1. IsFiniteSet(T) /\ Cardinality(T) \in Nat
  <2>1. IsFiniteSet(Stage)
    <3>1. Stage = (({"PLAN"} \cup {"REVIEW"}) \cup {"UX_REVIEW"}) \cup {"IMPL"}
      BY DEF Stage
    <3> QED BY <3>1, FS_Singleton, FS_Union
  <2> QED BY <2>1, LedgerAssumption, FS_Product, FS_CardinalityType
<1>2. f \in Injection(OpenRows, T)
  <2>1. f \in [OpenRows -> T]
    BY DEF OpenRows, Rows, Key
  <2>2. ASSUME NEW k \in OpenRows, NEW l \in OpenRows, f[k] = f[l] PROVE k = l
    <3>1. k.ticket = l.ticket /\ k.stage = l.stage /\ k \in Rows /\ l \in Rows
      BY <2>2 DEF OpenRows
    <3>2. ~(k.attempt < l.attempt) /\ ~(l.attempt < k.attempt)
      BY <3>1 DEF OpenRows, Serial, AttemptsSerial
    <3>3. k.attempt \in Nat /\ l.attempt \in Nat /\ k \in Key /\ l \in Key
      BY <3>1, LedgerAssumption DEF Rows, Key, Attempt
    <3>4. k.attempt = l.attempt
      BY <3>2, <3>3
    <3> QED BY <3>1, <3>3, <3>4 DEF Key
  <2> HIDE DEF f, T
  <2> QED BY <2>1, <2>2 DEF Injection, IsInjective
<1>3. f \notin Surjection(OpenRows, T)
  <2> SUFFICES ASSUME f \in Surjection(OpenRows, T) PROVE FALSE
    OBVIOUS
  <2>1. <<t, "REVIEW">> \in T
    BY DEF Stage
  <2>2. PICK k \in OpenRows : f[k] = <<t, "REVIEW">>
    BY <2>1 DEF Surjection
  <2>3. k.ticket = t /\ k.stage = "REVIEW"
    BY <2>2
  <2> QED BY <2>2, <2>3, HopIsFree DEF GateStage
<1>4. Cardinality(OpenRows) \in Nat
  <2>1. OpenRows \in SUBSET Rows
    BY DEF OpenRows
  <2> QED BY <2>1, FS_Subset, FS_CardinalityType DEF LaunchInv, Books
<1> HIDE DEF f, T
<1>5. Cardinality(OpenRows) <= Cardinality(T) /\ Cardinality(OpenRows) # Cardinality(T)
  BY <1>1, <1>2, <1>3, FS_Injection
<1>6. SlotCap \in Nat /\ SlotCap >= Cardinality(T)
  BY LedgerAssumption DEF ReviewsAnswer, T
<1> QED BY <1>1, <1>4, <1>5, <1>6 DEF OwnSlotsFull

\* What happens to a ticket's REVIEW while no other is asked for.
LEMMA StaysAsked ==
    ASSUME LaunchInv, LaunchInv', NEW t \in Ticket, Asked(t), Planned(t) \subseteq Planned(t)',
           \A n : <<t, "REVIEW", n>> \in hopLaunch' <=> <<t, "REVIEW", n>> \in hopLaunch,
           review'[t]["REVIEW"].plan \in {review[t]["REVIEW"].plan, LatestPlan(t)},
           \A k \in RowsOf(t, "REVIEW") :
               /\ k \in Rows'
               /\ worker[k] \in {"none", "running"} =>
                      \/ worker'[k] \in {"none", "running"}
                      \/ review'[t]["REVIEW"].plan = LatestPlan(t)
    PROVE  Asked(t)'
<1>1. /\ LatestPlan(t) \in Nat /\ LatestPlan(t)' \in Nat /\ LatestPlan(t)' >= LatestPlan(t)
      /\ LatestPlan(t)' \in Attempt \cup {0} /\ Attempt \subseteq Nat
  BY PlanGrows, LedgerAssumption DEF Attempt
<1>2. ASSUME NEW n \in Attempt, <<t, "REVIEW", n>> \in hopLaunch' PROVE n <= LatestPlan(t)'
  BY <1>1, <1>2 DEF Asked
<1>3. ASSUME LatestPlan(t)' > 0, HopLaunched(t, "REVIEW")'
      PROVE  \/ review'[t]["REVIEW"].plan = LatestPlan(t)'
             \/ \E k \in RowsOf(t, "REVIEW")' : worker'[k] \in {"none", "running"}
  <2>1. <<t, "REVIEW", LatestPlan(t)'>> \in hopLaunch /\ LatestPlan(t)' \in Attempt
    BY <1>1, <1>3 DEF HopLaunched
  <2>2. LatestPlan(t)' = LatestPlan(t)
    BY <1>1, <2>1 DEF Asked
  <2>3. \/ review[t]["REVIEW"].plan = LatestPlan(t)
        \/ \E k \in RowsOf(t, "REVIEW") : worker[k] \in {"none", "running"}
    BY <1>3, <2>1, <2>2 DEF Asked, HopLaunched
  <2> QED BY <2>2, <2>3 DEF RowsOf
<1> QED BY <1>2, <1>3 DEF Asked

\* A step on behalf of row k is taken between two rows, or with k at hand.
LEMMA RowAtHand ==
    ASSUME LaunchInv, Alive, NEW k \in Key, RowAction(k)
    PROVE  step = "next" \/ item = k
<1>1. phase = "isolate" => step = "next"
  BY DEF Alive
<1> QED BY <1>1 DEF RowAction, ReconcileRow, Recovered, LostSpawn, InspectReconciled, ObserveRow,
         ClaimRow, PrepareError, RefuseHandoff, Spawn, LaunchError, StoreReceipt, LinkError,
         CancelHung, VerifyImpl, SettleAgain, SettleThrows, SettleDeath, SettlePlan,
         SettleReview, SettleImpl, Settles, ReadyToSettle, CloseoutRow, FinishFromProof,
         DeferLand, StartLand, Land, LandThrows, RecordLand, Isolate

\* Workers are started by spawning them, and by nothing else done for a row.
LEMMA RowWorks ==
    ASSUME ReviewsAnswer, LaunchInv, FreshInv, NEW k \in Key, RowAction(k)
    PROVE  /\ \A l \in Key \ {k} : UNCHANGED <<worker[l], spawns[l]>>
           /\ \/ UNCHANGED <<worker, spawns>>
              \/ Spawn(k) /\ worker'[k] = "running" /\ spawns'[k] > 0
<1>0. spawns \in [Key -> Nat] /\ worker \in [Key -> {"none", "running", "succeeded", "failed"}]
  BY DEF LaunchInv, TypeOK, WorldTypeOK
<1>1. CASE Spawn(k)
  <2>1. worker' = [worker EXCEPT ![k] = "running"] /\ spawns' = [spawns EXCEPT ![k] = @ + 1]
    BY <1>1 DEF Spawn
  <2> QED BY <1>0, <1>1, <2>1
<1>2. ~CancelHung(k)
  BY DEF CancelHung, FreshInv, Met
<1>3. CASE ~Spawn(k)
  <2>1. UNCHANGED <<worker, spawns>>
    BY <1>2, <1>3
       DEF RowAction, ReconcileRow, Recovered, LostSpawn, InspectReconciled, ObserveRow,
           ClaimRow, PrepareError, RefuseHandoff, LaunchError, StoreReceipt, LinkError,
           VerifyImpl, SettleAgain, SettleThrows, SettleDeath, SettlePlan, SettleReview,
           SettleImpl, CloseoutRow, FinishFromProof, DeferLand, StartLand, Land, LandThrows,
           RecordLand, Isolate, worldVars
  <2> QED BY <2>1
<1> QED BY <1>1, <1>3

\* A REVIEW without a worker is claimed, refused or passed over.
LEMMA OwnWaits ==
    ASSUME ReviewsAnswer, LaunchInv, RowsInv, HeldInv, FreshInv,
           NEW k \in Rows, RowAction(k), Unreviewed(k), ~Spawn(k)
    PROVE  Waits(k)'
<1>0. /\ outbox \in [Key -> OutboxState \cup {"NONE"}] /\ k \in Key
      /\ k.stage = "REVIEW" /\ spawns[k] = 0 /\ Waits(k) /\ Alive
      /\ step # "launch" \/ item # k => outbox[k] \in {"PENDING", "FAILED"}
  BY DEF LaunchInv, TypeOK, LedgerTypeOK, Unreviewed, FreshInv, Waiting, Waits, RowsInv, Rows
<1>1. worker[k] = "none"
  BY <1>0 DEF HeldInv, Spawned
<1>2. ASSUME k \in OpenRows, step # "launch" PROVE outbox[k] = "PENDING"
  BY <1>0, <1>2 DEF OpenRows, ClosedRow
<1>3. CASE ClaimRow(k)
  <2>1. outbox[k] = "PENDING"
    BY <1>3 DEF ClaimRow, LaunchInv, Hand, Unspawned
  <2> QED BY <1>0, <1>3, <2>1 DEF ClaimRow, Await, Waits
<1>4. ~ReconcileRow(k) /\ ~ObserveRow(k) /\ ~Isolate(k)
  BY <1>0, <1>2
     DEF ReconcileRow, ObserveRow, Isolate, Alive, RowPhase, Landing, HeldInv, Places, FreshInv, Met
<1>5. ~Recovered(k) /\ ~LostSpawn(k) /\ ~InspectReconciled(k) /\ ~StoreReceipt(k) /\ ~LinkError(k)
  BY <1>0 DEF Recovered, LostSpawn, InspectReconciled, StoreReceipt, LinkError, HeldInv, Places
<1>6. ~CancelHung(k) /\ ~LaunchError(k) /\ ~PrepareError(k) /\ ~RefuseHandoff(k) /\ ~VerifyImpl(k)
  BY <1>0 DEF CancelHung, LaunchError, PrepareError, RefuseHandoff, HandoffRefused, VerifyImpl,
              FreshInv, Met, ReviewsAnswer, May
<1>7. ~(SettleAgain(k) \/ SettleThrows(k) \/ SettleDeath(k) \/ SettlePlan(k) \/ SettleReview(k)
        \/ SettleImpl(k))
  BY <1>1 DEF SettleAgain, SettleThrows, SettleDeath, SettlePlan, SettleReview, SettleImpl,
              Settles, ReadyToSettle, FreshInv, Met
<1>8. CASE \/ CloseoutRow(k) \/ FinishFromProof(k) \/ DeferLand(k) \/ StartLand(k)
           \/ Land(k) \/ LandThrows(k) \/ RecordLand(k)
  <2>1. UNCHANGED <<outbox, stageRun>> /\ step # "launch"
    BY <1>8 DEF CloseoutRow, FinishFromProof, DeferLand, StartLand, Land, LandThrows, RecordLand,
                ledgerVars, rowVars
  <2> QED BY <1>0, <2>1 DEF Waits
<1> QED BY <1>3, <1>4, <1>5, <1>6, <1>7, <1>8 DEF RowAction

\* What comes to be settled had a worker: either it ended, or it is a REVIEW that was claimed
\* before and reads as done by its file.
LEMMA RowMet ==
    ASSUME ReviewsAnswer, LaunchInv, RowsInv, HeldInv, FreshInv, NEW k \in Key, RowAction(k)
    PROVE  Met'
<1>0. Alive /\ phase \in RowPhase /\ \A l \in Key : outbox[l] # "PENDING" => outbox'[l] # "PENDING"
  BY RowTouches, RowPlace DEF RowsInv, Touches
<1>1. /\ phase' \in {"observe", "gateObserve", "isolate"} =>
             \A l \in todo' : outbox'[l] # "PENDING"
      /\ phase' = "watchdog" => todo' = {}
  <2>1. CASE phase' = phase /\ todo' \subseteq todo
    <3>1. todo \subseteq Key
      BY <1>0 DEF LaunchInv, TypeOK, TickTypeOK
    <3> QED BY <1>0, <2>1, <3>1 DEF FreshInv, Met
  <2>2. CASE Throw /\ UNCHANGED outbox
    BY <2>2 DEF Throw, Goto, RowsIn
  <2>3. CASE phase' = "escaped"
    BY <2>3
  <2> QED BY <2>1, <2>2, <2>3, RowPlace DEF RowsInv, Leave, Goto
<1>2. CASE InspectReconciled(k) \/ ObserveRow(k)
  <2>1. k \in OpenRows /\ outbox[k] # "PENDING" /\ step \in {"next", "inspect"}
    <3>1. CASE InspectReconciled(k)
      BY <1>0, <3>1 DEF InspectReconciled, Alive, RowStep, Landing, HeldInv, Places
    <3>2. CASE ObserveRow(k)
      BY <1>0, <3>2 DEF ObserveRow, Alive, RowPhase, Landing, FreshInv, Met
    <3> QED BY <1>2, <3>1, <3>2
  <2>2. k.stage = "REVIEW" => spawns[k] # 0
    BY <2>1 DEF OpenRows, ClosedRow, FreshInv, Waiting, Unreviewed, Waits
  <2>3. Truth(k) \in {"succeeded", "failed"} => worker[k] # "none"
    BY <2>2 DEF Truth, ReviewFileDecides, FreshInv, Unfailed
  <2>4. UNCHANGED worker /\ Inspected(k)
    BY <1>2 DEF InspectReconciled, ObserveRow, worldVars
  <2>5. step' \in {"settle", "commit"} => worker'[item'] # "none"
    BY <2>3, <2>4 DEF Inspected, Leave, Throw, Goto
  <2> QED BY <1>1, <2>5 DEF Met
<1>3. CASE VerifyImpl(k)
  BY <1>1, <1>3 DEF VerifyImpl, FreshInv, Met, worldVars
<1>4. CASE ~(InspectReconciled(k) \/ ObserveRow(k) \/ VerifyImpl(k))
  <2>1. ~CancelHung(k)
    BY DEF CancelHung, FreshInv, Met
  <2>2. step' \notin {"settle", "commit"}
    <3>1. (Throw => step' = "next") /\ (Leave(k) => step' = "next")
          /\ (Goto("escaped", {}) => step' = "next")
      BY DEF Throw, Leave, Goto
    <3>2. CASE ReconcileRow(k) \/ ClaimRow(k) \/ Spawn(k) \/ CloseoutRow(k) \/ StartLand(k) \/ Land(k)
      BY <3>1, <3>2 DEF ReconcileRow, ClaimRow, Spawn, CloseoutRow, StartLand, Land, Await
    <3>3. CASE \/ Recovered(k) \/ LostSpawn(k) \/ PrepareError(k) \/ RefuseHandoff(k)
               \/ LaunchError(k) \/ StoreReceipt(k) \/ LinkError(k) \/ FinishFromProof(k)
               \/ DeferLand(k) \/ LandThrows(k) \/ RecordLand(k) \/ Isolate(k)
      BY <3>1, <3>3
         DEF Recovered, LostSpawn, PrepareError, RefuseHandoff, LaunchError, StoreReceipt,
             LinkError, FinishFromProof, DeferLand, LandThrows, RecordLand, Isolate, FailOrThrow
    <3>4. CASE \/ SettleAgain(k) \/ SettleThrows(k) \/ SettleDeath(k) \/ SettlePlan(k)
               \/ SettleReview(k) \/ SettleImpl(k)
      BY <3>1, <3>4
         DEF SettleAgain, SettleThrows, SettleDeath, SettlePlan, SettleReview, SettleImpl,
             AfterSettle
    <3> QED BY <1>4, <2>1, <3>2, <3>3, <3>4 DEF RowAction
  <2> QED BY <1>1, <2>2 DEF Met
<1> QED BY <1>2, <1>3, <1>4

\* Steps on behalf of a row.
LEMMA RowFresh ==
    ASSUME ReviewsAnswer, LaunchInv, LaunchInv', RowsInv, HeldInv, FreshInv,
           NEW k \in Key, RowAction(k)
    PROVE  FreshInv'
<1>0. /\ Rows' = Rows /\ Keeps(k) /\ UNCHANGED <<review, hopLaunch>>
      /\ spawns \in [Key -> Nat] /\ spawns' \in [Key -> Nat]
  BY RowCloses, RowKeeps, RowFiles DEF LaunchInv, TypeOK, WorldTypeOK
<1>1. Unfailed'
  BY RowWorks DEF FreshInv, Unfailed
<1>2. Waiting'
  <2> SUFFICES ASSUME NEW l \in Rows, Unreviewed(l)' PROVE Waits(l)'
    BY <1>0 DEF Waiting
  <2>0. l \in Key
    BY DEF Rows
  <2>1. Unreviewed(l) /\ Waits(l)
    <3>1. spawns'[l] = 0 => spawns[l] = 0
      BY <2>0, RowWorks
    <3> QED BY <3>1 DEF Unreviewed, FreshInv, Waiting
  <2>2. CASE l = k
    <3>1. ~Spawn(k)
      <4>1. Spawn(k) => spawns'[k] = spawns[k] + 1
        BY <1>0 DEF Spawn
      <4> QED BY <1>0, <2>2, <4>1 DEF Unreviewed
    <3> QED BY <2>1, <2>2, <3>1, OwnWaits
  <2>3. CASE l # k
    <3>1. outbox'[l] = outbox[l] /\ stageRun'[l] = stageRun[l]
      BY <1>0, <2>0, <2>3 DEF Keeps
    <3>2. ~(step = "launch" /\ item = l)
      BY <2>3, RowAtHand DEF RowsInv
    <3> QED BY <2>1, <3>1, <3>2 DEF Waits
  <2> QED BY <2>2, <2>3
<1>3. ASSUME NEW t \in Ticket PROVE Asked(t)'
  <2>1. Planned(t) \subseteq Planned(t)'
    <3> SUFFICES ASSUME NEW p \in Planned(t) PROVE stageRun'[p] = "SUCCEEDED"
      BY <1>0 DEF Planned, RowsOf
    <3>1. p \in Rows /\ p \in Key /\ stageRun[p] = "SUCCEEDED" /\ outbox[p] \in ClosedRow
      BY DEF Planned, RowsOf, Rows, RowsInv, Proven, ClosedRow
    <3> QED BY <1>0, <3>1 DEF Keeps
  <2>2. \A l \in RowsOf(t, "REVIEW") :
            /\ l \in Rows'
            /\ worker[l] \in {"none", "running"} => worker'[l] \in {"none", "running"}
    BY <1>0, RowWorks DEF RowsOf, Rows
  <2> QED BY <1>0, <2>1, <2>2, StaysAsked DEF FreshInv
<1> QED BY <1>1, <1>2, <1>3, RowMet DEF FreshInv

\* What a step on behalf of a ticket leaves alone, unless it queues a row.
LEMMA TicketRuns ==
    ASSUME NEW t \in Ticket, TicketAction(t)
    PROVE  /\ UNCHANGED worldVars /\ phase \in TicketPhase
           /\ UNCHANGED <<outbox, stageRun>> \/ \E s \in Stage : QueuedHere(t, s)
           /\ \/ UNCHANGED hopLaunch
              \/ hopLaunch' = hopLaunch \cup {<<t, "UX_REVIEW", LatestPlan(t)>>}
              \/ /\ hopLaunch' = hopLaunch \cup {<<t, "REVIEW", LatestPlan(t)>>}
                 /\ HopMissing(t, "REVIEW")
                 /\ QueuedHere(t, "REVIEW") \/ QueuedElsewhere(t, "REVIEW")
<1> USE DEF TicketPhase, ledgerVars, rowVars, gateVars, Stage
<1>1. CASE GateQueue(t)
  BY <1>1 DEF GateQueue, WantsReview, SkipTicket, Queue, QueuedElsewhere, HopQueued
<1>2. CASE UxQueue(t)
  BY <1>2 DEF UxQueue, SkipTicket, Queue, QueuedElsewhere, HopQueued
<1>3. CASE GateAdmit(t)
  BY <1>3 DEF GateAdmit, Decide
<1>4. CASE AdvanceImpl(t) \/ AdvancePlan(t) \/ PrimaryDirty(t)
  BY <1>4 DEF AdvanceImpl, AdvancePlan, PrimaryDirty, Advancing
<1>5. CASE QueueImpl(t) \/ QueuePlan(t)
  BY <1>5 DEF QueueImpl, QueuePlan, Queue, QueuedElsewhere
<1> QED BY <1>1, <1>2, <1>3, <1>4, <1>5 DEF TicketAction

\* The loops over tickets: with the launch event of a REVIEW comes its row.
LEMMA TicketFresh ==
    ASSUME ReviewsAnswer, LaunchInv, LaunchInv', RowsInv, HeldInv, FreshInv,
           NEW t \in Ticket, TicketAction(t)
    PROVE  FreshInv'
<1>0. /\ outbox \in [Key -> OutboxState \cup {"NONE"}] /\ stageRun \in [Key -> StageStatus \cup {"NONE"}]
      /\ UNCHANGED <<worker, spawns, review>> /\ phase \in TicketPhase /\ step \notin RowStep
  BY TicketRuns DEF LaunchInv, TypeOK, LedgerTypeOK, TickTypeOK, worldVars, RowPhase, TicketPhase
<1>1. ASSUME NEW s \in Stage, QueuedHere(t, s)
      PROVE  \E k \in Key : /\ k \notin Rows /\ k.ticket = t /\ k.stage = s /\ Rows' = Rows \cup {k}
                            /\ outbox'[k] = "PENDING" /\ stageRun'[k] = "PENDING"
                            /\ \A l \in Key \ {k} : outbox'[l] = outbox[l] /\ stageRun'[l] = stageRun[l]
  <2>1. PICK k : k = NextKey(t, s)
    OBVIOUS
  <2>2. k \in Key \ Rows /\ k.ticket = t /\ k.stage = s
    <3>1. NextKey(t, s) \in Key \ Rows
      BY <1>1, FreshKey DEF QueuedHere, MayAdmit, Denied, LaunchInv, Books
    <3> QED BY <2>1, <3>1 DEF NextKey
  <2>3. outbox' = [outbox EXCEPT ![k] = "PENDING"] /\ stageRun' = [stageRun EXCEPT ![k] = "PENDING"]
    BY <1>1, <2>1 DEF QueuedHere, InsertRow
  <2>4. /\ outbox'[k] = "PENDING" /\ stageRun'[k] = "PENDING"
        /\ \A l \in Key \ {k} : outbox'[l] = outbox[l] /\ stageRun'[l] = stageRun[l]
    BY <1>0, <2>2, <2>3
  <2>5. Rows' = Rows \cup {k}
    BY <2>2, <2>4 DEF Rows
  <2> QED BY <2>2, <2>4, <2>5
<1>2. \/ UNCHANGED <<outbox, stageRun>>
      \/ \E k \in Key : /\ Rows' = Rows \cup {k} /\ k \notin Rows
                        /\ outbox'[k] = "PENDING" /\ stageRun'[k] = "PENDING"
                        /\ \A l \in Key \ {k} : outbox'[l] = outbox[l] /\ stageRun'[l] = stageRun[l]
  BY <1>1, TicketRuns
<1>3. Unfailed'
  BY <1>0 DEF FreshInv, Unfailed
<1>4. Waiting'
  <2>1. \A l \in Rows : Unreviewed(l) => outbox[l] \in {"PENDING", "FAILED"} /\ stageRun[l] = "PENDING"
    BY <1>0 DEF FreshInv, Waiting, Waits, RowStep
  <2>2. \A l \in Rows' : \/ l \in Rows /\ outbox'[l] = outbox[l] /\ stageRun'[l] = stageRun[l]
                         \/ outbox'[l] = "PENDING" /\ stageRun'[l] = "PENDING"
    BY <1>2 DEF Rows
  <2> QED BY <1>0, <2>1, <2>2 DEF Waiting, Unreviewed, Waits
<1>5. Met'
  <2>1. CASE Throw /\ UNCHANGED outbox
    BY <2>1 DEF Throw, Goto, RowsIn, Met
  <2>2. CASE phase' \in TicketPhase \cup {"complete", "unlaunchable"} /\ step' \in {"next", "dirty"}
    BY <2>2 DEF Met, TicketPhase
  <2> QED BY <2>1, <2>2, TicketPlace
<1>6. ASSUME NEW u \in Ticket PROVE Asked(u)'
  <2>1. Rows \subseteq Rows' /\ Planned(u) \subseteq Planned(u)'
    <3>1. \A l \in Rows : l \in Rows' /\ stageRun'[l] = stageRun[l]
      BY <1>2 DEF Rows
    <3> QED BY <3>1 DEF Planned, RowsOf
  <2>2. ASSUME \A n : <<u, "REVIEW", n>> \in hopLaunch' <=> <<u, "REVIEW", n>> \in hopLaunch
        PROVE  Asked(u)'
    BY <1>0, <2>1, <2>2, StaysAsked DEF FreshInv, RowsOf
  <2>3. CASE \/ UNCHANGED hopLaunch \/ u # t
             \/ hopLaunch' = hopLaunch \cup {<<t, "UX_REVIEW", LatestPlan(t)>>}
    BY <2>2, <2>3, TicketRuns
  <2>4. CASE /\ u = t /\ hopLaunch' = hopLaunch \cup {<<t, "REVIEW", LatestPlan(t)>>}
             /\ HopMissing(t, "REVIEW")
             /\ QueuedHere(t, "REVIEW") \/ QueuedElsewhere(t, "REVIEW")
    <3>1. QueuedHere(t, "REVIEW")
      <4>1. ~OwnSlotsFull
        BY <2>4, SlotIsFree DEF RowsInv
      <4> QED BY <2>4, <4>1 DEF QueuedElsewhere, ReviewsAnswer, May
    <3>2. PICK k \in Key : /\ k \notin Rows /\ k.ticket = t /\ k.stage = "REVIEW" /\ k \in Rows'
      BY <1>1, <3>1 DEF Stage
    <3>3. worker'[k] = "none"
      BY <1>0, <3>2 DEF Rows, LaunchInv, Hand, Unspawned, HeldInv, Spawned
    <3>4. \A n \in Attempt : <<t, "REVIEW", n>> \in hopLaunch' => n <= LatestPlan(t)'
      <4>1. /\ LatestPlan(t) \in Nat /\ LatestPlan(t)' \in Nat /\ LatestPlan(t)' >= LatestPlan(t)
            /\ Attempt \subseteq Nat
        BY <2>1, <2>4, PlanGrows, LedgerAssumption DEF Attempt
      <4>2. \A n \in Attempt : <<t, "REVIEW", n>> \in hopLaunch' => n <= LatestPlan(t)
        BY <2>4, <4>1 DEF FreshInv, Asked
      <4> QED BY <4>1, <4>2
    <3> QED BY <2>4, <3>2, <3>3, <3>4 DEF Asked, RowsOf
  <2> QED BY <2>3, <2>4, TicketRuns
<1> QED BY <1>3, <1>4, <1>5, <1>6 DEF FreshInv

\* Steps that touch neither rows nor launch events.
LEMMA FrameAsked ==
    ASSUME LaunchInv, LaunchInv', FreshInv, UNCHANGED <<outbox, stageRun, hopLaunch>>,
           \A t \in Ticket :
               review'[t]["REVIEW"].plan \in {review[t]["REVIEW"].plan, LatestPlan(t)},
           \A k \in Key :
               \/ worker'[k] = worker[k]
               \/ worker'[k] = "succeeded" /\
                      (k.stage = "REVIEW" => review'[k.ticket]["REVIEW"].plan = LatestPlan(k.ticket))
    PROVE  \A t \in Ticket : Asked(t)'
<1> SUFFICES ASSUME NEW t \in Ticket PROVE Asked(t)'
  OBVIOUS
<1>1. Rows' = Rows
  BY DEF Rows
<1>2. Planned(t)' = Planned(t)
  BY <1>1 DEF Planned, RowsOf
<1>3. \A k \in RowsOf(t, "REVIEW") : k \in Key /\ k.stage = "REVIEW" /\ k.ticket = t /\ k \in Rows'
  BY <1>1 DEF RowsOf, Rows
<1> QED BY <1>2, <1>3, StaysAsked DEF FreshInv

\* Where a loop starts or ends.
LEMMA LoopFresh ==
    ASSUME ReviewsAnswer, LaunchInv, LaunchInv', RowsInv, FreshInv, LoopEnd \/ TickBegin
    PROVE  FreshInv'
<1> USE DEF Goto
<1>1. UNCHANGED <<outbox, stageRun, hopLaunch, review, worker, spawns>>
  BY DEF LoopEnd, EndReconcile, EndDispatch, EndObserve, EndWatchdog, EndCloseout, EndGateQueue,
     EndUxQueue, EndGateObserve, EndGateAdmit, EndAdvance, FailUnlaunchable, EndTick, EndIsolate,
     TickBegin, MaybeCompleteWave, ledgerVars, rowVars, gateVars, worldVars
<1>2. step # "launch" /\ step' = "next"
  <2>1. phase \notin RowPhase => step # "launch"
    BY DEF LaunchInv, TypeOK, TickTypeOK, RowStep
  <2>2. phase = "isolate" => step = "next"
    BY DEF RowsInv, Alive
  <2> QED BY <2>1, <2>2
     DEF LoopEnd, EndReconcile, EndDispatch, EndObserve, EndWatchdog, EndCloseout, EndGateQueue,
         EndUxQueue, EndGateObserve, EndGateAdmit, EndAdvance, FailUnlaunchable, EndTick,
         EndIsolate, TickBegin, EnterUxQueue, EnterQueue, PastGate, EnterAdvance, EnterPlans,
         RestAs, Advancing, RowPhase
<1>3. Unfailed'
  BY <1>1 DEF FreshInv, Unfailed
<1>4. Waiting'
  BY <1>1, <1>2 DEF FreshInv, Waiting, Unreviewed, Waits, Rows
<1>5. Met'
  <2>1. phase' \in {"observe", "gateObserve"} => todo' = RowsIn({"LAUNCHED"})
    BY DEF LoopEnd, EndReconcile, EndDispatch, EndObserve, EndWatchdog, EndCloseout,
       EndGateQueue, EndUxQueue, EndGateObserve, EndGateAdmit, EndAdvance, FailUnlaunchable,
       EndTick, EndIsolate, TickBegin, EnterUxQueue, EnterQueue, PastGate, EnterAdvance,
       EnterPlans, RestAs
  <2>2. phase' # "isolate" /\ (phase' = "watchdog" => EndObserve)
    BY DEF LoopEnd, EndReconcile, EndDispatch, EndObserve, EndWatchdog, EndCloseout,
       EndGateQueue, EndUxQueue, EndGateObserve, EndGateAdmit, EndAdvance, FailUnlaunchable,
       EndTick, EndIsolate, TickBegin, EnterUxQueue, EnterQueue, PastGate, EnterAdvance,
       EnterPlans, RestAs
  <2>3. EndObserve => todo' = {}
    BY DEF EndObserve, ReviewsAnswer, May
  <2> QED BY <1>1, <1>2, <2>1, <2>2, <2>3 DEF Met, RowsIn
<1>6. \A t \in Ticket : Asked(t)'
  BY <1>1, FrameAsked
<1> QED BY <1>3, <1>4, <1>5, <1>6 DEF FreshInv

\* The operator asks for no review, and a worker that reviews writes its file before it ends.
LEMMA FrameFresh ==
    ASSUME ReviewsAnswer, LaunchInv, LaunchInv', FreshInv,
           TickDeadline \/ Operator \/ (\E k \in Key : WorkerStep(k)) \/ UNCHANGED allVars
    PROVE  FreshInv'
<1>0. /\ worker \in [Key -> {"none", "running", "succeeded", "failed"}]
      /\ review \in [Ticket -> [GateStage -> ReviewFile]]
  BY DEF LaunchInv, TypeOK, WorldTypeOK
<1>1. UNCHANGED <<outbox, stageRun, hopLaunch, spawns, tickVars>>
  <2>1. CASE Operator
    BY <2>1 DEF Operator, Freeze, Start, Pause, Resume, SetWave, Approve, Revise, Judge, CancelWave,
       CancelTickets, CancelCrash, vars, ledgerVars, rowVars, gateVars, worldVars
  <2>2. CASE TickDeadline \/ UNCHANGED allVars
    BY <2>2 DEF TickDeadline, allVars, vars, ledgerVars, rowVars, gateVars, worldVars
  <2>3. CASE \E k \in Key : WorkerStep(k)
    BY <2>3 DEF WorkerStep, WriteReview, WorkerSucceeds, WorkerFails, WorkerEnds, ledgerVars,
       rowVars, gateVars
  <2> QED BY <2>1, <2>2, <2>3
<1>2. /\ \A t \in Ticket :
             review'[t]["REVIEW"].plan \in {review[t]["REVIEW"].plan, LatestPlan(t)}
      /\ \A k \in Key :
             \/ worker'[k] = worker[k]
             \/ /\ worker[k] = "running" /\ worker'[k] = "succeeded"
                /\ k.stage = "REVIEW" => review'[k.ticket]["REVIEW"].plan = LatestPlan(k.ticket)
  <2>1. CASE Operator
    BY <2>1 DEF Operator, Freeze, Start, Pause, Resume, SetWave, Approve, Revise, Judge, CancelWave,
       CancelTickets, CancelCrash, vars, worldVars
  <2>2. CASE TickDeadline \/ UNCHANGED allVars
    BY <2>2 DEF TickDeadline, allVars, vars, worldVars
  <2>3. ASSUME NEW k \in Key, NEW verdict \in Verdicts, WriteReview(k, verdict)
        PROVE  /\ UNCHANGED worker
               /\ \A t \in Ticket :
                      review'[t]["REVIEW"].plan \in {review[t]["REVIEW"].plan, LatestPlan(t)}
    BY <1>0, <2>3 DEF WriteReview, GateStage, Key
  <2>4. ASSUME NEW k \in Key, WorkerSucceeds(k)
        PROVE  /\ UNCHANGED review /\ worker[k] = "running"
               /\ worker' = [worker EXCEPT ![k] = "succeeded"]
               /\ k.stage = "REVIEW" => review[k.ticket]["REVIEW"].plan = LatestPlan(k.ticket)
    BY <2>4 DEF WorkerSucceeds, WorkerEnds, GateStage, ReviewsAnswer, May
  <2>5. ASSUME NEW k \in Key PROVE ~WorkerFails(k)
    BY DEF WorkerFails, ReviewsAnswer, May
  <2>6. CASE \E k \in Key : WorkerStep(k)
    BY <1>0, <2>3, <2>4, <2>5, <2>6 DEF WorkerStep
  <2> QED BY <2>1, <2>2, <2>6
<1>3. Unfailed'
  BY <1>1, <1>2 DEF FreshInv, Unfailed
<1>4. Waiting'
  BY <1>1 DEF FreshInv, Waiting, Unreviewed, Waits, Rows, tickVars
<1>5. Met'
  <2>1. phase \in RowPhase => todo \subseteq Key
    BY DEF LaunchInv, TypeOK, TickTypeOK
  <2>2. step \in {"settle", "commit"} => item \in Key
    BY DEF LaunchInv, TypeOK, TickTypeOK, RowStep
  <2> QED BY <1>1, <1>2, <2>1, <2>2 DEF FreshInv, Met, tickVars, RowPhase
<1>6. \A t \in Ticket : Asked(t)'
  BY <1>1, <1>2, FrameAsked
<1> QED BY <1>3, <1>4, <1>5, <1>6 DEF FreshInv

\* Every step preserves FreshInv.
LEMMA FreshStep ==
    ASSUME ReviewsAnswer, LaunchInv, RowsInv, HeldInv, FreshInv, [Next]_allVars
    PROVE  FreshInv'
<1>0. LaunchInv'
  BY StepType, BooksStep, HandStep DEF LaunchInv
<1>1. ~TickerDies
  BY DEF TickerDies, Crash, ReviewsAnswer, May
<1>2. Ticker => FreshInv'
  BY <1>0, RowFresh, TicketFresh, LoopFresh, FrameFresh DEF Ticker, Tick
<1> QED BY <1>0, <1>1, <1>2, FrameFresh DEF Next

\* FreshInv holds at first.
LEMMA FreshInit == Init => FreshInv
  BY DEF Init, FreshInv, Unfailed, Waiting, Rows, Met, Asked, HopLaunched

\* A REVIEW that is launched but has not reviewed keeps the gate waiting: it is not settled,
\* for then its worker would be over.
LEMMA FreshVerdict == LaunchInv /\ HeldInv /\ FreshInv => VerdictIsFresh
<1> SUFFICES ASSUME LaunchInv, HeldInv, FreshInv, NEW t \in Ticket,
                    PlanReviewReady(t, {k \in {item} : step = "settle" /\ truth = "succeeded"})
             PROVE  review[t]["REVIEW"].plan = LatestPlan(t)
  BY DEF VerdictIsFresh
<1> DEFINE settling == {k \in {item} : step = "settle" /\ truth = "succeeded"}
<1>1. ASSUME NEW k \in RowsOf(t, "REVIEW"), worker[k] \in {"none", "running"} PROVE FALSE
  <2>1. k \in Key /\ k \in Rows /\ k.stage = "REVIEW"
    BY DEF RowsOf, Rows
  <2>2. k \notin settling
    BY <1>1 DEF HeldInv, NotRunning, FreshInv, Met
  <2>3. CASE worker[k] = "none"
    BY <2>1, <2>2, <2>3 DEF PlanReviewReady, GateBusy, FreshInv, Unfailed, Waiting, Unreviewed, Waits
  <2>4. CASE worker[k] = "running"
    BY <2>1, <2>2, <2>4 DEF PlanReviewReady, GateBusy, HeldInv, NoForgottenWorker
  <2> QED BY <1>1, <2>3, <2>4
<1> QED BY <1>1 DEF PlanReviewReady, FreshInv, Asked

\* The verdict by which the gate admits or returns a plan is about that plan, although the
\* file is not stamped with it, in every order of revisions, approvals, cancels and pauses,
\* and whatever PLAN and IMPL meet.  The launch event of a REVIEW stands for its verdict:
\* that is sound if every event comes with a row, and every such row with a review.
THEOREM VerdictsFresh ==
    ASSUME ReviewsAnswer
    PROVE  Spec => []VerdictIsFresh
<1>1. Answered /\ Steady
  BY DEF ReviewsAnswer, Steady, May
<1>2. LaunchInv /\ RowsInv /\ HeldInv /\ FreshInv /\ [Next]_allVars => FreshInv'
  BY FreshStep
<1> QED BY <1>1, <1>2, FreshInit, FreshVerdict, HeldInvariant, RowsInvariant, PTL DEF Spec
=============================================================================
