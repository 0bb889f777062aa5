--------------------------- MODULE WaveRunnerRows ---------------------------
(***************************************************************************)
(* The rows and what they stand for.  First: attempts one at a time, one    *)
(* implementer per scope, DONE only what landed and landed only what was     *)
(* verified, for every value of the constants, so under every fault and      *)
(* every command.  RowsInv is the inductive invariant: what the ticker read  *)
(* before an await (the busy scopes, the rows of a ticket, the rows of a     *)
(* loop) is still true when it writes, because nobody but the ticker opens   *)
(* or closes a row.                                                         *)
(*                                                                         *)
(* Then: the records of an attempt, the reservations of a wave that is       *)
(* over, and the writer lease of a ticket that implements.  These are        *)
(* conditional: a cancel that finds a claimed row, and a refused handoff,    *)
(* fail the outbox row alone; a cancel command that dies between its         *)
(* transactions leaves reservations open; and a cancelled ticket that a late *)
(* settlement revives has lost its lease.                                   *)
(***************************************************************************)
EXTENDS WaveRunnerProofs

\* The steps of a closeout: the row at hand is settled, and its ticket lands.
Landing == {"land", "landing", "recordLand"}

\* What tickWave knows of open IMPL rows while it advances tickets.
BusyKnown ==
    /\ phase = "advanceImpl" =>
          \A k \in OpenRows : k.stage = "IMPL" => ScopeOf[k.ticket] \in busy
    /\ phase = "advanceImpl" /\ step = "dirty" => ScopeOf[item] \notin busy
    /\ phase = "advancePlan" /\ step = "dirty" => OpenRowsOf(item) = {}

\* The rows a loop has still to visit are open, and so is the one at hand until it settles.
Alive ==
    /\ phase = "isolate" => step = "next"
    /\ phase \in RowPhase \ {"closeout"} =>
          \A k \in todo : k \in OpenRows \/ (step \in Landing /\ item = k)
    /\ step \in RowStep \ Landing => item \in OpenRows

\* An IMPL of t succeeded: its work was fenced, verified and committed.
Verified(t) == \E k \in RowsOf(t, "IMPL") : stageRun[k] = "SUCCEEDED"

\* Only what was verified lands, and only what landed is DONE.
Proven ==
    /\ \A k \in Rows : stageRun[k] = "SUCCEEDED" => outbox[k] = "SETTLED"
    /\ \A t \in Ticket : ticket[t] = "VERIFYING" => Verified(t)
    /\ step \in Landing => Verified(item.ticket)
    /\ phase = "closeout" => \A k \in todo : Verified(k.ticket)
    /\ step = "recordLand" /\ truth = "succeeded" => item.ticket \in landed
    /\ DoneMeansLanded

Serial == AttemptsSerial /\ OneImplPerScope

RowsInv == Serial /\ BusyKnown /\ Alive /\ Proven

----------------------------------------------------------------------------
(* What a step may do to a row. *)

\* Row k alone is written, not at all if it is closed, and succeeds by being settled.
Keeps(k) ==
    /\ \A l \in Key \ {k} : outbox'[l] = outbox[l] /\ stageRun'[l] = stageRun[l]
    /\ outbox[k] \in ClosedRow => outbox'[k] = outbox[k] /\ stageRun'[k] = stageRun[k]
    /\ stageRun'[k] = "SUCCEEDED" => stageRun[k] = "SUCCEEDED" \/ outbox'[k] = "SETTLED"

\* No settlement, failure or late receipt writes to a row that is closed.
LEMMA RowKeeps ==
    ASSUME LaunchInv, NEW k \in Key, RowAction(k)
    PROVE  Keeps(k)
<1>0. /\ outbox \in [Key -> OutboxState \cup {"NONE"}]
      /\ stageRun \in [Key -> StageStatus \cup {"NONE"}]
  BY DEF LaunchInv, TypeOK, LedgerTypeOK
<1>1. CASE UNCHANGED <<outbox, stageRun>>
  BY <1>1 DEF Keeps
<1>2. CASE ReconcileRow(k) \/ ClaimRow(k) \/ RefuseHandoff(k)
  BY <1>0, <1>2 DEF ReconcileRow, ClaimRow, RefuseHandoff, Keeps, ClosedRow
<1>3. CASE InspectReconciled(k) \/ ObserveRow(k)
  BY <1>0, <1>3 DEF InspectReconciled, ObserveRow, Inspected, Keeps, ClosedRow
<1>4. CASE Recovered(k) \/ StoreReceipt(k)
  <2>1. UNCHANGED <<outbox, stageRun>> \/ (RowMayMove(outbox[k], "LAUNCHED") /\ MarkLaunched(k))
    BY <1>4 DEF Recovered, StoreReceipt, rowVars
  <2>2. RowMayMove(outbox[k], "LAUNCHED") => outbox[k] \notin ClosedRow
    BY DEF RowMayMove, OutboxMoves, OutboxState, ClosedRow, IdleGate
  <2> QED BY <1>0, <1>1, <2>1, <2>2 DEF MarkLaunched, Keeps
<1>5. CASE LostSpawn(k) \/ LaunchError(k) \/ Isolate(k)
  <2>1. UNCHANGED <<outbox, stageRun>> \/ \E fatal \in BOOLEAN : FailLaunch(k, fatal)
    BY <1>5 DEF LostSpawn, LaunchError, Isolate, FailOrThrow, Deaths, rowVars
  <2> QED BY <1>0, <1>1, <2>1 DEF FailLaunch, Keeps
<1>6. CASE SettleDeath(k) \/ SettlePlan(k) \/ SettleReview(k) \/ SettleImpl(k)
  <2>1. Settles(k) /\ (CloseRow(k, "FAILED") \/ CloseRow(k, "SUCCEEDED"))
    BY <1>6 DEF SettleDeath, SettlePlan, SettleReview, SettleImpl
  <2>2. outbox[k] \notin ClosedRow
    BY <2>1 DEF Settles, RowMayMove, OutboxMoves, OutboxState, ClosedRow
  <2> QED BY <1>0, <2>1, <2>2 DEF CloseRow, Keeps
<1> QED BY <1>1, <1>2, <1>3, <1>4, <1>5, <1>6
        DEF RowAction, PrepareError, Spawn, LinkError, CancelHung, VerifyImpl, SettleAgain,
            SettleThrows, CloseoutRow, FinishFromProof, DeferLand, StartLand, Land, LandThrows,
            RecordLand, ledgerVars, rowVars

\* The rows stay those there were, and none reopens.
LEMMA RowCloses ==
    ASSUME LaunchInv, NEW k \in Key, RowAction(k)
    PROVE  /\ Rows' = Rows /\ OpenRows' \subseteq OpenRows
           /\ \A l \in OpenRows \ {k} : l \in OpenRows'
           /\ \A t : Verified(t) /\ Proven => Verified(t)'
<1>1. Keeps(k) /\ Touches(k)
  BY RowKeeps, RowTouches
<1>2. Rows' = Rows
  BY <1>1 DEF Touches, Rows, OutboxState, LaunchInv, TypeOK, LedgerTypeOK
<1>3. OpenRows' \subseteq OpenRows /\ \A l \in OpenRows \ {k} : l \in OpenRows'
  BY <1>1, <1>2 DEF Keeps, OpenRows, Rows
<1>4. ASSUME NEW t, Verified(t), Proven PROVE Verified(t)'
  <2>1. PICK l \in RowsOf(t, "IMPL") : stageRun[l] = "SUCCEEDED"
    BY <1>4 DEF Verified
  <2>2. l \in Rows /\ outbox[l] = "SETTLED"
    BY <1>4, <2>1 DEF RowsOf, Proven
  <2>3. stageRun'[l] = "SUCCEEDED"
    BY <1>1, <2>1, <2>2 DEF Keeps, Rows, ClosedRow
  <2> QED BY <1>2, <2>1, <2>3 DEF Verified, RowsOf
<1> QED BY <1>2, <1>3, <1>4

\* The types of what the ledger and the review files say of tickets and rows.
LEMMA GateTypes ==
    ASSUME LaunchInv
    PROVE  /\ ticket \in [Ticket -> TicketStatus]
           /\ outbox \in [Key -> OutboxState \cup {"NONE"}]
           /\ stageRun \in [Key -> StageStatus \cup {"NONE"}]
           /\ revises \in [Ticket -> [GateStage -> Nat]]
           /\ review \in [Ticket -> [GateStage -> ReviewFile]]
  BY DEF LaunchInv, TypeOK, LedgerTypeOK, WorldTypeOK

\* The rows of the plans that succeeded: what latestPlanAttempt looks at.
Planned(t) == {p \in RowsOf(t, "PLAN") : stageRun[p] = "SUCCEEDED"}

\* The last plan is that of the last row that succeeded.
LEMMA PlannedLast ==
    ASSUME NEW t, Planned(t)' = Planned(t)
    PROVE  LatestPlan(t)' = LatestPlan(t)
<1>1. LatestPlan(t) = Max({0} \cup {k.attempt : k \in Planned(t)})
  BY DEF LatestPlan, Planned
<1>2. LatestPlan(t)' = Max({0} \cup {k.attempt : k \in Planned(t)'})
  BY DEF LatestPlan, Planned
<1> QED BY <1>1, <1>2

\* A step on behalf of a row lets a plan succeed only by settling it.
LEMMA RowPlanned ==
    ASSUME LaunchInv, Proven, NEW k \in Key, RowAction(k), ~SettlePlan(k)
    PROVE  \A t : Planned(t)' = Planned(t)
<1>1. Keeps(k) /\ Rows' = Rows
  BY RowKeeps, RowCloses
<1>2. ASSUME k.stage = "PLAN", k \in Rows
      PROVE  stageRun'[k] = "SUCCEEDED" <=> stageRun[k] = "SUCCEEDED"
  <2>1. CASE stageRun[k] = "SUCCEEDED"
    BY <1>1, <1>2, <2>1 DEF Proven, Keeps, ClosedRow
  <2>2. CASE UNCHANGED stageRun
    BY <2>2
  <2>3. CASE Recovered(k) \/ StoreReceipt(k)
    <3>1. stageRun' \in {stageRun, [stageRun EXCEPT ![k] = "RUNNING"]}
      BY <2>3 DEF Recovered, StoreReceipt, MarkLaunched, rowVars
    <3> QED BY <1>2, <2>1, <3>1, GateTypes
  <2>4. CASE LostSpawn(k) \/ LaunchError(k) \/ Isolate(k) \/ SettleDeath(k)
    <3>1. stageRun' \in {stageRun, [stageRun EXCEPT ![k] = "FAILED"]}
      BY <2>4 DEF LostSpawn, LaunchError, Isolate, FailOrThrow, FailLaunch, SettleDeath, CloseRow,
                  rowVars
    <3> QED BY <1>2, <2>1, <3>1, GateTypes
  <2>5. CASE SettleReview(k) \/ SettleImpl(k)
    BY <1>2, <2>5 DEF SettleReview, SettleImpl, GateStage
  <2> QED BY <2>2, <2>3, <2>4, <2>5
          DEF RowAction, ReconcileRow, InspectReconciled, ObserveRow, ClaimRow, PrepareError,
              RefuseHandoff, Spawn, LinkError, CancelHung, VerifyImpl, SettleAgain, SettleThrows,
              CloseoutRow, FinishFromProof, DeferLand, StartLand, Land, LandThrows, RecordLand,
              ledgerVars, rowVars
<1> QED BY <1>1, <1>2 DEF Planned, RowsOf, Keeps, Rows

\* A step on behalf of a row leaves review files alone, and writes revisions only to settle
\* a review.
LEMMA RowFiles ==
    ASSUME NEW k \in Key, RowAction(k)
    PROVE  /\ UNCHANGED <<review, hopLaunch>>
           /\ ~SettleReview(k) => UNCHANGED revises
<1> USE DEF ledgerVars, gateVars, worldVars
<1>1. CASE \/ ReconcileRow(k) \/ Recovered(k) \/ LostSpawn(k) \/ InspectReconciled(k)
           \/ ObserveRow(k) \/ ClaimRow(k) \/ PrepareError(k) \/ RefuseHandoff(k) \/ Spawn(k)
           \/ LaunchError(k) \/ StoreReceipt(k) \/ LinkError(k)
  BY <1>1 DEF ReconcileRow, Recovered, LostSpawn, InspectReconciled, ObserveRow, ClaimRow,
     PrepareError, RefuseHandoff, Spawn, LaunchError, StoreReceipt, LinkError
<1>2. CASE \/ CancelHung(k) \/ VerifyImpl(k) \/ SettleAgain(k) \/ SettleThrows(k)
           \/ SettleDeath(k) \/ SettlePlan(k) \/ SettleReview(k) \/ SettleImpl(k)
  BY <1>2 DEF CancelHung, VerifyImpl, SettleAgain, SettleThrows, SettleDeath, SettlePlan,
     PlanSettled, SettleReview, Decide, SettleImpl
<1>3. CASE \/ CloseoutRow(k) \/ FinishFromProof(k) \/ DeferLand(k) \/ StartLand(k)
           \/ Land(k) \/ LandThrows(k) \/ RecordLand(k) \/ Isolate(k)
  BY <1>3 DEF CloseoutRow, FinishFromProof, DeferLand, StartLand, Land, LandThrows, RecordLand,
     Isolate
<1> QED BY <1>1, <1>2, <1>3 DEF RowAction

\* A step on behalf of a row is one of the loops over rows, and stays there: on the row,
\* on to the next one, or into the handler of tickLiveWaves.
LEMMA RowPlace ==
    ASSUME LaunchInv, Alive, NEW k \in Key, RowAction(k)
    PROVE  /\ phase \in RowPhase
           /\ \/ Throw /\ UNCHANGED outbox
              \/ phase' = "escaped" /\ step' = "next"
              \/ Leave(k) /\ (step = "next" \/ item = k \/ phase = "isolate")
              \/ /\ UNCHANGED <<phase, todo>> /\ item' = k /\ (step = "next" \/ item = k)
                 /\ step' \in RowStep /\ phase # "isolate"
<1> USE DEF ledgerVars, rowVars, RowPhase, RowStep
<1>0. step \in RowStep => phase \in RowPhase /\ phase # "isolate"
  BY DEF LaunchInv, TypeOK, TickTypeOK, Alive
<1>1. CASE ReconcileRow(k) \/ ClaimRow(k) \/ CloseoutRow(k) \/ CancelHung(k)
  BY <1>1 DEF ReconcileRow, ClaimRow, CloseoutRow, CancelHung, Dispatching, Await
<1>2. CASE InspectReconciled(k) \/ ObserveRow(k)
  BY <1>0, <1>2 DEF InspectReconciled, ObserveRow, Inspected
<1>3. CASE Isolate(k)
  BY <1>3 DEF Isolate, Goto
<1>4. CASE \/ Recovered(k) \/ LostSpawn(k) \/ LaunchError(k) \/ StoreReceipt(k) \/ PrepareError(k)
           \/ LinkError(k) \/ RefuseHandoff(k) \/ SettleThrows(k) \/ FinishFromProof(k)
           \/ DeferLand(k) \/ LandThrows(k) \/ RecordLand(k)
  <2>1. item = k /\ step \in RowStep /\ (Leave(k) \/ (Throw /\ UNCHANGED outbox))
    BY <1>4 DEF Recovered, LostSpawn, LaunchError, StoreReceipt, PrepareError, LinkError,
       RefuseHandoff, SettleThrows, ReadyToSettle, FinishFromProof, DeferLand, LandThrows,
       RecordLand, FailOrThrow
  <2> QED BY <1>0, <2>1
<1>5. CASE Spawn(k) \/ VerifyImpl(k) \/ StartLand(k) \/ Land(k)
  BY <1>0, <1>5 DEF Spawn, VerifyImpl, StartLand, Land, Await
<1>6. CASE SettleAgain(k) \/ SettleDeath(k) \/ SettlePlan(k) \/ SettleReview(k) \/ SettleImpl(k)
  <2>1. item = k /\ step \in RowStep /\ AfterSettle(k)
    BY <1>6 DEF SettleAgain, SettleDeath, SettlePlan, SettleReview, SettleImpl, Settles,
                ReadyToSettle
  <2> QED BY <1>0, <2>1 DEF AfterSettle
<1> QED BY <1>1, <1>2, <1>3, <1>4, <1>5, <1>6 DEF RowAction

----------------------------------------------------------------------------
(* The rows of a loop stay open.                                             *)

\* Steps on behalf of a row keep the others of the loop alive, and settle only the row at
\* hand.
LEMMA RowAlive ==
    ASSUME LaunchInv, Alive, NEW k \in Key, RowAction(k)
    PROVE  Alive'
<1>0. /\ Keeps(k) /\ phase \in RowPhase /\ Rows' = Rows
      /\ \A l \in OpenRows \ {k} : l \in OpenRows'
  BY RowKeeps, RowPlace, RowCloses
<1>1. CASE Throw /\ UNCHANGED outbox
  BY <1>0, <1>1 DEF Throw, Goto, RowsIn, Alive, Landing, OpenRows, ClosedRow, RowStep, Rows
<1>2. CASE phase' = "escaped" /\ step' = "next"
  BY <1>2 DEF Alive, RowPhase, RowStep
<1>3. CASE Leave(k) /\ (step = "next" \/ item = k \/ phase = "isolate")
  <2>1. phase' = phase /\ todo' = todo \ {k} /\ step' = "next"
    BY <1>3 DEF Leave, Goto
  <2>2. ASSUME phase # "closeout", NEW l \in todo \ {k} PROVE l \in OpenRows'
    <3>1. l \in OpenRows
      BY <1>0, <1>3, <2>2 DEF Alive, Landing
    <3> QED BY <1>0, <3>1
  <2> QED BY <2>1, <2>2 DEF Alive, RowStep
<1>4. CASE /\ UNCHANGED <<phase, todo>> /\ item' = k /\ (step = "next" \/ item = k)
           /\ step' \in RowStep /\ phase # "isolate"
  <2>1. step' \notin Landing => k \in OpenRows'
    <3>1. CASE ReconcileRow(k) \/ ClaimRow(k)
      <4>1. k \in OpenRows /\ outbox \in [Key -> OutboxState \cup {"NONE"}]
        BY <3>1 DEF ReconcileRow, ClaimRow, Alive, RowPhase, Dispatching, Landing, LaunchInv,
                    TypeOK, LedgerTypeOK
      <4>2. outbox'[k] \in {"CLAIMED", "RECONCILING", outbox[k]}
        BY <1>4, <3>1, <4>1 DEF ReconcileRow, ClaimRow, Leave, Goto, RowStep
      <4> QED BY <1>0, <4>1, <4>2 DEF OpenRows, ClosedRow
    <3>2. CASE InspectReconciled(k) \/ ObserveRow(k)
      <4>1. k \in OpenRows
        BY <3>2 DEF InspectReconciled, ObserveRow, Alive, RowPhase, RowStep, Landing
      <4>2. UNCHANGED outbox
        BY <1>4, <3>2 DEF InspectReconciled, ObserveRow, Inspected, Leave, Goto, RowStep
      <4> QED BY <1>0, <4>1, <4>2 DEF OpenRows
    <3>3. CASE Spawn(k) \/ VerifyImpl(k) \/ CancelHung(k)
      <4>1. k \in OpenRows /\ UNCHANGED outbox
        BY <3>3 DEF Spawn, VerifyImpl, CancelHung, Alive, RowPhase, RowStep, Landing, ledgerVars,
                    rowVars
      <4> QED BY <1>0, <4>1 DEF OpenRows
    <3>4. CASE \/ SettleAgain(k) \/ SettleDeath(k) \/ SettlePlan(k) \/ SettleReview(k)
               \/ SettleImpl(k)
      BY <1>4, <3>4 DEF SettleAgain, SettleDeath, SettlePlan, SettleReview, SettleImpl, AfterSettle,
                        Leave, Goto, RowStep, Landing
    <3>5. CASE CloseoutRow(k) \/ StartLand(k) \/ Land(k)
      BY <3>5 DEF CloseoutRow, StartLand, Land, Await, Landing
    <3>6. CASE \/ Recovered(k) \/ LostSpawn(k) \/ LaunchError(k) \/ StoreReceipt(k)
               \/ PrepareError(k) \/ LinkError(k) \/ RefuseHandoff(k) \/ SettleThrows(k)
               \/ FinishFromProof(k) \/ DeferLand(k) \/ LandThrows(k) \/ RecordLand(k)
      <4>1. Leave(k) \/ Throw
        BY <3>6 DEF Recovered, LostSpawn, LaunchError, StoreReceipt, PrepareError, LinkError,
           RefuseHandoff, SettleThrows, FinishFromProof, DeferLand, LandThrows, RecordLand,
           FailOrThrow
      <4> QED BY <1>4, <4>1 DEF Leave, Throw, Goto, RowStep
    <3>7. CASE Isolate(k)
      BY <1>4, <3>7 DEF Isolate
    <3> QED BY <3>1, <3>2, <3>3, <3>4, <3>5, <3>6, <3>7 DEF RowAction
  <2>2. ASSUME phase # "closeout", NEW l \in todo
        PROVE  l \in OpenRows' \/ (step' \in Landing /\ l = k)
    <3>1. CASE l = k
      BY <2>1, <3>1
    <3>2. CASE l # k
      <4>1. l \in OpenRows
        BY <1>0, <1>4, <2>2, <3>2 DEF Alive, Landing
      <4> QED BY <1>0, <3>2, <4>1
    <3> QED BY <3>1, <3>2
  <2> QED BY <1>4, <2>1, <2>2 DEF Alive
<1> QED BY <1>1, <1>2, <1>3, <1>4, RowPlace

\* No other step leaves the ticker with a row at hand, or with one to visit that is closed.
LEMMA OtherAlive ==
    ASSUME LaunchInv, Alive,
           \/ \E t \in Ticket : TicketAction(t)
           \/ LoopEnd \/ TickBegin \/ TickDeadline \/ Crash
           \/ UNCHANGED <<outbox, phase, step, todo, item>>
    PROVE  Alive'
<1>1. ASSUME NEW t \in Ticket, TicketAction(t) PROVE Alive'
  <2>1. CASE phase' \in TicketPhase \cup {"complete", "unlaunchable"} /\ step' \in {"next", "dirty"}
    BY <2>1 DEF Alive, TicketPhase, RowPhase, RowStep
  <2>2. CASE Throw /\ UNCHANGED outbox
    BY <2>2 DEF Throw, Goto, RowsIn, Alive, Landing, OpenRows, ClosedRow, RowStep, Rows
  <2> QED BY <1>1, <2>1, <2>2, TicketPlace
<1>2. CASE UNCHANGED <<outbox, phase, step, todo, item>>
  BY <1>2 DEF Alive, OpenRows, Rows
<1>3. CASE LoopEnd \/ TickBegin \/ TickDeadline \/ Crash
  <2>1. UNCHANGED outbox
    BY <1>3, RestTouches
  <2>2. CASE TickDeadline
    BY <1>2, <2>1, <2>2 DEF TickDeadline, tickVars
  <2>3. CASE ~TickDeadline
    <3>1. /\ step' = "next" /\ phase' # "isolate"
          /\ phase' \in RowPhase \ {"closeout"} =>
                 todo' \subseteq RowsIn({"PENDING", "CLAIMED", "LAUNCHED", "RECONCILING"})
      <4> USE DEF Goto, RowPhase, RowsIn
      <4>1. CASE EndReconcile \/ EndDispatch \/ EndObserve \/ EndWatchdog \/ TickBegin
        BY <4>1 DEF EndReconcile, EndDispatch, EndObserve, EndWatchdog, TickBegin
      <4>2. CASE EndCloseout \/ EndGateQueue \/ EndUxQueue
        BY <4>2 DEF EndCloseout, EndGateQueue, EndUxQueue, EnterUxQueue, EnterQueue, PastGate,
                    EnterAdvance
      <4>3. CASE EndGateObserve \/ EndGateAdmit \/ EndAdvance \/ FailUnlaunchable
        BY <4>3 DEF EndGateObserve, EndGateAdmit, EndAdvance, EnterPlans, FailUnlaunchable
      <4>4. CASE EndTick \/ EndIsolate \/ Crash
        BY <4>4 DEF EndTick, EndIsolate, Crash, RestAs
      <4> QED BY <1>3, <2>3, <4>1, <4>2, <4>3, <4>4 DEF LoopEnd
    <3> QED BY <2>1, <3>1 DEF Alive, RowStep, Landing, OpenRows, Rows, RowsIn, ClosedRow
  <2> QED BY <2>2, <2>3
<1> QED BY <1>1, <1>2, <1>3

----------------------------------------------------------------------------
(* Attempts one at a time, and one implementer per scope.                    *)

\* An admission keeps both if it comes when no attempt of the stage, and for an IMPL no
\* IMPL of the scope, is open: queueStage itself does not look.
LEMMA InsertSerial ==
    ASSUME LaunchInv, Serial, NEW t \in Ticket, NEW s \in Stage, QueuedHere(t, s),
           \A l \in OpenRows : ~(l.ticket = t /\ l.stage = s),
           s = "IMPL" => \A l \in OpenRows : l.stage = "IMPL" => ScopeOf[l.ticket] # ScopeOf[t]
    PROVE  /\ Serial'
           /\ \E k \in Key : /\ k.ticket = t /\ k.stage = s
                             /\ Rows' = Rows \cup {k} /\ OpenRows' = OpenRows \cup {k}
<1>1. PICK k : k = NextKey(t, s)
  OBVIOUS
<1>2. k \in Key \ Rows /\ k.ticket = t /\ k.stage = s
  <2>1. NextKey(t, s) \in Key \ Rows
    BY FreshKey DEF QueuedHere, MayAdmit, Denied, LaunchInv, Books
  <2> QED BY <1>1, <2>1 DEF NextKey
<1>3. outbox' = [outbox EXCEPT ![k] = "PENDING"]
  BY <1>1 DEF QueuedHere, InsertRow
<1>4. outbox'[k] = "PENDING" /\ \A l \in Key \ {k} : outbox'[l] = outbox[l]
  BY <1>2, <1>3 DEF LaunchInv, TypeOK, LedgerTypeOK
<1>5. Rows' = Rows \cup {k} /\ OpenRows' = OpenRows \cup {k}
  <2>1. Rows' = Rows \cup {k}
    BY <1>2, <1>4 DEF Rows
  <2>2. OpenRows' = OpenRows \cup {k}
    BY <1>2, <1>4, <2>1 DEF OpenRows, Rows, ClosedRow
  <2> QED BY <2>1, <2>2
<1>6. AttemptsSerial'
  <2> SUFFICES ASSUME NEW l \in Rows', NEW m \in Rows', l.ticket = m.ticket, l.stage = m.stage,
                      l.attempt < m.attempt
               PROVE  outbox'[l] \in ClosedRow
    BY DEF AttemptsSerial
  <2>1. l \in Key /\ m \in Key
    BY DEF Rows
  <2>2. CASE l = k
    <3>1. m \in Rows /\ l.attempt \in 1 .. m.attempt
      BY <1>5, <2>1, <2>2, LedgerAssumption DEF Key, Attempt
    <3>2. [m EXCEPT !.attempt = l.attempt] = l
      BY <2>1 DEF Key
    <3> QED BY <1>2, <2>2, <3>1, <3>2 DEF LaunchInv, Books, NoGaps
  <2>3. CASE l # k
    <3>1. l \in Rows /\ outbox'[l] = outbox[l]
      BY <1>4, <1>5, <2>1, <2>3
    <3>2. CASE m = k
      BY <1>2, <3>1, <3>2 DEF OpenRows
    <3>3. CASE m # k
      BY <1>5, <3>1, <3>3 DEF Serial, AttemptsSerial
    <3> QED BY <3>2, <3>3
  <2> QED BY <2>2, <2>3
<1>7. OneImplPerScope'
  BY <1>2, <1>5 DEF OneImplPerScope, Serial
<1> QED BY <1>2, <1>5, <1>6, <1>7 DEF Serial

\* The gates ask for an open row just before they queue.
LEMMA HopIsFree ==
    ASSUME NEW t \in Ticket, NEW gate \in GateStage, HopMissing(t, gate)
    PROVE  \A l \in OpenRows : ~(l.ticket = t /\ l.stage = gate)
  BY DEF HopMissing, GateBusy, OpenRows, RowsOf

\* Steps on behalf of a ticket, action by action.
LEMMA TicketSerial ==
    ASSUME LaunchInv, Serial, BusyKnown, NEW t \in Ticket, TicketAction(t)
    PROVE  Serial' /\ BusyKnown'
<1>1. ASSUME UNCHANGED outbox PROVE Serial' /\ OpenRows' = OpenRows
  BY <1>1 DEF Serial, AttemptsSerial, OneImplPerScope, OpenRows, Rows
<1>2. CASE GateQueue(t) \/ UxQueue(t)
  <2>1. BusyKnown'
    BY <1>2 DEF GateQueue, UxQueue, SkipTicket, Queue, Leave, Throw, Goto, BusyKnown
  <2>2. ASSUME NEW s \in Stage, QueuedHere(t, s), s \in GateStage, HopMissing(t, s) PROVE Serial'
    BY <2>2, HopIsFree, InsertSerial DEF GateStage
  <2>3. \/ UNCHANGED outbox
        \/ QueuedHere(t, "REVIEW") /\ HopMissing(t, "REVIEW")
        \/ QueuedHere(t, "UX_REVIEW") /\ HopMissing(t, "UX_REVIEW")
    BY <1>2 DEF GateQueue, UxQueue, WantsReview, WantsUxReview, SkipTicket, Queue, QueuedElsewhere,
                ledgerVars, rowVars
  <2> QED BY <1>1, <2>1, <2>2, <2>3 DEF GateStage, Stage
<1>3. CASE GateAdmit(t) \/ AdvanceImpl(t) \/ AdvancePlan(t) \/ PrimaryDirty(t)
  <2>1. UNCHANGED outbox
    BY <1>3 DEF GateAdmit, AdvanceImpl, AdvancePlan, PrimaryDirty, ledgerVars, rowVars
  <2>2. OpenRowsOf(t)' = OpenRowsOf(t)
    BY <1>1, <2>1 DEF OpenRowsOf
  <2>3. CASE GateAdmit(t) \/ PrimaryDirty(t)
    <3>1. \/ phase' \in {"gateAdmit", "isolate"}
          \/ phase' = phase /\ step' = "next" /\ busy' = busy
      BY <2>3 DEF GateAdmit, PrimaryDirty, Leave, Throw, Goto, scratch
    <3> QED BY <1>1, <2>1, <3>1 DEF BusyKnown
  <2>4. CASE AdvanceImpl(t)
    <3>1. phase = "advanceImpl" /\ phase' = phase /\ busy' = busy
      BY <2>4 DEF AdvanceImpl, Leave, Goto, Await, scratch
    <3>2. step' = "next" \/ (item' = t /\ ScopeOf[t] \notin busy)
      BY <2>4 DEF AdvanceImpl, Leave, Goto, Await
    <3> QED BY <1>1, <2>1, <3>1, <3>2 DEF BusyKnown
  <2>5. CASE AdvancePlan(t)
    <3>1. CASE OpenRowsOf(t) # {}
      BY <1>1, <2>1, <2>5, <3>1 DEF AdvancePlan, Leave, Goto, BusyKnown
    <3>2. CASE OpenRowsOf(t) = {}
      <4>1. phase' = "advancePlan" /\ item' = t /\ OpenRowsOf(t)' = {}
        BY <2>2, <2>5, <3>2 DEF AdvancePlan, Await
      <4>2. OpenRowsOf(item)' = {}
        BY <4>1, <1>1, <2>1 DEF OpenRowsOf
      <4> QED BY <1>1, <2>1, <4>1, <4>2 DEF BusyKnown
    <3> QED BY <3>1, <3>2
  <2> QED BY <1>3, <2>3, <2>4, <2>5
<1>4. CASE QueueImpl(t)
  <2>1. ScopeOf[t] \notin busy /\ \A l \in OpenRows : l.stage = "IMPL" => ScopeOf[l.ticket] \in busy
    BY <1>4 DEF QueueImpl, BusyKnown
  <2>2. CASE QueuedHere(t, "IMPL") /\ phase' = phase /\ step' = "next" /\ busy' = busy \cup {ScopeOf[t]}
    <3>1. /\ \A l \in OpenRows : ~(l.ticket = t /\ l.stage = "IMPL")
          /\ \A l \in OpenRows : l.stage = "IMPL" => ScopeOf[l.ticket] # ScopeOf[t]
      BY <2>1
    <3>2. /\ Serial'
          /\ \E k \in Key : /\ k.ticket = t /\ k.stage = "IMPL"
                            /\ Rows' = Rows \cup {k} /\ OpenRows' = OpenRows \cup {k}
      BY <2>2, <3>1, InsertSerial DEF Stage
    <3> QED BY <1>4, <2>1, <2>2, <3>2 DEF BusyKnown, QueueImpl
  <2>3. CASE UNCHANGED outbox /\ step' = "next" /\ (phase' = "advanceImpl" => busy \subseteq busy')
    BY <1>1, <2>1, <2>3 DEF BusyKnown
  <2>4. \/ QueuedHere(t, "IMPL") /\ phase' = phase /\ step' = "next" /\ busy' = busy \cup {ScopeOf[t]}
        \/ UNCHANGED outbox /\ step' = "next" /\ (phase' = "advanceImpl" => busy \subseteq busy')
    BY <1>4 DEF QueueImpl, Queue, QueuedElsewhere, EnterPlans, Throw, Goto, rowVars
  <2> QED BY <2>2, <2>3, <2>4
<1>5. CASE QueuePlan(t)
  <2>1. \A l \in OpenRows : ~(l.ticket = t /\ l.stage = "PLAN")
    BY <1>5 DEF QueuePlan, BusyKnown, OpenRowsOf
  <2>2. BusyKnown'
    BY <1>5 DEF QueuePlan, Queue, Throw, Goto, BusyKnown
  <2>3. UNCHANGED outbox \/ QueuedHere(t, "PLAN")
    BY <1>5 DEF QueuePlan, Queue, QueuedElsewhere, rowVars
  <2>4. QueuedHere(t, "PLAN") => Serial'
    BY <2>1, InsertSerial DEF Stage
  <2> QED BY <1>1, <2>2, <2>3, <2>4
<1> QED BY <1>2, <1>3, <1>4, <1>5 DEF TicketAction

\* All other steps at most close a row, and the busy scopes are read when the loop starts.
LEMMA OtherSerial ==
    ASSUME LaunchInv, Serial, BusyKnown, Alive,
           \/ \E k \in Key : RowAction(k)
           \/ LoopEnd \/ TickBegin \/ TickDeadline \/ Crash
           \/ UNCHANGED <<outbox, phase, step, todo, item, busy>>
    PROVE  Serial' /\ BusyKnown'
<1>1. ASSUME UNCHANGED outbox
      PROVE  /\ Serial' /\ OpenRows' = OpenRows
             /\ OpenRowsOf(item)' = {l \in OpenRows : l.ticket = item'}
  BY <1>1 DEF Serial, AttemptsSerial, OneImplPerScope, OpenRows, OpenRowsOf, Rows
<1>2. ASSUME NEW k \in Key, RowAction(k) PROVE Serial' /\ BusyKnown'
  <2>1. Rows' = Rows /\ OpenRows' \subseteq OpenRows
    BY <1>2, RowCloses
  <2>2. \A l \in Rows : outbox[l] \in ClosedRow => outbox'[l] \in ClosedRow
    BY <2>1 DEF OpenRows
  <2>3. Serial'
    BY <2>1, <2>2 DEF Serial, AttemptsSerial, OneImplPerScope
  <2>4. phase' \in RowPhase \cup {"escaped"}
    BY <1>2, RowPlace DEF Throw, Leave, Goto, RowPhase
  <2> QED BY <2>3, <2>4 DEF BusyKnown, RowPhase
<1>3. CASE UNCHANGED <<outbox, phase, step, todo, item, busy>>
  BY <1>1, <1>3 DEF BusyKnown, OpenRowsOf
<1>4. CASE LoopEnd \/ TickBegin \/ TickDeadline \/ Crash
  <2>1. UNCHANGED outbox
    BY <1>4, RestTouches
  <2>2. CASE TickDeadline
    BY <1>3, <2>1, <2>2 DEF TickDeadline, tickVars, scratch
  <2>3. CASE ~TickDeadline
    <3>1. /\ step' = "next"
          /\ phase' = "advanceImpl" => \A k \in OpenRows : k.stage = "IMPL" => ScopeOf[k.ticket] \in busy'
      <4> USE DEF Goto
      <4>1. CASE EndReconcile \/ EndDispatch \/ EndObserve \/ EndWatchdog \/ TickBegin
        BY <4>1 DEF EndReconcile, EndDispatch, EndObserve, EndWatchdog, TickBegin
      <4>2. CASE EndCloseout \/ EndGateQueue \/ EndUxQueue
        BY <4>2 DEF EndCloseout, EndGateQueue, EndUxQueue, EnterUxQueue, EnterQueue, PastGate,
                    EnterAdvance
      <4>3. CASE EndGateObserve \/ EndGateAdmit \/ EndAdvance \/ FailUnlaunchable
        BY <4>3 DEF EndGateObserve, EndGateAdmit, EndAdvance, EnterPlans, FailUnlaunchable
      <4>4. CASE EndTick \/ EndIsolate \/ Crash
        BY <4>4 DEF EndTick, EndIsolate, Crash, RestAs
      <4> QED BY <1>4, <2>3, <4>1, <4>2, <4>3, <4>4 DEF LoopEnd
    <3> QED BY <1>1, <2>1, <3>1 DEF BusyKnown
  <2> QED BY <2>2, <2>3
<1> QED BY <1>2, <1>3, <1>4

----------------------------------------------------------------------------
(* DONE, landed, verified.                                                   *)

\* A step that writes to no row, whose new closeouts are of verified tickets, and which
\* makes no ticket VERIFYING or DONE.
LEMMA ProvenFrame ==
    ASSUME LaunchInv, Proven, UNCHANGED landed,
           Rows \subseteq Rows', \A l \in Rows : outbox'[l] = outbox[l] /\ stageRun'[l] = stageRun[l],
           \A l \in Rows' \ Rows : stageRun'[l] # "SUCCEEDED",
           \A t \in Ticket : ticket'[t] \in {"VERIFYING", "DONE"} => ticket'[t] = ticket[t],
           step' \in Landing => step = step' /\ item' = item /\ truth' = truth,
           phase' = "closeout" => \A k \in todo' : Verified(k.ticket)
    PROVE  Proven'
<1>1. ASSUME NEW t, Verified(t) PROVE Verified(t)'
  BY <1>1 DEF Verified, RowsOf
<1>2. \A k \in Rows' : stageRun'[k] = "SUCCEEDED" => outbox'[k] = "SETTLED"
  BY DEF Proven
<1>3. \A t \in Ticket : ticket'[t] = "VERIFYING" => Verified(t)'
  BY <1>1 DEF Proven
<1>4. step' \in Landing => Verified(item.ticket)' /\ Verified(item.ticket)
  BY <1>1 DEF Proven
<1>5. phase' = "closeout" => \A k \in todo' : Verified(k.ticket)'
  BY <1>1
<1>6. (step = "recordLand" /\ truth = "succeeded" => item.ticket \in landed)'
  BY DEF Proven, Landing
<1>7. DoneMeansLanded'
  BY <1>1 DEF Proven, DoneMeansLanded, Verified
<1>8. (step \in Landing => Verified(item.ticket))'
  BY <1>4 DEF Verified, RowsOf
<1> QED BY <1>2, <1>3, <1>5, <1>6, <1>7, <1>8 DEF Proven, Verified, RowsOf

\* Steps on behalf of a row: a ticket is VERIFYING once its IMPL has settled, lands because
\* it was, and is DONE because it landed.
LEMMA RowProven ==
    ASSUME LaunchInv, Alive, Proven, NEW k \in Key, RowAction(k)
    PROVE  Proven'
<1>0. /\ Keeps(k) /\ Rows' = Rows /\ k.ticket \in Ticket
      /\ \A t : Verified(t) => Verified(t)'
  BY RowKeeps, RowCloses DEF Key
<1> USE DEF Landing
<1>1. /\ ticket \in [Ticket -> TicketStatus] /\ stageRun \in [Key -> StageStatus \cup {"NONE"}]
      /\ outbox \in [Key -> OutboxState \cup {"NONE"}]
  BY DEF LaunchInv, TypeOK, LedgerTypeOK
<1>2. \A l \in Rows' : stageRun'[l] = "SUCCEEDED" => outbox'[l] = "SETTLED"
  <2> SUFFICES ASSUME NEW l \in Rows, stageRun'[l] = "SUCCEEDED" PROVE outbox'[l] = "SETTLED"
    BY <1>0
  <2>1. l \in Key
    BY DEF Rows
  <2> QED BY <1>0, <2>1 DEF Keeps, Proven, ClosedRow
<1>3. ASSUME UNCHANGED landed, \A t \in Ticket : ticket'[t] \in {"VERIFYING", "DONE"} => ticket'[t] = ticket[t],
             step' \notin Landing,
             phase' = "closeout" => phase = "closeout" /\ todo' \subseteq todo
      PROVE  Proven'
  <2>1. DoneMeansLanded'
    BY <1>0, <1>3 DEF Proven, DoneMeansLanded, Verified
  <2>2. phase' = "closeout" => \A l \in todo' : Verified(l.ticket)'
    BY <1>0, <1>3 DEF Proven
  <2>3. \A t \in Ticket : ticket'[t] = "VERIFYING" => Verified(t)'
    BY <1>0, <1>3 DEF Proven
  <2> QED BY <1>2, <1>3, <2>1, <2>2, <2>3 DEF Proven, Verified, RowsOf
<1>4. ASSUME UNCHANGED landed, step' \in Landing, item' = k, Verified(k.ticket)',
             \A t \in Ticket : ticket'[t] \in {"VERIFYING", "DONE"} =>
                                   ticket'[t] = ticket[t] \/ (t = k.ticket /\ ticket'[t] = "VERIFYING"),
             step' # "recordLand",
             phase' = "closeout" => phase = "closeout" /\ todo' \subseteq todo
      PROVE  Proven'
  <2>1. DoneMeansLanded'
    BY <1>0, <1>4 DEF Proven, DoneMeansLanded, Verified
  <2>2. phase' = "closeout" => \A l \in todo' : Verified(l.ticket)'
    BY <1>0, <1>4 DEF Proven
  <2>3. \A t \in Ticket : ticket'[t] = "VERIFYING" => Verified(t)'
    BY <1>0, <1>4 DEF Proven
  <2>4. Verified(item.ticket)'
    BY <1>4 DEF Verified, RowsOf
  <2> QED BY <1>2, <1>4, <2>1, <2>2, <2>3, <2>4 DEF Proven, Verified, RowsOf
\* Phase and step of a step that does not stay on its row.
<1>5. ASSUME Throw \/ Leave(k) \/ (Goto("escaped", {}))
      PROVE  step' \notin Landing /\ (phase' = "closeout" => phase = "closeout" /\ todo' \subseteq todo)
  BY <1>5 DEF Throw, Leave, Goto
<1>6. CASE \/ ReconcileRow(k) \/ Recovered(k) \/ InspectReconciled(k) \/ ObserveRow(k) \/ ClaimRow(k)
           \/ PrepareError(k) \/ RefuseHandoff(k) \/ Spawn(k) \/ StoreReceipt(k) \/ LinkError(k)
           \/ CancelHung(k) \/ VerifyImpl(k) \/ SettleThrows(k) \/ DeferLand(k) \/ LandThrows(k)
  <2>1. UNCHANGED <<ticket, landed>>
    BY <1>6 DEF ReconcileRow, Recovered, InspectReconciled, ObserveRow, ClaimRow, PrepareError,
       RefuseHandoff, Spawn, StoreReceipt, LinkError, CancelHung, VerifyImpl, SettleThrows,
       DeferLand, LandThrows, worldVars, ledgerVars
  <2>2. step' \notin Landing /\ (phase' = "closeout" => phase = "closeout" /\ todo' \subseteq todo)
    <3>1. \/ Throw \/ Leave(k)
          \/ UNCHANGED <<phase, todo>> /\ step' \notin Landing
      BY <1>6 DEF ReconcileRow, Recovered, InspectReconciled, ObserveRow, ClaimRow, PrepareError,
         RefuseHandoff, Spawn, StoreReceipt, LinkError, CancelHung, VerifyImpl, SettleThrows,
         DeferLand, LandThrows, Inspected, Await
    <3> QED BY <1>5, <3>1
  <2> QED BY <1>3, <2>1, <2>2
<1>7. CASE LostSpawn(k) \/ LaunchError(k) \/ Isolate(k)
  <2>1. /\ UNCHANGED landed
        /\ UNCHANGED ticket \/ \E fatal \in BOOLEAN : FailLaunch(k, fatal)
        /\ Throw \/ Leave(k) \/ Goto("escaped", {})
    BY <1>7 DEF LostSpawn, LaunchError, Isolate, FailOrThrow, Deaths, worldVars
  <2>2. \A t \in Ticket : ticket'[t] \in {"VERIFYING", "DONE"} => ticket'[t] = ticket[t]
    <3>1. \A fatal : DeathStatus(k, fatal) \notin {"VERIFYING", "DONE"}
      BY DEF DeathStatus, Rearm, GateStage, Key, Stage
    <3> QED BY <1>1, <2>1, <3>1 DEF FailLaunch
  <2> QED BY <1>3, <1>5, <2>1, <2>2
<1>8. CASE SettleDeath(k) \/ SettlePlan(k) \/ SettleReview(k)
  <2>1. UNCHANGED landed /\ Leave(k)
    BY <1>8 DEF SettleDeath, SettlePlan, SettleReview, AfterSettle, GateStage, worldVars
  <2>2. \A t \in Ticket : ticket'[t] \in {"VERIFYING", "DONE"} => ticket'[t] = ticket[t]
    <3>1. CASE SettleDeath(k)
      <4>1. DeathStatus(k, Fatal) \notin {"VERIFYING", "DONE"}
        BY DEF DeathStatus, Rearm, GateStage, Key, Stage
      <4> QED BY <1>1, <3>1, <4>1 DEF SettleDeath
    <3>2. CASE SettlePlan(k)
      <4>1. \A ok : PlanOutcome(k.ticket, ok)[1] \notin {"VERIFYING", "DONE"}
        BY DEF PlanOutcome
      <4> QED BY <1>1, <3>2, <4>1 DEF SettlePlan, PlanSettled
    <3>3. CASE SettleReview(k)
      BY <1>1, <3>3 DEF SettleReview, Decide
    <3> QED BY <1>8, <3>1, <3>2, <3>3
  <2> QED BY <1>3, <1>5, <2>1, <2>2
<1>9. CASE SettleAgain(k)
  BY <1>9 DEF SettleAgain, ReadyToSettle, Alive, RowStep, OpenRows, ClosedRow
<1>10. CASE SettleImpl(k)
  <2>1. /\ UNCHANGED landed /\ step' = "land" /\ item' = k /\ UNCHANGED <<phase, todo>>
        /\ ticket' = [ticket EXCEPT ![k.ticket] = "VERIFYING"]
    BY <1>10 DEF SettleImpl, Settles, ReadyToSettle, AfterSettle, worldVars
  <2>2. Verified(k.ticket)'
    <3>1. k \in Rows /\ k.stage = "IMPL"
      BY <1>10 DEF SettleImpl, Settles, ReadyToSettle, LaunchInv, Hand, RowsInHand
    <3>2. stageRun'[k] = "SUCCEEDED"
      BY <1>1, <1>10, <3>1 DEF SettleImpl, CloseRow, Rows
    <3> QED BY <1>0, <3>1, <3>2 DEF Verified, RowsOf
  <2> QED BY <1>1, <1>4, <2>1, <2>2
<1>11. CASE CloseoutRow(k) \/ StartLand(k)
  <2>1. /\ UNCHANGED <<ticket, landed, phase, todo>> /\ step' \in {"land", "landing"} /\ item' = k
        /\ Verified(k.ticket)
    BY <1>11 DEF CloseoutRow, StartLand, Await, Proven, ledgerVars, worldVars
  <2> QED BY <1>0, <1>4, <2>1
<1>12. CASE Land(k)
  <2>1. /\ UNCHANGED <<ticket, phase, todo>> /\ step' = "recordLand" /\ item' = k
        /\ item = k /\ Verified(k.ticket)
        /\ \/ landed' = landed \cup {k.ticket}
           \/ landed' = landed /\ truth' = "failed"
    BY <1>12 DEF Land, Proven, ledgerVars
  <2>2. DoneMeansLanded'
    <3>1. \A t \in landed' : t \in landed \/ t = k.ticket
      BY <2>1
    <3>2. \A t \in landed' : Verified(t)'
      BY <1>0, <2>1, <3>1 DEF Proven, DoneMeansLanded, Verified
    <3>3. \A t \in Ticket : ticket'[t] = "DONE" => t \in landed'
      BY <2>1 DEF Proven, DoneMeansLanded
    <3> QED BY <3>2, <3>3 DEF DoneMeansLanded, Verified
  <2>3. phase' = "closeout" => \A l \in todo' : Verified(l.ticket)'
    BY <1>0, <2>1 DEF Proven
  <2>4. \A t \in Ticket : ticket'[t] = "VERIFYING" => Verified(t)'
    BY <1>0, <2>1 DEF Proven
  <2>5. Verified(item.ticket)'
    BY <1>0, <2>1 DEF Verified, RowsOf
  <2> QED BY <1>2, <2>1, <2>2, <2>3, <2>4, <2>5 DEF Proven, Verified, RowsOf
<1>13. CASE FinishFromProof(k) \/ RecordLand(k)
  <2>1. UNCHANGED landed /\ Leave(k)
    BY <1>13 DEF FinishFromProof, RecordLand, worldVars
  <2>2. step' \notin Landing /\ (phase' = "closeout" => phase = "closeout" /\ todo' \subseteq todo)
    BY <1>5, <2>1
  <2>3. \/ ticket' = [ticket EXCEPT ![k.ticket] = "FAILED"]
        \/ ticket' = [ticket EXCEPT ![k.ticket] = "DONE"] /\ k.ticket \in landed
    BY <1>0, <1>13 DEF FinishFromProof, RecordLand, Proven, DoneMeansLanded
  <2>4. DoneMeansLanded'
    BY <1>0, <1>1, <2>1, <2>3 DEF Proven, DoneMeansLanded, Verified
  <2>5. phase' = "closeout" => \A l \in todo' : Verified(l.ticket)'
    BY <1>0, <2>2 DEF Proven
  <2>6. \A t \in Ticket : ticket'[t] = "VERIFYING" => Verified(t)'
    BY <1>0, <1>1, <2>3 DEF Proven
  <2> QED BY <1>2, <2>2, <2>4, <2>5, <2>6 DEF Proven, Verified, RowsOf
<1> QED BY <1>6, <1>7, <1>8, <1>9, <1>10, <1>11, <1>12, <1>13 DEF RowAction

\* No other step makes a ticket VERIFYING or DONE.
LEMMA OtherVerdict ==
    ASSUME LaunchInv,
           \/ \E t \in Ticket : TicketAction(t)
           \/ LoopEnd \/ TickBegin \/ TickDeadline \/ Crash
           \/ Operator \/ (\E k \in Key : WorkerStep(k)) \/ UNCHANGED allVars
    PROVE  /\ UNCHANGED landed
           /\ \A t \in Ticket : ticket'[t] \in {"VERIFYING", "DONE"} => ticket'[t] = ticket[t]
<1>0. ticket \in [Ticket -> TicketStatus]
  BY DEF LaunchInv, TypeOK, LedgerTypeOK
<1>1. ASSUME NEW t \in Ticket, TicketAction(t)
      PROVE  /\ UNCHANGED landed
             /\ \A u \in Ticket : ticket'[u] \in {"VERIFYING", "DONE"} => ticket'[u] = ticket[u]
  <2>1. UNCHANGED landed
    BY <1>1 DEF TicketAction, GateQueue, UxQueue, SkipTicket, GateAdmit, AdvanceImpl, AdvancePlan,
                PrimaryDirty, QueueImpl, QueuePlan, Queue, worldVars
  <2>2. CASE GateQueue(t) \/ UxQueue(t) \/ QueueImpl(t) \/ QueuePlan(t)
    <3>1. \/ UNCHANGED ticket \/ StopForBudget
          \/ \E s \in Stage : InsertRow(t, s)
      BY <2>2 DEF GateQueue, UxQueue, SkipTicket, QueueImpl, QueuePlan, Queue, QueuedHere,
                  QueuedElsewhere, Stage, ledgerVars
    <3> QED BY <1>0, <2>1, <3>1 DEF InsertRow, StopForBudget, StageTicketStatus
  <2>3. CASE GateAdmit(t)
    BY <1>0, <2>1, <2>3 DEF GateAdmit, Decide
  <2>4. CASE AdvanceImpl(t) \/ AdvancePlan(t) \/ PrimaryDirty(t)
    BY <1>0, <2>1, <2>4 DEF AdvanceImpl, AdvancePlan, PrimaryDirty, ledgerVars
  <2> QED BY <1>1, <2>1, <2>2, <2>3, <2>4 DEF TicketAction
<1>2. CASE LoopEnd \/ TickBegin \/ TickDeadline \/ Crash
  <2>1. UNCHANGED landed
    BY <1>2 DEF LoopEnd, EndReconcile, EndDispatch, EndObserve, EndWatchdog, EndCloseout, EndGateQueue,
         EndUxQueue, EndGateObserve, EndGateAdmit, EndAdvance, FailUnlaunchable, EndTick,
         EndIsolate, TickBegin, TickDeadline, Crash, worldVars
  <2>2. CASE FailUnlaunchable
    BY <1>0, <2>1, <2>2 DEF FailUnlaunchable
  <2>3. CASE EndTick
    BY <1>0, <2>1, <2>3 DEF EndTick, MaybeCompleteWave, DependentsFailed
  <2>4. CASE TickDeadline
    BY <1>0, <2>1, <2>4 DEF TickDeadline, StopForBudget
  <2>5. CASE ~(FailUnlaunchable \/ EndTick \/ TickDeadline)
    <3>1. UNCHANGED ticket
      BY <1>2, <2>5 DEF LoopEnd, EndReconcile, EndDispatch, EndObserve, EndWatchdog, EndCloseout,
         EndGateQueue, EndUxQueue, EndGateObserve, EndGateAdmit, EndAdvance, EndIsolate, TickBegin,
         Crash, ledgerVars
    <3> QED BY <2>1, <3>1
  <2> QED BY <2>2, <2>3, <2>4, <2>5
<1>3. CASE Operator
  <2>1. UNCHANGED landed
    BY <1>3 DEF Operator, Freeze, Start, Pause, Resume, SetWave, Approve, Revise, Judge, CancelWave,
              CancelTickets, CancelCrash, vars, worldVars
  <2>2. \/ UNCHANGED ticket
        \/ \E t \in Ticket : \/ ticket' = [ticket EXCEPT ![t] = "APPROVED"]
                             \/ ticket' = [ticket EXCEPT ![t] = "REVISING"]
        \/ CancelTickets
    BY <1>3 DEF Operator, Freeze, Start, Pause, Resume, SetWave, Approve, Revise, Judge, CancelWave,
              CancelCrash, vars, ledgerVars
  <2> QED BY <1>0, <2>1, <2>2 DEF CancelTickets
<1>4. ASSUME NEW k \in Key, WorkerStep(k) PROVE UNCHANGED <<ticket, landed>>
  BY <1>4 DEF WorkerStep, WriteReview, WorkerSucceeds, WorkerFails, WorkerEnds, ledgerVars
<1>5. CASE UNCHANGED allVars
  BY <1>5 DEF allVars, vars, ledgerVars, worldVars
<1> QED BY <1>1, <1>2, <1>3, <1>4, <1>5

\* The closeout loop starts from VERIFYING tickets; nothing else touches what is proven.
LEMMA OtherProven ==
    ASSUME LaunchInv, Proven,
           \/ \E t \in Ticket : TicketAction(t)
           \/ LoopEnd \/ TickBegin \/ TickDeadline \/ Crash
           \/ Operator \/ (\E k \in Key : WorkerStep(k)) \/ UNCHANGED allVars
    PROVE  Proven'
<1>0. /\ UNCHANGED landed
      /\ \A t \in Ticket : ticket'[t] \in {"VERIFYING", "DONE"} => ticket'[t] = ticket[t]
  BY OtherVerdict
<1>1. /\ Rows \subseteq Rows' /\ \A l \in Rows : outbox'[l] = outbox[l] /\ stageRun'[l] = stageRun[l]
      /\ \A l \in Rows' \ Rows : stageRun'[l] # "SUCCEEDED"
  <2>1. CASE UNCHANGED <<outbox, stageRun>>
    BY <2>1 DEF Rows
  <2>2. ASSUME NEW t \in Ticket, NEW s \in Stage, QueuedHere(t, s)
        PROVE  /\ Rows \subseteq Rows'
               /\ \A l \in Rows : outbox'[l] = outbox[l] /\ stageRun'[l] = stageRun[l]
               /\ \A l \in Rows' \ Rows : stageRun'[l] # "SUCCEEDED"
    <3>1. PICK k : k = NextKey(t, s)
      OBVIOUS
    <3>2. k \in Key \ Rows
      BY <2>2, <3>1, FreshKey DEF QueuedHere, MayAdmit, Denied, LaunchInv, Books
    <3>3. outbox' = [outbox EXCEPT ![k] = "PENDING"] /\ stageRun' = [stageRun EXCEPT ![k] = "PENDING"]
      BY <2>2, <3>1 DEF QueuedHere, InsertRow
    <3> QED BY <3>2, <3>3 DEF Rows, LaunchInv, TypeOK, LedgerTypeOK
  <2>3. ASSUME NEW t \in Ticket, TicketAction(t)
        PROVE  UNCHANGED <<outbox, stageRun>> \/ \E s \in Stage : QueuedHere(t, s)
    BY <2>3 DEF TicketAction, GateQueue, UxQueue, SkipTicket, GateAdmit, AdvanceImpl, AdvancePlan,
         PrimaryDirty, QueueImpl, QueuePlan, Queue, QueuedElsewhere, Stage, ledgerVars, rowVars
  <2>4. CASE LoopEnd \/ TickBegin \/ TickDeadline \/ Crash
    BY <2>1, <2>4 DEF LoopEnd, EndReconcile, EndDispatch, EndObserve, EndWatchdog, EndCloseout,
         EndGateQueue, EndUxQueue, EndGateObserve, EndGateAdmit, EndAdvance, FailUnlaunchable,
         EndTick, EndIsolate, TickBegin, TickDeadline, Crash, ledgerVars, rowVars
  <2>5. CASE Operator
    BY <2>1, <2>5 DEF Operator, Freeze, Start, Pause, Resume, SetWave, Approve, Revise, Judge,
         CancelWave, CancelTickets, CancelCrash, vars, ledgerVars, rowVars
  <2>6. CASE (\E k \in Key : WorkerStep(k)) \/ UNCHANGED allVars
    BY <2>1, <2>6 DEF WorkerStep, WriteReview, WorkerSucceeds, WorkerFails, WorkerEnds, allVars,
         vars, ledgerVars, rowVars
  <2> QED BY <2>1, <2>2, <2>3, <2>4, <2>5, <2>6
<1>2. /\ step' \in Landing => step = step' /\ item' = item /\ truth' = truth
      /\ phase' = "closeout" => \A k \in todo' : Verified(k.ticket)
  <2> USE DEF Landing
  <2>1. CASE UNCHANGED tickVars
    BY <2>1 DEF tickVars, Proven
  <2>2. ASSUME NEW t \in Ticket, TicketAction(t)
        PROVE  step' \notin Landing /\ phase' # "closeout"
    BY <2>2, TicketPlace DEF Throw, Goto, TicketPhase
  <2>3. CASE LoopEnd \/ TickBegin \/ Crash
    <3>1. CASE EndWatchdog
      <4>1. \A k \in todo' : k.ticket \in {u \in Ticket : ticket[u] = "VERIFYING"}
        <5> DEFINE Last(t) == Max({1} \cup {r.attempt : r \in {l \in RowsOf(t, "IMPL") :
                                                                   outbox[l] = "SETTLED"}})
        <5>1. todo' = {[ticket |-> t, stage |-> "IMPL", attempt |-> Last(t)] :
                           t \in {u \in Ticket : ticket[u] = "VERIFYING"}}
          BY <3>1 DEF EndWatchdog, Goto
        <5> HIDE DEF Last
        <5> QED BY <5>1
      <4> QED BY <3>1, <4>1 DEF EndWatchdog, Goto, Proven
    <3>2. CASE EndReconcile \/ EndDispatch \/ EndObserve \/ TickBegin
      BY <3>2 DEF EndReconcile, EndDispatch, EndObserve, TickBegin, Goto
    <3>3. CASE EndCloseout \/ EndGateQueue \/ EndUxQueue
      BY <3>3 DEF EndCloseout, EndGateQueue, EndUxQueue, EnterUxQueue, EnterQueue, PastGate,
                  EnterAdvance, Goto
    <3>4. CASE EndGateObserve \/ EndGateAdmit \/ EndAdvance \/ FailUnlaunchable
      BY <3>4 DEF EndGateObserve, EndGateAdmit, EndAdvance, EnterPlans, FailUnlaunchable, Goto
    <3>5. CASE EndTick \/ EndIsolate \/ Crash
      BY <3>5 DEF EndTick, EndIsolate, Crash, RestAs, Goto
    <3> QED BY <2>3, <3>1, <3>2, <3>3, <3>4, <3>5 DEF LoopEnd
  <2>4. CASE TickDeadline \/ UNCHANGED allVars
    BY <2>1, <2>4 DEF TickDeadline, allVars, vars
  <2>5. CASE Operator
    BY <2>1, <2>5 DEF Operator, Freeze, Start, Pause, Resume, SetWave, Approve, Revise, Judge,
         CancelWave, CancelTickets, CancelCrash, vars
  <2>6. CASE \E k \in Key : WorkerStep(k)
    BY <2>1, <2>6 DEF WorkerStep, WriteReview, WorkerSucceeds, WorkerFails, WorkerEnds
  <2> QED BY <2>2, <2>3, <2>4, <2>5, <2>6
<1> QED BY <1>0, <1>1, <1>2, ProvenFrame

----------------------------------------------------------------------------
(* The theorems about rows and landings.                                     *)

\* Every step preserves RowsInv.
LEMMA RowsStep ==
    ASSUME LaunchInv, RowsInv, [Next]_allVars
    PROVE  RowsInv'
<1> USE DEF RowsInv
<1>1. ASSUME NEW k \in Key, RowAction(k) PROVE RowsInv'
  BY <1>1, RowAlive, RowProven, OtherSerial
<1>2. ASSUME NEW t \in Ticket, TicketAction(t) PROVE RowsInv'
  BY <1>2, OtherAlive, OtherProven, TicketSerial
<1>3. CASE LoopEnd \/ TickBegin \/ TickDeadline \/ Crash
  BY <1>3, OtherAlive, OtherProven, OtherSerial
<1>4. CASE Operator \/ (\E k \in Key : WorkerStep(k)) \/ UNCHANGED allVars
  <2>1. UNCHANGED <<outbox, phase, step, todo, item, busy>>
    <3>1. CASE Operator
      BY <3>1, RestTouches
         DEF Operator, Freeze, Start, Pause, Resume, SetWave, Approve, Revise, Judge, CancelWave,
             CancelTickets, CancelCrash, vars, tickVars, scratch
    <3>2. CASE (\E k \in Key : WorkerStep(k)) \/ UNCHANGED allVars
      BY <3>2 DEF WorkerStep, WriteReview, WorkerSucceeds, WorkerFails, WorkerEnds, allVars, vars,
                  ledgerVars, rowVars, tickVars, scratch
    <3> QED BY <1>4, <3>1, <3>2
  <2> QED BY <1>4, <2>1, OtherAlive, OtherProven, OtherSerial
<1>5. Ticker \/ TickerDies => RowsInv'
  BY <1>1, <1>2, <1>3 DEF Ticker, TickerDies, Tick
<1> QED BY <1>4, <1>5 DEF Next

\* RowsInv holds at first.
LEMMA RowsInit == Init => RowsInv
<1> SUFFICES ASSUME Init PROVE RowsInv
  OBVIOUS
<1>1. Rows = {} /\ OpenRows = {}
  BY DEF Init, Rows, OpenRows
<1>2. Serial
  BY <1>1 DEF Serial, AttemptsSerial, OneImplPerScope
<1>3. BusyKnown /\ Alive
  BY <1>1 DEF Init, BusyKnown, Alive, RowPhase, RowStep
<1>4. Proven
  BY <1>1 DEF Init, Proven, DoneMeansLanded, Landing
<1> QED BY <1>2, <1>3, <1>4 DEF RowsInv

\* Together with LaunchInv, RowsInv is inductive.
THEOREM RowsInvariant == Spec => [](LaunchInv /\ RowsInv)
<1>1. Init => LaunchInv /\ RowsInv
  BY LaunchInit, RowsInit
<1>2. LaunchInv /\ RowsInv /\ [Next]_allVars => (LaunchInv /\ RowsInv)'
  <2>1. LaunchInv /\ [Next]_allVars => LaunchInv'
    BY StepType, BooksStep, HandStep DEF LaunchInv
  <2> QED BY <2>1, RowsStep
<1> QED BY <1>1, <1>2, PTL DEF Spec

\* Attempts of a stage are one at a time, for any commands and faults: what was asked about
\* open rows before an await still holds when queueStage, which does not ask, inserts.
THEOREM OneAttempt == Spec => []AttemptsSerial
<1>1. RowsInv => AttemptsSerial
  BY DEF RowsInv, Serial
<1> QED BY RowsInvariant, <1>1, PTL

\* At most one open IMPL row per writer scope, even for tickets that an operator approves or
\* cancels, or whose lease is swept, between the snapshot of busyImplScopes and the insert.
THEOREM OneImplementer == Spec => []OneImplPerScope
<1>1. RowsInv => OneImplPerScope
  BY DEF RowsInv, Serial
<1> QED BY RowsInvariant, <1>1, PTL

\* DONE means a durable landing, and nothing lands that was not verified, whichever way
\* the closeout is reached: straight from settlement, or again after a crash or a throw.
THEOREM DoneLanded == Spec => []DoneMeansLanded
<1>1. RowsInv => DoneMeansLanded
  BY DEF RowsInv, Proven
<1> QED BY RowsInvariant, <1>1, PTL

----------------------------------------------------------------------------
(* The records of an attempt: its launch row, stage run and reservation.    *)

\* Nothing fails an outbox row alone: no cancel, and no handoff is refused.
RowsFailWhole == "cancel" \notin Commands /\ (Forge => "incomplete" \notin Verdicts)

\* RecordsAgree, of one row.
RecordOf(k) ==
    /\ outbox[k] \in ClosedRow <=> stageRun[k] \in {"SUCCEEDED", "FAILED"}
    /\ outbox[k] \in ClosedRow => budget[k] \in {"COMMITTED", "INDETERMINATE"}
    /\ outbox[k] \notin ClosedRow => (k \in receipt <=> stageRun[k] = "RUNNING")
    /\ outbox[k] = "LAUNCHED" => k \in receipt

\* What makes it inductive: nothing was cancelled and no review asks for conditions; only
\* rows have receipts, and a row has a reservation that was not released; what is observed,
\* or inspected after reconcile, was launched.
Uncancelled == ~cancelRequested /\ ~cancelling
Unconditional == \A t \in Ticket : Forge => VerdictOf(t, "REVIEW") # "incomplete"
Filed ==
    /\ receipt \subseteq Rows
    /\ \A k \in Rows : budget[k] \in {"RESERVED", "COMMITTED", "INDETERMINATE"}
    /\ \A k \in Rows : RecordOf(k)
Inspects ==
    /\ phase \in {"observe", "gateObserve"} => todo \subseteq receipt
    /\ step = "inspect" => item \in receipt

RecordInv == Uncancelled /\ Unconditional /\ Filed /\ Inspects

\* A step on behalf of row k writes no other row's records.
LEMMA RowRecords ==
    ASSUME LaunchInv, NEW k \in Key, RowAction(k)
    PROVE  /\ \A l \in Key \ {k} : budget'[l] = budget[l] /\ (l \in receipt' <=> l \in receipt)
           /\ receipt \subseteq receipt' /\ receipt' \subseteq receipt \cup {k}
           /\ UNCHANGED <<cancelRequested, review>>
<1>0. budget \in [Key -> BudgetState \cup {"NONE"}]
  BY DEF LaunchInv, TypeOK, LedgerTypeOK
<1>1. /\ \/ UNCHANGED budget
         \/ budget' = [budget EXCEPT ![k] = MarkIndeterminate(budget[k])]
         \/ budget' = [budget EXCEPT ![k] = ApplyUsage(budget[k])]
      /\ UNCHANGED receipt \/ receipt' = receipt \cup {k}
      /\ UNCHANGED <<cancelRequested, review>>
  BY DEF RowAction, ReconcileRow, Recovered, LostSpawn, InspectReconciled, ObserveRow, ClaimRow,
         PrepareError, RefuseHandoff, Spawn, LaunchError, StoreReceipt, LinkError, CancelHung,
         VerifyImpl, SettleAgain, SettleThrows, SettleDeath, SettlePlan, SettleReview,
         SettleImpl, CloseoutRow, FinishFromProof, DeferLand, StartLand, Land, LandThrows,
         RecordLand, Isolate, FailOrThrow, FailLaunch, CloseRow, MarkLaunched, ledgerVars,
         rowVars, worldVars
<1> QED BY <1>0, <1>1

\* It closes, launches or fails its own row as a whole.
LEMMA OwnRecord ==
    ASSUME LaunchInv, RowsInv, RecordInv, NEW k \in Key, RowAction(k), k \in Rows
    PROVE  RecordOf(k)' /\ budget'[k] \in {"RESERVED", "COMMITTED", "INDETERMINATE"}
<1>0. /\ outbox \in [Key -> OutboxState \cup {"NONE"}]
      /\ stageRun \in [Key -> StageStatus \cup {"NONE"}]
      /\ budget \in [Key -> BudgetState \cup {"NONE"}]
      /\ RecordOf(k) /\ budget[k] \in {"RESERVED", "COMMITTED", "INDETERMINATE"}
      /\ Alive /\ Hand
  BY DEF LaunchInv, TypeOK, LedgerTypeOK, RecordInv, Filed, RowsInv
<1>1. CASE UNCHANGED <<outbox, stageRun, budget, receipt>>
  BY <1>0, <1>1 DEF RecordOf
<1>2. CASE ReconcileRow(k)
  BY <1>0, <1>2 DEF ReconcileRow, RecordOf, ClosedRow
<1>3. CASE ClaimRow(k)
  <2>1. outbox[k] = "PENDING" /\ ~cancelRequested
    BY <1>0, <1>3 DEF ClaimRow, RecordInv, Uncancelled, Hand, Unspawned
  <2> QED BY <1>0, <1>3, <2>1 DEF ClaimRow, RecordOf, ClosedRow
<1>4. CASE InspectReconciled(k) \/ ObserveRow(k)
  <2>1. k \in receipt /\ UNCHANGED <<stageRun, budget, receipt>>
    BY <1>4 DEF InspectReconciled, ObserveRow, RecordInv, Inspects
  <2>2. UNCHANGED outbox \/ (outbox[k] = "RECONCILING" /\ outbox' = [outbox EXCEPT ![k] = "LAUNCHED"])
    BY <1>4 DEF InspectReconciled, ObserveRow, Inspected
  <2> QED BY <1>0, <1>1, <2>1, <2>2 DEF RecordOf, ClosedRow
<1>5. CASE RefuseHandoff(k)
  <2>1. k.ticket \in Ticket
    BY DEF Key
  <2> QED BY <1>5, <2>1 DEF RefuseHandoff, HandoffRefused, RecordInv, Unconditional
<1>6. CASE Recovered(k) \/ StoreReceipt(k)
  <2>1. UNCHANGED <<outbox, stageRun, budget, receipt>> \/ MarkLaunched(k)
    BY <1>6 DEF Recovered, StoreReceipt, rowVars
  <2> QED BY <1>0, <1>1, <2>1 DEF MarkLaunched, RecordOf, ClosedRow
<1>7. CASE LostSpawn(k) \/ LaunchError(k) \/ Isolate(k)
  <2>1. \/ UNCHANGED <<outbox, stageRun, budget, receipt>>
        \/ \E fatal \in BOOLEAN : FailLaunch(k, fatal)
    BY <1>7 DEF LostSpawn, LaunchError, Isolate, FailOrThrow, Deaths, rowVars
  <2>2. MarkIndeterminate(budget[k]) \in {"COMMITTED", "INDETERMINATE"}
    BY <1>0 DEF MarkIndeterminate
  <2> QED BY <1>0, <1>1, <2>1, <2>2 DEF FailLaunch, RecordOf, ClosedRow
<1>8. CASE SettleDeath(k) \/ SettlePlan(k) \/ SettleReview(k) \/ SettleImpl(k)
  <2>1. CloseRow(k, "FAILED") \/ CloseRow(k, "SUCCEEDED")
    BY <1>8 DEF SettleDeath, SettlePlan, SettleReview, SettleImpl
  <2>2. ApplyUsage(budget[k]) \in {"COMMITTED", "INDETERMINATE"}
    BY <1>0 DEF ApplyUsage, MarkIndeterminate
  <2> QED BY <1>0, <2>1, <2>2 DEF CloseRow, RecordOf, ClosedRow
<1> QED BY <1>1, <1>2, <1>3, <1>4, <1>5, <1>6, <1>7, <1>8
        DEF RowAction, PrepareError, Spawn, LinkError, CancelHung, VerifyImpl, SettleAgain,
            SettleThrows, CloseoutRow, FinishFromProof, DeferLand, StartLand, Land, LandThrows,
            RecordLand, ledgerVars, rowVars

\* What is observed, or inspected after reconcile, carries a receipt.
LEMMA RowInspects ==
    ASSUME LaunchInv, RowsInv, RecordInv, NEW k \in Key, RowAction(k)
    PROVE  Inspects'
<1>0. receipt \subseteq receipt' /\ Alive
  BY RowRecords DEF RowsInv
<1>1. phase' \in {"observe", "gateObserve"} => phase' = phase /\ todo' \subseteq todo
  BY <1>0, RowPlace DEF Throw, Leave, Goto
<1>2. CASE ReconcileRow(k)
  BY <1>0, <1>1, <1>2 DEF ReconcileRow, Await, RecordInv, Inspects
<1>3. CASE ~ReconcileRow(k)
  <2>1. step' # "inspect"
    BY <1>3
       DEF RowAction, Recovered, LostSpawn, InspectReconciled, ObserveRow, ClaimRow,
           PrepareError, RefuseHandoff, Spawn, LaunchError, StoreReceipt, LinkError, CancelHung,
           VerifyImpl, SettleAgain, SettleThrows, SettleDeath, SettlePlan, SettleReview,
           SettleImpl, CloseoutRow, FinishFromProof, DeferLand, StartLand, Land, LandThrows,
           RecordLand, Isolate, FailOrThrow, Inspected, AfterSettle, Leave, Throw, Await, Goto
  <2> QED BY <1>0, <1>1, <2>1 DEF RecordInv, Inspects
<1> QED BY <1>2, <1>3

\* Steps that leave the rows and what is at hand alone, or close reservations.
LEMMA RecordFrame ==
    ASSUME LaunchInv, RecordInv, UNCHANGED <<outbox, stageRun, receipt>>,
           UNCHANGED budget \/ budget' = ReservationsClosed
    PROVE  Filed'
<1>1. Rows' = Rows
  BY DEF Rows
<1>2. ASSUME NEW k \in Rows
      PROVE  /\ budget'[k] \in {"RESERVED", "COMMITTED", "INDETERMINATE"}
             /\ budget[k] \in {"COMMITTED", "INDETERMINATE"} => budget'[k] = budget[k]
  BY <1>2 DEF RecordInv, Filed, ReservationsClosed, Rows
<1> QED BY <1>1, <1>2 DEF RecordInv, Filed, RecordOf

\* A new row is reserved and has no receipt.
LEMMA InsertRecord ==
    ASSUME LaunchInv, RecordInv, NEW t \in Ticket, NEW s \in Stage, QueuedHere(t, s)
    PROVE  Filed'
<1>1. PICK k : k = NextKey(t, s)
  OBVIOUS
<1>2. k \in Key \ Rows
  BY <1>1, FreshKey DEF QueuedHere, MayAdmit, Denied, LaunchInv, Books
<1>3. /\ outbox' = [outbox EXCEPT ![k] = "PENDING"] /\ stageRun' = [stageRun EXCEPT ![k] = "PENDING"]
      /\ budget' = [budget EXCEPT ![k] = "RESERVED"] /\ receipt' = receipt
  BY <1>1 DEF QueuedHere, InsertRow
<1>4. /\ outbox \in [Key -> OutboxState \cup {"NONE"}]
      /\ stageRun \in [Key -> StageStatus \cup {"NONE"}]
      /\ budget \in [Key -> BudgetState \cup {"NONE"}]
  BY DEF LaunchInv, TypeOK, LedgerTypeOK
<1>5. Rows' = Rows \cup {k}
  BY <1>2, <1>3, <1>4 DEF Rows
<1>6. ASSUME NEW l \in Rows PROVE RecordOf(l)' /\ budget'[l] = budget[l]
  <2>1. l \in Key /\ l # k
    BY <1>2 DEF Rows
  <2> QED BY <1>3, <1>4, <2>1 DEF RecordInv, Filed, RecordOf
<1>7. RecordOf(k)' /\ budget'[k] = "RESERVED"
  BY <1>2, <1>3, <1>4 DEF RecordInv, Filed, RecordOf, ClosedRow
<1> QED BY <1>3, <1>5, <1>6, <1>7 DEF RecordInv, Filed

\* RecordInv is kept where RowsFailWhole holds.
LEMMA RecordStep ==
    ASSUME RowsFailWhole, LaunchInv, RowsInv, RecordInv, [Next]_allVars
    PROVE  RecordInv'
<1> USE DEF RowsFailWhole
<1>1. Uncancelled'
  <2>1. CASE Ticker \/ TickerDies
    <3>1. ASSUME NEW k \in Key, RowAction(k) PROVE UNCHANGED cancelRequested
      BY <3>1, RowRecords
    <3>2. UNCHANGED <<cancelRequested, cancelling>>
      BY <2>1, <3>1 DEF Ticker, TickerDies, Tick, TicketAction, GateQueue, UxQueue, SkipTicket,
         GateAdmit, AdvanceImpl, AdvancePlan, PrimaryDirty, QueueImpl, QueuePlan, Queue, LoopEnd,
         EndReconcile, EndDispatch, EndObserve, EndWatchdog, EndCloseout, EndGateQueue, EndUxQueue,
         EndGateObserve, EndGateAdmit, EndAdvance, FailUnlaunchable, EndTick, EndIsolate, TickBegin,
         TickDeadline, Crash, ledgerVars
    <3> QED BY <3>2 DEF RecordInv, Uncancelled
  <2>2. CASE Operator
    BY <2>2 DEF Operator, Freeze, Start, Pause, Resume, SetWave, Approve, Revise, Judge, CancelWave,
         CancelTickets, CancelCrash, vars, ledgerVars, RecordInv, Uncancelled
  <2>3. CASE (\E k \in Key : WorkerStep(k)) \/ UNCHANGED allVars
    <3>1. UNCHANGED <<cancelRequested, cancelling>>
      BY <2>3 DEF WorkerStep, WriteReview, WorkerSucceeds, WorkerFails, WorkerEnds, allVars, vars,
                  ledgerVars
    <3> QED BY <3>1 DEF RecordInv, Uncancelled
  <2> QED BY <2>1, <2>2, <2>3 DEF Next
<1>2. Unconditional'
  <2>1. ASSUME UNCHANGED review PROVE Unconditional'
    BY <2>1 DEF RecordInv, Unconditional, VerdictOf
  <2>2. ASSUME NEW k \in Key, WorkerStep(k) PROVE Unconditional'
    <3>1. CASE \E verdict \in Verdicts : WriteReview(k, verdict)
      <4>1. PICK verdict \in Verdicts : WriteReview(k, verdict)
        BY <3>1
      <4>2. review \in [Ticket -> [GateStage -> ReviewFile]]
        BY DEF LaunchInv, TypeOK, WorldTypeOK
      <4>3. \A t \in Ticket : review'[t]["REVIEW"].verdict \in {review[t]["REVIEW"].verdict, verdict}
        BY <4>1, <4>2 DEF WriteReview, GateStage
      <4> QED BY <4>1, <4>3 DEF RecordInv, Unconditional, VerdictOf
    <3>2. CASE ~\E verdict \in Verdicts : WriteReview(k, verdict)
      BY <2>1, <2>2, <3>2 DEF WorkerStep, WorkerSucceeds, WorkerFails, WorkerEnds
    <3> QED BY <3>1, <3>2
  <2>3. CASE Ticker \/ TickerDies
    <3>1. ASSUME NEW k \in Key, RowAction(k) PROVE UNCHANGED review
      BY <3>1, RowRecords
    <3>2. UNCHANGED review
      BY <2>3, <3>1 DEF Ticker, TickerDies, Tick, TicketAction, GateQueue, UxQueue, SkipTicket,
         GateAdmit, AdvanceImpl, AdvancePlan, PrimaryDirty, QueueImpl, QueuePlan, Queue, LoopEnd,
         EndReconcile, EndDispatch, EndObserve, EndWatchdog, EndCloseout, EndGateQueue, EndUxQueue,
         EndGateObserve, EndGateAdmit, EndAdvance, FailUnlaunchable, EndTick, EndIsolate, TickBegin,
         TickDeadline, Crash, worldVars
    <3> QED BY <2>1, <3>2
  <2>4. CASE Operator
    BY <2>1, <2>4 DEF Operator, Freeze, Start, Pause, Resume, SetWave, Approve, Revise, Judge,
         CancelWave, CancelTickets, CancelCrash, vars, worldVars
  <2>5. CASE UNCHANGED allVars
    BY <2>1, <2>5 DEF allVars, vars, worldVars
  <2> QED BY <2>2, <2>3, <2>4, <2>5 DEF Next
<1>3. ASSUME NEW k \in Key, RowAction(k) PROVE Filed' /\ Inspects'
  <2>1. Keeps(k) /\ Rows' = Rows
    BY <1>3, RowKeeps, RowCloses
  <2>2. /\ \A l \in Key \ {k} : budget'[l] = budget[l] /\ (l \in receipt' <=> l \in receipt)
        /\ receipt' \subseteq receipt \cup {k}
    BY <1>3, RowRecords
  <2>3. ASSUME NEW l \in Rows
        PROVE  RecordOf(l)' /\ budget'[l] \in {"RESERVED", "COMMITTED", "INDETERMINATE"}
    <3>1. CASE l = k
      BY <1>3, <3>1, OwnRecord
    <3>2. CASE l # k
      <4>1. l \in Key \ {k}
        BY <3>2 DEF Rows
      <4> QED BY <2>1, <2>2, <4>1 DEF RecordInv, Filed, RecordOf, Keeps
    <3> QED BY <3>1, <3>2
  <2>4. k \in receipt' => k \in Rows
    <3>1. receipt' = receipt \/ Recovered(k) \/ StoreReceipt(k)
      BY <1>3
         DEF RowAction, ReconcileRow, LostSpawn, InspectReconciled, ObserveRow, ClaimRow,
             PrepareError, RefuseHandoff, Spawn, LaunchError, LinkError, CancelHung,
             VerifyImpl, SettleAgain, SettleThrows, SettleDeath, SettlePlan, SettleReview,
             SettleImpl, CloseoutRow, FinishFromProof, DeferLand, StartLand, Land, LandThrows,
             RecordLand, Isolate, FailOrThrow, FailLaunch, CloseRow, ledgerVars, rowVars
    <3> QED BY <3>1 DEF Recovered, StoreReceipt, LaunchInv, Hand, RowsInHand, RecordInv, Filed
  <2>5. Filed'
    BY <2>1, <2>2, <2>3, <2>4 DEF RecordInv, Filed
  <2>6. Inspects'
    BY <1>3, RowInspects
  <2> QED BY <2>5, <2>6
<1>4. ASSUME NEW t \in Ticket, TicketAction(t) PROVE Filed' /\ Inspects'
  <2>1. \/ /\ UNCHANGED <<outbox, stageRun, receipt>>
           /\ UNCHANGED budget \/ budget' = ReservationsClosed
        \/ \E s \in Stage : QueuedHere(t, s)
    BY <1>4 DEF TicketAction, GateQueue, UxQueue, SkipTicket, GateAdmit, AdvanceImpl, AdvancePlan,
         PrimaryDirty, QueueImpl, QueuePlan, Queue, QueuedElsewhere, StopForBudget, Stage,
         ledgerVars, rowVars
  <2>2. Filed'
    BY <2>1, RecordFrame, InsertRecord
  <2>3. Inspects'
    BY <1>4, TicketPlace DEF TicketPhase, Throw, Goto, Inspects
  <2> QED BY <2>2, <2>3
<1>5. ASSUME LoopEnd \/ TickBegin \/ TickDeadline \/ Crash PROVE Filed' /\ Inspects'
  <2>1. /\ UNCHANGED <<outbox, stageRun, receipt>>
        /\ UNCHANGED budget \/ budget' = ReservationsClosed
    BY <1>5 DEF LoopEnd, EndReconcile, EndDispatch, EndObserve, EndWatchdog, EndCloseout,
         EndGateQueue, EndUxQueue, EndGateObserve, EndGateAdmit, EndAdvance, FailUnlaunchable,
         EndTick, EndIsolate, TickBegin, TickDeadline, Crash, StopForBudget, MaybeCompleteWave,
         ledgerVars, rowVars
  <2>2. Inspects'
    <3> USE DEF Goto, Inspects
    <3>1. CASE EndDispatch
      <4>1. \A k \in RowsIn({"LAUNCHED"}) : k \in receipt
        BY DEF RowsIn, RecordInv, Filed, RecordOf, Rows
      <4> QED BY <2>1, <3>1, <4>1 DEF EndDispatch
    <3>2. CASE EndReconcile \/ EndObserve \/ EndWatchdog \/ TickBegin
      BY <3>2 DEF EndReconcile, EndObserve, EndWatchdog, TickBegin
    <3>3. CASE EndCloseout \/ EndGateQueue \/ EndUxQueue
      BY <3>3 DEF EndCloseout, EndGateQueue, EndUxQueue, EnterUxQueue, EnterQueue, PastGate,
                  EnterAdvance
    <3>4. CASE EndGateObserve \/ EndGateAdmit \/ EndAdvance \/ FailUnlaunchable
      BY <3>4 DEF EndGateObserve, EndGateAdmit, EndAdvance, EnterPlans, FailUnlaunchable
    <3>5. CASE EndTick \/ EndIsolate \/ Crash
      BY <3>5 DEF EndTick, EndIsolate, Crash, RestAs
    <3>6. CASE TickDeadline
      BY <2>1, <3>6 DEF TickDeadline, tickVars, RecordInv
    <3> QED BY <1>5, <3>1, <3>2, <3>3, <3>4, <3>5, <3>6 DEF LoopEnd
  <2> QED BY <2>1, <2>2, RecordFrame
<1>6. ASSUME Operator \/ (\E k \in Key : WorkerStep(k)) \/ UNCHANGED allVars
      PROVE  Filed' /\ Inspects'
  <2>1. /\ UNCHANGED <<outbox, stageRun, receipt, phase, step, todo, item>>
        /\ UNCHANGED budget \/ budget' = ReservationsClosed
    <3>1. CASE Operator
      BY <3>1 DEF Operator, Freeze, Start, Pause, Resume, SetWave, Approve, Revise, Judge,
         CancelWave, CancelTickets, CancelCrash, vars, ledgerVars, rowVars, tickVars
    <3>2. CASE (\E k \in Key : WorkerStep(k)) \/ UNCHANGED allVars
      BY <3>2 DEF WorkerStep, WriteReview, WorkerSucceeds, WorkerFails, WorkerEnds, allVars, vars,
                  ledgerVars, rowVars, tickVars
    <3> QED BY <1>6, <3>1, <3>2
  <2> QED BY <2>1, RecordFrame DEF RecordInv, Inspects
<1>7. Filed' /\ Inspects'
  BY <1>3, <1>4, <1>5, <1>6 DEF Next, Ticker, TickerDies, Tick
<1> QED BY <1>1, <1>2, <1>7 DEF RecordInv

\* RecordInv holds at first.
LEMMA RecordInit == Init => RecordInv
<1> SUFFICES ASSUME Init PROVE RecordInv
  OBVIOUS
<1>1. Rows = {}
  BY DEF Init, Rows
<1> QED BY <1>1 DEF Init, RecordInv, Uncancelled, Unconditional, Filed, Inspects, VerdictOf, Missing,
                    GateStage

\* Where no outbox row is failed alone, outbox row, stage run, reservation and receipt of
\* an attempt agree, for any interleaving of launches, settlements, failures and crashes.
THEOREM RecordsTogether == ASSUME RowsFailWhole PROVE Spec => []RecordsAgree
<1>1. Init => LaunchInv /\ RowsInv /\ RecordInv
  BY LaunchInit, RowsInit, RecordInit
<1>2. LaunchInv /\ RowsInv /\ RecordInv /\ [Next]_allVars => (LaunchInv /\ RowsInv /\ RecordInv)'
  <2>1. LaunchInv /\ [Next]_allVars => LaunchInv'
    BY StepType, BooksStep, HandStep DEF LaunchInv
  <2> QED BY <2>1, RowsStep, RecordStep
<1>3. RecordInv => RecordsAgree
  BY DEF RecordInv, Filed, RecordOf, RecordsAgree
<1> QED BY <1>1, <1>2, <1>3, PTL DEF Spec

----------------------------------------------------------------------------
(* Reservations of a wave that is over.                                      *)

\* No cancel command dies between its two transactions.
CancelsEnd == "cancel" \in Commands => "crash" \notin Faults

\* A wave that is over was cancelled, or its ticker is past every admission of this tick.
Ended ==
    waveStatus \in TerminalWave =>
        cancelRequested \/ phase \in {"idle", "dead", "unlaunchable", "complete"}

ClosedInv == Ended /\ BooksClosed /\ (cancelling => "cancel" \in Commands)

\* No step on behalf of a row ends the wave or reserves anything.
LEMMA RowEnds ==
    ASSUME LaunchInv, NEW k \in Key, RowAction(k)
    PROVE  /\ waveStatus' \in TerminalWave => waveStatus' = waveStatus
           /\ \A l \in Key : budget'[l] = "RESERVED" => budget[l] = "RESERVED"
           /\ UNCHANGED cancelRequested
<1>0. k.ticket \in Ticket /\ k.stage \in Stage /\ waveStatus \in WaveStatus
      /\ budget \in [Key -> BudgetState \cup {"NONE"}]
  BY DEF Key, LaunchInv, TypeOK, LedgerTypeOK
<1>1. GateOpened \in TerminalWave => GateOpened = waveStatus
  BY DEF GateOpened, TerminalWave
<1>2. waveStatus' \in TerminalWave => waveStatus' = waveStatus
  <2>1. CASE SettleDeath(k)
    BY <1>1, <2>1 DEF SettleDeath
  <2>2. CASE SettlePlan(k)
    <3>1. PICK ok \in BOOLEAN : PlanSettled(k.ticket, ok)
      BY <2>2 DEF SettlePlan
    <3>2. PlanOutcome(k.ticket, ok)[2] \in {waveStatus, "WAITING_APPROVAL", "AWAITING_PLAN_GATE"}
      BY DEF PlanOutcome
    <3> QED BY <3>1, <3>2 DEF PlanSettled, TerminalWave
  <2>3. CASE SettleReview(k)
    <3>1. PICK d : Decide(k.ticket, k.stage, d)
      BY <2>3 DEF SettleReview
    <3> QED BY <1>1, <3>1 DEF Decide
  <2>4. CASE ~(SettleDeath(k) \/ SettlePlan(k) \/ SettleReview(k))
    BY <2>4
       DEF RowAction, ReconcileRow, Recovered, LostSpawn, InspectReconciled, ObserveRow, ClaimRow,
           PrepareError, RefuseHandoff, Spawn, LaunchError, StoreReceipt, LinkError, CancelHung,
           VerifyImpl, SettleAgain, SettleThrows, SettleImpl, CloseoutRow, FinishFromProof,
           DeferLand, StartLand, Land, LandThrows, RecordLand, Isolate, ledgerVars
  <2> QED BY <2>1, <2>2, <2>3, <2>4
<1>3. \/ UNCHANGED budget
      \/ budget' = [budget EXCEPT ![k] = MarkIndeterminate(budget[k])]
      \/ budget' = [budget EXCEPT ![k] = ApplyUsage(budget[k])]
  BY DEF RowAction, ReconcileRow, Recovered, LostSpawn, InspectReconciled, ObserveRow, ClaimRow,
         PrepareError, RefuseHandoff, Spawn, LaunchError, StoreReceipt, LinkError, CancelHung,
         VerifyImpl, SettleAgain, SettleThrows, SettleDeath, SettlePlan, SettleReview,
         SettleImpl, CloseoutRow, FinishFromProof, DeferLand, StartLand, Land, LandThrows,
         RecordLand, Isolate, FailOrThrow, FailLaunch, CloseRow, MarkLaunched, ledgerVars,
         rowVars, worldVars
<1> QED BY <1>0, <1>2, <1>3, RowRecords DEF MarkIndeterminate, ApplyUsage

\* Closing reservations leaves none.
LEMMA NoneReserved == \A k \in Key : ReservationsClosed[k] # "RESERVED"
  BY DEF ReservationsClosed

\* A step on behalf of a ticket reserves only in a wave that is not over, and where it ends
\* the wave it closes the reservations and admits nothing more.
LEMMA TicketEnds ==
    ASSUME LaunchInv, Ended, NEW t \in Ticket, TicketAction(t)
    PROVE  /\ UNCHANGED cancelRequested
           /\ \/ UNCHANGED waveStatus /\ waveStatus \notin TerminalWave
              \/ /\ UNCHANGED budget
                 /\ waveStatus' \in TerminalWave => waveStatus' = waveStatus /\ cancelRequested
              \/ budget' = ReservationsClosed /\ phase' \in {"complete", "unlaunchable"}
<1>0. phase \in TicketPhase /\ UNCHANGED cancelRequested
  BY DEF TicketAction, GateQueue, UxQueue, SkipTicket, GateAdmit, AdvanceImpl, AdvancePlan,
         PrimaryDirty, QueueImpl, QueuePlan, Queue, TicketPhase, Advancing, LaunchInv, TypeOK,
         TickTypeOK, ledgerVars
<1>1. waveStatus \in TerminalWave => cancelRequested
  BY <1>0 DEF Ended, TicketPhase
<1>2. CASE AdvanceImpl(t) \/ AdvancePlan(t) \/ PrimaryDirty(t) \/ SkipTicket(t)
  BY <1>0, <1>1, <1>2 DEF AdvanceImpl, AdvancePlan, PrimaryDirty, SkipTicket, ledgerVars, rowVars
<1>3. CASE GateAdmit(t)
  <2>1. GateOpened \in TerminalWave => GateOpened = waveStatus
    BY DEF GateOpened, TerminalWave
  <2> QED BY <1>0, <1>1, <1>3, <2>1 DEF GateAdmit, Decide, rowVars
<1>4. ASSUME NEW s \in Stage, NEW queued, NEW stopped, NEW deferred,
             Queue(t, s, queued, stopped, deferred),
             stopped => phase' \in {"complete", "unlaunchable"}
      PROVE  \/ UNCHANGED waveStatus /\ waveStatus \notin TerminalWave
             \/ /\ UNCHANGED budget
                /\ waveStatus' \in TerminalWave => waveStatus' = waveStatus /\ cancelRequested
             \/ budget' = ReservationsClosed /\ phase' \in {"complete", "unlaunchable"}
  <2>1. CASE QueuedHere(t, s) /\ UNCHANGED waveStatus
    BY <1>1, <2>1 DEF QueuedHere, MayAdmit, Denied
  <2>2. CASE UNCHANGED <<waveStatus, budget>>
    BY <1>1, <2>2
  <2>3. CASE StopForBudget /\ stopped
    BY <1>1, <1>4, <2>3 DEF StopForBudget
  <2> QED BY <1>4, <2>1, <2>2, <2>3 DEF Queue, QueuedElsewhere, rowVars
<1>5. CASE GateQueue(t) /\ ~SkipTicket(t)
  <2>1. \E queued, deferred : Queue(t, "REVIEW", queued, Goto("complete", {}), deferred)
    BY <1>5 DEF GateQueue
  <2> QED BY <1>0, <1>4, <2>1 DEF Goto, Stage
<1>6. CASE UxQueue(t) /\ ~SkipTicket(t)
  <2>1. \E queued, deferred : Queue(t, "UX_REVIEW", queued, Goto("complete", {}), deferred)
    BY <1>6 DEF UxQueue
  <2> QED BY <1>0, <1>4, <2>1 DEF Goto, Stage
<1>7. CASE QueueImpl(t) \/ QueuePlan(t)
  <2>1. \E s \in {"IMPL", "PLAN"} : \E queued, deferred :
            Queue(t, s, queued, Goto("unlaunchable", {}), deferred)
    BY <1>7 DEF QueueImpl, QueuePlan
  <2> QED BY <1>0, <1>4, <2>1 DEF Goto, Stage
<1> QED BY <1>2, <1>3, <1>5, <1>6, <1>7 DEF TicketAction

\* ClosedInv is kept where CancelsEnd holds.
LEMMA ClosedStep ==
    ASSUME CancelsEnd, LaunchInv, RowsInv, ClosedInv, [Next]_allVars
    PROVE  ClosedInv'
<1> USE DEF ClosedInv
<1>1. ASSUME NEW k \in Key, RowAction(k), UNCHANGED cancelling PROVE ClosedInv'
  <2>1. phase \in RowPhase
    BY <1>1, RowPlace DEF RowsInv
  <2> QED BY <1>1, <2>1, RowEnds DEF Ended, BooksClosed, RowPhase
<1>2. ASSUME NEW t \in Ticket, TicketAction(t), UNCHANGED cancelling PROVE ClosedInv'
  BY <1>2, TicketEnds, NoneReserved DEF Ended, BooksClosed
<1>3. ASSUME LoopEnd \/ TickBegin \/ TickDeadline \/ Crash, UNCHANGED cancelling
      PROVE  ClosedInv'
  <2>1. CASE EndTick
    <3>1. phase' = "idle" /\ UNCHANGED cancelRequested
      BY <2>1 DEF EndTick, RestAs, Goto
    <3>2. UNCHANGED <<waveStatus, budget>> \/ budget' = ReservationsClosed
      BY <2>1 DEF EndTick, MaybeCompleteWave
    <3> QED BY <1>3, <3>1, <3>2, NoneReserved DEF Ended, BooksClosed
  <2>2. CASE TickDeadline
    <3>1. phase \in {"idle", "dead"} /\ UNCHANGED <<phase, cancelRequested>>
      BY <2>2 DEF TickDeadline, tickVars
    <3>2. UNCHANGED <<waveStatus, budget>> \/ budget' = ReservationsClosed
      BY <2>2 DEF TickDeadline, StopForBudget
    <3> QED BY <1>3, <3>1, <3>2, NoneReserved DEF Ended, BooksClosed
  <2>3. CASE ~(EndTick \/ TickDeadline)
    <3>1. UNCHANGED <<waveStatus, budget, cancelRequested>>
      BY <1>3, <2>3 DEF LoopEnd, EndReconcile, EndDispatch, EndObserve, EndWatchdog, EndCloseout,
         EndGateQueue, EndUxQueue, EndGateObserve, EndGateAdmit, EndAdvance, FailUnlaunchable,
         EndIsolate, TickBegin, Crash, ledgerVars, rowVars
    <3>2. waveStatus \in TerminalWave =>
              cancelRequested \/ phase' \in {"idle", "dead", "unlaunchable", "complete"}
      <4> USE DEF Goto
      <4>1. CASE FailUnlaunchable \/ EndIsolate \/ Crash
        BY <4>1 DEF FailUnlaunchable, EndIsolate, Crash, RestAs
      <4>2. CASE TickBegin
        BY <4>2 DEF TickBegin
      <4>3. CASE ~(FailUnlaunchable \/ EndIsolate \/ Crash \/ TickBegin)
        <5>1. phase \notin {"idle", "dead", "unlaunchable", "complete"}
          BY <1>3, <2>3, <4>3
             DEF LoopEnd, EndReconcile, EndDispatch, Dispatching, EndObserve, EndWatchdog,
                 EndCloseout, EndGateQueue, EndUxQueue, EndGateObserve, EndGateAdmit, EndAdvance,
                 Advancing
        <5> QED BY <5>1 DEF Ended
      <4> QED BY <4>1, <4>2, <4>3
    <3> QED BY <1>3, <3>1, <3>2 DEF Ended, BooksClosed
  <2> QED BY <2>1, <2>2, <2>3
<1>4. CASE Operator
  <2>1. CASE Freeze \/ Start \/ Pause \/ Resume
    BY <2>1 DEF Freeze, Start, Pause, Resume, SetWave, Ended, BooksClosed, TerminalWave, rowVars,
                tickVars
  <2>2. CASE \E t \in Ticket : Approve(t) \/ Revise(t)
    <3>1. GateOpened \in TerminalWave => GateOpened = waveStatus
      BY DEF GateOpened, TerminalWave
    <3> QED BY <2>2, <3>1 DEF Approve, Revise, Judge, Ended, BooksClosed, rowVars, tickVars
  <2>3. CASE CancelWave
    BY <2>3 DEF CancelWave, Ended, BooksClosed
  <2>4. CASE CancelTickets
    BY <2>4, NoneReserved DEF CancelTickets, Ended, BooksClosed, tickVars
  <2>5. CASE CancelCrash
    BY <2>5 DEF CancelCrash, CancelsEnd, May
  <2> QED BY <1>4, <2>1, <2>2, <2>3, <2>4, <2>5 DEF Operator
<1>5. CASE (\E k \in Key : WorkerStep(k)) \/ UNCHANGED allVars
  <2>1. UNCHANGED <<waveStatus, cancelRequested, budget, phase, cancelling>>
    BY <1>5 DEF WorkerStep, WriteReview, WorkerSucceeds, WorkerFails, WorkerEnds, allVars, vars,
                ledgerVars, rowVars, tickVars
  <2> QED BY <2>1 DEF Ended, BooksClosed
<1> QED BY <1>1, <1>2, <1>3, <1>4, <1>5 DEF Next, Ticker, TickerDies, Tick

\* A wave that is over leaves no reservation open, however it ended and whatever its ticker
\* was doing: no admission, settlement or failure reserves once the wave is over.
THEOREM BooksClose == ASSUME CancelsEnd PROVE Spec => []BooksClosed
<1>1. Init => ClosedInv
  BY DEF Init, ClosedInv, Ended, BooksClosed
<1>2. LaunchInv /\ RowsInv /\ ClosedInv /\ [Next]_allVars => ClosedInv'
  BY ClosedStep
<1>3. ClosedInv => BooksClosed
  BY DEF ClosedInv
<1> QED BY RowsInvariant, <1>1, <1>2, <1>3, PTL DEF Spec
----------------------------------------------------------------------------
(* The writer lease of a ticket that implements.                             *)

\* What makes ImplHoldsLease inductive: no cancel is under way; the fence of an IMPL that
\* was verified still holds when its row is settled; and the lease that advanceReadyTickets
\* found free, or its own, is so when it queues the IMPL after its await.
LeaseInv ==
    /\ ~cancelling
    /\ ImplHoldsLease
    /\ step = "commit" /\ truth = "succeeded" => lease[ScopeOf[item.ticket]] = item.ticket
    /\ phase = "advanceImpl" /\ step = "dirty" => lease[ScopeOf[item]] \in {None, item}

Implementing == {"IMPLEMENTING", "VERIFYING"}

\* releaseWriterLeaseIfHeld frees the lease of no ticket but its own, and not that one
\* while the ticket is IMPL-active.
LEMMA LeaseAfterKeeps ==
    ASSUME TypeOK, NEW t \in Ticket, NEW s, NEW u \in Ticket, lease[ScopeOf[u]] = u,
           s \in ImplActive \/ u # t
    PROVE  LeaseAfter(t, s)[ScopeOf[u]] = u
<1>1. lease \in [Scope -> Ticket \cup {None}] /\ ScopeOf[u] \in Scope /\ ScopeOf[t] \in Scope
  BY LedgerAssumption DEF TypeOK, LedgerTypeOK
<1> QED BY <1>1 DEF LeaseAfter

\* The sweeps spare the lease of a ticket that is IMPL-active.
LEMMA SweepKeeps ==
    ASSUME NEW st, NEW swept, NEW u \in Ticket, lease[ScopeOf[u]] = u, st[u] \in ImplActive
    PROVE  LeasesSwept(st, swept)[ScopeOf[u]] = u
<1>1. ScopeOf[u] \in Scope
  BY LedgerAssumption
<1> QED BY <1>1 DEF LeasesSwept

\* A death never leaves a ticket implementing.
LEMMA DeathLeaves ==
    ASSUME NEW k \in Key, NEW fatal
    PROVE  DeathStatus(k, fatal) \in {"REVISING", "PLAN_REVIEW", "APPROVED", "FAILED"}
<1>1. k.stage \in {"PLAN", "IMPL"} \cup GateStage
  BY DEF Key, Stage, GateStage
<1> QED BY <1>1 DEF DeathStatus, Rearm, GateStage

\* A step on behalf of a row keeps the lease of every ticket that implements.
LEMMA RowLease ==
    ASSUME LaunchInv, LeaseInv, NEW k \in Key, RowAction(k)
    PROVE  ImplHoldsLease'
<1>0. /\ k.ticket \in Ticket /\ k.stage \in Stage /\ TypeOK
      /\ ticket \in [Ticket -> TicketStatus]
      /\ \A u \in Ticket : ticket[u] \in Implementing => lease[ScopeOf[u]] = u
  BY DEF Key, LaunchInv, TypeOK, LedgerTypeOK, LeaseInv, ImplHoldsLease, Implementing
<1>1. CASE UNCHANGED <<ticket, lease>>
  BY <1>1 DEF LeaseInv, ImplHoldsLease
<1>2. ASSUME NEW s, s \notin Implementing, ticket' = [ticket EXCEPT ![k.ticket] = s],
             lease' \in {lease, LeaseAfter(k.ticket, s)}
      PROVE  ImplHoldsLease'
  <2> SUFFICES ASSUME NEW u \in Ticket, ticket'[u] \in Implementing
               PROVE  lease'[ScopeOf[u]] = u
    BY DEF ImplHoldsLease, Implementing
  <2>1. u # k.ticket /\ ticket[u] \in Implementing
    BY <1>0, <1>2
  <2>2. lease[ScopeOf[u]] = u
    BY <1>0, <2>1
  <2>3. LeaseAfter(k.ticket, s)[ScopeOf[u]] = u
    BY <1>0, <2>1, <2>2, LeaseAfterKeeps
  <2> QED BY <1>2, <2>2, <2>3
<1>3. CASE SettleDeath(k)
  <2>1. PICK after : after = IF cancelRequested THEN "CANCELLED" ELSE DeathStatus(k, Fatal)
    OBVIOUS
  <2>2. after \notin Implementing
    BY <2>1, DeathLeaves DEF Implementing
  <2>3. /\ ticket' = [ticket EXCEPT ![k.ticket] = after]
        /\ lease' \in {lease, LeaseAfter(k.ticket, after)}
    BY <1>3, <2>1 DEF SettleDeath
  <2> QED BY <1>2, <2>2, <2>3
<1>4. CASE SettlePlan(k)
  <2>1. PICK ok \in BOOLEAN : PlanSettled(k.ticket, ok) /\ UNCHANGED lease
    BY <1>4 DEF SettlePlan, leaseVars
  <2>2. PlanOutcome(k.ticket, ok)[1] \in {"FAILED", "PLAN_REVIEW", "APPROVED"}
    BY DEF PlanOutcome
  <2>3. PICK s : s = PlanOutcome(k.ticket, ok)[1]
    OBVIOUS
  <2> QED BY <1>2, <2>1, <2>2, <2>3 DEF PlanSettled, Implementing
<1>5. CASE SettleReview(k)
  <2>1. PICK d : Decide(k.ticket, k.stage, d) /\ UNCHANGED lease
    BY <1>5 DEF SettleReview, leaseVars
  <2>2. \/ UNCHANGED ticket
        \/ \E s \in {"APPROVED", "FAILED", "REVISING"} : ticket' = [ticket EXCEPT ![k.ticket] = s]
    BY <2>1 DEF Decide
  <2> QED BY <1>1, <1>2, <2>1, <2>2 DEF Implementing
<1>6. CASE SettleImpl(k)
  <2>1. lease[ScopeOf[k.ticket]] = k.ticket
    BY <1>6 DEF SettleImpl, Settles, ReadyToSettle, LeaseInv
  <2>2. ticket' = [ticket EXCEPT ![k.ticket] = "VERIFYING"] /\ UNCHANGED lease
    BY <1>6 DEF SettleImpl, leaseVars
  <2> QED BY <1>0, <2>1, <2>2 DEF ImplHoldsLease, Implementing
<1>7. CASE LostSpawn(k) \/ LaunchError(k) \/ Isolate(k)
  <2>1. /\ UNCHANGED lease
        /\ UNCHANGED ticket \/ \E fatal \in BOOLEAN : FailLaunch(k, fatal)
    BY <1>7 DEF LostSpawn, LaunchError, Isolate, FailOrThrow, Deaths, rowVars, leaseVars
  <2>2. CASE \E fatal \in BOOLEAN : FailLaunch(k, fatal)
    <3>1. PICK fatal \in BOOLEAN : FailLaunch(k, fatal)
      BY <2>2
    <3>2. PICK s : s = DeathStatus(k, fatal)
      OBVIOUS
    <3>3. UNCHANGED ticket \/ ticket' = [ticket EXCEPT ![k.ticket] = s]
      BY <3>1, <3>2 DEF FailLaunch
    <3>4. s \notin Implementing
      BY <3>2, DeathLeaves DEF Implementing
    <3> QED BY <1>1, <1>2, <2>1, <3>3, <3>4
  <2> QED BY <1>1, <2>1, <2>2
<1>8. CASE FinishFromProof(k)
  <2>1. /\ ticket' = [ticket EXCEPT ![k.ticket] = "DONE"]
        /\ lease' \in {lease, LeaseAfter(k.ticket, "DONE")}
    BY <1>8 DEF FinishFromProof
  <2>2. "DONE" \notin Implementing
    BY DEF Implementing
  <2> QED BY <1>2, <2>1, <2>2
<1>9. CASE RecordLand(k)
  <2>1. PICK after \in {"DONE", "FAILED"} :
            /\ ticket' = [ticket EXCEPT ![k.ticket] = after]
            /\ lease' = LeaseAfter(k.ticket, after)
    BY <1>9 DEF RecordLand
  <2> QED BY <1>2, <2>1 DEF Implementing
<1>10. CASE LandThrows(k)
  <2>1. /\ UNCHANGED ticket
        /\ lease' \in {lease, LeaseAfter(k.ticket, ticket[k.ticket])}
    BY <1>10 DEF LandThrows
  <2>2. ASSUME NEW u \in Ticket, ticket[u] \in Implementing
        PROVE  LeaseAfter(k.ticket, ticket[k.ticket])[ScopeOf[u]] = u
    <3>1. ticket[k.ticket] \in ImplActive \/ u # k.ticket
      BY <2>2 DEF ImplActive, Implementing
    <3> QED BY <1>0, <2>2, <3>1, LeaseAfterKeeps
  <2> QED BY <1>0, <2>1, <2>2 DEF ImplHoldsLease, Implementing
<1> QED BY <1>1, <1>3, <1>4, <1>5, <1>6, <1>7, <1>8, <1>9, <1>10
        DEF RowAction, ReconcileRow, Recovered, InspectReconciled, ObserveRow, ClaimRow,
            PrepareError, RefuseHandoff, Spawn, StoreReceipt, LinkError, CancelHung, VerifyImpl,
            SettleAgain, SettleThrows, CloseoutRow, DeferLand, StartLand, Land, ledgerVars,
            leaseVars

\* The fence is checked where an IMPL goes on to be committed, and nowhere else does a row
\* go there.
LEMMA RowFence ==
    ASSUME NEW k \in Key, RowAction(k), step' = "commit", truth' = "succeeded"
    PROVE  (lease[ScopeOf[item.ticket]] = item.ticket)'
<1>1. VerifyImpl(k)
  BY DEF RowAction, ReconcileRow, Recovered, LostSpawn, InspectReconciled, ObserveRow, ClaimRow,
         PrepareError, RefuseHandoff, Spawn, LaunchError, StoreReceipt, LinkError, CancelHung,
         SettleAgain, SettleThrows, SettleDeath, SettlePlan, SettleReview,
         SettleImpl, CloseoutRow, FinishFromProof, DeferLand, StartLand, Land, LandThrows,
         RecordLand, Isolate, FailOrThrow, Inspected, AfterSettle, Leave, Throw, Await, Goto
<1>2. item = k /\ item' = k /\ lease' = lease
  BY <1>1 DEF VerifyImpl, ledgerVars, leaseVars
<1>3. lease[ScopeOf[k.ticket]] = k.ticket
  BY <1>1 DEF VerifyImpl, FenceBroken
<1> QED BY <1>2, <1>3
\* An admission takes the writer lease only from nobody, or from its own ticket.
LEMMA AdmitLease ==
    ASSUME LaunchInv, LeaseInv, NEW t \in Ticket, NEW s \in Stage, QueuedHere(t, s),
           s = "IMPL" => lease[ScopeOf[t]] \in {None, t}
    PROVE  ImplHoldsLease'
<1>0. /\ ticket \in [Ticket -> TicketStatus] /\ lease \in [Scope -> Ticket \cup {None}]
      /\ ScopeOf \in [Ticket -> Scope] /\ None \notin Ticket
      /\ \A u \in Ticket : ticket[u] \in Implementing => lease[ScopeOf[u]] = u
  BY LedgerAssumption DEF LaunchInv, TypeOK, LedgerTypeOK, LeaseInv, ImplHoldsLease, Implementing
<1> SUFFICES ASSUME NEW u \in Ticket, ticket'[u] \in Implementing PROVE lease'[ScopeOf[u]] = u
  BY DEF ImplHoldsLease, Implementing
<1>1. /\ ticket' = IF s \in GateStage THEN ticket ELSE [ticket EXCEPT ![t] = StageTicketStatus(s)]
      /\ lease' = IF s = "IMPL" THEN [lease EXCEPT ![ScopeOf[t]] = t] ELSE lease
  BY DEF QueuedHere, InsertRow
<1>2. CASE s = "IMPL"
  <2>1. CASE u = t
    BY <1>0, <1>1, <1>2, <2>1
  <2>2. CASE u # t
    <3>1. lease[ScopeOf[u]] = u
      BY <1>0, <1>1, <2>2
    <3>2. ScopeOf[u] # ScopeOf[t]
      BY <1>0, <1>2, <2>2, <3>1
    <3> QED BY <1>0, <1>1, <3>1, <3>2
  <2> QED BY <2>1, <2>2
<1>3. CASE s # "IMPL"
  <2>1. StageTicketStatus(s) = "PLANNING" \/ s \in GateStage
    BY <1>3 DEF Stage, GateStage, StageTicketStatus
  <2>2. ticket[u] \in Implementing
    BY <1>0, <1>1, <2>1 DEF Implementing
  <2> QED BY <1>0, <1>1, <1>3, <2>2
<1> QED BY <1>2, <1>3

\* Stopping the wave stops every ticket that implements.
LEMMA StopLease ==
    ASSUME LaunchInv, LeaseInv, StopForBudget
    PROVE  ImplHoldsLease'
<1>1. CASE waveStatus \in TerminalWave
  BY <1>1 DEF StopForBudget, leaseVars, LeaseInv, ImplHoldsLease
<1>2. CASE waveStatus \notin TerminalWave
  <2>1. \A u \in Ticket : ticket'[u] \in TerminalTicket
    BY <1>2 DEF StopForBudget, TerminalTicket
  <2> QED BY <2>1 DEF ImplHoldsLease, TerminalTicket
<1> QED BY <1>1, <1>2

\* A step on behalf of a ticket frees only the lease of a ticket that is over.
LEMMA TicketLease ==
    ASSUME LaunchInv, LeaseInv, NEW t \in Ticket, TicketAction(t)
    PROVE  /\ ImplHoldsLease'
           /\ phase' = "advanceImpl" /\ step' = "dirty" => (lease[ScopeOf[item]] \in {None, item})'
<1>0. /\ ticket \in [Ticket -> TicketStatus] /\ lease \in [Scope -> Ticket \cup {None}]
      /\ ScopeOf \in [Ticket -> Scope] /\ None \notin Ticket
      /\ \A u \in Ticket : ticket[u] \in Implementing => lease[ScopeOf[u]] = u
  BY LedgerAssumption DEF LaunchInv, TypeOK, LedgerTypeOK, LeaseInv, ImplHoldsLease, Implementing
<1>1. CASE UNCHANGED <<ticket, lease>> /\ step' # "dirty"
  BY <1>1 DEF LeaseInv, ImplHoldsLease
<1>2. CASE GateAdmit(t)
  <2>1. UNCHANGED lease /\ step' # "dirty"
    BY <1>2 DEF GateAdmit, Leave, Throw, Goto, leaseVars
  <2>2. \/ UNCHANGED ticket
        \/ \E s \in {"APPROVED", "FAILED", "REVISING"} : ticket' = [ticket EXCEPT ![t] = s]
    BY <1>2 DEF GateAdmit, Decide
  <2> QED BY <1>0, <1>1, <2>1, <2>2 DEF ImplHoldsLease, Implementing
<1>3. CASE AdvanceImpl(t)
  <2>1. /\ UNCHANGED ticket
        /\ lease' = lease \/ (HolderOver(t) /\ lease' = [lease EXCEPT ![ScopeOf[t]] = None])
    BY <1>3 DEF AdvanceImpl
  <2>2. ASSUME NEW u \in Ticket, ticket'[u] \in Implementing PROVE lease'[ScopeOf[u]] = u
    <3>1. ticket[u] \in Implementing /\ lease[ScopeOf[u]] = u
      BY <1>0, <2>1, <2>2
    <3>2. HolderOver(t) => ScopeOf[u] # ScopeOf[t]
      BY <3>1 DEF HolderOver, Holder, TerminalTicket, Implementing
    <3> QED BY <1>0, <2>1, <3>1, <3>2
  <2>3. ASSUME step' = "dirty" PROVE item' = t /\ lease'[ScopeOf[t]] \in {None, t}
    <3>1. /\ item' = t /\ ~LeaseBlocks(t)
          /\ lease' = IF HolderOver(t) THEN [lease EXCEPT ![ScopeOf[t]] = None] ELSE lease
      BY <1>3, <2>3 DEF AdvanceImpl, Leave, Goto, Await
    <3>2. CASE HolderOver(t)
      BY <1>0, <3>1, <3>2
    <3>3. CASE ~HolderOver(t)
      <4>1. lease[ScopeOf[t]] \in {None, t}
        BY <1>0, <3>1, <3>3 DEF HolderOver, LeaseBlocks, Holder
      <4> QED BY <3>1, <3>3, <4>1
    <3> QED BY <3>2, <3>3
  <2> QED BY <2>2, <2>3 DEF ImplHoldsLease, Implementing
<1>4. CASE AdvancePlan(t)
  <2>1. phase' = "advancePlan" /\ UNCHANGED <<ticket, lease>>
    BY <1>4 DEF AdvancePlan, Leave, Goto, Await, ledgerVars, leaseVars
  <2> QED BY <2>1 DEF LeaseInv, ImplHoldsLease
<1>5. CASE PrimaryDirty(t)
  <2>1. step' # "dirty" /\ UNCHANGED lease /\ ticket' = [ticket EXCEPT ![t] = "FAILED"]
    BY <1>5 DEF PrimaryDirty, Leave, Goto, leaseVars
  <2> QED BY <1>0, <2>1 DEF ImplHoldsLease, Implementing
<1>6. ASSUME NEW s \in Stage, NEW queued, NEW stopped, NEW deferred,
             Queue(t, s, queued, stopped, deferred),
             queued \/ stopped \/ deferred => step' = "next",
             s = "IMPL" => lease[ScopeOf[t]] \in {None, t}
      PROVE  ImplHoldsLease' /\ step' # "dirty"
  <2>1. step' = "next"
    BY <1>6 DEF Queue, Throw, Goto
  <2>2. UNCHANGED <<ticket, lease>> \/ QueuedHere(t, s) \/ StopForBudget
    BY <1>6 DEF Queue, QueuedElsewhere, leaseVars
  <2> QED BY <1>1, <1>6, <2>1, <2>2, AdmitLease, StopLease
<1>7. CASE (GateQueue(t) \/ UxQueue(t)) /\ ~SkipTicket(t)
  <2>1. \E s \in GateStage : \E queued :
            /\ Queue(t, s, queued, Goto("complete", {}), Goto(phase, {}))
            /\ queued => step' = "next"
    BY <1>7 DEF GateQueue, UxQueue, GateStage, Goto
  <2>2. PICK s \in GateStage : \E queued :
            /\ Queue(t, s, queued, Goto("complete", {}), Goto(phase, {}))
            /\ queued => step' = "next"
    BY <2>1
  <2>3. s \in Stage /\ s # "IMPL"
    BY DEF GateStage, Stage
  <2> QED BY <1>6, <2>2, <2>3 DEF Goto
<1>8. CASE QueueImpl(t)
  <2>1. lease[ScopeOf[t]] \in {None, t}
    BY <1>8 DEF QueueImpl, LeaseInv
  <2>2. \E queued : /\ Queue(t, "IMPL", queued, Goto("unlaunchable", {}), EnterPlans)
                    /\ queued => step' = "next"
    BY <1>8 DEF QueueImpl, Goto
  <2> QED BY <1>6, <2>1, <2>2 DEF Goto, EnterPlans, Stage
<1>9. CASE QueuePlan(t)
  <2>1. \E queued : /\ Queue(t, "PLAN", queued, Goto("unlaunchable", {}), Goto("unlaunchable", {}))
                    /\ queued => step' = "next"
    BY <1>9 DEF QueuePlan, Goto
  <2> QED BY <1>6, <2>1 DEF Goto, Stage
<1>10. CASE SkipTicket(t)
  BY <1>1, <1>10 DEF SkipTicket, Leave, Goto, ledgerVars, leaseVars
<1> QED BY <1>2, <1>3, <1>4, <1>5, <1>7, <1>8, <1>9, <1>10 DEF TicketAction

\* The other steps of the ticker sweep leases, and spare those of tickets that implement.
LEMMA LoopLease ==
    ASSUME LaunchInv, LeaseInv, LoopEnd \/ TickBegin \/ TickDeadline \/ Crash
    PROVE  /\ ImplHoldsLease'
           /\ step' = "next" \/ (phase' = phase /\ phase \in {"idle", "dead"})
<1>0. /\ ticket \in [Ticket -> TicketStatus]
      /\ \A u \in Ticket : ticket[u] \in Implementing => lease[ScopeOf[u]] = u
  BY DEF LaunchInv, TypeOK, LedgerTypeOK, LeaseInv, ImplHoldsLease, Implementing
<1>1. ASSUME \/ UNCHANGED lease
             \/ \E swept \in SUBSET Scope : lease' = LeasesSwept(ticket, swept),
             \A u \in Ticket : ticket'[u] \in {ticket[u]} \cup TerminalTicket
      PROVE  ImplHoldsLease'
  <2> SUFFICES ASSUME NEW u \in Ticket, ticket'[u] \in Implementing PROVE lease'[ScopeOf[u]] = u
    BY DEF ImplHoldsLease, Implementing
  <2>1. ticket[u] \in Implementing /\ ticket[u] \in ImplActive
    BY <1>1 DEF Implementing, TerminalTicket, ImplActive
  <2>2. lease[ScopeOf[u]] = u
    BY <1>0, <2>1
  <2> QED BY <1>1, <2>1, <2>2, SweepKeeps
<1>2. CASE TickDeadline
  BY <1>2, StopLease DEF TickDeadline, tickVars
<1>3. CASE ~TickDeadline
  <2>1. step' = "next"
    <3> USE DEF Goto
    <3>1. CASE EndReconcile \/ EndDispatch \/ EndObserve \/ EndWatchdog \/ TickBegin
      BY <3>1 DEF EndReconcile, EndDispatch, EndObserve, EndWatchdog, TickBegin
    <3>2. CASE EndCloseout \/ EndGateQueue \/ EndUxQueue
      BY <3>2 DEF EndCloseout, EndGateQueue, EndUxQueue, EnterUxQueue, EnterQueue, PastGate,
                  EnterAdvance
    <3>3. CASE EndGateObserve \/ EndGateAdmit \/ EndAdvance \/ FailUnlaunchable
      BY <3>3 DEF EndGateObserve, EndGateAdmit, EndAdvance, EnterPlans, FailUnlaunchable
    <3>4. CASE EndTick \/ EndIsolate \/ Crash
      BY <3>4 DEF EndTick, EndIsolate, Crash, RestAs
    <3> QED BY <1>3, <3>1, <3>2, <3>3, <3>4 DEF LoopEnd
  <2>2. \/ UNCHANGED lease
        \/ \E swept \in SUBSET Scope : lease' = LeasesSwept(ticket, swept)
    BY <1>3 DEF LoopEnd, EndReconcile, EndDispatch, EndObserve, EndWatchdog, EndCloseout,
         EndGateQueue, EndUxQueue, EndGateObserve, EndGateAdmit, EndAdvance, FailUnlaunchable,
         EndTick, EndIsolate, TickBegin, Crash, ReleaseInactive, ledgerVars, leaseVars
  <2>3. \A u \in Ticket : ticket'[u] \in {ticket[u]} \cup TerminalTicket
    <3>1. CASE FailUnlaunchable
      BY <3>1 DEF FailUnlaunchable, TerminalTicket
    <3>2. CASE EndTick
      <4>1. ticket' \in {ticket, DependentsFailed}
        BY <3>2 DEF EndTick, MaybeCompleteWave
      <4> QED BY <4>1 DEF DependentsFailed, TerminalTicket
    <3>3. CASE ~(FailUnlaunchable \/ EndTick)
      BY <1>3, <3>3 DEF LoopEnd, EndReconcile, EndDispatch, EndObserve, EndWatchdog, EndCloseout,
         EndGateQueue, EndUxQueue, EndGateObserve, EndGateAdmit, EndAdvance,
         EndIsolate, TickBegin, Crash, ledgerVars
    <3> QED BY <3>1, <3>2, <3>3
  <2> QED BY <1>1, <2>1, <2>2, <2>3
<1> QED BY <1>2, <1>3

\* LeaseInv is kept where no wave is cancelled.
LEMMA LeaseStep ==
    ASSUME "cancel" \notin Commands, LaunchInv, RowsInv, LeaseInv, [Next]_allVars
    PROVE  LeaseInv'
<1>0. ~cancelling /\ Alive
  BY DEF LeaseInv, RowsInv
<1>1. ASSUME NEW k \in Key, RowAction(k), UNCHANGED cancelling PROVE LeaseInv'
  <2>1. ~(phase' = "advanceImpl" /\ step' = "dirty")
    BY <1>0, <1>1, RowPlace DEF RowPhase, RowStep, Throw, Leave, Goto
  <2> QED BY <1>0, <1>1, <2>1, RowLease, RowFence DEF LeaseInv
<1>2. ASSUME NEW t \in Ticket, TicketAction(t), UNCHANGED cancelling PROVE LeaseInv'
  <2>1. step' # "commit"
    BY <1>2, TicketPlace DEF Throw, Goto
  <2> QED BY <1>0, <1>2, <2>1, TicketLease DEF LeaseInv
<1>3. ASSUME LoopEnd \/ TickBegin \/ TickDeadline \/ Crash, UNCHANGED cancelling
      PROVE  LeaseInv'
  <2>1. ImplHoldsLease' /\ (step' = "next" \/ (phase' = phase /\ phase \in {"idle", "dead"}))
    BY <1>3, LoopLease
  <2>2. phase \in {"idle", "dead"} => step \notin {"commit"}
    BY DEF LaunchInv, TypeOK, TickTypeOK, RowStep, RowPhase
  <2>3. step' = "next" \/ UNCHANGED step
    BY <1>3, <2>1 DEF LoopEnd, EndReconcile, EndDispatch, EndObserve, EndWatchdog, EndCloseout,
         EndGateQueue, EndUxQueue, EndGateObserve, EndGateAdmit, EndAdvance, FailUnlaunchable,
         EndTick, EndIsolate, TickBegin, TickDeadline, Crash, RestAs, Goto, tickVars
  <2> QED BY <1>0, <1>3, <2>1, <2>2, <2>3 DEF LeaseInv
<1>4. ASSUME Operator \/ (\E k \in Key : WorkerStep(k)) \/ UNCHANGED allVars PROVE LeaseInv'
  <2>1. UNCHANGED <<lease, phase, step, item, truth, cancelling>>
    <3>1. CASE Operator
      BY <1>0, <3>1 DEF Operator, Freeze, Start, Pause, Resume, SetWave, Approve, Revise, Judge,
         CancelWave, CancelTickets, CancelCrash, leaseVars, tickVars
    <3>2. CASE (\E k \in Key : WorkerStep(k)) \/ UNCHANGED allVars
      BY <3>2 DEF WorkerStep, WriteReview, WorkerSucceeds, WorkerFails, WorkerEnds, allVars, vars,
                  ledgerVars, leaseVars, tickVars
    <3> QED BY <1>4, <3>1, <3>2
  <2>2. \/ UNCHANGED ticket
        \/ \E t \in Ticket : \E s \in {"APPROVED", "REVISING"} : ticket' = [ticket EXCEPT ![t] = s]
    <3>1. CASE Operator
      BY <1>0, <3>1 DEF Operator, Freeze, Start, Pause, Resume, SetWave, Approve, Revise, Judge,
         CancelWave, CancelTickets, CancelCrash
    <3>2. CASE (\E k \in Key : WorkerStep(k)) \/ UNCHANGED allVars
      BY <3>2 DEF WorkerStep, WriteReview, WorkerSucceeds, WorkerFails, WorkerEnds, allVars, vars,
                  ledgerVars
    <3> QED BY <1>4, <3>1, <3>2
  <2>3. ticket \in [Ticket -> TicketStatus]
    BY DEF LaunchInv, TypeOK, LedgerTypeOK
  <2>4. ImplHoldsLease'
    BY <2>1, <2>2, <2>3 DEF LeaseInv, ImplHoldsLease
  <2> QED BY <2>1, <2>4 DEF LeaseInv
<1> QED BY <1>1, <1>2, <1>3, <1>4 DEF Next, Ticker, TickerDies, Tick

\* While a ticket implements, verifies or lands, its scope's writer lease is its own, unless
\* the wave is cancelled: no sweep, stop, failed landing or other ticket's admission takes it,
\* at whatever await the ticker is.
THEOREM ImplementerHoldsLease ==
    ASSUME "cancel" \notin Commands
    PROVE  Spec => []ImplHoldsLease
<1>1. Init => LeaseInv
  BY DEF Init, LeaseInv, ImplHoldsLease
<1>2. LaunchInv /\ RowsInv /\ LeaseInv /\ [Next]_allVars => LeaseInv'
  BY LeaseStep
<1>3. LeaseInv => ImplHoldsLease
  BY DEF LeaseInv
<1> QED BY RowsInvariant, <1>1, <1>2, <1>3, PTL DEF Spec
=============================================================================
