-------------------------- MODULE WaveRunnerProofs --------------------------
(***************************************************************************)
(* Type correctness, one launch per key, the bound on launches and the      *)
(* single resolution of reservations, for every value of the constants.     *)
(* TypeOK is inductive; its three parts (ledger, world, ticker) are proved   *)
(* one after the other, each with one step per action that can disturb it.   *)
(* LaunchInv is the inductive invariant behind the rest:                     *)
(* KeysFresh alone is not inductive, because a row may only be claimed,      *)
(* launched or settled if it exists and is the one at hand (RowsInHand), and *)
(* because an attempt number is fresh only as long as the rows before it     *)
(* have no gap.                                                             *)
(***************************************************************************)
EXTENDS WaveRunner, WellFoundedInduction, FiniteSetTheorems, TLAPS

----------------------------------------------------------------------------
(* Numbers. *)

\* Every set of natural numbers that is not empty has a least element.
LEMMA LeastNatural ==
    ASSUME NEW T, T \subseteq Nat, T # {}
    PROVE  \E n \in T : \A m \in T : n <= m
<1> DEFINE Less == {ss \in Nat \X Nat : ss[1] < ss[2]}
<1>1. IsWellFoundedOn(Less, Nat)
  BY NatLessThanWellFounded DEF OpToRel
<1> HIDE DEF Less
<1>2. PICK n \in T : \A m \in T : ~(<<m, n>> \in Less)
  BY <1>1, WFMin
<1>3. ASSUME NEW m \in T PROVE n <= m
  <2>1. ~(<<m, n>> \in Less)
    BY <1>2
  <2> QED BY <2>1 DEF Less
<1> QED BY <1>3

\* Max returns the greatest element of a set that is bounded and not empty.
LEMMA MaxOfBounded ==
    ASSUME NEW N \in Nat, NEW S \in SUBSET (0 .. N), S # {}
    PROVE  Max(S) \in S /\ \A n \in S : n <= Max(S)
<1> DEFINE T == {n \in 0 .. N : N - n \in S}
<1>1. T \subseteq Nat /\ T # {}
  <2>1. PICK x \in S : TRUE
    OBVIOUS
  <2>2. x \in 0 .. N /\ N - (N - x) = x
    OBVIOUS
  <2>3. N - x \in T
    BY <2>2
  <2>4. T \subseteq Nat
    OBVIOUS
  <2> QED BY <2>3, <2>4
<1>2. PICK n \in T : \A m \in T : n <= m
  BY <1>1, LeastNatural
<1>3. N - n \in S
  OBVIOUS
<1>4. ASSUME NEW y \in S PROVE N - n >= y
  <2>1. y \in 0 .. N /\ N - (N - y) = y /\ N - y \in 0 .. N
    OBVIOUS
  <2>2. N - y \in T
    BY <2>1
  <2>3. n <= N - y /\ n \in 0 .. N
    BY <2>2, <1>2
  <2> QED BY <2>1, <2>3
<1> QED BY <1>3, <1>4 DEF Max

\* The last successful PLAN attempt is an attempt, or 0 when there is none.
LEMMA LatestPlanType ==
    ASSUME NEW t \in Ticket
    PROVE  LatestPlan(t) \in Attempt \cup {0}
<1> DEFINE A == {0} \cup {k.attempt : k \in {p \in RowsOf(t, "PLAN") :
                                               stageRun[p] = "SUCCEEDED"}}
<1>1. MaxRetries \in Nat
  BY LedgerAssumption
<1>2. A \in SUBSET (0 .. (MaxRetries + 1)) /\ A # {}
  <2>1. ASSUME NEW k \in RowsOf(t, "PLAN") PROVE k.attempt \in 0 .. (MaxRetries + 1)
    BY <1>1 DEF RowsOf, Rows, Key, Attempt
  <2> QED BY <2>1, <1>1
<1>3. Max(A) \in A
  <2> HIDE DEF A
  <2>1. MaxRetries + 1 \in Nat
    BY <1>1
  <2> QED BY <1>2, <2>1, MaxOfBounded
<1> QED BY <1>1, <1>2, <1>3 DEF LatestPlan, Attempt

----------------------------------------------------------------------------
(* The operators that write to the ledger keep its type. *)

\* A step that leaves the ledger alone.
LEMMA LedgerFrame ==
    ASSUME LedgerTypeOK, UNCHANGED ledgerVars
    PROVE  LedgerTypeOK'
  BY DEF LedgerTypeOK, ledgerVars, rowVars, gateVars, leaseVars

\* The lease tables that sweeping and releasing compute.
LEMMA LeasesType ==
    ASSUME LedgerTypeOK, NEW st \in [Ticket -> TicketStatus], NEW swept,
           NEW t \in Ticket, NEW s
    PROVE  /\ LeasesSwept(st, swept) \in [Scope -> Ticket \cup {None}]
           /\ LeaseAfter(t, s) \in [Scope -> Ticket \cup {None}]
           /\ LandSwept(st) \in Ticket \cup {None}
  BY DEF LedgerTypeOK, LeasesSwept, LeaseAfter, LandSwept

\* releaseInactiveWriterLeases keeps the types of the lease tables.
LEMMA ReleaseType ==
    ASSUME LedgerTypeOK, NEW st \in [Ticket -> TicketStatus], ReleaseInactive(st)
    PROVE  lease' \in [Scope -> Ticket \cup {None}] /\ landLock' \in Ticket \cup {None}
  BY DEF LedgerTypeOK, ReleaseInactive, LeasesSwept, LandSwept

\* The budget states that settling, failing and closing compute.
LEMMA BudgetType ==
    ASSUME LedgerTypeOK, NEW k \in Key
    PROVE  /\ ReservationsClosed \in [Key -> BudgetState \cup {"NONE"}]
           /\ MarkIndeterminate(budget[k]) \in BudgetState \cup {"NONE"}
           /\ ApplyUsage(budget[k]) \in BudgetState \cup {"NONE"}
  BY DEF LedgerTypeOK, ReservationsClosed, MarkIndeterminate, ApplyUsage, BudgetState

\* The admission transaction of queueStage keeps the type of the ledger.
LEMMA InsertRowType ==
    ASSUME LedgerTypeOK, NEW t \in Ticket, NEW s \in Stage, InsertRow(t, s),
           UNCHANGED <<waveStatus, cancelRequested, revises>>,
           hopLaunch' \subseteq Ticket \X GateStage \X (Attempt \cup {0})
    PROVE  LedgerTypeOK'
<1> DEFINE k == NextKey(t, s)
<1>1. /\ outbox' = [outbox EXCEPT ![k] = "PENDING"]
      /\ stageRun' = [stageRun EXCEPT ![k] = "PENDING"]
      /\ budget' = [budget EXCEPT ![k] = "RESERVED"]
  BY DEF InsertRow
<1> HIDE DEF k
<1>2. /\ outbox' \in [Key -> OutboxState \cup {"NONE"}]
      /\ stageRun' \in [Key -> StageStatus \cup {"NONE"}]
      /\ budget' \in [Key -> BudgetState \cup {"NONE"}]
  BY <1>1 DEF LedgerTypeOK, OutboxState, StageStatus, BudgetState
<1>3. ticket' \in [Ticket -> TicketStatus]
  BY DEF LedgerTypeOK, InsertRow, TicketStatus, StageTicketStatus
<1>4. lease' \in [Scope -> Ticket \cup {None}]
  BY DEF LedgerTypeOK, InsertRow
<1> QED BY <1>2, <1>3, <1>4 DEF LedgerTypeOK, InsertRow

\* markLaunched keeps the type of the ledger.
LEMMA MarkLaunchedType ==
    ASSUME LedgerTypeOK, NEW k \in Key, MarkLaunched(k),
           UNCHANGED <<waveStatus, cancelRequested, ticket, gateVars, leaseVars>>
    PROVE  LedgerTypeOK'
  BY DEF LedgerTypeOK, MarkLaunched, OutboxState, StageStatus, gateVars, leaseVars

\* failLaunchWithoutReceipt keeps the type of the ledger, whether it commits or throws.
LEMMA FailLaunchType ==
    ASSUME LedgerTypeOK, NEW k \in Key, NEW fatal \in BOOLEAN,
           FailLaunch(k, fatal) \/ UNCHANGED <<rowVars, ticket>>,
           UNCHANGED <<waveStatus, cancelRequested, gateVars, leaseVars>>
    PROVE  LedgerTypeOK'
<1>1. CASE UNCHANGED <<rowVars, ticket>>
  BY <1>1 DEF LedgerTypeOK, rowVars, gateVars, leaseVars
<1>2. CASE FailLaunch(k, fatal)
  <2>1. DeathStatus(k, fatal) \in TicketStatus
    BY DEF DeathStatus, Rearm, TicketStatus, Key, Stage, GateStage
  <2> QED BY <1>2, <2>1, BudgetType
          DEF LedgerTypeOK, FailLaunch, OutboxState, StageStatus, gateVars, leaseVars
<1> QED BY <1>1, <1>2

\* So does closing a row in settleOutbox, whatever follows for the ticket and the wave.
LEMMA CloseRowType ==
    ASSUME LedgerTypeOK, NEW k \in Key, NEW result \in StageStatus, CloseRow(k, result),
           waveStatus' \in WaveStatus, UNCHANGED cancelRequested,
           ticket' \in [Ticket -> TicketStatus],
           hopLaunch' = hopLaunch, revises' \in [Ticket -> [GateStage -> Nat]],
           lease' \in [Scope -> Ticket \cup {None}], UNCHANGED landLock
    PROVE  LedgerTypeOK'
  BY BudgetType DEF LedgerTypeOK, CloseRow, OutboxState

\* stopForBudget keeps the type of the ledger.
LEMMA StopForBudgetType ==
    ASSUME LedgerTypeOK, StopForBudget,
           UNCHANGED <<cancelRequested, outbox, stageRun, receipt, launches, gateVars>>
    PROVE  LedgerTypeOK'
<1> DEFINE st == [t \in Ticket |-> IF ticket[t] \in TerminalTicket THEN ticket[t]
                                     ELSE "BUDGET_STOPPED"]
<1>1. st \in [Ticket -> TicketStatus]
  BY DEF LedgerTypeOK, TicketStatus
<1>2. CASE waveStatus \in TerminalWave
  BY <1>2 DEF LedgerTypeOK, StopForBudget, gateVars, leaseVars
<1>3. CASE waveStatus \notin TerminalWave
  <2>1. /\ waveStatus' = "BUDGET_STOPPED" /\ ticket' = st
        /\ budget' = ReservationsClosed /\ ReleaseInactive(st)
    BY <1>3 DEF StopForBudget
  <2> HIDE DEF st
  <2>2. lease' \in [Scope -> Ticket \cup {None}] /\ landLock' \in Ticket \cup {None}
    BY <1>1, <2>1, ReleaseType
  <2>3. budget' \in [Key -> BudgetState \cup {"NONE"}]
    BY <2>1 DEF LedgerTypeOK, ReservationsClosed, BudgetState
  <2> QED BY <1>1, <2>1, <2>2, <2>3 DEF LedgerTypeOK, WaveStatus, gateVars
<1> QED BY <1>2, <1>3

\* maybeCompleteWave writes a wave status, ticket statuses and budget states.
LEMMA MaybeCompleteType ==
    ASSUME LedgerTypeOK, MaybeCompleteWave
    PROVE  /\ waveStatus' \in WaveStatus
           /\ ticket' \in [Ticket -> TicketStatus]
           /\ budget' \in [Key -> BudgetState \cup {"NONE"}]
<1>1. DependentsFailed \in [Ticket -> TicketStatus]
  BY DEF DependentsFailed, LedgerTypeOK, TicketStatus
<1>2. CompletedStatus(DependentsFailed) \in WaveStatus
  BY DEF CompletedStatus, WaveStatus
<1>3. ReservationsClosed \in [Key -> BudgetState \cup {"NONE"}]
  BY DEF LedgerTypeOK, ReservationsClosed, BudgetState
<1> QED BY <1>1, <1>2, <1>3 DEF MaybeCompleteWave, LedgerTypeOK

\* setWaveRunning writes a wave status.
LEMMA GateOpenedType ==
    ASSUME LedgerTypeOK
    PROVE  GateOpened \in WaveStatus
  BY DEF LedgerTypeOK, GateOpened, WaveStatus

\* A gate decision writes statuses and counts revises.
LEMMA DecideType ==
    ASSUME LedgerTypeOK, NEW t \in Ticket, NEW gate \in GateStage, NEW decision,
           Decide(t, gate, decision)
    PROVE  /\ ticket' \in [Ticket -> TicketStatus]
           /\ waveStatus' \in WaveStatus
           /\ revises' \in [Ticket -> [GateStage -> Nat]]
           /\ hopLaunch' = hopLaunch
<1>1. ticket' \in [Ticket -> TicketStatus]
  BY DEF LedgerTypeOK, Decide, TicketStatus
<1>2. revises' \in [Ticket -> [GateStage -> Nat]]
  BY DEF LedgerTypeOK, Decide
<1> QED BY <1>1, <1>2, GateOpenedType DEF LedgerTypeOK, Decide

\* applyPlanSuccess writes statuses.
LEMMA PlanSettledType ==
    ASSUME LedgerTypeOK, NEW t \in Ticket, NEW ok \in BOOLEAN, PlanSettled(t, ok)
    PROVE  ticket' \in [Ticket -> TicketStatus] /\ waveStatus' \in WaveStatus
<1>1. PlanOutcome(t, ok)[1] \in TicketStatus /\ PlanOutcome(t, ok)[2] \in WaveStatus
  BY DEF LedgerTypeOK, PlanOutcome, TicketStatus, WaveStatus
<1> QED BY <1>1 DEF LedgerTypeOK, PlanSettled

----------------------------------------------------------------------------
(* The ledger keeps its type in every step. *)

\* The launch events keep their type.
HopType == hopLaunch' \subseteq Ticket \X GateStage \X (Attempt \cup {0})

\* The outcomes of queueStageOrBudget, as far as the ledger is concerned.
QueueLedger(t, s) ==
    \/ QueuedHere(t, s) /\ UNCHANGED waveStatus /\ HopType
    \/ UNCHANGED <<waveStatus, rowVars, ticket, leaseVars>> /\ HopType
    \/ StopForBudget /\ UNCHANGED <<outbox, stageRun, receipt, launches, hopLaunch>>

\* Every outcome of queueStageOrBudget keeps the type of the ledger.
LEMMA QueueLedgerType ==
    ASSUME LedgerTypeOK, NEW t \in Ticket, NEW s \in Stage, QueueLedger(t, s),
           UNCHANGED <<cancelRequested, revises>>
    PROVE  LedgerTypeOK'
<1>1. CASE QueuedHere(t, s) /\ UNCHANGED waveStatus /\ HopType
  BY <1>1, InsertRowType DEF QueuedHere, HopType
<1>2. CASE UNCHANGED <<waveStatus, rowVars, ticket, leaseVars>> /\ HopType
  BY <1>2 DEF LedgerTypeOK, rowVars, leaseVars, HopType
<1>3. CASE StopForBudget /\ UNCHANGED <<outbox, stageRun, receipt, launches, hopLaunch>>
  BY <1>3, StopForBudgetType DEF gateVars
<1> QED BY <1>1, <1>2, <1>3 DEF QueueLedger

\* A launch event names a plan attempt.
LEMMA HopQueuedType ==
    ASSUME LedgerTypeOK, NEW t \in Ticket, NEW gate \in GateStage, HopQueued(t, gate)
    PROVE  HopType
  BY LatestPlanType DEF LedgerTypeOK, HopQueued, HopType

\* Steps on behalf of a ticket keep the type of the ledger.
LEMMA TicketLedgerType ==
    ASSUME TypeOK, NEW t \in Ticket, TicketAction(t)
    PROVE  LedgerTypeOK'
<1> USE DEF TypeOK
<1>1. CASE GateQueue(t)
  <2>1. CASE WantsReview(t)
    <3>1. QueueLedger(t, "REVIEW") /\ UNCHANGED <<cancelRequested, revises>>
      BY <1>1, <2>1, HopQueuedType
         DEF GateQueue, Queue, QueueLedger, QueuedElsewhere, GateStage, LedgerTypeOK, HopType
    <3> QED BY <3>1, QueueLedgerType DEF Stage
  <2>2. CASE ~WantsReview(t)
    BY <1>1, <2>2, LedgerFrame DEF GateQueue, SkipTicket
  <2> QED BY <2>1, <2>2
<1>2. CASE UxQueue(t)
  <2>1. CASE WantsUxReview(t)
    <3>1. QueueLedger(t, "UX_REVIEW") /\ UNCHANGED <<cancelRequested, revises>>
      BY <1>2, <2>1, HopQueuedType
         DEF UxQueue, Queue, QueueLedger, QueuedElsewhere, GateStage, LedgerTypeOK, HopType
    <3> QED BY <3>1, QueueLedgerType DEF Stage
  <2>2. CASE ~WantsUxReview(t)
    BY <1>2, <2>2, LedgerFrame DEF UxQueue, SkipTicket
  <2> QED BY <2>1, <2>2
<1>3. CASE GateAdmit(t)
  <2>1. /\ ticket' \in [Ticket -> TicketStatus]
        /\ waveStatus' \in WaveStatus
        /\ revises' \in [Ticket -> [GateStage -> Nat]]
        /\ hopLaunch' = hopLaunch
    <3> DEFINE plan == PlanDecision(t, {})
               gate == IF plan = "none" THEN "UX_REVIEW" ELSE "REVIEW"
               decision == IF plan = "none" THEN UxDecision(t) ELSE plan
    <3>1. gate \in GateStage
      BY DEF GateStage
    <3>2. CASE decision = "throw"
      BY <1>3, <3>1, <3>2 DEF GateAdmit, LedgerTypeOK
    <3>3. CASE decision # "throw"
      <4>1. Decide(t, gate, decision)
        BY <1>3, <3>3 DEF GateAdmit
      <4> HIDE DEF gate, decision
      <4> QED BY <3>1, <4>1, DecideType
    <3> QED BY <3>2, <3>3
  <2> QED BY <1>3, <2>1 DEF GateAdmit, LedgerTypeOK, rowVars, leaseVars
<1>4. CASE AdvanceImpl(t)
  BY <1>4, LedgerAssumption DEF AdvanceImpl, LedgerTypeOK, rowVars, gateVars
<1>5. CASE AdvancePlan(t)
  BY <1>5, LedgerFrame DEF AdvancePlan
<1>6. CASE PrimaryDirty(t)
  BY <1>6 DEF PrimaryDirty, LedgerTypeOK, TicketStatus, rowVars, gateVars, leaseVars
<1>7. CASE QueueImpl(t)
  <2>1. QueueLedger(t, "IMPL") /\ UNCHANGED <<cancelRequested, revises>>
    BY <1>7 DEF QueueImpl, Queue, QueueLedger, QueuedElsewhere, LedgerTypeOK, HopType
  <2> QED BY <2>1, QueueLedgerType DEF Stage
<1>8. CASE QueuePlan(t)
  <2>1. QueueLedger(t, "PLAN") /\ UNCHANGED <<cancelRequested, revises>>
    BY <1>8 DEF QueuePlan, Queue, QueueLedger, QueuedElsewhere, LedgerTypeOK, HopType
  <2> QED BY <2>1, QueueLedgerType DEF Stage
<1> QED BY <1>1, <1>2, <1>3, <1>4, <1>5, <1>6, <1>7, <1>8 DEF TicketAction

\* Steps on behalf of a launch row keep the type of the ledger.
LEMMA RowLedgerType ==
    ASSUME TypeOK, NEW k \in Key, RowAction(k)
    PROVE  LedgerTypeOK'
<1> USE DEF TypeOK
<1> k.ticket \in Ticket /\ k.stage \in Stage
  BY DEF Key
<1>1. CASE \/ InspectReconciled(k) \/ ObserveRow(k)
  BY <1>1 DEF InspectReconciled, ObserveRow, Inspected, LedgerTypeOK, OutboxState,
              rowVars, gateVars, leaseVars
<1>2. CASE \/ PrepareError(k) \/ Spawn(k) \/ LinkError(k) \/ CancelHung(k) \/ VerifyImpl(k)
           \/ SettleAgain(k) \/ SettleThrows(k) \/ CloseoutRow(k) \/ DeferLand(k) \/ Land(k)
  BY <1>2, LedgerFrame DEF PrepareError, Spawn, LinkError, CancelHung, VerifyImpl, SettleAgain,
                           SettleThrows, CloseoutRow, DeferLand, Land
<1>3. CASE \/ ReconcileRow(k) \/ ClaimRow(k) \/ RefuseHandoff(k)
  BY <1>3 DEF ReconcileRow, ClaimRow, RefuseHandoff, LedgerTypeOK, OutboxState,
              rowVars, gateVars, leaseVars
<1>4. CASE \/ Recovered(k) \/ StoreReceipt(k)
  <2>1. MarkLaunched(k) \/ UNCHANGED rowVars
    BY <1>4 DEF Recovered, StoreReceipt
  <2>2. UNCHANGED <<waveStatus, cancelRequested, ticket, gateVars, leaseVars>>
    BY <1>4 DEF Recovered, StoreReceipt
  <2> QED BY <2>1, <2>2, MarkLaunchedType, LedgerFrame DEF ledgerVars
<1>5. CASE \/ LostSpawn(k) \/ LaunchError(k) \/ Isolate(k)
  <2>1. PICK fatal \in BOOLEAN : FailLaunch(k, fatal) \/ UNCHANGED <<rowVars, ticket>>
    BY <1>5 DEF LostSpawn, LaunchError, Isolate, FailOrThrow, Deaths
  <2> QED BY <1>5, <2>1, FailLaunchType DEF LostSpawn, LaunchError, Isolate
<1>6. CASE SettleDeath(k)
  <2> DEFINE after == IF cancelRequested THEN "CANCELLED" ELSE DeathStatus(k, Fatal)
  <2>1. after \in TicketStatus
    BY DEF DeathStatus, Rearm, TicketStatus, Stage, GateStage
  <2>2. ticket' = [ticket EXCEPT ![k.ticket] = after]
    BY <1>6 DEF SettleDeath
  <2>3. lease' = LeaseAfter(k.ticket, after) \/ lease' = lease
    BY <1>6 DEF SettleDeath
  <2> HIDE DEF after
  <2>4. lease' \in [Scope -> Ticket \cup {None}]
    BY <2>3 DEF LedgerTypeOK, LeaseAfter
  <2>5. ticket' \in [Ticket -> TicketStatus]
    BY <2>1, <2>2 DEF LedgerTypeOK
  <2>6. waveStatus' \in WaveStatus
    BY <1>6, GateOpenedType DEF SettleDeath, LedgerTypeOK
  <2>7. CloseRow(k, "FAILED")
    BY <1>6 DEF SettleDeath
  <2>8. UNCHANGED <<cancelRequested, gateVars, landLock>>
    BY <1>6 DEF SettleDeath
  <2> QED BY <2>4, <2>5, <2>6, <2>7, <2>8, CloseRowType DEF StageStatus, gateVars, LedgerTypeOK
<1>7. CASE SettlePlan(k)
  <2>1. PICK ok \in BOOLEAN : PlanSettled(k.ticket, ok)
    BY <1>7 DEF SettlePlan
  <2>2. ticket' \in [Ticket -> TicketStatus] /\ waveStatus' \in WaveStatus
    BY <2>1, PlanSettledType
  <2>3. UNCHANGED gateVars
    BY <2>1 DEF PlanSettled
  <2> QED BY <1>7, <2>2, <2>3, CloseRowType
          DEF SettlePlan, StageStatus, gateVars, leaseVars, LedgerTypeOK
<1>8. CASE SettleReview(k)
  <2> DEFINE d == IF k.stage = "REVIEW" THEN PlanDecision(k.ticket, {k}) ELSE UxDecision(k.ticket)
  <2>1. Decide(k.ticket, k.stage, d) /\ k.stage \in GateStage
    BY <1>8 DEF SettleReview
  <2> HIDE DEF d
  <2>2. /\ ticket' \in [Ticket -> TicketStatus]
        /\ waveStatus' \in WaveStatus
        /\ revises' \in [Ticket -> [GateStage -> Nat]]
        /\ hopLaunch' = hopLaunch
    BY <2>1, DecideType
  <2> QED BY <1>8, <2>2, CloseRowType DEF SettleReview, StageStatus, leaseVars, LedgerTypeOK
<1>9. CASE SettleImpl(k)
  <2>1. ticket' \in [Ticket -> TicketStatus]
    BY <1>9 DEF SettleImpl, LedgerTypeOK, TicketStatus
  <2> QED BY <1>9, <2>1, CloseRowType
          DEF SettleImpl, StageStatus, gateVars, leaseVars, LedgerTypeOK
<1>10. CASE \/ FinishFromProof(k) \/ RecordLand(k)
  BY <1>10 DEF FinishFromProof, RecordLand, LedgerTypeOK, TicketStatus, LeaseAfter,
               LandLockFreed, rowVars, gateVars
<1>11. CASE \/ StartLand(k) \/ LandThrows(k)
  BY <1>11 DEF StartLand, LandThrows, LedgerTypeOK, LeaseAfter, LandLockFreed, rowVars, gateVars
<1> QED BY <1>1, <1>2, <1>3, <1>4, <1>5, <1>6, <1>7, <1>8, <1>9, <1>10, <1>11 DEF RowAction

\* The ends of the loops, and the beginning and end of a tick, keep it.
LEMMA LoopLedgerType ==
    ASSUME TypeOK, LoopEnd \/ TickBegin \/ TickDeadline \/ Crash
    PROVE  LedgerTypeOK'
<1> USE DEF TypeOK
<1>0. ticket \in [Ticket -> TicketStatus]
  BY DEF LedgerTypeOK
<1>1. CASE \/ EndReconcile \/ EndDispatch \/ EndObserve \/ EndWatchdog \/ EndGateQueue
           \/ EndUxQueue \/ EndGateObserve \/ EndGateAdmit \/ EndAdvance \/ EndIsolate \/ Crash
  BY <1>1, LedgerFrame DEF EndReconcile, EndDispatch, EndObserve, EndWatchdog, EndGateQueue,
                           EndUxQueue, EndGateObserve, EndGateAdmit, EndAdvance, EndIsolate, Crash
<1>2. CASE EndCloseout
  BY <1>0, <1>2, ReleaseType DEF EndCloseout, LedgerTypeOK, rowVars, gateVars
<1>3. CASE FailUnlaunchable
  BY <1>3 DEF FailUnlaunchable, LedgerTypeOK, TicketStatus, rowVars, gateVars, leaseVars
<1>4. CASE EndTick
  BY <1>4, MaybeCompleteType DEF EndTick, LedgerTypeOK, gateVars, leaseVars
<1>5. CASE TickBegin
  <2>1. lease' \in [Scope -> Ticket \cup {None}] /\ landLock' \in Ticket \cup {None}
    BY <1>5 DEF TickBegin, LedgerTypeOK, LeasesSwept, LandSwept
  <2> QED BY <1>5, <2>1 DEF TickBegin, LedgerTypeOK, rowVars, gateVars
<1>6. CASE TickDeadline
  BY <1>6, StopForBudgetType DEF TickDeadline
<1> QED BY <1>1, <1>2, <1>3, <1>4, <1>5, <1>6 DEF LoopEnd

\* Commands and workers keep it.
LEMMA OutsideLedgerType ==
    ASSUME TypeOK, Operator \/ (\E k \in Key : WorkerStep(k))
    PROVE  LedgerTypeOK'
<1> USE DEF TypeOK
<1>1. CASE Freeze \/ Start \/ Pause \/ Resume
  BY <1>1 DEF Freeze, Start, Pause, Resume, SetWave, LedgerTypeOK, WaveStatus,
              rowVars, gateVars, leaseVars
<1>2. ASSUME NEW t \in Ticket, Approve(t) \/ Revise(t) PROVE LedgerTypeOK'
  BY <1>2, GateOpenedType DEF Approve, Revise, Judge, LedgerTypeOK, TicketStatus,
                              rowVars, gateVars, leaseVars
<1>3. CASE CancelWave
  BY <1>3 DEF CancelWave, LedgerTypeOK, WaveStatus, rowVars, gateVars, leaseVars
<1>4. CASE CancelTickets
  <2>1. ticket' \in [Ticket -> TicketStatus]
    BY <1>4 DEF CancelTickets, LedgerTypeOK, TicketStatus
  <2>2. lease' \in [Scope -> Ticket \cup {None}] /\ landLock' \in Ticket \cup {None}
    BY <1>4, <2>1, ReleaseType DEF CancelTickets, LedgerTypeOK, leaseVars
  <2>3. budget' \in [Key -> BudgetState \cup {"NONE"}]
    BY <1>4 DEF CancelTickets, LedgerTypeOK, ReservationsClosed, BudgetState
  <2> QED BY <1>4, <2>1, <2>2, <2>3 DEF CancelTickets, LedgerTypeOK, gateVars
<1>5. CASE CancelCrash
  BY <1>5, LedgerFrame DEF CancelCrash, vars
<1>6. ASSUME NEW k \in Key, WorkerStep(k) PROVE LedgerTypeOK'
  BY <1>6, LedgerFrame DEF WorkerStep, WriteReview, WorkerSucceeds, WorkerFails, WorkerEnds
<1> QED BY <1>1, <1>2, <1>3, <1>4, <1>5, <1>6 DEF Operator

\* Every step keeps the type of the ledger.
LEMMA LedgerType ==
    ASSUME TypeOK, [Next]_allVars
    PROVE  LedgerTypeOK'
<1>1. CASE Ticker \/ TickerDies
  BY <1>1, LoopLedgerType, RowLedgerType, TicketLedgerType DEF Ticker, TickerDies, Tick
<1>2. CASE Operator \/ (\E k \in Key : WorkerStep(k))
  BY <1>2, OutsideLedgerType
<1>3. CASE UNCHANGED allVars
  BY <1>3, LedgerFrame DEF allVars, vars, TypeOK
<1> QED BY <1>1, <1>2, <1>3 DEF Next

----------------------------------------------------------------------------
(* What is outside the ledger keeps its type in every step. *)

\* A step that leaves workers, review files and landings alone.
LEMMA WorldFrame ==
    ASSUME WorldTypeOK, UNCHANGED worldVars
    PROVE  WorldTypeOK'
  BY DEF WorldTypeOK, worldVars

\* Spawning, cancelling and landing keep their types.
LEMMA RowWorldType ==
    ASSUME TypeOK, NEW k \in Key, RowAction(k)
    PROVE  WorldTypeOK'
<1> USE DEF TypeOK
<1>1. CASE Spawn(k)
  BY <1>1 DEF Spawn, WorldTypeOK
<1>2. CASE CancelHung(k)
  BY <1>2 DEF CancelHung, WorldTypeOK
<1>3. CASE Land(k)
  BY <1>3 DEF Land, WorldTypeOK, Key
<1>4. CASE UNCHANGED worldVars
  BY <1>4, WorldFrame
<1> QED BY <1>1, <1>2, <1>3, <1>4
        DEF RowAction, ReconcileRow, Recovered, LostSpawn, InspectReconciled, ObserveRow,
            ClaimRow, PrepareError, RefuseHandoff, LaunchError, StoreReceipt, LinkError,
            VerifyImpl, SettleAgain, SettleThrows, SettleDeath, SettlePlan, SettleReview,
            SettleImpl, CloseoutRow, FinishFromProof, DeferLand, StartLand, LandThrows,
            RecordLand, Isolate

\* Every step keeps the types of workers, review files and landings.
LEMMA WorldType ==
    ASSUME TypeOK, [Next]_allVars
    PROVE  WorldTypeOK'
<1> USE DEF TypeOK
<1>1. ASSUME NEW k \in Key, RowAction(k) PROVE WorldTypeOK'
  BY <1>1, RowWorldType
<1>2. ASSUME NEW t \in Ticket, TicketAction(t) PROVE UNCHANGED worldVars
  BY <1>2 DEF TicketAction, GateQueue, UxQueue, SkipTicket, GateAdmit, AdvanceImpl, AdvancePlan,
              PrimaryDirty, QueueImpl, QueuePlan, Queue
<1>3. CASE LoopEnd \/ TickBegin \/ TickDeadline \/ Crash
  BY <1>3, WorldFrame
     DEF LoopEnd, EndReconcile, EndDispatch, EndObserve, EndWatchdog, EndCloseout, EndGateQueue,
         EndUxQueue, EndGateObserve, EndGateAdmit, EndAdvance, FailUnlaunchable, EndTick,
         EndIsolate, TickBegin, TickDeadline, Crash
<1>4. CASE Operator
  BY <1>4, WorldFrame
     DEF Operator, Freeze, Start, Pause, Resume, SetWave, Approve, Revise, Judge, CancelWave,
         CancelTickets, CancelCrash, vars
<1>5. ASSUME NEW k \in Key, NEW verdict \in Verdicts, WriteReview(k, verdict)
      PROVE  WorldTypeOK'
  <2>1. [verdict |-> verdict, plan |-> LatestPlan(k.ticket)] \in ReviewFile
    BY LatestPlanType, CommandAssumption DEF ReviewFile, Key
  <2> QED BY <1>5, <2>1 DEF WriteReview, WorldTypeOK
<1>6. ASSUME NEW k \in Key, WorkerSucceeds(k) \/ WorkerFails(k) PROVE WorldTypeOK'
  BY <1>6 DEF WorkerSucceeds, WorkerFails, WorkerEnds, WorldTypeOK
<1>7. CASE UNCHANGED allVars
  BY <1>7, WorldFrame DEF allVars, vars
<1> QED BY <1>1, <1>2, <1>3, <1>4, <1>5, <1>6, <1>7, WorldFrame
        DEF Next, Ticker, TickerDies, Tick, WorkerStep

----------------------------------------------------------------------------
(* The ticker keeps its type in every step. *)

\* A step that leaves the ticker alone.
LEMMA TickFrame ==
    ASSUME TickTypeOK, UNCHANGED tickVars
    PROVE  TickTypeOK'
  BY DEF TickTypeOK, tickVars, scratch

\* Entering a loop with items of its kind.
LEMMA GotoType ==
    ASSUME NEW p \in Phase, NEW work, work \subseteq (IF p \in RowPhase THEN Key ELSE Ticket),
           Goto(p, work), idle' \in BOOLEAN, busy' \subseteq Scope
    PROVE  TickTypeOK'
  BY DEF Goto, TickTypeOK, Step, RowStep

\* Going on with the next item of the loop.
LEMMA LeaveType ==
    ASSUME TickTypeOK, NEW x, Leave(x)
    PROVE  TickTypeOK'
  BY DEF Leave, Goto, TickTypeOK, Step, RowStep, scratch

\* Awaiting something on behalf of an item of the loop.
LEMMA AwaitType ==
    ASSUME TickTypeOK, NEW x, NEW s, Await(x, s),
           \/ s \in RowStep /\ phase \in RowPhase /\ x \in Key
           \/ s = "dirty" /\ phase \in TicketPhase /\ x \in Ticket
    PROVE  TickTypeOK'
  BY DEF Await, TickTypeOK, Step, RowStep, scratch

\* The handler of tickLiveWaves works on rows.
LEMMA ThrowType ==
    ASSUME Throw
    PROVE  TickTypeOK'
  BY DEF Throw, Goto, TickTypeOK, Phase, RowPhase, Step, RowStep, RowsIn

\* A tick that is over, or dead, has nothing in hand.
LEMMA RestType ==
    ASSUME NEW p \in {"idle", "dead"}, RestAs(p)
    PROVE  TickTypeOK'
  BY DEF RestAs, Goto, TickTypeOK, Phase, RowPhase, TicketPhase, Step, RowStep

\* The ways into the next loop.
LEMMA EntryType ==
    ASSUME TickTypeOK, LedgerTypeOK,
           \/ EnterAdvance \/ PastGate \/ EnterUxQueue
           \/ EnterPlans /\ idle' \in BOOLEAN /\ busy' \subseteq Scope
           \/ \E p \in {"gateQueue", "uxQueue"}, tickets \in SUBSET Ticket : EnterQueue(p, tickets)
    PROVE  TickTypeOK'
<1>1. CASE EnterPlans /\ idle' \in BOOLEAN /\ busy' \subseteq Scope
  BY <1>1 DEF EnterPlans, Goto, TickTypeOK, Phase, RowPhase, TicketPhase, Step, RowStep
<1>2. ASSUME EnterAdvance PROVE TickTypeOK'
  <2>1. {ScopeOf[k.ticket] : k \in {r \in OpenRows : r.stage = "IMPL"}} \subseteq Scope
    BY LedgerAssumption DEF OpenRows, Rows, Key
  <2> QED BY <1>2, <2>1 DEF EnterAdvance, Goto, TickTypeOK, Phase, RowPhase, TicketPhase, Step,
                            RowStep, scratch
<1>3. ASSUME PastGate PROVE TickTypeOK'
  BY <1>2, <1>3 DEF PastGate, Goto, TickTypeOK, Phase, RowPhase, TicketPhase, Step, RowStep,
                    scratch
<1>4. ASSUME NEW p \in {"gateQueue", "uxQueue"}, NEW tickets \in SUBSET Ticket,
             EnterQueue(p, tickets)
      PROVE  TickTypeOK'
  BY <1>4 DEF EnterQueue, Goto, TickTypeOK, Phase, RowPhase, TicketPhase, Step, RowStep
<1>5. ASSUME EnterUxQueue PROVE TickTypeOK'
  <2>1. {t \in NeedsUx : ticket[t] = "PLAN_REVIEW"} \in SUBSET Ticket
    BY LedgerAssumption
  <2> QED BY <1>3, <1>4, <1>5, <2>1 DEF EnterUxQueue
<1> QED BY <1>1, <1>2, <1>3, <1>4, <1>5

\* Steps on behalf of a launch row keep the type of the ticker.
LEMMA RowTickType ==
    ASSUME TypeOK, NEW k \in Key, RowAction(k)
    PROVE  TickTypeOK'
<1> USE DEF TypeOK
<1>0. /\ phase \in RowPhase => todo \subseteq Key
      /\ step \in RowStep => phase \in RowPhase /\ item \in Key
  BY DEF TickTypeOK
<1>1. CASE \/ ReconcileRow(k) \/ ClaimRow(k) \/ CloseoutRow(k)
  BY <1>1, AwaitType, LeaveType DEF ReconcileRow, ClaimRow, CloseoutRow, Dispatching, RowPhase,
                                    RowStep
<1>2. CASE \/ Recovered(k) \/ StoreReceipt(k) \/ PrepareError(k) \/ LinkError(k)
           \/ RefuseHandoff(k) \/ SettleThrows(k) \/ FinishFromProof(k) \/ DeferLand(k)
           \/ LandThrows(k) \/ RecordLand(k)
  BY <1>2, LeaveType, ThrowType DEF Recovered, StoreReceipt, PrepareError, LinkError,
     RefuseHandoff, SettleThrows, FinishFromProof, DeferLand, LandThrows, RecordLand
<1>3. CASE \/ LostSpawn(k) \/ LaunchError(k)
  BY <1>3, LeaveType, ThrowType DEF LostSpawn, LaunchError, FailOrThrow
<1>4. CASE Isolate(k)
  BY <1>4, LeaveType DEF Isolate, Goto, TickTypeOK, Phase, RowPhase, Step, RowStep, scratch
<1>5. CASE Spawn(k)
  BY <1>0, <1>5, AwaitType DEF Spawn, RowStep
<1>6. CASE \/ InspectReconciled(k) \/ ObserveRow(k)
  <2>1. phase \in RowPhase
    BY <1>0, <1>6 DEF InspectReconciled, ObserveRow, RowPhase, RowStep
  <2>2. Inspected(k)
    BY <1>6 DEF InspectReconciled, ObserveRow
  <2>3. CASE Leave(k) \/ Throw
    BY <2>3, LeaveType, ThrowType
  <2>4. CASE /\ item' = k /\ step' = "settle" /\ truth' \in {"succeeded", "failed", "fatal"}
             /\ UNCHANGED <<phase, todo, scratch>>
    BY <2>1, <2>4 DEF TickTypeOK, Step, RowStep, scratch
  <2> QED BY <2>2, <2>3, <2>4 DEF Inspected
<1>7. CASE CancelHung(k)
  BY <1>7 DEF CancelHung, TickTypeOK, Step, RowStep, RowPhase, scratch
<1>8. CASE VerifyImpl(k)
  BY <1>8 DEF VerifyImpl, TickTypeOK, Step, RowStep, scratch
<1>9. CASE \/ SettleAgain(k) \/ SettleDeath(k) \/ SettlePlan(k) \/ SettleReview(k) \/ SettleImpl(k)
  <2>1. AfterSettle(k) /\ step \in RowStep
    BY <1>9 DEF SettleAgain, SettleDeath, SettlePlan, SettleReview, SettleImpl, Settles,
                ReadyToSettle, RowStep
  <2> QED BY <1>0, <2>1, LeaveType DEF AfterSettle, TickTypeOK, Step, RowStep, scratch
<1>10. CASE \/ StartLand(k) \/ Land(k)
  BY <1>0, <1>10 DEF StartLand, Land, TickTypeOK, Step, RowStep, scratch
<1> QED BY <1>1, <1>2, <1>3, <1>4, <1>5, <1>6, <1>7, <1>8, <1>9, <1>10 DEF RowAction

\* Steps on behalf of a ticket keep the type of the ticker.
LEMMA TicketTickType ==
    ASSUME TypeOK, NEW t \in Ticket, TicketAction(t)
    PROVE  TickTypeOK'
<1> USE DEF TypeOK
<1>0. idle \in BOOLEAN /\ busy \subseteq Scope /\ (phase \notin RowPhase => todo \subseteq Ticket)
  BY DEF TickTypeOK
<1>1. CASE \/ GateQueue(t) \/ UxQueue(t)
  <2> DEFINE loop == {"gateQueue", "uxQueue"}
  <2>1. phase \in loop /\ todo \subseteq Ticket
    BY <1>0, <1>1 DEF GateQueue, UxQueue, RowPhase
  <2>2. CASE SkipTicket(t)
    BY <2>2, LeaveType DEF SkipTicket
  <2>3. CASE ~SkipTicket(t)
    <3>1. \/ Goto(phase, todo \ {t}) /\ idle' = FALSE /\ UNCHANGED busy
          \/ \E p \in loop \cup {"complete"} : Goto(p, {}) /\ UNCHANGED scratch
          \/ Throw
      BY <1>1, <2>1, <2>3 DEF GateQueue, UxQueue, Queue, HopQueued
    <3>2. CASE Goto(phase, todo \ {t}) /\ idle' = FALSE /\ UNCHANGED busy
      BY <1>0, <2>1, <3>2, GotoType DEF Phase, TicketPhase, RowPhase
    <3>3. ASSUME NEW p \in loop \cup {"complete"}, Goto(p, {}) /\ UNCHANGED scratch
          PROVE  TickTypeOK'
      BY <1>0, <3>3, GotoType DEF Phase, TicketPhase, scratch
    <3> QED BY <3>1, <3>2, <3>3, ThrowType
  <2> QED BY <2>2, <2>3
<1>2. CASE GateAdmit(t)
  BY <1>2, LeaveType, ThrowType DEF GateAdmit
<1>3. CASE \/ AdvanceImpl(t) \/ AdvancePlan(t) \/ PrimaryDirty(t)
  BY <1>3, LeaveType, AwaitType DEF AdvanceImpl, AdvancePlan, PrimaryDirty, TicketPhase
<1>4. CASE \/ QueueImpl(t) \/ QueuePlan(t)
  <2>1. phase \in {"advanceImpl", "advancePlan"} /\ todo \subseteq Ticket
    BY <1>0, <1>4 DEF QueueImpl, QueuePlan, RowPhase
  <2>2. \/ Goto(phase, todo \ {t}) /\ idle' = FALSE /\ busy' \subseteq Scope
        \/ Goto("unlaunchable", {}) /\ UNCHANGED scratch
        \/ EnterPlans /\ UNCHANGED scratch
        \/ Throw
    BY <1>0, <1>4, LedgerAssumption DEF QueueImpl, QueuePlan, Queue, StopForBudget
  <2>3. CASE Goto(phase, todo \ {t}) /\ idle' = FALSE /\ busy' \subseteq Scope
    BY <2>1, <2>3, GotoType DEF Phase, TicketPhase, RowPhase
  <2>4. CASE Goto("unlaunchable", {}) /\ UNCHANGED scratch
    BY <1>0, <2>4, GotoType DEF Phase, scratch
  <2>5. CASE EnterPlans /\ UNCHANGED scratch
    BY <1>0, <2>5, EntryType DEF scratch
  <2> QED BY <2>2, <2>3, <2>4, <2>5, ThrowType
<1> QED BY <1>1, <1>2, <1>3, <1>4 DEF TicketAction

\* The ends of the loops keep it.
LEMMA LoopTickType ==
    ASSUME TypeOK, LoopEnd \/ TickBegin \/ TickDeadline \/ Crash
    PROVE  TickTypeOK'
<1> USE DEF TypeOK
<1>0. idle \in BOOLEAN /\ busy \subseteq Scope
  BY DEF TickTypeOK
<1>1. CASE \/ EndReconcile \/ EndDispatch \/ EndObserve \/ TickBegin
  <2>1. \E p \in RowPhase \cup {"complete"}, work \in SUBSET Key :
            Goto(p, work) /\ UNCHANGED scratch /\ (p = "complete" => work = {})
    BY <1>1 DEF EndReconcile, EndDispatch, EndObserve, TickBegin, RowsIn, RowPhase
  <2> QED BY <1>0, <2>1, GotoType DEF Phase, RowPhase, scratch
<1>2. CASE EndWatchdog
  <2> DEFINE A(t) == {1} \cup {k.attempt : k \in {r \in RowsOf(t, "IMPL") :
                                                   outbox[r] = "SETTLED"}}
             work == {[ticket |-> t, stage |-> "IMPL", attempt |-> Max(A(t))] :
                         t \in {u \in Ticket : ticket[u] = "VERIFYING"}}
  <2>1. MaxRetries \in Nat
    BY LedgerAssumption
  <2>2. ASSUME NEW t \in Ticket PROVE Max(A(t)) \in Attempt
    <3>1. ASSUME NEW k \in RowsOf(t, "IMPL") PROVE k.attempt \in 1 .. (MaxRetries + 1)
      BY DEF RowsOf, Rows, Key, Attempt
    <3>2. A(t) \subseteq 1 .. (MaxRetries + 1) /\ A(t) # {}
      BY <2>1, <3>1
    <3> HIDE DEF A
    <3>3. A(t) \in SUBSET (0 .. (MaxRetries + 1)) /\ MaxRetries + 1 \in Nat
      BY <2>1, <3>2
    <3>4. Max(A(t)) \in A(t)
      BY <3>2, <3>3, MaxOfBounded
    <3> QED BY <3>2, <3>4 DEF Attempt
  <2>3. Goto("closeout", work) /\ UNCHANGED scratch
    BY <1>2 DEF EndWatchdog
  <2> HIDE DEF A
  <2>4. work \subseteq Key
    BY <2>2 DEF Key, Stage
  <2> QED BY <1>0, <2>3, <2>4, GotoType DEF Phase, RowPhase, scratch
<1>3. CASE EndCloseout
  <2>1. {t \in Ticket \ ReviewSkip : ticket[t] = "PLAN_REVIEW"} \in SUBSET Ticket
    OBVIOUS
  <2> QED BY <1>3, <2>1, EntryType DEF EndCloseout
<1>4. CASE EndGateQueue
  BY <1>4, EntryType DEF EndGateQueue
<1>5. CASE EndUxQueue
  <2>1. CASE Goto("gateDispatch", RowsIn({"PENDING"})) /\ UNCHANGED scratch
    BY <1>0, <2>1, GotoType DEF Phase, RowPhase, RowsIn, scratch
  <2> QED BY <1>5, <2>1, EntryType DEF EndUxQueue
<1>6. CASE \/ EndGateObserve \/ EndGateAdmit \/ FailUnlaunchable
  <2>1. \E p \in {"gateAdmit", "complete"}, work \in SUBSET Ticket :
            Goto(p, work) /\ UNCHANGED scratch
    BY <1>6 DEF EndGateObserve, EndGateAdmit, FailUnlaunchable
  <2> QED BY <1>0, <2>1, GotoType DEF Phase, RowPhase, TicketPhase, scratch
<1>7. CASE EndAdvance
  <2>1. CASE Goto("unlaunchable", {}) /\ UNCHANGED scratch
    BY <1>0, <2>1, GotoType DEF Phase, scratch
  <2>2. CASE EnterPlans /\ UNCHANGED scratch
    BY <1>0, <2>2, EntryType DEF scratch
  <2> QED BY <1>7, <2>1, <2>2 DEF EndAdvance
<1>8. CASE EndTick \/ EndIsolate \/ Crash
  BY <1>8, RestType DEF EndTick, EndIsolate, Crash
<1>9. CASE TickDeadline
  BY <1>9, TickFrame DEF TickDeadline
<1> QED BY <1>1, <1>2, <1>3, <1>4, <1>5, <1>6, <1>7, <1>8, <1>9 DEF LoopEnd

\* Every step keeps the type of the ticker.
LEMMA TickType ==
    ASSUME TypeOK, [Next]_allVars
    PROVE  TickTypeOK'
<1>1. CASE Ticker \/ TickerDies
  BY <1>1, RowTickType, TicketTickType, LoopTickType DEF Ticker, TickerDies, Tick
<1>2. CASE Operator
  BY <1>2, TickFrame
     DEF Operator, Freeze, Start, Pause, Resume, SetWave, Approve, Revise, Judge, CancelWave,
         CancelTickets, CancelCrash, vars, TypeOK
<1>3. ASSUME NEW k \in Key, WorkerStep(k) PROVE TickTypeOK'
  BY <1>3, TickFrame DEF WorkerStep, WriteReview, WorkerSucceeds, WorkerFails, WorkerEnds, TypeOK
<1>4. CASE UNCHANGED allVars
  BY <1>4, TickFrame DEF allVars, vars, TypeOK
<1> QED BY <1>1, <1>2, <1>3, <1>4 DEF Next

----------------------------------------------------------------------------

\* TypeOK holds at first.
LEMMA InitType == Init => TypeOK
<1> SUFFICES ASSUME Init PROVE TypeOK
  OBVIOUS
<1>1. LedgerTypeOK
  BY CommandAssumption
     DEF Init, LedgerTypeOK, WaveStatus, TicketStatus, OutboxState, StageStatus, BudgetState
<1>2. WorldTypeOK
  <2>1. Missing \in ReviewFile
    BY DEF Missing, ReviewFile
  <2> QED BY <2>1 DEF Init, WorldTypeOK
<1>3. TickTypeOK
  BY DEF Init, TickTypeOK, Phase, RowPhase, TicketPhase, Step, RowStep
<1> QED BY <1>1, <1>2, <1>3 DEF Init, TypeOK

\* Every step preserves TypeOK.
LEMMA StepType ==
    ASSUME TypeOK, [Next]_allVars
    PROVE  TypeOK'
<1>1. cancelling' \in BOOLEAN
  BY DEF TypeOK, Next, Ticker, TickerDies, Operator, Freeze, Start, Pause, Resume, SetWave,
         Approve, Revise, Judge, CancelWave, CancelTickets, CancelCrash, WorkerStep,
         WriteReview, WorkerSucceeds, WorkerFails, WorkerEnds, allVars
<1> QED BY <1>1, LedgerType, WorldType, TickType DEF TypeOK

\* Type correctness of the whole composition, for any tickets, scopes, limits, faults
\* and commands: no transaction of the tick, of a command or of a settlement writes a
\* status outside the tables of src/core/state-machine.ts and src/core/outbox.ts, and
\* every loop of tickWave works on the kind of item it was given.
THEOREM TypeCorrect == Spec => []TypeOK
<1>1. TypeOK /\ [Next]_allVars => TypeOK'
  BY StepType
<1> QED BY InitType, <1>1, PTL DEF Spec

----------------------------------------------------------------------------
(* The inductive invariant of the launches. *)

\* The rows are numbered without a gap, finitely many, counted and bounded.
Books == NoGaps /\ IsFiniteSet(Rows) /\ LaunchesBounded

\* What holds of the rows at hand, and of how often they were launched.
Hand == RowsInHand /\ Unspawned /\ LaunchOnce

\* The inductive invariant.
LaunchInv == TypeOK /\ Books /\ Hand

----------------------------------------------------------------------------
(* The key queueStage computes. *)

\* As long as a retry is left, the key after the last attempt is a key, is free, and
\* has every earlier attempt before it: what rests on counting rows in queueStage.
LEMMA FreshKey ==
    ASSUME NoGaps, IsFiniteSet(Rows), NEW t \in Ticket, NEW s \in Stage, ~RetriesSpent(t, s)
    PROVE  /\ NextKey(t, s) \in Key \ Rows
           /\ \A n \in 1 .. (NextKey(t, s).attempt - 1) :
                  [NextKey(t, s) EXCEPT !.attempt = n] \in Rows
<1> DEFINE K(n) == [ticket |-> t, stage |-> s, attempt |-> n]
           R == RowsOf(t, s)
           A == {n \in Attempt : K(n) \in Rows}
           c == Cardinality(R)
<1>1. MaxRetries \in Nat
  BY LedgerAssumption
<1>2. IsFiniteSet(R) /\ c \in Nat
  <2>1. R \in SUBSET Rows
    BY DEF RowsOf
  <2> QED BY <2>1, FS_Subset, FS_CardinalityType
<1>3. c + 1 \in Attempt
  BY <1>1, <1>2 DEF RetriesSpent, Attempt
<1>4. IsFiniteSet(A) /\ Cardinality(A) = c
  <2> DEFINE f == [k \in R |-> k.attempt]
  <2>1. \A k \in R : k.attempt \in Attempt /\ k = K(k.attempt) /\ k \in Rows
    BY DEF RowsOf, Rows, Key
  <2>2. \A n \in A : K(n) \in R
    BY DEF RowsOf
  <2>3. f \in [R -> A]
    BY <2>1
  <2>4. f \in Injection(R, A)
    <3>1. ASSUME NEW k \in R, NEW l \in R, f[k] = f[l] PROVE k = l
      <4>1. k.attempt = l.attempt
        BY <3>1
      <4> QED BY <2>1, <4>1
    <3> HIDE DEF f
    <3> QED BY <2>3, <3>1 DEF Injection, IsInjective
  <2>5. f \in Surjection(R, A)
    BY <2>2, <2>3 DEF Surjection
  <2>6. ExistsBijection(R, A)
    BY <2>4, <2>5 DEF Bijection, ExistsBijection
  <2> QED BY <1>2, <2>6, FS_Bijection
<1>5. ASSUME NEW n \in A, NEW m \in 1 .. n PROVE m \in A
  <2>1. [K(n) EXCEPT !.attempt = m] = K(m) /\ K(n).attempt = n
    OBVIOUS
  <2>2. K(m) \in Rows
    BY <1>5, <2>1 DEF NoGaps
  <2>3. m \in Attempt
    BY <2>2 DEF Rows, Key
  <2> QED BY <2>2, <2>3
<1> HIDE DEF A, R, c
<1>6. c + 1 \notin A
  <2> SUFFICES ASSUME c + 1 \in A PROVE FALSE
    OBVIOUS
  <2>1. 1 .. (c + 1) \in SUBSET A
    BY <1>5
  <2>2. Cardinality(1 .. (c + 1)) = c + 1
    BY <1>2, FS_Interval
  <2> QED BY <1>2, <1>4, <2>1, <2>2, FS_Subset
<1>7. ASSUME NEW n \in 1 .. c PROVE n \in A
  <2> SUFFICES ASSUME n \notin A PROVE FALSE
    OBVIOUS
  <2>1. A \subseteq Nat
    BY <1>1 DEF A, Attempt
  <2>2. A \in SUBSET (1 .. (n - 1))
    <3> SUFFICES ASSUME NEW m \in A PROVE m \in 1 .. (n - 1)
      OBVIOUS
    <3>1. m \in Nat /\ m >= 1
      BY <1>1 DEF A, Attempt
    <3>2. ~(m >= n)
      BY <1>2, <1>5, <3>1
    <3> QED BY <1>2, <3>1, <3>2
  <2>3. IsFiniteSet(1 .. (n - 1)) /\ Cardinality(1 .. (n - 1)) = n - 1
    BY <1>2, FS_Interval
  <2>4. Cardinality(A) <= n - 1
    BY <2>2, <2>3, FS_Subset
  <2> QED BY <1>2, <1>4, <2>4
<1>8. NextKey(t, s) = K(c + 1)
  BY DEF NextKey, c, R
<1>9. NextKey(t, s) \in Key \ Rows
  BY <1>3, <1>6, <1>8 DEF Key, A
<1>10. ASSUME NEW n \in 1 .. (NextKey(t, s).attempt - 1)
       PROVE  [NextKey(t, s) EXCEPT !.attempt = n] \in Rows
  <2>1. n \in 1 .. c /\ [NextKey(t, s) EXCEPT !.attempt = n] = K(n)
    BY <1>2, <1>8, <1>10
  <2> QED BY <1>7, <2>1 DEF A
<1> QED BY <1>9, <1>10

----------------------------------------------------------------------------
(* What a step may do to the launch rows. *)

\* Row k alone may change, only if it exists, and not back to PENDING.
Touches(k) ==
    /\ \A l \in Key \ {k} : outbox'[l] = outbox[l]
    /\ outbox'[k] # outbox[k] => outbox[k] # "NONE" /\ outbox'[k] \in OutboxState \ {"PENDING"}
    /\ UNCHANGED launches

\* A step on behalf of row k touches no other row, and never queues k again.
LEMMA RowTouches ==
    ASSUME LaunchInv, NEW k \in Key, RowAction(k)
    PROVE  Touches(k)
<1> USE DEF LaunchInv, Hand
<1>0. outbox \in [Key -> OutboxState \cup {"NONE"}]
  BY DEF TypeOK, LedgerTypeOK
<1>1. CASE UNCHANGED <<outbox, launches>>
  BY <1>1 DEF Touches
<1>2. k \in Rows => outbox[k] # "NONE"
  BY DEF Rows
<1>3. CASE ReconcileRow(k) \/ ClaimRow(k) \/ ObserveRow(k) \/ Isolate(k)
  <2>1. k \in Rows
    BY <1>3 DEF ReconcileRow, ClaimRow, ObserveRow, Isolate, RowsInHand, RowPhase, Dispatching
  <2>2. Unspawned /\ (Dispatching /\ step = "next" /\ k \in todo => outbox[k] = "PENDING")
    BY DEF Unspawned
  <2> QED BY <1>0, <1>1, <1>2, <1>3, <2>1, <2>2
          DEF ReconcileRow, ClaimRow, ObserveRow, Isolate, Inspected, FailLaunch, Touches,
              OutboxState, rowVars
<1>4. CASE \/ Recovered(k) \/ LostSpawn(k) \/ InspectReconciled(k) \/ RefuseHandoff(k)
           \/ LaunchError(k) \/ StoreReceipt(k)
  <2>1. k \in Rows
    BY <1>4 DEF Recovered, LostSpawn, InspectReconciled, RefuseHandoff, LaunchError,
                StoreReceipt, RowsInHand
  <2> QED BY <1>0, <1>1, <1>2, <1>4, <2>1
          DEF Recovered, LostSpawn, InspectReconciled, RefuseHandoff, LaunchError, StoreReceipt,
              Inspected, FailOrThrow, FailLaunch, MarkLaunched, Touches, OutboxState, rowVars
<1>5. CASE SettleDeath(k) \/ SettlePlan(k) \/ SettleReview(k) \/ SettleImpl(k)
  <2>1. k \in Rows
    BY <1>5 DEF SettleDeath, SettlePlan, SettleReview, SettleImpl, Settles, ReadyToSettle,
                RowsInHand
  <2>2. CloseRow(k, "FAILED") \/ CloseRow(k, "SUCCEEDED")
    BY <1>5 DEF SettleDeath, SettlePlan, SettleReview, SettleImpl
  <2> QED BY <1>0, <1>2, <2>1, <2>2 DEF CloseRow, Touches, OutboxState
<1> QED BY <1>1, <1>3, <1>4, <1>5
        DEF RowAction, PrepareError, Spawn, LinkError, CancelHung, VerifyImpl, SettleAgain,
            SettleThrows, CloseoutRow, FinishFromProof, DeferLand, StartLand, Land, LandThrows,
            RecordLand, ledgerVars, rowVars

\* A step on behalf of a ticket inserts a row or leaves all rows alone.
LEMMA TicketTouches ==
    ASSUME NEW t \in Ticket, TicketAction(t)
    PROVE  UNCHANGED <<outbox, launches>> \/ \E s \in Stage : QueuedHere(t, s)
  BY DEF TicketAction, GateQueue, UxQueue, SkipTicket, GateAdmit, AdvanceImpl, AdvancePlan,
         PrimaryDirty, QueueImpl, QueuePlan, Queue, QueuedElsewhere, Stage, ledgerVars, rowVars

\* No other step of the ticker, no command and no worker touches a row.
LEMMA RestTouches ==
    ASSUME \/ LoopEnd \/ TickBegin \/ TickDeadline \/ Crash \/ Operator
           \/ \E k \in Key : WorkerStep(k)
    PROVE  UNCHANGED <<outbox, launches>>
<1>1. ASSUME NEW k \in Key, WorkerStep(k) PROVE UNCHANGED <<outbox, launches>>
  BY <1>1 DEF WorkerStep, WriteReview, WorkerSucceeds, WorkerFails, WorkerEnds, ledgerVars, rowVars
<1>2. CASE Operator
  BY <1>2 DEF Operator, Freeze, Start, Pause, Resume, SetWave, Approve, Revise, Judge, CancelWave,
              CancelTickets, CancelCrash, vars, ledgerVars, rowVars
<1>3. CASE LoopEnd \/ TickBegin \/ TickDeadline \/ Crash
  BY <1>3
     DEF LoopEnd, EndReconcile, EndDispatch, EndObserve, EndWatchdog, EndCloseout, EndGateQueue,
         EndUxQueue, EndGateObserve, EndGateAdmit, EndAdvance, FailUnlaunchable, EndTick,
         EndIsolate, TickBegin, TickDeadline, Crash, ledgerVars, rowVars
<1> QED BY <1>1, <1>2, <1>3

\* Every step preserves Books.
LEMMA BooksStep ==
    ASSUME LaunchInv, [Next]_allVars
    PROVE  Books'
<1> USE DEF LaunchInv, Books
<1>0. /\ outbox \in [Key -> OutboxState \cup {"NONE"}]
      /\ launches \in Nat /\ MaxLaunches \in Nat
  BY LedgerAssumption DEF TypeOK, LedgerTypeOK
<1>1. ASSUME Rows' = Rows, UNCHANGED launches PROVE Books'
  BY <1>1 DEF NoGaps, LaunchesBounded
<1>2. ASSUME NEW k \in Key, RowAction(k) PROVE Books'
  <2>1. Touches(k)
    BY <1>2, RowTouches
  <2>2. Rows' = Rows
    BY <2>1 DEF Touches, Rows, OutboxState
  <2> QED BY <1>1, <2>1, <2>2 DEF Touches
<1>3. ASSUME UNCHANGED <<outbox, launches>> PROVE Books'
  BY <1>1, <1>3 DEF Rows
<1>4. ASSUME NEW t \in Ticket, NEW s \in Stage, QueuedHere(t, s) PROVE Books'
  <2> DEFINE k == NextKey(t, s)
  <2>1. k \in Key \ Rows /\ \A n \in 1 .. (k.attempt - 1) : [k EXCEPT !.attempt = n] \in Rows
    BY <1>4, FreshKey DEF QueuedHere, MayAdmit, Denied
  <2>2. outbox' = [outbox EXCEPT ![k] = "PENDING"] /\ launches' = launches + 1
    BY <1>4 DEF QueuedHere, InsertRow
  <2>3. launches + 1 <= MaxLaunches
    BY <1>0, <1>4 DEF QueuedHere, LaunchesSpent
  <2> HIDE DEF k
  <2>4. Rows' = Rows \cup {k}
    BY <1>0, <2>1, <2>2 DEF Rows
  <2>5. IsFiniteSet(Rows') /\ Cardinality(Rows') = Cardinality(Rows) + 1
    BY <2>1, <2>4, FS_AddElement
  <2>6. NoGaps'
    <3>1. ASSUME NEW n \in 1 .. k.attempt PROVE [k EXCEPT !.attempt = n] \in Rows'
      <4>1. CASE n = k.attempt
        <5>1. [k EXCEPT !.attempt = n] = k
          BY <2>1, <4>1 DEF Key
        <5> QED BY <2>4, <5>1
      <4>2. CASE n # k.attempt
        <5>1. k.attempt \in Nat
          BY <2>1, LedgerAssumption DEF Key, Attempt
        <5>2. n \in 1 .. (k.attempt - 1)
          BY <4>2, <5>1
        <5> QED BY <2>1, <2>4, <5>2
      <4> QED BY <4>1, <4>2
    <3>2. ASSUME NEW l \in Rows, NEW n \in 1 .. l.attempt
          PROVE  [l EXCEPT !.attempt = n] \in Rows'
      BY <2>4 DEF NoGaps
    <3> QED BY <2>4, <3>1, <3>2 DEF NoGaps
  <2> QED BY <1>0, <2>2, <2>3, <2>5, <2>6 DEF LaunchesBounded
<1>5. CASE Ticker \/ TickerDies
  BY <1>2, <1>3, <1>4, <1>5, TicketTouches, RestTouches DEF Ticker, TickerDies, Tick
<1>6. CASE Operator \/ (\E k \in Key : WorkerStep(k))
  BY <1>3, <1>6, RestTouches
<1>7. CASE UNCHANGED allVars
  BY <1>3, <1>7 DEF allVars, vars, ledgerVars, rowVars
<1> QED BY <1>5, <1>6, <1>7 DEF Next

----------------------------------------------------------------------------
(* What a step may do to the row at hand: first the moves of the ticker, when *)
(* row k alone was touched and nothing was spawned.                          *)

\* Leave: on to the next row of the loop.
LEMMA LeaveHand ==
    ASSUME LaunchInv, NEW k \in Key, Touches(k), Leave(k), UNCHANGED spawns,
           Dispatching => step = "next" \/ item = k
    PROVE  Hand'
<1> USE DEF LaunchInv, Hand
<1>1. Rows' = Rows
  BY DEF Touches, Rows, OutboxState, TypeOK, LedgerTypeOK
<1>2. phase' = phase /\ todo' = todo \ {k} /\ step' = "next"
  BY DEF Leave, Goto
<1>3. RowsInHand'
  BY <1>1, <1>2 DEF RowsInHand
<1>4. Unspawned'
  <2>1. \A l \in Key : outbox'[l] \in {"NONE", "PENDING"} => spawns'[l] = 0
    BY DEF Touches, Unspawned, OutboxState
  <2>2. ASSUME Dispatching, NEW l \in todo \ {k} PROVE outbox'[l] = "PENDING"
    <3>1. l \in Key
      BY <2>2 DEF TypeOK, TickTypeOK, Dispatching, RowPhase
    <3> QED BY <2>2, <3>1 DEF Unspawned, Touches
  <2> QED BY <1>2, <2>1, <2>2 DEF Unspawned, Dispatching
<1> QED BY <1>3, <1>4 DEF LaunchOnce

\* The same for a step that stays on row k, once it was treated.
LEMMA StayHand ==
    ASSUME LaunchInv, NEW k \in Key, Touches(k), UNCHANGED <<phase, todo, spawns>>,
           item' = k, step' \notin {"next", "launch"},
           step = "next" \/ item = k,
           step' \in {"recover", "inspect", "receipt", "settle", "commit"} => k \in Rows
    PROVE  Hand'
<1> USE DEF LaunchInv, Hand
<1>1. Rows' = Rows
  BY DEF Touches, Rows, OutboxState, TypeOK, LedgerTypeOK
<1>2. RowsInHand'
  BY <1>1 DEF RowsInHand
<1>3. Unspawned'
  <2>1. \A l \in Key : outbox'[l] \in {"NONE", "PENDING"} => spawns'[l] = 0
    BY DEF Touches, Unspawned, OutboxState
  <2>2. ASSUME Dispatching, NEW l \in todo PROVE outbox'[l] = "PENDING" \/ l = k
    <3>1. l \in Key
      BY <2>2 DEF TypeOK, TickTypeOK, Dispatching, RowPhase
    <3> QED BY <2>2, <3>1 DEF Unspawned, Touches
  <2> QED BY <2>1, <2>2 DEF Unspawned, Dispatching
<1> QED BY <1>2, <1>3 DEF LaunchOnce

\* A new loop over existing rows, or over tickets, or none at all.
LEMMA GotoHand ==
    ASSUME LaunchInv, UNCHANGED <<outbox, spawns>>, step' = "next",
           phase' \in RowPhase \ {"closeout"} => todo' \subseteq Rows,
           phase' \in {"dispatch", "gateDispatch"} =>
               todo' \subseteq RowsIn({"PENDING"})
    PROVE  Hand'
  BY DEF LaunchInv, Hand, RowsInHand, Unspawned, LaunchOnce, Rows, RowsIn, Dispatching

\* A tick that throws goes to the handler, with the rows it finds.
LEMMA ThrowHand ==
    ASSUME LaunchInv, UNCHANGED <<outbox, spawns>>, Throw
    PROVE  Hand'
  BY GotoHand DEF Throw, Goto, RowsIn, Rows

\* A step of an operator or of a worker.
LEMMA FrameHand ==
    ASSUME LaunchInv, UNCHANGED <<outbox, spawns, phase, step, todo, item>>
    PROVE  Hand'
  BY DEF LaunchInv, Hand, RowsInHand, Unspawned, LaunchOnce, Rows, Dispatching

\* Steps on behalf of a row, which alone may spawn, preserve Hand.
LEMMA RowHand ==
    ASSUME LaunchInv, NEW k \in Key, RowAction(k)
    PROVE  Hand'
<1> USE DEF LaunchInv, Hand
<1>0. Touches(k)
  BY RowTouches
<1>1. CASE ClaimRow(k)
  <2>1. k \in Rows /\ outbox[k] = "PENDING" /\ spawns[k] = 0
    BY <1>1 DEF ClaimRow, RowsInHand, RowPhase, Dispatching, Unspawned
  <2>2. CASE Leave(k)
    BY <1>0, <1>1, <2>2, LeaveHand DEF ClaimRow, worldVars
  <2>3. CASE ~Leave(k)
    <3>1. /\ outbox' = [outbox EXCEPT ![k] = "CLAIMED"] /\ UNCHANGED spawns
          /\ item' = k /\ step' = "launch" /\ UNCHANGED <<phase, todo>> /\ step = "next"
      BY <1>1, <2>1, <2>3 DEF ClaimRow, Await, worldVars
    <3>2. outbox'[k] = "CLAIMED" /\ Rows' = Rows
      BY <1>0, <2>1, <3>1 DEF TypeOK, LedgerTypeOK, Touches, Rows, OutboxState
    <3>3. RowsInHand'
      BY <2>1, <3>1, <3>2 DEF RowsInHand
    <3>4. Unspawned'
      <4>1. \A l \in Key : outbox'[l] \in {"NONE", "PENDING"} => spawns'[l] = 0
        BY <3>1, <3>2, <1>0 DEF Touches, Unspawned
      <4>2. ASSUME Dispatching, NEW l \in todo PROVE outbox'[l] = "PENDING" \/ l = k
        <5>1. l \in Key
          BY <4>2 DEF TypeOK, TickTypeOK, Dispatching, RowPhase
        <5> QED BY <1>0, <3>1, <4>2, <5>1 DEF Unspawned, Touches
      <4> QED BY <2>1, <3>1, <4>1, <4>2 DEF Unspawned, Dispatching
    <3> QED BY <3>1, <3>3, <3>4 DEF LaunchOnce
  <2> QED BY <2>2, <2>3
<1>2. CASE Spawn(k)
  <2>1. /\ item = k /\ step = "launch" /\ k \in Rows
        /\ outbox[k] = "CLAIMED" /\ spawns[k] = 0
    BY <1>2 DEF Spawn, RowsInHand, Unspawned
  <2>2. /\ spawns' = [spawns EXCEPT ![k] = 1] /\ outbox' = outbox
        /\ item' = k /\ step' = "receipt" /\ UNCHANGED <<phase, todo>>
    BY <1>2, <2>1 DEF Spawn, Await, TypeOK, WorldTypeOK, ledgerVars, rowVars
  <2>3. \A l \in Key : spawns'[l] = IF l = k THEN 1 ELSE spawns[l]
    BY <2>2 DEF TypeOK, WorldTypeOK
  <2>4. RowsInHand'
    BY <2>1, <2>2 DEF RowsInHand, Rows
  <2>5. Unspawned'
    BY <2>1, <2>2, <2>3 DEF Unspawned, Dispatching
  <2> QED BY <2>3, <2>4, <2>5 DEF LaunchOnce
<1>3. CASE ReconcileRow(k)
  <2>1. k \in Rows
    BY <1>3 DEF ReconcileRow, RowsInHand, RowPhase
  <2> QED BY <1>0, <1>3, <2>1, StayHand DEF ReconcileRow, Await, worldVars
<1>4. CASE \/ InspectReconciled(k) \/ ObserveRow(k)
  <2>1. k \in Rows /\ (step = "next" \/ item = k) /\ UNCHANGED spawns /\ Inspected(k)
    BY <1>4 DEF InspectReconciled, ObserveRow, RowsInHand, RowPhase, worldVars
  <2>2. CASE Leave(k)
    BY <1>0, <2>1, <2>2, LeaveHand
  <2>3. CASE Throw /\ UNCHANGED outbox
    BY <2>1, <2>3, ThrowHand
  <2>4. CASE item' = k /\ step' = "settle" /\ UNCHANGED <<phase, todo>>
    BY <1>0, <2>1, <2>4, StayHand
  <2> QED BY <2>1, <2>2, <2>3, <2>4 DEF Inspected
<1>5. CASE \/ Recovered(k) \/ LostSpawn(k) \/ LaunchError(k) \/ StoreReceipt(k) \/ PrepareError(k)
           \/ LinkError(k) \/ RefuseHandoff(k) \/ SettleThrows(k) \/ FinishFromProof(k)
           \/ DeferLand(k) \/ LandThrows(k) \/ RecordLand(k)
  <2>1. item = k /\ UNCHANGED spawns /\ (Leave(k) \/ (Throw /\ UNCHANGED outbox))
    BY <1>5 DEF Recovered, LostSpawn, LaunchError, StoreReceipt, PrepareError, LinkError,
       RefuseHandoff, SettleThrows, ReadyToSettle, FinishFromProof, DeferLand, LandThrows,
       RecordLand, FailOrThrow, worldVars, rowVars, ledgerVars
  <2> QED BY <1>0, <2>1, LeaveHand, ThrowHand
<1>6. CASE Isolate(k)
  <2>1. CASE Leave(k)
    BY <1>0, <1>6, <2>1, LeaveHand DEF Isolate, Dispatching, worldVars
  <2>2. CASE ~Leave(k)
    BY <1>6, <2>2, GotoHand DEF Isolate, Goto, RowPhase, worldVars, rowVars
  <2> QED BY <2>1, <2>2
<1>7. CASE CancelHung(k)
  <2>1. k \in Rows
    BY <1>7 DEF CancelHung, RowsInHand, RowPhase
  <2> QED BY <1>0, <1>7, <2>1, StayHand DEF CancelHung
<1>8. CASE VerifyImpl(k)
  <2>1. k \in Rows
    BY <1>8 DEF VerifyImpl, RowsInHand
  <2> QED BY <1>0, <1>8, <2>1, StayHand DEF VerifyImpl, worldVars
<1>9. CASE SettleAgain(k) \/ SettleDeath(k) \/ SettlePlan(k) \/ SettleReview(k) \/ SettleImpl(k)
  <2>1. item = k /\ UNCHANGED spawns /\ AfterSettle(k)
    BY <1>9 DEF SettleAgain, SettleDeath, SettlePlan, SettleReview, SettleImpl, Settles,
                ReadyToSettle, worldVars
  <2>2. CASE Leave(k)
    BY <1>0, <2>1, <2>2, LeaveHand
  <2>3. CASE step' = "land" /\ UNCHANGED <<phase, todo, item>>
    BY <1>0, <2>1, <2>3, StayHand
  <2> QED BY <2>1, <2>2, <2>3 DEF AfterSettle
<1>10. CASE CloseoutRow(k) \/ StartLand(k) \/ Land(k)
  <2>1. /\ step = "next" \/ item = k
        /\ item' = k /\ step' \in {"land", "landing", "recordLand"}
        /\ UNCHANGED <<phase, todo, spawns>>
    BY <1>10 DEF CloseoutRow, StartLand, Land, Await, worldVars
  <2> QED BY <1>0, <2>1, StayHand
<1> QED BY <1>1, <1>2, <1>3, <1>4, <1>5, <1>6, <1>7, <1>8, <1>9, <1>10 DEF RowAction

\* A step on behalf of a ticket stays among the loops over tickets, or goes to the end of
\* the tick, unless it throws.
LEMMA TicketPlace ==
    ASSUME NEW t \in Ticket, TicketAction(t)
    PROVE  \/ phase' \in TicketPhase \cup {"complete", "unlaunchable"} /\ step' \in {"next", "dirty"}
           \/ Throw /\ UNCHANGED outbox
<1> USE DEF TicketPhase, ledgerVars, rowVars
<1>1. CASE GateQueue(t) \/ UxQueue(t)
  BY <1>1 DEF GateQueue, UxQueue, SkipTicket, Queue, Leave, Goto
<1>2. CASE GateAdmit(t)
  BY <1>2 DEF GateAdmit, Leave, Goto
<1>3. CASE AdvanceImpl(t) \/ AdvancePlan(t) \/ PrimaryDirty(t)
  BY <1>3 DEF AdvanceImpl, AdvancePlan, PrimaryDirty, Advancing, Leave, Await, Goto
<1>4. CASE QueueImpl(t) \/ QueuePlan(t)
  BY <1>4 DEF QueueImpl, QueuePlan, Queue, EnterPlans, Goto
<1> QED BY <1>1, <1>2, <1>3, <1>4 DEF TicketAction

\* A step on behalf of a ticket, which may insert a row, stays among the ticket loops
\* unless it throws.
LEMMA TicketHand ==
    ASSUME LaunchInv, NEW t \in Ticket, TicketAction(t)
    PROVE  Hand'
<1> USE DEF LaunchInv, Hand
<1>1. UNCHANGED spawns
  BY DEF TicketAction, GateQueue, UxQueue, SkipTicket, GateAdmit, AdvanceImpl, AdvancePlan,
         PrimaryDirty, QueueImpl, QueuePlan, Queue, worldVars
<1>2. \/ phase' \in TicketPhase \cup {"complete", "unlaunchable"} /\ step' \in {"next", "dirty"}
      \/ Throw /\ UNCHANGED outbox
  BY TicketPlace
<1>3. CASE phase' \in TicketPhase \cup {"complete", "unlaunchable"} /\ step' \in {"next", "dirty"}
  <2>1. RowsInHand'
    BY <1>3 DEF RowsInHand, RowPhase, TicketPhase
  <2>2. \A l \in Key : outbox'[l] \in {"NONE", "PENDING"} => spawns'[l] = 0
    <3>1. CASE UNCHANGED outbox
      BY <1>1, <3>1 DEF Unspawned
    <3>2. ASSUME NEW s \in Stage, QueuedHere(t, s)
          PROVE  \A l \in Key : outbox'[l] \in {"NONE", "PENDING"} => spawns'[l] = 0
      <4> DEFINE k == NextKey(t, s)
      <4>1. k \in Key \ Rows
        BY <3>2, FreshKey DEF QueuedHere, MayAdmit, Denied, Books
      <4>2. outbox' = [outbox EXCEPT ![k] = "PENDING"]
        BY <3>2 DEF QueuedHere, InsertRow
      <4> HIDE DEF k
      <4>3. outbox[k] = "NONE" /\ \A l \in Key \ {k} : outbox'[l] = outbox[l]
        BY <4>1, <4>2 DEF Rows, TypeOK, LedgerTypeOK
      <4> QED BY <1>1, <4>3 DEF Unspawned
    <3> QED BY <3>1, <3>2, TicketTouches
  <2>3. Unspawned'
    BY <1>3, <2>2 DEF Unspawned, Dispatching, TicketPhase
  <2> QED BY <1>1, <2>1, <2>3 DEF LaunchOnce
<1> QED BY <1>1, <1>2, <1>3, ThrowHand

\* The loops over rows start from rows that exist, and dispatch from PENDING ones.
LEMMA LoopHand ==
    ASSUME LaunchInv, LoopEnd \/ TickBegin \/ TickDeadline \/ Crash
    PROVE  Hand'
<1>1. UNCHANGED <<outbox, spawns>>
  BY RestTouches
     DEF LoopEnd, EndReconcile, EndDispatch, EndObserve, EndWatchdog, EndCloseout, EndGateQueue,
         EndUxQueue, EndGateObserve, EndGateAdmit, EndAdvance, FailUnlaunchable, EndTick,
         EndIsolate, TickBegin, TickDeadline, Crash, worldVars
<1>2. CASE TickDeadline
  BY <1>1, <1>2, FrameHand DEF TickDeadline, tickVars
<1>3. CASE LoopEnd \/ TickBegin \/ Crash
  <2>1. /\ step' = "next"
        /\ phase' \in RowPhase \ {"closeout"} => todo' \subseteq Rows
        /\ phase' \in {"dispatch", "gateDispatch"} => todo' \subseteq RowsIn({"PENDING"})
    <3> USE DEF Goto, RowPhase, RowsIn, Rows
    <3>1. CASE EndReconcile \/ EndDispatch \/ EndObserve \/ EndWatchdog \/ TickBegin
      BY <3>1 DEF EndReconcile, EndDispatch, EndObserve, EndWatchdog, TickBegin
    <3>2. CASE EndCloseout \/ EndGateQueue \/ EndUxQueue
      BY <3>2 DEF EndCloseout, EndGateQueue, EndUxQueue, EnterUxQueue, EnterQueue, PastGate,
                  EnterAdvance
    <3>3. CASE EndGateObserve \/ EndGateAdmit \/ EndAdvance \/ FailUnlaunchable
      BY <3>3 DEF EndGateObserve, EndGateAdmit, EndAdvance, EnterPlans, FailUnlaunchable
    <3>4. CASE EndTick \/ EndIsolate \/ Crash
      BY <3>4 DEF EndTick, EndIsolate, Crash, RestAs
    <3> QED BY <1>3, <3>1, <3>2, <3>3, <3>4 DEF LoopEnd
  <2> QED BY <1>1, <2>1, GotoHand
<1> QED BY <1>2, <1>3

\* Every step preserves Hand.
LEMMA HandStep ==
    ASSUME LaunchInv, [Next]_allVars
    PROVE  Hand'
<1>1. CASE Ticker \/ TickerDies
  BY <1>1, RowHand, TicketHand, LoopHand DEF Ticker, TickerDies, Tick
<1>2. CASE Operator
  <2>1. UNCHANGED <<outbox, worldVars, tickVars>>
    BY <1>2, RestTouches
       DEF Operator, Freeze, Start, Pause, Resume, SetWave, Approve, Revise, Judge, CancelWave,
           CancelTickets, CancelCrash, vars
  <2> QED BY <2>1, FrameHand DEF worldVars, tickVars
<1>3. ASSUME NEW k \in Key, WorkerStep(k) PROVE Hand'
  BY <1>3, FrameHand DEF WorkerStep, WriteReview, WorkerSucceeds, WorkerFails, WorkerEnds,
                         ledgerVars, rowVars, tickVars
<1>4. CASE UNCHANGED allVars
  BY <1>4, FrameHand DEF allVars, vars, ledgerVars, rowVars, worldVars, tickVars
<1> QED BY <1>1, <1>2, <1>3, <1>4 DEF Next

----------------------------------------------------------------------------
(* The theorems. *)

\* LaunchInv holds at first.
LEMMA LaunchInit == Init => LaunchInv
<1> SUFFICES ASSUME Init PROVE LaunchInv
  OBVIOUS
<1>1. TypeOK
  BY InitType
<1>2. Rows = {}
  BY DEF Init, Rows
<1>3. Books
  BY <1>2, FS_EmptySet, LedgerAssumption DEF Books, NoGaps, LaunchesBounded, Init
<1>4. Hand
  BY DEF Init, Hand, RowsInHand, Unspawned, LaunchOnce, Dispatching, RowPhase
<1> QED BY <1>1, <1>3, <1>4 DEF LaunchInv

\* LaunchInv is inductive: it holds at first and every step preserves it.
THEOREM LaunchInvariant == Spec => []LaunchInv
<1>1. LaunchInv /\ [Next]_allVars => LaunchInv'
  BY StepType, BooksStep, HandStep DEF LaunchInv
<1> QED BY LaunchInit, <1>1, PTL DEF Spec

\* One launch per {wave, ticket, stage, attempt} key, for any number of tickets, any
\* limits, faults and commands: no crash, lost worker or retry between claim, spawn and
\* receipt leads dispatchPending to launch a key twice.
THEOREM LaunchedOnce == Spec => []LaunchOnce
<1>1. LaunchInv => LaunchOnce
  BY DEF LaunchInv, Hand
<1> QED BY LaunchInvariant, <1>1, PTL

\* queueStage, which numbers an attempt by counting the rows before it, always takes a
\* fresh key, and dispatch only spawns for a row that was never launched.
THEOREM FreshKeys == Spec => []KeysFresh
<1>1. LaunchInv => KeysFresh
  BY DEF LaunchInv, Hand, Books, KeysFresh
<1> QED BY LaunchInvariant, <1>1, PTL

\* The launch counter counts every row ever inserted and stays within limits.maxLaunches.
THEOREM LaunchBudget == Spec => []LaunchesBounded
<1>1. LaunchInv => LaunchesBounded
  BY DEF LaunchInv, Books
<1> QED BY LaunchInvariant, <1>1, PTL

----------------------------------------------------------------------------
(* Reservations. *)

\* The action of BudgetResolvedOnce.
BudgetKept ==
    \A k \in Rows :
        /\ budget[k] # "RESERVED" => budget'[k] # "RESERVED"
        /\ budget[k] = "COMMITTED" => budget'[k] = "COMMITTED"

\* No step of the ticker resolves a reservation twice.
LEMMA TickerBudget ==
    ASSUME LaunchInv, Ticker \/ TickerDies
    PROVE  BudgetKept
<1>0. budget \in [Key -> BudgetState \cup {"NONE"}] /\ Rows \subseteq Key
  BY DEF LaunchInv, TypeOK, LedgerTypeOK, Rows
<1>1. ASSUME UNCHANGED budget \/ budget' = ReservationsClosed PROVE BudgetKept
  BY <1>0, <1>1 DEF BudgetKept, ReservationsClosed
<1>2. ASSUME NEW k \in Key, RowAction(k) PROVE BudgetKept
  <2>1. \/ UNCHANGED budget
        \/ budget' = [budget EXCEPT ![k] = MarkIndeterminate(budget[k])]
        \/ budget' = [budget EXCEPT ![k] = ApplyUsage(budget[k])]
    BY <1>2
       DEF RowAction, ReconcileRow, Recovered, LostSpawn, InspectReconciled, ObserveRow, ClaimRow,
           PrepareError, RefuseHandoff, Spawn, LaunchError, StoreReceipt, LinkError, CancelHung,
           VerifyImpl, SettleAgain, SettleThrows, SettleDeath, SettlePlan, SettleReview,
           SettleImpl, CloseoutRow, FinishFromProof, DeferLand, StartLand, Land, LandThrows,
           RecordLand, Isolate, FailOrThrow, FailLaunch, CloseRow, MarkLaunched, ledgerVars,
           rowVars
  <2>2. /\ MarkIndeterminate(budget[k]) # "RESERVED" /\ ApplyUsage(budget[k]) # "RESERVED"
        /\ budget[k] = "COMMITTED" => /\ MarkIndeterminate(budget[k]) = "COMMITTED"
                                      /\ ApplyUsage(budget[k]) = "COMMITTED"
    BY <1>0 DEF MarkIndeterminate, ApplyUsage, BudgetState
  <2> QED BY <1>0, <2>1, <2>2 DEF BudgetKept
<1>3. ASSUME NEW t \in Ticket, TicketAction(t) PROVE BudgetKept
  <2>1. \/ UNCHANGED budget \/ budget' = ReservationsClosed
        \/ \E s \in Stage : QueuedHere(t, s)
    BY <1>3 DEF TicketAction, GateQueue, UxQueue, SkipTicket, GateAdmit, AdvanceImpl, AdvancePlan,
         PrimaryDirty, QueueImpl, QueuePlan, Queue, QueuedElsewhere, StopForBudget, Stage,
         ledgerVars, rowVars
  <2>2. ASSUME NEW s \in Stage, QueuedHere(t, s) PROVE BudgetKept
    <3>1. NextKey(t, s) \notin Rows
      BY <2>2, FreshKey DEF LaunchInv, Books, QueuedHere, MayAdmit, Denied
    <3>2. budget' = [budget EXCEPT ![NextKey(t, s)] = "RESERVED"]
      BY <2>2 DEF QueuedHere, InsertRow
    <3> QED BY <1>0, <3>1, <3>2 DEF BudgetKept
  <2> QED BY <1>1, <2>1, <2>2
<1>4. ASSUME LoopEnd \/ TickBegin \/ TickDeadline \/ Crash
      PROVE  UNCHANGED budget \/ budget' = ReservationsClosed
  BY <1>4
     DEF LoopEnd, EndReconcile, EndDispatch, EndObserve, EndWatchdog, EndCloseout, EndGateQueue,
         EndUxQueue, EndGateObserve, EndGateAdmit, EndAdvance, FailUnlaunchable, EndTick,
         EndIsolate, TickBegin, TickDeadline, Crash, StopForBudget, MaybeCompleteWave, ledgerVars,
         rowVars
<1> QED BY <1>1, <1>2, <1>3, <1>4 DEF Ticker, TickerDies, Tick

\* Nor does a command or a worker.
LEMMA OthersBudget ==
    ASSUME LaunchInv, \/ Operator \/ (\E k \in Key : WorkerStep(k)) \/ UNCHANGED allVars
    PROVE  BudgetKept
<1>0. budget \in [Key -> BudgetState \cup {"NONE"}] /\ Rows \subseteq Key
  BY DEF LaunchInv, TypeOK, LedgerTypeOK, Rows
<1>1. ASSUME NEW k \in Key, WorkerStep(k) PROVE UNCHANGED budget
  BY <1>1 DEF WorkerStep, WriteReview, WorkerSucceeds, WorkerFails, WorkerEnds, ledgerVars, rowVars
<1>2. ASSUME Operator PROVE UNCHANGED budget \/ budget' = ReservationsClosed
  BY <1>2 DEF Operator, Freeze, Start, Pause, Resume, SetWave, Approve, Revise, Judge, CancelWave,
              CancelTickets, CancelCrash, vars, ledgerVars, rowVars
<1>3. UNCHANGED budget \/ budget' = ReservationsClosed
  BY <1>1, <1>2 DEF allVars, vars, ledgerVars, rowVars
<1> QED BY <1>0, <1>3 DEF BudgetKept, ReservationsClosed

\* A reservation is resolved once, for any interleaving of settlements, launch failures,
\* budget stops and cancel commands: COMMITTED is final and nothing is reserved again.
THEOREM BudgetOnce == Spec => BudgetResolvedOnce
<1>1. LaunchInv /\ [Next]_allVars => BudgetKept
  BY TickerBudget, OthersBudget DEF Next
<1> QED BY LaunchInvariant, <1>1, PTL DEF Spec, BudgetResolvedOnce, BudgetKept
=============================================================================
