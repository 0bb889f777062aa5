--------------------------- MODULE WaveRunnerOrder ---------------------------
(***************************************************************************)
(* Dependencies come first, and what is over stays over: in waves without   *)
(* UX reviews whose operator does not approve.  With either of these a       *)
(* review may still be open while its ticket goes on to DONE, and its late   *)
(* death then writes FAILED over DONE (settlement.ts:196, which does not     *)
(* look at the ticket).  OrderInv says why nothing else takes DONE back: an  *)
(* open row goes with the status its ticket has while that stage is at work. *)
(* LiveInv says why nothing revives a stopped ticket or a wave that is over, *)
(* unless somebody cancels: no open row, no loop and no landing is left that *)
(* could write to it.                                                       *)
(***************************************************************************)
EXTENDS WaveRunnerRows

\* No UX reviews, and no approvals by the operator.
Undisturbed == NeedsUx = {} /\ "approve" \notin Commands

\* A status an operator's revise may bring about under a worker.
Revised == {s \in {"REVISING"} : "revise" \in Commands}

\* The status of a ticket while a row of stage s is open.
At(s) == CASE s = "PLAN" -> {"PLANNING"} \cup Revised
           [] s = "REVIEW" -> {"PLAN_REVIEW"} \cup Revised
           [] s = "UX_REVIEW" -> {}
           [] s = "IMPL" -> {"IMPLEMENTING"}

\* An open row is the only one of its ticket, which waits for it or has been stopped.
Matched ==
    \A k \in OpenRows :
        /\ ticket[k.ticket] \in At(k.stage) \cup TicketStops
        /\ \A l \in OpenRows : k.ticket = l.ticket => k = l

\* A REVIEW has its launch event, and there is no UX_REVIEW.
Reviewed ==
    \A k \in Rows : k.stage # "UX_REVIEW" /\ (k.stage = "REVIEW" => EverLaunched(k.ticket, "REVIEW"))

DepsDone(t) == \A d \in DependsOn[t] : ticket[d] = "DONE"

\* A ticket that was begun and not stopped has its dependencies behind it.
Begun == \A t \in Ticket : ticket[t] \notin {"PENDING"} \cup TicketStops => DepsDone(t)

\* What a loop over tickets chose them for still holds of those it has not visited.
Chosen ==
    /\ phase = "gateQueue" => \A t \in todo :
          /\ ticket[t] \in {"PLAN_REVIEW"} \cup Revised \cup TicketStops
          /\ \A k \in OpenRows : k.ticket = t => k.stage = "REVIEW"
    /\ phase = "uxQueue" => todo = {}
    /\ phase = "advanceImpl" => \A t \in todo : ticket[t] \in {"APPROVED"} \cup TicketStops
    /\ phase = "advancePlan" => \A t \in todo :
          ticket[t] \in {"PENDING", "REVISING"} \cup TicketStops /\ DepsDone(t)
    /\ step = "dirty" => item \in todo

\* Likewise of the rows of a closeout: their tickets are verified, and wait for no worker.
Settled(t) ==
    ticket[t] \in {"VERIFYING", "DONE"} \cup TicketStops /\ \A k \in OpenRows : k.ticket # t

Lands ==
    /\ phase = "closeout" => \A k \in todo : Settled(k.ticket)
    /\ step \in Landing => Settled(item.ticket)
    /\ step \in Landing \ {"land"} => ticket[item.ticket] # "DONE"

OrderInv == Matched /\ Reviewed /\ Begun /\ DependenciesDone /\ Chosen /\ Lands

\* DONE tickets stay DONE.
DoneStays == \A t \in Ticket : ticket[t] = "DONE" => ticket'[t] = "DONE"

----------------------------------------------------------------------------
(* What holds of rows and tickets, however the ticker moved.                 *)

Rest == Matched /\ Reviewed /\ Begun /\ DependenciesDone

\* A ticket that has a row has its dependencies behind it.
LEMMA RowBegun ==
    ASSUME DependenciesDone, NEW k \in Rows
    PROVE  k.ticket \in Ticket /\ DepsDone(k.ticket)
  BY DEF DependenciesDone, DepsDone, Rows, Key

\* Dependencies that are done stay so.
LEMMA DoneDeps ==
    ASSUME DoneStays, NEW t \in Ticket, DepsDone(t)
    PROVE  DepsDone(t)'
  BY LedgerAssumption DEF DepsDone, DoneStays

\* Stopping tickets, and closing rows, disturbs nothing.
LEMMA StopsKeep ==
    ASSUME LaunchInv, Rest, Rows' = Rows, OpenRows' \subseteq OpenRows, hopLaunch \subseteq hopLaunch',
           \A t \in Ticket : \/ ticket'[t] = ticket[t]
                             \/ ticket[t] # "DONE" /\ ticket'[t] \in TicketStops
    PROVE  Rest' /\ DoneStays
<1>1. DoneStays
  BY DEF DoneStays
<1>2. Matched'
  <2>1. \A k \in OpenRows : k.ticket \in Ticket
    BY DEF OpenRows, Rows, Key
  <2> QED BY <2>1 DEF Rest, Matched
<1>3. Reviewed'
  BY DEF Rest, Reviewed, EverLaunched
<1>4. Begun'
  BY <1>1, DoneDeps DEF Rest, Begun
<1>5. DependenciesDone'
  <2>1. \A k \in Rows : DepsDone(k.ticket)'
    BY <1>1, DoneDeps, RowBegun DEF Rest
  <2> QED BY <2>1 DEF DependenciesDone, DepsDone
<1> QED BY <1>1, <1>2, <1>3, <1>4, <1>5 DEF Rest

\* One ticket moves, and fits the rows it still has open.
LEMMA MoveKeeps ==
    ASSUME LaunchInv, Rest, Rows' = Rows, OpenRows' \subseteq OpenRows, hopLaunch \subseteq hopLaunch',
           NEW t \in Ticket, \A u \in Ticket \ {t} : ticket'[u] = ticket[u],
           ticket[t] = "DONE" => ticket'[t] = "DONE",
           ticket'[t] \notin {"PENDING"} \cup TicketStops => DepsDone(t),
           \A k \in OpenRows' : k.ticket = t => ticket'[t] \in At(k.stage) \cup TicketStops
    PROVE  Rest' /\ DoneStays
<1>1. DoneStays
  BY DEF DoneStays
<1>2. Matched'
  <2>1. \A k \in OpenRows : k.ticket \in Ticket
    BY DEF OpenRows, Rows, Key
  <2> QED BY <2>1 DEF Rest, Matched
<1>3. Reviewed'
  BY DEF Rest, Reviewed, EverLaunched
<1>4. Begun'
  BY <1>1, DoneDeps DEF Rest, Begun
<1>5. DependenciesDone'
  <2>1. \A k \in Rows : DepsDone(k.ticket)'
    BY <1>1, DoneDeps, RowBegun DEF Rest
  <2> QED BY <2>1 DEF DependenciesDone, DepsDone
<1> QED BY <1>1, <1>2, <1>3, <1>4, <1>5 DEF Rest

\* A row is admitted for a ticket that has no open row and its dependencies behind it.
LEMMA InsertKeeps ==
    ASSUME LaunchInv, Serial, Rest, NEW t \in Ticket, NEW s \in Stage, QueuedHere(t, s),
           \A l \in OpenRows : l.ticket # t,
           s = "IMPL" => \A l \in OpenRows : l.stage = "IMPL" => ScopeOf[l.ticket] # ScopeOf[t],
           s # "UX_REVIEW", DepsDone(t), ticket[t] # "DONE", hopLaunch \subseteq hopLaunch',
           s = "REVIEW" => EverLaunched(t, "REVIEW")' /\ ticket[t] \in At(s) \cup TicketStops
    PROVE  /\ Rest' /\ DoneStays
           /\ \A u \in Ticket \ {t} : ticket'[u] = ticket[u]
           /\ \A l \in OpenRows' : l.ticket # t => l \in OpenRows
<1>1. PICK k \in Key : /\ k.ticket = t /\ k.stage = s
                       /\ Rows' = Rows \cup {k} /\ OpenRows' = OpenRows \cup {k}
  BY InsertSerial
<1>2. /\ \A u \in Ticket \ {t} : ticket'[u] = ticket[u]
      /\ ticket'[t] \in At(s) \cup TicketStops
  <2>1. ticket \in [Ticket -> TicketStatus]
    BY DEF LaunchInv, TypeOK, LedgerTypeOK
  <2>2. CASE s \in GateStage
    <3>1. UNCHANGED ticket /\ s = "REVIEW"
      BY <2>2 DEF QueuedHere, InsertRow, GateStage
    <3> QED BY <3>1
  <2>3. CASE s \notin GateStage
    <3>1. ticket' = [ticket EXCEPT ![t] = StageTicketStatus(s)]
      BY <2>3 DEF QueuedHere, InsertRow
    <3>2. StageTicketStatus(s) \in At(s)
      BY <2>3 DEF Stage, GateStage, StageTicketStatus, At
    <3> QED BY <2>1, <3>1, <3>2
  <2> QED BY <2>2, <2>3
<1>3. DoneStays
  BY <1>2 DEF DoneStays
<1>4. Matched'
  <2>1. \A l \in OpenRows : l.ticket \in Ticket
    BY DEF OpenRows, Rows, Key
  <2> QED BY <1>1, <1>2, <2>1 DEF Rest, Matched
<1>5. Reviewed'
  BY <1>1 DEF Rest, Reviewed, EverLaunched
<1>6. Begun'
  BY <1>2, <1>3, DoneDeps DEF Rest, Begun
<1>7. DependenciesDone'
  <2>1. \A l \in Rows : DepsDone(l.ticket)'
    BY <1>3, DoneDeps, RowBegun DEF Rest
  <2>2. DepsDone(t)'
    BY <1>3, DoneDeps
  <2> QED BY <1>1, <2>1, <2>2 DEF DependenciesDone, DepsDone
<1> QED BY <1>1, <1>2, <1>3, <1>4, <1>5, <1>6, <1>7 DEF Rest

----------------------------------------------------------------------------
(* Steps on behalf of a row.                                                 *)

\* An open row at hand closes, and its ticket moves on.
LEMMA CloseKeeps ==
    ASSUME LaunchInv, Rest, NEW k \in OpenRows, Rows' = Rows, OpenRows' \subseteq OpenRows \ {k},
           hopLaunch \subseteq hopLaunch', NEW s, ticket' = [ticket EXCEPT ![k.ticket] = s],
           s # "DONE"
    PROVE  /\ Rest' /\ DoneStays
           /\ \A l \in OpenRows' : l.ticket # k.ticket
           /\ \A t \in Ticket : Settled(t) => Settled(t)'
<1>1. k \in Rows /\ k.ticket \in Ticket /\ DepsDone(k.ticket)
  BY RowBegun DEF OpenRows, Rest
<1>2. \A l \in OpenRows' : l.ticket # k.ticket
  BY DEF Rest, Matched
<1>3. ticket[k.ticket] # "DONE"
  <2>1. k.stage \in Stage
    BY <1>1 DEF Rows, Key
  <2> QED BY <2>1 DEF Rest, Matched, At, Revised, Stage, TicketStops
<1>4. ticket \in [Ticket -> TicketStatus]
  BY DEF LaunchInv, TypeOK, LedgerTypeOK
<1>5. \A t \in Ticket \ {k.ticket} : ticket'[t] = ticket[t]
  BY <1>4
<1>6. Rest' /\ DoneStays
  BY <1>1, <1>2, <1>3, <1>5, MoveKeeps
<1>7. \A t \in Ticket : Settled(t) => Settled(t)'
  BY <1>5 DEF Settled
<1> QED BY <1>2, <1>6, <1>7

\* The statuses a row at hand leaves its ticket in, and whether the row closed.
LEMMA RowFails ==
    ASSUME LaunchInv, Rest, NEW k \in Rows, NEW fatal \in BOOLEAN, FailLaunch(k, fatal),
           Rows' = Rows, OpenRows' \subseteq OpenRows, UNCHANGED hopLaunch
    PROVE  /\ Rest' /\ DoneStays
           /\ \A t \in Ticket : Settled(t) => Settled(t)'
<1>1. CASE UNCHANGED ticket
  BY <1>1, StopsKeep DEF Settled
<1>2. CASE ticket' # ticket
  <2>1. /\ k \in OpenRows /\ outbox' = [outbox EXCEPT ![k] = "FAILED"]
        /\ ticket' = [ticket EXCEPT ![k.ticket] = DeathStatus(k, fatal)]
    BY <1>2 DEF FailLaunch, OpenRows
  <2>2. k \notin OpenRows'
    BY <2>1 DEF OpenRows, ClosedRow, Rows, LaunchInv, TypeOK, LedgerTypeOK
  <2>3. DeathStatus(k, fatal) # "DONE"
    BY DEF DeathStatus, Rearm, GateStage, Rows, Key, Stage
  <2> QED BY <2>1, <2>2, <2>3, CloseKeeps
<1> QED BY <1>1, <1>2

\* Whatever a step does to its row, the others and their tickets stand; and a ticket whose
\* work is settled goes on from there.
LEMMA RowRest ==
    ASSUME LaunchInv, RowsInv, OrderInv, NEW k \in Key, RowAction(k)
    PROVE  /\ Rest' /\ DoneStays
           /\ \A t \in Ticket : Settled(t) => Settled(t)'
           /\ SettleImpl(k) => Settled(k.ticket)'
<1>0. /\ Rows' = Rows /\ OpenRows' \subseteq OpenRows /\ Rest /\ LaunchInv
      /\ ticket \in [Ticket -> TicketStatus] /\ outbox \in [Key -> OutboxState \cup {"NONE"}]
  BY RowCloses DEF OrderInv, Rest, LaunchInv, TypeOK, LedgerTypeOK
<1>1. CASE UNCHANGED <<ticket, hopLaunch>> /\ ~SettleImpl(k)
  BY <1>0, <1>1, StopsKeep DEF Settled
<1>2. CASE LostSpawn(k) \/ LaunchError(k) \/ Isolate(k)
  <2>1. k \in Rows
    <3>1. CASE LostSpawn(k) \/ LaunchError(k)
      BY <3>1 DEF LostSpawn, LaunchError, LaunchInv, Hand, RowsInHand
    <3>2. CASE Isolate(k)
      BY <3>2 DEF Isolate, LaunchInv, Hand, RowsInHand, RowPhase
    <3> QED BY <1>2, <3>1, <3>2
  <2>2. /\ UNCHANGED ticket \/ \E fatal \in BOOLEAN : FailLaunch(k, fatal)
        /\ UNCHANGED hopLaunch
    BY <1>2 DEF LostSpawn, LaunchError, Isolate, FailOrThrow, Deaths, gateVars
  <2>3. ~SettleImpl(k)
    <3>1. step \in {"recover", "launch"} \/ phase = "isolate"
      BY <1>2 DEF LostSpawn, LaunchError, Isolate
    <3> QED BY <3>1 DEF SettleImpl, Settles, ReadyToSettle, RowsInv, Alive
  <2> QED BY <1>0, <1>1, <2>1, <2>2, <2>3, RowFails
<1>3. CASE SettleDeath(k) \/ SettlePlan(k) \/ SettleReview(k) \/ SettleImpl(k)
  <2>1. /\ Settles(k) /\ outbox' = [outbox EXCEPT ![k] = "SETTLED"]
        /\ \/ UNCHANGED ticket /\ ~SettleImpl(k)
           \/ \E s \in TicketStatus \ {"DONE"} :
                 /\ ticket' = [ticket EXCEPT ![k.ticket] = s]
                 /\ SettleImpl(k) => s = "VERIFYING"
    <3>1. CASE SettleDeath(k)
      <4>1. DeathStatus(k, Fatal) \in TicketStatus \ {"DONE"}
        BY DEF DeathStatus, Rearm, GateStage, Key, Stage, TicketStatus
      <4>2. ~SettleImpl(k)
        BY <3>1 DEF SettleDeath, SettleImpl
      <4> QED BY <3>1, <4>1, <4>2 DEF SettleDeath, CloseRow, TicketStatus
    <3>2. CASE SettlePlan(k)
      <4>1. \A ok : PlanOutcome(k.ticket, ok)[1] \in TicketStatus \ {"DONE"}
        BY DEF PlanOutcome, TicketStatus
      <4>2. ~SettleImpl(k)
        BY <3>2 DEF SettlePlan, SettleImpl
      <4> QED BY <3>2, <4>1, <4>2 DEF SettlePlan, PlanSettled, CloseRow
    <3>3. CASE SettleReview(k)
      <4>1. ~SettleImpl(k)
        BY <3>3 DEF SettleReview, SettleImpl, GateStage
      <4> QED BY <3>3, <4>1 DEF SettleReview, Decide, CloseRow, TicketStatus
    <3>4. CASE SettleImpl(k)
      BY <3>4 DEF SettleImpl, CloseRow, TicketStatus
    <3> QED BY <1>3, <3>1, <3>2, <3>3, <3>4
  <2>2. UNCHANGED hopLaunch
    BY <1>3 DEF SettleDeath, SettlePlan, SettleReview, SettleImpl, PlanSettled, Decide, gateVars
  <2>3. k \in OpenRows
    BY <2>1 DEF Settles, ReadyToSettle, RowsInv, Alive, RowStep, Landing
  <2>4. k \notin OpenRows'
    BY <1>0, <2>1 DEF OpenRows, ClosedRow, Rows
  <2>5. CASE UNCHANGED ticket /\ ~SettleImpl(k)
    BY <1>1, <2>2, <2>5
  <2>6. ASSUME NEW s \in TicketStatus \ {"DONE"}, ticket' = [ticket EXCEPT ![k.ticket] = s],
               SettleImpl(k) => s = "VERIFYING"
        PROVE  /\ Rest' /\ DoneStays
               /\ \A t \in Ticket : Settled(t) => Settled(t)'
               /\ SettleImpl(k) => Settled(k.ticket)'
    <3>1. /\ Rest' /\ DoneStays
          /\ \A l \in OpenRows' : l.ticket # k.ticket
          /\ \A t \in Ticket : Settled(t) => Settled(t)'
      BY <1>0, <2>2, <2>3, <2>4, <2>6, CloseKeeps
    <3>2. k.ticket \in Ticket
      BY DEF Key
    <3> QED BY <1>0, <2>6, <3>1, <3>2 DEF Settled
  <2> QED BY <2>1, <2>5, <2>6
<1>4. CASE FinishFromProof(k) \/ RecordLand(k)
  <2>1. Settled(k.ticket) /\ Verified(k.ticket) /\ k.ticket \in Ticket
    BY <1>4 DEF FinishFromProof, RecordLand, OrderInv, Lands, Landing, RowsInv, Proven, Key
  <2>2. DepsDone(k.ticket)
    BY <1>0, <2>1, RowBegun DEF Verified, RowsOf, Rest
  <2>3. PICK s : /\ ticket' = [ticket EXCEPT ![k.ticket] = s] /\ s \in {"DONE", "FAILED"}
                 /\ s = "FAILED" => ticket[k.ticket] # "DONE"
    <3>1. CASE FinishFromProof(k)
      BY <3>1 DEF FinishFromProof
    <3>2. CASE RecordLand(k)
      BY <3>2 DEF RecordLand, OrderInv, Lands, Landing
    <3> QED BY <1>4, <3>1, <3>2
  <2>4. \A u \in Ticket \ {k.ticket} : ticket'[u] = ticket[u]
    BY <1>0, <2>3
  <2>5. ticket'[k.ticket] = s
    BY <1>0, <2>1, <2>3
  <2>6. UNCHANGED hopLaunch /\ ~SettleImpl(k)
    BY <1>4 DEF FinishFromProof, RecordLand, gateVars, SettleImpl, Settles, ReadyToSettle
  <2>7. Rest' /\ DoneStays
    BY <1>0, <2>1, <2>2, <2>3, <2>4, <2>5, <2>6, MoveKeeps DEF Settled
  <2>8. \A t \in Ticket : Settled(t) => Settled(t)'
    BY <1>0, <2>3, <2>4, <2>5 DEF Settled, TicketStops
  <2> QED BY <2>6, <2>7, <2>8
<1>5. CASE \/ ReconcileRow(k) \/ Recovered(k) \/ InspectReconciled(k) \/ ObserveRow(k)
           \/ ClaimRow(k) \/ PrepareError(k) \/ RefuseHandoff(k) \/ Spawn(k)
           \/ StoreReceipt(k) \/ LinkError(k) \/ CancelHung(k) \/ VerifyImpl(k)
           \/ SettleAgain(k) \/ SettleThrows(k) \/ CloseoutRow(k) \/ DeferLand(k)
           \/ StartLand(k) \/ Land(k) \/ LandThrows(k)
  <2>1. UNCHANGED <<ticket, hopLaunch>>
    BY <1>5 DEF ReconcileRow, Recovered, InspectReconciled, ObserveRow, ClaimRow, PrepareError,
       RefuseHandoff, Spawn, StoreReceipt, LinkError, CancelHung, VerifyImpl, SettleAgain,
       SettleThrows, CloseoutRow, DeferLand, StartLand, Land, LandThrows, ledgerVars, gateVars
  <2> QED BY <1>1, <1>3, <2>1
<1> QED BY <1>2, <1>3, <1>4, <1>5 DEF RowAction

\* A step on behalf of a row keeps OrderInv.
LEMMA RowOrder ==
    ASSUME LaunchInv, RowsInv, OrderInv, NEW k \in Key, RowAction(k)
    PROVE  OrderInv' /\ DoneStays
<1>1. /\ Rest' /\ DoneStays
      /\ \A t \in Ticket : Settled(t) => Settled(t)'
      /\ SettleImpl(k) => Settled(k.ticket)'
  BY RowRest
<1>2. phase' \in RowPhase \cup {"escaped"} /\ step' # "dirty"
  <2>1. phase \in RowPhase
    BY RowPlace DEF RowsInv
  <2> QED BY <2>1, RowPlace DEF Throw, Leave, Goto, RowPhase, RowStep, RowsInv
<1>3. Chosen'
  BY <1>2 DEF Chosen, RowPhase
<1>4. \A l \in todo : phase = "closeout" => Settled(l.ticket)'
  <2>1. todo \subseteq Key \/ phase # "closeout"
    BY DEF LaunchInv, TypeOK, TickTypeOK, RowPhase
  <2> QED BY <1>1, <2>1 DEF OrderInv, Lands, Key
<1>5. CASE step' \notin Landing
  <2>1. phase' = "closeout" => phase = "closeout" /\ todo' \subseteq todo
    BY RowPlace DEF Throw, Leave, Goto, RowsInv
  <2>2. phase' = "closeout" => \A l \in todo' : Settled(l.ticket)'
    BY <1>4, <2>1
  <2> QED BY <1>1, <1>3, <1>5, <2>2 DEF OrderInv, Rest, Lands, Settled
<1>6. CASE step' \in Landing
  <2>1. phase' = phase /\ todo' = todo /\ item' = k
    BY <1>6, RowPlace DEF Throw, Leave, Goto, RowsInv, Landing
  <2>2. phase' = "closeout" => \A l \in todo' : Settled(l.ticket)'
    BY <1>4, <2>1
  <2>3. Settled(k.ticket)' /\ (step' \in Landing \ {"land"} => ticket'[k.ticket] # "DONE")
    <3>0. k.ticket \in Ticket
      BY DEF Key
    <3>1. CASE SettleImpl(k)
      BY <1>1, <3>1 DEF SettleImpl, AfterSettle
    <3>2. CASE CloseoutRow(k)
      BY <1>4, <3>2 DEF CloseoutRow, Await
    <3>3. CASE StartLand(k) \/ Land(k)
      <4>1. Settled(k.ticket) /\ UNCHANGED ticket /\ ticket[k.ticket] # "DONE"
        BY <3>3 DEF StartLand, Land, MustLand, OrderInv, Lands, Landing, ledgerVars
      <4> QED BY <1>1, <3>0, <4>1
    <3>4. CASE SettleAgain(k)
      BY <3>4 DEF SettleAgain, ReadyToSettle, RowsInv, Alive, RowStep, Landing, OpenRows, ClosedRow
    <3>5. CASE SettleDeath(k) \/ SettlePlan(k) \/ SettleReview(k)
      BY <1>6, <3>5 DEF SettleDeath, SettlePlan, SettleReview, AfterSettle, GateStage, Leave, Goto,
                        Landing
    <3>6. CASE \/ ReconcileRow(k) \/ ClaimRow(k) \/ InspectReconciled(k) \/ ObserveRow(k)
               \/ Spawn(k) \/ CancelHung(k) \/ VerifyImpl(k)
      BY <1>6, <3>6 DEF ReconcileRow, ClaimRow, InspectReconciled, ObserveRow, Spawn, CancelHung,
                        VerifyImpl, Inspected, Await, Leave, Throw, Goto, Landing
    <3>7. CASE \/ Recovered(k) \/ LostSpawn(k) \/ LaunchError(k) \/ StoreReceipt(k)
               \/ PrepareError(k) \/ LinkError(k) \/ RefuseHandoff(k) \/ SettleThrows(k)
               \/ FinishFromProof(k) \/ DeferLand(k) \/ LandThrows(k) \/ RecordLand(k) \/ Isolate(k)
      <4>1. Leave(k) \/ Throw \/ Goto("escaped", {})
        BY <3>7 DEF Recovered, LostSpawn, LaunchError, StoreReceipt, PrepareError, LinkError,
           RefuseHandoff, SettleThrows, FinishFromProof, DeferLand, LandThrows, RecordLand, Isolate,
           FailOrThrow
      <4> QED BY <1>6, <4>1 DEF Leave, Throw, Goto, Landing
    <3> QED BY <3>1, <3>2, <3>3, <3>4, <3>5, <3>6, <3>7 DEF RowAction
  <2>4. Lands'
    BY <2>1, <2>2, <2>3 DEF Lands, Settled
  <2> QED BY <1>1, <1>3, <2>4 DEF OrderInv, Rest
<1> QED BY <1>1, <1>5, <1>6

----------------------------------------------------------------------------
(* Steps on behalf of a ticket.                                              *)

\* Nothing is being landed after them.
LEMMA TicketLands ==
    ASSUME NEW t \in Ticket, TicketAction(t)
    PROVE  Lands'
<1>1. phase' # "closeout" /\ step' \notin Landing
  BY TicketPlace DEF Throw, Goto, TicketPhase, Landing
<1> QED BY <1>1 DEF Lands, Landing

\* A ticket that wants a review has a plan.
LEMMA PlanExists ==
    ASSUME LaunchInv, NEW t \in Ticket, LatestPlan(t) > 0
    PROVE  LatestPlan(t) \in Attempt /\ RowsOf(t, "PLAN") # {}
<1>1. LatestPlan(t) \in Attempt
  BY LatestPlanType DEF Attempt
<1>2. ASSUME RowsOf(t, "PLAN") = {} PROVE FALSE
  <2>1. {0} \cup {k.attempt : k \in {p \in RowsOf(t, "PLAN") : stageRun[p] = "SUCCEEDED"}} = {0}
    BY <1>2
  <2>2. LatestPlan(t) = Max({0})
    BY <2>1 DEF LatestPlan
  <2>3. Max({0}) = 0
    BY DEF Max
  <2> QED BY <2>2, <2>3
<1> QED BY <1>1, <1>2

\* maybeAdmitPlanGate judges a ticket when its REVIEW is over, or was never wanted.
LEMMA AdmitAlone ==
    ASSUME Undisturbed, LaunchInv, OrderInv, NEW t \in Ticket, GateAdmit(t), ticket' # ticket
    PROVE  /\ ticket[t] = "PLAN_REVIEW" /\ \A l \in OpenRows : l.ticket # t
           /\ \E s \in {"APPROVED", "FAILED", "REVISING"} : ticket' = [ticket EXCEPT ![t] = s]
<1>1. UxDecision(t) = "none"
  BY DEF UxDecision, Undisturbed
<1>2. PlanDecision(t, {}) # "none" /\ \E s \in {"APPROVED", "FAILED", "REVISING"} :
                                         ticket' = [ticket EXCEPT ![t] = s]
  BY <1>1 DEF GateAdmit, Decide
<1>3. ticket[t] = "PLAN_REVIEW" /\ (PlanReviewReady(t, {}) \/ ~EverLaunched(t, "REVIEW"))
  BY <1>2 DEF PlanDecision
<1>4. ASSUME NEW l \in OpenRows, l.ticket = t PROVE FALSE
  <2>1. l \in Rows /\ l.stage \in Stage
    BY DEF OpenRows, Rows, Key
  <2>2. l.stage = "REVIEW"
    BY <1>3, <1>4, <2>1 DEF OrderInv, Matched, At, Revised, Stage, TicketStops
  <2>3. EverLaunched(t, "REVIEW")
    BY <1>4, <2>1, <2>2 DEF OrderInv, Reviewed
  <2>4. GateBusy(t, "REVIEW", {})
    BY <1>4, <2>1, <2>2 DEF GateBusy, RowsOf, OpenRows
  <2> QED BY <1>3, <2>3, <2>4 DEF PlanReviewReady
<1> QED BY <1>2, <1>3, <1>4

\* The verdict keeps the order.
LEMMA AdmitOrder ==
    ASSUME Undisturbed, LaunchInv, OrderInv, NEW t \in Ticket, GateAdmit(t)
    PROVE  Rest' /\ DoneStays /\ Chosen'
<1>1. /\ Rows' = Rows /\ OpenRows' = OpenRows /\ UNCHANGED hopLaunch
      /\ ticket \in [Ticket -> TicketStatus] /\ Rest
  BY DEF GateAdmit, Decide, rowVars, Rows, OpenRows, OrderInv, Rest, LaunchInv, TypeOK, LedgerTypeOK
<1>2. Chosen'
  BY DEF GateAdmit, Leave, Throw, Goto, Chosen
<1>3. CASE UNCHANGED ticket
  BY <1>1, <1>2, <1>3, StopsKeep
<1>4. CASE ticket' # ticket
  <2>1. ticket[t] = "PLAN_REVIEW" /\ \A l \in OpenRows : l.ticket # t
    BY <1>4, AdmitAlone
  <2>2. DepsDone(t)
    BY <2>1 DEF OrderInv, Begun, TicketStops
  <2>3. PICK s \in {"APPROVED", "FAILED", "REVISING"} : ticket' = [ticket EXCEPT ![t] = s]
    BY <1>4, AdmitAlone
  <2>4. /\ \A u \in Ticket \ {t} : ticket'[u] = ticket[u]
        /\ ticket[t] # "DONE"
        /\ \A l \in OpenRows' : l.ticket # t
    BY <1>1, <2>1, <2>3
  <2> QED BY <1>1, <1>2, <2>2, <2>4, MoveKeeps
<1> QED BY <1>3, <1>4

\* A loop that goes on without t, when other tickets stay what they were.
LEMMA ChosenLeave ==
    ASSUME OrderInv, NEW t \in Ticket, phase \in TicketPhase, phase' = phase, todo' = todo \ {t},
           todo \subseteq Ticket, step' = "next", DoneStays,
           \A u \in Ticket \ {t} : ticket'[u] = ticket[u],
           \A l \in OpenRows' : l.ticket # t => l \in OpenRows
    PROVE  Chosen'
<1>1. ASSUME phase = "gateQueue", NEW u \in todo'
      PROVE  /\ ticket'[u] \in {"PLAN_REVIEW"} \cup Revised \cup TicketStops
             /\ \A k \in OpenRows' : k.ticket = u => k.stage = "REVIEW"
  BY <1>1 DEF OrderInv, Chosen
<1>2. phase = "uxQueue" => todo' = {}
  BY DEF OrderInv, Chosen
<1>3. ASSUME phase = "advanceImpl", NEW u \in todo'
      PROVE  ticket'[u] \in {"APPROVED"} \cup TicketStops
  BY <1>3 DEF OrderInv, Chosen
<1>4. ASSUME phase = "advancePlan", NEW u \in todo'
      PROVE  ticket'[u] \in {"PENDING", "REVISING"} \cup TicketStops /\ DepsDone(u)'
  BY <1>4, DoneDeps DEF OrderInv, Chosen
<1> QED BY <1>1, <1>2, <1>3, <1>4 DEF Chosen

\* The other ways out of queueStageOrBudget leave the loop, or insert nothing.
LEMMA QueueOther ==
    ASSUME LaunchInv, Rest, hopLaunch \subseteq hopLaunch',
           \/ UNCHANGED <<outbox, ticket>>
           \/ StopForBudget /\ UNCHANGED outbox
    PROVE  /\ Rest' /\ DoneStays
           /\ Rows' = Rows /\ OpenRows' = OpenRows
<1>1. Rows' = Rows /\ OpenRows' = OpenRows
  BY DEF Rows, OpenRows
<1>2. \A t \in Ticket : ticket'[t] = ticket[t] \/ (ticket[t] # "DONE" /\ ticket'[t] \in TicketStops)
  BY DEF StopForBudget, TerminalTicket, TicketStops
<1> QED BY <1>1, <1>2, StopsKeep

\* queueMissingPlanReviews.
LEMMA GateQueueOrder ==
    ASSUME Undisturbed, LaunchInv, RowsInv, OrderInv, NEW t \in Ticket, GateQueue(t)
    PROVE  Rest' /\ DoneStays /\ Chosen'
<1>1. Rest /\ todo \subseteq Ticket /\ phase = "gateQueue" /\ t \in todo
  BY DEF OrderInv, Rest, LaunchInv, TypeOK, TickTypeOK, GateQueue, RowPhase
<1>2. CASE SkipTicket(t)
  <2>1. UNCHANGED <<outbox, ticket, hopLaunch>> /\ Leave(t)
    BY <1>2 DEF SkipTicket, ledgerVars, rowVars, gateVars
  <2>2. Rest' /\ DoneStays /\ OpenRows' = OpenRows
    BY <1>1, <2>1, QueueOther
  <2> QED BY <1>1, <2>1, <2>2, ChosenLeave DEF Leave, Goto, TicketPhase
<1>3. ASSUME WantsReview(t), QueuedHere(t, "REVIEW"), Goto(phase, todo \ {t}), HopQueued(t, "REVIEW")
      PROVE  Rest' /\ DoneStays /\ Chosen'
  <2>1. HopMissing(t, "REVIEW") /\ LatestPlan(t) \in Attempt /\ RowsOf(t, "PLAN") # {}
    BY <1>3, PlanExists DEF WantsReview, HopMissing
  <2>2. DepsDone(t)
    BY <1>1, <2>1, RowBegun DEF RowsOf, Rest
  <2>3. \A l \in OpenRows : l.ticket # t
    BY <1>1, <2>1, HopIsFree DEF OrderInv, Chosen, GateStage
  <2>4. ticket[t] \in At("REVIEW") \cup TicketStops /\ ticket[t] # "DONE"
    BY <1>1 DEF OrderInv, Chosen, At, Revised, TicketStops
  <2>5. hopLaunch \subseteq hopLaunch' /\ EverLaunched(t, "REVIEW")'
    BY <1>3, <2>1 DEF HopQueued, EverLaunched
  <2>6. /\ Rest' /\ DoneStays
        /\ \A u \in Ticket \ {t} : ticket'[u] = ticket[u]
        /\ \A l \in OpenRows' : l.ticket # t => l \in OpenRows
    BY <1>1, <1>3, <2>2, <2>3, <2>4, <2>5, InsertKeeps DEF RowsInv, Stage
  <2> QED BY <1>1, <1>3, <2>6, ChosenLeave DEF Goto, TicketPhase
<1>4. ASSUME QueuedElsewhere(t, "REVIEW"), Goto(phase, todo \ {t}), HopQueued(t, "REVIEW")
      PROVE  Rest' /\ DoneStays /\ Chosen'
  <2>1. UNCHANGED <<outbox, ticket>> /\ hopLaunch \subseteq hopLaunch'
    BY <1>4 DEF QueuedElsewhere, rowVars, HopQueued
  <2>2. Rest' /\ DoneStays /\ OpenRows' = OpenRows
    BY <1>1, <2>1, QueueOther
  <2> QED BY <1>1, <1>4, <2>1, <2>2, ChosenLeave DEF Goto, TicketPhase
<1>5. ASSUME hopLaunch' = hopLaunch,
             UNCHANGED <<outbox, ticket>> \/ (StopForBudget /\ UNCHANGED outbox),
             Goto("complete", {}) \/ Goto(phase, {}) \/ Throw
      PROVE  Rest' /\ DoneStays /\ Chosen'
  <2>1. Rest' /\ DoneStays
    BY <1>1, <1>5, QueueOther
  <2> QED BY <1>1, <1>5, <2>1 DEF Throw, Goto, Chosen
<1> QED BY <1>2, <1>3, <1>4, <1>5 DEF GateQueue, Queue, rowVars

\* advanceReadyTickets, up to its await and when the primary is dirty after it.
LEMMA AdvanceOrder ==
    ASSUME LaunchInv, OrderInv, NEW t \in Ticket,
           AdvanceImpl(t) \/ AdvancePlan(t) \/ PrimaryDirty(t)
    PROVE  Rest' /\ DoneStays /\ Chosen'
<1>1. /\ Rest /\ todo \subseteq Ticket /\ phase \in TicketPhase
      /\ ticket \in [Ticket -> TicketStatus]
  <2>1. phase \in {"advanceImpl", "advancePlan"}
    BY DEF AdvanceImpl, AdvancePlan, PrimaryDirty, Advancing
  <2> QED BY <2>1 DEF OrderInv, Rest, LaunchInv, TypeOK, TickTypeOK, LedgerTypeOK, RowPhase,
                      TicketPhase
<1>2. /\ UNCHANGED <<outbox, hopLaunch>> /\ Rows' = Rows /\ OpenRows' = OpenRows
  BY DEF AdvanceImpl, AdvancePlan, PrimaryDirty, ledgerVars, rowVars, gateVars, Rows, OpenRows
<1>3. \A u \in Ticket : \/ ticket'[u] = ticket[u]
                        \/ u = t /\ ticket[u] # "DONE" /\ ticket'[u] \in TicketStops
  <2>1. CASE AdvanceImpl(t) \/ AdvancePlan(t)
    BY <2>1 DEF AdvanceImpl, AdvancePlan, ledgerVars
  <2>2. CASE PrimaryDirty(t)
    <3>1. ticket[t] # "DONE"
      BY <2>2 DEF PrimaryDirty, Advancing, OrderInv, Chosen, TicketStops
    <3> QED BY <1>1, <2>2, <3>1 DEF PrimaryDirty, TicketStops
  <2> QED BY <2>1, <2>2
<1>4. Rest' /\ DoneStays
  BY <1>1, <1>2, <1>3, StopsKeep
<1>5. CASE Leave(t)
  BY <1>1, <1>2, <1>3, <1>4, <1>5, ChosenLeave DEF Leave, Goto
<1>6. CASE (AdvanceImpl(t) \/ AdvancePlan(t)) /\ Await(t, "dirty")
  <2>1. /\ t \in todo /\ UNCHANGED <<phase, todo, ticket>> /\ item' = t
        /\ phase \in {"advanceImpl", "advancePlan"}
    BY <1>6 DEF AdvanceImpl, AdvancePlan, Await, ledgerVars
  <2>2. \A u \in Ticket : DepsDone(u) => DepsDone(u)'
    BY <1>4, DoneDeps
  <2>3. phase = "advanceImpl" => \A u \in todo : ticket[u] \in {"APPROVED"} \cup TicketStops
    BY DEF OrderInv, Chosen
  <2>4. phase = "advancePlan" => \A u \in todo :
            ticket[u] \in {"PENDING", "REVISING"} \cup TicketStops /\ DepsDone(u)'
    BY <1>1, <2>2 DEF OrderInv, Chosen
  <2>5. Chosen'
    BY <2>1, <2>3, <2>4 DEF Chosen
  <2> QED BY <1>4, <2>5
<1>7. CASE AdvanceImpl(t)
  BY <1>5, <1>6, <1>7 DEF AdvanceImpl
<1>8. CASE AdvancePlan(t)
  BY <1>5, <1>6, <1>8 DEF AdvancePlan
<1>9. CASE PrimaryDirty(t)
  BY <1>5, <1>9 DEF PrimaryDirty
<1> QED BY <1>7, <1>8, <1>9

\* advanceReadyTickets admits what it chose before the await, and still may.
LEMMA QueueOrder ==
    ASSUME LaunchInv, RowsInv, OrderInv, NEW t \in Ticket, QueueImpl(t) \/ QueuePlan(t)
    PROVE  Rest' /\ DoneStays /\ Chosen'
<1>1. /\ Rest /\ todo \subseteq Ticket /\ phase \in {"advanceImpl", "advancePlan"}
      /\ step = "dirty" /\ item = t /\ t \in todo
  BY DEF QueueImpl, QueuePlan, OrderInv, Chosen, Rest, LaunchInv, TypeOK, TickTypeOK, RowPhase
<1>2. ASSUME NEW s \in {"IMPL", "PLAN"}, QueuedHere(t, s), Goto(phase, todo \ {t}),
             UNCHANGED hopLaunch, s = "IMPL" <=> phase = "advanceImpl"
      PROVE  Rest' /\ DoneStays /\ Chosen'
  <2>1. /\ \A l \in OpenRows : l.ticket # t
        /\ DepsDone(t) /\ ticket[t] # "DONE"
    <3>1. CASE s = "IMPL"
      <4>1. ticket[t] = "APPROVED"
        <5>1. ticket[t] \in {"APPROVED"} \cup TicketStops
          BY <1>1, <1>2, <3>1 DEF OrderInv, Chosen
        <5>2. TicketMayMove(ticket[t], "IMPLEMENTING", cancelRequested)
          BY <1>2, <3>1, <5>1 DEF QueuedHere, IllegalEntry, StageTicketStatus, GateStage, TicketStops
        <5> QED BY <5>1, <5>2 DEF TicketMayMove, TicketMoves, TicketStops, TicketStatus
      <4>2. \A l \in OpenRows : l.stage \in Stage
        BY DEF OpenRows, Rows, Key
      <4>3. \A l \in OpenRows : l.ticket # t
        BY <4>1, <4>2 DEF OrderInv, Matched, At, Revised, Stage, TicketStops
      <4>4. DepsDone(t)
        BY <4>1 DEF OrderInv, Begun, TicketStops
      <4> QED BY <4>1, <4>3, <4>4
    <3>2. CASE s = "PLAN"
      <4>1. phase = "advancePlan"
        BY <1>1, <1>2, <3>2
      <4>2. OpenRowsOf(t) = {}
        BY <1>1, <4>1 DEF RowsInv, BusyKnown
      <4>3. ticket[t] \in {"PENDING", "REVISING"} \cup TicketStops /\ DepsDone(t)
        BY <1>1, <4>1 DEF OrderInv, Chosen
      <4> QED BY <4>2, <4>3 DEF OpenRowsOf, TicketStops
    <3> QED BY <3>1, <3>2
  <2>2. s = "IMPL" => \A l \in OpenRows : l.stage = "IMPL" => ScopeOf[l.ticket] # ScopeOf[t]
    BY <1>1, <1>2 DEF RowsInv, BusyKnown
  <2>3. /\ Rest' /\ DoneStays
        /\ \A u \in Ticket \ {t} : ticket'[u] = ticket[u]
        /\ \A l \in OpenRows' : l.ticket # t => l \in OpenRows
    BY <1>1, <1>2, <2>1, <2>2, InsertKeeps DEF RowsInv, Stage
  <2> QED BY <1>1, <1>2, <2>3, ChosenLeave DEF Goto, TicketPhase
<1>3. ASSUME UNCHANGED <<outbox, ticket, hopLaunch>>, Goto(phase, todo \ {t})
      PROVE  Rest' /\ DoneStays /\ Chosen'
  <2>1. Rest' /\ DoneStays /\ OpenRows' = OpenRows
    BY <1>1, <1>3, QueueOther
  <2> QED BY <1>1, <1>3, <2>1, ChosenLeave DEF Goto, TicketPhase
<1>4. ASSUME hopLaunch' = hopLaunch,
             UNCHANGED <<outbox, ticket>> \/ (StopForBudget /\ UNCHANGED outbox),
             Goto("unlaunchable", {}) \/ Throw
      PROVE  Rest' /\ DoneStays /\ Chosen'
  <2>1. Rest' /\ DoneStays
    BY <1>1, <1>4, QueueOther
  <2> QED BY <1>4, <2>1 DEF Throw, Goto, Chosen
<1>5. ASSUME UNCHANGED <<outbox, ticket, hopLaunch>>, EnterPlans
      PROVE  Rest' /\ DoneStays /\ Chosen'
  <2>1. Rest' /\ DoneStays
    BY <1>1, <1>5, QueueOther
  <2>2. Chosen'
    BY <1>5 DEF EnterPlans, Goto, Chosen, DepsDone
  <2> QED BY <2>1, <2>2
<1>6. CASE QueueImpl(t)
  BY <1>2, <1>3, <1>4, <1>5, <1>6 DEF QueueImpl, Queue, QueuedElsewhere, rowVars
<1>7. CASE QueuePlan(t)
  BY <1>2, <1>3, <1>4, <1>7 DEF QueuePlan, Queue, QueuedElsewhere, rowVars
<1> QED BY <1>6, <1>7

\* A step on behalf of a ticket keeps OrderInv.
LEMMA TicketOrder ==
    ASSUME Undisturbed, LaunchInv, RowsInv, OrderInv, NEW t \in Ticket, TicketAction(t)
    PROVE  OrderInv' /\ DoneStays
<1>1. ~UxQueue(t)
  BY DEF UxQueue, OrderInv, Chosen
<1>2. Rest' /\ DoneStays /\ Chosen'
  BY <1>1, GateQueueOrder, AdmitOrder, AdvanceOrder, QueueOrder DEF TicketAction
<1> QED BY <1>2, TicketLands DEF OrderInv, Rest

----------------------------------------------------------------------------
(* All other steps.                                                          *)

\* What they do to rows and tickets: they stop tickets, and an operator may revise one.
LEMMA OtherRest ==
    ASSUME Undisturbed, LaunchInv, OrderInv,
           \/ LoopEnd \/ TickBegin \/ TickDeadline \/ Crash
           \/ Operator \/ (\E k \in Key : WorkerStep(k)) \/ UNCHANGED allVars
    PROVE  /\ Rest' /\ DoneStays /\ Rows' = Rows /\ OpenRows' = OpenRows
           /\ \A t \in Ticket : \/ ticket'[t] = ticket[t]
                                \/ ticket[t] # "DONE" /\ ticket'[t] \in TicketStops
                                \/ /\ ticket[t] \in {"PLANNING", "PLAN_REVIEW"}
                                   /\ ticket'[t] \in Revised
<1>1. /\ UNCHANGED <<outbox, hopLaunch>>
      /\ ticket \in [Ticket -> TicketStatus] /\ Rest
  <2>1. UNCHANGED outbox
    BY RestTouches DEF allVars, vars, ledgerVars, rowVars
  <2>2. UNCHANGED hopLaunch
    <3>1. CASE LoopEnd \/ TickBegin \/ TickDeadline \/ Crash
      BY <3>1 DEF LoopEnd, EndReconcile, EndDispatch, EndObserve, EndWatchdog, EndCloseout,
         EndGateQueue, EndUxQueue, EndGateObserve, EndGateAdmit, EndAdvance, FailUnlaunchable,
         EndTick, EndIsolate, TickBegin, TickDeadline, Crash, ledgerVars, gateVars
    <3>2. CASE Operator
      BY <3>2 DEF Operator, Freeze, Start, Pause, Resume, SetWave, Approve, Revise, Judge,
         CancelWave, CancelTickets, CancelCrash, vars, ledgerVars, gateVars
    <3>3. CASE (\E k \in Key : WorkerStep(k)) \/ UNCHANGED allVars
      BY <3>3 DEF WorkerStep, WriteReview, WorkerSucceeds, WorkerFails, WorkerEnds, allVars, vars,
         ledgerVars, gateVars
    <3> QED BY <3>1, <3>2, <3>3
  <2> QED BY <2>1, <2>2 DEF OrderInv, Rest, LaunchInv, TypeOK, LedgerTypeOK
<1>2. Rows' = Rows /\ OpenRows' = OpenRows
  BY <1>1 DEF Rows, OpenRows
<1>3. ASSUME \A t \in Ticket : \/ ticket'[t] = ticket[t]
                               \/ ticket[t] # "DONE" /\ ticket'[t] \in TicketStops
      PROVE  Rest' /\ DoneStays
  BY <1>1, <1>2, <1>3, StopsKeep
<1>4. CASE LoopEnd \/ TickBegin \/ TickDeadline \/ Crash
  <2>1. \A t \in Ticket : \/ ticket'[t] = ticket[t]
                          \/ ticket[t] # "DONE" /\ ticket'[t] \in TicketStops
    <3> USE DEF TerminalTicket, TicketStops
    <3>1. CASE FailUnlaunchable
      BY <3>1 DEF FailUnlaunchable
    <3>2. CASE EndTick
      BY <3>2 DEF EndTick, MaybeCompleteWave, DependentsFailed
    <3>3. CASE TickDeadline
      BY <3>3 DEF TickDeadline, StopForBudget
    <3>4. CASE ~(FailUnlaunchable \/ EndTick \/ TickDeadline)
      BY <1>4, <3>4 DEF LoopEnd, EndReconcile, EndDispatch, EndObserve, EndWatchdog, EndCloseout,
         EndGateQueue, EndUxQueue, EndGateObserve, EndGateAdmit, EndAdvance, EndIsolate, TickBegin,
         Crash, ledgerVars
    <3> QED BY <3>1, <3>2, <3>3, <3>4
  <2> QED BY <1>2, <1>3, <2>1
<1>5. CASE Operator
  <2>1. CASE \E t \in Ticket : Revise(t)
    <3>1. PICK t \in Ticket : Revise(t)
      BY <2>1
    <3>2. /\ "revise" \in Commands /\ ticket' = [ticket EXCEPT ![t] = "REVISING"]
          /\ TicketMayMove(ticket[t], "REVISING", cancelRequested)
      BY <3>1 DEF Revise, Judge
    <3>3. ticket[t] \in {"PLANNING", "PLAN_REVIEW", "REVISING"}
      BY <1>1, <3>2 DEF TicketMayMove, TicketMoves, TicketStops, TicketStatus
    <3>4. /\ \A u \in Ticket \ {t} : ticket'[u] = ticket[u]
          /\ ticket'[t] = "REVISING" /\ "REVISING" \in Revised
      BY <1>1, <3>2 DEF Revised
    <3>5. DepsDone(t)
      BY <3>3 DEF OrderInv, Begun, TicketStops
    <3>6. \A l \in OpenRows : l.ticket = t => ticket'[t] \in At(l.stage) \cup TicketStops
      <4>1. \A l \in OpenRows : l.stage \in Stage
        BY DEF OpenRows, Rows, Key
      <4> QED BY <3>3, <3>4, <4>1 DEF OrderInv, Matched, At, Stage, TicketStops
    <3>7. Rest' /\ DoneStays
      BY <1>1, <1>2, <3>3, <3>4, <3>5, <3>6, MoveKeeps
    <3> QED BY <1>2, <3>3, <3>4, <3>7
  <2>2. CASE CancelTickets
    <3>1. \A t \in Ticket : \/ ticket'[t] = ticket[t]
                            \/ ticket[t] # "DONE" /\ ticket'[t] \in TicketStops
      BY <2>2 DEF CancelTickets, TerminalTicket, TicketStops
    <3> QED BY <1>2, <1>3, <3>1
  <2>3. CASE Freeze \/ Start \/ Pause \/ Resume \/ CancelWave \/ CancelCrash
    <3>1. UNCHANGED ticket
      BY <2>3 DEF Freeze, Start, Pause, Resume, SetWave, CancelWave, CancelCrash, vars, ledgerVars
    <3> QED BY <1>2, <1>3, <3>1
  <2>4. \A t \in Ticket : ~Approve(t)
    BY DEF Approve, Judge, Undisturbed
  <2> QED BY <1>5, <2>1, <2>2, <2>3, <2>4 DEF Operator
<1>6. CASE (\E k \in Key : WorkerStep(k)) \/ UNCHANGED allVars
  <2>1. UNCHANGED ticket
    BY <1>6 DEF WorkerStep, WriteReview, WorkerSucceeds, WorkerFails, WorkerEnds, allVars, vars,
                ledgerVars
  <2> QED BY <1>2, <1>3, <2>1
<1> QED BY <1>4, <1>5, <1>6

\* Outside the ticker, what was chosen and what lands stays so.
LEMMA FrameOrder ==
    ASSUME Undisturbed, LaunchInv, OrderInv, UNCHANGED tickVars,
           TickDeadline \/ Operator \/ (\E k \in Key : WorkerStep(k)) \/ UNCHANGED allVars
    PROVE  Chosen' /\ Lands'
<1>1. /\ Rest' /\ DoneStays /\ Rows' = Rows /\ OpenRows' = OpenRows
      /\ \A t \in Ticket : \/ ticket'[t] = ticket[t]
                           \/ ticket[t] # "DONE" /\ ticket'[t] \in TicketStops
                           \/ /\ ticket[t] \in {"PLANNING", "PLAN_REVIEW"}
                              /\ ticket'[t] \in Revised
  BY OtherRest
<1>2. /\ phase \in TicketPhase => todo \subseteq Ticket
      /\ phase = "closeout" => todo \subseteq Key
      /\ step \in Landing => item \in Key
  BY DEF LaunchInv, TypeOK, TickTypeOK, RowPhase, TicketPhase, Landing, RowStep
<1>3. Chosen'
  <2>1. \A t \in Ticket : DepsDone(t) => DepsDone(t)'
    BY <1>1, DoneDeps
  <2>2. phase = "gateQueue" => \A t \in todo :
            /\ ticket'[t] \in {"PLAN_REVIEW"} \cup Revised \cup TicketStops
            /\ \A k \in OpenRows : k.ticket = t => k.stage = "REVIEW"
    BY <1>1, <1>2 DEF OrderInv, Chosen, TicketPhase
  <2>3. phase = "advanceImpl" => \A t \in todo : ticket'[t] \in {"APPROVED"} \cup TicketStops
    BY <1>1, <1>2 DEF OrderInv, Chosen, TicketPhase, TicketStops
  <2>4. phase = "advancePlan" => \A t \in todo :
            ticket'[t] \in {"PENDING", "REVISING"} \cup TicketStops /\ DepsDone(t)'
    BY <1>1, <1>2, <2>1 DEF OrderInv, Chosen, TicketPhase, TicketStops
  <2>5. (phase = "uxQueue" => todo = {}) /\ (step = "dirty" => item \in todo)
    BY DEF OrderInv, Chosen
  <2> QED BY <1>1, <2>2, <2>3, <2>4, <2>5 DEF Chosen, tickVars
<1>4. Lands'
  <2>1. \A t \in Ticket : Settled(t) => Settled(t)'
    BY <1>1 DEF Settled, TicketStops
  <2>2. \A t \in Ticket : Settled(t) /\ ticket[t] # "DONE" => ticket'[t] # "DONE"
    BY <1>1 DEF Settled, TicketStops, Revised
  <2>3. phase = "closeout" => \A k \in todo : Settled(k.ticket)'
    BY <1>2, <2>1 DEF OrderInv, Lands, Key
  <2>4. phase' = phase /\ step' = step /\ todo' = todo /\ item' = item
    BY DEF tickVars
  <2>5. ASSUME step \in Landing
        PROVE  /\ Settled(item.ticket)'
               /\ step # "land" => ticket'[item.ticket] # "DONE"
    <3>1. PICK t \in Ticket : t = item.ticket
      BY <1>2, <2>5 DEF Key
    <3>2. Settled(t) /\ (step # "land" => ticket[t] # "DONE")
      BY <2>5, <3>1 DEF OrderInv, Lands
    <3>3. Settled(t)' /\ (step # "land" => ticket'[t] # "DONE")
      BY <2>1, <2>2, <3>2
    <3> QED BY <2>4, <3>1, <3>3 DEF Settled
  <2>6. phase' = "closeout" => \A k \in todo' : Settled(k.ticket)'
    BY <2>3, <2>4
  <2> QED BY <2>4, <2>5, <2>6 DEF Lands, Settled, Landing
<1> QED BY <1>3, <1>4

\* Where a loop ends, the next one starts from what is true now.
LEMMA LoopOrder ==
    ASSUME Undisturbed, LaunchInv, OrderInv, LoopEnd \/ TickBegin \/ Crash
    PROVE  Chosen' /\ Lands'
<1> USE DEF Goto
<1>1. ASSUME step' = "next",
             phase' \notin {"gateQueue", "uxQueue", "advanceImpl", "advancePlan", "closeout"}
      PROVE  Chosen' /\ Lands'
  BY <1>1 DEF Chosen, Lands, Landing
<1>2. ASSUME UNCHANGED <<outbox, ticket>>, PastGate PROVE Chosen' /\ Lands'
  <2>1. /\ step' = "next"
        /\ \/ phase' \in {"complete", "unlaunchable"}
           \/ phase' = "advanceImpl" /\ todo' = {t \in Ticket : ticket[t] = "APPROVED"}
    BY <1>2 DEF PastGate, EnterAdvance
  <2> QED BY <1>2, <2>1 DEF Chosen, Lands, Landing
<1>3. ASSUME UNCHANGED <<outbox, ticket>>, EnterUxQueue PROVE Chosen' /\ Lands'
  <2>1. CASE PastGate
    BY <1>2, <1>3, <2>1
  <2>2. CASE EnterQueue("uxQueue", {t \in NeedsUx : ticket[t] = "PLAN_REVIEW"})
    BY <2>2 DEF EnterQueue, Undisturbed, Chosen, Lands, Landing
  <2> QED BY <1>3, <2>1, <2>2 DEF EnterUxQueue
<1>4. CASE EndCloseout
  <2>1. UNCHANGED <<outbox, ticket>>
    BY <1>4 DEF EndCloseout, rowVars
  <2>2. CASE PastGate
    BY <1>2, <2>1, <2>2
  <2>3. CASE EnterQueue("gateQueue", {t \in Ticket \ ReviewSkip : ticket[t] = "PLAN_REVIEW"})
    <3>1. /\ phase' = "gateQueue" /\ step' = "next" /\ OpenRows' = OpenRows
          /\ todo' = {t \in Ticket \ ReviewSkip : ticket[t] = "PLAN_REVIEW"}
      BY <2>1, <2>3 DEF EnterQueue, OpenRows, Rows
    <3>2. \A k \in OpenRows : ticket[k.ticket] = "PLAN_REVIEW" => k.stage = "REVIEW"
      <4>1. \A k \in OpenRows : k.stage \in Stage
        BY DEF OpenRows, Rows, Key
      <4> QED BY <4>1 DEF OrderInv, Matched, At, Revised, Stage, TicketStops
    <3> QED BY <2>1, <3>1, <3>2 DEF Chosen, Lands, Landing
  <2> QED BY <1>4, <2>2, <2>3 DEF EndCloseout
<1>5. CASE EndGateQueue
  BY <1>3, <1>5 DEF EndGateQueue, ledgerVars, rowVars
<1>6. CASE EndUxQueue
  <2>1. UNCHANGED <<outbox, ticket>>
    BY <1>6 DEF EndUxQueue, ledgerVars, rowVars
  <2> QED BY <1>1, <1>2, <1>6, <2>1 DEF EndUxQueue
<1>7. CASE EndAdvance
  <2>1. UNCHANGED ticket
    BY <1>7 DEF EndAdvance, ledgerVars
  <2> QED BY <1>7, <2>1 DEF EndAdvance, EnterPlans, Chosen, Lands, Landing, DepsDone
<1>8. CASE EndWatchdog
  <2>1. /\ phase' = "closeout" /\ step' = "next" /\ UNCHANGED <<outbox, ticket>>
        /\ OpenRows' = OpenRows
    BY <1>8 DEF EndWatchdog, ledgerVars, rowVars, OpenRows, Rows
  <2>2. \A k \in todo' : k.ticket \in {u \in Ticket : ticket[u] = "VERIFYING"}
    <3> DEFINE Last(t) == Max({1} \cup {r.attempt : r \in {l \in RowsOf(t, "IMPL") :
                                                               outbox[l] = "SETTLED"}})
    <3>1. todo' = {[ticket |-> t, stage |-> "IMPL", attempt |-> Last(t)] :
                       t \in {u \in Ticket : ticket[u] = "VERIFYING"}}
      BY <1>8 DEF EndWatchdog
    <3> HIDE DEF Last
    <3> QED BY <3>1
  <2>3. \A k \in OpenRows : ticket[k.ticket] # "VERIFYING"
    <3>1. \A k \in OpenRows : k.stage \in Stage
      BY DEF OpenRows, Rows, Key
    <3> QED BY <3>1 DEF OrderInv, Matched, At, Revised, Stage, TicketStops
  <2>4. \A k \in todo' : Settled(k.ticket)'
    BY <2>1, <2>2, <2>3 DEF Settled
  <2> QED BY <2>1, <2>4 DEF Chosen, Lands, Landing
<1>9. CASE EndReconcile \/ EndDispatch \/ EndObserve \/ TickBegin
  BY <1>1, <1>9 DEF EndReconcile, EndDispatch, EndObserve, TickBegin
<1>10. CASE EndGateObserve \/ EndGateAdmit \/ FailUnlaunchable
  BY <1>1, <1>10 DEF EndGateObserve, EndGateAdmit, FailUnlaunchable
<1>11. CASE EndTick \/ EndIsolate \/ Crash
  BY <1>1, <1>11 DEF EndTick, EndIsolate, Crash, RestAs
<1> QED BY <1>4, <1>5, <1>6, <1>7, <1>8, <1>9, <1>10, <1>11 DEF LoopEnd

----------------------------------------------------------------------------
(* The theorems.                                                             *)

\* Every step preserves OrderInv, and takes no DONE back.
LEMMA OrderStep ==
    ASSUME Undisturbed, LaunchInv, RowsInv, OrderInv, [Next]_allVars
    PROVE  OrderInv' /\ DoneStays
<1>1. ASSUME NEW k \in Key, RowAction(k) PROVE OrderInv' /\ DoneStays
  BY <1>1, RowOrder
<1>2. ASSUME NEW t \in Ticket, TicketAction(t) PROVE OrderInv' /\ DoneStays
  BY <1>2, TicketOrder
<1>3. CASE LoopEnd \/ TickBegin \/ Crash
  BY <1>3, LoopOrder, OtherRest DEF OrderInv, Rest
<1>4. CASE TickDeadline \/ Operator \/ (\E k \in Key : WorkerStep(k)) \/ UNCHANGED allVars
  <2>1. UNCHANGED tickVars
    <3>1. CASE Operator
      BY <3>1 DEF Operator, Freeze, Start, Pause, Resume, SetWave, Approve, Revise, Judge, CancelWave,
              CancelTickets, CancelCrash, vars
    <3>2. CASE TickDeadline \/ (\E k \in Key : WorkerStep(k)) \/ UNCHANGED allVars
      BY <3>2 DEF TickDeadline, WorkerStep, WriteReview, WorkerSucceeds, WorkerFails, WorkerEnds,
              allVars, vars
    <3> QED BY <1>4, <3>1, <3>2
  <2> QED BY <1>4, <2>1, FrameOrder, OtherRest DEF OrderInv, Rest
<1>5. Ticker \/ TickerDies => OrderInv' /\ DoneStays
  BY <1>1, <1>2, <1>3, <1>4 DEF Ticker, TickerDies, Tick
<1> QED BY <1>4, <1>5 DEF Next

\* OrderInv holds at first.
LEMMA OrderInit == Init => OrderInv
<1> SUFFICES ASSUME Init PROVE OrderInv
  OBVIOUS
<1>1. Rows = {} /\ OpenRows = {}
  BY DEF Init, Rows, OpenRows
<1>2. Begun
  BY DEF Init, Begun
<1> QED BY <1>1, <1>2 DEF Init, OrderInv, Matched, Reviewed, DependenciesDone, Chosen, Lands,
                          Landing

\* Together with LaunchInv and RowsInv, OrderInv is inductive.
THEOREM OrderInvariant ==
    ASSUME Undisturbed
    PROVE  Spec => [](LaunchInv /\ RowsInv /\ OrderInv)
<1>1. Init => OrderInv
  BY OrderInit
<1>2. LaunchInv /\ RowsInv /\ OrderInv /\ [Next]_allVars => OrderInv'
  BY OrderStep
<1> QED BY RowsInvariant, <1>1, <1>2, PTL DEF Spec

\* A ticket is worked on only after its dependencies are DONE, whatever fails, crashes or is
\* revised, paused and cancelled: EnterPlans looks at them once, before an await and long
\* before the IMPL, and no dependency is taken back in between.
THEOREM DependenciesFirst == ASSUME Undisturbed PROVE Spec => []DependenciesDone
<1>1. OrderInv => DependenciesDone
  BY DEF OrderInv
<1> QED BY OrderInvariant, <1>1, PTL

\* What is DONE stays DONE, of every ticket and under every fault.
THEOREM DoneForGood == ASSUME Undisturbed PROVE Spec => [][DoneStays]_allVars
<1>1. LaunchInv /\ RowsInv /\ OrderInv /\ [Next]_allVars => [DoneStays]_allVars
  BY OrderStep
<1> QED BY OrderInvariant, <1>1, PTL DEF Spec

\* The handler of tickLiveWaves does not throw in its turn, where no operator revises or
\* approves under a worker: every row it fails re-arms a ticket that is still where the
\* row's stage left it, so the re-arm is a legal move.
THEOREM ErrorsStay ==
    ASSUME Undisturbed, "revise" \notin Commands
    PROVE  Spec => []ErrorsIsolated
<1>1. Init => ErrorsIsolated
  BY DEF Init, ErrorsIsolated
<1>2. ASSUME LaunchInv, RowsInv, OrderInv, ErrorsIsolated, [Next]_allVars PROVE ErrorsIsolated'
  <2>1. ASSUME NEW k \in Key, RowAction(k) PROVE phase' # "escaped"
    <3>1. CASE Isolate(k)
      <4>1. k \in OpenRows /\ k.stage \in Stage /\ phase = "isolate"
        BY <1>2, <3>1 DEF Isolate, RowsInv, Alive, RowPhase, Landing, Key
      <4>2. ticket[k.ticket] \in At(k.stage) \cup TicketStops
        BY <1>2, <4>1 DEF OrderInv, Matched
      <4>3. Revised = {}
        BY DEF Revised
      <4>4. ~FailLaunchThrows(k, FALSE)
        <5>1. ticket[k.ticket] \notin TerminalTicket =>
                  TicketMayMove(ticket[k.ticket], Rearm(k.stage), FALSE)
          BY <4>1, <4>2, <4>3 DEF At, Stage, Rearm, GateStage, TicketMayMove, TicketMoves,
                                  TicketStops, TerminalTicket, TicketStatus
        <5> QED BY <5>1 DEF FailLaunchThrows, RearmThrows
      <4> QED BY <3>1, <4>1, <4>4 DEF Isolate, Leave, Goto
    <3>2. CASE ~Isolate(k)
      <4>1. phase \in RowPhase
        BY <1>2, <2>1, RowPlace DEF RowsInv
      <4>2. phase' \in {phase, "isolate"}
        <5>1. CASE step' \in RowStep /\ UNCHANGED phase
          BY <5>1
        <5>2. CASE Leave(k) \/ Throw
          BY <5>2 DEF Leave, Throw, Goto
        <5>3. ~(phase' = "escaped" /\ step' = "next") \/ Leave(k) \/ Throw
          BY <2>1, <3>2 DEF RowAction, ReconcileRow, Recovered, LostSpawn, InspectReconciled,
             ObserveRow, ClaimRow, PrepareError, RefuseHandoff, Spawn, LaunchError, StoreReceipt,
             LinkError, CancelHung, VerifyImpl, SettleAgain, SettleThrows, SettleDeath, SettlePlan,
             SettleReview, SettleImpl, CloseoutRow, FinishFromProof, DeferLand, StartLand, Land,
             LandThrows, RecordLand, FailOrThrow, Inspected, AfterSettle, Await
        <5> QED BY <1>2, <2>1, <5>1, <5>2, <5>3, RowPlace DEF RowsInv
      <4> QED BY <4>1, <4>2 DEF RowPhase
    <3> QED BY <3>1, <3>2
  <2>2. ASSUME NEW t \in Ticket, TicketAction(t) PROVE phase' # "escaped"
    BY <2>2, TicketPlace DEF Throw, Goto, TicketPhase
  <2>3. CASE LoopEnd \/ TickBegin \/ TickDeadline \/ Crash
    <3> USE DEF Goto
    <3>1. CASE EndReconcile \/ EndDispatch \/ EndObserve \/ EndWatchdog \/ TickBegin
      BY <3>1 DEF EndReconcile, EndDispatch, EndObserve, EndWatchdog, TickBegin, ErrorsIsolated
    <3>2. CASE EndCloseout \/ EndGateQueue \/ EndUxQueue
      BY <3>2 DEF EndCloseout, EndGateQueue, EndUxQueue, EnterUxQueue, EnterQueue, PastGate,
                  EnterAdvance, ErrorsIsolated
    <3>3. CASE EndGateObserve \/ EndGateAdmit \/ EndAdvance \/ FailUnlaunchable
      BY <3>3 DEF EndGateObserve, EndGateAdmit, EndAdvance, EnterPlans, FailUnlaunchable,
                  ErrorsIsolated
    <3>4. CASE EndTick \/ EndIsolate \/ Crash
      BY <3>4 DEF EndTick, EndIsolate, Crash, RestAs, ErrorsIsolated
    <3>5. CASE TickDeadline
      BY <1>2, <3>5 DEF TickDeadline, tickVars, ErrorsIsolated
    <3> QED BY <2>3, <3>1, <3>2, <3>3, <3>4, <3>5 DEF LoopEnd
  <2>4. CASE Operator \/ (\E k \in Key : WorkerStep(k)) \/ UNCHANGED allVars
    <3>1. UNCHANGED phase
      <4>1. CASE Operator
        BY <4>1 DEF Operator, Freeze, Start, Pause, Resume, SetWave, Approve, Revise, Judge,
                CancelWave, CancelTickets, CancelCrash, vars, tickVars
      <4>2. CASE (\E k \in Key : WorkerStep(k)) \/ UNCHANGED allVars
        BY <4>2 DEF WorkerStep, WriteReview, WorkerSucceeds, WorkerFails, WorkerEnds, allVars, vars,
                tickVars
      <4> QED BY <2>4, <4>1, <4>2
    <3> QED BY <1>2, <3>1 DEF ErrorsIsolated
  <2>5. Ticker \/ TickerDies => ErrorsIsolated'
    BY <2>1, <2>2, <2>3 DEF Ticker, TickerDies, Tick, ErrorsIsolated
  <2> QED BY <1>2, <2>4, <2>5 DEF Next
<1> QED BY OrderInvariant, <1>1, <1>2, PTL DEF Spec

----------------------------------------------------------------------------
(* The ancestors of a ticket that was begun.                                 *)

\* What holds at 0 and is inherited holds for all numbers up to N.
LEMMA UpTo ==
    ASSUME NEW N \in Nat, NEW T, 0 \in T,
           \A n \in 1 .. N : n - 1 \in T => n \in T
    PROVE  \A n \in 0 .. N : n \in T
<1> DEFINE Bad == {n \in 0 .. N : n \notin T}
<1>1. ASSUME Bad # {} PROVE FALSE
  <2>1. Bad \subseteq Nat
    OBVIOUS
  <2>2. PICK n \in Bad : \A m \in Bad : n <= m
    <3> HIDE DEF Bad
    <3> QED BY <1>1, <2>1, LeastNatural
  <2>3. n \in 1 .. N /\ n - 1 \in 0 .. N /\ n - 1 < n
    <3>1. n \in 0 .. N /\ n # 0
      BY <2>2
    <3> QED BY <3>1
  <2>4. n - 1 \notin Bad
    <3> HIDE DEF Bad
    <3> QED BY <2>2, <2>3
  <2> QED BY <2>2, <2>3, <2>4
<1> QED BY <1>1

\* One step further back in the dependency graph: the recursion of AncestorsWithin.
Further(reached) ==
    [t \in Ticket |-> reached[t] \cup UNION {DependsOn[u] : u \in reached[t]}]

\* The recursive definition of the ancestors has a solution.
LEMMA AncestorsExist ==
    ASSUME NEW N \in Nat
    PROVE  \E f : f = [n \in 0 .. N |-> IF n = 0 THEN DependsOn ELSE Further(f[n - 1])]
<1> DEFINE Solves(f, m) == f = [n \in 0 .. m |-> IF n = 0 THEN DependsOn ELSE Further(f[n - 1])]
           T == {m \in Nat : \E f : Solves(f, m)}
<1>1. 0 \in T
  <2>1. Solves([n \in 0 .. 0 |-> DependsOn], 0)
    OBVIOUS
  <2> QED BY <2>1
<1>2. ASSUME NEW m \in 1 .. N, m - 1 \in T PROVE m \in T
  <2>1. PICK f : Solves(f, m - 1)
    BY <1>2
  <2>2. PICK g : g = [n \in 0 .. m |-> IF n = 0 THEN DependsOn ELSE Further(f[n - 1])]
    OBVIOUS
  <2>3. ASSUME NEW n \in 1 .. m PROVE g[n - 1] = f[n - 1]
    <3>1. n - 1 \in 0 .. m /\ n - 1 \in 0 .. m - 1
      OBVIOUS
    <3> QED BY <2>1, <2>2, <3>1
  <2>4. [n \in 0 .. m |-> IF n = 0 THEN DependsOn ELSE Further(f[n - 1])]
            = [n \in 0 .. m |-> IF n = 0 THEN DependsOn ELSE Further(g[n - 1])]
    BY <2>3
  <2>5. Solves(g, m)
    BY <2>2, <2>4
  <2>6. m \in Nat
    OBVIOUS
  <2> QED BY <2>5, <2>6
<1>3. N \in T
  <2> HIDE DEF T
  <2> QED BY <1>1, <1>2, UpTo
<1> QED BY <1>3

\* It goes back one step at a time.
LEMMA AncestorsSteps ==
    /\ Cardinality(Ticket) \in Nat
    /\ AncestorsWithin[0] = DependsOn
    /\ \A n \in 1 .. Cardinality(Ticket) : AncestorsWithin[n] = Further(AncestorsWithin[n - 1])
<1> DEFINE Solves(f) == f = [n \in 0 .. Cardinality(Ticket) |->
                                IF n = 0 THEN DependsOn ELSE Further(f[n - 1])]
           reached == CHOOSE f : Solves(f)
<1>1. Cardinality(Ticket) \in Nat
  BY LedgerAssumption, FS_CardinalityType
<1>2. Solves(reached)
  BY <1>1, AncestorsExist
<1>3. AncestorsWithin = reached
  BY DEF AncestorsWithin, Further
<1>4. /\ reached[0] = DependsOn
      /\ \A n \in 1 .. Cardinality(Ticket) : reached[n] = Further(reached[n - 1])
  <2> HIDE DEF reached
  <2> QED BY <1>1, <1>2
<1> QED BY <1>1, <1>3, <1>4

\* Whatever a begun ticket depends on, directly or not, is DONE; so no death fails it.
LEMMA AncestorsDone ==
    ASSUME OrderInv, NEW t \in Ticket, DepsDone(t)
    PROVE  \A u \in Ancestors(t) : ticket[u] = "DONE"
<1> DEFINE Good(n) == \A v \in Ticket : DepsDone(v) =>
                          \A u \in AncestorsWithin[n][v] : u \in Ticket /\ ticket[u] = "DONE"
           T == {n \in Nat : Good(n)}
<1>1. DependsOn \in [Ticket -> SUBSET Ticket] /\ Cardinality(Ticket) \in Nat
  BY LedgerAssumption, AncestorsSteps
<1>2. 0 \in T
  <2>1. AncestorsWithin[0] = DependsOn
    BY AncestorsSteps
  <2> QED BY <1>1, <2>1 DEF DepsDone
<1>3. ASSUME NEW n \in 1 .. Cardinality(Ticket), n - 1 \in T PROVE n \in T
  <2>1. ASSUME NEW v \in Ticket, DepsDone(v), NEW u \in AncestorsWithin[n][v]
        PROVE  u \in Ticket /\ ticket[u] = "DONE"
    <3> DEFINE A == AncestorsWithin[n - 1][v]
    <3>1. AncestorsWithin[n] = Further(AncestorsWithin[n - 1])
      BY AncestorsSteps
    <3>2. u \in A \cup UNION {DependsOn[w] : w \in A}
      BY <2>1, <3>1 DEF Further
    <3>3. \A w \in A : w \in Ticket /\ ticket[w] = "DONE"
      BY <1>3, <2>1
    <3>4. \A w \in A : DepsDone(w)
      BY <3>3 DEF OrderInv, Begun, TicketStops
    <3> HIDE DEF A
    <3> QED BY <1>1, <3>2, <3>3, <3>4 DEF DepsDone
  <2>2. n \in Nat
    BY <1>1
  <2> QED BY <2>1, <2>2
<1>4. Cardinality(Ticket) \in T
  <2> HIDE DEF T
  <2> QED BY <1>1, <1>2, <1>3, UpTo
<1> QED BY <1>4 DEF Ancestors

----------------------------------------------------------------------------
(* What is over stays over.                                                  *)

\* Where the ticker may be once the wave is over: past all its rows and tickets.
Past == {"idle", "dead", "unlaunchable", "complete"}

Going(t) == ticket[t] \notin TicketStops

\* While the wave lives, a stopped ticket has no work left that could come back to it: no
\* open row, no place in a loop that would admit it, no landing.
Over == waveStatus \in TerminalWave => phase \in Past
Working == waveStatus \notin TerminalWave => \A k \in OpenRows : Going(k.ticket)
Picked == phase \in {"gateQueue", "advanceImpl", "advancePlan"} => \A t \in todo : Going(t)
Closing ==
    /\ phase = "closeout" =>
          /\ step = "next" \/ (step \in Landing /\ item \in todo)
          /\ \A k \in todo : Going(k.ticket)
          /\ \A k, l \in todo : k.ticket = l.ticket => k = l
    /\ step \in Landing => Going(item.ticket)

LiveInv == ~cancelRequested /\ ~cancelling /\ Over /\ Working /\ Picked /\ Closing

\* The two parts of TerminalStays, the second without DONE.
WaveStays == waveStatus \in TerminalWave => waveStatus' = waveStatus
StopsStay == \A t \in Ticket : ~Going(t) => ticket'[t] = ticket[t]

\* A step on behalf of a row moves at most that row's ticket, when the row closes or lands.
LEMMA RowMoves ==
    ASSUME LaunchInv, RowsInv, OrderInv, NEW k \in Key, RowAction(k), ticket' # ticket
    PROVE  /\ k.ticket \in Ticket
           /\ \A u \in Ticket \ {k.ticket} : ticket'[u] = ticket[u]
           /\ \A l \in OpenRows' : l.ticket # k.ticket
           /\ k \in OpenRows \/ (step \in Landing /\ item = k /\ Leave(k))
<1>0. /\ OpenRows' \subseteq OpenRows /\ k.ticket \in Ticket
      /\ ticket \in [Ticket -> TicketStatus] /\ outbox \in [Key -> OutboxState \cup {"NONE"}]
  BY RowCloses DEF LaunchInv, TypeOK, LedgerTypeOK, Key
<1>1. ASSUME k \in OpenRows, k \notin OpenRows' PROVE \A l \in OpenRows' : l.ticket # k.ticket
  BY <1>0, <1>1 DEF OrderInv, Matched
<1>2. CASE LostSpawn(k) \/ LaunchError(k) \/ Isolate(k)
  <2>1. PICK fatal \in BOOLEAN : FailLaunch(k, fatal)
    BY <1>2 DEF LostSpawn, LaunchError, Isolate, FailOrThrow, Deaths
  <2>2. k \in Rows
    <3>1. CASE LostSpawn(k) \/ LaunchError(k)
      BY <3>1 DEF LostSpawn, LaunchError, LaunchInv, Hand, RowsInHand
    <3>2. CASE Isolate(k)
      BY <3>2 DEF Isolate, LaunchInv, Hand, RowsInHand, RowPhase
    <3> QED BY <1>2, <3>1, <3>2
  <2>3. /\ k \in OpenRows /\ outbox' = [outbox EXCEPT ![k] = "FAILED"]
        /\ ticket' = [ticket EXCEPT ![k.ticket] = DeathStatus(k, fatal)]
    BY <2>1, <2>2 DEF FailLaunch, OpenRows
  <2>4. k \notin OpenRows'
    BY <1>0, <2>3 DEF OpenRows, ClosedRow, Rows
  <2> QED BY <1>0, <1>1, <2>3, <2>4
<1>3. CASE SettleDeath(k) \/ SettlePlan(k) \/ SettleReview(k) \/ SettleImpl(k)
  <2>1. /\ Settles(k) /\ outbox' = [outbox EXCEPT ![k] = "SETTLED"]
        /\ \E s : ticket' = [ticket EXCEPT ![k.ticket] = s]
    BY <1>3 DEF SettleDeath, SettlePlan, SettleReview, SettleImpl, PlanSettled, Decide, CloseRow
  <2>2. k \in OpenRows
    BY <2>1 DEF Settles, ReadyToSettle, RowsInv, Alive, RowStep, Landing
  <2>3. k \notin OpenRows'
    BY <1>0, <2>1 DEF OpenRows, ClosedRow, Rows
  <2> QED BY <1>0, <1>1, <2>1, <2>2, <2>3
<1>4. CASE FinishFromProof(k) \/ RecordLand(k)
  <2>1. /\ step \in Landing /\ item = k /\ Leave(k)
        /\ \E s : ticket' = [ticket EXCEPT ![k.ticket] = s]
    BY <1>4 DEF FinishFromProof, RecordLand, Landing
  <2>2. \A l \in OpenRows' : l.ticket # k.ticket
    BY <1>0, <2>1 DEF OrderInv, Lands, Settled
  <2> QED BY <1>0, <2>1, <2>2
<1>5. ~( \/ ReconcileRow(k) \/ Recovered(k) \/ InspectReconciled(k) \/ ObserveRow(k)
         \/ ClaimRow(k) \/ PrepareError(k) \/ RefuseHandoff(k) \/ Spawn(k)
         \/ StoreReceipt(k) \/ LinkError(k) \/ CancelHung(k) \/ VerifyImpl(k)
         \/ SettleAgain(k) \/ SettleThrows(k) \/ CloseoutRow(k) \/ DeferLand(k)
         \/ StartLand(k) \/ Land(k) \/ LandThrows(k))
  BY DEF ReconcileRow, Recovered, InspectReconciled, ObserveRow, ClaimRow, PrepareError,
     RefuseHandoff, Spawn, StoreReceipt, LinkError, CancelHung, VerifyImpl, SettleAgain,
     SettleThrows, CloseoutRow, DeferLand, StartLand, Land, LandThrows, ledgerVars
<1> QED BY <1>2, <1>3, <1>4, <1>5 DEF RowAction

\* It never ends the wave, and cancels nothing.
LEMMA RowWave ==
    ASSUME LaunchInv, ~cancelRequested, waveStatus \notin TerminalWave, NEW k \in Key, RowAction(k)
    PROVE  waveStatus' \notin TerminalWave /\ ~cancelRequested'
<1> USE DEF TerminalWave
<1>1. CASE SettleDeath(k)
  BY <1>1 DEF SettleDeath, GateOpened
<1>2. CASE SettlePlan(k)
  <2>1. \A ok \in BOOLEAN : PlanOutcome(k.ticket, ok)[2] \notin TerminalWave
    BY DEF PlanOutcome
  <2> QED BY <1>2, <2>1 DEF SettlePlan, PlanSettled
<1>3. CASE SettleReview(k)
  BY <1>3 DEF SettleReview, Decide, GateOpened
<1>4. CASE ~(SettleDeath(k) \/ SettlePlan(k) \/ SettleReview(k))
  <2>1. UNCHANGED <<waveStatus, cancelRequested>>
    BY <1>4 DEF RowAction, ReconcileRow, Recovered, LostSpawn, InspectReconciled, ObserveRow,
       ClaimRow, PrepareError, RefuseHandoff, Spawn, LaunchError, StoreReceipt, LinkError,
       CancelHung, VerifyImpl, SettleAgain, SettleThrows, SettleImpl, CloseoutRow,
       FinishFromProof, DeferLand, StartLand, Land, LandThrows, RecordLand, Isolate, ledgerVars
  <2> QED BY <2>1
<1> QED BY <1>1, <1>2, <1>3, <1>4

\* In the closeout loop only landings happen.
LEMMA CloseoutSteps ==
    ASSUME phase = "closeout", step = "next" \/ step \in Landing, NEW k \in Key, RowAction(k)
    PROVE  \/ CloseoutRow(k) \/ FinishFromProof(k) \/ DeferLand(k) \/ StartLand(k) \/ Land(k)
           \/ LandThrows(k) \/ RecordLand(k)
<1>1. step \notin {"recover", "inspect", "launch", "receipt", "settle", "commit"}
  BY DEF Landing
<1>2. ~( \/ ReconcileRow(k) \/ ObserveRow(k) \/ ClaimRow(k) \/ CancelHung(k) \/ Isolate(k))
  BY DEF ReconcileRow, ObserveRow, ClaimRow, CancelHung, Isolate, Dispatching
<1>3. ~( \/ Recovered(k) \/ LostSpawn(k) \/ InspectReconciled(k) \/ PrepareError(k)
         \/ RefuseHandoff(k) \/ Spawn(k) \/ LaunchError(k) \/ StoreReceipt(k) \/ LinkError(k))
  BY <1>1 DEF Recovered, LostSpawn, InspectReconciled, PrepareError, RefuseHandoff, Spawn,
     LaunchError, StoreReceipt, LinkError
<1>4. ~( \/ VerifyImpl(k) \/ SettleAgain(k) \/ SettleThrows(k) \/ SettleDeath(k)
         \/ SettlePlan(k) \/ SettleReview(k) \/ SettleImpl(k))
  BY <1>1 DEF VerifyImpl, SettleAgain, SettleThrows, SettleDeath, SettlePlan, SettleReview,
     SettleImpl, Settles, ReadyToSettle
<1> QED BY <1>2, <1>3, <1>4 DEF RowAction

\* A step on behalf of a row keeps LiveInv, and what is over.
LEMMA RowLive ==
    ASSUME LaunchInv, RowsInv, OrderInv, LiveInv, NEW k \in Key, RowAction(k), UNCHANGED cancelling
    PROVE  LiveInv' /\ WaveStays /\ StopsStay
<1>1. phase \in RowPhase /\ waveStatus \notin TerminalWave /\ k.ticket \in Ticket
  <2>1. phase \in RowPhase
    BY RowPlace DEF RowsInv
  <2> QED BY <2>1 DEF LiveInv, Over, Past, RowPhase, Key
<1>2. waveStatus' \notin TerminalWave /\ ~cancelRequested' /\ ~cancelling'
  BY <1>1, RowWave DEF LiveInv
<1>3. OpenRows' \subseteq OpenRows /\ \A l \in OpenRows : l.ticket \in Ticket
  BY RowCloses DEF OpenRows, Rows, Key
<1>4. StopsStay
  <2>1. CASE ticket' # ticket
    <3>1. Going(k.ticket)
      BY <1>1, <2>1, RowMoves DEF LiveInv, Working, Closing
    <3> QED BY <2>1, <3>1, RowMoves DEF StopsStay
  <2> QED BY <2>1 DEF StopsStay
<1>5. Working'
  <2>1. CASE ticket' # ticket
    <3>1. \A l \in OpenRows' : Going(l.ticket) /\ ticket'[l.ticket] = ticket[l.ticket]
      BY <1>1, <1>3, <2>1, RowMoves DEF LiveInv, Working
    <3> QED BY <3>1 DEF Working, Going
  <2>2. CASE ticket' = ticket
    BY <1>1, <1>3, <2>2 DEF LiveInv, Working, Going
  <2> QED BY <2>1, <2>2
<1>6. phase' \in RowPhase \cup {"escaped"} /\ (phase' = "closeout" => phase = "closeout")
  BY <1>1, RowPlace DEF Throw, Leave, Goto, RowPhase, RowsInv
<1>7. CASE phase = "closeout"
  <2>1. /\ step = "next" \/ (step \in Landing /\ item \in todo)
        /\ \A l \in todo : Going(l.ticket) /\ l.ticket \in Ticket
        /\ \A l, m \in todo : l.ticket = m.ticket => l = m
        /\ step \in Landing => Going(item.ticket)
    <3>1. todo \subseteq Key
      BY <1>7 DEF LaunchInv, TypeOK, TickTypeOK, RowPhase
    <3> QED BY <1>7, <3>1 DEF LiveInv, Closing, Key
  <2>2. ASSUME CloseoutRow(k) PROVE Closing'
    <3>1. /\ phase' = phase /\ step' = "land" /\ item' = k /\ k \in todo /\ todo' = todo
          /\ ticket' = ticket
      BY <2>2 DEF CloseoutRow, Await, ledgerVars
    <3> QED BY <2>1, <3>1 DEF Closing, Landing, Going
  <2>3. ASSUME StartLand(k) \/ Land(k) PROVE Closing'
    <3>1. /\ UNCHANGED <<phase, item, todo, ticket>> /\ step' \in Landing /\ step \in Landing
      BY <2>3 DEF StartLand, Land, Landing, ledgerVars
    <3> QED BY <2>1, <3>1 DEF Closing, Landing, Going
  <2>4. ASSUME LandThrows(k) PROVE Closing'
    BY <2>4 DEF LandThrows, Throw, Goto, Closing, Landing
  <2>5. ASSUME FinishFromProof(k) \/ DeferLand(k) \/ RecordLand(k) PROVE Closing'
    <3>1. /\ Leave(k) /\ item = k /\ step \in Landing
      BY <2>5 DEF FinishFromProof, DeferLand, RecordLand, Landing
    <3>2. phase' = phase /\ step' = "next" /\ todo' = todo \ {k}
      BY <3>1 DEF Leave, Goto
    <3>3. \A l \in todo' : l.ticket # k.ticket
      BY <2>1, <3>1, <3>2 DEF Landing
    <3>4. \A l \in todo' : ticket'[l.ticket] = ticket[l.ticket]
      BY <2>1, <3>2, <3>3, RowMoves
    <3> QED BY <2>1, <3>2, <3>4 DEF Closing, Landing, Going
  <2>6. Closing'
    BY <1>7, <2>1, <2>2, <2>3, <2>4, <2>5, CloseoutSteps
  <2> QED BY <1>1, <1>2, <1>4, <1>5, <1>6, <2>6 DEF LiveInv, Over, Picked, WaveStays, RowPhase
<1>8. CASE phase # "closeout"
  <2>1. step' \in Landing => Going(item.ticket)'
    <3> SUFFICES ASSUME step' \in Landing PROVE Going(item.ticket)'
      OBVIOUS
    <3>1. CASE SettleImpl(k)
      <4>1. item' = k
        BY <3>1, RowPlace DEF Throw, Leave, Goto, RowsInv, Landing
      <4>2. ticket' = [ticket EXCEPT ![k.ticket] = "VERIFYING"]
        BY <3>1 DEF SettleImpl
      <4> QED BY <1>1, <4>1, <4>2 DEF Going, TicketStops, LaunchInv, TypeOK, LedgerTypeOK
    <3>2. CASE StartLand(k) \/ Land(k)
      <4>1. UNCHANGED <<item, ticket>> /\ step \in Landing
        BY <3>2 DEF StartLand, Land, Landing, ledgerVars
      <4> QED BY <4>1 DEF LiveInv, Closing, Going
    <3>3. CASE SettleAgain(k)
      BY <3>3 DEF SettleAgain, ReadyToSettle, RowsInv, Alive, RowStep, Landing, OpenRows, ClosedRow
    <3>4. CASE SettleDeath(k) \/ SettlePlan(k) \/ SettleReview(k)
      BY <3>4 DEF SettleDeath, SettlePlan, SettleReview, AfterSettle, GateStage, Leave, Goto, Landing
    <3>5. CASE \/ ReconcileRow(k) \/ ClaimRow(k) \/ InspectReconciled(k) \/ ObserveRow(k)
               \/ Spawn(k) \/ CancelHung(k) \/ VerifyImpl(k)
      BY <3>5 DEF ReconcileRow, ClaimRow, InspectReconciled, ObserveRow, Spawn, CancelHung,
                  VerifyImpl, Inspected, Await, Leave, Throw, Goto, Landing
    <3>6. CASE \/ Recovered(k) \/ LostSpawn(k) \/ LaunchError(k) \/ StoreReceipt(k)
               \/ PrepareError(k) \/ LinkError(k) \/ RefuseHandoff(k) \/ SettleThrows(k)
               \/ FinishFromProof(k) \/ DeferLand(k) \/ LandThrows(k) \/ RecordLand(k) \/ Isolate(k)
      <4>1. Leave(k) \/ Throw \/ Goto("escaped", {})
        BY <3>6 DEF Recovered, LostSpawn, LaunchError, StoreReceipt, PrepareError, LinkError,
           RefuseHandoff, SettleThrows, FinishFromProof, DeferLand, LandThrows, RecordLand, Isolate,
           FailOrThrow
      <4> QED BY <4>1 DEF Leave, Throw, Goto, Landing
    <3>7. ~CloseoutRow(k)
      BY <1>8 DEF CloseoutRow
    <3> QED BY <3>1, <3>2, <3>3, <3>4, <3>5, <3>6, <3>7 DEF RowAction
  <2>2. Closing'
    BY <1>6, <1>8, <2>1 DEF Closing, Going, Landing
  <2> QED BY <1>1, <1>2, <1>4, <1>5, <1>6, <2>2 DEF LiveInv, Over, Picked, WaveStays, RowPhase
<1> QED BY <1>7, <1>8

\* What an admission or another way out of queueStageOrBudget leaves, whatever the caller
\* does next.
LEMMA QueueLive ==
    ASSUME LaunchInv, LiveInv, waveStatus \notin TerminalWave, NEW t \in Ticket, NEW s \in Stage,
           \/ /\ QueuedHere(t, s) /\ Going(t) /\ UNCHANGED waveStatus
              /\ \E k \in Key : k.ticket = t /\ OpenRows' = OpenRows \cup {k}
           \/ UNCHANGED <<waveStatus, ticket, outbox>>
           \/ StopForBudget /\ UNCHANGED outbox
    PROVE  /\ Working' /\ WaveStays /\ StopsStay
           /\ waveStatus' \in TerminalWave \/ \A u \in Ticket : Going(u) => Going(u)'
<1>1. ticket \in [Ticket -> TicketStatus] /\ \A l \in OpenRows : l.ticket \in Ticket
  BY DEF LaunchInv, TypeOK, LedgerTypeOK, OpenRows, Rows, Key
<1>2. WaveStays
  BY DEF WaveStays
<1>3. ASSUME QueuedHere(t, s), Going(t), UNCHANGED waveStatus,
             \E k \in Key : k.ticket = t /\ OpenRows' = OpenRows \cup {k}
      PROVE  Working' /\ StopsStay /\ \A u \in Ticket : Going(u) => Going(u)'
  <2>1. /\ \A u \in Ticket \ {t} : ticket'[u] = ticket[u]
        /\ Going(t)'
    <3>1. UNCHANGED ticket \/ ticket' = [ticket EXCEPT ![t] = StageTicketStatus(s)]
      BY <1>3 DEF QueuedHere, InsertRow
    <3>2. StageTicketStatus(s) \notin TicketStops
      BY DEF StageTicketStatus, TicketStops
    <3> QED BY <1>1, <1>3, <3>1, <3>2 DEF Going
  <2>2. StopsStay
    BY <1>3, <2>1 DEF StopsStay
  <2>3. \A u \in Ticket : Going(u) => Going(u)'
    BY <2>1 DEF Going
  <2>4. Working'
    BY <1>1, <1>3, <2>1, <2>3 DEF LiveInv, Working
  <2> QED BY <2>2, <2>3, <2>4
<1>4. CASE UNCHANGED <<waveStatus, ticket, outbox>>
  <2>1. OpenRows' = OpenRows
    BY <1>4 DEF OpenRows, Rows
  <2> QED BY <1>2, <1>4, <2>1 DEF LiveInv, Working, StopsStay, Going
<1>5. CASE StopForBudget /\ UNCHANGED outbox
  <2>1. waveStatus' \in TerminalWave
    BY <1>5 DEF StopForBudget, TerminalWave
  <2>2. StopsStay
    BY <1>5 DEF StopForBudget, StopsStay, Going, TicketStops, TerminalTicket
  <2> QED BY <1>2, <2>1, <2>2 DEF Working
<1> QED BY <1>2, <1>3, <1>4, <1>5

\* The loops that queue stages.
LEMMA QueuesLive ==
    ASSUME Undisturbed, LaunchInv, RowsInv, OrderInv, LiveInv, NEW t \in Ticket,
           GateQueue(t) \/ QueueImpl(t) \/ QueuePlan(t), UNCHANGED cancelling
    PROVE  LiveInv' /\ WaveStays /\ StopsStay
<1>1. /\ phase \in {"gateQueue", "advanceImpl", "advancePlan"} /\ t \in todo
      /\ todo \subseteq Ticket /\ waveStatus \notin TerminalWave /\ Going(t)
  <2>1. phase \in {"gateQueue", "advanceImpl", "advancePlan"} /\ t \in todo
    BY DEF GateQueue, QueueImpl, QueuePlan, OrderInv, Chosen
  <2>2. todo \subseteq Ticket /\ waveStatus \notin TerminalWave
    BY <2>1 DEF LaunchInv, TypeOK, TickTypeOK, RowPhase, LiveInv, Over, Past
  <2> QED BY <2>1, <2>2 DEF LiveInv, Picked
<1>2. ~cancelRequested' /\ ~cancelling'
  BY DEF GateQueue, QueueImpl, QueuePlan, Queue, SkipTicket, ledgerVars, LiveInv
<1>3. PICK s \in Stage :
         \/ /\ QueuedHere(t, s) /\ UNCHANGED waveStatus /\ Goto(phase, todo \ {t})
            /\ GateQueue(t) => WantsReview(t) /\ s = "REVIEW"
            /\ QueueImpl(t) => s = "IMPL"
            /\ QueuePlan(t) => s = "PLAN"
         \/ /\ UNCHANGED <<waveStatus, ticket, outbox>>
            /\ Goto(phase, todo \ {t}) \/ Goto(phase, {}) \/ EnterPlans \/ Goto("unlaunchable", {})
               \/ Throw
         \/ StopForBudget /\ UNCHANGED outbox /\ (Goto("complete", {}) \/ Goto("unlaunchable", {}))
  <2>1. CASE GateQueue(t)
    <3>1. CASE SkipTicket(t)
      BY <3>1 DEF SkipTicket, Leave, ledgerVars, rowVars, Stage
    <3>2. CASE WantsReview(t) /\ ~SkipTicket(t)
      <4>1. ~QueueImpl(t) /\ ~QueuePlan(t)
        BY <2>1 DEF GateQueue, QueueImpl, QueuePlan
      <4> QED BY <2>1, <3>2, <4>1 DEF GateQueue, Queue, QueuedElsewhere, rowVars, Stage
    <3> QED BY <2>1, <3>1, <3>2 DEF GateQueue
  <2>2. CASE QueueImpl(t)
    <3>1. ~GateQueue(t) /\ ~QueuePlan(t)
      BY <2>2 DEF GateQueue, QueueImpl, QueuePlan
    <3> QED BY <2>2, <3>1 DEF QueueImpl, Queue, QueuedElsewhere, rowVars, Stage
  <2>3. CASE QueuePlan(t)
    <3>1. ~GateQueue(t) /\ ~QueueImpl(t)
      BY <2>3 DEF GateQueue, QueueImpl, QueuePlan
    <3> QED BY <2>3, <3>1 DEF QueuePlan, Queue, QueuedElsewhere, rowVars, Stage
  <2> QED BY <2>1, <2>2, <2>3
<1>4. ASSUME QueuedHere(t, s), GateQueue(t) => WantsReview(t) /\ s = "REVIEW",
             QueueImpl(t) => s = "IMPL", QueuePlan(t) => s = "PLAN"
      PROVE  \E k \in Key : k.ticket = t /\ OpenRows' = OpenRows \cup {k}
  <2>1. \A l \in OpenRows : ~(l.ticket = t /\ l.stage = s)
    <3>1. CASE GateQueue(t)
      BY <1>1, <1>4, <3>1, HopIsFree DEF WantsReview, GateStage
    <3>2. CASE QueueImpl(t)
      <4>1. phase = "advanceImpl" /\ step = "dirty" /\ item = t
        BY <3>2 DEF QueueImpl
      <4>2. ticket[t] = "APPROVED"
        BY <1>1, <4>1 DEF OrderInv, Chosen, Going
      <4>3. \A l \in OpenRows : l.stage \in Stage
        BY DEF OpenRows, Rows, Key
      <4> QED BY <4>2, <4>3 DEF OrderInv, Matched, At, Revised, Stage, TicketStops
    <3>3. CASE QueuePlan(t)
      BY <3>3 DEF QueuePlan, RowsInv, BusyKnown, OpenRowsOf
    <3> QED BY <3>1, <3>2, <3>3
  <2>2. s = "IMPL" => \A l \in OpenRows : l.stage = "IMPL" => ScopeOf[l.ticket] # ScopeOf[t]
    <3>1. s = "IMPL" => QueueImpl(t)
      BY <1>4
    <3>2. QueueImpl(t) => phase = "advanceImpl" /\ step = "dirty" /\ item = t
      BY DEF QueueImpl
    <3> QED BY <3>1, <3>2 DEF RowsInv, BusyKnown
  <2> QED BY <1>4, <2>1, <2>2, InsertSerial DEF RowsInv
<1>5. /\ Working' /\ WaveStays /\ StopsStay
      /\ waveStatus' \in TerminalWave \/ \A u \in Ticket : Going(u) => Going(u)'
  BY <1>1, <1>3, <1>4, QueueLive
<1>6. Over' /\ Picked' /\ Closing'
  <2>1. CASE Goto(phase, todo \ {t}) \/ Goto(phase, {})
    <3>1. /\ phase' = phase /\ step' = "next" /\ todo' \subseteq todo
          /\ UNCHANGED waveStatus
      BY <1>1, <1>3, <2>1 DEF Goto, EnterPlans, Throw
    <3> QED BY <1>1, <1>5, <3>1 DEF LiveInv, Over, Picked, Closing, Landing
  <2>2. CASE EnterPlans /\ UNCHANGED <<waveStatus, ticket, outbox>>
    BY <1>1, <2>2 DEF EnterPlans, Goto, Over, Picked, Closing, Landing, Going, TicketStops
  <2>3. CASE (Throw \/ Goto("unlaunchable", {})) /\ UNCHANGED waveStatus
    BY <1>1, <2>3 DEF Throw, Goto, Over, Picked, Closing, Landing
  <2>4. CASE Goto("complete", {}) \/ Goto("unlaunchable", {})
    BY <2>4 DEF Goto, Over, Past, Picked, Closing, Landing
  <2> QED BY <1>3, <2>1, <2>2, <2>3, <2>4
<1> QED BY <1>2, <1>5, <1>6 DEF LiveInv

\* A step on behalf of a ticket keeps LiveInv, and what is over.
LEMMA TicketLive ==
    ASSUME Undisturbed, LaunchInv, RowsInv, OrderInv, LiveInv, NEW t \in Ticket, TicketAction(t),
           UNCHANGED cancelling
    PROVE  LiveInv' /\ WaveStays /\ StopsStay
<1>1. CASE GateQueue(t) \/ QueueImpl(t) \/ QueuePlan(t)
  BY <1>1, QueuesLive
<1>2. CASE GateAdmit(t)
  <2>1. /\ phase = "gateAdmit" /\ UNCHANGED <<cancelRequested, outbox>> /\ OpenRows' = OpenRows
        /\ ticket \in [Ticket -> TicketStatus] /\ \A l \in OpenRows : l.ticket \in Ticket
    BY <1>2 DEF GateAdmit, rowVars, OpenRows, Rows, LaunchInv, TypeOK, LedgerTypeOK, Key
  <2>2. waveStatus \notin TerminalWave
    BY <2>1 DEF LiveInv, Over, Past
  <2>3. waveStatus' \notin TerminalWave
    BY <1>2, <2>2 DEF GateAdmit, Decide, GateOpened, TerminalWave
  <2>4. phase' \in {"gateAdmit", "isolate"} /\ step' = "next"
    BY <1>2, <2>1 DEF GateAdmit, Leave, Throw, Goto
  <2>5. CASE UNCHANGED ticket
    BY <2>1, <2>2, <2>3, <2>4, <2>5 DEF LiveInv, Over, Working, Picked, Closing, Landing, Going,
                                       WaveStays, StopsStay
  <2>6. CASE ticket' # ticket
    <3>1. PICK s : ticket' = [ticket EXCEPT ![t] = s]
      BY <1>2, <2>6, AdmitAlone
    <3>2. Going(t) /\ \A l \in OpenRows : l.ticket # t
      BY <1>2, <2>6, AdmitAlone DEF Going, TicketStops
    <3>3. StopsStay /\ Working'
      BY <2>1, <2>2, <3>1, <3>2 DEF StopsStay, LiveInv, Working, Going
    <3> QED BY <2>1, <2>2, <2>3, <2>4, <3>3 DEF LiveInv, Over, Picked, Closing, Landing, WaveStays
  <2> QED BY <2>5, <2>6
<1>3. CASE AdvanceImpl(t) \/ AdvancePlan(t) \/ PrimaryDirty(t)
  <2>1. /\ phase \in {"advanceImpl", "advancePlan"} /\ UNCHANGED <<waveStatus, cancelRequested>>
        /\ OpenRows' = OpenRows /\ todo \subseteq Ticket
        /\ ticket \in [Ticket -> TicketStatus] /\ \A l \in OpenRows : l.ticket \in Ticket
    <3>1. phase \in {"advanceImpl", "advancePlan"}
      BY <1>3 DEF AdvanceImpl, AdvancePlan, PrimaryDirty, Advancing
    <3>2. UNCHANGED <<waveStatus, cancelRequested, outbox>>
      BY <1>3 DEF AdvanceImpl, AdvancePlan, PrimaryDirty, ledgerVars, rowVars
    <3> QED BY <3>1, <3>2 DEF OpenRows, Rows, LaunchInv, TypeOK, LedgerTypeOK, TickTypeOK,
                              RowPhase, Key
  <2>2. waveStatus \notin TerminalWave /\ \A u \in todo : Going(u)
    BY <2>1 DEF LiveInv, Over, Past, Picked
  <2>3. CASE AdvanceImpl(t) \/ AdvancePlan(t)
    <3>1. UNCHANGED ticket /\ (Leave(t) \/ Await(t, "dirty"))
      BY <2>3 DEF AdvanceImpl, AdvancePlan, ledgerVars
    <3>2. phase' = phase /\ todo' \subseteq todo /\ step' \in {"next", "dirty"}
      BY <3>1 DEF Leave, Await, Goto
    <3> QED BY <2>1, <2>2, <3>1, <3>2 DEF LiveInv, Over, Working, Picked, Closing, Landing, Going,
                                         WaveStays, StopsStay
  <2>4. CASE PrimaryDirty(t)
    <3>1. /\ step = "dirty" /\ item = t /\ ticket' = [ticket EXCEPT ![t] = "FAILED"] /\ t \in todo
          /\ phase' = phase /\ step' = "next" /\ todo' = todo \ {t}
      BY <2>4 DEF PrimaryDirty, Leave, Goto, OrderInv, Chosen
    <3>2. \A l \in OpenRows : l.ticket # t
      <4>1. CASE phase = "advanceImpl"
        <5>1. ticket[t] = "APPROVED"
          BY <2>2, <3>1, <4>1 DEF OrderInv, Chosen, Going
        <5>2. \A l \in OpenRows : l.stage \in Stage
          BY DEF OpenRows, Rows, Key
        <5> QED BY <5>1, <5>2 DEF OrderInv, Matched, At, Revised, Stage, TicketStops
      <4>2. CASE phase = "advancePlan"
        BY <3>1, <4>2 DEF RowsInv, BusyKnown, OpenRowsOf
      <4> QED BY <2>1, <4>1, <4>2
    <3>3. StopsStay
      BY <2>1, <2>2, <3>1 DEF StopsStay
    <3>4. Working' /\ Picked'
      BY <2>1, <2>2, <3>1, <3>2 DEF LiveInv, Working, Picked, Going
    <3> QED BY <2>1, <2>2, <3>1, <3>3, <3>4 DEF LiveInv, Over, Closing, Landing, WaveStays
  <2> QED BY <1>3, <2>3, <2>4
<1>4. ~UxQueue(t)
  BY DEF UxQueue, OrderInv, Chosen
<1> QED BY <1>1, <1>2, <1>3, <1>4 DEF TicketAction

\* Where a loop of the ticker starts or ends.
LEMMA LoopLive ==
    ASSUME Undisturbed, LaunchInv, OrderInv, LiveInv, LoopEnd \/ TickBegin \/ Crash,
           UNCHANGED cancelling
    PROVE  LiveInv' /\ WaveStays /\ StopsStay
<1>1. OpenRows' = OpenRows /\ \A l \in OpenRows : l.ticket \in Ticket /\ DepsDone(l.ticket)
  BY OtherRest, RowBegun DEF OrderInv, OpenRows
<1>2. ~cancelRequested' /\ ~cancelling'
  BY DEF LiveInv, LoopEnd, EndReconcile, EndDispatch, EndObserve, EndWatchdog, EndCloseout,
     EndGateQueue, EndUxQueue, EndGateObserve, EndGateAdmit, EndAdvance, FailUnlaunchable,
     EndTick, EndIsolate, TickBegin, Crash, ledgerVars
<1>3. CASE EndTick
  <2>1. phase' = "idle" /\ step' = "next"
    BY <1>3 DEF EndTick, RestAs, Goto
  <2>2. Over' /\ Picked' /\ Closing'
    BY <2>1 DEF Over, Past, Picked, Closing, Landing
  <2>3. StopsStay /\ WaveStays
    BY <1>3 DEF EndTick, MaybeCompleteWave, DependentsFailed, StopsStay, WaveStays, Going,
                TicketStops, TerminalTicket
  <2>4. CASE waveStatus' \in TerminalWave
    BY <1>2, <2>2, <2>3, <2>4 DEF LiveInv, Working
  <2>5. CASE waveStatus' \notin TerminalWave
    <3>1. CompletedStatus(DependentsFailed) \in TerminalWave
      BY DEF CompletedStatus, TerminalWave
    <3>2. waveStatus' = waveStatus /\ ticket' = DependentsFailed
      BY <1>3, <2>5, <3>1 DEF EndTick, MaybeCompleteWave
    <3>3. ASSUME NEW l \in OpenRows PROVE ticket'[l.ticket] = ticket[l.ticket]
      <4>1. \A u \in Ancestors(l.ticket) : ticket[u] = "DONE"
        BY <1>1, <3>3, AncestorsDone
      <4> QED BY <1>1, <3>2, <3>3, <4>1 DEF DependentsFailed
    <3>4. Working'
      BY <1>1, <2>5, <3>2, <3>3 DEF LiveInv, Working, Going
    <3> QED BY <1>2, <2>2, <2>3, <3>4 DEF LiveInv
  <2> QED BY <2>4, <2>5
<1>4. CASE FailUnlaunchable
  <2>1. phase' = "complete" /\ step' = "next" /\ UNCHANGED waveStatus
    BY <1>4 DEF FailUnlaunchable, Goto
  <2>2. Over' /\ Picked' /\ Closing' /\ WaveStays
    BY <2>1 DEF Over, Past, Picked, Closing, Landing, WaveStays
  <2>3. StopsStay /\ (OpenRows # {} => \A u \in Ticket : ticket'[u] = ticket[u])
    BY <1>4 DEF FailUnlaunchable, StopsStay, Going, TicketStops
  <2>4. Working'
    BY <1>1, <2>1, <2>3 DEF LiveInv, Working, Going
  <2> QED BY <1>2, <2>2, <2>3, <2>4 DEF LiveInv
<1>5. CASE ~(EndTick \/ FailUnlaunchable)
  <2>1. UNCHANGED <<waveStatus, ticket>>
    BY <1>5 DEF LoopEnd, EndReconcile, EndDispatch, EndObserve, EndWatchdog, EndCloseout,
       EndGateQueue, EndUxQueue, EndGateObserve, EndGateAdmit, EndAdvance, EndIsolate,
       TickBegin, Crash, ledgerVars
  <2>2. Working' /\ WaveStays /\ StopsStay
    BY <1>1, <2>1 DEF LiveInv, Working, WaveStays, StopsStay, Going
  <2>3. Over'
    <3>1. CASE TickBegin
      BY <2>1, <3>1 DEF TickBegin, Over
    <3>2. CASE EndIsolate \/ Crash
      BY <3>2 DEF EndIsolate, Crash, RestAs, Goto, Over, Past
    <3>3. CASE ~(TickBegin \/ EndIsolate \/ Crash)
      <4>1. phase \notin Past
        BY <1>5, <3>3 DEF LoopEnd, EndReconcile, EndDispatch, EndObserve, EndWatchdog, EndCloseout,
           EndGateQueue, EndUxQueue, EndGateObserve, EndGateAdmit, EndAdvance, Past, Dispatching,
           Advancing
      <4> QED BY <2>1, <4>1 DEF LiveInv, Over
    <3> QED BY <3>1, <3>2, <3>3
  <2>4. /\ step' = "next"
        /\ phase' \in {"gateQueue", "advanceImpl", "advancePlan"} =>
               \A t \in todo' : t \in Ticket /\ Going(t)
        /\ phase' = "closeout" => EndWatchdog
    <3> USE DEF Goto, Going, TicketStops
    <3>1. ASSUME PastGate
          PROVE  /\ step' = "next" /\ phase' \in {"complete", "unlaunchable", "advanceImpl"}
                 /\ \A t \in todo' : t \in Ticket /\ Going(t)
      BY <3>1 DEF PastGate, EnterAdvance
    <3>2. ASSUME EnterUxQueue
          PROVE  /\ step' = "next"
                 /\ phase' \in {"complete", "unlaunchable", "advanceImpl", "uxQueue"}
                 /\ phase' # "uxQueue" => \A t \in todo' : t \in Ticket /\ Going(t)
      BY <3>1, <3>2 DEF EnterUxQueue, EnterQueue
    <3>3. CASE EndCloseout
      BY <3>1, <3>3 DEF EndCloseout, EnterQueue
    <3>4. CASE EndGateQueue
      BY <3>2, <3>4 DEF EndGateQueue
    <3>5. CASE EndUxQueue
      BY <3>1, <3>5 DEF EndUxQueue
    <3>6. CASE EndAdvance
      BY <3>6 DEF EndAdvance, EnterPlans
    <3>7. CASE EndReconcile \/ EndDispatch \/ EndObserve \/ EndWatchdog \/ TickBegin
      BY <3>7 DEF EndReconcile, EndDispatch, EndObserve, EndWatchdog, TickBegin
    <3>8. CASE EndGateObserve \/ EndGateAdmit \/ EndIsolate \/ Crash
      BY <3>8 DEF EndGateObserve, EndGateAdmit, EndIsolate, Crash, RestAs
    <3> QED BY <1>5, <3>3, <3>4, <3>5, <3>6, <3>7, <3>8 DEF LoopEnd
  <2>5. Picked'
    BY <2>1, <2>4 DEF Picked, Going
  <2>6. Closing'
    <3>1. ASSUME EndWatchdog
          PROVE  /\ \A l \in todo' : Going(l.ticket)
                 /\ \A l, m \in todo' : l.ticket = m.ticket => l = m
      <4> DEFINE Last(t) == Max({1} \cup {r.attempt : r \in {l \in RowsOf(t, "IMPL") :
                                                                 outbox[l] = "SETTLED"}})
      <4>1. todo' = {[ticket |-> t, stage |-> "IMPL", attempt |-> Last(t)] :
                         t \in {u \in Ticket : ticket[u] = "VERIFYING"}}
        BY <3>1 DEF EndWatchdog, Goto
      <4> HIDE DEF Last
      <4> QED BY <4>1 DEF Going, TicketStops
    <3> QED BY <2>1, <2>4, <3>1 DEF Closing, Landing, Going
  <2> QED BY <1>2, <2>2, <2>3, <2>5, <2>6 DEF LiveInv
<1> QED BY <1>3, <1>4, <1>5

\* Steps outside the ticker, and the end of a wave that ran out of time.
LEMMA FrameLive ==
    ASSUME Undisturbed, "cancel" \notin Commands, LaunchInv, OrderInv, LiveInv, UNCHANGED tickVars,
           \/ TickDeadline /\ UNCHANGED cancelling
           \/ Operator \/ (\E k \in Key : WorkerStep(k)) \/ UNCHANGED allVars
    PROVE  LiveInv' /\ WaveStays /\ StopsStay
<1>1. OpenRows' = OpenRows /\ \A l \in OpenRows : l.ticket \in Ticket
  BY OtherRest DEF OpenRows, Rows, Key
<1>2. /\ phase' = phase /\ step' = step /\ todo' = todo /\ item' = item
      /\ ticket \in [Ticket -> TicketStatus] /\ waveStatus \in WaveStatus
  BY DEF tickVars, LaunchInv, TypeOK, LedgerTypeOK
<1>3. /\ phase \in {"gateQueue", "advanceImpl", "advancePlan"} => todo \subseteq Ticket
      /\ phase = "closeout" => \A l \in todo : l.ticket \in Ticket
      /\ step \in Landing => item.ticket \in Ticket
  BY DEF LaunchInv, TypeOK, TickTypeOK, RowPhase, Landing, RowStep, Key
<1>4. ASSUME \A t \in Ticket : Going(t) => Going(t)'
      PROVE  Picked' /\ Closing'
  BY <1>2, <1>3, <1>4 DEF LiveInv, Picked, Closing
<1>5. ASSUME UNCHANGED cancelRequested, UNCHANGED cancelling, WaveStays,
             waveStatus' \in TerminalWave => waveStatus \in TerminalWave,
             \A t \in Ticket : ticket'[t] = ticket[t] \/ (Going(t) /\ Going(t)')
      PROVE  LiveInv' /\ WaveStays /\ StopsStay
  <2>1. StopsStay /\ \A t \in Ticket : Going(t) => Going(t)'
    BY <1>5 DEF StopsStay, Going
  <2>2. Working'
    BY <1>1, <1>5, <2>1 DEF LiveInv, Working, WaveStays
  <2>3. Over'
    BY <1>2, <1>5 DEF LiveInv, Over
  <2> QED BY <1>4, <1>5, <2>1, <2>2, <2>3 DEF LiveInv
<1>6. CASE TickDeadline /\ UNCHANGED cancelling
  <2>1. /\ phase \in {"idle", "dead"} /\ UNCHANGED <<cancelRequested, cancelling>>
        /\ waveStatus \notin TerminalWave /\ StopForBudget
    BY <1>6 DEF TickDeadline
  <2>2. waveStatus' \in TerminalWave /\ StopsStay
    BY <2>1 DEF StopForBudget, TerminalWave, StopsStay, Going, TicketStops, TerminalTicket
  <2>3. Over' /\ Working' /\ Picked' /\ WaveStays
    BY <1>2, <2>1, <2>2 DEF Over, Past, Working, Picked, WaveStays
  <2>4. Closing'
    <3>1. step \notin Landing
      BY <2>1 DEF OrderInv, Landing, LaunchInv, TypeOK, TickTypeOK, RowStep, RowPhase
    <3> QED BY <1>2, <2>1, <3>1 DEF Closing
  <2> QED BY <2>1, <2>2, <2>3, <2>4 DEF LiveInv
<1>7. CASE Freeze \/ Start \/ Pause \/ Resume
  <2>1. PICK to \in {"FROZEN", "RUNNING", "PAUSED"} :
            /\ WaveMayMove(waveStatus, to, cancelRequested) /\ waveStatus' = to
            /\ UNCHANGED <<cancelRequested, cancelling, ticket>>
    BY <1>7 DEF Freeze, Start, Pause, Resume, SetWave
  <2>2. WaveStays /\ waveStatus' \notin TerminalWave
    BY <1>2, <2>1 DEF WaveStays, WaveMayMove, WaveMoves, TerminalWave, IdleGate, WaveStops
  <2> QED BY <1>5, <2>1, <2>2
<1>8. CASE \E t \in Ticket : Revise(t)
  <2>1. PICK t \in Ticket : Revise(t)
    BY <1>8
  <2>2. /\ TicketMayMove(ticket[t], "REVISING", cancelRequested)
        /\ ticket' = [ticket EXCEPT ![t] = "REVISING"] /\ waveStatus' = GateOpened
        /\ UNCHANGED <<cancelRequested, cancelling>>
    BY <2>1 DEF Revise, Judge
  <2>3. Going(t) /\ Going(t)'
    BY <1>2, <2>2 DEF TicketMayMove, TicketMoves, TicketStops, TicketStatus, Going
  <2>4. WaveStays /\ (waveStatus' \in TerminalWave => waveStatus \in TerminalWave)
    BY <2>2 DEF WaveStays, GateOpened, TerminalWave, IdleGate
  <2>5. \A u \in Ticket : ticket'[u] = ticket[u] \/ (Going(u) /\ Going(u)')
    <3>1. \A u \in Ticket \ {t} : ticket'[u] = ticket[u]
      BY <1>2, <2>2
    <3> QED BY <2>3, <3>1
  <2> QED BY <1>5, <2>2, <2>4, <2>5
<1>9. CASE (\E k \in Key : WorkerStep(k)) \/ UNCHANGED allVars
  <2>1. UNCHANGED <<waveStatus, cancelRequested, ticket, cancelling>>
    BY <1>9 DEF WorkerStep, WriteReview, WorkerSucceeds, WorkerFails, WorkerEnds, allVars, vars,
                ledgerVars
  <2>2. WaveStays
    BY <2>1 DEF WaveStays
  <2> QED BY <1>5, <2>1, <2>2
<1>10. ~CancelWave /\ ~CancelTickets /\ ~CancelCrash /\ \A t \in Ticket : ~Approve(t)
  BY DEF CancelWave, CancelTickets, CancelCrash, LiveInv, Approve, Judge, Undisturbed
<1> QED BY <1>6, <1>7, <1>8, <1>9, <1>10 DEF Operator

\* Every step keeps LiveInv, and what is over.
LEMMA LiveStep ==
    ASSUME Undisturbed, "cancel" \notin Commands, LaunchInv, RowsInv, OrderInv, LiveInv,
           [Next]_allVars
    PROVE  LiveInv' /\ WaveStays /\ StopsStay
<1>1. ASSUME NEW k \in Key, RowAction(k), UNCHANGED cancelling
      PROVE  LiveInv' /\ WaveStays /\ StopsStay
  BY <1>1, RowLive
<1>2. ASSUME NEW t \in Ticket, TicketAction(t), UNCHANGED cancelling
      PROVE  LiveInv' /\ WaveStays /\ StopsStay
  BY <1>2, TicketLive
<1>3. CASE (LoopEnd \/ TickBegin \/ Crash) /\ UNCHANGED cancelling
  BY <1>3, LoopLive
<1>4. CASE \/ TickDeadline /\ UNCHANGED cancelling
           \/ Operator \/ (\E k \in Key : WorkerStep(k)) \/ UNCHANGED allVars
  <2>1. UNCHANGED tickVars
    <3>1. CASE Operator
      BY <3>1 DEF Operator, Freeze, Start, Pause, Resume, SetWave, Approve, Revise, Judge, CancelWave,
              CancelTickets, CancelCrash, vars
    <3>2. CASE TickDeadline \/ (\E k \in Key : WorkerStep(k)) \/ UNCHANGED allVars
      BY <3>2 DEF TickDeadline, WorkerStep, WriteReview, WorkerSucceeds, WorkerFails, WorkerEnds,
              allVars, vars
    <3> QED BY <1>4, <3>1, <3>2
  <2> QED BY <1>4, <2>1, FrameLive
<1>5. Ticker \/ TickerDies => LiveInv' /\ WaveStays /\ StopsStay
  BY <1>1, <1>2, <1>3, <1>4 DEF Ticker, TickerDies, Tick
<1> QED BY <1>4, <1>5 DEF Next

\* LiveInv holds at first.
LEMMA LiveInit == Init => LiveInv
<1> SUFFICES ASSUME Init PROVE LiveInv
  OBVIOUS
<1>1. OpenRows = {} /\ waveStatus \notin TerminalWave
  BY CommandAssumption DEF Init, OpenRows, Rows, TerminalWave
<1> QED BY <1>1 DEF Init, LiveInv, Over, Working, Picked, Closing, Landing

\* Where nobody cancels, LiveInv is inductive as well.
THEOREM LiveInvariant ==
    ASSUME Undisturbed, "cancel" \notin Commands
    PROVE  Spec => []LiveInv
<1>1. Init => LiveInv
  BY LiveInit
<1>2. LaunchInv /\ RowsInv /\ OrderInv /\ LiveInv /\ [Next]_allVars => LiveInv'
  BY LiveStep
<1> QED BY OrderInvariant, <1>1, <1>2, PTL DEF Spec

\* What is over stays over, where nobody cancels: the settlement of a death, the record of a
\* landing and the check for a dirty primary write a ticket without looking at what it has
\* become, but none of them is still to come when the ticket, or the wave, is over.
THEOREM OverForGood ==
    ASSUME Undisturbed, "cancel" \notin Commands
    PROVE  Spec => TerminalStays
<1>1. ASSUME LaunchInv, RowsInv, OrderInv, LiveInv, [Next]_allVars
      PROVE  [/\ waveStatus \in TerminalWave => waveStatus' = waveStatus
              /\ \A t \in Ticket : ticket[t] \in TerminalTicket => ticket'[t] = ticket[t]]_allVars
  <2>1. DoneStays /\ WaveStays /\ StopsStay
    BY <1>1, OrderStep, LiveStep
  <2> QED BY <2>1 DEF DoneStays, WaveStays, StopsStay, Going, TerminalTicket, TicketStops
<1> QED BY OrderInvariant, LiveInvariant, <1>1, PTL DEF Spec, TerminalStays
=============================================================================
