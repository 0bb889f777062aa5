-------------------------- MODULE WaveRunnerGates --------------------------
(***************************************************************************)
(* Only a plan that was reviewed is implemented.  The code cannot see what   *)
(* plan a review file is about: it reads the file that is there.  GateInv    *)
(* says why that is enough for a ticket with one gate and at most one        *)
(* revision: while the ticket is planned again, the old file says "revise",  *)
(* and a second "revise" fails the ticket instead of admitting it.           *)
(*                                                                         *)
(* Nothing else is asked: workers may be lost, run on unseen and write late, *)
(* the ticker may crash, and the wave may be paused or cancelled.            *)
(***************************************************************************)
EXTENDS WaveRunnerRows

\* A ticket has one gate at most, nobody vouches for its plan from outside, and its plan is
\* revised once at most.  With two gates, or two revisions, an approval of the plan before
\* the last one is still there to be read.
OneGate ==
    /\ NeedsUx \subseteq ReviewSkip
    /\ Stamped \subseteq ReviewSkip
    /\ ReviseCap <= 1
    /\ {"approve", "revise"} \cap Commands = {}

\* The tickets with a gate, that gate, and the review file it reads.
Judged == (Ticket \ ReviewSkip) \cup NeedsUx
Gate(t) == IF t \in NeedsUx THEN "UX_REVIEW" ELSE "REVIEW"
File(t) == review[t][Gate(t)]

\* The file is about the last plan; it lets a plan pass; it does not, and if it asked for a
\* revision, that was counted.
UpToDate(t) == File(t).plan = LatestPlan(t)
Passes(t) == File(t).verdict \in {"approve", "incomplete"}
Bars(t) ==
    /\ File(t).verdict \in {"missing", "revise"}
    /\ File(t).verdict = "revise" => revises[t][Gate(t)] >= 1

\* What comes before the gate, and what comes after.
Before == {"PENDING", "CLAIMED", "PLANNING", "REVISING"}
After == {"APPROVED", "IMPLEMENTING", "VERIFYING", "DONE"}

PlanOpen(t) == \E k \in OpenRowsOf(t) : k.stage = "PLAN"
Implemented(t) == RowsOf(t, "IMPL") # {}

\* A ticket that is planned does nothing else, nor was it implemented before.
PlansAlone(t) ==
    /\ PlanOpen(t) => /\ ticket[t] \in {"PLANNING"} \cup TicketStops
                      /\ \A k, l \in OpenRowsOf(t) : k = l
    /\ Implemented(t) => ticket[t] \in After \cup TicketStops /\ ~PlanOpen(t)

\* Where a ticket with a gate is, and what its review file says by then.
Reads(t) ==
    /\ ticket[t] \in Before \/ PlanOpen(t) => UpToDate(t) /\ Bars(t)
    /\ ~UpToDate(t) => Bars(t)
    /\ ticket[t] \in After \/ Implemented(t) => UpToDate(t) /\ Passes(t)

Tracks(t) == PlansAlone(t) /\ (t \in Judged => Reads(t))

\* The gates queue reviews of tickets that are not being planned.
AtGate ==
    /\ phase \in {"gateQueue", "uxQueue"} => \A t \in todo : ~PlanOpen(t)
    /\ phase = "gateQueue" => todo \cap ReviewSkip = {}

\* No REVIEW is launched for a ticket that skips it.
Skipped == \A t \in ReviewSkip : \A n \in Attempt \cup {0} : <<t, "REVIEW", n>> \notin hopLaunch

GateInv == (\A t \in Ticket : Tracks(t)) /\ AtGate /\ Skipped

----------------------------------------------------------------------------
(* Moves of one ticket. *)

\* What most steps leave alone of a ticket: its rows but for closing them, the plan and the
\* file; revisions only grow.
Stays(t) ==
    /\ RowsOf(t, "IMPL")' = RowsOf(t, "IMPL")
    /\ OpenRowsOf(t)' \subseteq OpenRowsOf(t)
    /\ LatestPlan(t)' = LatestPlan(t)
    /\ review'[t] = review[t]
    /\ \A g \in GateStage : /\ {revises[t][g], revises'[t][g]} \subseteq Nat
                            /\ revises'[t][g] >= revises[t][g]

\* What holds of plan and file holds on.
LEMMA StaysReads ==
    ASSUME NEW t \in Ticket, Stays(t)
    PROVE  /\ UpToDate(t)' <=> UpToDate(t)
           /\ Passes(t)' <=> Passes(t)
           /\ Bars(t) => Bars(t)'
           /\ Implemented(t)' <=> Implemented(t)
           /\ PlanOpen(t)' => PlanOpen(t)
<1>1. UpToDate(t)' <=> UpToDate(t)
  BY DEF Stays, UpToDate, File, Gate
<1>2. Passes(t)' <=> Passes(t)
  BY DEF Stays, Passes, File, Gate
<1>3. Bars(t) => Bars(t)'
  BY DEF Stays, Bars, File, Gate, GateStage
<1>4. (Implemented(t)' <=> Implemented(t)) /\ (PlanOpen(t)' => PlanOpen(t))
  BY DEF Stays, Implemented, PlanOpen
<1> QED BY <1>1, <1>2, <1>3, <1>4

\* A ticket that stays, or is stopped, keeps its place.
LEMMA StopTracks ==
    ASSUME NEW t \in Ticket, Tracks(t), Stays(t), ticket'[t] \in {ticket[t]} \cup TicketStops
    PROVE  Tracks(t)'
<1>1. PlansAlone(t)'
  BY StaysReads DEF Tracks, PlansAlone, Stays
<1>2. t \in Judged => Reads(t)'
  <2>1. TicketStops \cap (Before \cup After) = {}
    BY DEF TicketStops, Before, After
  <2> QED BY <2>1, StaysReads DEF Tracks, Reads
<1> QED BY <1>1, <1>2 DEF Tracks

\* A ticket without open plan moves on, to where its file allows it to be.
LEMMA MoveTracks ==
    ASSUME NEW t \in Ticket, Tracks(t), Stays(t), ~PlanOpen(t)',
           Implemented(t) => ticket'[t] \in After \cup TicketStops,
           t \in Judged /\ ticket'[t] \in Before => UpToDate(t) /\ Bars(t)',
           t \in Judged /\ ticket'[t] \in After => UpToDate(t) /\ Passes(t)
    PROVE  Tracks(t)'
<1>1. PlansAlone(t)'
  BY StaysReads DEF Tracks, PlansAlone
<1>2. t \in Judged => Reads(t)'
  BY StaysReads DEF Tracks, Reads
<1> QED BY <1>1, <1>2 DEF Tracks

----------------------------------------------------------------------------
(* Steps on behalf of a row. *)

\* The writes of a decision count revisions up.
LEMMA DecideCounts ==
    ASSUME LaunchInv, NEW t \in Ticket, NEW gate \in GateStage,
           revises' \in {revises, [revises EXCEPT ![t][gate] = @ + 1]}
    PROVE  \A u \in Ticket : \A g \in GateStage :
               /\ {revises[u][g], revises'[u][g]} \subseteq Nat
               /\ revises'[u][g] >= revises[u][g]
               /\ u # t \/ g # gate \/ UNCHANGED revises \/ revises'[u][g] = revises[u][g] + 1
  BY GateTypes

\* Steps on behalf of a row leave every ticket as Stays says, but for the plan they settle.
LEMMA RowStays ==
    ASSUME LaunchInv, Proven, NEW k \in Key, RowAction(k)
    PROVE  \A t \in Ticket : t # k.ticket \/ ~SettlePlan(k) => Stays(t)
<1>1. Rows' = Rows /\ OpenRows' \subseteq OpenRows
  BY RowCloses
<1>2. \A t \in Ticket : /\ RowsOf(t, "IMPL")' = RowsOf(t, "IMPL")
                        /\ OpenRowsOf(t)' \subseteq OpenRowsOf(t)
  BY <1>1 DEF RowsOf, OpenRowsOf
<1>3. \A t \in Ticket : t # k.ticket \/ ~SettlePlan(k) => Planned(t)' = Planned(t)
  <2>1. ASSUME NEW t \in Ticket, t # k.ticket PROVE Planned(t)' = Planned(t)
    BY <1>1, <2>1, RowKeeps DEF Keeps, Planned, RowsOf, Rows
  <2> QED BY <2>1, RowPlanned
<1>4. \A t \in Ticket : \A g \in GateStage :
          {revises[t][g], revises'[t][g]} \subseteq Nat /\ revises'[t][g] >= revises[t][g]
  <2>1. k.ticket \in Ticket
    BY DEF Key
  <2>2. CASE UNCHANGED revises
    BY <2>2, GateTypes
  <2>3. CASE SettleReview(k)
    <3>1. k.stage \in GateStage /\ revises' \in {revises, [revises EXCEPT ![k.ticket][k.stage] = @ + 1]}
      BY <2>3 DEF SettleReview, Decide
    <3> QED BY <2>1, <3>1, DecideCounts
  <2> QED BY <2>2, <2>3, RowFiles
<1> QED BY <1>2, <1>3, <1>4, PlannedLast, RowFiles DEF Stays

\* What a gate decides, and by which file: an approval by the file of the ticket's gate, a
\* revision by a file that asks for one and was not counted yet.
LEMMA Decided ==
    ASSUME OneGate, LaunchInv, GateInv, NEW t \in Ticket, NEW settling, NEW gate \in GateStage,
           NEW decision, decision # "none",
           \/ gate = "REVIEW" /\ decision = PlanDecision(t, settling)
           \/ gate = "UX_REVIEW" /\ decision = UxDecision(t)
    PROVE  /\ ticket[t] = "PLAN_REVIEW"
           /\ decision \in {"admit", "cap", "revise", "throw"}
           /\ decision = "admit" /\ t \in Judged => Passes(t)
           /\ decision = "revise" /\ t \in Judged =>
                 File(t).verdict = "revise" /\ gate = Gate(t) /\ revises[t][gate] < ReviseCap
<1> USE DEF VerdictOf
<1>0. revises[t][gate] \in Nat /\ ReviseCap \in Nat
  BY GateTypes, LedgerAssumption
<1>1. CASE gate = "REVIEW" /\ decision = PlanDecision(t, settling)
  <2> DEFINE verdict == IF PlanReviewReady(t, settling) /\ Forge
                        THEN VerdictOf(t, "REVIEW") ELSE "missing"
  <2>1. PlanReviewReady(t, settling) => t \notin ReviewSkip
    <3>1. PlanReviewReady(t, settling) => <<t, "REVIEW", LatestPlan(t)>> \in hopLaunch
      BY DEF PlanReviewReady, HopLaunched
    <3>2. LatestPlan(t) \in Attempt \cup {0}
      BY LatestPlanType
    <3> QED BY <3>1, <3>2 DEF GateInv, Skipped
  <2>2. /\ ticket[t] = "PLAN_REVIEW"
        /\ \/ verdict = "revise" /\ decision = ReviseOutcome(t, "REVIEW")
           \/ verdict = "approve" /\ t \notin NeedsUx /\ decision = "admit"
           \/ t \in Stamped /\ t \notin NeedsUx /\ decision = "admit"
    BY <1>1 DEF PlanDecision
  <2>3. CASE verdict = "revise" /\ decision = ReviseOutcome(t, "REVIEW")
    <3>1. PlanReviewReady(t, settling) /\ VerdictOf(t, "REVIEW") = "revise"
      BY <2>3
    <3>2. t \notin NeedsUx
      BY <2>1, <3>1 DEF OneGate
    <3>3. Gate(t) = "REVIEW" /\ File(t).verdict = "revise"
      BY <3>1, <3>2 DEF File, Gate
    <3> QED BY <1>0, <1>1, <2>2, <2>3, <3>3 DEF ReviseOutcome
  <2>4. CASE verdict = "approve" /\ t \notin NeedsUx /\ decision = "admit"
    BY <2>2, <2>4 DEF Passes, File, Gate
  <2>5. CASE t \in Stamped /\ t \notin NeedsUx /\ decision = "admit"
    BY <2>2, <2>5 DEF OneGate, Judged
  <2> QED BY <2>2, <2>3, <2>4, <2>5
<1>2. CASE gate = "UX_REVIEW" /\ decision = UxDecision(t)
  <2>1. /\ ticket[t] = "PLAN_REVIEW" /\ t \in NeedsUx
        /\ \/ VerdictOf(t, "UX_REVIEW") = "revise" /\ decision = ReviseOutcome(t, "UX_REVIEW")
           \/ VerdictOf(t, "UX_REVIEW") \in {"approve", "incomplete"} /\ decision = "admit"
    BY <1>2 DEF UxDecision
  <2>2. Gate(t) = "UX_REVIEW" /\ File(t) = review[t]["UX_REVIEW"]
    BY <2>1 DEF File, Gate
  <2> QED BY <1>0, <1>2, <2>1, <2>2 DEF ReviseOutcome, Passes
<1> QED BY <1>1, <1>2

\* A decision is taken of a ticket whose plan is made, and moves it where its file says.
LEMMA DecideTracks ==
    ASSUME OneGate, LaunchInv, GateInv, NEW t \in Ticket, NEW settling, NEW gate \in GateStage,
           NEW decision,
           \/ gate = "REVIEW" /\ decision = PlanDecision(t, settling)
           \/ gate = "UX_REVIEW" /\ decision = UxDecision(t),
           decision # "throw", Decide(t, gate, decision), \A u \in Ticket : Stays(u)
    PROVE  \A u \in Ticket : Tracks(u)'
<1>1. ASSUME NEW u \in Ticket, ticket'[u] = ticket[u] \/ ticket'[u] = "FAILED" PROVE Tracks(u)'
  BY <1>1, StopTracks DEF GateInv, TicketStops
<1>2. CASE decision \notin {"admit", "revise"}
  <2>1. ticket' = ticket \/ ticket' = [ticket EXCEPT ![t] = "FAILED"]
    BY <1>2 DEF Decide
  <2> QED BY <1>1, <2>1, GateTypes
<1>3. CASE decision \in {"admit", "revise"}
  <2> DEFINE s == IF decision = "admit" THEN "APPROVED" ELSE "REVISING"
  <2>1. /\ ticket[t] = "PLAN_REVIEW"
        /\ decision = "admit" /\ t \in Judged => Passes(t)
        /\ decision = "revise" /\ t \in Judged =>
               File(t).verdict = "revise" /\ gate = Gate(t) /\ revises[t][gate] < ReviseCap
    BY <1>3, Decided
  <2>2. ticket' = [ticket EXCEPT ![t] = s]
    BY <1>3 DEF Decide
  <2>3. ticket'[t] = s /\ \A u \in Ticket \ {t} : ticket'[u] = ticket[u]
    BY <2>2, GateTypes
  <2>4. Tracks(t) /\ Stays(t)
    BY DEF GateInv
  <2>5. ~PlanOpen(t)' /\ ~Implemented(t)
    BY <2>1, <2>4, StaysReads DEF Tracks, PlansAlone, TicketStops, After
  <2>6. ASSUME t \in Judged, s \in Before PROVE UpToDate(t) /\ Bars(t)'
    <3>1. decision = "revise"
      BY <1>3, <2>6 DEF Before
    <3>2. File(t).verdict = "revise" /\ gate = Gate(t) /\ revises[t][gate] = 0
      <4>1. revises[t][gate] \in Nat
        BY GateTypes
      <4> QED BY <2>1, <2>6, <3>1, <4>1, LedgerAssumption DEF OneGate
    <3>3. UpToDate(t)
      BY <2>4, <2>6, <3>2 DEF Tracks, Reads, Bars
    <3>4. revises' = [revises EXCEPT ![t][gate] = @ + 1]
      BY <3>1 DEF Decide
    <3>5. revises'[t][gate] = 1
      BY <3>2, <3>4, GateTypes
    <3>6. File(t)' = File(t)
      BY <2>4 DEF Stays, File, Gate
    <3> QED BY <3>2, <3>3, <3>5, <3>6 DEF Bars, Gate
  <2>7. ASSUME t \in Judged, s \in After PROVE UpToDate(t) /\ Passes(t)
    <3>1. Passes(t)
      BY <1>3, <2>1, <2>7 DEF After
    <3>2. ~Bars(t)
      BY <3>1 DEF Passes, Bars
    <3> QED BY <2>4, <2>7, <3>1, <3>2 DEF Tracks, Reads
  <2>8. Tracks(t)'
    BY <2>3, <2>4, <2>5, <2>6, <2>7, MoveTracks
  <2> QED BY <1>1, <2>3, <2>8
<1> QED BY <1>2, <1>3


\* A row that dies gives its ticket back to where the stage began, or stops it.
LEMMA DeathTracks ==
    ASSUME LaunchInv, RowsInv, GateInv, NEW k \in OpenRows, RowAction(k), ~SettlePlan(k),
           k \notin OpenRows', NEW s, ticket' = [ticket EXCEPT ![k.ticket] = s],
           \/ s \in TicketStops
           \/ s = Rearm(k.stage) /\ TicketMayMove(ticket[k.ticket], s, FALSE)
    PROVE  \A u \in Ticket : Tracks(u)'
<1> DEFINE t == k.ticket
<1>0. /\ k \in Rows /\ k \in Key /\ t \in Ticket /\ k.stage \in Stage
      /\ k \in OpenRowsOf(t) /\ Proven
  BY DEF OpenRows, OpenRowsOf, Rows, Key, RowsInv
<1>1. \A u \in Ticket : Tracks(u) /\ Stays(u)
  BY <1>0, RowStays DEF GateInv
<1>2. ticket'[t] = s /\ \A u \in Ticket \ {t} : ticket'[u] = ticket[u]
  BY <1>0, GateTypes
<1>3. \A u \in Ticket \ {t} : Tracks(u)'
  BY <1>1, <1>2, StopTracks
<1>4. CASE s \in TicketStops \/ s = ticket[t]
  BY <1>0, <1>1, <1>2, <1>3, <1>4, StopTracks
<1>5. CASE s \notin TicketStops /\ s # ticket[t]
  <2>1. s = Rearm(k.stage) /\ ticket[t] \in TicketStatus /\ s \in TicketMoves[ticket[t]]
    BY <1>0, <1>5, GateTypes DEF TicketMayMove
  <2>2. CASE k.stage = "PLAN"
    <3>1. PlanOpen(t) /\ \A l \in OpenRowsOf(t) : l = k
      BY <1>0, <1>1, <2>2 DEF PlanOpen, Tracks, PlansAlone
    <3>2. s = "REVISING" /\ ~Implemented(t)
      BY <1>0, <1>1, <2>1, <2>2, <3>1 DEF Rearm, GateStage, Tracks, PlansAlone
    <3>3. ~PlanOpen(t)'
      <4>1. OpenRowsOf(t)' \subseteq OpenRowsOf(t) /\ OpenRowsOf(t)' \subseteq OpenRows'
        BY <1>0, <1>1 DEF Stays, OpenRowsOf
      <4>2. OpenRowsOf(t)' = {}
        BY <3>1, <4>1
      <4> QED BY <4>2 DEF PlanOpen
    <3>4. t \in Judged => UpToDate(t) /\ Bars(t)'
      BY <1>0, <1>1, <3>1, StaysReads DEF Tracks, Reads
    <3>5. s \notin After
      BY <3>2 DEF After
    <3>6. Tracks(t)'
      BY <1>0, <1>1, <1>2, <3>2, <3>3, <3>4, <3>5, MoveTracks
    <3> QED BY <1>3, <3>6
  <2>3. CASE k.stage \in GateStage
    <3>1. s = "PLAN_REVIEW" /\ ticket[t] = "PLANNING"
      <4>1. s = "PLAN_REVIEW"
        BY <2>1, <2>3 DEF Rearm, GateStage
      <4> QED BY <2>1, <4>1 DEF TicketMoves, TicketStops, TicketStatus
    <3>2. ~PlanOpen(t) /\ ~Implemented(t)
      BY <1>0, <1>1, <2>3, <3>1
         DEF PlanOpen, Tracks, PlansAlone, After, TicketStops, GateStage
    <3>3. ~PlanOpen(t)'
      BY <1>0, <1>1, <3>2, StaysReads
    <3>4. s \notin Before \cup After
      BY <3>1 DEF Before, After
    <3>5. Tracks(t)'
      BY <1>0, <1>1, <1>2, <3>2, <3>3, <3>4, MoveTracks
    <3> QED BY <1>3, <3>5
  <2>4. CASE k.stage = "IMPL"
    <3>1. Implemented(t)
      BY <1>0, <2>4 DEF Implemented, RowsOf
    <3>2. ~PlanOpen(t) /\ (t \in Judged => UpToDate(t) /\ Passes(t))
      BY <1>0, <1>1, <3>1 DEF Tracks, PlansAlone, Reads
    <3>3. ~PlanOpen(t)'
      BY <1>0, <1>1, <3>2, StaysReads
    <3>4. s = "APPROVED"
      BY <2>1, <2>4 DEF Rearm, GateStage
    <3>5. s \in After /\ s \notin Before
      BY <3>4 DEF Before, After
    <3>6. Tracks(t)'
      BY <1>0, <1>1, <1>2, <3>2, <3>3, <3>5, MoveTracks
    <3> QED BY <1>3, <3>6
  <2> QED BY <1>0, <2>2, <2>3, <2>4 DEF Stage, GateStage
<1> QED BY <1>4, <1>5

\* Settling a plan: the file is about the plan before it, and does not let this one pass.
LEMMA PlanTracks ==
    ASSUME LaunchInv, RowsInv, GateInv, NEW k \in Key, RowAction(k), SettlePlan(k)
    PROVE  \A u \in Ticket : Tracks(u)'
<1> DEFINE t == k.ticket
<1>0. t \in Ticket /\ Proven
  BY DEF Key, RowsInv
<1>1. /\ \A u \in Ticket : Tracks(u)
      /\ \A u \in Ticket \ {t} : Stays(u)
  BY <1>0, RowStays DEF GateInv
<1>2. k \in OpenRowsOf(t) /\ k.stage = "PLAN"
  BY DEF SettlePlan, Settles, ReadyToSettle, RowsInv, Alive, RowStep, Landing, OpenRowsOf
<1>3. PlanOpen(t) /\ ~Implemented(t) /\ \A l \in OpenRowsOf(t) : l = k
  BY <1>0, <1>1, <1>2 DEF PlanOpen, Tracks, PlansAlone
<1>4. ~PlanOpen(t)' /\ ~Implemented(t)'
  <2>1. Rows' = Rows /\ OpenRows' \subseteq OpenRows
    BY RowCloses
  <2>2. k \notin OpenRows'
    <3>1. outbox' = [outbox EXCEPT ![k] = "SETTLED"]
      BY DEF SettlePlan, CloseRow
    <3> QED BY <3>1, GateTypes DEF OpenRows, Rows, ClosedRow
  <2>3. OpenRowsOf(t)' = {}
    BY <1>3, <2>1, <2>2 DEF OpenRowsOf
  <2> QED BY <1>3, <2>1, <2>3 DEF PlanOpen, Implemented, RowsOf
<1>5. PICK ok : PlanSettled(t, ok)
  BY DEF SettlePlan
<1>6. /\ ticket'[t] = PlanOutcome(t, ok)[1]
      /\ \A u \in Ticket \ {t} : ticket'[u] = ticket[u]
  BY <1>0, <1>5, GateTypes DEF PlanSettled
<1>7. \A u \in Ticket \ {t} : Tracks(u)'
  BY <1>1, <1>6, StopTracks
<1>8. PlansAlone(t)'
  BY <1>4 DEF PlansAlone
<1>9. t \in Judged => Reads(t)'
  <2> SUFFICES ASSUME t \in Judged PROVE Reads(t)'
    OBVIOUS
  <2>1. Bars(t)
    BY <1>0, <1>1, <1>3 DEF Tracks, Reads
  <2>2. Bars(t)'
    <3>1. UNCHANGED <<review, revises>>
      BY <1>5 DEF SettlePlan, worldVars, PlanSettled, gateVars
    <3> QED BY <2>1, <3>1 DEF Bars, File, Gate
  <2>3. ticket'[t] \in {"FAILED", "PLAN_REVIEW"}
    BY <1>6 DEF PlanOutcome, Judged
  <2> QED BY <1>4, <2>2, <2>3 DEF Reads, Before, After
<1> QED BY <1>7, <1>8, <1>9 DEF Tracks

\* Steps on behalf of a row.
LEMMA RowTracks ==
    ASSUME OneGate, LaunchInv, RowsInv, GateInv, NEW k \in Key, RowAction(k)
    PROVE  \A u \in Ticket : Tracks(u)'
<1>0. k.ticket \in Ticket /\ Proven
  BY DEF Key, RowsInv
<1>1. \A u \in Ticket : Tracks(u) /\ (~SettlePlan(k) => Stays(u))
  BY <1>0, RowStays DEF GateInv
<1>2. ASSUME UNCHANGED ticket, ~SettlePlan(k) PROVE \A u \in Ticket : Tracks(u)'
  BY <1>1, <1>2, StopTracks
<1>3. CASE SettlePlan(k)
  BY <1>3, PlanTracks
<1>4. CASE LostSpawn(k) \/ LaunchError(k) \/ Isolate(k)
  <2>1. step \in {"recover", "launch"} \/ phase = "isolate"
    BY <1>4 DEF LostSpawn, LaunchError, Isolate
  <2>2. ~SettlePlan(k)
    BY <2>1 DEF SettlePlan, Settles, ReadyToSettle, RowsInv, Alive
  <2>3. CASE ticket' # ticket
    <3>1. PICK fatal \in BOOLEAN : FailLaunch(k, fatal) /\ ~FailLaunchThrows(k, fatal)
      BY <1>4, <2>3 DEF LostSpawn, LaunchError, Isolate, FailOrThrow, Deaths
    <3>2. /\ outbox[k] \notin ClosedRow /\ outbox' = [outbox EXCEPT ![k] = "FAILED"]
          /\ ticket[k.ticket] \notin TerminalTicket
          /\ ticket' = [ticket EXCEPT ![k.ticket] = DeathStatus(k, fatal)]
      BY <2>3, <3>1 DEF FailLaunch
    <3>3. k \in OpenRows
      <4>1. k \in Rows
        BY <1>4 DEF LostSpawn, LaunchError, Isolate, LaunchInv, Hand, RowsInHand, RowPhase
      <4> QED BY <3>2, <4>1 DEF OpenRows
    <3>4. k \notin OpenRows'
      BY <3>2, GateTypes DEF OpenRows, Rows, ClosedRow
    <3>5. \/ DeathStatus(k, fatal) \in TicketStops
          \/ /\ DeathStatus(k, fatal) = Rearm(k.stage)
             /\ TicketMayMove(ticket[k.ticket], DeathStatus(k, fatal), FALSE)
      BY <3>1, <3>2 DEF DeathStatus, FailLaunchThrows, RearmThrows, TicketStops
    <3> QED BY <2>2, <3>2, <3>3, <3>4, <3>5, DeathTracks
  <2> QED BY <1>2, <2>2, <2>3
<1>5. CASE SettleDeath(k) /\ ~SettlePlan(k)
  <2> DEFINE s == IF cancelRequested THEN "CANCELLED" ELSE DeathStatus(k, Fatal)
  <2>1. /\ Settles(k) /\ outbox' = [outbox EXCEPT ![k] = "SETTLED"]
        /\ ticket' = [ticket EXCEPT ![k.ticket] = s]
        /\ cancelRequested \/ ~RearmThrows(k, Fatal)
    BY <1>5 DEF SettleDeath, CloseRow
  <2>2. k \in OpenRows
    BY <2>1 DEF Settles, ReadyToSettle, RowsInv, Alive, RowStep, Landing
  <2>3. k \notin OpenRows'
    BY <2>1, GateTypes DEF OpenRows, Rows, ClosedRow
  <2>4. s \in TicketStops \/ (s = Rearm(k.stage) /\ TicketMayMove(ticket[k.ticket], s, FALSE))
    BY <2>1 DEF DeathStatus, RearmThrows, TicketStops
  <2> HIDE DEF s
  <2> QED BY <1>5, <2>1, <2>2, <2>3, <2>4, DeathTracks
<1>6. CASE SettleReview(k)
  <2>1. ~SettlePlan(k)
    BY <1>6 DEF SettleReview, SettlePlan, GateStage
  <2>2. PICK d : /\ d = IF k.stage = "REVIEW" THEN PlanDecision(k.ticket, {k})
                        ELSE UxDecision(k.ticket)
                 /\ d # "throw" /\ Decide(k.ticket, k.stage, d) /\ k.stage \in GateStage
    BY <1>6 DEF SettleReview
  <2> QED BY <1>0, <1>1, <2>1, <2>2, DecideTracks DEF GateStage
<1>7. CASE SettleImpl(k) \/ FinishFromProof(k) \/ RecordLand(k)
  <2>1. ~SettlePlan(k)
    BY <1>7 DEF SettleImpl, SettlePlan, FinishFromProof, RecordLand, Settles, ReadyToSettle
  <2>2. Implemented(k.ticket)
    <3>1. CASE SettleImpl(k)
      <4>1. k \in Rows
        BY <3>1 DEF SettleImpl, Settles, ReadyToSettle, RowsInv, Alive, RowStep, Landing, OpenRows
      <4> QED BY <3>1, <4>1 DEF SettleImpl, Implemented, RowsOf
    <3>2. CASE FinishFromProof(k) \/ RecordLand(k)
      BY <3>2 DEF FinishFromProof, RecordLand, RowsInv, Proven, Landing, Verified, Implemented
    <3> QED BY <1>7, <3>1, <3>2
  <2>3. PICK s \in {"VERIFYING", "DONE", "FAILED"} : ticket' = [ticket EXCEPT ![k.ticket] = s]
    BY <1>7 DEF SettleImpl, FinishFromProof, RecordLand
  <2>4. ticket'[k.ticket] = s /\ \A u \in Ticket \ {k.ticket} : ticket'[u] = ticket[u]
    BY <1>0, <2>3, GateTypes
  <2>5. ~PlanOpen(k.ticket) /\ (k.ticket \in Judged => UpToDate(k.ticket) /\ Passes(k.ticket))
    BY <1>0, <1>1, <2>2 DEF Tracks, PlansAlone, Reads
  <2>6. ~PlanOpen(k.ticket)'
    BY <1>0, <1>1, <2>1, <2>5, StaysReads
  <2>7. s \in After \cup TicketStops /\ s \notin Before
    BY DEF After, Before, TicketStops
  <2>8. Tracks(k.ticket)'
    BY <1>0, <1>1, <2>1, <2>4, <2>5, <2>6, <2>7, MoveTracks
  <2> QED BY <1>1, <2>1, <2>4, <2>8, StopTracks
<1>8. CASE \/ ReconcileRow(k) \/ Recovered(k) \/ InspectReconciled(k) \/ ObserveRow(k)
           \/ ClaimRow(k) \/ PrepareError(k) \/ RefuseHandoff(k) \/ Spawn(k)
           \/ StoreReceipt(k) \/ LinkError(k) \/ CancelHung(k) \/ VerifyImpl(k)
           \/ SettleAgain(k) \/ SettleThrows(k) \/ CloseoutRow(k) \/ DeferLand(k)
           \/ StartLand(k) \/ Land(k) \/ LandThrows(k)
  <2>1. UNCHANGED ticket
    BY <1>8 DEF ReconcileRow, Recovered, InspectReconciled, ObserveRow, ClaimRow, PrepareError,
       RefuseHandoff, Spawn, StoreReceipt, LinkError, CancelHung, VerifyImpl, SettleAgain,
       SettleThrows, CloseoutRow, DeferLand, StartLand, Land, LandThrows, ledgerVars
  <2> QED BY <1>2, <1>3, <2>1
<1> QED BY <1>3, <1>4, <1>5, <1>6, <1>7, <1>8 DEF RowAction

----------------------------------------------------------------------------
(* Steps on behalf of a ticket.                                              *)

\* Where there is no new row, tickets move as Stays lets them.
LEMMA SameStays ==
    ASSUME LaunchInv, UNCHANGED <<outbox, stageRun, review>>,
           \A u \in Ticket : \A g \in GateStage :
               {revises[u][g], revises'[u][g]} \subseteq Nat /\ revises'[u][g] >= revises[u][g]
    PROVE  \A u \in Ticket : Stays(u)
<1>1. Rows' = Rows /\ OpenRows' = OpenRows
  BY DEF Rows, OpenRows
<1>2. \A u : RowsOf(u, "IMPL")' = RowsOf(u, "IMPL") /\ OpenRowsOf(u)' = OpenRowsOf(u)
  BY <1>1 DEF RowsOf, OpenRowsOf
<1>3. \A u : Planned(u)' = Planned(u)
  BY <1>1 DEF Planned, RowsOf
<1> QED BY <1>2, <1>3, PlannedLast DEF Stays

\* queueStage: a plan is queued for a ticket that has nothing else to do, an IMPL for one
\* that is past its gate.
LEMMA InsertTracks ==
    ASSUME LaunchInv, RowsInv, GateInv, NEW t \in Ticket, NEW s \in Stage, QueuedHere(t, s),
           \A l \in OpenRows : ~(l.ticket = t /\ l.stage = s),
           s = "IMPL" => \A l \in OpenRows : l.stage = "IMPL" => ScopeOf[l.ticket] # ScopeOf[t],
           s \in GateStage => ~PlanOpen(t), s = "PLAN" => OpenRowsOf(t) = {},
           UNCHANGED <<review, revises>>
    PROVE  /\ \A u \in Ticket : Tracks(u)'
           /\ \A u \in Ticket \ {t} : PlanOpen(u)' => PlanOpen(u)
<1>1. PICK k \in Key : /\ k.ticket = t /\ k.stage = s
                       /\ Rows' = Rows \cup {k} /\ OpenRows' = OpenRows \cup {k}
  BY InsertSerial DEF RowsInv
<1>2. \A u \in Ticket : Planned(u)' = Planned(u)
  <2>1. PICK l : /\ l = NextKey(t, s) /\ l \in Key \ Rows
                 /\ outbox' = [outbox EXCEPT ![l] = "PENDING"]
                 /\ stageRun' = [stageRun EXCEPT ![l] = "PENDING"]
    BY FreshKey DEF QueuedHere, InsertRow, MayAdmit, Denied, LaunchInv, Books, Hand, KeysFresh
  <2>2. Rows' = Rows \cup {l}
    BY <2>1, GateTypes DEF Rows
  <2>3. /\ \A r \in Rows : stageRun'[r] = stageRun[r]
        /\ stageRun'[l] = "PENDING"
    BY <2>1, GateTypes DEF Rows
  <2> QED BY <2>2, <2>3 DEF Planned, RowsOf
<1>3. \A u \in Ticket : LatestPlan(u)' = LatestPlan(u)
  BY <1>2, PlannedLast
<1>4. \A u \in Ticket : /\ UpToDate(u)' <=> UpToDate(u)
                        /\ Passes(u)' <=> Passes(u)
                        /\ Bars(u)' <=> Bars(u)
                        /\ Tracks(u)
  BY <1>3 DEF UpToDate, Passes, Bars, File, Gate, GateInv
<1>5. \A u \in Ticket \ {t} : /\ ticket'[u] = ticket[u]
                              /\ OpenRowsOf(u)' = OpenRowsOf(u)
                              /\ RowsOf(u, "IMPL")' = RowsOf(u, "IMPL")
  <2>1. \A u \in Ticket \ {t} : ticket'[u] = ticket[u]
    BY GateTypes DEF QueuedHere, InsertRow
  <2> QED BY <1>1, <2>1 DEF OpenRowsOf, RowsOf
<1>6. \A u \in Ticket \ {t} : Tracks(u)' /\ (PlanOpen(u)' <=> PlanOpen(u))
  BY <1>4, <1>5 DEF Tracks, PlansAlone, Reads, PlanOpen, Implemented
<1>7. CASE s \in GateStage
  <2>1. ticket'[t] = ticket[t]
    BY <1>7 DEF QueuedHere, InsertRow
  <2>2. RowsOf(t, "IMPL")' = RowsOf(t, "IMPL") /\ ~PlanOpen(t)'
    BY <1>1, <1>7 DEF RowsOf, OpenRowsOf, PlanOpen, GateStage
  <2>3. Tracks(t)'
    BY <1>4, <1>7, <2>1, <2>2 DEF Tracks, PlansAlone, Reads, Implemented
  <2> QED BY <1>6, <2>3
<1>8. CASE s = "PLAN"
  <2>1. ticket'[t] = "PLANNING" /\ ticket[t] \in {"PENDING", "CLAIMED", "REVISING", "PLANNING"}
    <3>1. ticket' = [ticket EXCEPT ![t] = "PLANNING"]
      BY <1>8 DEF QueuedHere, InsertRow, GateStage, StageTicketStatus
    <3>2. PICK from : /\ from = IF ticket[t] = "PENDING" THEN "CLAIMED" ELSE ticket[t]
                      /\ TicketMayMove(from, "PLANNING", cancelRequested)
      BY <1>8 DEF QueuedHere, IllegalEntry, GateStage, StageTicketStatus
    <3>3. from \in TicketStatus
      BY <3>2, GateTypes DEF TicketStatus
    <3>4. from \in {"CLAIMED", "REVISING", "PLANNING"}
      BY <3>2, <3>3 DEF TicketMayMove, TicketMoves, TicketStops, TicketStatus
    <3> QED BY <3>1, <3>2, <3>4, GateTypes
  <2>2. ~Implemented(t)'
    <3>1. ~Implemented(t)
      BY <1>4, <2>1 DEF Tracks, PlansAlone, After, TicketStops
    <3> QED BY <1>1, <1>8, <3>1 DEF Implemented, RowsOf
  <2>3. OpenRowsOf(t)' = {k}
    BY <1>1, <1>8 DEF OpenRowsOf
  <2>4. PlansAlone(t)'
    BY <2>1, <2>2, <2>3 DEF PlansAlone
  <2>5. t \in Judged => UpToDate(t) /\ Bars(t)
    BY <1>4, <2>1 DEF Tracks, Reads, Before
  <2>6. t \in Judged => Reads(t)'
    BY <1>4, <2>1, <2>2, <2>5 DEF Reads, After
  <2> QED BY <1>6, <2>4, <2>6 DEF Tracks
<1>9. CASE s = "IMPL"
  <2>1. ticket'[t] = "IMPLEMENTING" /\ ticket[t] \in After
    <3>1. ticket' = [ticket EXCEPT ![t] = "IMPLEMENTING"]
      BY <1>9 DEF QueuedHere, InsertRow, GateStage, StageTicketStatus
    <3>2. PICK from : /\ from = IF ticket[t] = "PENDING" THEN "CLAIMED" ELSE ticket[t]
                      /\ TicketMayMove(from, "IMPLEMENTING", cancelRequested)
      BY <1>9 DEF QueuedHere, IllegalEntry, GateStage, StageTicketStatus
    <3>3. from \in TicketStatus
      BY <3>2, GateTypes DEF TicketStatus
    <3>4. from \in {"APPROVED", "IMPLEMENTING"}
      BY <3>2, <3>3 DEF TicketMayMove, TicketMoves, TicketStops, TicketStatus
    <3> QED BY <3>1, <3>2, <3>4, GateTypes DEF After
  <2>2. ~PlanOpen(t)
    BY <1>4, <2>1 DEF Tracks, PlansAlone, After, TicketStops
  <2>3. ~PlanOpen(t)'
    BY <1>1, <1>9, <2>2 DEF PlanOpen, OpenRowsOf
  <2>4. t \in Judged => UpToDate(t) /\ Passes(t)
    BY <1>4, <2>1 DEF Tracks, Reads
  <2>5. Tracks(t)'
    BY <1>4, <2>1, <2>3, <2>4 DEF Tracks, PlansAlone, Reads, Before, After
  <2> QED BY <1>6, <2>5
<1> QED BY <1>7, <1>8, <1>9 DEF Stage, GateStage

\* Steps that write no row, file or revision, and at most stop tickets.
LEMMA FrameTracks ==
    ASSUME LaunchInv, GateInv, UNCHANGED <<outbox, stageRun, review, revises>>,
           \A u \in Ticket : ticket'[u] \in {ticket[u]} \cup TicketStops
    PROVE  \A u \in Ticket : Tracks(u)' /\ (PlanOpen(u)' => PlanOpen(u))
<1>1. \A u \in Ticket : Stays(u)
  BY SameStays, GateTypes
<1> QED BY <1>1, StopTracks, StaysReads DEF GateInv

\* The loops of the gates go on, or end.
LEMMA AtGateKeeps ==
    ASSUME AtGate,
           \/ phase' \notin {"gateQueue", "uxQueue"} \/ todo' = {}
           \/ /\ phase' = phase /\ todo' \subseteq todo /\ todo \subseteq Ticket
              /\ \A u \in todo' : PlanOpen(u)' => PlanOpen(u)
    PROVE  AtGate'
  BY DEF AtGate

\* A launch event for a ticket that does not skip its review, or of the other gate.
LEMMA SkippedKeeps ==
    ASSUME Skipped, NEW t, NEW gate \in GateStage, t \notin ReviewSkip \/ gate # "REVIEW",
           hopLaunch' = hopLaunch \/ \E n : hopLaunch' = hopLaunch \cup {<<t, gate, n>>}
    PROVE  Skipped'
<1>1. CASE hopLaunch' = hopLaunch
  BY <1>1 DEF Skipped
<1>2. ASSUME NEW n, hopLaunch' = hopLaunch \cup {<<t, gate, n>>} PROVE Skipped'
  <2> SUFFICES ASSUME NEW u \in ReviewSkip, NEW m \in Attempt \cup {0},
                      <<u, "REVIEW", m>> \in hopLaunch'
               PROVE  FALSE
    BY DEF Skipped
  <2>1. <<u, "REVIEW", m>> \notin hopLaunch
    BY DEF Skipped
  <2>2. u = t /\ gate = "REVIEW"
    BY <1>2, <2>1
  <2> QED BY <2>2
<1> QED BY <1>1, <1>2

\* queueMissingPlanReviews and queueMissingUxReviews.
LEMMA GateQueueTracks ==
    ASSUME LaunchInv, RowsInv, GateInv, NEW t \in Ticket, GateQueue(t) \/ UxQueue(t)
    PROVE  GateInv'
<1>1. /\ phase \in {"gateQueue", "uxQueue"} /\ t \in todo /\ todo \subseteq Ticket
      /\ AtGate /\ Skipped
  BY DEF GateQueue, UxQueue, LaunchInv, TypeOK, TickTypeOK, RowPhase, GateInv
<1>2. UNCHANGED <<review, revises>>
  BY DEF GateQueue, UxQueue, Queue, SkipTicket, ledgerVars, gateVars, worldVars
<1>3. ASSUME UNCHANGED <<outbox, stageRun, ticket>> \/ (StopForBudget /\ UNCHANGED <<outbox, stageRun>>)
      PROVE  \A u \in Ticket : Tracks(u)' /\ (PlanOpen(u)' => PlanOpen(u))
  <2>1. \A u \in Ticket : ticket'[u] \in {ticket[u]} \cup TicketStops
    BY <1>3 DEF StopForBudget, TicketStops
  <2> QED BY <1>2, <1>3, <2>1, FrameTracks
<1>4. PICK gate \in GateStage : /\ SkipTicket(t) \/ HopMissing(t, gate)
                                /\ t \notin ReviewSkip \/ gate # "REVIEW"
                                /\ \/ SkipTicket(t)
                                   \/ Queue(t, gate, Goto(phase, todo \ {t}) /\ HopQueued(t, gate),
                                            Goto("complete", {}), Goto(phase, {}))
  <2>1. phase = "gateQueue" => t \notin ReviewSkip
    BY <1>1 DEF AtGate
  <2>2. CASE GateQueue(t)
    <3>1. "REVIEW" \in GateStage /\ phase = "gateQueue"
      BY <2>2 DEF GateStage, GateQueue
    <3> QED BY <2>1, <2>2, <3>1 DEF GateQueue, WantsReview
  <2>3. CASE UxQueue(t)
    <3>1. "UX_REVIEW" \in GateStage
      BY DEF GateStage
    <3> QED BY <2>3, <3>1 DEF UxQueue, WantsUxReview
  <2> QED BY <2>2, <2>3
<1>5. CASE SkipTicket(t)
  <2>1. UNCHANGED <<outbox, stageRun, ticket, hopLaunch>> /\ phase' = phase /\ todo' \subseteq todo
    BY <1>5 DEF SkipTicket, ledgerVars, rowVars, gateVars, Leave, Goto
  <2> QED BY <1>1, <1>3, <1>4, <2>1, AtGateKeeps, SkippedKeeps DEF GateInv
<1>6. ASSUME QueuedHere(t, gate), HopMissing(t, gate), Goto(phase, todo \ {t}), HopQueued(t, gate)
      PROVE  GateInv'
  <2>1. \A l \in OpenRows : ~(l.ticket = t /\ l.stage = gate)
    BY <1>6, HopIsFree
  <2>2. gate \in Stage /\ gate \notin {"PLAN", "IMPL"} /\ ~PlanOpen(t)
    BY <1>1 DEF GateStage, Stage, AtGate
  <2>3. /\ \A u \in Ticket : Tracks(u)'
        /\ \A u \in Ticket \ {t} : PlanOpen(u)' => PlanOpen(u)
    BY <1>2, <1>6, <2>1, <2>2, InsertTracks
  <2>4. AtGate'
    BY <1>1, <1>6, <2>3, AtGateKeeps DEF Goto
  <2>5. Skipped'
    BY <1>1, <1>4, <1>6, SkippedKeeps DEF HopQueued
  <2> QED BY <2>3, <2>4, <2>5 DEF GateInv
<1>7. ASSUME QueuedElsewhere(t, gate), Goto(phase, todo \ {t}), HopQueued(t, gate) PROVE GateInv'
  <2>1. UNCHANGED <<outbox, stageRun, ticket>> /\ phase' = phase /\ todo' \subseteq todo
    BY <1>7 DEF QueuedElsewhere, rowVars, Goto
  <2>2. Skipped'
    BY <1>1, <1>4, <1>7, SkippedKeeps DEF HopQueued
  <2> QED BY <1>1, <1>3, <2>1, <2>2, AtGateKeeps DEF GateInv
<1>8. ASSUME UNCHANGED <<outbox, stageRun, ticket>> \/ (StopForBudget /\ UNCHANGED <<outbox, stageRun>>),
             UNCHANGED hopLaunch, Goto("complete", {}) \/ Goto(phase, {}) \/ Throw
      PROVE  GateInv'
  <2>1. phase' \notin {"gateQueue", "uxQueue"} \/ todo' = {}
    BY <1>8 DEF Goto, Throw
  <2> QED BY <1>1, <1>3, <1>4, <1>8, <2>1, AtGateKeeps, SkippedKeeps DEF GateInv
<1>9. CASE ~SkipTicket(t)
  <2>1. HopMissing(t, gate) /\ Queue(t, gate, Goto(phase, todo \ {t}) /\ HopQueued(t, gate),
                                     Goto("complete", {}), Goto(phase, {}))
    BY <1>4, <1>9
  <2> QED BY <1>6, <1>7, <1>8, <2>1 DEF Queue, rowVars
<1> QED BY <1>5, <1>9

\* maybeAdmitPlanGate.  A revision that throws has counted itself, and moved nothing.
LEMMA AdmitTracks ==
    ASSUME OneGate, LaunchInv, GateInv, NEW t \in Ticket, GateAdmit(t)
    PROVE  GateInv'
<1>1. /\ UNCHANGED <<outbox, stageRun, review, hopLaunch>>
      /\ phase' \notin {"gateQueue", "uxQueue"} /\ AtGate /\ Skipped
  BY DEF GateAdmit, Decide, rowVars, worldVars, Throw, Leave, Goto, GateInv
<1>2. AtGate' /\ Skipped'
  BY <1>1, AtGateKeeps DEF Skipped
<1>3. PICK gate \in GateStage, decision \in {PlanDecision(t, {}), UxDecision(t)} :
          /\ \/ gate = "REVIEW" /\ decision = PlanDecision(t, {})
             \/ gate = "UX_REVIEW" /\ decision = UxDecision(t)
          /\ IF decision = "throw"
             THEN UNCHANGED ticket /\ revises' = [revises EXCEPT ![t][gate] = @ + 1]
             ELSE Decide(t, gate, decision)
  <2>1. "REVIEW" \in GateStage /\ "UX_REVIEW" \in GateStage
    BY DEF GateStage
  <2>2. CASE PlanDecision(t, {}) = "none"
    <3>1. IF UxDecision(t) = "throw"
          THEN UNCHANGED ticket /\ revises' = [revises EXCEPT ![t]["UX_REVIEW"] = @ + 1]
          ELSE Decide(t, "UX_REVIEW", UxDecision(t))
      BY <2>2 DEF GateAdmit
    <3> QED BY <2>1, <3>1
  <2>3. CASE PlanDecision(t, {}) # "none"
    <3>1. IF PlanDecision(t, {}) = "throw"
          THEN UNCHANGED ticket /\ revises' = [revises EXCEPT ![t]["REVIEW"] = @ + 1]
          ELSE Decide(t, "REVIEW", PlanDecision(t, {}))
      BY <2>3 DEF GateAdmit
    <3> QED BY <2>1, <3>1
  <2> QED BY <2>2, <2>3
<1>4. revises' \in {revises, [revises EXCEPT ![t][gate] = @ + 1]}
  BY <1>3 DEF Decide
<1>5. \A u \in Ticket : Stays(u)
  BY <1>1, <1>4, DecideCounts, SameStays
<1>6. CASE decision = "throw"
  BY <1>2, <1>3, <1>5, <1>6, StopTracks DEF GateInv
<1>7. CASE decision # "throw"
  BY <1>2, <1>3, <1>5, <1>7, DecideTracks DEF GateInv
<1> QED BY <1>6, <1>7

\* advanceReadyTickets.
LEMMA AdvanceTracks ==
    ASSUME LaunchInv, RowsInv, GateInv, NEW t \in Ticket,
           AdvanceImpl(t) \/ AdvancePlan(t) \/ PrimaryDirty(t) \/ QueueImpl(t) \/ QueuePlan(t)
    PROVE  GateInv'
<1>1. /\ UNCHANGED <<review, revises, hopLaunch>>
      /\ phase' \notin {"gateQueue", "uxQueue"} /\ AtGate /\ Skipped
  <2>1. CASE AdvanceImpl(t) \/ AdvancePlan(t) \/ PrimaryDirty(t)
    BY <2>1 DEF AdvanceImpl, AdvancePlan, PrimaryDirty, Advancing, GateInv, ledgerVars, gateVars,
                worldVars, Leave, Await, Goto
  <2>2. CASE QueueImpl(t) \/ QueuePlan(t)
    BY <2>2 DEF QueueImpl, QueuePlan, Queue, GateInv, worldVars, EnterPlans, Throw, Goto
  <2> QED BY <2>1, <2>2
<1>2. AtGate' /\ Skipped'
  BY <1>1, AtGateKeeps DEF Skipped
<1>3. ASSUME UNCHANGED <<outbox, stageRun>>,
             \A u \in Ticket : ticket'[u] \in {ticket[u]} \cup TicketStops
      PROVE  GateInv'
  BY <1>1, <1>2, <1>3, FrameTracks DEF GateInv
<1>4. CASE AdvanceImpl(t) \/ AdvancePlan(t)
  BY <1>3, <1>4 DEF AdvanceImpl, AdvancePlan, ledgerVars, rowVars
<1>5. CASE PrimaryDirty(t)
  BY <1>3, <1>5, GateTypes DEF PrimaryDirty, rowVars, TicketStops
<1>6. ASSUME NEW s \in {"IMPL", "PLAN"}, QueuedHere(t, s), step = "dirty", item = t,
             s = "IMPL" => phase = "advanceImpl", s = "PLAN" => phase = "advancePlan"
      PROVE  GateInv'
  <2>1. /\ s = "IMPL" => \A l \in OpenRows : l.stage = "IMPL" => ScopeOf[l.ticket] # ScopeOf[t]
        /\ s = "PLAN" => OpenRowsOf(t) = {}
    BY <1>6 DEF RowsInv, BusyKnown
  <2>2. \A l \in OpenRows : ~(l.ticket = t /\ l.stage = s)
    BY <1>6, <2>1 DEF OpenRowsOf
  <2>3. s \in Stage /\ s \notin GateStage
    BY DEF Stage, GateStage
  <2>4. \A u \in Ticket : Tracks(u)'
    BY <1>1, <1>6, <2>1, <2>2, <2>3, InsertTracks
  <2> QED BY <1>2, <2>4 DEF GateInv
<1>7. ASSUME StopForBudget, UNCHANGED <<outbox, stageRun>> PROVE GateInv'
  <2>1. \A u \in Ticket : ticket'[u] \in {ticket[u]} \cup TicketStops
    BY <1>7 DEF StopForBudget, TicketStops
  <2> QED BY <1>3, <1>7, <2>1
<1>8. CASE QueueImpl(t)
  BY <1>3, <1>6, <1>7, <1>8 DEF QueueImpl, Queue, QueuedElsewhere, rowVars
<1>9. CASE QueuePlan(t)
  BY <1>3, <1>6, <1>7, <1>9 DEF QueuePlan, Queue, QueuedElsewhere, rowVars
<1> QED BY <1>4, <1>5, <1>8, <1>9


\* A step on behalf of a ticket keeps GateInv.
LEMMA TicketTracks ==
    ASSUME OneGate, LaunchInv, RowsInv, GateInv, NEW t \in Ticket, TicketAction(t)
    PROVE  GateInv'
  BY GateQueueTracks, AdmitTracks, AdvanceTracks DEF TicketAction

----------------------------------------------------------------------------
(* All other steps.                                                          *)

\* A gate worker writes about the plan it finds: never while the ticket is planned, since the
\* file is about the last plan then, nor after the file let that plan pass.
LEMMA WriteTracks ==
    ASSUME LaunchInv, GateInv, NEW k \in Key, NEW verdict, WriteReview(k, verdict)
    PROVE  GateInv'
<1> DEFINE t == k.ticket
<1>0. t \in Ticket /\ k.stage \in GateStage
  BY DEF WriteReview, Key
<1>1. /\ UNCHANGED <<outbox, stageRun, revises, ticket, hopLaunch, phase, todo>>
      /\ review' = [review EXCEPT ![t][k.stage] = [verdict |-> verdict, plan |-> LatestPlan(t)]]
      /\ review[t][k.stage].plan # LatestPlan(t)
  BY DEF WriteReview, ledgerVars, rowVars, gateVars, tickVars
<1>2. Rows' = Rows /\ OpenRows' = OpenRows
  BY <1>1 DEF Rows, OpenRows
<1>3. \A u : /\ RowsOf(u, "IMPL")' = RowsOf(u, "IMPL") /\ OpenRowsOf(u)' = OpenRowsOf(u)
             /\ Planned(u)' = Planned(u)
  BY <1>1, <1>2 DEF RowsOf, OpenRowsOf, Planned
<1>4. \A u : LatestPlan(u)' = LatestPlan(u) /\ (PlansAlone(u)' <=> PlansAlone(u))
  BY <1>1, <1>3, PlannedLast DEF PlansAlone, PlanOpen, Implemented
<1>5. ASSUME NEW u \in Ticket, u # t \/ k.stage # Gate(t) PROVE Tracks(u)'
  <2>1. Gate(u) \in GateStage
    BY DEF Gate, GateStage
  <2>2. File(u)' = File(u)
    BY <1>0, <1>1, <1>5, <2>1, GateTypes DEF File, Gate
  <2>3. Reads(u)' <=> Reads(u)
    BY <1>1, <1>3, <1>4, <2>2 DEF Reads, UpToDate, Passes, Bars, PlanOpen, Implemented, Gate
  <2> QED BY <1>4, <2>3 DEF Tracks, GateInv
<1>6. ASSUME k.stage = Gate(t) PROVE Tracks(t)'
  <2>1. ~UpToDate(t)
    BY <1>1, <1>6 DEF UpToDate, File
  <2>2. UpToDate(t)'
    <3>1. review'[t][k.stage].plan = LatestPlan(t)
      BY <1>0, <1>1, GateTypes
    <3> QED BY <1>4, <1>6, <3>1 DEF UpToDate, File, Gate
  <2>3. t \in Judged => Reads(t)'
    BY <1>0, <1>1, <1>3, <2>1, <2>2 DEF GateInv, Tracks, Reads, PlanOpen, Implemented
  <2> QED BY <1>0, <1>4, <2>3 DEF Tracks, GateInv
<1>7. AtGate' /\ Skipped'
  BY <1>1, <1>3 DEF GateInv, AtGate, Skipped, PlanOpen
<1> QED BY <1>5, <1>6, <1>7 DEF GateInv

\* What the other steps do: at most they stop tickets.
LEMMA OtherStops ==
    ASSUME OneGate, LaunchInv,
           \/ LoopEnd \/ TickBegin \/ TickDeadline \/ Crash \/ Operator
           \/ \E k \in Key : WorkerSucceeds(k) \/ WorkerFails(k)
           \/ UNCHANGED allVars
    PROVE  /\ UNCHANGED <<outbox, stageRun, review, revises, hopLaunch>>
           /\ \A t \in Ticket : ticket'[t] \in {ticket[t]} \cup TicketStops
<1>1. CASE LoopEnd \/ TickBegin \/ TickDeadline \/ Crash
  <2>1. UNCHANGED <<outbox, stageRun, review, revises, hopLaunch>>
    BY <1>1 DEF LoopEnd, EndReconcile, EndDispatch, EndObserve, EndWatchdog, EndCloseout,
       EndGateQueue, EndUxQueue, EndGateObserve, EndGateAdmit, EndAdvance, FailUnlaunchable,
       EndTick, EndIsolate, TickBegin, TickDeadline, Crash, ledgerVars, gateVars, rowVars, worldVars
  <2>2. CASE FailUnlaunchable \/ EndTick \/ TickDeadline
    BY <2>1, <2>2 DEF FailUnlaunchable, EndTick, MaybeCompleteWave, DependentsFailed, TickDeadline,
                      StopForBudget, TicketStops
  <2>3. CASE ~(FailUnlaunchable \/ EndTick \/ TickDeadline)
    BY <1>1, <2>1, <2>3 DEF LoopEnd, EndReconcile, EndDispatch, EndObserve, EndWatchdog, EndCloseout,
       EndGateQueue, EndUxQueue, EndGateObserve, EndGateAdmit, EndAdvance, EndIsolate, TickBegin,
       Crash, ledgerVars
  <2> QED BY <2>2, <2>3
<1>2. CASE Operator
  <2>1. ~\E t \in Ticket : Approve(t) \/ Revise(t)
    BY DEF Approve, Revise, Judge, OneGate
  <2>2. CASE Freeze \/ Start \/ Pause \/ Resume \/ CancelWave \/ CancelTickets \/ CancelCrash
    BY <2>2 DEF Freeze, Start, Pause, Resume, SetWave, CancelWave, CancelTickets, CancelCrash, vars,
                ledgerVars, gateVars, rowVars, worldVars, TicketStops
  <2> QED BY <1>2, <2>1, <2>2 DEF Operator
<1>3. CASE (\E k \in Key : WorkerSucceeds(k) \/ WorkerFails(k)) \/ UNCHANGED allVars
  BY <1>3 DEF WorkerSucceeds, WorkerFails, WorkerEnds, allVars, vars, ledgerVars, gateVars, rowVars,
              worldVars
<1> QED BY <1>1, <1>2, <1>3

\* The loops of the gates begin with tickets in PLAN_REVIEW.
LEMMA OtherTracks ==
    ASSUME OneGate, LaunchInv, GateInv,
           \/ LoopEnd \/ TickBegin \/ TickDeadline \/ Crash \/ Operator
           \/ \E k \in Key : WorkerSucceeds(k) \/ WorkerFails(k)
           \/ UNCHANGED allVars
    PROVE  GateInv'
<1>1. /\ UNCHANGED <<outbox, stageRun, review, revises, hopLaunch>>
      /\ \A t \in Ticket : ticket'[t] \in {ticket[t]} \cup TicketStops
  BY OtherStops
<1>2. /\ \A t \in Ticket : Tracks(t)' /\ (PlanOpen(t)' => PlanOpen(t))
      /\ Skipped'
  BY <1>1, FrameTracks DEF GateInv, Skipped
<1>3. ASSUME todo' \subseteq {t \in Ticket : ticket[t] = "PLAN_REVIEW"},
             phase' = "gateQueue" => todo' \cap ReviewSkip = {}
      PROVE  AtGate'
  <2>1. \A t \in todo' : ~PlanOpen(t)
    BY <1>3 DEF GateInv, Tracks, PlansAlone, TicketStops
  <2> QED BY <1>2, <1>3, <2>1 DEF AtGate
<1>4. ASSUME phase' \notin {"gateQueue", "uxQueue"} PROVE AtGate'
  BY <1>4 DEF AtGate
<1>5. ASSUME PastGate PROVE AtGate'
  BY <1>4, <1>5 DEF PastGate, EnterAdvance, Goto
<1>6. ASSUME EnterUxQueue PROVE AtGate'
  BY <1>3, <1>5, <1>6, LedgerAssumption DEF EnterUxQueue, EnterQueue, Goto
<1>7. ASSUME EndCloseout PROVE AtGate'
  BY <1>3, <1>5, <1>7 DEF EndCloseout, EnterQueue, Goto
<1>8. ASSUME EndGateQueue PROVE AtGate'
  BY <1>6, <1>8 DEF EndGateQueue
<1>9. ASSUME EndUxQueue PROVE AtGate'
  BY <1>4, <1>5, <1>9 DEF EndUxQueue, Goto
<1>10. ASSUME \/ EndReconcile \/ EndDispatch \/ EndObserve \/ EndWatchdog \/ EndGateObserve
              \/ EndGateAdmit \/ EndAdvance \/ FailUnlaunchable \/ EndTick \/ EndIsolate
              \/ TickBegin \/ Crash
       PROVE  AtGate'
  BY <1>4, <1>10 DEF EndReconcile, EndDispatch, EndObserve, EndWatchdog, EndGateObserve,
     EndGateAdmit, EndAdvance, EnterPlans, FailUnlaunchable, EndTick, EndIsolate, TickBegin, Crash,
     RestAs, Goto
<1>11. ASSUME \/ TickDeadline \/ Operator \/ UNCHANGED allVars
              \/ \E k \in Key : WorkerSucceeds(k) \/ WorkerFails(k)
       PROVE  AtGate'
  <2>1. UNCHANGED <<phase, todo>>
    BY <1>11 DEF TickDeadline, Operator, Freeze, Start, Pause, Resume, SetWave, Approve, Revise,
       Judge, CancelWave, CancelTickets, CancelCrash, WorkerSucceeds, WorkerFails, WorkerEnds,
       allVars, vars, tickVars
  <2>2. phase \in {"gateQueue", "uxQueue"} => todo \subseteq Ticket
    BY DEF LaunchInv, TypeOK, TickTypeOK, RowPhase
  <2> QED BY <1>2, <1>4, <2>1, <2>2, AtGateKeeps DEF GateInv
<1> QED BY <1>2, <1>7, <1>8, <1>9, <1>10, <1>11 DEF GateInv, LoopEnd

----------------------------------------------------------------------------
(* The theorems.                                                             *)

\* Every step preserves GateInv.
LEMMA GateStep ==
    ASSUME OneGate, LaunchInv, RowsInv, GateInv, [Next]_allVars
    PROVE  GateInv'
<1>1. ASSUME NEW k \in Key, RowAction(k) PROVE GateInv'
  <2>1. \A t \in Ticket : Tracks(t)'
    BY <1>1, RowTracks
  <2>2. phase' \in RowPhase \cup {"escaped"}
    <3>1. phase \in RowPhase
      BY <1>1, RowPlace DEF RowsInv
    <3> QED BY <1>1, <3>1, RowPlace DEF RowsInv, Throw, Leave, Goto, RowPhase
  <2>3. AtGate' /\ Skipped'
    BY <1>1, <2>2, RowFiles DEF GateInv, AtGate, Skipped, RowPhase
  <2> QED BY <2>1, <2>3 DEF GateInv
<1>2. ASSUME NEW t \in Ticket, TicketAction(t) PROVE GateInv'
  BY <1>2, TicketTracks
<1>3. CASE \/ LoopEnd \/ TickBegin \/ TickDeadline \/ Crash \/ Operator \/ UNCHANGED allVars
           \/ \E k \in Key : WorkerSucceeds(k) \/ WorkerFails(k)
  BY <1>3, OtherTracks
<1>4. ASSUME NEW k \in Key, WorkerStep(k) PROVE GateInv'
  BY <1>3, <1>4, WriteTracks DEF WorkerStep
<1> QED BY <1>1, <1>2, <1>3, <1>4 DEF Next, Ticker, TickerDies, Tick

\* GateInv holds at first.
LEMMA GateInit == Init => GateInv
<1> SUFFICES ASSUME Init PROVE GateInv
  OBVIOUS
<1>1. Rows = {} /\ OpenRows = {}
  BY DEF Init, Rows, OpenRows
<1>2. ASSUME NEW t \in Ticket PROVE Tracks(t)
  <2>1. ~PlanOpen(t) /\ ~Implemented(t) /\ ticket[t] = "PENDING"
    BY <1>1 DEF Init, PlanOpen, OpenRowsOf, Implemented, RowsOf
  <2>2. UpToDate(t) /\ Bars(t)
    <3>1. LatestPlan(t) = Max({0})
      <4>1. {0} \cup {k.attempt : k \in {p \in RowsOf(t, "PLAN") : stageRun[p] = "SUCCEEDED"}} = {0}
        BY <1>1 DEF RowsOf
      <4> QED BY <4>1 DEF LatestPlan
    <3>2. Max({0}) = 0
      BY DEF Max
    <3>3. File(t) = Missing
      BY DEF Init, File, Gate, GateStage
    <3> QED BY <3>1, <3>2, <3>3 DEF UpToDate, Bars, Missing
  <2> QED BY <2>1, <2>2 DEF Tracks, PlansAlone, Reads, After
<1>3. AtGate /\ Skipped
  BY DEF Init, AtGate, Skipped
<1> QED BY <1>2, <1>3 DEF GateInv

\* Together with LaunchInv and RowsInv, GateInv is inductive.
THEOREM GateInvariant ==
    ASSUME OneGate
    PROVE  Spec => [](LaunchInv /\ RowsInv /\ GateInv)
<1>1. Init => GateInv
  BY GateInit
<1>2. LaunchInv /\ RowsInv /\ GateInv /\ [Next]_allVars => GateInv'
  BY GateStep
<1> QED BY RowsInvariant, <1>1, <1>2, PTL DEF Spec

\* A reviewed ticket implements the plan its REVIEW approved, although the code reads the
\* review file without knowing which plan it is about (admitPlanReviewTicket), whenever the
\* worker that writes it does so, and whatever is lost or crashes in between.
THEOREM PlanReviewed == ASSUME OneGate PROVE Spec => []ImplPlanReviewed
<1>1. GateInv => ImplPlanReviewed
  <2> SUFFICES ASSUME GateInv, NEW t \in Ticket \ ReviewSkip, RowsOf(t, "IMPL") # {}
               PROVE  /\ review[t]["REVIEW"].plan = LatestPlan(t)
                      /\ VerdictOf(t, "REVIEW") # "revise"
    BY DEF ImplPlanReviewed
  <2>1. t \in Judged /\ Gate(t) = "REVIEW"
    BY DEF OneGate, Judged, Gate
  <2>2. UpToDate(t) /\ Passes(t)
    BY <2>1 DEF GateInv, Tracks, Reads, Implemented
  <2> QED BY <2>1, <2>2 DEF UpToDate, Passes, File, VerdictOf
<1> QED BY GateInvariant, <1>1, PTL

\* Likewise a ticket whose one gate is the UX review: admitUxReviewTicket, which does not
\* even ask whether the review of this plan is over, admits the plan Mona approved.
THEOREM UxReviewed == ASSUME OneGate PROVE Spec => []ImplUxReviewed
<1>1. GateInv => ImplUxReviewed
  <2> SUFFICES ASSUME GateInv, NEW t \in NeedsUx, RowsOf(t, "IMPL") # {}
               PROVE  /\ review[t]["UX_REVIEW"].plan = LatestPlan(t)
                      /\ VerdictOf(t, "UX_REVIEW") # "revise"
    BY DEF ImplUxReviewed
  <2>1. t \in Judged /\ Gate(t) = "UX_REVIEW" /\ t \in Ticket
    BY LedgerAssumption DEF Judged, Gate
  <2>2. UpToDate(t) /\ Passes(t)
    BY <2>1 DEF GateInv, Tracks, Reads, Implemented
  <2> QED BY <2>1, <2>2 DEF UpToDate, Passes, File, VerdictOf
<1> QED BY GateInvariant, <1>1, PTL
=============================================================================
