------------------------------ MODULE WaveGate ------------------------------
(***************************************************************************)
(* The plan gate: what a settled plan does to the wave, and how review      *)
(* files are turned into decisions (src/core/plan-settle.ts,                *)
(* plan-review-settle.ts, ux-review-settle.ts).                             *)
(*                                                                         *)
(* There is one review file per ticket and gate, not one per attempt: a new *)
(* REVIEW overwrites it.  The file is modelled by its verdict and by the    *)
(* plan attempt it was written about, which the code cannot see.            *)
(***************************************************************************)
EXTENDS WaveLedger

VARIABLE review  \* the review file of each ticket and gate

\* "incomplete" is approve-with-conditions without the contract section that
\* an IMPL launch requires.
Verdict == {"approve", "incomplete", "revise"}
Missing == [verdict |-> "missing", plan |-> 0]
ReviewFile == [verdict : Verdict \cup {"missing"}, plan : Attempt \cup {0}]

VerdictOf(t, gate) == review[t][gate].verdict

\* crawmakSatisfiedForHop.
PlanReviewSatisfied(t) ==
    \/ t \in ReviewSkip
    \/ /\ LatestPlan(t) > 0
       /\ HopLaunched(t, "REVIEW")
       /\ Forge
       /\ VerdictOf(t, "REVIEW") \in {"approve", "incomplete"}

\* Seeded fault: the REVIEW may still be running.
PlanReviewLaunched(t, settling) == LatestPlan(t) > 0 /\ HopLaunched(t, "REVIEW")

\* planReviewHopReady: the REVIEW of this plan attempt was launched and is over.
PlanReviewReady(t, settling) ==
    /\ LatestPlan(t) > 0
    /\ HopLaunched(t, "REVIEW")
    /\ ~GateBusy(t, "REVIEW", settling)

\* Seeded fault: a plan whose revisions are spent is let through.
ReviseOutcomeAdmits(t, gate) == IF revises[t][gate] >= ReviseCap THEN "admit" ELSE "revise"

ReviseOutcome(t, gate) ==
    IF revises[t][gate] >= ReviseCap THEN "cap"
    ELSE IF cancelRequested THEN "throw" ELSE "revise"

\* admitPlanReviewTicket: what it does to a ticket in PLAN_REVIEW.
PlanDecision(t, settling) ==
    LET verdict == IF PlanReviewReady(t, settling) /\ Forge
                   THEN VerdictOf(t, "REVIEW") ELSE "missing"
        leftover == ~EverLaunched(t, "REVIEW") /\ t \in Stamped
    IN  CASE ticket[t] # "PLAN_REVIEW" -> "none"
          [] ticket[t] = "PLAN_REVIEW" /\ verdict = "revise" -> ReviseOutcome(t, "REVIEW")
          [] ticket[t] = "PLAN_REVIEW" /\ verdict = "approve" /\ t \notin NeedsUx -> "admit"
          [] ticket[t] = "PLAN_REVIEW" /\ verdict = "missing" /\ leftover
                                       /\ t \notin NeedsUx -> "admit"
          [] OTHER -> "none"

\* admitUxReviewTicket.
UxDecision(t) ==
    LET verdict == IF UxReady THEN VerdictOf(t, "UX_REVIEW") ELSE "missing"
        asked == /\ ticket[t] = "PLAN_REVIEW"
                 /\ t \in NeedsUx
                 /\ PlanReviewSatisfied(t)
    IN  CASE asked /\ verdict = "revise" -> ReviseOutcome(t, "UX_REVIEW")
          [] asked /\ verdict \in {"approve", "incomplete"} /\ HopLaunched(t, "UX_REVIEW")
                -> "admit"
          [] OTHER -> "none"

\* setWaveRunning: the gate opens.
GateOpened == IF waveStatus \in IdleGate THEN "RUNNING" ELSE waveStatus

\* The writes of a decision that does not throw.
Decide(t, gate, decision) ==
    /\ ticket' = CASE decision = "admit"  -> [ticket EXCEPT ![t] = "APPROVED"]
                   [] decision = "cap"    -> [ticket EXCEPT ![t] = "FAILED"]
                   [] decision = "revise" -> [ticket EXCEPT ![t] = "REVISING"]
                   [] OTHER               -> ticket
    /\ waveStatus' = IF decision \in {"admit", "revise"} THEN GateOpened ELSE waveStatus
    /\ revises' = IF decision = "revise"
                  THEN [revises EXCEPT ![t][gate] = @ + 1] ELSE revises
    /\ UNCHANGED hopLaunch

\* Seeded fault: the two statuses are written the wrong way round.
PlanOutcomeSwapped(t, ok) ==
    IF ok THEN <<"AWAITING_PLAN_GATE", "PLAN_REVIEW">> ELSE <<"FAILED", waveStatus>>

\* Seeded fault: planReviewSkip is taken to skip the UX review too.
PlanOutcomeSkipsUx(t, ok) ==
    CASE ~ok -> <<"FAILED", waveStatus>>
      [] ok /\ t \in ReviewSkip -> <<"APPROVED", waveStatus>>
      [] OTHER -> <<"PLAN_REVIEW", "AWAITING_PLAN_GATE">>

\* applyPlanSuccess, with a plan that passes the artifact check or does not.
PlanOutcome(t, ok) ==
    CASE ~ok                                  -> <<"FAILED", waveStatus>>
      [] ok /\ t \in HumanHold                -> <<"PLAN_REVIEW", "WAITING_APPROVAL">>
      [] ok /\ t \notin HumanHold /\ t \in ReviewSkip \ NeedsUx
                                              -> <<"APPROVED", waveStatus>>
      [] OTHER                                -> <<"PLAN_REVIEW", "AWAITING_PLAN_GATE">>

PlanSettled(t, ok) ==
    /\ ticket' = [ticket EXCEPT ![t] = PlanOutcome(t, ok)[1]]
    /\ waveStatus' = PlanOutcome(t, ok)[2]
    /\ UNCHANGED gateVars
=============================================================================
