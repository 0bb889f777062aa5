----------------------------- MODULE WaveStates -----------------------------
(***************************************************************************)
(* The status vocabulary of the wave ledger and the three transition       *)
(* tables that guard it: waves and tickets (src/core/state-machine.ts) and *)
(* launch rows (src/core/outbox.ts).  A table lists the moves its assert    *)
(* function accepts; code that writes a status without calling the assert   *)
(* function is not held to the table, which is what several properties of   *)
(* WaveRunner are about.                                                    *)
(***************************************************************************)

WaveStatus == {"DRAFT", "FROZEN", "RUNNING", "AWAITING_PLAN_GATE", "WAITING_APPROVAL",
               "PAUSED", "COMPLETED", "BLOCKED", "FAILED", "BUDGET_STOPPED", "CANCELLED"}

TerminalWave == {"COMPLETED", "BLOCKED", "FAILED", "BUDGET_STOPPED", "CANCELLED"}

\* A wave at a plan gate: the tick queues no PLAN or IMPL work.
IdleGate == {"AWAITING_PLAN_GATE", "WAITING_APPROVAL"}

TicketStatus == {"PENDING", "CLAIMED", "PLANNING", "PLAN_REVIEW", "APPROVED", "REVISING",
                 "IMPLEMENTING", "VERIFYING", "DONE", "BLOCKED", "FAILED",
                 "BUDGET_STOPPED", "CANCELLED"}

TerminalTicket == {"DONE", "BLOCKED", "FAILED", "BUDGET_STOPPED", "CANCELLED"}

\* A ticket in one of these keeps its writer lease.
ImplActive == {"APPROVED", "IMPLEMENTING", "VERIFYING"}

OutboxState == {"PENDING", "CLAIMED", "LAUNCHED", "RECONCILING", "SETTLED", "FAILED"}

ClosedRow == {"SETTLED", "FAILED"}

\* A cancelled stage run is read exactly as a failed one, so it is folded in.
StageStatus == {"PENDING", "RUNNING", "SUCCEEDED", "FAILED"}

BudgetState == {"RESERVED", "COMMITTED", "INDETERMINATE", "RELEASED"}

----------------------------------------------------------------------------

TicketStops == {"FAILED", "CANCELLED", "BLOCKED", "BUDGET_STOPPED"}

TicketMoves ==
    [s \in TicketStatus |->
        CASE s = "PENDING"      -> {"CLAIMED"} \cup TicketStops
          [] s = "CLAIMED"      -> {"PLANNING"} \cup TicketStops
          [] s = "PLANNING"     -> {"PLAN_REVIEW", "REVISING"} \cup TicketStops
          [] s = "PLAN_REVIEW"  -> {"APPROVED", "REVISING"} \cup TicketStops
          [] s = "APPROVED"     -> {"IMPLEMENTING"} \cup TicketStops
          [] s = "REVISING"     -> {"PLANNING"} \cup TicketStops
          [] s = "IMPLEMENTING" -> {"VERIFYING", "APPROVED"} \cup TicketStops
          [] s = "VERIFYING"    -> {"DONE"} \cup TicketStops
          [] OTHER              -> {}]

WaveStops == {"CANCELLED", "BLOCKED", "FAILED", "BUDGET_STOPPED"}

WaveMoves ==
    [s \in WaveStatus |->
        CASE s = "DRAFT"    -> {"FROZEN", "CANCELLED"}
          [] s = "FROZEN"   -> {"RUNNING", "CANCELLED"}
          [] s = "RUNNING"  -> IdleGate \cup {"PAUSED", "COMPLETED"} \cup WaveStops
          [] s \in IdleGate -> {"RUNNING", "PAUSED"} \cup WaveStops
          [] s = "PAUSED"   -> {"RUNNING", "CANCELLED", "BUDGET_STOPPED"}
          [] OTHER          -> {}]

OutboxMoves ==
    [s \in OutboxState |->
        CASE s = "PENDING"     -> {"CLAIMED", "FAILED"}
          [] s = "CLAIMED"     -> {"LAUNCHED", "RECONCILING", "FAILED"}
          [] s = "LAUNCHED"    -> {"SETTLED", "RECONCILING", "FAILED"}
          [] s = "RECONCILING" -> {"LAUNCHED", "SETTLED", "FAILED"}
          [] OTHER             -> {}]

\* assertWaveTransition and assertTicketTransition accept the move: the same
\* status always; under a cancel request only CANCELLED, from a live status.
WaveMayMove(from, to, cancel) ==
    \/ from = to
    \/ /\ cancel => to = "CANCELLED" \/ from \in TerminalWave
       /\ to \in WaveMoves[from]

TicketMayMove(from, to, cancel) ==
    \/ from = to
    \/ /\ cancel => to = "CANCELLED" \/ from \in TerminalTicket
       /\ to \in TicketMoves[from]

\* assertOutboxTransition accepts the move.
RowMayMove(from, to) == from = to \/ to \in OutboxMoves[from]
=============================================================================
