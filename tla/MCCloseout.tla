----------------------------- MODULE MCCloseout -----------------------------
(* Small instances of Closeout for TLC. *)
EXTENDS Closeout

CONSTANTS a1, a2, b1, wa, wb, shared

\* Two tickets of wave A and one of wave B, all of one writer scope.
WaveOfAAB == [t \in Ticket |-> IF t = b1 THEN wb ELSE wa]
OneScope == [t \in Ticket |-> shared]

ModeA2Apply == [t \in Ticket |-> IF t = a2 THEN "apply" ELSE "commit"]
AllCommit == [t \in Ticket |-> "commit"]
=============================================================================
