---------------------------- MODULE RepoLanding ----------------------------
(***************************************************************************)
(* What closeout promises of each ticket, whatever the waves, processes and *)
(* locks: a ticket is recorded DONE only once its work is on the primary    *)
(* checkout, and nothing happens to a DONE ticket any more.                 *)
(***************************************************************************)
CONSTANT Ticket

VARIABLES
    stage,      \* "working", "closing" (verified), "DONE" or "FAILED"
    onPrimary   \* tickets whose work is on the primary checkout

landingVars == <<stage, onPrimary>>

Init ==
    /\ stage = [t \in Ticket |-> "working"]
    /\ onPrimary = {}

Verified(t) ==
    /\ stage[t] = "working"
    /\ stage' = [stage EXCEPT ![t] = "closing"]
    /\ UNCHANGED onPrimary

\* One step may give up several tickets of a wave.
GiveUp(given) ==
    /\ \A t \in given : stage[t] \in {"working", "closing"}
    /\ stage' = [t \in Ticket |-> IF t \in given THEN "FAILED" ELSE stage[t]]
    /\ UNCHANGED onPrimary

Land(t) ==
    /\ stage[t] \in {"closing", "FAILED"}
    /\ t \notin onPrimary
    /\ onPrimary' = onPrimary \cup {t}
    /\ UNCHANGED stage

\* The operator's land-retry may still finish a ticket that failed.
Finish(t) ==
    /\ stage[t] \in {"closing", "FAILED"}
    /\ t \in onPrimary
    /\ stage' = [stage EXCEPT ![t] = "DONE"]
    /\ UNCHANGED onPrimary

Next ==
    \/ \E t \in Ticket : Verified(t) \/ Land(t) \/ Finish(t)
    \/ \E given \in SUBSET Ticket : GiveUp(given)

Spec == Init /\ [][Next]_landingVars
=============================================================================
