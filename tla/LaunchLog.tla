------------------------------ MODULE LaunchLog ------------------------------
(***************************************************************************)
(* What the launch ledger promises of each row, whatever the tickers, the   *)
(* gateway and the launcher do: a receipt names a worker that was started,  *)
(* a row is settled once its worker, known by a receipt, has reported or   *)
(* the row's wall time is over, and a closed row stays closed.              *)
(***************************************************************************)
CONSTANT Row

VARIABLES
    fate,      \* "open", "SETTLED" or "FAILED"
    begun,     \* rows for which a worker was started
    reported,  \* rows whose worker left an outcome
    late,      \* rows past their wall time
    known      \* rows with a receipt

logVars == <<fate, begun, reported, late, known>>

Init ==
    /\ fate = [r \in Row |-> "open"]
    /\ begun = {} /\ reported = {} /\ late = {} /\ known = {}

\* A ticker with an old snapshot may start the worker of a row that is closed.
Begin(r) ==
    /\ begun' = begun \cup {r}
    /\ UNCHANGED <<fate, reported, late, known>>

Report(r) ==
    /\ r \in begun
    /\ reported' = reported \cup {r}
    /\ UNCHANGED <<fate, begun, late, known>>

RunLate(rows) ==
    /\ late' = late \cup rows
    /\ UNCHANGED <<fate, begun, reported, known>>

Learn(r) ==
    /\ fate[r] = "open" /\ r \in begun
    /\ known' = known \cup {r}
    /\ UNCHANGED <<fate, begun, reported, late>>

Settle(r) ==
    /\ fate[r] = "open" /\ r \in (known \cap reported) \cup late
    /\ fate' = [fate EXCEPT ![r] = "SETTLED"]
    /\ UNCHANGED <<begun, reported, late, known>>

\* An error may close several rows at once.
Fail(rows) ==
    /\ \A r \in rows : fate[r] = "open"
    /\ fate' = [r \in Row |-> IF r \in rows THEN "FAILED" ELSE fate[r]]
    /\ UNCHANGED <<begun, reported, late, known>>

Next ==
    \/ \E r \in Row : Begin(r) \/ Report(r) \/ Learn(r) \/ Settle(r)
    \/ \E rows \in SUBSET Row : RunLate(rows) \/ Fail(rows)

Spec == Init /\ [][Next]_logVars
=============================================================================
