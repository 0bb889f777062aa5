---------------------------- MODULE MCWaveRunner ----------------------------
(* Small instances of WaveRunner for TLC. *)
EXTENDS WaveRunner

CONSTANTS t1, t2, s1

OneScope == [t \in Ticket |-> s1]
NoDeps == [t \in Ticket |-> {}]
Chain == [t \in Ticket |-> IF t = t2 THEN {t1} ELSE {}]
=============================================================================
