---------------------------- MODULE Supervision ----------------------------
(***************************************************************************)
(* The shell around the controller: commands that kick a wave (dry run,     *)
(* join or spawn the supervisor, create, start; run-backlog-wave.sh,        *)
(* supervisor-health.sh, wave-create.ts, wave-commands.ts) and copies of    *)
(* the supervisor that ticks every ledger until it is stuck, failing or     *)
(* idle (wave-supervisor.sh, operator-loop.ts, run-supervisor.ts).          *)
(*                                                                         *)
(* Ledgers are numbered in the order the supervisor reads them in.  A wave  *)
(* is seen as the loop sees it: idle and jammed are RUNNING without an open *)
(* row or a VERIFYING ticket, and a tick of a jammed wave changes nothing.  *)
(* A copy's previous fingerprint is the ledger whose present fingerprint it *)
(* is, None once that ledger has changed.                                   *)
(***************************************************************************)
EXTENDS WaveIntake

CONSTANTS
    Ledger, Wave,
    LedgerOf,     \* LedgerOf[w]: the ledger of the repository of w
    Asked,        \* Asked[w]: the tickets its kicks name, in the order given
    Kick,         \* processes that kick waves
    Copy,         \* copies of the supervisor that may run at once
    None,
    StuckTicks,   \* STUCK_TICKS
    FailLimit,    \* cycles without a successful tick before the loop stops
    IdleCycles,   \* cycles without a live wave that make up WAVE_IDLE_EXIT_S
    Eager,        \* bound: waves a tick may take out of their draft
    MaxKicks,     \* bound: kicks
    MaxFaults     \* bound: failing ledgers and dead processes

ASSUME SupervisionAssumption ==
    /\ Ledger \subseteq Nat /\ IsFiniteSet(Ledger)
    /\ LedgerOf \in [Wave -> Ledger] /\ Asked \in [Wave -> Seq(Ticket)]
    /\ Kick \subseteq Nat /\ Copy \subseteq Nat /\ Eager \subseteq Wave
    /\ None \notin Ledger \cup Wave \cup Copy
    /\ {StuckTicks, FailLimit, IdleCycles} \subseteq Nat \ {0}
    /\ {MaxKicks, MaxFaults} \subseteq Nat

VARIABLES
    phase,        \* each wave as the loop sees it
    frozen,       \* each wave's tickets, in the order frozen
    kick,         \* where each kick is, and the wave it kicks
    sup,          \* each copy of the supervisor
    pidfile,      \* the copy supervisor.pid names
    fresh,        \* the heartbeat is younger than three sleeps
    failing,      \* ledgers whose tick exits with an error
    unlisted,     \* ledgers whose live waves cannot be listed any more
    refused,      \* waves whose dry run was refused
    kicks, faults,
    still,        \* history: ticks of a ledger since its last change
    excuses       \* history: what went wrong around the supervisor

waveVars == <<phase, frozen, still>>
pidVars == <<pidfile, fresh>>
vars == <<waveVars, kick, sup, pidVars, failing, unlisted, refused, kicks, faults, excuses>>

Phase == {"absent", "draft", "idle", "busy", "jammed", "gate", "over"}
Live == Phase \ {"absent", "over"}
Running == {"idle", "busy", "jammed"}
KickAt == {"off", "check", "spawn", "wait", "read", "write", "start"}

\* What a tick may make of a wave.
Moves == [absent |-> {"absent"}, draft |-> {"draft", "gate", "idle", "over"}, over |-> {"over"},
          idle |-> {"busy", "jammed", "gate", "over"}, busy |-> {"busy", "idle", "gate", "over"},
          jammed |-> {"jammed"}, gate |-> {"gate", "idle"}]

Up == {s \in Copy : sup[s].at # "down"}
Beating == {s \in Copy : sup[s].at = "cycle"}
LiveLedgers == {l \in Ledger \ unlisted : \E w \in Wave : LedgerOf[w] = l /\ phase[w] \in Live}

\* A copy: what is left of its cycle, and what it has counted so far.
Supervisor == [at : {"down", "boot", "cycle"}, todo : SUBSET Ledger, ok : BOOLEAN, failed : BOOLEAN,
               stuck : 0..StuckTicks - 1, prev : Ledger \cup {None},
               fails : 0..FailLimit - 1, idle : 0..IdleCycles - 1]

TypeOK ==
    /\ phase \in [Wave -> Phase] /\ frozen \in [Wave -> Seq(Ticket)]
    /\ \A w \in Wave : frozen[w] = <<>> <=> phase[w] = "absent"
    /\ kick \in [Kick -> [at : KickAt, wave : Wave \cup {None}]]
    /\ sup \in [Copy -> Supervisor]
    /\ pidfile \in Copy \cup {None} /\ fresh \in BOOLEAN
    /\ failing \subseteq Ledger /\ unlisted \subseteq Ledger /\ refused \subseteq Wave
    /\ kicks \in 0..MaxKicks /\ faults \in 0..MaxFaults
    /\ still \in [Ledger -> 0..StuckTicks]
    /\ excuses \subseteq {"twin", "creates", "lost"}

Down == [at |-> "down", todo |-> {}, ok |-> FALSE, failed |-> FALSE,
         stuck |-> 0, prev |-> None, fails |-> 0, idle |-> 0]

Init ==
    /\ phase = [w \in Wave |-> "absent"] /\ frozen = [w \in Wave |-> <<>>]
    /\ kick = [k \in Kick |-> [at |-> "off", wave |-> None]]
    /\ sup = [s \in Copy |-> Down]
    /\ pidfile = None /\ fresh = FALSE /\ failing = {} /\ unlisted = {} /\ refused = {}
    /\ kicks = 0 /\ faults = 0
    /\ still = [l \in Ledger |-> 0] /\ excuses = {}

-----------------------------------------------------------------------------
(* Changes of waves. *)

\* No copy's previous fingerprint is that of a ledger that has changed.
Forget(ledgers) ==
    [s \in Copy |-> IF sup[s].prev \in ledgers THEN [sup[s] EXCEPT !.prev = None] ELSE sup[s]]

\* A process other than a supervisor changes a wave.
Put(w, p) ==
    /\ phase' = [phase EXCEPT ![w] = p]
    /\ IF p = phase[w] THEN UNCHANGED <<still, sup>>
       ELSE /\ still' = [still EXCEPT ![LedgerOf[w]] = 0]
            /\ sup' = Forget({LedgerOf[w]})

\* An operator approves, resumes, unblocks or cancels a wave that waits for him.
Operate(w) ==
    /\ phase[w] \in {"gate", "jammed"}
    /\ Put(w, "idle") \/ Put(w, "over")
    /\ UNCHANGED <<frozen, kick, pidVars, failing, unlisted, refused, kicks, faults, excuses>>

-----------------------------------------------------------------------------
(* Kicks. *)

SupervisorAliveByBeat == fresh

SupervisorAlive == pidfile \in Up /\ fresh

Goto(k, at) == kick' = [kick EXCEPT ![k].at = at]
Leave(k) == kick' = [kick EXCEPT ![k] = [at |-> "off", wave |-> None]]

\* A kick that finds the primary dirty in the scope of its tickets leaves no trace.
\* The kicks are alike: the first that is off is the next.
Free(k) == kick[k].at = "off" /\ \A j \in Kick : j < k => kick[j].at # "off"

Begin(k, w) ==
    /\ Free(k) /\ kicks < MaxKicks
    /\ Preflight(Asked[w])
    /\ kick' = [kick EXCEPT ![k] = [at |-> "check", wave |-> w]]
    /\ kicks' = kicks + 1
    /\ UNCHANGED <<waveVars, sup, pidVars, failing, unlisted, refused, faults, excuses>>

\* The dry run throws, or asks for more launches than the kick has.
Refuse(k, w) ==
    /\ Free(k) /\ kicks < MaxKicks
    /\ ~Preflight(Asked[w])
    /\ refused' = refused \cup {w}
    /\ kicks' = kicks + 1
    /\ UNCHANGED <<waveVars, kick, sup, pidVars, failing, unlisted, faults, excuses>>

\* ensure_supervisor: join the one alive, or spawn.
Check(k) ==
    /\ kick[k].at = "check"
    /\ IF SupervisorAlive THEN Goto(k, "read") /\ UNCHANGED excuses
       ELSE /\ Goto(k, "spawn")
            /\ excuses' = excuses \cup
                   (IF \E j \in Kick \ {k} : kick[j].at \in {"spawn", "wait"} THEN {"twin"} ELSE {})
    /\ UNCHANGED <<waveVars, sup, pidVars, failing, unlisted, refused, kicks, faults>>

SpawnUnwaited(k) ==
    /\ kick[k].at = "spawn" /\ Up # Copy
    /\ LET s == Min(Copy \ Up)
       IN  sup' = [sup EXCEPT ![s].at = "boot"] /\ pidfile' = s
    /\ Goto(k, "read")
    /\ UNCHANGED <<waveVars, fresh, failing, unlisted, refused, kicks, faults, excuses>>

Spawn(k) ==
    /\ kick[k].at = "spawn" /\ Up # Copy
    /\ LET s == Min(Copy \ Up)
       IN  sup' = [sup EXCEPT ![s].at = "boot"] /\ pidfile' = s
    /\ Goto(k, "wait")
    /\ UNCHANGED <<waveVars, fresh, failing, unlisted, refused, kicks, faults, excuses>>

\* Any pid alive in the pidfile with any heartbeat that is fresh will do.
Wait(k) ==
    /\ kick[k].at = "wait"
    /\ \/ /\ SupervisorAlive
          /\ Goto(k, "read")
          /\ UNCHANGED <<pidfile, excuses>>
       \/ /\ ~SupervisorAlive                    \* 50 tries are over
          /\ pidfile' = None
          /\ Leave(k)
          /\ excuses' = excuses \cup {"twin"}
    /\ UNCHANGED <<waveVars, sup, fresh, failing, unlisted, refused, kicks, faults>>

ReadUnchecked(k) ==
    /\ kick[k].at = "read"
    /\ Goto(k, "write")
    /\ UNCHANGED <<waveVars, sup, pidVars, failing, unlisted, refused, kicks, faults, excuses>>

\* createWave looks for the wave before it awaits the snapshot: one that exists
\* has to be frozen in the very order asked for.
Read(k) ==
    LET w == kick[k].wave
    IN  /\ kick[k].at = "read"
        /\ IF phase[w] = "absent" THEN Goto(k, "write")
           ELSE IF frozen[w] = Asked[w] THEN Goto(k, "start")
           ELSE Leave(k)
        /\ excuses' = excuses \cup
               (IF \E j \in Kick \ {k} : kick[j] = [at |-> "write", wave |-> w] THEN {"creates"} ELSE {})
        /\ UNCHANGED <<waveVars, sup, pidVars, failing, unlisted, refused, kicks, faults>>

\* ... and puts it without looking again.
Write(k) ==
    LET w == kick[k].wave
    IN  /\ kick[k].at = "write"
        /\ Put(w, "draft")
        /\ frozen' = [frozen EXCEPT ![w] = TopologicalOrder(Asked[w])]
        /\ Goto(k, "start")
        /\ UNCHANGED <<pidVars, failing, unlisted, refused, kicks, faults, excuses>>

\* start freezes, starts and ticks; the kick exits while the wave runs.
Start(k) ==
    LET w == kick[k].wave
        began == IF phase[w] = "draft" THEN "idle" ELSE phase[w]
    IN  /\ kick[k].at = "start"
        /\ \E p \in Moves[began] : Put(w, p)
        /\ Leave(k)
        /\ UNCHANGED <<frozen, pidVars, failing, unlisted, refused, kicks, faults, excuses>>

KickStep(k) == Check(k) \/ Spawn(k) \/ Wait(k) \/ Read(k) \/ Write(k) \/ Start(k)

-----------------------------------------------------------------------------
(* A supervisor. *)

\* The last heartbeat, and the exit trap: it removes the pidfile whoever it names.
Exits(why) ==
    /\ pidfile' = None /\ fresh' = TRUE
    /\ excuses' = excuses \cup why

Boot(s) ==
    /\ sup[s].at = "boot"
    /\ sup' = [sup EXCEPT ![s] = [Down EXCEPT !.at = "cycle", !.todo = Ledger]]
    /\ pidfile' = s /\ fresh' = TRUE
    /\ UNCHANGED <<waveVars, kick, failing, unlisted, refused, kicks, faults, excuses>>

\* The next ledger of the cycle, past those without a live wave.
Due(s) == sup[s].todo \cap LiveLedgers
Ticking(s, l) == sup[s].at = "cycle" /\ Due(s) # {} /\ l = Min(Due(s))
Later(s, l) == {m \in sup[s].todo : m > l}

TickFails(s, l) ==
    /\ Ticking(s, l) /\ l \in failing
    /\ sup' = [sup EXCEPT ![s].todo = Later(s, l), ![s].failed = TRUE]
    /\ UNCHANGED <<waveVars, kick, pidVars, failing, unlisted, refused, kicks, faults, excuses>>

\* The live waves of l, which tick-all ticks and shows; what it may make of them.
LiveOn(l) == {w \in Wave : LedgerOf[w] = l /\ phase[w] \in Live}
Outcomes(l) ==
    {after \in [LiveOn(l) -> Live \cup {"over"}] : \A w \in LiveOn(l) :
        after[w] \in Moves[phase[w]] /\ (phase[w] # "draft" \/ after[w] = "draft" \/ w \in Eager)}

Changed(l, after) == \E w \in LiveOn(l) : after[w] # phase[w]
AllRunning(after) == \A w \in DOMAIN after : after[w] \in Running
Quiet(after) == \A w \in DOMAIN after : after[w] \in Running \ {"busy"}

CountUnmatched(s, l, after) ==
    IF Quiet(after) /\ ~Changed(l, after) THEN sup[s].stuck + 1 ELSE 0
CountWhileBusy(s, l, after) ==
    IF ~Quiet(after) /\ ~Changed(l, after) /\ sup[s].prev = l THEN sup[s].stuck + 1 ELSE 0

\* One count and one previous fingerprint serve all ledgers of a copy.
Count(s, l, after) ==
    IF Quiet(after) /\ ~Changed(l, after) /\ sup[s].prev = l THEN sup[s].stuck + 1 ELSE 0

Tick(s, l) ==
    /\ Ticking(s, l) /\ l \notin failing
    /\ \E after \in Outcomes(l) :
        LET n == Count(s, l, after)
            others == IF Changed(l, after) THEN Forget({l}) ELSE sup
        IN  /\ phase' = [w \in Wave |-> IF w \in LiveOn(l) THEN after[w] ELSE phase[w]]
            /\ still' = [still EXCEPT ![l] =
                            IF Changed(l, after) \/ ~Quiet(after) THEN 0
                            ELSE IF @ < StuckTicks THEN @ + 1 ELSE @]
            /\ \/ /\ n >= StuckTicks
                  /\ sup' = [others EXCEPT ![s] = Down]
                  /\ Exits({"lost"})
               \/ /\ n < StuckTicks
                  /\ sup' = [others EXCEPT ![s] =
                                [sup[s] EXCEPT !.todo = Later(s, l), !.ok = TRUE, !.stuck = n,
                                               !.prev = IF AllRunning(after) THEN l ELSE None]]
                  /\ UNCHANGED <<pidVars, excuses>>
    /\ UNCHANGED <<frozen, kick, failing, unlisted, refused, kicks, faults>>

\* A kick that trusts the supervisor, and has not started its wave yet.
Joining == \E k \in Kick : kick[k].at \in {"read", "write", "start"}

IdleOverLate(idle) == idle > IdleCycles
IdleOver(idle) == idle >= IdleCycles

\* The end of a cycle: the heartbeat, the stops, and the sleep before the next.
EndCycle(s) ==
    LET allFailed == sup[s].failed /\ ~sup[s].ok
        fails == IF allFailed THEN sup[s].fails + 1 ELSE 0
        idle == IF sup[s].failed \/ sup[s].ok THEN 0 ELSE sup[s].idle + 1
    IN  /\ sup[s].at = "cycle" /\ Due(s) = {}
        /\ \/ /\ fails >= FailLimit
              /\ sup' = [sup EXCEPT ![s] = Down]
              /\ Exits({"lost"})
           \/ /\ fails < FailLimit /\ IdleOver(idle)
              /\ sup' = [sup EXCEPT ![s] = Down]
              /\ Exits(IF Joining \/ LiveLedgers # {} THEN {"lost"} ELSE {})
           \/ /\ fails < FailLimit /\ ~IdleOver(idle)
              /\ sup' = [sup EXCEPT ![s].todo = Ledger, ![s].ok = FALSE, ![s].failed = FALSE,
                                    ![s].fails = fails, ![s].idle = idle]
              /\ fresh' = TRUE
              /\ UNCHANGED <<pidfile, excuses>>
        /\ UNCHANGED <<waveVars, kick, failing, unlisted, refused, kicks, faults>>

SupStep(s) ==
    \/ Boot(s) \/ EndCycle(s)
    \/ \E l \in Due(s) : TickFails(s, l) \/ Tick(s, l)

-----------------------------------------------------------------------------
(* The environment. *)

\* The heartbeat ages while no copy beats, or all that do are in a long tick.
Age ==
    /\ fresh
    /\ \A s \in Beating : Due(s) # {}
    /\ fresh' = FALSE
    /\ excuses' = excuses \cup (IF Up # {} THEN {"twin"} ELSE {})
    /\ UNCHANGED <<waveVars, kick, sup, pidfile, failing, unlisted, refused, kicks, faults>>

Fault == faults < MaxFaults /\ faults' = faults + 1

\* A ledger fails its tick, or the listing before it, which passes it over.
Fails(l) ==
    /\ Fault /\ l \in LiveLedgers \ failing
    /\ \/ failing' = failing \cup {l} /\ UNCHANGED unlisted
       \/ unlisted' = unlisted \cup {l} /\ UNCHANGED failing
    /\ UNCHANGED <<waveVars, kick, sup, pidVars, refused, kicks, excuses>>

\* A copy is killed, or exits at its first checks; a signal may run the trap.
Killed(s) ==
    /\ Fault /\ s \in Up
    /\ sup' = [sup EXCEPT ![s] = Down]
    /\ pidfile' \in IF s \in Beating THEN {pidfile, None} ELSE {pidfile}
    /\ excuses' = excuses \cup {"lost"}
    /\ UNCHANGED <<waveVars, kick, fresh, failing, unlisted, refused, kicks>>

KickDies(k) ==
    /\ Fault /\ kick[k].at # "off"
    /\ Leave(k)
    /\ excuses' = excuses \cup (IF kick[k].at \in {"spawn", "wait"} THEN {"twin"} ELSE {})
    /\ UNCHANGED <<waveVars, sup, pidVars, failing, unlisted, refused, kicks>>

-----------------------------------------------------------------------------
Next ==
    \/ \E k \in Kick : KickStep(k) \/ KickDies(k) \/ \E w \in Wave : Begin(k, w) \/ Refuse(k, w)
    \/ \E s \in Copy : SupStep(s) \/ Killed(s)
    \/ \E w \in Wave : Operate(w)
    \/ \E l \in Ledger : Fails(l)
    \/ Age

Spec == Init /\ [][Next]_vars

\* Weak fairness of the supervisors, WF_vars(\E s \in Copy : SupStep(s)), written out:
\* their step is enabled while one is up, and nothing else that is not a fault
\* moves one.  A kick may stop anywhere.
Moved(s) == [sup'[s] EXCEPT !.prev = None] # [sup[s] EXCEPT !.prev = None]
SupMoves == faults' = faults /\ \E s \in Up : Moved(s)

Fairness == []<>(Up = {}) \/ []<><<SupMoves>>_vars

FairSpec == Spec /\ Fairness

-----------------------------------------------------------------------------
(* Properties. *)

\* A wave is frozen from the whole selection, each ticket after those it depends
\* on, and a dependency left out was closed on the board (manifest.ts:98, 180).
FrozenInOrder ==
    \A w \in Wave : phase[w] # "absent" =>
        /\ ToSet(frozen[w]) = ToSet(Asked[w])
        /\ \A i \in DOMAIN frozen[w] : \A d \in DependsOn[frozen[w][i]] :
              Closed(d) \/ \E j \in 1..i - 1 : frozen[w][j] = d

\* Of the tickets the drain selects its kicks refuse only those whose last file differs
\* from the first in depends_on or verify, where the snapshot reads one and the selection
\* the other (markdown-tracker.ts:185, eligible-select.ts:37), and those with a plan worker
\* of no known name or too many launches, which the selection does not look at.
EligibleAccepted ==
    \A w \in refused : WellFormed(Asked[w]) =>
        \/ \E t \in ToSet(Asked[w]) : ~Eligible(t) \/ Disputed(t) \/ t \in StrangeWorker
        \/ ~(RequiredLaunches(Asked[w]) <= MaxLaunches)

\* Two supervisors tick only after the heartbeat aged under a living one, two
\* kicks met, or a kick gave up on the one it spawned (wave-supervisor.sh:3).
OneSupervisor ==
    Cardinality(Beating) > 1 => "twin" \in excuses

\* The stop for being stuck, of a count all ledgers share, blames a ledger that
\* has not changed for as many of its own ticks (wave-supervisor.sh:176).
StuckStopsHonestly ==
    [][\A s \in Copy :
        s \in Beating /\ Due(s) # {} /\ sup'[s].at = "down" /\ faults' = faults
            => still'[Min(Due(s))] >= StuckTicks]_vars

\* No kick puts a wave that was started back to its draft, unless two creates of
\* it overlapped (wave-create.ts:201, 226).
StartedStays ==
    [][\A w \in Wave :
        phase[w] \notin {"absent", "draft"} /\ phase'[w] = "draft" => "creates" \in excuses]_vars

\* A started wave whose tick works is ticked, unless its supervisor stopped, died
\* or went idle behind a kick's back (run-backlog-wave.sh:259).
Waiting(l) == l \notin failing \cup unlisted /\ \E w \in Wave : LedgerOf[w] = l /\ phase[w] = "idle"

LanesServed ==
    \A l \in Ledger : Waiting(l) ~> (~Waiting(l) \/ (Up = {} /\ "lost" \in excuses))

\* With at most one ledger live, and that one jammed or failing, no supervisor goes
\* on for ever (wave-supervisor.sh:175, 197, 204).
Hopeless ==
    /\ Cardinality(LiveLedgers) <= 1 /\ \A k \in Kick : kick[k].at = "off"
    /\ \A w \in Wave : phase[w] \in Live => phase[w] = "jammed" \/ LedgerOf[w] \in failing \cup unlisted

SupervisorEnds == Hopeless ~> (~Hopeless \/ Up = {})
=============================================================================
