--------------------------- MODULE CloseoutProofs ---------------------------
(***************************************************************************)
(* Closeout for every value of the constants: its types, that no work is    *)
(* lost, that every ticket follows RepoLanding, and that the fence read     *)
(* before a verification still holds when it commits.                       *)
(*                                                                         *)
(* CloseoutInv is the inductive invariant behind the first three.  NoLostWork *)
(* and the refinement speak of tickets only; they hold because each process *)
(* has a few tickets in hand whose status it may rely on through all the    *)
(* steps of a landing (HandOK).  Two processes have the same one only when  *)
(* a land-retry was given an apply ticket whose exhausted apply its wave's  *)
(* tick still tries: what each may do to the other is Gentle, and once one  *)
(* takes the ticket up while the other is between land lock and record, the *)
(* ticket is crowded, and no more is claimed of it than that its work is    *)
(* not lost (OneUnderLock).  The land lock itself plays no part: it lets    *)
(* the second process of the ticket through.                                *)
(*                                                                         *)
(* FenceInv is the one behind FenceSound: a file lock always goes with the  *)
(* lease of the same ticket, and a tick that observes holds both.           *)
(***************************************************************************)
EXTENDS Closeout, TLAPS

\* The steps on a job whose outcome is not recorded yet.
Unrecorded == {"close", "locked", "publish", "prune", "record"}

\* A ticket whose worker runs; one whose closeout is due; one a land-retry is given.
Working(t) == status[t] = "IMPLEMENTING" /\ worker[t] = "running"

Closing(t) ==
    /\ attempt[t] > 0
    /\ status[t] = "VERIFYING" \/ (Terminal(t) /\ Mode[t] = "apply")

Retried(t) ==
    /\ attempt[t] > 0
    /\ status[t] = "FAILED" \/ (Terminal(t) /\ Mode[t] = "apply")

\* The steps of each phase, and whose tickets it works on.
PlaceOK(p) ==
    /\ at[p].phase \in IF p.kind = "tick" THEN {"off", "observe", "closeout", "advance"}
                       ELSE {"off", "retry", "leaving"}
    /\ at[p].phase \in {"off", "leaving"} => at[p].step = "next" /\ at[p].todo = {}
    /\ at[p].phase = "observe" => at[p].step # "admit"
    /\ at[p].phase = "closeout" => at[p].step \notin {"settle", "close", "admit"}
    /\ at[p].phase = "advance" => at[p].step \in {"next", "admit"}
    /\ at[p].phase = "retry" => at[p].step \in Unrecorded \cup {"unlock"} /\ at[p].todo = {}
    /\ at[p].todo \subseteq TicketsOf(p.wave)
    /\ at[p].step = "next" => at[p].job = None
    /\ at[p].step # "next" => at[p].job \in TicketsOf(p.wave)
    /\ at[p].step # "next" /\ at[p].phase # "retry" => at[p].job \in at[p].todo

\* What a process relies on: the tickets its loop still has to take, and its job.
HandOK(p) ==
    /\ at[p].phase = "observe" => \A t \in at[p].todo \ {at[p].job} : Working(t)
    /\ at[p].step = "settle" => Working(at[p].job)
    /\ at[p].phase = "closeout" => \A t \in at[p].todo \ {at[p].job} : Closing(t)
    /\ at[p].phase = "advance" => \A t \in at[p].todo : status[t] = "APPROVED"
    /\ at[p].step \in Unrecorded =>
          IF p.kind = "tick" THEN Closing(at[p].job) ELSE Retried(at[p].job)
    /\ \A t \in Ticket \ crowded : UnderLandLock(p, t) => status[t] # "DONE"

\* How far the landing of the job has come, by the step of its process.
LandingOK(p) ==
    /\ at[p].step \in {"publish", "prune"} => at[p].job \in primary
    /\ at[p].step = "record" /\ at[p].result = "ok" => at[p].job \in primary
    /\ at[p].job \notin crowded =>
          /\ at[p].step = "publish" => at[p].job \notin proven
          /\ at[p].step = "prune" => at[p].job \in proven

ProcOK(p) == PlaceOK(p) /\ HandOK(p) /\ LandingOK(p)

\* What holds of a ticket in whosever hand it is.
BooksOK(t) ==
    /\ worker[t] # "none" <=> status[t] = "IMPLEMENTING"
    /\ status[t] \in {"IMPLEMENTING", "VERIFYING"} => attempt[t] > 0
    /\ status[t] = "APPROVED" => attempt[t] <= MaxRetries
    /\ attempt[t] > 0 /\ t \notin tree /\ worker[t] # "queued"
          => t \in primary /\ t \in proven \cup crowded
    /\ t \in proven \/ status[t] = "DONE" => t \in primary
    /\ t \in crowded => Terminal(t)

\* Of two processes that land the same ticket, the second has made it crowded.
OneUnderLock == \A p \in Proc, t \in Ticket :
    UnderLandLock(p, t) /\ Crowds(p, t) # {} => t \in crowded

CloseoutInv ==
    /\ \A p \in Proc : ProcOK(p)
    /\ \A t \in Ticket : BooksOK(t)
    /\ OneUnderLock

\* The tickets a process relies on; what it means that a step leaves one alone.
InHand(p) ==
    (at[p].todo \ {at[p].job})
    \cup (IF at[p].step \in Unrecorded \cup {"settle", "admit"} THEN {at[p].job} ELSE {})

Spares(t) ==
    /\ status'[t] = status[t] /\ worker'[t] = worker[t] /\ attempt'[t] = attempt[t]
    /\ t \in primary' <=> t \in primary
    /\ t \in proven' <=> t \in proven
    /\ t \in crowded' <=> t \in crowded

----------------------------------------------------------------------------
(* Types. *)

\* A process that is not running is at a place.
LEMMA OffPlace == Off \in Place
BY DEF Off, Place, Phase, Step

\* A step that moves p to a place leaves every process at one.
LEMMA GoType ==
    ASSUME TypeOK, NEW p \in Proc, NEW x \in Place, Go(p, x)
    PROVE  at' \in [Proc -> Place]
BY DEF TypeOK, Go

\* An await only changes the step of its process.
LEMMA AwaitType ==
    ASSUME TypeOK, NEW p \in Proc, NEW s \in Step, Await(p, s)
    PROVE  at' \in [Proc -> Place]
<1>1. at[p] \in Place
  BY DEF TypeOK
<1>2. [at[p] EXCEPT !.step = s] \in Place
  BY <1>1 DEF Place
<1> QED BY <1>2, GoType DEF Await

\* So does a process that is through with t.
LEMMA LeftType ==
    ASSUME TypeOK, NEW p \in Proc, NEW t
    PROVE  Left(p, t) \in Place
<1>1. at[p] \in Place
  BY DEF TypeOK
<1> QED BY <1>1 DEF Left, Off, Place, Phase, Step

\* Dropping rows keeps the types of leases and file locks.
LEMMA DroppedType ==
    ASSUME TypeOK, NEW rows, Dropped(rows)
    PROVE  /\ lease' \in [Resource -> Lease \cup {None}]
           /\ fileLock' \in [Scope -> FileLock \cup {None}]
BY DEF TypeOK, Dropped

\* The sweep of a tick (expireStaleLeases) refreshes leases or drops them.
LEMMA RefreshType ==
    ASSUME TypeOK, NEW p \in Proc, RefreshAndExpire(p)
    PROVE  /\ lease' \in [Resource -> Lease \cup {None}]
           /\ fileLock' \in [Scope -> FileLock \cup {None}]
<1>1. \A r \in Resource : lease[r] # None => lease[r].ticket \in Ticket
  BY DEF TypeOK, Lease
<1>2. \A t \in Ticket : Stamp(t, p) \in Lease /\ Stamp(t, p) \in FileLock
  BY DEF Stamp, Proc, Lease, FileLock, Kind
<1>3. \A r \in Refreshed(p) : r \in Resource /\ lease[r] # None
  BY DEF Refreshed, WeHold
<1>4. Scope \subseteq Resource
  BY DEF Resource
<1> QED BY <1>1, <1>2, <1>3, <1>4 DEF TypeOK, RefreshAndExpire

\* What a dead pid leaves behind keeps its type.
LEMMA DiesType ==
    ASSUME TypeOK, NEW p \in Proc, PidDies(p)
    PROVE  /\ lease' \in [Resource -> Lease \cup {None}]
           /\ fileLock' \in [Scope -> FileLock \cup {None}]
<1>1. \A r \in Resource : lease[r] # None => [lease[r] EXCEPT !.pid = "dead"] \in Lease
  BY DEF TypeOK, Lease
<1>2. \A r : WeHold(p, lease[r]) => lease[r] # None
  BY DEF WeHold
<1> QED BY <1>1, <1>2 DEF TypeOK, PidDies

\* A step leaves a place of the type a place has.
LEMMA PlaceType ==
    ASSUME TypeOK, NEW p \in Proc, Advance(p) \/ LandRetry(p) \/ Crash(p)
    PROVE  at' \in [Proc -> Place]
<1>0. at[p] \in Place /\ Off \in Place /\ at \in [Proc -> Place]
  BY OffPlace DEF TypeOK
<1>1. ASSUME NEW x \in Place, Go(p, x) PROVE at' \in [Proc -> Place]
  BY <1>0, <1>1 DEF Go
<1>2. \A t : Left(p, t) \in Place
  BY LeftType
<1>3. \A s \in Step : [at[p] EXCEPT !.step = s] \in Place
  BY <1>0 DEF Place
<1>4. CASE Dispatch(p) \/ EndObserve(p)
  <2>1. PICK ph \in Phase, work \in SUBSET Ticket : Go(p, [Off EXCEPT !.phase = ph, !.todo = work])
    BY <1>4 DEF Dispatch, EndObserve, Enter, Phase, TicketsOf
  <2>2. [Off EXCEPT !.phase = ph, !.todo = work] \in Place
    BY <1>0 DEF Place
  <2> QED BY <1>1, <2>1, <2>2
<1>5. CASE Observe(p)
  <2>1. PICK t \in at[p].todo, result \in {"ok", "failed", "fenced"} :
            Go(p, [at[p] EXCEPT !.job = t, !.step = "settle", !.result = result])
    BY <1>5 DEF Observe
  <2>2. [at[p] EXCEPT !.job = t, !.step = "settle", !.result = result] \in Place
    BY <1>0 DEF Place, Step
  <2> QED BY <1>1, <2>1, <2>2
<1>6. CASE \/ Settle(p) \/ FinishFromProof(p) \/ Defer(p) \/ NotDue(p) \/ Publish(p)
           \/ Integrate(p) \/ Record(p) \/ Unlock(p)
  <2>1. \/ \E t : Go(p, Left(p, t))
        \/ \E s \in Step : Go(p, [at[p] EXCEPT !.step = s])
        \/ Go(p, [at[p] EXCEPT !.step = "record", !.result = "failed"])
    BY <1>6 DEF Settle, FinishFromProof, Defer, NotDue, Publish, Prove, Integrate, FailWith, Record,
                Unlock, Await, Step
  <2>2. [at[p] EXCEPT !.step = "record", !.result = "failed"] \in Place
    BY <1>0 DEF Place, Step
  <2> QED BY <1>1, <1>2, <1>3, <2>1, <2>2
<1>7. CASE TakeLandLock(p)
  <2>1. PICK t \in WantsLandLock(p) :
            Go(p, [at[p] EXCEPT !.step = "locked", !.job = t, !.doneOnOk = ~Exhausted(p, t)])
    BY <1>7 DEF TakeLandLock
  <2>2. t \in Ticket \cup {None}
    BY <1>0 DEF WantsLandLock, Turn, Job, Place
  <2>3. Exhausted(p, t) \in BOOLEAN
    BY DEF Exhausted
  <2>4. [at[p] EXCEPT !.step = "locked", !.job = t, !.doneOnOk = ~Exhausted(p, t)] \in Place
    BY <1>0, <2>2, <2>3 DEF Place, Step
  <2> QED BY <1>1, <2>1, <2>4
<1>8. CASE SkipApply(p) \/ Prune(p)
  <2>1. [at[p] EXCEPT !.step = "record", !.result = "ok"] \in Place
    BY <1>0 DEF Place, Step
  <2> QED BY <1>1, <1>8, <2>1 DEF SkipApply, Prune
<1>9. CASE EndCloseout(p)
  <2> DEFINE T == {t \in TicketsOf(p.wave) : status[t] = "APPROVED"}
             i == \A t \in TicketsOf(p.wave) : worker[t] = "none"
  <2>1. T \subseteq Ticket /\ i \in BOOLEAN
    BY DEF TicketsOf
  <2>2. Go(p, [Off EXCEPT !.phase = "advance", !.todo = T, !.idle = i])
    BY <1>9 DEF EndCloseout
  <2> HIDE DEF T, i
  <2>3. [Off EXCEPT !.phase = "advance", !.todo = T, !.idle = i] \in Place
    BY <1>0, <2>1 DEF Place, Phase
  <2> QED BY <1>1, <2>2, <2>3
<1>10. CASE CheckScope(p)
  <2>1. PICK t \in at[p].todo : \/ Go(p, [at[p] EXCEPT !.todo = at[p].todo \ {t}])
                                \/ Go(p, [at[p] EXCEPT !.job = t, !.step = "admit"])
    BY <1>10 DEF CheckScope
  <2>2. [at[p] EXCEPT !.todo = at[p].todo \ {t}] \in Place
    BY <1>0 DEF Place
  <2>3. [at[p] EXCEPT !.job = t, !.step = "admit"] \in Place
    BY <1>0 DEF Place, Step
  <2> QED BY <1>1, <2>1, <2>2, <2>3
<1>11. CASE Admit(p) \/ NotAdmitted(p)
  <2>1. \/ Go(p, Queued(p)) \/ Go(p, Off) \/ Go(p, [Off EXCEPT !.phase = "advance"])
    BY <1>11 DEF Admit, NotAdmitted, Exit
  <2>2. {u \in at[p].todo : ScopeOf[u] # ScopeOf[Job(p)]} \subseteq Ticket
    BY <1>0 DEF Place
  <2>3. Queued(p) \in Place
    BY <1>0, <2>2 DEF Queued, Place, Step
  <2>4. [Off EXCEPT !.phase = "advance"] \in Place
    BY <1>0 DEF Place, Phase
  <2> QED BY <1>0, <1>1, <2>1, <2>3, <2>4
<1>12. CASE LandRetry(p)
  <2>1. PICK t \in RetryTickets :
            Go(p, [Off EXCEPT !.phase = "retry", !.step = "close", !.job = t])
    BY <1>12 DEF LandRetry
  <2>2. [Off EXCEPT !.phase = "retry", !.step = "close", !.job = t] \in Place
    BY <1>0, CloseoutAssumption DEF Place, Phase, Step
  <2> QED BY <1>1, <2>1, <2>2
<1>13. CASE EndTick(p) \/ LeaveRetry(p) \/ Crash(p)
  BY <1>0, <1>1, <1>13 DEF EndTick, LeaveRetry, Crash, Exit
<1> QED BY <1>4, <1>5, <1>6, <1>7, <1>8, <1>9, <1>10, <1>11, <1>12, <1>13
        DEF Advance, TickStep, JobStep

\* A step leaves leases and file locks of their types.
LEMMA LocksType ==
    ASSUME TypeOK, CloseoutInv, NEW p \in Proc, Advance(p) \/ LandRetry(p) \/ Crash(p)
    PROVE  /\ lease' \in [Resource -> Lease \cup {None}]
           /\ fileLock' \in [Scope -> FileLock \cup {None}]
<1>0. lease \in [Resource -> Lease \cup {None}] /\ fileLock \in [Scope -> FileLock \cup {None}]
  BY DEF TypeOK
<1>1. CASE UNCHANGED lockVars
  BY <1>0, <1>1 DEF lockVars
<1>2. CASE RefreshAndExpire(p)
  BY <1>2, RefreshType
<1>3. CASE \E rows : Dropped(rows)
  BY <1>3, DroppedType
<1>4. CASE PidDies(p)
  BY <1>4, DiesType
<1>5. \A t \in Ticket : Stamp(t, p) \in Lease /\ Stamp(t, p) \in FileLock
  BY DEF Stamp, Proc, Lease, FileLock, Kind
<1>6. CASE TakeLandLock(p)
  <2>1. \A t \in WantsLandLock(p) : t \in Ticket
    <3>1. at[p].job # None => at[p].job \in Ticket
      BY DEF TypeOK, Place
    <3>2. at[p].step # "next" => at[p].job \in TicketsOf(p.wave)
      BY DEF CloseoutInv, ProcOK, PlaceOK
    <3>3. at[p].todo \subseteq Ticket
      BY DEF TypeOK, Place
    <3> QED BY <3>1, <3>2, <3>3 DEF WantsLandLock, Turn, Doing, Job, TicketsOf
  <2> QED BY <1>0, <1>5, <1>6, <2>1 DEF TakeLandLock
<1>7. CASE Admit(p)
  <2>1. Job(p) \in Ticket
    BY <1>7 DEF CloseoutInv, ProcOK, PlaceOK, Admit, Doing, Job, TicketsOf
  <2> QED BY <1>0, <1>5, <1>7, <2>1 DEF Admit
<1>8. CASE LandRetry(p)
  <2>1. PICK t \in RetryTickets :
            /\ lease' = [lease EXCEPT ![ScopeOf[t]] = Stamp(t, p)]
            /\ fileLock' = [fileLock EXCEPT ![ScopeOf[t]] = Stamp(t, p)]
    BY <1>8 DEF LandRetry
  <2>2. t \in Ticket
    BY CloseoutAssumption
  <2> QED BY <1>0, <1>5, <2>1, <2>2
<1>9. CASE Settle(p) \/ FinishFromProof(p) \/ Unlock(p) \/ EndCloseout(p)
  BY <1>3, <1>9 DEF Settle, FinishFromProof, Unlock, EndCloseout
<1>10. CASE CheckScope(p)
  BY <1>1, <1>3, <1>10 DEF CheckScope
<1>11. CASE NotAdmitted(p) \/ EndTick(p) \/ LeaveRetry(p) \/ Crash(p)
  BY <1>1, <1>4, <1>11 DEF NotAdmitted, EndTick, LeaveRetry, Crash, Exit
<1>12. CASE \/ Observe(p) \/ EndObserve(p) \/ Defer(p) \/ NotDue(p) \/ SkipApply(p)
            \/ Integrate(p) \/ Publish(p) \/ Prune(p) \/ Record(p)
  BY <1>1, <1>12 DEF Observe, EndObserve, Defer, NotDue, SkipApply, Integrate, Publish, Prune, Record
<1> QED BY <1>2, <1>6, <1>7, <1>8, <1>9, <1>10, <1>11, <1>12
        DEF Advance, TickStep, JobStep, Dispatch

\* Only a tick that advances its tickets admits one, and that one is APPROVED.
LEMMA AdmitPlace ==
    ASSUME CloseoutInv, NEW p \in Proc, at[p].step = "admit"
    PROVE  /\ at[p].phase = "advance" /\ p.kind = "tick" /\ at[p].job \in at[p].todo
           /\ at[p].job \in TicketsOf(p.wave) /\ status[at[p].job] = "APPROVED"
<1>1. PlaceOK(p) /\ HandOK(p)
  BY DEF CloseoutInv, ProcOK
<1>2. at[p].phase = "advance" /\ p.kind = "tick"
  BY <1>1 DEF PlaceOK, Unrecorded
<1> QED BY <1>1, <1>2 DEF PlaceOK, HandOK

\* A step leaves the tickets and the repository of their types.
LEMMA TicketsType ==
    ASSUME TypeOK, CloseoutInv, NEW p \in Proc, Advance(p) \/ LandRetry(p) \/ Crash(p)
    PROVE  /\ status' \in [Ticket -> TicketStatus]
           /\ attempt' \in [Ticket -> 0..(MaxRetries + 1)]
           /\ worker' \in [Ticket -> WorkerState]
           /\ applied' \subseteq Ticket /\ tree' \subseteq Ticket /\ primary' \subseteq Ticket
           /\ intruded' \subseteq Ticket /\ crowded' \subseteq Ticket /\ over' \subseteq Wave
           /\ proven' \subseteq Ticket
           /\ faults' \in 0..MaxFaults
<1> USE DEF TypeOK
<1>1. CASE UNCHANGED <<ticketVars, repoVars, faults>>
  BY <1>1 DEF ticketVars, repoVars
<1>2. p.wave \in Wave /\ TicketsOf(p.wave) \subseteq Ticket
  BY DEF Proc, TicketsOf
<1>3. at[p].step # "next" => Job(p) \in Ticket
  BY DEF CloseoutInv, ProcOK, PlaceOK, Job, TicketsOf
<1>4. \A t \in Turn(p) \cup Reads(p) : t \in Ticket
  BY <1>3 DEF Turn, Reads, Doing, Place
<1>5. CASE Dispatch(p)
  BY <1>2, <1>5 DEF Dispatch, WorkerState
<1>6. CASE Settle(p)
  <2>1. Settled(p, Job(p)) \in TicketStatus
    BY DEF Settled, TicketStatus
  <2> QED BY <1>6, <2>1 DEF Settle, repoVars, WorkerState
<1>7. CASE FinishFromProof(p) \/ TakeLandLock(p)
  <2>1. \A t \in Reads(p) \cup WantsLandLock(p) : Crowds(p, t) \subseteq Ticket
    BY <1>4 DEF Crowds, WantsLandLock
  <2>2. crowded' \subseteq Ticket
    BY <1>7, <2>1 DEF FinishFromProof, TakeLandLock
  <2> QED BY <1>7, <2>2 DEF FinishFromProof, TakeLandLock, SetStatus, repoVars, TicketStatus
<1>8. CASE Integrate(p) \/ Publish(p) \/ Prune(p)
  BY <1>3, <1>8 DEF Integrate, MayIntegrate, Merge, CopyFiles, Publish, Prune, FailWith, Prove, Doing,
                    ticketVars
<1>9. CASE Record(p)
  BY <1>3, <1>9 DEF Record, Doing, repoVars, TicketStatus
<1>10. CASE Admit(p)
  <2>1. attempt[Job(p)] <= MaxRetries
    BY <1>3, <1>10, AdmitPlace DEF Admit, Doing, Job, CloseoutInv, BooksOK
  <2>2. attempt[Job(p)] + 1 \in 0..(MaxRetries + 1)
    <3>1. attempt[Job(p)] \in 0..(MaxRetries + 1)
      BY <1>3, <1>10 DEF Admit, Doing
    <3> QED BY <2>1, <3>1, CloseoutAssumption
  <2>3. attempt' = [attempt EXCEPT ![Job(p)] = attempt[Job(p)] + 1]
    BY <1>10 DEF Admit
  <2>4. attempt' \in [Ticket -> 0..(MaxRetries + 1)]
    BY <2>2, <2>3
  <2>5. /\ faults' = faults /\ applied' = applied /\ over' = over /\ crowded' = crowded
        /\ UNCHANGED repoVars
    BY <1>10 DEF Admit
  <2>6. status' \in [Ticket -> TicketStatus] /\ worker' \in [Ticket -> WorkerState]
    BY <1>10 DEF Admit, TicketStatus, WorkerState
  <2>7. intruded' \subseteq Ticket
    BY <1>10 DEF Admit
  <2> QED BY <2>4, <2>5, <2>6, <2>7 DEF repoVars
<1>11. CASE EndTick(p)
  BY <1>2, <1>11 DEF EndTick, repoVars, TicketStatus
<1>12. CASE LandRetry(p) \/ Crash(p)
  <2>1. faults < MaxFaults /\ faults' = faults + 1 /\ UNCHANGED <<ticketVars, repoVars>>
    BY <1>12 DEF LandRetry, Crash
  <2>2. faults' \in 0..MaxFaults
    BY <2>1, CloseoutAssumption
  <2> QED BY <2>1, <2>2 DEF ticketVars, repoVars
<1>13. CASE \/ Observe(p) \/ EndObserve(p) \/ Defer(p) \/ NotDue(p) \/ SkipApply(p)
            \/ Unlock(p) \/ EndCloseout(p) \/ CheckScope(p) \/ NotAdmitted(p) \/ LeaveRetry(p)
  <2>1. UNCHANGED <<ticketVars, repoVars, faults>>
    BY <1>13 DEF Observe, EndObserve, Defer, NotDue, SkipApply, Unlock, EndCloseout,
                 CheckScope, NotAdmitted, LeaveRetry
  <2> QED BY <1>1, <2>1
<1> QED BY <1>5, <1>6, <1>7, <1>8, <1>9, <1>10, <1>11, <1>12, <1>13
        DEF Advance, TickStep, JobStep

\* Every step preserves TypeOK.
LEMMA StepType ==
    ASSUME TypeOK, CloseoutInv, [Next]_vars
    PROVE  TypeOK'
<1>1. CASE UNCHANGED vars
  BY <1>1 DEF TypeOK, vars, ticketVars, repoVars, lockVars
<1>2. CASE Next
  BY <1>2, PlaceType, LocksType, TicketsType DEF TypeOK, Next
<1> QED BY <1>1, <1>2

----------------------------------------------------------------------------
(* Whose tickets a step may touch. *)

\* In hand are tickets of the wave, with the status of the loop they are in.
LEMMA HandStatus ==
    ASSUME TypeOK, CloseoutInv, NEW p \in Proc, NEW t \in InHand(p)
    PROVE  /\ t \in Ticket /\ WaveOf[t] = p.wave
           /\ IF p.kind = "tick" THEN Working(t) \/ Closing(t) \/ status[t] = "APPROVED"
              ELSE Retried(t) /\ t = at[p].job
<1>1. PlaceOK(p) /\ HandOK(p) /\ p.kind \in {"tick", "retry"}
  BY DEF CloseoutInv, ProcOK, Proc
<1>2. t \in TicketsOf(p.wave)
  BY <1>1 DEF PlaceOK, InHand, Unrecorded
<1>3. CASE p.kind = "tick"
  BY <1>1, <1>2, <1>3, AdmitPlace DEF PlaceOK, HandOK, InHand, TicketsOf, Unrecorded
<1>4. CASE p.kind = "retry"
  BY <1>1, <1>2, <1>4 DEF PlaceOK, HandOK, InHand, TicketsOf, Unrecorded
<1> QED BY <1>1, <1>3, <1>4

\* Two ticks are of different waves, so that a ticket which two processes have in hand
\* is an apply ticket, and over.
LEMMA Exclusive ==
    ASSUME TypeOK, CloseoutInv, NEW p \in Proc, NEW q \in Proc \ {p}, NEW t \in InHand(q)
    PROVE  /\ t \in InHand(p) => Terminal(t) /\ Mode[t] = "apply"
           /\ p.kind = "tick" /\ WaveOf[t] = p.wave => Terminal(t)
<1>1. t \in Ticket /\ WaveOf[t] = q.wave
  BY HandStatus
<1>2. p.wave = q.wave => p.kind # q.kind
  BY DEF Proc
<1>3. p.kind \in {"tick", "retry"} /\ q.kind \in {"tick", "retry"}
  BY DEF Proc
<1>4. Retried(t) => Terminal(t)
  BY DEF Retried, Terminal
<1>5. Retried(t) /\ (Working(t) \/ Closing(t) \/ status[t] = "APPROVED") => Mode[t] = "apply"
  BY DEF Working, Closing, Retried, Terminal
<1>6. CASE p.kind = "tick" /\ q.kind = "retry"
  BY <1>4, <1>5, <1>6, HandStatus
<1>7. CASE p.kind = "retry" /\ q.kind = "tick"
  BY <1>4, <1>5, <1>7, HandStatus
<1>8. CASE p.kind = q.kind
  <2>1. WaveOf[t] # p.wave
    BY <1>1, <1>2, <1>8
  <2>2. t \notin InHand(p)
    BY <2>1, HandStatus
  <2> QED BY <2>1, <2>2
<1> QED BY <1>3, <1>6, <1>7, <1>8

\* What a process may do to a ticket that is over and that it shares: leave it over, and
\* its work where it is; if the other one is at its landing, the ticket is crowded.
Gentle(p, t) ==
    /\ Terminal(t)' /\ worker'[t] = worker[t] /\ attempt'[t] = attempt[t]
    /\ t \in primary => t \in primary'
    /\ t \in crowded => t \in crowded'
    /\ Crowds(p, t) # {} => t \in crowded' \/ Spares(t)

\* A step touches its process's tickets only, or what a tick may: what is not over.
Touches(p) == \A t \in Ticket :
    \/ Spares(t)
    \/ t \in InHand(p) /\ (Terminal(t) => Gentle(p, t))
    \/ p.kind = "tick" /\ WaveOf[t] = p.wave /\ ~Terminal(t)

\* Who takes a ticket up that another one is landing has made it crowded.
Meets(p) == \A t \in Ticket :
    UnderLandLock(p, t)' => UnderLandLock(p, t) \/ Crowds(p, t) \subseteq crowded'

\* The ticket of a landing is in hand.
LEMMA LandingInHand ==
    ASSUME TypeOK, CloseoutInv, NEW q \in Proc, NEW t, UnderLandLock(q, t)
    PROVE  t \in InHand(q) /\ t \in Ticket /\ t = at[q].job
<1>1. t \in InHand(q) /\ t = at[q].job
  BY DEF UnderLandLock, InHand, Job, Unrecorded
<1> QED BY <1>1, HandStatus

\* A ticket becomes crowded while it is FAILED.
LEMMA Crowding ==
    ASSUME TypeOK, CloseoutInv, NEW p \in Proc, NEW t \in InHand(p), Crowds(p, t) # {}
    PROVE  Crowds(p, t) = {t} /\ Terminal(t) /\ (t \notin crowded => status[t] = "FAILED")
<1>1. PICK q \in Proc \ {p} : UnderLandLock(q, t)
  BY DEF Crowds
<1>2. t \in InHand(q) /\ t \in Ticket
  BY <1>1, LandingInHand
<1>3. Terminal(t)
  BY <1>2, Exclusive
<1>4. t \notin crowded => status[t] # "DONE"
  BY <1>1, <1>2 DEF CloseoutInv, ProcOK, HandOK
<1>5. Crowds(p, t) = {t}
  BY <1>1 DEF Crowds
<1> QED BY <1>3, <1>4, <1>5 DEF Terminal

\* No step undoes what is crowded.
LEMMA CrowdedStays ==
    ASSUME TypeOK, CloseoutInv, NEW p \in Proc, Touches(p)
    PROVE  crowded \subseteq crowded'
<1>1. ASSUME NEW t \in crowded PROVE t \in crowded'
  <2>1. t \in Ticket
    BY DEF TypeOK
  <2>2. Terminal(t)
    BY <2>1 DEF CloseoutInv, BooksOK
  <2> QED BY <2>1, <2>2 DEF Touches, Spares, Gentle
<1> QED BY <1>1

\* Such a step disturbs no other process.
LEMMA OthersKeep ==
    ASSUME TypeOK, CloseoutInv, NEW p \in Proc, Touches(p), NEW q \in Proc \ {p}, at'[q] = at[q]
    PROVE  ProcOK(q)'
<1>1. ProcOK(q) /\ q \in Proc
  BY DEF CloseoutInv
<1>2. \A t \in InHand(q) :
         t \in Ticket /\ (Spares(t) \/ (Terminal(t) /\ Mode[t] = "apply" /\ Gentle(p, t)))
  BY Exclusive, HandStatus DEF Touches
<1>3. PlaceOK(q)'
  BY <1>1 DEF ProcOK, PlaceOK
<1>4. \A t \in InHand(q) : /\ Working(t) => Working(t)'
                           /\ Closing(t) => Closing(t)'
                           /\ Retried(t) => Retried(t)'
                           /\ status[t] = "APPROVED" => status'[t] = "APPROVED"
  <2> SUFFICES ASSUME NEW t \in InHand(q)
               PROVE  /\ Working(t) => Working(t)'
                      /\ Closing(t) => Closing(t)'
                      /\ Retried(t) => Retried(t)'
                      /\ status[t] = "APPROVED" => status'[t] = "APPROVED"
    OBVIOUS
  <2>1. CASE Spares(t)
    BY <2>1 DEF Spares, Terminal, Working, Closing, Retried
  <2>2. CASE Terminal(t) /\ Mode[t] = "apply" /\ Gentle(p, t)
    <3>1. Terminal(t)' /\ attempt'[t] = attempt[t] /\ Terminal(t)
      BY <2>2 DEF Gentle
    <3> QED BY <2>2, <3>1 DEF Terminal, Working, Closing, Retried
  <2> QED BY <1>2, <2>1, <2>2
<1>5. at[q].phase = "advance" => at[q].step \in {"next", "admit"}
  BY <1>1 DEF ProcOK, PlaceOK
<1>6. \A t \in Ticket : UnderLandLock(q, t)' <=> UnderLandLock(q, t)
  BY DEF UnderLandLock, Job
<1>7. \A t \in Ticket \ crowded' : UnderLandLock(q, t) => t \in InHand(q) /\ Spares(t)
  <2> SUFFICES ASSUME NEW t \in Ticket \ crowded', UnderLandLock(q, t)
               PROVE  t \in InHand(q) /\ Spares(t)
    OBVIOUS
  <2>1. t \in InHand(q) /\ Crowds(p, t) # {}
    BY LandingInHand DEF Crowds
  <2> QED BY <1>2, <2>1 DEF Gentle
<1>8. HandOK(q)'
  <2>1. at[q].phase = "advance" => at[q].todo \subseteq InHand(q)
    <3>1. at[q].step = "next" => at[q].job \notin at[q].todo
      BY <1>1, CloseoutAssumption DEF ProcOK, PlaceOK, TicketsOf
    <3> QED BY <1>5, <3>1 DEF InHand
  <2>2. at[q].step \in Unrecorded \cup {"settle"} => at[q].job \in InHand(q)
    BY DEF InHand
  <2>3. at[q].todo \ {at[q].job} \subseteq InHand(q)
    BY DEF InHand
  <2>4. HandOK(q)
    BY <1>1 DEF ProcOK
  <2>5. \A t \in Ticket \ crowded' : UnderLandLock(q, t)' => status'[t] # "DONE"
    BY <1>6, <1>7, <2>4 DEF HandOK, Spares
  <2> QED BY <1>4, <2>1, <2>2, <2>3, <2>4, <2>5 DEF HandOK
<1>9. LandingOK(q)'
  <2>1. CASE at[q].step \in {"publish", "prune", "record"}
    <3>1. PICK t : t = at[q].job
      OBVIOUS
    <3>2. UnderLandLock(q, t) /\ t \in InHand(q) /\ t \in Ticket
      BY <1>2, <2>1, <3>1 DEF UnderLandLock, InHand, Unrecorded, Job
    <3>3. t \in primary => t \in primary'
      BY <1>2, <3>2 DEF Spares, Gentle
    <3>4. t \notin crowded' => t \notin crowded /\ (t \in proven' <=> t \in proven)
      BY <1>7, <3>2 DEF Spares
    <3> QED BY <1>1, <3>1, <3>3, <3>4 DEF ProcOK, LandingOK
  <2>2. CASE at[q].step \notin {"publish", "prune", "record"}
    BY <2>2 DEF LandingOK
  <2> QED BY <2>1, <2>2
<1> QED BY <1>3, <1>8, <1>9 DEF ProcOK

\* So a step keeps CloseoutInv if it keeps its process and the books, and counts whom it
\* meets.
LEMMA InvFromOwn ==
    ASSUME TypeOK, CloseoutInv, NEW p \in Proc, NEW x, Go(p, x), Touches(p), Meets(p), ProcOK(p)',
           \A t \in Ticket : BooksOK(t)'
    PROVE  CloseoutInv'
<1>1. \A q \in Proc \ {p} : at'[q] = at[q]
  BY DEF Go, TypeOK
<1>2. \A q \in Proc \ {p} : ProcOK(q)'
  BY <1>1, OthersKeep
<1>3. \A q \in Proc \ {p}, t \in Ticket : UnderLandLock(q, t)' <=> UnderLandLock(q, t)
  BY <1>1 DEF UnderLandLock, Job
<1>4. ASSUME NEW q \in Proc, NEW r \in Proc \ {q}, NEW t \in Ticket,
             UnderLandLock(q, t)', UnderLandLock(r, t)'
      PROVE  t \in crowded'
  <2>1. ASSUME NEW u \in Proc \ {p}, UnderLandLock(u, t), UnderLandLock(p, t)' PROVE t \in crowded'
    <3>1. Crowds(p, t) = {t}
      BY <2>1 DEF Crowds
    <3>2. UnderLandLock(p, t) => t \in crowded
      BY <3>1 DEF CloseoutInv, OneUnderLock
    <3> QED BY <2>1, <3>1, <3>2, CrowdedStays DEF Meets
  <2>2. CASE q # p /\ r # p
    <3>1. UnderLandLock(q, t) /\ UnderLandLock(r, t)
      BY <1>3, <1>4, <2>2
    <3>2. Crowds(q, t) # {}
      BY <3>1 DEF Crowds
    <3> QED BY <3>1, <3>2, CrowdedStays DEF CloseoutInv, OneUnderLock
  <2> QED BY <1>3, <1>4, <2>1, <2>2
<1>5. OneUnderLock'
  BY <1>4 DEF OneUnderLock, Crowds
<1> QED BY <1>2, <1>5 DEF CloseoutInv

\* A step that does not take a ticket up meets nobody.
LEMMA MeetsNone ==
    ASSUME NEW p \in Proc,
           \/ at'[p].step \notin {"locked", "publish", "prune", "record"}
           \/ /\ at[p].step \in {"locked", "publish", "prune", "record"}
              /\ at'[p].job = at[p].job
    PROVE  Meets(p)
BY DEF Meets, UnderLandLock, Job

\* Nor does one that changes no ticket disturb anybody.
LEMMA TouchesNone ==
    ASSUME TypeOK, CloseoutInv, NEW p \in Proc,
           UNCHANGED <<status, attempt, worker, proven, primary, crowded, tree>>
    PROVE  Touches(p) /\ (\A t \in Ticket : Spares(t)) /\ \A t \in Ticket : BooksOK(t)'
BY DEF Touches, Spares, CloseoutInv, BooksOK, Terminal

----------------------------------------------------------------------------
(* What a step leaves of its own process, and of the books. *)

\* Where p is after it moved.
LEMMA NewPlace ==
    ASSUME TypeOK, NEW p \in Proc, NEW x, Go(p, x)
    PROVE  at'[p] = x
BY DEF TypeOK, Go

\* A ticket that is left alone, its worktree too, keeps its books.
LEMMA BooksKept ==
    ASSUME NEW t \in Ticket, BooksOK(t), Spares(t), t \in tree => t \in tree'
    PROVE  BooksOK(t)'
BY DEF BooksOK, Spares, Terminal

\* A process that is off, leaving, or at the beginning of a loop of nothing.
LEMMA IdleOK ==
    ASSUME TypeOK, NEW p \in Proc,
           NEW ph, ph = IF p.kind = "tick" THEN "advance" ELSE "leaving",
           Go(p, Off) \/ Go(p, [Off EXCEPT !.phase = ph])
    PROVE  ProcOK(p)' /\ Meets(p)
<1>1. /\ at'[p].phase \in {"off", ph} /\ at'[p].step = "next" /\ at'[p].todo = {}
      /\ at'[p].job = None
  BY NewPlace DEF Off
<1>2. PlaceOK(p)'
  BY <1>1 DEF PlaceOK, TicketsOf
<1>3. HandOK(p)' /\ LandingOK(p)'
  BY <1>1 DEF HandOK, LandingOK, Unrecorded, UnderLandLock
<1> QED BY <1>1, <1>2, <1>3, MeetsNone DEF ProcOK

\* A job that is done with: a land-retry leaves, a tick has the rest of its loop.
LEMMA LeftOK ==
    ASSUME TypeOK, CloseoutInv, NEW p \in Proc, NEW t,
           \/ at[p].step \notin {"next", "admit"} /\ t = at[p].job
           \/ at[p].step = "next" /\ at[p].phase = "closeout" /\ t \in at[p].todo,
           \A u \in at[p].todo \ {t} : Spares(u),
           Go(p, Left(p, t))
    PROVE  ProcOK(p)' /\ Meets(p)
<1>1. PlaceOK(p) /\ HandOK(p)
  BY DEF CloseoutInv, ProcOK
<1>2. CASE p.kind = "retry"
  BY <1>2, IdleOK DEF Left
<1>3. CASE p.kind = "tick"
  <2>1. /\ at'[p].phase = at[p].phase /\ at'[p].todo = at[p].todo \ {t}
        /\ at'[p].step = "next" /\ at'[p].job = None
    <3>1. at'[p] = Left(p, t)
      BY NewPlace
    <3>2. Left(p, t) = [Off EXCEPT !.phase = at[p].phase, !.todo = at[p].todo \ {t}]
      BY <1>3 DEF Left
    <3> QED BY <3>1, <3>2 DEF Off
  <2>2. at[p].phase \in {"observe", "closeout"}
    BY <1>1, <1>3 DEF PlaceOK
  <2>3. PlaceOK(p)'
    BY <1>1, <1>3, <2>1, <2>2 DEF PlaceOK
  <2>4. \A u \in at[p].todo \ {t} : u # at[p].job
    BY <1>1, CloseoutAssumption DEF PlaceOK, TicketsOf
  <2>5. HandOK(p)' /\ LandingOK(p)'
    BY <1>1, <2>1, <2>2, <2>4
       DEF HandOK, LandingOK, Unrecorded, UnderLandLock, Working, Closing, Terminal, Spares
  <2> QED BY <2>1, <2>3, <2>5, MeetsNone DEF ProcOK
<1> QED BY <1>2, <1>3 DEF Proc

\* The next step of a job whose closeout goes on.
LEMMA AwaitOK ==
    ASSUME TypeOK, CloseoutInv, NEW p \in Proc,
           at[p].step \notin {"next", "admit"},
           at'[p].phase = at[p].phase, at'[p].todo = at[p].todo, at'[p].job = at[p].job,
           \/ at'[p].step = "close" /\ at[p].phase = "observe"
           \/ at'[p].step \in {"locked", "publish", "prune", "record", "unlock"},
           \A u \in at[p].todo \ {at[p].job} : Spares(u),
           at'[p].step # "unlock" => IF p.kind = "tick" THEN Closing(at[p].job)'
                                     ELSE Retried(at[p].job)',
           \A t \in Ticket \ crowded' : UnderLandLock(p, t)' => status'[t] # "DONE",
           LandingOK(p)'
    PROVE  ProcOK(p)'
<1>1. PlaceOK(p) /\ HandOK(p)
  BY DEF CloseoutInv, ProcOK
<1>2. PlaceOK(p)'
  BY <1>1 DEF PlaceOK, Unrecorded
<1>3. HandOK(p)'
  <2>1. at[p].phase # "advance"
    BY <1>1 DEF PlaceOK
  <2> QED BY <1>1, <2>1 DEF HandOK, Unrecorded, Working, Closing, Retried, Terminal, Spares
<1> QED BY <1>2, <1>3 DEF ProcOK

----------------------------------------------------------------------------
(* CloseoutInv, action by action. *)

\* A tick observes tickets whose worker runs.
LEMMA DispatchInv ==
    ASSUME TypeOK, CloseoutInv, NEW p \in Proc, Dispatch(p)
    PROVE  CloseoutInv'
<1>1. PICK ended \in SUBSET {t \in TicketsOf(p.wave) : worker'[t] = "running"} :
          Go(p, [Off EXCEPT !.phase = "observe", !.todo = ended])
  BY DEF Dispatch, Enter
<1>2. p.kind = "tick" /\ UNCHANGED <<status, attempt, proven, primary, crowded>>
  BY DEF Dispatch
<1>3. /\ at'[p].phase = "observe" /\ at'[p].step = "next" /\ at'[p].todo = ended
      /\ at'[p].job = None
  <2>1. at'[p] = [Off EXCEPT !.phase = "observe", !.todo = ended]
    BY <1>1, NewPlace
  <2> QED BY <2>1 DEF Off
<1>4. \A t \in Ticket : BooksOK(t)
  BY DEF CloseoutInv
<1>5. \A t \in Ticket : /\ worker'[t] # worker[t] => worker[t] = "queued" /\ WaveOf[t] = p.wave
                        /\ worker'[t] = "running" <=>
                              worker[t] = "running" \/ worker'[t] # worker[t]
                        /\ t \in tree \/ worker'[t] # worker[t] => t \in tree'
                        /\ worker'[t] = "queued" => worker[t] = "queued"
  BY DEF Dispatch, TicketsOf, TypeOK
<1>6. Touches(p)
  BY <1>2, <1>4, <1>5 DEF Touches, Spares, BooksOK, Terminal
<1>7. \A t \in Ticket : BooksOK(t)'
  BY <1>2, <1>4, <1>5 DEF BooksOK, Terminal
<1>8. \A t \in ended : t \in Ticket /\ WaveOf[t] = p.wave /\ worker'[t] = "running"
  BY DEF TicketsOf
<1>9. \A t \in ended : Working(t)'
  BY <1>2, <1>4, <1>5, <1>8 DEF Working, BooksOK
<1>10. PlaceOK(p)'
  BY <1>2, <1>3, <1>8 DEF PlaceOK, TicketsOf
<1>11. HandOK(p)' /\ LandingOK(p)'
  BY <1>3, <1>9 DEF HandOK, LandingOK, Unrecorded, UnderLandLock
<1> QED BY <1>1, <1>3, <1>6, <1>7, <1>10, <1>11, MeetsNone, InvFromOwn DEF ProcOK

\* Observing takes one of them in hand.
LEMMA ObserveInv ==
    ASSUME TypeOK, CloseoutInv, NEW p \in Proc, Observe(p)
    PROVE  CloseoutInv'
<1>1. PICK t \in at[p].todo, result \in {"ok", "failed", "fenced"} :
          Go(p, [at[p] EXCEPT !.job = t, !.step = "settle", !.result = result])
  BY DEF Observe
<1>2. /\ at[p].phase = "observe" /\ at[p].step = "next" /\ at[p] \in Place
      /\ UNCHANGED <<status, attempt, worker, proven, primary, crowded, tree>>
  BY DEF Observe, Doing, ticketVars, repoVars, TypeOK
<1>3. /\ at'[p].phase = "observe" /\ at'[p].step = "settle" /\ at'[p].todo = at[p].todo
      /\ at'[p].job = t
  <2>1. at'[p] = [at[p] EXCEPT !.job = t, !.step = "settle", !.result = result]
    BY <1>1, NewPlace
  <2> QED BY <1>2, <2>1 DEF Place
<1>4. PlaceOK(p) /\ HandOK(p)
  BY DEF CloseoutInv, ProcOK
<1>5. Touches(p) /\ \A u \in Ticket : BooksOK(u)'
  BY <1>2, TouchesNone
<1>6. PlaceOK(p)'
  BY <1>2, <1>3, <1>4 DEF PlaceOK
<1>7. \A u \in at[p].todo : Working(u)'
  <2>1. at[p].job \notin at[p].todo
    BY <1>2, <1>4, CloseoutAssumption DEF PlaceOK, TicketsOf
  <2> QED BY <1>2, <1>4, <2>1 DEF HandOK, Working
<1>8. HandOK(p)' /\ LandingOK(p)'
  BY <1>3, <1>7 DEF HandOK, LandingOK, Unrecorded, UnderLandLock
<1> QED BY <1>1, <1>3, <1>5, <1>6, <1>8, MeetsNone, InvFromOwn DEF ProcOK

\* A settled ticket is verified and next to close out, or no longer in hand.
LEMMA SettleInv ==
    ASSUME TypeOK, CloseoutInv, NEW p \in Proc, Settle(p)
    PROVE  CloseoutInv'
<1>0. PICK t, st : t = Job(p) /\ st = Settled(p, t)
  OBVIOUS
<1>1. /\ status' = [status EXCEPT ![t] = st] /\ worker' = [worker EXCEPT ![t] = "none"]
      /\ IF st = "VERIFYING" \/ (st = "FAILED" /\ Mode[t] = "apply")
         THEN Await(p, "close") ELSE Go(p, Left(p, t))
      /\ UNCHANGED <<attempt, proven, primary, crowded, tree>>
      /\ at[p].step = "settle"
  BY <1>0 DEF Settle, Doing, repoVars
<1>2. PlaceOK(p) /\ HandOK(p)
  BY DEF CloseoutInv, ProcOK
<1>3. at[p].phase = "observe" /\ p.kind = "tick" /\ t \in Ticket /\ t \in at[p].todo
  BY <1>0, <1>1, <1>2 DEF PlaceOK, Unrecorded, Job, TicketsOf
<1>4. Working(t) /\ BooksOK(t) /\ attempt[t] > 0
  BY <1>0, <1>1, <1>2, <1>3 DEF HandOK, Job, CloseoutInv, BooksOK, Working
<1>5. t \in InHand(p)
  BY <1>0, <1>1 DEF InHand, Job
<1>6. \A u \in Ticket \ {t} : Spares(u)
  BY <1>1 DEF Spares, TypeOK
<1>7. Touches(p)
  BY <1>4, <1>5, <1>6 DEF Touches, Working, Terminal
<1>8. status'[t] = st /\ worker'[t] = "none"
  BY <1>1, <1>3 DEF TypeOK
<1>9. /\ st \in {"VERIFYING", "APPROVED", "FAILED"}
      /\ st = "APPROVED" => attempt[t] - 1 < MaxRetries
  BY <1>0 DEF Settled
<1>10. BooksOK(t)'
  <2>1. attempt[t] \in Nat /\ MaxRetries \in Nat
    BY <1>3, CloseoutAssumption DEF TypeOK
  <2>2. st = "APPROVED" => attempt[t] <= MaxRetries
    BY <1>9, <2>1
  <2> QED BY <1>1, <1>4, <1>8, <1>9, <2>2 DEF BooksOK, Working, Terminal
<1>11. \A u \in Ticket : BooksOK(u)'
  BY <1>1, <1>6, <1>10, BooksKept DEF CloseoutInv
<1>12. at[p].todo \subseteq Ticket
  BY DEF TypeOK, Place
<1>13. CASE Await(p, "close") /\ (st = "VERIFYING" \/ (st = "FAILED" /\ Mode[t] = "apply"))
  <2>1. at[p] \in Place
    BY DEF TypeOK
  <2>2. /\ at'[p].phase = at[p].phase /\ at'[p].todo = at[p].todo /\ at'[p].job = at[p].job
        /\ at'[p].step = "close"
    BY <1>13, <2>1, NewPlace DEF Await, Place
  <2>3. Closing(t)'
    BY <1>1, <1>4, <1>8, <1>13 DEF Closing, Terminal
  <2>4. ProcOK(p)'
    BY <1>0, <1>1, <1>3, <1>6, <1>12, <2>2, <2>3, AwaitOK DEF Job, LandingOK, UnderLandLock
  <2> QED BY <1>7, <1>11, <1>13, <2>2, <2>4, MeetsNone, InvFromOwn DEF Await
<1>14. CASE Go(p, Left(p, t))
  <2>1. ProcOK(p)' /\ Meets(p)
    BY <1>0, <1>1, <1>6, <1>12, <1>14, LeftOK DEF Job
  <2> QED BY <1>7, <1>11, <1>14, <2>1, InvFromOwn
<1> QED BY <1>1, <1>13, <1>14

\* The tickets of the closeout loop are those due when it starts.
LEMMA EndObserveInv ==
    ASSUME TypeOK, CloseoutInv, NEW p \in Proc, EndObserve(p)
    PROVE  CloseoutInv'
<1> DEFINE T == {t \in TicketsOf(p.wave) :
                    \/ status[t] = "VERIFYING"
                    \/ status[t] = "FAILED" /\ Mode[t] = "apply" /\ t \notin applied /\ attempt[t] > 0}
<1>1. /\ Go(p, [Off EXCEPT !.phase = "closeout", !.todo = T]) /\ at[p].phase = "observe"
      /\ UNCHANGED <<status, attempt, worker, proven, primary, crowded, tree>>
  BY DEF EndObserve, Enter, ticketVars, repoVars
<1>2. PlaceOK(p)
  BY DEF CloseoutInv, ProcOK
<1>3. Touches(p) /\ \A u \in Ticket : BooksOK(u)'
  BY <1>1, TouchesNone
<1>4. /\ at'[p].phase = "closeout" /\ at'[p].step = "next" /\ at'[p].todo = T
      /\ at'[p].job = None
  <2>1. at'[p] = [Off EXCEPT !.phase = "closeout", !.todo = T]
    BY <1>1, NewPlace
  <2> QED BY <2>1 DEF Off
<1>5. T \subseteq TicketsOf(p.wave) /\ \A t \in T : Closing(t)'
  BY <1>1 DEF Closing, Terminal, CloseoutInv, BooksOK, TicketsOf
<1> HIDE DEF T
<1>6. PlaceOK(p)' /\ HandOK(p)' /\ LandingOK(p)'
  BY <1>1, <1>2, <1>4, <1>5 DEF PlaceOK, HandOK, LandingOK, Unrecorded, UnderLandLock
<1> QED BY <1>1, <1>3, <1>4, <1>6, MeetsNone, InvFromOwn DEF ProcOK

\* A ticket whose closeout goes on, or is about to begin, is over as an IMPL.
LEMMA JobInHand ==
    ASSUME TypeOK, CloseoutInv, NEW p \in Proc,
           NEW t, \/ at[p].step \in Unrecorded /\ t = at[p].job
                  \/ at[p].step = "next" /\ at[p].phase = "closeout" /\ t \in at[p].todo
    PROVE  /\ t \in Ticket /\ t \in InHand(p) /\ WaveOf[t] = p.wave
           /\ IF p.kind = "tick" THEN Closing(t) ELSE Retried(t)
           /\ attempt[t] > 0 /\ worker[t] = "none" /\ (status[t] = "VERIFYING" \/ Terminal(t))
<1>1. PlaceOK(p) /\ HandOK(p) /\ p.kind \in {"tick", "retry"}
  BY DEF CloseoutInv, ProcOK, Proc
<1>2. t \in Ticket /\ t \in InHand(p) /\ WaveOf[t] = p.wave
  BY <1>1, CloseoutAssumption DEF PlaceOK, InHand, TicketsOf, Unrecorded
<1>3. IF p.kind = "tick" THEN Closing(t) ELSE Retried(t)
  BY <1>1, <1>2, CloseoutAssumption DEF PlaceOK, HandOK, TicketsOf
<1> QED BY <1>2, <1>3 DEF Closing, Retried, Terminal, CloseoutInv, BooksOK

\* The same, of the tickets a process may begin with or reads under the lock.
LEMMA TurnInHand ==
    ASSUME TypeOK, CloseoutInv, NEW p \in Proc, NEW t \in Turn(p) \cup Reads(p)
    PROVE  /\ \/ at[p].step \in Unrecorded /\ t = at[p].job
              \/ at[p].step = "next" /\ at[p].phase = "closeout" /\ t \in at[p].todo
           /\ Doing(p, "locked") /\ t \in Reads(p) => t = at[p].job
BY DEF Turn, Reads, Doing, Job, Unrecorded

\* A ticket finished from its proof has its work on the primary checkout.
LEMMA FinishInv ==
    ASSUME TypeOK, CloseoutInv, NEW p \in Proc, FinishFromProof(p)
    PROVE  CloseoutInv'
<1>1. PICK t \in Reads(p) :
        /\ Finished(t)
        /\ status' = [status EXCEPT ![t] = "DONE"]
        /\ IF Doing(p, "locked") THEN Await(p, "unlock") ELSE Go(p, Left(p, t))
        /\ crowded' = crowded \cup Crowds(p, t)
        /\ UNCHANGED <<attempt, worker, proven, primary, tree>>
  BY DEF FinishFromProof, SetStatus, repoVars
<1>2. /\ t \in Ticket /\ t \in InHand(p) /\ worker[t] = "none"
      /\ \/ at[p].step \in Unrecorded /\ t = at[p].job
         \/ at[p].step = "next" /\ at[p].phase = "closeout" /\ t \in at[p].todo
  BY TurnInHand, JobInHand
<1>3. status'[t] = "DONE" /\ Crowds(p, t) \subseteq {t} /\ \A u \in Ticket \ {t} : Spares(u)
  BY <1>1, <1>2 DEF Spares, TypeOK, Crowds
<1>4. Touches(p)
  <2>1. Crowds(p, t) # {} => t \in crowded'
    BY <1>1, <1>3
  <2>2. Gentle(p, t)
    BY <1>1, <1>3, <2>1 DEF Gentle, Terminal
  <2> QED BY <1>2, <1>3, <2>2 DEF Touches
<1>5. BooksOK(t)'
  <2>1. t \in primary
    BY <1>1, <1>2 DEF Finished, CloseoutInv, BooksOK
  <2> QED BY <1>1, <1>2, <1>3, <2>1 DEF CloseoutInv, BooksOK, Terminal
<1>6. \A u \in Ticket : BooksOK(u)'
  BY <1>1, <1>3, <1>5, BooksKept DEF CloseoutInv
<1>7. at[p] \in Place /\ at[p].todo \subseteq Ticket
  BY DEF TypeOK, Place
<1>8. CASE Doing(p, "locked") /\ Await(p, "unlock")
  <2>1. /\ at'[p].phase = at[p].phase /\ at'[p].todo = at[p].todo /\ at'[p].job = at[p].job
        /\ at'[p].step = "unlock"
    BY <1>7, <1>8, NewPlace DEF Await, Place
  <2>2. t = at[p].job /\ at[p].step = "locked"
    BY <1>8, TurnInHand DEF Doing
  <2>3. ProcOK(p)' /\ Meets(p)
    BY <1>3, <1>7, <2>1, <2>2, AwaitOK, MeetsNone DEF LandingOK, UnderLandLock
  <2> QED BY <1>4, <1>6, <1>8, <2>3, InvFromOwn DEF Await
<1>9. CASE Go(p, Left(p, t))
  <2>1. ProcOK(p)' /\ Meets(p)
    BY <1>2, <1>3, <1>7, <1>9, LeftOK DEF Unrecorded
  <2> QED BY <1>4, <1>6, <1>9, <2>1, InvFromOwn
<1> QED BY <1>1, <1>8, <1>9

\* Deferring changes no ticket, nor does an exhausted apply that is no longer due.
LEMMA DeferInv ==
    ASSUME TypeOK, CloseoutInv, NEW p \in Proc, Defer(p) \/ NotDue(p)
    PROVE  CloseoutInv'
<1>1. UNCHANGED <<status, attempt, worker, proven, primary, crowded, tree>>
  BY DEF Defer, NotDue, ticketVars, repoVars
<1>2. Touches(p) /\ (\A u \in Ticket : Spares(u)) /\ \A u \in Ticket : BooksOK(u)'
  BY <1>1, TouchesNone
<1>3. at[p] \in Place /\ at[p].todo \subseteq Ticket
  BY DEF TypeOK, Place
<1>4. CASE Defer(p)
  <2>1. PICK t \in WantsLandLock(p) : Go(p, Left(p, t))
    BY <1>4 DEF Defer
  <2>2. \/ at[p].step \in Unrecorded /\ t = at[p].job
        \/ at[p].step = "next" /\ at[p].phase = "closeout" /\ t \in at[p].todo
    BY TurnInHand DEF WantsLandLock
  <2>3. ProcOK(p)' /\ Meets(p)
    BY <1>2, <1>3, <2>1, <2>2, LeftOK DEF Unrecorded
  <2> QED BY <1>2, <2>1, <2>3, InvFromOwn
<1>5. CASE NotDue(p)
  <2>1. at[p].step = "locked" /\ Await(p, "unlock")
    BY <1>5 DEF NotDue, Doing
  <2>2. /\ at'[p].phase = at[p].phase /\ at'[p].todo = at[p].todo /\ at'[p].job = at[p].job
        /\ at'[p].step = "unlock"
    BY <1>3, <2>1, NewPlace DEF Await, Place
  <2>3. ProcOK(p)' /\ Meets(p)
    BY <1>2, <1>3, <2>1, <2>2, AwaitOK, MeetsNone DEF LandingOK, UnderLandLock
  <2> QED BY <1>2, <2>1, <2>3, InvFromOwn DEF Await
<1> QED BY <1>4, <1>5

\* Taking the land lock changes no ticket, but counts who has it already for this one.
LEMMA LandLockInv ==
    ASSUME TypeOK, CloseoutInv, NEW p \in Proc, TakeLandLock(p)
    PROVE  CloseoutInv'
<1>1. PICK t \in WantsLandLock(p), b \in BOOLEAN :
        /\ Go(p, [at[p] EXCEPT !.step = "locked", !.job = t, !.doneOnOk = b])
        /\ crowded' = crowded \cup Crowds(p, t)
        /\ UNCHANGED <<status, attempt, worker, proven, primary, tree>>
  BY DEF TakeLandLock, Exhausted, repoVars
<1>2. at[p] \in Place /\ at[p].todo \subseteq Ticket
  BY DEF TypeOK, Place
<1>3. /\ t \in Ticket /\ t \in InHand(p) /\ (IF p.kind = "tick" THEN Closing(t) ELSE Retried(t))
      /\ WaveOf[t] = p.wave
      /\ \/ at[p].step \in Unrecorded /\ t = at[p].job
         \/ at[p].step = "next" /\ at[p].phase = "closeout" /\ t \in at[p].todo
  BY TurnInHand, JobInHand DEF WantsLandLock
<1>4. Crowds(p, t) \subseteq {t} /\ \A u \in Ticket \ {t} : Spares(u)
  BY <1>1 DEF Crowds, Spares
<1>5. Crowds(p, t) # {} => t \in crowded' /\ Terminal(t)
  BY <1>1, <1>3, Crowding
<1>6. Touches(p)
  BY <1>1, <1>3, <1>4, <1>5 DEF Touches, Gentle, Terminal
<1>7. BooksOK(t)'
  BY <1>1, <1>3, <1>4, <1>5 DEF CloseoutInv, BooksOK, Terminal
<1>8. \A u \in Ticket : BooksOK(u)'
  BY <1>1, <1>4, <1>7, BooksKept DEF CloseoutInv
<1>9. /\ at'[p].phase = at[p].phase /\ at'[p].todo = at[p].todo /\ at'[p].job = t
      /\ at'[p].step = "locked"
  <2>1. at'[p] = [at[p] EXCEPT !.step = "locked", !.job = t, !.doneOnOk = b]
    BY <1>1, NewPlace
  <2> QED BY <1>2, <2>1 DEF Place
<1>10. Meets(p)
  BY <1>1, <1>9 DEF Meets, UnderLandLock, Job
<1>11. status'[t] # "DONE"
  BY <1>1 DEF WantsLandLock, Exhausted, Finished
<1>12. IF p.kind = "tick" THEN Closing(t)' ELSE Retried(t)'
  BY <1>1, <1>3 DEF Closing, Retried, Terminal
<1>13. PlaceOK(p) /\ HandOK(p)
  BY DEF CloseoutInv, ProcOK
<1>14. CASE at[p].step \in Unrecorded /\ t = at[p].job
  <2>1. ProcOK(p)'
    BY <1>2, <1>4, <1>9, <1>11, <1>12, <1>14, AwaitOK DEF LandingOK, Unrecorded, UnderLandLock, Job
  <2> QED BY <1>1, <1>6, <1>8, <1>10, <2>1, InvFromOwn
<1>15. CASE at[p].step = "next" /\ at[p].phase = "closeout" /\ t \in at[p].todo
  <2>1. PlaceOK(p)'
    BY <1>3, <1>9, <1>13, <1>15 DEF PlaceOK, Unrecorded, TicketsOf
  <2>2. at[p].job \notin at[p].todo
    BY <1>13, <1>15, CloseoutAssumption DEF PlaceOK, TicketsOf
  <2>3. \A u \in at[p].todo : Closing(u)'
    BY <1>1, <1>13, <1>15, <2>2 DEF HandOK, Closing, Terminal
  <2>4. HandOK(p)' /\ LandingOK(p)'
    BY <1>9, <1>11, <1>12, <1>15, <2>3 DEF HandOK, LandingOK, Unrecorded, UnderLandLock, Job
  <2> QED BY <1>1, <1>6, <1>8, <1>10, <2>1, <2>4, InvFromOwn DEF ProcOK
<1> QED BY <1>3, <1>14, <1>15

\* The next step of a landing, and what it leaves of the place but the result.
Onward(p, s) ==
    /\ at'[p].phase = at[p].phase /\ at'[p].todo = at[p].todo /\ at'[p].job = at[p].job
    /\ at'[p].step = s

\* A step of a landing that names its next step goes there with the same ticket.
LEMMA Onwards ==
    ASSUME TypeOK, NEW p \in Proc, NEW s, NEW r,
           \/ Go(p, [at[p] EXCEPT !.step = s])
           \/ Go(p, [at[p] EXCEPT !.step = s, !.result = r])
    PROVE  Onward(p, s) /\ at'[p].result \in {at[p].result, r} /\ (\E x : Go(p, x))
<1>1. at[p] \in Place
  BY DEF TypeOK
<1>2. CASE Go(p, [at[p] EXCEPT !.step = s])
  BY <1>1, <1>2, NewPlace DEF Onward, Place
<1>3. CASE Go(p, [at[p] EXCEPT !.step = s, !.result = r])
  <2>1. at'[p] = [at[p] EXCEPT !.step = s, !.result = r]
    BY <1>3, NewPlace
  <2> QED BY <1>1, <1>3, <2>1 DEF Onward, Place
<1> QED BY <1>2, <1>3

\* Integrate, publish and prune keep CloseoutInv if the job's books are kept.
LEMMA LandingStep ==
    ASSUME TypeOK, CloseoutInv, NEW p \in Proc, NEW j, j = at[p].job,
           at[p].step \in {"locked", "publish", "prune"},
           NEW s \in {"publish", "prune", "record"}, Onward(p, s), \E x : Go(p, x),
           UNCHANGED <<status, attempt, worker, crowded>>,
           \A u \in Ticket \ {j} : /\ u \in primary' <=> u \in primary
                                   /\ u \in proven' <=> u \in proven
                                   /\ u \in tree => u \in tree',
           LandingOK(p)',
           j \in primary => j \in primary',
           j \in proven' => j \in primary',
           j \notin tree' => j \in primary' /\ j \in proven' \cup crowded
    PROVE  CloseoutInv'
<1>1. /\ j \in Ticket /\ j \in InHand(p) /\ worker[j] = "none"
      /\ IF p.kind = "tick" THEN Closing(j) ELSE Retried(j)
  BY JobInHand DEF Unrecorded
<1>2. Crowds(p, j) # {} => j \in crowded
  BY <1>1 DEF CloseoutInv, OneUnderLock, UnderLandLock, Job
<1>3. (\A u \in Ticket \ {j} : Spares(u)) /\ Touches(p)
  BY <1>1, <1>2 DEF Spares, Touches, Gentle, Terminal
<1>4. BooksOK(j)'
  BY <1>1 DEF CloseoutInv, BooksOK, Terminal
<1>5. \A u \in Ticket : BooksOK(u)'
  BY <1>3, <1>4, BooksKept DEF CloseoutInv
<1>6. IF p.kind = "tick" THEN Closing(j)' ELSE Retried(j)'
  BY <1>1 DEF Closing, Retried, Terminal
<1>7. at[p].todo \subseteq Ticket
  BY DEF TypeOK, Place
<1>8. \A t \in Ticket \ crowded' : UnderLandLock(p, t)' => status'[t] # "DONE"
  BY DEF CloseoutInv, ProcOK, HandOK, UnderLandLock, Onward, Job
<1>9. ProcOK(p)' /\ Meets(p)
  BY <1>3, <1>6, <1>7, <1>8, AwaitOK, MeetsNone DEF Onward
<1> QED BY <1>3, <1>5, <1>9, InvFromOwn

\* Work that was integrated is on the primary checkout before its proof is written.
LEMMA IntegrateInv ==
    ASSUME TypeOK, CloseoutInv, NEW p \in Proc, SkipApply(p) \/ Integrate(p)
    PROVE  CloseoutInv'
<1>0. PICK j : j = at[p].job
  OBVIOUS
<1>1. at[p].step = "locked" /\ UNCHANGED <<status, attempt, worker, crowded, tree>>
  BY DEF SkipApply, Integrate, MayIntegrate, Doing, ticketVars, repoVars
<1>2. j \in Ticket /\ attempt[j] > 0 /\ worker[j] = "none" /\ BooksOK(j)
  BY <1>0, <1>1, JobInHand DEF Unrecorded, CloseoutInv
<1>3. \A s : Onward(p, s) => at'[p].job = j
  BY <1>0 DEF Onward
<1>4. CASE SkipApply(p)
  <2>1. /\ Go(p, [at[p] EXCEPT !.step = "record", !.result = "ok"]) /\ j \in proven
        /\ UNCHANGED <<proven, primary>>
    BY <1>0, <1>4 DEF SkipApply, Job, repoVars
  <2>2. Onward(p, "record") /\ \E x : Go(p, x)
    BY <2>1, Onwards
  <2>3. LandingOK(p)'
    BY <1>2, <1>3, <2>1, <2>2 DEF LandingOK, Onward, BooksOK
  <2> QED BY <1>0, <1>1, <1>2, <2>1, <2>2, <2>3, LandingStep DEF BooksOK
<1>5. CASE Integrate(p)
  <2>1. j \notin proven /\ (j \notin tree => j \in primary /\ j \in crowded)
    BY <1>0, <1>2, <1>5 DEF Integrate, MayIntegrate, Job, BooksOK
  <2>2. CASE (Merge(p) \/ CopyFiles(p)) /\ Await(p, "publish") /\ UNCHANGED proven
    <3>1. primary' = primary \cup {j}
      BY <1>0, <2>1, <2>2 DEF Merge, CopyFiles, Job
    <3>2. Onward(p, "publish") /\ \E x : Go(p, x)
      BY <2>2, Onwards DEF Await
    <3>3. LandingOK(p)'
      BY <1>3, <2>1, <2>2, <3>1, <3>2 DEF LandingOK, Onward
    <3> QED BY <1>0, <1>1, <2>1, <2>2, <3>1, <3>2, <3>3, LandingStep
  <2>3. CASE FailWith(p) /\ UNCHANGED primary
    <3>1. proven' = proven \ {j} /\ Go(p, [at[p] EXCEPT !.step = "record", !.result = "failed"])
      BY <1>0, <2>3 DEF FailWith, Job
    <3>2. Onward(p, "record") /\ \E x : Go(p, x)
      BY <3>1, Onwards
    <3>3. at'[p].result = "failed"
      <4>1. at[p] \in Place /\ at'[p] = [at[p] EXCEPT !.step = "record", !.result = "failed"]
        BY <3>1, NewPlace DEF TypeOK
      <4> QED BY <4>1 DEF Place
    <3>4. LandingOK(p)'
      BY <3>2, <3>3 DEF LandingOK, Onward
    <3> QED BY <1>0, <1>1, <2>1, <2>3, <3>1, <3>2, <3>4, LandingStep
  <2> QED BY <1>5, <2>2, <2>3 DEF Integrate
<1> QED BY <1>4, <1>5

\* The proof comes before the worktree goes.
LEMMA PublishInv ==
    ASSUME TypeOK, CloseoutInv, NEW p \in Proc, Publish(p) \/ Prune(p)
    PROVE  CloseoutInv'
<1>0. PICK j : j = at[p].job
  OBVIOUS
<1>1. UNCHANGED <<status, attempt, worker, primary, crowded>> /\ at[p].step \in {"publish", "prune"}
  BY DEF Publish, Prune, Doing, ticketVars
<1>2. j \in Ticket /\ attempt[j] > 0 /\ worker[j] = "none" /\ BooksOK(j)
  BY <1>0, <1>1, JobInHand DEF Unrecorded, CloseoutInv
<1>3. \A s : Onward(p, s) => at'[p].job = j
  BY <1>0 DEF Onward
<1>4. LandingOK(p)
  BY DEF CloseoutInv, ProcOK
<1>5. CASE Publish(p)
  <2>1. j \in primary /\ (j \in proven => j \in crowded) /\ tree' = tree
    BY <1>0, <1>4, <1>5 DEF LandingOK, Publish, Doing
  <2>2. CASE Prove(p)
    <3>1. proven' = proven \cup {j} /\ Onward(p, "prune") /\ \E x : Go(p, x)
      BY <1>0, <2>2, Onwards DEF Prove, Await, Job
    <3>2. LandingOK(p)'
      BY <1>3, <1>1, <2>1, <3>1 DEF LandingOK, Onward
    <3> QED BY <1>0, <1>1, <1>2, <2>1, <3>1, <3>2, LandingStep DEF BooksOK
  <2>3. CASE FailWith(p)
    <3>1. proven' = proven \ {j} /\ Go(p, [at[p] EXCEPT !.step = "record", !.result = "failed"])
      BY <1>0, <2>3 DEF FailWith, Job
    <3>2. Onward(p, "record") /\ \E x : Go(p, x)
      BY <3>1, Onwards
    <3>3. LandingOK(p)'
      BY <1>1, <1>3, <2>1, <3>2 DEF LandingOK, Onward
    <3> QED BY <1>0, <1>1, <1>2, <2>1, <3>1, <3>2, <3>3, LandingStep DEF BooksOK
  <2> QED BY <1>5, <2>2, <2>3 DEF Publish
<1>6. CASE Prune(p)
  <2>1. /\ j \in proven \cup crowded /\ j \in primary /\ tree' = tree \ {j} /\ proven' = proven
        /\ Go(p, [at[p] EXCEPT !.step = "record", !.result = "ok"])
    BY <1>0, <1>2, <1>4, <1>6 DEF LandingOK, Prune, Doing, Job, BooksOK
  <2>2. Onward(p, "record") /\ \E x : Go(p, x)
    BY <2>1, Onwards
  <2>3. LandingOK(p)'
    BY <1>1, <1>3, <2>1, <2>2 DEF LandingOK, Onward
  <2> QED BY <1>0, <1>1, <2>1, <2>2, <2>3, LandingStep
<1> QED BY <1>5, <1>6

\* DONE is recorded for work that is on the primary checkout.
LEMMA RecordInv ==
    ASSUME TypeOK, CloseoutInv, NEW p \in Proc, Record(p)
    PROVE  CloseoutInv'
<1>0. PICK j : j = at[p].job
  OBVIOUS
<1>1. /\ at[p].step = "record" /\ Await(p, "unlock")
      /\ UNCHANGED <<attempt, worker, tree, primary, proven, crowded>>
  BY DEF Record, Doing, repoVars
<1>2. /\ j \in Ticket /\ j \in InHand(p) /\ attempt[j] > 0 /\ worker[j] = "none" /\ BooksOK(j)
  BY <1>0, <1>1, JobInHand DEF Unrecorded, CloseoutInv
<1>3. /\ status'[j] \in {"DONE", "FAILED"} /\ \A u \in Ticket \ {j} : status'[u] = status[u]
      /\ status'[j] = "DONE" => at[p].result = "ok"
  BY <1>0, <1>2 DEF Record, Job, TypeOK
<1>4. Crowds(p, j) # {} => j \in crowded
  BY <1>0, <1>1, <1>2 DEF CloseoutInv, OneUnderLock, UnderLandLock, Job
<1>5. (\A u \in Ticket \ {j} : Spares(u)) /\ Touches(p)
  BY <1>1, <1>2, <1>3, <1>4 DEF Spares, Touches, Gentle, Terminal
<1>6. status'[j] = "DONE" => j \in primary
  BY <1>0, <1>1, <1>3 DEF CloseoutInv, ProcOK, LandingOK
<1>7. BooksOK(j)'
  BY <1>1, <1>2, <1>3, <1>6 DEF BooksOK, Terminal
<1>8. \A u \in Ticket : BooksOK(u)'
  BY <1>1, <1>5, <1>7, BooksKept DEF CloseoutInv
<1>9. Onward(p, "unlock") /\ at[p].todo \subseteq Ticket
  BY <1>1, Onwards DEF Await, TypeOK, Place
<1>10. ProcOK(p)' /\ Meets(p)
  BY <1>0, <1>1, <1>5, <1>9, AwaitOK, MeetsNone DEF Onward, LandingOK, UnderLandLock
<1> QED BY <1>1, <1>5, <1>8, <1>10, InvFromOwn DEF Await

\* Giving the land lock back lets go of the ticket.
LEMMA UnlockInv ==
    ASSUME TypeOK, CloseoutInv, NEW p \in Proc, Unlock(p)
    PROVE  CloseoutInv'
<1>1. /\ at[p].step = "unlock" /\ UNCHANGED <<status, attempt, worker, tree, primary, proven, crowded>>
      /\ Go(p, Left(p, at[p].job))
  BY DEF Unlock, Doing, Job, ticketVars, repoVars
<1>2. Touches(p) /\ (\A u \in Ticket : Spares(u)) /\ \A u \in Ticket : BooksOK(u)'
  BY <1>1, TouchesNone
<1>3. at[p].todo \subseteq Ticket
  BY DEF TypeOK, Place
<1>4. ProcOK(p)' /\ Meets(p)
  BY <1>1, <1>2, <1>3, LeftOK
<1> QED BY <1>1, <1>2, <1>4, InvFromOwn

\* The tickets a tick may queue are the APPROVED ones of its wave.
LEMMA EndCloseoutInv ==
    ASSUME TypeOK, CloseoutInv, NEW p \in Proc, EndCloseout(p)
    PROVE  CloseoutInv'
<1>1. PICK T, i : /\ Go(p, [Off EXCEPT !.phase = "advance", !.todo = T, !.idle = i])
                  /\ T = {t \in TicketsOf(p.wave) : status[t] = "APPROVED"}
  BY DEF EndCloseout
<1>2. /\ at[p].phase = "closeout"
      /\ UNCHANGED <<status, attempt, worker, proven, primary, crowded, tree>>
  BY DEF EndCloseout, ticketVars, repoVars
<1>3. PlaceOK(p)
  BY DEF CloseoutInv, ProcOK
<1>4. Touches(p) /\ \A u \in Ticket : BooksOK(u)'
  BY <1>2, TouchesNone
<1>5. /\ at'[p].phase = "advance" /\ at'[p].step = "next" /\ at'[p].todo = T
      /\ at'[p].job = None
  <2>1. at'[p] = [Off EXCEPT !.phase = "advance", !.todo = T, !.idle = i]
    BY <1>1, NewPlace
  <2> QED BY <2>1 DEF Off
<1>6. PlaceOK(p)' /\ HandOK(p)' /\ LandingOK(p)'
  BY <1>1, <1>2, <1>3, <1>5 DEF PlaceOK, HandOK, LandingOK, Unrecorded, UnderLandLock
<1> QED BY <1>1, <1>4, <1>5, <1>6, MeetsNone, InvFromOwn DEF ProcOK

\* A tick that advances has the rest of its APPROVED tickets, or one to admit.
LEMMA AdvanceOK ==
    ASSUME TypeOK, CloseoutInv, NEW p \in Proc, at[p].phase = "advance",
           at'[p].phase = "advance", NEW T \in SUBSET at[p].todo, at'[p].todo = T,
           \/ at'[p].step = "next" /\ at'[p].job = None
           \/ at'[p].step = "admit" /\ at'[p].job \in T,
           \A u \in T : status'[u] = status[u]
    PROVE  ProcOK(p)' /\ Meets(p)
<1>1. PlaceOK(p) /\ HandOK(p)
  BY DEF CloseoutInv, ProcOK
<1>2. T \subseteq TicketsOf(p.wave)
  BY <1>1 DEF PlaceOK
<1>3. PlaceOK(p)'
  BY <1>1, <1>2 DEF PlaceOK
<1>4. HandOK(p)' /\ LandingOK(p)'
  BY <1>1 DEF HandOK, LandingOK, Unrecorded, UnderLandLock
<1> QED BY <1>3, <1>4, MeetsNone DEF ProcOK

\* A ticket passes the scope check or waits; its status stays.
LEMMA CheckScopeInv ==
    ASSUME TypeOK, CloseoutInv, NEW p \in Proc, CheckScope(p)
    PROVE  CloseoutInv'
<1>1. PICK t \in at[p].todo : \/ Go(p, [at[p] EXCEPT !.todo = at[p].todo \ {t}])
                              \/ Go(p, [at[p] EXCEPT !.job = t, !.step = "admit"])
  BY DEF CheckScope
<1>2. /\ at[p].phase = "advance" /\ at[p].step = "next" /\ at[p] \in Place
      /\ UNCHANGED <<status, attempt, worker, proven, primary, crowded, tree>>
  BY DEF CheckScope, Doing, ticketVars, repoVars, TypeOK
<1>3. at[p].job = None
  BY <1>2 DEF CloseoutInv, ProcOK, PlaceOK
<1>4. Touches(p) /\ \A u \in Ticket : BooksOK(u)'
  BY <1>2, TouchesNone
<1>5. CASE Go(p, [at[p] EXCEPT !.todo = at[p].todo \ {t}])
  <2>1. /\ at'[p].phase = "advance" /\ at'[p].todo = at[p].todo \ {t} /\ at'[p].step = "next"
        /\ at'[p].job = None
    BY <1>2, <1>3, <1>5, NewPlace DEF Place
  <2> QED BY <1>2, <1>4, <1>5, <2>1, AdvanceOK, InvFromOwn
<1>6. CASE Go(p, [at[p] EXCEPT !.job = t, !.step = "admit"])
  <2>1. at'[p] = [at[p] EXCEPT !.job = t, !.step = "admit"]
    BY <1>6, NewPlace
  <2>2. /\ at'[p].phase = "advance" /\ at'[p].todo = at[p].todo /\ at'[p].step = "admit"
        /\ at'[p].job = t
    BY <1>2, <2>1 DEF Place
  <2>3. ProcOK(p)' /\ Meets(p)
    BY <1>2, <2>2, AdvanceOK
  <2> QED BY <1>4, <1>6, <2>3, InvFromOwn
<1> QED BY <1>1, <1>5, <1>6

\* What is left of the loop once a scope is taken.
LEMMA QueuedPlace ==
    ASSUME TypeOK, NEW p \in Proc, Go(p, Queued(p))
    PROVE  /\ at'[p].phase = at[p].phase /\ at'[p].step = "next" /\ at'[p].job = None
           /\ at'[p].todo = {u \in at[p].todo : ScopeOf[u] # ScopeOf[at[p].job]}
<1> DEFINE T == {u \in at[p].todo : ScopeOf[u] # ScopeOf[Job(p)]}
<1>1. at[p] \in Place
  BY DEF TypeOK
<1>2. Go(p, [at[p] EXCEPT !.step = "next", !.job = None, !.idle = FALSE, !.todo = T])
  BY DEF Queued
<1> HIDE DEF T
<1>3. at'[p] = [at[p] EXCEPT !.step = "next", !.job = None, !.idle = FALSE, !.todo = T]
  BY <1>2, NewPlace
<1>4. /\ at'[p].phase = at[p].phase /\ at'[p].step = "next" /\ at'[p].job = None
      /\ at'[p].todo = T
  BY <1>1, <1>3 DEF Place
<1> QED BY <1>4 DEF T, Job

\* An admitted ticket gets a new attempt, whose worker is queued.
LEMMA AdmitInv ==
    ASSUME TypeOK, CloseoutInv, NEW p \in Proc, Admit(p)
    PROVE  CloseoutInv'
<1>0. PICK t : t = at[p].job
  OBVIOUS
<1>1. /\ at[p].step = "admit" /\ Go(p, Queued(p))
      /\ status' = [status EXCEPT ![t] = "IMPLEMENTING"]
      /\ attempt' = [attempt EXCEPT ![t] = @ + 1]
      /\ worker' = [worker EXCEPT ![t] = "queued"]
      /\ UNCHANGED <<tree, primary, proven, crowded>>
  BY <1>0 DEF Admit, Doing, Job, repoVars
<1>2. /\ at[p].phase = "advance" /\ t \in Ticket /\ t \in InHand(p) /\ BooksOK(t)
      /\ status[t] = "APPROVED"
  BY <1>0, <1>1, AdmitPlace DEF InHand, TicketsOf, CloseoutInv
<1>3. (\A u \in Ticket \ {t} : Spares(u)) /\ Touches(p)
  BY <1>1, <1>2 DEF Spares, Touches, Terminal, TypeOK
<1>4. status'[t] = "IMPLEMENTING" /\ worker'[t] = "queued" /\ attempt'[t] > 0
  <2>1. attempt[t] \in Nat
    BY <1>2 DEF TypeOK
  <2> QED BY <1>1, <1>2, <2>1 DEF TypeOK
<1>5. BooksOK(t)'
  BY <1>1, <1>2, <1>4 DEF BooksOK, Terminal
<1>6. \A u \in Ticket : BooksOK(u)'
  BY <1>1, <1>3, <1>5, BooksKept DEF CloseoutInv
<1>7. PICK T : T = {u \in at[p].todo : ScopeOf[u] # ScopeOf[t]}
  OBVIOUS
<1>8. /\ at'[p].phase = "advance" /\ at'[p].step = "next" /\ at'[p].job = None
      /\ at'[p].todo = T
  BY <1>0, <1>1, <1>2, <1>7, QueuedPlace
<1>9. T \in SUBSET at[p].todo /\ \A u \in T : u \in Ticket \ {t}
  BY <1>7 DEF TypeOK, Place
<1>10. \A u \in T : status'[u] = status[u]
  BY <1>3, <1>9 DEF Spares
<1>11. ProcOK(p)' /\ Meets(p)
  BY <1>2, <1>8, <1>9, <1>10, AdvanceOK
<1> QED BY <1>1, <1>3, <1>6, <1>11, InvFromOwn

\* A ticket that is not admitted is let go.
LEMMA NotAdmittedInv ==
    ASSUME TypeOK, CloseoutInv, NEW p \in Proc, NotAdmitted(p)
    PROVE  CloseoutInv'
<1>1. /\ at[p].step = "admit" /\ UNCHANGED <<status, attempt, worker, proven, primary, crowded, tree>>
      /\ \/ Go(p, Queued(p)) \/ Go(p, Off) \/ Go(p, [Off EXCEPT !.phase = "advance"])
  BY DEF NotAdmitted, Exit, Doing, ticketVars, repoVars
<1>2. at[p].phase = "advance" /\ p.kind = "tick"
  BY <1>1, AdmitPlace
<1>3. Touches(p) /\ \A u \in Ticket : BooksOK(u)'
  BY <1>1, TouchesNone
<1>4. CASE Go(p, Queued(p))
  <2>1. PICK T : T = {u \in at[p].todo : ScopeOf[u] # ScopeOf[at[p].job]}
    OBVIOUS
  <2>2. /\ at'[p].phase = "advance" /\ at'[p].step = "next" /\ at'[p].job = None
        /\ at'[p].todo = T
    BY <1>2, <1>4, <2>1, QueuedPlace
  <2>3. T \in SUBSET at[p].todo
    BY <2>1
  <2>4. ProcOK(p)' /\ Meets(p)
    BY <1>1, <1>2, <2>2, <2>3, AdvanceOK
  <2> QED BY <1>3, <1>4, <2>4, InvFromOwn
<1>5. CASE Go(p, Off) \/ Go(p, [Off EXCEPT !.phase = "advance"])
  <2>1. ProcOK(p)' /\ Meets(p)
    BY <1>2, <1>5, IdleOK
  <2> QED BY <1>3, <1>5, <2>1, InvFromOwn
<1> QED BY <1>1, <1>4, <1>5

\* A tick that ends has nothing in hand.
LEMMA EndTickInv ==
    ASSUME TypeOK, CloseoutInv, NEW p \in Proc, EndTick(p)
    PROVE  CloseoutInv'
<1>1. /\ at[p].phase = "advance" /\ Go(p, Off)
      /\ UNCHANGED <<attempt, worker, proven, primary, crowded, tree>>
  BY DEF EndTick, Exit, repoVars
<1>2. p.kind = "tick"
  BY <1>1 DEF CloseoutInv, ProcOK, PlaceOK
<1>3. \A t \in Ticket : \/ status'[t] = status[t]
                        \/ status[t] = "APPROVED" /\ status'[t] = "FAILED" /\ WaveOf[t] = p.wave
  BY DEF EndTick, TicketsOf
<1>4. Touches(p)
  BY <1>1, <1>2, <1>3 DEF Touches, Spares, Terminal
<1>5. \A t \in Ticket : BooksOK(t)'
  BY <1>1, <1>3 DEF CloseoutInv, BooksOK, Terminal
<1>6. ProcOK(p)' /\ Meets(p)
  BY <1>1, IdleOK
<1> QED BY <1>1, <1>4, <1>5, <1>6, InvFromOwn

\* Nor has a land-retry that leaves, or a process that died.
LEMMA LeaveInv ==
    ASSUME TypeOK, CloseoutInv, NEW p \in Proc, LeaveRetry(p) \/ Crash(p)
    PROVE  CloseoutInv'
<1>1. Go(p, Off) /\ UNCHANGED <<status, attempt, worker, proven, primary, crowded, tree>>
  BY DEF LeaveRetry, Crash, Exit, ticketVars, repoVars
<1>2. Touches(p) /\ \A u \in Ticket : BooksOK(u)'
  BY <1>1, TouchesNone
<1>3. ProcOK(p)' /\ Meets(p)
  BY <1>1, IdleOK
<1> QED BY <1>1, <1>2, <1>3, InvFromOwn

\* A land-retry takes a FAILED ticket; only an exhausted apply has it in hand besides.
LEMMA LandRetryInv ==
    ASSUME TypeOK, CloseoutInv, NEW p \in Proc, LandRetry(p)
    PROVE  CloseoutInv'
<1>1. PICK t \in RetryTickets :
        /\ p.kind = "retry" /\ p.wave = WaveOf[t] /\ status[t] = "FAILED" /\ attempt[t] > 0
        /\ Go(p, [Off EXCEPT !.phase = "retry", !.step = "close", !.job = t])
        /\ UNCHANGED <<status, attempt, worker, proven, primary, crowded, tree>>
  BY DEF LandRetry, ticketVars, repoVars
<1>2. t \in TicketsOf(p.wave)
  BY <1>1, CloseoutAssumption DEF TicketsOf
<1>3. Touches(p) /\ \A u \in Ticket : BooksOK(u)'
  BY <1>1, TouchesNone
<1>4. /\ at'[p].phase = "retry" /\ at'[p].step = "close" /\ at'[p].todo = {} /\ at'[p].job = t
  <2>1. at'[p] = [Off EXCEPT !.phase = "retry", !.step = "close", !.job = t]
    BY <1>1, NewPlace
  <2> QED BY <2>1 DEF Off
<1>5. PlaceOK(p)'
  BY <1>1, <1>2, <1>4 DEF PlaceOK, Unrecorded, TicketsOf
<1>6. HandOK(p)' /\ LandingOK(p)'
  BY <1>1, <1>2, <1>4 DEF HandOK, LandingOK, Unrecorded, UnderLandLock, Retried
<1> QED BY <1>1, <1>3, <1>4, <1>5, <1>6, MeetsNone, InvFromOwn DEF ProcOK

\* Every step preserves CloseoutInv.
LEMMA StepInv ==
    ASSUME TypeOK, CloseoutInv, [Next]_vars
    PROVE  CloseoutInv'
<1>1. CASE UNCHANGED vars
  BY <1>1 DEF vars, ticketVars, repoVars, lockVars, CloseoutInv, ProcOK, PlaceOK, HandOK,
              LandingOK, BooksOK, Working, Closing, Retried, Terminal, OneUnderLock, UnderLandLock,
              Crowds, Job
<1>2. CASE Next
  <2>1. PICK p \in Proc : Advance(p) \/ LandRetry(p) \/ Crash(p)
    BY <1>2 DEF Next
  <2>2. CASE TickStep(p)
    BY <2>2, DispatchInv, ObserveInv, SettleInv, EndObserveInv, EndCloseoutInv, CheckScopeInv,
       AdmitInv, NotAdmittedInv, EndTickInv DEF TickStep
  <2>3. CASE JobStep(p)
    BY <2>3, FinishInv, LandLockInv, DeferInv, IntegrateInv, PublishInv, RecordInv, UnlockInv
       DEF JobStep
  <2> QED BY <2>1, <2>2, <2>3, LeaveInv, LandRetryInv DEF Advance
<1> QED BY <1>1, <1>2

\* Types and CloseoutInv hold at first.
LEMMA InitInv == Init => TypeOK /\ CloseoutInv
<1> SUFFICES ASSUME Init PROVE TypeOK /\ CloseoutInv
  OBVIOUS
<1>1. TypeOK
  BY OffPlace, CloseoutAssumption DEF Init, TypeOK, TicketStatus, WorkerState
<1>2. ASSUME NEW p \in Proc PROVE ProcOK(p)
  <2>1. /\ at[p].phase = "off" /\ at[p].step = "next" /\ at[p].todo = {} /\ at[p].job = None
    BY DEF Init, Off
  <2> QED BY <2>1 DEF ProcOK, PlaceOK, HandOK, LandingOK, Proc, Unrecorded, UnderLandLock
<1>3. ASSUME NEW t \in Ticket PROVE BooksOK(t)
  BY CloseoutAssumption DEF Init, BooksOK
<1>4. OneUnderLock
  BY DEF Init, Off, OneUnderLock, UnderLandLock
<1> QED BY <1>1, <1>2, <1>3, <1>4 DEF CloseoutInv

\* The inductive invariant holds in every reachable state.
THEOREM Invariant == Spec => [](TypeOK /\ CloseoutInv)
<1>1. TypeOK /\ CloseoutInv /\ [Next]_vars => (TypeOK /\ CloseoutInv)'
  BY StepType, StepInv
<1> QED BY InitInv, <1>1, PTL DEF Spec

----------------------------------------------------------------------------

\* Type correctness: in particular no ticket is admitted more than MaxRetries + 1 times,
\* and each process only goes through the steps and the results of its kind.
THEOREM TypeCorrect == Spec => []TypeOK
BY Invariant, PTL

\* A worktree is only gone, and a ticket only DONE, when its work is on the primary
\* checkout, wherever a tick or a land-retry died, of whatever mode its ticket is; and
\* the proof of it is on disk too, except for a ticket that was landed by its wave's
\* exhausted apply and a land-retry at once.
THEOREM NothingLost == Spec => []NoLostWork
<1>1. CloseoutInv => NoLostWork
  BY DEF CloseoutInv, BooksOK, NoLostWork
<1> QED BY Invariant, <1>1, PTL

----------------------------------------------------------------------------
(* Every step of closeout is a step of RepoLanding, or none. *)

\* A step that decides one ticket changes that ticket's stage only.
LEMMA OneStage ==
    ASSUME NEW t \in Ticket, \A u \in Ticket \ {t} : StageOf(u)' = StageOf(u)
    PROVE  [u \in Ticket |-> StageOf(u)]' =
           [[u \in Ticket |-> StageOf(u)] EXCEPT ![t] = StageOf(t)']
OBVIOUS

\* A step that changes no stage and no checkout is a stutter of RepoLanding.
LEMMA StagesKept ==
    ASSUME \A t \in Ticket : StageOf(t)' = StageOf(t), primary' = primary
    PROVE  UNCHANGED Landing!landingVars
BY DEF Landing!landingVars

\* A ticket whose work is on the checkout and becomes DONE finishes there.
LEMMA DoneMapped ==
    ASSUME NEW t \in Ticket \ crowded, status[t] \in {"VERIFYING", "FAILED"}, status'[t] = "DONE",
           \A u \in Ticket \ {t} : status'[u] = status[u], crowded' = crowded,
           t \in primary, primary' = primary
    PROVE  Landing!Finish(t)
<1>1. (\A u \in Ticket \ {t} : StageOf(u)' = StageOf(u)) /\ StageOf(t)' = "DONE"
  BY DEF StageOf
<1>2. StageOf(t) \in {"closing", "FAILED"}
  BY DEF StageOf
<1> QED BY <1>1, <1>2, OneStage DEF Landing!Finish

\* Tickets that fail before they are DONE are given up there.
LEMMA GivenMapped ==
    ASSUME \A t \in Ticket \ crowded : \/ status'[t] = status[t]
                                       \/ status[t] # "DONE" /\ status'[t] = "FAILED",
           status \in [Ticket -> TicketStatus], primary' = primary, crowded' = crowded
    PROVE  [Landing!Next]_Landing!landingVars
<1>1. PICK given \in SUBSET Ticket :
          given = {t \in Ticket \ crowded :
                      status[t] \notin {"DONE", "FAILED"} /\ status'[t] = "FAILED"}
  OBVIOUS
<1>2. \A t \in given : StageOf(t) \in {"working", "closing"}
  BY <1>1 DEF StageOf, TicketStatus
<1>3. \A t \in Ticket : StageOf(t)' = IF t \in given THEN "FAILED" ELSE StageOf(t)
  BY <1>1 DEF StageOf
<1>4. Landing!GiveUp(given)
  BY <1>2, <1>3 DEF Landing!GiveUp
<1> QED BY <1>4 DEF Landing!Next

\* A ticket that two processes are about to land passes for FAILED from then on.
LEMMA CrowdedMapped ==
    ASSUME TypeOK, CloseoutInv, NEW p \in Proc, NEW t \in InHand(p),
           crowded' = crowded \cup Crowds(p, t), t \in crowded',
           \A u \in Ticket \ {t} : status'[u] = status[u]
    PROVE  \A u \in Ticket : StageOf(u)' = StageOf(u)
<1>1. t \in crowded \/ status[t] = "FAILED"
  BY Crowding
<1>2. Crowds(p, t) \subseteq {t}
  BY DEF Crowds
<1>3. \A u \in Ticket \ {t} : u \in crowded' <=> u \in crowded
  BY <1>2
<1>4. \A u \in Ticket \ {t} : StageOf(u)' = StageOf(u)
  BY <1>3 DEF StageOf
<1>5. StageOf(t) = "FAILED" /\ StageOf(t)' = "FAILED"
  BY <1>1 DEF StageOf
<1> QED BY <1>4, <1>5

\* A settlement is a step of RepoLanding, or none.
LEMMA SettleMapped ==
    ASSUME TypeOK, CloseoutInv, NEW p \in Proc, Settle(p)
    PROVE  [Landing!Next]_Landing!landingVars
<1>0. PICK t, st : t = at[p].job /\ st = Settled(p, t)
  OBVIOUS
<1>1. /\ at[p].step = "settle" /\ status' = [status EXCEPT ![t] = st]
      /\ primary' = primary /\ crowded' = crowded
  BY <1>0 DEF Settle, Doing, Job, repoVars
<1>2. t \in Ticket /\ status[t] = "IMPLEMENTING" /\ t \notin crowded
  <2>1. t \in Ticket /\ status[t] = "IMPLEMENTING"
    BY <1>0, <1>1 DEF CloseoutInv, ProcOK, PlaceOK, HandOK, Working, TicketsOf
  <2> QED BY <2>1 DEF CloseoutInv, BooksOK, Terminal
<1>3. status'[t] = st /\ \A u \in Ticket \ {t} : status'[u] = status[u]
  BY <1>1, <1>2 DEF TypeOK
<1>4. CASE st = "VERIFYING"
  <2>1. \A u \in Ticket \ {t} : StageOf(u)' = StageOf(u)
    BY <1>1, <1>3 DEF StageOf
  <2>2. StageOf(t) = "working" /\ StageOf(t)' = "closing"
    BY <1>1, <1>2, <1>3, <1>4 DEF StageOf
  <2>3. Landing!Verified(t)
    BY <1>1, <1>2, <2>1, <2>2, OneStage DEF Landing!Verified
  <2> QED BY <1>2, <2>3 DEF Landing!Next
<1>5. CASE st = "APPROVED"
  <2>1. \A u \in Ticket : StageOf(u)' = StageOf(u)
    BY <1>1, <1>2, <1>3, <1>5 DEF StageOf
  <2> QED BY <1>1, <2>1 DEF Landing!landingVars
<1>6. CASE st = "FAILED"
  BY <1>1, <1>2, <1>3, <1>6, GivenMapped DEF TypeOK
<1> QED BY <1>0, <1>4, <1>5, <1>6 DEF Settled

\* Finishing from the proof is its Finish.
LEMMA FinishMapped ==
    ASSUME TypeOK, CloseoutInv, NEW p \in Proc, FinishFromProof(p)
    PROVE  [Landing!Next]_Landing!landingVars
<1>1. PICK t \in Reads(p) : /\ Finished(t) /\ status' = [status EXCEPT ![t] = "DONE"]
                            /\ primary' = primary /\ crowded' = crowded \cup Crowds(p, t)
  BY DEF FinishFromProof, SetStatus, repoVars
<1>2. t \in Ticket /\ t \in InHand(p) /\ (status[t] = "VERIFYING" \/ Terminal(t))
  BY TurnInHand, JobInHand
<1>3. t \in primary
  BY <1>1, <1>2 DEF Finished, CloseoutInv, BooksOK
<1>4. status'[t] = "DONE" /\ \A u \in Ticket \ {t} : status'[u] = status[u]
  BY <1>1, <1>2 DEF TypeOK
<1>5. CASE t \in crowded'
  BY <1>1, <1>2, <1>4, <1>5, CrowdedMapped, StagesKept
<1>6. CASE t \notin crowded'
  <2>1. crowded' = crowded /\ t \notin crowded
    BY <1>1, <1>6 DEF Crowds
  <2>2. CASE status[t] = "DONE"
    <3>1. \A u \in Ticket : StageOf(u)' = StageOf(u)
      BY <1>4, <2>1, <2>2 DEF StageOf
    <3> QED BY <1>1, <3>1, StagesKept
  <2>3. CASE status[t] \in {"VERIFYING", "FAILED"}
    BY <1>1, <1>2, <1>3, <1>4, <2>1, <2>3, DoneMapped DEF Landing!Next
  <2> QED BY <1>2, <2>2, <2>3 DEF Terminal
<1> QED BY <1>5, <1>6

\* What a process lands is not DONE yet, but for a crowded ticket.
LEMMA JobUndecided ==
    ASSUME TypeOK, CloseoutInv, NEW p \in Proc, NEW j, j = at[p].job,
           at[p].step \in {"locked", "publish", "prune", "record"}
    PROVE  j \in Ticket /\ (j \in crowded \/ status[j] \in {"VERIFYING", "FAILED"})
<1>1. j \in Ticket /\ (status[j] = "VERIFYING" \/ Terminal(j))
  BY JobInHand DEF Unrecorded
<1>2. j \notin crowded => status[j] # "DONE"
  BY <1>1 DEF CloseoutInv, ProcOK, HandOK, UnderLandLock, Job
<1> QED BY <1>1, <1>2 DEF Terminal

\* Integrating is what puts the work on the checkout, for a ticket not DONE yet.
LEMMA IntegrateMapped ==
    ASSUME TypeOK, CloseoutInv, NEW p \in Proc, Integrate(p)
    PROVE  [Landing!Next]_Landing!landingVars
<1>0. PICK j : j = at[p].job
  OBVIOUS
<1>1. status' = status /\ crowded' = crowded /\ at[p].step = "locked"
  BY DEF Integrate, MayIntegrate, Doing, ticketVars
<1>2. j \in Ticket /\ (j \in crowded \/ status[j] \in {"VERIFYING", "FAILED"})
  BY <1>0, <1>1, JobUndecided
<1>3. \A t \in Ticket : StageOf(t)' = StageOf(t)
  BY <1>1 DEF StageOf
<1>4. primary' = primary \/ primary' = primary \cup {j}
  BY <1>0 DEF Integrate, Merge, CopyFiles, Job
<1>5. CASE primary' = primary
  BY <1>3, <1>5 DEF Landing!landingVars
<1>6. CASE primary' = primary \cup {j} /\ j \notin primary
  <2>1. StageOf(j) \in {"closing", "FAILED"}
    BY <1>2 DEF StageOf
  <2>2. Landing!Land(j)
    BY <1>2, <1>3, <1>6, <2>1 DEF Landing!Land
  <2> QED BY <1>2, <2>2 DEF Landing!Next
<1> QED BY <1>4, <1>5, <1>6

\* Recording is its Finish, or gives the ticket up.
LEMMA RecordMapped ==
    ASSUME TypeOK, CloseoutInv, NEW p \in Proc, Record(p)
    PROVE  [Landing!Next]_Landing!landingVars
<1>0. PICK j : j = at[p].job
  OBVIOUS
<1>1. /\ at[p].step = "record" /\ primary' = primary /\ crowded' = crowded /\ LandingOK(p)
  BY DEF Record, Doing, repoVars, CloseoutInv, ProcOK
<1>2. j \in Ticket /\ (j \in crowded \/ status[j] \in {"VERIFYING", "FAILED"})
  BY <1>0, <1>1, JobUndecided
<1>3. \A u \in Ticket \ {j} : status'[u] = status[u]
  BY <1>0, <1>2 DEF Record, Job, TypeOK
<1>4. \/ status'[j] = "DONE" /\ j \in primary
      \/ status'[j] = "FAILED"
  BY <1>0, <1>1, <1>2 DEF Record, Job, TypeOK, LandingOK
<1>5. CASE j \in crowded
  <2>1. \A u \in Ticket : StageOf(u)' = StageOf(u)
    BY <1>1, <1>3, <1>5 DEF StageOf
  <2> QED BY <1>1, <2>1, StagesKept
<1>6. CASE j \notin crowded /\ status'[j] = "DONE" /\ j \in primary
  <2>1. Landing!Finish(j)
    BY <1>1, <1>2, <1>3, <1>6, DoneMapped
  <2> QED BY <1>2, <2>1 DEF Landing!Next
<1>7. CASE j \notin crowded /\ status'[j] = "FAILED"
  BY <1>1, <1>2, <1>3, <1>7, GivenMapped DEF TypeOK
<1> QED BY <1>4, <1>5, <1>6, <1>7

\* Taking the land lock is a stutter, whoever has it already.
LEMMA LandLockMapped ==
    ASSUME TypeOK, CloseoutInv, NEW p \in Proc, TakeLandLock(p)
    PROVE  [Landing!Next]_Landing!landingVars
<1>1. PICK t \in WantsLandLock(p) :
          crowded' = crowded \cup Crowds(p, t) /\ status' = status /\ primary' = primary
  BY DEF TakeLandLock, repoVars
<1>2. t \in InHand(p)
  BY TurnInHand, JobInHand DEF WantsLandLock
<1>3. CASE t \in crowded'
  BY <1>1, <1>2, <1>3, CrowdedMapped, StagesKept
<1>4. CASE t \notin crowded'
  <2>1. crowded' = crowded
    BY <1>1, <1>4 DEF Crowds
  <2>2. \A u \in Ticket : StageOf(u)' = StageOf(u)
    BY <1>1, <2>1 DEF StageOf
  <2> QED BY <1>1, <2>2, StagesKept
<1> QED BY <1>3, <1>4

\* Every step of Closeout is a step of RepoLanding or a stutter.
LEMMA StepMapped ==
    ASSUME TypeOK, CloseoutInv, [Next]_vars
    PROVE  [Landing!Next]_Landing!landingVars
<1>1. ASSUME status' = status, primary' = primary, crowded' = crowded
      PROVE  [Landing!Next]_Landing!landingVars
  <2>1. \A t \in Ticket : StageOf(t)' = StageOf(t)
    BY <1>1 DEF StageOf
  <2> QED BY <1>1, <2>1, StagesKept
<1>2. CASE UNCHANGED vars
  BY <1>1, <1>2 DEF vars, ticketVars, repoVars
<1>3. ASSUME NEW p \in Proc, Admit(p)
      PROVE  [Landing!Next]_Landing!landingVars
  <2>1. \A t \in Ticket : \/ status'[t] = status[t]
                          \/ status[t] = "APPROVED" /\ status'[t] = "IMPLEMENTING"
    BY <1>3, AdmitPlace DEF Admit, Doing, Job, TypeOK
  <2>2. \A t \in Ticket : StageOf(t)' = StageOf(t)
    BY <1>3, <2>1 DEF StageOf, Admit
  <2> QED BY <1>3, <2>2 DEF Admit, repoVars, Landing!landingVars
<1>4. ASSUME NEW p \in Proc, EndTick(p)
      PROVE  [Landing!Next]_Landing!landingVars
  BY <1>4, GivenMapped DEF EndTick, repoVars, TypeOK
<1>5. ASSUME NEW p \in Proc, Advance(p) \/ LandRetry(p) \/ Crash(p)
      PROVE  [Landing!Next]_Landing!landingVars
  <2>1. CASE \/ Dispatch(p) \/ Observe(p) \/ EndObserve(p) \/ EndCloseout(p) \/ CheckScope(p)
             \/ NotAdmitted(p) \/ Defer(p) \/ NotDue(p) \/ SkipApply(p) \/ Publish(p)
             \/ Prune(p) \/ Unlock(p) \/ LeaveRetry(p) \/ LandRetry(p) \/ Crash(p)
    BY <1>1, <2>1
       DEF Dispatch, Observe, EndObserve, EndCloseout, CheckScope, NotAdmitted, Defer, NotDue,
           SkipApply, Publish, Prune, Unlock, LeaveRetry, LandRetry, Crash, ticketVars, repoVars
  <2> QED BY <1>3, <1>4, <1>5, <2>1, SettleMapped, FinishMapped, LandLockMapped, IntegrateMapped,
             RecordMapped
          DEF Advance, TickStep, JobStep
<1> QED BY <1>2, <1>5 DEF Next

\* Closeout implements RepoLanding, for any waves, scopes, modes and faults: DONE is only
\* recorded for work that is on the primary checkout, and is final, whatever ticks of
\* other waves, land-retries of commit or apply tickets and crashes come in between the
\* steps of a landing.  Only from the moment an exhausted apply and a land-retry are at
\* the same apply ticket, the one having taken it up while the other is between land lock
\* and record, its DONE may be undone (apply-closeout.ts records FAILED over it).
THEOREM Implements == Spec => ImplementsRepoLanding
<1>1. Init => Landing!Init
  <2> SUFFICES ASSUME Init PROVE Landing!Init
    OBVIOUS
  <2>1. \A t \in Ticket : StageOf(t) = "working"
    BY DEF Init, StageOf
  <2> QED BY <2>1 DEF Init, Landing!Init
<1>2. TypeOK /\ CloseoutInv /\ [Next]_vars => [Landing!Next]_Landing!landingVars
  BY StepMapped
<1> QED BY Invariant, <1>1, <1>2, PTL DEF Spec, ImplementsRepoLanding, Landing!Spec

----------------------------------------------------------------------------
(* The fence. *)

\* A file lock goes with the lease row of the same ticket and process.
LocksPaired == \A s \in Scope : fileLock[s] # None => lease[s] = fileLock[s]

\* A ticket whose scope another one was given since has lost its lease.
IntrudedFenced == \A t \in Ticket :
    status[t] = "IMPLEMENTING" /\ t \in intruded => ~FenceHolds(t)

\* While a tick observes, each lease that a ticket of its wave holds for a worker is its
\* own: the tick refreshed it and has the file lock too.
ObserverHolds == \A p \in Proc : at[p].phase = "observe" =>
    \A t \in TicketsOf(p.wave) : status[t] = "IMPLEMENTING" /\ FenceHolds(t) =>
        lease[ScopeOf[t]] = fileLock[ScopeOf[t]] /\ lease[ScopeOf[t]].pid = "tick"

\* About to commit what the verification of a commit-mode ticket has shown.
Committing(p) ==
    at[p].step = "settle" /\ at[p].result = "ok" /\ Mode[at[p].job] = "commit"

\* Then the fence still is as it was read before the verification.
CommitsFenced == \A p \in Proc : Committing(p) => FenceHolds(at[p].job)

FenceInv == LocksPaired /\ IntrudedFenced /\ ObserverHolds /\ CommitsFenced

\* The process of a settlement is a tick that observes, its job an IMPL at work, whose
\* lease and file lock it has.
LEMMA Committer ==
    ASSUME TypeOK, CloseoutInv, FenceInv, NEW q \in Proc, Committing(q),
           NEW t, t = at[q].job
    PROVE  /\ q.kind = "tick" /\ at[q].phase = "observe" /\ t \in InHand(q)
           /\ t \in Ticket /\ WaveOf[t] = q.wave /\ status[t] = "IMPLEMENTING"
           /\ FenceHolds(t) /\ lease[ScopeOf[t]].pid = "tick"
           /\ lease[ScopeOf[t]] = fileLock[ScopeOf[t]] /\ fileLock[ScopeOf[t]] # None
<1>1. PlaceOK(q) /\ HandOK(q) /\ at[q].step = "settle"
  BY DEF CloseoutInv, ProcOK, Committing
<1>2. /\ q.kind = "tick" /\ at[q].phase = "observe" /\ t \in Ticket /\ WaveOf[t] = q.wave
      /\ status[t] = "IMPLEMENTING" /\ t \in InHand(q)
  BY <1>1 DEF PlaceOK, HandOK, Working, Unrecorded, TicketsOf, InHand
<1>3. FenceHolds(t)
  BY DEF FenceInv, CommitsFenced
<1>4. lease[ScopeOf[t]] = fileLock[ScopeOf[t]] /\ lease[ScopeOf[t]].pid = "tick"
  BY <1>2, <1>3 DEF FenceInv, ObserverHolds, TicketsOf
<1> QED BY <1>2, <1>3, <1>4 DEF FenceHolds

\* A step that admits nothing keeps FenceInv if the locks it leaves are paired, it gives
\* nobody a lease, and it leaves those alone that other processes rely on.
LEMMA FenceFrom ==
    ASSUME TypeOK, CloseoutInv, FenceInv, NEW p \in Proc, NEW x, Go(p, x),
           \A t \in Ticket : status'[t] = "IMPLEMENTING" => status[t] = "IMPLEMENTING",
           intruded' \subseteq intruded,
           at'[p].phase = "observe" => at[p].phase = "observe",
           at'[p].step # "settle",
           LocksPaired',
           \A t \in Ticket : status'[t] = "IMPLEMENTING" /\ FenceHolds(t)' => FenceHolds(t),
           \A q \in Proc, t \in Ticket :
              /\ at'[q].phase = "observe" /\ WaveOf[t] = q.wave /\ status'[t] = "IMPLEMENTING"
              /\ FenceHolds(t)'
              => UNCHANGED <<lease[ScopeOf[t]], fileLock[ScopeOf[t]]>>,
           \A q \in Proc \ {p} : Committing(q) => FenceHolds(at[q].job)'
    PROVE  FenceInv'
<1>1. \A q \in Proc \ {p} : at'[q] = at[q]
  BY DEF Go, TypeOK
<1>2. IntrudedFenced'
  BY DEF FenceInv, IntrudedFenced
<1>3. \A q \in Proc : at'[q].phase = "observe" => at[q].phase = "observe"
  BY <1>1
<1>4. ObserverHolds'
  BY <1>3 DEF FenceInv, ObserverHolds, TicketsOf
<1>5. CommitsFenced'
  <2>1. ASSUME NEW q \in Proc, Committing(q)' PROVE q # p /\ Committing(q)
    BY <1>1, <2>1 DEF Committing
  <2> QED BY <1>1, <2>1 DEF CommitsFenced
<1> QED BY <1>2, <1>4, <1>5 DEF FenceInv

\* A step of a process that does not go on to observe or to settle.
Subsides(p) ==
    /\ \E x : Go(p, x)
    /\ at'[p].phase = "observe" => at[p].phase = "observe"
    /\ at'[p].step # "settle"
    /\ \A t \in Ticket : status'[t] = "IMPLEMENTING" => status[t] = "IMPLEMENTING"
    /\ intruded' \subseteq intruded

\* Rows that no other process needs to commit may be dropped, ...
LEMMA FenceDropped ==
    ASSUME TypeOK, CloseoutInv, FenceInv, NEW p \in Proc, Subsides(p), NEW rows, Dropped(rows),
           \A q \in Proc \ {p} : Committing(q) =>
               ScopeOf[at[q].job] \notin rows \/ lease[ScopeOf[at[q].job]].ticket # at[q].job
    PROVE  FenceInv'
<1>1. \A r \in Resource : lease'[r] = IF r \in rows THEN None ELSE lease[r]
  BY DEF Dropped
<1>2. \A s \in Scope : fileLock'[s] = IF s \in rows /\ Paired(s) THEN None ELSE fileLock[s]
  BY DEF Dropped
<1>3. Scope \subseteq Resource /\ \A t \in Ticket : ScopeOf[t] \in Scope
  BY CloseoutAssumption DEF Resource
<1>4. LocksPaired'
  BY <1>1, <1>2, <1>3 DEF FenceInv, LocksPaired, Paired
<1>5. \A t \in Ticket : FenceHolds(t)' =>
          FenceHolds(t) /\ UNCHANGED <<lease[ScopeOf[t]], fileLock[ScopeOf[t]]>>
  BY <1>1, <1>2, <1>3 DEF FenceHolds
<1>6. ASSUME NEW q \in Proc \ {p}, Committing(q) PROVE FenceHolds(at[q].job)'
  <2>1. PICK t : t = at[q].job
    OBVIOUS
  <2>2. t \in Ticket /\ FenceHolds(t)
    BY <1>6, <2>1, Committer
  <2>3. at'[q].job = t
    BY <2>1 DEF Subsides, Go, TypeOK
  <2>4. FenceHolds(t)'
    BY <1>1, <1>3, <1>6, <2>1, <2>2 DEF FenceHolds
  <2> QED BY <2>3, <2>4 DEF FenceHolds
<1>7. \A q \in Proc, t \in Ticket : FenceHolds(t)' =>
          UNCHANGED <<lease[ScopeOf[t]], fileLock[ScopeOf[t]]>>
  BY <1>5
<1> QED BY <1>4, <1>5, <1>6, <1>7, FenceFrom DEF Subsides

\* ... as may none at all.
LEMMA FenceKept ==
    ASSUME TypeOK, CloseoutInv, FenceInv, NEW p \in Proc, Subsides(p),
           \A s \in Scope : lease'[s] = lease[s] /\ fileLock'[s] = fileLock[s]
    PROVE  FenceInv'
<1>1. \A t \in Ticket : ScopeOf[t] \in Scope
  BY CloseoutAssumption
<1>2. LocksPaired'
  BY DEF FenceInv, LocksPaired
<1>3. \A t \in Ticket : /\ FenceHolds(t)' <=> FenceHolds(t)
                        /\ UNCHANGED <<lease[ScopeOf[t]], fileLock[ScopeOf[t]]>>
  BY <1>1 DEF FenceHolds
<1>4. ASSUME NEW q \in Proc \ {p}, Committing(q) PROVE FenceHolds(at[q].job)'
  <2>1. PICK t : t = at[q].job
    OBVIOUS
  <2>2. t \in Ticket /\ FenceHolds(t)'
    BY <1>3, <1>4, <2>1, Committer
  <2>3. at'[q].job = t
    BY <2>1 DEF Subsides, Go, TypeOK
  <2> QED BY <2>2, <2>3 DEF FenceHolds
<1> QED BY <1>2, <1>3, <1>4, FenceFrom DEF Subsides

\* A process that dies takes no other process's locks along.
LEMMA FenceDies ==
    ASSUME TypeOK, CloseoutInv, FenceInv, NEW p \in Proc, Subsides(p), PidDies(p),
           at'[p].phase # "observe"
    PROVE  FenceInv'
<1>1. \A r \in Resource : lease'[r] = IF WeHold(p, lease[r]) /\ lease[r].pid = p.kind
                                      THEN [lease[r] EXCEPT !.pid = "dead"] ELSE lease[r]
  BY DEF PidDies
<1>2. \A s \in Scope : fileLock'[s] = IF WeHold(p, fileLock[s]) /\ fileLock[s].pid = p.kind
                                      THEN None ELSE fileLock[s]
  BY DEF PidDies
<1>3. Scope \subseteq Resource /\ \A t \in Ticket : ScopeOf[t] \in Scope
  BY CloseoutAssumption DEF Resource
<1>4. LocksPaired'
  BY <1>1, <1>2, <1>3 DEF FenceInv, LocksPaired
<1>5. \A r \in Resource : lease'[r] # None => lease[r] # None /\ lease'[r].ticket = lease[r].ticket
  BY <1>1 DEF WeHold, TypeOK, Lease
<1>6. \A t \in Ticket : FenceHolds(t)' => FenceHolds(t)
  BY <1>3, <1>5 DEF FenceHolds
<1>7. ASSUME NEW q \in Proc \ {p}, NEW t \in Ticket, at[q].phase = "observe",
             WaveOf[t] = q.wave, status[t] = "IMPLEMENTING", FenceHolds(t)
      PROVE  lease'[ScopeOf[t]] = lease[ScopeOf[t]] /\ fileLock'[ScopeOf[t]] = fileLock[ScopeOf[t]]
  <2>1. q.kind = "tick"
    BY <1>7 DEF CloseoutInv, ProcOK, PlaceOK
  <2>2. q.wave = p.wave => p.kind # "tick"
    BY <2>1 DEF Proc
  <2>3. lease[ScopeOf[t]].pid = "tick" /\ fileLock[ScopeOf[t]] = lease[ScopeOf[t]]
    BY <1>7 DEF FenceInv, ObserverHolds, TicketsOf
  <2>4. lease[ScopeOf[t]].ticket = t
    BY <1>7 DEF FenceHolds
  <2> QED BY <1>1, <1>2, <1>3, <1>7, <2>2, <2>3, <2>4 DEF WeHold
<1>8. \A q \in Proc \ {p} : at'[q] = at[q]
  BY DEF Subsides, Go, TypeOK
<1>9. \A q \in Proc, t \in Ticket :
         /\ at'[q].phase = "observe" /\ WaveOf[t] = q.wave /\ status'[t] = "IMPLEMENTING"
         /\ FenceHolds(t)'
         => UNCHANGED <<lease[ScopeOf[t]], fileLock[ScopeOf[t]]>>
  BY <1>6, <1>7, <1>8 DEF Subsides
<1>10. ASSUME NEW q \in Proc \ {p}, Committing(q) PROVE FenceHolds(at[q].job)'
  <2>1. PICK t : t = at[q].job
    OBVIOUS
  <2>2. /\ t \in Ticket /\ FenceHolds(t) /\ at[q].phase = "observe" /\ WaveOf[t] = q.wave
        /\ status[t] = "IMPLEMENTING"
    BY <1>10, <2>1, Committer
  <2>3. FenceHolds(t)'
    BY <1>7, <2>2 DEF FenceHolds
  <2> QED BY <1>8, <2>1, <2>3 DEF FenceHolds
<1> QED BY <1>4, <1>6, <1>9, <1>10, FenceFrom DEF Subsides

\* A process that lets go of t stays in its loop, or leaves.
LEMMA LeftPlace ==
    ASSUME TypeOK, NEW p \in Proc, NEW t, Go(p, Left(p, t))
    PROVE  /\ at'[p].phase \in {at[p].phase, "leaving"} /\ at'[p].step = "next"
           /\ \E x : Go(p, x)
<1>1. at'[p] = Left(p, t)
  BY NewPlace
<1> QED BY <1>1 DEF Left, Off

\* Rows a process may drop: its own, of tickets that are over or its own job.
LEMMA OthersRows ==
    ASSUME TypeOK, CloseoutInv, FenceInv, NEW p \in Proc, NEW q \in Proc \ {p}, Committing(q),
           NEW t \in InHand(p), NEW st
    PROVE  /\ at[q].job # t
           /\ \/ ScopeOf[at[q].job] \notin LeaseRows(p, t, st)
              \/ lease[ScopeOf[at[q].job]].ticket # at[q].job
<1>1. PICK u : u = at[q].job
  OBVIOUS
<1>2. u \in InHand(q) /\ status[u] = "IMPLEMENTING"
  BY <1>1, Committer
<1>3. u # t
  BY <1>2, Exclusive DEF Terminal
<1> QED BY <1>1, <1>3 DEF LeaseRows

\* A settlement gives back the lease of its own ticket, if any.
LEMMA SettleFence ==
    ASSUME TypeOK, CloseoutInv, FenceInv, NEW p \in Proc, Settle(p)
    PROVE  FenceInv'
<1>1. PICK t, st : /\ t = at[p].job /\ status' = [status EXCEPT ![t] = st]
                   /\ Dropped(LeaseRows(p, t, st)) /\ intruded' = intruded \ {t}
                   /\ st \in {"VERIFYING", "APPROVED", "FAILED"}
                   /\ Await(p, "close") \/ Go(p, Left(p, t))
  BY DEF Settle, Settled, Job
<1>2. at[p].step = "settle" /\ t \in InHand(p)
  BY <1>1 DEF Settle, Doing, InHand
<1>3. at'[p].phase \in {at[p].phase, "leaving"} /\ at'[p].step # "settle" /\ \E x : Go(p, x)
  <2>1. CASE Await(p, "close")
    <3>1. Onward(p, "close") /\ \E x : Go(p, x)
      BY <2>1, Onwards DEF Await
    <3> QED BY <3>1 DEF Onward
  <2>2. CASE Go(p, Left(p, t))
    BY <2>2, LeftPlace
  <2> QED BY <1>1, <2>1, <2>2
<1>4. Subsides(p)
  BY <1>1, <1>3 DEF Subsides, TypeOK
<1> QED BY <1>1, <1>2, <1>4, FenceDropped, OthersRows

\* So does finishing from the proof.
LEMMA FinishFence ==
    ASSUME TypeOK, CloseoutInv, FenceInv, NEW p \in Proc, FinishFromProof(p)
    PROVE  FenceInv'
<1>1. PICK t \in Reads(p) :
        /\ status' = [status EXCEPT ![t] = "DONE"] /\ intruded' = intruded
        /\ \E rows \in {{}, LeaseRows(p, t, "DONE")} : Dropped(rows)
        /\ IF Doing(p, "locked") THEN Await(p, "unlock") ELSE Go(p, Left(p, t))
  BY DEF FinishFromProof, SetStatus
<1>2. t \in InHand(p)
  BY TurnInHand, JobInHand
<1>3. at'[p].phase \in {at[p].phase, "leaving"} /\ at'[p].step # "settle" /\ \E x : Go(p, x)
  <2>1. CASE Await(p, "unlock")
    <3>1. Onward(p, "unlock") /\ \E x : Go(p, x)
      BY <2>1, Onwards DEF Await
    <3> QED BY <3>1 DEF Onward
  <2>2. CASE Go(p, Left(p, t))
    BY <2>2, LeftPlace
  <2> QED BY <1>1, <2>1, <2>2
<1>4. Subsides(p)
  BY <1>1, <1>3 DEF Subsides, TypeOK
<1> QED BY <1>1, <1>2, <1>4, FenceDropped, OthersRows

\* So does the end of a landing, and it gives back the land lock.
LEMMA UnlockFence ==
    ASSUME TypeOK, CloseoutInv, FenceInv, NEW p \in Proc, Unlock(p)
    PROVE  FenceInv'
<1>1. PICK t, rows :
        /\ t = at[p].job /\ Dropped(rows) /\ Go(p, Left(p, t)) /\ UNCHANGED <<status, intruded>>
        /\ \A s \in rows : s = "land" \/ (s \in LeaseRows(p, t, status[t]))
  BY DEF Unlock, Job, ticketVars
<1>2. Subsides(p)
  <2>1. at'[p].phase \in {at[p].phase, "leaving"} /\ at'[p].step # "settle"
    BY <1>1, LeftPlace
  <2> QED BY <1>1, <2>1 DEF Subsides
<1>3. ASSUME NEW q \in Proc \ {p}, Committing(q), ScopeOf[at[q].job] \in rows
      PROVE  lease[ScopeOf[at[q].job]].ticket # at[q].job
  <2>1. PICK u : u = at[q].job
    OBVIOUS
  <2>2. u \in Ticket /\ status[u] = "IMPLEMENTING" /\ ScopeOf[u] # "land"
    BY <1>3, <2>1, Committer, CloseoutAssumption
  <2>3. /\ lease[ScopeOf[u]].ticket = t /\ status[t] \in {"DONE", "FAILED"}
    BY <1>1, <1>3, <2>1, <2>2 DEF LeaseRows
  <2> QED BY <2>1, <2>2, <2>3
<1> QED BY <1>1, <1>2, <1>3, FenceDropped

\* After the closeouts only rows of tickets that are over are swept.
LEMMA EndCloseoutFence ==
    ASSUME TypeOK, CloseoutInv, FenceInv, NEW p \in Proc, EndCloseout(p)
    PROVE  FenceInv'
<1>1. PICK rows, T, i :
        /\ rows = {r \in Resource : WeHold(p, lease[r]) /\ ~Active(lease[r].ticket)}
        /\ Dropped(rows) /\ UNCHANGED <<status, intruded>>
        /\ Go(p, [Off EXCEPT !.phase = "advance", !.todo = T, !.idle = i])
  BY DEF EndCloseout, ticketVars
<1>2. Subsides(p)
  <2>1. at'[p].phase = "advance" /\ at'[p].step # "settle"
    BY <1>1, NewPlace DEF Off
  <2> QED BY <1>1, <2>1 DEF Subsides
<1>3. ASSUME NEW q \in Proc \ {p}, Committing(q), ScopeOf[at[q].job] \in rows
      PROVE  lease[ScopeOf[at[q].job]].ticket # at[q].job
  <2>1. PICK u : u = at[q].job
    OBVIOUS
  <2>2. status[u] = "IMPLEMENTING"
    BY <1>3, <2>1, Committer
  <2> QED BY <1>1, <1>3, <2>1, <2>2 DEF Active
<1> QED BY <1>1, <1>2, <1>3, FenceDropped

\* The scope check drops only an own lease whose ticket is over.
LEMMA CheckScopeFence ==
    ASSUME TypeOK, CloseoutInv, FenceInv, NEW p \in Proc, CheckScope(p)
    PROVE  FenceInv'
<1>1. PICK t \in at[p].todo :
        /\ UNCHANGED lockVars \/ Dropped({s \in {ScopeOf[t]} : LeaseLeftOver(p, t)})
        /\ \/ Go(p, [at[p] EXCEPT !.todo = at[p].todo \ {t}])
           \/ Go(p, [at[p] EXCEPT !.job = t, !.step = "admit"])
        /\ UNCHANGED <<status, intruded>>
        /\ at[p].step = "next" /\ at[p] \in Place
  BY DEF CheckScope, ticketVars, Doing, TypeOK
<1>2. at'[p].phase = at[p].phase /\ at'[p].step # "settle"
  <2>1. CASE Go(p, [at[p] EXCEPT !.todo = at[p].todo \ {t}])
    BY <1>1, <2>1, NewPlace DEF Place
  <2>2. CASE Go(p, [at[p] EXCEPT !.job = t, !.step = "admit"])
    <3>1. at'[p] = [at[p] EXCEPT !.job = t, !.step = "admit"]
      BY <2>2, NewPlace
    <3> QED BY <1>1, <3>1 DEF Place
  <2> QED BY <1>1, <2>1, <2>2
<1>3. Subsides(p)
  BY <1>1, <1>2 DEF Subsides
<1>4. CASE UNCHANGED lockVars
  BY <1>3, <1>4, FenceKept DEF lockVars
<1>5. CASE Dropped({s \in {ScopeOf[t]} : LeaseLeftOver(p, t)})
  <2>1. ASSUME NEW q \in Proc \ {p}, Committing(q),
               ScopeOf[at[q].job] \in {s \in {ScopeOf[t]} : LeaseLeftOver(p, t)}
        PROVE  lease[ScopeOf[at[q].job]].ticket # at[q].job
    <3>1. PICK u : u = at[q].job
      OBVIOUS
    <3>2. status[u] = "IMPLEMENTING"
      BY <2>1, <3>1, Committer
    <3> QED BY <2>1, <3>1, <3>2 DEF LeaseLeftOver, Terminal
  <2> QED BY <1>3, <1>5, <2>1, FenceDropped
<1> QED BY <1>1, <1>4, <1>5

\* The steps of a landing, and the ends of a process, leave the fence of the others alone.
LEMMA QuietFence ==
    ASSUME TypeOK, CloseoutInv, FenceInv, NEW p \in Proc,
           \/ EndObserve(p) \/ Defer(p) \/ NotDue(p) \/ SkipApply(p) \/ Integrate(p) \/ Publish(p)
           \/ Prune(p) \/ Record(p) \/ TakeLandLock(p) \/ NotAdmitted(p) \/ EndTick(p)
           \/ LeaveRetry(p) \/ Crash(p)
    PROVE  FenceInv'
<1>1. \A t \in Ticket : status'[t] = "IMPLEMENTING" => status[t] = "IMPLEMENTING"
  BY DEF EndObserve, Defer, NotDue, SkipApply, Integrate, Publish, Prune, Record, TakeLandLock,
         NotAdmitted, EndTick, LeaveRetry, Crash, ticketVars, TypeOK
<1>2. intruded' = intruded
  BY DEF EndObserve, Defer, NotDue, SkipApply, Integrate, Publish, Prune, Record, TakeLandLock,
         NotAdmitted, EndTick, LeaveRetry, Crash, ticketVars
<1>3. /\ \E x : Go(p, x)
      /\ at'[p].phase = "observe" => at[p].phase = "observe"
      /\ at'[p].step # "settle"
  <2>1. CASE Go(p, Off)
    BY <2>1, NewPlace DEF Off
  <2>2. CASE \E s \in {"publish", "prune", "unlock"} : Await(p, s)
    <3>1. PICK s \in {"publish", "prune", "unlock"} : Onward(p, s) /\ \E x : Go(p, x)
      BY <2>2, Onwards DEF Await
    <3> QED BY <3>1 DEF Onward
  <2>3. CASE \E r : Go(p, [at[p] EXCEPT !.step = "record", !.result = r])
    <3>1. Onward(p, "record") /\ \E x : Go(p, x)
      BY <2>3, Onwards
    <3> QED BY <3>1 DEF Onward
  <2>4. CASE \E t : Go(p, Left(p, t))
    BY <2>4, LeftPlace
  <2>5. CASE EndObserve(p)
    <3>1. PICK T : Go(p, [Off EXCEPT !.phase = "closeout", !.todo = T])
      BY <2>5 DEF EndObserve, Enter
    <3>2. at'[p] = [Off EXCEPT !.phase = "closeout", !.todo = T]
      BY <3>1, NewPlace
    <3> QED BY <3>1, <3>2 DEF Off
  <2>6. CASE TakeLandLock(p)
    <3>1. PICK t, b : Go(p, [at[p] EXCEPT !.step = "locked", !.job = t, !.doneOnOk = b])
      BY <2>6 DEF TakeLandLock
    <3>2. at'[p] = [at[p] EXCEPT !.step = "locked", !.job = t, !.doneOnOk = b] /\ at[p] \in Place
      BY <3>1, NewPlace DEF TypeOK
    <3> QED BY <3>1, <3>2 DEF Place
  <2>7. CASE Go(p, Queued(p))
    BY <2>7, QueuedPlace
  <2>8. CASE Go(p, [Off EXCEPT !.phase = "advance"])
    BY <2>8, NewPlace DEF Off
  <2> QED BY <2>1, <2>2, <2>3, <2>4, <2>5, <2>6, <2>7, <2>8
          DEF Defer, NotDue, SkipApply, Integrate, Publish, Prove, Prune, Record, FailWith,
              NotAdmitted, EndTick, LeaveRetry, Crash, Exit
<1>4. Subsides(p)
  BY <1>1, <1>2, <1>3 DEF Subsides
<1>5. CASE Exit(p)
  <2>1. at'[p].phase # "observe"
    BY <1>5, NewPlace DEF Exit, Off
  <2> QED BY <1>4, <1>5, <2>1, FenceDies DEF Exit
<1>6. CASE TakeLandLock(p)
  <2>1. \A s \in Scope : s # "land" /\ s \in Resource
    BY CloseoutAssumption DEF Resource
  <2>2. \A s \in Scope : lease'[s] = lease[s] /\ fileLock'[s] = fileLock[s]
    BY <1>6, <2>1 DEF TakeLandLock, TypeOK
  <2> QED BY <1>4, <2>2, FenceKept
<1>7. CASE UNCHANGED lockVars
  BY <1>4, <1>7, FenceKept DEF lockVars
<1> QED BY <1>5, <1>6, <1>7
        DEF EndObserve, Defer, NotDue, SkipApply, Integrate, Publish, Prune, Record,
            NotAdmitted, EndTick, LeaveRetry, Crash

\* A tick that begins has every lease of its wave's workers, and their file locks.
LEMMA DispatchFence ==
    ASSUME TypeOK, CloseoutInv, FenceInv, NEW p \in Proc, Dispatch(p)
    PROVE  FenceInv'
<1>1. /\ p.kind = "tick" /\ RefreshAndExpire(p) /\ status' = status /\ intruded' = intruded
      /\ \E T : Go(p, [Off EXCEPT !.phase = "observe", !.todo = T])
  BY DEF Dispatch, Enter
<1>2. at'[p].step = "next" /\ \A q \in Proc \ {p} : at'[q] = at[q]
  BY <1>1, NewPlace DEF Go, TypeOK, Off
<1>3. Scope \subseteq Resource /\ \A t \in Ticket : ScopeOf[t] \in Scope
  BY CloseoutAssumption DEF Resource
<1>4. \A r \in Resource : lease'[r] = IF r \in Refreshed(p) THEN Stamp(lease[r].ticket, p)
                                      ELSE IF r \in Stale(p) THEN None ELSE lease[r]
  BY <1>1 DEF RefreshAndExpire
<1>5. \A s \in Scope : fileLock'[s] =
         IF s \in Refreshed(p) /\ FileLockFree(s, lease[s].ticket) THEN Stamp(lease[s].ticket, p)
         ELSE IF s \in Stale(p) /\ Paired(s) THEN None ELSE fileLock[s]
  BY <1>1 DEF RefreshAndExpire
<1>6. \A s \in Scope : fileLock[s] # None => lease[s] = fileLock[s]
  BY DEF FenceInv, LocksPaired
<1>7. \A s \in Scope : FileLockFree(s, lease[s].ticket)
  BY <1>6 DEF FileLockFree
<1>8. LocksPaired'
  <2>1. ASSUME NEW s \in Scope, fileLock'[s] # None PROVE lease'[s] = fileLock'[s]
    <3>1. CASE s \in Refreshed(p)
      BY <1>3, <1>4, <1>5, <1>7, <3>1
    <3>2. CASE s \notin Refreshed(p) /\ s \in Stale(p)
      BY <1>5, <1>6, <2>1, <3>2 DEF Paired, Stale, PidIsDead
    <3>3. CASE s \notin Refreshed(p) /\ s \notin Stale(p)
      BY <1>3, <1>4, <1>5, <1>6, <2>1, <3>3
    <3> QED BY <3>1, <3>2, <3>3
  <2> QED BY <2>1 DEF LocksPaired
<1>9. \A r \in Refreshed(p) : lease[r] # None /\ Stamp(lease[r].ticket, p).ticket = lease[r].ticket
  BY DEF Refreshed, WeHold, Stamp
<1>10. \A t \in Ticket : FenceHolds(t)' => FenceHolds(t)
  BY <1>3, <1>4, <1>9 DEF FenceHolds
<1>11. IntrudedFenced'
  BY <1>1, <1>10 DEF FenceInv, IntrudedFenced
<1>12. ASSUME NEW q \in Proc \ {p}, NEW t \in Ticket, at[q].phase = "observe",
              WaveOf[t] = q.wave, status[t] = "IMPLEMENTING", FenceHolds(t)
       PROVE  /\ lease'[ScopeOf[t]] = lease[ScopeOf[t]]
              /\ fileLock'[ScopeOf[t]] = fileLock[ScopeOf[t]]
              /\ lease[ScopeOf[t]] = fileLock[ScopeOf[t]] /\ lease[ScopeOf[t]].pid = "tick"
  <2>1. q.kind = "tick"
    BY <1>12 DEF CloseoutInv, ProcOK, PlaceOK
  <2>2. q.wave # p.wave
    BY <1>1, <2>1 DEF Proc
  <2>3. lease[ScopeOf[t]].pid = "tick" /\ lease[ScopeOf[t]] = fileLock[ScopeOf[t]]
    BY <1>12 DEF FenceInv, ObserverHolds, TicketsOf
  <2>4. ScopeOf[t] \notin Refreshed(p) /\ ScopeOf[t] \notin Stale(p)
    BY <1>12, <2>2, <2>3 DEF Refreshed, WeHold, FenceHolds, Stale, PidIsDead
  <2> QED BY <1>3, <1>4, <1>5, <2>3, <2>4
<1>13. ObserverHolds'
  <2>1. ASSUME NEW q \in Proc, at'[q].phase = "observe", NEW t \in TicketsOf(q.wave),
               status'[t] = "IMPLEMENTING", FenceHolds(t)'
        PROVE  lease'[ScopeOf[t]] = fileLock'[ScopeOf[t]] /\ lease'[ScopeOf[t]].pid = "tick"
    <3>1. t \in Ticket /\ WaveOf[t] = q.wave /\ FenceHolds(t) /\ status[t] = "IMPLEMENTING"
      BY <1>1, <1>10, <2>1 DEF TicketsOf
    <3>2. CASE q = p
      <4>1. ScopeOf[t] \in Refreshed(p)
        BY <1>3, <3>1, <3>2 DEF FenceHolds, Refreshed, WeHold, Active
      <4>2. Stamp(lease[ScopeOf[t]].ticket, p).pid = "tick"
        BY <1>1 DEF Stamp
      <4> QED BY <1>3, <1>4, <1>5, <1>7, <3>1, <4>1, <4>2
    <3>3. CASE q # p
      BY <1>2, <1>12, <2>1, <3>1, <3>3
    <3> QED BY <3>2, <3>3
  <2> QED BY <2>1 DEF ObserverHolds
<1>14. CommitsFenced'
  <2>1. ASSUME NEW q \in Proc, Committing(q)' PROVE FenceHolds(at[q].job)' /\ at'[q] = at[q]
    <3>1. q # p /\ at'[q] = at[q]
      BY <1>2, <2>1 DEF Committing
    <3>2. PICK t : t = at[q].job
      OBVIOUS
    <3>3. /\ t \in Ticket /\ FenceHolds(t) /\ at[q].phase = "observe" /\ WaveOf[t] = q.wave
          /\ status[t] = "IMPLEMENTING"
      BY <2>1, <3>1, <3>2, Committer DEF Committing
    <3>4. FenceHolds(t)'
      BY <1>12, <3>1, <3>3 DEF FenceHolds
    <3> QED BY <3>1, <3>2, <3>4 DEF FenceHolds
  <2> QED BY <2>1 DEF CommitsFenced, FenceHolds
<1> QED BY <1>8, <1>11, <1>13, <1>14 DEF FenceInv

\* The fence is read where the verification begins.
LEMMA ObserveFence ==
    ASSUME TypeOK, CloseoutInv, FenceInv, NEW p \in Proc, Observe(p)
    PROVE  FenceInv'
<1>1. PICK t \in at[p].todo, result \in {"ok", "failed", "fenced"} :
        /\ result = "ok" => (Mode[t] = "commit" => FenceHolds(t))
        /\ Go(p, [at[p] EXCEPT !.job = t, !.step = "settle", !.result = result])
  BY DEF Observe
<1>2. UNCHANGED <<status, intruded, lease, fileLock>> /\ at[p].phase = "observe"
  BY DEF Observe, ticketVars, lockVars
<1>3. at'[p] = [at[p] EXCEPT !.job = t, !.step = "settle", !.result = result] /\ at[p] \in Place
  BY <1>1, NewPlace DEF TypeOK
<1>4. at'[p].phase = "observe" /\ at'[p].job = t /\ at'[p].result = result
  BY <1>2, <1>3 DEF Place
<1>5. \A q \in Proc \ {p} : at'[q] = at[q]
  BY <1>1 DEF Go, TypeOK
<1>6. LocksPaired' /\ IntrudedFenced'
  BY <1>2 DEF FenceInv, LocksPaired, IntrudedFenced, FenceHolds
<1>7. ObserverHolds'
  BY <1>2, <1>5 DEF FenceInv, ObserverHolds, TicketsOf, FenceHolds
<1>8. ASSUME NEW q \in Proc, Committing(q)' PROVE FenceHolds(at[q].job)'
  <2>1. CASE q = p
    BY <1>1, <1>2, <1>4, <1>8, <2>1 DEF Committing, FenceHolds
  <2>2. CASE q # p
    <3>1. FenceHolds(at[q].job)
      BY <1>5, <1>8, <2>2 DEF FenceInv, CommitsFenced, Committing
    <3> QED BY <1>2, <1>5, <2>2, <3>1 DEF FenceHolds
  <2> QED BY <2>1, <2>2
<1> QED BY <1>6, <1>7, <1>8 DEF FenceInv, CommitsFenced

\* Neither an admission nor a land-retry can take a lease whose file lock another
\* process has.
LEMMA TakeFence ==
    ASSUME TypeOK, CloseoutInv, FenceInv, NEW p \in Proc, NEW t \in Ticket, NEW x, Go(p, x),
           x.phase # "observe", x.step # "settle", at[p].phase # "observe",
           WaveOf[t] = p.wave, status[t] # "IMPLEMENTING",
           status'[t] = "IMPLEMENTING" => p.kind = "tick" /\ t \notin intruded',
           FileLockFree(ScopeOf[t], t),
           lease' = [lease EXCEPT ![ScopeOf[t]] = Stamp(t, p)],
           fileLock' = [fileLock EXCEPT ![ScopeOf[t]] = Stamp(t, p)],
           \A u \in Ticket \ {t} :
              /\ status'[u] = "IMPLEMENTING" => status[u] = "IMPLEMENTING"
              /\ u \in intruded' => u \in intruded \/ ScopeOf[u] = ScopeOf[t]
    PROVE  FenceInv'
<1>1. \A q \in Proc \ {p} : at'[q] = at[q]
  BY DEF Go, TypeOK
<1>2. at'[p] = x
  BY NewPlace
<1>3. Scope \subseteq Resource /\ \A u \in Ticket : ScopeOf[u] \in Scope
  BY CloseoutAssumption DEF Resource
<1>4. /\ \A r \in Resource : lease'[r] = IF r = ScopeOf[t] THEN Stamp(t, p) ELSE lease[r]
      /\ \A s \in Scope : fileLock'[s] = IF s = ScopeOf[t] THEN Stamp(t, p) ELSE fileLock[s]
      /\ Stamp(t, p).ticket = t
  BY DEF TypeOK, Stamp
<1>5. LocksPaired'
  BY <1>3, <1>4 DEF FenceInv, LocksPaired
<1>6. \A u \in Ticket \ {t} : FenceHolds(u)' => /\ ScopeOf[u] # ScopeOf[t] /\ FenceHolds(u)
                                                /\ lease'[ScopeOf[u]] = lease[ScopeOf[u]]
                                                /\ fileLock'[ScopeOf[u]] = fileLock[ScopeOf[u]]
  BY <1>3, <1>4 DEF FenceHolds
<1>7. IntrudedFenced'
  BY <1>6 DEF FenceInv, IntrudedFenced
<1>8. ASSUME NEW q \in Proc, at'[q].phase = "observe"
      PROVE  q # p /\ at'[q] = at[q] /\ (status'[t] = "IMPLEMENTING" => WaveOf[t] # q.wave)
  <2>1. q # p /\ at'[q] = at[q]
    BY <1>1, <1>2, <1>8
  <2>2. q.kind = "tick"
    BY <1>8, <2>1 DEF CloseoutInv, ProcOK, PlaceOK
  <2> QED BY <2>1, <2>2 DEF Proc
<1>9. ObserverHolds'
  <2>1. ASSUME NEW q \in Proc, at'[q].phase = "observe", NEW u \in TicketsOf(q.wave),
               status'[u] = "IMPLEMENTING", FenceHolds(u)'
        PROVE  lease'[ScopeOf[u]] = fileLock'[ScopeOf[u]] /\ lease'[ScopeOf[u]].pid = "tick"
    <3>1. u \in Ticket \ {t} /\ at[q].phase = "observe"
      BY <1>8, <2>1 DEF TicketsOf
    <3> QED BY <1>6, <2>1, <3>1 DEF FenceInv, ObserverHolds
  <2> QED BY <2>1 DEF ObserverHolds
<1>10. ASSUME NEW q \in Proc, Committing(q)' PROVE FenceHolds(at[q].job)'
  <2>1. q # p /\ at'[q] = at[q] /\ Committing(q)
    BY <1>1, <1>2, <1>10 DEF Committing
  <2>2. PICK u : u = at[q].job
    OBVIOUS
  <2>3. /\ u \in Ticket /\ status[u] = "IMPLEMENTING" /\ FenceHolds(u)
        /\ lease[ScopeOf[u]] = fileLock[ScopeOf[u]] /\ fileLock[ScopeOf[u]] # None
    BY <2>1, <2>2, Committer
  <2>4. ScopeOf[u] # ScopeOf[t]
    BY <2>3 DEF FenceHolds, FileLockFree
  <2>5. FenceHolds(u)'
    BY <1>3, <1>4, <2>3, <2>4 DEF FenceHolds
  <2> QED BY <2>1, <2>2, <2>5 DEF FenceHolds
<1> QED BY <1>5, <1>7, <1>9, <1>10 DEF FenceInv, CommitsFenced

\* Admission takes the lease of the scope with its file lock.
LEMMA AdmitFence ==
    ASSUME TypeOK, CloseoutInv, FenceInv, NEW p \in Proc, Admit(p)
    PROVE  FenceInv'
<1>1. PICK t : t = at[p].job
  OBVIOUS
<1>2. /\ at[p].step = "admit" /\ Go(p, Queued(p)) /\ FileLockFree(ScopeOf[t], t)
      /\ lease' = [lease EXCEPT ![ScopeOf[t]] = Stamp(t, p)]
      /\ fileLock' = [fileLock EXCEPT ![ScopeOf[t]] = Stamp(t, p)]
      /\ status' = [status EXCEPT ![t] = "IMPLEMENTING"]
      /\ intruded' = (intruded \ {t})
            \cup {u \in Ticket \ {t} : ScopeOf[u] = ScopeOf[t] /\ status[u] = "IMPLEMENTING"}
  BY <1>1 DEF Admit, Doing, Job
<1>3. /\ at[p].phase = "advance" /\ p.kind = "tick" /\ t \in Ticket /\ WaveOf[t] = p.wave
      /\ status[t] = "APPROVED"
  BY <1>1, <1>2, AdmitPlace DEF TicketsOf
<1>4. Queued(p).phase # "observe" /\ Queued(p).step # "settle"
  <2>1. at'[p].phase = "advance" /\ at'[p].step = "next" /\ at'[p] = Queued(p)
    BY <1>2, <1>3, QueuedPlace, NewPlace
  <2> QED BY <2>1
<1>5. \A u \in Ticket \ {t} : status'[u] = status[u]
  BY <1>2 DEF TypeOK
<1> QED BY <1>2, <1>3, <1>4, <1>5, TakeFence

\* A land-retry that starts preserves FenceInv.
LEMMA LandRetryFence ==
    ASSUME TypeOK, CloseoutInv, FenceInv, NEW p \in Proc, LandRetry(p)
    PROVE  FenceInv'
<1>1. PICK t \in RetryTickets :
        /\ at[p].phase = "off" /\ p.wave = WaveOf[t] /\ status[t] = "FAILED"
        /\ FileLockFree(ScopeOf[t], t)
        /\ lease' = [lease EXCEPT ![ScopeOf[t]] = Stamp(t, p)]
        /\ fileLock' = [fileLock EXCEPT ![ScopeOf[t]] = Stamp(t, p)]
        /\ Go(p, [Off EXCEPT !.phase = "retry", !.step = "close", !.job = t])
        /\ UNCHANGED <<status, intruded>>
  BY DEF LandRetry, ticketVars
<1>2. t \in Ticket
  BY CloseoutAssumption
<1>3. PICK x : x = [Off EXCEPT !.phase = "retry", !.step = "close", !.job = t]
  OBVIOUS
<1>4. x.phase = "retry" /\ x.step = "close"
  BY <1>3 DEF Off
<1> QED BY <1>1, <1>2, <1>3, <1>4, TakeFence

\* Every step preserves FenceInv.
LEMMA StepFence ==
    ASSUME TypeOK, CloseoutInv, FenceInv, [Next]_vars
    PROVE  FenceInv'
<1>1. CASE UNCHANGED vars
  BY <1>1 DEF vars, ticketVars, lockVars, FenceInv, LocksPaired, IntrudedFenced, ObserverHolds,
              CommitsFenced, Committing, FenceHolds
<1>2. CASE Next
  <2>1. PICK p \in Proc : Advance(p) \/ LandRetry(p) \/ Crash(p)
    BY <1>2 DEF Next
  <2>2. CASE TickStep(p)
    BY <2>2, DispatchFence, ObserveFence, SettleFence, EndCloseoutFence, CheckScopeFence, AdmitFence,
       QuietFence DEF TickStep
  <2>3. CASE JobStep(p)
    BY <2>3, FinishFence, UnlockFence, QuietFence DEF JobStep
  <2> QED BY <2>1, <2>2, <2>3, QuietFence, LandRetryFence DEF Advance
<1> QED BY <1>1, <1>2

\* What FenceSound asks of a step: the tickets verified in it were never intruded upon.
LEMMA VerifiedFenced ==
    ASSUME TypeOK, CloseoutInv, FenceInv, [Next]_vars,
           NEW t \in Ticket, status[t] = "IMPLEMENTING", status'[t] = "VERIFYING", Mode[t] = "commit"
    PROVE  t \notin intruded
<1>1. PICK p \in Proc : Advance(p) \/ LandRetry(p) \/ Crash(p)
  BY DEF Next, vars, ticketVars
<1>2. Settle(p)
  BY <1>1
     DEF Advance, TickStep, JobStep, Dispatch, Observe, EndObserve, FinishFromProof, SetStatus,
         TakeLandLock, Defer, NotDue, SkipApply, Integrate, Publish, Prune, Record, Unlock, EndCloseout,
         CheckScope, Admit, NotAdmitted, EndTick, LeaveRetry, LandRetry, Crash, ticketVars, TypeOK
<1>3. t = at[p].job /\ Settled(p, t) = "VERIFYING" /\ at[p].step = "settle"
  BY <1>2 DEF Settle, Doing, Job, TypeOK
<1>4. Committing(p)
  BY <1>3 DEF Settled, Committing
<1>5. FenceHolds(t)
  BY <1>3, <1>4 DEF FenceInv, CommitsFenced
<1> QED BY <1>5 DEF FenceInv, IntrudedFenced

\* No commit-mode IMPL is verified after another ticket got its scope, whichever waves,
\* land-retries and crashes there are: what implFenceFailure read before runImplVerify
\* still holds when the settlement commits.
THEOREM FenceHoldsToCommit == Spec => FenceSound
<1>1. Init => FenceInv
  <2> SUFFICES ASSUME Init PROVE FenceInv
    OBVIOUS
  <2>1. \A p \in Proc : at[p].phase = "off" /\ at[p].step = "next"
    BY DEF Init, Off
  <2> QED BY <2>1 DEF Init, FenceInv, LocksPaired, IntrudedFenced, ObserverHolds, CommitsFenced,
                      Committing
<1>2. TypeOK /\ CloseoutInv /\ FenceInv /\ [Next]_vars => FenceInv'
  BY StepFence
<1>3. TypeOK /\ CloseoutInv /\ FenceInv /\ [Next]_vars
      => \A t \in Ticket :
            status[t] = "IMPLEMENTING" /\ status'[t] = "VERIFYING" /\ Mode[t] = "commit"
            => t \notin intruded
  BY VerifiedFenced
<1> QED BY Invariant, <1>1, <1>2, <1>3, PTL DEF Spec, FenceSound
=============================================================================
