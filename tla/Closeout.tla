------------------------------ MODULE Closeout ------------------------------
(***************************************************************************)
(* Writer leases, verification and land/apply closeout when several waves   *)
(* share one ledger and one repository, each driven by its own loop of      *)
(* short-lived CLI processes (WAVE_JOIN_SUPERVISOR=0): src/core/            *)
(* lease-release.ts, land-lock.ts, land-closeout.ts, apply-closeout.ts,     *)
(* pending-closeout.ts, and the parts of tick.ts, settlement.ts and         *)
(* admission.ts that call them.                                             *)
(*                                                                         *)
(* A wave is one operator identity (cli-wave:<WAVE_ID>), so the identity    *)
(* of a lease is the wave of its ticket.  A process is one tick of a wave   *)
(* or one land-retry; its pid is in the leases it stamps and is dead once   *)
(* it exits.  Lease TTLs (two hours) are longer than any process here       *)
(* lives and are left out, as are generations: a row that is deleted and    *)
(* taken again always has generation 1, so the fence compares nothing else  *)
(* than the ticket.                                                         *)
(***************************************************************************)
EXTENDS Naturals, FiniteSets

CONSTANTS
    Wave, Ticket, Scope,
    WaveOf,          \* the wave of each ticket
    ScopeOf,         \* its writer scope
    Mode,            \* its closeout mode, "commit" or "apply"
    MaxRetries,      \* limits.maxRetriesPerStage
    MaxFaults,       \* bound: processes that die and land-retry commands
    RetryTickets,    \* bound: the tickets they are given
    None             \* no lease, no job

ASSUME CloseoutAssumption ==
    /\ WaveOf \in [Ticket -> Wave] /\ ScopeOf \in [Ticket -> Scope]
    /\ Mode \in [Ticket -> {"commit", "apply"}]
    /\ MaxRetries \in Nat /\ MaxFaults \in Nat
    /\ RetryTickets \subseteq Ticket
    /\ "land" \notin Scope /\ None \notin Ticket

Proc == [kind : {"tick", "retry"}, wave : Wave]
Resource == Scope \cup {"land"}

VARIABLES
    status,       \* TicketRun.status
    attempt,      \* IMPL attempts admitted
    worker,       \* the IMPL worker and its open row: see WorkerState
    applied,      \* FAILED tickets whose result says "applied"
    proven,       \* tickets whose LAND.json or APPLY.json says ok: true
    tree,         \* tickets whose impl worktree is on disk
    primary,      \* tickets whose work is on the primary checkout
    lease,        \* the lease rows: writer:<repo>:<scope> and land:<repo>
    fileLock,     \* the host file lock of each writer scope, if its pid lives
    at,           \* where each process is
    over,         \* waves that maybeCompleteWave ended
    faults,
    intruded,     \* history: implemented while another ticket had their scope
    crowded       \* history: tickets two processes were landing at once, see Crowds

ticketVars == <<status, attempt, worker, applied, over, intruded, crowded>>
repoVars == <<proven, tree, primary>>
lockVars == <<lease, fileLock>>
vars == <<ticketVars, repoVars, lockVars, at, faults>>

TicketStatus == {"APPROVED", "IMPLEMENTING", "VERIFYING", "DONE", "FAILED"}
WorkerState == {"none", "queued", "running"}
Phase == {"off", "observe", "closeout", "advance", "retry", "leaving"}
Step == {"next", "settle", "close", "locked", "publish", "prune",
         "record", "unlock", "admit"}
Kind == {"tick", "retry"}
Lease == [ticket : Ticket, pid : Kind \cup {"dead"}]
FileLock == [ticket : Ticket, pid : Kind]
Place == [phase : Phase, step : Step, todo : SUBSET Ticket, job : Ticket \cup {None},
          result : {"none", "ok", "failed", "fenced"}, doneOnOk : BOOLEAN, idle : BOOLEAN]

\* The type invariant; doneOnOk is only false while an exhausted apply is at work.
TypeOK ==
    /\ status \in [Ticket -> TicketStatus]
    /\ attempt \in [Ticket -> 0..(MaxRetries + 1)]
    /\ worker \in [Ticket -> WorkerState]
    /\ applied \subseteq Ticket /\ tree \subseteq Ticket /\ primary \subseteq Ticket
    /\ intruded \subseteq Ticket /\ crowded \subseteq Ticket /\ over \subseteq Wave
    /\ proven \subseteq Ticket
    /\ lease \in [Resource -> Lease \cup {None}]
    /\ fileLock \in [Scope -> FileLock \cup {None}]
    /\ at \in [Proc -> Place]
    /\ faults \in 0..MaxFaults

Off == [phase |-> "off", step |-> "next", todo |-> {}, job |-> None,
        result |-> "none", doneOnOk |-> TRUE, idle |-> FALSE]

Init ==
    /\ status = [t \in Ticket |-> "APPROVED"]
    /\ attempt = [t \in Ticket |-> 0]
    /\ worker = [t \in Ticket |-> "none"]
    /\ applied = {} /\ tree = {} /\ primary = {} /\ proven = {} /\ over = {}
    /\ intruded = {} /\ crowded = {}
    /\ lease = [r \in Resource |-> None]
    /\ fileLock = [s \in Scope |-> None]
    /\ at = [p \in Proc |-> Off]
    /\ faults = 0

----------------------------------------------------------------------------
(* Leases and their file locks (lease.ts, repo-authority.ts). *)

Active(t) == status[t] \in {"IMPLEMENTING", "VERIFYING", "APPROVED"}
Terminal(t) == status[t] \in {"DONE", "FAILED"}
TicketsOf(w) == {t \in Ticket : WaveOf[t] = w}

\* weHold: same holder and process identity; the pid is not compared.
WeHold(p, l) == l # None /\ WaveOf[l.ticket] = p.wave

\* canAcquire: "acquire" or "hold"; a foreign lease that is not expired denies.
CanAcquire(p, r) == lease[r] # None => WeHold(p, lease[r])

\* tryAcquire succeeds on a free lock, a dead pid's, and the ticket's own.
FileLockFree(s, t) == fileLock[s] # None => fileLock[s].ticket = t

\* The file lock that goes with a lease row: release leaves any other ticket's alone.
Paired(s) == fileLock[s] # None /\ lease[s] # None /\ fileLock[s].ticket = lease[s].ticket

\* heldBy: a living pid's file lock, which is not that of t.
HeldElsewhere(s, t) == fileLock[s] # None /\ fileLock[s].ticket # t

\* The pid a process writes: its kind, its wave being the ticket's.
Stamp(t, p) == [ticket |-> t, pid |-> p.kind]

\* Rows gone, each with the file lock of the same ticket.
Dropped(rows) ==
    /\ lease' = [r \in Resource |-> IF r \in rows THEN None ELSE lease[r]]
    /\ fileLock' = [s \in Scope |->
          IF s \in rows /\ Paired(s) THEN None ELSE fileLock[s]]

\* refreshHeldLeases: the wave's own IMPL-active leases get this pid.
Refreshed(p) == {r \in Resource : WeHold(p, lease[r]) /\ Active(lease[r].ticket)}

\* isLeaseStale or pidIsDead.
PidIsDead(l) == l # None /\ l.pid = "dead"

\* expireStaleLeases, over every lease of the ledger: a dead pid's lease goes.
Stale(p) == {r \in Resource \ Refreshed(p) : PidIsDead(lease[r])}

RefreshAndExpire(p) ==
    LET kept == Refreshed(p)
        stale == Stale(p)
    IN  /\ lease' = [r \in Resource |->
              IF r \in kept THEN Stamp(lease[r].ticket, p)
              ELSE IF r \in stale THEN None ELSE lease[r]]
        /\ fileLock' = [s \in Scope |->
              IF s \in kept /\ FileLockFree(s, lease[s].ticket) THEN Stamp(lease[s].ticket, p)
              ELSE IF s \in stale /\ Paired(s) THEN None ELSE fileLock[s]]

\* releaseWriterLeaseIfHeld, for a ticket that becomes st.
LeaseRows(p, t, st) ==
    {s \in {ScopeOf[t]} : /\ st \in {"DONE", "FAILED"}
                          /\ WeHold(p, lease[s]) /\ lease[s].ticket = t}

\* A process is gone: its pid is dead in every lease, its file locks are free.
PidDies(p) ==
    /\ lease' = [r \in Resource |->
          IF WeHold(p, lease[r]) /\ lease[r].pid = p.kind THEN [lease[r] EXCEPT !.pid = "dead"]
          ELSE lease[r]]
    /\ fileLock' = [s \in Scope |->
          IF WeHold(p, fileLock[s]) /\ fileLock[s].pid = p.kind THEN None ELSE fileLock[s]]

----------------------------------------------------------------------------
(* Where a process goes. *)

Go(p, change) == at' = [at EXCEPT ![p] = change]
Await(p, s) == Go(p, [at[p] EXCEPT !.step = s])
Enter(p, ph, work) == Go(p, [Off EXCEPT !.phase = ph, !.todo = work])

\* Done with the job: a tick takes the next of its loop, a land-retry exits.
Left(p, t) == IF p.kind = "retry" THEN [Off EXCEPT !.phase = "leaving"]
              ELSE [Off EXCEPT !.phase = at[p].phase, !.todo = at[p].todo \ {t}]

Doing(p, s) == at[p].step = s
Job(p) == at[p].job

SetStatus(t, st) == status' = [status EXCEPT ![t] = st]

----------------------------------------------------------------------------
(* The tick of a wave: dispatch, observe. *)

\* A tick begins: leases first, then every queued row gets its worktree and its
\* worker, and no lease is looked at (what others do in between meets nothing of a
\* dispatch); which workers inspect then finds over is a choice.
Dispatch(p) ==
    /\ p.kind = "tick" /\ at[p].phase = "off" /\ p.wave \notin over
    /\ RefreshAndExpire(p)
    /\ LET queued == {t \in TicketsOf(p.wave) : worker[t] = "queued"} IN
       /\ worker' = [t \in Ticket |-> IF t \in queued THEN "running" ELSE worker[t]]
       /\ tree' = tree \cup queued
    /\ \E ended \in SUBSET {t \in TicketsOf(p.wave) : worker'[t] = "running"} :
          Enter(p, "observe", ended)
    /\ UNCHANGED <<status, attempt, applied, over, intruded, crowded, proven, primary, faults>>

\* Seeded fault: a missing lease is no failure.
FenceHoldsOrMissing(t) ==
    LET l == lease[ScopeOf[t]] IN l # None => l.ticket = t

\* implFenceFailure finds nothing.
FenceHolds(t) ==
    LET l == lease[ScopeOf[t]] IN l # None /\ l.ticket = t

\* settleOutbox up to its transaction: the worker's end and, in commit mode, the
\* fence are read, then runImplVerifyAndCommit tests in the worktree for minutes;
\* how worker and tests end is a choice.  An apply-mode ticket needs no lease.
Observe(p) == \E t \in at[p].todo, result \in {"ok", "failed", "fenced"} :
    /\ at[p].phase = "observe" /\ Doing(p, "next")
    /\ result = "ok" => (Mode[t] = "commit" => FenceHolds(t))
    /\ result = "fenced" => Mode[t] = "commit" /\ ~FenceHolds(t)
    /\ Go(p, [at[p] EXCEPT !.job = t, !.step = "settle", !.result = result])
    /\ UNCHANGED <<ticketVars, repoVars, lockVars, faults>>

\* Seeded fault: one retry too many.
SettledOneMore(p, t) ==
    CASE at[p].result = "ok" -> "VERIFYING"
      [] at[p].result = "failed" /\ attempt[t] - 1 <= MaxRetries -> "APPROVED"
      [] OTHER -> "FAILED"

\* A broken fence is never retried (stageDeathNoRetry).
Settled(p, t) ==
    CASE at[p].result = "ok" -> "VERIFYING"
      [] at[p].result = "failed" /\ attempt[t] - 1 < MaxRetries -> "APPROVED"
      [] OTHER -> "FAILED"

\* The settlement transaction, and what follows it: land, or apply what is left.
Settle(p) ==
    /\ Doing(p, "settle")
    /\ LET t == Job(p)
           st == Settled(p, t)
       IN  /\ status' = [status EXCEPT ![t] = st]
           /\ worker' = [worker EXCEPT ![t] = "none"]
           /\ intruded' = intruded \ {t}
           /\ Dropped(LeaseRows(p, t, st))
           /\ IF st = "VERIFYING" \/ (st = "FAILED" /\ Mode[t] = "apply")
              THEN Await(p, "close") ELSE Go(p, Left(p, t))
    /\ UNCHANGED <<attempt, applied, over, crowded, repoVars, faults>>

----------------------------------------------------------------------------
(* advancePendingCloseouts. *)

\* No fence is asked for: a VERIFYING ticket goes on to land in any later tick.
EndObserve(p) ==
    /\ at[p].phase = "observe" /\ Doing(p, "next") /\ at[p].todo = {}
    /\ Enter(p, "closeout", {t \in TicketsOf(p.wave) :
          \/ status[t] = "VERIFYING"
          \/ status[t] = "FAILED" /\ Mode[t] = "apply" /\ t \notin applied /\ attempt[t] > 0})
    /\ UNCHANGED <<ticketVars, repoVars, lockVars, faults>>

\* The tickets whose closeout a process may begin: the one it has settled or was
\* told to retry, or any its loop has left.
Turn(p) ==
    IF Doing(p, "close") THEN {Job(p)}
    ELSE IF at[p].phase = "closeout" /\ Doing(p, "next") THEN at[p].todo ELSE {}

\* applyOnExhaustedImpl instead of finalizeImplLand.
Exhausted(p, t) == p.kind = "tick" /\ status[t] = "FAILED"

\* finalizeImplLand reads ticket and proof before it asks for the land lock and
\* again under it: a ticket that is DONE or has its proof needs no landing.
Reads(p) ==
    {t \in Turn(p) : ~Exhausted(p, t)}
    \cup (IF Doing(p, "locked") /\ at[p].doneOnOk THEN {Job(p)} ELSE {})

Finished(t) == status[t] = "DONE" \/ t \in proven

UnderLandLock(p, t) ==
    Job(p) = t /\ at[p].step \in {"locked", "publish", "prune", "record"}

\* The land lock lets the operator's own ticket through, so a land-retry of an apply
\* ticket may take it up while a tick is at its exhausted apply, or the tick may.
Crowds(p, t) == {u \in {t} : \E q \in Proc \ {p} : UnderLandLock(q, u)}

\* finishFromDurableProof, with the worktree there or not; nothing for a DONE ticket.
FinishFromProof(p) == \E t \in Reads(p) :
    /\ Finished(t)
    /\ SetStatus(t, "DONE")
    /\ Dropped(IF status[t] = "DONE" THEN {} ELSE LeaseRows(p, t, "DONE"))
    /\ IF Doing(p, "locked") THEN Await(p, "unlock") ELSE Go(p, Left(p, t))
    /\ crowded' = crowded \cup Crowds(p, t)
    /\ UNCHANGED <<attempt, worker, applied, over, intruded, repoVars, faults>>

WantsLandLock(p) == {t \in Turn(p) : Exhausted(p, t) \/ ~Finished(t)}

\* Seeded fault: a lock that a crash left behind is not taken over by its ticket.
LandLockFreeOnce(p, t) == lease["land"] = None

\* acquireExclusiveLandLock: own ticket holds on, everybody else defers.
LandLockFree(p, t) ==
    lease["land"] # None => WeHold(p, lease["land"]) /\ lease["land"].ticket = t

TakeLandLock(p) == \E t \in WantsLandLock(p) :
    /\ LandLockFree(p, t)
    /\ lease' = [lease EXCEPT !["land"] = Stamp(t, p)]
    /\ Go(p, [at[p] EXCEPT !.step = "locked", !.job = t, !.doneOnOk = ~Exhausted(p, t)])
    /\ crowded' = crowded \cup Crowds(p, t)
    /\ UNCHANGED <<status, attempt, worker, applied, over, intruded, repoVars, fileLock, faults>>

Defer(p) == \E t \in WantsLandLock(p) :
    /\ ~LandLockFree(p, t)
    /\ Go(p, Left(p, t))
    /\ UNCHANGED <<ticketVars, repoVars, lockVars, faults>>

----------------------------------------------------------------------------
(* executeLandToMain and applyToWorkdir, cut where a crash makes a difference. *)

\* An exhausted apply is due as long as nobody made the ticket DONE.
NotDue(p) ==
    /\ Doing(p, "locked") /\ ~at[p].doneOnOk /\ status[Job(p)] # "FAILED"
    /\ Await(p, "unlock")
    /\ UNCHANGED <<ticketVars, repoVars, lockVars, faults>>

\* Its proof is there already: only the outcome is recorded.
SkipApply(p) ==
    /\ Doing(p, "locked") /\ ~at[p].doneOnOk /\ status[Job(p)] = "FAILED" /\ Job(p) \in proven
    /\ Go(p, [at[p] EXCEPT !.step = "record", !.result = "ok"])
    /\ UNCHANGED <<ticketVars, repoVars, lockVars, faults>>

MayIntegrate(p) ==
    /\ Doing(p, "locked") /\ Job(p) \notin proven
    /\ IF at[p].doneOnOk THEN ~Finished(Job(p)) ELSE status[Job(p)] = "FAILED"

\* The proof file of a failure is written, then the outcome is recorded.
FailWith(p) ==
    /\ proven' = proven \ {Job(p)}
    /\ Go(p, [at[p] EXCEPT !.step = "record", !.result = "failed"])

\* Seeded fault: the merge's exit status is ignored.
IntegrateUnmerged(p) ==
    /\ MayIntegrate(p)
    /\ \E merged \in SUBSET (tree \cap {Job(p)}) : primary' = primary \cup merged
    /\ Await(p, "publish")
    /\ UNCHANGED <<ticketVars, tree, proven, lockVars, faults>>

\* A commit that is on the checkout already is not merged again; no worktree, no merge.
Merge(p) ==
    /\ Mode[Job(p)] = "commit" /\ Job(p) \in tree
    /\ primary' = primary \cup {Job(p)}

\* Without a worktree there is nothing to copy, and no error.
CopyFiles(p) ==
    /\ Mode[Job(p)] = "apply"
    /\ primary' = primary \cup (tree \cap {Job(p)})

Integrate(p) ==
    /\ MayIntegrate(p)
    /\ \/ /\ Merge(p) \/ CopyFiles(p)
          /\ Await(p, "publish")
          /\ UNCHANGED proven
       \/ FailWith(p) /\ UNCHANGED primary
    /\ UNCHANGED <<ticketVars, tree, lockVars, faults>>

\* The proof of a success is written.
Prove(p) ==
    /\ proven' = proven \cup {Job(p)}
    /\ Await(p, "prune")

\* Seeded fault: the worktree is removed before the proof is written.
PublishPruned(p) ==
    /\ Doing(p, "publish")
    /\ tree' = tree \ {Job(p)}
    /\ \/ Await(p, "prune") /\ UNCHANGED proven
       \/ FailWith(p)
    /\ UNCHANGED <<ticketVars, primary, lockVars, faults>>

\* Push and board commit, or the apply commit, any of which may fail with the work
\* on the checkout already; then the proof.
Publish(p) ==
    /\ Doing(p, "publish")
    /\ Prove(p) \/ FailWith(p)
    /\ UNCHANGED <<ticketVars, tree, primary, lockVars, faults>>

\* removeImplWorktree; when it fails the tree stays, as after a crash here.
Prune(p) ==
    /\ Doing(p, "prune")
    /\ tree' = tree \ {Job(p)}
    /\ Go(p, [at[p] EXCEPT !.step = "record", !.result = "ok"])
    /\ UNCHANGED <<ticketVars, proven, primary, lockVars, faults>>

\* recordCommitLand, recordApplyOutcome: whatever the ticket has become meanwhile.
Record(p) ==
    /\ Doing(p, "record")
    /\ LET t == Job(p)
           done == at[p].result = "ok" /\ at[p].doneOnOk
       IN  /\ status' = [status EXCEPT ![t] = IF done THEN "DONE" ELSE "FAILED"]
           /\ applied' = IF at[p].doneOnOk THEN applied \ {t}
                         ELSE IF at[p].result = "ok" THEN applied \cup {t} ELSE applied
    /\ Await(p, "unlock")
    /\ UNCHANGED <<attempt, worker, over, intruded, crowded, repoVars, lockVars, faults>>

\* releaseExclusiveLandLock deletes any land lock of this identity, whichever
\* ticket it names; then, after finalizeImplLand, the writer lease goes.
Unlock(p) ==
    /\ Doing(p, "unlock")
    /\ LET t == Job(p) IN
       Dropped({r \in {"land"} : WeHold(p, lease[r])}
               \cup (IF at[p].doneOnOk THEN LeaseRows(p, t, status[t]) ELSE {}))
    /\ Go(p, Left(p, Job(p)))
    /\ UNCHANGED <<ticketVars, repoVars, faults>>

----------------------------------------------------------------------------
(* releaseInactiveWriterLeases and advanceReadyTickets. *)

\* Own leases whose ticket is not IMPL-active go, the land lock of a land-retry too.
EndCloseout(p) ==
    /\ at[p].phase = "closeout" /\ Doing(p, "next") /\ at[p].todo = {}
    /\ Dropped({r \in Resource : WeHold(p, lease[r]) /\ ~Active(lease[r].ticket)})
    /\ Go(p, [Off EXCEPT !.phase = "advance",
                         !.todo = {t \in TicketsOf(p.wave) : status[t] = "APPROVED"},
                         !.idle = \A t \in TicketsOf(p.wave) : worker[t] = "none"])
    /\ UNCHANGED <<ticketVars, repoVars, faults>>

\* Another ticket of the wave has an open IMPL row in this scope.
ScopeBusy(t) == \E u \in TicketsOf(WaveOf[t]) :
    u # t /\ ScopeOf[u] = ScopeOf[t] /\ worker[u] # "none"

\* An own lease whose ticket is over is deleted and does not block.
LeaseLeftOver(p, t) ==
    LET l == lease[ScopeOf[t]] IN WeHold(p, l) /\ l.ticket # t /\ Terminal(l.ticket)

LeaseBlocks(p, t) ==
    LET l == lease[ScopeOf[t]] IN l # None /\ l.ticket # t /\ ~LeaseLeftOver(p, t)

\* busyImplScopes and writerLeaseBlocksImpl; then an await (the dirty check).
CheckScope(p) == \E t \in at[p].todo :
    /\ at[p].phase = "advance" /\ Doing(p, "next")
    /\ LET leftOver == {s \in {ScopeOf[t]} : LeaseLeftOver(p, t)}
           freed == leftOver # {} /\ Paired(ScopeOf[t])
           blocked == LeaseBlocks(p, t) \/ (HeldElsewhere(ScopeOf[t], t) /\ ~freed)
       IN  IF ScopeBusy(t)
           THEN Go(p, [at[p] EXCEPT !.todo = @ \ {t}]) /\ UNCHANGED lockVars
           ELSE /\ Dropped(leftOver)
                /\ Go(p, IF blocked THEN [at[p] EXCEPT !.todo = @ \ {t}]
                         ELSE [at[p] EXCEPT !.job = t, !.step = "admit"])
    /\ UNCHANGED <<ticketVars, repoVars, faults>>

\* A stage counts as queued, and its scope as busy, also when it was not admitted.
Queued(p) ==
    [at[p] EXCEPT !.step = "next", !.job = None, !.idle = FALSE,
                  !.todo = {t \in @ : ScopeOf[t] # ScopeOf[Job(p)]}]

\* queueStage: the lease, then the file lock, in the admission transaction.
Admit(p) ==
    /\ Doing(p, "admit")
    /\ LET t == Job(p)
           s == ScopeOf[t]
       IN  /\ CanAcquire(p, s) /\ FileLockFree(s, t)
           /\ lease' = [lease EXCEPT ![s] = Stamp(t, p)]
           /\ fileLock' = [fileLock EXCEPT ![s] = Stamp(t, p)]
           /\ status' = [status EXCEPT ![t] = "IMPLEMENTING"]
           /\ attempt' = [attempt EXCEPT ![t] = @ + 1]
           /\ worker' = [worker EXCEPT ![t] = "queued"]
           /\ intruded' = (intruded \ {t})
                 \cup {u \in Ticket \ {t} : ScopeOf[u] = s /\ status[u] = "IMPLEMENTING"}
    /\ Go(p, Queued(p))
    /\ UNCHANGED <<applied, over, crowded, repoVars, faults>>

\* A process exits, its tick done or not.
Exit(p) == Go(p, Off) /\ PidDies(p)

\* AuthorityBusy is swallowed; a lease that is denied defers, or ends an idle tick.
NotAdmitted(p) ==
    /\ Doing(p, "admit")
    /\ LET s == ScopeOf[Job(p)] IN
       \/ CanAcquire(p, s) /\ ~FileLockFree(s, Job(p)) /\ Go(p, Queued(p)) /\ UNCHANGED lockVars
       \/ /\ ~CanAcquire(p, s)
          /\ IF at[p].idle THEN Exit(p)
             ELSE Go(p, [Off EXCEPT !.phase = "advance"]) /\ UNCHANGED lockVars
    /\ UNCHANGED <<ticketVars, repoVars, faults>>

\* liveForeignOrSiblingLease.
LeaseWaits(p, t) ==
    LET l == lease[ScopeOf[t]] IN
    l # None /\ (l.ticket = t \/ Active(l.ticket) \/ ~WeHold(p, l))

\* failUnlaunchableApproved, maybeCompleteWave, and the process exits.
EndTick(p) ==
    /\ at[p].phase = "advance" /\ Doing(p, "next") /\ at[p].todo = {}
    /\ LET mine == TicketsOf(p.wave)
           working == \E t \in mine :
                         status[t] \in {"IMPLEMENTING", "VERIFYING"} \/ worker[t] # "none"
       IN  /\ status' = [t \in Ticket |->
                 IF t \in mine /\ status[t] = "APPROVED" /\ ~working /\ ~LeaseWaits(p, t)
                 THEN "FAILED" ELSE status[t]]
           /\ over' = IF \A t \in mine : status'[t] \in {"DONE", "FAILED"}
                      THEN over \cup {p.wave} ELSE over
    /\ Exit(p)
    /\ UNCHANGED <<attempt, worker, applied, intruded, crowded, repoVars, faults>>

----------------------------------------------------------------------------
(* land-retry, workers, crashes. *)

\* retryImplLand: the lease is taken even from another ticket of the wave.
LandRetry(p) == \E t \in RetryTickets :
    /\ p.kind = "retry" /\ at[p].phase = "off" /\ p.wave = WaveOf[t]
    /\ faults < MaxFaults /\ faults' = faults + 1
    /\ status[t] = "FAILED" /\ attempt[t] > 0
    /\ CanAcquire(p, ScopeOf[t]) /\ FileLockFree(ScopeOf[t], t)
    /\ lease' = [lease EXCEPT ![ScopeOf[t]] = Stamp(t, p)]
    /\ fileLock' = [fileLock EXCEPT ![ScopeOf[t]] = Stamp(t, p)]
    /\ Go(p, [Off EXCEPT !.phase = "retry", !.step = "close", !.job = t])
    /\ UNCHANGED <<ticketVars, repoVars>>

LeaveRetry(p) ==
    /\ at[p].phase = "leaving"
    /\ Exit(p)
    /\ UNCHANGED <<ticketVars, repoVars, faults>>

Crash(p) ==
    /\ at[p].phase # "off"
    /\ faults < MaxFaults /\ faults' = faults + 1
    /\ Exit(p)
    /\ UNCHANGED <<ticketVars, repoVars>>

JobStep(p) ==
    \/ FinishFromProof(p) \/ TakeLandLock(p) \/ Defer(p) \/ NotDue(p) \/ SkipApply(p)
    \/ Integrate(p) \/ Publish(p) \/ Prune(p) \/ Record(p) \/ Unlock(p)

TickStep(p) ==
    \/ Dispatch(p) \/ Observe(p) \/ Settle(p) \/ EndObserve(p)
    \/ EndCloseout(p) \/ CheckScope(p) \/ Admit(p)
    \/ NotAdmitted(p) \/ EndTick(p)

Advance(p) == TickStep(p) \/ JobStep(p) \/ LeaveRetry(p)

Next == \E p \in Proc : Advance(p) \/ LandRetry(p) \/ Crash(p)

Spec == Init /\ [][Next]_vars

\* Advance(p) is not enabled: a land-retry nobody has called, a loop whose wave is over.
Resting(p) == at[p].phase = "off" /\ (p.kind = "tick" => p.wave \in over)

\* The loop of each wave goes on ticking, and a process that runs goes on: weak fairness
\* of Advance(p), written out (each of its steps changes at[p], and of the others that
\* do, Crash and LandRetry, there are finitely many).
Fairness == \A p \in Proc : []<>Resting(p) \/ []<><<TRUE>>_(at[p])

FairSpec == Spec /\ Fairness

----------------------------------------------------------------------------
(* Properties. *)

\* Each ticket's life, seen from the repository; a crowded one passes for FAILED.
StageOf(t) ==
    IF t \in crowded THEN "FAILED"
    ELSE CASE status[t] \in {"APPROVED", "IMPLEMENTING"} -> "working"
           [] status[t] = "VERIFYING" -> "closing"
           [] OTHER -> status[t]

Landing == INSTANCE RepoLanding WITH
              stage <- [t \in Ticket |-> StageOf(t)], onPrimary <- primary

\* Whatever the interleaving of ticks, land-retries and crashes, each ticket
\* follows RepoLanding: DONE is recorded only for work that is on the primary
\* checkout, and is final, unless two processes were landing the ticket at once: the
\* exhausted apply may then record FAILED over the DONE of the land-retry.
ImplementsRepoLanding == Landing!Spec

\* A worktree is only gone, and a ticket only DONE, when its work is on the primary
\* checkout; and with the worktree gone the proof that lets any later tick finish the
\* ticket is on disk, unless two processes were landing it at once.
NoLostWork == \A t \in Ticket :
    /\ attempt[t] > 0 /\ t \notin tree /\ worker[t] = "none"
       => t \in primary /\ t \in proven \cup crowded
    /\ status[t] = "DONE" => t \in primary

\* A commit-mode IMPL is verified only if no other ticket was admitted to its
\* scope since: the fence, read before a verification of minutes, still holds when
\* the settlement commits, because nobody can take the lease from a living tick.
FenceSound == [][\A t \in Ticket :
    status[t] = "IMPLEMENTING" /\ status'[t] = "VERIFYING" /\ Mode[t] = "commit"
    => t \notin intruded]_vars

\* An exhausted apply that fails is tried again on every tick of its wave.
Contended == \E t \in Ticket :
    status[t] = "FAILED" /\ Mode[t] = "apply" /\ attempt[t] > 0 /\ t \notin applied

\* Closeout comes to an end: contention defers, crashes leave locks of dead processes
\* and half-done landings, and still every VERIFYING ticket is decided, unless an
\* exhausted apply keeps failing and has the land lock whenever the others ask.
VerifyingResolves ==
    <>[](~Contended) => <>[](\A t \in Ticket : status[t] # "VERIFYING")

\* docs/OPERATOR-RUNBOOK.md:99: "Same-scope IMPL is exclusive across waves".  Checked
\* to be violated: a wave's tick deletes the lease another wave's exited tick left on
\* a ticket whose worker is running (expireStaleLeases).
ScopeExclusive == \A t, u \in Ticket :
    t # u /\ ScopeOf[t] = ScopeOf[u] => ~(worker[t] = "running" /\ worker[u] = "running")
=============================================================================
