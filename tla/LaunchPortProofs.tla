-------------------------- MODULE LaunchPortProofs --------------------------
(***************************************************************************)
(* The launch ledger for any number of rows, processes and faults: its       *)
(* types, that every row follows LaunchLog, and that a second copy of a     *)
(* worker or a worker left behind has an explanation.                       *)
(*                                                                         *)
(* PortInv is the inductive invariant behind the types and the refinement.  *)
(* Types need a count: a process may start a copy of a row once for each    *)
(* time it took the row into the snapshot of its dispatch loop, which it    *)
(* does only while the row is PENDING, so there are never more copies than  *)
(* processes (Counted).  The refinement needs that what a process knows     *)
(* when it has a row at hand stays true while it waits (HandOK): a row does *)
(* not become PENDING again, nor loses its receipt, its outcome or its      *)
(* place past the wall.                                                     *)
(*                                                                         *)
(* CalmInv is the one behind the explanations.  It says what is true of a   *)
(* row that met neither a fault nor two processes at once: who has it, and  *)
(* that a copy that was started either has its receipt on disk or is just   *)
(* about to.                                                                *)
(***************************************************************************)
EXTENDS LaunchPort, FiniteSetTheorems, TLAPS

\* The steps of each loop.
StepsOf(ph) == CASE ph = "reconcile" -> {"next", "recover", "inspect", "settle"}
                 [] ph = "dispatch" -> {"next", "launch", "exec", "link"}
                 [] ph \in {"observe", "watch"} -> {"next", "settle"}
                 [] OTHER -> {"next"}

PlaceOK(p) ==
    /\ at[p].step \in StepsOf(at[p].phase)
    /\ at[p].phase \in {"off", "over"} => at[p].todo = {}
    /\ at[p].step = "next" <=> at[p].job = None
    /\ at[p].step # "next" => at[p].job \in at[p].todo

\* What a process relies on: of its snapshot, and of its job.
HandOK(p) ==
    /\ at[p].phase \in {"reconcile", "observe", "watch"} =>
          \A r \in at[p].todo : row[r] # "PENDING"
    /\ at[p].phase = "watch" => \A r \in at[p].todo : row[r] # "CLAIMED" /\ r \in overdue
    /\ at[p].phase = "observe" => \A r \in at[p].todo : receipt[r] # 0
    /\ at[p].step = "inspect" => receipt[at[p].job] # 0
    /\ at[p].step = "settle" =>
          at[p].job \in overdue \/ (at[p].job \in reported /\ receipt[at[p].job] # 0)
    /\ at[p].step \in {"launch", "exec", "link"} => row[at[p].job] # "PENDING"
    /\ at[p].step \in {"exec", "link"} => at[p].copy \in 1..launches[at[p].job]

\* Receipts are of copies that were started, and so are the copies that run.
RowOK(r) ==
    /\ disk[r] <= launches[r] /\ receipt[r] <= launches[r] /\ live[r] \subseteq 1..launches[r]
    /\ row[r] = "PENDING" => launches[r] = 0
    /\ row[r] = "LAUNCHED" => receipt[r] # 0
    /\ r \in reported => launches[r] > 0

\* The processes that may still start a copy of a row.
CanLaunch(r) ==
    {p \in Ticker : \/ row[r] = "PENDING"
                    \/ /\ at[p].phase = "dispatch" /\ r \in at[p].todo
                       /\ at[p].job = r => at[p].step = "launch"}

Counted(r) == launches[r] + Cardinality(CanLaunch(r)) <= Cardinality(Ticker)

PortInv ==
    /\ \A p \in Ticker : PlaceOK(p) /\ HandOK(p)
    /\ \A r \in Row : RowOK(r) /\ Counted(r)

----------------------------------------------------------------------------
(* Places. *)

\* Processes and rows are numbers, and finitely many.
LEMMA Counts ==
    /\ Cardinality(Ticker) \in Nat /\ IsFiniteSet(Ticker)
    /\ \A r \in Row : IsFiniteSet(CanLaunch(r)) /\ Cardinality(CanLaunch(r)) \in Nat
    /\ \A r \in Row : r \in Nat /\ r # None
<1>1. \A r \in Row : CanLaunch(r) \in SUBSET Ticker
  BY DEF CanLaunch
<1> QED BY <1>1, LaunchAssumption, FS_Subset, FS_CardinalityType DEF None

\* Where p is after it moved; the others have not.
LEMMA NewPlace ==
    ASSUME TypeOK, NEW p \in Ticker, NEW x, Go(p, x)
    PROVE  at'[p] = x /\ \A q \in Ticker \ {p} : at'[q] = at[q]
BY DEF TypeOK, Go

\* A process that is not ticking is at a place.
LEMMA OffPlace == Off \in Place
BY Counts DEF Off, Place, Phase, Step, None, Copy

\* A process that enters a loop has its snapshot and no row in hand.
LEMMA EnterPlace ==
    ASSUME TypeOK, NEW p \in Ticker, NEW ph \in Phase, NEW rows \in SUBSET Row,
           ph \in {"off", "over"} => rows = {}, Enter(p, ph, rows)
    PROVE  /\ at' \in [Ticker -> Place] /\ (\E x : Go(p, x)) /\ PlaceOK(p)'
           /\ at'[p].phase = ph /\ at'[p].todo = rows /\ at'[p].job = None /\ at'[p].step = "next"
<1>1. [Off EXCEPT !.phase = ph, !.todo = rows] \in Place
  BY OffPlace DEF Place
<1>2. at'[p] = [Off EXCEPT !.phase = ph, !.todo = rows] /\ at' \in [Ticker -> Place]
  BY <1>1, NewPlace DEF Enter, Go, TypeOK
<1>3. at'[p].phase = ph /\ at'[p].todo = rows /\ at'[p].job = None /\ at'[p].step = "next"
  BY <1>2 DEF Off
<1>4. PlaceOK(p)'
  BY <1>3 DEF PlaceOK, StepsOf, Phase
<1> QED BY <1>2, <1>3, <1>4 DEF Enter

\* A process that leaves a row goes on in the same loop without it.
LEMMA LeavePlace ==
    ASSUME TypeOK, NEW p \in Ticker, PlaceOK(p), at[p].step # "next", Leave(p)
    PROVE  /\ at' \in [Ticker -> Place] /\ (\E x : Go(p, x)) /\ PlaceOK(p)'
           /\ at'[p].phase = at[p].phase /\ at'[p].todo = at[p].todo \ {at[p].job}
           /\ at'[p].job = None /\ at'[p].step = "next"
<1>1. at[p] \in Place
  BY DEF TypeOK
<1>2. /\ at[p].phase \in Phase /\ at[p].todo \ {at[p].job} \in SUBSET Row
      /\ at[p].phase \notin {"off", "over"}
  BY <1>1 DEF Place, PlaceOK, StepsOf
<1> QED BY <1>2, EnterPlace DEF Leave, Job

\* A tick that ends leaves nothing behind in its process.
LEMMA ExitPlace ==
    ASSUME TypeOK, NEW p \in Ticker, Exit(p)
    PROVE  /\ at' \in [Ticker -> Place] /\ (\E x : Go(p, x)) /\ PlaceOK(p)'
           /\ at'[p].phase \in {"off", "over"} /\ at'[p].todo = {}
           /\ at'[p].job = None /\ at'[p].step = "next"
<1>1. PICK x \in {Off, [Off EXCEPT !.phase = "over"]} : Go(p, x)
  BY DEF Exit
<1>2. x \in Place
  BY OffPlace DEF Place, Phase
<1>3. at'[p] = x /\ at' \in [Ticker -> Place]
  BY <1>1, <1>2, NewPlace DEF Go, TypeOK
<1>4. /\ at'[p].phase \in {"off", "over"} /\ at'[p].todo = {} /\ at'[p].job = None
      /\ at'[p].step = "next"
  BY <1>1, <1>3 DEF Off
<1>5. PlaceOK(p)'
  BY <1>4 DEF PlaceOK, StepsOf
<1> QED BY <1>1, <1>3, <1>4, <1>5

\* A process that awaits something for a row of its loop has it in hand.
LEMMA AwaitForPlace ==
    ASSUME TypeOK, NEW p \in Ticker, PlaceOK(p), NEW r \in at[p].todo, NEW s \in Step \ {"next"},
           s \in StepsOf(at[p].phase), AwaitFor(p, r, s)
    PROVE  /\ at' \in [Ticker -> Place] /\ (\E x : Go(p, x)) /\ PlaceOK(p)'
           /\ at'[p].phase = at[p].phase /\ at'[p].todo = at[p].todo
           /\ at'[p].job = r /\ at'[p].step = s
<1>1. at[p] \in Place
  BY DEF TypeOK
<1>2. [at[p] EXCEPT !.job = r, !.step = s] \in Place
  BY <1>1 DEF Place
<1>3. at'[p] = [at[p] EXCEPT !.job = r, !.step = s] /\ at' \in [Ticker -> Place]
  BY <1>2, NewPlace DEF AwaitFor, Go, TypeOK
<1>4. /\ at'[p].phase = at[p].phase /\ at'[p].todo = at[p].todo
      /\ at'[p].job = r /\ at'[p].step = s
  BY <1>1, <1>3 DEF Place
<1>5. r # None
  BY <1>1, Counts DEF Place
<1>6. PlaceOK(p)'
  BY <1>4, <1>5 DEF PlaceOK
<1> QED BY <1>3, <1>4, <1>6 DEF AwaitFor

\* The process keeps its row and goes on to step s.
Onto(p, x, s, c) ==
    /\ Go(p, x) /\ x \in Place /\ x.step = s /\ x.copy = c
    /\ x.job = at[p].job /\ x.todo = at[p].todo /\ x.phase = at[p].phase

\* A further await keeps the row and the copy in hand.
LEMMA AwaitOnto ==
    ASSUME TypeOK, NEW p \in Ticker, NEW s \in Step, Await(p, s)
    PROVE  \E x : Onto(p, x, s, at[p].copy)
<1>1. at[p] \in Place
  BY DEF TypeOK
<1>2. PICK x : x = [at[p] EXCEPT !.step = s]
  OBVIOUS
<1>3. /\ x.step = s /\ x.copy = at[p].copy /\ x.job = at[p].job
      /\ x.todo = at[p].todo /\ x.phase = at[p].phase /\ x \in Place
  BY <1>1, <1>2 DEF Place
<1> QED BY <1>2, <1>3 DEF Onto, Await

\* So does a move that names its step and its copy.
LEMMA GoOnto ==
    ASSUME TypeOK, NEW p \in Ticker, NEW s \in Step, NEW c \in Copy, NEW x,
           x = [at[p] EXCEPT !.step = s, !.copy = c], Go(p, x)
    PROVE  Onto(p, x, s, c)
<1>1. at[p] \in Place
  BY DEF TypeOK
<1>2. /\ x.step = s /\ x.copy = c /\ x.job = at[p].job
      /\ x.todo = at[p].todo /\ x.phase = at[p].phase /\ x \in Place
  BY <1>1 DEF Place
<1> QED BY <1>2 DEF Onto

\* A process that goes on with the same row stays in its loop.
LEMMA OntoPlace ==
    ASSUME TypeOK, NEW p \in Ticker, PlaceOK(p), at[p].step # "next", NEW s \in Step \ {"next"},
           s \in StepsOf(at[p].phase), NEW c, NEW x, Onto(p, x, s, c)
    PROVE  /\ at' \in [Ticker -> Place] /\ (\E y : Go(p, y)) /\ PlaceOK(p)'
           /\ at'[p].phase = at[p].phase /\ at'[p].todo = at[p].todo
           /\ at'[p].job = at[p].job /\ at'[p].step = s /\ at'[p].copy = c
<1>1. at'[p] = x /\ at' \in [Ticker -> Place]
  BY NewPlace DEF Onto, Go, TypeOK
<1>2. PlaceOK(p)'
  BY <1>1 DEF PlaceOK, Onto
<1> QED BY <1>1, <1>2 DEF Onto

----------------------------------------------------------------------------
(* What every step keeps. *)

\* What processes rely on is not taken back.
Steady == \A r \in Row :
    /\ row'[r] = "PENDING" => row[r] = "PENDING"
    /\ row'[r] = "CLAIMED" => row[r] \in {"CLAIMED", "PENDING"}
    /\ receipt[r] # 0 => receipt'[r] # 0
    /\ launches[r] <= launches'[r]
    /\ r \in overdue => r \in overdue'
    /\ r \in reported => r \in reported'

\* A process takes no row into a dispatch loop but a PENDING one.
NoNewLaunch(p) == at'[p].phase = "dispatch" =>
    \A r \in at'[p].todo : (at'[p].job = r => at'[p].step = "launch") => p \in CanLaunch(r)

\* What holds of the place and the hand of a process that stands still goes on holding.
LEMMA OthersKeep ==
    ASSUME TypeOK, TypeOK', PortInv, Steady, NEW q \in Ticker, at'[q] = at[q]
    PROVE  PlaceOK(q)' /\ HandOK(q)'
<1>1. PlaceOK(q) /\ HandOK(q) /\ at[q].todo \subseteq Row
  BY DEF PortInv, TypeOK, Place
<1>2. PlaceOK(q)'
  BY <1>1 DEF PlaceOK
<1>3. at[q].step # "next" => at[q].job \in Row
  BY <1>1 DEF PlaceOK
<1>4. \A r \in Row : launches[r] \in Nat /\ launches'[r] \in Nat
  BY Counts DEF TypeOK, Copy
<1>5. at[q].step \in {"exec", "link"} => at[q].copy \in 1..launches'[at[q].job]
  BY <1>1, <1>3, <1>4 DEF HandOK, Steady
<1> QED BY <1>1, <1>2, <1>3, <1>5 DEF HandOK, Steady

\* No step adds a process that could start a worker for r, but by a new claim.
LEMMA CanLaunchShrinks ==
    ASSUME TypeOK, PortInv, Steady, NEW p \in Ticker, \A q \in Ticker \ {p} : at'[q] = at[q],
           NoNewLaunch(p), NEW r \in Row
    PROVE  CanLaunch(r)' \subseteq CanLaunch(r)
BY DEF CanLaunch, Steady, NoNewLaunch

\* A process that may start a copy finds room for it.
LEMMA RoomLeft ==
    ASSUME TypeOK, PortInv, NEW r \in Row, NEW p \in CanLaunch(r)
    PROVE  launches[r] + 1 <= Cardinality(Ticker) /\ launches[r] + 1 \in Copy
<1>1. IsFiniteSet(CanLaunch(r)) /\ Cardinality(CanLaunch(r)) \in Nat /\ Cardinality(Ticker) \in Nat
  BY Counts
<1>2. Cardinality(CanLaunch(r)) # 0
  BY <1>1, FS_EmptySet
<1>3. launches[r] \in Nat /\ Counted(r)
  BY <1>1 DEF TypeOK, Copy, PortInv
<1> QED BY <1>1, <1>2, <1>3 DEF Counted, Copy

\* A step that starts no copy keeps PortInv if it keeps its process and the rows.
LEMMA PortFromOwn ==
    ASSUME TypeOK, TypeOK', PortInv, NEW p \in Ticker, NEW x, Go(p, x), Steady,
           NoNewLaunch(p), PlaceOK(p)', HandOK(p)', \A r \in Row : RowOK(r)',
           launches' = launches
    PROVE  PortInv'
<1>1. \A q \in Ticker \ {p} : at'[q] = at[q]
  BY NewPlace
<1>2. \A q \in Ticker : PlaceOK(q)' /\ HandOK(q)'
  BY <1>1, OthersKeep
<1>3. ASSUME NEW r \in Row PROVE Counted(r)'
  <2>1. CanLaunch(r)' \in SUBSET CanLaunch(r)
    BY <1>1, CanLaunchShrinks
  <2>2. IsFiniteSet(CanLaunch(r)) /\ Cardinality(CanLaunch(r)) \in Nat /\ Cardinality(Ticker) \in Nat
    BY Counts
  <2>3. /\ Cardinality(CanLaunch(r)') <= Cardinality(CanLaunch(r))
        /\ Cardinality(CanLaunch(r)') \in Nat
    BY <2>1, <2>2, FS_Subset, FS_CardinalityType
  <2>4. Counted(r) /\ launches[r] \in Nat
    BY <2>2 DEF PortInv, TypeOK, Copy
  <2> QED BY <2>2, <2>3, <2>4 DEF Counted
<1> QED BY <1>2, <1>3 DEF PortInv

\* A row whose books are left alone, while workers may end and walls may pass.
LEMMA RowKept ==
    ASSUME NEW r \in Row, RowOK(r), launches'[r] = launches[r], disk'[r] = disk[r],
           receipt'[r] = receipt[r], live'[r] \subseteq live[r],
           r \in reported' => r \in reported,
           row'[r] = row[r] \/ row'[r] \in {"CLAIMED", "RECONCILING", "SETTLED", "FAILED"}
    PROVE  RowOK(r)'
BY DEF RowOK

----------------------------------------------------------------------------
(* PortInv, action by action. *)

\* The history of disturbances and faults keeps its type.
LEMMA BookType ==
    ASSUME TypeOK, NEW p \in Ticker, TickStep(p) \/ FaultStep(p), Disturbs(p)
    PROVE  disturbed' \subseteq Row /\ faults' \in 0..MaxFaults
<1>1. Job(p) \in Row \cup {None}
  BY DEF TypeOK, Place, Job
<1>2. disturbed' \subseteq Row
  BY <1>1 DEF Disturbs, TypeOK
<1>3. faults' = faults \/ Fault
  BY DEF TickStep, FaultStep, Begin, EndLoop, Watch, Late, Reconcile, Recover, Inspect, Observe,
         CancelHung, Settle, Claim, Launch, WriteReceipt, StoreReceipt, Crash, LaunchRejected,
         CallRejected
<1>4. faults \in 0..MaxFaults
  BY DEF TypeOK
<1>5. Fault => faults' \in 0..MaxFaults
  BY <1>4, LaunchAssumption DEF Fault
<1> QED BY <1>2, <1>3, <1>4, <1>5

\* A loop ends and the next begins, with a snapshot.
LEMMA LoopInv ==
    ASSUME TypeOK, PortInv, NEW p \in Ticker,
           \/ Begin(p) \/ Watch(p)
           \/ (Finished(p, "reconcile") \/ Finished(p, "dispatch")) /\ EndLoop(p),
           disturbed' \subseteq Row, faults' \in 0..MaxFaults
    PROVE  TypeOK' /\ PortInv'
<1>1. PICK ph \in {"reconcile", "dispatch", "observe", "watch"}, rows \in SUBSET Row :
        /\ Enter(p, ph, rows)
        /\ ph = "reconcile" => \A r \in rows : row[r] # "PENDING"
        /\ ph = "dispatch" => \A r \in rows : row[r] = "PENDING"
        /\ ph = "observe" => \A r \in rows : row[r] = "LAUNCHED"
        /\ ph = "watch" => \A r \in rows : row[r] \in {"LAUNCHED", "RECONCILING"} /\ r \in overdue'
  <2>1. CASE Begin(p)
    BY <2>1 DEF Begin, RowsIn
  <2>2. CASE Finished(p, "reconcile") /\ EndLoop(p)
    BY <2>2 DEF EndLoop, Finished, RowsIn
  <2>3. CASE Finished(p, "dispatch") /\ EndLoop(p)
    BY <2>3 DEF EndLoop, Finished, RowsIn
  <2>4. CASE Watch(p)
    BY <2>4 DEF Watch, Late, RowsIn
  <2> QED BY <2>1, <2>2, <2>3, <2>4
<1>2. /\ UNCHANGED <<row, receipt, disk, launches, live, reported>>
      /\ overdue \subseteq overdue' /\ overdue' \subseteq Row
  BY DEF Begin, EndLoop, Watch, Watched, RowsIn, Late, workerVars, TypeOK
<1>3. /\ at' \in [Ticker -> Place] /\ (\E x : Go(p, x)) /\ PlaceOK(p)'
      /\ at'[p].phase = ph /\ at'[p].todo = rows /\ at'[p].job = None /\ at'[p].step = "next"
  BY <1>1, EnterPlace DEF Phase
<1>4. TypeOK'
  BY <1>2, <1>3 DEF TypeOK
<1>5. \A r \in Row : launches[r] \in Nat /\ RowOK(r)
  BY Counts DEF TypeOK, Copy, PortInv
<1>6. Steady /\ \A r \in Row : RowOK(r)'
  BY <1>2, <1>5, RowKept DEF Steady
<1>7. HandOK(p)'
  BY <1>1, <1>2, <1>3, <1>5 DEF HandOK, RowOK
<1>8. NoNewLaunch(p)
  BY <1>1, <1>3 DEF NoNewLaunch, CanLaunch
<1> QED BY <1>2, <1>3, <1>4, <1>6, <1>7, <1>8, PortFromOwn

\* A process that leaves its job as it found it, or its snapshot.
LEMMA ExitInv ==
    ASSUME TypeOK, PortInv, NEW p \in Ticker, Exit(p),
           UNCHANGED <<receipt, disk, workerVars, overdue>>,
           \A r \in Row : row'[r] \in {row[r], "FAILED"}, row' \in [Row -> OutboxState],
           disturbed' \subseteq Row, faults' \in 0..MaxFaults
    PROVE  TypeOK' /\ PortInv'
<1>1. /\ at' \in [Ticker -> Place] /\ (\E x : Go(p, x)) /\ PlaceOK(p)'
      /\ at'[p].phase \in {"off", "over"} /\ at'[p].todo = {} /\ at'[p].step = "next"
  BY ExitPlace
<1>2. TypeOK'
  BY <1>1 DEF TypeOK, workerVars
<1>3. \A r \in Row : launches[r] \in Nat /\ RowOK(r)
  BY Counts DEF TypeOK, Copy, PortInv
<1>4. Steady /\ \A r \in Row : RowOK(r)'
  BY <1>3, RowKept DEF Steady, workerVars
<1>5. HandOK(p)' /\ NoNewLaunch(p)
  BY <1>1 DEF HandOK, NoNewLaunch
<1> QED BY <1>1, <1>2, <1>4, <1>5, PortFromOwn DEF workerVars

\* A tick that throws fails rows in its handler, and starts nothing.
LEMMA ThrowInv ==
    ASSUME TypeOK, PortInv, NEW p \in Ticker, Throw(p),
           UNCHANGED <<receipt, disk, workerVars, overdue>>,
           disturbed' \subseteq Row, faults' \in 0..MaxFaults
    PROVE  TypeOK' /\ PortInv'
<1>1. row' \in [Row -> OutboxState] /\ \A r \in Row : row'[r] \in {row[r], "FAILED"}
  BY DEF Throw, TypeOK, OutboxState
<1> QED BY <1>1, ExitInv DEF Throw

\* A process that is done with a row.
LEMMA LeaveInv ==
    ASSUME TypeOK, PortInv, NEW p \in Ticker, at[p].step # "next", Leave(p),
           UNCHANGED <<disk, workerVars, overdue>>,
           NEW j, j = at[p].job,
           NEW st \in OutboxState, row' = [row EXCEPT ![j] = st],
           st # row[j] => st \in {"LAUNCHED", "SETTLED", "FAILED"},
           NEW c \in Copy, receipt' = [receipt EXCEPT ![j] = c],
           c = receipt[j] \/ c \in 1..launches[j],
           st = "LAUNCHED" => c # 0 \/ row[j] = "LAUNCHED",
           disturbed' \subseteq Row, faults' \in 0..MaxFaults
    PROVE  TypeOK' /\ PortInv'
<1>0. PlaceOK(p) /\ HandOK(p) /\ at[p] \in Place /\ j \in Row /\ at[p].job = j
  BY DEF PortInv, TypeOK, Place, PlaceOK
<1>1. /\ at' \in [Ticker -> Place] /\ (\E x : Go(p, x)) /\ PlaceOK(p)'
      /\ at'[p].phase = at[p].phase /\ at'[p].todo = at[p].todo \ {j}
      /\ at'[p].job = None /\ at'[p].step = "next"
  BY <1>0, LeavePlace
<1>2. TypeOK'
  BY <1>1 DEF TypeOK, workerVars
<1>3. \A r \in Row : launches[r] \in Nat /\ RowOK(r)
  BY Counts DEF TypeOK, Copy, PortInv
<1>4. /\ row'[j] = st /\ receipt'[j] = c
      /\ \A r \in Row \ {j} : row'[r] = row[r] /\ receipt'[r] = receipt[r]
  BY <1>0 DEF TypeOK
<1>5. RowOK(j)'
  <2>1. c <= launches[j] /\ (receipt[j] # 0 => c # 0)
    BY <1>0, <1>3 DEF RowOK, Copy
  <2>2. st = "PENDING" => row[j] = "PENDING"
    OBVIOUS
  <2>3. row[j] = "PENDING" /\ st = "PENDING" => launches[j] = 0
    BY <1>0, <1>3 DEF RowOK
  <2>4. st = "LAUNCHED" => c # 0
    BY <1>0, <1>3, <2>1 DEF RowOK
  <2> QED BY <1>0, <1>3, <1>4, <2>1, <2>2, <2>3, <2>4 DEF RowOK, workerVars
<1>6. \A r \in Row : RowOK(r)'
  BY <1>3, <1>4, <1>5, RowKept DEF workerVars
<1>7. Steady
  BY <1>3, <1>4 DEF Steady, workerVars
<1>8. HandOK(p)'
  BY <1>0, <1>1, <1>4, <1>7 DEF HandOK, Steady, workerVars, Place
<1>9. NoNewLaunch(p)
  BY <1>0, <1>1 DEF NoNewLaunch, CanLaunch
<1> QED BY <1>1, <1>2, <1>6, <1>7, <1>8, <1>9, PortFromOwn DEF workerVars

\* A process takes a row of its snapshot in hand.
LEMMA PickInv ==
    ASSUME TypeOK, PortInv, NEW p \in Ticker, NEW r \in at[p].todo, NEW s \in Step \ {"next"},
           at[p].step = "next", s \in StepsOf(at[p].phase), AwaitFor(p, r, s),
           UNCHANGED <<receipt, disk, launches, reported, overdue>>,
           NEW l \in SUBSET live[r], live' = [live EXCEPT ![r] = l],
           NEW st \in OutboxState, row' = [row EXCEPT ![r] = st],
           st # row[r] => st \in {"CLAIMED", "RECONCILING"},
           st = "CLAIMED" /\ st # row[r] => row[r] = "PENDING" /\ at[p].phase = "dispatch",
           s = "inspect" => receipt[r] # 0,
           s = "settle" => r \in overdue \/ (r \in reported /\ receipt[r] # 0),
           s \notin {"exec", "link"}, at[p].phase = "dispatch" => st # "PENDING" /\ s = "launch",
           disturbed' \subseteq Row, faults' \in 0..MaxFaults
    PROVE  TypeOK' /\ PortInv'
<1>0. PlaceOK(p) /\ HandOK(p) /\ at[p] \in Place /\ r \in Row
  BY DEF PortInv, TypeOK, Place
<1>1. /\ at' \in [Ticker -> Place] /\ (\E x : Go(p, x)) /\ PlaceOK(p)'
      /\ at'[p].phase = at[p].phase /\ at'[p].todo = at[p].todo
      /\ at'[p].job = r /\ at'[p].step = s
  BY <1>0, AwaitForPlace
<1>2. TypeOK'
  BY <1>0, <1>1 DEF TypeOK
<1>3. \A q \in Row : launches[q] \in Nat /\ RowOK(q)
  BY Counts DEF TypeOK, Copy, PortInv
<1>4. /\ row'[r] = st /\ live'[r] = l
      /\ \A q \in Row \ {r} : row'[q] = row[q] /\ live'[q] = live[q]
  BY <1>0 DEF TypeOK
<1>5. \A q \in Row : RowOK(q)'
  <2>1. \A q \in Row : /\ live'[q] \subseteq live[q]
                       /\ row'[q] = row[q] \/ row'[q] \in {"CLAIMED", "RECONCILING"}
    BY <1>4
  <2> QED BY <1>3, <2>1, RowKept
<1>6. Steady
  BY <1>3, <1>4 DEF Steady
<1>7. HandOK(p)'
  <2>1. s \in {"launch"} => at[p].phase = "dispatch"
    BY DEF StepsOf
  <2>2. at[p].phase = "watch" => st # "CLAIMED"
    BY <1>0 DEF HandOK
  <2> QED BY <1>0, <1>1, <1>4, <2>1, <2>2 DEF HandOK
<1>8. NoNewLaunch(p)
  <2>1. \A q \in at[p].todo : at[p].job # q
    BY <1>0, Counts DEF PlaceOK, Place
  <2> QED BY <1>0, <1>1, <2>1 DEF NoNewLaunch, CanLaunch
<1> QED BY <1>1, <1>2, <1>5, <1>6, <1>7, <1>8, PortFromOwn

\* The rows that come after the one in hand are of the same snapshot.
LEMMA FollowingInTodo == \A p \in Ticker : Following(p) \subseteq at[p].todo
BY DEF Following

\* Taking a row in reconcile marks it RECONCILING.
LEMMA ReconcileInv ==
    ASSUME TypeOK, PortInv, NEW p \in Ticker, Reconcile(p),
           disturbed' \subseteq Row, faults' \in 0..MaxFaults
    PROVE  TypeOK' /\ PortInv'
<1>1. PICK r \in at[p].todo :
        /\ at[p].phase = "reconcile" /\ at[p].step = "next" /\ MarkReconciling(r)
        /\ AwaitFor(p, r, IF receipt[r] = 0 THEN "recover" ELSE "inspect")
        /\ UNCHANGED <<receipt, disk, workerVars, overdue, faults>>
  BY FollowingInTodo DEF Reconcile, Doing
<1>2. PICK st : st = IF row[r] \in {"CLAIMED", "LAUNCHED"} THEN "RECONCILING" ELSE row[r]
  OBVIOUS
<1>3. PICK s : s = IF receipt[r] = 0 THEN "recover" ELSE "inspect"
  OBVIOUS
<1>4. r \in Row /\ HandOK(p) /\ row[r] # "PENDING" /\ row[r] \in OutboxState
  <2>1. r \in Row /\ HandOK(p)
    BY DEF TypeOK, Place, PortInv
  <2> QED BY <1>1, <2>1 DEF HandOK, TypeOK
<1>5. row' = [row EXCEPT ![r] = st] /\ st \in OutboxState
  BY <1>1, <1>2, <1>4 DEF MarkReconciling, TypeOK, OutboxState
<1>6. live[r] \in SUBSET live[r] /\ live' = [live EXCEPT ![r] = live[r]]
  BY <1>1, <1>4 DEF TypeOK, workerVars
<1>7. /\ st # row[r] => st \in {"CLAIMED", "RECONCILING"}
      /\ s \in Step \ {"next"} /\ s \notin {"exec", "link", "settle"}
      /\ s = "inspect" => receipt[r] # 0
      /\ st = "CLAIMED" => FALSE
  BY <1>2, <1>3 DEF Step
<1>8. s \in StepsOf(at[p].phase) /\ at[p].phase # "dispatch" /\ AwaitFor(p, r, s)
  BY <1>1, <1>3 DEF StepsOf
<1>9. UNCHANGED <<receipt, disk, launches, reported, overdue>>
  BY <1>1 DEF workerVars
<1>10. PICK l \in SUBSET live[r] : live' = [live EXCEPT ![r] = l]
  BY <1>6
<1>11. at[p].step = "next"
  BY <1>1
<1> QED BY <1>5, <1>7, <1>8, <1>9, <1>10, <1>11, PickInv

\* Observing a row reads its worker, and may put the row in hand to settle it.
LEMMA ObserveInv ==
    ASSUME TypeOK, PortInv, NEW p \in Ticker, Observe(p),
           disturbed' \subseteq Row, faults' \in 0..MaxFaults
    PROVE  TypeOK' /\ PortInv'
<1>1. PICK r \in at[p].todo :
        /\ at[p].phase = "observe" /\ at[p].step = "next"
        /\ IF Decided(r) THEN AwaitFor(p, r, "settle") ELSE Enter(p, "observe", at[p].todo \ {r})
        /\ UNCHANGED <<row, receipt, disk, workerVars, overdue, faults>>
  BY FollowingInTodo DEF Observe, Doing
<1>2. r \in Row /\ HandOK(p) /\ at[p].todo \subseteq Row
  BY DEF TypeOK, Place, PortInv
<1>3. CASE Decided(r)
  <2>1. PICK st : st = row[r]
    OBVIOUS
  <2>2. row' = [row EXCEPT ![r] = st] /\ st \in OutboxState /\ st = row[r]
    BY <1>1, <1>2, <2>1 DEF TypeOK
  <2>3. live[r] \in SUBSET live[r] /\ live' = [live EXCEPT ![r] = live[r]]
    BY <1>1, <1>2 DEF TypeOK, workerVars
  <2>4. r \in reported /\ receipt[r] # 0 /\ st # "PENDING"
    BY <1>1, <1>2, <1>3, <2>1 DEF Decided, HandOK
  <2>5. "settle" \in Step \ {"next"} /\ "settle" \in StepsOf(at[p].phase) /\ at[p].phase # "dispatch"
    BY <1>1 DEF Step, StepsOf
  <2>6. UNCHANGED <<receipt, disk, launches, reported, overdue>> /\ at[p].step = "next"
    BY <1>1 DEF workerVars
  <2>7. PICK l \in SUBSET live[r], s \in Step \ {"next"} :
           live' = [live EXCEPT ![r] = l] /\ s = "settle" /\ AwaitFor(p, r, s)
    BY <1>1, <1>3, <2>3, <2>5
  <2> QED BY <2>2, <2>4, <2>5, <2>6, <2>7, PickInv
<1>4. CASE ~Decided(r)
  <2>1. Enter(p, "observe", at[p].todo \ {r})
    BY <1>1, <1>4
  <2>2. /\ at' \in [Ticker -> Place] /\ (\E x : Go(p, x)) /\ PlaceOK(p)'
        /\ at'[p].phase = "observe" /\ at'[p].todo = at[p].todo \ {r}
        /\ at'[p].job = None /\ at'[p].step = "next"
    BY <1>2, <2>1, EnterPlace DEF Phase
  <2>3. TypeOK'
    BY <1>1, <2>2 DEF TypeOK, workerVars
  <2>4. \A q \in Row : launches[q] \in Nat /\ RowOK(q)
    BY Counts DEF TypeOK, Copy, PortInv
  <2>5. Steady /\ \A q \in Row : RowOK(q)'
    BY <1>1, <2>4, RowKept DEF Steady, workerVars
  <2>6. HandOK(p)' /\ NoNewLaunch(p)
    BY <1>1, <1>2, <2>2 DEF HandOK, NoNewLaunch
  <2> QED BY <1>1, <2>2, <2>3, <2>5, <2>6, PortFromOwn DEF workerVars
<1> QED BY <1>3, <1>4

\* The watchdog puts a row past its wall in hand to settle it.
LEMMA CancelHungInv ==
    ASSUME TypeOK, PortInv, NEW p \in Ticker, CancelHung(p),
           disturbed' \subseteq Row, faults' \in 0..MaxFaults
    PROVE  TypeOK' /\ PortInv'
<1>1. PICK r \in at[p].todo, s \in Step \ {"next"} :
        /\ at[p].phase = "watch" /\ at[p].step = "next" /\ Cancel(r)
        /\ s = "settle" /\ AwaitFor(p, r, s)
        /\ UNCHANGED <<row, receipt, disk, launches, reported, overdue>>
  BY FollowingInTodo DEF CancelHung, Doing, Step
<1>2. r \in Row /\ r \in overdue
  BY <1>1 DEF TypeOK, Place, PortInv, HandOK
<1>3. PICK l \in SUBSET live[r] : live' = [live EXCEPT ![r] = l]
  BY <1>1, <1>2 DEF Cancel, TypeOK
<1>4. PICK st \in OutboxState : st = row[r] /\ row' = [row EXCEPT ![r] = st]
  BY <1>1, <1>2 DEF TypeOK
<1>5. s \in StepsOf(at[p].phase)
  BY <1>1 DEF StepsOf
<1>6. UNCHANGED <<receipt, disk, launches, reported, overdue>> /\ AwaitFor(p, r, s)
  BY <1>1
<1>7. /\ at[p].step = "next" /\ at[p].phase # "dispatch" /\ s # "inspect" /\ s \notin {"exec", "link"}
      /\ s = "settle" => r \in overdue
  BY <1>1, <1>2
<1> QED BY <1>3, <1>4, <1>5, <1>6, <1>7, PickInv

\* A claim is the only step that makes a process able to launch.
LEMMA ClaimInv ==
    ASSUME TypeOK, PortInv, NEW p \in Ticker, Claim(p),
           disturbed' \subseteq Row, faults' \in 0..MaxFaults
    PROVE  TypeOK' /\ PortInv'
<1>1. PICK r \in at[p].todo, s \in Step \ {"next"} :
        /\ at[p].phase = "dispatch" /\ at[p].step = "next" /\ ClaimOutbox(r)
        /\ s = "launch" /\ AwaitFor(p, r, s)
        /\ UNCHANGED <<receipt, disk, launches, live, reported, overdue>>
  BY FollowingInTodo DEF Claim, Doing, Step, workerVars
<1>2. r \in Row
  BY <1>1 DEF TypeOK, Place
<1>3. PICK l \in SUBSET live[r] : live' = [live EXCEPT ![r] = l]
  BY <1>1, <1>2 DEF TypeOK
<1>4. PICK st \in OutboxState : /\ row' = [row EXCEPT ![r] = st] /\ st # "PENDING"
                                /\ st # row[r] => st = "CLAIMED" /\ row[r] = "PENDING"
  BY <1>1, <1>2 DEF TypeOK, ClaimOutbox, OutboxState
<1>5. s \in StepsOf(at[p].phase)
  BY <1>1 DEF StepsOf
<1>6. UNCHANGED <<receipt, disk, launches, reported, overdue>> /\ AwaitFor(p, r, s)
  BY <1>1
<1>7. /\ at[p].step = "next" /\ at[p].phase = "dispatch" /\ s # "inspect" /\ s \notin {"exec", "link"}
      /\ s # "settle" /\ s = "launch"
  BY <1>1
<1>8. /\ st # row[r] => st \in {"CLAIMED", "RECONCILING"}
      /\ st = "CLAIMED" /\ st # row[r] => row[r] = "PENDING" /\ at[p].phase = "dispatch"
  BY <1>4, <1>7
<1> QED BY <1>3, <1>4, <1>5, <1>6, <1>7, <1>8, PickInv

\* The steps of a process that has a row in hand.
LEMMA JobKnown ==
    ASSUME TypeOK, PortInv, NEW p \in Ticker, at[p].step # "next"
    PROVE  /\ Job(p) \in Row /\ Job(p) \in at[p].todo /\ PlaceOK(p) /\ HandOK(p) /\ RowOK(Job(p))
           /\ row[Job(p)] \in OutboxState /\ receipt[Job(p)] \in Copy /\ disk[Job(p)] \in Copy
           /\ launches[Job(p)] \in Nat /\ at[p] \in Place
<1>1. at[p] \in Place /\ PlaceOK(p) /\ HandOK(p)
  BY DEF PortInv, TypeOK
<1>2. Job(p) \in Row /\ Job(p) \in at[p].todo
  BY <1>1 DEF PlaceOK, Place, Job
<1> QED BY <1>1, <1>2, Counts DEF PortInv, TypeOK, Copy

\* A row is marked LAUNCHED with a copy that was started.
LEMMA MarkLaunchedInv ==
    ASSUME TypeOK, PortInv, NEW p \in Ticker, at[p].step # "next",
           NEW c \in 1..launches[Job(p)], c \in Copy, MarkLaunched(p, Job(p), c),
           UNCHANGED <<disk, workerVars, overdue>>,
           disturbed' \subseteq Row, faults' \in 0..MaxFaults
    PROVE  TypeOK' /\ PortInv'
<1>1. CASE RowMayMove(row[Job(p)], "LAUNCHED")
  <2>1. PICK st \in OutboxState, j \in {at[p].job} : st = "LAUNCHED" /\ j = at[p].job
    BY DEF OutboxState
  <2>2. /\ row' = [row EXCEPT ![j] = st] /\ receipt' = [receipt EXCEPT ![j] = c]
        /\ Leave(p) /\ c # 0 /\ c \in 1..launches[j]
    BY <1>1, <2>1, JobKnown DEF MarkLaunched, SetRow, Job
  <2> QED BY <2>1, <2>2, LeaveInv
<1>2. CASE ~RowMayMove(row[Job(p)], "LAUNCHED")
  BY <1>2, ThrowInv DEF MarkLaunched
<1> QED BY <1>1, <1>2

\* A row that is failed is closed for good.
LEMMA FailRowInv ==
    ASSUME TypeOK, PortInv, NEW p \in Ticker, at[p].step # "next", FailRow(Job(p)), Leave(p),
           UNCHANGED <<receipt, disk, workerVars, overdue>>,
           disturbed' \subseteq Row, faults' \in 0..MaxFaults
    PROVE  TypeOK' /\ PortInv'
<1>1. PICK st \in OutboxState : row' = [row EXCEPT ![Job(p)] = st] /\ st \in {row[Job(p)], "FAILED"}
  BY JobKnown DEF FailRow, TypeOK, OutboxState
<1>2. PICK c \in Copy : receipt' = [receipt EXCEPT ![Job(p)] = c] /\ c = receipt[Job(p)]
  BY JobKnown DEF TypeOK
<1>3. PICK j : j = at[p].job /\ Job(p) = j
  BY DEF Job
<1>4. st = "LAUNCHED" => row[j] = "LAUNCHED"
  BY <1>1, <1>3
<1>5. st # row[j] => st \in {"LAUNCHED", "SETTLED", "FAILED"}
  BY <1>1, <1>3
<1>6. row' = [row EXCEPT ![j] = st] /\ receipt' = [receipt EXCEPT ![j] = c] /\ c = receipt[j]
  BY <1>1, <1>2, <1>3
<1>7. UNCHANGED <<disk, workerVars, overdue>>
  OBVIOUS
<1> QED BY <1>3, <1>4, <1>5, <1>6, <1>7, LeaveInv

\* A receipt that recover finds is of a copy that was started.
LEMMA RecoverableStarted ==
    ASSUME TypeOK, PortInv, NEW r \in Row, NEW c \in Recoverable(r)
    PROVE  c \in 1..launches[r] /\ c \in Copy
<1>1. disk[r] <= launches[r] /\ launches[r] \in Copy /\ disk[r] \in Copy
  BY DEF PortInv, TypeOK, RowOK
<1>2. PICK n \in Nat : Copy = 0..n
  BY Counts DEF Copy
<1>3. (c = disk[r] /\ disk[r] # 0) \/ (c = 1 /\ launches[r] # 0)
  BY DEF Recoverable, Remembered, Listed
<1>4. 1 \in Copy \/ launches[r] = 0
  BY <1>1, <1>2
<1> QED BY <1>1, <1>2, <1>3, <1>4

\* What recover finds was started.
LEMMA RecoverInv ==
    ASSUME TypeOK, PortInv, NEW p \in Ticker, Recover(p),
           disturbed' \subseteq Row, faults' \in 0..MaxFaults
    PROVE  TypeOK' /\ PortInv'
<1>1. at[p].step # "next" /\ UNCHANGED <<disk, workerVars, overdue>> /\ Job(p) \in Row
  BY JobKnown DEF Recover, Doing
<1>2. \/ \E c \in Recoverable(Job(p)) : MarkLaunched(p, Job(p), c)
      \/ FailRow(Job(p)) /\ Leave(p) /\ UNCHANGED receipt
  BY DEF Recover
<1>3. CASE \E c \in Recoverable(Job(p)) : MarkLaunched(p, Job(p), c)
  BY <1>1, <1>3, RecoverableStarted, MarkLaunchedInv
<1>4. CASE FailRow(Job(p)) /\ Leave(p) /\ UNCHANGED receipt
  BY <1>1, <1>4, FailRowInv
<1> QED BY <1>2, <1>3, <1>4

\* Inspecting leaves the row, settles it or throws.
LEMMA InspectInv ==
    ASSUME TypeOK, PortInv, NEW p \in Ticker, Inspect(p),
           disturbed' \subseteq Row, faults' \in 0..MaxFaults
    PROVE  TypeOK' /\ PortInv'
<1>1. /\ at[p].step = "inspect" /\ UNCHANGED <<receipt, disk, launches, live, reported, overdue>>
      /\ Job(p) \in Row /\ PlaceOK(p) /\ HandOK(p) /\ at[p] \in Place
      /\ row[Job(p)] \in OutboxState /\ receipt[Job(p)] \in Copy
  BY JobKnown DEF Inspect, Doing, workerVars
<1>2. receipt[Job(p)] # 0 /\ at[p].phase = "reconcile"
  BY <1>1 DEF HandOK, Job, PlaceOK, StepsOf
<1>3. CASE Decided(Job(p))
  <2>1. Await(p, "settle") /\ row' = row
    BY <1>3 DEF Inspect
  <2>2. "settle" \in Step \ {"next"} /\ "settle" \in StepsOf(at[p].phase)
    BY <1>2 DEF Step, StepsOf
  <2>3. at[p].copy \in Copy /\ at[p].step # "next"
    BY <1>1 DEF Place
  <2>4. /\ at' \in [Ticker -> Place] /\ (\E x : Go(p, x)) /\ PlaceOK(p)'
        /\ at'[p].phase = at[p].phase /\ at'[p].todo = at[p].todo
        /\ at'[p].job = at[p].job /\ at'[p].step = "settle"
    BY <1>1, <2>1, <2>2, <2>3, AwaitOnto, OntoPlace
  <2>5. TypeOK'
    BY <1>1, <2>1, <2>4 DEF TypeOK
  <2>6. \A q \in Row : launches[q] \in Nat /\ RowOK(q)
    BY Counts DEF TypeOK, Copy, PortInv
  <2>7. Steady /\ \A q \in Row : RowOK(q)'
    BY <1>1, <2>1, <2>6, RowKept DEF Steady
  <2>8. Job(p) \in reported
    BY <1>3 DEF Decided
  <2>9. HandOK(p)' /\ NoNewLaunch(p)
    BY <1>1, <1>2, <2>1, <2>4, <2>8 DEF HandOK, NoNewLaunch, Job
  <2> QED BY <1>1, <2>4, <2>5, <2>7, <2>9, PortFromOwn
<1>4. CASE ~Decided(Job(p))
  <2>1. Leave(p) /\ row' = [row EXCEPT ![Job(p)] = IF @ = "RECONCILING" THEN "LAUNCHED" ELSE @]
    BY <1>4 DEF Inspect
  <2>2. PICK st \in OutboxState : /\ row' = [row EXCEPT ![Job(p)] = st]
                                  /\ st # row[Job(p)] => st = "LAUNCHED"
    BY <1>1, <2>1 DEF TypeOK, OutboxState
  <2>3. PICK c \in Copy : receipt' = [receipt EXCEPT ![Job(p)] = c] /\ c = receipt[Job(p)]
    BY <1>1 DEF TypeOK
  <2>4. PICK j : j = at[p].job /\ Job(p) = j
    BY DEF Job
  <2>5. row' = [row EXCEPT ![j] = st] /\ receipt' = [receipt EXCEPT ![j] = c] /\ c = receipt[j]
    BY <2>2, <2>3, <2>4
  <2>6. c # 0 /\ (st # row[j] => st \in {"LAUNCHED", "SETTLED", "FAILED"})
    BY <1>2, <2>2, <2>3, <2>4
  <2>7. UNCHANGED <<disk, workerVars, overdue>> /\ at[p].step # "next"
    BY <1>1 DEF workerVars
  <2> QED BY <2>1, <2>4, <2>5, <2>6, <2>7, LeaveInv
<1> QED BY <1>3, <1>4

\* A settlement closes the row in hand if it is open.
LEMMA SettleInv ==
    ASSUME TypeOK, PortInv, NEW p \in Ticker, Settle(p),
           disturbed' \subseteq Row, faults' \in 0..MaxFaults
    PROVE  TypeOK' /\ PortInv'
<1>1. /\ at[p].step # "next" /\ UNCHANGED <<receipt, disk, workerVars, overdue>>
      /\ Job(p) \in Row /\ receipt[Job(p)] \in Copy
  BY JobKnown DEF Settle, Doing
<1>2. CASE RowMayMove(row[Job(p)], "SETTLED")
  <2>1. PICK st \in OutboxState, j \in {at[p].job} : st = "SETTLED" /\ j = at[p].job /\ Job(p) = j
    BY DEF OutboxState, Job
  <2>2. PICK c \in Copy : receipt' = [receipt EXCEPT ![j] = c] /\ c = receipt[j]
    BY <1>1, <2>1 DEF TypeOK
  <2>3. row' = [row EXCEPT ![j] = st] /\ Leave(p)
    BY <1>2, <2>1 DEF Settle, SetRow
  <2>4. st # "LAUNCHED" /\ st \in {"LAUNCHED", "SETTLED", "FAILED"} /\ j = at[p].job
    BY <2>1
  <2>5. at[p].step # "next" /\ UNCHANGED <<disk, workerVars, overdue>>
    BY <1>1
  <2> QED BY <2>2, <2>3, <2>4, <2>5, LeaveInv
<1>3. CASE ~RowMayMove(row[Job(p)], "SETTLED")
  BY <1>1, <1>3, ThrowInv DEF Settle
<1> QED BY <1>2, <1>3

\* The receipt stored is that of the copy in hand.
LEMMA StoreReceiptInv ==
    ASSUME TypeOK, PortInv, NEW p \in Ticker, StoreReceipt(p),
           disturbed' \subseteq Row, faults' \in 0..MaxFaults
    PROVE  TypeOK' /\ PortInv'
<1>1. at[p].step = "link" /\ UNCHANGED <<disk, workerVars, overdue>> /\ at[p] \in Place
  BY JobKnown DEF StoreReceipt, Doing
<1>2. at[p].copy \in 1..launches[Job(p)] /\ at[p].copy \in Copy
  BY <1>1, JobKnown DEF HandOK, Job, Place
<1>3. PICK c \in 1..launches[Job(p)] : c \in Copy /\ MarkLaunched(p, Job(p), c)
  BY <1>2 DEF StoreReceipt
<1> QED BY <1>1, <1>3, MarkLaunchedInv

\* A fault is the death of a process or a rejected call.
LEMMA FaultInv ==
    ASSUME TypeOK, PortInv, NEW p \in Ticker, FaultStep(p),
           disturbed' \subseteq Row, faults' \in 0..MaxFaults
    PROVE  TypeOK' /\ PortInv'
<1>1. CASE Crash(p)
  BY <1>1, ExitInv DEF Crash, TypeOK
<1>2. CASE LaunchRejected(p)
  <2>1. /\ at[p].step # "next" /\ FailRow(Job(p)) /\ Leave(p)
        /\ UNCHANGED <<receipt, disk, workerVars, overdue>>
    BY <1>2 DEF LaunchRejected
  <2> QED BY <2>1, FailRowInv
<1>3. CASE CallRejected(p)
  BY <1>3, ThrowInv DEF CallRejected
<1> QED BY <1>1, <1>2, <1>3 DEF FaultStep

\* The copy that Launch starts fits the count, and the gateway's is its first.
LEMMA StartedFits ==
    ASSUME TypeOK, PortInv, NEW p \in Ticker, at[p].step = "launch"
    PROVE  /\ p \in CanLaunch(Job(p)) /\ Started(Job(p)) \in Copy
           /\ launches[Job(p)] <= Started(Job(p)) /\ Started(Job(p)) <= launches[Job(p)] + 1
           /\ Started(Job(p)) >= 1 /\ (Job(p) \notin CliRow => Started(Job(p)) = 1)
<1>1. /\ Job(p) \in Row /\ Job(p) \in at[p].todo /\ PlaceOK(p) /\ launches[Job(p)] \in Nat
  BY JobKnown
<1>2. p \in CanLaunch(Job(p))
  BY <1>1 DEF CanLaunch, PlaceOK, StepsOf
<1>3. launches[Job(p)] + 1 \in Copy
  BY <1>1, <1>2, RoomLeft
<1>4. PICK n \in Nat : Copy = 0..n
  BY Counts DEF Copy
<1>5. Job(p) \notin CliRow => launches[Job(p)] <= 1
  BY <1>1 DEF TypeOK
<1> QED BY <1>1, <1>2, <1>3, <1>4, <1>5 DEF Started

\* What a launch does, found or started.
LaunchFound(p, c) ==
    /\ \E x : Onto(p, x, "link", c)
    /\ UNCHANGED <<row, receipt, disk, launches, live, reported, overdue>>

LaunchStarted(p, c) ==
    /\ launches' = [launches EXCEPT ![Job(p)] = c]
    /\ \E more \in SUBSET {c} : live' = [live EXCEPT ![Job(p)] = @ \cup more]
    /\ \E x : Onto(p, x, "exec", c)
    /\ UNCHANGED <<row, receipt, disk, reported, overdue>>

\* A launch attaches to a worker it finds, or starts one where no file names another.
LEMMA LaunchCases ==
    ASSUME TypeOK, PortInv, NEW p \in Ticker, Launch(p)
    PROVE  \/ \E c \in Recoverable(Job(p)) : LaunchFound(p, c)
           \/ LaunchStarted(p, Started(Job(p))) /\ disk[Job(p)] = 0
<1>1. Job(p) \in Row
  BY JobKnown DEF Launch, Doing
<1>2. UNCHANGED <<row, receipt, disk, reported, overdue>>
  BY DEF Launch
<1>3. PICK r, c : r = Job(p) /\ c = Started(r)
  OBVIOUS
<1>4. \/ \E found \in Recoverable(r) :
            /\ Go(p, [at[p] EXCEPT !.step = "link", !.copy = found])
            /\ UNCHANGED <<launches, live>>
      \/ /\ disk[r] = 0
         /\ launches' = [launches EXCEPT ![r] = c]
         /\ live' = [live EXCEPT ![r] = IF launches[r] < c THEN @ \cup {c} ELSE @]
         /\ Go(p, [at[p] EXCEPT !.step = "exec", !.copy = c])
  BY <1>3 DEF Launch
<1>5. live' = [live EXCEPT ![r] = IF launches[r] < c THEN @ \cup {c} ELSE @]
         => \E more \in SUBSET {c} : live' = [live EXCEPT ![r] = @ \cup more]
  <2>1. live = [q \in Row |-> live[q]] /\ r \in Row
    BY <1>1, <1>3 DEF TypeOK
  <2>2. [live EXCEPT ![r] = @ \cup {c}] = [live EXCEPT ![r] = live[r] \cup {c}]
    BY <2>1
  <2>3. [live EXCEPT ![r] = @] = [live EXCEPT ![r] = live[r] \cup {}]
    BY <2>1
  <2> QED BY <2>1, <2>2, <2>3
<1>6. CASE \E found \in Recoverable(r) :
              /\ Go(p, [at[p] EXCEPT !.step = "link", !.copy = found])
              /\ UNCHANGED <<launches, live>>
  <2>0. PICK found \in Recoverable(r) : /\ Go(p, [at[p] EXCEPT !.step = "link", !.copy = found])
                                        /\ UNCHANGED <<launches, live>>
    BY <1>6
  <2>1. PICK x : x = [at[p] EXCEPT !.step = "link", !.copy = found] /\ Go(p, x)
    BY <2>0
  <2>2. found \in Copy /\ "link" \in Step
    BY <1>1, <1>3, RecoverableStarted DEF Step
  <2>3. Onto(p, x, "link", found)
    BY <2>1, <2>2, GoOnto
  <2> QED BY <1>2, <1>3, <2>0, <2>3 DEF LaunchFound
<1>7. CASE /\ disk[r] = 0
           /\ launches' = [launches EXCEPT ![r] = c]
           /\ live' = [live EXCEPT ![r] = IF launches[r] < c THEN @ \cup {c} ELSE @]
           /\ Go(p, [at[p] EXCEPT !.step = "exec", !.copy = c])
  <2>1. PICK x : x = [at[p] EXCEPT !.step = "exec", !.copy = c] /\ Go(p, x)
    BY <1>7
  <2>2. c \in Copy /\ "exec" \in Step
    BY <1>3, StartedFits DEF Step, Launch, Doing
  <2>3. Onto(p, x, "exec", c)
    BY <2>1, <2>2, GoOnto
  <2>4. LaunchStarted(p, c)
    BY <1>2, <1>3, <1>5, <1>7, <2>3 DEF LaunchStarted
  <2> QED BY <1>3, <1>7, <2>4
<1> QED BY <1>4, <1>6, <1>7

\* Attaching starts nothing.
LEMMA FoundInv ==
    ASSUME TypeOK, PortInv, NEW p \in Ticker, at[p].step = "launch",
           NEW c \in Recoverable(Job(p)), LaunchFound(p, c),
           disturbed' \subseteq Row, faults' \in 0..MaxFaults
    PROVE  TypeOK' /\ PortInv'
<1>1. /\ Job(p) \in Row /\ Job(p) \in at[p].todo /\ PlaceOK(p) /\ HandOK(p) /\ at[p] \in Place
      /\ c \in 1..launches[Job(p)] /\ c \in Copy
  BY JobKnown, RecoverableStarted
<1>2. at[p].phase = "dispatch" /\ "link" \in Step \ {"next"} /\ "link" \in StepsOf(at[p].phase)
  BY <1>1 DEF PlaceOK, StepsOf, Step
<1>3. PICK x : Onto(p, x, "link", c)
  BY DEF LaunchFound
<1>4. /\ at' \in [Ticker -> Place] /\ (\E y : Go(p, y)) /\ PlaceOK(p)'
      /\ at'[p].phase = at[p].phase /\ at'[p].todo = at[p].todo
      /\ at'[p].job = at[p].job /\ at'[p].step = "link" /\ at'[p].copy = c
  BY <1>1, <1>2, <1>3, OntoPlace
<1>5. UNCHANGED <<row, receipt, disk, launches, live, reported, overdue>>
  BY DEF LaunchFound
<1>6. TypeOK'
  BY <1>4, <1>5 DEF TypeOK
<1>7. \A q \in Row : launches[q] \in Nat /\ RowOK(q)
  BY Counts DEF TypeOK, Copy, PortInv
<1>8. Steady /\ \A q \in Row : RowOK(q)'
  BY <1>5, <1>7, RowKept DEF Steady
<1>9. HandOK(p)'
  BY <1>1, <1>2, <1>4, <1>5 DEF HandOK, Job
<1>10. NoNewLaunch(p)
  BY <1>1, <1>2, <1>4 DEF NoNewLaunch, CanLaunch
<1> QED BY <1>4, <1>5, <1>6, <1>8, <1>9, <1>10, PortFromOwn

\* A launch uses up the one start that its claim allowed.
LEMMA StartedInv ==
    ASSUME TypeOK, PortInv, NEW p \in Ticker, at[p].step = "launch",
           LaunchStarted(p, Started(Job(p))),
           disturbed' \subseteq Row, faults' \in 0..MaxFaults
    PROVE  TypeOK' /\ PortInv'
<1>1. PICK r \in Row, c \in Copy : r = Job(p) /\ c = Started(Job(p))
  BY StartedFits, JobKnown
<1>2. /\ r \in at[p].todo /\ PlaceOK(p) /\ HandOK(p) /\ at[p] \in Place /\ launches[r] \in Nat
      /\ p \in CanLaunch(r) /\ launches[r] <= c /\ c <= launches[r] + 1 /\ c >= 1
      /\ r \notin CliRow => c = 1
  BY <1>1, JobKnown, StartedFits
<1>19. c \in Nat
  BY Counts DEF Copy
<1>3. PICK more \in SUBSET {c} : live' = [live EXCEPT ![r] = @ \cup more]
  BY <1>1 DEF LaunchStarted
<1>4. launches' = [launches EXCEPT ![r] = c] /\ UNCHANGED <<row, receipt, disk, reported, overdue>>
  BY <1>1 DEF LaunchStarted
<1>5. at[p].phase = "dispatch" /\ "exec" \in Step \ {"next"} /\ "exec" \in StepsOf(at[p].phase)
  BY <1>2 DEF PlaceOK, StepsOf, Step
<1>18. PICK x : Onto(p, x, "exec", c)
  BY <1>1 DEF LaunchStarted
<1>6. /\ at' \in [Ticker -> Place] /\ (\E y : Go(p, y)) /\ PlaceOK(p)'
      /\ at'[p].phase = at[p].phase /\ at'[p].todo = at[p].todo
      /\ at'[p].job = r /\ at'[p].step = "exec" /\ at'[p].copy = c
  BY <1>1, <1>2, <1>5, <1>18, OntoPlace DEF Job
<1>7. /\ launches'[r] = c /\ live'[r] = live[r] \cup more
      /\ \A q \in Row \ {r} : launches'[q] = launches[q] /\ live'[q] = live[q]
  BY <1>3, <1>4 DEF TypeOK
<1>8. TypeOK'
  <2>1. launches' \in [Row -> Copy] /\ live' \in [Row -> SUBSET Copy]
    BY <1>3, <1>4 DEF TypeOK
  <2>2. \A q \in Row \ CliRow : launches'[q] <= 1
    BY <1>2, <1>7 DEF TypeOK
  <2> QED BY <1>4, <1>6, <2>1, <2>2 DEF TypeOK
<1>9. \A q \in Row : launches[q] \in Nat /\ RowOK(q) /\ disk[q] \in Nat /\ receipt[q] \in Nat
  BY Counts DEF TypeOK, Copy, PortInv
<1>10. row[r] # "PENDING"
  BY <1>1, <1>2 DEF HandOK, Job
<1>11. RowOK(r)'
  <2>1. PICK n \in Nat : c = n /\ n > 0
    BY <1>2, <1>19
  <2>2. /\ live[r] \subseteq 1..launches[r] /\ disk[r] <= launches[r] /\ receipt[r] <= launches[r]
        /\ row[r] = "LAUNCHED" => receipt[r] # 0
    BY <1>9 DEF RowOK
  <2>3. live'[r] \subseteq 1..n /\ disk[r] <= n /\ receipt[r] <= n
    <3>1. \A e \in live[r] : e \in 1..n
      BY <1>2, <1>9, <2>1, <2>2
    <3>2. \A e \in more : e \in 1..n
      BY <2>1
    <3>3. disk[r] <= n /\ receipt[r] <= n
      BY <1>2, <1>9, <2>1, <2>2
    <3> QED BY <1>7, <3>1, <3>2, <3>3
  <2>4. launches'[r] = n /\ row'[r] = row[r] /\ disk'[r] = disk[r] /\ receipt'[r] = receipt[r]
    BY <1>4, <1>7, <2>1
  <2> QED BY <1>10, <2>1, <2>2, <2>3, <2>4 DEF RowOK
<1>12. \A q \in Row : RowOK(q)'
  BY <1>4, <1>7, <1>9, <1>11, RowKept
<1>13. Steady
  BY <1>2, <1>4, <1>7, <1>9 DEF Steady
<1>14. HandOK(p)'
  <2>1. c \in 1..launches'[r]
    BY <1>2, <1>7, <1>19
  <2>2. row'[r] # "PENDING"
    BY <1>4, <1>10
  <2>3. c \in 1..launches'[at'[p].job] /\ row'[at'[p].job] # "PENDING"
    BY <1>6, <2>1, <2>2
  <2> QED BY <1>5, <1>6, <2>3 DEF HandOK
<1>15. NoNewLaunch(p) /\ \A q \in Ticker \ {p} : at'[q] = at[q]
  BY <1>1, <1>2, <1>4, <1>5, <1>6, NewPlace DEF NoNewLaunch, CanLaunch, Job
<1>16. \A q \in Ticker : PlaceOK(q)' /\ HandOK(q)'
  BY <1>6, <1>8, <1>13, <1>14, <1>15, OthersKeep
<1>17. ASSUME NEW q \in Row PROVE Counted(q)'
  <2>1. CanLaunch(q)' \in SUBSET CanLaunch(q)
    BY <1>13, <1>15, CanLaunchShrinks
  <2>2. /\ IsFiniteSet(CanLaunch(q)) /\ Cardinality(CanLaunch(q)) \in Nat
        /\ Cardinality(Ticker) \in Nat /\ launches[q] \in Nat /\ Counted(q)
    BY <1>9, Counts DEF PortInv
  <2>3. CASE q # r
    <3>1. /\ Cardinality(CanLaunch(q)') <= Cardinality(CanLaunch(q))
          /\ Cardinality(CanLaunch(q)') \in Nat
      BY <2>1, <2>2, FS_Subset, FS_CardinalityType
    <3> QED BY <1>7, <2>2, <2>3, <3>1 DEF Counted
  <2>4. CASE q = r
    <3>1. p \notin CanLaunch(r)'
      BY <1>4, <1>6, <1>10 DEF CanLaunch
    <3>2. CanLaunch(q)' \in SUBSET (CanLaunch(q) \ {p})
      BY <2>1, <2>4, <3>1
    <3>3. /\ IsFiniteSet(CanLaunch(q) \ {p})
          /\ Cardinality(CanLaunch(q) \ {p}) = Cardinality(CanLaunch(q)) - 1
      BY <1>2, <2>2, <2>4, FS_RemoveElement
    <3>4. /\ Cardinality(CanLaunch(q)') <= Cardinality(CanLaunch(q)) - 1
          /\ Cardinality(CanLaunch(q)') \in Nat
      BY <3>2, <3>3, FS_Subset, FS_CardinalityType
    <3>5. c <= launches[r] + 1 /\ launches'[r] = c /\ c \in Nat
      BY <1>2, <1>7, Counts DEF Copy
    <3> QED BY <2>2, <2>4, <3>4, <3>5 DEF Counted
  <2> QED BY <2>3, <2>4
<1> QED BY <1>8, <1>12, <1>16, <1>17 DEF PortInv

\* Both ways a launch ends preserve the invariant.
LEMMA LaunchInv ==
    ASSUME TypeOK, PortInv, NEW p \in Ticker, Launch(p),
           disturbed' \subseteq Row, faults' \in 0..MaxFaults
    PROVE  TypeOK' /\ PortInv'
<1>1. at[p].step = "launch"
  BY DEF Launch, Doing
<1> QED BY <1>1, LaunchCases, FoundInv, StartedInv

\* The file that is written names the copy in hand.
LEMMA WriteReceiptInv ==
    ASSUME TypeOK, PortInv, NEW p \in Ticker, WriteReceipt(p),
           disturbed' \subseteq Row, faults' \in 0..MaxFaults
    PROVE  TypeOK' /\ PortInv'
<1>1. /\ at[p].step = "exec" /\ UNCHANGED <<row, receipt, launches, live, reported, overdue>>
      /\ Await(p, "link")
  BY DEF WriteReceipt, Doing, workerVars
<1>2. PICK r \in Row : r = Job(p) /\ disk' = [disk EXCEPT ![r] = at[p].copy]
  BY <1>1, JobKnown DEF WriteReceipt
<1>3. /\ r \in at[p].todo /\ PlaceOK(p) /\ HandOK(p) /\ at[p] \in Place
      /\ at[p].copy \in Copy /\ at[p].copy \in 1..launches[r] /\ row[r] # "PENDING"
  BY <1>1, <1>2, JobKnown DEF HandOK, Job, Place
<1>4. at[p].phase = "dispatch" /\ "link" \in Step \ {"next"} /\ "link" \in StepsOf(at[p].phase)
  BY <1>1, <1>3 DEF PlaceOK, StepsOf, Step
<1>5. /\ at' \in [Ticker -> Place] /\ (\E x : Go(p, x)) /\ PlaceOK(p)'
      /\ at'[p].phase = at[p].phase /\ at'[p].todo = at[p].todo
      /\ at'[p].job = r /\ at'[p].step = "link" /\ at'[p].copy = at[p].copy
  BY <1>1, <1>2, <1>3, <1>4, AwaitOnto, OntoPlace DEF Job
<1>6. TypeOK'
  BY <1>1, <1>2, <1>3, <1>5 DEF TypeOK
<1>7. \A q \in Row : launches[q] \in Nat /\ RowOK(q)
  BY Counts DEF TypeOK, Copy, PortInv
<1>8. disk'[r] = at[p].copy /\ \A q \in Row \ {r} : disk'[q] = disk[q]
  BY <1>2 DEF TypeOK
<1>9. RowOK(r)'
  BY <1>1, <1>3, <1>7, <1>8 DEF RowOK
<1>10. \A q \in Row : RowOK(q)'
  BY <1>1, <1>7, <1>8, <1>9, RowKept
<1>11. Steady
  BY <1>1, <1>7 DEF Steady
<1>12. HandOK(p)'
  <2>1. /\ at[p].copy \in 1..launches'[at'[p].job] /\ row'[at'[p].job] # "PENDING"
    BY <1>1, <1>3, <1>5
  <2> QED BY <1>4, <1>5, <2>1 DEF HandOK
<1>13. NoNewLaunch(p)
  BY <1>1, <1>2, <1>4, <1>5 DEF NoNewLaunch, CanLaunch, Job
<1> QED BY <1>1, <1>5, <1>6, <1>10, <1>11, <1>12, <1>13, PortFromOwn

\* A worker that ends reports, or leaves nothing.
LEMMA EndInv ==
    ASSUME TypeOK, PortInv, NEW r \in Row, End(r), UNCHANGED disturbed
    PROVE  TypeOK' /\ PortInv'
<1>1. PICK c \in live[r], outcome \in SUBSET {r} :
        /\ live' = [live EXCEPT ![r] = @ \ {c}] /\ reported' = reported \cup outcome
        /\ UNCHANGED <<row, receipt, disk, launches, overdue, at, faults>>
  BY DEF End
<1>2. TypeOK'
  BY <1>1 DEF TypeOK
<1>3. \A q \in Row : live'[q] \subseteq live[q]
  BY <1>1 DEF TypeOK
<1>4. ASSUME NEW q \in Row PROVE RowOK(q)'
  <2>1. RowOK(q) /\ launches[q] \in Nat
    BY Counts DEF PortInv, TypeOK, Copy
  <2>2. CASE q \in reported' /\ q \notin reported
    <3>1. q = r /\ c \in 1..launches[q]
      BY <1>1, <2>1, <2>2 DEF RowOK
    <3>2. launches[q] > 0
      BY <2>1, <3>1
    <3> QED BY <1>1, <1>3, <2>1, <3>2 DEF RowOK
  <2>3. CASE ~(q \in reported' /\ q \notin reported)
    BY <1>1, <1>3, <2>1, <2>3, RowKept
  <2> QED BY <2>2, <2>3
<1>5. \A p \in Ticker : PlaceOK(p)'
  BY <1>1 DEF PortInv, PlaceOK
<1>6. \A p \in Ticker : HandOK(p)'
  BY <1>1 DEF PortInv, HandOK
<1>7. \A q \in Row : Counted(q)'
  BY <1>1 DEF PortInv, Counted, CanLaunch
<1> QED BY <1>2, <1>4, <1>5, <1>6, <1>7 DEF PortInv

----------------------------------------------------------------------------
(* PortInv is an invariant. *)

\* Types and PortInv hold at first.
LEMMA InitInv == Init => TypeOK /\ PortInv
<1> SUFFICES ASSUME Init PROVE TypeOK /\ PortInv
  OBVIOUS
<1>1. 0 \in Copy /\ Cardinality(Ticker) \in Nat
  BY Counts DEF Copy
<1>2. TypeOK
  BY <1>1, OffPlace, LaunchAssumption DEF Init, TypeOK, OutboxState
<1>3. \A p \in Ticker : at[p] = Off
  BY DEF Init
<1>4. \A p \in Ticker : PlaceOK(p) /\ HandOK(p)
  BY <1>3 DEF PlaceOK, HandOK, Off, StepsOf
<1>5. \A r \in Row : RowOK(r)
  BY DEF Init, RowOK
<1>6. ASSUME NEW r \in Row PROVE Counted(r)
  <2>1. CanLaunch(r) \in SUBSET Ticker /\ launches[r] = 0
    BY DEF Init, CanLaunch
  <2>2. /\ Cardinality(CanLaunch(r)) <= Cardinality(Ticker)
        /\ Cardinality(CanLaunch(r)) \in Nat
    BY <2>1, Counts, FS_Subset, FS_CardinalityType
  <2> QED BY <1>1, <2>1, <2>2 DEF Counted
<1> QED BY <1>2, <1>4, <1>5, <1>6 DEF PortInv

\* Every step of a tick preserves the invariant.
LEMMA TickInv ==
    ASSUME TypeOK, PortInv, NEW p \in Ticker, TickStep(p), Disturbs(p)
    PROVE  TypeOK' /\ PortInv'
<1>1. disturbed' \subseteq Row /\ faults' \in 0..MaxFaults
  BY BookType
<1>2. CASE Begin(p) \/ Watch(p)
  BY <1>1, <1>2, LoopInv
<1>3. CASE EndLoop(p)
  <2>1. CASE Finished(p, "watch") /\ Exit(p)
    BY <1>1, <1>3, <2>1, ExitInv DEF EndLoop, TypeOK
  <2>2. CASE Finished(p, "reconcile") \/ Finished(p, "dispatch")
    BY <1>1, <1>3, <2>2, LoopInv
  <2> QED BY <1>3, <2>1, <2>2 DEF EndLoop
<1>4. CASE Reconcile(p) \/ Observe(p) \/ CancelHung(p) \/ Claim(p)
  BY <1>1, <1>4, ReconcileInv, ObserveInv, CancelHungInv, ClaimInv
<1>5. CASE Recover(p) \/ Inspect(p) \/ Settle(p)
  BY <1>1, <1>5, RecoverInv, InspectInv, SettleInv
<1>6. CASE Launch(p) \/ WriteReceipt(p) \/ StoreReceipt(p)
  BY <1>1, <1>6, LaunchInv, WriteReceiptInv, StoreReceiptInv
<1> QED BY <1>2, <1>3, <1>4, <1>5, <1>6 DEF TickStep

\* Every step preserves the invariant.
LEMMA StepInv == TypeOK /\ PortInv /\ [Next]_vars => TypeOK' /\ PortInv'
<1> SUFFICES ASSUME TypeOK, PortInv, [Next]_vars PROVE TypeOK' /\ PortInv'
  OBVIOUS
<1>1. CASE \E p \in Ticker : (TickStep(p) \/ FaultStep(p)) /\ Disturbs(p)
  BY <1>1, TickInv, FaultInv, BookType
<1>2. CASE \E r \in Row : End(r) /\ UNCHANGED disturbed
  BY <1>2, EndInv
<1>3. CASE UNCHANGED vars
  BY <1>3 DEF vars, workerVars, TypeOK, PortInv, PlaceOK, HandOK, RowOK, Counted, CanLaunch
<1> QED BY <1>1, <1>2, <1>3 DEF Next

\* For any number of rows and processes: books of the right shape, and what each
\* process knows of the row in its hand stays true while it waits.
THEOREM Invariant == Spec => [](TypeOK /\ PortInv)
<1> QED BY InitInv, StepInv, PTL DEF Spec

\* The types, and with them that the gateway runs one copy of a row's worker for
\* ever, and the launcher never more than there are processes at the wave.
THEOREM TypeCorrect == Spec => []TypeOK
<1> QED BY Invariant, PTL

----------------------------------------------------------------------------
(* Every step is one of LaunchLog. *)

\* Rows that fail, and steps on which nothing closes.
LEMMA FailMapped ==
    ASSUME TypeOK, TypeOK', UNCHANGED <<receipt, launches, reported, overdue>>,
           \A r \in Row : Closed(r) => row'[r] = row[r],
           \A r \in Row : ~Closed(r) => row'[r] # "SETTLED"
    PROVE  Log!Next
<1>1. PICK rows \in SUBSET Row : rows = {r \in Row : ~Closed(r) /\ row'[r] = "FAILED"}
  OBVIOUS
<1>2. \A r \in rows : ~Closed(r)
  BY <1>1
<1>3. [r \in Row |-> IF Closed(r)' THEN row'[r] ELSE "open"]
        = [r \in Row |-> IF r \in rows THEN "FAILED"
                         ELSE [q \in Row |-> IF Closed(q) THEN row[q] ELSE "open"][r]]
  <2>1. ASSUME NEW r \in Row
        PROVE  (IF Closed(r)' THEN row'[r] ELSE "open")
                 = IF r \in rows THEN "FAILED" ELSE IF Closed(r) THEN row[r] ELSE "open"
    BY <1>1 DEF Closed, ClosedRow
  <2> QED BY <2>1
<1>4. Log!Fail(rows)
  BY <1>2, <1>3 DEF Log!Fail
<1> QED BY <1>4 DEF Log!Next

\* A row that is closed moves neither to LAUNCHED nor to SETTLED.
LEMMA MayMove == \A s \in OutboxState :
    /\ RowMayMove(s, "LAUNCHED") => s \notin ClosedRow
    /\ RowMayMove(s, "SETTLED") => s # "FAILED"
BY DEF OutboxState, ClosedRow, RowMayMove, OutboxMoves

\* An error leaves the tick, and what is in between fails.
LEMMA ThrowMapped ==
    ASSUME TypeOK, TypeOK', NEW p \in Ticker, Throw(p),
           UNCHANGED <<receipt, disk, workerVars, overdue>>
    PROVE  Log!Next
<1>1. \A r \in Row : Closed(r) => row'[r] = row[r]
  BY DEF Throw, Closed, ClosedRow
<1>2. \A r \in Row : ~Closed(r) => row'[r] # "SETTLED"
  BY DEF Throw, Closed, ClosedRow
<1> QED BY <1>1, <1>2, FailMapped DEF workerVars

\* markLaunched, and the throw that takes its place on a closed row.
LEMMA LearnMapped ==
    ASSUME TypeOK, TypeOK', PortInv, NEW p \in Ticker, at[p].step # "next",
           NEW c \in 1..launches[Job(p)], MarkLaunched(p, Job(p), c),
           UNCHANGED <<disk, workerVars, overdue>>
    PROVE  Log!Next
<1>1. PICK j \in Row : j = Job(p)
  BY JobKnown
<1>2. row[j] \in OutboxState /\ launches[j] \in Nat /\ c \in 1..launches[j]
  BY <1>1, JobKnown
<1>3. CASE RowMayMove(row[j], "LAUNCHED")
  <2>1. /\ ~Closed(j) /\ row' = [row EXCEPT ![j] = "LAUNCHED"]
        /\ receipt' = [receipt EXCEPT ![j] = c]
    BY <1>1, <1>2, <1>3, MayMove DEF MarkLaunched, SetRow, Closed
  <2>2. /\ row'[j] = "LAUNCHED" /\ receipt'[j] = c /\ c # 0 /\ launches[j] > 0
        /\ \A r \in Row \ {j} : row'[r] = row[r] /\ receipt'[r] = receipt[r]
    BY <1>2, <2>1 DEF TypeOK
  <2>3. \A r \in Row : Closed(r)' = Closed(r) /\ (Closed(r) => row'[r] = row[r])
    BY <2>1, <2>2 DEF Closed, ClosedRow
  <2>4. [r \in Row |-> IF Closed(r)' THEN row'[r] ELSE "open"]
          = [r \in Row |-> IF Closed(r) THEN row[r] ELSE "open"]
    BY <2>3
  <2>5. {r \in Row : receipt'[r] # 0} = {r \in Row : receipt[r] # 0} \cup {j}
    BY <2>2
  <2>6. Log!Learn(j)
    BY <2>1, <2>2, <2>4, <2>5 DEF Log!Learn, workerVars
  <2> QED BY <2>6 DEF Log!Next
<1>4. CASE ~RowMayMove(row[j], "LAUNCHED")
  BY <1>1, <1>4, ThrowMapped DEF MarkLaunched
<1> QED BY <1>3, <1>4

\* Failing a row is a step of LaunchLog.
LEMMA FailRowMapped ==
    ASSUME TypeOK, TypeOK', NEW r \in Row, FailRow(r),
           UNCHANGED <<receipt, disk, workerVars, overdue>>
    PROVE  Log!Next
<1>1. \A q \in Row : Closed(q) => row'[q] = row[q]
  BY DEF FailRow, TypeOK
<1>2. \A q \in Row : ~Closed(q) => row'[q] # "SETTLED"
  BY DEF FailRow, TypeOK, Closed, ClosedRow
<1> QED BY <1>1, <1>2, FailMapped DEF workerVars

\* A row settles on an outcome, or past its wall: HandOK keeps what Inspect, Observe and
\* the watchdog found.
LEMMA SettleMapped ==
    ASSUME TypeOK, TypeOK', PortInv, NEW p \in Ticker, Settle(p)
    PROVE  Log!Next
<1>1. at[p].step = "settle" /\ UNCHANGED <<receipt, disk, workerVars, overdue>>
  BY DEF Settle, Doing
<1>2. PICK j \in Row : j = Job(p)
  BY <1>1, JobKnown
<1>3. /\ row[j] \in OutboxState
      /\ j \in overdue \/ (j \in reported /\ receipt[j] # 0)
  BY <1>1, <1>2, JobKnown DEF HandOK, Job
<1>4. CASE RowMayMove(row[j], "SETTLED") /\ ~Closed(j)
  <2>1. row' = [row EXCEPT ![j] = "SETTLED"]
    BY <1>2, <1>4 DEF Settle, SetRow
  <2>2. row'[j] = "SETTLED" /\ \A r \in Row \ {j} : row'[r] = row[r]
    BY <2>1 DEF TypeOK
  <2>3. PICK f : f = [r \in Row |-> IF Closed(r) THEN row[r] ELSE "open"]
    OBVIOUS
  <2>4. [r \in Row |-> IF Closed(r)' THEN row'[r] ELSE "open"] = [f EXCEPT ![j] = "SETTLED"]
    <3>1. ASSUME NEW r \in Row
          PROVE  (IF Closed(r)' THEN row'[r] ELSE "open") = IF r = j THEN "SETTLED" ELSE f[r]
      BY <2>2, <2>3 DEF Closed, ClosedRow
    <3> QED BY <2>3, <3>1
  <2>5. f[j] = "open"
    BY <1>4, <2>3
  <2>6. Log!Settle(j)
    BY <1>1, <1>3, <2>3, <2>4, <2>5 DEF Log!Settle, workerVars
  <2> QED BY <2>6 DEF Log!Next
<1>5. CASE RowMayMove(row[j], "SETTLED") /\ Closed(j)
  <2>1. row' = [row EXCEPT ![j] = "SETTLED"] /\ row[j] = "SETTLED"
    BY <1>2, <1>3, <1>5, MayMove DEF Settle, SetRow, Closed, ClosedRow
  <2>2. \A r \in Row : row'[r] = row[r]
    BY <2>1 DEF TypeOK
  <2> QED BY <1>1, <2>2, FailMapped DEF Closed, ClosedRow, workerVars
<1>6. CASE ~RowMayMove(row[j], "SETTLED")
  BY <1>1, <1>2, <1>6, ThrowMapped DEF Settle
<1> QED BY <1>4, <1>5, <1>6

\* Launching is a step of LaunchLog.
LEMMA LaunchMapped ==
    ASSUME TypeOK, TypeOK', PortInv, NEW p \in Ticker, Launch(p)
    PROVE  Log!Next
<1>1. at[p].step = "launch"
  BY DEF Launch, Doing
<1>2. CASE \E c \in Recoverable(Job(p)) : LaunchFound(p, c)
  BY <1>2, FailMapped DEF LaunchFound, Closed, ClosedRow
<1>3. CASE LaunchStarted(p, Started(Job(p)))
  <2>1. PICK j \in Row : j = Job(p)
    BY <1>1, JobKnown
  <2>0. PICK c \in Copy : c = Started(j) /\ c >= 1
    BY <1>1, <2>1, StartedFits
  <2>2. /\ c \in Nat /\ c >= 1 /\ launches' = [launches EXCEPT ![j] = c]
        /\ UNCHANGED <<row, receipt, disk, reported, overdue>>
    BY <1>3, <2>0, <2>1, Counts DEF LaunchStarted, Copy
  <2>3. launches'[j] > 0 /\ \A r \in Row \ {j} : launches'[r] = launches[r]
    BY <2>2 DEF TypeOK
  <2>4. {r \in Row : launches'[r] > 0} = {r \in Row : launches[r] > 0} \cup {j}
    BY <2>3
  <2>5. \A r \in Row : Closed(r)' = Closed(r)
    BY <2>2 DEF Closed
  <2>6. Log!Begin(j)
    BY <2>2, <2>4, <2>5 DEF Log!Begin
  <2> QED BY <2>6 DEF Log!Next
<1> QED BY <1>2, <1>3, LaunchCases

\* The steps on which no row closes and no worker starts.
LEMMA QuietMapped ==
    ASSUME TypeOK, TypeOK', NEW p \in Ticker,
           \/ Begin(p) \/ EndLoop(p) \/ Reconcile(p) \/ Inspect(p) \/ Observe(p)
           \/ CancelHung(p) \/ Claim(p) \/ WriteReceipt(p) \/ Crash(p)
    PROVE  Log!Next
<1>1. UNCHANGED <<receipt, launches, reported, overdue>>
  BY DEF Begin, EndLoop, Reconcile, Inspect, Observe, CancelHung, Claim, WriteReceipt, Crash, workerVars
<1>2. ASSUME NEW r \in Row PROVE row'[r] = row[r] \/ (~Closed(r) /\ row'[r] # "SETTLED")
  <2>1. CASE Reconcile(p)
    BY <2>1 DEF Reconcile, MarkReconciling, TypeOK, Closed, ClosedRow
  <2>2. CASE Claim(p)
    BY <2>2 DEF Claim, ClaimOutbox, TypeOK, Closed, ClosedRow
  <2>3. CASE Inspect(p)
    BY <2>3 DEF Inspect, TypeOK, Closed, ClosedRow
  <2>4. CASE \/ Begin(p) \/ EndLoop(p) \/ Observe(p) \/ CancelHung(p) \/ WriteReceipt(p) \/ Crash(p)
    BY <2>4 DEF Begin, EndLoop, Observe, CancelHung, WriteReceipt, Crash
  <2> QED BY <2>1, <2>2, <2>3, <2>4
<1> QED BY <1>1, <1>2, FailMapped DEF Closed, ClosedRow

\* Finding a row past its wall is a step of LaunchLog.
LEMMA WatchMapped ==
    ASSUME NEW p \in Ticker, Watch(p)
    PROVE  Log!Next
<1>1. PICK more \in SUBSET Row : Late(p, more)
  BY DEF Watch, Watched, RowsIn
<1>2. Log!RunLate(more)
  BY <1>1 DEF Late, Log!RunLate, workerVars, Closed
<1> QED BY <1>1, <1>2 DEF Log!Next

\* The end of a worker is its report in LaunchLog, or a stutter.
LEMMA EndMapped ==
    ASSUME TypeOK, PortInv, NEW r \in Row, End(r)
    PROVE  [Log!Next]_Log!logVars
<1>1. PICK c \in live[r], outcome \in SUBSET {r} :
        /\ reported' = reported \cup outcome
        /\ UNCHANGED <<row, receipt, disk, launches, overdue, at, faults>>
  BY DEF End
<1>2. \A q \in Row : Closed(q)' = Closed(q)
  BY <1>1 DEF Closed
<1>3. launches[r] > 0
  <2>1. launches[r] \in Nat /\ c \in 1..launches[r]
    BY Counts DEF PortInv, RowOK, TypeOK, Copy
  <2> QED BY <2>1
<1>4. CASE outcome = {}
  BY <1>1, <1>2, <1>4 DEF Log!logVars
<1>5. CASE outcome = {r}
  <2>1. Log!Report(r)
    BY <1>1, <1>2, <1>3, <1>5 DEF Log!Report
  <2> QED BY <2>1 DEF Log!Next
<1> QED BY <1>1, <1>4, <1>5

\* Every step of LaunchPort is a step of LaunchLog or a stutter.
LEMMA StepMapped ==
    ASSUME TypeOK, TypeOK', PortInv, [Next]_vars
    PROVE  [Log!Next]_Log!logVars
<1>1. ASSUME NEW p \in Ticker, TickStep(p) PROVE Log!Next
  <2>1. CASE Recover(p)
    <3>1. at[p].step # "next" /\ UNCHANGED <<disk, workerVars, overdue>> /\ Job(p) \in Row
      BY <2>1, JobKnown DEF Recover, Doing
    <3>2. CASE \E c \in Recoverable(Job(p)) : MarkLaunched(p, Job(p), c)
      BY <3>1, <3>2, RecoverableStarted, LearnMapped
    <3>3. CASE FailRow(Job(p)) /\ UNCHANGED receipt
      BY <3>1, <3>3, FailRowMapped
    <3> QED BY <2>1, <3>2, <3>3 DEF Recover
  <2>2. CASE StoreReceipt(p)
    <3>1. at[p].step = "link" /\ UNCHANGED <<disk, workerVars, overdue>>
      BY <2>2 DEF StoreReceipt, Doing
    <3>2. at[p].copy \in 1..launches[Job(p)]
      BY <3>1, JobKnown DEF HandOK, Job
    <3>3. PICK c \in 1..launches[Job(p)] : MarkLaunched(p, Job(p), c)
      BY <2>2, <3>2 DEF StoreReceipt
    <3> QED BY <3>1, <3>3, LearnMapped
  <2>3. CASE Settle(p) \/ Launch(p) \/ Watch(p)
    BY <2>3, SettleMapped, LaunchMapped, WatchMapped
  <2>4. CASE \/ Begin(p) \/ EndLoop(p) \/ Reconcile(p) \/ Inspect(p) \/ Observe(p)
             \/ CancelHung(p) \/ Claim(p) \/ WriteReceipt(p)
    BY <2>4, QuietMapped
  <2> QED BY <1>1, <2>1, <2>2, <2>3, <2>4 DEF TickStep
<1>2. ASSUME NEW p \in Ticker, FaultStep(p) PROVE Log!Next
  <2>1. CASE Crash(p)
    BY <2>1, QuietMapped
  <2>2. CASE LaunchRejected(p)
    BY <2>2, JobKnown, FailRowMapped DEF LaunchRejected
  <2>3. CASE CallRejected(p)
    BY <2>3, ThrowMapped DEF CallRejected
  <2> QED BY <1>2, <2>1, <2>2, <2>3 DEF FaultStep
<1>3. CASE UNCHANGED vars
  BY <1>3 DEF vars, workerVars, Log!logVars, Closed
<1> QED BY <1>1, <1>2, <1>3, EndMapped DEF Next

\* LaunchPort implements LaunchLog, for any rows, processes and faults: a closed row is
\* never reopened, a receipt is of a worker that was started, and a row is settled only
\* on the outcome of a worker it has a receipt of, or past its wall.
THEOREM Implements == Spec => ImplementsLaunchLog
<1>1. Init => Log!Init
  BY DEF Init, Log!Init, Closed, ClosedRow
<1>2. TypeOK /\ PortInv /\ TypeOK' /\ [Next]_vars => [Log!Next]_Log!logVars
  BY StepMapped
<1> QED BY <1>1, <1>2, Invariant, PTL DEF Spec, ImplementsLaunchLog, Log!Spec

----------------------------------------------------------------------------
(* Rows that met no fault and no second process. *)

At(r, steps) == \E q \in Ticker : at[q].job = r /\ at[q].step \in steps

Calm(r) ==
    /\ \A p, q \in Ticker : at[p].job = r /\ at[q].job = r => p = q
    /\ launches[r] <= 1
    /\ launches[r] >= 1 /\ disk[r] = 0 => At(r, {"exec"})
    /\ receipt[r] # 0 \/ Closed(r) => disk[r] # 0
    /\ row[r] = "CLAIMED" => At(r, {"launch", "exec", "link"})
    /\ row[r] = "RECONCILING" => At(r, {"recover", "inspect", "settle"})
    /\ At(r, {"recover", "inspect", "settle", "link"}) => disk[r] # 0
    /\ Closed(r) /\ live[r] # {} => r \in overdue \cup reported

CalmInv == \A r \in Row : r \notin disturbed => Calm(r)

\* One process moved.
MovedOnly(p) == \A q \in Ticker \ {p} : at'[q] = at[q]

\* A step of p moves no other process.
LEMMA StepMoves ==
    ASSUME TypeOK, NEW p \in Ticker, TickStep(p) \/ FaultStep(p)
    PROVE  MovedOnly(p)
<1>1. \E x : Go(p, x)
  BY DEF TickStep, FaultStep, Begin, EndLoop, Watch, Late, Reconcile, Recover, Inspect, Observe,
         CancelHung, Settle, Claim, Launch, WriteReceipt, StoreReceipt, Crash, LaunchRejected,
         CallRejected, Enter, AwaitFor, Await, Leave, Exit, Throw, MarkLaunched
<1> QED BY <1>1, NewPlace DEF MovedOnly

\* A calm row with one holder, seen from it.
LEMMA Sole ==
    ASSUME NEW r \in Row, NEW p \in Ticker, Calm(r), at[p].job = r
    PROVE  /\ \A q \in Ticker \ {p} : at[q].job # r
           /\ \A steps : At(r, steps) => at[p].step \in steps
BY DEF Calm, At

\* A row nobody has in hand is calm.
LEMMA FreeCalm ==
    ASSUME NEW r \in Row, \A q \in Ticker : at'[q].job # r,
           launches'[r] <= 1, launches'[r] >= 1 => disk'[r] # 0,
           receipt'[r] # 0 \/ Closed(r)' => disk'[r] # 0,
           row'[r] \notin {"CLAIMED", "RECONCILING"},
           Closed(r)' /\ live'[r] # {} => r \in overdue' \cup reported'
    PROVE  Calm(r)'
<1>1. \A steps : ~At(r, steps)'
  BY DEF At
<1> QED BY <1>1 DEF Calm

\* A row one process has in hand.
LEMMA HeldCalm ==
    ASSUME NEW r \in Row, NEW p \in Ticker, at'[p].job = r,
           \A q \in Ticker \ {p} : at'[q].job # r,
           launches'[r] <= 1, launches'[r] >= 1 /\ disk'[r] = 0 => at'[p].step = "exec",
           receipt'[r] # 0 \/ Closed(r)' => disk'[r] # 0,
           row'[r] = "CLAIMED" => at'[p].step \in {"launch", "exec", "link"},
           row'[r] = "RECONCILING" => at'[p].step \in {"recover", "inspect", "settle"},
           at'[p].step \in {"recover", "inspect", "settle", "link"} => disk'[r] # 0,
           Closed(r)' /\ live'[r] # {} => r \in overdue' \cup reported'
    PROVE  Calm(r)'
<1>1. \A steps : At(r, steps)' <=> at'[p].step \in steps
  BY DEF At
<1>2. \A q, s \in Ticker : at'[q].job = r /\ at'[s].job = r => q = s
  OBVIOUS
<1> QED BY <1>1, <1>2 DEF Calm

\* What a step must not have done to a row it leaves undisturbed.
LEMMA Undisturbed ==
    ASSUME NEW p \in Ticker, Disturbs(p), NEW r \in Row, r \notin disturbed'
    PROVE  /\ r \notin disturbed
           /\ \A q \in Ticker \ {p} : at[q].job = r => row'[r] = row[r] /\ at'[p].job # r
           /\ at[p].job = r => faults' = faults
BY Counts DEF Disturbs, Job

\* A row the process has neither before nor after its step: only an error that leaves
\* the tick may change it, while it is in between.
LEMMA StrangerBooks ==
    ASSUME TypeOK, NEW p \in Ticker, TickStep(p) \/ FaultStep(p),
           NEW r \in Row, at[p].job # r, at'[p].job # r
    PROVE  /\ launches'[r] = launches[r] /\ disk'[r] = disk[r] /\ receipt'[r] = receipt[r]
           /\ live'[r] = live[r] /\ (r \in overdue => r \in overdue') /\ reported' = reported
           /\ row'[r] = row[r] \/ row[r] \in {"CLAIMED", "RECONCILING"}
<1>2. Throw(p) => row'[r] = row[r] \/ row[r] \in {"CLAIMED", "RECONCILING"}
  BY DEF Throw
<1>3. FailRow(Job(p)) => row'[r] = row[r]
  BY DEF FailRow, TypeOK, Job
<1>4. ASSUME NEW c, MarkLaunched(p, Job(p), c)
      PROVE  receipt'[r] = receipt[r] /\ (row'[r] = row[r] \/ row[r] \in {"CLAIMED", "RECONCILING"})
  BY <1>2, <1>4 DEF MarkLaunched, SetRow, TypeOK, Job
<1>5. ASSUME NEW s, NEW st, AwaitFor(p, s, st) PROVE s # r
  <2>1. PICK x : x = [at[p] EXCEPT !.job = s, !.step = st]
    OBVIOUS
  <2>2. x.job = s
    BY <2>1 DEF TypeOK, Place
  <2>3. at'[p] = x
    BY <1>5, <2>1, NewPlace DEF AwaitFor
  <2> QED BY <2>2, <2>3
<1>6. CASE Begin(p) \/ EndLoop(p) \/ Watch(p) \/ Observe(p) \/ Crash(p)
  BY <1>6 DEF Begin, EndLoop, Watch, Late, Observe, Crash, workerVars
<1>7. CASE Reconcile(p)
  <2>1. PICK s : MarkReconciling(s) /\ AwaitFor(p, s, IF receipt[s] = 0 THEN "recover" ELSE "inspect")
    BY <1>7 DEF Reconcile
  <2>2. s # r
    BY <1>5, <2>1
  <2> QED BY <1>7, <2>1, <2>2 DEF Reconcile, MarkReconciling, TypeOK, workerVars
<1>8. CASE Claim(p)
  <2>1. PICK s : ClaimOutbox(s) /\ AwaitFor(p, s, "launch")
    BY <1>8 DEF Claim
  <2>2. s # r
    BY <1>5, <2>1
  <2> QED BY <1>8, <2>1, <2>2 DEF Claim, ClaimOutbox, TypeOK, workerVars
<1>9. CASE CancelHung(p)
  <2>1. PICK s : Cancel(s) /\ AwaitFor(p, s, "settle")
    BY <1>9 DEF CancelHung
  <2>2. s # r
    BY <1>5, <2>1
  <2> QED BY <1>9, <2>1, <2>2 DEF CancelHung, Cancel, TypeOK
<1>10. CASE Recover(p)
  BY <1>3, <1>4, <1>10 DEF Recover, workerVars
<1>11. CASE Inspect(p)
  BY <1>11 DEF Inspect, workerVars, TypeOK, Job
<1>12. CASE Settle(p)
  BY <1>2, <1>12 DEF Settle, SetRow, workerVars, TypeOK, Job
<1>13. CASE Launch(p)
  BY <1>13 DEF Launch, TypeOK, Job
<1>14. CASE WriteReceipt(p)
  BY <1>14 DEF WriteReceipt, workerVars, TypeOK, Job
<1>15. CASE StoreReceipt(p)
  BY <1>4, <1>15 DEF StoreReceipt, workerVars
<1>16. CASE LaunchRejected(p) \/ CallRejected(p)
  BY <1>2, <1>3, <1>16 DEF LaunchRejected, CallRejected, workerVars
<1> QED BY <1>6, <1>7, <1>8, <1>9, <1>10, <1>11, <1>12, <1>13, <1>14, <1>15, <1>16
        DEF TickStep, FaultStep

\* A step of a process that has nothing to do with r keeps r calm.
LEMMA StrangerCalm ==
    ASSUME TypeOK, TypeOK', NEW p \in Ticker, TickStep(p) \/ FaultStep(p), Disturbs(p),
           NEW r \in Row, r \notin disturbed', Calm(r), at[p].job # r, at'[p].job # r
    PROVE  Calm(r)'
<1>1. /\ launches'[r] = launches[r] /\ disk'[r] = disk[r] /\ receipt'[r] = receipt[r]
      /\ live'[r] = live[r] /\ (r \in overdue => r \in overdue') /\ reported' = reported
      /\ row'[r] = row[r] \/ row[r] \in {"CLAIMED", "RECONCILING"}
  BY StrangerBooks
<1>2. row'[r] = row[r]
  <2>1. \A q \in Ticker \ {p} : at[q].job = r => row'[r] = row[r]
    BY Undisturbed
  <2>2. row[r] \in {"CLAIMED", "RECONCILING"} => \E q \in Ticker \ {p} : at[q].job = r
    BY DEF Calm, At
  <2> QED BY <1>1, <2>1, <2>2
<1>3. \A q \in Ticker : at'[q] = at[q] \/ (at'[q].job # r /\ at[q].job # r)
  BY StepMoves DEF MovedOnly
<1>4. \A steps : At(r, steps)' <=> At(r, steps)
  BY <1>3 DEF At
<1>5. \A q, s \in Ticker : at'[q].job = r /\ at'[s].job = r => q = s
  BY <1>3 DEF Calm
<1> QED BY <1>1, <1>2, <1>4, <1>5 DEF Calm, Closed

\* Where a step leaves its process.
LEMMA EnterLeaves ==
    ASSUME TypeOK, NEW p \in Ticker, NEW ph, NEW rows,
           Enter(p, ph, rows) \/ Leave(p) \/ Exit(p) \/ Throw(p)
    PROVE  at'[p].job = None
<1>1. CASE Enter(p, ph, rows) \/ Leave(p)
  <2>1. PICK f, s : Enter(p, f, s)
    BY <1>1 DEF Leave
  <2>2. PICK x : x = [Off EXCEPT !.phase = f, !.todo = s]
    OBVIOUS
  <2>3. x.job = None
    BY <2>2 DEF Off
  <2> QED BY <2>1, <2>2, <2>3, NewPlace DEF Enter
<1>2. CASE Exit(p) \/ Throw(p)
  BY <1>2, ExitPlace DEF Throw
<1> QED BY <1>1, <1>2

\* Where a process is that awaits something for s.
LEMMA AwaitForLeaves ==
    ASSUME TypeOK, NEW p \in Ticker, NEW s, NEW st, AwaitFor(p, s, st)
    PROVE  at'[p].job = s /\ at'[p].step = st
<1>1. PICK x : x = [at[p] EXCEPT !.job = s, !.step = st]
  OBVIOUS
<1>2. x.job = s /\ x.step = st
  BY <1>1 DEF TypeOK, Place
<1> QED BY <1>1, <1>2, NewPlace DEF AwaitFor

\* A process that takes a row in hand.
LEMMA PickBooks ==
    ASSUME TypeOK, PortInv, NEW p \in Ticker, TickStep(p) \/ FaultStep(p),
           NEW r \in Row, at[p].job # r, at'[p].job = r
    PROVE  /\ UNCHANGED <<launches, disk, receipt, overdue, reported>> /\ live'[r] \subseteq live[r]
           /\ \/ /\ at'[p].step = "launch"
                 /\ row'[r] = row[r] \/ row'[r] = "CLAIMED"
              \/ /\ at'[p].step \in {"recover", "inspect", "settle"} /\ row[r] # "PENDING"
                 /\ \/ row'[r] = row[r]
                    \/ /\ row[r] \in {"CLAIMED", "LAUNCHED"} /\ row'[r] = "RECONCILING"
                       /\ at'[p].step \in {"recover", "inspect"}
<1>1. r # None /\ HandOK(p) /\ PlaceOK(p)
  BY Counts DEF PortInv
<1>2. CASE Reconcile(p)
  <2>1. PICK s \in at[p].todo, st \in {"recover", "inspect"} :
          /\ at[p].phase = "reconcile" /\ MarkReconciling(s) /\ AwaitFor(p, s, st)
          /\ UNCHANGED <<receipt, disk, workerVars, overdue>>
    BY <1>2, FollowingInTodo DEF Reconcile
  <2>2. s = r /\ at'[p].step = st
    BY <2>1, AwaitForLeaves
  <2>3. row[r] # "PENDING"
    BY <1>1, <2>1, <2>2 DEF HandOK
  <2> QED BY <2>1, <2>2, <2>3 DEF MarkReconciling, TypeOK, workerVars
<1>3. CASE Claim(p)
  <2>1. PICK s : /\ ClaimOutbox(s) /\ AwaitFor(p, s, "launch")
                 /\ UNCHANGED <<receipt, disk, workerVars, overdue>>
    BY <1>3 DEF Claim
  <2>2. s = r /\ at'[p].step = "launch"
    BY <2>1, AwaitForLeaves
  <2> QED BY <2>1, <2>2 DEF ClaimOutbox, TypeOK, workerVars
<1>4. CASE Observe(p)
  <2>1. PICK s \in at[p].todo :
          /\ at[p].phase = "observe"
          /\ AwaitFor(p, s, "settle") \/ Enter(p, "observe", at[p].todo \ {s})
          /\ UNCHANGED <<row, receipt, disk, workerVars, overdue>>
    BY <1>4, FollowingInTodo DEF Observe
  <2>2. AwaitFor(p, s, "settle")
    BY <1>1, <2>1, EnterLeaves
  <2>3. s = r /\ at'[p].step = "settle"
    BY <2>2, AwaitForLeaves
  <2>4. row[r] # "PENDING"
    BY <1>1, <2>1, <2>3 DEF HandOK
  <2> QED BY <2>1, <2>3, <2>4 DEF workerVars
<1>5. CASE CancelHung(p)
  <2>1. PICK s \in at[p].todo :
          /\ at[p].phase = "watch" /\ Cancel(s) /\ AwaitFor(p, s, "settle")
          /\ UNCHANGED <<row, receipt, disk, launches, reported, overdue>>
    BY <1>5, FollowingInTodo DEF CancelHung
  <2>2. s = r /\ at'[p].step = "settle"
    BY <2>1, AwaitForLeaves
  <2>3. row[r] # "PENDING"
    BY <1>1, <2>1, <2>2 DEF HandOK
  <2> QED BY <2>1, <2>2, <2>3 DEF Cancel, TypeOK
<1>6. CASE Begin(p) \/ EndLoop(p) \/ Watch(p) \/ Crash(p) \/ LaunchRejected(p) \/ CallRejected(p)
           \/ Recover(p) \/ Settle(p) \/ StoreReceipt(p)
  <2>1. at'[p].job = None
    BY <1>6, EnterLeaves DEF Begin, EndLoop, Watch, Late, Crash, LaunchRejected, CallRejected,
       Recover, Settle, StoreReceipt, MarkLaunched
  <2> QED BY <1>1, <2>1
<1>7. CASE Inspect(p) \/ WriteReceipt(p)
  <2>1. \/ Leave(p)
        \/ \E s \in {"settle", "link"} : Await(p, s)
    BY <1>7 DEF Inspect, WriteReceipt
  <2>2. CASE Leave(p)
    BY <1>1, <2>2, EnterLeaves
  <2>3. CASE \E s \in {"settle", "link"} : Await(p, s)
    <3>1. PICK x : Go(p, x) /\ x.job = at[p].job
      BY <2>3, AwaitOnto DEF Onto, Step
    <3> QED BY <3>1, NewPlace
  <2> QED BY <2>1, <2>2, <2>3
<1>8. CASE Launch(p)
  <2>1. PICK x : Go(p, x) /\ x.job = at[p].job
    BY <1>8, LaunchCases DEF LaunchFound, LaunchStarted, Onto
  <2> QED BY <2>1, NewPlace
<1> QED BY <1>2, <1>3, <1>4, <1>5, <1>6, <1>7, <1>8 DEF TickStep, FaultStep

\* A process that takes r in hand finds it calm.
LEMMA PickCalm ==
    ASSUME TypeOK, TypeOK', PortInv, NEW p \in Ticker, TickStep(p) \/ FaultStep(p), Disturbs(p),
           NEW r \in Row, r \notin disturbed', Calm(r), at[p].job # r, at'[p].job = r
    PROVE  Calm(r)'
<1>1. \A q \in Ticker : at[q].job # r
  BY Undisturbed
<1>2. \A q \in Ticker \ {p} : at'[q].job # r
  BY <1>1, StepMoves DEF MovedOnly
<1>3. \A steps : ~At(r, steps)
  BY <1>1 DEF At
<1>4. /\ launches[r] <= 1 /\ (launches[r] >= 1 => disk[r] # 0)
      /\ (receipt[r] # 0 \/ Closed(r) => disk[r] # 0)
      /\ row[r] \notin {"CLAIMED", "RECONCILING"}
      /\ (Closed(r) /\ live[r] # {} => r \in overdue \cup reported)
  BY <1>3 DEF Calm
<1>5. /\ row[r] \in OutboxState /\ disk[r] \in Nat /\ launches[r] \in Nat
      /\ (row[r] = "LAUNCHED" => receipt[r] # 0)
  BY Counts DEF TypeOK, PortInv, RowOK, Copy
<1>6. /\ launches' = launches /\ disk' = disk /\ receipt' = receipt /\ overdue' = overdue
      /\ reported' = reported /\ live'[r] \subseteq live[r]
  BY PickBooks
<1>7. CASE at'[p].step = "launch" /\ (row'[r] = row[r] \/ row'[r] = "CLAIMED")
  <2>1. Closed(r)' => Closed(r)
    BY <1>7 DEF Closed, ClosedRow
  <2>2. row'[r] # "RECONCILING"
    BY <1>4, <1>7
  <2>3. at'[p].step \in {"launch", "exec", "link"}
        /\ at'[p].step \notin {"recover", "inspect", "settle", "link"}
    BY <1>7
  <2> QED BY <1>2, <1>4, <1>5, <1>6, <2>1, <2>2, <2>3, HeldCalm
<1>8. CASE /\ at'[p].step \in {"recover", "inspect", "settle"} /\ row[r] # "PENDING"
           /\ row'[r] = row[r] \/ (row[r] \in {"CLAIMED", "LAUNCHED"} /\ row'[r] = "RECONCILING")
  <2>1. Closed(r)' => Closed(r)
    BY <1>8 DEF Closed, ClosedRow
  <2>2. disk[r] # 0
    BY <1>4, <1>5, <1>8 DEF OutboxState, Closed, ClosedRow
  <2>3. row'[r] # "CLAIMED"
    BY <1>4, <1>8
  <2> QED BY <1>2, <1>4, <1>5, <1>6, <1>8, <2>1, <2>2, <2>3, HeldCalm
<1> QED BY <1>7, <1>8, PickBooks

\* What a process knows of the calm row in its hand.
LEMMA OwnKnown ==
    ASSUME TypeOK, PortInv, NEW p \in Ticker, NEW r \in Row, Calm(r), at[p].job = r
    PROVE  /\ Job(p) = r /\ at[p].step # "next" /\ \A q \in Ticker \ {p} : at[q].job # r
           /\ launches[r] \in Nat /\ disk[r] \in Nat /\ receipt[r] \in Nat /\ row[r] \in OutboxState
           /\ launches[r] <= 1 /\ (launches[r] >= 1 /\ disk[r] = 0 => at[p].step = "exec")
           /\ (receipt[r] # 0 \/ Closed(r) => disk[r] # 0)
           /\ (row[r] = "CLAIMED" => at[p].step \in {"launch", "exec", "link"})
           /\ (row[r] = "RECONCILING" => at[p].step \in {"recover", "inspect", "settle"})
           /\ (at[p].step \in {"recover", "inspect", "settle", "link"} => disk[r] # 0)
           /\ (Closed(r) /\ live[r] # {} => r \in overdue \cup reported)
<1>1. /\ \A q \in Ticker \ {p} : at[q].job # r
      /\ \A steps : At(r, steps) => at[p].step \in steps
  BY Sole
<1>2. At(r, {at[p].step})
  BY DEF At
<1>3. at[p].step \in {"recover", "inspect", "settle", "link"}
        => At(r, {"recover", "inspect", "settle", "link"})
  BY DEF At
<1>4. at[p].step # "next"
  BY Counts DEF PortInv, PlaceOK
<1>5. launches[r] \in Nat /\ disk[r] \in Nat /\ receipt[r] \in Nat /\ row[r] \in OutboxState
  BY Counts DEF TypeOK, Copy
<1> QED BY <1>1, <1>3, <1>4, <1>5 DEF Calm, Job

\* A process that leaves a calm row, with its receipt on disk, in a state of rest.
LEMMA LeftCalm ==
    ASSUME TypeOK, TypeOK', PortInv, NEW p \in Ticker, TickStep(p),
           NEW r \in Row, Calm(r), at[p].job = r, at'[p].job = None, disk[r] # 0,
           UNCHANGED <<disk, launches, live, overdue, reported>>,
           row'[r] \notin {"CLAIMED", "RECONCILING"},
           Closed(r)' => Closed(r) \/ r \in overdue \cup reported
    PROVE  Calm(r)'
<1>1. \A q \in Ticker : at'[q].job # r
  BY OwnKnown, StepMoves, Counts DEF MovedOnly
<1> QED BY <1>1, OwnKnown, FreeCalm

\* markLaunched on a calm row: it was not closed meanwhile.
LEMMA MarkedCalm ==
    ASSUME TypeOK, TypeOK', PortInv, NEW p \in Ticker, TickStep(p),
           NEW r \in Row, Calm(r), at[p].job = r, at[p].step \in {"recover", "link"},
           NEW c, MarkLaunched(p, r, c), UNCHANGED <<disk, workerVars, overdue>>
    PROVE  Calm(r)'
<1>1. disk[r] # 0 /\ row[r] \in OutboxState
  BY OwnKnown
<1>2. at'[p].job = None /\ UNCHANGED <<disk, launches, live, overdue, reported>>
  BY EnterLeaves DEF MarkLaunched, workerVars
<1>3. CASE RowMayMove(row[r], "LAUNCHED")
  <2>1. row'[r] = "LAUNCHED"
    BY <1>3 DEF MarkLaunched, SetRow, TypeOK
  <2> QED BY <1>1, <1>2, <2>1, LeftCalm DEF Closed, ClosedRow
<1>4. CASE ~RowMayMove(row[r], "LAUNCHED")
  <2>1. row[r] \notin {"CLAIMED", "RECONCILING"}
    BY <1>4 DEF RowMayMove, OutboxMoves, OutboxState
  <2>2. row'[r] = row[r]
    BY <1>4, <2>1 DEF MarkLaunched, Throw
  <2> QED BY <1>1, <1>2, <2>1, <2>2, LeftCalm DEF Closed
<1> QED BY <1>3, <1>4

\* Recover attaches to the one worker there is.
LEMMA RecoverCalm ==
    ASSUME TypeOK, TypeOK', PortInv, NEW p \in Ticker, Recover(p),
           NEW r \in Row, Calm(r), at[p].job = r
    PROVE  Calm(r)'
<1>1. at[p].step = "recover" /\ UNCHANGED <<disk, workerVars, overdue>>
  BY DEF Recover, Doing
<1>2. disk[r] # 0 /\ Job(p) = r
  BY <1>1, OwnKnown
<1>3. \E c : MarkLaunched(p, r, c)
  BY <1>2 DEF Recover
<1> QED BY <1>1, <1>3, MarkedCalm DEF TickStep

\* Inspecting a calm row gives up no worker that runs.
LEMMA InspectCalm ==
    ASSUME TypeOK, TypeOK', PortInv, NEW p \in Ticker, Inspect(p),
           NEW r \in Row, Calm(r), at[p].job = r
    PROVE  Calm(r)'
<1>1. /\ at[p].step = "inspect" /\ UNCHANGED <<receipt, disk, launches, live, reported, overdue>>
      /\ Job(p) = r /\ disk[r] # 0 /\ row[r] # "CLAIMED"
  BY OwnKnown DEF Inspect, Doing, workerVars
<1>2. CASE Decided(r)
  <2>1. Await(p, "settle") /\ row' = row
    BY <1>1, <1>2 DEF Inspect
  <2>2. at'[p].job = r /\ at'[p].step = "settle"
    <3>1. PICK x : Onto(p, x, "settle", at[p].copy)
      BY <2>1, AwaitOnto DEF Step
    <3> QED BY <3>1, NewPlace DEF Onto
  <2>3. \A q \in Ticker \ {p} : at'[q].job # r
    BY OwnKnown, StepMoves DEF MovedOnly, TickStep
  <2>4. Closed(r)' <=> Closed(r)
    BY <2>1 DEF Closed
  <2>5. at'[p].step \in {"recover", "inspect", "settle"} /\ row'[r] # "CLAIMED"
    BY <1>1, <2>1, <2>2
  <2> QED BY <1>1, <2>2, <2>3, <2>4, <2>5, OwnKnown, HeldCalm
<1>3. CASE ~Decided(r)
  <2>1. /\ row' = [row EXCEPT ![r] = IF @ = "RECONCILING" THEN "LAUNCHED" ELSE @]
        /\ at'[p].job = None
    BY <1>1, <1>3, EnterLeaves DEF Inspect
  <2>2. row'[r] = IF row[r] = "RECONCILING" THEN "LAUNCHED" ELSE row[r]
    BY <2>1 DEF TypeOK
  <2>3. row'[r] \notin {"CLAIMED", "RECONCILING"} /\ (Closed(r)' => Closed(r))
    BY <1>1, <2>2 DEF Closed, ClosedRow
  <2> QED BY <1>1, <2>1, <2>3, LeftCalm DEF TickStep
<1> QED BY <1>2, <1>3

\* A calm row is settled once its worker has reported or its wall is over.
LEMMA SettleCalm ==
    ASSUME TypeOK, TypeOK', PortInv, NEW p \in Ticker, Settle(p),
           NEW r \in Row, Calm(r), at[p].job = r
    PROVE  Calm(r)'
<1>1. /\ at[p].step = "settle" /\ UNCHANGED <<disk, launches, live, reported, overdue>>
      /\ Job(p) = r /\ disk[r] # 0 /\ row[r] # "CLAIMED" /\ row[r] \in OutboxState
  BY OwnKnown DEF Settle, Doing, workerVars
<1>2. r \in overdue \cup reported
  BY <1>1, JobKnown DEF HandOK, Job
<1>3. at'[p].job = None
  BY EnterLeaves DEF Settle
<1>4. row'[r] \notin {"CLAIMED", "RECONCILING"}
  <2>1. CASE RowMayMove(row[r], "SETTLED")
    BY <1>1, <2>1 DEF Settle, SetRow, TypeOK
  <2>2. CASE ~RowMayMove(row[r], "SETTLED")
    <3>1. row[r] # "RECONCILING"
      BY <2>2 DEF RowMayMove, OutboxMoves, OutboxState
    <3> QED BY <1>1, <2>2, <3>1 DEF Settle, Throw
  <2> QED BY <2>1, <2>2
<1> QED BY <1>1, <1>2, <1>3, <1>4, LeftCalm DEF TickStep

\* The launch of a calm row finds the receipt of its worker, or there was none.
LEMMA LaunchCalm ==
    ASSUME TypeOK, TypeOK', PortInv, NEW p \in Ticker, Launch(p),
           NEW r \in Row, Calm(r), at[p].job = r
    PROVE  Calm(r)'
<1>1. /\ at[p].step = "launch" /\ Job(p) = r /\ launches[r] \in Nat /\ disk[r] \in Nat
      /\ (launches[r] >= 1 => disk[r] # 0) /\ row[r] # "RECONCILING"
  BY OwnKnown DEF Launch, Doing
<1>2. \A q \in Ticker \ {p} : at'[q].job # r
  BY OwnKnown, StepMoves DEF MovedOnly, TickStep
<1>3. CASE \E c \in Recoverable(r) : LaunchFound(p, c)
  <2>1. PICK c \in Recoverable(r), x \in Place : Onto(p, x, "link", c)
    BY <1>3 DEF LaunchFound, Onto
  <2>2. at'[p].job = r /\ at'[p].step = "link"
    BY <2>1, NewPlace DEF Onto
  <2>3. UNCHANGED <<row, receipt, disk, launches, live, reported, overdue>>
    BY <1>3 DEF LaunchFound
  <2>4. disk[r] # 0
    BY <1>1, <2>1 DEF Recoverable, Remembered, Listed
  <2>5. Closed(r)' <=> Closed(r)
    BY <2>3 DEF Closed
  <2>6. at'[p].step \in {"launch", "exec", "link"}
    BY <2>2
  <2> QED BY <1>1, <1>2, <2>2, <2>3, <2>4, <2>5, <2>6, OwnKnown, HeldCalm
<1>4. CASE LaunchStarted(p, Started(r)) /\ disk[r] = 0
  <2>1. launches[r] = 0 /\ ~Closed(r) /\ receipt[r] = 0
    BY <1>1, <1>4, OwnKnown
  <2>2. PICK x \in Place : Onto(p, x, "exec", Started(r))
    BY <1>4 DEF LaunchStarted, Onto
  <2>3. at'[p].job = r /\ at'[p].step = "exec"
    BY <2>2, NewPlace DEF Onto
  <2>4. UNCHANGED <<row, receipt, disk, reported, overdue>> /\ launches'[r] = 1
    BY <1>1, <1>4, <2>1 DEF LaunchStarted, Started, TypeOK
  <2>5. ~Closed(r)'
    BY <2>1, <2>4 DEF Closed
  <2>6. at'[p].step \in {"launch", "exec", "link"}
        /\ at'[p].step \notin {"recover", "inspect", "settle", "link"}
    BY <2>3
  <2> QED BY <1>1, <1>2, <2>1, <2>3, <2>4, <2>5, <2>6, HeldCalm
<1> QED BY <1>1, <1>3, <1>4, LaunchCases

\* The file names the one worker there is.
LEMMA WriteReceiptCalm ==
    ASSUME TypeOK, TypeOK', PortInv, NEW p \in Ticker, WriteReceipt(p),
           NEW r \in Row, Calm(r), at[p].job = r
    PROVE  Calm(r)'
<1>1. /\ at[p].step = "exec" /\ UNCHANGED <<row, receipt, launches, live, reported, overdue>>
      /\ Job(p) = r /\ row[r] # "RECONCILING" /\ launches[r] \in Nat
  BY OwnKnown DEF WriteReceipt, Doing, workerVars
<1>2. at[p].copy \in 1..launches[r]
  BY <1>1, JobKnown DEF HandOK, Job
<1>3. disk'[r] = at[p].copy /\ disk'[r] # 0
  BY <1>1, <1>2 DEF WriteReceipt, TypeOK
<1>4. at'[p].job = r /\ at'[p].step = "link"
  <2>1. PICK x : Onto(p, x, "link", at[p].copy)
    BY AwaitOnto DEF Step, WriteReceipt
  <2> QED BY <2>1, NewPlace DEF Onto
<1>5. \A q \in Ticker \ {p} : at'[q].job # r
  BY OwnKnown, StepMoves DEF MovedOnly, TickStep
<1>6. (Closed(r)' <=> Closed(r)) /\ at'[p].step \in {"launch", "exec", "link"}
  BY <1>1, <1>4 DEF Closed
<1> QED BY <1>1, <1>3, <1>4, <1>5, <1>6, OwnKnown, HeldCalm

\* The outcome and the end of a worker; nothing moves.
LEMMA EndCalm ==
    ASSUME TypeOK, CalmInv, NEW w \in Row, End(w), UNCHANGED disturbed
    PROVE  CalmInv'
<1>1. PICK c \in live[w], outcome \in SUBSET {w} :
        /\ live' = [live EXCEPT ![w] = @ \ {c}] /\ reported' = reported \cup outcome
        /\ UNCHANGED <<row, receipt, disk, launches, overdue, at, faults>>
  BY DEF End
<1>2. ASSUME NEW r \in Row, r \notin disturbed PROVE Calm(r)'
  <2>1. Calm(r) /\ live'[r] \subseteq live[r]
    BY <1>1, <1>2 DEF CalmInv, TypeOK
  <2>2. \A steps : At(r, steps)' <=> At(r, steps)
    BY <1>1 DEF At
  <2> QED BY <1>1, <2>1, <2>2 DEF Calm, Closed
<1> QED BY <1>2 DEF CalmInv

\* Every step of the process that has r in hand keeps it calm.
LEMMA OwnCalm ==
    ASSUME TypeOK, TypeOK', PortInv, NEW p \in Ticker, TickStep(p) \/ FaultStep(p), Disturbs(p),
           NEW r \in Row, r \notin disturbed', Calm(r), at[p].job = r
    PROVE  Calm(r)'
<1>1. at[p].step # "next" /\ Job(p) = r /\ faults' = faults
  BY OwnKnown, Undisturbed
<1>2. faults \in Nat
  BY LaunchAssumption DEF TypeOK
<1>3. ~FaultStep(p)
  BY <1>1, <1>2 DEF FaultStep, Crash, LaunchRejected, CallRejected, Fault
<1>4. \/ Recover(p) \/ Inspect(p) \/ Settle(p) \/ Launch(p) \/ WriteReceipt(p) \/ StoreReceipt(p)
  <2>1. at[p].phase # "off"
    BY <1>1 DEF PortInv, PlaceOK, StepsOf
  <2>2. ~Begin(p) /\ ~Watch(p) /\ ~Reconcile(p) /\ ~Observe(p) /\ ~CancelHung(p) /\ ~Claim(p)
    BY <1>1, <2>1
       DEF Begin, Watch, Late, Finished, Doing, Reconcile, Observe, CancelHung, Claim
  <2>3. ~EndLoop(p)
    BY <1>1 DEF EndLoop, Finished, Doing
  <2> QED BY <1>3, <2>2, <2>3 DEF TickStep
<1>5. CASE StoreReceipt(p)
  BY <1>1, <1>5, MarkedCalm DEF StoreReceipt, Doing, TickStep
<1> QED BY <1>4, <1>5, RecoverCalm, InspectCalm, SettleCalm, LaunchCalm, WriteReceiptCalm

\* Every step preserves CalmInv.
LEMMA CalmStep == TypeOK /\ TypeOK' /\ PortInv /\ CalmInv /\ [Next]_vars => CalmInv'
<1> SUFFICES ASSUME TypeOK, TypeOK', PortInv, CalmInv, [Next]_vars PROVE CalmInv'
  OBVIOUS
<1>1. ASSUME NEW p \in Ticker, TickStep(p) \/ FaultStep(p), Disturbs(p) PROVE CalmInv'
  <2>1. ASSUME NEW r \in Row, r \notin disturbed' PROVE Calm(r)'
    <3>1. Calm(r)
      BY <1>1, <2>1, Undisturbed DEF CalmInv
    <3> QED BY <1>1, <2>1, <3>1, OwnCalm, PickCalm, StrangerCalm
  <2> QED BY <2>1 DEF CalmInv
<1>2. CASE UNCHANGED vars
  BY <1>2 DEF vars, workerVars, CalmInv, Calm, At, Closed
<1> QED BY <1>1, <1>2, EndCalm DEF Next

\* CalmInv holds at first.
LEMMA InitCalm == Init => CalmInv
BY Counts DEF Init, CalmInv, Calm, At, Closed, ClosedRow, Off, None

\* CalmInv is an invariant.
LEMMA CalmInvariant == Spec => []CalmInv
BY InitCalm, CalmStep, Invariant, PTL DEF Spec

\* One process that meets no fault starts one worker per row, for any number of rows and
\* processes.
THEOREM DoubleLaunch == Spec => []DoubleLaunchExplained
<1>1. TypeOK /\ CalmInv => DoubleLaunchExplained
  BY Counts DEF TypeOK, CalmInv, Calm, DoubleLaunchExplained, Copy
<1> QED BY <1>1, Invariant, CalmInvariant, PTL

\* No loop gives up a healthy worker by itself.
THEOREM Orphan == Spec => []OrphanExplained
<1>1. CalmInv => OrphanExplained
  BY DEF CalmInv, Calm, OrphanExplained
<1> QED BY <1>1, CalmInvariant, PTL
=============================================================================
