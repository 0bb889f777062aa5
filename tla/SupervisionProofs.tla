-------------------------- MODULE SupervisionProofs --------------------------
(***************************************************************************)
(* Kicks and supervisors, for any number of waves, ledgers, kicks and       *)
(* copies: what is frozen, what is refused, who ticks, and whom a stop for  *)
(* being stuck blames.                                                      *)
(***************************************************************************)
EXTENDS Supervision, FiniteSetTheorems, WellFoundedInduction, TLAPS

\* A kick past its dry run kicks a wave that passed it, and one about to start
\* its wave has found or put it there.
KicksOK ==
    \A k \in Kick : kick[k].at # "off" =>
        /\ kick[k].wave \in Wave /\ Preflight(Asked[kick[k].wave])
        /\ kick[k].at = "start" => phase[kick[k].wave] # "absent"

\* A wave is frozen as its kick asked, after its dry run.
FrozenAsAsked ==
    \A w \in Wave : phase[w] # "absent" =>
        Preflight(Asked[w]) /\ frozen[w] = TopologicalOrder(Asked[w])

\* Until something went wrong around the supervisor there is at most one copy: one kick at
\* a time spawns, none while a copy is up, and the pidfile names the copy, whose
\* heartbeat is fresh unless a kick still waits for the first one.
Spawning == {k \in Kick : kick[k].at \in {"spawn", "wait"}}

Alone ==
    "twin" \notin excuses =>
        /\ \A s, u \in Up : s = u
        /\ \A j, k \in Spawning : j = k
        /\ \A k \in Kick : kick[k].at = "spawn" => Up = {}
        /\ Up # {} => pidfile \in Up /\ (fresh \/ Spawning # {})

\* Until two creates overlapped, at most one kick is about to put a wave, and the wave
\* is not there yet.
CreatesApart ==
    "creates" \notin excuses =>
        \A k \in Kick : kick[k].at = "write" =>
            /\ phase[kick[k].wave] = "absent"
            /\ \A j \in Kick : kick[j] = kick[k] => j = k

\* A copy that has counted anything counted it on one ledger, which was quiet for at least
\* as many ticks and is so still.
Counted(s) ==
    LET l == sup[s].prev IN
        l # None /\ sup[s].stuck > 0 =>
            /\ still[l] >= sup[s].stuck
            /\ \A w \in LiveOn(l) : phase[w] \in Running \ {"busy"}

CountsKnown == \A s \in Copy : Counted(s)

\* Every wave a kick was refused for failed its dry run.
RefusedRightly == \A w \in refused : w \in Wave /\ ~Preflight(Asked[w])

SupervisionInv ==
    /\ KicksOK /\ FrozenAsAsked /\ RefusedRightly
    /\ Alone /\ CreatesApart /\ CountsKnown

----------------------------------------------------------------------------
(* The order of a selection: buildFrozenManifest's topological sort.         *)

\* What is placed once one more ticket is: the recursion of TopologicalOrder.
PlaceNext(asked, placed) ==
    LET ready == Ready(asked, ToSet(placed))
    IN  IF ready = {} THEN placed ELSE Append(placed, asked[Min(ready)])

\* Every set of natural numbers that is not empty has a least element.
LEMMA LeastNatural ==
    ASSUME NEW T, T \subseteq Nat, T # {}
    PROVE  \E n \in T : \A m \in T : n <= m
<1> DEFINE Less == {ss \in Nat \X Nat : ss[1] < ss[2]}
<1>1. IsWellFoundedOn(Less, Nat)
  BY NatLessThanWellFounded DEF OpToRel
<1> HIDE DEF Less
<1>2. PICK n \in T : \A m \in T : ~(<<m, n>> \in Less)
  BY <1>1, WFMin
<1>3. ASSUME NEW m \in T PROVE n <= m
  <2>1. ~(<<m, n>> \in Less)
    BY <1>2
  <2> QED BY <2>1 DEF Less
<1> QED BY <1>3

\* Min returns the least element.
LEMMA MinOfNaturals ==
    ASSUME NEW T, T \subseteq Nat, T # {}
    PROVE  Min(T) \in T /\ \A m \in T : Min(T) <= m
  BY LeastNatural DEF Min

\* What holds at 0 and is inherited holds for all numbers up to N.
LEMMA UpTo ==
    ASSUME NEW N \in Nat, NEW T, 0 \in T,
           \A n \in 1 .. N : n - 1 \in T => n \in T
    PROVE  \A n \in 0 .. N : n \in T
<1> DEFINE Bad == {n \in 0 .. N : n \notin T}
<1>1. CASE Bad = {}
  BY <1>1
<1>2. CASE Bad # {}
  <2>1. PICK n \in Bad : \A m \in Bad : n <= m
    <3>1. Bad \subseteq Nat
      OBVIOUS
    <3> HIDE DEF Bad
    <3> QED BY <1>2, <3>1, LeastNatural
  <2>2. n \in 1 .. N /\ n - 1 \in 0 .. N
    <3>1. n \in 0 .. N /\ n # 0
      BY <2>1
    <3> QED BY <3>1
  <2>3. n - 1 \notin Bad
    <3>1. n - 1 < n
      BY <2>2
    <3> HIDE DEF Bad
    <3> QED BY <2>1, <2>2, <3>1
  <2> QED BY <2>1, <2>2, <2>3
<1> QED BY <1>1, <1>2

\* The recursive definition of what is placed has a solution.
LEMMA PlacingExists ==
    ASSUME NEW asked, NEW N \in Nat
    PROVE  \E f : f = [n \in 0 .. N |-> IF n = 0 THEN <<>> ELSE PlaceNext(asked, f[n - 1])]
<1> DEFINE Solves(f, m) ==
        f = [n \in 0 .. m |-> IF n = 0 THEN <<>> ELSE PlaceNext(asked, f[n - 1])]
           T == {m \in Nat : \E f : Solves(f, m)}
<1>1. 0 \in T
  <2>1. Solves([n \in 0 .. 0 |-> <<>>], 0)
    OBVIOUS
  <2> QED BY <2>1
<1>2. ASSUME NEW m \in 1 .. N, m - 1 \in T PROVE m \in T
  <2>1. PICK f : Solves(f, m - 1)
    BY <1>2
  <2>2. PICK g : g = [n \in 0 .. m |-> IF n = 0 THEN <<>> ELSE PlaceNext(asked, f[n - 1])]
    OBVIOUS
  <2>3. ASSUME NEW n \in 1 .. m PROVE g[n - 1] = f[n - 1]
    <3>1. n - 1 \in 0 .. m /\ n - 1 \in 0 .. m - 1
      OBVIOUS
    <3> QED BY <2>1, <2>2, <3>1
  <2>4. [n \in 0 .. m |-> IF n = 0 THEN <<>> ELSE PlaceNext(asked, f[n - 1])]
            = [n \in 0 .. m |-> IF n = 0 THEN <<>> ELSE PlaceNext(asked, g[n - 1])]
    BY <2>3
  <2>5. Solves(g, m)
    BY <2>2, <2>4
  <2>6. m \in Nat
    OBVIOUS
  <2> QED BY <2>5, <2>6
<1>3. N \in T
  <2> HIDE DEF T
  <2> QED BY <1>1, <1>2, UpTo
<1> QED BY <1>3

\* TopologicalOrder is the last value of a function that places one ticket after the other.
LEMMA Placing ==
    ASSUME NEW asked \in Seq(Ticket)
    PROVE  \E f : /\ f[0] = <<>>
                  /\ \A n \in 1 .. Len(asked) : f[n] = PlaceNext(asked, f[n - 1])
                  /\ TopologicalOrder(asked) = f[Len(asked)]
<1> DEFINE Solves(f) == f = [n \in 0 .. Len(asked) |->
                                IF n = 0 THEN <<>> ELSE PlaceNext(asked, f[n - 1])]
           placed == CHOOSE f : Solves(f)
<1>1. Len(asked) \in Nat
  OBVIOUS
<1>2. Solves(placed)
  BY <1>1, PlacingExists
<1>3. TopologicalOrder(asked) = placed[Len(asked)]
  BY DEF TopologicalOrder, PlaceNext
<1>4. placed[0] = <<>> /\ \A n \in 1 .. Len(asked) : placed[n] = PlaceNext(asked, placed[n - 1])
  <2> HIDE DEF placed
  <2> QED BY <1>1, <1>2
<1> QED BY <1>3, <1>4

\* What is placed was asked for, each ticket once, after those it depends on.
Placed(asked, s) ==
    /\ s \in Seq(ToSet(asked)) /\ Len(s) <= Len(asked)
    /\ \A i, j \in 1 .. Len(s) : s[i] = s[j] => i = j
    /\ \A i \in 1 .. Len(s) : \A d \in Kept(asked, s[i]) : \E j \in 1 .. i - 1 : s[j] = d

\* The elements of a sequence without repetition are as many as it is long.
LEMMA Elements ==
    ASSUME NEW S, NEW s \in Seq(S), \A i, j \in 1 .. Len(s) : s[i] = s[j] => i = j
    PROVE  IsFiniteSet(ToSet(s)) /\ Cardinality(ToSet(s)) = Len(s)
<1>1. Len(s) \in Nat /\ DOMAIN s = 1 .. Len(s)
  OBVIOUS
<1>2. IsFiniteSet(1 .. Len(s)) /\ Cardinality(1 .. Len(s)) = Len(s)
  BY <1>1, FS_Interval
<1>3. s \in [1 .. Len(s) -> ToSet(s)]
  BY <1>1 DEF ToSet
<1>4. s \in Bijection(1 .. Len(s), ToSet(s))
  <2>1. s \in Injection(1 .. Len(s), ToSet(s))
    BY <1>1, <1>3 DEF Injection, IsInjective
  <2>2. \A x \in ToSet(s) : \E i \in 1 .. Len(s) : s[i] = x
    BY <1>1 DEF ToSet
  <2>3. s \in Surjection(1 .. Len(s), ToSet(s))
    BY <1>3, <2>2 DEF Surjection
  <2> QED BY <2>1, <2>3 DEF Bijection
<1> QED BY <1>2, <1>4, FS_Bijection DEF ExistsBijection

\* The elements of any sequence are no more than it is long.
LEMMA ElementsBound ==
    ASSUME NEW S, NEW s \in Seq(S)
    PROVE  IsFiniteSet(ToSet(s)) /\ Cardinality(ToSet(s)) <= Len(s)
<1>1. Len(s) \in Nat /\ DOMAIN s = 1 .. Len(s)
  OBVIOUS
<1>2. IsFiniteSet(1 .. Len(s)) /\ Cardinality(1 .. Len(s)) = Len(s)
  BY <1>1, FS_Interval
<1>3. s \in [1 .. Len(s) -> ToSet(s)]
  BY <1>1 DEF ToSet
<1>4. \A x \in ToSet(s) : \E i \in 1 .. Len(s) : s[i] = x
  BY <1>1 DEF ToSet
<1>5. s \in Surjection(1 .. Len(s), ToSet(s))
  BY <1>3, <1>4 DEF Surjection
<1> QED BY <1>2, <1>5, FS_Surjection

\* Nothing is placed at first.
LEMMA PlacedNone == ASSUME NEW asked \in Seq(Ticket) PROVE Placed(asked, <<>>)
<1>1. Len(asked) \in Nat /\ <<>> \in Seq(ToSet(asked)) /\ Len(<<>>) = 0
  OBVIOUS
<1>2. 1 .. 0 = {}
  OBVIOUS
<1> QED BY <1>1, <1>2 DEF Placed

\* Placing one more ticket keeps that, and places one while any can be.
LEMMA PlaceOne ==
    ASSUME NEW asked \in Seq(Ticket), NEW s, Placed(asked, s)
    PROVE  /\ Placed(asked, PlaceNext(asked, s))
           /\ Ready(asked, ToSet(s)) # {} => Len(PlaceNext(asked, s)) = Len(s) + 1
<1> DEFINE ready == Ready(asked, ToSet(s))
<1>0. /\ DOMAIN asked = 1 .. Len(asked) /\ Len(asked) \in Nat
      /\ s \in Seq(ToSet(asked)) /\ Len(s) \in Nat
  BY DEF Placed
<1>1. CASE ready = {}
  BY <1>1 DEF PlaceNext
<1>2. CASE ready # {}
  <2>1. ready \subseteq Nat
    BY <1>0 DEF Ready
  <2>2. PICK i : i = Min(ready) /\ i \in ready
    <3> HIDE DEF ready
    <3> QED BY <1>2, <2>1, MinOfNaturals
  <2>3. i \in 1 .. Len(asked) /\ asked[i] \notin ToSet(s) /\ Kept(asked, asked[i]) \subseteq ToSet(s)
    BY <1>0, <2>2 DEF Ready
  <2>4. PICK x : x = asked[i]
    OBVIOUS
  <2>5. x \in ToSet(asked) /\ x \notin ToSet(s) /\ Kept(asked, x) \subseteq ToSet(s)
    BY <1>0, <2>3, <2>4 DEF ToSet
  <2>6. PICK r : r = PlaceNext(asked, s)
    OBVIOUS
  <2>7. r = Append(s, x)
    BY <1>2, <2>2, <2>4, <2>6 DEF PlaceNext
  <2>8. /\ r \in Seq(ToSet(asked)) /\ Len(r) = Len(s) + 1 /\ r[Len(s) + 1] = x
        /\ \A j \in 1 .. Len(s) : r[j] = s[j]
    BY <1>0, <2>5, <2>7
  <2>9. \A j \in 1 .. Len(s) : s[j] \in ToSet(s) /\ s[j] # x
    BY <1>0, <2>5 DEF ToSet
  <2>10. \A j, k \in 1 .. Len(r) : r[j] = r[k] => j = k
    BY <1>0, <2>8, <2>9 DEF Placed
  <2>11. Len(r) <= Len(asked)
    <3>1. r \in Seq(ToSet(asked))
      BY <2>8
    <3>2. Cardinality(ToSet(r)) = Len(r)
      BY <2>8, <2>10, Elements
    <3>3. ToSet(r) \subseteq ToSet(asked)
      BY <2>8 DEF ToSet
    <3>4. IsFiniteSet(ToSet(asked)) /\ Cardinality(ToSet(asked)) <= Len(asked)
      BY ElementsBound
    <3> QED BY <1>0, <2>8, <3>2, <3>3, <3>4, FS_Subset, FS_CardinalityType
  <2>12. ASSUME NEW j \in 1 .. Len(r), NEW d \in Kept(asked, r[j])
         PROVE  \E k \in 1 .. j - 1 : r[k] = d
    <3>1. CASE j \in 1 .. Len(s)
      <4>1. PICK k \in 1 .. j - 1 : s[k] = d
        BY <2>8, <2>12, <3>1 DEF Placed
      <4>2. k \in 1 .. Len(s)
        BY <1>0, <3>1, <4>1
      <4> QED BY <2>8, <4>1, <4>2
    <3>2. CASE j = Len(s) + 1
      <4>1. d \in ToSet(s)
        BY <2>5, <2>8, <2>12, <3>2
      <4>2. PICK k \in 1 .. Len(s) : s[k] = d
        BY <1>0, <4>1 DEF ToSet
      <4> QED BY <1>0, <2>8, <3>2, <4>2
    <3> QED BY <1>0, <2>8, <3>1, <3>2
  <2>13. Placed(asked, r)
    BY <2>8, <2>10, <2>11, <2>12 DEF Placed
  <2> QED BY <2>6, <2>8, <2>13
<1> QED BY <1>1, <1>2

\* The order of a selection is made of what was asked for, dependencies first.
LEMMA OrderPlaced ==
    ASSUME NEW asked \in Seq(Ticket)
    PROVE  Placed(asked, TopologicalOrder(asked))
<1>1. PICK f : /\ f[0] = <<>>
               /\ \A n \in 1 .. Len(asked) : f[n] = PlaceNext(asked, f[n - 1])
               /\ TopologicalOrder(asked) = f[Len(asked)]
  BY Placing
<1> DEFINE T == {n \in Nat : Placed(asked, f[n])}
<1>2. 0 \in T
  BY <1>1, PlacedNone
<1>3. ASSUME NEW n \in 1 .. Len(asked), n - 1 \in T PROVE n \in T
  BY <1>1, <1>3, PlaceOne
<1>4. Len(asked) \in Nat /\ Len(asked) \in 0 .. Len(asked)
  OBVIOUS
<1>5. Len(asked) \in T
  <2> HIDE DEF T
  <2> QED BY <1>2, <1>3, <1>4, UpTo
<1> QED BY <1>1, <1>5

\* A selection without repetition of which nothing depends on another is ordered whole.
LEMMA OrderFull ==
    ASSUME NEW asked \in Seq(Ticket), Cardinality(ToSet(asked)) = Len(asked),
           \A t \in ToSet(asked) : Kept(asked, t) = {}
    PROVE  Len(TopologicalOrder(asked)) = Len(asked)
<1>1. PICK f : /\ f[0] = <<>>
               /\ \A n \in 1 .. Len(asked) : f[n] = PlaceNext(asked, f[n - 1])
               /\ TopologicalOrder(asked) = f[Len(asked)]
  BY Placing
<1>0. Len(asked) \in Nat /\ Len(asked) \in 0 .. Len(asked) /\ DOMAIN asked = 1 .. Len(asked)
  OBVIOUS
<1> DEFINE T == {n \in Nat : Placed(asked, f[n]) /\ Len(f[n]) = n}
<1>2. 0 \in T
  BY <1>1, PlacedNone
<1>3. ASSUME NEW n \in 1 .. Len(asked), n - 1 \in T PROVE n \in T
  <2>1. PICK s : s = f[n - 1]
    OBVIOUS
  <2>2. Placed(asked, s) /\ Len(s) = n - 1 /\ f[n] = PlaceNext(asked, s)
    BY <1>1, <1>3, <2>1
  <2>3. ToSet(s) # ToSet(asked)
    <3>1. Cardinality(ToSet(s)) = n - 1
      BY <2>2, Elements DEF Placed
    <3> QED BY <1>0, <3>1
  <2>4. PICK i \in 1 .. Len(asked) : asked[i] \notin ToSet(s)
    <3>1. ToSet(s) \subseteq ToSet(asked)
      BY <2>2 DEF Placed, ToSet
    <3>2. PICK x \in ToSet(asked) : x \notin ToSet(s)
      BY <2>3, <3>1
    <3> QED BY <1>0, <3>2 DEF ToSet
  <2>5. Ready(asked, ToSet(s)) # {}
    BY <1>0, <2>4 DEF Ready, ToSet
  <2>6. Placed(asked, f[n]) /\ Len(f[n]) = n
    BY <2>2, <2>5, PlaceOne
  <2> QED BY <2>6
<1>4. Len(asked) \in T
  <2> HIDE DEF T
  <2> QED BY <1>0, <1>2, <1>3, UpTo
<1> QED BY <1>1, <1>4

\* What a kick that passed its dry run is frozen as: all it asked for, in an order that
\* respects every dependency that is not closed on the board.
LEMMA FrozenOrder ==
    ASSUME NEW asked \in Seq(Ticket), Freezes(asked)
    PROVE  LET order == TopologicalOrder(asked)
           IN  /\ order \in Seq(Ticket) /\ order # <<>>
               /\ ToSet(order) = ToSet(asked)
               /\ \A i \in DOMAIN order : \A d \in DependsOn[order[i]] :
                     Closed(d) \/ \E j \in 1 .. i - 1 : order[j] = d
<1>1. PICK order : order = TopologicalOrder(asked)
  OBVIOUS
<1>2. Placed(asked, order) /\ Len(order) = Len(asked) /\ order \in Seq(ToSet(asked))
  <2>1. Placed(asked, order)
    BY <1>1, OrderPlaced
  <2>2. Len(order) = Len(asked)
    BY <1>1 DEF Freezes, Acyclic
  <2> QED BY <2>1, <2>2 DEF Placed
<1>3. Len(asked) \in Nat /\ DOMAIN asked = 1 .. Len(asked) /\ DOMAIN order = 1 .. Len(order)
  BY <1>2
<1>4. Len(asked) # 0 /\ Cardinality(ToSet(asked)) = Len(asked)
  BY <1>3 DEF Freezes, WellFormed, IntakeAssumption
<1>5. ToSet(asked) \subseteq Ticket /\ ToSet(order) \subseteq ToSet(asked)
  BY <1>2, <1>3 DEF ToSet
<1>6. ToSet(order) = ToSet(asked)
  <2>1. Cardinality(ToSet(order)) = Len(order)
    BY <1>2, Elements DEF Placed
  <2>2. IsFiniteSet(ToSet(asked))
    BY ElementsBound
  <2> QED BY <1>2, <1>4, <1>5, <2>1, <2>2, FS_Subset
<1>7. ASSUME NEW i \in DOMAIN order, NEW d \in DependsOn[order[i]]
      PROVE  Closed(d) \/ \E j \in 1 .. i - 1 : order[j] = d
  <2>1. order[i] \in ToSet(asked)
    BY <1>5 DEF ToSet
  <2>2. CASE d \in ToSet(asked)
    BY <1>2, <1>3, <2>2 DEF Placed, Kept
  <2>3. CASE d \notin ToSet(asked)
    BY <2>1, <2>3 DEF Freezes, Normalizes
  <2> QED BY <2>2, <2>3
<1>8. order \in Seq(Ticket) /\ order # <<>>
  BY <1>2, <1>3, <1>4, <1>5
<1> QED BY <1>1, <1>6, <1>7, <1>8

\* A selection of what a drain may select is refused only for its workers, for its launches,
\* and where the last file of a ticket disputes the first.
LEMMA EligibleFreezes ==
    ASSUME NEW asked \in Seq(Ticket), WellFormed(asked),
           \A t \in ToSet(asked) : Eligible(t) /\ ~Disputed(t) /\ t \notin StrangeWorker
    PROVE  Freezes(asked)
<1>0. ToSet(asked) \subseteq Ticket
  BY DEF ToSet
<1>1. ASSUME NEW t \in ToSet(asked)
      PROVE  /\ Known(t) /\ ~Closed(t) /\ LastFile(t).verified
             /\ \A d \in DependsOn[t] : Known(d) /\ Closed(d)
  <2>1. DependsOn[t] = FirstFile(t).dependsOn /\ LastFile(t).verified = FirstFile(t).verified
    BY <1>0, <1>1 DEF DependsOn, Disputed, Eligible
  <2> QED BY <1>1, <2>1 DEF Eligible
<1>2. \A t \in ToSet(asked) : Kept(asked, t) = {}
  BY <1>1 DEF Kept
<1>3. Acyclic(asked)
  BY <1>2, OrderFull DEF Acyclic, WellFormed
<1> QED BY <1>1, <1>3 DEF Freezes, Normalizes, Verifiable, KnownPlanWorkers

----------------------------------------------------------------------------
(* What a step may do to waves, kicks and copies.                            *)

\* No move of a wave creates it, drafts it, or leads out of the phases.
LEMMA MovesOK ==
    ASSUME NEW p \in Phase, NEW q \in Moves[p]
    PROVE  /\ q \in Phase /\ (q = "absent" <=> p = "absent")
           /\ q = "draft" => p = "draft"
  BY DEF Moves, Phase

\* What another process does to a wave.
LEMMA PutType ==
    ASSUME TypeOK, NEW w \in Wave, NEW p \in Phase, Put(w, p)
    PROVE  /\ phase' = [phase EXCEPT ![w] = p] /\ phase' \in [Wave -> Phase]
           /\ still' \in [Ledger -> 0..StuckTicks]
           /\ sup' \in [Copy -> Supervisor]
           /\ \A s \in Copy : sup'[s] \in {sup[s], [sup[s] EXCEPT !.prev = None]}
<1>1. StuckTicks \in Nat /\ LedgerOf[w] \in Ledger
  BY SupervisionAssumption
<1>2. phase' = [phase EXCEPT ![w] = p] /\ phase' \in [Wave -> Phase]
  BY DEF Put, TypeOK
<1>3. still' \in [Ledger -> 0..StuckTicks]
  BY <1>1 DEF Put, TypeOK
<1>4. ASSUME NEW s \in Copy
      PROVE  sup'[s] \in {sup[s], [sup[s] EXCEPT !.prev = None]} /\ sup'[s] \in Supervisor
  <2>1. sup'[s] \in {sup[s], [sup[s] EXCEPT !.prev = None]}
    BY DEF Put, Forget
  <2>2. sup[s] \in Supervisor
    BY DEF TypeOK
  <2>3. [sup[s] EXCEPT !.prev = None] \in Supervisor
    BY <2>2 DEF Supervisor
  <2> QED BY <2>1, <2>2, <2>3
<1>5. sup' \in [Copy -> Supervisor]
  <2>1. sup' = sup \/ sup' = Forget({LedgerOf[w]})
    BY DEF Put
  <2> QED BY <1>4, <2>1 DEF TypeOK, Forget
<1> QED BY <1>2, <1>3, <1>4, <1>5

\* What a tick makes of the waves: their ledger's live ones move, the others stay.
LEMMA AfterType ==
    ASSUME TypeOK, NEW l, NEW after \in Outcomes(l),
           phase' = [w \in Wave |-> IF w \in LiveOn(l) THEN after[w] ELSE phase[w]]
    PROVE  /\ phase' \in [Wave -> Phase]
           /\ \A w \in LiveOn(l) : after[w] \in Moves[phase[w]]
<1>1. \A w \in LiveOn(l) : after[w] \in Moves[phase[w]] /\ after[w] \in Phase
  BY DEF Outcomes, Live, Phase
<1> QED BY <1>1 DEF TypeOK

\* The kick at hand goes on to another point, or leaves.
LEMMA KickType ==
    ASSUME TypeOK, NEW k \in Kick, NEW at \in KickAt, Goto(k, at) \/ Leave(k)
    PROVE  /\ kick' \in [Kick -> [at : KickAt, wave : Wave \cup {None}]]
           /\ \A j \in Kick \ {k} : kick'[j] = kick[j]
           /\ \/ Goto(k, at) /\ kick'[k].at = at /\ kick'[k].wave = kick[k].wave
              \/ Leave(k) /\ kick'[k] = [at |-> "off", wave |-> None]
<1>0. kick \in [Kick -> [at : KickAt, wave : Wave \cup {None}]]
  BY DEF TypeOK
<1>1. CASE Goto(k, at)
  <2>1. kick' = [kick EXCEPT ![k] = [kick[k] EXCEPT !.at = at]]
    BY <1>1 DEF Goto
  <2>2. [kick[k] EXCEPT !.at = at] \in [at : KickAt, wave : Wave \cup {None}]
    BY <1>0
  <2>3. [kick[k] EXCEPT !.at = at].at = at /\ [kick[k] EXCEPT !.at = at].wave = kick[k].wave
    BY <1>0
  <2> QED BY <1>0, <1>1, <2>1, <2>2, <2>3
<1>2. CASE Leave(k)
  <2>1. [at |-> "off", wave |-> None] \in [at : KickAt, wave : Wave \cup {None}]
    BY DEF KickAt
  <2> QED BY <1>0, <1>2, <2>1 DEF Leave
<1> QED BY <1>1, <1>2

\* A copy that is not running is of the type of copies.
LEMMA DownType == Down \in Supervisor /\ Down.at = "down"
<1>1. {StuckTicks, FailLimit, IdleCycles} \subseteq Nat \ {0}
  BY SupervisionAssumption
<1> QED BY <1>1 DEF Down, Supervisor


----------------------------------------------------------------------------
(* Types, kicks, and what is frozen.                                         *)

\* Where no wave comes to be and no ticket list is written, they stay as they were.
LEMMA FrozenFrame ==
    ASSUME FrozenAsAsked, UNCHANGED frozen,
           \A w \in Wave : phase'[w] = "absent" <=> phase[w] = "absent"
    PROVE  FrozenAsAsked'
  BY DEF FrozenAsAsked

\* The kick at hand may go on if its dry run passed and, to start, its wave is there.
LEMMA KicksFrom ==
    ASSUME KicksOK, NEW k \in Kick, \A j \in Kick \ {k} : kick'[j] = kick[j],
           \A w \in Wave : phase[w] # "absent" => phase'[w] # "absent",
           kick'[k].at # "off" =>
               /\ kick'[k].wave \in Wave /\ Preflight(Asked[kick'[k].wave])
               /\ kick'[k].at = "start" => phase'[kick'[k].wave] # "absent"
    PROVE  KicksOK'
<1> SUFFICES ASSUME NEW j \in Kick, kick'[j].at # "off"
             PROVE  /\ kick'[j].wave \in Wave /\ Preflight(Asked[kick'[j].wave])
                    /\ kick'[j].at = "start" => phase'[kick'[j].wave] # "absent"
  BY DEF KicksOK
<1> QED BY DEF KicksOK

\* The base of the invariant.
Base == TypeOK /\ KicksOK /\ FrozenAsAsked

\* The steps of a kick that leave the waves alone.
LEMMA KickBase ==
    ASSUME Base, NEW k \in Kick,
           \/ Check(k) \/ Spawn(k) \/ Wait(k) \/ Read(k) \/ KickDies(k)
           \/ \E w \in Wave : Begin(k, w) \/ Refuse(k, w)
    PROVE  Base'
<1> USE DEF Base
<1>0. /\ UNCHANGED <<phase, frozen, still>>
      /\ kick \in [Kick -> [at : KickAt, wave : Wave \cup {None}]] /\ None \notin Wave
      /\ {MaxKicks, MaxFaults} \subseteq Nat
  BY SupervisionAssumption DEF Check, Spawn, Wait, Read, KickDies, Begin, Refuse, waveVars, TypeOK
<1>1. FrozenAsAsked'
  BY <1>0, FrozenFrame
<1>2. CASE Check(k) \/ Wait(k) \/ Read(k) \/ KickDies(k)
  <2>1. PICK at \in KickAt : (Goto(k, at) \/ Leave(k)) /\ (at = "start" => Read(k))
    BY <1>2 DEF Check, Wait, Read, KickDies, KickAt
  <2>2. TypeOK'
    <3>1. kick' \in [Kick -> [at : KickAt, wave : Wave \cup {None}]]
      BY <2>1, KickType
    <3> QED BY <1>0, <1>2, <3>1 DEF Check, Wait, Read, KickDies, Fault, TypeOK, pidVars
  <2>3. kick[k].at # "off" /\ (Goto(k, "start") => phase[kick[k].wave] # "absent")
    <3>1. Goto(k, "start") => Read(k) /\ phase[kick[k].wave] # "absent"
      BY <1>0, <1>2 DEF Check, Wait, Read, KickDies, Goto, Leave
    <3> QED BY <1>2, <3>1 DEF Check, Wait, Read, KickDies
  <2>4. KicksOK'
    <3>1. /\ \A j \in Kick \ {k} : kick'[j] = kick[j]
          /\ \/ Goto(k, at) /\ kick'[k].at = at /\ kick'[k].wave = kick[k].wave
             \/ kick'[k] = [at |-> "off", wave |-> None]
      BY <2>1, KickType
    <3>2. kick'[k].at # "off" =>
               /\ kick'[k].wave \in Wave /\ Preflight(Asked[kick'[k].wave])
               /\ kick'[k].at = "start" => phase'[kick'[k].wave] # "absent"
      BY <1>0, <2>3, <3>1 DEF KicksOK
    <3> QED BY <1>0, <3>1, <3>2, KicksFrom
  <2> QED BY <1>1, <2>2, <2>4
<1>3. CASE Spawn(k)
  <2>1. PICK s : s = Min(Copy \ Up) /\ sup' = [sup EXCEPT ![s].at = "boot"] /\ pidfile' = s
    BY <1>3 DEF Spawn
  <2>2. s \in Copy
    <3>1. Copy \ Up # {} /\ Copy \ Up \subseteq Nat
      BY <1>3, SupervisionAssumption DEF Spawn, Up
    <3> QED BY <2>1, <3>1, MinOfNaturals
  <2>3. sup' \in [Copy -> Supervisor]
    <3>1. sup' = [sup EXCEPT ![s] = [sup[s] EXCEPT !.at = "boot"]]
      BY <2>1
    <3>2. sup \in [Copy -> Supervisor] /\ sup[s] \in Supervisor
      BY <2>2 DEF TypeOK
    <3>3. \A x \in Supervisor : [x EXCEPT !.at = "boot"] \in Supervisor
      BY DEF Supervisor
    <3> QED BY <2>2, <3>1, <3>2, <3>3
  <2>4. Goto(k, "wait") /\ "wait" \in KickAt /\ kick[k].at # "off"
    BY <1>3 DEF Spawn, KickAt
  <2>5. /\ kick' \in [Kick -> [at : KickAt, wave : Wave \cup {None}]]
        /\ \A j \in Kick \ {k} : kick'[j] = kick[j]
        /\ kick'[k].at \in {"wait", "off"} /\ (kick'[k].at = "wait" => kick'[k].wave = kick[k].wave)
    BY <2>4, KickType
  <2>6. TypeOK'
    BY <1>0, <1>3, <2>1, <2>2, <2>3, <2>5 DEF Spawn, TypeOK
  <2>7. KicksOK'
    <3>1. kick'[k].at # "off" =>
               /\ kick'[k].wave \in Wave /\ Preflight(Asked[kick'[k].wave])
               /\ kick'[k].at = "start" => phase'[kick'[k].wave] # "absent"
      BY <2>4, <2>5 DEF KicksOK
    <3> QED BY <1>0, <2>5, <3>1, KicksFrom
  <2> QED BY <1>1, <2>6, <2>7
<1>4. ASSUME NEW w \in Wave, Begin(k, w) \/ Refuse(k, w) PROVE Base'
  <2>1. PICK to : to = [at |-> "check", wave |-> w]
    OBVIOUS
  <2>2. kick' = [kick EXCEPT ![k] = to] \/ kick' = kick
    BY <1>4, <2>1 DEF Begin, Refuse
  <2>3. to \in [at : KickAt, wave : Wave \cup {None}] /\ to.at = "check" /\ to.wave = w
    BY <2>1 DEF KickAt
  <2>4. TypeOK'
    <3>1. kick' \in [Kick -> [at : KickAt, wave : Wave \cup {None}]]
      BY <1>0, <2>2, <2>3
    <3>2. kicks' \in 0..MaxKicks
      BY <1>0, <1>4 DEF Begin, Refuse, TypeOK
    <3>3. /\ UNCHANGED <<sup, pidfile, fresh, failing, unlisted, faults, excuses>>
          /\ refused' \subseteq refused \cup {w}
      BY <1>4 DEF Begin, Refuse, pidVars
    <3> QED BY <1>0, <3>1, <3>2, <3>3 DEF TypeOK
  <2>5. KicksOK'
    <3>1. CASE Begin(k, w)
      <4>1. /\ kick'[k] = to /\ Preflight(Asked[w])
            /\ \A j \in Kick \ {k} : kick'[j] = kick[j]
        BY <1>0, <2>1, <3>1 DEF Begin
      <4> QED BY <1>0, <2>3, <4>1, KicksFrom
    <3>2. CASE Refuse(k, w)
      BY <1>0, <3>2 DEF Refuse, KicksOK
    <3> QED BY <1>4, <3>1, <3>2
  <2> QED BY <1>1, <2>4, <2>5
<1> QED BY <1>2, <1>3, <1>4

\* A create that gets to its put freezes the wave as it was asked.
LEMMA WriteBase ==
    ASSUME Base, NEW k \in Kick, Write(k)
    PROVE  Base'
<1> USE DEF Base
<1>1. PICK w : w = kick[k].wave
  OBVIOUS
<1>2. w \in Wave /\ Preflight(Asked[w]) /\ Asked[w] \in Seq(Ticket)
  BY <1>1, SupervisionAssumption DEF Write, KicksOK
<1>3. /\ Put(w, "draft") /\ Goto(k, "start") /\ {"draft", "start"} \subseteq Phase \cup KickAt
      /\ frozen' = [frozen EXCEPT ![w] = TopologicalOrder(Asked[w])]
      /\ UNCHANGED <<pidfile, fresh, failing, unlisted, refused, kicks, faults, excuses>>
  BY <1>1 DEF Write, Phase, KickAt, pidVars
<1>4. /\ phase' = [phase EXCEPT ![w] = "draft"] /\ phase' \in [Wave -> Phase]
      /\ still' \in [Ledger -> 0..StuckTicks] /\ sup' \in [Copy -> Supervisor]
  BY <1>2, <1>3, PutType DEF Phase
<1>5. /\ kick' \in [Kick -> [at : KickAt, wave : Wave \cup {None}]]
      /\ \A j \in Kick \ {k} : kick'[j] = kick[j]
      /\ kick'[k].at # "off" => kick'[k].wave = w
  BY <1>1, <1>3, KickType DEF KickAt
<1>6. TopologicalOrder(Asked[w]) \in Seq(Ticket) /\ TopologicalOrder(Asked[w]) # <<>>
  BY <1>2, FrozenOrder DEF Preflight
<1>7. /\ frozen' \in [Wave -> Seq(Ticket)] /\ frozen'[w] = TopologicalOrder(Asked[w])
      /\ \A v \in Wave \ {w} : frozen'[v] = frozen[v] /\ phase'[v] = phase[v]
      /\ phase'[w] = "draft"
  BY <1>2, <1>3, <1>4, <1>6 DEF TypeOK
<1>8. TypeOK'
  <2>1. \A v \in Wave : frozen'[v] = <<>> <=> phase'[v] = "absent"
    BY <1>6, <1>7 DEF TypeOK
  <2> QED BY <1>3, <1>4, <1>5, <1>7, <2>1 DEF TypeOK
<1>9. FrozenAsAsked'
  BY <1>2, <1>7 DEF FrozenAsAsked
<1>10. KicksOK'
  BY <1>2, <1>5, <1>7, KicksFrom
<1> QED BY <1>8, <1>9, <1>10

\* A process that puts a wave somewhere, and neither creates nor drafts it.
LEMMA PutBase ==
    ASSUME Base, NEW w \in Wave, NEW p \in Phase, Put(w, p), p = "absent" <=> phase[w] = "absent",
           UNCHANGED <<frozen, pidVars, failing, unlisted, refused, kicks, faults, excuses>>,
           kick' = kick \/ \E k \in Kick : Leave(k)
    PROVE  Base'
<1> USE DEF Base
<1>1. /\ phase' = [phase EXCEPT ![w] = p] /\ phase' \in [Wave -> Phase]
      /\ still' \in [Ledger -> 0..StuckTicks] /\ sup' \in [Copy -> Supervisor]
  BY PutType
<1>2. \A v \in Wave : phase'[v] = "absent" <=> phase[v] = "absent"
  BY <1>1 DEF TypeOK
<1>3. kick' \in [Kick -> [at : KickAt, wave : Wave \cup {None}]]
  BY KickType DEF TypeOK, KickAt
<1>4. TypeOK'
  BY <1>1, <1>2, <1>3 DEF TypeOK, pidVars
<1>5. KicksOK'
  <2>1. CASE kick' = kick
    BY <1>2, <2>1 DEF KicksOK
  <2>2. ASSUME NEW k \in Kick, Leave(k) PROVE KicksOK'
    <3>1. kick'[k] = [at |-> "off", wave |-> None] /\ \A j \in Kick \ {k} : kick'[j] = kick[j]
      BY <2>2 DEF Leave, TypeOK
    <3> QED BY <1>2, <3>1, KicksFrom
  <2> QED BY <2>1, <2>2
<1> QED BY <1>2, <1>4, <1>5, FrozenFrame

\* The operator, and a kick that starts its wave.
LEMMA MoveBase ==
    ASSUME Base, (\E k \in Kick : Start(k)) \/ \E w \in Wave : Operate(w)
    PROVE  Base'
<1>1. ASSUME NEW w \in Wave, Operate(w) PROVE Base'
  BY <1>1, PutBase DEF Operate, Phase
<1>2. ASSUME NEW k \in Kick, Start(k) PROVE Base'
  <2>1. PICK w : w = kick[k].wave
    OBVIOUS
  <2>2. w \in Wave /\ phase[w] \in Phase /\ phase[w] # "absent"
    BY <1>2, <2>1 DEF Start, Base, KicksOK, TypeOK
  <2>3. PICK began \in Phase : began # "absent" /\ \E p \in Moves[began] : Put(w, p)
    BY <1>2, <2>1, <2>2 DEF Start, Phase
  <2>4. PICK p \in Moves[began] : Put(w, p)
    BY <2>3
  <2>5. p \in Phase /\ p # "absent"
    BY <2>3, MovesOK
  <2>6. Leave(k) /\ UNCHANGED <<frozen, pidVars, failing, unlisted, refused, kicks, faults, excuses>>
    BY <1>2 DEF Start
  <2> QED BY <2>2, <2>4, <2>5, <2>6, PutBase
<1> QED BY <1>1, <1>2

\* A tick that works, with what it makes of the waves, the copies with what they forget,
\* and the copy's new count and previous fingerprint.
TickAs(s, l, after, others, prev, n) ==
    /\ Ticking(s, l) /\ n = Count(s, l, after)
    /\ others = IF Changed(l, after) THEN Forget({l}) ELSE sup
    /\ prev = IF AllRunning(after) THEN l ELSE None
    /\ phase' = [w \in Wave |-> IF w \in LiveOn(l) THEN after[w] ELSE phase[w]]
    /\ still' = [still EXCEPT ![l] =
                    IF Changed(l, after) \/ ~Quiet(after) THEN 0
                    ELSE IF still[l] < StuckTicks THEN still[l] + 1 ELSE still[l]]
    /\ \/ /\ n >= StuckTicks
          /\ sup' = [others EXCEPT ![s] = Down]
          /\ Exits({"lost"})
       \/ /\ n < StuckTicks
          /\ sup' = [others EXCEPT ![s] = [sup[s] EXCEPT !.todo = Later(s, l), !.ok = TRUE,
                                                        !.stuck = n, !.prev = prev]]
          /\ UNCHANGED <<pidVars, excuses>>

\* Every tick that works is one of those.
LEMMA TickParts ==
    ASSUME TypeOK, NEW s \in Copy, NEW l, Tick(s, l)
    PROVE  \E after \in Outcomes(l), others \in {sup, Forget({l})}, prev \in {l, None}, n \in Nat :
              TickAs(s, l, after, others, prev, n)
<1>1. PICK after \in Outcomes(l) :
        LET n == Count(s, l, after)
            others == IF Changed(l, after) THEN Forget({l}) ELSE sup
        IN  /\ phase' = [w \in Wave |-> IF w \in LiveOn(l) THEN after[w] ELSE phase[w]]
            /\ still' = [still EXCEPT ![l] =
                            IF Changed(l, after) \/ ~Quiet(after) THEN 0
                            ELSE IF @ < StuckTicks THEN @ + 1 ELSE @]
            /\ \/ /\ n >= StuckTicks
                  /\ sup' = [others EXCEPT ![s] = Down]
                  /\ Exits({"lost"})
               \/ /\ n < StuckTicks
                  /\ sup' = [others EXCEPT ![s] =
                                [sup[s] EXCEPT !.todo = Later(s, l), !.ok = TRUE, !.stuck = n,
                                               !.prev = IF AllRunning(after) THEN l ELSE None]]
                  /\ UNCHANGED <<pidVars, excuses>>
  BY DEF Tick
<1>2. PICK others \in {sup, Forget({l})} : others = IF Changed(l, after) THEN Forget({l}) ELSE sup
  OBVIOUS
<1>3. PICK prev \in {l, None} : prev = IF AllRunning(after) THEN l ELSE None
  OBVIOUS
<1>4. PICK n \in Nat : n = Count(s, l, after)
  <2>1. sup[s].stuck \in Nat
    BY SupervisionAssumption DEF TypeOK, Supervisor
  <2> QED BY <2>1 DEF Count
<1>5. Ticking(s, l)
  BY DEF Tick
<1>6. \/ /\ n >= StuckTicks
         /\ sup' = [others EXCEPT ![s] = Down]
         /\ Exits({"lost"})
      \/ /\ n < StuckTicks
         /\ sup' = [others EXCEPT ![s] = [sup[s] EXCEPT !.todo = Later(s, l), !.ok = TRUE,
                                                       !.stuck = n, !.prev = prev]]
         /\ UNCHANGED <<pidVars, excuses>>
  BY <1>1, <1>2, <1>3, <1>4
<1>7. still' = [still EXCEPT ![l] =
                   IF Changed(l, after) \/ ~Quiet(after) THEN 0
                   ELSE IF still[l] < StuckTicks THEN still[l] + 1 ELSE still[l]]
  BY <1>1
<1>8. phase' = [w \in Wave |-> IF w \in LiveOn(l) THEN after[w] ELSE phase[w]]
  BY <1>1
<1>9. TickAs(s, l, after, others, prev, n)
  BY <1>2, <1>3, <1>4, <1>5, <1>6, <1>7, <1>8 DEF TickAs
<1> QED BY <1>9

\* The steps of a copy.
LEMMA SupBase ==
    ASSUME Base, NEW s \in Copy, SupStep(s) \/ Killed(s)
    PROVE  Base'
<1> USE DEF Base
<1>0. /\ UNCHANGED <<frozen, kick, failing, unlisted, refused, kicks>>
      /\ sup[s] \in Supervisor /\ sup \in [Copy -> Supervisor] /\ Due(s) \subseteq Ledger
      /\ {StuckTicks, FailLimit, IdleCycles} \subseteq Nat \ {0} /\ {MaxKicks, MaxFaults} \subseteq Nat
  BY SupervisionAssumption
     DEF SupStep, Boot, EndCycle, TickFails, Tick, Killed, TypeOK, Due, Supervisor, waveVars
<1>1. \A n \in 0..StuckTicks - 1 : n + 1 \in 0..StuckTicks
  BY <1>0
<1>2. /\ phase' \in [Wave -> Phase]
      /\ \A w \in Wave : phase'[w] = "absent" <=> phase[w] = "absent"
  <2>1. CASE UNCHANGED phase
    BY <2>1 DEF TypeOK
  <2>2. ASSUME NEW l \in Due(s), Tick(s, l)
        PROVE  /\ phase' \in [Wave -> Phase]
               /\ \A w \in Wave : phase'[w] = "absent" <=> phase[w] = "absent"
    <3>1. PICK after \in Outcomes(l) :
              phase' = [w \in Wave |-> IF w \in LiveOn(l) THEN after[w] ELSE phase[w]]
      BY <2>2 DEF Tick
    <3>2. phase' \in [Wave -> Phase] /\ \A w \in LiveOn(l) : after[w] \in Moves[phase[w]]
      BY <3>1, AfterType
    <3>3. \A w \in LiveOn(l) : after[w] = "absent" <=> phase[w] = "absent"
      BY <3>2, MovesOK DEF LiveOn, TypeOK
    <3> QED BY <3>1, <3>2, <3>3
  <2> QED BY <2>1, <2>2 DEF SupStep, Boot, EndCycle, TickFails, Killed, waveVars
<1>3. FrozenAsAsked' /\ KicksOK'
  BY <1>0, <1>2, FrozenFrame DEF KicksOK
<1>4. \A w \in Wave : frozen'[w] = <<>> <=> phase'[w] = "absent"
  BY <1>0, <1>2 DEF TypeOK
<1>5. still' \in [Ledger -> 0..StuckTicks]
  <2>1. CASE UNCHANGED still
    BY <2>1 DEF TypeOK
  <2>2. ASSUME NEW l \in Due(s), Tick(s, l) PROVE still' \in [Ledger -> 0..StuckTicks]
    <3>1. PICK n \in {0, IF still[l] < StuckTicks THEN still[l] + 1 ELSE still[l]} :
              still' = [still EXCEPT ![l] = n]
      BY <2>2 DEF Tick
    <3>2. still[l] \in 0..StuckTicks /\ n \in 0..StuckTicks
      BY <1>0 DEF TypeOK
    <3> QED BY <3>1, <3>2 DEF TypeOK
  <2> QED BY <2>1, <2>2 DEF SupStep, Boot, EndCycle, TickFails, Killed, waveVars
<1>6. /\ pidfile' \in Copy \cup {None} /\ fresh' \in BOOLEAN /\ faults' \in 0..MaxFaults
      /\ excuses' \subseteq {"twin", "creates", "lost"}
  <2>1. /\ pidfile' \in {pidfile, None, s} /\ fresh' \in {fresh, TRUE}
        /\ excuses' \subseteq excuses \cup {"lost"}
    <3>1. CASE Boot(s) \/ Killed(s)
      BY <3>1 DEF Boot, Killed
    <3>2. CASE EndCycle(s)
      BY <3>2 DEF EndCycle, Exits
    <3>3. CASE \E l \in Due(s) : TickFails(s, l) \/ Tick(s, l)
      BY <3>3 DEF TickFails, Tick, Exits, pidVars
    <3> QED BY <3>1, <3>2, <3>3 DEF SupStep
  <2>2. faults' = faults \/ Fault
    BY DEF SupStep, Boot, EndCycle, TickFails, Tick, Killed
  <2>3. faults' \in 0..MaxFaults
    <3>1. CASE faults' = faults
      BY <3>1 DEF TypeOK
    <3>2. CASE Fault
      BY <1>0, <3>2 DEF Fault, TypeOK
    <3> QED BY <2>2, <3>1, <3>2
  <2>4. pidfile' \in Copy \cup {None} /\ fresh' \in BOOLEAN
    BY <2>1 DEF TypeOK
  <2>5. excuses' \subseteq {"twin", "creates", "lost"}
    BY <2>1 DEF TypeOK
  <2> QED BY <2>3, <2>4, <2>5
<1>7. sup' \in [Copy -> Supervisor]
  <2>1. ASSUME NEW new \in Supervisor, sup' = [sup EXCEPT ![s] = new]
        PROVE  sup' \in [Copy -> Supervisor]
    BY <1>0, <2>1
  <2>2. CASE Boot(s)
    <3>1. [Down EXCEPT !.at = "cycle", !.todo = Ledger] \in Supervisor
      BY <1>0, DownType DEF Supervisor
    <3> QED BY <2>1, <2>2, <3>1 DEF Boot
  <2>3. CASE Killed(s)
    BY <2>1, <2>3, DownType DEF Killed
  <2>4. CASE EndCycle(s)
    <3>1. PICK fails, idle :
              /\ fails = IF sup[s].failed /\ ~sup[s].ok THEN sup[s].fails + 1 ELSE 0
              /\ idle = IF sup[s].failed \/ sup[s].ok THEN 0 ELSE sup[s].idle + 1
      OBVIOUS
    <3>2. fails \in Nat /\ idle \in Nat
      BY <1>0, <3>1 DEF Supervisor
    <3>3. \/ sup' = [sup EXCEPT ![s] = Down]
          \/ /\ fails < FailLimit /\ ~IdleOver(idle)
             /\ sup' = [sup EXCEPT ![s].todo = Ledger, ![s].ok = FALSE, ![s].failed = FALSE,
                                   ![s].fails = fails, ![s].idle = idle]
      BY <2>4, <3>1 DEF EndCycle
    <3>4. CASE sup' = [sup EXCEPT ![s] = Down]
      BY <2>1, <3>4, DownType
    <3>5. CASE ~(sup' = [sup EXCEPT ![s] = Down])
      <4>1. fails \in 0..FailLimit - 1 /\ idle \in 0..IdleCycles - 1
        BY <1>0, <3>2, <3>3, <3>5 DEF IdleOver
      <4>2. [sup[s] EXCEPT !.todo = Ledger, !.ok = FALSE, !.failed = FALSE, !.fails = fails,
                           !.idle = idle] \in Supervisor
        BY <1>0, <4>1 DEF Supervisor
      <4>3. sup' = [sup EXCEPT ![s] = [sup[s] EXCEPT !.todo = Ledger, !.ok = FALSE, !.failed = FALSE,
                                                     !.fails = fails, !.idle = idle]]
        BY <1>0, <3>3, <3>5
      <4> QED BY <2>1, <4>2, <4>3
    <3> QED BY <3>4, <3>5
  <2>5. ASSUME NEW l \in Due(s), TickFails(s, l) PROVE sup' \in [Copy -> Supervisor]
    <3>1. [sup[s] EXCEPT !.todo = Later(s, l), !.failed = TRUE] \in Supervisor
      BY <1>0 DEF Supervisor, Later
    <3>2. sup' = [sup EXCEPT ![s] = [sup[s] EXCEPT !.todo = Later(s, l), !.failed = TRUE]]
      BY <1>0, <2>5 DEF TickFails
    <3> QED BY <2>1, <3>1, <3>2
  <2>6. ASSUME NEW l \in Due(s), Tick(s, l) PROVE sup' \in [Copy -> Supervisor]
    <3>1. PICK after \in Outcomes(l), others \in {sup, Forget({l})}, prev \in {l, None}, n \in Nat :
              TickAs(s, l, after, others, prev, n)
      BY <2>6, TickParts
    <3>2. others \in [Copy -> Supervisor]
      <4>1. ASSUME NEW u \in Copy PROVE Forget({l})[u] \in Supervisor
        <5>1. sup[u] \in Supervisor /\ [sup[u] EXCEPT !.prev = None] \in Supervisor
          BY <1>0 DEF Supervisor
        <5> QED BY <5>1 DEF Forget
      <4> QED BY <1>0, <4>1 DEF Forget
    <3>3. n < StuckTicks => n \in 0..StuckTicks - 1
      BY <1>0, <3>1 DEF TickAs, Count, Supervisor
    <3>4. n < StuckTicks => [sup[s] EXCEPT !.todo = Later(s, l), !.ok = TRUE, !.stuck = n,
                                           !.prev = prev] \in Supervisor
      BY <1>0, <3>1, <3>3 DEF Supervisor, Later
    <3> QED BY <3>1, <3>2, <3>4, DownType DEF TickAs
  <2> QED BY <2>2, <2>3, <2>4, <2>5, <2>6 DEF SupStep
<1>8. TypeOK'
  BY <1>0, <1>2, <1>4, <1>5, <1>6, <1>7 DEF TypeOK
<1> QED BY <1>3, <1>8

\* The heartbeat ages, a ledger begins to fail, or nothing happens.
LEMMA EnvBase ==
    ASSUME Base, Age \/ (\E l \in Ledger : Fails(l)) \/ UNCHANGED vars
    PROVE  Base'
<1> USE DEF Base
<1>1. /\ UNCHANGED <<phase, frozen, still, kick, sup, pidfile, refused, kicks>>
      /\ fresh' \in {fresh, FALSE} /\ failing' \subseteq failing \cup Ledger
      /\ unlisted' \subseteq unlisted \cup Ledger
      /\ excuses' \subseteq excuses \cup {"twin"} /\ (faults' = faults \/ Fault)
  BY DEF Age, Fails, vars, waveVars, pidVars
<1>2. KicksOK' /\ FrozenAsAsked'
  BY <1>1 DEF KicksOK, FrozenAsAsked
<1>3. faults' \in 0..MaxFaults
  <2>1. CASE faults' = faults
    BY <2>1 DEF TypeOK
  <2>2. CASE Fault
    BY <2>2, SupervisionAssumption DEF Fault, TypeOK
  <2> QED BY <1>1, <2>1, <2>2
<1>4. TypeOK'
  BY <1>1, <1>3 DEF TypeOK
<1> QED BY <1>2, <1>4

\* Every step is one of a kick, of a copy, or of what is around them.
LEMMA BaseStep ==
    ASSUME Base, [Next]_vars
    PROVE  Base'
<1>1. CASE \E k \in Kick : KickStep(k) \/ KickDies(k) \/ \E w \in Wave : Begin(k, w) \/ Refuse(k, w)
  BY <1>1, KickBase, WriteBase, MoveBase DEF KickStep
<1>2. CASE \E s \in Copy : SupStep(s) \/ Killed(s)
  BY <1>2, SupBase
<1>3. CASE (\E w \in Wave : Operate(w)) \/ (\E l \in Ledger : Fails(l)) \/ Age \/ UNCHANGED vars
  BY <1>3, MoveBase, EnvBase
<1> QED BY <1>1, <1>2, <1>3 DEF Next

\* At first there is no wave, no kick and no copy.
LEMMA InitInv == Init => TypeOK /\ SupervisionInv
<1> SUFFICES ASSUME Init PROVE TypeOK /\ SupervisionInv
  OBVIOUS
<1>1. /\ StuckTicks \in Nat /\ MaxKicks \in Nat /\ MaxFaults \in Nat
      /\ <<>> \in Seq(Ticket) /\ "absent" \in Phase /\ "off" \in KickAt
  BY SupervisionAssumption DEF Phase, KickAt
<1>2. sup \in [Copy -> Supervisor] /\ Up = {}
  BY DownType DEF Init, Up
<1>3. TypeOK
  <2>1. kick \in [Kick -> [at : KickAt, wave : Wave \cup {None}]]
    BY <1>1 DEF Init
  <2>2. /\ phase \in [Wave -> Phase] /\ frozen \in [Wave -> Seq(Ticket)]
        /\ still \in [Ledger -> 0..StuckTicks] /\ kicks \in 0..MaxKicks /\ faults \in 0..MaxFaults
    BY <1>1 DEF Init
  <2>3. \A w \in Wave : frozen[w] = <<>> <=> phase[w] = "absent"
    BY DEF Init
  <2>4. /\ pidfile \in Copy \cup {None} /\ fresh \in BOOLEAN
        /\ failing \subseteq Ledger /\ unlisted \subseteq Ledger /\ refused \subseteq Wave /\ excuses = {}
    BY DEF Init
  <2> QED BY <1>2, <2>1, <2>2, <2>3, <2>4 DEF TypeOK
<1>4. \A s \in Copy : sup[s].prev = None
  BY DEF Init, Down
<1>5. \A k \in Kick : kick[k].at = "off"
  BY DEF Init
<1>6. KicksOK /\ FrozenAsAsked /\ RefusedRightly
  BY <1>5 DEF Init, KicksOK, FrozenAsAsked, RefusedRightly
<1>7. Alone /\ CreatesApart /\ CountsKnown
  BY <1>2, <1>4, <1>5 DEF Alone, CreatesApart, CountsKnown, Counted, Spawning
<1> QED BY <1>3, <1>6, <1>7 DEF SupervisionInv

----------------------------------------------------------------------------
(* Refusals and creates.                                                     *)

\* A copy touches neither the kicks nor what they were refused.
LEMMA CopyKeeps ==
    ASSUME NEW s, SupStep(s) \/ Killed(s)
    PROVE  UNCHANGED <<kick, refused>>
<1>1. CASE Boot(s)
  BY <1>1 DEF Boot
<1>2. CASE EndCycle(s)
  BY <1>2 DEF EndCycle
<1>3. CASE \E l \in Due(s) : TickFails(s, l) \/ Tick(s, l)
  BY <1>3 DEF TickFails, Tick
<1>4. CASE Killed(s)
  BY <1>4 DEF Killed
<1> QED BY <1>1, <1>2, <1>3, <1>4 DEF SupStep

\* A wave is refused only by a dry run that does not pass.
LEMMA RefusedStep ==
    ASSUME RefusedRightly, [Next]_vars
    PROVE  RefusedRightly'
<1>1. refused' = refused \/ \E w \in Wave : ~Preflight(Asked[w]) /\ refused' = refused \cup {w}
  <2>1. CASE \E k \in Kick : KickStep(k) \/ KickDies(k) \/ \E w \in Wave : Begin(k, w) \/ Refuse(k, w)
    <3>1. PICK k \in Kick : KickStep(k) \/ KickDies(k) \/ \E w \in Wave : Begin(k, w) \/ Refuse(k, w)
      BY <2>1
    <3>2. CASE KickStep(k) \/ KickDies(k)
      BY <3>2 DEF KickStep, KickDies, Check, Spawn, Wait, Read, Write, Start
    <3>3. CASE \E w \in Wave : Begin(k, w) \/ Refuse(k, w)
      BY <3>3 DEF Begin, Refuse
    <3> QED BY <3>1, <3>2, <3>3
  <2>2. CASE \E s \in Copy : SupStep(s) \/ Killed(s)
    BY <2>2, CopyKeeps
  <2>3. CASE (\E w \in Wave : Operate(w)) \/ (\E l \in Ledger : Fails(l)) \/ Age \/ UNCHANGED vars
    BY <2>3 DEF Operate, Fails, Age, vars
  <2> QED BY <2>1, <2>2, <2>3 DEF Next
<1> QED BY <1>1 DEF RefusedRightly

\* What went wrong stays on record.
LEMMA ExcusesGrow ==
    ASSUME TypeOK, [Next]_vars
    PROVE  excuses \subseteq excuses'
<1>1. CASE \E k \in Kick : KickStep(k) \/ KickDies(k) \/ \E w \in Wave : Begin(k, w) \/ Refuse(k, w)
  BY <1>1 DEF KickStep, KickDies, Begin, Refuse, Check, Spawn, Wait, Read, Write, Start
<1>2. CASE \E s \in Copy : SupStep(s) \/ Killed(s)
  <2>1. PICK s \in Copy : SupStep(s) \/ Killed(s)
    BY <1>2
  <2>2. CASE Boot(s) \/ EndCycle(s) \/ Killed(s)
    BY <2>2 DEF Boot, EndCycle, Killed, Exits
  <2>3. ASSUME NEW l, TickFails(s, l) \/ Tick(s, l) PROVE excuses \subseteq excuses'
    BY <2>3, TickParts DEF TickFails, TickAs, Exits
  <2> QED BY <2>1, <2>2, <2>3 DEF SupStep
<1>3. CASE (\E w \in Wave : Operate(w)) \/ (\E l \in Ledger : Fails(l)) \/ Age \/ UNCHANGED vars
  BY <1>3 DEF Operate, Fails, Age, vars
<1> QED BY <1>1, <1>2, <1>3 DEF Next

\* Every step but the put of a create leaves it to that which waves are there, and no
\* step but that makes a draft.
LEMMA PhasesKept ==
    ASSUME Base, [Next]_vars, NEW w \in Wave
    PROVE  \/ \E k \in Kick : Write(k) /\ kick[k].wave = w
           \/ /\ phase'[w] = "absent" <=> phase[w] = "absent"
              /\ phase'[w] = "draft" => phase[w] = "draft"
<1> DEFINE Stays == /\ phase'[w] = "absent" <=> phase[w] = "absent"
                    /\ phase'[w] = "draft" => phase[w] = "draft"
<1>0. TypeOK /\ phase[w] \in Phase
  BY DEF Base, TypeOK
<1>1. ASSUME UNCHANGED phase PROVE Stays
  BY <1>1
<1>2. ASSUME NEW v \in Wave, NEW p \in Phase, Put(v, p), p # "draft",
             v = w => (p = "absent" <=> phase[w] = "absent")
      PROVE  Stays
  <2>1. phase' = [phase EXCEPT ![v] = p] /\ phase \in [Wave -> Phase]
    BY <1>0, <1>2, PutType DEF TypeOK
  <2> QED BY <1>2, <2>1
<1>3. ASSUME NEW k \in Kick, Start(k) PROVE Stays
  <2>1. PICK v : v = kick[k].wave
    OBVIOUS
  <2>2. v \in Wave /\ phase[v] \in Phase /\ phase[v] # "absent"
    BY <1>3, <2>1 DEF Start, Base, KicksOK, TypeOK
  <2>3. PICK began \in Phase \ {"absent", "draft"} : \E p \in Moves[began] : Put(v, p)
    BY <1>3, <2>1, <2>2 DEF Start, Phase
  <2>4. PICK p \in Moves[began] : Put(v, p)
    BY <2>3
  <2>5. p \in Phase \ {"absent", "draft"}
    BY <2>3, MovesOK
  <2> QED BY <1>2, <2>2, <2>4, <2>5
<1>4. ASSUME NEW k \in Kick, Write(k) PROVE kick[k].wave = w \/ Stays
  <2>1. PICK v : v = kick[k].wave
    OBVIOUS
  <2>2. v \in Wave /\ Put(v, "draft") /\ "draft" \in Phase
    BY <1>4, <2>1 DEF Write, Base, KicksOK, Phase
  <2>3. phase' = [phase EXCEPT ![v] = "draft"] /\ phase \in [Wave -> Phase]
    BY <1>0, <2>2, PutType DEF TypeOK
  <2> QED BY <2>1, <2>2, <2>3
<1>5. ASSUME NEW v \in Wave, Operate(v) PROVE Stays
  <2>1. PICK p \in {"idle", "over"} : Put(v, p) /\ phase[v] \in {"gate", "jammed"}
    BY <1>5 DEF Operate
  <2>2. p \in Phase /\ p # "draft" /\ p # "absent" /\ phase[v] # "absent"
    BY <2>1 DEF Phase
  <2> QED BY <1>2, <2>1, <2>2
<1>6. ASSUME NEW s \in Copy, NEW l, Tick(s, l) PROVE Stays
  <2>1. PICK after \in Outcomes(l), others \in {sup, Forget({l})}, prev \in {l, None}, n \in Nat :
            TickAs(s, l, after, others, prev, n)
    BY <1>0, <1>6, TickParts
  <2>2. phase'[w] = IF w \in LiveOn(l) THEN after[w] ELSE phase[w]
    <3>1. phase' = [v \in Wave |-> IF v \in LiveOn(l) THEN after[v] ELSE phase[v]]
      BY <2>1 DEF TickAs
    <3> QED BY <3>1
  <2>3. w \in LiveOn(l) => after[w] \in Moves[phase[w]]
    BY DEF Outcomes
  <2> QED BY <1>0, <2>2, <2>3, MovesOK
<1>7. CASE \E k \in Kick : KickStep(k) \/ KickDies(k) \/ \E v \in Wave : Begin(k, v) \/ Refuse(k, v)
  <2>1. PICK k \in Kick : KickStep(k) \/ KickDies(k) \/ \E v \in Wave : Begin(k, v) \/ Refuse(k, v)
    BY <1>7
  <2>2. UNCHANGED phase \/ Start(k) \/ Write(k)
    BY <2>1 DEF KickStep, KickDies, Begin, Refuse, Check, Spawn, Wait, Read, waveVars
  <2> QED BY <1>1, <1>3, <1>4, <2>2
<1>8. CASE \E s \in Copy : SupStep(s) \/ Killed(s)
  <2>1. UNCHANGED phase \/ \E s \in Copy : \E l \in Due(s) : Tick(s, l)
    BY <1>8 DEF SupStep, Boot, EndCycle, TickFails, Killed, waveVars
  <2> QED BY <1>1, <1>6, <2>1
<1>9. CASE (\E v \in Wave : Operate(v)) \/ (\E l \in Ledger : Fails(l)) \/ Age \/ UNCHANGED vars
  <2>1. UNCHANGED phase \/ \E v \in Wave : Operate(v)
    BY <1>9 DEF Fails, Age, vars, waveVars
  <2> QED BY <1>1, <1>5, <2>1
<1> QED BY <1>7, <1>8, <1>9 DEF Next

\* A kick comes to its put by looking for the wave only.
LEMMA WritersKept ==
    ASSUME Base, [Next]_vars, NEW j \in Kick, kick'[j].at = "write"
    PROVE  kick'[j] = kick[j] \/ Read(j)
<1>0. TypeOK /\ kick \in [Kick -> [at : KickAt, wave : Wave \cup {None}]]
  BY DEF Base, TypeOK
<1>1. CASE UNCHANGED kick
  BY <1>1
<1>2. ASSUME NEW k \in Kick, Read(k) PROVE kick'[j] = kick[j] \/ Read(j)
  <2>1. Goto(k, "write") \/ Goto(k, "start") \/ Leave(k)
    BY <1>2 DEF Read
  <2>2. \A i \in Kick \ {k} : kick'[i] = kick[i]
    BY <1>0, <2>1, KickType DEF KickAt
  <2> QED BY <1>2, <2>2
<1>3. ASSUME NEW k \in Kick, NEW at \in KickAt \ {"write"}, Goto(k, at) \/ Leave(k)
      PROVE  kick'[j] = kick[j]
  <2>1. \A i \in Kick \ {k} : kick'[i] = kick[i]
    BY <1>0, <1>3, KickType
  <2>2. kick'[k].at = at \/ kick'[k].at = "off"
    BY <1>0, <1>3, KickType
  <2> QED BY <2>1, <2>2
<1>4. ASSUME NEW k \in Kick, NEW w \in Wave, Begin(k, w) PROVE kick'[j] = kick[j]
  <2>1. kick'[k].at = "check" /\ \A i \in Kick \ {k} : kick'[i] = kick[i]
    BY <1>0, <1>4 DEF Begin
  <2> QED BY <2>1
<1>5. CASE \E k \in Kick : KickStep(k) \/ KickDies(k) \/ \E w \in Wave : Begin(k, w) \/ Refuse(k, w)
  <2>1. PICK k \in Kick : KickStep(k) \/ KickDies(k) \/ \E w \in Wave : Begin(k, w) \/ Refuse(k, w)
    BY <1>5
  <2>2. \/ UNCHANGED kick \/ Read(k) \/ \E w \in Wave : Begin(k, w)
        \/ \E at \in KickAt \ {"write"} : Goto(k, at) \/ Leave(k)
    <3>1. CASE KickStep(k)
      BY <3>1 DEF KickStep, Check, Spawn, Wait, Write, Start, KickAt
    <3>2. CASE KickDies(k) \/ \E w \in Wave : Begin(k, w) \/ Refuse(k, w)
      BY <3>2 DEF KickDies, Refuse, KickAt
    <3> QED BY <2>1, <3>1, <3>2
  <2> QED BY <1>1, <1>2, <1>3, <1>4, <2>2
<1>6. CASE \E s \in Copy : SupStep(s) \/ Killed(s)
  BY <1>1, <1>6, CopyKeeps
<1>7. CASE (\E w \in Wave : Operate(w)) \/ (\E l \in Ledger : Fails(l)) \/ Age \/ UNCHANGED vars
  BY <1>1, <1>7 DEF Operate, Fails, Age, vars
<1> QED BY <1>5, <1>6, <1>7 DEF Next

\* A create that looks while another is about to put its wave goes on record.
LEMMA CreatesStep ==
    ASSUME Base, CreatesApart, [Next]_vars
    PROVE  CreatesApart'
<1>1. SUFFICES ASSUME "creates" \notin excuses', NEW k \in Kick, kick'[k].at = "write"
               PROVE  /\ phase'[kick'[k].wave] = "absent"
                      /\ \A j \in Kick : kick'[j] = kick'[k] => j = k
  BY DEF CreatesApart
<1>2. TypeOK /\ kick \in [Kick -> [at : KickAt, wave : Wave \cup {None}]] /\ "creates" \notin excuses
  BY <1>1, ExcusesGrow DEF Base, TypeOK
<1>3. ASSUME NEW i \in Kick, Read(i), kick'[i].at = "write"
      PROVE  /\ phase[kick'[i].wave] = "absent" /\ kick'[i].wave \in Wave
             /\ UNCHANGED phase
             /\ \A j \in Kick \ {i} : kick'[j] # kick'[i]
  <2>1. PICK w : w = kick[i].wave
    OBVIOUS
  <2>2. w \in Wave /\ kick[i].at = "read"
    BY <1>3, <2>1 DEF Read, Base, KicksOK
  <2>3. Goto(i, "write") \/ Goto(i, "start") \/ Leave(i)
    BY <1>3 DEF Read
  <2>4. /\ \A j \in Kick \ {i} : kick'[j] = kick[j]
        /\ Goto(i, "write") /\ kick'[i].wave = w
    BY <1>2, <1>3, <2>1, <2>3, KickType DEF KickAt
  <2>5. phase[w] = "absent" /\ UNCHANGED phase
    <3>1. UNCHANGED phase /\ (phase[w] # "absent" => Goto(i, "start") \/ Leave(i))
      BY <1>3, <2>1 DEF Read, waveVars
    <3>2. Goto(i, "start") \/ Leave(i) => kick'[i].at \in {"start", "off"}
      BY <1>2, KickType DEF KickAt
    <3> QED BY <1>3, <3>1, <3>2
  <2>6. ~\E j \in Kick \ {i} : kick[j] = [at |-> "write", wave |-> w]
    BY <1>1, <1>3, <2>1 DEF Read
  <2>7. kick'[i] = [at |-> "write", wave |-> w]
    BY <1>2, <2>1, <2>4 DEF Goto
  <2> QED BY <2>2, <2>4, <2>5, <2>6, <2>7
<1>4. CASE \E i \in Kick : Read(i)
  <2>1. PICK i \in Kick : Read(i)
    BY <1>4
  <2>2. UNCHANGED phase /\ \A j \in Kick \ {i} : kick'[j] = kick[j]
    <3>1. Goto(i, "write") \/ Goto(i, "start") \/ Leave(i)
      BY <2>1 DEF Read
    <3> QED BY <1>2, <2>1, <3>1, KickType DEF Read, KickAt, waveVars
  <2>3. CASE kick'[i].at = "write"
    <3>1. /\ phase[kick'[i].wave] = "absent"
          /\ \A j \in Kick \ {i} : kick'[j] # kick'[i]
      BY <1>3, <2>1, <2>3
    <3>2. CASE k = i
      BY <2>2, <3>1, <3>2
    <3>3. CASE k # i
      BY <1>1, <1>2, <2>2, <3>1, <3>3 DEF CreatesApart
    <3> QED BY <3>2, <3>3
  <2>4. CASE kick'[i].at # "write"
    BY <1>1, <1>2, <2>2, <2>4 DEF CreatesApart
  <2> QED BY <2>3, <2>4
<1>5. CASE ~\E i \in Kick : Read(i)
  <2>1. \A j \in Kick : kick'[j].at = "write" => kick'[j] = kick[j]
    BY <1>5, WritersKept
  <2>2. \A j \in Kick : kick'[j] = kick'[k] => j = k
    BY <1>1, <1>2, <2>1 DEF CreatesApart
  <2>3. PICK w : w = kick[k].wave
    OBVIOUS
  <2>4. w \in Wave /\ kick'[k] = kick[k] /\ kick[k].at = "write" /\ phase[w] = "absent"
    BY <1>1, <1>2, <2>1, <2>3 DEF CreatesApart, Base, KicksOK
  <2>5. phase'[w] = "absent"
    <3>1. ASSUME NEW j \in Kick, Write(j), kick[j].wave = w PROVE FALSE
      <4>1. kick[j].at = "write"
        BY <3>1 DEF Write
      <4>2. kick[j] = kick[k]
        BY <1>2, <2>3, <2>4, <3>1, <4>1
      <4>3. j = k
        BY <1>2, <2>4, <4>2 DEF CreatesApart
      <4>4. kick'[k].at # "write"
        BY <1>2, <3>1, <4>3, KickType DEF Write, KickAt
      <4> QED BY <1>1, <4>4
    <3> QED BY <2>4, <3>1, PhasesKept
  <2> QED BY <2>2, <2>3, <2>4, <2>5
<1> QED BY <1>4, <1>5

----------------------------------------------------------------------------
(* Copies.                                                                   *)

\* Starting a wave moves it on from where it is, or from the draft it is frozen as.
LEMMA StartMoves ==
    ASSUME TypeOK, NEW k \in Kick, kick[k].wave \in Wave, Start(k)
    PROVE  \E began \in Phase : \E p \in Moves[began] : Put(kick[k].wave, p)
<1>1. PICK w : w = kick[k].wave
  OBVIOUS
<1>2. PICK began : began = IF phase[w] = "draft" THEN "idle" ELSE phase[w]
  OBVIOUS
<1>3. phase[w] \in Phase
  BY <1>1 DEF TypeOK
<1>4. began \in Phase
  BY <1>2, <1>3 DEF Phase
<1>5. \E p \in Moves[began] : Put(w, p)
  BY <1>1, <1>2 DEF Start
<1> QED BY <1>1, <1>4, <1>5

\* A change of a wave makes copies forget its ledger and nothing more.
LEMMA PutKeeps ==
    ASSUME TypeOK, NEW w \in Wave, NEW p \in Phase, Put(w, p), NEW s \in Copy
    PROVE  /\ sup'[s].at = sup[s].at /\ sup'[s].stuck = sup[s].stuck
           /\ sup'[s].prev \in {sup[s].prev, None}
<1>1. sup[s] \in Supervisor /\ sup'[s] \in {sup[s], [sup[s] EXCEPT !.prev = None]}
  BY PutType DEF TypeOK
<1> QED BY <1>1 DEF Supervisor

\* The same of a tick, for the copies that do not tick.
LEMMA ForgetKeeps ==
    ASSUME TypeOK, NEW l, NEW s \in Copy
    PROVE  LET f == Forget({l})[s]
           IN  /\ f.at = sup[s].at /\ f.stuck = sup[s].stuck
               /\ f.prev = IF sup[s].prev = l THEN None ELSE sup[s].prev
<1>1. sup[s] \in Supervisor
  BY DEF TypeOK
<1>2. Forget({l})[s] = IF sup[s].prev = l THEN [sup[s] EXCEPT !.prev = None] ELSE sup[s]
  BY DEF Forget
<1> QED BY <1>1, <1>2 DEF Supervisor

\* A copy that steps exits, or goes on: as it was to others, or with a new heartbeat and
\* perhaps its own name in the pidfile.
LEMMA StepOfCopy ==
    ASSUME TypeOK, NEW s \in Copy, SupStep(s) \/ Killed(s)
    PROVE  /\ s \in Up
           /\ \/ Up' = Up \ {s}
              \/ Up' = Up /\ UNCHANGED pidVars
              \/ Up' = Up /\ pidfile' \in {pidfile, s} /\ fresh' = TRUE
<1>0. sup \in [Copy -> Supervisor] /\ sup[s] \in Supervisor /\ s \in Up
  BY DEF TypeOK, SupStep, Boot, EndCycle, TickFails, Tick, Ticking, Killed, Up
<1>1. ASSUME sup' = [sup EXCEPT ![s] = Down] PROVE Up' = Up \ {s}
  <2>1. sup'[s].at = "down" /\ \A u \in Copy \ {s} : sup'[u] = sup[u]
    BY <1>0, <1>1, DownType
  <2> QED BY <2>1 DEF Up
<1>2. ASSUME NEW new, new.at # "down", sup[s].at # "down", sup' = [sup EXCEPT ![s] = new]
      PROVE  Up' = Up /\ s \in Up
  <2>1. sup'[s].at # "down" /\ \A u \in Copy \ {s} : sup'[u] = sup[u]
    BY <1>0, <1>2
  <2> QED BY <1>2, <2>1 DEF Up
<1>3. CASE Boot(s)
  <2>1. PICK new : new = [Down EXCEPT !.at = "cycle", !.todo = Ledger]
    OBVIOUS
  <2>2. new.at = "cycle" /\ sup' = [sup EXCEPT ![s] = new] /\ sup[s].at = "boot"
    BY <1>3, <2>1 DEF Boot, Down
  <2> QED BY <1>2, <1>3, <2>2 DEF Boot
<1>4. CASE Killed(s)
  BY <1>0, <1>1, <1>4 DEF Killed
<1>5. CASE EndCycle(s)
  <2>1. CASE sup' = [sup EXCEPT ![s] = Down]
    BY <1>0, <1>1, <2>1
  <2>2. CASE ~(sup' = [sup EXCEPT ![s] = Down])
    <3>1. PICK fails, idle :
              /\ fails = IF sup[s].failed /\ ~sup[s].ok THEN sup[s].fails + 1 ELSE 0
              /\ idle = IF sup[s].failed \/ sup[s].ok THEN 0 ELSE sup[s].idle + 1
      OBVIOUS
    <3>2. /\ sup' = [sup EXCEPT ![s].todo = Ledger, ![s].ok = FALSE, ![s].failed = FALSE,
                                ![s].fails = fails, ![s].idle = idle]
          /\ fresh' = TRUE /\ pidfile' = pidfile /\ sup[s].at = "cycle"
      BY <1>5, <2>2, <3>1 DEF EndCycle
    <3>3. PICK new : new = [sup[s] EXCEPT !.todo = Ledger, !.ok = FALSE, !.failed = FALSE,
                                          !.fails = fails, !.idle = idle]
      OBVIOUS
    <3>4. new.at = "cycle"
      BY <1>0, <3>2, <3>3 DEF Supervisor
    <3>5. sup' = [sup EXCEPT ![s] = new]
      BY <1>0, <3>2, <3>3
    <3> QED BY <1>2, <3>2, <3>4, <3>5
  <2> QED BY <2>1, <2>2
<1>6. ASSUME NEW l, TickFails(s, l) PROVE Up' = Up /\ s \in Up /\ UNCHANGED pidVars
  <2>1. PICK new : new = [sup[s] EXCEPT !.todo = Later(s, l), !.failed = TRUE]
    OBVIOUS
  <2>2. sup' = [sup EXCEPT ![s] = new] /\ sup[s].at = "cycle" /\ UNCHANGED pidVars
    BY <1>0, <1>6, <2>1 DEF TickFails, Ticking
  <2>3. new.at = "cycle"
    BY <1>0, <2>1, <2>2 DEF Supervisor
  <2> QED BY <1>2, <2>2, <2>3
<1>7. ASSUME NEW l, Tick(s, l)
      PROVE  Up' = Up \ {s} \/ (Up' = Up /\ s \in Up /\ UNCHANGED pidVars)
  <2>1. PICK after \in Outcomes(l), others \in {sup, Forget({l})}, prev \in {l, None}, n \in Nat :
            TickAs(s, l, after, others, prev, n)
    BY <1>7, TickParts
  <2>2. sup[s].at = "cycle" /\ DOMAIN others = Copy
    BY <1>0, <2>1 DEF TickAs, Ticking, Forget
  <2>3. \A u \in Copy : others[u].at = sup[u].at
    <3>1. ASSUME NEW u \in Copy PROVE Forget({l})[u].at = sup[u].at
      BY ForgetKeeps
    <3> QED BY <2>1, <3>1
  <2>4. CASE sup' = [others EXCEPT ![s] = Down]
    <3>1. sup'[s].at = "down" /\ \A u \in Copy \ {s} : sup'[u].at = sup[u].at
      BY <2>2, <2>3, <2>4, DownType
    <3> QED BY <3>1 DEF Up
  <2>5. CASE ~(sup' = [others EXCEPT ![s] = Down])
    <3>1. PICK new : new = [sup[s] EXCEPT !.todo = Later(s, l), !.ok = TRUE, !.stuck = n, !.prev = prev]
      OBVIOUS
    <3>2. sup' = [others EXCEPT ![s] = new] /\ UNCHANGED pidVars
      BY <2>1, <2>5, <3>1 DEF TickAs
    <3>3. new.at = "cycle"
      BY <1>0, <2>2, <3>1 DEF Supervisor
    <3>4. sup'[s].at = "cycle" /\ \A u \in Copy \ {s} : sup'[u].at = sup[u].at
      BY <2>2, <2>3, <3>2, <3>3
    <3> QED BY <2>2, <3>2, <3>4 DEF Up
  <2> QED BY <2>4, <2>5
<1> QED BY <1>0, <1>3, <1>4, <1>5, <1>6, <1>7 DEF SupStep

\* Where the copies, the pidfile and the kicks that spawn stay as they are.
LEMMA AloneFrame ==
    ASSUME Alone, UNCHANGED pidVars, Up' = Up, Spawning' = Spawning,
           \A k \in Kick : kick'[k].at = "spawn" => kick[k].at = "spawn",
           excuses \subseteq excuses'
    PROVE  Alone'
  BY DEF Alone, pidVars

\* A kick that neither spawns nor waits, before or after its step.
LEMMA SpawningKept ==
    ASSUME TypeOK, NEW k \in Kick, NEW at \in KickAt \ {"spawn", "wait"}, Goto(k, at) \/ Leave(k),
           kick[k].at \notin {"spawn", "wait"}
    PROVE  /\ Spawning' = Spawning
           /\ \A j \in Kick : kick'[j].at = "spawn" => kick[j].at = "spawn"
<1>1. kick'[k].at \notin {"spawn", "wait"} /\ \A j \in Kick \ {k} : kick'[j] = kick[j]
  BY KickType
<1> QED BY <1>1 DEF Spawning

\* No step of a kick makes a second copy of what was alone, unless it is on record.
LEMMA KickAlone ==
    ASSUME Base, Alone, excuses \subseteq excuses', NEW k \in Kick,
           \/ KickStep(k) \/ KickDies(k)
           \/ \E w \in Wave : Begin(k, w) \/ Refuse(k, w)
    PROVE  Alone'
<1>0. /\ TypeOK /\ kick \in [Kick -> [at : KickAt, wave : Wave \cup {None}]]
      /\ sup \in [Copy -> Supervisor] /\ None \notin Copy
  BY SupervisionAssumption DEF Base, TypeOK
<1>1. CASE Check(k)
  <2>1. CASE SupervisorAlive
    <3>1. /\ Goto(k, "read") /\ UNCHANGED <<sup, pidVars>> /\ kick[k].at = "check"
          /\ "read" \in KickAt \ {"spawn", "wait"}
      BY <1>1, <2>1 DEF Check, KickAt
    <3>2. Spawning' = Spawning /\ \A j \in Kick : kick'[j].at = "spawn" => kick[j].at = "spawn"
      BY <1>0, <3>1, SpawningKept
    <3>3. Up' = Up
      BY <3>1 DEF Up
    <3> QED BY <3>1, <3>2, <3>3, AloneFrame
  <2>2. CASE ~SupervisorAlive
    <3>1. /\ Goto(k, "spawn") /\ UNCHANGED <<sup, pidVars>> /\ kick[k].at = "check"
          /\ "spawn" \in KickAt
          /\ (\E j \in Kick \ {k} : kick[j].at \in {"spawn", "wait"}) => "twin" \in excuses'
      BY <1>1, <2>2 DEF Check, KickAt
    <3>2. kick'[k].at \in {"spawn", "off"} /\ \A j \in Kick \ {k} : kick'[j] = kick[j]
      BY <1>0, <3>1, KickType
    <3>3. Up' = Up /\ UNCHANGED <<pidfile, fresh>>
      BY <3>1 DEF Up, pidVars
    <3>4. ASSUME "twin" \notin excuses' PROVE Spawning' \subseteq {k} /\ Up = {}
      <4>1. Spawning = {}
        BY <3>1, <3>4 DEF Spawning
      <4>2. Up = {}
        BY <2>2, <3>4, <4>1 DEF Alone, SupervisorAlive
      <4> QED BY <3>2, <4>1, <4>2 DEF Spawning
    <3> QED BY <3>3, <3>4 DEF Alone, Spawning
  <2> QED BY <2>1, <2>2
<1>2. CASE Spawn(k)
  <2>1. PICK s : s = Min(Copy \ Up) /\ sup' = [sup EXCEPT ![s].at = "boot"] /\ pidfile' = s
    BY <1>2 DEF Spawn
  <2>2. s \in Copy
    <3>1. Copy \ Up # {} /\ Copy \ Up \subseteq Nat
      BY <1>2, SupervisionAssumption DEF Spawn, Up
    <3> QED BY <2>1, <3>1, MinOfNaturals
  <2>3. sup'[s].at = "boot" /\ \A u \in Copy \ {s} : sup'[u] = sup[u]
    <3>1. sup' = [sup EXCEPT ![s] = [sup[s] EXCEPT !.at = "boot"]] /\ sup[s] \in Supervisor
      BY <1>0, <2>1, <2>2
    <3>2. [sup[s] EXCEPT !.at = "boot"].at = "boot"
      BY <3>1 DEF Supervisor
    <3> QED BY <1>0, <2>2, <3>1, <3>2
  <2>4. Goto(k, "wait") /\ "wait" \in KickAt /\ kick[k].at = "spawn"
    BY <1>2 DEF Spawn, KickAt
  <2>5. \/ kick'[k].at = "wait" \/ Leave(k)
    BY <1>0, <2>4, KickType
  <2>6. kick'[k].at = "wait" /\ \A j \in Kick \ {k} : kick'[j] = kick[j]
    <3>1. kick' = [kick EXCEPT ![k] = [kick[k] EXCEPT !.at = "wait"]]
      BY <2>4 DEF Goto
    <3>2. [kick[k] EXCEPT !.at = "wait"].at = "wait"
      BY <1>0
    <3> QED BY <1>0, <3>1, <3>2
  <2>7. Spawning' = Spawning /\ k \in Spawning
    BY <2>4, <2>6 DEF Spawning
  <2>8. ASSUME "twin" \notin excuses'
        PROVE  /\ Up' = {s} /\ \A i, j \in Spawning : i = j
               /\ \A j \in Kick : kick'[j].at # "spawn"
    <3>1. Up = {} /\ \A i, j \in Spawning : i = j
      BY <2>4, <2>8 DEF Alone
    <3>2. Up' = {s}
      BY <2>2, <2>3, <3>1 DEF Up
    <3>3. \A j \in Kick : kick'[j].at # "spawn"
      BY <2>4, <2>6, <2>7, <3>1 DEF Spawning
    <3> QED BY <3>1, <3>2, <3>3
  <2> QED BY <2>1, <2>7, <2>8 DEF Alone
<1>3. CASE Wait(k)
  <2>1. CASE "twin" \in excuses'
    BY <2>1 DEF Alone
  <2>2. CASE "twin" \notin excuses'
    <3>1. /\ SupervisorAlive /\ Goto(k, "read") /\ UNCHANGED <<sup, pidfile, fresh>>
          /\ kick[k].at = "wait" /\ "read" \in KickAt
      BY <1>3, <2>2 DEF Wait, KickAt
    <3>2. kick'[k].at \in {"read", "off"} /\ \A j \in Kick \ {k} : kick'[j] = kick[j]
      BY <1>0, <3>1, KickType
    <3>3. Spawning' \subseteq Spawning \ {k} /\ k \in Spawning
      BY <3>1, <3>2 DEF Spawning
    <3>4. Spawning' = {} /\ Up' = Up /\ \A s, u \in Up : s = u
      BY <2>2, <3>1, <3>3 DEF Alone, Up
    <3>5. pidfile \in Up /\ fresh
      BY <3>1 DEF SupervisorAlive
    <3> QED BY <3>1, <3>4, <3>5 DEF Alone, Spawning
  <2> QED BY <2>1, <2>2
<1>4. CASE Write(k) \/ Start(k)
  <2>1. \E w \in Wave, p \in Phase : Put(w, p)
    <3>1. kick[k].wave \in Wave
      BY <1>4 DEF Write, Start, Base, KicksOK
    <3>2. CASE Write(k)
      BY <3>1, <3>2 DEF Write, Phase
    <3>3. CASE Start(k)
      <4>1. PICK began \in Phase : \E p \in Moves[began] : Put(kick[k].wave, p)
        BY <1>0, <3>1, <3>3, StartMoves
      <4>2. PICK p \in Moves[began] : Put(kick[k].wave, p)
        BY <4>1
      <4> QED BY <3>1, <4>1, <4>2, MovesOK
    <3> QED BY <1>4, <3>2, <3>3
  <2>2. Up' = Up
    <3>1. \A s \in Copy : sup'[s].at = sup[s].at
      BY <1>0, <2>1, PutKeeps
    <3> QED BY <3>1 DEF Up
  <2>3. /\ kick[k].at \notin {"spawn", "wait"} /\ (Goto(k, "start") \/ Leave(k))
        /\ "start" \in KickAt \ {"spawn", "wait"} /\ UNCHANGED pidVars
    BY <1>4 DEF Write, Start, KickAt
  <2>4. Spawning' = Spawning /\ \A j \in Kick : kick'[j].at = "spawn" => kick[j].at = "spawn"
    BY <1>0, <2>3, SpawningKept
  <2> QED BY <2>2, <2>3, <2>4, AloneFrame
<1>5. CASE Read(k) \/ KickDies(k)
  <2>1. Up' = Up /\ UNCHANGED pidVars
    BY <1>5 DEF Read, KickDies, Up
  <2>2. CASE "twin" \in excuses'
    BY <2>2 DEF Alone
  <2>3. CASE "twin" \notin excuses'
    <3>1. PICK at \in {"write", "start"} :
              kick[k].at \notin {"spawn", "wait"} /\ (Goto(k, at) \/ Leave(k))
      BY <1>5, <2>3 DEF Read, KickDies
    <3>2. at \in KickAt \ {"spawn", "wait"}
      BY DEF KickAt
    <3>3. Spawning' = Spawning /\ \A j \in Kick : kick'[j].at = "spawn" => kick[j].at = "spawn"
      BY <1>0, <3>1, <3>2, SpawningKept
    <3> QED BY <2>1, <3>3, AloneFrame
  <2> QED BY <2>2, <2>3
<1>6. ASSUME NEW w \in Wave, Begin(k, w) \/ Refuse(k, w) PROVE Alone'
  <2>1. Up' = Up /\ UNCHANGED pidVars
    BY <1>6 DEF Begin, Refuse, Up
  <2>2. \A j \in Kick : kick'[j] = kick[j] \/ (kick[j].at = "off" /\ kick'[j].at = "check")
    BY <1>0, <1>6 DEF Begin, Refuse, Free
  <2>3. Spawning' = Spawning
    BY <2>2 DEF Spawning
  <2> QED BY <2>1, <2>2, <2>3, AloneFrame
<1> QED BY <1>1, <1>2, <1>3, <1>4, <1>5, <1>6 DEF KickStep

\* Nor does any other.
LEMMA AloneStep ==
    ASSUME Base, Alone, [Next]_vars
    PROVE  Alone'
<1>0. TypeOK /\ excuses \subseteq excuses'
  BY ExcusesGrow DEF Base
<1>1. CASE \E k \in Kick : KickStep(k) \/ KickDies(k) \/ \E w \in Wave : Begin(k, w) \/ Refuse(k, w)
  BY <1>0, <1>1, KickAlone
<1>2. ASSUME NEW s \in Copy, SupStep(s) \/ Killed(s) PROVE Alone'
  <2>1. UNCHANGED kick
    BY <1>2 DEF SupStep, Boot, EndCycle, TickFails, Tick, Killed
  <2>2. Spawning' = Spawning /\ \A k \in Kick : kick'[k].at = "spawn" => kick[k].at = "spawn"
    BY <2>1 DEF Spawning
  <2>3. CASE Up' = Up \ {s}
    <3>1. ASSUME "twin" \notin excuses' PROVE Up' = {} /\ \A j, k \in Spawning : j = k
      <4>1. \A u \in Up : u = s
        BY <1>0, <1>2, <3>1, StepOfCopy DEF Alone
      <4> QED BY <1>0, <2>3, <3>1, <4>1 DEF Alone
    <3> QED BY <2>2, <3>1 DEF Alone
  <2>4. CASE Up' = Up /\ UNCHANGED pidVars
    BY <1>0, <2>2, <2>4, AloneFrame
  <2>5. CASE Up' = Up /\ s \in Up /\ pidfile' \in {pidfile, s} /\ fresh' = TRUE
    BY <1>0, <2>2, <2>5 DEF Alone
  <2> QED BY <1>0, <1>2, <2>3, <2>4, <2>5, StepOfCopy
<1>3. CASE (\E w \in Wave : Operate(w)) \/ (\E l \in Ledger : Fails(l)) \/ UNCHANGED vars
  <2>1. UNCHANGED <<kick, pidVars>>
    BY <1>3 DEF Operate, Fails, vars
  <2>2. Up' = Up
    <3>1. CASE UNCHANGED sup
      BY <3>1 DEF Up
    <3>2. ASSUME NEW w \in Wave, NEW p \in Phase, Put(w, p) PROVE Up' = Up
      BY <1>0, <3>2, PutKeeps DEF Up
    <3> QED BY <1>3, <3>1, <3>2 DEF Operate, Fails, vars, Phase
  <2>3. Spawning' = Spawning /\ \A k \in Kick : kick'[k].at = "spawn" => kick[k].at = "spawn"
    BY <2>1 DEF Spawning
  <2> QED BY <1>0, <2>1, <2>2, <2>3, AloneFrame
<1>4. CASE Age
  <2>1. /\ UNCHANGED <<sup, kick, pidfile>> /\ (Up # {} => "twin" \in excuses')
    BY <1>4 DEF Age
  <2>2. Up' = Up /\ Spawning' = Spawning
    BY <2>1 DEF Up, Spawning
  <2> QED BY <1>0, <2>1, <2>2 DEF Alone
<1> QED BY <1>1, <1>2, <1>3, <1>4 DEF Next

----------------------------------------------------------------------------
(* What a copy has counted.                                                  *)

\* What a copy counts, and on what.
LEMMA CountType ==
    ASSUME TypeOK, NEW u \in Copy
    PROVE  /\ sup[u].stuck \in Nat
           /\ sup[u].prev # None => sup[u].prev \in Ledger
           /\ \A l \in Ledger : still[l] \in Nat
<1>1. sup[u] \in Supervisor /\ still \in [Ledger -> 0..StuckTicks]
  BY DEF TypeOK
<1>2. sup[u].stuck \in 0..StuckTicks - 1 /\ sup[u].prev \in Ledger \cup {None}
  BY <1>1 DEF Supervisor
<1> QED BY <1>1, <1>2

\* A copy that neither counts nor takes a new fingerprint knows what it knew, as long as
\* the ledger it counted on stays as it was.
LEMMA CountedFrame ==
    ASSUME TypeOK, TypeOK', NEW u \in Copy, Counted(u), NEW l, l = sup[u].prev,
           sup'[u].prev = None \/ (sup'[u].prev = l /\ sup'[u].stuck = sup[u].stuck),
           l # None /\ sup'[u].prev = l /\ sup[u].stuck > 0 =>
               /\ still'[l] >= still[l]
               /\ \A w \in Wave : LedgerOf[w] = l => phase'[w] = phase[w]
    PROVE  Counted(u)'
<1>1. SUFFICES ASSUME l # None, sup'[u].prev = l, sup[u].stuck > 0
               PROVE  /\ still'[l] >= sup[u].stuck
                      /\ \A w \in Wave : LedgerOf[w] = l /\ phase'[w] \in Live
                                        => phase'[w] \in Running \ {"busy"}
  BY DEF Counted, LiveOn
<1>2. sup[u].stuck \in Nat /\ still[l] \in Nat /\ still'[l] \in Nat
  <2>1. l \in Ledger /\ sup[u].stuck \in Nat /\ still[l] \in Nat
    BY <1>1, CountType
  <2>2. still'[l] \in Nat
    BY <2>1 DEF TypeOK
  <2> QED BY <2>1, <2>2
<1>3. still[l] >= sup[u].stuck /\ \A w \in LiveOn(l) : phase[w] \in Running \ {"busy"}
  BY <1>1 DEF Counted
<1>4. still'[l] >= sup[u].stuck
  BY <1>1, <1>2, <1>3
<1> QED BY <1>1, <1>3, <1>4 DEF LiveOn

\* A copy that steps but does not tick counts nothing.
LEMMA CountsOfOne ==
    ASSUME TypeOK, TypeOK', CountsKnown, UNCHANGED <<phase, still>>, NEW s \in Copy,
           NEW new, sup' = [sup EXCEPT ![s] = new],
           new.prev = None \/ (new.prev = sup[s].prev /\ new.stuck = sup[s].stuck)
    PROVE  CountsKnown'
<1>1. ASSUME NEW u \in Copy PROVE Counted(u)'
  <2>1. sup'[u].prev = None \/ (sup'[u].prev = sup[u].prev /\ sup'[u].stuck = sup[u].stuck)
    BY DEF TypeOK
  <2>2. PICK l : l = sup[u].prev
    OBVIOUS
  <2>3. l # None => still'[l] >= still[l]
    <3>1. ASSUME l # None PROVE still[l] \in Nat
      BY <2>2, <3>1, CountType
    <3> QED BY <3>1
  <2>4. Counted(u)
    BY DEF CountsKnown
  <2> QED BY <2>1, <2>2, <2>3, <2>4, CountedFrame
<1> QED BY <1>1 DEF CountsKnown

\* A process other than a copy makes the copies forget the ledger it changes.
LEMMA CountsPut ==
    ASSUME TypeOK, TypeOK', CountsKnown, NEW w \in Wave, NEW p \in Phase, Put(w, p)
    PROVE  CountsKnown'
<1>1. ASSUME NEW u \in Copy PROVE Counted(u)'
  <2>1. PICK l : l = sup[u].prev
    OBVIOUS
  <2>2. sup[u] \in Supervisor /\ Counted(u) /\ LedgerOf[w] \in Ledger
    BY SupervisionAssumption DEF TypeOK, CountsKnown
  <2>3. sup'[u].prev \in {l, None} /\ sup'[u].stuck = sup[u].stuck
    BY <2>1, PutKeeps
  <2>4. ASSUME l # None, sup'[u].prev = l
        PROVE  /\ still'[l] >= still[l]
               /\ \A v \in Wave : LedgerOf[v] = l => phase'[v] = phase[v]
    <3>1. l \in Ledger /\ still[l] \in Nat
      BY <2>1, <2>2, <2>4, SupervisionAssumption DEF TypeOK, Supervisor
    <3>2. phase' = [phase EXCEPT ![w] = p] /\ phase \in [Wave -> Phase]
      BY PutType DEF TypeOK
    <3>3. CASE p = phase[w]
      <4>1. UNCHANGED still
        BY <3>3 DEF Put
      <4> QED BY <3>1, <3>2, <3>3, <4>1
    <3>4. CASE p # phase[w]
      <4>1. sup' = Forget({LedgerOf[w]}) /\ still' = [still EXCEPT ![LedgerOf[w]] = 0]
        BY <3>4 DEF Put
      <4>2. l # LedgerOf[w]
        <5>1. Forget({LedgerOf[w]})[u].prev = IF l = LedgerOf[w] THEN None ELSE l
          BY <2>1, ForgetKeeps
        <5> QED BY <2>4, <4>1, <5>1
      <4>3. still'[l] = still[l]
        BY <3>1, <4>1, <4>2 DEF TypeOK
      <4> QED BY <3>1, <3>2, <4>2, <4>3
    <3> QED BY <3>3, <3>4
  <2> QED BY <2>1, <2>2, <2>3, <2>4, CountedFrame
<1> QED BY <1>1 DEF CountsKnown

\* A tick counts on a ledger it found and left quiet, whose fingerprint its copy had, and
\* every other copy that counted on that ledger sees it quiet for one more tick.
LEMMA CountsTick ==
    ASSUME TypeOK, TypeOK', CountsKnown, NEW s \in Copy, NEW l, Tick(s, l)
    PROVE  CountsKnown'
<1>0. /\ sup \in [Copy -> Supervisor] /\ sup[s] \in Supervisor /\ StuckTicks \in Nat
      /\ None \notin Ledger
  BY SupervisionAssumption DEF TypeOK
<1>1. PICK after \in Outcomes(l), others \in {sup, Forget({l})}, prev \in {l, None}, n \in Nat :
          TickAs(s, l, after, others, prev, n)
  BY TickParts
<1>2. phase' = [w \in Wave |-> IF w \in LiveOn(l) THEN after[w] ELSE phase[w]]
  BY <1>1 DEF TickAs
<1>3. still' = [still EXCEPT ![l] = IF Changed(l, after) \/ ~Quiet(after) THEN 0
                                    ELSE IF still[l] < StuckTicks THEN still[l] + 1 ELSE still[l]]
  BY <1>1 DEF TickAs
<1>4. l \in Ledger
  <2>1. Due(s) \subseteq Nat /\ Due(s) # {} /\ l = Min(Due(s)) /\ Due(s) \subseteq Ledger
    BY <1>0, <1>1, SupervisionAssumption DEF TickAs, Ticking, Due, Supervisor
  <2> QED BY <2>1, MinOfNaturals
<1>5. still[l] \in 0..StuckTicks
  BY <1>4 DEF TypeOK
<1>6. \A w \in Wave : LedgerOf[w] # l => phase'[w] = phase[w]
  BY <1>2 DEF LiveOn
<1>7. ASSUME ~Changed(l, after) PROVE UNCHANGED phase
  <2>1. \A w \in Wave : phase'[w] = phase[w]
    BY <1>2, <1>7 DEF Changed
  <2> QED BY <1>2, <2>1 DEF TypeOK
<1>8. ASSUME NEW u \in Copy \ {s} PROVE Counted(u)'
  <2>1. PICK m : m = sup[u].prev
    OBVIOUS
  <2>2. sup'[u] = others[u] /\ Counted(u) /\ sup[u] \in Supervisor
    <3>1. DOMAIN others = Copy
      BY <1>0, <1>1 DEF Forget
    <3> QED BY <1>0, <1>1, <3>1 DEF TickAs, CountsKnown
  <2>3. /\ others[u].stuck = sup[u].stuck
        /\ others[u].prev = IF Changed(l, after) /\ m = l THEN None ELSE m
    <3>1. others = IF Changed(l, after) THEN Forget({l}) ELSE sup
      BY <1>1 DEF TickAs
    <3>2. /\ Forget({l})[u].stuck = sup[u].stuck
          /\ Forget({l})[u].prev = IF m = l THEN None ELSE m
      BY <2>1, ForgetKeeps
    <3> QED BY <2>1, <3>1, <3>2
  <2>4. ASSUME m # None, sup'[u].prev = m, sup[u].stuck > 0
        PROVE  /\ still'[m] >= still[m]
               /\ \A w \in Wave : LedgerOf[w] = m => phase'[w] = phase[w]
    <3>1. m \in Ledger /\ still[m] \in Nat
      BY <2>1, <2>2, <2>4, <1>0 DEF TypeOK, Supervisor
    <3>2. CASE m # l
      BY <1>3, <1>6, <3>1, <3>2 DEF TypeOK
    <3>3. CASE m = l
      <4>1. ~Changed(l, after)
        BY <2>2, <2>3, <2>4, <3>3
      <4>2. \A w \in LiveOn(l) : phase[w] \in Running \ {"busy"}
        BY <2>1, <2>2, <2>4, <3>3 DEF Counted
      <4>3. Quiet(after)
        <5>1. DOMAIN after = LiveOn(l)
          BY DEF Outcomes
        <5> QED BY <4>1, <4>2, <5>1 DEF Quiet, Changed
      <4>4. still'[l] = IF still[l] < StuckTicks THEN still[l] + 1 ELSE still[l]
        BY <1>3, <1>4, <4>1, <4>3 DEF TypeOK
      <4>5. still'[l] >= still[l]
        BY <1>5, <4>4
      <4> QED BY <1>7, <3>3, <4>1, <4>5
    <3> QED BY <3>2, <3>3
  <2> QED BY <2>1, <2>2, <2>3, <2>4, CountedFrame
<1>9. Counted(s)'
  <2>1. DOMAIN others = Copy
    BY <1>0, <1>1 DEF Forget
  <2>2. CASE sup' = [others EXCEPT ![s] = Down]
    <3>1. sup'[s].prev = None
      BY <2>1, <2>2 DEF Down
    <3> QED BY <3>1 DEF Counted
  <2>3. CASE ~(sup' = [others EXCEPT ![s] = Down])
    <3>1. PICK new : new = [sup[s] EXCEPT !.todo = Later(s, l), !.ok = TRUE, !.stuck = n, !.prev = prev]
      OBVIOUS
    <3>2. sup' = [others EXCEPT ![s] = new] /\ n < StuckTicks
      BY <1>1, <2>3, <3>1 DEF TickAs
    <3>3. new.stuck = n /\ new.prev = prev
      BY <1>0, <3>1 DEF Supervisor
    <3>4. sup'[s].stuck = n /\ sup'[s].prev = prev
      BY <2>1, <3>2, <3>3
    <3>5. ASSUME prev # None, n > 0
          PROVE  /\ still'[prev] >= n
                 /\ \A w \in LiveOn(l) : phase[w] \in Running \ {"busy"}
                 /\ UNCHANGED phase /\ prev = l
      <4>1. n = Count(s, l, after) /\ prev = l
        BY <1>1, <3>5 DEF TickAs
      <4>2. Quiet(after) /\ ~Changed(l, after) /\ sup[s].prev = l /\ n = sup[s].stuck + 1
        BY <3>5, <4>1 DEF Count
      <4>3. \A w \in LiveOn(l) : phase[w] \in Running \ {"busy"}
        <5>1. DOMAIN after = LiveOn(l)
          BY DEF Outcomes
        <5> QED BY <4>2, <5>1 DEF Quiet, Changed
      <4>4. sup[s].stuck \in Nat /\ (sup[s].stuck > 0 => still[l] >= sup[s].stuck)
        BY <1>0, <1>4, <4>2 DEF CountsKnown, Counted, Supervisor
      <4>5. still'[l] = IF still[l] < StuckTicks THEN still[l] + 1 ELSE still[l]
        BY <1>3, <1>4, <4>2 DEF TypeOK
      <4>6. still'[l] >= n
        BY <1>0, <1>5, <3>2, <4>2, <4>4, <4>5
      <4> QED BY <1>7, <4>1, <4>2, <4>3, <4>6
    <3> QED BY <3>4, <3>5 DEF Counted, LiveOn
  <2> QED BY <2>2, <2>3
<1> QED BY <1>8, <1>9 DEF CountsKnown

\* No step of a kick, of a copy or of what is around them has a copy know too much.
LEMMA CountsStep ==
    ASSUME TypeOK, TypeOK', KicksOK, CountsKnown, [Next]_vars
    PROVE  CountsKnown'
<1>0. sup \in [Copy -> Supervisor]
  BY DEF TypeOK
<1>1. ASSUME UNCHANGED <<phase, still, sup>> PROVE CountsKnown'
  BY <1>1 DEF CountsKnown, Counted, LiveOn
<1>2. CASE \E k \in Kick : KickStep(k) \/ KickDies(k) \/ \E w \in Wave : Begin(k, w) \/ Refuse(k, w)
  <2>1. PICK k \in Kick : KickStep(k) \/ KickDies(k) \/ \E w \in Wave : Begin(k, w) \/ Refuse(k, w)
    BY <1>2
  <2>2. CASE Spawn(k)
    <3>1. PICK s : /\ s = Min(Copy \ Up) /\ sup' = [sup EXCEPT ![s].at = "boot"]
                   /\ UNCHANGED <<phase, still>>
      BY <2>2 DEF Spawn, waveVars
    <3>2. s \in Copy
      <4>1. Copy \ Up # {} /\ Copy \ Up \subseteq Nat
        BY <2>2, SupervisionAssumption DEF Spawn, Up
      <4> QED BY <3>1, <4>1, MinOfNaturals
    <3>3. PICK new : new = [sup[s] EXCEPT !.at = "boot"]
      OBVIOUS
    <3>4. sup' = [sup EXCEPT ![s] = new]
      BY <1>0, <3>1, <3>2, <3>3
    <3>5. sup[s] \in Supervisor
      BY <1>0, <3>2
    <3>6. new.prev = sup[s].prev /\ new.stuck = sup[s].stuck
      BY <3>3, <3>5 DEF Supervisor
    <3> QED BY <3>1, <3>2, <3>4, <3>6, CountsOfOne
  <2>3. CASE Write(k) \/ Start(k)
    <3>1. kick[k].wave \in Wave
      BY <2>3 DEF Write, Start, KicksOK
    <3>2. CASE Write(k)
      BY <3>1, <3>2, CountsPut DEF Write, Phase
    <3>3. CASE Start(k)
      <4>1. PICK began \in Phase : \E p \in Moves[began] : Put(kick[k].wave, p)
        BY <3>1, <3>3, StartMoves
      <4>2. PICK p \in Moves[began] : Put(kick[k].wave, p)
        BY <4>1
      <4> QED BY <3>1, <4>1, <4>2, MovesOK, CountsPut
    <3> QED BY <2>3, <3>2, <3>3
  <2>4. CASE ~(Spawn(k) \/ Write(k) \/ Start(k))
    BY <1>1, <2>1, <2>4 DEF KickStep, KickDies, Begin, Refuse, Check, Wait, Read, waveVars
  <2> QED BY <2>2, <2>3, <2>4
<1>3. ASSUME NEW s \in Copy, SupStep(s) \/ Killed(s) PROVE CountsKnown'
  <2>0. sup[s] \in Supervisor
    BY <1>0
  <2>1. CASE sup' = [sup EXCEPT ![s] = Down] /\ UNCHANGED <<phase, still>>
    BY <2>1, CountsOfOne DEF Down
  <2>2. CASE Boot(s)
    <3>1. PICK new : new = [Down EXCEPT !.at = "cycle", !.todo = Ledger]
      OBVIOUS
    <3>2. new.prev = None
      BY <3>1 DEF Down
    <3> QED BY <2>2, <3>1, <3>2, CountsOfOne DEF Boot, waveVars
  <2>3. CASE Killed(s)
    BY <2>1, <2>3 DEF Killed, waveVars
  <2>4. CASE EndCycle(s)
    <3>1. PICK fails, idle :
              /\ fails = IF sup[s].failed /\ ~sup[s].ok THEN sup[s].fails + 1 ELSE 0
              /\ idle = IF sup[s].failed \/ sup[s].ok THEN 0 ELSE sup[s].idle + 1
      OBVIOUS
    <3>2. /\ UNCHANGED <<phase, still>>
          /\ \/ sup' = [sup EXCEPT ![s] = Down]
             \/ sup' = [sup EXCEPT ![s].todo = Ledger, ![s].ok = FALSE, ![s].failed = FALSE,
                                   ![s].fails = fails, ![s].idle = idle]
      BY <2>4, <3>1 DEF EndCycle, waveVars
    <3>3. PICK new : new = [sup[s] EXCEPT !.todo = Ledger, !.ok = FALSE, !.failed = FALSE,
                                          !.fails = fails, !.idle = idle]
      OBVIOUS
    <3>4. new.prev = sup[s].prev /\ new.stuck = sup[s].stuck
      BY <2>0, <3>3 DEF Supervisor
    <3>5. CASE ~(sup' = [sup EXCEPT ![s] = Down])
      <4>1. sup' = [sup EXCEPT ![s] = new]
        BY <1>0, <2>0, <3>2, <3>3, <3>5
      <4> QED BY <3>2, <3>4, <4>1, CountsOfOne
    <3> QED BY <2>1, <3>2, <3>5
  <2>5. ASSUME NEW l, TickFails(s, l) PROVE CountsKnown'
    <3>1. PICK new : new = [sup[s] EXCEPT !.todo = Later(s, l), !.failed = TRUE]
      OBVIOUS
    <3>2. sup' = [sup EXCEPT ![s] = new] /\ UNCHANGED <<phase, still>>
      BY <1>0, <2>5, <3>1 DEF TickFails, waveVars
    <3>3. new.prev = sup[s].prev /\ new.stuck = sup[s].stuck
      BY <2>0, <3>1 DEF Supervisor
    <3> QED BY <3>2, <3>3, CountsOfOne
  <2> QED BY <1>3, <2>2, <2>3, <2>4, <2>5, CountsTick DEF SupStep
<1>4. CASE (\E w \in Wave : Operate(w)) \/ (\E l \in Ledger : Fails(l)) \/ Age \/ UNCHANGED vars
  <2>1. UNCHANGED <<phase, still, sup>> \/ \E w \in Wave : Operate(w)
    BY <1>4 DEF Fails, Age, vars, waveVars
  <2>2. ASSUME NEW w \in Wave, Operate(w) PROVE CountsKnown'
    BY <2>2, CountsPut DEF Operate, Phase
  <2> QED BY <1>1, <2>1, <2>2
<1> QED BY <1>2, <1>3, <1>4 DEF Next

----------------------------------------------------------------------------
(* The results.                                                              *)

\* In every behaviour every part of the invariant holds.
THEOREM Invariant == Spec => [](TypeOK /\ SupervisionInv)
<1>1. Init => TypeOK /\ SupervisionInv
  BY InitInv
<1>2. ASSUME TypeOK, SupervisionInv, [Next]_vars PROVE (TypeOK /\ SupervisionInv)'
  <2>1. Base /\ Base'
    BY <1>2, BaseStep DEF Base, SupervisionInv
  <2>2. RefusedRightly' /\ Alone' /\ CreatesApart'
    BY <1>2, <2>1, RefusedStep, AloneStep, CreatesStep DEF SupervisionInv
  <2>3. CountsKnown'
    BY <1>2, <2>1, CountsStep DEF SupervisionInv, Base
  <2> QED BY <2>1, <2>2, <2>3 DEF SupervisionInv, Base
<1> QED BY <1>1, <1>2, PTL DEF Spec

\* Kicks, copies and waves keep their types.
THEOREM TypeCorrect == Spec => []TypeOK
  BY Invariant, PTL

\* A wave is frozen from the whole selection, each ticket after those it depends on, unless
\* these were closed on the board and not asked for.
THEOREM FrozenOrdered == Spec => []FrozenInOrder
<1>1. FrozenAsAsked => FrozenInOrder
  <2>1. SUFFICES ASSUME FrozenAsAsked, NEW w \in Wave, phase[w] # "absent"
                 PROVE  /\ ToSet(frozen[w]) = ToSet(Asked[w])
                        /\ \A i \in DOMAIN frozen[w] : \A d \in DependsOn[frozen[w][i]] :
                              Closed(d) \/ \E j \in 1..i - 1 : frozen[w][j] = d
    BY DEF FrozenInOrder
  <2>2. Freezes(Asked[w]) /\ Asked[w] \in Seq(Ticket) /\ frozen[w] = TopologicalOrder(Asked[w])
    BY <2>1, SupervisionAssumption DEF FrozenAsAsked, Preflight
  <2> QED BY <2>2, FrozenOrder
<1> QED BY <1>1, Invariant, PTL DEF SupervisionInv

\* Of the selections a drain may make only those with a ticket whose last file disputes its
\* first, with a plan worker of no known name, or with too many launches, are refused.
THEOREM OnlyUnfitRefused == Spec => []EligibleAccepted
<1>1. RefusedRightly => EligibleAccepted
  <2>1. SUFFICES ASSUME RefusedRightly, NEW w \in refused, WellFormed(Asked[w]),
                        \A t \in ToSet(Asked[w]) :
                            Eligible(t) /\ ~Disputed(t) /\ t \notin StrangeWorker
                 PROVE  ~(RequiredLaunches(Asked[w]) <= MaxLaunches)
    BY DEF EligibleAccepted
  <2>2. ~Preflight(Asked[w]) /\ Asked[w] \in Seq(Ticket)
    BY <2>1, SupervisionAssumption DEF RefusedRightly
  <2>3. Freezes(Asked[w])
    BY <2>1, <2>2, EligibleFreezes
  <2> QED BY <2>2, <2>3 DEF Preflight
<1> QED BY <1>1, Invariant, PTL DEF SupervisionInv

\* Two copies tick only once the heartbeat aged under a living one, two kicks met, or a kick
\* gave up on the copy it spawned.
THEOREM AtMostOne == Spec => []OneSupervisor
<1>1. Alone => OneSupervisor
  <2>1. SUFFICES ASSUME \A s, u \in Up : s = u PROVE ~(Cardinality(Beating) > 1)
    BY DEF Alone, OneSupervisor
  <2>2. \A s, u \in Beating : s = u
    BY <2>1 DEF Beating, Up
  <2>3. CASE Beating = {}
    BY <2>3, FS_EmptySet
  <2>4. CASE Beating # {}
    <3>1. PICK s : Beating = {s}
      BY <2>2, <2>4
    <3>2. Cardinality(Beating) = 1
      BY <3>1, FS_Singleton
    <3> QED BY <3>2
  <2> QED BY <2>3, <2>4
<1> QED BY <1>1, Invariant, PTL DEF SupervisionInv

\* A wave that was started goes back to its draft only if two creates of it overlapped.
THEOREM StartedKept == Spec => StartedStays
<1>1. ASSUME TypeOK, SupervisionInv, [Next]_vars
      PROVE  [\A w \in Wave : phase[w] \notin {"absent", "draft"} /\ phase'[w] = "draft"
                                  => "creates" \in excuses]_vars
  <2>1. SUFFICES ASSUME NEW w \in Wave, phase[w] \notin {"absent", "draft"}, phase'[w] = "draft",
                        "creates" \notin excuses
                 PROVE  FALSE
    OBVIOUS
  <2>2. PICK k \in Kick : Write(k) /\ kick[k].wave = w
    BY <1>1, <2>1, PhasesKept DEF Base, SupervisionInv
  <2>3. phase[w] = "absent"
    BY <1>1, <2>1, <2>2 DEF Write, SupervisionInv, CreatesApart
  <2> QED BY <2>1, <2>3
<1> QED BY <1>1, Invariant, PTL DEF Spec, StartedStays

\* A copy that beats, has a ledger due and goes down unharmed does so in a tick of that ledger
\* that ends its count.
LEMMA StuckStop ==
    ASSUME TypeOK, TypeOK', SupervisionInv, Next,
           NEW s \in Beating, Due(s) # {}, sup'[s].at = "down", faults' = faults
    PROVE  still'[Min(Due(s))] >= StuckTicks
<1>0. /\ sup \in [Copy -> Supervisor] /\ s \in Copy /\ sup[s].at = "cycle" /\ sup[s] \in Supervisor
      /\ s \in Up /\ s \notin Up' /\ KicksOK
  BY DEF TypeOK, Beating, Up, SupervisionInv
<1>1. ASSUME NEW l, Tick(s, l) PROVE still'[Min(Due(s))] >= StuckTicks
  <2>1. PICK after \in Outcomes(l), others \in {sup, Forget({l})}, prev \in {l, None}, n \in Nat :
            TickAs(s, l, after, others, prev, n)
    BY <1>0, <1>1, TickParts
  <2>2. l = Min(Due(s)) /\ n = Count(s, l, after) /\ DOMAIN others = Copy
    BY <1>0, <2>1 DEF TickAs, Ticking, Forget
  <2>3. n >= StuckTicks
    <3>1. CASE n < StuckTicks
      <4>1. PICK new : new = [sup[s] EXCEPT !.todo = Later(s, l), !.ok = TRUE, !.stuck = n, !.prev = prev]
        OBVIOUS
      <4>2. sup' = [others EXCEPT ![s] = new]
        <5>1. StuckTicks \in Nat /\ ~(n >= StuckTicks)
          BY <3>1, SupervisionAssumption
        <5> QED BY <2>1, <4>1, <5>1 DEF TickAs
      <4>3. new.at = "cycle"
        BY <1>0, <4>1 DEF Supervisor
      <4> QED BY <1>0, <2>2, <4>2, <4>3
    <3> QED BY <3>1, <2>1 DEF TickAs
  <2>4. Quiet(after) /\ ~Changed(l, after) /\ sup[s].prev = l /\ n = sup[s].stuck + 1
    BY <2>2, <2>3, SupervisionAssumption DEF Count
  <2>5. l \in Ledger
    <3>1. Due(s) \subseteq Nat /\ Due(s) \subseteq Ledger
      BY <1>0, SupervisionAssumption DEF Due, Supervisor
    <3> QED BY <2>2, <3>1, MinOfNaturals
  <2>6. sup[s].stuck \in Nat /\ (sup[s].stuck > 0 => still[l] >= sup[s].stuck)
    <3>1. Counted(s) /\ l # None
      BY <1>0, <2>5, SupervisionAssumption DEF SupervisionInv, CountsKnown
    <3> QED BY <1>0, <2>4, <3>1, CountType DEF Counted
  <2>7. still[l] \in 0..StuckTicks /\ StuckTicks \in Nat
    BY <2>5, SupervisionAssumption DEF TypeOK
  <2>8. still'[l] = IF still[l] < StuckTicks THEN still[l] + 1 ELSE still[l]
    <3>1. still' = [still EXCEPT ![l] = IF Changed(l, after) \/ ~Quiet(after) THEN 0
                                        ELSE IF still[l] < StuckTicks THEN still[l] + 1 ELSE still[l]]
      BY <2>1 DEF TickAs
    <3> QED BY <2>4, <2>5, <3>1 DEF TypeOK
  <2>9. still'[l] >= StuckTicks
    BY <2>3, <2>4, <2>6, <2>7, <2>8
  <2> QED BY <2>2, <2>9
<1>2. ASSUME NEW l, TickFails(s, l) PROVE FALSE
  <2>1. PICK new : new = [sup[s] EXCEPT !.todo = Later(s, l), !.failed = TRUE]
    OBVIOUS
  <2>2. sup' = [sup EXCEPT ![s] = new] /\ new.at = "cycle"
    BY <1>0, <1>2, <2>1 DEF TickFails, Supervisor
  <2> QED BY <1>0, <2>2
<1>3. ASSUME NEW u \in Copy, SupStep(u) \/ Killed(u)
      PROVE  u = s /\ \E l : TickFails(s, l) \/ Tick(s, l)
  <2>1. u = s
    BY <1>0, <1>3, StepOfCopy
  <2>2. ~Killed(u)
    BY SupervisionAssumption DEF Killed, Fault, TypeOK
  <2> QED BY <1>0, <1>3, <2>1, <2>2 DEF SupStep, Boot, EndCycle
<1>4. ASSUME NEW w \in Wave, NEW p \in Phase, Put(w, p) PROVE FALSE
  BY <1>0, <1>4, PutKeeps
<1>5. ASSUME UNCHANGED sup PROVE FALSE
  BY <1>0, <1>5
<1>6. CASE \E k \in Kick : KickStep(k) \/ KickDies(k) \/ \E w \in Wave : Begin(k, w) \/ Refuse(k, w)
  <2>1. PICK k \in Kick : KickStep(k) \/ KickDies(k) \/ \E w \in Wave : Begin(k, w) \/ Refuse(k, w)
    BY <1>6
  <2>2. CASE Spawn(k)
    <3>1. PICK u : u = Min(Copy \ Up) /\ sup' = [sup EXCEPT ![u].at = "boot"]
      BY <2>2 DEF Spawn
    <3>2. u # s
      <4>1. Copy \ Up # {} /\ Copy \ Up \subseteq Nat
        BY <2>2, SupervisionAssumption DEF Spawn, Up
      <4> QED BY <1>0, <3>1, <4>1, MinOfNaturals
    <3> QED BY <1>0, <3>1, <3>2
  <2>3. CASE Write(k) \/ Start(k)
    <3>1. kick[k].wave \in Wave
      BY <1>0, <2>3 DEF Write, Start, KicksOK
    <3>2. CASE Write(k)
      BY <1>4, <3>1, <3>2 DEF Write, Phase
    <3>3. CASE Start(k)
      <4>1. PICK began \in Phase : \E p \in Moves[began] : Put(kick[k].wave, p)
        BY <3>1, <3>3, StartMoves
      <4>2. PICK p \in Moves[began] : Put(kick[k].wave, p)
        BY <4>1
      <4> QED BY <1>4, <3>1, <4>1, <4>2, MovesOK
    <3> QED BY <2>3, <3>2, <3>3
  <2>4. CASE ~(Spawn(k) \/ Write(k) \/ Start(k))
    BY <1>5, <2>1, <2>4 DEF KickStep, KickDies, Begin, Refuse, Check, Wait, Read
  <2> QED BY <2>2, <2>3, <2>4
<1>7. CASE (\E w \in Wave : Operate(w)) \/ (\E l \in Ledger : Fails(l)) \/ Age
  BY <1>4, <1>5, <1>7 DEF Operate, Fails, Age, Phase
<1> QED BY <1>1, <1>2, <1>3, <1>6, <1>7 DEF Next

\* The stop for being stuck blames a ledger that stood still for as many of its own ticks.
THEOREM StopsHonest == Spec => StuckStopsHonestly
<1>1. ASSUME TypeOK, TypeOK', SupervisionInv, [Next]_vars
      PROVE  [\A s \in Copy :
                s \in Beating /\ Due(s) # {} /\ sup'[s].at = "down" /\ faults' = faults
                    => still'[Min(Due(s))] >= StuckTicks]_vars
  <2>1. CASE Next
    BY <1>1, <2>1, StuckStop
  <2>2. CASE UNCHANGED vars
    BY <2>2
  <2> QED BY <1>1, <2>1, <2>2
<1> QED BY <1>1, Invariant, PTL DEF Spec, StuckStopsHonestly
=============================================================================
