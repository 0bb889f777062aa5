----------------------------- MODULE WaveIntake -----------------------------
(***************************************************************************)
(* How a selection of tickets becomes the frozen list of a wave: the board  *)
(* read by the trackers (json-tracker.ts, markdown-tracker.ts), the         *)
(* tickets a drain may select (eligible-select.ts), and what freezing them  *)
(* requires (safety.ts, manifest.ts, wave-create.ts).                       *)
(***************************************************************************)
EXTENDS Naturals, Sequences, FiniteSets, SequencesExt, FiniteSetsExt

CONSTANTS
    Ticket,
    Files,        \* Files[t]: the files that bear the id t, in the order of their paths
    NeedsJason,   \* tickets whose needs_jason is true, by the first file
    Gated,        \* tickets whose eligibility names a human gate, by the first file
    ForAgents,    \* tickets marked agent_eligible, by the first file
    StrangeWorker,  \* tickets whose plan_worker is neither grok nor codex, by the last file
    ReviewSkip,   \* tickets with planReviewSkip, by the last file
    NeedsUx,      \* tickets with needsUx, by the last file
    MaxTickets,   \* SAFETY.supervisedMaxTickets
    MaxLaunches   \* MAX_LAUNCHES of the kick

BoardStatus == {"open", "blocked", "done"}

\* A file of a ticket: its status, its depends_on, whether it has a verify command.
File == [status : BoardStatus, dependsOn : SUBSET Ticket, verified : BOOLEAN]

ASSUME IntakeAssumption ==
    /\ Files \in [Ticket -> Seq(File)]
    /\ NeedsJason \cup Gated \cup ForAgents \subseteq Ticket
    /\ StrangeWorker \cup ReviewSkip \cup NeedsUx \subseteq Ticket
    /\ {MaxTickets, MaxLaunches} \subseteq Nat

\* The snapshot finds a file of t.
Known(t) == Files[t] # <<>>

\* A ticket of several files is closed once any of them is.
Closed(t) == \E i \in DOMAIN Files[t] : Files[t][i].status = "done"

\* A ticket is frozen as its last file says (new Map over all files), and selected as its
\* first open one says.
LastFile(t) == Files[t][Len(Files[t])]
FirstFile(t) == Files[t][1]
Disputed(t) ==
    LastFile(t).dependsOn # FirstFile(t).dependsOn \/ LastFile(t).verified # FirstFile(t).verified

DependsOn == [t \in Ticket |-> IF Known(t) THEN LastFile(t).dependsOn ELSE {}]

WellFormed(asked) ==
    Len(asked) \in 1..MaxTickets /\ Cardinality(ToSet(asked)) = Len(asked)

NormalizesUnmerged(asked) ==
    \A t \in ToSet(asked) :
        /\ Known(t)
        /\ \A d \in DependsOn[t] \ ToSet(asked) : Known(d) /\ \A i \in DOMAIN Files[d] : Files[d][i].status = "done"

\* A dependency outside the selection has to be closed, and is then dropped.
Normalizes(asked) ==
    \A t \in ToSet(asked) :
        /\ Known(t)
        /\ \A d \in DependsOn[t] \ ToSet(asked) : Closed(d)

Kept(asked, t) == DependsOn[t] \cap ToSet(asked)

Ready(asked, done) ==
    {i \in DOMAIN asked : asked[i] \notin done /\ Kept(asked, asked[i]) \subseteq done}

TopologicalOrderAsGiven(asked) == asked

\* Again and again the first asked for of those whose dependencies are placed; it
\* stops short of a cycle, where the code throws.
TopologicalOrder(asked) ==
    LET placed[n \in 0..Len(asked)] ==
            IF n = 0 THEN <<>>
            ELSE LET ready == Ready(asked, ToSet(placed[n - 1]))
                 IN  IF ready = {} THEN placed[n - 1]
                     ELSE Append(placed[n - 1], asked[Min(ready)])
    IN  placed[Len(asked)]

Verifiable(asked) == \A t \in ToSet(asked) : LastFile(t).verified
Acyclic(asked) == Len(TopologicalOrder(asked)) = Len(asked)

KnownPlanWorkers(asked) == ToSet(asked) \cap StrangeWorker = {}

\* What the dry run, and create, check of a selection.
Freezes(asked) ==
    /\ WellFormed(asked) /\ Normalizes(asked)
    /\ Verifiable(asked) /\ KnownPlanWorkers(asked) /\ Acyclic(asked)

\* PLAN and IMPL, and the reviews the ticket asks for.
HopsForTicket(t) == 2 + Cardinality({t} \ ReviewSkip) + Cardinality({t} \cap NeedsUx)
RequiredLaunches(asked) == MapThenSumSet(HopsForTicket, ToSet(asked))

\* The dry run of a kick passes, but for a primary that is dirty at the moment.
Preflight(asked) == Freezes(asked) /\ RequiredLaunches(asked) <= MaxLaunches

\* resolveHumanHold.
HumanHold(t) == t \in NeedsJason \/ t \in Gated

\* What a drain may select; it reads the first file only.
Eligible(t) ==
    /\ Known(t) /\ ~Closed(t) /\ FirstFile(t).status # "blocked"
    /\ t \in ForAgents /\ FirstFile(t).verified /\ ~HumanHold(t)
    /\ \A d \in FirstFile(t).dependsOn : Known(d) /\ Closed(d)
=============================================================================
