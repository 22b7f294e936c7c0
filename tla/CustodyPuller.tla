--------------------------- MODULE CustodyPuller ---------------------------
(***************************************************************************)
(* The pulling custodian (deploy/custody_puller.cljk): one process that,   *)
(* graph after graph and round after round, reads the committed head from  *)
(* the witnesses and walks the chain back to a document it holds already,  *)
(* pinning, checking and recording every document on the way.              *)
(*                                                                         *)
(* The documents of a graph are a chain without gaps (ChainLinked in       *)
(* GraphWriter), so a document is the pair of its graph and its position;  *)
(* position p holds seq p - 1 and its `prev' is at p - 1, or nil.          *)
(***************************************************************************)
EXTENDS Integers, Sequences

CONSTANTS
  GraphList,   \* --graph, in the order given
  Bad,         \* the committed documents that fail check-doc
  MaxCommits,  \* bound on the documents committed to a graph
  Nothing

Graphs == {GraphList[i] : i \in DOMAIN GraphList}
Documents == Graphs \X (Nat \ {0})

ASSUME PullerAssumption ==
  /\ GraphList \in Seq(Graphs)
  /\ Bad \subseteq Documents
  /\ MaxCommits \in Nat
  /\ Nothing \notin Int
  /\ Nothing \notin [graph: Graphs, head: Nat, next: Nat, pinned: BOOLEAN]

VARIABLES
  committed,  \* graph -> how many documents inga has committed
  proved,     \* graph -> the position of the last head a verify proved
  held,       \* the documents in the state file (and in its copy in memory)
  keeps,      \* the documents pinned on this custodian's Kubo
  unsettled,  \* the graphs this round has not settled, the current one first
  walk,       \* the walk through the current graph, or Nothing
  worst,      \* the worst outcome of the round so far: 0, 1 or 3
  exit,       \* what the last round ended with; Nothing after a crash
  cut         \* history: the graphs with a walk that ended early

pullerVars == <<committed, proved, held, keeps, unsettled, walk, worst, exit, cut>>

-----------------------------------------------------------------------------
\* A walk back from position `head': everything above `next' is done, and the
\* document at `next' is pinned (not checked yet) or not.
Walks == [graph: Graphs, head: Nat, next: Nat, pinned: BOOLEAN]

PullerTypeOK ==
  /\ committed \in [Graphs -> Nat]
  /\ proved \in [Graphs -> Nat]
  /\ held \subseteq Documents
  /\ keeps \subseteq Documents
  /\ unsettled \in Seq(Graphs)
  /\ walk \in {Nothing} \cup Walks
  /\ worst \in {0, 1, 3}
  /\ exit \in {Nothing, 0, 1, 3}
  /\ cut \subseteq Graphs

PullerInit ==
  /\ committed = [g \in Graphs |-> 0]
  /\ proved = [g \in Graphs |-> 0]
  /\ held = {} /\ keeps = {}
  /\ unsettled = <<>> /\ walk = Nothing
  /\ worst = 0 /\ exit = Nothing
  /\ cut = {}

\* The writers commit another document.
Commit(g) ==
  /\ committed[g] < MaxCommits
  /\ committed' = [committed EXCEPT ![g] = @ + 1]
  /\ UNCHANGED <<proved, held, keeps, unsettled, walk, worst, exit, cut>>

-----------------------------------------------------------------------------
(* One round                                                               *)

StartRound ==
  /\ unsettled = <<>>
  /\ unsettled' = GraphList
  /\ worst' = 0
  /\ UNCHANGED <<committed, proved, held, keeps, walk, exit, cut>>

\* On to the next graph with this outcome; the last one ends the round.
Settle(outcome) ==
  /\ walk' = Nothing
  /\ unsettled' = Tail(unsettled)
  /\ worst' = outcome
  /\ exit' = IF Tail(unsettled) = <<>> THEN outcome ELSE exit

Refused == 1

\* Mutant: a graph that could not be read does not count.
UnmeasuredIgnored == worst

Unmeasured == IF worst = 1 THEN 1 ELSE 3

\* A verify proves some committed head, never an older one than before
\* (ProvedNeverGoesBack in GraphWriter).
ReadHead ==
  /\ unsettled # <<>> /\ walk = Nothing
  /\ LET g == Head(unsettled)
     IN \E h \in proved[g]..committed[g] :
          /\ h > 0
          /\ proved' = [proved EXCEPT ![g] = h]
          /\ walk' = [graph |-> g, head |-> h, next |-> h, pinned |-> FALSE]
  /\ UNCHANGED <<committed, held, keeps, unsettled, worst, exit, cut>>

\* No record yet (nothing to hold), or no verdict: a split is a refusal.
ReadNoHead ==
  /\ unsettled # <<>> /\ walk = Nothing
  /\ \/ proved[Head(unsettled)] = 0 /\ Settle(worst)
     \/ Settle(Refused)
     \/ Settle(Unmeasured)
  /\ UNCHANGED <<committed, proved, held, keeps, cut>>

Doc == <<walk.graph, walk.next>>

\* The walk is over at the beginning of the chain or at a document it holds:
\* it reports HELD.
Reports == walk # Nothing /\ ~walk.pinned /\ (walk.next = 0 \/ Doc \in held)

ReportHeld ==
  /\ Reports
  /\ Settle(worst)
  /\ UNCHANGED <<committed, proved, held, keeps, cut>>

PinDoc ==
  /\ walk # Nothing /\ ~walk.pinned /\ ~Reports
  /\ keeps' = keeps \cup {Doc}
  /\ walk' = [walk EXCEPT !.pinned = TRUE]
  /\ UNCHANGED <<committed, proved, held, unsettled, worst, exit, cut>>

\* Mutant: a document that cannot be fetched is skipped.
FetchSkips ==
  /\ walk # Nothing /\ ~Reports
  /\ walk' = [walk EXCEPT !.next = @ - 1, !.pinned = FALSE]
  /\ UNCHANGED <<committed, proved, held, keeps, unsettled, worst, exit, cut>>

\* Mutant: the graph is tried again until it can be fetched.
FetchRetries ==
  /\ walk # Nothing /\ ~Reports
  /\ walk' = Nothing
  /\ cut' = cut \cup {walk.graph}
  /\ UNCHANGED <<committed, proved, held, keeps, unsettled, worst, exit>>

\* The pin or the read of the pinned bytes fails or times out.
FetchFails ==
  /\ walk # Nothing /\ ~Reports
  /\ Settle(Unmeasured)
  /\ cut' = cut \cup {walk.graph}
  /\ UNCHANGED <<committed, proved, held, keeps>>

\* Mutant: what was fetched is kept without a check.
KeepUnchecked ==
  /\ walk # Nothing /\ walk.pinned
  /\ held' = held \cup {Doc}
  /\ walk' = [walk EXCEPT !.next = @ - 1, !.pinned = FALSE]
  /\ UNCHANGED <<committed, proved, keeps, unsettled, worst, exit, cut>>

Keep ==
  /\ walk # Nothing /\ walk.pinned /\ Doc \notin Bad
  /\ held' = held \cup {Doc}
  /\ walk' = [walk EXCEPT !.next = @ - 1, !.pinned = FALSE]
  /\ UNCHANGED <<committed, proved, keeps, unsettled, worst, exit, cut>>

\* A document that fails validation is unpinned and reported.
Warrant ==
  /\ walk # Nothing /\ walk.pinned /\ Doc \in Bad
  /\ keeps' = keeps \ {Doc}
  /\ Settle(Refused)
  /\ cut' = cut \cup {walk.graph}
  /\ UNCHANGED <<committed, proved, held>>

\* The process dies; launchd starts it again with the state file.
Crash ==
  /\ unsettled' = <<>> /\ walk' = Nothing /\ worst' = 0 /\ exit' = Nothing
  /\ cut' = IF walk = Nothing THEN cut ELSE cut \cup {walk.graph}
  /\ UNCHANGED <<committed, proved, held, keeps>>

-----------------------------------------------------------------------------
Pull == ReadHead \/ ReadNoHead \/ ReportHeld \/ PinDoc \/ FetchFails \/ Keep \/ Warrant

PullerNext == (\E g \in Graphs : Commit(g)) \/ StartRound \/ Pull \/ Crash

\* Every child the puller waits for has a time limit.
PullerSpec == PullerInit /\ [][PullerNext]_pullerVars /\ WF_pullerVars(Pull)

-----------------------------------------------------------------------------
(* Properties                                                              *)

\* Everything the state file lists is pinned and passed validation, through
\* warrants and crashes: a warrant never unpins a document that is held.
HeldIsPinnedAndValid == held \subseteq keeps \ Bad

\* The header: a round that exits 0 has every head held and valid.
ExitZeroMeansHeadsHeld ==
  exit = 0 /\ unsettled = <<>> =>
    \A g \in Graphs : proved[g] > 0 => <<g, proved[g]>> \in held \ Bad

\* As long as no walk of a graph was cut short, what is held of it has no
\* gap except the part the current walk has not reached: the reason why the
\* walk may stop at the first document it holds.
HeldOf(g) == {d[2] : d \in {e \in held : e[1] = g}}

NoGap ==
  \A g \in Graphs \ cut : \E b \in 0..proved[g] :
    IF walk # Nothing /\ walk.graph = g
    THEN b <= walk.next /\ HeldOf(g) = (1..b) \cup ((walk.next + 1)..walk.head)
    ELSE HeldOf(g) = 1..b

\* A walk is one through the first graph of the round, from its proved head
\* back, and what it pins is new.
WalkInv ==
  walk # Nothing =>
    /\ unsettled # <<>> /\ walk.graph = Head(unsettled)
    /\ walk.head = proved[walk.graph] /\ walk.head > 0
    /\ walk.next <= walk.head
    /\ walk.next < walk.head => <<walk.graph, walk.head>> \in held
    /\ walk.pinned => walk.next > 0 /\ Doc \in keeps \ held

\* While nothing went wrong, every graph the round has settled has its head
\* held.
HeadIsHeld(g) == proved[g] > 0 => <<g, proved[g]>> \in held

RoundInv ==
  /\ unsettled # <<>> /\ worst = 0 =>
       \A g \in Graphs : HeadIsHeld(g) \/ \E i \in DOMAIN unsettled : unsettled[i] = g
  /\ unsettled = <<>> /\ exit = 0 => \A g \in Graphs : HeadIsHeld(g)

PullerInv == PullerTypeOK /\ HeldIsPinnedAndValid /\ WalkInv /\ RoundInv /\ NoGap

\* A HELD line for a graph that never had a walk cut short: the whole chain
\* below the head it names is held.
ReportIsComplete ==
  Reports /\ walk.graph \notin cut => 1..walk.head \subseteq HeldOf(walk.graph)

\* The module's promise, "hold what inga committed": the same for any graph.
HoldsWhatIsCommitted ==
  Reports => 1..walk.head \subseteq HeldOf(walk.graph)

\* A round ends, however long the chain and whatever fails.
RoundEnds == unsettled # <<>> ~> unsettled = <<>>
=============================================================================
