------------------------ MODULE CustodyPullerProofs ------------------------
(***************************************************************************)
(* Theorems about CustodyPuller for any list of graphs, any set of invalid *)
(* documents and chains of any length.                                     *)
(***************************************************************************)
EXTENDS CustodyPuller, TLAPS

\* What the constants give.
LEMMA Constants ==
  /\ GraphList \in Seq(Graphs)
  /\ \A g \in Graphs : \E i \in DOMAIN GraphList : GraphList[i] = g
  /\ Nothing \notin Walks /\ Nothing \notin Int
BY PullerAssumption DEF Graphs, Walks

\* The rest of a round is made of graphs, and only its first one is gone.
LEMMA Rest ==
  ASSUME NEW s \in Seq(Graphs), s # <<>>
  PROVE  /\ Tail(s) \in Seq(Graphs)
         /\ Head(s) \in Graphs /\ s[1] = Head(s)
         /\ \A i \in DOMAIN s : i # 1 => i - 1 \in DOMAIN Tail(s) /\ Tail(s)[i - 1] = s[i]
<1>1. /\ Tail(s) \in Seq(Graphs) /\ Head(s) \in Graphs /\ s[1] = Head(s)
      /\ Len(s) \in Nat \ {0} /\ DOMAIN s = 1..Len(s)
      /\ DOMAIN Tail(s) = 1..(Len(s) - 1)
  OBVIOUS
<1>2. ASSUME NEW i \in DOMAIN s, i # 1
      PROVE  i - 1 \in DOMAIN Tail(s) /\ Tail(s)[i - 1] = s[i]
  BY <1>1, <1>2
<1> QED
  BY <1>1, <1>2

\* The initial state satisfies the invariant.
LEMMA InitInv == PullerInit => PullerInv
<1> SUFFICES ASSUME PullerInit PROVE PullerInv
  OBVIOUS
<1>1. PullerTypeOK
  BY DEF PullerInit, PullerTypeOK
<1>2. HeldIsPinnedAndValid /\ WalkInv
  BY DEF PullerInit, HeldIsPinnedAndValid, WalkInv
<1>3. RoundInv
  BY DEF PullerInit, RoundInv, HeadIsHeld
<1>4. NoGap
  <2> SUFFICES ASSUME NEW g \in Graphs PROVE HeldOf(g) = 1..0 /\ 0 \in 0..proved[g]
    BY DEF PullerInit, NoGap
  <2> QED
    BY DEF PullerInit, HeldOf
<1> QED
  BY <1>1, <1>2, <1>3, <1>4 DEF PullerInv

\* A settled graph leaves everything in place but the round.

\* However a graph is settled, the invariant holds after it, provided that an
\* outcome 0 means that its head is held and that the walk left no gap unless
\* it was cut short.
LEMMA SettleKeepsInv ==
  ASSUME PullerInv, unsettled # <<>>, NEW outcome \in {0, 1, 3}, Settle(outcome),
         committed' = committed, proved' = proved, held' = held,
         keeps' \subseteq Documents, held \subseteq keeps' \ Bad,
         cut \subseteq cut', cut' \subseteq Graphs,
         outcome = 0 => worst = 0 /\ HeadIsHeld(Head(unsettled)),
         walk # Nothing /\ walk.graph \notin cut' =>
           HeldOf(walk.graph) = 1..proved[walk.graph]
  PROVE  PullerInv'
<1>1. /\ walk' = Nothing /\ unsettled' = Tail(unsettled) /\ worst' = outcome
      /\ exit' = IF Tail(unsettled) = <<>> THEN outcome ELSE exit
      /\ unsettled \in Seq(Graphs) /\ exit \in {Nothing, 0, 1, 3}
      /\ proved \in [Graphs -> Nat] /\ held \subseteq Documents
  BY DEF Settle, PullerInv, PullerTypeOK
<1>2. /\ unsettled' \in Seq(Graphs) /\ Head(unsettled) \in Graphs /\ unsettled[1] = Head(unsettled)
      /\ \A i \in DOMAIN unsettled : i # 1 => i - 1 \in DOMAIN unsettled' /\ unsettled'[i - 1] = unsettled[i]
  BY <1>1, Rest
<1>3. PullerTypeOK'
  BY <1>1, <1>2 DEF PullerInv, PullerTypeOK
<1>4. HeldIsPinnedAndValid' /\ WalkInv'
  BY <1>1 DEF HeldIsPinnedAndValid, WalkInv
<1>5. ASSUME outcome = 0, NEW g \in Graphs
      PROVE  HeadIsHeld(g) \/ \E i \in DOMAIN unsettled' : unsettled'[i] = g
  <2>1. HeadIsHeld(g) \/ \E i \in DOMAIN unsettled : unsettled[i] = g
    BY <1>5 DEF PullerInv, RoundInv
  <2>2. ASSUME NEW i \in DOMAIN unsettled, unsettled[i] = g
        PROVE  HeadIsHeld(g) \/ \E j \in DOMAIN unsettled' : unsettled'[j] = g
    <3>1. CASE i = 1
      BY <1>2, <1>5, <2>2, <3>1
    <3>2. CASE i # 1
      BY <1>2, <2>2, <3>2
    <3> QED
      BY <3>1, <3>2
  <2> QED
    BY <2>1, <2>2
<1>6. RoundInv'
  <2>1. \A g \in Graphs : HeadIsHeld(g)' <=> HeadIsHeld(g)
    BY DEF HeadIsHeld
  <2>2. CASE unsettled' # <<>>
    BY <1>1, <1>5, <2>1, <2>2 DEF RoundInv
  <2>3. CASE unsettled' = <<>>
    <3>1. exit' = outcome
      BY <1>1, <2>3
    <3>2. DOMAIN unsettled' = {}
      BY <2>3
    <3> QED
      BY <1>5, <2>1, <2>3, <3>1, <3>2 DEF RoundInv
  <2> QED
    BY <2>2, <2>3
<1>7. NoGap'
  <2> SUFFICES ASSUME NEW g \in Graphs \ cut'
               PROVE  \E b \in 0..proved[g] : HeldOf(g) = 1..b
    BY <1>1 DEF NoGap, HeldOf
  <2>1. CASE walk # Nothing /\ walk.graph = g
    <3>1. proved[g] \in 0..proved[g]
      BY <1>1
    <3> QED
      BY <2>1, <3>1
  <2>2. CASE ~(walk # Nothing /\ walk.graph = g)
    BY <2>2 DEF PullerInv, NoGap
  <2> QED
    BY <2>1, <2>2
<1> QED
  BY <1>3, <1>4, <1>6, <1>7 DEF PullerInv

\* At the end of a walk that was never cut short, the whole chain is held.
LEMMA ReportedIsHeld ==
  ASSUME PullerInv, Reports, walk.graph \notin cut
  PROVE  HeldOf(walk.graph) = 1..walk.head
<1>1. /\ walk \in Walks /\ proved \in [Graphs -> Nat] /\ walk.next <= walk.head
      /\ walk.head = proved[walk.graph] /\ walk.head > 0
  BY DEF Reports, PullerInv, PullerTypeOK, WalkInv
<1>2. /\ walk.graph \in Graphs \ cut /\ walk.next \in Nat /\ walk.head \in Nat
      /\ walk # Nothing
  BY <1>1 DEF Walks, Reports
<1>3. PICK b \in 0..proved[walk.graph] :
        b <= walk.next /\ HeldOf(walk.graph) = (1..b) \cup ((walk.next + 1)..walk.head)
  BY <1>2 DEF PullerInv, NoGap
<1>4. CASE walk.next = 0
  BY <1>1, <1>2, <1>3, <1>4
<1>5. CASE Doc \in held
  <2>1. walk.next \in HeldOf(walk.graph)
    BY <1>5 DEF HeldOf, Doc
  <2>2. b = walk.next
    BY <1>1, <1>2, <1>3, <1>5, <2>1 DEF PullerInv, PullerTypeOK, Doc, Documents
  <2> QED
    BY <1>1, <1>2, <1>3, <2>2
<1> QED
  BY <1>4, <1>5 DEF Reports

LEMMA ReadNoHeadKeepsInv == ASSUME PullerInv, ReadNoHead PROVE PullerInv'
<1>1. /\ unsettled # <<>> /\ walk = Nothing
      /\ committed' = committed /\ proved' = proved /\ held' = held
      /\ keeps' = keeps /\ cut' = cut
      /\ keeps \subseteq Documents /\ held \subseteq keeps \ Bad /\ cut \subseteq Graphs
      /\ worst \in {0, 1, 3}
  BY DEF ReadNoHead, PullerInv, PullerTypeOK, HeldIsPinnedAndValid
<1>2. CASE proved[Head(unsettled)] = 0 /\ Settle(worst)
  BY <1>1, <1>2, SettleKeepsInv DEF HeadIsHeld
<1>3. ASSUME NEW outcome \in {1, 3}, Settle(outcome) PROVE PullerInv'
  BY <1>1, <1>3, SettleKeepsInv
<1> QED
  BY <1>2, <1>3 DEF ReadNoHead, Refused, Unmeasured

LEMMA ReportHeldKeepsInv == ASSUME PullerInv, ReportHeld PROVE PullerInv'
<1>1. /\ Reports /\ Settle(worst) /\ walk # Nothing
      /\ committed' = committed /\ proved' = proved /\ held' = held
      /\ keeps' = keeps /\ cut' = cut
      /\ keeps \subseteq Documents /\ held \subseteq keeps \ Bad /\ cut \subseteq Graphs
      /\ worst \in {0, 1, 3} /\ walk \in Walks
  BY DEF ReportHeld, Reports, PullerInv, PullerTypeOK, HeldIsPinnedAndValid
<1>2. /\ unsettled # <<>> /\ walk.graph = Head(unsettled) /\ walk.head = proved[walk.graph]
      /\ walk.head > 0 /\ walk.next <= walk.head
      /\ walk.next < walk.head => <<walk.graph, walk.head>> \in held
  BY <1>1 DEF PullerInv, WalkInv
<1>3. HeadIsHeld(Head(unsettled))
  <2>1. CASE walk.next = walk.head
    BY <1>1, <1>2, <2>1 DEF Reports, Doc, HeadIsHeld
  <2>2. CASE walk.next # walk.head
    BY <1>1, <1>2, <2>2 DEF HeadIsHeld, Walks
  <2> QED
    BY <2>1, <2>2
<1>4. walk.graph \notin cut => HeldOf(walk.graph) = 1..proved[walk.graph]
  BY <1>1, <1>2, ReportedIsHeld
<1> QED
  BY <1>1, <1>2, <1>3, <1>4, SettleKeepsInv

LEMMA FetchFailsKeepsInv == ASSUME PullerInv, FetchFails PROVE PullerInv'
<1>1. /\ Settle(Unmeasured) /\ Unmeasured \in {1, 3} /\ walk # Nothing /\ walk \in Walks
      /\ committed' = committed /\ proved' = proved /\ held' = held
      /\ keeps' = keeps /\ cut' = cut \cup {walk.graph}
      /\ keeps \subseteq Documents /\ held \subseteq keeps \ Bad /\ cut \subseteq Graphs
  BY DEF FetchFails, Unmeasured, PullerInv, PullerTypeOK, HeldIsPinnedAndValid
<1>2. unsettled # <<>> /\ walk.graph \in Graphs
  BY <1>1 DEF PullerInv, WalkInv, Walks
<1> QED
  BY <1>1, <1>2, SettleKeepsInv

LEMMA WarrantKeepsInv == ASSUME PullerInv, Warrant PROVE PullerInv'
<1>1. /\ Settle(1) /\ walk # Nothing /\ walk \in Walks /\ walk.pinned /\ Doc \in Bad
      /\ committed' = committed /\ proved' = proved /\ held' = held
      /\ keeps' = keeps \ {Doc} /\ cut' = cut \cup {walk.graph}
      /\ keeps \subseteq Documents /\ held \subseteq keeps \ Bad /\ cut \subseteq Graphs
  BY DEF Warrant, Refused, PullerInv, PullerTypeOK, HeldIsPinnedAndValid
<1>2. unsettled # <<>> /\ walk.graph \in Graphs /\ Doc \notin held
  BY <1>1 DEF PullerInv, WalkInv, Walks
<1> QED
  BY <1>1, <1>2, SettleKeepsInv

LEMMA CommitKeepsInv == ASSUME PullerInv, NEW g \in Graphs, Commit(g) PROVE PullerInv'
<1>1. /\ committed' \in [Graphs -> Nat]
      /\ UNCHANGED <<proved, held, keeps, unsettled, walk, worst, exit, cut>>
  BY DEF Commit, PullerInv, PullerTypeOK
<1> QED
  BY <1>1 DEF PullerInv, PullerTypeOK, HeldIsPinnedAndValid, WalkInv, Doc, RoundInv, HeadIsHeld,
              NoGap, HeldOf

LEMMA StartRoundKeepsInv == ASSUME PullerInv, StartRound PROVE PullerInv'
<1>1. /\ unsettled = <<>> /\ unsettled' = GraphList /\ worst' = 0
      /\ UNCHANGED <<committed, proved, held, keeps, walk, exit, cut>>
  BY DEF StartRound
<1>2. walk = Nothing
  BY <1>1 DEF PullerInv, WalkInv
<1>3. PullerTypeOK' /\ HeldIsPinnedAndValid' /\ WalkInv'
  BY <1>1, <1>2, Constants DEF PullerInv, PullerTypeOK, HeldIsPinnedAndValid, WalkInv
<1>4. RoundInv'
  BY <1>1, Constants DEF PullerInv, RoundInv, HeadIsHeld
<1>5. NoGap'
  BY <1>1 DEF PullerInv, NoGap, HeldOf
<1> QED
  BY <1>3, <1>4, <1>5 DEF PullerInv

LEMMA ReadHeadKeepsInv == ASSUME PullerInv, ReadHead PROVE PullerInv'
<1> DEFINE g == Head(unsettled)
<1>1. /\ unsettled # <<>> /\ walk = Nothing
      /\ UNCHANGED <<committed, held, keeps, unsettled, worst, exit, cut>>
  BY DEF ReadHead
<1>2. PICK h \in proved[g]..committed[g] :
        /\ h > 0
        /\ proved' = [proved EXCEPT ![g] = h]
        /\ walk' = [graph |-> g, head |-> h, next |-> h, pinned |-> FALSE]
  BY DEF ReadHead
<1>3. /\ g \in Graphs /\ unsettled \in Seq(Graphs) /\ unsettled[1] = g /\ 1 \in DOMAIN unsettled
      /\ proved \in [Graphs -> Nat] /\ committed \in [Graphs -> Nat]
  BY <1>1, Rest DEF PullerInv, PullerTypeOK
<1> HIDE DEF g
<1>4. h \in Nat /\ proved' \in [Graphs -> Nat] /\ walk' \in Walks /\ walk' # Nothing
      /\ proved'[g] = h /\ h >= proved[g]
      /\ \A f \in Graphs : f # g => proved'[f] = proved[f]
  <2>1. h \in Nat /\ h >= proved[g]
    BY <1>2, <1>3
  <2>2. walk' \in Walks
    BY <1>2, <1>3, <2>1 DEF Walks
  <2>3. walk' # Nothing
    BY <2>2, Constants
  <2> QED
    BY <1>2, <1>3, <2>1, <2>2, <2>3
<1>5. PullerTypeOK' /\ HeldIsPinnedAndValid'
  BY <1>1, <1>4 DEF PullerInv, PullerTypeOK, HeldIsPinnedAndValid
<1>6. WalkInv'
  BY <1>1, <1>2, <1>4 DEF WalkInv, g
<1>7. RoundInv'
  <2> SUFFICES ASSUME worst = 0, NEW f \in Graphs
               PROVE  HeadIsHeld(f)' \/ \E i \in DOMAIN unsettled : unsettled[i] = f
    BY <1>1 DEF RoundInv
  <2>1. CASE f = g
    BY <1>3, <2>1
  <2>2. CASE f # g
    <3>1. HeadIsHeld(f)' <=> HeadIsHeld(f)
      BY <1>1, <1>4, <2>2 DEF HeadIsHeld
    <3> QED
      BY <1>1, <3>1 DEF PullerInv, RoundInv
  <2> QED
    BY <2>1, <2>2
<1>8. NoGap'
  <2> SUFFICES ASSUME NEW f \in Graphs \ cut
               PROVE  \E b \in 0..proved'[f] :
                        IF walk' # Nothing /\ walk'.graph = f
                        THEN /\ b <= walk'.next
                             /\ HeldOf(f) = (1..b) \cup ((walk'.next + 1)..walk'.head)
                        ELSE HeldOf(f) = 1..b
    BY <1>1 DEF NoGap, HeldOf
  <2>1. PICK b \in 0..proved[f] : HeldOf(f) = 1..b
    BY <1>1 DEF PullerInv, NoGap
  <2>2. CASE f = g
    <3>1. b \in 0..proved'[f] /\ b <= h
      BY <1>3, <1>4, <2>1, <2>2
    <3>2. walk'.next = h /\ walk'.head = h /\ (h + 1)..h = {}
      BY <1>2, <1>4
    <3>3. HeldOf(f) = (1..b) \cup ((walk'.next + 1)..walk'.head)
      BY <2>1, <3>2
    <3> QED
      BY <1>2, <1>4, <2>1, <2>2, <3>1, <3>2, <3>3
  <2>3. CASE f # g
    <3>1. walk'.graph # f /\ proved'[f] = proved[f]
      BY <1>2, <1>4, <2>3
    <3> QED
      BY <2>1, <3>1
  <2> QED
    BY <2>2, <2>3
<1> QED
  BY <1>5, <1>6, <1>7, <1>8 DEF PullerInv

LEMMA PinKeepsInv == ASSUME PullerInv, PinDoc PROVE PullerInv'
<1>1. /\ walk # Nothing /\ walk \in Walks /\ ~walk.pinned /\ ~Reports
      /\ keeps' = keeps \cup {Doc} /\ walk' = [walk EXCEPT !.pinned = TRUE]
      /\ UNCHANGED <<committed, proved, held, unsettled, worst, exit, cut>>
  BY DEF PinDoc, PullerInv, PullerTypeOK
<1>2. walk.next # 0 /\ Doc \notin held
  BY <1>1 DEF Reports
<1>3. /\ walk' \in Walks /\ walk' # Nothing /\ walk'.graph = walk.graph
      /\ walk'.head = walk.head /\ walk'.next = walk.next /\ walk'.pinned
      /\ Doc' = Doc /\ Doc \in Documents /\ walk.next > 0
  <2>1. /\ walk.graph \in Graphs /\ walk.next \in Nat /\ walk.head \in Nat
        /\ walk' = [graph |-> walk.graph, head |-> walk.head, next |-> walk.next,
                    pinned |-> TRUE]
    BY <1>1 DEF Walks
  <2>2. walk' \in Walks
    BY <2>1 DEF Walks
  <2>3. walk' # Nothing
    BY <2>2, Constants
  <2> QED
    BY <1>2, <2>1, <2>2, <2>3 DEF Doc, Documents
<1>4. PullerTypeOK' /\ HeldIsPinnedAndValid'
  BY <1>1, <1>3 DEF PullerInv, PullerTypeOK, HeldIsPinnedAndValid
<1>5. WalkInv'
  BY <1>1, <1>2, <1>3 DEF PullerInv, WalkInv
<1>6. RoundInv'
  BY <1>1 DEF PullerInv, RoundInv, HeadIsHeld
<1>7. NoGap'
  BY <1>1, <1>3 DEF PullerInv, NoGap, HeldOf
<1> QED
  BY <1>4, <1>5, <1>6, <1>7 DEF PullerInv

\* Keeping a document adds the one position a walk has reached.
LEMMA KeepKeepsInv == ASSUME PullerInv, Keep PROVE PullerInv'
<1>1. /\ walk # Nothing /\ walk \in Walks /\ walk.pinned /\ Doc \notin Bad
      /\ held' = held \cup {Doc}
      /\ walk' = [walk EXCEPT !.next = @ - 1, !.pinned = FALSE]
      /\ UNCHANGED <<committed, proved, keeps, unsettled, worst, exit, cut>>
  BY DEF Keep, PullerInv, PullerTypeOK
<1>2. /\ unsettled # <<>> /\ walk.graph = Head(unsettled) /\ walk.head = proved[walk.graph]
      /\ walk.head > 0 /\ walk.next <= walk.head /\ walk.next > 0
      /\ Doc \in keeps /\ Doc \notin held
      /\ walk.next < walk.head => <<walk.graph, walk.head>> \in held
  BY <1>1 DEF PullerInv, WalkInv
<1>3. /\ walk' \in Walks /\ walk' # Nothing /\ walk'.graph = walk.graph
      /\ walk'.head = walk.head /\ walk'.next = walk.next - 1 /\ ~walk'.pinned
      /\ walk.next \in Nat /\ walk.head \in Nat /\ walk.graph \in Graphs
      /\ Doc = <<walk.graph, walk.next>>
  <2>1. /\ walk.graph \in Graphs /\ walk.next \in Nat /\ walk.head \in Nat
        /\ walk' = [graph |-> walk.graph, head |-> walk.head, next |-> walk.next - 1,
                    pinned |-> FALSE]
    BY <1>1 DEF Walks
  <2>2. walk' \in Walks
    BY <1>2, <2>1 DEF Walks
  <2>3. walk' # Nothing
    BY <2>2, Constants
  <2> QED
    BY <1>2, <2>1, <2>2, <2>3 DEF Doc
<1>4. PullerTypeOK' /\ HeldIsPinnedAndValid'
  BY <1>1, <1>2, <1>3 DEF PullerInv, PullerTypeOK, HeldIsPinnedAndValid
<1>5. WalkInv'
  BY <1>1, <1>2, <1>3 DEF WalkInv
<1>6. RoundInv'
  BY <1>1, <1>2 DEF PullerInv, RoundInv, HeadIsHeld
<1>7. NoGap'
  <2> SUFFICES ASSUME NEW f \in Graphs \ cut
               PROVE  \E b \in 0..proved[f] :
                        IF walk'.graph = f
                        THEN /\ b <= walk'.next
                             /\ HeldOf(f)' = (1..b) \cup ((walk'.next + 1)..walk'.head)
                        ELSE HeldOf(f)' = 1..b
    BY <1>1, <1>3 DEF NoGap
  <2>1. CASE f = walk.graph
    <3>1. PICK b \in 0..proved[f] :
            b <= walk.next /\ HeldOf(f) = (1..b) \cup ((walk.next + 1)..walk.head)
      BY <1>1, <2>1 DEF PullerInv, NoGap
    <3>2. HeldOf(f)' = HeldOf(f) \cup {walk.next}
      BY <1>1, <1>3, <2>1 DEF HeldOf
    <3>3. b # walk.next
      <4>1. walk.next \notin HeldOf(f)
        <5> SUFFICES ASSUME NEW d \in held, d[1] = f, d[2] = walk.next PROVE FALSE
          BY DEF HeldOf
        <5>1. d = <<d[1], d[2]>>
          BY DEF PullerInv, PullerTypeOK, Documents
        <5> QED
          BY <1>2, <1>3, <2>1, <5>1
      <4> QED
        BY <1>2, <1>3, <3>1, <4>1
    <3>4. /\ b <= walk'.next
          /\ HeldOf(f)' = (1..b) \cup ((walk'.next + 1)..walk'.head)
      BY <1>2, <1>3, <3>1, <3>2, <3>3
    <3> QED
      BY <1>3, <2>1, <3>4
  <2>2. CASE f # walk.graph
    <3>1. HeldOf(f)' = HeldOf(f)
      BY <1>1, <1>3, <2>2 DEF HeldOf
    <3>2. PICK b \in 0..proved[f] : HeldOf(f) = 1..b
      BY <1>1, <2>2 DEF PullerInv, NoGap
    <3> QED
      BY <1>3, <2>2, <3>1, <3>2
  <2> QED
    BY <2>1, <2>2
<1> QED
  BY <1>4, <1>5, <1>6, <1>7 DEF PullerInv

LEMMA CrashKeepsInv == ASSUME PullerInv, Crash PROVE PullerInv'
<1>1. /\ unsettled' = <<>> /\ walk' = Nothing /\ worst' = 0 /\ exit' = Nothing
      /\ cut' = IF walk = Nothing THEN cut ELSE cut \cup {walk.graph}
      /\ UNCHANGED <<committed, proved, held, keeps>>
  BY DEF Crash
<1>2. cut' \subseteq Graphs
  BY <1>1 DEF PullerInv, PullerTypeOK, Walks
<1>3. PullerTypeOK' /\ HeldIsPinnedAndValid' /\ WalkInv'
  BY <1>1, <1>2 DEF PullerInv, PullerTypeOK, HeldIsPinnedAndValid, WalkInv
<1>4. RoundInv'
  BY <1>1, Constants DEF RoundInv
<1>5. NoGap'
  BY <1>1 DEF PullerInv, NoGap, HeldOf
<1> QED
  BY <1>3, <1>4, <1>5 DEF PullerInv

-----------------------------------------------------------------------------
(* The invariant and what it gives                                         *)

\* Every step keeps the invariant.
LEMMA StepKeepsInv == PullerInv /\ [PullerNext]_pullerVars => PullerInv'
<1> SUFFICES ASSUME PullerInv, [PullerNext]_pullerVars PROVE PullerInv'
  OBVIOUS
<1>1. CASE \E g \in Graphs : Commit(g)
  BY <1>1, CommitKeepsInv
<1>2. CASE StartRound
  BY <1>2, StartRoundKeepsInv
<1>3. CASE Pull
  BY <1>3, ReadHeadKeepsInv, ReadNoHeadKeepsInv, ReportHeldKeepsInv, PinKeepsInv,
     FetchFailsKeepsInv, KeepKeepsInv, WarrantKeepsInv DEF Pull
<1>4. CASE Crash
  BY <1>4, CrashKeepsInv
<1>5. CASE UNCHANGED pullerVars
  BY <1>5 DEF pullerVars, PullerInv, PullerTypeOK, HeldIsPinnedAndValid, WalkInv, Doc, RoundInv,
              HeadIsHeld, NoGap, HeldOf
<1> QED
  BY <1>1, <1>2, <1>3, <1>4, <1>5 DEF PullerNext

\* The strengthened invariant, for any graphs and chains of any length.
THEOREM PullerInvariant == PullerSpec => []PullerInv
BY InitInv, StepKeepsInv, PTL DEF PullerSpec

\* What the state file lists is pinned and valid, whatever fails or crashes.
THEOREM HeldDocumentsAreValid == PullerSpec => []HeldIsPinnedAndValid
<1>1. PullerInv => HeldIsPinnedAndValid
  BY DEF PullerInv
<1> QED
  BY <1>1, PullerInvariant, PTL

\* Exit code 0 of a round means that every head it read is held and valid.
THEOREM ExitZeroIsTrue == PullerSpec => []ExitZeroMeansHeadsHeld
<1>1. PullerInv => ExitZeroMeansHeadsHeld
  BY DEF PullerInv, RoundInv, HeadIsHeld, HeldIsPinnedAndValid, ExitZeroMeansHeadsHeld
<1> QED
  BY <1>1, PullerInvariant, PTL

\* A graph whose walks all ran to their end is held back to seq 0: stopping at
\* the first held document loses nothing unless some walk was cut short.
THEOREM UncutReportsAreComplete == PullerSpec => []ReportIsComplete
<1>1. PullerInv => ReportIsComplete
  BY ReportedIsHeld DEF ReportIsComplete
<1> QED
  BY <1>1, PullerInvariant, PTL
=============================================================================
