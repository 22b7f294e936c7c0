------------------------ MODULE LakeEpochCycleProofs ------------------------
(***************************************************************************)
(* What a capture and an epoch mean, for any lake, any pages, any number of *)
(* faults, and whatever the drill cuts in between.                          *)
(***************************************************************************)
EXTENDS LakeEpochCycle, FiniteSetTheorems, SequenceTheorems, WellFoundedInduction, TLAPS

ProgressState ==
  [status: {"none", "in-progress", "complete"}, cursor: Nat, seen: Nat, rows: SUBSET Cids]

CaptureTypeOK ==
  /\ lake \subseteq Cids /\ early \subseteq lake /\ early \subseteq cut /\ cut \subseteq Cids
  /\ progress \in [Walks -> ProgressState]
  /\ partial \in [Walks -> (SUBSET Cids) \cup {None}]
  /\ output \in [Walks -> (SUBSET Cids) \cup {None}]
  /\ walk \in Walks /\ next \in ProgressState /\ more \in BOOLEAN

\* A checkpoint has every row of the cutoff up to the last block it has seen,
\* and no other rows.
Passed(p) ==
  /\ p.rows \subseteq cut
  /\ p.cursor \in {0, p.seen}
  /\ \A c \in early : c =< p.seen => c \in p.rows

\* What a walk knows where it is.
WalkInv ==
  /\ \A w \in Walks : Passed(progress[w])
  /\ \A w \in Walks : progress[w].status = "none" => progress[w] = NoProgress
  /\ \A w \in Walks : partial[w] # None => partial[w] \subseteq cut
  /\ at = "create" => partial[walk] = {} /\ progress[walk].status = "none"
  /\ at = "page" => partial[walk] = progress[walk].rows
  /\ at = "save" => /\ Passed(next) /\ next.status = "in-progress"
                    /\ partial[walk] = next.rows
                    /\ more \/ \A c \in early : c =< next.seen
  /\ at = "superset" => partial[walk] # None /\ early \subseteq partial[walk]
  /\ at \in {"publish", "ok"} => output[walk] # None

CaptureInv == CaptureTypeOK /\ WalkInv /\ WalkIsExact
-----------------------------------------------------------------------------
(* A page of the listing                                                    *)

\* A finite set of blocks has a last one.
LEMMA LastExists ==
  ASSUME NEW P \in SUBSET Nat, IsFiniteSet(P), P # {}
  PROVE  \E c \in P : \A d \in P : d =< c
<1> DEFINE After(c) == {d \in P : d > c}
           k(c) == Cardinality(After(c))
           T == {k(c) : c \in P}
<1>1. \A c \in P : IsFiniteSet(After(c)) /\ k(c) \in Nat
  BY FS_Subset, FS_CardinalityType
<1>2. T \subseteq Nat /\ T # {}
  BY <1>1
<1> HIDE DEF T
<1>3. PICK n \in T : \A m \in T : ~(<<m, n>> \in OpToRel(<, Nat))
  BY <1>2, NatLessThanWellFounded, WFMin
<1>4. \A m \in T : ~(m < n)
  BY <1>2, <1>3 DEF OpToRel
<1>5. PICK c \in P : n = k(c)
  BY DEF T
<1>6. ASSUME NEW d \in P, d > c PROVE FALSE
  <2>1. After(d) \in SUBSET After(c) /\ After(d) # After(c)
    <3>1. \A e \in P : e > d => e > c
      BY <1>6
    <3>2. d \in After(c) /\ d \notin After(d)
      BY <1>6
    <3> QED
      BY <3>1, <3>2
  <2>2. k(d) =< k(c) /\ k(d) # k(c)
    BY <1>1, <2>1, FS_Subset
  <2>3. k(d) \in T
    BY <1>6 DEF T
  <2> QED
    BY <1>1, <1>4, <1>5, <2>2, <2>3, <1>6
<1> QED
  BY <1>6

LEMMA PageCovers ==
  ASSUME CaptureTypeOK, Page # {}
  PROVE  /\ LastOf(Page) \in Page /\ Page \subseteq lake
         /\ \A c \in Page : c =< LastOf(Page)
         /\ \A c \in lake : c > progress[walk].cursor /\ c =< LastOf(Page) => c \in Page
<1> DEFINE cursor == progress[walk].cursor
           Upto(c) == {d \in lake : cursor < d /\ d =< c}
<1>1. /\ cursor \in Nat /\ lake \subseteq Nat /\ IsFiniteSet(lake)
      /\ Page = {c \in lake : c > cursor /\ Cardinality(Upto(c)) =< PageSize}
  BY CaptureAssumption, FS_Subset DEF CaptureTypeOK, ProgressState, Page, PageAfter
<1>2. IsFiniteSet(Page) /\ Page \in SUBSET Nat
  BY <1>1, FS_Subset
<1>3. LastOf(Page) \in Page /\ \A c \in Page : c =< LastOf(Page)
  BY <1>2, LastExists DEF LastOf
<1>4. ASSUME NEW c \in lake, c > cursor, c =< LastOf(Page) PROVE c \in Page
  <2> DEFINE last == LastOf(Page)
  <2>1. last \in lake /\ Cardinality(Upto(last)) =< PageSize
    BY <1>1, <1>3
  <2>2. Upto(c) \in SUBSET Upto(last) /\ IsFiniteSet(Upto(last))
    <3>0. last \in Nat /\ c \in Nat /\ c =< last /\ lake \subseteq Nat
      BY <1>1, <1>4, <2>1
    <3> HIDE DEF last
    <3>1. \A d \in lake : d =< c => d =< last
      BY <3>0
    <3>2. Upto(last) \in SUBSET lake
      OBVIOUS
    <3> QED
      BY <1>1, <3>1, <3>2, FS_Subset
  <2>3. /\ Cardinality(Upto(c)) =< Cardinality(Upto(last))
        /\ Cardinality(Upto(c)) \in Nat /\ Cardinality(Upto(last)) \in Nat
    BY <2>2, FS_Subset, FS_CardinalityType
  <2>4. Cardinality(Upto(c)) =< PageSize
    BY <2>1, <2>3, CaptureAssumption
  <2> QED
    BY <1>1, <1>4, <2>4
<1> QED
  BY <1>1, <1>3, <1>4

-----------------------------------------------------------------------------
(* The walk                                                                 *)

LEMMA NoProgressTyped == NoProgress \in ProgressState
  BY DEF NoProgress, ProgressState

LEMMA FirstProgress ==
  [NoProgress EXCEPT !.status = "in-progress"] =
    [status |-> "in-progress", cursor |-> 0, seen |-> 0, rows |-> {}]
  BY DEF NoProgress

LEMMA CreateProgressKeepsCapture == ASSUME CaptureInv, CreateProgress PROVE CaptureInv'
<1> USE CaptureAssumption
<1> DEFINE p == [progress[walk] EXCEPT !.status = "in-progress"]
<1>1. /\ at = "create" /\ at' = "page" /\ progress' = [progress EXCEPT ![walk] = p]
      /\ UNCHANGED <<lake, recent, fresh, early, cut, partial, output, walk, next, more>>
  BY DEF CreateProgress, Go, lakeVars
<1>2. CaptureTypeOK /\ WalkInv /\ WalkIsExact
  BY DEF CaptureInv
<1>3. /\ progress[walk] = NoProgress /\ partial[walk] = {} /\ walk \in Walks
      /\ progress \in [Walks -> ProgressState] /\ early \subseteq Nat \ {0}
  BY <1>1, <1>2 DEF WalkInv, CaptureTypeOK
<1>4. p = [status |-> "in-progress", cursor |-> 0, seen |-> 0, rows |-> {}]
  BY <1>3, FirstProgress
<1> HIDE DEF p
<1>5. p \in ProgressState /\ p.status = "in-progress" /\ p.rows = {} /\ Passed(p)
  <2>1. \A c \in early : ~(c =< 0)
    BY <1>3
  <2> QED
    BY <1>4, <2>1 DEF ProgressState, Passed
<1>6. CaptureTypeOK'
  BY <1>1, <1>2, <1>3, <1>5 DEF CaptureTypeOK
<1>7. \A w \in Walks : progress'[w] = IF w = walk THEN p ELSE progress[w]
  BY <1>1, <1>3
<1>8. WalkInv'
  <2>1. \A w \in Walks : Passed(progress[w])'
    BY <1>1, <1>2, <1>5, <1>7 DEF WalkInv, Passed
  <2>2. \A w \in Walks : progress'[w].status = "none" => progress'[w] = NoProgress
    BY <1>2, <1>5, <1>7 DEF WalkInv
  <2>3. partial'[walk'] = progress'[walk'].rows
    BY <1>1, <1>3, <1>5, <1>7
  <2> QED
    BY <1>1, <1>2, <2>1, <2>2, <2>3 DEF WalkInv
<1> QED
  BY <1>1, <1>2, <1>6, <1>8 DEF CaptureInv, WalkIsExact

LEMMA FirstStepsKeepCapture ==
  ASSUME CaptureInv,
         \/ CreatePartial \/ CreateProgress \/ RefusePartial \/ ResumeWalk \/ ReopenOutput
         \/ RefuseOrder \/ RefuseSubset
  PROVE  CaptureInv'
<1> USE CaptureAssumption
<1> USE DEF CaptureInv, CaptureTypeOK, WalkInv, WalkIsExact, Go, lakeVars, Passed
<1>1. CASE CreatePartial
  BY <1>1 DEF CreatePartial
<1>2. CASE CreateProgress
  BY <1>2, CreateProgressKeepsCapture
<1>3. CASE RefusePartial \/ RefuseOrder \/ RefuseSubset
  BY <1>3 DEF RefusePartial, RefuseOrder, RefuseSubset
<1>4. CASE ResumeWalk
  <2>1. progress[walk].rows \in SUBSET Cids
    BY DEF ProgressState
  <2> QED
    BY <1>4, <2>1 DEF ResumeWalk
<1>5. CASE ReopenOutput
  BY <1>5 DEF ReopenOutput
<1> QED
  BY <1>1, <1>2, <1>3, <1>4, <1>5

\* A page takes the walk over every block of the cutoff up to its last one; and
\* a block that comes after the last page is too young for the cutoff.
LEMMA FetchKeepsCapture == ASSUME CaptureInv, FetchPage PROVE CaptureInv'
<1> USE CaptureAssumption
<1> DEFINE last == LastOf(Page)
<1>1. /\ at = "page" /\ at' = "save" /\ Page # {} /\ \A c \in Page : c > progress[walk].seen
      /\ partial' = [partial EXCEPT ![walk] = @ \cup (Page \cap early)]
      /\ more' = (\E c \in lake : c > last)
      /\ next' = [status |-> "in-progress", cursor |-> IF more' THEN last ELSE 0, seen |-> last,
                  rows |-> progress[walk].rows \cup (Page \cap early)]
      /\ UNCHANGED <<lakeVars, progress, output, walk>>
  BY DEF FetchPage
<1>2. CaptureTypeOK /\ WalkInv /\ WalkIsExact /\ Page \subseteq lake
      /\ last \in Page /\ (\A c \in Page : c =< last)
      /\ \A c \in lake : c > progress[walk].cursor /\ c =< last => c \in Page
  BY <1>1, PageCovers DEF CaptureInv
<1> HIDE DEF last
<1>3. progress[walk] \in ProgressState /\ last \in Nat /\ early \subseteq Nat
  BY <1>2 DEF CaptureTypeOK
<1>4. /\ partial[walk] = progress[walk].rows /\ progress[walk].rows \subseteq cut
      /\ progress[walk].rows \subseteq Cids
  BY <1>1, <1>2, <1>3 DEF WalkInv, Passed, ProgressState, CaptureTypeOK
<1>5. partial'[walk] = next'.rows /\ next'.rows \subseteq cut /\ next'.rows \subseteq Cids
  BY <1>1, <1>2, <1>4 DEF CaptureTypeOK
<1>6. ASSUME NEW c \in early, c =< last PROVE c \in next'.rows
  <2>1. CASE c =< progress[walk].seen
    BY <1>1, <1>2, <1>6, <2>1 DEF WalkInv, Passed, CaptureTypeOK
  <2>2. CASE c > progress[walk].seen
    <3>1. c > progress[walk].cursor /\ c \in lake
      BY <1>2, <1>3, <2>2 DEF WalkInv, Passed, CaptureTypeOK, ProgressState
    <3> QED
      BY <1>1, <1>2, <1>6, <3>1
  <2> QED
    BY <1>3, <2>1, <2>2 DEF ProgressState
<1>7. Passed(next)'
  BY <1>1, <1>5, <1>6 DEF Passed, lakeVars
<1>8. more' \/ \A c \in early : c =< next'.seen
  BY <1>1, <1>2, <1>3 DEF CaptureTypeOK
<1>9. next' \in ProgressState /\ more' \in BOOLEAN
  BY <1>1, <1>3, <1>5 DEF ProgressState
<1>10. CaptureTypeOK'
  BY <1>1, <1>2, <1>5, <1>9 DEF CaptureTypeOK, lakeVars
<1>11. WalkInv'
  BY <1>1, <1>2, <1>5, <1>7, <1>8 DEF WalkInv, CaptureTypeOK, Passed, lakeVars
<1> QED
  BY <1>1, <1>2, <1>10, <1>11 DEF CaptureInv, WalkIsExact, lakeVars

LEMMA LastStepsKeepCapture ==
  ASSUME CaptureInv, SavePage \/ RenameOutput \/ Publish
  PROVE  CaptureInv'
<1> USE CaptureAssumption
<1>0. CaptureTypeOK /\ WalkInv /\ WalkIsExact
  BY DEF CaptureInv
<1>1. CASE SavePage
  <2>1. /\ at = "save" /\ progress' = [progress EXCEPT ![walk] = next]
        /\ at' = IF more THEN "page" ELSE "superset"
        /\ next' = NoProgress /\ more' = FALSE
        /\ UNCHANGED <<lake, early, cut, partial, output, walk>>
    BY <1>1 DEF SavePage, lakeVars
  <2>2. CaptureTypeOK'
    BY <1>0, <2>1, NoProgressTyped DEF CaptureTypeOK
  <2>3. next.rows \in SUBSET Cids
    BY <1>0 DEF CaptureTypeOK, ProgressState
  <2>4. partial[walk] = next.rows /\ Passed(next) /\ next.status = "in-progress"
    <3>1. at = "save"
      BY <2>1
    <3> QED
      BY <1>0, <3>1, Zenon DEF WalkInv
  <2>5. ~more => early \subseteq partial[walk]
    BY <1>0, <2>1, <2>4 DEF WalkInv, Passed
  <2>6. partial[walk] # None
    BY <2>3, <2>4
  <2>7. \A w \in Walks : Passed(progress[w])'
    BY <1>0, <2>1, <2>4 DEF Passed, WalkInv, CaptureTypeOK
  <2>8. WalkInv'
    BY <1>0, <2>1, <2>4, <2>5, <2>6, <2>7 DEF WalkInv, CaptureTypeOK
  <2> QED
    BY <1>0, <2>1, <2>2, <2>8 DEF CaptureInv, WalkIsExact
<1>2. CASE RenameOutput
  <2>1. /\ at = "superset" /\ at' = "publish"
        /\ output' = [output EXCEPT ![walk] = partial[walk]]
        /\ partial' = [partial EXCEPT ![walk] = None]
        /\ UNCHANGED <<lake, early, cut, progress, walk, next, more>>
    BY <1>2 DEF RenameOutput, lakeVars, Go
  <2>2. /\ partial[walk] # None /\ early \subseteq partial[walk] /\ partial[walk] \subseteq cut
        /\ walk \in Walks
    BY <1>0, <2>1 DEF WalkInv, CaptureTypeOK
  <2>3. CaptureTypeOK'
    <3>1. partial[walk] \in SUBSET Cids
      BY <1>0, <2>2 DEF CaptureTypeOK
    <3>2. /\ output' \in [Walks -> (SUBSET Cids) \cup {None}]
          /\ partial' \in [Walks -> (SUBSET Cids) \cup {None}]
      BY <1>0, <2>1, <3>1 DEF CaptureTypeOK
    <3> QED
      BY <1>0, <2>1, <3>2 DEF CaptureTypeOK
  <2>4. WalkIsExact'
    BY <1>0, <2>1, <2>2 DEF WalkIsExact, CaptureTypeOK
  <2>5. WalkInv'
    BY <1>0, <2>1, <2>2 DEF WalkInv, Passed, CaptureTypeOK
  <2> QED
    BY <2>3, <2>4, <2>5 DEF CaptureInv
<1>3. CASE Publish
  <2>1. progress' = [progress EXCEPT ![walk] = [@ EXCEPT !.status = "complete"]]
    BY <1>3 DEF Publish
  <2> DEFINE p == [progress[walk] EXCEPT !.status = "complete"]
  <2>2. /\ p \in ProgressState /\ p.status = "complete"
        /\ p.rows = progress[walk].rows /\ p.cursor = progress[walk].cursor
        /\ p.seen = progress[walk].seen
    BY <1>0 DEF ProgressState, CaptureTypeOK
  <2> HIDE DEF p
  <2>3. progress' = [progress EXCEPT ![walk] = p]
    BY <2>1 DEF p
  <2>4. CaptureTypeOK'
    BY <1>0, <1>3, <2>2, <2>3 DEF Publish, CaptureTypeOK, Go, lakeVars
  <2>5. WalkInv' /\ WalkIsExact'
    BY <1>0, <1>3, <2>2, <2>3
       DEF Publish, Passed, WalkInv, WalkIsExact, CaptureTypeOK, Go, lakeVars
  <2> QED
    BY <2>4, <2>5 DEF CaptureInv
<1> QED
  BY <1>1, <1>2, <1>3

-----------------------------------------------------------------------------
(* What happens around a walk                                               *)

LEMMA LakeKeepsCapture == ASSUME CaptureInv, Lake PROVE CaptureInv'
<1> USE CaptureAssumption DEF CaptureInv, CaptureTypeOK, WalkInv, WalkIsExact, Passed
<1>1. /\ lake' \subseteq Cids /\ lake \subseteq lake'
      /\ early' \subseteq early
      /\ UNCHANGED <<cut, progress, partial, output, walk, at, next, more>>
  BY DEF Lake, Upload, UploadAgain, Age, walker
<1> QED
  BY <1>1

LEMMA NoWalkerKeepsCapture ==
  ASSUME CaptureInv, NoWalker, UNCHANGED <<lakeVars, progress, partial, output>>
  PROVE  CaptureInv'
<1>1. NoProgress \in ProgressState
  BY NoProgressTyped
<1> QED
  BY <1>1 DEF CaptureInv, CaptureTypeOK, WalkInv, WalkIsExact, Passed, NoWalker, lakeVars, Walks

LEMMA OpenKeepsCapture ==
  ASSUME CaptureInv, walk' \in Walks, at' = "open",
         UNCHANGED <<lakeVars, progress, partial, output, next, more>>
  PROVE  CaptureInv'
  BY DEF CaptureInv, CaptureTypeOK, WalkInv, WalkIsExact, Passed, lakeVars

\* Nothing is captured yet.
Fresh == \A w \in Walks : progress[w] = NoProgress /\ partial[w] = None /\ output[w] = None

\* A new cutoff before the first walk, and the files of a new run.
LEMMA CutKeepsCapture ==
  ASSUME CaptureInv, at = "none", Fresh', early' \subseteq lake, cut' = early',
         progress' = [w \in Walks |-> NoProgress] \/ UNCHANGED progress,
         partial' = [w \in Walks |-> None] \/ UNCHANGED partial,
         output' = [w \in Walks |-> None] \/ UNCHANGED output,
         UNCHANGED <<lake, walker>>
  PROVE  CaptureInv'
<1> USE CaptureAssumption
<1>1. CaptureTypeOK'
  BY NoProgressTyped DEF CaptureInv, CaptureTypeOK, walker
<1>2. \A c \in early' : ~(c =< 0)
  BY DEF CaptureInv, CaptureTypeOK
<1>3. \A w \in Walks : Passed(progress[w])'
  BY <1>2 DEF Passed, Fresh, NoProgress
<1>4. WalkInv' /\ WalkIsExact'
  BY <1>3 DEF WalkInv, WalkIsExact, Fresh, NoProgress, walker
<1> QED
  BY <1>1, <1>4 DEF CaptureInv

-----------------------------------------------------------------------------
(* The cycle                                                                *)

RowsUpTo(L, n) == UNION {L[i].rows : i \in 1 .. n}

Extends(L, M) == Len(L) =< Len(M) /\ \A i \in 1 .. Len(L) : M[i] = L[i]

\* A record with the fields of cycle-state.json.
IsRun(r) ==
  r = [done |-> r.done, cutoff |-> r.cutoff, epoch |-> r.epoch, prev |-> r.prev,
       inv |-> r.inv, manifest |-> r.manifest, log |-> r.log]

\* What a run knows when so many of its steps are done, of the log L, what the
\* hosts hold and have pinned, the marks, the resolved log and the capture.
KnownAt(r, L, held, docs, done, res, out) ==
  /\ IsRun(r) /\ r.done \in 0 .. 13 /\ r.cutoff \in BOOLEAN
  /\ r.done >= 1 => r.epoch \in 1 .. Len(L) /\ r.prev = L[r.epoch]
  /\ r.done >= 2 => done = Walks
  /\ r.done = 4 => UNION Range(res) = RowsUpTo(L, r.epoch)
  /\ r.done >= 5 => r.inv = out \ RowsUpTo(L, r.epoch)
  /\ r.done >= 6 => r.inv \subseteq held["xavier"]
  /\ r.done >= 7 => r.inv \subseteq held["jacob"]
  /\ r.done >= 8 => Inventory(r.inv) \in docs
  /\ r.done >= 9 => /\ r.manifest.epoch = r.epoch /\ r.manifest.prev = r.prev
                    /\ r.manifest.rows = r.inv /\ r.manifest \in docs
  /\ r.done >= 12 => out \subseteq RowsUpTo(L, Len(L))

\* A manifest that may become the record of its epoch.
ReadyAt(m, L, held, docs) ==
  /\ m.epoch \in 1 .. Len(L) /\ m.prev = L[m.epoch]
  /\ m.rows # {} /\ m.rows \subseteq Cids /\ m.rows \cap RowsUpTo(L, m.epoch) = {}
  /\ \A h \in Hosts : m.rows \subseteq held[h]
  /\ {m, Inventory(m.rows)} \subseteq docs

LogInv ==
  /\ \E S : log \in Seq(S)
  /\ Len(log) >= 1 /\ log[1].rows = Base
  /\ \A i \in 2 .. Len(log) :
       /\ log[i].epoch = i - 1 /\ log[i].prev = log[i - 1]
       /\ log[i].rows # {} /\ log[i].rows \cap RowsUpTo(log, i - 1) = {}
  /\ CommittedIsInCustody
  /\ drill = "none" => \A i \in 1 .. Len(log) : log[i].rows \subseteq Cids
  /\ custody = [h \in Hosts |-> custody[h]]

PendingInv == \A m \in pending : ReadyAt(m, log, custody, added)

Knows(r) == KnownAt(r, log, custody, added, marks, resolved, output["a"])

NextRun == [s EXCEPT !.done = @ + 1]

\* A run that goes on is not finished; what it has returned and not saved is
\* known with it.
PlaceInv ==
  /\ Knows(state)
  /\ pc = "save" => /\ IsRun(s) /\ s.done = state.done /\ s.cutoff = state.cutoff
                    /\ Knows(NextRun)
  /\ pc \notin {"idle", "save"} => s = state
  /\ pc # "idle" => ~Finished
  /\ pc \in {"idle", "step", "save", "walk", "diff", "submitted", "check", "restart", "health"}
  /\ pc = "walk" => state.done = 1
  /\ pc = "diff" => state.done = 2
  /\ pc = "submitted" => state.done = 9
  /\ pc = "check" => state.done = 11
  /\ pc \in {"restart", "health"} => state.done = 12

\* The captures belong to the second step of a run with a cutoff.
MarkInv ==
  /\ marks \subseteq Walks /\ \A w \in marks : output[w] # None
  /\ ~state.cutoff => Fresh /\ at = "none" /\ marks = {}
  /\ at # "none" => marks # Walks /\ state.done = 1 /\ state.cutoff

EpochInv == CaptureInv /\ LogInv /\ PendingInv /\ PlaceInv /\ MarkInv
-----------------------------------------------------------------------------
LEMMA ExtendedRows ==
  ASSUME NEW L, NEW M, Len(L) \in Nat, Len(M) \in Nat, Extends(L, M)
  PROVE  /\ \A n \in 0 .. Len(L) : RowsUpTo(M, n) = RowsUpTo(L, n)
         /\ RowsUpTo(L, Len(L)) \subseteq RowsUpTo(M, Len(M))
<1>1. ASSUME NEW n \in 0 .. Len(L) PROVE RowsUpTo(M, n) = RowsUpTo(L, n)
  <2>1. \A i \in 1 .. n : M[i] = L[i]
    BY DEF Extends
  <2> QED
    BY <2>1 DEF RowsUpTo
<1>2. RowsUpTo(M, Len(L)) \subseteq RowsUpTo(M, Len(M))
  <2>1. 1 .. Len(L) \subseteq 1 .. Len(M)
    BY DEF Extends
  <2> QED
    BY <2>1 DEF RowsUpTo
<1> QED
  BY <1>1, <1>2

\* What a run knows survives a log, custody and documents that grow.
LEMMA KnownStays ==
  ASSUME NEW r, NEW L, NEW M, NEW held, NEW kept, NEW docs, NEW all, NEW done, NEW marked,
         NEW res, NEW known, NEW out, NEW in,
         Len(L) \in Nat, Len(M) \in Nat, Extends(L, M),
         \A h \in Hosts : held[h] \subseteq kept[h], docs \subseteq all,
         known = res \/ r.done # 4,
         (marked = done /\ in = out) \/ r.done =< 1,
         KnownAt(r, L, held, docs, done, res, out)
  PROVE  KnownAt(r, M, kept, all, marked, known, in)
<1>1. IsRun(r) /\ r.done \in 0 .. 13 /\ r.cutoff \in BOOLEAN
  BY DEF KnownAt
<1>2. r.done >= 1 => /\ r.epoch \in 1 .. Len(M) /\ r.prev = M[r.epoch]
                    /\ RowsUpTo(M, r.epoch) = RowsUpTo(L, r.epoch)
  <2> SUFFICES ASSUME r.done >= 1
               PROVE  /\ r.epoch \in 1 .. Len(M) /\ r.prev = M[r.epoch]
                      /\ RowsUpTo(M, r.epoch) = RowsUpTo(L, r.epoch)
    OBVIOUS
  <2>1. r.epoch \in 1 .. Len(L) /\ r.prev = L[r.epoch]
    BY DEF KnownAt
  <2> QED
    BY <2>1, ExtendedRows DEF Extends
<1>3. RowsUpTo(L, Len(L)) \subseteq RowsUpTo(M, Len(M))
  BY ExtendedRows
<1>4. /\ r.done >= 2 => marked = Walks
      /\ r.done = 4 => UNION Range(known) = RowsUpTo(M, r.epoch)
      /\ r.done >= 5 => r.inv = in \ RowsUpTo(M, r.epoch)
  BY <1>1, <1>2 DEF KnownAt
<1>5. /\ r.done >= 6 => r.inv \subseteq kept["xavier"]
      /\ r.done >= 7 => r.inv \subseteq kept["jacob"]
      /\ r.done >= 8 => Inventory(r.inv) \in all
  BY <1>1 DEF KnownAt, Hosts
<1>6. r.done >= 9 => /\ r.manifest.epoch = r.epoch /\ r.manifest.prev = r.prev
                    /\ r.manifest.rows = r.inv /\ r.manifest \in all
  BY <1>1 DEF KnownAt
<1>7. r.done >= 12 => in \subseteq RowsUpTo(M, Len(M))
  BY <1>1, <1>3 DEF KnownAt
<1> QED
  BY <1>1, <1>2, <1>4, <1>5, <1>6, <1>7 DEF KnownAt

LEMMA ReadyStays ==
  ASSUME NEW m, NEW L, NEW M, NEW held, NEW kept, NEW docs, NEW all,
         Len(L) \in Nat, Len(M) \in Nat, Extends(L, M),
         \A h \in Hosts : held[h] \subseteq kept[h], docs \subseteq all,
         ReadyAt(m, L, held, docs)
  PROVE  ReadyAt(m, M, kept, all)
<1>1. m.epoch \in 1 .. Len(L) /\ RowsUpTo(M, m.epoch) = RowsUpTo(L, m.epoch)
  BY ExtendedRows DEF ReadyAt
<1> QED
  BY <1>1 DEF ReadyAt, Extends

\* The other fields of a run after an update of one.
SameBut(q, r, fields) ==
  /\ IsRun(q)
  /\ "done" \notin fields => q.done = r.done
  /\ "cutoff" \notin fields => q.cutoff = r.cutoff
  /\ "head" \notin fields => q.epoch = r.epoch /\ q.prev = r.prev
  /\ "inv" \notin fields => q.inv = r.inv
  /\ "manifest" \notin fields => q.manifest = r.manifest

LEMMA UpdateDone ==
  ASSUME NEW r, IsRun(r), NEW x
  PROVE  LET q == [r EXCEPT !.done = x] IN SameBut(q, r, {"done"}) /\ q.done = x
  BY DEF IsRun, SameBut

LEMMA UpdateCutoff ==
  ASSUME NEW r, IsRun(r), NEW x
  PROVE  LET q == [r EXCEPT !.cutoff = x] IN SameBut(q, r, {"cutoff"}) /\ q.cutoff = x
  BY DEF IsRun, SameBut

LEMMA UpdateHead ==
  ASSUME IsRun(s), StepHead
  PROVE  SameBut(s', s, {"head"}) /\ s'.epoch = Len(log) /\ s'.prev = Tip
<1>1. DOMAIN s = {"done", "cutoff", "epoch", "prev", "inv", "manifest", "log"}
  BY DEF IsRun
<1>2. s' = [s EXCEPT !.epoch = Len(log), !.prev = Tip]
  BY DEF StepHead, Return
<1>3. s' = [i \in DOMAIN s |->
              IF i = "prev" THEN Tip ELSE IF i = "epoch" THEN Len(log) ELSE s[i]]
  BY <1>2
<1>4. /\ s'.epoch = Len(log) /\ s'.prev = Tip /\ s'.done = s.done /\ s'.cutoff = s.cutoff
      /\ s'.inv = s.inv /\ s'.manifest = s.manifest /\ s'.log = s.log
  BY <1>1, <1>3
<1>5. IsRun(s')
  BY <1>1, <1>3, <1>4 DEF IsRun
<1> QED
  BY <1>4, <1>5 DEF SameBut

LEMMA UpdateInv ==
  ASSUME NEW r, IsRun(r), NEW x
  PROVE  LET q == [r EXCEPT !.inv = x] IN SameBut(q, r, {"inv"}) /\ q.inv = x
  BY DEF IsRun, SameBut

LEMMA UpdateManifest ==
  ASSUME NEW r, IsRun(r), NEW x
  PROVE  LET q == [r EXCEPT !.manifest = x] IN SameBut(q, r, {"manifest"}) /\ q.manifest = x
  BY DEF IsRun, SameBut

LEMMA UpdateLog ==
  ASSUME NEW r, IsRun(r), NEW x
  PROVE  LET q == [r EXCEPT !.log = x] IN SameBut(q, r, {})
  BY DEF IsRun, SameBut

LEMMA StepsInOrder ==
  ASSUME NEW d \in 0 .. 12
  PROVE  /\ Steps[d + 1] = "head" => d = 0
         /\ Steps[d + 1] = "capture" => d = 1
         /\ Steps[d + 1] = "diff" => d = 2
         /\ Steps[d + 1] = "resolve" => d = 3
         /\ Steps[d + 1] = "delta" => d = 4
         /\ Steps[d + 1] = "xavier" => d = 5
         /\ Steps[d + 1] = "jacob" => d = 6
         /\ Steps[d + 1] = "cids" => d = 7
         /\ Steps[d + 1] = "manifest" => d = 8
         /\ Steps[d + 1] = "submit" => d = 9
         /\ Steps[d + 1] = "bundle" => d = 10
         /\ Steps[d + 1] = "check" => d = 11
         /\ Steps[d + 1] = "reader" => d = 12
<1>1. \/ d = 0 \/ d = 1 \/ d = 2 \/ d = 3 \/ d = 4 \/ d = 5 \/ d = 6
      \/ d = 7 \/ d = 8 \/ d = 9 \/ d = 10 \/ d = 11 \/ d = 12
  OBVIOUS
<1> QED
  BY <1>1 DEF Steps

\* Everything stays but custody, the documents, the resolved log where it is
\* not in use, and submissions of records that are ready.
Kept ==
  /\ UNCHANGED <<captureVars, state, marks, log, drill>>
  /\ custody' = [h \in Hosts |-> custody'[h]]
  /\ \A h \in Hosts : custody[h] \subseteq custody'[h]
  /\ added \subseteq added'
  /\ resolved' = resolved \/ state.done # 4
  /\ \A m \in pending' : m \in pending \/ ReadyAt(m, log, custody, added)

LEMMA KeptInv ==
  ASSUME EpochInv, Kept
  PROVE  CaptureInv' /\ LogInv' /\ PendingInv' /\ MarkInv' /\ Knows(state)' /\ (Finished' <=> Finished)
<1> USE DEF Kept
<1>0. CaptureInv /\ LogInv /\ PendingInv /\ MarkInv /\ Knows(state)
  BY DEF EpochInv, PlaceInv
<1>1. Len(log) \in Nat /\ Extends(log, log)
  BY <1>0 DEF LogInv, Extends
<1>2. CaptureInv'
  BY <1>0 DEF CaptureInv, CaptureTypeOK, WalkInv, WalkIsExact, Passed, captureVars, lakeVars, walker
<1>3. LogInv'
  BY <1>0 DEF LogInv, CommittedIsInCustody, captureVars
<1>4. PendingInv'
  <2> SUFFICES ASSUME NEW m \in pending' PROVE ReadyAt(m, log, custody', added')
    BY DEF PendingInv
  <2>1. ReadyAt(m, log, custody, added)
    BY <1>0 DEF PendingInv
  <2> QED
    BY <1>1, <2>1, ReadyStays
<1>5. MarkInv'
  BY <1>0 DEF MarkInv, Fresh, captureVars, walker
<1>6. Knows(state)'
  <2>1. output' = output /\ marks' = marks /\ state' = state
    BY DEF captureVars
  <2>2. KnownAt(state, log, custody', added', marks', resolved', output'["a"])
    BY <1>0, <1>1, <2>1, KnownStays DEF Knows
  <2> QED
    BY <2>1, <2>2 DEF Knows
<1>7. Finished' <=> Finished
  BY DEF Finished
<1> QED
  BY <1>2, <1>3, <1>4, <1>5, <1>6, <1>7

LEMMA ExitKeeps == ASSUME EpochInv, Kept, pc' = "idle" PROVE EpochInv'
  BY KeptInv DEF EpochInv, PlaceInv

\* The step goes on.
LEMMA PlaceKeeps ==
  ASSUME EpochInv, Kept, s' = state, ~Finished,
         pc' \in {"diff", "submitted", "check", "restart", "health"},
         pc' = "diff" => state.done = 2, pc' = "submitted" => state.done = 9,
         pc' = "check" => state.done = 11, pc' \in {"restart", "health"} => state.done = 12
  PROVE  EpochInv'
<1>1. state' = state
  BY DEF Kept
<1> QED
  BY <1>1, KeptInv DEF EpochInv, PlaceInv

LEMMA ReturnKeeps ==
  ASSUME EpochInv, Kept, ~Finished, pc' = "save", IsRun(s'), s'.done = state.done,
         s'.cutoff = state.cutoff, Knows(NextRun)'
  PROVE  EpochInv'
<1>1. state' = state
  BY DEF Kept
<1> QED
  BY <1>1, KeptInv DEF EpochInv, PlaceInv

LEMMA NextRunIs ==
  /\ IsRun(s) => SameBut(NextRun, s, {"done"}) /\ NextRun.done = s.done + 1
  /\ IsRun(s') => SameBut(NextRun', s', {"done"}) /\ NextRun'.done = s'.done + 1
<1>1. IsRun(s) => SameBut(NextRun, s, {"done"}) /\ NextRun.done = s.done + 1
  BY UpdateDone DEF NextRun
<1>2. IsRun(s') => SameBut(NextRun', s', {"done"}) /\ NextRun'.done = s'.done + 1
  BY UpdateDone DEF NextRun
<1> QED
  BY <1>1, <1>2

\* A run at a step is where its state file is.
LEMMA AtStep ==
  ASSUME EpochInv, pc \notin {"idle", "save"}
  PROVE  /\ s = state /\ IsRun(state) /\ state.done \in 0 .. 12 /\ ~Finished
         /\ state.done >= 5 => state.inv # {}
<1>1. s = state /\ ~Finished /\ state.done \in 0 .. 13 /\ IsRun(state)
  BY DEF EpochInv, PlaceInv, Knows, KnownAt
<1>2. state.done # 13
  BY <1>1 DEF Finished, Steps
<1> QED
  BY <1>1, <1>2 DEF Finished

\* Each step is the next one of its run.
LEMMA StepOf ==
  ASSUME EpochInv
  PROVE  /\ At("head") => state.done = 0
         /\ At("capture") => state.done = 1
         /\ At("diff") => state.done = 2
         /\ At("resolve") => state.done = 3
         /\ At("delta") => state.done = 4
         /\ At("xavier") => state.done = 5
         /\ At("jacob") => state.done = 6
         /\ At("cids") => state.done = 7
         /\ At("manifest") => state.done = 8
         /\ At("submit") => state.done = 9
         /\ At("bundle") => state.done = 10
         /\ At("check") => state.done = 11
         /\ At("reader") => state.done = 12
<1> SUFFICES ASSUME pc = "step" PROVE \A d \in 0 .. 12 : state.done = d \/ Steps[s.done + 1] # Steps[d + 1]
  BY DEF At, Steps
<1>1. s = state /\ state.done \in 0 .. 12
  BY AtStep
<1> QED
  BY <1>1, StepsInOrder DEF Steps

LEMMA LogRows ==
  ASSUME LogInv
  PROVE  /\ UNION Range(Inventories(log)) = RowsUpTo(log, Len(log))
         /\ Rows(log) = RowsUpTo(log, Len(log))
<1>1. DOMAIN log = 1 .. Len(log)
  BY DEF LogInv
<1> QED
  BY <1>1 DEF Range, Inventories, Rows, RowsUpTo

-----------------------------------------------------------------------------
(* The steps                                                                *)

LEMMA StaysKept ==
  ASSUME EpochInv, UNCHANGED <<captureVars, state, marks, log, drill>>,
         UNCHANGED <<custody, pending>>, added \subseteq added',
         resolved' = resolved \/ state.done # 4
  PROVE  Kept
  BY DEF EpochInv, LogInv, Kept

LEMMA FirstStepsKeepInv ==
  ASSUME EpochInv,
         StepHead \/ StepCapture \/ WriteReceipt \/ StepDiff \/ StepResolve \/ StepDelta
  PROVE  EpochInv'
<1>0. /\ pc \notin {"idle", "save"} /\ UNCHANGED <<captureVars, state, marks, log, drill>>
      /\ UNCHANGED <<custody, pending, added>> /\ pc' = "save"
  BY DEF StepHead, StepCapture, WriteReceipt, StepDiff, StepResolve, StepDelta, At, Return,
         dir, remote
<1>1. /\ s = state /\ IsRun(state) /\ state.done \in 0 .. 12 /\ ~Finished
  BY <1>0, AtStep
<1>2. Knows(state) /\ MarkInv /\ LogInv
  BY DEF EpochInv, PlaceInv
<1>3. SUFFICES ASSUME resolved' = resolved \/ state.done # 4
               PROVE  /\ IsRun(s') /\ s'.done = state.done /\ s'.cutoff = state.cutoff
                      /\ Knows(NextRun)'
  <2>1. resolved' = resolved \/ state.done # 4
    BY <1>1, StepOf
       DEF StepHead, StepCapture, WriteReceipt, StepDiff, StepResolve, StepDelta, dir
  <2>2. Kept
    BY <1>0, <2>1, StaysKept
  <2> QED
    BY <1>0, <1>1, <1>3, <2>1, <2>2, ReturnKeeps
<1>4. output' = output /\ marks' = marks /\ custody' = custody /\ added' = added /\ log' = log
  BY <1>0 DEF captureVars
<1> USE NextRunIs
<1>5. CASE StepHead
  <2>1. state.done = 0
    BY <1>5, StepOf DEF StepHead
  <2>2. SameBut(s', s, {"head"}) /\ s'.epoch = Len(log) /\ s'.prev = Tip
    BY <1>1, <1>5, UpdateHead
  <2>3. IsRun(s') /\ s'.done = 0 /\ s'.cutoff = state.cutoff
    BY <1>1, <2>1, <2>2 DEF SameBut
  <2>4. /\ IsRun(NextRun') /\ NextRun'.done = 1 /\ NextRun'.cutoff = state.cutoff
        /\ NextRun'.epoch = Len(log) /\ NextRun'.prev = log[Len(log)]
    BY <2>2, <2>3 DEF SameBut, Tip
  <2>5. Len(log) \in 1 .. Len(log)
    BY <1>2 DEF LogInv
  <2> QED
    BY <1>2, <1>4, <2>1, <2>3, <2>4, <2>5 DEF Knows, KnownAt
<1>6. CASE StepCapture
  <2>1. state.done = 1 /\ marks = Walks /\ s' = s
    BY <1>1, <1>6, StepOf DEF StepCapture, Return
  <2>2. SameBut(NextRun', state, {"done"}) /\ NextRun'.done = 2
    BY <1>1, <2>1
  <2> QED
    BY <1>1, <1>2, <1>4, <2>1, <2>2 DEF Knows, KnownAt, SameBut
<1>7. CASE WriteReceipt \/ StepDiff
  <2>1. state.done = 2 /\ s' = s /\ resolved' = resolved
    <3>1. CASE WriteReceipt
      BY <1>1, <3>1 DEF WriteReceipt, Return, EpochInv, PlaceInv
    <3>2. CASE StepDiff
      BY <1>1, <3>2, StepOf DEF StepDiff, Return, dir
    <3> QED
      BY <1>7, <3>1, <3>2
  <2>2. SameBut(NextRun', state, {"done"}) /\ NextRun'.done = 3
    BY <1>1, <2>1
  <2> QED
    BY <1>1, <1>2, <1>4, <2>1, <2>2 DEF Knows, KnownAt, SameBut
<1>8. CASE StepResolve
  <2>1. state.done = 3 /\ s' = s /\ resolved' = Inventories(log) /\ Len(log) = state.epoch
    BY <1>1, <1>8, StepOf DEF StepResolve, Return
  <2>2. SameBut(NextRun', state, {"done"}) /\ NextRun'.done = 4
    BY <1>1, <2>1
  <2>3. UNION Range(resolved') = RowsUpTo(log, state.epoch)
    BY <1>2, <2>1, LogRows
  <2> QED
    BY <1>1, <1>2, <1>4, <2>1, <2>2, <2>3 DEF Knows, KnownAt, SameBut
<1>9. CASE StepDelta
  <2> DEFINE inv == (output["a"] \ Base) \ UNION Range(resolved)
  <2>1. state.done = 4
    BY <1>9, StepOf DEF StepDelta
  <2>2. SameBut(s', s, {"inv"}) /\ s'.inv = inv
    BY <1>1, <1>9, UpdateInv DEF StepDelta, Return
  <2>3. inv = output["a"] \ RowsUpTo(log, state.epoch)
    <3>1. UNION Range(resolved) = RowsUpTo(log, state.epoch) /\ state.epoch \in 1 .. Len(log)
      BY <1>2, <2>1 DEF Knows, KnownAt
    <3>2. Base \subseteq RowsUpTo(log, state.epoch)
      <4>1. Len(log) \in Nat /\ log[1].rows = Base
        BY <1>2 DEF LogInv
      <4>2. 1 \in 1 .. state.epoch
        BY <3>1, <4>1
      <4> QED
        BY <4>1, <4>2 DEF RowsUpTo
    <3> QED
      BY <3>1, <3>2
  <2> HIDE DEF inv
  <2>4. IsRun(s') /\ s'.done = 4 /\ s'.cutoff = state.cutoff
    BY <1>1, <2>1, <2>2 DEF SameBut
  <2>5. /\ IsRun(NextRun') /\ NextRun'.done = 5 /\ NextRun'.cutoff = state.cutoff
        /\ NextRun'.epoch = state.epoch /\ NextRun'.prev = state.prev /\ NextRun'.inv = inv
    BY <1>1, <2>2, <2>4 DEF SameBut
  <2> QED
    BY <1>2, <1>4, <2>1, <2>3, <2>4, <2>5 DEF Knows, KnownAt
<1> QED
  BY <1>5, <1>6, <1>7, <1>8, <1>9

LEMMA RefusalsKeepInv ==
  ASSUME EpochInv,
         \/ WalkBusy \/ RefuseDiff \/ RefuseResolve \/ RefuseSubmit \/ RefuseMove \/ RefuseCheck
         \/ RestartFails \/ RefuseReader
  PROVE  EpochInv'
<1>1. /\ pc' = "idle" /\ UNCHANGED <<captureVars, state, marks, log, drill>>
      /\ UNCHANGED <<custody, pending, added>>
  BY DEF WalkBusy, RefuseDiff, RefuseResolve, RefuseSubmit, RefuseMove, RefuseCheck, RestartFails,
         RefuseReader, Exit, dir, remote
<1>2. resolved' = resolved \/ state.done # 4
  BY StepOf DEF WalkBusy, RefuseDiff, RefuseResolve, RefuseSubmit, RefuseMove, RefuseCheck,
                RestartFails, RefuseReader, dir, EpochInv, PlaceInv
<1> QED
  BY <1>1, <1>2, StaysKept, ExitKeeps

\* A copy that is incomplete stops the run.
LEMMA CustodyKeepsInv ==
  ASSUME EpochInv, NEW h \in Hosts, StepCustody(h)
  PROVE  EpochInv'
<1>1. PICK copied \in SUBSET s.inv :
        /\ custody' = [custody EXCEPT ![h] = @ \cup copied]
        /\ IF s.inv \subseteq custody'[h] THEN s' = s /\ pc' = "save" ELSE pc' = "idle"
  BY DEF StepCustody, Return, Exit
<1>2. /\ At(h) /\ pc \notin {"idle", "save"}
      /\ UNCHANGED <<captureVars, state, marks, resolved, log, pending, added, drill>>
  BY DEF StepCustody, At, dir
<1>3. s = state /\ IsRun(state) /\ state.done \in 0 .. 12 /\ ~Finished
  BY <1>2, AtStep
<1>4. (h = "xavier" /\ state.done = 5) \/ (h = "jacob" /\ state.done = 6)
  BY <1>2, StepOf DEF Hosts
<1>5. Knows(state) /\ LogInv /\ PendingInv
  BY DEF EpochInv, PlaceInv
<1>6. /\ custody' = [g \in Hosts |-> custody'[g]] /\ custody[h] \cup copied \subseteq custody'[h]
      /\ \A g \in Hosts : custody[g] \subseteq custody'[g]
  BY <1>1, <1>5 DEF LogInv
<1>7. Kept
  BY <1>2, <1>5, <1>6 DEF Kept, PendingInv
<1>8. CASE pc' = "idle"
  BY <1>7, <1>8, ExitKeeps
<1>9. CASE s' = s /\ pc' = "save" /\ s.inv \subseteq custody'[h]
  <2>1. SameBut(NextRun', state, {"done"}) /\ NextRun'.done = state.done + 1
    BY <1>3, <1>9, NextRunIs
  <2>2. Knows(state)' /\ output' = output
    BY <1>2, <1>7, KeptInv DEF captureVars
  <2>3. Knows(NextRun)'
    BY <1>2, <1>3, <1>4, <1>9, <2>1, <2>2 DEF Knows, KnownAt, SameBut
  <2> QED
    BY <1>3, <1>7, <1>9, <2>3, ReturnKeeps
<1> QED
  BY <1>1, <1>8, <1>9

LEMMA DocumentsKeepInv == ASSUME EpochInv, StepCids \/ StepManifest PROVE EpochInv'
<1>1. /\ pc \notin {"idle", "save"} /\ pc' = "save"
      /\ UNCHANGED <<captureVars, state, marks, resolved, log, drill, custody, pending>>
      /\ added \subseteq added'
  BY DEF StepCids, StepManifest, At, Return, dir
<1>2. s = state /\ IsRun(state) /\ IsRun(s) /\ ~Finished
  BY <1>1, AtStep
<1>3. Kept
  BY <1>1, StaysKept
<1>4. Knows(state)' /\ state' = state /\ output' = output
  BY <1>1, <1>3, KeptInv DEF captureVars
<1>5. CASE StepCids
  <2>1. state.done = 7 /\ s' = s /\ Inventory(s.inv) \in added'
    BY <1>5, StepOf DEF StepCids, Return
  <2>2. SameBut(NextRun', state, {"done"}) /\ NextRun'.done = 8
    BY <1>2, <2>1, NextRunIs
  <2>3. Knows(NextRun)'
    BY <1>2, <1>4, <2>1, <2>2 DEF Knows, KnownAt, SameBut
  <2> QED
    BY <1>1, <1>2, <1>3, <2>1, <2>3, ReturnKeeps
<1>6. CASE StepManifest
  <2> DEFINE m == Manifest(s.epoch, s.prev, s.inv)
  <2>1. state.done = 8 /\ s' = [s EXCEPT !.manifest = m] /\ added' = added \cup {s'.manifest}
    BY <1>6, StepOf DEF StepManifest, Return
  <2>2. m.epoch = s.epoch /\ m.prev = s.prev /\ m.rows = s.inv
    BY DEF Manifest
  <2> HIDE DEF m
  <2>3. SameBut(s', s, {"manifest"}) /\ s'.manifest = m
    BY <1>2, <2>1, UpdateManifest
  <2>4. /\ IsRun(s') /\ s'.done = 8 /\ s'.cutoff = s.cutoff
        /\ s'.epoch = s.epoch /\ s'.prev = s.prev /\ s'.inv = s.inv
    BY <1>2, <2>1, <2>3 DEF SameBut
  <2>5. /\ IsRun(NextRun') /\ NextRun'.done = 9 /\ NextRun'.cutoff = s.cutoff
        /\ NextRun'.epoch = s.epoch /\ NextRun'.prev = s.prev /\ NextRun'.inv = s.inv
        /\ NextRun'.manifest = m
    BY <2>3, <2>4, NextRunIs DEF SameBut
  <2>6. Knows(NextRun)'
    BY <1>2, <1>4, <2>1, <2>2, <2>3, <2>5 DEF Knows, KnownAt
  <2> QED
    BY <1>1, <1>2, <1>3, <2>1, <2>4, <2>6, ReturnKeeps
<1> QED
  BY <1>5, <1>6

\* A record that is submitted can become the next epoch wherever it is committed.
LEMMA SubmitKeepsInv == ASSUME EpochInv, Submit PROVE EpochInv'
<1>1. /\ pc \notin {"idle", "save"} /\ pc' = "submitted" /\ s' = s
      /\ pending' = pending \cup {s.manifest}
      /\ UNCHANGED <<captureVars, state, marks, resolved, log, drill, custody, added>>
  BY DEF Submit, At, dir
<1>2. s = state /\ IsRun(state) /\ ~Finished /\ (state.done >= 5 => state.inv # {})
  BY <1>1, AtStep
<1>3. state.done = 9
  BY StepOf DEF Submit, EpochInv, PlaceInv
<1>4. Knows(state) /\ MarkInv /\ CaptureInv /\ LogInv
  BY DEF EpochInv, PlaceInv
<1>5. /\ state.epoch \in 1 .. Len(log) /\ state.prev = log[state.epoch] /\ marks = Walks
      /\ state.inv = output["a"] \ RowsUpTo(log, state.epoch)
      /\ state.inv \subseteq custody["xavier"] /\ state.inv \subseteq custody["jacob"]
      /\ Inventory(state.inv) \in added
      /\ state.manifest.epoch = state.epoch /\ state.manifest.prev = state.prev
      /\ state.manifest.rows = state.inv /\ state.manifest \in added
  BY <1>3, <1>4 DEF Knows, KnownAt
<1>6. output["a"] \subseteq Cids
  BY <1>4, <1>5 DEF MarkInv, CaptureInv, CaptureTypeOK, Walks
<1>7. ReadyAt(state.manifest, log, custody, added)
  BY <1>2, <1>3, <1>5, <1>6 DEF ReadyAt, Hosts
<1>8. Kept
  BY <1>1, <1>2, <1>4, <1>7 DEF Kept, LogInv
<1> QED
  BY <1>1, <1>2, <1>3, <1>8, PlaceKeeps

LEMMA PlacesKeepInv ==
  ASSUME EpochInv, WriteDiff \/ MoveResolved \/ EditReader \/ RestartReader
  PROVE  EpochInv'
<1>1. /\ pc \notin {"idle", "save"} /\ s' = s
      /\ UNCHANGED <<captureVars, state, marks, log, drill, custody, pending, added>>
      /\ \/ pc' = "diff" /\ state.done = 2 /\ resolved' = resolved
         \/ pc' = "check" /\ state.done = 11
         \/ pc' \in {"restart", "health"} /\ state.done = 12 /\ resolved' = resolved
  BY StepOf DEF WriteDiff, MoveResolved, EditReader, RestartReader, At, dir, remote, EpochInv,
                PlaceInv
<1>2. s = state /\ ~Finished
  BY <1>1, AtStep
<1>3. Kept
  BY <1>1, StaysKept
<1> QED
  BY <1>1, <1>2, <1>3, PlaceKeeps

LEMMA LastStepsKeepInv ==
  ASSUME EpochInv, StepSubmit \/ StepBundle \/ StepCheck \/ StepReader
  PROVE  EpochInv'
<1>1. /\ pc \notin {"idle", "save"}
      /\ UNCHANGED <<captureVars, state, marks, log, drill, custody, pending, added>>
  BY DEF StepSubmit, StepBundle, StepCheck, StepReader, AtHealth, At, dir, remote
<1>2. s = state /\ IsRun(state) /\ IsRun(s) /\ ~Finished
  BY <1>1, AtStep
<1>3. /\ StepSubmit => state.done = 9 /\ s' = s /\ pc' = "save" /\ resolved' = resolved
      /\ StepBundle => state.done = 10 /\ s' = s /\ pc' = "save" /\ resolved' = resolved
      /\ StepCheck => state.done = 11 /\ pc' = "save" /\ output["a"] \subseteq Rows(log)
      /\ StepReader => state.done = 12 /\ s' = s /\ pc' = "save" /\ resolved' = resolved
  BY StepOf DEF StepSubmit, StepBundle, StepCheck, StepReader, AtHealth, Return, dir, EpochInv,
                PlaceInv
<1>4. Kept
  BY <1>1, <1>3, StaysKept
<1>5. Knows(state)' /\ state' = state /\ output' = output /\ log' = log
  BY <1>1, <1>4, KeptInv DEF captureVars
<1>6. CASE StepSubmit \/ StepBundle \/ StepReader
  <2>1. SameBut(NextRun', state, {"done"}) /\ NextRun'.done = state.done + 1
    BY <1>2, <1>3, <1>6, NextRunIs
  <2>2. Knows(NextRun)'
    BY <1>2, <1>3, <1>5, <1>6, <2>1 DEF Knows, KnownAt, SameBut
  <2> QED
    BY <1>2, <1>3, <1>4, <1>6, <2>2, ReturnKeeps
<1>7. CASE StepCheck
  <2>1. s' = [s EXCEPT !.log = resolved']
    BY <1>7 DEF StepCheck, Return
  <2>2. SameBut(s', s, {})
    BY <1>2, <2>1, UpdateLog
  <2>3. IsRun(s') /\ s'.done = 11 /\ s'.cutoff = state.cutoff
    BY <1>2, <1>3, <1>7, <2>2 DEF SameBut
  <2>4. SameBut(NextRun', s', {"done"}) /\ NextRun'.done = 12
    BY <2>3, NextRunIs
  <2>5. output["a"] \subseteq RowsUpTo(log, Len(log))
    BY <1>3, <1>7, LogRows DEF EpochInv
  <2>6. Knows(NextRun)'
    BY <1>2, <1>3, <1>5, <1>7, <2>2, <2>4, <2>5 DEF Knows, KnownAt, SameBut
  <2> QED
    BY <1>2, <1>3, <1>4, <1>7, <2>3, <2>6, ReturnKeeps
<1> QED
  BY <1>6, <1>7

-----------------------------------------------------------------------------
(* Starts, saves and stops                                                  *)

LEMMA NewRunIs == IsRun(NewRun) /\ NewRun.done = 0 /\ NewRun.cutoff = FALSE
  BY DEF NewRun, IsRun

\* A run that has done nothing needs to know nothing.
LEMMA NewKnows ==
  ASSUME NEW r, IsRun(r), r.done = 0, r.cutoff \in BOOLEAN,
         NEW L, NEW held, NEW docs, NEW done, NEW res, NEW out
  PROVE  KnownAt(r, L, held, docs, done, res, out)
<1>1. /\ ~(r.done >= 1) /\ ~(r.done >= 2) /\ ~(r.done >= 5) /\ ~(r.done >= 6) /\ ~(r.done >= 7)
      /\ ~(r.done >= 8) /\ ~(r.done >= 9) /\ ~(r.done >= 12) /\ r.done # 4
      /\ r.done \in 0 .. 13
  OBVIOUS
<1> QED
  BY <1>1, Zenon DEF KnownAt

LEMMA SaveKeepsInv == ASSUME EpochInv, Save PROVE EpochInv'
<1>1. /\ pc = "save" /\ state' = NextRun
      /\ (Finished' /\ pc' = "idle") \/ (~Finished' /\ s' = state' /\ pc' = "step")
      /\ UNCHANGED <<captureVars, marks, resolved, log, pending, custody, added, drill>>
  BY DEF Save, NextRun, Exit, remote
<1>2. CaptureInv' /\ LogInv' /\ PendingInv'
  BY <1>1 DEF EpochInv, CaptureInv, CaptureTypeOK, WalkInv, WalkIsExact, Passed, captureVars,
              lakeVars, walker, LogInv, CommittedIsInCustody, PendingInv
<1>3. output' = output
  BY <1>1 DEF captureVars
<1>4. Knows(state)' /\ Knows(NextRun)
  BY <1>1, <1>3 DEF EpochInv, PlaceInv, Knows
<1>5. SameBut(NextRun, s, {"done"}) /\ NextRun.done = s.done + 1
  BY <1>1, NextRunIs DEF EpochInv, PlaceInv
<1>6. state'.cutoff = state.cutoff /\ state'.done = state.done + 1
  BY <1>1, <1>5 DEF EpochInv, PlaceInv, SameBut
<1>7. PlaceInv'
  BY <1>1, <1>4 DEF PlaceInv
<1>8. MarkInv'
  <2>1. at # "none" => state'.done = 2 /\ marks # Walks
    BY <1>6 DEF EpochInv, MarkInv
  <2>2. state'.done >= 2 => marks = Walks
    BY <1>1, <1>4 DEF Knows, KnownAt
  <2>3. at = "none"
    BY <2>1, <2>2
  <2> QED
    BY <1>1, <1>6, <2>3 DEF EpochInv, MarkInv, Fresh, captureVars, walker
<1> QED
  BY <1>2, <1>7, <1>8 DEF EpochInv

LEMMA ResumeKeepsInv == ASSUME EpochInv, Resume PROVE EpochInv'
<1>1. /\ ~Finished /\ s' = state /\ pc' = "step"
      /\ UNCHANGED <<captureVars, state, marks, resolved, log, pending, custody, added, drill>>
  BY DEF Resume, dir, remote
<1>2. Kept
  BY <1>1, StaysKept
<1> QED
  BY <1>1, <1>2, KeptInv DEF EpochInv, PlaceInv

LEMMA StartKeepsInv == ASSUME EpochInv, Start PROVE EpochInv'
<1>1. /\ Finished /\ state' = NewRun /\ s' = NewRun /\ pc' = "step" /\ marks' = {}
      /\ early' = {} /\ cut' = {} /\ Fresh'
      /\ progress' = [w \in Walks |-> NoProgress]
      /\ partial' = [w \in Walks |-> None] /\ output' = [w \in Walks |-> None]
      /\ UNCHANGED <<lake, walker, log, pending, custody, added, drill>>
  BY DEF Start, Fresh, remote
<1>2. at = "none" /\ at' = "none"
  BY <1>1 DEF EpochInv, MarkInv, Finished, Steps, walker
<1>3. CaptureInv'
  BY <1>1, <1>2, CutKeepsCapture DEF EpochInv
<1>4. LogInv' /\ PendingInv'
  BY <1>1 DEF EpochInv, LogInv, CommittedIsInCustody, PendingInv
<1>5. Knows(state)' /\ ~Finished'
  <2>1. IsRun(state') /\ state'.done = 0 /\ state'.cutoff = FALSE
    BY <1>1, NewRunIs
  <2>2. Knows(state)'
    BY <2>1, NewKnows DEF Knows
  <2> QED
    BY <2>1, <2>2 DEF Finished, Steps
<1>6. MarkInv'
  BY <1>1, <1>2, NewRunIs DEF MarkInv
<1> QED
  BY <1>1, <1>3, <1>4, <1>5, <1>6 DEF EpochInv, PlaceInv

LEMMA CutoffKeepsInv == ASSUME EpochInv, SetCutoff PROVE EpochInv'
<1>1. /\ pc = "step" /\ ~s.cutoff /\ s' = [s EXCEPT !.cutoff = TRUE] /\ state' = s' /\ pc' = pc
      /\ early' = lake \ recent /\ cut' = early'
      /\ UNCHANGED <<lake, walker, progress, partial, output, marks, resolved>>
      /\ UNCHANGED <<log, pending, custody, added, drill>>
  BY DEF SetCutoff, At, remote
<1>2. s = state /\ IsRun(s) /\ state.done = 1
  BY <1>1, AtStep, StepOf DEF SetCutoff
<1>3. Fresh /\ Fresh' /\ at = "none" /\ marks = {}
  BY <1>1, <1>2 DEF EpochInv, MarkInv, Fresh
<1>4. CaptureInv'
  BY <1>1, <1>3, CutKeepsCapture DEF EpochInv
<1>5. LogInv' /\ PendingInv'
  BY <1>1 DEF EpochInv, LogInv, CommittedIsInCustody, PendingInv
<1>6. SameBut(s', s, {"cutoff"}) /\ s'.cutoff = TRUE
  BY <1>1, <1>2, UpdateCutoff
<1>7. Knows(state)'
  BY <1>1, <1>2, <1>6 DEF EpochInv, PlaceInv, Knows, KnownAt, SameBut
<1>8. ~Finished'
  BY <1>1, <1>2, <1>6 DEF Finished, Steps, SameBut
<1>9. MarkInv'
  BY <1>1, <1>3, <1>6 DEF MarkInv, walker
<1> QED
  BY <1>1, <1>4, <1>5, <1>7, <1>8, <1>9 DEF EpochInv, PlaceInv

-----------------------------------------------------------------------------
(* The capture tool beside the cycle                                        *)

\* A capture moves while its run has done one step and keeps what it knows.
LEMMA ToolKeepsInv ==
  ASSUME EpochInv, CaptureInv', MarkInv', state' = state, ~Finished \/ pc' = "idle",
         state.done =< 1 \/ UNCHANGED <<marks, output>>,
         pc' = "save" => pc = "save" /\ s' = s /\ UNCHANGED <<marks, output>>,
         pc' \notin {"idle", "save"} => s' = state,
         \/ pc' = pc
         \/ pc' = "walk" /\ state.done = 1
         \/ pc' \in {"step", "idle"},
         UNCHANGED <<log, pending, custody, added, resolved, drill>>
  PROVE  EpochInv'
<1>1. Len(log) \in Nat /\ Extends(log, log)
  BY DEF EpochInv, LogInv, Extends
<1>2. LogInv' /\ PendingInv'
  BY DEF EpochInv, LogInv, CommittedIsInCustody, PendingInv
<1>3. Knows(state)'
  <2>1. Knows(state)
    BY DEF EpochInv, PlaceInv
  <2>2. KnownAt(state, log, custody, added, marks', resolved, output'["a"])
    BY <1>1, <2>1, KnownStays DEF Knows
  <2> QED
    BY <2>2 DEF Knows
<1>4. Finished' <=> Finished
  BY DEF Finished
<1>5. pc' = "save" => Knows(NextRun)'
  BY DEF EpochInv, PlaceInv, Knows, NextRun
<1>6. PlaceInv'
  BY <1>3, <1>4, <1>5 DEF EpochInv, PlaceInv
<1> QED
  BY <1>2, <1>6 DEF EpochInv

LEMMA CaptureKeepsInv ==
  ASSUME EpochInv, StartWalk \/ WalkReturns \/ OrphanEnds
  PROVE  EpochInv'
<1>0. CaptureInv /\ MarkInv
  BY DEF EpochInv
<1>1. CASE StartWalk
  <2>1. /\ pc = "step" /\ s.cutoff /\ marks # Walks /\ at' = "open" /\ pc' = "walk" /\ s' = s
        /\ walk' \in Walks
        /\ UNCHANGED <<lakeVars, progress, partial, output, next, more>>
        /\ UNCHANGED <<state, marks, resolved, log, pending, custody, added, drill>>
    BY <1>1 DEF StartWalk, At, dir, remote, Walks
  <2>2. s = state /\ ~Finished /\ state.done = 1
    BY <1>1, <2>1, AtStep, StepOf DEF StartWalk
  <2>3. CaptureInv'
    BY <1>0, <2>1, OpenKeepsCapture
  <2>4. MarkInv'
    BY <1>0, <2>1, <2>2 DEF MarkInv, Fresh
  <2> QED
    BY <2>1, <2>2, <2>3, <2>4, ToolKeepsInv
<1>2. CASE WalkReturns \/ OrphanEnds
  <2>1. /\ at \in {"ok", "failed"} /\ NoWalker
        /\ marks' = marks \/ (at = "ok" /\ marks' = marks \cup {walk})
        /\ UNCHANGED <<lakeVars, progress, partial, output>>
        /\ UNCHANGED <<state, resolved, log, pending, custody, added, drill>>
    BY <1>2 DEF WalkReturns, OrphanEnds, cycleVars, dir, remote
  <2>2. state.done = 1 /\ state.cutoff /\ at' = "none"
    BY <1>0, <2>1 DEF MarkInv, NoWalker
  <2>3. CaptureInv'
    BY <1>0, <2>1, NoWalkerKeepsCapture
  <2>4. MarkInv'
    BY <1>0, <2>1, <2>2 DEF MarkInv, CaptureInv, CaptureTypeOK, WalkInv
  <2>5. CASE WalkReturns
    <3>1. pc = "walk" /\ ((pc' = "step" /\ s' = s) \/ pc' = "idle")
      BY <2>5 DEF WalkReturns, Exit
    <3>2. s = state /\ ~Finished
      BY <3>1, AtStep
    <3> QED
      BY <2>1, <2>2, <2>3, <2>4, <3>1, <3>2, ToolKeepsInv
  <2>6. CASE OrphanEnds
    <3>1. pc' = pc /\ s' = s /\ marks' = marks
      BY <2>6 DEF OrphanEnds, cycleVars, dir
    <3>2. ~Finished
      BY <2>2 DEF Finished, Steps
    <3>3. pc \notin {"idle", "save"} => s = state
      BY DEF EpochInv, PlaceInv
    <3> QED
      BY <2>1, <2>2, <2>3, <2>4, <3>1, <3>2, <3>3, ToolKeepsInv
  <2> QED
    BY <1>2, <2>5, <2>6
<1> QED
  BY <1>1, <1>2

LEMMA KillKeepsInv == ASSUME EpochInv, Kill PROVE EpochInv'
<1>0. CaptureInv /\ MarkInv
  BY DEF EpochInv
<1>1. /\ pc' = "idle" /\ (UNCHANGED walker \/ NoWalker)
      /\ UNCHANGED <<lakeVars, progress, partial, output>> /\ state' = state
      /\ UNCHANGED <<marks, output>>
      /\ UNCHANGED <<log, pending, custody, added, resolved, drill>>
  BY DEF Kill, dir, remote
<1>2. CaptureInv'
  <2>1. CASE NoWalker
    BY <1>0, <1>1, <2>1, NoWalkerKeepsCapture
  <2>2. CASE UNCHANGED walker
    BY <1>0, <1>1, <2>2
       DEF CaptureInv, CaptureTypeOK, WalkInv, WalkIsExact, Passed, lakeVars, walker
  <2> QED
    BY <1>1, <2>1, <2>2
<1>3. MarkInv'
  BY <1>0, <1>1 DEF MarkInv, Fresh, NoWalker, walker
<1> QED
  BY <1>1, <1>2, <1>3, ToolKeepsInv

LEMMA WalkKeepsInv == ASSUME EpochInv, Walk, UNCHANGED cycleVars PROVE EpochInv'
<1>0. CaptureInv /\ MarkInv /\ PlaceInv
  BY DEF EpochInv
<1>1. /\ at # "none"
      /\ state' = state /\ s' = s /\ pc' = pc /\ marks' = marks
      /\ UNCHANGED <<log, pending, custody, added, resolved, drill>>
  BY DEF Walk, CreatePartial, CreateProgress, RefusePartial, ResumeWalk, ReopenOutput, FetchPage,
         RefuseOrder, SavePage, RenameOutput, RefuseSubset, Publish, cycleVars, dir, remote
<1>2. state.done = 1 /\ state.cutoff /\ marks # Walks /\ ~Finished
  BY <1>0, <1>1 DEF MarkInv, Finished, Steps
<1>3. CaptureInv'
  BY <1>0, FirstStepsKeepCapture, FetchKeepsCapture, LastStepsKeepCapture DEF Walk
<1>4. \A w \in Walks : output[w] # None => output'[w] # None
  BY <1>0
     DEF Walk, CreatePartial, CreateProgress, RefusePartial, ResumeWalk, ReopenOutput, FetchPage,
         RefuseOrder, SavePage, RenameOutput, RefuseSubset, Publish, CaptureInv, CaptureTypeOK,
         WalkInv
<1>5. MarkInv'
  BY <1>0, <1>1, <1>2, <1>4 DEF MarkInv
<1>6. pc # "save"
  <2> SUFFICES ASSUME pc = "save" PROVE FALSE
    OBVIOUS
  <2>1. NextRun.done = 2 /\ Knows(NextRun)
    BY <1>0, <1>2, NextRunIs DEF PlaceInv
  <2> QED
    BY <1>2, <2>1 DEF Knows, KnownAt
<1>7. pc' # "save" /\ (pc' \notin {"idle", "save"} => s' = state)
  BY <1>0, <1>1, <1>6 DEF PlaceInv
<1> QED
  BY <1>1, <1>2, <1>3, <1>5, <1>6, <1>7, ToolKeepsInv

LEMMA LakeKeepsInv == ASSUME EpochInv, Lake, UNCHANGED cycleVars PROVE EpochInv'
<1>0. CaptureInv /\ MarkInv /\ PlaceInv
  BY DEF EpochInv
<1>1. /\ UNCHANGED <<progress, partial, walker>> /\ UNCHANGED <<marks, output>>
      /\ state' = state /\ s' = s /\ pc' = pc
      /\ UNCHANGED <<log, pending, custody, added, resolved, drill>>
  BY DEF Lake, Upload, UploadAgain, Age, cycleVars, dir, remote
<1>2. CaptureInv'
  BY <1>0, LakeKeepsCapture
<1>3. MarkInv'
  BY <1>0, <1>1 DEF MarkInv, Fresh, walker
<1>4. ~Finished \/ pc' = "idle"
  BY <1>0, <1>1 DEF PlaceInv
<1>5. pc' \notin {"idle", "save"} => s' = state
  BY <1>0, <1>1 DEF PlaceInv
<1>6. pc' = "save" => pc = "save" /\ s' = s /\ UNCHANGED <<marks, output>>
  BY <1>1
<1> QED
  BY <1>1, <1>2, <1>3, <1>4, <1>5, <1>6, ToolKeepsInv

-----------------------------------------------------------------------------
(* The log                                                                  *)

\* The log grows by a record at its end, wherever that comes from.
LEMMA GrowthKeepsInv ==
  ASSUME EpochInv, NEW m, log' = Append(log, m),
         m.epoch = Len(log), m.prev = Tip, m.rows # {},
         m.rows \cap RowsUpTo(log, Len(log)) = {},
         drill' = "none" => drill = "none" /\ m.rows \subseteq Cids,
         custody' = [h \in Hosts |-> custody'[h]],
         \A h \in Hosts : custody[h] \cup m.rows \subseteq custody'[h],
         added \cup {m, Inventory(m.rows)} \subseteq added',
         UNCHANGED <<captureVars, state, s, pc, marks, resolved, pending>>
  PROVE  EpochInv'
<1>0. CaptureInv /\ LogInv /\ PendingInv /\ PlaceInv /\ MarkInv
  BY DEF EpochInv
<1>1. PICK S : log \in Seq(S)
  BY <1>0 DEF LogInv
<1>2. /\ Len(log) \in Nat /\ Len(log) >= 1 /\ Len(log') = Len(log) + 1
      /\ \A i \in 1 .. Len(log) : log'[i] = log[i]
      /\ log'[Len(log) + 1] = m /\ log' \in Seq(S \cup {m})
  <2>1. log \in Seq(S \cup {m}) /\ m \in S \cup {m}
    <3>1. \A i \in 1 .. Len(log) : log[i] \in S \cup {m}
      BY <1>1
    <3>2. Len(log) \in Nat /\ log = [i \in 1 .. Len(log) |-> log[i]]
      BY <1>1
    <3> QED
      BY <3>1, <3>2
  <2> QED
    BY <1>0, <2>1 DEF LogInv
<1>3. Extends(log, log') /\ Len(log') \in Nat
  BY <1>2 DEF Extends
<1>4. \A n \in 0 .. Len(log) : RowsUpTo(log', n) = RowsUpTo(log, n)
  BY <1>2, <1>3, ExtendedRows
<1>5. LogInv'
  <2>1. ASSUME NEW i \in 2 .. Len(log')
        PROVE  /\ log'[i].epoch = i - 1 /\ log'[i].prev = log'[i - 1]
               /\ log'[i].rows # {} /\ log'[i].rows \cap RowsUpTo(log', i - 1) = {}
    <3>1. CASE i =< Len(log)
      <4>1. i \in 2 .. Len(log) /\ i - 1 \in 0 .. Len(log)
            /\ log'[i] = log[i] /\ log'[i - 1] = log[i - 1]
        BY <1>2, <3>1
      <4>2. RowsUpTo(log', i - 1) = RowsUpTo(log, i - 1)
        BY <1>4, <4>1
      <4> QED
        BY <1>0, <4>1, <4>2 DEF LogInv
    <3>2. CASE i = Len(log) + 1
      <4>1. i - 1 = Len(log) /\ log'[i] = m /\ log'[i - 1] = Tip
        BY <1>2, <3>2 DEF Tip
      <4>2. RowsUpTo(log', i - 1) = RowsUpTo(log, Len(log))
        BY <1>2, <1>4, <4>1
      <4> QED
        BY <4>1, <4>2
    <3> QED
      BY <1>2, <3>1, <3>2
  <2>2. ASSUME NEW i \in 1 .. Len(log')
        PROVE  /\ \A h \in Hosts : log'[i].rows \subseteq custody'[h]
               /\ {log'[i], Inventory(log'[i].rows)} \subseteq added'
               /\ drill' = "none" => log'[i].rows \subseteq Cids
    <3>1. CASE i \in 1 .. Len(log)
      BY <1>0, <1>2, <3>1 DEF LogInv, CommittedIsInCustody
    <3>2. CASE i = Len(log) + 1
      BY <1>2, <3>2
    <3> QED
      BY <1>2, <3>1, <3>2
  <2>3. log'[1].rows = Base /\ Len(log') >= 1
    BY <1>0, <1>2 DEF LogInv
  <2> QED
    BY <1>2, <2>1, <2>2, <2>3 DEF LogInv, CommittedIsInCustody
<1>6. PendingInv'
  <2> SUFFICES ASSUME NEW r \in pending PROVE ReadyAt(r, log', custody', added')
    BY DEF PendingInv
  <2>1. ReadyAt(r, log, custody, added)
    BY <1>0 DEF PendingInv
  <2> QED
    BY <1>2, <1>3, <2>1, ReadyStays
<1>7. CaptureInv'
  BY <1>0 DEF CaptureInv, CaptureTypeOK, WalkInv, WalkIsExact, Passed, captureVars, lakeVars, walker
<1>8. MarkInv'
  BY <1>0 DEF MarkInv, Fresh, captureVars, walker
<1>9. ASSUME NEW r, Knows(r) PROVE KnownAt(r, log', custody', added', marks, resolved, output["a"])
  BY <1>2, <1>3, <1>9, KnownStays DEF Knows
<1>10. PlaceInv'
  <2>1. output' = output /\ marks' = marks /\ resolved' = resolved /\ state' = state /\ s' = s
        /\ pc' = pc
    BY DEF captureVars
  <2>2. Knows(state)'
    BY <1>0, <1>9, <2>1 DEF Knows, PlaceInv
  <2>3. pc' = "save" => Knows(NextRun)'
    BY <1>0, <1>9, <2>1 DEF Knows, PlaceInv, NextRun
  <2> QED
    BY <1>0, <2>1, <2>2, <2>3 DEF PlaceInv, Finished
<1> QED
  BY <1>5, <1>6, <1>7, <1>8, <1>10 DEF EpochInv

LEMMA CommitKeepsInv == ASSUME EpochInv, NEW m \in pending, Commit(m) PROVE EpochInv'
<1>1. ReadyAt(m, log, custody, added) /\ LogInv
  BY DEF EpochInv, PendingInv
<1>2. /\ m.epoch = Len(log) /\ log' = Append(log, m)
      /\ UNCHANGED <<captureVars, state, s, pc, marks, resolved, pending>>
      /\ custody' = custody /\ added' = added /\ drill' = drill
  BY DEF Commit, dir
<1>3. /\ m.prev = Tip /\ m.rows # {} /\ m.rows \subseteq Cids
      /\ m.rows \cap RowsUpTo(log, Len(log)) = {}
      /\ \A h \in Hosts : custody[h] \cup m.rows \subseteq custody'[h]
      /\ added \cup {m, Inventory(m.rows)} \subseteq added'
      /\ custody' = [h \in Hosts |-> custody'[h]]
  BY <1>1, <1>2 DEF ReadyAt, Tip, LogInv
<1> QED
  BY <1>2, <1>3, GrowthKeepsInv

\* The drill's row is no lake block, and its epoch is cut only once.
LEMMA DrillKeepsInv == ASSUME EpochInv, DrillCuts PROVE EpochInv'
<1> DEFINE m == Manifest(Len(log), Tip, Drill)
<1>1. /\ drill = "none" /\ drill' = "cut" /\ Drill # {}
      /\ log' = Append(log, m) /\ added' = added \cup {m, Inventory(Drill)}
      /\ custody' = [h \in Hosts |-> custody[h] \cup Drill]
      /\ UNCHANGED <<captureVars, state, s, pc, marks, resolved, pending>>
  BY DEF DrillCuts, dir
<1>2. m.epoch = Len(log) /\ m.prev = Tip /\ m.rows = Drill
  BY DEF Manifest
<1> HIDE DEF m
<1>3. Drill \cap RowsUpTo(log, Len(log)) = {}
  BY <1>1, CycleAssumption DEF EpochInv, LogInv, RowsUpTo
<1>4. /\ custody' = [h \in Hosts |-> custody'[h]]
      /\ \A h \in Hosts : custody[h] \cup Drill \subseteq custody'[h]
  BY <1>1
<1> QED
  BY <1>1, <1>2, <1>3, <1>4, GrowthKeepsInv

LEMMA OthersKeepInv ==
  ASSUME EpochInv,
         \/ DrillResolves \/ DrillEdits \/ DrillRestarts
         \/ (\E m \in pending : Lose(m)) \/ UNCHANGED vars
  PROVE  EpochInv'
<1>1. /\ UNCHANGED <<captureVars, state, s, pc, marks, resolved, log, custody, added>>
      /\ pending' \subseteq pending /\ (drill' = drill \/ (drill' # "none"))
  BY DEF DrillResolves, DrillEdits, DrillRestarts, Lose, dir, vars, cycleVars, remote
<1>2. CaptureInv' /\ MarkInv' /\ PendingInv'
  BY <1>1 DEF EpochInv, CaptureInv, CaptureTypeOK, WalkInv, WalkIsExact, Passed, captureVars,
              lakeVars, walker, MarkInv, Fresh, PendingInv
<1>3. LogInv'
  BY <1>1 DEF EpochInv, LogInv, CommittedIsInCustody
<1>4. PlaceInv'
  BY <1>1 DEF EpochInv, PlaceInv, Knows, NextRun, Finished, captureVars
<1> QED
  BY <1>2, <1>3, <1>4 DEF EpochInv

-----------------------------------------------------------------------------
(* The theorems                                                             *)

LEMMA InitInv == Init => EpochInv
<1> SUFFICES ASSUME Init PROVE EpochInv
  OBVIOUS
<1> USE CaptureAssumption, CycleAssumption
<1>0. CaptureInit /\ state = NewRun /\ pc = "idle" /\ marks = {} /\ log = <<Epoch0>> /\ pending = {}
  BY DEF Init
<1>1. CaptureInv
  <2>1. \A w \in Walks : Passed(progress[w])
    BY <1>0 DEF CaptureInit, NoProgress, Passed
  <2>2. CaptureTypeOK
    BY <1>0, NoProgressTyped DEF CaptureInit, CaptureTypeOK, Walks
  <2> QED
    BY <1>0, <2>1, <2>2 DEF CaptureInit, CaptureInv, WalkInv, WalkIsExact, NoProgress
<1>2. LogInv
  <2>1. Epoch0.rows = Base
    BY DEF Epoch0
  <2> HIDE DEF Epoch0
  <2>2. log \in Seq({Epoch0}) /\ Len(log) = 1 /\ log[1] = Epoch0
    BY <1>0
  <2>3. custody = [h \in Hosts |-> Base] /\ added = {Inventory(Base), Epoch0}
    BY DEF Init
  <2>4. CommittedIsInCustody
    BY <2>1, <2>2, <2>3 DEF CommittedIsInCustody
  <2>5. \A i \in 1 .. Len(log) : log[i].rows \subseteq Cids
    <3>1. Base \subseteq Cids /\ \A i \in 1 .. Len(log) : i = 1
      BY <2>2
    <3> QED
      BY <2>1, <2>2, <3>1
  <2> QED
    BY <2>1, <2>2, <2>3, <2>4, <2>5 DEF LogInv
<1>3. PlaceInv
  <2>1. Knows(state)
    BY <1>0, NewRunIs, NewKnows DEF Knows
  <2> QED
    BY <1>0, <2>1 DEF PlaceInv
<1>4. MarkInv
  BY <1>0, NewRunIs DEF CaptureInit, MarkInv, Fresh
<1> QED
  BY <1>0, <1>1, <1>2, <1>3, <1>4 DEF EpochInv, PendingInv

LEMMA NextKeepsInv == EpochInv /\ [Next]_vars => EpochInv'
<1> SUFFICES ASSUME EpochInv, [Next]_vars PROVE EpochInv'
  OBVIOUS
<1>1. CASE Cycle
  <2>1. CASE Resume \/ Start \/ Save
    BY <2>1, ResumeKeepsInv, StartKeepsInv, SaveKeepsInv
  <2>2. CASE Capture
    BY <2>2, CutoffKeepsInv, CaptureKeepsInv, RefusalsKeepInv, FirstStepsKeepInv DEF Capture
  <2>3. CASE Prepare
    BY <2>3, FirstStepsKeepInv, PlacesKeepInv, RefusalsKeepInv, CustodyKeepsInv, DocumentsKeepInv
       DEF Prepare
  <2>4. CASE Publication
    BY <2>4, SubmitKeepsInv, LastStepsKeepInv, RefusalsKeepInv, PlacesKeepInv DEF Publication
  <2> QED
    BY <1>1, <2>1, <2>2, <2>3, <2>4 DEF Cycle
<1>2. CASE Tool
  BY <1>2, WalkKeepsInv, CaptureKeepsInv DEF Tool
<1>3. CASE Kill
  BY <1>3, KillKeepsInv
<1>4. CASE Witnesses
  BY <1>4, CommitKeepsInv DEF Witnesses
<1>5. CASE Surroundings
  BY <1>5, LakeKeepsInv, DrillKeepsInv, OthersKeepInv DEF Surroundings
<1>6. CASE UNCHANGED vars
  BY <1>6, OthersKeepInv
<1> QED
  BY <1>1, <1>2, <1>3, <1>4, <1>5, <1>6 DEF Next

\* Whatever happens between two starts, what a run has saved about the log,
\* the captures and the hosts stays true until its record is committed.
THEOREM EpochInvariant == Spec => []EpochInv
<1>1. Init => EpochInv
  BY InitInv
<1>2. EpochInv /\ [Next]_vars => EpochInv'
  BY NextKeepsInv
<1> QED
  BY <1>1, <1>2, PTL DEF Spec

\* A finished capture is the lake as it was at the cutoff, for pages of any
\* size, a lake that grows under the walk and any number of kills and resumes.
THEOREM CapturesAreExact == Spec => []WalkIsExact
<1>1. EpochInv => WalkIsExact
  BY DEF EpochInv, CaptureInv
<1> QED
  BY <1>1, EpochInvariant, PTL

\* Each epoch names the one before it and no row of an earlier one, whoever
\* else cuts epochs of the same log.
THEOREM EpochsAreChained == Spec => []LogIsChained
<1>1. EpochInv => LogIsChained
  <2> SUFFICES ASSUME EpochInv, NEW i \in 2 .. Len(log)
               PROVE  Rows(SubSeq(log, 1, i - 1)) = RowsUpTo(log, i - 1)
    BY DEF EpochInv, LogInv, LogIsChained
  <2> DEFINE front == SubSeq(log, 1, i - 1)
  <2>1. PICK S : log \in Seq(S)
    BY DEF EpochInv, LogInv
  <2>2. DOMAIN front = 1 .. i - 1 /\ \A j \in 1 .. i - 1 : front[j] = log[j]
    BY <2>1, SubSeqProperties
  <2> HIDE DEF front
  <2>3. Rows(front) = RowsUpTo(log, i - 1)
    BY <2>2 DEF Rows, Range, Inventories, RowsUpTo
  <2> QED
    BY <2>3 DEF front
<1> QED
  BY <1>1, EpochInvariant, PTL

\* No record is committed before both hosts hold what it names.
THEOREM CommitsAreInCustody == Spec => []CommittedIsInCustody
<1>1. EpochInv => CommittedIsInCustody
  BY DEF EpochInv, LogInv
<1> QED
  BY <1>1, EpochInvariant, PTL

\* A run that ends leaves a log that covers the lake as dated at its cutoff.
THEOREM FinishedRunsCover == Spec => []FinishedMeansCovered
<1>1. EpochInv => FinishedMeansCovered
  <2> SUFFICES ASSUME EpochInv, Finished PROVE early \subseteq Rows(log)
    BY DEF FinishedMeansCovered
  <2>1. Knows(state) /\ LogInv /\ MarkInv /\ WalkIsExact
    BY DEF EpochInv, PlaceInv, CaptureInv
  <2>2. state.done = 13 \/ (state.done >= 5 /\ state.inv = {})
    BY DEF Finished, Steps
  <2>3. state.done >= 5 /\ state.done >= 2 /\ state.done >= 1
    BY <2>1, <2>2 DEF Knows, KnownAt
  <2>4. output["a"] # None
    BY <2>1, <2>3 DEF Knows, KnownAt, MarkInv, Walks
  <2>5. early \subseteq output["a"]
    BY <2>1, <2>4 DEF WalkIsExact, Walks
  <2>6. output["a"] \subseteq RowsUpTo(log, Len(log))
    <3>1. CASE state.done = 13
      BY <2>1, <3>1 DEF Knows, KnownAt
    <3>2. CASE state.inv = {}
      <4>1. state.epoch \in 1 .. Len(log) /\ output["a"] \subseteq RowsUpTo(log, state.epoch)
        BY <2>1, <2>3, <3>2 DEF Knows, KnownAt
      <4>2. Len(log) \in Nat
        BY <2>1 DEF LogInv
      <4>3. 1 .. state.epoch \subseteq 1 .. Len(log)
        BY <4>1, <4>2
      <4>4. RowsUpTo(log, state.epoch) \subseteq RowsUpTo(log, Len(log))
        BY <4>3 DEF RowsUpTo
      <4> QED
        BY <4>1, <4>4
    <3> QED
      BY <2>2, <3>1, <3>2
  <2> QED
    BY <2>1, <2>5, <2>6, LogRows
<1> QED
  BY <1>1, EpochInvariant, PTL

=============================================================================
