---------------------------- MODULE LakeCapture ----------------------------
(***************************************************************************)
(* Capturing a listing of the lake (deploy/capture_lake_inventory.cljk):   *)
(* a walk over the public listing in the order of the CIDs, page by page,  *)
(* appended to <output>.partial and checkpointed after every page, so that *)
(* a killed walk can be resumed.  The lake changes while it is walked; the *)
(* walk keeps what was uploaded before its cutoff.  The epoch cycle        *)
(* (LakeEpochCycle) runs two walks at one cutoff.                          *)
(***************************************************************************)
EXTENDS Integers, FiniteSets

CONSTANTS
  Cids,      \* the blocks of the lake, numbered in the order of the listing
  Base,      \* the old inventory: the rows of epoch 0
  Uploaded,  \* what the lake holds at first
  Reuploads, \* bound: one of these is uploaded once more, which dates it anew
  PageSize,  \* rows of a listing page
  None       \* no such file

Walks == {"a", "b"}

ASSUME CaptureAssumption ==
  /\ Cids \subseteq Nat \ {0} /\ IsFiniteSet(Cids)
  /\ Base \subseteq Uploaded /\ Uploaded \subseteq Cids /\ Base # {}
  /\ Reuploads \subseteq Cids
  /\ PageSize \in Nat \ {0}
  /\ \A rows \in SUBSET Cids : rows # None

VARIABLES
  lake,      \* the blocks the listing shows
  recent,    \* of them, those too young for a cutoff taken now
  fresh,     \* the blocks that may be uploaded again, until one is
  early,     \* the blocks the listing dates before the cutoff
  cut,       \* history: early as it was when the cutoff was taken
  progress,  \* walk -> its state file
  partial,   \* walk -> <output>.partial, the set of its rows
  output,    \* walk -> <output>
  walk,      \* the walk a process is busy with
  at,        \* where that process is
  next,      \* the state it saves next
  more       \* whether the page it holds was truncated

lakeVars == <<lake, recent, fresh, early, cut>>
walker == <<walk, at, next, more>>
captureVars == <<lakeVars, progress, partial, output, walker>>

\* cursor 0 is JSON null; rows are those the checkpoint's size and hash cover.
NoProgress == [status |-> "none", cursor |-> 0, seen |-> 0, rows |-> {}]

CaptureInit ==
  /\ lake = Uploaded /\ recent = {} /\ fresh = Reuploads /\ early = {} /\ cut = {}
  /\ progress = [w \in Walks |-> NoProgress]
  /\ partial = [w \in Walks |-> None] /\ output = [w \in Walks |-> None]
  /\ walk = "a" /\ at = "none" /\ next = NoProgress /\ more = FALSE

-----------------------------------------------------------------------------
(* The lake                                                                *)

Upload(c) ==
  /\ c \notin lake
  /\ lake' = lake \cup {c} /\ recent' = recent \cup {c}
  /\ UNCHANGED <<fresh, early, cut, progress, partial, output, walker>>

\* The listing shows one date for a block, that of its last upload.
UploadAgain(c) ==
  /\ c \in lake \cap fresh
  /\ fresh' = {}
  /\ recent' = recent \cup {c} /\ early' = early \ {c}
  /\ UNCHANGED <<lake, cut, progress, partial, output, walker>>

Age ==
  /\ recent # {} /\ recent' = {}
  /\ UNCHANGED <<lake, fresh, early, cut, progress, partial, output, walker>>

-----------------------------------------------------------------------------
(* One process of the capture tool                                         *)

Go(place) == at' = place /\ UNCHANGED <<walk, next, more>>

NoWalker == walk' = "a" /\ at' = "none" /\ next' = NoProgress /\ more' = FALSE

\* The files are created one after the other.
CreatePartial ==
  /\ at = "open" /\ output[walk] = None
  /\ progress[walk].status = "none" /\ partial[walk] = None
  /\ partial' = [partial EXCEPT ![walk] = {}]
  /\ Go("create") /\ UNCHANGED <<lakeVars, progress, output>>

CreateProgress ==
  /\ at = "create"
  /\ progress' = [progress EXCEPT ![walk].status = "in-progress"]
  /\ Go("page") /\ UNCHANGED <<lakeVars, partial, output>>

RefusePartial ==
  /\ at = "open" /\ output[walk] = None
  /\ progress[walk].status = "none" /\ partial[walk] # None
  /\ Go("failed") /\ UNCHANGED <<lakeVars, progress, partial, output>>

\* A page that was appended and not checkpointed is cut off again.
ResumeWalk ==
  /\ at = "open" /\ output[walk] = None /\ progress[walk].status = "in-progress"
  /\ partial' = [partial EXCEPT ![walk] = progress[walk].rows]
  /\ Go("page") /\ UNCHANGED <<lakeVars, progress, output>>

\* The output is in place: its superset check is made again if need be.
ReopenOutput ==
  /\ at = "open" /\ output[walk] # None
  /\ Go(IF progress[walk].status = "complete" THEN "ok"
        ELSE IF Base \subseteq output[walk] THEN "publish" ELSE "failed")
  /\ UNCHANGED <<lakeVars, progress, partial, output>>

PageAfter(cursor) ==
  {c \in lake : c > cursor /\ Cardinality({d \in lake : cursor < d /\ d =< c}) =< PageSize}

Page == PageAfter(progress[walk].cursor)
LastOf(page) == CHOOSE c \in page : \A d \in page : d =< c

\* Mutant: a page is taken for the last.
FetchOnePage ==
  /\ at = "page" /\ Page # {} /\ \A c \in Page : c > progress[walk].seen
  /\ partial' = [partial EXCEPT ![walk] = @ \cup (Page \cap early)]
  /\ more' = FALSE
  /\ next' = [status |-> "in-progress", cursor |-> 0, seen |-> LastOf(Page),
              rows |-> progress[walk].rows \cup (Page \cap early)]
  /\ at' = "save"
  /\ UNCHANGED <<lakeVars, progress, output, walk>>

\* Mutant: the rows are not measured against the cutoff.
FetchWholePage ==
  /\ at = "page" /\ Page # {} /\ \A c \in Page : c > progress[walk].seen
  /\ partial' = [partial EXCEPT ![walk] = @ \cup Page]
  /\ more' = (\E c \in lake : c > LastOf(Page))
  /\ next' = [status |-> "in-progress", cursor |-> IF more' THEN LastOf(Page) ELSE 0,
              seen |-> LastOf(Page), rows |-> progress[walk].rows \cup Page]
  /\ at' = "save"
  /\ UNCHANGED <<lakeVars, progress, output, walk>>

\* What is dated behind the cutoff is seen and left out.
FetchPage ==
  /\ at = "page" /\ Page # {} /\ \A c \in Page : c > progress[walk].seen
  /\ partial' = [partial EXCEPT ![walk] = @ \cup (Page \cap early)]
  /\ more' = (\E c \in lake : c > LastOf(Page))
  /\ next' = [status |-> "in-progress", cursor |-> IF more' THEN LastOf(Page) ELSE 0,
              seen |-> LastOf(Page), rows |-> progress[walk].rows \cup (Page \cap early)]
  /\ at' = "save"
  /\ UNCHANGED <<lakeVars, progress, output, walk>>

\* "listing order repeated or moved backward", or an empty page.
RefuseOrder ==
  /\ at = "page" /\ (Page = {} \/ \E c \in Page : c =< progress[walk].seen)
  /\ Go("failed") /\ UNCHANGED <<lakeVars, progress, partial, output>>

SavePage ==
  /\ at = "save"
  /\ progress' = [progress EXCEPT ![walk] = next]
  /\ at' = (IF more THEN "page" ELSE "superset") /\ next' = NoProgress /\ more' = FALSE
  /\ UNCHANGED <<lakeVars, partial, output, walk>>

RenameOutput ==
  /\ at = "superset" /\ Base \subseteq partial[walk]
  /\ output' = [output EXCEPT ![walk] = partial[walk]]
  /\ partial' = [partial EXCEPT ![walk] = None]
  /\ Go("publish") /\ UNCHANGED <<lakeVars, progress>>

RefuseSubset ==
  /\ at = "superset" /\ ~(Base \subseteq partial[walk])
  /\ Go("failed") /\ UNCHANGED <<lakeVars, progress, partial, output>>

Publish ==
  /\ at = "publish"
  /\ progress' = [progress EXCEPT ![walk].status = "complete"]
  /\ Go("ok") /\ UNCHANGED <<lakeVars, partial, output>>

Walk ==
  \/ CreatePartial \/ CreateProgress \/ RefusePartial \/ ResumeWalk \/ ReopenOutput
  \/ FetchPage \/ RefuseOrder \/ SavePage \/ RenameOutput \/ RefuseSubset \/ Publish

Lake == (\E c \in Cids : Upload(c)) \/ (\E c \in Cids : UploadAgain(c)) \/ Age

-----------------------------------------------------------------------------
\* A finished walk is the listing at its cutoff: it has every row that was in
\* the lake by then and was not dated anew, and none that came later, although
\* the lake grew under it and it was resumed on any page.
WalkIsExact ==
  \A w \in Walks : output[w] # None => early \subseteq output[w] /\ output[w] \subseteq cut

\* A walk no start of the tool takes further: its last page was saved, with no
\* cursor, and the output was not renamed; or its first file stands alone.
WalkStuck(w) ==
  /\ output[w] = None /\ partial[w] # None
  /\ IF progress[w].status = "none" THEN ~(walk = w /\ at = "create")
     ELSE progress[w].seen > 0 /\ progress[w].cursor = 0 /\ ~(walk = w /\ at = "superset")
=============================================================================
