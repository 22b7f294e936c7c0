---------------------------- MODULE HeadFollower ----------------------------
(***************************************************************************)
(* r2_head_follower.cljk with --cutover --project: every two minutes it     *)
(* copies the head inga committed over an older one in R2.  It reads inga,  *)
(* then R2; reads both again before it writes and after; and its put has no *)
(* condition, while the Worker copies the heads it committed as well.  A    *)
(* head is its sequence + 1 (one value per sequence, HeadsOnlyGrow in       *)
(* GraphWriter); 0 stands for no head.                                      *)
(***************************************************************************)
EXTENDS Naturals

CONSTANTS
  MaxHeads,    \* bound: heads that inga commits
  MaxOutages   \* bound: runs that die, or end UNMEASURED

ASSUME FollowerAssumption == MaxHeads \in Nat /\ MaxOutages \in Nat

VARIABLES
  ingaHead,    \* the committed head
  r2,          \* the object in R2
  copies,      \* heads the Worker committed and may still copy
  puts,        \* heads in puts of the follower that R2 has not answered
  fstep,       \* the step of the running follower
  mine,        \* the head it last read from inga
  tries,       \* n of `attempt'
  outages

followerVars == <<ingaHead, r2, copies, puts, fstep, mine, tries, outages>>

FollowerInit ==
  /\ ingaHead = 0 /\ r2 = 0 /\ copies = {} /\ puts = {}
  /\ fstep = "idle" /\ mine = 0 /\ tries = 0 /\ outages = 0
-----------------------------------------------------------------------------
(* The Worker: a write through the writer, and the copy of its head.        *)
CommitHead ==
  /\ ingaHead < MaxHeads
  /\ ingaHead' = ingaHead + 1
  /\ copies' = copies \cup {ingaHead'}
  /\ UNCHANGED <<r2, puts, fstep, mine, tries, outages>>

CopyHead(h) ==
  /\ r2' = h /\ copies' = copies \ {h}
  /\ UNCHANGED <<ingaHead, puts, fstep, mine, tries, outages>>
-----------------------------------------------------------------------------
(* classify: :inga-ahead; a head R2 does not have at all is :absent.        *)
IngaAhead == 0 < r2 /\ r2 < mine

\* Mutant: a head the follower has seen before needs no second look.
SkipKnown ==
  /\ (fstep = "idle" /\ ingaHead # mine) \/ fstep = "again"
  /\ mine' = ingaHead
  /\ fstep' = IF fstep = "idle" THEN "compare" ELSE "recheck"
  /\ tries' = IF fstep = "idle" THEN 0 ELSE tries
  /\ UNCHANGED <<ingaHead, r2, copies, puts, outages>>

\* inga-head at the start of a graph, and again in `attempt'.
ReadInga ==
  /\ fstep \in {"idle", "again"}
  /\ mine' = ingaHead
  /\ fstep' = IF fstep = "idle" THEN "compare" ELSE "recheck"
  /\ tries' = IF fstep = "idle" THEN 0 ELSE tries
  /\ UNCHANGED <<ingaHead, r2, copies, puts, outages>>

\* r2-head and classify: everything but :inga-ahead is only reported.
Compare ==
  /\ fstep = "compare"
  /\ fstep' = IF IngaAhead THEN "again" ELSE "idle"
  /\ UNCHANGED <<ingaHead, r2, copies, puts, mine, tries, outages>>

\* `attempt': enough, or project! what inga answered this time.
Recheck ==
  /\ fstep = "recheck"
  /\ IF tries >= 3 \/ ~IngaAhead
     THEN fstep' = "idle" /\ UNCHANGED puts
     ELSE fstep' = "put" /\ puts' = puts \cup {mine}
  /\ UNCHANGED <<ingaHead, r2, copies, mine, tries, outages>>

\* R2 stores what was put, even when the run that sent it has ended.
PutLands(h) ==
  /\ r2' = h /\ puts' = puts \ {h}
  /\ IF fstep = "put" /\ h = mine
     THEN fstep' = "again" /\ tries' = tries + 1
     ELSE UNCHANGED <<fstep, tries>>
  /\ UNCHANGED <<ingaHead, copies, mine, outages>>

\* A command or a request fails or times out (exit 3), or the run is killed.
Unmeasurable ==
  /\ fstep # "idle" /\ outages < MaxOutages
  /\ fstep' = "idle" /\ outages' = outages + 1
  /\ UNCHANGED <<ingaHead, r2, copies, puts, mine, tries>>

Follow ==
  \/ ReadInga \/ Compare \/ Recheck
  \/ fstep = "put" /\ PutLands(mine)

FollowerNext ==
  \/ CommitHead \/ (\E h \in copies : CopyHead(h))
  \/ Follow \/ (\E h \in puts : PutLands(h)) \/ Unmeasurable

\* launchd starts the follower again, and its commands have time limits.
FollowerSpec ==
  FollowerInit /\ [][FollowerNext]_followerVars /\ WF_followerVars(Follow)
-----------------------------------------------------------------------------
(* `A rollback that slips through is repaired on the next run; inga stays   *)
(* the authority': once the writes stop, R2 has inga's head for good, in    *)
(* whatever order the copies and the late puts arrived.  A graph R2 never   *)
(* got a copy of is only reported (ABSENT).                                 *)
RollbacksAreRepaired == <>[](r2 # 0 => r2 = ingaHead)
=============================================================================
