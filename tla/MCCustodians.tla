---------------------------- MODULE MCCustodians ----------------------------
(***************************************************************************)
(* One run for the programs that must come to an end of their own: those    *)
(* that a timer starts again and again and that follow what another part of *)
(* the system decided - the replicator, the custody puller and the R2       *)
(* follower - and the graph-head writers that answer a client.  They do not *)
(* act on each other; the initial state chooses which one runs.             *)
(***************************************************************************)
EXTENDS ReplicateLake, CustodyPuller, HeadFollower

CONSTANTS
  Lanes,          \* those of this run
  a, b, c, d, e,  \* five blocks of the lake
  g1, g2,         \* two graphs
  w1, w2, x1, x2, \* two writers, two witnesses
  va, vb          \* two values of a head

VARIABLES lane, wlog, wview, wsubmitted, wheld, wcache, wreq, wreply, wgot, wproved

writerVars == <<wlog, wview, wsubmitted, wheld, wcache, wreq, wreply, wgot, wproved>>

H(s, v) == [sequence |-> s, value |-> v]

\* The rival for the second head does not advance past the head it expects.
TheRequests ==
  {[exp |-> None, head |-> H(1, va)],
   [exp |-> H(1, None), head |-> H(2, va)],
   [exp |-> H(1, va), head |-> H(1, vb)]}

W == INSTANCE GraphWriter WITH
       Writers <- {w1, w2}, Witnesses <- {x1, x2}, MinAgree <- 2, Getters <- {},
       Landed <- 1, MaxAttempts <- 2, Values <- {va, vb}, Requests <- TheRequests,
       log <- wlog, view <- wview, submitted <- wsubmitted, held <- wheld,
       cache <- wcache, req <- wreq, reply <- wreply, got <- wgot, proved <- wproved

\* The new inventory puts a large block between the old rows.
TheRows == [s \in {"old", "new"} |-> IF s = "old" THEN <<a, c, e>> ELSE <<a, b, c, d, e>>]
TheSize == [x \in Cids |-> IF x = b THEN 2 ELSE 1]

\* The second document of g2 was committed by a writer that did not check it.
TheGraphs == <<g1, g2>>
TheBad == {<<g2, 2>>}

LanesInit == lane \in Lanes /\ Init /\ PullerInit /\ FollowerInit /\ W!Init

OnReplica == lane = "replica" /\ Next /\ UNCHANGED <<pullerVars, followerVars, writerVars, lane>>
OnPuller == lane = "puller" /\ PullerNext /\ UNCHANGED <<vars, followerVars, writerVars, lane>>
OnFollower == lane = "follower" /\ FollowerNext /\ UNCHANGED <<vars, pullerVars, writerVars, lane>>
OnWriter == lane = "writer" /\ W!Next /\ UNCHANGED <<vars, pullerVars, followerVars, lane>>

\* The fairness of each lane's own specification.
LanesSpec ==
  /\ LanesInit
  /\ [][OnReplica \/ OnPuller \/ OnFollower \/ OnWriter]_
       <<vars, pullerVars, followerVars, writerVars, lane>>
  /\ WF_vars(lane = "replica" /\ Replicate)
  /\ WF_vars(lane = "replica" /\ FinishRollover)
  /\ WF_pullerVars(lane = "puller" /\ Pull)
  /\ WF_followerVars(lane = "follower" /\ Follow)
  /\ \A w \in {w1, w2} : WF_writerVars(lane = "writer" /\ W!Write(w))
-----------------------------------------------------------------------------
(* What the replicator, the follower and the writers come to in the end:    *)
(* InventoryEndsHeld, RollbacksAreRepaired and PostIsAnswered.              *)
ReplicaLaneEnds == lane = "replica" => InventoryEndsHeld
FollowerLaneRepairs == lane = "follower" => RollbacksAreRepaired
WriterLaneAnswers == lane = "writer" => W!PostIsAnswered
=============================================================================
