----------------------------- MODULE LargeExport -----------------------------
(***************************************************************************)
(* export_large_lake_batch.py: a recovery CAR of every row that is too      *)
(* large for a CAR range is made (export_large_lake_block.py) and copied to *)
(* two nodes.  A bounded run under a lock, started again by an operator or  *)
(* a timer; a command on a node outlives the ssh it was given over, and     *)
(* finds the files of the next run under the same names.                    *)
(***************************************************************************)
EXTENDS Naturals, Sequences, FiniteSets

CONSTANTS
  LaneRows,     \* how many oversized rows the inventory has
  MaxNew,       \* --max-new
  MaxCuts       \* bound: runs that are killed or cut off from their node

ASSUME LargeExportAssumption ==
  LaneRows \in Nat \ {0} /\ MaxNew \in Nat \ {0} /\ MaxCuts \in Nat

VARIABLES
  localCars, localReceipts, \* the exporter's output directory
  partial,      \* node -> row -> its .partial: "none", "torn" or "whole"
  nodeCar,      \* node -> row -> the CAR itself, likewise
  noted,        \* rows, per node, whose .json.partial is there
  nodeReceipts, \* rows, per node, with a receipt
  publishers,   \* commands on the nodes: check the sum, move the two files
  bpc,          \* the step of the export batch
  brow,         \* the row it is at
  bnode,        \* the node it is at
  missing,      \* the nodes that lacked the row when they were asked
  target,       \* the file its scp is writing: "none", "partial", "car"
  fresh,        \* rows this run has mirrored
  mirrored,     \* history: rows a run has counted
  overtaken,    \* history: <<node, row>> whose CAR was moved by a command
                \*   that had checked an earlier file of that name
  cuts

exportVars == <<localCars, localReceipts, bpc, brow, bnode, missing, target,
                fresh, mirrored>>
remoteVars == <<partial, nodeCar, noted, nodeReceipts, publishers, overtaken>>
largeExportVars == <<exportVars, remoteVars, cuts>>

Nodes == <<"gad", "xavier">>
NodeNames == {"gad", "xavier"}
Rows == 1 .. LaneRows
Node == Nodes[bnode]

LargeExportInit ==
  /\ localCars = {} /\ localReceipts = {}
  /\ partial = [n \in NodeNames |-> [i \in Rows |-> "none"]]
  /\ nodeCar = [n \in NodeNames |-> [i \in Rows |-> "none"]]
  /\ noted = [n \in NodeNames |-> {}] /\ nodeReceipts = [n \in NodeNames |-> {}]
  /\ publishers = {}
  /\ bpc = "idle" /\ brow = 1 /\ bnode = 1 /\ missing = {} /\ target = "none"
  /\ fresh = {} /\ mirrored = {} /\ overtaken = {} /\ cuts = 0
-----------------------------------------------------------------------------
\* Mutant: a CAR counts without its receipt.
CarPresent(n, i) == nodeCar[n][i] # "none"

(* remote_status: a CAR without a receipt, or the other way round, counts   *)
(* as missing; a CAR that differs from its receipt refuses the batch.       *)
Present(n, i) == nodeCar[n][i] # "none" /\ i \in nodeReceipts[n]

Refuses(n, i) == Present(n, i) /\ nodeCar[n][i] = "torn"

\* local_status
LocalHalf(i) == (i \in localCars) # (i \in localReceipts)

ExportStart ==
  /\ bpc = "idle"
  /\ brow' = 1 /\ bnode' = 1 /\ missing' = {} /\ fresh' = {}
  /\ bpc' = "probe"
  /\ UNCHANGED <<localCars, localReceipts, target, mirrored, remoteVars, cuts>>

\* Both nodes are asked before anything is done for the row.
Probe ==
  /\ bpc = "probe"
  /\ missing' = missing \cup IF Present(Node, brow) THEN {} ELSE {Node}
  /\ \/ Refuses(Node, brow) /\ bpc' = "idle" /\ UNCHANGED bnode
     \/ ~Refuses(Node, brow) /\ bnode = 1 /\ bnode' = 2 /\ UNCHANGED bpc
     \/ ~Refuses(Node, brow) /\ bnode = 2 /\ bnode' = 1 /\ bpc' = "local"
  /\ UNCHANGED <<localCars, localReceipts, brow, target, fresh, mirrored,
                 remoteVars, cuts>>

NextRow ==
  /\ mirrored' = mirrored \cup {brow}
  /\ IF brow = LaneRows \/ Cardinality(fresh') >= MaxNew
       THEN bpc' = "idle" /\ UNCHANGED <<brow, bnode, missing>>
       ELSE bpc' = "probe" /\ brow' = brow + 1 /\ bnode' = 1 /\ missing' = {}

\* A row that both nodes have is skipped; half of a local pair refuses both.
CheckLocal ==
  /\ bpc = "local"
  /\ \/ /\ LocalHalf(brow) /\ bpc' = "idle"
        /\ UNCHANGED <<brow, bnode, missing, fresh, mirrored>>
     \/ /\ ~LocalHalf(brow) /\ missing = {}
        /\ UNCHANGED fresh
        /\ NextRow
     \/ /\ ~LocalHalf(brow) /\ missing # {}
        /\ bpc' = IF brow \in localCars THEN "node" ELSE "export"
        /\ UNCHANGED <<brow, bnode, missing, fresh, mirrored>>
  /\ UNCHANGED <<localCars, localReceipts, target, remoteVars, cuts>>

\* export_large_lake_block.export: the CAR is proved by a restore in a fresh repository, and linked
\* into place before its receipt.
LinkCar ==
  /\ bpc = "export"
  /\ localCars' = localCars \cup {brow}
  /\ bpc' = "link"
  /\ UNCHANGED <<localReceipts, brow, bnode, missing, target, fresh, mirrored,
                 remoteVars, cuts>>

LinkReceipt ==
  /\ bpc = "link"
  /\ localReceipts' = localReceipts \cup {brow}
  /\ bpc' = "node"
  /\ UNCHANGED <<localCars, brow, bnode, missing, target, fresh, mirrored,
                 remoteVars, cuts>>

\* Mutant: a .partial that is there is not written over.
BeginCopyOnce ==
  /\ bpc = "node"
  /\ IF Node \in missing /\ partial[Node][brow] = "none"
       THEN /\ partial' = [partial EXCEPT ![Node][brow] = "torn"]
            /\ target' = "partial" /\ bpc' = "copy"
       ELSE bpc' = (IF Node \in missing THEN "idle" ELSE "check")
            /\ UNCHANGED <<partial, target>>
  /\ UNCHANGED <<localCars, localReceipts, brow, bnode, missing, fresh,
                 mirrored, nodeCar, noted, nodeReceipts, publishers, overtaken,
                 cuts>>

\* put_remote: scp opens the .partial of this name, whoever made it.
BeginCopy ==
  /\ bpc = "node"
  /\ IF Node \in missing
       THEN /\ partial' = [partial EXCEPT ![Node][brow] = "torn"]
            /\ target' = "partial" /\ bpc' = "copy"
       ELSE bpc' = "check" /\ UNCHANGED <<partial, target>>
  /\ UNCHANGED <<localCars, localReceipts, brow, bnode, missing, fresh,
                 mirrored, nodeCar, noted, nodeReceipts, publishers, overtaken,
                 cuts>>

\* A publisher may have renamed the file that is being written.
EndCopy ==
  /\ bpc = "copy"
  /\ \/ /\ target = "partial"
        /\ partial' = [partial EXCEPT ![Node][brow] = "whole"] /\ UNCHANGED nodeCar
     \/ /\ target = "car"
        /\ nodeCar' = [nodeCar EXCEPT ![Node][brow] = "whole"] /\ UNCHANGED partial
  /\ target' = "none"
  /\ bpc' = "note"
  /\ UNCHANGED <<localCars, localReceipts, brow, bnode, missing, fresh,
                 mirrored, noted, nodeReceipts, publishers,
                 overtaken, cuts>>

CopyReceipt ==
  /\ bpc = "note"
  /\ noted' = [noted EXCEPT ![Node] = @ \cup {brow}]
  /\ publishers' = publishers \cup
       {[node |-> Node, row |-> brow, at |-> "sum", ward |-> TRUE, born |-> cuts]}
  /\ bpc' = "wait"
  /\ UNCHANGED <<localCars, localReceipts, brow, bnode, missing, target, fresh,
                 mirrored, partial, nodeCar, nodeReceipts, overtaken,
                 cuts>>

\* The node is asked again before the row counts.
CheckNode ==
  /\ bpc = "check"
  /\ \/ /\ nodeCar[Node][brow] = "whole" /\ brow \in nodeReceipts[Node]
        /\ \/ /\ bnode = 1 /\ bnode' = 2 /\ bpc' = "node"
              /\ UNCHANGED <<brow, missing, fresh, mirrored>>
           \/ /\ bnode = 2
              /\ fresh' = fresh \cup {brow}
              /\ NextRow
     \/ /\ ~(nodeCar[Node][brow] = "whole" /\ brow \in nodeReceipts[Node])
        /\ bpc' = "idle"
        /\ UNCHANGED <<brow, bnode, missing, fresh, mirrored>>
  /\ UNCHANGED <<localCars, localReceipts, target, remoteVars, cuts>>
-----------------------------------------------------------------------------
(* sha256sum -c && mv .partial && mv .json.partial: each step only after    *)
(* the one before, on the files that are there by then.                     *)
PublisherStep(p, at) ==
  /\ publishers' = (publishers \ {p}) \cup {[p EXCEPT !.at = at]}
  /\ UNCHANGED bpc

PublisherEnds(p, step) ==
  /\ publishers' = publishers \ {p}
  /\ bpc' = IF p.ward THEN step ELSE bpc

CheckSum(p) ==
  /\ p.at = "sum"
  /\ IF partial[p.node][p.row] = "whole"
       THEN PublisherStep(p, "car") ELSE PublisherEnds(p, "idle")
  /\ UNCHANGED <<partial, nodeCar, noted, nodeReceipts, target, overtaken>>

MoveCar(p) ==
  /\ p.at = "car"
  /\ LET file == partial[p.node][p.row] IN
     \/ /\ file # "none"
        /\ nodeCar' = [nodeCar EXCEPT ![p.node][p.row] = file]
        /\ partial' = [partial EXCEPT ![p.node][p.row] = "none"]
        /\ overtaken' = overtaken \cup IF file = "torn" THEN {<<p.node, p.row>>} ELSE {}
        /\ target' = IF target = "partial" /\ p.node = Node /\ p.row = brow
                       THEN "car" ELSE target
        /\ PublisherStep(p, "receipt")
     \/ /\ file = "none"
        /\ PublisherEnds(p, "idle")
        /\ UNCHANGED <<partial, nodeCar, target, overtaken>>
  /\ UNCHANGED <<noted, nodeReceipts>>

MoveReceipt(p) ==
  /\ p.at = "receipt"
  /\ IF p.row \in noted[p.node]
       THEN /\ nodeReceipts' = [nodeReceipts EXCEPT ![p.node] = @ \cup {p.row}]
            /\ noted' = [noted EXCEPT ![p.node] = @ \ {p.row}]
            /\ PublisherEnds(p, "check")
       ELSE PublisherEnds(p, "idle") /\ UNCHANGED <<noted, nodeReceipts>>
  /\ UNCHANGED <<partial, nodeCar, target, overtaken>>

PublishOn(p) ==
  /\ CheckSum(p) \/ MoveCar(p) \/ MoveReceipt(p)
  /\ UNCHANGED <<localCars, localReceipts, brow, bnode, missing, fresh,
                 mirrored, cuts>>

\* The run is killed or its ssh is cut: scp stops, the publisher does not.
BatchDies ==
  /\ bpc # "idle" /\ cuts < MaxCuts
  /\ bpc' = "idle" /\ target' = "none"
  /\ publishers' = {[p EXCEPT !.ward = FALSE] : p \in publishers}
  /\ cuts' = cuts + 1
  /\ UNCHANGED <<localCars, localReceipts, brow, bnode, missing, fresh,
                 mirrored, overtaken, partial, nodeCar, noted, nodeReceipts>>
-----------------------------------------------------------------------------
Exporter ==
  \/ ExportStart \/ Probe \/ CheckLocal \/ LinkCar \/ LinkReceipt
  \/ BeginCopy \/ EndCopy \/ CopyReceipt \/ CheckNode

Publishers == \E p \in publishers : PublishOn(p)

LargeExportNext == Exporter \/ Publishers \/ BatchDies

LargeExportSpec == LargeExportInit /\ [][LargeExportNext]_largeExportVars

LargeExportFairSpec ==
  LargeExportSpec /\ WF_largeExportVars(Exporter) /\ WF_largeExportVars(Publishers)
-----------------------------------------------------------------------------
(* A row that a batch has counted as mirrored is on both nodes from then    *)
(* on, with its receipt; and its CAR there is whole, unless a command whose *)
(* ssh had been cut moved a file it had not checked over it.                *)
MirroredOnBothNodes ==
  \A i \in mirrored, n \in NodeNames :
    /\ i \in nodeReceipts[n]
    /\ \/ nodeCar[n][i] = "whole"
       \/ nodeCar[n][i] = "torn" /\ <<n, i>> \in overtaken

(* The states in which a batch refuses a row until an operator acts: half   *)
(* of a pair, or a torn CAR that an orphaned command has moved to the side  *)
(* of a receipt.                                                            *)
ExportStuck ==
  \E i \in Rows :
    \/ LocalHalf(i) /\ ~(bpc = "link" /\ brow = i)
    \/ \E n \in NodeNames :
         Refuses(n, i) /\ ~(target = "car" /\ n = Node /\ brow = i)

(* When nothing dies any more, every row reaches both nodes, or the batch   *)
(* is stuck for good.                                                       *)
MirroringEnds == <>(mirrored = Rows) \/ <>[]ExportStuck
=============================================================================
