----------------------------- MODULE HostProofs -----------------------------
(***************************************************************************)
(* What the programs beside the lake keep, each on a state of its own: the  *)
(* export and the import of large blocks, the origin bridge and the router  *)
(* standby.                                                                 *)
(***************************************************************************)
EXTENDS LargeExport, LargeImport, OriginBridge, RouterStandby, HeadFollower,
        FiniteSetTheorems, WellFoundedInduction, TLAPS

-----------------------------------------------------------------------------
(* The export of large blocks                                               *)

Files == {"none", "torn", "whole"}
Publisher ==
  [node: NodeNames, row: Rows, at: {"sum", "car", "receipt"}, ward: BOOLEAN, born: Nat]

LargeExportTypeOK ==
  /\ partial \in [NodeNames -> [Rows -> Files]] /\ nodeCar \in [NodeNames -> [Rows -> Files]]
  /\ noted \in [NodeNames -> SUBSET Rows] /\ nodeReceipts \in [NodeNames -> SUBSET Rows]
  /\ publishers \subseteq Publisher
  /\ bpc \in {"idle", "probe", "local", "export", "link", "node", "copy", "note", "wait",
              "check"}
  /\ brow \in Rows /\ bnode \in {1, 2} /\ missing \subseteq NodeNames
  /\ target \in {"none", "partial", "car"}
  /\ mirrored \subseteq Rows /\ cuts \in Nat

\* What the batch knows of the row it is at: a node that was not found missing
\* has it, and the first node has it once the batch is at the second.
BatchKnows ==
  /\ bpc = "probe" /\ bnode = 2 => "gad" \in missing \/ Present("gad", brow)
  /\ bpc \in {"local", "export", "link"} => bnode = 1
  /\ bpc = "local" => \A n \in NodeNames : n \in missing \/ Present(n, brow)
  /\ bpc \in {"node", "copy", "note", "wait", "check"} /\ bnode = 2 => Present("gad", brow)

\* A batch waits for one command at most, and does nothing else meanwhile.
WardInv ==
  /\ \A p \in publishers : p.ward => bpc = "wait"
  /\ \A p, q \in publishers : p.ward /\ q.ward => p = q

TornIsOvertaken ==
  \A n \in NodeNames, i \in Rows : nodeCar[n][i] = "torn" => <<n, i>> \in overtaken

LargeExportInv ==
  /\ LargeExportTypeOK /\ BatchKnows /\ WardInv /\ TornIsOvertaken
  /\ \A i \in mirrored, n \in NodeNames : Present(n, i)

LEMMA NodeIsNamed ==
  ASSUME bnode \in {1, 2}
  PROVE  Node \in NodeNames /\ (bnode = 1 => Node = "gad") /\ (bnode = 2 => Node = "xavier")
  BY DEF Node, Nodes, NodeNames

LEMMA LargeExportInitial == LargeExportInit => LargeExportInv
  BY LargeExportAssumption
     DEF LargeExportInit, LargeExportInv, LargeExportTypeOK, BatchKnows, WardInv, Present,
         TornIsOvertaken, NodeNames, Rows, Files

\* A row that a node has, it has for good, and a torn CAR is an overtaken one.
LEMMA FilesGrow ==
  ASSUME LargeExportTypeOK, LargeExportNext
  PROVE  /\ \A n \in NodeNames, i \in Rows : Present(n, i) => Present(n, i)'
         /\ TornIsOvertaken => TornIsOvertaken'
<1> USE DEF LargeExportTypeOK, Present, TornIsOvertaken
<1>0. Node \in NodeNames
  BY NodeIsNamed
<1>1. CASE Exporter /\ ~EndCopy
  <2>1. UNCHANGED <<nodeCar, nodeReceipts, overtaken>>
    BY <1>1 DEF Exporter, ExportStart, Probe, CheckLocal, LinkCar, LinkReceipt, BeginCopy,
                CopyReceipt, CheckNode, remoteVars
  <2> QED
    BY <2>1
<1>2. CASE EndCopy
  <2>1. /\ UNCHANGED <<nodeReceipts, overtaken>>
        /\ nodeCar' = nodeCar \/ nodeCar' = [nodeCar EXCEPT ![Node][brow] = "whole"]
    BY <1>2 DEF EndCopy
  <2>2. \A n \in NodeNames, i \in Rows :
          nodeCar'[n][i] = nodeCar[n][i] \/ nodeCar'[n][i] = "whole"
    BY <1>0, <2>1
  <2> QED
    BY <2>1, <2>2
<1>3. ASSUME NEW p \in publishers, PublishOn(p)
      PROVE  /\ \A n \in NodeNames, i \in Rows : Present(n, i) => Present(n, i)'
             /\ TornIsOvertaken => TornIsOvertaken'
  <2>0. p.node \in NodeNames /\ p.row \in Rows
    BY DEF Publisher
  <2>1. CASE CheckSum(p)
    BY <2>1 DEF CheckSum
  <2>2. CASE MoveCar(p)
    <3>1. UNCHANGED nodeReceipts
      BY <2>2 DEF MoveCar
    <3>2. CASE UNCHANGED <<nodeCar, overtaken>>
      BY <3>1, <3>2
    <3>3. CASE /\ partial[p.node][p.row] # "none"
               /\ nodeCar' = [nodeCar EXCEPT ![p.node][p.row] = partial[p.node][p.row]]
               /\ overtaken' = overtaken \cup IF partial[p.node][p.row] = "torn"
                                                THEN {<<p.node, p.row>>} ELSE {}
      <4>1. \A n \in NodeNames, i \in Rows :
              nodeCar'[n][i] = IF n = p.node /\ i = p.row THEN partial[p.node][p.row]
                               ELSE nodeCar[n][i]
        BY <2>0, <3>3
      <4> QED
        BY <3>1, <3>3, <4>1
    <3> QED
      BY <2>2, <3>2, <3>3 DEF MoveCar
  <2>3. CASE MoveReceipt(p)
    <3>1. UNCHANGED <<nodeCar, overtaken>>
      BY <2>3 DEF MoveReceipt
    <3>2. \A n \in NodeNames : nodeReceipts[n] \subseteq nodeReceipts'[n]
      BY <2>0, <2>3 DEF MoveReceipt
    <3> QED
      BY <3>1, <3>2
  <2> QED
    BY <1>3, <2>1, <2>2, <2>3 DEF PublishOn
<1>4. CASE BatchDies
  BY <1>4 DEF BatchDies
<1> QED
  BY <1>1, <1>2, <1>3, <1>4 DEF LargeExportNext, Publishers

LEMMA NextRowTyped ==
  ASSUME LargeExportTypeOK, NextRow
  PROVE  /\ mirrored' = mirrored \cup {brow} /\ mirrored' \subseteq Rows
         /\ brow' \in Rows /\ bnode' \in {1, 2} /\ missing' \subseteq NodeNames
         /\ bpc' \in {"idle", "probe"} /\ (bpc' = "probe" => bnode' = 1)
<1>1. CASE UNCHANGED <<brow, bnode, missing>> /\ bpc' = "idle"
  BY <1>1 DEF LargeExportTypeOK, NextRow
<1>2. CASE brow # LaneRows /\ bpc' = "probe" /\ brow' = brow + 1 /\ bnode' = 1 /\ missing' = {}
  BY <1>2, LargeExportAssumption DEF LargeExportTypeOK, NextRow, Rows
<1> QED
  BY <1>1, <1>2 DEF NextRow

\* What is left to show of a step once the files are known to grow.
LEMMA ExportStep ==
  ASSUME LargeExportInv, LargeExportNext,
         LargeExportTypeOK', BatchKnows', WardInv',
         mirrored' = mirrored
           \/ (mirrored' = mirrored \cup {brow} /\ \A n \in NodeNames : Present(n, brow))
  PROVE  LargeExportInv'
<1>1. TornIsOvertaken'
  BY FilesGrow DEF LargeExportInv
<1>2. \A i \in mirrored', n \in NodeNames : Present(n, i)'
  <2>1. \A i \in mirrored', n \in NodeNames : Present(n, i)
    BY DEF LargeExportInv
  <2>2. mirrored' \subseteq Rows
    BY DEF LargeExportTypeOK
  <2> QED
    BY <2>1, <2>2, FilesGrow DEF LargeExportInv
<1> QED
  BY <1>1, <1>2 DEF LargeExportInv

LEMMA ExporterKeepsInv == ASSUME LargeExportInv, Exporter PROVE LargeExportInv'
<1> USE LargeExportAssumption
<1>0. /\ LargeExportTypeOK /\ BatchKnows /\ WardInv /\ LargeExportNext
      /\ Node \in NodeNames /\ (bnode = 1 => Node = "gad") /\ (bnode = 2 => Node = "xavier")
      /\ NodeNames = {"gad", "xavier"}
      /\ \A n \in NodeNames, i \in Rows : Present(n, i) => Present(n, i)'
  BY NodeIsNamed, FilesGrow DEF LargeExportInv, LargeExportTypeOK, LargeExportNext, NodeNames
<1>1. CASE ExportStart
  <2>1. /\ bpc = "idle" /\ bpc' = "probe" /\ brow' = 1 /\ bnode' = 1 /\ missing' = {}
        /\ UNCHANGED <<target, mirrored, partial, nodeCar, noted, nodeReceipts, publishers,
                       cuts>>
    BY <1>1 DEF ExportStart, remoteVars
  <2>2. LargeExportTypeOK' /\ BatchKnows' /\ WardInv'
    BY <1>0, <2>1 DEF LargeExportTypeOK, BatchKnows, WardInv, Rows
  <2> QED
    BY <1>0, <2>1, <2>2, ExportStep
<1>2. CASE Probe
  <2>1. /\ bpc = "probe" /\ missing' = missing \cup IF Present(Node, brow) THEN {} ELSE {Node}
        /\ \/ bpc' = "idle" /\ bnode' = bnode
           \/ bnode = 1 /\ bnode' = 2 /\ bpc' = bpc
           \/ bnode = 2 /\ bnode' = 1 /\ bpc' = "local"
        /\ UNCHANGED <<brow, target, mirrored, partial, nodeCar, noted, nodeReceipts,
                       publishers, cuts>>
    BY <1>2 DEF Probe, remoteVars
  <2>2. LargeExportTypeOK' /\ WardInv'
    BY <1>0, <2>1 DEF LargeExportTypeOK, WardInv
  <2>3. Node \in missing' \/ Present(Node, brow)
    BY <2>1
  <2>4. BatchKnows'
    BY <1>0, <2>1, <2>3 DEF BatchKnows, LargeExportTypeOK
  <2> QED
    BY <1>0, <2>1, <2>2, <2>4, ExportStep
<1>3. CASE CheckLocal
  <2>1. /\ bpc = "local" /\ UNCHANGED <<target, partial, nodeCar, noted, nodeReceipts,
                                         publishers, cuts>>
        /\ \/ /\ bpc' = "idle" /\ UNCHANGED <<brow, bnode, missing, mirrored>>
           \/ /\ bpc' \in {"node", "export"} /\ UNCHANGED <<brow, bnode, missing, mirrored>>
           \/ missing = {} /\ NextRow
    BY <1>3 DEF CheckLocal, remoteVars
  <2>2. \/ mirrored' = mirrored
        \/ mirrored' = mirrored \cup {brow} /\ \A n \in NodeNames : Present(n, brow)
    BY <1>0, <2>1 DEF BatchKnows, NextRow
  <2>3. /\ mirrored' \subseteq Rows /\ brow' \in Rows /\ bnode' \in {1, 2}
        /\ missing' \subseteq NodeNames /\ bpc' \in {"idle", "probe", "node", "export"}
        /\ bpc' = "probe" => bnode' = 1
        /\ bpc' = "export" => bnode' = 1
    BY <1>0, <2>1, NextRowTyped DEF LargeExportTypeOK, BatchKnows
  <2>4. LargeExportTypeOK'
    BY <1>0, <2>1, <2>3 DEF LargeExportTypeOK
  <2>5. BatchKnows' /\ WardInv'
    <3>1. bpc' = "node" => bnode' = 1
      BY <1>0, <2>1, NextRowTyped DEF BatchKnows
    <3>2. BatchKnows'
      BY <2>3, <3>1 DEF BatchKnows
    <3>3. WardInv'
      BY <1>0, <2>1 DEF WardInv
    <3> QED
      BY <3>2, <3>3
  <2> QED
    BY <1>0, <2>2, <2>4, <2>5, ExportStep
<1>4. CASE LinkCar \/ LinkReceipt
  <2>1. /\ \/ bpc = "export" /\ bpc' = "link"
           \/ bpc = "link" /\ bpc' = "node"
        /\ UNCHANGED <<brow, bnode, missing, target, mirrored, partial, nodeCar, noted,
                       nodeReceipts, publishers, cuts>>
    BY <1>4 DEF LinkCar, LinkReceipt, remoteVars
  <2>2. LargeExportTypeOK' /\ BatchKnows' /\ WardInv'
    BY <1>0, <2>1 DEF LargeExportTypeOK, BatchKnows, WardInv
  <2> QED
    BY <1>0, <2>1, <2>2, ExportStep
<1>5. CASE BeginCopy \/ EndCopy
  <2>1. /\ bpc \in {"node", "copy"} /\ bpc' \in {"copy", "check", "note"}
        /\ UNCHANGED <<brow, bnode, missing, mirrored, noted, nodeReceipts, publishers, cuts>>
    BY <1>5 DEF BeginCopy, EndCopy
  <2>2. /\ target' \in {"none", "partial", "car"}
        /\ partial' \in [NodeNames -> [Rows -> Files]]
        /\ nodeCar' \in [NodeNames -> [Rows -> Files]]
    <3>1. CASE BeginCopy
      BY <1>0, <3>1 DEF BeginCopy, LargeExportTypeOK, Files
    <3>2. CASE EndCopy
      BY <1>0, <3>2 DEF EndCopy, LargeExportTypeOK, Files
    <3> QED
      BY <1>5, <3>1, <3>2
  <2>3. LargeExportTypeOK' /\ WardInv'
    BY <1>0, <2>1, <2>2 DEF LargeExportTypeOK, WardInv
  <2>4. BatchKnows'
    BY <1>0, <2>1 DEF LargeExportTypeOK, BatchKnows
  <2> QED
    BY <1>0, <2>1, <2>3, <2>4, ExportStep
<1>6. CASE CopyReceipt
  <2> DEFINE new == [node |-> Node, row |-> brow, at |-> "sum", ward |-> TRUE, born |-> cuts]
  <2>1. /\ bpc = "note" /\ bpc' = "wait" /\ publishers' = publishers \cup {new}
        /\ noted' = [noted EXCEPT ![Node] = @ \cup {brow}]
        /\ UNCHANGED <<brow, bnode, missing, target, mirrored, partial, nodeCar, nodeReceipts,
                       cuts>>
    BY <1>6 DEF CopyReceipt
  <2>2. new \in Publisher
    BY <1>0 DEF Publisher, LargeExportTypeOK
  <2>3. LargeExportTypeOK'
    BY <1>0, <2>1, <2>2 DEF LargeExportTypeOK
  <2>4. WardInv'
    BY <1>0, <2>1 DEF WardInv
  <2>5. BatchKnows'
    BY <1>0, <2>1 DEF BatchKnows, LargeExportTypeOK
  <2> QED
    BY <1>0, <2>1, <2>3, <2>4, <2>5, ExportStep
<1>7. CASE CheckNode
  <2>1. /\ bpc = "check" /\ UNCHANGED <<target, partial, nodeCar, noted, nodeReceipts,
                                         publishers, cuts>>
        /\ \/ /\ bpc' = "idle" /\ UNCHANGED <<brow, bnode, missing, mirrored>>
           \/ /\ Present(Node, brow) /\ bnode = 1 /\ bnode' = 2 /\ bpc' = "node"
              /\ UNCHANGED <<brow, missing, mirrored>>
           \/ Present(Node, brow) /\ bnode = 2 /\ NextRow
    BY <1>7 DEF CheckNode, remoteVars, Present
  <2>2. \/ mirrored' = mirrored
        \/ mirrored' = mirrored \cup {brow} /\ \A n \in NodeNames : Present(n, brow)
    BY <1>0, <2>1 DEF BatchKnows, NextRow
  <2>3. /\ mirrored' \subseteq Rows /\ brow' \in Rows /\ bnode' \in {1, 2}
        /\ missing' \subseteq NodeNames /\ bpc' \in {"idle", "probe", "node", "export"}
        /\ bpc' = "probe" => bnode' = 1
        /\ bpc' = "export" => bnode' = 1
    BY <1>0, <2>1, NextRowTyped DEF LargeExportTypeOK, BatchKnows
  <2>4. LargeExportTypeOK'
    BY <1>0, <2>1, <2>3 DEF LargeExportTypeOK
  <2>5. BatchKnows' /\ WardInv'
    <3>1. bpc' = "node" => Present("gad", brow)' /\ bpc' # "export"
      BY <1>0, <2>1, NextRowTyped DEF LargeExportTypeOK
    <3>2. BatchKnows'
      BY <2>3, <3>1 DEF BatchKnows
    <3>3. WardInv'
      BY <1>0, <2>1 DEF WardInv
    <3> QED
      BY <3>2, <3>3
  <2> QED
    BY <1>0, <2>2, <2>4, <2>5, ExportStep
<1> QED
  BY <1>1, <1>2, <1>3, <1>4, <1>5, <1>6, <1>7 DEF Exporter

\* A command on a node moves on, or ends; the batch that waits for it, waits for
\* no other.
LEMMA PublisherKeepsInv ==
  ASSUME LargeExportInv, NEW p \in publishers, PublishOn(p) PROVE LargeExportInv'
<1>0. /\ LargeExportTypeOK /\ BatchKnows /\ WardInv /\ LargeExportNext
      /\ p \in Publisher /\ p.node \in NodeNames /\ p.row \in Rows
      /\ \A n \in NodeNames, i \in Rows : Present(n, i) => Present(n, i)'
      /\ "gad" \in NodeNames
  <2>1. LargeExportNext /\ LargeExportTypeOK
    BY DEF LargeExportInv, LargeExportNext, Publishers
  <2> QED
    BY <2>1, FilesGrow DEF LargeExportInv, LargeExportTypeOK, Publisher, NodeNames
<1>1. UNCHANGED <<brow, bnode, missing, mirrored, cuts>>
  BY DEF PublishOn
<1>2. \/ \E at \in {"car", "receipt"} : PublisherStep(p, at)
      \/ \E goes \in {"idle", "check"} : PublisherEnds(p, goes)
  BY DEF PublishOn, CheckSum, MoveCar, MoveReceipt
<1>3. /\ publishers' \subseteq Publisher /\ WardInv'
      /\ bpc' = bpc \/ (bpc = "wait" /\ bpc' \in {"idle", "check"})
  <2>1. ASSUME NEW at \in {"car", "receipt"}, PublisherStep(p, at)
        PROVE  publishers' \subseteq Publisher /\ WardInv' /\ bpc' = bpc
    <3> DEFINE q == [p EXCEPT !.at = at]
    <3>1. q \in Publisher /\ q.ward = p.ward
      BY <1>0 DEF Publisher
    <3>2. publishers' = (publishers \ {p}) \cup {q} /\ bpc' = bpc
      BY <2>1 DEF PublisherStep
    <3> HIDE DEF q
    <3> QED
      BY <1>0, <3>1, <3>2 DEF WardInv, LargeExportTypeOK
  <2>2. ASSUME NEW goes \in {"idle", "check"}, PublisherEnds(p, goes)
        PROVE  /\ publishers' \subseteq Publisher /\ WardInv'
               /\ bpc' = bpc \/ (bpc = "wait" /\ bpc' \in {"idle", "check"})
    BY <1>0, <2>2 DEF PublisherEnds, WardInv, LargeExportTypeOK
  <2> QED
    BY <1>2, <2>1, <2>2
<1>4. /\ partial' \in [NodeNames -> [Rows -> Files]] /\ nodeCar' \in [NodeNames -> [Rows -> Files]]
      /\ noted' \in [NodeNames -> SUBSET Rows] /\ nodeReceipts' \in [NodeNames -> SUBSET Rows]
      /\ target' \in {"none", "partial", "car"}
  <2>0. /\ p.node \in NodeNames /\ p.row \in Rows /\ target \in {"none", "partial", "car"}
        /\ partial \in [NodeNames -> [Rows -> Files]] /\ nodeCar \in [NodeNames -> [Rows -> Files]]
        /\ noted \in [NodeNames -> SUBSET Rows] /\ nodeReceipts \in [NodeNames -> SUBSET Rows]
    BY <1>0 DEF LargeExportTypeOK
  <2>1. CASE CheckSum(p)
    BY <2>0, <2>1 DEF CheckSum
  <2>2. CASE MoveCar(p)
    <3>1. PICK n \in NodeNames, i \in Rows, file \in Files :
            n = p.node /\ i = p.row /\ file = partial[n][i]
      BY <2>0
    <3>2. /\ \/ UNCHANGED <<partial, nodeCar>>
             \/ /\ nodeCar' = [nodeCar EXCEPT ![n][i] = file]
                /\ partial' = [partial EXCEPT ![n][i] = "none"]
          /\ UNCHANGED <<noted, nodeReceipts>> /\ target' \in {target, "car"}
      BY <2>2, <3>1 DEF MoveCar
    <3>3. ASSUME nodeCar' = [nodeCar EXCEPT ![n][i] = file]
          PROVE  nodeCar' \in [NodeNames -> [Rows -> Files]]
      BY <2>0, <3>3
    <3>4. ASSUME partial' = [partial EXCEPT ![n][i] = "none"]
          PROVE  partial' \in [NodeNames -> [Rows -> Files]]
      <4>1. "none" \in Files
        BY DEF Files
      <4> QED
        BY <2>0, <3>4, <4>1
    <3> QED
      BY <2>0, <3>2, <3>3, <3>4
  <2>3. CASE MoveReceipt(p)
    <3>1. /\ \/ UNCHANGED <<noted, nodeReceipts>>
             \/ /\ nodeReceipts' = [nodeReceipts EXCEPT ![p.node] = @ \cup {p.row}]
                /\ noted' = [noted EXCEPT ![p.node] = @ \ {p.row}]
          /\ UNCHANGED <<partial, nodeCar, target>>
      BY <2>3 DEF MoveReceipt
    <3>2. /\ noted' \in [NodeNames -> SUBSET Rows]
          /\ nodeReceipts' \in [NodeNames -> SUBSET Rows]
      BY <2>0, <3>1
    <3> QED
      BY <2>0, <3>1, <3>2
  <2> QED
    BY <2>1, <2>2, <2>3 DEF PublishOn
<1>5. LargeExportTypeOK'
  BY <1>0, <1>1, <1>3, <1>4 DEF LargeExportTypeOK
<1>6. BatchKnows'
  BY <1>0, <1>1, <1>3 DEF BatchKnows, LargeExportTypeOK
<1> QED
  BY <1>0, <1>1, <1>3, <1>5, <1>6, ExportStep

LEMMA BatchDiesKeepsInv == ASSUME LargeExportInv, BatchDies PROVE LargeExportInv'
<1>1. /\ bpc' = "idle" /\ target' = "none" /\ cuts' = cuts + 1
      /\ publishers' = {[p EXCEPT !.ward = FALSE] : p \in publishers}
      /\ UNCHANGED <<brow, bnode, missing, mirrored, partial, nodeCar, noted, nodeReceipts>>
  BY DEF BatchDies
<1>2. LargeExportTypeOK /\ LargeExportNext
  BY DEF LargeExportInv, LargeExportNext
<1>3. \A q \in publishers' : q \in Publisher /\ ~q.ward
  <2>1. ASSUME NEW p \in Publisher
        PROVE  [p EXCEPT !.ward = FALSE] \in Publisher /\ ~[p EXCEPT !.ward = FALSE].ward
    BY DEF Publisher
  <2> QED
    BY <1>1, <1>2, <2>1 DEF LargeExportTypeOK
<1>4. LargeExportTypeOK' /\ BatchKnows' /\ WardInv'
  BY <1>1, <1>2, <1>3 DEF LargeExportTypeOK, BatchKnows, WardInv
<1> QED
  BY <1>1, <1>2, <1>4, ExportStep

(* The invariant of the export: what the batch knows of the row it is at,   *)
(* that it waits for one command, and that a torn CAR is an overtaken one.  *)
THEOREM LargeExportInvariant == LargeExportSpec => []LargeExportInv
<1>1. LargeExportInv /\ [LargeExportNext]_largeExportVars => LargeExportInv'
  <2> SUFFICES ASSUME LargeExportInv, [LargeExportNext]_largeExportVars
               PROVE  LargeExportInv'
    OBVIOUS
  <2>1. CASE UNCHANGED largeExportVars
    BY <2>1 DEF largeExportVars, exportVars, remoteVars, LargeExportInv, LargeExportTypeOK,
                BatchKnows, WardInv, TornIsOvertaken, Present
  <2>2. CASE LargeExportNext
    BY <2>2, ExporterKeepsInv, PublisherKeepsInv, BatchDiesKeepsInv
       DEF LargeExportNext, Publishers
  <2> QED
    BY <2>1, <2>2
<1> QED
  BY <1>1, LargeExportInitial, PTL DEF LargeExportSpec

(* A row that export_large_lake_batch.py has counted as mirrored is on both *)
(* nodes with its receipt for good, and its CAR is torn only where a cut-   *)
(* off command moved a file over it: for any rows, runs, kills and cuts.    *)
THEOREM MirroredRowsAreOnBoth == LargeExportSpec => []MirroredOnBothNodes
<1>1. LargeExportInv => MirroredOnBothNodes
  BY DEF LargeExportInv, MirroredOnBothNodes, LargeExportTypeOK, Present, TornIsOvertaken, Files
<1> QED
  BY <1>1, LargeExportInvariant, PTL

-----------------------------------------------------------------------------
(* The import of large blocks, with any number of kills, collections and   *)
(* pins that another service releases                                       *)

LargeImportTypeOK ==
  /\ rootPins \subseteq LargeRow /\ originals \subseteq LargeRow
  /\ directPins \subseteq LargeRow /\ imports \subseteq LargeRow
  /\ icursor \in 0 .. LargeCount
  /\ ipc \in {"idle", "row", "root", "put", "pin", "stat", "receipt", "advance"}
  /\ ipc # "idle" => icursor < LargeCount

\* What the running batch knows of the row it is at: a step that was done
\* stands, or another service undid it.
ImportKnows ==
  /\ ipc \in {"put", "pin", "stat", "receipt"} => Irow \in rootPins
  /\ ipc = "receipt" => Irow \in directPins \cup loosened
  /\ ipc = "advance" => Irow \in imports
  /\ directPins \subseteq originals

LargeImportInv == LargeImportTypeOK /\ ImportKnows /\ ImportedIsKept

LEMMA LargeImportInitial == LargeImportInit => LargeImportInv
  BY LargeImportAssumption
     DEF LargeImportInit, LargeImportInv, LargeImportTypeOK, ImportKnows, ImportedIsKept,
         LargeRow, Irow

LEMMA ImportRowIsLarge == LargeImportTypeOK /\ ipc # "idle" => Irow \in LargeRow
  BY LargeImportAssumption DEF LargeImportTypeOK, LargeRow, Irow

\* The steps of the batch keep the invariant.
LEMMA ImporterKeepsInv == LargeImportInv /\ Importer => LargeImportInv'
<1> SUFFICES ASSUME LargeImportInv, Importer PROVE LargeImportInv'
  OBVIOUS
<1> USE LargeImportAssumption
<1> USE DEF LargeImportInv, LargeImportTypeOK, ImportKnows, ImportedIsKept, ImporterStep,
            Irow, LargeRow, filesVars
<1>1. CASE ImportStart
  BY <1>1 DEF ImportStart
<1>2. CASE ImportRow
  BY <1>2 DEF ImportRow
<1>3. CASE PinRoot
  BY <1>3, ImportRowIsLarge DEF PinRoot
<1>4. CASE PutOriginal
  BY <1>4, ImportRowIsLarge DEF PutOriginal
<1>5. CASE PinOriginal
  BY <1>5, ImportRowIsLarge DEF PinOriginal
<1>6. CASE CheckOriginal
  BY <1>6 DEF CheckOriginal
<1>7. CASE WriteImport
  BY <1>7, ImportRowIsLarge DEF WriteImport
<1>8. CASE AdvanceCursor
  <2>1. icursor' = icursor + 1 /\ icursor' \in 0 .. LargeCount
    BY <1>8 DEF AdvanceCursor
  <2>2. 1 .. icursor' \subseteq imports'
    BY <1>8, <2>1 DEF AdvanceCursor
  <2>3. ipc' \in {"row", "idle"} /\ (ipc' # "idle" => icursor' < LargeCount)
    BY <1>8, <2>1 DEF AdvanceCursor
  <2> QED
    BY <1>8, <2>1, <2>2, <2>3 DEF AdvanceCursor
<1> QED
  BY <1>1, <1>2, <1>3, <1>4, <1>5, <1>6, <1>7, <1>8 DEF Importer

\* So do the archive, a kill, the other service and the collector.
LEMMA ImportOthersKeepInv ==
  ASSUME LargeImportInv,
         \/ Archive \/ ImporterDies \/ Sweep
         \/ \E i \in LargeRow : Loosen(i)
  PROVE  LargeImportInv'
<1> USE DEF LargeImportInv, LargeImportTypeOK, ImportKnows, ImportedIsKept, Irow, LargeRow,
            filesVars
<1>1. CASE Archive
  BY <1>1 DEF Archive, ArchiveGrows
<1>2. CASE ImporterDies
  BY <1>2 DEF ImporterDies
<1>3. CASE Sweep
  BY <1>3 DEF Sweep
<1>4. ASSUME NEW i \in LargeRow, Loosen(i) PROVE LargeImportInv'
  BY <1>4 DEF Loosen
<1> QED
  BY <1>1, <1>2, <1>3, <1>4

(* The invariant of the import: its types, what a running batch knows, and  *)
(* ImportedIsKept.                                                          *)
THEOREM LargeImportInvariant == LargeImportSpec => []LargeImportInv
<1>1. LargeImportInv /\ [LargeImportNext]_largeImportVars => LargeImportInv'
  <2> SUFFICES ASSUME LargeImportInv, [LargeImportNext]_largeImportVars
               PROVE  LargeImportInv'
    OBVIOUS
  <2>1. CASE UNCHANGED largeImportVars
    BY <2>1 DEF largeImportVars, LargeImportInv, LargeImportTypeOK, ImportKnows,
                ImportedIsKept, Irow
  <2>2. CASE LargeImportNext
    BY <2>2, ImporterKeepsInv, ImportOthersKeepInv DEF LargeImportNext
  <2> QED
    BY <2>1, <2>2
<1> QED
  BY <1>1, LargeImportInitial, PTL DEF LargeImportSpec

(* A row with an import receipt is kept, and the checkpoint passes only     *)
(* such rows, in every run of import_large_lake_batch.py.                   *)
THEOREM ImportedRowsAreKept == LargeImportSpec => []ImportedIsKept
  BY LargeImportInvariant, PTL DEF LargeImportInv

-----------------------------------------------------------------------------
(* The bytes that a set of threads hold                                     *)

\* Induction over the naturals, as a fact about sets of them.
LEMMA AllNaturals ==
  ASSUME NEW T, 0 \in T, \A n \in Nat : n \in T => n + 1 \in T
  PROVE  Nat \subseteq T
<1> DEFINE Bad == Nat \ T
<1>1. SUFFICES ASSUME Bad # {} PROVE FALSE
  OBVIOUS
<1>2. Bad \subseteq Nat
  OBVIOUS
<1> HIDE DEF Bad
<1>3. PICK n \in Bad : \A m \in Bad : ~(<<m, n>> \in OpToRel(<, Nat))
  BY <1>1, <1>2, NatLessThanWellFounded, WFMin
<1>4. \A m \in Bad : ~(m < n)
  BY <1>2, <1>3 DEF OpToRel
<1>5. n \in Nat /\ n # 0 /\ n - 1 \in Nat
  BY <1>2 DEF Bad
<1>6. n - 1 \in T
  BY <1>4, <1>5 DEF Bad
<1>7. (n - 1) + 1 \in T
  BY <1>5, <1>6
<1> QED
  BY <1>5, <1>7 DEF Bad

Pick(s) == CHOOSE t \in s : TRUE

\* What MapThenSumSet adds up, for the threads of S that fetch the blocks c.
Bytes(g, c, s) == IF s = {} THEN 0 ELSE SizeOf[c[Pick(s)]] + g[s \ {Pick(s)}]
Adds(g, c, S) == g = [s \in SUBSET S |-> Bytes(g, c, s)]
BytesHeldBy(c, S) == (CHOOSE g : Adds(g, c, S))[S]

LEMMA SumIsBytesHeldBy == ASSUME NEW S PROVE MapThenSumSet(BytesOf, S) = BytesHeldBy(cid, S)
  BY Zenon DEF MapThenSumSet, MapThenFoldSet, BytesHeldBy, Adds, Bytes, Pick, BytesOf

LEMMA PickIsIn == ASSUME NEW s, s # {} PROVE Pick(s) \in s
  BY DEF Pick

LEMMA AddsExists == ASSUME NEW c, NEW S, IsFiniteSet(S) PROVE \E g : Adds(g, c, S)
<1> DEFINE D(n) == {s \in SUBSET S : Cardinality(s) =< n}
           T == {n \in Nat : \E g : g = [s \in D(n) |-> Bytes(g, c, s)]}
<1>1. \A s \in SUBSET S : IsFiniteSet(s) /\ Cardinality(s) \in Nat /\ Cardinality(s) =< Cardinality(S)
  BY FS_Subset, FS_CardinalityType
<1>2. 0 \in T
  <2> DEFINE g == [s \in D(0) |-> 0]
  <2>1. \A s \in D(0) : s = {}
    BY <1>1, FS_EmptySet
  <2>2. g = [s \in D(0) |-> Bytes(g, c, s)]
    BY <2>1 DEF Bytes
  <2> QED
    BY <2>2
<1>3. ASSUME NEW n \in Nat, n \in T PROVE n + 1 \in T
  <2>1. PICK g : g = [s \in D(n) |-> Bytes(g, c, s)]
    BY <1>3
  <2> DEFINE h == [s \in D(n + 1) |-> Bytes(g, c, s)]
  <2>2. ASSUME NEW s \in D(n + 1) PROVE Bytes(h, c, s) = Bytes(g, c, s)
    <3>1. CASE s = {}
      BY <3>1 DEF Bytes
    <3>2. CASE s # {}
      <4> DEFINE u == s \ {Pick(s)}
      <4>1. u \in D(n) /\ u \in D(n + 1)
        BY <1>1, <3>2, PickIsIn, FS_RemoveElement
      <4>2. h[u] = Bytes(g, c, u) /\ g[u] = Bytes(g, c, u)
        BY <2>1, <4>1
      <4> QED
        BY <3>2, <4>2 DEF Bytes
    <3> QED
      BY <3>1, <3>2
  <2>3. h = [s \in D(n + 1) |-> Bytes(h, c, s)]
    BY <2>2
  <2> HIDE DEF h
  <2>4. \E f : f = [s \in D(n + 1) |-> Bytes(f, c, s)]
    <3> WITNESS h
    <3> QED
      BY <2>3
  <2> QED
    BY <2>4
<1>4. Cardinality(S) \in T
  <2>1. Cardinality(S) \in Nat
    BY FS_CardinalityType
  <2> HIDE DEF T
  <2> QED
    BY <1>2, <1>3, <2>1, AllNaturals
<1>5. D(Cardinality(S)) = SUBSET S
  BY <1>1
<1> QED
  BY <1>4, <1>5 DEF Adds

\* The sums exist, whatever g is chosen; they are numbers.
LEMMA SumOfNone == ASSUME NEW c, NEW S, NEW g, Adds(g, c, S) PROVE g[{}] = 0
  BY DEF Adds, Bytes

LEMMA SumOfSome ==
  ASSUME NEW c, NEW S, NEW g, Adds(g, c, S), NEW s \in SUBSET S, s # {}
  PROVE  g[s] = SizeOf[c[Pick(s)]] + g[s \ {Pick(s)}]
  BY DEF Adds, Bytes

LEMMA FiniteParts ==
  ASSUME NEW S, IsFiniteSet(S), NEW s \in SUBSET S
  PROVE  /\ IsFiniteSet(s) /\ Cardinality(s) \in Nat
         /\ Cardinality(s) = 0 <=> s = {}
         /\ \A x \in s : Cardinality(s \ {x}) = Cardinality(s) - 1
  BY FS_Subset, FS_CardinalityType, FS_EmptySet, FS_RemoveElement

\* Two sums over threads that fetch the same blocks are equal.
LEMMA SumsAgree ==
  ASSUME NEW c, NEW d, NEW S, NEW U, NEW g, NEW h, Adds(g, c, S), Adds(h, d, U),
         IsFiniteSet(S), NEW R, R \subseteq S, R \subseteq U, \A t \in R : c[t] = d[t]
  PROVE  g[R] = h[R]
<1> DEFINE T == {n \in Nat : \A s \in SUBSET R : Cardinality(s) = n => g[s] = h[s]}
<1>1. 0 \in T
  <2>1. g[{}] = 0 /\ h[{}] = 0
    BY SumOfNone
  <2>2. \A s \in SUBSET R : Cardinality(s) = 0 => s = {}
    BY FiniteParts
  <2> QED
    BY <2>1, <2>2
<1>2. ASSUME NEW n \in Nat, n \in T PROVE n + 1 \in T
  <2> SUFFICES ASSUME NEW s \in SUBSET R, Cardinality(s) = n + 1 PROVE g[s] = h[s]
    OBVIOUS
  <2> DEFINE u == s \ {Pick(s)}
  <2>1. s # {} /\ Pick(s) \in s
    BY FiniteParts, PickIsIn
  <2>2. Cardinality(u) = n
    BY <2>1, FiniteParts
  <2>3. g[u] = h[u]
    BY <1>2, <2>2
  <2>4. s \in SUBSET S /\ s \in SUBSET U
    OBVIOUS
  <2>5. g[s] = SizeOf[c[Pick(s)]] + g[u] /\ h[s] = SizeOf[d[Pick(s)]] + h[u]
    BY <2>1, <2>4, SumOfSome
  <2>6. c[Pick(s)] = d[Pick(s)]
    BY <2>1
  <2> QED
    BY <2>3, <2>4, <2>5, <2>6
<1>3. Cardinality(R) \in Nat
  BY FiniteParts
<1>4. Nat \subseteq T
  <2> HIDE DEF T
  <2> QED
    BY <1>1, <1>2, AllNaturals
<1> QED
  BY <1>3, <1>4

LEMMA SumIsNat ==
  ASSUME NEW c, NEW S, NEW g, Adds(g, c, S), IsFiniteSet(S),
         \A t \in S : SizeOf[c[t]] \in Nat
  PROVE  \A s \in SUBSET S : g[s] \in Nat
<1> DEFINE T == {n \in Nat : \A s \in SUBSET S : Cardinality(s) = n => g[s] \in Nat}
<1>1. 0 \in T
  <2>1. g[{}] = 0 /\ \A s \in SUBSET S : Cardinality(s) = 0 => s = {}
    BY FiniteParts, SumOfNone
  <2> QED
    BY <2>1
<1>2. ASSUME NEW n \in Nat, n \in T PROVE n + 1 \in T
  <2> SUFFICES ASSUME NEW s \in SUBSET S, Cardinality(s) = n + 1 PROVE g[s] \in Nat
    OBVIOUS
  <2> DEFINE u == s \ {Pick(s)}
  <2>1. s # {} /\ Pick(s) \in s
    BY FiniteParts, PickIsIn
  <2>2. Cardinality(u) = n
    BY <2>1, FiniteParts
  <2>3. g[u] \in Nat /\ SizeOf[c[Pick(s)]] \in Nat
    BY <1>2, <2>1, <2>2
  <2>4. g[s] = SizeOf[c[Pick(s)]] + g[u]
    BY <2>1, SumOfSome
  <2> QED
    BY <2>3, <2>4
<1>3. Nat \subseteq T
  <2> HIDE DEF T
  <2> QED
    BY <1>1, <1>2, AllNaturals
<1> QED
  BY <1>3, FiniteParts

\* Any thread can be taken out of the sum.
LEMMA SumWithout ==
  ASSUME NEW c, NEW S, NEW g, Adds(g, c, S), IsFiniteSet(S),
         \A t \in S : SizeOf[c[t]] \in Nat
  PROVE  \A s \in SUBSET S : \A x \in s : g[s] = SizeOf[c[x]] + g[s \ {x}]
<1> DEFINE T == {n \in Nat : \A s \in SUBSET S :
                   Cardinality(s) = n => \A x \in s : g[s] = SizeOf[c[x]] + g[s \ {x}]}
<1>1. 0 \in T
  <2>1. \A s \in SUBSET S : Cardinality(s) = 0 => s = {}
    BY FiniteParts
  <2> QED
    BY <2>1
<1>2. ASSUME NEW n \in Nat, n \in T PROVE n + 1 \in T
  <2> SUFFICES ASSUME NEW s \in SUBSET S, Cardinality(s) = n + 1, NEW x \in s
               PROVE  g[s] = SizeOf[c[x]] + g[s \ {x}]
    OBVIOUS
  <2> DEFINE p == Pick(s)
             u == s \ {p}
             v == s \ {x}
             w == (s \ {p}) \ {x}
  <2>1. p \in s /\ g[s] = SizeOf[c[p]] + g[u]
    <3>1. s # {}
      OBVIOUS
    <3> QED
      BY <3>1, PickIsIn, SumOfSome
  <2>2. CASE p = x
    BY <2>1, <2>2
  <2>3. CASE p # x
    <3>1. Cardinality(u) = n /\ Cardinality(v) = n /\ x \in u /\ p \in v
      BY <2>1, <2>3, FiniteParts
    <3>2. u \in SUBSET S /\ v \in SUBSET S /\ w \in SUBSET S /\ v \ {p} = w
      OBVIOUS
    <3>3. g[u] = SizeOf[c[x]] + g[w]
      BY <1>2, <3>1, <3>2
    <3>4. g[v] = SizeOf[c[p]] + g[w]
      BY <1>2, <3>1, <3>2
    <3>5. g[w] \in Nat /\ SizeOf[c[x]] \in Nat /\ SizeOf[c[p]] \in Nat
      BY <2>1, <3>2, SumIsNat
    <3> HIDE DEF p, u, v, w
    <3>6. g[s] = SizeOf[c[x]] + g[v]
      BY <2>1, <3>3, <3>4, <3>5
    <3> QED
      BY <3>6 DEF v
  <2> QED
    BY <2>2, <2>3
<1>3. Nat \subseteq T
  <2> HIDE DEF T
  <2> QED
    BY <1>1, <1>2, AllNaturals
<1> QED
  BY <1>3, FiniteParts

\* What a sum over threads is, in terms of other sums.
LEMMA BytesAddUp ==
  ASSUME NEW c, NEW S, IsFiniteSet(S), \A t \in S : SizeOf[c[t]] \in Nat
  PROVE  /\ BytesHeldBy(c, S) \in Nat
         /\ BytesHeldBy(c, {}) = 0
         /\ \A x \in S : BytesHeldBy(c, S) = SizeOf[c[x]] + BytesHeldBy(c, S \ {x})
<1> DEFINE g == CHOOSE f : Adds(f, c, S)
           h == CHOOSE f : Adds(f, c, {})
<1>1. Adds(g, c, S)
  BY AddsExists
<1>2. Adds(h, c, {}) 
  BY AddsExists, FS_EmptySet
<1>3. BytesHeldBy(c, S) = g[S] /\ BytesHeldBy(c, {}) = h[{}]
  BY Zenon DEF BytesHeldBy
<1> HIDE DEF g, h
<1>4. g[S] \in Nat /\ h[{}] = 0
  BY <1>1, <1>2, SumIsNat, SumOfNone
<1>5. ASSUME NEW x \in S PROVE g[S] = SizeOf[c[x]] + BytesHeldBy(c, S \ {x})
  <2> DEFINE f == CHOOSE k : Adds(k, c, S \ {x})
  <2>1. IsFiniteSet(S \ {x})
    BY FS_Subset
  <2>2. Adds(f, c, S \ {x})
    BY <2>1, AddsExists
  <2>3. BytesHeldBy(c, S \ {x}) = f[S \ {x}]
    BY Zenon DEF BytesHeldBy
  <2> HIDE DEF f
  <2>4. g[S \ {x}] = f[S \ {x}]
    BY <1>1, <2>2, SumsAgree
  <2>5. g[S] = SizeOf[c[x]] + g[S \ {x}]
    BY <1>1, SumWithout
  <2> QED
    BY <2>3, <2>4, <2>5
<1> QED
  BY <1>3, <1>4, <1>5

LEMMA BytesAgree ==
  ASSUME NEW c, NEW d, NEW S, IsFiniteSet(S), \A t \in S : c[t] = d[t]
  PROVE  BytesHeldBy(c, S) = BytesHeldBy(d, S)
<1> DEFINE g == CHOOSE f : Adds(f, c, S)
           h == CHOOSE f : Adds(f, d, S)
<1>1. Adds(g, c, S) /\ Adds(h, d, S)
  BY AddsExists
<1>2. BytesHeldBy(c, S) = g[S] /\ BytesHeldBy(d, S) = h[S]
  BY Zenon DEF BytesHeldBy
<1> HIDE DEF g, h
<1>3. g[S] = h[S]
  BY <1>1, SumsAgree
<1> QED
  BY <1>2, <1>3

\* The same, of a thread that joins or leaves the others.
LEMMA BytesWith ==
  ASSUME NEW c, NEW S, NEW x, x \notin S, IsFiniteSet(S),
         \A t \in S \cup {x} : SizeOf[c[t]] \in Nat
  PROVE  BytesHeldBy(c, S \cup {x}) = BytesHeldBy(c, S) + SizeOf[c[x]]
<1>1. IsFiniteSet(S \cup {x}) /\ (S \cup {x}) \ {x} = S
  BY FS_AddElement
<1>2. BytesHeldBy(c, S \cup {x}) = SizeOf[c[x]] + BytesHeldBy(c, (S \cup {x}) \ {x})
  BY <1>1, BytesAddUp
<1>3. BytesHeldBy(c, S) \in Nat /\ SizeOf[c[x]] \in Nat
  BY BytesAddUp
<1>4. BytesHeldBy(c, S \cup {x}) = SizeOf[c[x]] + BytesHeldBy(c, S)
  BY <1>1, <1>2, Zenon
<1> QED
  BY <1>3, <1>4

-----------------------------------------------------------------------------
(* The origin bridge                                                        *)

BridgeTypeOK ==
  /\ used \in Nat
  /\ step \in [Clients -> {"idle", "acquire", "sleep", "token", "refresh", "request",
                           "release"}]
  /\ DOMAIN cid = Clients
  /\ \A t \in Clients : step[t] # "idle" => cid[t] \in Objects

\* BudgetIsExact, with the sum as a function of the blocks and the threads.
BudgetInv ==
  /\ used = BytesHeldBy(cid, Holding)
  /\ used <= Budget
  /\ \A t \in Clients : step[t] = "sleep" => used + BytesOf(t) > Budget

BridgeInv == BridgeTypeOK /\ BudgetInv

LEMMA BridgeInitial == BridgeInit => BridgeInv
<1> SUFFICES ASSUME BridgeInit PROVE BridgeInv
  OBVIOUS
<1>1. Holding = {}
  BY DEF BridgeInit, Holding
<1>2. BytesHeldBy(cid, {}) = 0
  BY BytesAddUp, FS_EmptySet
<1>3. BridgeTypeOK /\ used = 0 /\ \A t \in Clients : step[t] # "sleep"
  BY DEF BridgeInit, BridgeTypeOK
<1>4. used = BytesHeldBy(cid, Holding)
  BY <1>1, <1>2, <1>3, Zenon
<1> QED
  BY <1>3, <1>4, BridgeAssumption DEF BridgeInv, BudgetInv

\* The threads that hold a part of the budget are finitely many, and the
\* inventory lists what they fetch.
LEMMA HoldersAreCounted ==
  BridgeTypeOK => /\ IsFiniteSet(Holding) /\ Holding \subseteq Clients
                  /\ \A t \in Clients : step[t] # "idle" => SizeOf[cid[t]] \in Nat
                  /\ \A t \in Holding : step[t] # "idle"
  BY FS_Subset, BridgeAssumption DEF BridgeTypeOK, Holding

\* A step that takes nothing and gives nothing back.
LEMMA HoldersStay ==
  ASSUME BridgeInv, BridgeTypeOK', used' = used, Holding' = Holding,
         \A t \in Clients : step[t] # "idle" => cid'[t] = cid[t],
         \A t \in Clients : step'[t] = "sleep" => used + SizeOf[cid'[t]] > Budget
  PROVE  BridgeInv'
<1>1. IsFiniteSet(Holding) /\ \A t \in Holding : cid'[t] = cid[t]
  BY HoldersAreCounted DEF BridgeInv
<1>2. BytesHeldBy(cid', Holding) = BytesHeldBy(cid, Holding)
  BY <1>1, BytesAgree
<1>3. BytesHeldBy(cid', Holding') = used'
  BY <1>2, Zenon DEF BridgeInv, BudgetInv
<1>4. used' <= Budget
  BY DEF BridgeInv, BudgetInv
<1>5. \A t \in Clients : step'[t] = "sleep" => used' + BytesOf(t)' > Budget
  BY DEF BytesOf
<1> QED
  BY <1>3, <1>4, <1>5 DEF BridgeInv, BudgetInv

LEMMA AcquireKeepsInv == ASSUME NEW t \in Clients, BridgeInv, Acquire(t) PROVE BridgeInv'
<1>1. /\ used \in Nat /\ BytesOf(t) \in Nat /\ Budget \in Nat /\ cid' = cid
      /\ used = BytesHeldBy(cid, Holding) /\ used <= Budget /\ step[t] = "acquire"
  BY HoldersAreCounted, BridgeAssumption
     DEF BridgeInv, BudgetInv, BridgeTypeOK, Acquire, BytesOf
<1>2. BridgeTypeOK'
  BY <1>1 DEF BridgeInv, BridgeTypeOK, Acquire, Goto
<1>3. CASE used + BytesOf(t) > Budget
  <2>1. step' = [step EXCEPT ![t] = "sleep"] /\ used' = used
    BY <1>3 DEF Acquire, Goto
  <2>2. Holding' = Holding
    BY <1>1, <2>1 DEF Holding, BridgeInv, BridgeTypeOK
  <2>3. \A u \in Clients : step'[u] = "sleep" => used + SizeOf[cid'[u]] > Budget
    BY <1>1, <1>3, <2>1 DEF BridgeInv, BudgetInv, BridgeTypeOK, BytesOf
  <2> QED
    BY <1>1, <1>2, <2>1, <2>2, <2>3, HoldersStay
<1>4. CASE ~(used + BytesOf(t) > Budget)
  <2>1. step' = [step EXCEPT ![t] = "token"] /\ used' = used + BytesOf(t)
    BY <1>4 DEF Acquire, Goto
  <2>2. Holding' = Holding \cup {t} /\ t \notin Holding
    BY <1>1, <2>1 DEF Holding, BridgeInv, BridgeTypeOK
  <2>3. BytesHeldBy(cid, Holding \cup {t}) = BytesHeldBy(cid, Holding) + SizeOf[cid[t]]
    <3>1. IsFiniteSet(Holding) /\ \A u \in Holding \cup {t} : SizeOf[cid[u]] \in Nat
      BY <1>1, HoldersAreCounted DEF BridgeInv
    <3> QED
      BY <2>2, <3>1, BytesWith
  <2>4. BytesHeldBy(cid', Holding') = BytesHeldBy(cid, Holding \cup {t})
    BY <1>1, <2>2, Zenon
  <2>5. used' = BytesHeldBy(cid', Holding')
    BY <1>1, <2>1, <2>3, <2>4 DEF BytesOf
  <2>6. used' <= Budget
    BY <1>1, <1>4, <2>1
  <2>7. \A u \in Clients : step'[u] = "sleep" => used' + BytesOf(u)' > Budget
    <3> SUFFICES ASSUME NEW u \in Clients, step'[u] = "sleep"
                 PROVE  used' + SizeOf[cid[u]] > Budget
      BY <1>1 DEF BytesOf
    <3>1. step[u] = "sleep"
      BY <2>1 DEF BridgeInv, BridgeTypeOK
    <3>2. used + SizeOf[cid[u]] > Budget
      BY <3>1 DEF BridgeInv, BudgetInv, BytesOf
    <3>3. SizeOf[cid[u]] \in Nat
      BY <3>1, HoldersAreCounted DEF BridgeInv
    <3> QED
      BY <1>1, <2>1, <3>2, <3>3
  <2> QED
    BY <1>2, <2>5, <2>6, <2>7 DEF BridgeInv, BudgetInv
<1> QED
  BY <1>3, <1>4

LEMMA ReleaseKeepsInv ==
  ASSUME NEW t \in Clients, BridgeInv, ReleaseBudget(t) PROVE BridgeInv'
<1>1. /\ used' = used - BytesOf(t) /\ cid' = cid /\ step[t] = "release"
      /\ step' = [u \in Clients |-> IF u = t THEN "idle"
                                    ELSE IF step[u] = "sleep" THEN "acquire" ELSE step[u]]
  BY DEF ReleaseBudget
<1>2. Holding' = Holding \ {t} /\ t \in Holding
  BY <1>1 DEF Holding, BridgeInv, BridgeTypeOK
<1>3. IsFiniteSet(Holding) /\ \A u \in Holding : SizeOf[cid[u]] \in Nat
  BY HoldersAreCounted DEF BridgeInv
<1>4. IsFiniteSet(Holding \ {t}) /\ \A u \in Holding \ {t} : SizeOf[cid[u]] \in Nat
  BY <1>3, FS_Subset
<1>5. /\ BytesHeldBy(cid, Holding) = SizeOf[cid[t]] + BytesHeldBy(cid, Holding \ {t})
      /\ BytesHeldBy(cid, Holding \ {t}) \in Nat
  BY <1>2, <1>3, <1>4, BytesAddUp
<1>6. SizeOf[cid[t]] \in Nat /\ used = BytesHeldBy(cid, Holding) /\ used <= Budget
      /\ Budget \in Nat
  BY <1>2, <1>3, BridgeAssumption DEF BridgeInv, BudgetInv
<1>7. BytesHeldBy(cid', Holding') = BytesHeldBy(cid, Holding \ {t})
  BY <1>1, <1>2, Zenon
<1>8. used' = BytesHeldBy(cid', Holding') /\ used' \in Nat /\ used' <= Budget
  BY <1>1, <1>5, <1>6, <1>7 DEF BytesOf
<1>9. BridgeTypeOK' /\ \A u \in Clients : step'[u] # "sleep"
  BY <1>1, <1>8 DEF BridgeInv, BridgeTypeOK
<1> QED
  BY <1>8, <1>9 DEF BridgeInv, BudgetInv

\* The other steps leave the budget to those that hold it.
LEMMA OthersLeaveBudget ==
  ASSUME BridgeInv,
         \E t \in Clients :
           DoGet(t) \/ TakeToken(t) \/ RefreshToken(t) \/ RequestObject(t)
  PROVE  BridgeInv'
<1>1. ASSUME NEW t \in Clients, DoGet(t) PROVE BridgeInv'
  <2>1. PICK o \in Objects, s \in {"idle", "acquire"} :
          /\ cid' = [cid EXCEPT ![t] = o] /\ step' = [step EXCEPT ![t] = s]
          /\ used' = used /\ step[t] = "idle"
    BY <1>1 DEF DoGet, Goto
  <2>2. BridgeTypeOK'
    BY <2>1 DEF BridgeInv, BridgeTypeOK
  <2>3. Holding' = Holding
    BY <2>1 DEF BridgeInv, BridgeTypeOK, Holding
  <2>4. \A u \in Clients : step[u] # "idle" => cid'[u] = cid[u]
    BY <2>1 DEF BridgeInv, BridgeTypeOK
  <2>5. \A u \in Clients : step'[u] = "sleep" => used + SizeOf[cid'[u]] > Budget
    BY <2>1, <2>4 DEF BridgeInv, BridgeTypeOK, BudgetInv, BytesOf
  <2> QED
    BY <2>1, <2>2, <2>3, <2>4, <2>5, HoldersStay
<1>2. ASSUME NEW t \in Clients, TakeToken(t) \/ RefreshToken(t) \/ RequestObject(t)
      PROVE  BridgeInv'
  <2>1. PICK s \in {"token", "refresh", "request", "release"} :
          /\ step' = [step EXCEPT ![t] = s] /\ cid' = cid /\ used' = used
          /\ step[t] \in {"token", "refresh", "request"}
    BY <1>2 DEF TakeToken, RefreshToken, RequestObject, Goto
  <2>2. BridgeTypeOK'
    BY <2>1 DEF BridgeInv, BridgeTypeOK
  <2>3. Holding' = Holding
    BY <2>1 DEF BridgeInv, BridgeTypeOK, Holding
  <2>5. \A u \in Clients : step'[u] = "sleep" => used + SizeOf[cid'[u]] > Budget
    BY <2>1 DEF BridgeInv, BridgeTypeOK, BudgetInv, BytesOf
  <2> QED
    BY <2>1, <2>2, <2>3, <2>5, HoldersStay
<1> QED
  BY <1>1, <1>2

(* The invariant of the bridge: its types, and BudgetIsExact with the sum   *)
(* as a function of the blocks and the threads that hold them.              *)
THEOREM BridgeInvariant == BridgeSpec => []BridgeInv
<1>1. BridgeInv /\ UNCHANGED bridgeVars => BridgeInv'
  BY DEF bridgeVars, BridgeInv, BridgeTypeOK, BudgetInv, Holding, BytesOf
<1>2. BridgeInv /\ BridgeNext => BridgeInv'
  BY AcquireKeepsInv, ReleaseKeepsInv, OthersLeaveBudget DEF BridgeNext, Fetch
<1> QED
  BY <1>1, <1>2, BridgeInitial, PTL DEF BridgeSpec

(* The budget is what the running fetches hold, never more than the limit,  *)
(* and no thread sleeps beside room for it: BudgetIsExact, for any number   *)
(* of request threads and any sizes of blocks.                              *)
THEOREM BudgetStaysExact == BridgeSpec => []BudgetIsExact
<1>1. BridgeInv => BudgetIsExact
  <2> SUFFICES ASSUME BridgeInv PROVE BudgetIsExact
    OBVIOUS
  <2>1. MapThenSumSet(BytesOf, Holding) = BytesHeldBy(cid, Holding)
    BY SumIsBytesHeldBy
  <2>2. used = MapThenSumSet(BytesOf, Holding)
    BY <2>1, Zenon DEF BridgeInv, BudgetInv
  <2>3. used <= Budget
    BY DEF BridgeInv, BudgetInv
  <2>4. \A t \in Clients : step[t] = "sleep" => used + BytesOf(t) > Budget
    BY DEF BridgeInv, BudgetInv
  <2> QED
    BY <2>2, <2>3, <2>4, Zenon DEF BudgetIsExact
<1> QED
  BY <1>1, BridgeInvariant, PTL

-----------------------------------------------------------------------------
(* The router standby, with any number of changes of the gateways and of    *)
(* commands that fail                                                       *)

Hosts == {"none"} \cup Owners

StandbyTypeOK ==
  /\ mapping \in Hosts /\ found \in Hosts /\ owner \in Owners
  /\ option \in {"dry", "timer", "supervised"}
  /\ failures \in 0 .. 3 /\ count \in 0 .. 3
  /\ phase \in {"idle", "probe", "decide", "delete", "confirm none", "add",
                "confirm new", "rollback"}
  /\ mishaps \in Nat

\* What excuses an unmapped port.
Excused == excuse \cap {"lease expired", "check died", "delete failed",
                        "removal not listed", "rollback failed"} # {}

\* A mapping is deleted only to be replaced, and only under supervision; as
\* long as it is gone without an excuse, the check is on its way to a step
\* that adds the new owner or puts the old one back.
StandbyInv ==
  /\ StandbyTypeOK
  /\ phase = "delete" => option = "supervised"
  /\ phase \in {"delete", "confirm none"} => found \notin {"none", owner}
  /\ found # "none" /\ mapping = "none" =>
       Excused \/ (phase \in {"confirm none", "add", "rollback"} /\ found # owner)

LEMMA StandbyInitial == StandbyInit => StandbyInv
  BY DEF StandbyInit, StandbyInv, StandbyTypeOK, Hosts, Owners

\* A decision that deletes is a supervised one for another owner.
LEMMA CountCases ==
  ASSUME NEW c \in 0 .. 3 PROVE c = 0 \/ c \in 1 .. 2 \/ c = 3
  OBVIOUS

LEMMA DecideKeepsInv == StandbyInv /\ Decide => StandbyInv'
<1> SUFFICES ASSUME StandbyInv, Decide PROVE StandbyInv'
  OBVIOUS
<1> USE DEF StandbyInv, StandbyTypeOK, Hosts, Owners, Excused, Decide, world
<1>1. CASE ~Permitted
  BY <1>1
<1>2. CASE Permitted
  <2>1. /\ failures' = count
        /\ owner' = IF Decision = "restore" THEN "xavier" ELSE "gad"
        /\ phase' \in {"idle", "add", "delete"}
        /\ phase' = "delete" => /\ Decision \notin {"keep", "wait"}
                                /\ found \notin {"none", owner'}
    BY <1>2
  <2>2. /\ Decision \in {"restore", "keep", "wait", "refused", "takeover", "renew"}
        /\ Decision = "renew" => found = "gad"
    <3>1. count = 0 \/ count \in 1 .. 2 \/ count = 3
      <4> count \in 0 .. 3
        BY Zenon DEF StandbyInv, StandbyTypeOK
      <4> QED
        BY CountCases
    <3> QED
      BY <3>1 DEF Decision, Moves
  <2>3. phase' = "delete" => option = "supervised"
    BY <1>2, <2>1, <2>2 DEF Permitted
  <2>4. found # "none" /\ mapping = "none" => Excused
    OBVIOUS
  <2> QED
    BY <1>2, <2>1, <2>3, <2>4
<1> QED
  BY <1>1, <1>2

\* A step that leaves the decided values alone: what is to be shown of it.
LEMMA StandbyKeeps ==
  /\ StandbyInv
  /\ UNCHANGED <<option, failures, found, count, owner>>
  /\ mapping' \in Hosts /\ mishaps' \in Nat
  /\ phase' \in {"idle", "confirm none", "add", "confirm new", "rollback"}
  /\ phase' = "confirm none" => found \notin {"none", owner}
  /\ found # "none" /\ mapping' = "none" =>
       Excused' \/ (phase' \in {"confirm none", "add", "rollback"} /\ found # owner)
  => StandbyInv'
  BY DEF StandbyInv, StandbyTypeOK

LEMMA MishapExcuses ==
  ASSUME NEW what, Mishap(what), mishaps \in Nat
  PROVE  /\ mishaps' \in Nat
         /\ Excused => Excused'
         /\ what \in {"lease expired", "check died", "delete failed",
                     "removal not listed", "rollback failed"} => Excused'
<1>1. mishaps' = mishaps + 1 /\ excuse' = excuse \cup {what}
  BY DEF Mishap
<1>2. mishaps' \in Nat
  BY <1>1
<1>3. Excused => Excused'
  BY <1>1, Zenon DEF Excused
<1>4. what \in {"lease expired", "check died", "delete failed",
               "removal not listed", "rollback failed"} => Excused'
  BY <1>1, Zenon DEF Excused
<1> QED
  BY <1>2, <1>3, <1>4

LEMMA NoMishapExcuses ==
  NoMishap => (mishaps \in Nat => mishaps' \in Nat) /\ (Excused => Excused')
  BY DEF NoMishap, Excused

\* The steps that talk to the router.
LEMMA RouterKeepsInv ==
  ASSUME StandbyInv, DeleteOld \/ ConfirmRemoved \/ AddNew \/ ConfirmNew \/ PutBack
  PROVE  StandbyInv'
<1>1. /\ mapping \in Hosts /\ found \in Hosts /\ owner \in Hosts \ {"none"}
      /\ mishaps \in Nat /\ "none" \in Hosts
      /\ phase \in {"delete", "confirm none"} => found \notin {"none", owner}
      /\ found # "none" /\ mapping = "none" =>
           Excused \/ (phase \in {"confirm none", "add", "rollback"} /\ found # owner)
  BY DEF StandbyInv, StandbyTypeOK, Hosts, Owners
<1>2. CASE DeleteOld
  <2>1. /\ UNCHANGED <<option, failures, found, count, owner>>
        /\ mapping' \in Hosts /\ mishaps' \in Nat
        /\ Excused => Excused'
        /\ phase' \in {"idle", "confirm none", "add", "confirm new", "rollback"}
    BY <1>1, <1>2, NoMishapExcuses, MishapExcuses DEF DeleteOld, check, world
  <2>2. phase' = "confirm none" => found \notin {"none", owner}
    BY <1>1, <1>2 DEF DeleteOld
  <2>3. found # "none" /\ mapping' = "none" =>
          Excused' \/ (phase' \in {"confirm none", "add", "rollback"} /\ found # owner)
    BY <1>1, <1>2, <2>1, MishapExcuses DEF DeleteOld
  <2> QED
    BY <1>1, <2>1, <2>2, <2>3, StandbyKeeps
<1>3. CASE ConfirmRemoved
  <2>1. /\ UNCHANGED <<option, failures, found, count, owner>>
        /\ mapping' \in Hosts /\ mishaps' \in Nat
        /\ Excused => Excused'
        /\ phase' \in {"idle", "confirm none", "add", "confirm new", "rollback"}
    BY <1>1, <1>3, NoMishapExcuses, MishapExcuses DEF ConfirmRemoved, check, world
  <2>2. phase' = "confirm none" => found \notin {"none", owner}
    BY <1>1, <1>3 DEF ConfirmRemoved
  <2>3. found # "none" /\ mapping' = "none" =>
          Excused' \/ (phase' \in {"confirm none", "add", "rollback"} /\ found # owner)
    BY <1>1, <1>3, <2>1, MishapExcuses DEF ConfirmRemoved
  <2> QED
    BY <1>1, <2>1, <2>2, <2>3, StandbyKeeps
<1>4. CASE AddNew
  <2>1. /\ UNCHANGED <<option, failures, found, count, owner>>
        /\ mapping' \in Hosts /\ mishaps' \in Nat
        /\ Excused => Excused'
        /\ phase' \in {"idle", "confirm none", "add", "confirm new", "rollback"}
    BY <1>1, <1>4, NoMishapExcuses, MishapExcuses DEF AddNew, check, world, Free
  <2>2. phase' = "confirm none" => found \notin {"none", owner}
    BY <1>1, <1>4 DEF AddNew
  <2>3. found # "none" /\ mapping' = "none" =>
          Excused' \/ (phase' \in {"confirm none", "add", "rollback"} /\ found # owner)
    BY <1>1, <1>4, <2>1, MishapExcuses DEF AddNew, Free
  <2> QED
    BY <1>1, <2>1, <2>2, <2>3, StandbyKeeps
<1>5. CASE ConfirmNew
  <2>1. /\ UNCHANGED <<option, failures, found, count, owner>>
        /\ mapping' \in Hosts /\ mishaps' \in Nat
        /\ Excused => Excused'
        /\ phase' \in {"idle", "confirm none", "add", "confirm new", "rollback"}
    BY <1>1, <1>5, NoMishapExcuses, MishapExcuses DEF ConfirmNew, check, world
  <2>2. phase' = "confirm none" => found \notin {"none", owner}
    BY <1>1, <1>5 DEF ConfirmNew
  <2>3. found # "none" /\ mapping' = "none" =>
          Excused' \/ (phase' \in {"confirm none", "add", "rollback"} /\ found # owner)
    BY <1>1, <1>5, <2>1, MishapExcuses DEF ConfirmNew
  <2> QED
    BY <1>1, <2>1, <2>2, <2>3, StandbyKeeps
<1>6. CASE PutBack
  <2>1. /\ UNCHANGED <<option, failures, found, count, owner>>
        /\ mapping' \in Hosts /\ mishaps' \in Nat
        /\ Excused => Excused'
        /\ phase' \in {"idle", "confirm none", "add", "confirm new", "rollback"}
    BY <1>1, <1>6, NoMishapExcuses, MishapExcuses DEF PutBack, check, world, Free
  <2>2. phase' = "confirm none" => found \notin {"none", owner}
    BY <1>1, <1>6 DEF PutBack
  <2>3. found # "none" /\ mapping' = "none" =>
          Excused' \/ (phase' \in {"confirm none", "add", "rollback"} /\ found # owner)
    BY <1>1, <1>6, <2>1, MishapExcuses DEF PutBack, Free
  <2> QED
    BY <1>1, <2>1, <2>2, <2>3, StandbyKeeps
<1> QED
  BY <1>2, <1>3, <1>4, <1>5, <1>6

LEMMA StandbyStepKeepsInv == StandbyInv /\ StandbyNext => StandbyInv'
<1> SUFFICES ASSUME StandbyInv, StandbyNext PROVE StandbyInv'
  OBVIOUS
<1>1. CASE BeginCheck
  BY <1>1 DEF BeginCheck, StandbyInv, StandbyTypeOK, Hosts, Owners, Excused, world
<1>2. CASE ProbePrimary
  <2>1. /\ UNCHANGED <<mapping, up, listening, option, failures, found, owner, mishaps>>
        /\ Excused' = Excused /\ phase = "probe" /\ phase' = "decide"
    BY <1>2 DEF ProbePrimary, world, Excused
  <2>2. count' \in 0 .. 3
    BY <1>2 DEF ProbePrimary, StandbyInv, StandbyTypeOK
  <2> QED
    BY <2>1, <2>2 DEF StandbyInv, StandbyTypeOK
<1>3. CASE CheckDies
  <2>1. StandbyTypeOK' /\ Excused' /\ phase' = "idle"
    BY <1>3, MishapExcuses DEF CheckDies, StandbyInv, StandbyTypeOK, world, check, world
  <2> QED
    BY <2>1 DEF StandbyInv
<1>4. CASE XavierRenews
  BY <1>4 DEF XavierRenews, StandbyInv, StandbyTypeOK, Hosts, Owners, world, check, world
<1>5. CASE LeaseExpires
  <2>1. StandbyTypeOK' /\ Excused' /\ UNCHANGED <<phase, option, found, owner>>
    BY <1>5, MishapExcuses
       DEF LeaseExpires, StandbyInv, StandbyTypeOK, Hosts, world, check, world
  <2> QED
    BY <2>1 DEF StandbyInv
<1>6. CASE WorldTurns
  <2>1. StandbyTypeOK'
    BY <1>6 DEF WorldTurns, StandbyInv, StandbyTypeOK, Owners, check, world
  <2>2. phase' = "delete" => option' = "supervised"
    BY <1>6 DEF WorldTurns, StandbyInv
  <2> QED
    BY <1>6, <2>1, <2>2 DEF WorldTurns, StandbyInv, Excused, check, world
<1> QED
  BY <1>1, <1>2, <1>3, <1>4, <1>5, <1>6, DecideKeepsInv, RouterKeepsInv
     DEF StandbyNext, CheckStep

(* The invariant of the check.                                              *)
THEOREM StandbyInvariant == StandbySpec => []StandbyInv
<1>1. StandbyInv /\ UNCHANGED routerVars => StandbyInv'
  BY DEF StandbyInv, StandbyTypeOK, Excused, routerVars
<1> QED
  BY <1>1, StandbyInitial, StandbyStepKeepsInv, PTL DEF StandbySpec

(* A check strands the endpoint only through a failed deletion, an          *)
(* unconfirmed removal or a failed roll-back (NotStranded).                 *)
THEOREM ChecksDoNotStrand == StandbySpec => []NotStranded
<1>1. StandbyInv => NotStranded
  BY DEF StandbyInv, NotStranded, Excused
<1> QED
  BY <1>1, StandbyInvariant, PTL

(* Without --allow-router-cutover no check takes the port from its owner    *)
(* (UnattendedKeepsOwner).                                                  *)
THEOREM TimersKeepTheOwner == StandbySpec => UnattendedKeepsOwner
<1>1. ASSUME StandbyInv, StandbyNext, phase' # phase, mapping # "none",
             mapping' # mapping
      PROVE  option = "supervised"
  <2> USE <1>1 DEF StandbyInv, Free
  <2>1. CASE DeleteOld
    BY <2>1 DEF DeleteOld
  <2>2. CASE AddNew
    BY <2>2 DEF AddNew
  <2>3. CASE PutBack
    BY <2>3 DEF PutBack
  <2>4. CASE LeaseExpires
    BY <2>4 DEF LeaseExpires
  <2> QED
    BY <2>1, <2>2, <2>3, <2>4
       DEF StandbyNext, CheckStep, BeginCheck, ProbePrimary, Decide, ConfirmRemoved,
           ConfirmNew, CheckDies, XavierRenews, WorldTurns
<1>2. StandbyInv /\ [StandbyNext]_routerVars =>
        [phase' # phase /\ mapping # "none" /\ mapping' # mapping
           => option = "supervised"]_routerVars
  BY <1>1 DEF routerVars
<1> QED
  BY <1>2, StandbyInvariant, PTL DEF StandbySpec, UnattendedKeepsOwner

-----------------------------------------------------------------------------
(* The follower of the heads in R2                                          *)

\* Whatever is on its way to R2 was committed, and the follower's own puts are
\* of heads that replace another one.
HeadsInv ==
  /\ ingaHead \in Nat /\ tries \in 0 .. 3
  /\ fstep \in {"idle", "compare", "again", "recheck", "put"}
  /\ r2 \in 0 .. ingaHead /\ mine \in 0 .. ingaHead
  /\ copies \subseteq 1 .. ingaHead /\ puts \subseteq 2 .. ingaHead
  /\ fstep = "put" => tries < 3 /\ mine \in puts
  /\ puts # {} => r2 # 0

\* R2 keeps showing a head once it has one.
R2StaysServed == [r2 # 0 => r2' # 0]_r2

LEMMA HeadsStep ==
  ASSUME HeadsInv, FollowerNext \/ UNCHANGED followerVars
  PROVE  HeadsInv' /\ R2StaysServed
<1> USE DEF HeadsInv, R2StaysServed
<1>1. CASE CommitHead
  <2>1. /\ ingaHead' = ingaHead + 1 /\ copies' = copies \cup {ingaHead + 1}
        /\ UNCHANGED <<r2, puts, fstep, mine, tries>>
    BY <1>1 DEF CommitHead
  <2> QED
    BY <2>1
<1>2. ASSUME NEW h \in copies, CopyHead(h) PROVE HeadsInv' /\ R2StaysServed
  BY <1>2 DEF CopyHead
<1>3. CASE ReadInga
  BY <1>3 DEF ReadInga
<1>4. CASE Compare
  BY <1>4 DEF Compare
<1>5. CASE Recheck
  <2>1. CASE tries >= 3 \/ ~IngaAhead
    BY <1>5, <2>1 DEF Recheck
  <2>2. CASE ~(tries >= 3 \/ ~IngaAhead)
    <3>1. /\ fstep' = "put" /\ puts' = puts \cup {mine}
          /\ UNCHANGED <<ingaHead, r2, copies, mine, tries>>
          /\ tries < 3 /\ 0 < r2 /\ r2 < mine
      BY <1>5, <2>2 DEF Recheck, IngaAhead
    <3>2. mine \in 2 .. ingaHead
      BY <3>1
    <3> QED
      BY <3>1, <3>2
  <2> QED
    BY <2>1, <2>2
<1>6. ASSUME NEW h \in puts, PutLands(h)
      PROVE  HeadsInv' /\ R2StaysServed
  <2>1. /\ r2' = h /\ puts' = puts \ {h} /\ UNCHANGED <<ingaHead, copies, mine>>
        /\ h \in 2 .. ingaHead
    BY <1>6 DEF PutLands
  <2>3. r2' # 0 /\ r2' \in 0 .. ingaHead /\ puts' \subseteq 2 .. ingaHead
    BY <2>1
  <2>4. CASE fstep = "put" /\ h = mine
    BY <1>6, <2>1, <2>3, <2>4 DEF PutLands
  <2>5. CASE ~(fstep = "put" /\ h = mine)
    BY <1>6, <2>1, <2>3, <2>5 DEF PutLands
  <2> QED
    BY <2>4, <2>5
<1>7. CASE Unmeasurable
  BY <1>7 DEF Unmeasurable
<1>8. CASE UNCHANGED followerVars
  BY <1>8 DEF followerVars
<1> QED
  BY <1>1, <1>2, <1>3, <1>4, <1>5, <1>6, <1>7, <1>8 DEF FollowerNext, Follow

(* The invariant of the follower: R2 never shows a head that inga has not   *)
(* committed, whatever the Worker and late puts do to each other.           *)
THEOREM FollowerInvariant == FollowerSpec => []HeadsInv
<1>1. FollowerInit => HeadsInv
  BY DEF FollowerInit, HeadsInv
<1>2. HeadsInv /\ [FollowerNext]_followerVars => HeadsInv'
  BY HeadsStep
<1> QED
  BY <1>1, <1>2, PTL DEF FollowerSpec

(* r2_head_follower.cljk beside the Worker's copies: once R2 shows a head,   *)
(* every later one is a committed head too, also when it is an older one.   *)
THEOREM R2NeverLosesItsHead == FollowerSpec => [][r2 # 0 => r2' \in 1 .. ingaHead']_r2
<1>1. HeadsInv /\ [FollowerNext]_followerVars =>
        HeadsInv' /\ [r2 # 0 => r2' \in 1 .. ingaHead']_r2
  <2> SUFFICES ASSUME HeadsInv, [FollowerNext]_followerVars
               PROVE  HeadsInv' /\ [r2 # 0 => r2' \in 1 .. ingaHead']_r2
    OBVIOUS
  <2>1. HeadsInv' /\ R2StaysServed
    BY HeadsStep
  <2>2. r2' \in 0 .. ingaHead'
    BY <2>1 DEF HeadsInv
  <2>3. r2' # 0 => r2' \in 1 .. ingaHead'
    BY <2>1, <2>2 DEF HeadsInv
  <2> QED
    BY <2>1, <2>3 DEF R2StaysServed
<1> QED
  BY <1>1, FollowerInvariant, PTL DEF FollowerSpec
=============================================================================
