--------------------------- MODULE LakeNodeProofs ---------------------------
(***************************************************************************)
(* What a storage node keeps, and what the reader and the audit may rely on *)
(* while it changes under them: for any ranges, limits and rows, any number *)
(* of kills, releases and ticks, and any number of requests and threads.    *)
(***************************************************************************)
EXTENDS LakeReader, LakeAudit, LakeReadback, FiniteSetTheorems, TLAPS

NodeTypeOK ==
  /\ blocks \subseteq Row /\ roots \subseteq RowRange /\ receipts \subseteq Kinds \X RowRange
  /\ direct \subseteq Row /\ recovered \subseteq Row /\ raw \subseteq Row
  /\ stamps \in [Kinds -> Nat] /\ clock \in Nat /\ \A k \in Kinds : stamps[k] =< clock
  /\ ncursor \in 0 .. NativeEnd
  /\ npc \in {"idle", "fetch", "receipt", "checkpoint"}
  /\ npc # "idle" => nrng \in RowRange /\ nrng[1] = ncursor /\ nrng[2] \in 0 .. NativeEnd

\* What stands behind a receipt, unless another service let it go: the root of
\* its range, or the recovery root and the direct pin of its one row.
Backed(rc) ==
  IF rc[1] = "large"
    THEN /\ rc[2][2] = rc[2][1] + 1
         /\ rc[2][1] \in recovered \cup released /\ rc[2][1] \in direct \cup released
    ELSE rc[2] \in roots \/ RowsOf(rc[2]) \subseteq released

\* What the running native mirror knows of its batch, and what its checkpoint
\* stands for.
NativeInv ==
  /\ npc = "receipt" => nrng \in roots \/ RowsOf(nrng) \subseteq released
  /\ npc = "checkpoint" => <<"native", nrng>> \in receipts
  /\ \A i \in Row : i < ncursor =>
       \E r \in RowRange : i \in RowsOf(r) /\ <<"native", r>> \in receipts

NodeInv ==
  /\ NodeTypeOK
  /\ Pinned \subseteq blocks
  /\ \A rc \in receipts : Backed(rc)
  /\ NativeInv

\* What no step of the node does: a receipt and a row of the raw store stay,
\* and a pin goes only when another service releases it.
CustodyGrows ==
  /\ receipts \subseteq receipts' /\ released \subseteq released' /\ raw \subseteq raw'
  /\ direct \subseteq direct' \cup released'
  /\ recovered \subseteq recovered' \cup released'
  /\ \A r \in roots : r \in roots' \/ RowsOf(r) \subseteq released'

-----------------------------------------------------------------------------
(* Rows and ranges                                                          *)

LEMMA RangeRows == ASSUME NEW r \in RowRange PROVE RowsOf(r) \subseteq Row
  BY ImportAssumption DEF RowRange, RowsOf, Row

LEMMA LinkedRows == \A R, i : i \in Linked(R) <=> \E r \in R : i \in RowsOf(r)
  BY DEF Linked

LEMMA OneRow ==
  ASSUME NEW i \in Row
  PROVE  <<i, i + 1>> \in RowRange /\ <<i, i + 1>>[1] = i /\ <<i, i + 1>>[2] = i + 1
  BY ImportAssumption DEF Row, RowRange

-----------------------------------------------------------------------------
(* Custody                                                                  *)

LEMMA NodeStepGrows == NodeNext => CustodyGrows
<1> SUFFICES ASSUME NodeNext PROVE CustodyGrows
  OBVIOUS
<1> USE DEF CustodyGrows, keptVars, importVars, nativeVars
<1>1. CASE Native
  <2>1. CASE NativeStart
    BY <2>1 DEF NativeStart
  <2>2. CASE NativeFetch
    BY <2>2 DEF NativeFetch
  <2>3. CASE NativePin
    BY <2>3 DEF NativePin, PinRange
  <2>4. CASE NativeReceipt
    BY <2>4 DEF NativeReceipt, Publish
  <2>5. CASE NativeCheckpoint
    BY <2>5 DEF NativeCheckpoint
  <2> QED
    BY <1>1, <2>1, <2>2, <2>3, <2>4, <2>5 DEF Native
<1>2. CASE NativeDies \/ CollectNode \/ Tick
  BY <1>2 DEF NativeDies, CollectNode, Tick
<1>3. ASSUME NEW r \in RowRange, PinCar(r) \/ ReceiptCar(r) \/ ReleaseRoot(r)
      PROVE  CustodyGrows
  BY <1>3 DEF PinCar, PinRange, ReceiptCar, Publish, ReleaseRoot, Release
<1>4. ASSUME NEW i \in Row, PinRecovery(i) \/ Rehydrate(i) \/ ReceiptLarge(i)
      PROVE  CustodyGrows
  BY <1>4 DEF PinRecovery, Rehydrate, ReceiptLarge, Publish
<1>5. ASSUME NEW i \in Row,
             PinDirect(i) \/ PutRaw(i) \/ ReleaseDirect(i) \/ ReleaseRecovery(i)
      PROVE  CustodyGrows
  BY <1>5 DEF PinDirect, PutRaw, ReleaseDirect, ReleaseRecovery, Release
<1> QED
  BY <1>1, <1>2, <1>3, <1>4, <1>5 DEF NodeNext

\* What was pinned or released, and what was kept or released, stays so.
LEMMA KeptGrows ==
  ASSUME CustodyGrows, Pinned \subseteq blocks, (Pinned \subseteq blocks)'
  PROVE  /\ (Pinned \cup released) \subseteq (Pinned \cup released)'
         /\ (Kept \cup released) \subseteq (Kept \cup released)'
<1>1. Linked(roots) \subseteq Linked(roots') \cup released'
  BY LinkedRows DEF CustodyGrows
<1>2. (Pinned \cup released) \subseteq (Pinned \cup released)'
  BY <1>1 DEF Pinned, CustodyGrows
<1>3. Kept = Pinned \cup raw /\ Kept' = Pinned' \cup raw'
  BY DEF Kept
<1> QED
  BY <1>2, <1>3 DEF CustodyGrows

\* A receipt that is backed stays backed.
LEMMA BackedStays ==
  ASSUME CustodyGrows, NEW rc, Backed(rc) PROVE Backed(rc)'
  BY DEF Backed, CustodyGrows

-----------------------------------------------------------------------------
(* The invariant of the node                                                *)

LEMMA NodeInitial == NodeInit => NodeInv
<1> SUFFICES ASSUME NodeInit PROVE NodeInv
  OBVIOUS
<1> USE NodeAssumption, ImportAssumption DEF NodeInit, ImportInit
<1>1. Pinned \subseteq blocks
  BY LinkedRows DEF Pinned
<1>2. NodeTypeOK
  BY DEF NodeTypeOK
<1>3. NativeInv
  BY DEF NativeInv, Row
<1> QED
  BY <1>1, <1>2, <1>3 DEF NodeInv

\* What is left to show of a step when it publishes no receipt and leaves the
\* native mirror where it is.
LEMMA StoreStep ==
  ASSUME NodeInv, CustodyGrows, receipts' = receipts,
         npc' = npc, nrng' = nrng, ncursor' = ncursor,
         NodeTypeOK', (Pinned \subseteq blocks)'
  PROVE  NodeInv'
<1>1. \A rc \in receipts' : Backed(rc)'
  BY BackedStays DEF NodeInv
<1>2. NativeInv'
  BY DEF NodeInv, NativeInv, CustodyGrows
<1> QED
  BY <1>1, <1>2 DEF NodeInv

\* The same of one that publishes a receipt with what backs it.
LEMMA PublishStep ==
  ASSUME NodeInv, CustodyGrows, NEW k \in Kinds, NEW r \in RowRange,
         Publish(k, r), Backed(<<k, r>>),
         UNCHANGED <<blocks, roots, direct, recovered, raw, clock, released>>
  PROVE  /\ receipts' \subseteq Kinds \X RowRange
         /\ stamps' \in [Kinds -> Nat] /\ \A j \in Kinds : stamps'[j] =< clock'
         /\ (Pinned \subseteq blocks)'
         /\ \A rc \in receipts' : Backed(rc)'
<1>1. \A rc \in receipts' : rc \in receipts \/ rc = <<k, r>>
  BY DEF Publish
<1>2. \A rc \in receipts' : Backed(rc)'
  BY <1>1, BackedStays DEF NodeInv
<1> QED
  BY <1>2 DEF Publish, NodeInv, NodeTypeOK, Pinned

LEMMA NativeKeepsInv == ASSUME NodeInv, Native PROVE NodeInv'
<1> USE NodeAssumption, ImportAssumption
<1>1. CustodyGrows
  BY NodeStepGrows DEF NodeNext
<1>2. NodeTypeOK /\ Pinned \subseteq blocks /\ NativeInv /\ \A rc \in receipts : Backed(rc)
  BY DEF NodeInv
<1>3. CASE NativeStart
  <2>1. /\ npc = "idle" /\ ncursor # NativeEnd
        /\ UNCHANGED <<blocks, roots, receipts, direct, recovered, raw, ncursor, stamps,
                       clock, released>>
        /\ \/ <<"native", nrng'>> \in receipts /\ npc' = "checkpoint"
           \/ npc' = "fetch"
    BY <1>3 DEF NativeStart, keptVars, importVars
  <2>2. nrng' \in RowRange /\ nrng'[1] = ncursor /\ nrng'[2] \in 0 .. NativeEnd
    <3>1. PICK limit \in NativeLimits :
            nrng' = <<ncursor, IF ncursor + limit < NativeEnd
                                 THEN ncursor + limit ELSE NativeEnd>>
      BY <1>3 DEF NativeStart
    <3>2. ncursor \in 0 .. NativeEnd /\ limit \in Nat \ {0} /\ NativeEnd \in 1 .. Count
      BY <1>2 DEF NodeTypeOK
    <3> QED
      BY <2>1, <3>1, <3>2 DEF RowRange
  <2>3. NodeTypeOK'
    BY <1>2, <2>1, <2>2 DEF NodeTypeOK
  <2>4. (Pinned \subseteq blocks)'
    BY <1>2, <2>1 DEF Pinned
  <2>5. NativeInv'
    BY <1>2, <2>1 DEF NativeInv
  <2>6. \A rc \in receipts' : Backed(rc)'
    BY <1>1, <1>2, <2>1, BackedStays
  <2> QED
    BY <2>3, <2>4, <2>5, <2>6 DEF NodeInv
<1>4. CASE NativeFetch
  <2>1. nrng \in RowRange /\ RowsOf(nrng) \subseteq Row
    BY <1>2, <1>4, RangeRows DEF NativeFetch, NodeTypeOK
  <2> QED
    BY <1>1, <1>2, <1>4, <2>1, StoreStep DEF NativeFetch, NodeTypeOK, nativeVars, Pinned
<1>5. CASE NativePin
  <2>1. nrng \in RowRange /\ RowsOf(nrng) \subseteq Row
    BY <1>2, <1>5, RangeRows DEF NativePin, NodeTypeOK
  <2>2. /\ npc' = "receipt" /\ roots' = roots \cup {nrng}
        /\ blocks' = blocks \cup RowsOf(nrng)
        /\ UNCHANGED <<receipts, direct, recovered, raw, nrng, ncursor, stamps, clock,
                       released>>
    BY <1>5 DEF NativePin, PinRange
  <2>3. NodeTypeOK'
    BY <1>2, <1>5, <2>1, <2>2 DEF NodeTypeOK, NativePin
  <2>4. (Pinned \subseteq blocks)'
    BY <1>2, <2>2, LinkedRows DEF Pinned
  <2>5. NativeInv'
    BY <1>2, <2>2 DEF NativeInv
  <2>6. \A rc \in receipts' : Backed(rc)'
    BY <1>1, <1>2, <2>2, BackedStays
  <2> QED
    BY <2>3, <2>4, <2>5, <2>6 DEF NodeInv
<1>6. CASE NativeReceipt
  <2>1. /\ npc = "receipt" /\ npc' = "checkpoint" /\ Publish("native", nrng)
        /\ UNCHANGED <<blocks, roots, direct, recovered, raw, nrng, ncursor, clock,
                       released>>
    BY <1>6 DEF NativeReceipt
  <2>2. "native" \in Kinds /\ nrng \in RowRange /\ Backed(<<"native", nrng>>)
    BY <1>2, <2>1 DEF NodeTypeOK, NativeInv, Backed
  <2>3. /\ receipts' \subseteq Kinds \X RowRange
        /\ stamps' \in [Kinds -> Nat] /\ \A j \in Kinds : stamps'[j] =< clock'
        /\ (Pinned \subseteq blocks)'
        /\ \A rc \in receipts' : Backed(rc)'
    BY <1>1, <2>1, <2>2, PublishStep
  <2>4. NodeTypeOK'
    BY <1>2, <2>1, <2>3 DEF NodeTypeOK
  <2>5. NativeInv'
    BY <1>2, <2>1 DEF NativeInv, Publish
  <2> QED
    BY <2>3, <2>4, <2>5 DEF NodeInv
<1>7. CASE NativeCheckpoint
  <2>1. /\ npc = "checkpoint" /\ npc' = "idle" /\ ncursor' = nrng[2]
        /\ UNCHANGED <<blocks, roots, receipts, direct, recovered, raw, nrng, stamps,
                       clock, released>>
    BY <1>7 DEF NativeCheckpoint, keptVars, importVars
  <2>2. nrng \in RowRange /\ nrng[1] = ncursor /\ nrng[2] \in 0 .. NativeEnd
    BY <1>2, <2>1 DEF NodeTypeOK
  <2>3. NodeTypeOK'
    BY <1>2, <2>1, <2>2 DEF NodeTypeOK
  <2>4. ASSUME NEW i \in Row, i < nrng[2]
        PROVE  \E r \in RowRange : i \in RowsOf(r) /\ <<"native", r>> \in receipts
    <3>1. i < ncursor \/ i \in RowsOf(nrng)
      BY <1>2, <2>2, <2>4 DEF Row, RowsOf, RowRange, NodeTypeOK
    <3> QED
      BY <1>2, <2>1, <2>2, <3>1 DEF NativeInv
  <2>5. NativeInv'
    BY <2>1, <2>4 DEF NativeInv
  <2>6. (Pinned \subseteq blocks)'
    BY <1>2, <2>1 DEF Pinned
  <2>7. \A rc \in receipts' : Backed(rc)'
    BY <1>1, <1>2, <2>1, BackedStays
  <2> QED
    BY <2>3, <2>5, <2>6, <2>7 DEF NodeInv
<1> QED
  BY <1>3, <1>4, <1>5, <1>6, <1>7 DEF Native

\* A kill of the native mirror, a collection and a tick.
LEMMA KillsKeepInv ==
  ASSUME NodeInv, NativeDies \/ CollectNode \/ Tick PROVE NodeInv'
<1>1. CustodyGrows
  BY NodeStepGrows DEF NodeNext
<1>2. NodeTypeOK /\ Pinned \subseteq blocks /\ NativeInv /\ \A rc \in receipts : Backed(rc)
  BY DEF NodeInv
<1>3. CASE NativeDies
  <2>1. /\ npc' = "idle"
        /\ UNCHANGED <<blocks, roots, receipts, direct, recovered, raw, nrng, ncursor,
                       stamps, clock, released>>
    BY <1>3 DEF NativeDies, keptVars, importVars
  <2>2. NodeTypeOK' /\ (Pinned \subseteq blocks)' /\ NativeInv'
    BY <1>2, <2>1 DEF NodeTypeOK, Pinned, NativeInv
  <2>3. \A rc \in receipts' : Backed(rc)'
    BY <1>1, <1>2, <2>1, BackedStays
  <2> QED
    BY <2>2, <2>3 DEF NodeInv
<1>4. CASE CollectNode
  BY <1>1, <1>2, <1>4, StoreStep DEF CollectNode, NodeTypeOK, Pinned, nativeVars
<1>5. CASE Tick
  BY <1>1, <1>2, <1>5, StoreStep
     DEF Tick, NodeTypeOK, Pinned, nativeVars, keptVars, importVars
<1> QED
  BY <1>3, <1>4, <1>5

\* The CAR importer, and a release of a root.
LEMMA RangesKeepInv ==
  ASSUME NodeInv, NEW r \in RowRange, PinCar(r) \/ ReceiptCar(r) \/ ReleaseRoot(r)
  PROVE  NodeInv'
<1> USE NodeAssumption
<1>1. CustodyGrows
  BY NodeStepGrows DEF NodeNext
<1>2. NodeTypeOK /\ Pinned \subseteq blocks /\ NativeInv /\ RowsOf(r) \subseteq Row
  BY RangeRows DEF NodeInv
<1>3. CASE PinCar(r)
  <2>1. (Pinned \subseteq blocks)'
    BY <1>2, <1>3, LinkedRows DEF PinCar, PinRange, Pinned
  <2> QED
    BY <1>1, <1>2, <1>3, <2>1, StoreStep DEF PinCar, PinRange, NodeTypeOK, nativeVars
<1>4. CASE ReceiptCar(r)
  <2>1. /\ r \in roots /\ Publish("car", r)
        /\ UNCHANGED <<blocks, roots, direct, recovered, raw, npc, nrng, ncursor, clock,
                       released>>
    BY <1>4 DEF ReceiptCar, nativeVars
  <2>2. "car" \in Kinds /\ Backed(<<"car", r>>)
    BY <2>1 DEF Backed
  <2>3. /\ receipts' \subseteq Kinds \X RowRange
        /\ stamps' \in [Kinds -> Nat] /\ \A j \in Kinds : stamps'[j] =< clock'
        /\ (Pinned \subseteq blocks)'
        /\ \A rc \in receipts' : Backed(rc)'
    BY <1>1, <2>1, <2>2, PublishStep
  <2>4. NodeTypeOK' /\ NativeInv'
    BY <1>2, <2>1, <2>3 DEF NodeTypeOK, NativeInv, Publish
  <2> QED
    BY <2>3, <2>4 DEF NodeInv
<1>5. CASE ReleaseRoot(r)
  <2>1. (Pinned \subseteq blocks)'
    BY <1>2, <1>5, LinkedRows DEF ReleaseRoot, Release, Pinned
  <2> QED
    BY <1>1, <1>2, <1>5, <2>1, StoreStep
       DEF ReleaseRoot, Release, NodeTypeOK, nativeVars
<1> QED
  BY <1>3, <1>4, <1>5

\* The large-block importer, the replicator, and a release of their pins.
LEMMA RowsKeepInv ==
  ASSUME NodeInv, NEW i \in Row,
         \/ PinRecovery(i) \/ Rehydrate(i) \/ ReceiptLarge(i)
         \/ PinDirect(i) \/ PutRaw(i) \/ ReleaseDirect(i) \/ ReleaseRecovery(i)
  PROVE  NodeInv'
<1> USE NodeAssumption
<1>1. CustodyGrows
  BY NodeStepGrows DEF NodeNext
<1>2. NodeTypeOK /\ Pinned \subseteq blocks /\ NativeInv
  BY DEF NodeInv
<1>3. CASE PinRecovery(i) \/ PutRaw(i) \/ ReleaseRecovery(i)
  BY <1>1, <1>2, <1>3, StoreStep
     DEF PinRecovery, PutRaw, ReleaseRecovery, Release, NodeTypeOK, Pinned, nativeVars,
         importVars
<1>4. CASE Rehydrate(i) \/ PinDirect(i) \/ ReleaseDirect(i)
  BY <1>1, <1>2, <1>4, StoreStep
     DEF Rehydrate, PinDirect, ReleaseDirect, Release, NodeTypeOK, Pinned, nativeVars
<1>5. CASE ReceiptLarge(i)
  <2>1. /\ i \in recovered \cap direct /\ Publish("large", <<i, i + 1>>)
        /\ UNCHANGED <<blocks, roots, direct, recovered, raw, npc, nrng, ncursor, clock,
                       released>>
    BY <1>5 DEF ReceiptLarge, nativeVars
  <2>2. "large" \in Kinds /\ <<i, i + 1>> \in RowRange /\ Backed(<<"large", <<i, i + 1>>>>)
    BY <2>1, OneRow DEF Backed
  <2>3. /\ receipts' \subseteq Kinds \X RowRange
        /\ stamps' \in [Kinds -> Nat] /\ \A j \in Kinds : stamps'[j] =< clock'
        /\ (Pinned \subseteq blocks)'
        /\ \A rc \in receipts' : Backed(rc)'
    BY <1>1, <2>1, <2>2, PublishStep
  <2>4. NodeTypeOK' /\ NativeInv'
    BY <1>2, <2>1, <2>3 DEF NodeTypeOK, NativeInv, Publish
  <2> QED
    BY <2>3, <2>4 DEF NodeInv
<1> QED
  BY <1>3, <1>4, <1>5

LEMMA NodeKeepsInv == ASSUME NodeInv, NodeNext PROVE NodeInv'
  BY NativeKeepsInv, KillsKeepInv, RangesKeepInv, RowsKeepInv DEF NodeNext

\* What the readers of a node rely on, of its steps and of those that leave it
\* as it is.
LEMMA NodeStep ==
  ASSUME NodeInv, NodeNext \/ UNCHANGED nodeVars
  PROVE  /\ NodeInv' /\ CustodyGrows
         /\ (Pinned \cup released) \subseteq (Pinned \cup released)'
         /\ (Kept \cup released) \subseteq (Kept \cup released)'
<1>1. NodeInv' /\ CustodyGrows
  <2>1. CASE NodeNext
    BY <2>1, NodeKeepsInv, NodeStepGrows
  <2>2. CASE UNCHANGED nodeVars
    BY <2>2 DEF nodeVars, keptVars, importVars, nativeVars, CustodyGrows, NodeInv,
                NodeTypeOK, Pinned, Backed, NativeInv
  <2> QED
    BY <2>1, <2>2
<1> QED
  BY <1>1, KeptGrows DEF NodeInv

(* The invariant of a node: whatever is pinned is stored, and what stands   *)
(* behind a receipt is there unless another service let it go.              *)
THEOREM NodeInvariant == NodeSpec => []NodeInv
<1>1. NodeInv /\ [NodeNext]_nodeVars => NodeInv'
  BY NodeStep
<1> QED
  BY <1>1, NodeInitial, PTL DEF NodeSpec

(* A kill, a collection or another importer never takes custody away: pins  *)
(* go only by a release, receipts and raw rows never (all programs of the   *)
(* node together).                                                          *)
THEOREM OnlyReleasesTakeCustody == NodeSpec => [][CustodyGrows]_nodeVars
<1>1. [NodeNext]_nodeVars => [CustodyGrows]_nodeVars
  BY NodeStepGrows
<1> QED
  BY <1>1, PTL DEF NodeSpec

LEMMA MirroredByInv == NodeInv => MirroredRowsAreKept
<1> SUFFICES ASSUME NodeInv, NEW i \in Row, i < ncursor, i \notin released
             PROVE  i \in blocks /\ \E r \in roots : i \in RowsOf(r) /\ <<"native", r>> \in receipts
  BY DEF MirroredRowsAreKept
<1>1. PICK r \in RowRange : i \in RowsOf(r) /\ <<"native", r>> \in receipts
  BY DEF NodeInv, NativeInv
<1>2. r \in roots
  BY <1>1 DEF NodeInv, Backed
<1> QED
  BY <1>1, <1>2, LinkedRows DEF NodeInv, Pinned

(* A row that mirror_lake_bitswap.py has passed is linked by the pinned     *)
(* root of a native receipt and stored, or another service let it go:       *)
(* whenever the mirror is killed, and whatever is collected.                *)
THEOREM MirroredRowsStay == NodeSpec => []MirroredRowsAreKept
  BY NodeInvariant, MirroredByInv, PTL

-----------------------------------------------------------------------------
(* The contract of imports on a node that nobody else empties               *)

\* The receipts that speak of a root: those of recovery CARs speak of pins.
RootReceipts == {rc \in receipts : rc[1] # "large"}

Contract == INSTANCE LakeImport WITH receipts <- RootReceipts

\* The steps of the node that add a root, write a receipt for one, or let
\* blocks come and go; the others do not touch what the contract speaks of.
LEMMA NodeStepImports ==
  ASSUME NodeInv, released = {}, NodeNext \/ UNCHANGED nodeVars, released' = {}
  PROVE  [Contract!ImportNext]_<<blocks, roots, RootReceipts>>
<1> DEFINE Stays == UNCHANGED <<blocks, roots, RootReceipts>>
<1>1. ASSUME blocks' \in SUBSET Row, Linked(roots) \cap blocks \subseteq blocks',
             roots' = roots, receipts' = receipts
      PROVE  Contract!ImportNext
  BY <1>1 DEF Contract!ImportNext, Contract!Store, Contract!Row, Row, Contract!Linked,
              Linked, Contract!RowsOf, RowsOf, RootReceipts
<1>2. ASSUME NEW r \in RowRange, PinRange(r) PROVE Contract!ImportNext
  BY <1>2 DEF PinRange, Contract!ImportNext, Contract!PinRange, Contract!RowRange, RowRange,
              Contract!RowsOf, RowsOf, RootReceipts
<1>3. ASSUME NEW r \in roots, NEW k \in {"car", "native"}, Publish(k, r),
             UNCHANGED <<blocks, roots>>
      PROVE  Contract!ImportNext
  <2>1. RootReceipts' = RootReceipts \cup {<<k, r>>}
    BY <1>3 DEF RootReceipts, Publish
  <2>2. r \in Contract!RowRange /\ k \in Kinds
    BY NodeAssumption DEF NodeInv, NodeTypeOK, Contract!RowRange, RowRange
  <2> QED
    BY <1>3, <2>1, <2>2 DEF Contract!ImportNext, Contract!WriteReceipt
<1>4. NodeTypeOK /\ NodeTypeOK' /\ Pinned \subseteq blocks /\ NativeInv
  BY NodeStep DEF NodeInv
<1>5. ASSUME UNCHANGED <<blocks, roots, receipts>> PROVE Stays
  BY <1>5 DEF RootReceipts
<1>6. CASE Native
  <2>1. CASE NativeFetch
    BY <1>1, <1>4, <2>1 DEF NativeFetch, NodeTypeOK
  <2>2. CASE NativePin
    BY <1>2, <1>4, <2>2 DEF NativePin, NodeTypeOK
  <2>3. CASE NativeReceipt
    <3>1. nrng \in RowRange /\ nrng[1] \in RowsOf(nrng)
      BY <1>4, <2>3 DEF NativeReceipt, NodeTypeOK, RowRange, RowsOf
    <3>2. nrng \in roots
      BY <1>4, <2>3, <3>1 DEF NativeReceipt, NativeInv
    <3> QED
      BY <1>3, <2>3, <3>2 DEF NativeReceipt
  <2>4. CASE NativeStart \/ NativeCheckpoint
    BY <1>5, <2>4 DEF NativeStart, NativeCheckpoint, keptVars, importVars
  <2> QED
    BY <1>6, <2>1, <2>2, <2>3, <2>4 DEF Native
<1>7. CASE CollectNode
  BY <1>1, <1>4, <1>7 DEF CollectNode, NodeTypeOK, Pinned
<1>8. CASE NativeDies \/ Tick
  BY <1>5, <1>8 DEF NativeDies, Tick, keptVars, importVars
<1>9. ASSUME NEW r \in RowRange, PinCar(r) \/ ReceiptCar(r) \/ ReleaseRoot(r)
      PROVE  Contract!ImportNext
  <2>1. CASE PinCar(r)
    BY <1>2, <2>1 DEF PinCar
  <2>2. CASE ReceiptCar(r)
    BY <1>3, <2>2 DEF ReceiptCar
  <2>3. ~ReleaseRoot(r)
    BY DEF ReleaseRoot, Release, RowRange, RowsOf
  <2> QED
    BY <1>9, <2>1, <2>2, <2>3
<1>10. ASSUME NEW i \in Row,
              \/ PinRecovery(i) \/ Rehydrate(i) \/ ReceiptLarge(i)
              \/ PinDirect(i) \/ PutRaw(i) \/ ReleaseDirect(i) \/ ReleaseRecovery(i)
       PROVE  Contract!ImportNext \/ Stays
  <2>1. CASE PinRecovery(i) \/ PutRaw(i)
    BY <1>5, <2>1 DEF PinRecovery, PutRaw, importVars
  <2>2. CASE Rehydrate(i) \/ PinDirect(i)
    BY <1>1, <1>4, <2>2 DEF Rehydrate, PinDirect, NodeTypeOK
  <2>3. CASE ReceiptLarge(i)
    BY <2>3 DEF ReceiptLarge, Publish, RootReceipts
  <2>4. ~ReleaseDirect(i) /\ ~ReleaseRecovery(i)
    BY DEF ReleaseDirect, ReleaseRecovery, Release
  <2> QED
    BY <1>10, <2>1, <2>2, <2>3, <2>4
<1>11. CASE UNCHANGED nodeVars
  BY <1>5, <1>11 DEF nodeVars, keptVars, importVars
<1> QED
  BY <1>6, <1>7, <1>8, <1>9, <1>10, <1>11 DEF NodeNext, Native

LEMMA NothingIsReleased ==
  ASSUME MaxReleases = 0, released = {}, NodeNext \/ UNCHANGED nodeVars
  PROVE  released' = {}
<1>1. \A rows : ~Release(rows)
  BY FS_EmptySet DEF Release
<1> QED
  BY <1>1 DEF NodeNext, nodeVars, Native, NativeStart, NativeFetch, NativePin, NativeReceipt,
              NativeCheckpoint, NativeDies, CollectNode, Tick, PinCar, ReceiptCar,
              ReleaseRoot, PinRecovery, Rehydrate, ReceiptLarge, PinDirect, PutRaw,
              ReleaseDirect, ReleaseRecovery

(* The native mirror beside the CAR importer and the collector keeps the    *)
(* contract of imports that the shipper keeps, as long as no other service  *)
(* on the Kubo releases its pins (mirror_lake_bitswap.py pins a batch's     *)
(* root before it writes the receipt, also when it was killed in between).  *)
THEOREM NodeKeepsContract == ASSUME MaxReleases = 0 PROVE NodeSpec => Contract!ImportSpec
<1> DEFINE Quiet == NodeInv /\ released = {}
<1>1. NodeInit => Contract!ImportInit
  BY DEF NodeInit, ImportInit, Contract!ImportInit, RootReceipts
<1>2. NodeInit => Quiet
  BY NodeInitial DEF NodeInit
<1>3. Quiet /\ [NodeNext]_nodeVars => Quiet'
  BY NodeStep, NothingIsReleased
<1>4. Quiet /\ [NodeNext]_nodeVars =>
        [Contract!ImportNext]_<<blocks, roots, RootReceipts>>
  BY NodeStepImports, NothingIsReleased
<1> QED
  BY <1>1, <1>2, <1>3, <1>4, PTL DEF NodeSpec, Contract!ImportSpec, Contract!importVars

-----------------------------------------------------------------------------
(* The reader                                                               *)

Steps == {"idle", "raw", "receipts", "load", "covered", "direct", "all", "get"}

ReaderTypeOK ==
  /\ asked \in [Threads -> Row] /\ at \in [Threads -> Steps]
  /\ before \in [Threads -> SUBSET Row] /\ answer \in [Threads -> {0, 200, 404, 503}]

\* The ticks of the reader's looks are those of the past.
TableInv ==
  /\ cover \subseteq receipts /\ \A rc \in cover : rc[1] \in Watched
  /\ statTick \in Nat /\ statTick =< clock /\ mtimeTick \in Nat /\ mtimeTick =< clock
  /\ seen \in [Watched -> Nat] /\ \A k \in Watched : seen[k] =< statTick
  /\ mtime \in [Watched -> Nat] /\ \A k \in Watched : mtime[k] =< mtimeTick

\* What a thread knows of the row it was asked for: once the raw store was found
\* without it, a row kept at the beginning is a pinned one or was released; and
\* at the end it is a pinned one or was released in any case.
LooksInv(t) ==
  /\ at[t] = "raw" /\ asked[t] \in before[t] => asked[t] \in Kept \cup released
  /\ at[t] \notin {"idle", "raw"} /\ asked[t] \in before[t] =>
       asked[t] \in Pinned \cup released
  /\ at[t] = "get" => asked[t] \in Pinned \cup released

ReaderInv ==
  /\ NodeInv /\ ReaderTypeOK /\ TableInv
  /\ ReceiptsAreNoticed /\ AnswersMatchCustody
  /\ \A t \in Threads : LooksInv(t)

LEMMA WatchedKinds == Watched \subseteq Kinds /\ "large" \notin Watched
  BY NodeAssumption DEF Watched

LEMMA KeptIsPinnedOrRaw ==
  ASSUME NodeInv
  PROVE  /\ Kept = Pinned \cup raw /\ Kept \subseteq Row
         /\ direct \subseteq Pinned
  BY DEF NodeInv, NodeTypeOK, Kept, Pinned

\* A row that the table covers is pinned or was released.
LEMMA CoveredRows ==
  ASSUME NodeInv, TableInv, NEW rc \in cover
  PROVE  RowsOf(rc[2]) \subseteq Pinned \cup released
<1>1. rc \in receipts /\ rc[1] # "large" /\ Backed(rc)
  BY WatchedKinds DEF TableInv, NodeInv
<1> QED
  BY <1>1, LinkedRows DEF Backed, Pinned

LEMMA TimesTyped ==
  ASSUME NodeInv
  PROVE  Times \in [Watched -> Nat] /\ \A k \in Watched : Times[k] = stamps[k] /\ Times[k] =< clock
  BY WatchedKinds DEF Times, NodeInv, NodeTypeOK

LEMMA ReaderInitial == ASSUME ReaderInit PROVE ReaderInv
<1> USE ImportAssumption DEF ReaderInit
<1>1. NodeInv /\ clock = 0 /\ receipts = {}
  BY NodeInitial DEF NodeInit, ImportInit
<1>2. ReaderTypeOK /\ TableInv
  BY <1>1, TimesTyped DEF ReaderTypeOK, TableInv, Row, Steps
<1>3. ReceiptsAreNoticed /\ AnswersMatchCustody /\ \A t \in Threads : LooksInv(t)
  BY <1>1 DEF ReceiptsAreNoticed, AnswersMatchCustody, LooksInv
<1> QED
  BY <1>1, <1>2, <1>3 DEF ReaderInv

\* The node moves under the reader: a receipt it publishes stamps its directory
\* with the present tick.
LEMMA StampsFollowReceipts ==
  ASSUME NodeNext, NEW rc \in receipts' \ receipts
  PROVE  stamps' = [stamps EXCEPT ![rc[1]] = clock] /\ clock' = clock
<1> USE DEF Publish, keptVars, importVars, nativeVars
<1>1. CASE Native
  BY <1>1 DEF Native, NativeStart, NativeFetch, NativePin, PinRange, NativeReceipt,
              NativeCheckpoint
<1>2. CASE NativeDies \/ CollectNode \/ Tick
  BY <1>2 DEF NativeDies, CollectNode, Tick
<1>3. ASSUME NEW r \in RowRange, PinCar(r) \/ ReceiptCar(r) \/ ReleaseRoot(r)
      PROVE  stamps' = [stamps EXCEPT ![rc[1]] = clock] /\ clock' = clock
  BY <1>3 DEF PinCar, PinRange, ReceiptCar, ReleaseRoot, Release
<1>4. ASSUME NEW i \in Row, PinRecovery(i) \/ Rehydrate(i) \/ ReceiptLarge(i)
      PROVE  stamps' = [stamps EXCEPT ![rc[1]] = clock] /\ clock' = clock
  BY <1>4 DEF PinRecovery, Rehydrate, ReceiptLarge
<1>5. ASSUME NEW i \in Row,
             PinDirect(i) \/ PutRaw(i) \/ ReleaseDirect(i) \/ ReleaseRecovery(i)
      PROVE  stamps' = [stamps EXCEPT ![rc[1]] = clock] /\ clock' = clock
  BY <1>5 DEF PinDirect, PutRaw, ReleaseDirect, ReleaseRecovery, Release
<1> QED
  BY <1>1, <1>2, <1>3, <1>4, <1>5 DEF NodeNext

\* Stamps change only to the present tick, and the clock goes on.
LEMMA StampsAndClock ==
  ASSUME NodeInv, NodeNext
  PROVE  /\ clock' >= clock
         /\ \A k \in Kinds : stamps'[k] = stamps[k] \/ (stamps'[k] = clock /\ clock' = clock)
<1>1. stamps \in [Kinds -> Nat] /\ clock \in Nat
  BY DEF NodeInv, NodeTypeOK
<1> USE <1>1 DEF Publish, keptVars, importVars, nativeVars
<1>2. CASE Native
  BY <1>2 DEF Native, NativeStart, NativeFetch, NativePin, PinRange, NativeReceipt,
              NativeCheckpoint
<1>3. CASE NativeDies \/ CollectNode \/ Tick
  BY <1>3 DEF NativeDies, CollectNode, Tick
<1>4. ASSUME NEW r \in RowRange, PinCar(r) \/ ReceiptCar(r) \/ ReleaseRoot(r)
      PROVE  /\ clock' >= clock
             /\ \A k \in Kinds : stamps'[k] = stamps[k] \/ (stamps'[k] = clock /\ clock' = clock)
  BY <1>4 DEF PinCar, PinRange, ReceiptCar, ReleaseRoot, Release
<1>5. ASSUME NEW i \in Row, PinRecovery(i) \/ Rehydrate(i) \/ ReceiptLarge(i)
      PROVE  /\ clock' >= clock
             /\ \A k \in Kinds : stamps'[k] = stamps[k] \/ (stamps'[k] = clock /\ clock' = clock)
  BY <1>5 DEF PinRecovery, Rehydrate, ReceiptLarge
<1>6. ASSUME NEW i \in Row,
             PinDirect(i) \/ PutRaw(i) \/ ReleaseDirect(i) \/ ReleaseRecovery(i)
      PROVE  /\ clock' >= clock
             /\ \A k \in Kinds : stamps'[k] = stamps[k] \/ (stamps'[k] = clock /\ clock' = clock)
  BY <1>6 DEF PinDirect, PutRaw, ReleaseDirect, ReleaseRecovery, Release
<1> QED
  BY <1>2, <1>3, <1>4, <1>5, <1>6 DEF NodeNext

LEMMA NodeKeepsNotice ==
  ASSUME ReaderInv, NodeNext, UNCHANGED <<cover, seen, statTick>>
  PROVE  ReceiptsAreNoticed'
<1> SUFFICES ASSUME NEW rc \in receipts', rc[1] \in Watched, rc \notin cover
             PROVE  seen[rc[1]] # stamps'[rc[1]] \/ stamps'[rc[1]] = statTick
  BY DEF ReceiptsAreNoticed
<1> DEFINE k == rc[1]
<1>1. k \in Kinds /\ stamps \in [Kinds -> Nat] /\ clock \in Nat /\ k \in Watched
  BY WatchedKinds DEF ReaderInv, NodeInv, NodeTypeOK
<1>2. seen[k] \in Nat /\ statTick \in Nat /\ seen[k] =< statTick /\ statTick =< clock
  BY <1>1 DEF ReaderInv, TableInv
<1>3. CASE stamps'[k] = clock
  BY <1>1, <1>2, <1>3
<1>4. CASE stamps'[k] # clock
  <2>1. stamps'[k] = stamps[k]
    BY <1>1, <1>4, StampsAndClock DEF ReaderInv
  <2>2. rc \in receipts
    <3>1. SUFFICES ASSUME rc \notin receipts PROVE FALSE
      OBVIOUS
    <3>2. stamps' = [stamps EXCEPT ![k] = clock]
      BY <3>1, StampsFollowReceipts
    <3> QED
      BY <1>1, <1>4, <3>2
  <2> QED
    BY <2>1, <2>2 DEF ReaderInv, ReceiptsAreNoticed
<1> QED
  BY <1>3, <1>4

\* A thread's knowledge lasts while the node goes on.
LEMMA LooksLast ==
  ASSUME ReaderInv, NodeInv', CustodyGrows, UNCHANGED <<asked, before, answer, misread>>,
         (Pinned \cup released) \subseteq (Pinned \cup released)',
         (Kept \cup released) \subseteq (Kept \cup released)'
  PROVE  /\ \A t \in Threads : at'[t] = at[t] => LooksInv(t)'
         /\ AnswersMatchCustody'
  BY DEF ReaderInv, LooksInv, AnswersMatchCustody, CustodyGrows

LEMMA NodeKeepsReader ==
  ASSUME ReaderInv, NodeNext, UNCHANGED readerVars PROVE ReaderInv'
<1>1. /\ UNCHANGED <<cover, seen, statTick, holder, mtime, mtimeTick>>
      /\ UNCHANGED <<asked, at, before, answer, misread>>
  BY DEF readerVars, tableVars, requestVars
<1>2. /\ NodeInv' /\ CustodyGrows
      /\ (Pinned \cup released) \subseteq (Pinned \cup released)'
      /\ (Kept \cup released) \subseteq (Kept \cup released)'
  BY NodeStep DEF ReaderInv
<1>3. clock' >= clock /\ clock \in Nat /\ clock' \in Nat
  BY <1>2, StampsAndClock DEF ReaderInv, NodeInv, NodeTypeOK
<1>4. ReaderTypeOK'
  BY <1>1 DEF ReaderInv, ReaderTypeOK
<1>5. TableInv'
  BY <1>1, <1>2, <1>3 DEF ReaderInv, TableInv, CustodyGrows
<1>6. ReceiptsAreNoticed'
  BY <1>1, NodeKeepsNotice
<1>7. AnswersMatchCustody' /\ \A t \in Threads : LooksInv(t)'
  BY <1>1, <1>2, LooksLast
<1> QED
  BY <1>2, <1>4, <1>5, <1>6, <1>7 DEF ReaderInv

\* What an answer says of custody (AnswersMatchCustody, of one thread).
AnswerInv(t) ==
  /\ answer[t] = 404 /\ t \notin misread => asked[t] \notin before[t] \ released
  /\ answer[t] = 200 => asked[t] \in Kept \cup released

LEMMA NodeStands ==
  ASSUME UNCHANGED nodeVars, NodeInv
  PROVE  /\ NodeInv' /\ Kept' = Kept /\ Pinned' = Pinned /\ Times' = Times
         /\ UNCHANGED <<blocks, roots, receipts, direct, recovered, raw, stamps, clock,
                        released, npc, nrng, ncursor>>
  BY DEF nodeVars, keptVars, importVars, nativeVars, NodeInv, NodeTypeOK, Kept, Pinned,
         Backed, NativeInv, Times

\* What is to be shown of a step of one thread that leaves the table as it is,
\* and of one that does not.
LEMMA ThreadStep ==
  ASSUME ReaderInv, NEW t \in Threads, UNCHANGED nodeVars,
         ReaderTypeOK', TableInv', ReceiptsAreNoticed',
         \A u \in Threads \ {t} :
           /\ asked'[u] = asked[u] /\ at'[u] = at[u]
           /\ before'[u] = before[u] /\ answer'[u] = answer[u] /\ (u \in misread' <=> u \in misread),
         LooksInv(t)', AnswerInv(t)'
  PROVE  ReaderInv'
<1>1. NodeInv' /\ Kept' = Kept /\ Pinned' = Pinned /\ released' = released
  BY NodeStands DEF ReaderInv
<1>2. \A u \in Threads \ {t} : LooksInv(u)' /\ AnswerInv(u)'
  BY <1>1 DEF ReaderInv, LooksInv, AnswersMatchCustody, AnswerInv
<1>3. \A u \in Threads : LooksInv(u)' /\ AnswerInv(u)'
  BY <1>2
<1> QED
  BY <1>1, <1>3 DEF ReaderInv, AnswersMatchCustody, AnswerInv

LEMMA TableStands ==
  ASSUME ReaderInv, UNCHANGED nodeVars, UNCHANGED <<cover, seen, statTick, mtime, mtimeTick>>
  PROVE  TableInv' /\ ReceiptsAreNoticed'
<1>1. UNCHANGED <<receipts, stamps, clock>>
  BY NodeStands DEF ReaderInv
<1> QED
  BY <1>1 DEF ReaderInv, TableInv, ReceiptsAreNoticed

LEMMA RequestKeepsReader ==
  ASSUME ReaderInv, NEW t \in Threads, Request(t) PROVE ReaderInv'
<1>1. UNCHANGED nodeVars /\ UNCHANGED <<cover, seen, statTick, mtime, mtimeTick>>
  BY DEF Request, tableVars
<1>2. TableInv' /\ ReceiptsAreNoticed'
  BY <1>1, TableStands
<1>3. ReaderTypeOK /\ Kept' = Kept /\ released' = released /\ Kept \subseteq Row
  BY <1>1, NodeStands, KeptIsPinnedOrRaw DEF ReaderInv
<1>4. PICK i \in Row :
        LET busy == \/ Cardinality(Active) >= Slots
                    \/ i \in HugeRows /\ \E u \in Active : asked[u] \in HugeRows IN
        /\ asked' = [asked EXCEPT ![t] = i] /\ before' = [before EXCEPT ![t] = Kept]
        /\ at' = [at EXCEPT ![t] = IF busy THEN "idle" ELSE "raw"]
        /\ answer' = [answer EXCEPT ![t] = IF busy THEN 503 ELSE 0]
        /\ misread' = misread \ {t}
  BY DEF Request
<1>5. ReaderTypeOK'
  BY <1>3, <1>4 DEF ReaderTypeOK, Steps
<1>6. \A u \in Threads \ {t} :
        /\ asked'[u] = asked[u] /\ at'[u] = at[u]
        /\ before'[u] = before[u] /\ answer'[u] = answer[u] /\ (u \in misread' <=> u \in misread)
  BY <1>3, <1>4 DEF ReaderTypeOK
<1>7. at'[t] \in {"idle", "raw"} /\ answer'[t] \in {0, 503} /\ before'[t] = Kept
  BY <1>3, <1>4 DEF ReaderTypeOK
<1>8. LooksInv(t)' /\ AnswerInv(t)'
  BY <1>3, <1>7 DEF LooksInv, AnswerInv
<1> QED
  BY <1>1, <1>2, <1>5, <1>6, <1>8, ThreadStep

\* A step that goes on, with what the thread then knows; and one that answers.
LEMMA GoKeepsReader ==
  ASSUME ReaderInv, NEW t \in Threads, NEW step \in Steps \ {"idle", "raw"}, Go(t, step),
         UNCHANGED nodeVars, TableInv', ReceiptsAreNoticed',
         asked[t] \in before[t] => asked[t] \in Pinned \cup released,
         step = "get" => asked[t] \in Pinned \cup released
  PROVE  ReaderInv'
<1>1. /\ at' = [at EXCEPT ![t] = step] /\ UNCHANGED <<asked, before, answer, misread>>
      /\ ReaderTypeOK /\ AnswerInv(t)
  BY DEF Go, ReaderInv, AnswersMatchCustody, AnswerInv
<1>2. Pinned' = Pinned /\ released' = released /\ Kept' = Kept
  BY NodeStands DEF ReaderInv
<1>3. ReaderTypeOK' /\ at'[t] = step
  BY <1>1 DEF ReaderTypeOK
<1>4. LooksInv(t)' /\ AnswerInv(t)'
  BY <1>1, <1>2, <1>3 DEF LooksInv, AnswerInv
<1>5. \A u \in Threads \ {t} :
        /\ asked'[u] = asked[u] /\ at'[u] = at[u]
        /\ before'[u] = before[u] /\ answer'[u] = answer[u] /\ (u \in misread' <=> u \in misread)
  BY <1>1 DEF ReaderTypeOK
<1> QED
  BY <1>3, <1>4, <1>5, ThreadStep

LEMMA AnswerKeepsReader ==
  ASSUME ReaderInv, NEW t \in Threads, NEW code \in {200, 404, 503}, Answer(t, code),
         UNCHANGED nodeVars, UNCHANGED tableVars,
         code = 404 => asked[t] \notin before[t] \ released,
         code = 200 => asked[t] \in Kept \cup released
  PROVE  ReaderInv'
<1>1. /\ at' = [at EXCEPT ![t] = "idle"] /\ answer' = [answer EXCEPT ![t] = code]
      /\ UNCHANGED <<asked, before>> /\ misread' = misread /\ ReaderTypeOK
  BY DEF Answer, ReaderInv
<1>2. released' = released /\ Kept' = Kept
  BY NodeStands DEF ReaderInv
<1>3. TableInv' /\ ReceiptsAreNoticed'
  BY TableStands DEF tableVars
<1>4. ReaderTypeOK' /\ at'[t] = "idle" /\ answer'[t] = code
  BY <1>1 DEF ReaderTypeOK, Steps
<1>5. LooksInv(t)' /\ AnswerInv(t)'
  BY <1>1, <1>2, <1>4 DEF LooksInv, AnswerInv
<1>6. \A u \in Threads \ {t} :
        /\ asked'[u] = asked[u] /\ at'[u] = at[u]
        /\ before'[u] = before[u] /\ answer'[u] = answer[u] /\ (u \in misread' <=> u \in misread)
  BY <1>1 DEF ReaderTypeOK
<1> QED
  BY <1>3, <1>4, <1>5, <1>6, ThreadStep

\* A 404 for what was there needs no other reason.
LEMMA MisreadKeepsReader ==
  ASSUME ReaderInv, NEW t \in Threads, Misread(t),
         UNCHANGED nodeVars, UNCHANGED <<cover, seen, statTick, mtime, mtimeTick>>
  PROVE  ReaderInv'
<1>1. /\ at' = [at EXCEPT ![t] = "idle"] /\ answer' = [answer EXCEPT ![t] = 404]
      /\ UNCHANGED <<asked, before>> /\ misread' = misread \cup {t} /\ ReaderTypeOK
  BY DEF Misread, ReaderInv
<1>2. released' = released /\ Kept' = Kept
  BY NodeStands DEF ReaderInv
<1>3. TableInv' /\ ReceiptsAreNoticed'
  BY TableStands DEF tableVars
<1>4. ReaderTypeOK' /\ at'[t] = "idle" /\ answer'[t] = 404
  BY <1>1 DEF ReaderTypeOK, Steps
<1>5. LooksInv(t)' /\ AnswerInv(t)'
  BY <1>1, <1>2, <1>4 DEF LooksInv, AnswerInv
<1>6. \A u \in Threads \ {t} :
        /\ asked'[u] = asked[u] /\ at'[u] = at[u]
        /\ before'[u] = before[u] /\ answer'[u] = answer[u] /\ (u \in misread' <=> u \in misread)
  BY <1>1 DEF ReaderTypeOK
<1> QED
  BY <1>3, <1>4, <1>5, <1>6, ThreadStep

LEMMA ServeKeepsReader ==
  ASSUME ReaderInv, NEW t \in Threads, Serve(t) PROVE ReaderInv'
<1>1. /\ NodeInv /\ LooksInv(t) /\ TableInv /\ ReceiptsAreNoticed
      /\ Kept = Pinned \cup raw /\ direct \subseteq Pinned /\ Pinned \subseteq blocks
  BY KeptIsPinnedOrRaw DEF ReaderInv, NodeInv
<1>2. UNCHANGED nodeVars
  BY DEF Serve, ReadRaw, Stat, LoadReceipts, RefuseReceipts, Covers, ListDirect, ListAll,
         GetBlock, KuboTimeout
<1>3. CASE ReadRaw(t)
  <2>1. UNCHANGED tableVars /\ TableInv' /\ ReceiptsAreNoticed'
    BY <1>2, <1>3, TableStands DEF ReadRaw, tableVars
  <2>2. CASE asked[t] \in raw /\ Answer(t, 200)
    BY <1>1, <1>2, <2>1, <2>2, AnswerKeepsReader
  <2>3. CASE asked[t] \notin raw /\ Go(t, "receipts")
    <3>1. asked[t] \in before[t] => asked[t] \in Pinned \cup released
      BY <1>1, <1>3, <2>3 DEF ReadRaw, LooksInv
    <3> QED
      BY <1>2, <2>1, <2>3, <3>1, GoKeepsReader DEF Steps
  <2>4. CASE Misread(t)
    BY <1>2, <2>1, <2>4, MisreadKeepsReader DEF tableVars
  <2> QED
    BY <1>3, <2>2, <2>3, <2>4 DEF ReadRaw
<1>4. CASE Stat(t)
  <2>1. /\ UNCHANGED <<receipts, stamps, clock>> /\ Times \in [Watched -> Nat]
        /\ \A k \in Watched : Times[k] =< clock
        /\ clock \in Nat
    BY <1>1, <1>2, NodeStands, TimesTyped DEF NodeInv, NodeTypeOK
  <2>2. TableInv' /\ ReceiptsAreNoticed'
    BY <1>1, <1>4, <2>1 DEF Stat, TableInv, ReceiptsAreNoticed
  <2>3. asked[t] \in before[t] => asked[t] \in Pinned \cup released
    BY <1>1, <1>4 DEF Stat, LooksInv
  <2>4. Go(t, "covered") \/ Go(t, "load")
    BY <1>4 DEF Stat
  <2> QED
    BY <1>2, <2>2, <2>3, <2>4, GoKeepsReader DEF Steps
<1>5. CASE LoadReceipts(t)
  <2>1. UNCHANGED <<receipts, stamps, clock>>
    BY <1>1, <1>2, NodeStands
  <2>2. /\ cover' = {rc \in receipts : rc[1] \in Watched}
        /\ seen' = mtime /\ statTick' = mtimeTick /\ UNCHANGED <<mtime, mtimeTick>>
    BY <1>5 DEF LoadReceipts
  <2>3. TableInv' /\ ReceiptsAreNoticed'
    BY <1>1, <2>1, <2>2 DEF TableInv, ReceiptsAreNoticed
  <2>4. asked[t] \in before[t] => asked[t] \in Pinned \cup released
    BY <1>1, <1>5 DEF LoadReceipts, LooksInv
  <2> QED
    BY <1>2, <1>5, <2>3, <2>4, GoKeepsReader DEF LoadReceipts, Steps
<1>6. CASE Covers(t)
  <2>1. TableInv' /\ ReceiptsAreNoticed'
    BY <1>2, <1>6, TableStands DEF Covers
  <2>2. asked[t] \in before[t] => asked[t] \in Pinned \cup released
    BY <1>1, <1>6 DEF Covers, LooksInv
  <2>3. CASE \E rc \in cover : asked[t] \in RowsOf(rc[2])
    <3>1. asked[t] \in Pinned \cup released
      BY <1>1, <2>3, CoveredRows
    <3> QED
      BY <1>2, <1>6, <2>1, <2>3, <3>1, GoKeepsReader DEF Covers, Steps
  <2>4. CASE ~\E rc \in cover : asked[t] \in RowsOf(rc[2])
    BY <1>2, <1>6, <2>1, <2>2, <2>4, GoKeepsReader DEF Covers, Steps
  <2> QED
    BY <2>3, <2>4
<1>7. CASE ListDirect(t)
  <2>1. TableInv' /\ ReceiptsAreNoticed'
    BY <1>2, <1>7, TableStands DEF ListDirect, tableVars
  <2>2. asked[t] \in before[t] => asked[t] \in Pinned \cup released
    BY <1>1, <1>7 DEF ListDirect, LooksInv
  <2>3. CASE asked[t] \in direct /\ Go(t, "get")
    BY <1>1, <1>2, <2>1, <2>3, GoKeepsReader DEF Steps
  <2>4. CASE Go(t, "all")
    BY <1>2, <2>1, <2>2, <2>4, GoKeepsReader DEF Steps
  <2> QED
    BY <1>7, <2>3, <2>4 DEF ListDirect
<1>8. CASE ListAll(t)
  <2>1. UNCHANGED tableVars /\ TableInv' /\ ReceiptsAreNoticed'
    BY <1>2, <1>8, TableStands DEF ListAll, tableVars
  <2>2. asked[t] \in before[t] => asked[t] \in Pinned \cup released
    BY <1>1, <1>8 DEF ListAll, LooksInv
  <2>3. CASE asked[t] \in Linked(roots) \ direct /\ Go(t, "get")
    <3>1. asked[t] \in Pinned
      BY <2>3 DEF Pinned
    <3> QED
      BY <1>2, <2>1, <2>3, <3>1, GoKeepsReader DEF Steps
  <2>4. CASE Misread(t)
    BY <1>2, <2>1, <2>4, MisreadKeepsReader DEF tableVars
  <2>5. CASE asked[t] \notin Pinned /\ Answer(t, 404)
    BY <1>2, <2>1, <2>2, <2>5, AnswerKeepsReader
  <2> QED
    BY <1>8, <2>3, <2>4, <2>5 DEF ListAll
<1>9. CASE GetBlock(t)
  <2>1. UNCHANGED tableVars
    BY <1>9 DEF GetBlock
  <2>2. asked[t] \in Pinned \cup released
    BY <1>1, <1>9 DEF GetBlock, LooksInv
  <2>3. CASE asked[t] \in blocks /\ Answer(t, 200)
    BY <1>1, <1>2, <2>1, <2>2, <2>3, AnswerKeepsReader
  <2>4. CASE Misread(t)
    BY <1>2, <2>1, <2>4, MisreadKeepsReader DEF tableVars
  <2>5. CASE asked[t] \notin blocks /\ Answer(t, 404)
    <3>1. asked[t] \notin before[t] \ released
      BY <1>1, <2>2, <2>5
    <3> QED
      BY <1>2, <2>1, <2>5, <3>1, AnswerKeepsReader
  <2> QED
    BY <1>9, <2>3, <2>4, <2>5 DEF GetBlock
<1>10. CASE KuboTimeout(t)
  BY <1>2, <1>10, AnswerKeepsReader DEF KuboTimeout
<1>11. CASE RefuseReceipts(t)
  BY <1>2, <1>11, MisreadKeepsReader DEF RefuseReceipts
<1> QED
  BY <1>3, <1>4, <1>5, <1>6, <1>7, <1>8, <1>9, <1>10, <1>11 DEF Serve

(* The invariant of the reader over a node that goes on: what its table     *)
(* stands for, and what each thread knows of its row from look to look.     *)
THEOREM ReaderInvariant == ReaderSpec => []ReaderInv
<1>1. ReaderInv /\ [ReaderNext]_<<nodeVars, readerVars>> => ReaderInv'
  <2> SUFFICES ASSUME ReaderInv, [ReaderNext]_<<nodeVars, readerVars>> PROVE ReaderInv'
    OBVIOUS
  <2>1. CASE UNCHANGED <<nodeVars, readerVars>>
    <3>1. /\ UNCHANGED <<cover, seen, statTick, mtime, mtimeTick>>
          /\ UNCHANGED <<asked, at, before, answer, misread>> /\ UNCHANGED nodeVars
      BY <2>1 DEF readerVars, tableVars, requestVars
    <3>2. NodeInv' /\ Kept' = Kept /\ Pinned' = Pinned /\ released' = released
      BY <3>1, NodeStands DEF ReaderInv
    <3>3. TableInv' /\ ReceiptsAreNoticed'
      BY <3>1, TableStands
    <3> QED
      BY <3>1, <3>2, <3>3 DEF ReaderInv, ReaderTypeOK, AnswersMatchCustody, LooksInv
  <2>2. CASE ReaderNext
    BY <2>2, RequestKeepsReader, ServeKeepsReader, NodeKeepsReader DEF ReaderNext
  <2> QED
    BY <2>1, <2>2
<1>2. ReaderInit => ReaderInv
  BY ReaderInitial
<1> QED
  BY <1>1, <1>2, PTL DEF ReaderSpec

(* A receipt that serve_lake.py's table lacks changed the time of its       *)
(* directory, which makes the next request read it: unless it appeared in   *)
(* the tick of the last look.                                               *)
THEOREM ReaderNoticesReceipts == ReaderSpec => []ReceiptsAreNoticed
  BY ReaderInvariant, PTL DEF ReaderInv

(* serve_lake.py answers 404 for no row that was kept when the request      *)
(* began and let go by nobody, unless the look that ended the request       *)
(* failed over something that was there; and 200 for no row that is not     *)
(* kept: for any number of threads, whatever moves between the looks and    *)
(* whatever commands failed.                                                *)
THEOREM ReaderAnswersMatch == ReaderSpec => []AnswersMatchCustody
  BY ReaderInvariant, PTL DEF ReaderInv

-----------------------------------------------------------------------------
(* The audit                                                                *)

AuditTypeOK ==
  /\ amode \in {"receipts", "pins"}
  /\ apc \in {"idle", "recursive", "direct", "indirect", "count", "done", "refused"}
  /\ apc \in {"direct", "count"} => amode = "receipts"
  /\ apc = "indirect" => amode = "pins"

\* A receipt whose name was frozen before the roots were listed has its root
\* among them, and one with a recovery root has its row among the direct pins
\* that are listed after that: or another service let them go.
NamesInv ==
  /\ apc # "done" => unpinned = {}
  /\ amode = "receipts" /\ apc # "idle" => receiptedBefore = names /\ names \subseteq receipts
  /\ apc \in {"direct", "count"} =>
       \A rc \in names : HasRoot(rc) \/ RowsOf(rc[2]) \subseteq released
  /\ apc = "count" =>
       \A rc \in names : rc[1] = "large" => RowsOf(rc[2]) \subseteq listed \cup released

\* What was listed was kept, and stays so unless it is let go; without receipts
\* a row that was kept is a listed one, a raw one, or one that a root still to
\* be listed links.
ListedInv ==
  /\ \A r \in recursive : RowsOf(r) \subseteq Kept \cup released
  /\ listed \subseteq Kept \cup released
  /\ amode = "pins" /\ apc \in {"recursive", "indirect"} =>
       keptBefore \subseteq listed \cup Linked(roots) \cup raw \cup released

AuditInv == NodeInv /\ AuditTypeOK /\ NamesInv /\ ListedInv /\ ReportIsTrue

LEMMA KeptParts ==
  ASSUME NodeInv
  PROVE  /\ Kept = Linked(roots) \cup direct \cup raw
         /\ \A r \in roots : RowsOf(r) \subseteq Kept
<1>1. Kept = Linked(roots) \cup direct \cup raw
  BY KeptIsPinnedOrRaw DEF Pinned
<1> QED
  BY <1>1, LinkedRows

\* The one row of a receipt for a large block.
LEMMA LargeRowOf ==
  ASSUME NodeInv, NEW rc \in receipts, rc[1] = "large"
  PROVE  RowsOf(rc[2]) = {rc[2][1]}
<1>1. rc[2] \in RowRange /\ rc[2][2] = rc[2][1] + 1
  BY DEF NodeInv, NodeTypeOK, Backed
<1>2. rc[2][1] \in Nat
  BY <1>1, ImportAssumption DEF RowRange
<1>3. RowsOf(rc[2]) = rc[2][1] .. (rc[2][1] + 1) - 1
  BY <1>1 DEF RowsOf
<1> QED
  BY <1>2, <1>3

LEMMA AuditInitial == ASSUME AuditInit PROVE AuditInv
  BY NodeInitial, AuditAssumption
     DEF AuditInit, AuditInv, AuditTypeOK, NamesInv, ListedInv, ReportIsTrue

\* The node moves under the audit.
LEMMA NodeKeepsAudit ==
  ASSUME AuditInv, NodeNext \/ UNCHANGED nodeVars, UNCHANGED auditVars PROVE AuditInv'
<1>1. UNCHANGED <<amode, apc, names, recursive, rootRows, listed, covered, unpinned,
                  keptBefore, receiptedBefore>>
  BY DEF auditVars
<1>2. /\ NodeInv' /\ CustodyGrows
      /\ (Kept \cup released) \subseteq (Kept \cup released)'
  BY NodeStep DEF AuditInv
<1>3. AuditTypeOK'
  BY <1>1 DEF AuditInv, AuditTypeOK
<1>4. NamesInv'
  BY <1>1, <1>2 DEF AuditInv, NamesInv, HasRoot, CustodyGrows
<1>5. Linked(roots) \subseteq Linked(roots') \cup released'
  BY <1>2, LinkedRows DEF CustodyGrows
<1>6. ListedInv'
  BY <1>1, <1>2, <1>5 DEF AuditInv, ListedInv, CustodyGrows
<1>7. ReportIsTrue'
  BY <1>1, <1>2 DEF AuditInv, ReportIsTrue, CustodyGrows
<1> QED
  BY <1>2, <1>3, <1>4, <1>6, <1>7 DEF AuditInv

LEMMA AuditKeepsInv == ASSUME AuditInv, Audit PROVE AuditInv'
<1>1. /\ NodeInv' /\ Kept' = Kept
      /\ UNCHANGED <<roots, receipts, direct, recovered, raw, released>>
  BY NodeStands DEF AuditInv, Audit, FreezeNames, ListRecursive, ListDirectPins, CountReceipts,
                    RootGone, CountPins
<1>2. /\ NodeInv /\ AuditTypeOK /\ NamesInv /\ ListedInv
      /\ Kept = Linked(roots) \cup direct \cup raw
      /\ \A r \in roots : RowsOf(r) \subseteq Kept
      /\ \A rc \in receipts : Backed(rc)
  BY KeptParts DEF AuditInv, NodeInv
<1>3. CASE FreezeNames
  BY <1>1, <1>2, <1>3
     DEF FreezeNames, AuditInv, AuditTypeOK, NamesInv, ListedInv, ReportIsTrue
<1>4. CASE ListRecursive
  <2>1. /\ apc = "recursive" /\ recursive' = roots /\ rootRows' = recovered
        /\ apc' = IF amode = "receipts" THEN "direct" ELSE "indirect"
        /\ UNCHANGED <<amode, names, listed, covered, unpinned, keptBefore, receiptedBefore>>
    BY <1>4 DEF ListRecursive
  <2>2. ASSUME amode = "receipts", NEW rc \in names
        PROVE  HasRoot(rc)' \/ RowsOf(rc[2]) \subseteq released
    <3>1. rc \in receipts /\ Backed(rc)
      BY <1>2, <2>1, <2>2 DEF NamesInv
    <3>2. CASE rc[1] = "large"
      <4>1. RowsOf(rc[2]) = {rc[2][1]}
        BY <1>2, <3>1, <3>2, LargeRowOf
      <4> QED
        BY <2>1, <3>1, <3>2, <4>1 DEF Backed, HasRoot
    <3>3. CASE rc[1] # "large"
      BY <2>1, <3>1, <3>3 DEF Backed, HasRoot
    <3> QED
      BY <3>2, <3>3
  <2>3. NamesInv'
    BY <1>1, <1>2, <2>1, <2>2 DEF NamesInv, AuditTypeOK
  <2>4. AuditTypeOK' /\ ListedInv' /\ ReportIsTrue'
    BY <1>1, <1>2, <2>1 DEF AuditTypeOK, ListedInv, ReportIsTrue
  <2> QED
    BY <1>1, <2>3, <2>4 DEF AuditInv
<1>5. CASE ListDirectPins
  <2>1. /\ listed' = direct
        /\ UNCHANGED <<amode, names, recursive, rootRows, covered, unpinned, receiptedBefore>>
        /\ \/ /\ apc = "direct" /\ apc' = "count" /\ amode = "receipts"
              /\ UNCHANGED keptBefore
           \/ /\ apc = "idle" /\ apc' = "recursive" /\ amode = "pins"
              /\ keptBefore' = Kept
    BY <1>5 DEF ListDirectPins
  <2>2. ASSUME apc = "direct", NEW rc \in names, rc[1] = "large"
        PROVE  RowsOf(rc[2]) \subseteq direct \cup released
    <3>1. rc \in receipts
      BY <1>2, <2>2 DEF NamesInv, AuditTypeOK
    <3> QED
      BY <1>2, <2>2, <3>1, LargeRowOf DEF Backed
  <2>3. NamesInv'
    BY <1>1, <1>2, <2>1, <2>2 DEF NamesInv, HasRoot
  <2>4. AuditTypeOK' /\ ListedInv' /\ ReportIsTrue'
    BY <1>1, <1>2, <2>1 DEF AuditTypeOK, ListedInv, ReportIsTrue
  <2> QED
    BY <1>1, <2>3, <2>4 DEF AuditInv
<1>6. CASE CountReceipts
  <2> DEFINE rooted == {rc \in names : HasRoot(rc)}
  <2>1. /\ apc = "count" /\ apc' = "done" /\ amode = "receipts"
        /\ covered' = (UNION {Rooted(rc) : rc \in rooted}) \cup listed \cup raw
        /\ unpinned' = names \ rooted
        /\ UNCHANGED <<amode, names, recursive, rootRows, listed, keptBefore, receiptedBefore>>
    BY <1>2, <1>6 DEF CountReceipts, AuditTypeOK
  <2>2. \A rc \in unpinned' : RowsOf(rc[2]) \subseteq released
    BY <1>2, <2>1 DEF NamesInv
  <2>3. ASSUME NEW rc \in rooted
        PROVE  /\ Rooted(rc) \subseteq Kept \cup released
               /\ RowsOf(rc[2]) \subseteq Rooted(rc) \cup released
    BY <1>2, <2>1 DEF Rooted, HasRoot, ListedInv, NamesInv
  <2>4. covered' \subseteq Kept \cup released
    BY <1>2, <2>1, <2>3 DEF ListedInv
  <2>5. ASSUME NEW rc \in names PROVE RowsOf(rc[2]) \subseteq covered' \cup released
    <3>1. CASE rc \in rooted
      <4>1. Rooted(rc) \subseteq covered'
        BY <2>1, <3>1
      <4> QED
        BY <2>3, <3>1, <4>1
    <3>2. CASE rc \notin rooted
      BY <2>1, <2>2, <3>2
    <3> QED
      BY <3>1, <3>2
  <2>6. receiptedBefore = names
    BY <1>2, <2>1 DEF NamesInv
  <2>7. ReportIsTrue'
    BY <1>1, <2>1, <2>2, <2>4, <2>5, <2>6 DEF ReportIsTrue
  <2>8. AuditTypeOK' /\ NamesInv' /\ ListedInv'
    BY <1>1, <1>2, <2>1 DEF AuditTypeOK, NamesInv, ListedInv
  <2> QED
    BY <1>1, <2>7, <2>8 DEF AuditInv
<1>7. CASE RootGone
  BY <1>1, <1>2, <1>7 DEF RootGone, AuditInv, AuditTypeOK, NamesInv, ListedInv, ReportIsTrue
<1>8. CASE CountPins
  <2>1. /\ apc = "indirect" /\ apc' = "done" /\ amode = "pins"
        /\ covered' = listed \cup Linked(roots) \cup raw
        /\ unpinned' = unpinned
        /\ UNCHANGED <<amode, names, recursive, rootRows, listed, keptBefore, receiptedBefore>>
    BY <1>2, <1>8 DEF CountPins, AuditTypeOK
  <2>2. AuditTypeOK' /\ NamesInv' /\ ListedInv'
    BY <1>1, <1>2, <2>1 DEF AuditTypeOK, NamesInv, ListedInv
  <2>3. covered' \subseteq Kept \cup released /\ keptBefore \subseteq covered' \cup released
    BY <1>2, <2>1 DEF ListedInv
  <2>4. ReportIsTrue'
    BY <1>1, <1>2, <2>1, <2>3 DEF NamesInv, ReportIsTrue
  <2> QED
    BY <1>1, <2>2, <2>4 DEF AuditInv
<1> QED
  BY <1>3, <1>4, <1>5, <1>6, <1>7, <1>8 DEF Audit

(* The invariant of the audit over a node that goes on: what its listings   *)
(* show of what was there when each was taken.                              *)
THEOREM AuditInvariant == AuditSpec => []AuditInv
<1>1. AuditInv /\ [AuditNext]_<<nodeVars, auditVars>> => AuditInv'
  BY AuditKeepsInv, NodeKeepsAudit DEF AuditNext
<1>2. AuditInit => AuditInv
  BY AuditInitial
<1> QED
  BY <1>1, <1>2, PTL DEF AuditSpec

(* The report of audit_lake.py is true of a repository that changed while   *)
(* it was made: it counts no row and calls no root unpinned but by what     *)
(* another service let go, and leaves out nothing that was held before.     *)
THEOREM AuditReportsTruth == AuditSpec => []ReportIsTrue
  BY AuditInvariant, PTL DEF AuditInv

-----------------------------------------------------------------------------
(* The read-back                                                            *)

\* What load_state asks of a checkpoint, and main of its counters.
AddsUp(state) ==
  /\ state \in [cursor : 0 .. Count, present : Nat, missing : Nat]
  /\ state.present + state.missing = state.cursor
  /\ ~gaps => state.missing = 0

\* A running batch has its counters from the checkpoint and only adds to them.
ScanInv ==
  rpc # "idle" => /\ AddsUp(scan)
                  /\ scan = ledger \/ /\ scan.cursor > ledger.cursor
                                      /\ scan.present >= ledger.present
                                      /\ scan.missing >= ledger.missing

ReadbackInv == gaps \in BOOLEAN /\ rpc \in {"idle", "read", "save"} /\ AddsUp(ledger) /\ ScanInv

CheckpointGrows ==
  ledger' # ledger => /\ ledger'.cursor > ledger.cursor
                      /\ ledger'.present >= ledger.present
                      /\ ledger'.missing >= ledger.missing

LEMMA ReadbackInitial == ReadbackInit => ReadbackInv
  BY ImportAssumption, ReadbackAssumption
     DEF ReadbackInit, ReadbackInv, AddsUp, ScanInv, FreshState

\* One row more, present or missing.
LEMMA RowIsCounted ==
  ASSUME AddsUp(scan), scan.cursor < Count,
         \/ scan' = [scan EXCEPT !.cursor = @ + 1, !.present = @ + 1]
         \/ scan' = [scan EXCEPT !.cursor = @ + 1, !.missing = @ + 1] /\ gaps
  PROVE  /\ AddsUp(scan')
         /\ scan'.cursor > scan.cursor /\ scan'.present >= scan.present
         /\ scan'.missing >= scan.missing
<1>1. /\ scan \in [cursor : 0 .. Count, present : Nat, missing : Nat]
      /\ scan.cursor \in 0 .. Count /\ scan.present \in Nat /\ scan.missing \in Nat
      /\ scan.cursor + 1 \in 0 .. Count
  BY ImportAssumption DEF AddsUp
<1>2. CASE scan' = [scan EXCEPT !.cursor = @ + 1, !.present = @ + 1]
  <2>1. ASSUME NEW c \in 0 .. Count, NEW p \in Nat,
               scan' = [scan EXCEPT !.cursor = c, !.present = p]
        PROVE  /\ scan' \in [cursor : 0 .. Count, present : Nat, missing : Nat]
               /\ scan'.cursor = c /\ scan'.present = p /\ scan'.missing = scan.missing
    BY <1>1, <2>1
  <2>2. scan' = [scan EXCEPT !.cursor = scan.cursor + 1, !.present = scan.present + 1]
    BY <1>2, Zenon
  <2>3. scan.present + 1 \in Nat
    BY <1>1
  <2>4. /\ scan' \in [cursor : 0 .. Count, present : Nat, missing : Nat]
        /\ scan'.cursor = scan.cursor + 1 /\ scan'.present = scan.present + 1
        /\ scan'.missing = scan.missing
    BY <1>1, <2>1, <2>2, <2>3, Zenon
  <2> QED
    BY <1>1, <1>2, <2>4 DEF AddsUp
<1>3. CASE scan' = [scan EXCEPT !.cursor = @ + 1, !.missing = @ + 1] /\ gaps
  <2>1. ASSUME NEW c \in 0 .. Count, NEW p \in Nat,
               scan' = [scan EXCEPT !.cursor = c, !.missing = p]
        PROVE  /\ scan' \in [cursor : 0 .. Count, present : Nat, missing : Nat]
               /\ scan'.cursor = c /\ scan'.missing = p /\ scan'.present = scan.present
    BY <1>1, <2>1
  <2>2. scan' = [scan EXCEPT !.cursor = scan.cursor + 1, !.missing = scan.missing + 1]
    BY <1>3, Zenon
  <2>3. scan.missing + 1 \in Nat
    BY <1>1
  <2>4. /\ scan' \in [cursor : 0 .. Count, present : Nat, missing : Nat]
        /\ scan'.cursor = scan.cursor + 1 /\ scan'.missing = scan.missing + 1
        /\ scan'.present = scan.present
    BY <1>1, <2>1, <2>2, <2>3, Zenon
  <2> QED
    BY <1>1, <1>3, <2>4 DEF AddsUp
<1> QED
  BY <1>2, <1>3

LEMMA ReadRowKeepsInv == ASSUME ReadbackInv, ReadRow PROVE ReadbackInv' /\ CheckpointGrows
<1>1. /\ gaps' = gaps /\ ledger' = ledger /\ rpc' \in {"read", "save"} /\ rpc # "idle"
      /\ scan.cursor < Count
  BY DEF ReadRow
<1>2. AddsUp(scan) /\ AddsUp(ledger) /\ gaps \in BOOLEAN
  BY <1>1 DEF ReadbackInv, ScanInv
<1>3. CASE scan' = scan
  BY <1>1, <1>2, <1>3 DEF ReadbackInv, ScanInv, AddsUp, CheckpointGrows
<1>4. CASE \/ scan' = [scan EXCEPT !.cursor = @ + 1, !.present = @ + 1]
           \/ scan' = [scan EXCEPT !.cursor = @ + 1, !.missing = @ + 1] /\ gaps
  <2>1. /\ AddsUp(scan')
        /\ scan'.cursor > scan.cursor /\ scan'.present >= scan.present
        /\ scan'.missing >= scan.missing
    BY <1>1, <1>2, <1>4, RowIsCounted
  <2>2. /\ scan.cursor >= ledger.cursor /\ scan.present >= ledger.present
        /\ scan.missing >= ledger.missing
    BY <1>1, <1>2, ImportAssumption DEF ReadbackInv, ScanInv, AddsUp
  <2>3. /\ scan'.cursor > ledger.cursor /\ scan'.present >= ledger.present
        /\ scan'.missing >= ledger.missing
    BY <1>2, <2>1, <2>2, ImportAssumption DEF AddsUp
  <2>4. AddsUp(scan)' /\ AddsUp(ledger)'
    BY <1>1, <1>2, <2>1 DEF AddsUp
  <2> QED
    BY <1>1, <1>2, <2>3, <2>4 DEF ReadbackInv, ScanInv, CheckpointGrows
<1> QED
  BY <1>3, <1>4 DEF ReadRow

LEMMA ReadbackStep ==
  ASSUME ReadbackInv, ReadbackNext \/ UNCHANGED <<nodeVars, scanVars>>
  PROVE  ReadbackInv' /\ CheckpointGrows
<1> USE DEF ReadbackInv, ScanInv, CheckpointGrows
<1>1. CASE BatchStart
  BY <1>1 DEF BatchStart, AddsUp
<1>2. CASE BatchFull
  BY <1>2 DEF BatchFull, AddsUp
<1>3. CASE SaveState
  BY <1>3 DEF SaveState, AddsUp
<1>4. CASE ReadbackDies
  BY <1>4 DEF ReadbackDies, AddsUp
<1>5. CASE UNCHANGED scanVars
  BY <1>5 DEF scanVars, AddsUp
<1> QED
  BY <1>1, <1>2, <1>3, <1>4, <1>5, ReadRowKeepsInv DEF ReadbackNext, Readback

(* verify_lake_leaves.py never leaves a checkpoint that its next batch      *)
(* refuses: wherever a batch is killed, the counters of the checkpoint add  *)
(* up to its cursor, and a read-back that stops at gaps has counted none.   *)
THEOREM SavedStateAddsUp == ReadbackSpec => []AddsUp(ledger)
<1>1. ReadbackInv /\ [ReadbackNext]_<<nodeVars, scanVars>> => ReadbackInv'
  BY ReadbackStep
<1>2. ReadbackInv => AddsUp(ledger)
  BY DEF ReadbackInv
<1> QED
  BY <1>1, <1>2, ReadbackInitial, PTL DEF ReadbackSpec

(* A killed batch is repeated from the checkpoint and none is counted       *)
(* twice: the checkpoint only moves forward.                                *)
THEOREM ReadbackOnlyAdvances == ReadbackSpec => [][CheckpointGrows]_ledger
<1>1. ReadbackInv /\ [ReadbackNext]_<<nodeVars, scanVars>> =>
        ReadbackInv' /\ [CheckpointGrows]_ledger
  BY ReadbackStep
<1> QED
  BY <1>1, ReadbackInitial, PTL DEF ReadbackSpec
=============================================================================
