------------------------------ MODULE LakeNode ------------------------------
(***************************************************************************)
(* A storage node as its readers find it: the Kubo repository and the raw   *)
(* block store that the reader, the audit and the read-back share, and the  *)
(* programs that fill them.  The native mirror (mirror_lake_bitswap.py) is  *)
(* modelled step by step; the CAR importer by the promise that ShipCar is   *)
(* shown to keep; the large-block importer and the replicator by the order  *)
(* of their pins and receipts.  Another service on the same Kubo releases   *)
(* pins, and Kubo collects what no pin keeps.                               *)
(***************************************************************************)
EXTENDS LakeImport, FiniteSets

CONSTANTS
  CarRanges,    \* ranges that the shipper delivers
  NativeEnd,    \* the native mirror copies the rows below --end-row
  NativeLimits, \* what --max-blocks and --max-bytes leave of a batch
  DirectRows,   \* rows that the replicator pins one by one
  RawRows,      \* rows that go to the raw block store
  LargeRows,    \* rows that come as recovery CARs
  MaxClock,     \* bound: ticks of the file system's clock
  MaxReleases,  \* bound: pins another service releases
  MaxKills      \* bound: kills of a program on this node

ASSUME NodeAssumption ==
  /\ Kinds = {"car", "native", "large"}
  /\ CarRanges \subseteq RowRange
  /\ NativeEnd \in 1 .. Count /\ NativeLimits \subseteq Nat \ {0}
  /\ DirectRows \subseteq Row /\ RawRows \subseteq Row /\ LargeRows \subseteq Row
  /\ MaxClock \in Nat /\ MaxReleases \in Nat /\ MaxKills \in Nat

VARIABLES
  direct,       \* rows pinned directly
  recovered,    \* rows with a pinned recovery root
  raw,          \* rows in the raw block store
  stamps,       \* kind -> mtime of its receipt directory
  clock,        \* the file system's coarse clock
  npc, nrng,    \* the running native mirror: its step and its batch
  ncursor,      \* its checkpoint
  released,     \* history: rows that a pin released by another service kept
  kills         \* how often a program was killed

keptVars == <<importVars, direct, recovered, raw>>
nativeVars == <<npc, nrng, ncursor>>
nodeVars == <<keptVars, nativeVars, stamps, clock, released, kills>>

Pinned == Linked(roots) \cup direct

\* What survives a collection.
Kept == (Pinned \cap blocks) \cup raw

\* What `block get --offline' and the raw store can show.
Readable == blocks \cup raw

NodeInit ==
  /\ ImportInit
  /\ direct = {} /\ recovered = {} /\ raw = {}
  /\ stamps = [k \in Kinds |-> 0] /\ clock = 0
  /\ npc = "idle" /\ nrng = <<0, 0>> /\ ncursor = 0
  /\ released = {} /\ kills = 0
-----------------------------------------------------------------------------
(* A receipt is renamed into its directory, which stamps the directory with *)
(* the tick in which this happens.                                          *)
Publish(k, r) ==
  /\ receipts' = receipts \cup {<<k, r>>}
  /\ stamps' = [stamps EXCEPT ![k] = clock]

PinCar(r) ==
  /\ r \in CarRanges \ roots
  /\ PinRange(r)
  /\ UNCHANGED <<direct, recovered, raw, nativeVars, stamps, clock, released, kills>>

ReceiptCar(r) ==
  /\ r \in roots \cap CarRanges /\ <<"car", r>> \notin receipts
  /\ Publish("car", r)
  /\ UNCHANGED <<blocks, roots, direct, recovered, raw, nativeVars, clock,
                 released, kills>>

\* A run of the native mirror: a batch with a receipt is not fetched again,
\* but its root must still be pinned.
NativeStart ==
  /\ npc = "idle" /\ ncursor # NativeEnd
  /\ \E limit \in NativeLimits :
       nrng' = <<ncursor, IF ncursor + limit < NativeEnd
                            THEN ncursor + limit ELSE NativeEnd>>
  /\ \/ <<"native", nrng'>> \in receipts /\ nrng' \in roots /\ npc' = "checkpoint"
     \/ <<"native", nrng'>> \notin receipts /\ npc' = "fetch"
  /\ UNCHANGED <<keptVars, ncursor, stamps, clock, released, kills>>

\* The workers fetch the rows in any order.
NativeFetch ==
  /\ npc = "fetch"
  /\ \E i \in RowsOf(nrng) \ blocks : blocks' = blocks \cup {i}
  /\ UNCHANGED <<roots, receipts, direct, recovered, raw, nativeVars, stamps,
                 clock, released, kills>>

\* Mutant: the root of a batch is stored and not pinned.
NativePut ==
  /\ npc = "fetch" /\ RowsOf(nrng) \subseteq blocks
  /\ npc' = "receipt"
  /\ UNCHANGED <<keptVars, nrng, ncursor, stamps, clock, released, kills>>

NativePin ==
  /\ npc = "fetch" /\ RowsOf(nrng) \subseteq blocks
  /\ PinRange(nrng)
  /\ npc' = "receipt"
  /\ UNCHANGED <<direct, recovered, raw, nrng, ncursor, stamps, clock,
                 released, kills>>

NativeReceipt ==
  /\ npc = "receipt"
  /\ Publish("native", nrng)
  /\ npc' = "checkpoint"
  /\ UNCHANGED <<blocks, roots, direct, recovered, raw, nrng, ncursor, clock,
                 released, kills>>

NativeCheckpoint ==
  /\ npc = "checkpoint"
  /\ ncursor' = nrng[2]
  /\ npc' = "idle"
  /\ UNCHANGED <<keptVars, nrng, stamps, clock, released, kills>>

NativeDies ==
  /\ npc # "idle" /\ kills < MaxKills
  /\ npc' = "idle" /\ kills' = kills + 1
  /\ UNCHANGED <<keptVars, nrng, ncursor, stamps, clock, released>>

\* The large-block importer: recovery root, original, receipt.
PinRecovery(i) ==
  /\ i \in LargeRows \ recovered
  /\ recovered' = recovered \cup {i}
  /\ UNCHANGED <<importVars, direct, raw, nativeVars, stamps, clock, released, kills>>

Rehydrate(i) ==
  /\ i \in recovered \ direct
  /\ direct' = direct \cup {i} /\ blocks' = blocks \cup {i}
  /\ UNCHANGED <<roots, receipts, recovered, raw, nativeVars, stamps, clock,
                 released, kills>>

ReceiptLarge(i) ==
  /\ i \in recovered \cap direct /\ <<"large", <<i, i + 1>>>> \notin receipts
  /\ Publish("large", <<i, i + 1>>)
  /\ UNCHANGED <<blocks, roots, direct, recovered, raw, nativeVars, clock,
                 released, kills>>

PinDirect(i) ==
  /\ i \in DirectRows \ direct
  /\ direct' = direct \cup {i} /\ blocks' = blocks \cup {i}
  /\ UNCHANGED <<roots, receipts, recovered, raw, nativeVars, stamps, clock,
                 released, kills>>

PutRaw(i) ==
  /\ i \in RawRows \ raw
  /\ raw' = raw \cup {i}
  /\ UNCHANGED <<importVars, direct, recovered, nativeVars, stamps, clock,
                 released, kills>>

\* Another service on this Kubo lets a pin go.
Release(rows) ==
  /\ Cardinality(released) < MaxReleases
  /\ released' = released \cup rows
  /\ UNCHANGED <<blocks, receipts, raw, nativeVars, stamps, clock, kills>>

ReleaseRoot(r) ==
  /\ r \in roots /\ roots' = roots \ {r} /\ Release(RowsOf(r))
  /\ UNCHANGED <<direct, recovered>>

ReleaseDirect(i) ==
  /\ i \in direct /\ direct' = direct \ {i} /\ Release({i})
  /\ UNCHANGED <<roots, recovered>>

ReleaseRecovery(i) ==
  /\ i \in recovered /\ recovered' = recovered \ {i} /\ Release({i})
  /\ UNCHANGED <<roots, direct>>

CollectNode ==
  /\ blocks' = blocks \cap Pinned /\ blocks' # blocks
  /\ UNCHANGED <<roots, receipts, direct, recovered, raw, nativeVars, stamps,
                 clock, released, kills>>

Tick ==
  /\ clock < MaxClock /\ clock' = clock + 1
  /\ UNCHANGED <<keptVars, nativeVars, stamps, released, kills>>

Native ==
  \/ NativeStart \/ NativeFetch \/ NativePin \/ NativeReceipt \/ NativeCheckpoint

NodeNext ==
  \/ Native \/ NativeDies \/ CollectNode \/ Tick
  \/ \E r \in RowRange : PinCar(r) \/ ReceiptCar(r) \/ ReleaseRoot(r)
  \/ \E i \in Row : \/ PinRecovery(i) \/ Rehydrate(i) \/ ReceiptLarge(i)
                    \/ PinDirect(i) \/ PutRaw(i)
                    \/ ReleaseDirect(i) \/ ReleaseRecovery(i)

NodeSpec == NodeInit /\ [][NodeNext]_nodeVars
-----------------------------------------------------------------------------
(* A row that the native mirror has passed is linked by the pinned root of  *)
(* a native receipt and stored, unless another service let it go: whenever  *)
(* the mirror is killed, and whatever is collected.                         *)
MirroredRowsAreKept ==
  \A i \in Row : i < ncursor =>
    \/ i \in released
    \/ /\ i \in blocks
       /\ \E r \in roots : i \in RowsOf(r) /\ <<"native", r>> \in receipts
=============================================================================
