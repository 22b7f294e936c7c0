--------------------------- MODULE ReplicateLake ---------------------------
(***************************************************************************)
(* The lake replicator (deploy/replicate_lake.py with raw_block_store.py): *)
(* a timer starts a bounded run that walks the pinned inventory page by    *)
(* page, copies the blocks its Kubo does not keep, and moves a durable     *)
(* cursor.  One process runs at a time (flock); what moves beside it is    *)
(* the reader that serves the listing, the operator who rolls a new        *)
(* inventory out, and another service that pins and unpins on the same     *)
(* Kubo.  Downloads are disposable until they are put, so a block is       *)
(* fetched where it is consumed, in the order of the inventory.            *)
(***************************************************************************)
EXTENDS Integers, Sequences

CONSTANTS
  Cids,          \* the blocks of the lake
  None,          \* JSON null
  Rows,          \* snapshot -> the CIDs of the inventory, in its order
  Size,          \* CID -> the byte count the inventory lists
  PageSize,      \* rows of a listing page
  MaxPages,      \* --max-pages
  MaxNewBytes,   \* --max-new-bytes
  Undecodable,   \* the blocks whose pin Kubo refuses with `pin: protobuf:'
  Shared,        \* the blocks that another service pins and later unpins, once
  LegacyCursors, \* the cursors a checkpoint of the public listing may stand at
  Late,          \* listed by the inventory, but not when the public walk passed
  MaxFaults      \* bound: how often a run is killed or refused from outside

Snapshots == {"old", "new"}
Slots == Snapshots \cup {"legacy"}
Last(s) == Len(Rows[s])
RowsUpTo(s, n) == {Rows[s][i] : i \in 1..n}

ASSUME ReplicaAssumption ==
  /\ None \notin Cids \cup Nat \cup Snapshots
  /\ Rows \in [Snapshots -> Seq(Cids)]
  /\ \A s \in Snapshots : Len(Rows[s]) > 0
  /\ RowsUpTo("old", Len(Rows["old"])) \subseteq RowsUpTo("new", Len(Rows["new"]))
  /\ Size \in [Cids -> Nat \ {0}]
  /\ PageSize \in Nat \ {0} /\ MaxPages \in Nat \ {0} /\ MaxFaults \in Nat
  /\ MaxNewBytes \in Nat /\ \A c \in Cids : Size[c] =< MaxNewBytes
  /\ Undecodable \subseteq Cids /\ Shared \subseteq Cids \ Undecodable
  /\ Late \subseteq Cids /\ LegacyCursors \subseteq RowsUpTo("old", Len(Rows["old"]))

VARIABLES
  checkpoint, \* checkpoint.json: the cursor and the listing it belongs to
  backups,    \* the copies that migrations make of it
  receipts,   \* receipts.jsonl
  pinned,     \* what Kubo keeps, whoever pinned it
  rawData,    \* the raw store's .block files
  rawMeta,    \* the raw store's .json files
  conf,       \* the inventory the service unit names
  serving,    \* the inventory the local reader serves
  sharing,    \* whether the other service still has to pin or to unpin
  pc,         \* where the run is
  args,       \* the inventory this run was started with
  listing,    \* the inventory the page in hand was served from
  known,      \* kubo.pins: the pins as the run knows them
  at,         \* the row of the page that is checked next
  last,       \* the last row of the page
  todo,       \* the rows selected for copying and not yet receipted
  bytes,      \* the bytes selected in this run
  stopped,    \* whether the page met the byte budget
  pages,      \* pages finished in this run
  faults,     \* how often a run ended from outside
  exempt      \* history: passed without being kept, see Safe

disk == <<checkpoint, backups, receipts, rawData, rawMeta>>
others == <<conf, serving, sharing, faults>>
run == <<args, listing, known, at, last, todo, bytes, stopped, pages>>
vars == <<disk, pinned, others, pc, run, exempt>>

\* A fresh state directory has no checkpoint file; it reads as this one.
NoCheckpoint == [cursor |-> None, source |-> None]

\* What survives: a pin of Kubo's, or a complete entry of the raw store.
Held == pinned \cup (rawData \cap rawMeta)

\* Held, or known to have been let go by somebody else: unpinned by another
\* service, or never shown by the public listing the checkpoint comes from.
Safe == Held \cup exempt

Position == IF checkpoint.cursor = None THEN 0 ELSE checkpoint.cursor

IdleRun ==
  /\ args' = None /\ listing' = None /\ known' = {} /\ at' = 0 /\ last' = 0 /\ todo' = {}
  /\ bytes' = 0 /\ stopped' = FALSE /\ pages' = 0

EndRun ==
  /\ pc' = "idle" /\ IdleRun
  /\ UNCHANGED <<disk, pinned, others, exempt>>

-----------------------------------------------------------------------------
TypeOK ==
  /\ checkpoint \in [cursor : Nat \cup Cids \cup {None}, source : Snapshots \cup {None}]
  /\ backups \in [Slots -> {"none", "torn", "full"}]
  /\ receipts \subseteq Cids /\ pinned \subseteq Cids
  /\ rawData \subseteq Cids /\ rawMeta \subseteq Cids
  /\ conf \in Snapshots /\ serving \in Snapshots
  /\ sharing \in [Cids -> {"pin", "unpin", "done"}]
  /\ pc \in {"idle", "prepare", "backup", "fill", "migrate", "preflight", "list", "check",
             "copy", "put", "pin", "confirm", "raw", "rawmeta", "receipt", "report"}
  /\ args \in Snapshots \cup {None} /\ listing \in Snapshots \cup {None}
  /\ known \subseteq Cids /\ todo \subseteq Nat \ {0}
  /\ at \in Nat /\ last \in Nat /\ bytes \in Nat /\ pages \in Nat /\ faults \in Nat
  /\ stopped \in BOOLEAN /\ exempt \subseteq Cids

\* A node that starts, or one that walked the public listing up to a CID and
\* pinned what that listing showed.
Init ==
  /\ \/ checkpoint = NoCheckpoint /\ pinned = {}
     \/ \E i \in 1..Last("old") :
          /\ Rows["old"][i] \in LegacyCursors
          /\ checkpoint = [cursor |-> Rows["old"][i], source |-> None]
          /\ pinned = RowsUpTo("old", i) \ Late
  /\ backups = [s \in Slots |-> "none"]
  /\ receipts = {} /\ rawData = {} /\ rawMeta = {}
  /\ conf = "old" /\ serving = "old"
  /\ sharing = [c \in Cids |-> IF c \in Shared THEN "pin" ELSE "done"]
  /\ pc = "idle" /\ args = None /\ listing = None /\ known = {} /\ at = 0 /\ last = 0 /\ todo = {}
  /\ bytes = 0 /\ stopped = FALSE /\ pages = 0 /\ faults = 0 /\ exempt = {}

-----------------------------------------------------------------------------
(* Preparing the checkpoint                                                *)

\* The timer fires and the lock is free.
StartRun ==
  /\ pc = "idle"
  /\ pc' = "prepare" /\ args' = conf
  /\ UNCHANGED <<disk, pinned, others, listing, known, at, last, todo, bytes, stopped, pages, exempt>>

Go(next) == pc' = next /\ UNCHANGED <<pinned, others, run, exempt>>

Prepared ==
  /\ pc = "prepare" /\ checkpoint.source = args
  /\ Go("preflight") /\ UNCHANGED disk

\* From the public listing, or from the inventory before, which the new one
\* covers and the reader has left behind.
StartMigration ==
  /\ pc = "prepare" /\ checkpoint.source # args
  /\ checkpoint.source = None \/ serving = args
  /\ Go(IF checkpoint = NoCheckpoint THEN "migrate" ELSE "backup") /\ UNCHANGED disk

RefuseStaleReader ==
  /\ pc = "prepare" /\ checkpoint.source \notin {None, args} /\ serving # args
  /\ EndRun

Slot == IF checkpoint.source = None THEN "legacy" ELSE checkpoint.source

\* open("xb") creates the file; the bytes follow.
CreateBackup ==
  /\ pc = "backup" /\ backups[Slot] = "none"
  /\ backups' = [backups EXCEPT ![Slot] = "torn"]
  /\ Go("fill") /\ UNCHANGED <<checkpoint, receipts, rawData, rawMeta>>

FillBackup ==
  /\ pc = "fill"
  /\ backups' = [backups EXCEPT ![Slot] = "full"]
  /\ Go("migrate") /\ UNCHANGED <<checkpoint, receipts, rawData, rawMeta>>

\* A full backup is one of this same checkpoint: nothing is saved before the
\* migration is.
KeepBackup ==
  /\ pc = "backup" /\ backups[Slot] = "full"
  /\ Go("migrate") /\ UNCHANGED disk

\* A file with other bytes than the checkpoint's is never replaced.
RefuseBackup ==
  /\ pc = "backup" /\ backups[Slot] = "torn"
  /\ EndRun

\* Mutant: a new inventory is entered at the row where the old one was left.
MigrateInPlace ==
  /\ pc = "migrate"
  /\ IF checkpoint.source = None
     THEN \E offset \in IF checkpoint.cursor = None THEN {None}
                        ELSE {i \in 1..Last(args) : Rows[args][i] = checkpoint.cursor} :
            /\ checkpoint' = [cursor |-> offset, source |-> args]
            /\ exempt' = IF offset = None THEN exempt
                         ELSE exempt \cup (RowsUpTo(args, offset) \ Held)
     ELSE checkpoint' = [checkpoint EXCEPT !.source = args] /\ UNCHANGED exempt
  /\ pc' = "preflight"
  /\ UNCHANGED <<backups, receipts, rawData, rawMeta, pinned, others, run>>

\* A legacy cursor becomes the offset behind its CID, the rows before it taken
\* for copied; from another inventory the walk starts again at row zero.
Migrate ==
  /\ pc = "migrate"
  /\ IF checkpoint.source = None
     THEN \E offset \in IF checkpoint.cursor = None THEN {None}
                        ELSE {i \in 1..Last(args) : Rows[args][i] = checkpoint.cursor} :
            /\ checkpoint' = [cursor |-> offset, source |-> args]
            /\ exempt' = IF offset = None THEN exempt
                         ELSE exempt \cup (RowsUpTo(args, offset) \ Held)
     ELSE checkpoint' = [cursor |-> 0, source |-> args] /\ UNCHANGED exempt
  /\ pc' = "preflight"
  /\ UNCHANGED <<backups, receipts, rawData, rawMeta, pinned, others, run>>

-----------------------------------------------------------------------------
(* A page: listing, selection, copies                                      *)

\* The pin list and the raw store's entries, read once for the whole run.
Preflight ==
  /\ pc = "preflight"
  /\ known' = pinned \cup rawMeta /\ pc' = "list"
  /\ UNCHANGED <<disk, pinned, others, args, listing, at, last, todo, bytes, stopped, pages, exempt>>

ListPage ==
  /\ pc = "list" /\ serving = args /\ Position < Last(serving)
  /\ listing' = serving /\ at' = Position + 1
  /\ last' = IF Position + PageSize < Last(serving) THEN Position + PageSize ELSE Last(serving)
  /\ todo' = {} /\ pc' = "check"
  /\ UNCHANGED <<disk, pinned, others, args, known, bytes, stopped, pages, exempt>>

\* The reader serves another inventory, or knows no row at the cursor.
RefusePage ==
  /\ pc = "list" /\ (serving # args \/ Position >= Last(serving))
  /\ EndRun

Checked == Rows[listing][at]

\* Mutant: bytes that are already there count against the budget.
CheckPinnedCounted ==
  /\ pc = "check" /\ at =< last /\ Checked \in known \cup pinned
  /\ bytes + Size[Checked] =< MaxNewBytes
  /\ bytes' = bytes + Size[Checked]
  /\ known' = known \cup {Checked} /\ at' = at + 1
  /\ UNCHANGED <<disk, pinned, others, pc, args, listing, last, todo, stopped, pages, exempt>>

\* Pinned as the run remembers it, or as Kubo says now; the size is compared.
CheckPinned ==
  /\ pc = "check" /\ at =< last /\ Checked \in known \cup pinned
  /\ known' = known \cup {Checked} /\ at' = at + 1
  /\ UNCHANGED <<disk, pinned, others, pc, args, listing, last, todo, bytes, stopped, pages, exempt>>

\* Remembered as pinned, unpinned since and collected: its size is unreadable.
RefuseSize ==
  /\ pc = "check" /\ at =< last /\ Checked \in known \ Held
  /\ EndRun

Select ==
  /\ pc = "check" /\ at =< last /\ Checked \notin known \cup pinned
  /\ bytes + Size[Checked] =< MaxNewBytes
  /\ bytes' = bytes + Size[Checked]
  /\ todo' = todo \cup {at} /\ at' = at + 1
  /\ UNCHANGED <<disk, pinned, others, pc, args, listing, known, last, stopped, pages, exempt>>

StopAtBudget ==
  /\ pc = "check" /\ at =< last /\ Checked \notin known \cup pinned
  /\ bytes + Size[Checked] > MaxNewBytes
  /\ stopped' = TRUE /\ pc' = "copy"
  /\ UNCHANGED <<disk, pinned, others, args, listing, known, at, last, todo, bytes, pages, exempt>>

StartCopy ==
  /\ pc = "check" /\ at > last
  /\ Go("copy") /\ UNCHANGED disk

Oldest(i) == i \in todo /\ \A j \in todo : i =< j

\* A source answers with as many bytes as are listed.  Other rows are fetched
\* meanwhile; what they brought is disposable until their turn comes.
FetchBlock ==
  /\ pc = "copy" /\ todo # {}
  /\ Go("put") /\ UNCHANGED disk

\* Kubo rederives the CID from the bytes and reads them back.  Until they are
\* pinned its collector may take them, and nothing relies on them.
PutBlock ==
  /\ pc = "put"
  /\ Go("pin") /\ UNCHANGED disk

\* The pin is added, or its answer is lost and the pin found when asked for.
PinBlock ==
  /\ pc = "pin"
  /\ \E i \in todo :
       /\ Oldest(i) /\ Rows[listing][i] \notin Undecodable
       /\ pinned' = pinned \cup {Rows[listing][i]}
       /\ exempt' = exempt \ {Rows[listing][i]}
  /\ pc' = "confirm"
  /\ UNCHANGED <<disk, others, run>>

PinUndecodable ==
  /\ pc = "pin"
  /\ \E i \in todo : Oldest(i) /\ Rows[listing][i] \in Undecodable
  /\ Go("raw") /\ UNCHANGED disk

ConfirmPin ==
  /\ pc = "confirm"
  /\ \E i \in todo :
       Oldest(i) /\ Rows[listing][i] \in pinned /\ known' = known \cup {Rows[listing][i]}
  /\ pc' = "receipt"
  /\ UNCHANGED <<disk, pinned, others, args, listing, at, last, todo, bytes, stopped, pages, exempt>>

RefusePin ==
  /\ pc = "confirm"
  /\ \E i \in todo : Oldest(i) /\ Rows[listing][i] \notin pinned
  /\ EndRun

\* Mutant: the bytes alone are taken for an entry.
PutRawDataAlone ==
  /\ pc = "raw"
  /\ \E i \in todo : Oldest(i) /\ rawData' = rawData \cup {Rows[listing][i]}
  /\ Go("receipt") /\ UNCHANGED <<checkpoint, backups, receipts, rawMeta>>

PutRawData ==
  /\ pc = "raw"
  /\ \E i \in todo : Oldest(i) /\ rawData' = rawData \cup {Rows[listing][i]}
  /\ Go("rawmeta") /\ UNCHANGED <<checkpoint, backups, receipts, rawMeta>>

PutRawMeta ==
  /\ pc = "rawmeta"
  /\ \E i \in todo :
       /\ Oldest(i)
       /\ rawMeta' = rawMeta \cup {Rows[listing][i]}
       /\ known' = known \cup {Rows[listing][i]}
       /\ exempt' = exempt \ {Rows[listing][i]}
  /\ pc' = "receipt"
  /\ UNCHANGED <<checkpoint, backups, receipts, rawData, pinned, others, args, listing, at, last, todo,
                 bytes, stopped, pages>>

\* The receipt is fsynced, then the counters of the checkpoint, which decide
\* nothing and are left out.
AppendReceipt ==
  /\ pc = "receipt"
  /\ \E i \in todo : Oldest(i) /\ receipts' = receipts \cup {Rows[listing][i]} /\ todo' = todo \ {i}
  /\ pc' = "copy"
  /\ UNCHANGED <<checkpoint, backups, rawData, rawMeta, pinned, others, args, listing, known, at, last,
                 bytes, stopped, pages, exempt>>

-----------------------------------------------------------------------------
(* The end of a page and of a run                                          *)

PageDone == pc = "copy" /\ todo = {}

\* Mutant: the page counts as done where the budget stopped it.
AdvancePastBudget ==
  /\ PageDone /\ last < Last(listing)
  /\ checkpoint' = [checkpoint EXCEPT !.cursor = last]
  /\ pages' = pages + 1
  /\ pc' = IF pages + 1 < MaxPages THEN "list" ELSE "report"
  /\ UNCHANGED <<backups, receipts, rawData, rawMeta, pinned, others, args, listing, known, at, last,
                 todo, bytes, stopped, exempt>>

\* The listing was truncated: on to its cursor, unless the pages are used up.
AdvanceCursor ==
  /\ PageDone /\ ~stopped /\ last < Last(listing)
  /\ checkpoint' = [checkpoint EXCEPT !.cursor = last]
  /\ pages' = pages + 1
  /\ pc' = IF pages + 1 < MaxPages THEN "list" ELSE "report"
  /\ UNCHANGED <<backups, receipts, rawData, rawMeta, pinned, others, args, listing, known, at, last,
                 todo, bytes, stopped, exempt>>

CompleteCycle ==
  /\ PageDone /\ ~stopped /\ last = Last(listing)
  /\ checkpoint' = [checkpoint EXCEPT !.cursor = None]
  /\ pages' = pages + 1 /\ pc' = "report"
  /\ UNCHANGED <<backups, receipts, rawData, rawMeta, pinned, others, args, listing, known, at, last,
                 todo, bytes, stopped, exempt>>

ReturnByteBudget ==
  /\ PageDone /\ stopped
  /\ Go("report") /\ UNCHANGED disk

\* The batch receipt is written and the process exits.
ReportBatch == pc = "report" /\ EndRun

\* Killed, out of time or disk, no source answers, or one answers other bytes.
Fault ==
  /\ pc # "idle" /\ faults < MaxFaults
  /\ pc' = "idle" /\ IdleRun /\ faults' = faults + 1
  /\ UNCHANGED <<disk, pinned, conf, serving, sharing, exempt>>

-----------------------------------------------------------------------------
(* The surroundings                                                        *)

OtherPins(c) ==
  /\ sharing[c] = "pin"
  /\ pinned' = pinned \cup {c} /\ exempt' = exempt \ {c}
  /\ sharing' = [sharing EXCEPT ![c] = "unpin"]
  /\ UNCHANGED <<disk, conf, serving, faults, pc, run>>

\* Kubo keeps one pin whoever added it.
OtherUnpins(c) ==
  /\ sharing[c] = "unpin"
  /\ pinned' = pinned \ {c}
  /\ exempt' = exempt \cup {c}
  /\ sharing' = [sharing EXCEPT ![c] = "done"]
  /\ UNCHANGED <<disk, conf, serving, faults, pc, run>>

\* The operator installs the new snapshot: the reader and the unit, in either
\* order, and at any moment of a run.
RollReader ==
  /\ serving = "old" /\ serving' = "new"
  /\ UNCHANGED <<disk, pinned, conf, sharing, faults, pc, run, exempt>>

RollUnit ==
  /\ conf = "old" /\ conf' = "new"
  /\ UNCHANGED <<disk, pinned, serving, sharing, faults, pc, run, exempt>>

-----------------------------------------------------------------------------
Prepare ==
  \/ Prepared \/ StartMigration \/ RefuseStaleReader
  \/ CreateBackup \/ FillBackup \/ KeepBackup \/ RefuseBackup \/ Migrate

Page ==
  \/ Preflight \/ ListPage \/ RefusePage \/ CheckPinned \/ RefuseSize \/ Select
  \/ StopAtBudget \/ StartCopy

Copy ==
  \/ FetchBlock \/ PutBlock \/ PinBlock \/ PinUndecodable \/ ConfirmPin \/ RefusePin
  \/ PutRawData \/ PutRawMeta \/ AppendReceipt

EndOfPage == AdvanceCursor \/ CompleteCycle \/ ReturnByteBudget \/ ReportBatch

Replicate == StartRun \/ Prepare \/ Page \/ Copy \/ EndOfPage

Surroundings ==
  (\E c \in Cids : OtherPins(c)) \/ (\E c \in Cids : OtherUnpins(c)) \/ RollReader \/ RollUnit

Next == Replicate \/ Fault \/ Surroundings

Spec == Init /\ [][Next]_vars

\* The timer keeps starting runs and a run that is not hit by a fault goes on;
\* a rollover that was begun is finished.
FinishRollover == conf # serving /\ (RollReader \/ RollUnit)
FairSpec ==
  Spec /\ WF_vars(Replicate) /\ WF_vars(FinishRollover)

-----------------------------------------------------------------------------
(* Properties                                                              *)

Copying == pc \in {"copy", "put", "pin", "confirm", "raw", "rawmeta", "receipt"}

\* Every row below the cursor is safe; a legacy cursor is a CID.
CursorInv ==
  IF checkpoint.source = None
  THEN checkpoint.cursor \in Cids \cup {None}
  ELSE /\ Position \in 0..Last(checkpoint.source)
       /\ RowsUpTo(checkpoint.source, Position) \subseteq Safe

RunInv ==
  /\ pc # "idle" => args \in Snapshots
  /\ pc \in {"preflight", "list", "check", "report"} \/ Copying => checkpoint.source = args

\* Each row of the page that was checked is safe or still selected.
PageInv ==
  pc = "check" \/ Copying =>
    /\ listing = args /\ last =< Last(args)
    /\ Position < at /\ Position < last /\ at =< last + 1
    /\ todo \subseteq (Position + 1)..(at - 1)
    /\ \A i \in 1..(at - 1) : i \in todo \/ Rows[args][i] \in Safe
    /\ Copying /\ ~stopped => at = last + 1

\* What the steps of one copy have established for the oldest selected row.
CopyInv ==
  /\ pc \in {"confirm", "receipt"} => \A i \in todo : Oldest(i) => Rows[args][i] \in Safe
  /\ pc = "rawmeta" => \A i \in todo : Oldest(i) => Rows[args][i] \in rawData

\* "cycle-complete" is reported only by a run after which this node keeps
\* every row of the inventory the run was started with.
CompleteMeansHeld ==
  pc = "report" /\ checkpoint.cursor = None /\ ~stopped => RowsUpTo(args, Last(args)) \subseteq Safe

\* The inductive invariant of the replicator: what the cursor promises, what
\* the run knows of its page, and what each file on the disk stands for.
ReplicaInv ==
  /\ TypeOK
  /\ rawMeta \subseteq rawData /\ known \subseteq Safe /\ receipts \subseteq Safe
  /\ CursorInv /\ RunInv /\ PageInv /\ CopyInv /\ CompleteMeansHeld

\* The docstring: "A durable cursor advances only after every block on a page
\* has been checked".  Every row below the cursor is kept by this node, across
\* crashes, budgets and a change of inventory under a running reader, unless
\* somebody else unpinned it or the legacy listing never showed it.
CursorPassesOnlyHeld ==
  checkpoint.source # None => RowsUpTo(checkpoint.source, Position) \subseteq Safe

\* A receipt says that a block was copied: it is written for bytes that are
\* durable at that moment, in Kubo or in the raw store.
ReceiptMeansHeld == receipts \subseteq Safe

\* The raw store lists its entries by their metadata, which therefore never
\* stands without the bytes, whenever the process dies between the two files.
RawEntryIsComplete == rawMeta \subseteq rawData

AllHeld == RowsUpTo(conf, Last(conf)) \subseteq Held

\* A backup cut short, or a legacy cursor that stood at the last row.
NeedsOperator ==
  \/ backups[Slot] = "torn"
  \/ checkpoint.source # None /\ checkpoint.cursor = Last(checkpoint.source)

\* Once faults, foreign unpins and rollovers are over, this node ends up
\* keeping the whole inventory: page limits and byte budgets only spread the
\* work over runs, what was unpinned is found again by the next cycle, and a
\* change of inventory is completed.  Two states need an operator.
InventoryEndsHeld == <>[](AllHeld \/ NeedsOperator)
=============================================================================
