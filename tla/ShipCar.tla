------------------------------- MODULE ShipCar -------------------------------
(***************************************************************************)
(* ship_lake_car.py with the three programs it runs on other hosts: the     *)
(* exporter of the source, the unpacker and the importer of the             *)
(* destination.  A run is bounded: it ships one range of rows or skips one  *)
(* row, moves its checkpoint, and ends; a timer starts the next.  What a    *)
(* run knows is lost with it, what it left on the three disks stays, and a  *)
(* remote program whose ssh was cut runs on.                                *)
(***************************************************************************)
EXTENDS LakeImport

CONSTANTS
  Large,        \* rows above MAX_CAR_BLOCK
  Manifests,    \* raw CID manifests a run may be given, as sets of rows
  Limits,       \* what --max-blocks and --max-bytes leave of a range
  Modes,        \* "plain", "zstd" (--carv2-zstd), "s3" (and --s3-destination)
  MaxFaults,    \* bound: kills, cut connections, refused commands
  MaxCollects   \* bound: collections of the destination's Kubo

ASSUME ShipAssumption ==
  /\ Large \subseteq Row
  /\ Manifests \subseteq SUBSET Row
  /\ Limits \subseteq Nat \ {0}
  /\ Modes \subseteq {"plain", "zstd", "s3"}
  /\ MaxFaults \in Nat /\ MaxCollects \in Nat
  /\ "car" \in Kinds

VARIABLES
  mode,         \* the transport the unit is configured for
  pc, rng,      \* the running shipper: its step and its range
  cursor,       \* checkpoint.json
  cars,         \* ranges with a whole CAR in the state directory,
  exported,     \*   with an export receipt beside it,
  archives,     \*   with a .carv2.zst,
  packed,       \*   and with the receipt of that
  skips,        \* <<row, reason>> of the skip receipts
  sourceCars,   \* CARs in the output directory of the source
  sourceDone,   \*   and their receipts
  sent,         \* whole files copied to the destination
  unpacked,     \* .carv2 files restored there
  unpackDone,   \*   and their receipts
  torn,         \* import receipts still called .partial
  uploads,      \* <<range, object>> in the S3 bucket
  shipped,      \* history: ranges the checkpoint moved over
  rawStore,     \* rows in the destination's raw block store
  recovery,     \* rows with a recovery archive there
  jobs,         \* remote programs
  faults, collects

localVars == <<cursor, cars, exported, archives, packed, skips, shipped>>
sourceVars == <<sourceCars, sourceDone>>
transitVars == <<sent, unpacked, unpackDone, torn>>
boundVars == <<mode, faults, collects>>
shipVars == <<importVars, localVars, sourceVars, transitVars, boundVars,
              pc, rng, uploads, rawStore, recovery, jobs>>

Job == 0 .. MaxFaults
Idle == [kind |-> "none", rng |-> <<0, 0>>, at |-> "none", ward |-> FALSE]

\* The running shipper waits for the output of a ward.
Run(kind, r) == [kind |-> kind, rng |-> r, at |-> "check", ward |-> TRUE]

Busy(j, kind, at) == jobs[j].kind = kind /\ jobs[j].at = at
-----------------------------------------------------------------------------
(* selected_rows: a range goes up to the limit, the end, or the first row   *)
(* that is too large for a CAR or that the manifest gives to the raw store. *)
Shippable(i, manifest) == i \in Row \ (Large \cup manifest)

Selected(start, end, limit, manifest) ==
  /\ end - start <= limit
  /\ \A i \in start .. end - 1 : Shippable(i, manifest)
  /\ end - start = limit \/ ~Shippable(end, manifest)

Reason(i, manifest) == IF i \in manifest THEN "raw" ELSE "oversized"

VerifiedElsewhere(i, reason) ==
  IF reason = "raw" THEN i \in rawStore ELSE i \in recovery

ShipInit ==
  /\ ImportInit
  /\ mode \in Modes
  /\ pc = "idle" /\ rng = <<0, 0>> /\ cursor = 0
  /\ cars = {} /\ exported = {} /\ archives = {} /\ packed = {} /\ skips = {}
  /\ sourceCars = {} /\ sourceDone = {}
  /\ sent = {} /\ unpacked = {} /\ unpackDone = {} /\ torn = {}
  /\ uploads = {} /\ shipped = {} /\ rawStore = {} /\ recovery = {}
  /\ jobs = [j \in Job |-> Idle]
  /\ faults = 0 /\ collects = 0
-----------------------------------------------------------------------------
(* The shipper.                                                             *)

\* ssh: the program takes the first free slot; there are enough of them.
Launch(kind, r) ==
  \E j \in Job :
    /\ jobs[j] = Idle /\ \A k \in Job : k < j => jobs[k] # Idle
    /\ jobs' = [jobs EXCEPT ![j] = Run(kind, r)]

AfterExport == IF mode = "plain" THEN "send" ELSE "pack"

\* A range without an export receipt: the source is asked for its CAR.
StartExport(r) ==
  /\ r \notin exported
  /\ pc' = "wait"
  /\ Launch("export", r)

\* A range exported by an earlier run goes on from the saved CAR.
StartSaved(r) ==
  /\ r \in exported /\ r \in cars
  /\ pc' = AfterExport
  /\ UNCHANGED jobs

StartRange ==
  /\ pc = "idle"
  /\ \E limit \in Limits, manifest \in Manifests, r \in RowRange :
       /\ r[1] = cursor /\ Selected(cursor, r[2], limit, manifest)
       /\ rng' = r
       /\ StartExport(r) \/ StartSaved(r)
  /\ UNCHANGED <<importVars, localVars, sourceVars, transitVars, boundVars,
                 uploads, rawStore, recovery>>

\* A row for the raw store or the large-block lane: passed only when the
\* destination shows it, and never under two reasons.
StartSkip ==
  /\ pc = "idle" /\ cursor \in Row
  /\ \E manifest \in Manifests :
       LET reason == Reason(cursor, manifest) IN
       /\ ~Shippable(cursor, manifest)
       /\ VerifiedElsewhere(cursor, reason)
       /\ \A s \in skips : s[1] = cursor => s[2] = reason
       /\ skips' = skips \cup {<<cursor, reason>>}
  /\ pc' = "skip"
  /\ UNCHANGED <<importVars, sourceVars, transitVars, boundVars, rng, cursor,
                 cars, exported, archives, packed, shipped, uploads,
                 rawStore, recovery, jobs>>

CheckpointSkip ==
  /\ pc = "skip"
  /\ cursor' = cursor + 1
  /\ pc' = "idle"
  /\ UNCHANGED <<importVars, sourceVars, transitVars, boundVars, rng, cars,
                 exported, archives, packed, skips, shipped, uploads,
                 rawStore, recovery, jobs>>

\* Every later start answers "complete".
StartComplete == pc = "idle" /\ cursor = Count /\ UNCHANGED shipVars

CopyHome ==
  /\ pc = "copy" /\ rng \in sourceCars
  /\ cars' = cars \cup {rng}
  /\ pc' = "record"
  /\ UNCHANGED <<importVars, sourceVars, transitVars, boundVars, rng, cursor,
                 exported, archives, packed, skips, shipped, uploads,
                 rawStore, recovery, jobs>>

RecordExport ==
  /\ pc = "record"
  /\ exported' = exported \cup {rng}
  /\ pc' = AfterExport
  /\ UNCHANGED <<importVars, sourceVars, transitVars, boundVars, rng, cursor,
                 cars, archives, packed, skips, shipped, uploads,
                 rawStore, recovery, jobs>>

\* pack of carv2_zstd.py: a saved pair is taken again, half of one refused.
Pack ==
  /\ pc = "pack"
  /\ archives' = archives \cup IF rng \in packed THEN {} ELSE {rng}
  /\ pc' = IF rng \in archives /\ rng \in packed THEN "send"
           ELSE IF rng \in archives \cup packed THEN "idle" ELSE "packed"
  /\ UNCHANGED <<importVars, sourceVars, transitVars, boundVars, rng, cursor,
                 cars, exported, packed, skips, shipped, uploads,
                 rawStore, recovery, jobs>>

PackReceipt ==
  /\ pc = "packed"
  /\ packed' = packed \cup {rng}
  /\ pc' = "send"
  /\ UNCHANGED <<importVars, sourceVars, transitVars, boundVars, rng, cursor,
                 cars, exported, archives, skips, shipped, uploads,
                 rawStore, recovery, jobs>>

\* scp truncates what an earlier run left under the same name; with S3 the
\* archive goes to the bucket first and the destination fetches it there.
BeginSend ==
  /\ pc = "send"
  /\ uploads' = uploads \cup IF mode = "s3" THEN {<<rng, "archive">>} ELSE {}
  /\ sent' = sent \ {rng}
  /\ pc' = "sending"
  /\ UNCHANGED <<importVars, localVars, sourceVars, boundVars, rng, unpacked,
                 unpackDone, torn, rawStore, recovery, jobs>>

EndSend ==
  /\ pc = "sending"
  /\ sent' = sent \cup {rng}
  /\ pc' = "wait"
  /\ Launch(IF mode = "plain" THEN "import" ELSE "unpack", rng)
  /\ UNCHANGED <<importVars, localVars, sourceVars, boundVars, rng, unpacked,
                 unpackDone, torn, uploads, rawStore, recovery>>

UploadManifest ==
  /\ pc = "manifest"
  /\ uploads' = uploads \cup {<<rng, "manifest">>}
  /\ pc' = "cleanup"
  /\ UNCHANGED <<importVars, localVars, sourceVars, transitVars, boundVars,
                 rng, rawStore, recovery, jobs>>

CleanDestination ==
  /\ pc = "cleanup"
  /\ sent' = sent \ {rng} /\ unpacked' = unpacked \ {rng}
  /\ unpackDone' = unpackDone \ {rng}
  /\ pc' = "cleanSource"
  /\ UNCHANGED <<importVars, localVars, sourceVars, boundVars, rng, torn,
                 uploads, rawStore, recovery, jobs>>

CleanSource ==
  /\ pc = "cleanSource"
  /\ sourceCars' = sourceCars \ {rng} /\ sourceDone' = sourceDone \ {rng}
  /\ pc' = "checkpoint"
  /\ UNCHANGED <<importVars, localVars, transitVars, boundVars, rng, uploads,
                 rawStore, recovery, jobs>>

Checkpoint ==
  /\ pc = "checkpoint"
  /\ cursor' = rng[2]
  /\ shipped' = shipped \cup {rng}
  /\ pc' = "unlink"
  /\ UNCHANGED <<importVars, sourceVars, transitVars, boundVars, rng, cars,
                 exported, archives, packed, skips, uploads,
                 rawStore, recovery, jobs>>

Unlink ==
  /\ pc = "unlink"
  /\ cars' = cars \ {rng} /\ archives' = archives \ {rng}
  /\ pc' = "idle"
  /\ UNCHANGED <<importVars, sourceVars, transitVars, boundVars, rng, cursor,
                 exported, packed, skips, shipped, uploads,
                 rawStore, recovery, jobs>>
-----------------------------------------------------------------------------
(* The remote programs.                                                     *)

Step(j, at) == jobs' = [jobs EXCEPT ![j].at = at] /\ UNCHANGED pc

\* It ends well: a shipper that waits goes on, with the importer after the
\* unpacker.
NextStep(kind) ==
  CASE kind = "export" -> "copy"
    [] kind = "unpack" -> "wait"
    [] kind = "import" -> IF mode = "s3" THEN "manifest" ELSE "cleanup"

Finish(j) ==
  /\ jobs' = [jobs EXCEPT ![j] =
                IF jobs[j].ward /\ jobs[j].kind = "unpack"
                  THEN Run("import", jobs[j].rng) ELSE Idle]
  /\ pc' = IF jobs[j].ward THEN NextStep(jobs[j].kind) ELSE pc

\* Mutant: the exit status of ssh is not looked at.
FailUnnoticed(j) ==
  /\ jobs' = [jobs EXCEPT ![j] = Idle]
  /\ pc' = IF jobs[j].ward THEN NextStep(jobs[j].kind) ELSE pc

\* It refuses or dies: a shipper that waits raises and ends.
Fail(j) ==
  /\ jobs' = [jobs EXCEPT ![j] = Idle]
  /\ pc' = IF jobs[j].ward THEN "idle" ELSE pc

\* Mutant: a CAR that is there is refused, with its receipt as without.
ExportAfresh(j) ==
  LET r == jobs[j].rng IN
  /\ Busy(j, "export", "check")
  /\ \/ r \in sourceDone \cup sourceCars /\ Fail(j) /\ UNCHANGED sourceCars
     \/ /\ r \notin sourceDone \cup sourceCars
        /\ sourceCars' = sourceCars \cup {r}
        /\ Step(j, "receipt")
  /\ UNCHANGED <<importVars, localVars, sourceDone, transitVars, boundVars,
                 rng, uploads, rawStore, recovery>>

\* export: the receipt makes a saved CAR good; a CAR without one is refused.
ExportCheck(j) ==
  LET r == jobs[j].rng IN
  /\ Busy(j, "export", "check")
  /\ \/ r \in sourceDone /\ r \in sourceCars /\ Finish(j) /\ UNCHANGED sourceCars
     \/ (r \in sourceDone) # (r \in sourceCars) /\ Fail(j) /\ UNCHANGED sourceCars
     \/ /\ r \notin sourceDone \cup sourceCars
        /\ sourceCars' = sourceCars \cup {r}
        /\ Step(j, "receipt")
  /\ UNCHANGED <<importVars, localVars, sourceDone, transitVars, boundVars,
                 rng, uploads, rawStore, recovery>>

ExportReceipt(j) ==
  /\ Busy(j, "export", "receipt")
  /\ sourceDone' = sourceDone \cup {jobs[j].rng}
  /\ Finish(j)
  /\ UNCHANGED <<importVars, localVars, sourceCars, transitVars, boundVars,
                 rng, uploads, rawStore, recovery>>

\* unpack of carv2_zstd.py: the same rule, after the digest of the input.
UnpackCheck(j) ==
  LET r == jobs[j].rng IN
  /\ Busy(j, "unpack", "check")
  /\ \/ r \in sent /\ r \in unpacked /\ r \in unpackDone /\ Finish(j)
        /\ UNCHANGED unpacked
     \/ (r \notin sent \/ (r \in unpacked) # (r \in unpackDone)) /\ Fail(j)
        /\ UNCHANGED unpacked
     \/ /\ r \in sent /\ r \notin unpacked \cup unpackDone
        /\ unpacked' = unpacked \cup {r}
        /\ Step(j, "receipt")
  /\ UNCHANGED <<importVars, localVars, sourceVars, sent, unpackDone, torn,
                 boundVars, rng, uploads, rawStore, recovery>>

UnpackReceipt(j) ==
  /\ Busy(j, "unpack", "receipt")
  /\ unpackDone' = unpackDone \cup {jobs[j].rng}
  /\ Finish(j)
  /\ UNCHANGED <<importVars, localVars, sourceVars, sent, unpacked, torn,
                 boundVars, rng, uploads, rawStore, recovery>>

\* import_batch: the digest of its file, then `dag import' reads it again.
Whole(r) == r \in IF mode = "plain" THEN sent ELSE unpacked

\* Mutant: blocks that are all there already are taken for an earlier import.
ImportUnlessStored(j) ==
  /\ Busy(j, "import", "check")
  /\ IF RowsOf(jobs[j].rng) \subseteq blocks THEN Step(j, "open")
     ELSE IF Whole(jobs[j].rng) THEN Step(j, "load") ELSE Fail(j)
  /\ UNCHANGED <<importVars, localVars, sourceVars, transitVars, boundVars,
                 rng, uploads, rawStore, recovery>>

ImportCheck(j) ==
  /\ Busy(j, "import", "check")
  /\ IF Whole(jobs[j].rng) THEN Step(j, "load") ELSE Fail(j)
  /\ UNCHANGED <<importVars, localVars, sourceVars, transitVars, boundVars,
                 rng, uploads, rawStore, recovery>>

\* A file that a later run is writing again yields some of its blocks.
Load(j) ==
  LET rows == RowsOf(jobs[j].rng) IN
  /\ Busy(j, "import", "load")
  /\ \E got \in SUBSET rows :
       /\ Whole(jobs[j].rng) => got = rows
       /\ blocks' = blocks \cup got
       /\ Step(j, "pin") \/ (got # rows /\ Fail(j))
  /\ UNCHANGED <<roots, receipts, localVars, sourceVars, transitVars,
                 boundVars, rng, uploads, rawStore, recovery>>

\* `dag put --pin' walks the links: what is missing by now, Kubo fetches or
\* the command fails (JobDies).
Pin(j) ==
  /\ Busy(j, "import", "pin")
  /\ PinRange(jobs[j].rng)
  /\ Step(j, "open")
  /\ UNCHANGED <<localVars, sourceVars, transitVars, boundVars, rng, uploads,
                 rawStore, recovery>>

\* open("x"): a .partial of the same name is never replaced.
OpenReceipt(j) ==
  LET r == jobs[j].rng IN
  /\ Busy(j, "import", "open")
  /\ IF r \in torn THEN Fail(j) ELSE Step(j, "publish")
  /\ torn' = torn \cup {r}
  /\ UNCHANGED <<importVars, localVars, sourceVars, sent, unpacked,
                 unpackDone, boundVars, rng, uploads, rawStore, recovery>>

PublishReceipt(j) ==
  LET r == jobs[j].rng IN
  /\ Busy(j, "import", "publish")
  /\ receipts' = receipts \cup {<<"car", r>>}
  /\ torn' = torn \ {r}
  /\ Finish(j)
  /\ UNCHANGED <<blocks, roots, localVars, sourceVars, sent, unpacked,
                 unpackDone, boundVars, rng, uploads, rawStore, recovery>>
-----------------------------------------------------------------------------
(* What goes wrong, and what others do at the destination.                  *)

\* Killed, timed out or refused: the lock is free, its program is on its own.
ShipperDies ==
  /\ faults < MaxFaults /\ pc # "idle"
  /\ pc' = "idle"
  /\ jobs' = [j \in Job |-> [jobs[j] EXCEPT !.ward = FALSE]]
  /\ faults' = faults + 1
  /\ UNCHANGED <<importVars, localVars, sourceVars, transitVars, mode,
                 collects, rng, uploads, rawStore, recovery>>

JobDies(j) ==
  /\ faults < MaxFaults /\ jobs[j] # Idle
  /\ Fail(j)
  /\ faults' = faults + 1
  /\ UNCHANGED <<importVars, localVars, sourceVars, transitVars, mode,
                 collects, rng, uploads, rawStore, recovery>>

CollectGarbage ==
  /\ collects < MaxCollects
  /\ blocks' = blocks \cap Linked(roots)
  /\ collects' = collects + 1
  /\ UNCHANGED <<roots, receipts, localVars, sourceVars, transitVars, mode,
                 faults, pc, rng, uploads, rawStore, recovery, jobs>>

\* The raw replicator and the large-block lane deliver their rows.
StoredElsewhere(i) ==
  /\ \/ /\ i \in (UNION Manifests) \ rawStore
        /\ rawStore' = rawStore \cup {i} /\ UNCHANGED recovery
     \/ /\ i \in Large \ recovery
        /\ recovery' = recovery \cup {i} /\ UNCHANGED rawStore
  /\ UNCHANGED <<importVars, localVars, sourceVars, transitVars, boundVars,
                 pc, rng, uploads, jobs>>

Shipper ==
  \/ StartRange \/ StartSkip \/ CheckpointSkip
  \/ CopyHome \/ RecordExport \/ Pack \/ PackReceipt
  \/ BeginSend \/ EndSend \/ UploadManifest
  \/ CleanDestination \/ CleanSource \/ Checkpoint \/ Unlink

Remote(j) ==
  \/ ExportCheck(j) \/ ExportReceipt(j) \/ UnpackCheck(j) \/ UnpackReceipt(j)
  \/ ImportCheck(j) \/ Load(j) \/ Pin(j) \/ OpenReceipt(j) \/ PublishReceipt(j)

ShipNext ==
  \/ Shipper \/ StartComplete \/ ShipperDies \/ CollectGarbage
  \/ \E j \in Job : Remote(j) \/ JobDies(j)
  \/ \E i \in Row : StoredElsewhere(i)

ShipSpec == ShipInit /\ [][ShipNext]_shipVars

ShipFairSpec ==
  /\ ShipSpec
  /\ WF_shipVars(Shipper)
  /\ \A j \in Job : WF_shipVars(Remote(j))
  /\ \A i \in Row : WF_shipVars(StoredElsewhere(i))
-----------------------------------------------------------------------------
(* A row behind the checkpoint is kept at the destination: a pinned root    *)
(* links it and its block is there, or the raw store or the recovery        *)
(* archive has it; and what a unit with S3 has shipped is in the bucket     *)
(* with its manifest.  Whatever dies, is collected or repeated.             *)
PassedRowsAreKept ==
  /\ \A i \in Row : i < cursor =>
       i \in (Linked(roots) \cap blocks) \cup rawStore \cup recovery
  /\ mode = "s3" => \A r \in shipped :
       <<r, "archive">> \in uploads /\ <<r, "manifest">> \in uploads

(* The states in which a run for this range is refused until an operator    *)
(* removes a file: half of a pair is there, and nobody is about to write    *)
(* the other half.                                                          *)
Writing(kind, at, r) == \E j \in Job : Busy(j, kind, at) /\ jobs[j].rng = r

NeedsOperator ==
  \E r \in RowRange :
    /\ r[1] = cursor
    /\ \/ r \in sourceCars \ (sourceDone \cup exported)
         /\ ~Writing("export", "receipt", r)
       \/ r \in archives \ packed /\ ~(pc = "packed" /\ rng = r)
       \/ r \in unpacked \ unpackDone /\ ~Writing("unpack", "receipt", r)
       \/ r \in torn /\ ~Writing("import", "publish", r)

(* Once faults stop, the inventory is shipped to its end, or the shipper is *)
(* for good before a range that an operator has to free.                    *)
ShippingEnds == <>(cursor = Count) \/ <>[]NeedsOperator
=============================================================================
