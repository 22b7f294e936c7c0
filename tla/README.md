# A verification development for yataverse-distribution

TLA+ models of the parts of `yataverse-distribution` where order, failure and
concurrency decide whether the system is right; TLC runs that check them on
small instances; and TLAPS proofs for every value of the constants.

Paths are relative to the repository root, which is `src/` in `PROJECT.json`;
line numbers are in its `map`.

## The system

The repository moves a content-addressed "lake" of blocks, and the signed heads
that name graphs in it, from Cloudflare R2 to a small fleet of hosts (xavier,
jacob, main-2, gad). A CID is the hash of the bytes, so bytes cannot be wrong
silently; what can be wrong is which bytes are named, kept, copied or released,
and when. That is what is modelled.

| component | state it keeps | operations | talks to |
|---|---|---|---|
| `yataverse_writer.cljk` + `lake_head.cljk` submit/verify | per graph: cached head, promise chain of writes; document files | POST/GET `/v1/graph-head` | witnesses (HTTP, child process), synchronous custodians (pin commands), other writers only through inga |
| inga witnesses (engine package, external) | a log per ref, one record per seq | submit, committed | writers, readers |
| `custody_puller.cljk` | state file of held CIDs; pins in its Kubo | one round per tick over all graphs | witnesses, Kubo |
| `block_ingest.cljk` | MFS entries, direct pins, holds files, heads files; in memory: PUT slots, rate buckets | PUT/GET/DELETE blocks, PUT/GET heads, GET holds | Kubo (child processes) |
| `block_mirror.cljk` | the same store on another host | rounds: list, copy, release, heads | entrance (HTTP), both Kubos (bitswap) |
| `replicate_lake.py`, `raw_block_store.py` | checkpoint (cursor, counters), receipts, raw blocks | batches over an inventory listing | origin, Kubo, listing service |
| `lake_epoch_cycle.cljk` | `cycle-state.json` with the done steps, the files of its steps, `cycle.lock` | thirteen steps, resumed | capture, diff, custody hosts over ssh, `lake_head`, jacob's reader |
| `capture_lake_inventory.cljk`, `diff_lake_inventory.cljk` | a walk's checkpoint and partial file; the diff and its receipt | one walk of the listing; one comparison of two | the public listing |
| `p6_drill.cljk` | the same kind of state file, in its own directory | cuts an epoch of one signed action | the same log, hosts and reader |
| `ship_lake_car.py` with the exporter, `carv2_zstd.py` and `import_lake_car.py` | checkpoint; export, skip, container and import receipts; CAR files on three disks | one range per run: export, pack, send, unpack, import, clean, checkpoint | programs over ssh, destination Kubo, S3 |
| `mirror_lake_bitswap.py` | checkpoint, receipts; pins | one batch of rows per run, fetched by workers | origin peer, its Kubo |
| `serve_lake.py` | table of covered ranges, two semaphores | GET blocks, listing, health | raw store, Kubo, the receipts of shipper and native mirror |
| `audit_lake.py`, `verify_lake_leaves.py` | a report; a checkpoint with counts | one audit; batches of an offline read-back | the same node |
| `export_large_lake_batch.py`, `import_large_lake_batch.py` and their children | recovery CARs and receipts, local and on two nodes; a checkpoint and import receipts | bounded runs over the oversized rows | two nodes over ssh; the importer's Kubo |
| `r2_head_follower.cljk` | none (the R2 object) | every two minutes: compare, put | writer GET, R2, beside the Worker |
| `r2_origin_bridge.py` | byte budget, token | GET blocks from concurrent threads | R2 |
| `router_standby.py` | failure counter, router mapping | one check per timer tick | router (UPnP), gateways, xavier's own renewal |
| `recover_graph_heads.cljk`, `ipns_fallback.cljk` | none | one-shot commands | witnesses, IPNS |
| `planner`, `gossip_bridge`, `filecoin_archive`, `evidence` | none | pure functions, a service receipt host | - |

Interaction, for the part modelled here:

    clients --POST/GET--> writers --pin--> synchronous custodians
                            |  \--submit--> witnesses (inga: first record of a seq wins)
                            |                 |
              block owners  |                 +--verify--> custody puller --pin--> its Kubo
                   |
                PUT/DELETE --> block entrance --listings--> block mirror --bitswap--> its Kubo
                                    |
                                  Kubo  <--put, pin--  lake replicator  <--pages--  reader (serve_lake)
                                                        |        \--undecodable--> raw block store
                                                    checkpoint, backups, receipts

    public listing --pages--> captures (two) --> epoch cycle --copies--> xavier, jacob
                                                  |  ^   \--epoch--> reader of jacob
                            drill --record--> witnesses --log--> resolve

    source Kubo --exporter--> shipper --(S3)--> unpacker --> importer --root, receipt--> node
                                               native mirror --root, receipt------------> node
                              large export --CAR--> archive --large import--------------> node
                          node: Kubo + raw store + receipts <-- reader, audits, read-back

    writers --head--> R2 follower --put--> R2 <--copy-- Worker        R2 --bridge--> tools
    router <--check-- gad (standby)      router <--renew-- xavier

What makes it hard: writers race on one sequence with caches and a fast path
that believes one witness; witnesses lag each by its own amount; documents have
to be durable before they are committed; a puller walks a growing chain
backwards and can stop anywhere; the entrance handles requests concurrently with
awaits between check and act while Kubo collects garbage; the mirror acts on a
listing of a moving source; the replicator believes pins it read once, spreads an
inventory over many bounded runs, and is moved to another inventory while it runs;
the epoch cycle takes hours over a listing that changes, writes files before the state
file knows of them, and shares the log and the reader with the drill;
the shipper's remote programs outlive the ssh that started them and meet the next
attempt under the same file names; the reader and the audits put an answer together
from several looks at a node that changes between them; the router check removes one
mapping before it has another; and every process may be restarted at any step.

What makes each component correct:

- writers: the committed heads form one chain in which each link was asked for by
  a request that expected the link before; 200 means committed; a document is
  held before it can be committed; every POST is answered;
- puller: whatever the state file lists is pinned and valid; exit 0 and HELD mean
  what they say; a round ends;
- entrance: a hold keeps its block; slots are neither lost nor exceeded; heads
  move forward;
- mirror: it releases only what the source let go (violated when a read fails);
- replicator: the cursor passes only blocks that are kept; a receipt, a raw entry
  and "cycle-complete" mean what they say; the whole inventory ends up kept;
- imports: a receipt appears after the root that links its rows is pinned, and what a
  pinned root links stays;
- shipper, mirrors, exports, imports: a checkpoint or a count passes only what is
  durable at its destination, and a run gets through unless a state remains that the
  code refuses on purpose;
- reader and audits: what they say of a row is true of some moment while they looked, and
  a 404 for a row that is kept has no cause but a look that failed;
- R2 follower: R2 ends up with inga's head, whatever was rolled back on the way;
- bridge: the budget is exactly what the running fetches hold, and nobody sleeps beside
  room that he fits in;
- router standby: a check leaves a mapping behind; a primary that stays down is replaced;
- epoch cycle: one process per run (violated); a capture is the listing at its cutoff; every epoch extends the one
  before and repeats no row; it is in custody before it is committed; a run that ends
  has covered its cutoff; an interrupted run goes on.

## Modules

| module | models | uses |
|---|---|---|
| `GraphHead` | the pure part of a write: `Matches` and `Advances` from `decide` | |
| `GraphRegister` | the promise: a compare-and-set register with its history | `GraphHead` |
| `GraphWriter` | writers, their witness client, inga as they see it | `GraphHead`; INSTANCE `GraphRegister` |
| `GraphWriterProofs` | theorems | `GraphWriter` |
| `CustodyPuller` | rounds and walks of the pulling custodian | |
| `CustodyPullerProofs` | theorems | `CustodyPuller` |
| `BlockIngest` | the entrance over Kubo | |
| `BlockMirror` | the mirror composed with the entrance it follows | `BlockIngest` |
| `BlockMirrorProofs` | theorems about both | `BlockMirror` |
| `ReplicateLake` | the replicator, its raw store, the reader and unit that a rollover changes under it | |
| `ReplicateLakeProofs` | theorems | `ReplicateLake` |
| `LakeCapture` | the lake as its listing shows it, and the capture tool over it | |
| `LakeEpochCycle` | the epoch cycle, its captures, diff and delta, the log, the reader, the drill | `LakeCapture` |
| `LakeEpochCycleProofs` | theorems about the captures and the cycle | `LakeEpochCycle` |
| `CycleLock` | `cycle.lock`, for processes started on the same run | |
| `HeadFollower` | the R2 follower beside the Worker's copies | |
| `LakeImport` | the promise of every import: pinned root before receipt | |
| `ShipCar` | the shipper with its three remote programs | `LakeImport` |
| `ShipCarProofs` | theorems | `ShipCar` |
| `LakeNode` | a storage node, the native mirror and the other programs that fill it | `LakeImport` |
| `LakeReader` | the reader's threads over a node | `LakeNode` |
| `LakeAudit` | both kinds of audit report over a node | `LakeNode` |
| `LakeReadback` | the read-back's batches over a node | `LakeNode` |
| `LargeExport` | the export batch, its child and the commands it leaves on two nodes | |
| `LargeImport` | the import batch with its child | |
| `OriginBridge` | the bridge's threads | |
| `RouterStandby` | the router check | |
| `LakeNodeProofs` | theorems about the node and what looks at it | `LakeReader`, `LakeAudit`, `LakeReadback` |
| `HostProofs` | theorems about the programs of a host that stand alone | `LargeExport`, `LargeImport`, `OriginBridge`, `RouterStandby`, `HeadFollower` |
| `MCCustodians` | the replicator, the puller and the R2 follower as lanes of one run | |
| `MCLakeLanes` | the shipper, the programs over a node, both large lanes, bridge and standby as lanes of one run | |
| `MC*` | constants and symmetry for TLC | |

A run with lanes has a constant variable `lane`, chosen in the initial state: exactly
one lane moves, and the variables of the others keep their initial values. It is several
runs in one, for components that do not act on each other. Where they do act on each
other they are composed: `BlockMirror` with the entrance, `ShipCar`'s destination and
`LakeNode` through the contract `LakeImport`, the reader and the audits with the node.

Definitions with the comment "Mutant:" are not part of any specification. Each
is a plausible mistake in the definition that follows it; replacing that
definition by it makes TLC find the property violated that `PROJECT.json`
lists beside it.

### GraphWriter

| variable | code |
|---|---|
| `log`, `view` | inga's committed records of `yataverse/graph/<graph>`, and how many each witness shows |
| `submitted` | records posted to `/submit` of the witnesses |
| `held` | documents the `--pin-cmd` custodians counted by `--sync-pins` returned the CID for |
| `cache[w]` | the `:cache` atom of a writer |
| `req[w]` | the write that runs on the graph's promise chain (`serialized`) with its locals: `expected`, `head`, `cur`, the document, whether this is the second decision, the attempt number of `submit!` |
| `got[w]` | a GET between its read and its `.then` |
| `reply` | the answer a step sends, for action properties |
| `proved` | history: the last head a verify proved |

`Accept` is the start of `f` in `serialized`, from the cache if it has an entry.
`Read` is `current`. `DecideCommitted`, `DecideConflict`, `DecideRefused` and
`DecideSubmit` are the branches of `decide` with what `write-step` does with each.
`decide` is called before `write-step` has a promise: its conflict passes the `.catch`
in `write!` and is answered at once, and the cache stays as it was.
`Pin` waits for the synchronous custodians. `Submit` and `Poll` are one submission
to all witnesses and the `settle` loop after it (`landed!`), `ChildFails` the
child's time limit. `Lost` is exit code 1, whose conflict does come through a
promise, `Reread` the retry in `write!` that only this conflict gets.
`GetRead`/`GetAnswer` are GET, which is not serialised with writes. `Restart` is
launchd or systemd. A document is the record [seq, prev, head]; it stands for its
CID because the CID hashes exactly these bytes. A witness that does not answer, or
answers without a proof, is one outside the chosen subset `S` in `Current` and
`Poll`: the code drops both alike.

The witnesses' consensus is not in this repository. `Commit` and `Learn` state
what the code relies on: one record per seq and the first wins; every witness
shows a prefix of the same log and never less than before.

### CustodyPuller

`unsettled`, `walk` and `worst` are the `reduce` of `once!` and the `loop` of `pull!`;
`held` is the atom and its file, which `save-held!` replaces by a rename before
the walk goes on, so a crash never separates them. A committed document is its
graph and position because `ChainLinked` of `GraphWriter` says the chain has no
gaps, and `ReadHead` never proves an older head because of `ProvedNeverGoesBack`:
the puller's model stands on the writer's theorems. `keeps` is what its Kubo has pinned. `Bad` are the documents
`check-doc` refuses. `cut` is history: the graphs with a walk that ended early.

### BlockIngest and BlockMirror

The entrance is one Node process: what runs between two awaited children is one
step, what a child does to Kubo is another. `req` is what each connection carries,
with the phase it awaits; `inflight` is the counter of `serve!`; `held` is both
the MFS entries and the holds files, `pins` Kubo's direct pins, `blocks` what Kubo
stores. `Collect` is Kubo's own collector: it removes whatever no entry and no pin
keeps, at any moment. `files cp` and `pin add` need the block to be there
(otherwise they wait and fail, `PutFails`). Outcomes the code does not look at
(`files rm`, `pin rm` in a release) are both possible. A read that fails - `files ls`, a holds
file, a heads file - is an empty answer to the code (`read-set`, `read-all`), which may write
the file anew from it: with `ReadsFail` every such read has that second outcome (`Looks`,
`ReadSet`, `ReadAll`). `files stat` may say of any raw hold that it is not there, in every run.

`BlockMirror` EXTENDS the entrance and adds the mirror's rounds. Its steps
interleave with every step of the source. The mirror is the only writer of its own
store and awaits every child, so its side is one set and one head per name;
what it reads of them may fail like the source's. `drop` are the releases of `plan`, which are
taken one by one.
`gone` is history: what the source did not hold at some instant of the round.

### ReplicateLake

The disk is `checkpoint` (cursor and `listing_source`; `state_save` replaces the
file by a rename, so it is one variable), `backups` with what a kill may leave of
each, `receipts`, and the raw store's two files per block, `rawData` and `rawMeta`.
A run of the timer is the program counter `pc` with the locals of `run_batch`:
`args` is the inventory digest of the unit that started it, `known` is `kubo.pins`,
`at`, `last`, `todo` and `stopped` are the page loop, `selected` and `budget_stop`.
The `flock` on `replicate.lock` makes one process at a time; what moves beside it
is the reader (`serving`), the unit file (`conf`) and another service that pins
and unpins on the same Kubo (`OtherPins`, `OtherUnpins`).

`prepare_listing_state` is `Prepared` to `Migrate`, in the order of its files:
`open("xb")` creates the backup, the bytes follow, then the checkpoint is saved.
That the new inventory keeps every row of the previous one is checked by the code
on each migration and assumed of `Rows`. `Preflight` reads the pins once. `CheckPinned`, `Select`
and `StopAtBudget` are the three ways of one row; `FetchBlock` to `PinBlock` and the
raw branch are `put_verified`; `AppendReceipt` ends a row; `AdvanceCursor`,
`CompleteCycle` and `ReturnByteBudget` end the page. `Fault` is a kill, a full
disk, a source that does not answer or answers other bytes: the process is gone and
the disk stays. A block is fetched where it is consumed: `prefetch_ordered` fetches
a window ahead but yields in order, and what it fetched is discarded with the run.

`Safe` is what the properties speak of: kept now (`Held`: pinned, or both raw
files), or in the history variable `exempt`. A row enters `exempt` in two ways and
leaves it when it is copied: another service unpinned it, or a legacy checkpoint
stands behind it and the public listing had not shown it when it was passed. The
second is what the code does on the first migration: it translates the legacy
cursor into an offset and does not walk the rows before it, whereas a change
between two inventories rewinds to row zero; the next full cycle finds the row.

### LakeCapture and LakeEpochCycle

`LakeCapture` is one process of the capture tool with what it leaves on the disk:
`progress` is its state file (replaced by a rename), `partial` and `output` the two names
of its inventory. `lake`, `recent` and `early` are what the listing shows: a cutoff is
the previous whole hour, so a block uploaded since is too young for it, and a block that
is uploaded again is dated anew, which can take it out of a walk that is under way.
`cut` is history: what the listing dated before the cutoff when it was taken.

In `LakeEpochCycle`, `state` is `cycle-state.json`, `s` the atom in memory, and `marks`,
`diffed` and `resolved` the files beside it. A run's directory is one set of variables:
`pick-work` only ever resumes the newest unfinished run, and `Start` is a new dated
directory. A step returns (`Return`), and only then `Save` says on the disk that it is
done. `Kill` stops the cycle in front of any step or inside one that has parts, with its capture or
without it; a capture that outlives its cycle goes on and holds the walk's lock
(`WalkBusy`, `OrphanEnds`). `Exit` is a REFUSE or an UNMEASURED: the code saves the state
in memory there too, which is the one on the disk, since steps change it where they end.

`StepCustody` stands for `step-xavier` and `step-jacob`: copies, some of which may be
missing, and a full readback. `log` is what the witnesses committed, `pending` what was
submitted; a submission may vanish (`Lose`), as the comment in `submit!` reports. A
manifest includes the day it was made, so that one made again differs. `reader` is the
list of `--epoch` arguments in jacob's plist with the digest it must find them to have
(`total`); `EpochInventory` refuses anything else, the order included. `serving` is what the running
reader was started with, `None` when it is not running: one command edits the plist (`EditReader`) and
restarts the reader (`RestartReader`, or `RestartFails` when it is unloaded and not loaded
again), a stop may come between the two, and a start that finds the epoch listed goes on to the
health check (`AtHealth`). `DrillCuts`, `DrillResolves`, `DrillEdits` and `DrillRestarts` are the drill.

### CycleLock and HeadFollower

`CycleLock` is `main` of the epoch cycle up to `make-cycle`. `lock` is the content of
`cycle.lock`: node's `writeFileSync` opens the file and writes it in two calls, so that it
can be there and empty. A process is created, beaten by an existing file, takes it over, runs
and ends; the exit handler removes whatever file has the name, a kill leaves it.

`HeadFollower` is one graph in `one-graph`: `ReadInga` and `Compare`, then up to three
times `ReadInga`, `Recheck` and a put. `puts` are the puts R2 has not answered yet: one
that timed out may land in a later run. `copies` are the heads the Worker committed and may
still copy, in any order. The writer answers with the committed head, so a head is a number.

### LakeImport and ShipCar

`LakeImport` is the abstract specification of an import: blocks come and go, a root that
links a range is pinned, and a receipt appears for a range whose root is pinned. A range
is a pair of row numbers.

In `ShipCar`, `pc` and `rng` are the running shipper. The disks keep `cursor`
(checkpoint.json), `cars`, `exported`, `archives`, `packed`, `skips`, `sourceCars`,
`sourceDone`, `sent`, `unpacked`, `unpackDone`, `torn`, `uploads`. `jobs` are the remote programs: a job
belongs to the ssh that waits for it (the shipper's ward) or to nobody, when that ssh was cut, and
ends on its own. `StartExport` to `Unlink` are `ship_once` in the order of the
source; `ExportCheck` and `ExportReceipt` the exporter, `UnpackCheck` and `UnpackReceipt`
the restore, `ImportCheck` to `PublishReceipt` the importer, which opens its receipt as a
`.partial` with "x". `ShipperDies` and `JobDies` are kills, timeouts and refusals. `ShipImports` shows that the
destination keeps `ImportSpec` although two imports of a range may run at once, and that
is what `LakeNode` lets a CAR import do. A raised exception of `pack` or `unpack` removes
the output it was writing; the model has the kill, which does not.

### LakeNode, LakeReader, LakeAudit, LakeReadback

`LakeNode` is the repository (`blocks`, `roots`, `direct`, `recovered`), the raw store and
the receipts, with the tick of the file system's clock at which each receipt directory was
last renamed into (`stamps`). The native mirror is modelled step by step; the CAR import,
the recovery import and the replicator deliver their rows in the order their own modules
establish. `Release*` is another service that removes a pin, `released` the rows that it kept (history).

`LakeReader` has one record per thread. `Request` takes one of `Slots`; `Stat` and
`LoadReceipts` are `refresh` under its lock, the mtimes before the listing; `ReadRaw`,
`Covers`, `ListDirect`, `ListAll` and `GetBlock` are the looks of `LocalBlocks.read`. The code
tells no failure from absence: a half raw entry or an unreadable receipt is a 404, a `pin ls`
or `block get` with any nonzero exit one that found nothing, and only the time limit is a 503
(`KuboTimeout`). `misread` (history) are the threads whose 404 ended at something that was there.
`LakeAudit` is `audit_receipts` (with receipt directories) or `audit_inventory` (without),
one listing per step. `LakeReadback` is `advance` row by row and `save_state`.

### LargeExport and LargeImport

The export's child links CAR and receipt into the local directory; `put_remote` is a copy
to a `.partial`, a second one for the receipt, and a command on the node that checks the
sum and moves both (`publishers`). A cut ssh leaves the command running (`BatchDies`): it then
meets the files of the next attempt. An overtaken file is one such a command moved
after checking an earlier file of that name (`overtaken`): the property of a whole CAR excepts
it, and it takes three cuts in a row to make one.

The import follows `advance` and `recover`: the root's pin, the original put, its own pin,
the check, the receipt, the checkpoint. `ArchiveGrows` is whoever copies the archive.

### OriginBridge and RouterStandby

`OriginBridge`: `used` is the budget under its condition variable, a thread that does not fit
sleeps until `notify_all`; `refresher` is the thread in `OAuthToken.get`'s lock. Tokens have no
identity: the code sends whatever wrangler prints, and takes the first 401 of a fetch, whatever
it is for, as a reason to ask wrangler again. A request ends in a block, an
error of R2, wrangler or the client, and always passes the `finally`.

`RouterStandby` is one check: `BeginCheck`, `ProbePrimary`, `Decide` (with
`require_cutover_opt_in`, before the count is saved), `DeleteOld`, `ConfirmRemoved`,
`AddNew`, `ConfirmNew`, `PutBack`. Each router command may fail, also after it reached the
router. `XavierRenews` adds xavier's mapping beside it whenever its nginx listens;
`WorldTurns` lets gateways go up and down and the operator change how checks are run.

## Runs

| run | question | instance |
|---|---|---|
| `graph_writer` | safety of answers, refinement of the register | 2 writers, one of which serves GETs, 3 witnesses (symmetric), quorum 2, landed 1, 1 attempt, the first head, two rivals for the second, and a request that does not advance past the head it expects |
| `graph_writer_stale_cache` | is a 409 on a cached head given only when the head really conflicts | expected violation: 2 writers, 2 witnesses, quorum 2, 1 attempt, three heads of which each expects the one before, no GETs |
| `custodians` | what cursor, receipts and cycle-complete mean, and does the inventory end up kept; what held, exit 0 and HELD mean, and does a round end; does R2 end up with inga's head; is every POST answered | lane "replica": inventories of 3 and 5 rows, pages of 2, 2 pages and 3 bytes a run, one large, one undecodable and one shared block, legacy cursors in the middle and at the end, 2 faults. Lane "puller": 2 graphs, 3 commits each, one bad document. Lane "follower": 3 heads, 2 outages. Lane "writer": 2 writers, 2 witnesses, quorum 2, landed 1, 2 attempts, the first head, a successor and a request that does not advance past the head it expects, no GETs |
| `custody_puller_gap` | is everything committed held once HELD is printed | expected violation |
| `blocks` | slots, raw holds, dag-cbor heads; does the mirror release only what the source let go | alone: 2 signers, 3 connections, 2 slots, 1 block per codec, 1 name, seq up to 2. With the mirror: 1 signer, 2 connections, both codecs, seq up to 2, reads that do not fail |
| `block_ingest_pin` | does a hold keep its pin | expected violation |
| `block_ingest_head` | can a head be rolled back | expected violation |
| `block_mirror_listing` | the same when `files ls` or a read of a holds file may fail | expected violation |
| `lake_epoch_cycle` | what a capture, an epoch and a finished run mean; when a run ends | blocks 1 to 3, the first in epoch 0, two in the lake at first, one of the first two dated anew, pages of 2, the drill, 2 faults |
| `lake_epoch_cycle_resumes` | does an interrupted run continue | expected violation: nothing dated anew, no drill, 1 fault |
| `cycle_lock` | is there one process per run | expected violation: 2 processes |
| `lake_lanes` | nine lanes, one property or two each (below) | below |

The lanes of `lake_lanes`:

| lane | question | instance |
|---|---|---|
| ship | is a row behind the checkpoint kept (`PassedRowsAreKept`), does the repository keep the contract of imports (`ShipImports`), does shipping get through (`ShipLaneEnds`) | 3 rows, one oversized, ranges of up to 2, an optional manifest for the raw store, the three transports, 2 faults, 1 collection |
| reader, threads | is a new receipt noticed (`ReceiptsAreNoticed`), are 200 and 404 right (`AnswersMatchCustody`) | one request at a time over a node with 1 tick and 1 released pin, or two at once over one without; 2 slots; `MirroredRowsAreKept` is checked in every lane with a node |
| audit | is the report true (`ReportIsTrue`) | both kinds, 1 released pin |
| readback | does the read-back get through (`ReadbackLaneEnds`) | with and without `--scan-gaps`, batches of 2, 1 kill |
| export | is a counted row on both nodes (`MirroredOnBothNodes`), does the batch get through (`ExportLaneEnds`) | 2 rows, 1 new row a run, 3 cuts, the last of them while the run is at the first row |
| import | is an imported row kept (`ImportedIsKept`), does the batch get through (`ImportLaneEnds`) | 2 rows, 1 new row a run, 2 stops, 1 released pin, 1 collection |
| bridge | is the budget exact, is no wake-up lost (`BudgetIsExact`) | 3 threads, blocks of 1 and 3, budget 4, 3 requests |
| standby | is a mapping left (`NotStranded`), does a dead primary lose the port (`StandbyLaneTakesOver`) | 4 turns of the world, 2 mishaps |


Bounds and why they suffice. Two writers are enough for every race over a seq;
three witnesses with quorum two give lag, splits (each of three at its own
position) and absence; one attempt gives a submission and the end of the attempts,
a second one (the writer's lane of `custodians`) the repetition, which posts a document that is already
in `submitted`; the requests are a first head, two rivals, one with a sequence
alone and one with a value that skips a sequence, and one that does not advance past the head it
expects, so that each branch of `decide` is taken by each writer. `MaxAttempts` stands for thirteen and `MaxCommits`
bounds the puller's chain: three positions give a head, a middle and a base for
a walk, and a commit during it. Three connections over two slots meet the limit
with one slot free, taken and full. Two connections suffice for every race of the
entrance's findings. Five rows in pages of two give a first, a middle and a short last
page, and two pages a run end a run by its pages as well as by the inventory; three
bytes are less than two pages with the large block need, so the budget stops some pages
and the next run continues them; two faults let a kill hit the recovery from a kill.
Three blocks in pages of two give a walk with a first page, a resume between pages and a
last page, a block that appears behind or ahead of the walk, and two epochs after epoch 0;
two faults of the cycle are two of: a stop, a half-done copy, a lost submission, a failed
restart of the reader, the drill's epoch. In the follower's lane three heads give a head, a newer one and one between a read
and a put; with two outages a put that timed out lands in a later run. Three
rows with one oversized give the shipper a range, a skip and a range; two faults are a cut
connection and a kill of what it left. Three cuts are what an overtaken CAR takes; with two it
could not happen, and the excuse in `MirroredOnBothNodes` would be empty. Three threads and a budget for one large
and one small block give a sleeper that is woken by either. Two mishaps are a failed
replacement and a failed roll-back. Only the constants whose comment says "bound" (`MaxSeq`, `MaxCommits`, `MaxFaults`,
`MaxOutages`, `MaxKills`, `MaxCuts` and the like) and the finite request set bound
what the environment does; no counter of the code is bounded except by the code
itself. Deadlock is checked in
every passing run but `lake_lanes`, where a lane stops when its bounded environment is
used up and its program is done, and in the violation runs except `cycle_lock`, whose
processes end.

Symmetry is used in runs without liveness only, over witnesses, connections and
(in the entrance's lane of `blocks`) signers, none of which any definition tells apart.

### What the violations show

- **A conflict with a stale cache** (`graph_writer_stale_cache`). The comment at
  `yataverse_writer.cljk:224-225` says "the cache may have been the stale party: decide again
  on a fresh read before 409", but `decide` throws its conflict (66-70) out of the call of
  `write-step` (159), before there is a promise to put the `.catch` on. A writer that another one has
  overtaken refuses the request that expects the real head, and keeps the cache: the same
  request is refused again until a GET or a restart refreshes it. No safety property breaks.
- **A gap in custody** (`custody_puller_gap`). The puller saves the newest document
  first and stops at the first held one. A crash or failed fetch in the middle of a
  walk leaves a gap no later round visits; later rounds report HELD and exit 0.
  `ReportIsComplete` and its proof show this is the only way: a graph whose walks
  were never cut short has no gap.
- **A hold without its pin** (`block_ingest_pin`). A PUT pins, then records; a DELETE
  between the two finds no other holder and removes the pin.
- **A head rolled back** (`block_ingest_head`). For a raw block the current head is
  read before an await and compared after it, so two overlapping PUTs can end with
  the lower seq. For a dag-cbor block nothing is awaited in between, and
  `DagHeadsNeverRollBack` holds in the same model.
- **A partial listing taken for a complete one** (`block_mirror_listing`). When
  `files ls` fails, `/v1/holds` still answers 200 with the dag-cbor holds alone and
  the mirror releases every raw block; when the holds file cannot be read (`read-set`) it is
  taken for an empty one, and the mirror releases the dag-cbor blocks. Where reads do not fail
  (`ReadsFail = FALSE`, run `blocks`) the property holds, although a listing
  is read in two halves while the source changes. The same reads stand before the entrance's own
  writes: a PUT over an unread holds or heads file leaves that PUT's entry alone in it, so the other
  properties of dag-cbor holds and heads are stated for `ReadsFail = FALSE` too.
- **An interrupted epoch run that never continues** (`lake_epoch_cycle_resumes`). TLC
  stops the cycle between the two files a capture creates; every later start takes up the
  same run and is refused. `NeedsOperator` of `LakeEpochCycle` names all such states:
  that one; a walk stopped between its last checkpoint, which has no cursor any more,
  and its rename, so that the resumed walk starts at the first page and finds the order
  moved backward; the diff's output without its receipt; `log-resolved.jsonl` moved away
  by a `check` that then stopped; and the reader's plist with the epoch while the reader was not
  started with it (the ssh cut or the run killed between the edit and the restart, or a bootstrap that
  failed: later starts find the epoch there, restart nothing, and the health check refuses,
  `lake_epoch_cycle.cljk:389-404`). Three are not of one process's making: a block dated
  anew between two walks, or out of one, so that they disagree or miss an old row; an
  epoch of the drill cut behind the head a run has read; and a reader whose list and
  total were set by the cycle and the drill in turn. Apart from these states every run
  ends (`RunsFinish`), and none of them breaks a safety property: a stuck run commits
  nothing wrong.

- **Two processes in one run** (`cycle_lock`). The lock is there before the pid is in it; a
  second process reads nothing, takes the holder for dead and runs. Two processes that
  find a dead holder's file both take it over, and whoever ends first removes the other's.

Not a run of its own, but found on the way and written into the models: a kill while a
migration of the replicator writes its backup leaves a torn file under its final name,
which later runs refuse (`NeedsOperator` of `ReplicateLake`, with a legacy cursor
at the last row of the inventory, which becomes an offset the reader refuses), and a
writer whose witnesses lag answers 409 although the request expects the committed head,
because one landed witness is enough for the 200 of another writer. Likewise:

- The shipper and the container tool refuse half of a pair, and the importer a `.partial`
  receipt (`NeedsOperator` of `ShipCar`); the large export refuses half of a local pair or a torn
  CAR beside its receipt, the large import a row whose original was released between receipt
  and checkpoint. The liveness properties name these states; apart from them the runs get through.
- The reader answers 404 for a row that is kept when a look fails (`serve_lake.py:215-242`, `376-377`): a
  raw entry with one file missing, a receipt that cannot be read, `ipfs pin ls` or `block get` with
  any nonzero exit, as while the daemon restarts or the repository is locked. And `pin ls --type=all` shows a
  row that is pinned both ways as direct, which does not count, so that a failed look at the direct pins
  is not made good by the second. `misread` marks these; no other 404 is wrong.
- A command of the large export whose ssh was cut after its check may move a later run's
  half-written `.partial` over a CAR that was already counted (`overtaken`).
- The bridge gives its bytes back in the `finally` of `fetch`, before the body is written to the client, while
  `README.md:159` says the budget bounds what is in flight; and a large request may sleep for
  as long as small ones keep coming: `BudgetIsExact` says only that no wake-up is lost.
- The deletion of a mapping and the listing after it stand before the `try` of
  `router_standby.py:129-136`: when they fail nothing is put back, although the comment says a
  failed replacement "must not strand a formerly healthy endpoint". The failure count is kept as it
  was by a refused check and by one without `--apply`, so that three counted failures need not be consecutive.
- The R2 follower answers PROJECTED and exit 0 after its third put, and whenever its second
  look finds anything but inga ahead, and ABSENT, also exit 0, for a graph that R2 never had, which it never creates. Its first
  look may find R2 ahead, an "error", when the Worker committed and copied between the two reads.

## Fairness

- `GraphWriter!FairSpec` (the writer's lane of `custodians` has the same): weak fairness of `Write(w)`, the steps of a POST that the
  writer takes itself. Each waits for a child with a time limit (180, 300 or 600 s)
  and Node's event loop runs its continuation. Nothing is assumed of the witnesses:
  they may never commit, never answer; nor of clients or restarts.
- `CustodyPuller!PullerSpec`: weak fairness of `Pull`. Every child has a time limit
  (`--fetch-timeout`, 120 or 180 s) and the loop is sequential. Nothing is assumed
  of commits, of fetches succeeding, or of `StartRound`.
- `ReplicateLake!FairSpec`: weak fairness of `Replicate`, the timer that starts a
  run and the sequential steps of it (each child and request has a time limit), and
  of `FinishRollover`: once reader and unit name different inventories, the other
  one is changed too. Faults are finite (`MaxFaults`) and each shared block is
  unpinned at most once, so both end; nothing is assumed of when.
- `LakeEpochCycle!FairSpec`: weak fairness of `Cycle` (launchd starts it daily, every
  child has a time limit), of `Tool` (a capture's requests time out and are bounded), and
  of `Witnesses` (a pending record of the next sequence number is committed, unless the
  drill's comes first). `Lose` and `Kill` are finite (`MaxFaults`). Nothing is assumed
  of the lake or the drill. Here, unlike in `GraphWriter`, a run that ends is claimed, and
  without the witnesses none can.
- `HeadFollower!FollowerSpec`: weak fairness of `Follow`: launchd starts it every two minutes and its
  requests have limits of 120 and 300 s. Outages are finite; nothing is assumed of the Worker.
- `ShipCar`: weak fairness of `Shipper` (a timer starts it, each command has a time limit), of each remote program
  (it ends or dies), and of the other lanes that deliver the rows it skips. The read-back: of its batches.
  `LargeExport`: of the batch and of the commands it left. `LargeImport`: of the batch and of whoever fills the archive.
  `RouterStandby`: of the check's steps. Faults, cuts, stops, collections and
  mishaps are finite, and nothing is assumed of when. `LanesSpec` has exactly these, per lane.
- The entrance, the mirror, the reader, the audits and the bridge state safety only; they assume no fairness.

## Proofs

`GraphWriterProofs` proves, for any finite set of witnesses, any quorum that is a
majority of them, any writers and any set of requests:

- `WriterInvariant`: the inductive invariant `WriterInv`. `ChainLinked` and
  `CommittedIsHeld` are not inductive: a commit appends a submitted document, so one
  has to know that every submitted document for the next seq was built on the last
  committed one (`Proposed`, with the request that expected it), that it is held
  (`SubmittedInv`), that a document still being written has the same properties
  before it is submitted, and that everything a writer has read or cached is
  committed (`RequestInv`). `ProvedInv` adds that a quorum of witnesses shows at
  least the last proved head. Lemmas say that the log only grows, and that
  `Proposed` survives its growth; then there is one step per action.
- `TypeCorrect`, `ChainIsLinked`, `CommittedDocumentsAreHeld`: its conjuncts.
- `VerifiedReadsAreMonotonic`: two quorums intersect (`FS_MajoritiesIntersect`).
- `SuccessMeansCommitted`: an action property from the invariant.
- `WritersImplementRegister`: the refinement. Initial states map to the initial
  state, `Commit` to a `CompareAndSet`, every other step to a stutter. It assumes
  `NoneIsNoDoc`: the value that stands for "no document" is not itself a document.
  It is a hypothesis of the theorem rather than of the module since it quantifies
  over all documents, which TLC cannot enumerate; the model value `nil` satisfies it.

`CustodyPullerProofs` proves, for any list of graphs and any set of bad documents,
`PullerInvariant` and from it `HeldDocumentsAreValid`, `ExitZeroIsTrue` and
`UncutReportsAreComplete`. The invariant adds to the properties what a walk knows:
it is a walk from the proved head of the first unsettled graph, its top is held as
soon as it has moved, and what is held of an uncut graph is a prefix of the chain
plus what the walk has added above its position (`NoGap`).

`ReplicateLakeProofs` proves, for any two inventories of which the second covers the
first, any sizes, pages, budgets and number of faults, `ReplicaInvariant` and from it
`CursorIsSafe`, `ReceiptsAreTrue`, `RawEntriesAreComplete` and `CompleteIsTrue`.
`CursorPassesOnlyHeld` is not inductive: a page moves the cursor at its end, so the
invariant carries row by row that every row checked so far is `Safe` or still in
`todo` (`PageInv`), that a row leaves `todo` only after its pin was confirmed or both
its raw files stand (`CopyInv`), that what the run remembers as pinned is `Safe`
(`known`), and that a run past its preparation works on the checkpoint's inventory
(`RunInv`), which is where a rollover under a running process would show. The
argument rests on one lemma, that `Safe` only grows; then each conjunct has its own
preservation lemma with one step per action that can disturb it.

`CheckpointIsNotLost` adds two action properties: a checkpoint of the same inventory only moves
on or ends its cycle, one of another inventory replaces it only when a full copy of it exists,
and no such copy is ever written over. Its invariant (`MigrationInv`) says what is established
at each step of the migration, and is proved beside `ReplicaInv`.

`BlockMirrorProofs` proves, for any signers, blocks, names, connections and slots,
`IngestInvariant` and from it `SlotsAreBalanced`, `RawHoldsAreStored` and
`DagHeadsMoveForward` (the last for `~ReadsFail`). The counter of PUTs is in balance because each step either keeps the set of
connections that carry one or changes it by the connection that steps; the invariant adds that
only a raw head ever waits between the read and the write of its file. `DagHoldIsPinned`, which `block_ingest_pin`
refutes, holds as `HeldDagStaysPinned` in every behaviour in which no `pin rm` is running while a PUT of the
same block stands between its pin and its entry (`UnpinsAlone`, a hypothesis of the theorem, with `~ReadsFail`); collections, restarts,
and releases and PUTs that overlap in any other way do not break it. Over the entrance's invariant the mirror's
`MirrorInvariant` (what the listing lacks was let go at some instant of the round) and
`ReleasesFollowSource` are proved for `~ReadsFail`: neither `files ls` nor a read of a holds file fails on
either side. It is a hypothesis of the theorems because the run `block_mirror_listing` refutes them without it.
`SlotsAreBalanced` and `RawHoldsAreStored` need none: what is lost of a file never touches the raw holds.

`ShipCarProofs` proves, for any inventory, ranges, faults and collections, `ShipInvariant`,
from it `PassedRowsStay`, and with `ShipperKeepsContract` that every step of the shipper
and its programs is a step of `LakeImport` or a stutter, so that what the node's readers
rely on is kept. The invariant says of every program what its place implies for the files and
pins it has worked on (`JobsInv`), of the shipper what its steps behind it have left (`RunInv`),
and that the archive is in the bucket before a program is started for it at the destination, and
the manifest before anything is cleaned up (`BucketInv`). `ContractBacksReceipts` proves of the
contract alone that a receipt's root stays pinned and its blocks stored, and
`ShippedReceiptsAreBacked` carries that over to the shipper through the refinement.

`LakeNodeProofs` proves, for any rows, roots, batch sizes, threads and number of releases, of a
storage node, and of the programs that look at it while it is filled:

- `NodeInvariant`: a pinned row is a stored block, every receipt is backed by its root (or by the
  row's own pin for a large block) unless another service released it, and the native mirror
  knows of its batch, step by step, what it has fetched, pinned and read back. `MirroredRowsStay` is
  its consequence.
- `OnlyReleasesTakeCustody`: no step removes a receipt or a row of the raw store, and a pin goes only
  into `released`. All that follows rests on this action property: whatever an observer
  established of a row stays true, or the row was released.
- `NodeKeepsContract`: the node implements the contract `LakeImport`, its root receipts taken for the
  contract's receipts. The hypothesis `MaxReleases = 0` is needed: the contract has no step
  that takes a pinned root away, while the node models the service that does.
- `ReaderInvariant`, and from it `ReaderNoticesReceipts` and `ReaderAnswersMatch`. A thread's look consists of several
  reads with steps of the node and of other threads in between; the invariant
  says what each read has established (`LooksInv`), and of the table that it holds receipts
  only, and is no newer than the clock says (`TableInv`): so a row that it covers is pinned or was released. A failed look
  establishes nothing, and a 404 after one is right only if the row was not there (`ReaderAnswersMatch` says which looks are excepted).
- `AuditInvariant` and `AuditReportsTruth`: the names the audit works through are receipts that
  existed when it listed them and whose roots it found pinned, or released since (`NamesInv`); what it
  has listed was kept, and what was kept all along is listed, or still to be found (`ListedInv`).
- `SavedStateAddsUp` and `ReadbackOnlyAdvances`: the saved state of the read-back adds up in every
  state, and a save only moves it forward, whatever stops between two batches.

`HostProofs` proves, of the programs that stand alone:

- large export, for any rows and number of cuts: `LargeExportInvariant` and `MirroredRowsAreOnBoth`. The invariant says what the
  batch knows of each node at each of its steps (`BatchKnows`), that it waits
  for at most one command that it started, and only while it waits (`WardInv`), and that a torn CAR is one that such a command moved over a
  good one (`TornIsOvertaken`).
- large import, for any number of rows, batch sizes, kills, collections and released pins:
  `LargeImportInvariant` and `ImportedRowsAreKept`. The invariant adds what each step of the child has
  established of the row in hand: from the pinned root on the root stays, from the original's
  pin on the original does, unless it was released.
- bridge, for any threads, sizes and budget: `BridgeInvariant` and `BudgetStaysExact`. The property speaks of a sum over
  the set of running fetches, which is a recursive function. A fact about all finite sets needs
  induction, and the library's induction theorems cannot be instantiated here; the proof states it of a *set* of
  naturals instead (`AllNaturals`: a set that has 0 and the successor of each member has them all, by its least
  counterexample), and the set is that of the cardinalities for which the sum is well-defined. With
  `SumWithout` and `BytesWith` an acquire or a release changes the sum by exactly its own bytes.
- router standby, for any number of turns and mishaps: `StandbyInvariant`, and from it `ChecksDoNotStrand` and
  `TimersKeepTheOwner`. The invariant says, phase by phase of a replacement, who may own the
  mapping and which mishap excuses that nobody does.
- R2 follower, for any number of commits and copies: `FollowerInvariant` and `R2NeverLosesItsHead`: an R2 that shows a head shows
  one for ever, and never one that inga does not have, although it may go back to an older one.

`LakeEpochCycleProofs` proves, for any lake, uploads, pages and number of faults,
`EpochInvariant` and from it `CapturesAreExact`, `EpochsAreChained`, `CommitsAreInCustody`
and `FinishedRunsCover`. None of the four is inductive:
- a page is the next rows of a lake that grows in front of and behind the walk, so that a
  checkpoint has every row of the cutoff up to the last one it has *seen* (`Passed`); the
  proof that a page leaves none out goes by the cardinalities that define a page (`PageCovers`);
- a submitted record is committed at any later moment, by which time its run may have been
  killed and begun anew; so every pending record is ready for its epoch as long as it is pending
  (`ReadyAt`), for which the steps before it must have left what they were for, step by step of
  the state file (`KnownAt`). What a run knows refers to the log up to its epoch, and stays true
  while the log grows (`KnownStays`), although the drill cuts epochs in between;
- a capture that outlived its cycle may still move files; it can do so only while the run is at its second step
  (`MarkInv`), so that nothing the later steps know of the captures changes under them.

The assumptions are those named in the modules (`RequestsAssumption`,
`WitnessesAssumption`, `PullerAssumption`, `ReplicaAssumption`, `StandbyAssumption` and
the like); TLC evaluates them in the runs.

Only model-checked: liveness (`WriterLaneAnswers`, which is `PostIsAnswered`, `RoundEnds`, `ReplicaLaneEnds`,
`FollowerLaneRepairs`, `RunsFinish`, the `...LaneEnds` and `StandbyLaneTakesOver`), which is out of reach of the prover.
Every invariant and every other action property of the passing runs is stated by a theorem. `ShipImports` is
`LakeImport`'s specification for the shipper's lane of `MCLakeLanes`; its content is `ShipperKeepsContract`.
Of the seven violated runs, the properties of three are proved under a condition that excludes the cause
(`HeldDagStaysPinned`, `DagHeadsMoveForward`, `ReleasesFollowSource`).

## Not modelled, and why

- Signatures, CIDs, CBOR and JSON: a document or block is what its CID says; a
  request that fails authentication changes nothing. `check-doc` is the set `Bad`.
- Late pins (`late-pin!`): after the answer, and nothing reads their outcome.
- The rate limiter of the entrance: refuses before anything changes.
- Of the epoch cycle: what the custody
  steps do between copy and readback, the bundle's contents; of the drill, its own resume
  and its observation of connections; of the capture, row sizes and `--max-pages`.
- Of the shipper: the export over HTTPS (a launch without `--source-ssh-host`; the launch agents use
  ssh), disk reserves, and file contents changed by hand. The framing of CAR and CARv2/zstd files and the bytes of CBOR: a CAR is
  the range it holds, whole or torn.
- Of the reader: `/health` and the page listing, which read constants, and the composite of
  several epochs, each of which has its own inventory, table and blocks.
- TLS, the HTTP servers' framing, and the disk reserves of the large lanes: refusals before anything changes.
- Of the replicator: the walk over the public listing (a legacy checkpoint is where it
  ends), the CLI path without RPC, the order in which peer, bridge and public origin are
  tried (a fetch brings the listed bytes or the run ends), the memory bound of the
  prefetch window, counters and batch receipts (nothing reads them), and the way
  back from a new inventory to the old one, which the code refuses.
- `ipns_fallback`: what a publication achieves is decided by the choice of the IPNS network
  between two records, which is not in this repository.
- The planner and the evidence core: pure functions with tests of their own.
- Everything marked not_modelled in `PROJECT.json`, with its reason there.

## Plan

Done: the writers with their register, the puller, the entrance, the mirror, the
replicator with its raw store, the epoch cycle with its captures and its lock, the R2
follower, the shipper, the node with its mirror, reader and audits, both large lanes, the
bridge and the standby; proofs of every safety property for all of them except `cycle.lock`, whose run
refutes what it is checked for.

Left:

1. The shipper's HTTPS export, the reader's composite of epochs, the planner against a
   reference definition.
2. The theorems about them; `LakeImport` for the import of large blocks, as it is for the shipper and the node.
