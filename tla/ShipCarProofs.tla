---------------------------- MODULE ShipCarProofs ----------------------------
(***************************************************************************)
(* What the shipper and its remote programs never do, for any inventory,    *)
(* ranges, manifests and number of faults and collections.                  *)
(***************************************************************************)
EXTENDS ShipCar, TLAPS

Places == {"idle", "skip", "wait", "copy", "record", "pack", "packed", "send", "sending",
           "manifest", "cleanup", "cleanSource", "checkpoint", "unlink"}
Programs == {"none", "export", "unpack", "import"}
Phases == {"none", "check", "receipt", "load", "pin", "open", "publish"}

JobState ==
  [kind: Programs, rng: (0 .. Count) \X (0 .. Count), at: Phases, ward: BOOLEAN]

ShipTypeOK ==
  /\ blocks \subseteq Row /\ roots \subseteq RowRange
  /\ pc \in Places /\ rng \in (0 .. Count) \X (0 .. Count) /\ cursor \in 0 .. Count
  /\ jobs \in [Job -> JobState]

\* The steps after the importer has ended well.
Delivering == {"manifest", "cleanup", "cleanSource", "checkpoint"}

\* A program works on a range, an importer past its pin on a pinned one; the
\* shipper waits for one program at most, and for its own range.
JobsInv ==
  \A j \in Job :
    /\ jobs[j].kind # "none" => jobs[j].rng \in RowRange
    /\ jobs[j].kind = "import" /\ jobs[j].at \in {"open", "publish"} => jobs[j].rng \in roots
    /\ jobs[j].ward => pc = "wait" /\ jobs[j].rng = rng /\ jobs[j].kind # "none"
    /\ \A k \in Job : jobs[j].ward /\ jobs[k].ward => j = k

\* A run that has a range is at its checkpoint with it, and cleans up only what
\* is pinned at the destination.
RunInv ==
  /\ pc \notin {"idle", "skip", "unlink"} => rng \in RowRange /\ rng[1] = cursor
  /\ pc \in Delivering => rng \in roots
  /\ pc = "skip" => cursor \in Row \cap (rawStore \cup recovery)

\* With S3, the archive is in the bucket before a program is started for it at
\* the destination, and the manifest before anything is cleaned up.
BucketInv ==
  mode = "s3" =>
    /\ pc \in {"sending"} \cup Delivering => <<rng, "archive">> \in uploads
    /\ pc \in Delivering \ {"manifest"} => <<rng, "manifest">> \in uploads
    /\ \A j \in Job : jobs[j].ward /\ jobs[j].kind # "export" => <<rng, "archive">> \in uploads
    /\ \A r \in shipped : <<r, "archive">> \in uploads /\ <<r, "manifest">> \in uploads

\* What a pinned root links is stored, and the checkpoint has passed only rows
\* that one links or that another lane delivered.
StoredInv ==
  /\ Linked(roots) \subseteq blocks
  /\ \A i \in Row : i < cursor => i \in Linked(roots) \cup rawStore \cup recovery

ShipInv == ShipTypeOK /\ JobsInv /\ RunInv /\ BucketInv /\ StoredInv
-----------------------------------------------------------------------------
LEMMA RangeRows == \A r \in RowRange : RowsOf(r) \subseteq Row
  BY ImportAssumption DEF RowRange, RowsOf, Row

LEMMA LinkedRows == \A R : \A r \in R : RowsOf(r) \subseteq Linked(R)
  BY DEF Linked

LEMMA LinkedGrows == \A R, S : R \subseteq S => Linked(R) \subseteq Linked(S)
  BY DEF Linked

LEMMA LinkedAdds == \A R, r : Linked(R \cup {r}) = Linked(R) \cup RowsOf(r)
  BY DEF Linked

LEMMA IdleTyped == Idle \in JobState
  BY ImportAssumption DEF Idle, JobState, Programs, Phases

LEMMA ShipInitial == ShipInit => ShipInv
<1> SUFFICES ASSUME ShipInit PROVE ShipInv
  OBVIOUS
<1> USE ImportAssumption, ShipAssumption DEF ShipInit, ImportInit
<1>1. ShipTypeOK
  BY DEF ShipTypeOK, Places, JobState, Programs, Phases, Idle
<1>2. JobsInv /\ RunInv /\ BucketInv
  BY DEF JobsInv, RunInv, BucketInv, Idle, Delivering
<1>3. StoredInv
  <2>1. Linked({}) = {}
    BY DEF Linked
  <2>2. \A i \in Row : ~(i < 0)
    BY DEF Row
  <2> QED
    BY <2>1, <2>2 DEF StoredInv
<1> QED
  BY <1>1, <1>2, <1>3 DEF ShipInv
-----------------------------------------------------------------------------
(* The shipper's own steps: what it starts, and what it does alone.         *)

\* A started program is the only one waited for.
LEMMA LaunchKeepsJobs ==
  ASSUME ShipInv, pc # "wait", pc' = "wait", UNCHANGED roots, rng' \in RowRange,
         NEW kind \in Programs \ {"none"}, Launch(kind, rng')
  PROVE  /\ jobs' \in [Job -> JobState]
         /\ JobsInv'
         /\ \A j \in Job : jobs'[j].ward => jobs'[j].kind = kind
<1> USE DEF ShipInv, ShipTypeOK, JobsInv
<1>1. PICK j \in Job : jobs' = [jobs EXCEPT ![j] = Run(kind, rng')]
  BY DEF Launch
<1>2. Run(kind, rng') \in JobState
  BY DEF Run, JobState, Phases, RowRange
<1>3. \A k \in Job : ~jobs[k].ward
  OBVIOUS
<1>4. jobs' \in [Job -> JobState]
  BY <1>1, <1>2
<1>5. \A k \in Job : jobs'[k] = IF k = j THEN Run(kind, rng') ELSE jobs[k]
  BY <1>1
<1>6. JobsInv'
  BY <1>3, <1>5 DEF Run
<1> QED
  BY <1>3, <1>4, <1>5, <1>6 DEF Run

\* While nothing is waited for, a step of the shipper alone leaves the jobs.
LEMMA AloneKeepsJobs ==
  ASSUME ShipInv, pc # "wait", UNCHANGED <<roots, jobs>>
  PROVE  jobs' \in [Job -> JobState] /\ JobsInv' /\ \A j \in Job : ~jobs'[j].ward
  BY DEF ShipInv, ShipTypeOK, JobsInv

LEMMA StartKeepsInv ==
  ASSUME ShipInv, StartRange \/ StartSkip \/ StartComplete
  PROVE  ShipInv'
<1> USE DEF ShipInv
<1>1. CASE StartRange
  <2> PICK r \in RowRange : r[1] = cursor /\ rng' = r /\ (StartExport(r) \/ StartSaved(r))
    BY <1>1 DEF StartRange
  <2>1. /\ pc = "idle"
        /\ UNCHANGED <<importVars, cursor, shipped, mode, uploads, rawStore, recovery>>
    BY <1>1 DEF StartRange, localVars, boundVars
  <2>2. pc' \in {"wait", "pack", "send"}
    BY DEF StartExport, StartSaved, AfterExport
  <2>3. /\ jobs' \in [Job -> JobState] /\ JobsInv'
        /\ \A j \in Job : jobs'[j].ward => jobs'[j].kind = "export"
    <3>1. CASE StartExport(r)
      BY <2>1, <3>1, LaunchKeepsJobs DEF StartExport, importVars, Programs
    <3>2. CASE StartSaved(r)
      BY <2>1, <3>2, AloneKeepsJobs DEF StartSaved, importVars
    <3> QED
      BY <3>1, <3>2
  <2>4. ShipTypeOK'
    BY <2>1, <2>2, <2>3 DEF ShipTypeOK, importVars, Places, RowRange
  <2>5. RunInv'
    BY <2>1, <2>2 DEF RunInv, Delivering, importVars
  <2>6. BucketInv'
    BY <2>1, <2>2, <2>3 DEF BucketInv, Delivering
  <2>7. StoredInv'
    BY <2>1 DEF StoredInv, importVars
  <2> QED
    BY <2>3, <2>4, <2>5, <2>6, <2>7
<1>2. CASE StartSkip
  <2>1. /\ pc = "idle" /\ pc' = "skip" /\ cursor \in Row
        /\ cursor \in rawStore \cup recovery
        /\ UNCHANGED <<importVars, cursor, rng, shipped, mode, uploads, rawStore, recovery, jobs>>
    BY <1>2 DEF StartSkip, VerifiedElsewhere, boundVars
  <2>2. ShipTypeOK' /\ JobsInv'
    BY <2>1, AloneKeepsJobs DEF ShipTypeOK, importVars, Places
  <2>3. RunInv' /\ BucketInv' /\ StoredInv'
    BY <2>1 DEF RunInv, BucketInv, StoredInv, Delivering, importVars
  <2> QED
    BY <2>2, <2>3
<1>3. CASE StartComplete
  BY <1>3 DEF StartComplete, shipVars, importVars, localVars, boundVars, ShipTypeOK, JobsInv,
              RunInv, BucketInv, StoredInv
<1> QED
  BY <1>1, <1>2, <1>3

\* The steps between the export and the start of the next program.
LEMMA PackKeepsInv ==
  ASSUME ShipInv, CopyHome \/ RecordExport \/ Pack \/ PackReceipt \/ BeginSend
  PROVE  ShipInv'
<1> USE DEF ShipInv
<1>1. /\ pc \in {"copy", "record", "pack", "packed", "send"}
      /\ pc' \in {"record", "pack", "packed", "send", "sending", "idle"}
      /\ pc' = "sending" /\ mode = "s3" => <<rng, "archive">> \in uploads'
      /\ uploads \subseteq uploads'
      /\ UNCHANGED <<importVars, cursor, rng, shipped, mode, rawStore, recovery, jobs>>
  BY DEF CopyHome, RecordExport, Pack, PackReceipt, BeginSend, AfterExport, localVars, boundVars
<1>2. ShipTypeOK' /\ JobsInv' /\ \A j \in Job : ~jobs'[j].ward
  BY <1>1, AloneKeepsJobs DEF ShipTypeOK, importVars, Places
<1>3. RunInv' /\ StoredInv'
  BY <1>1 DEF RunInv, StoredInv, Delivering, importVars
<1>4. BucketInv'
  BY <1>1, <1>2 DEF BucketInv, Delivering
<1> QED
  BY <1>2, <1>3, <1>4

LEMMA SendKeepsInv == ASSUME ShipInv, EndSend PROVE ShipInv'
<1> USE DEF ShipInv
<1> DEFINE kind == IF mode = "plain" THEN "import" ELSE "unpack"
<1>1. /\ pc = "sending" /\ pc' = "wait" /\ Launch(kind, rng')
      /\ UNCHANGED <<importVars, cursor, rng, shipped, mode, uploads, rawStore, recovery>>
  BY DEF EndSend, localVars, boundVars
<1>2. rng' \in RowRange /\ kind \in Programs \ {"none"} /\ UNCHANGED roots
  BY <1>1 DEF RunInv, Programs, importVars
<1>3. jobs' \in [Job -> JobState] /\ JobsInv'
  BY <1>1, <1>2, LaunchKeepsJobs
<1>4. ShipTypeOK' /\ RunInv' /\ StoredInv'
  BY <1>1, <1>3 DEF ShipTypeOK, RunInv, StoredInv, Places, Delivering, importVars
<1>5. BucketInv'
  BY <1>1 DEF BucketInv, Delivering
<1> QED
  BY <1>3, <1>4, <1>5

\* The steps after the importer, and the two that move the checkpoint.
LEMMA CleanUpKeepsInv ==
  ASSUME ShipInv, UploadManifest \/ CleanDestination \/ CleanSource \/ Unlink
  PROVE  ShipInv'
<1> USE DEF ShipInv
<1>1. /\ \/ pc = "manifest" /\ pc' = "cleanup"
         \/ pc = "cleanup" /\ pc' = "cleanSource"
         \/ pc = "cleanSource" /\ pc' = "checkpoint"
         \/ pc = "unlink" /\ pc' = "idle"
      /\ pc = "manifest" => <<rng, "manifest">> \in uploads'
      /\ uploads \subseteq uploads'
      /\ UNCHANGED <<importVars, cursor, rng, shipped, mode, rawStore, recovery, jobs>>
  BY DEF UploadManifest, CleanDestination, CleanSource, Unlink, localVars, boundVars
<1>2. ShipTypeOK' /\ JobsInv' /\ \A j \in Job : ~jobs'[j].ward
  BY <1>1, AloneKeepsJobs DEF ShipTypeOK, importVars, Places
<1>3. RunInv' /\ StoredInv'
  BY <1>1 DEF RunInv, StoredInv, Delivering, importVars
<1>4. BucketInv'
  BY <1>1, <1>2 DEF BucketInv, Delivering
<1> QED
  BY <1>2, <1>3, <1>4

LEMMA CheckpointKeepsInv ==
  ASSUME ShipInv, CheckpointSkip \/ Checkpoint
  PROVE  ShipInv'
<1> USE DEF ShipInv
<1>1. CASE CheckpointSkip
  <2>1. /\ pc = "skip" /\ pc' = "idle" /\ cursor' = cursor + 1
        /\ UNCHANGED <<importVars, rng, shipped, mode, uploads, rawStore, recovery, jobs>>
    BY <1>1 DEF CheckpointSkip, boundVars
  <2>2. cursor \in Row \cap (rawStore \cup recovery)
    BY <2>1 DEF RunInv
  <2>3. cursor' \in 0 .. Count
    BY <2>1, <2>2, ImportAssumption DEF Row
  <2>4. ShipTypeOK' /\ JobsInv' /\ \A j \in Job : ~jobs'[j].ward
    BY <2>1, <2>3, AloneKeepsJobs DEF ShipTypeOK, importVars, Places
  <2>5. RunInv' /\ BucketInv'
    BY <2>1, <2>4 DEF RunInv, BucketInv, Delivering, importVars
  <2>6. \A i \in Row : i < cursor' => i < cursor \/ i = cursor
    BY <2>1, <2>2 DEF Row
  <2>7. StoredInv'
    BY <2>1, <2>2, <2>6 DEF StoredInv, importVars
  <2> QED
    BY <2>4, <2>5, <2>7
<1>2. CASE Checkpoint
  <2>1. /\ pc = "checkpoint" /\ pc' = "unlink" /\ cursor' = rng[2]
        /\ shipped' = shipped \cup {rng}
        /\ UNCHANGED <<importVars, rng, mode, uploads, rawStore, recovery, jobs>>
    BY <1>2 DEF Checkpoint, boundVars
  <2>2. rng \in RowRange /\ rng[1] = cursor /\ rng \in roots
    BY <2>1 DEF RunInv, Delivering
  <2>3. cursor' \in 0 .. Count
    BY <2>1, <2>2 DEF RowRange
  <2>4. ShipTypeOK' /\ JobsInv' /\ \A j \in Job : ~jobs'[j].ward
    BY <2>1, <2>3, AloneKeepsJobs DEF ShipTypeOK, importVars, Places
  <2>5. RunInv' /\ BucketInv'
    BY <2>1, <2>4 DEF RunInv, BucketInv, Delivering, importVars
  <2>6. \A i \in Row : i < cursor' => i < cursor \/ i \in RowsOf(rng)
    BY <2>1, <2>2, ImportAssumption DEF Row, RowsOf, RowRange
  <2>7. StoredInv'
    BY <2>1, <2>2, <2>6, LinkedRows DEF StoredInv, importVars
  <2> QED
    BY <2>4, <2>5, <2>7
<1> QED
  BY <1>1, <1>2
-----------------------------------------------------------------------------
(* The remote programs.                                                     *)

\* What a step of a program concerns beside the repository.
MovesInv == jobs \in [Job -> JobState] /\ pc \in Places /\ JobsInv /\ RunInv /\ BucketInv

Around == <<rng, cursor, mode, shipped, uploads, rawStore, recovery>>

LEMMA StepKeepsMoves ==
  ASSUME ShipInv, NEW j \in Job, NEW at \in Phases, Step(j, at), UNCHANGED Around,
         roots \subseteq roots',
         jobs[j].kind = "import" /\ at \in {"open", "publish"} => jobs[j].rng \in roots'
  PROVE  MovesInv'
<1> USE DEF ShipInv, ShipTypeOK, MovesInv, Around
<1>1. /\ jobs' = [jobs EXCEPT ![j].at = at] /\ pc' = pc
      /\ jobs' \in [Job -> JobState]
  BY DEF Step, JobState
<1>2. \A k \in Job : /\ jobs'[k].kind = jobs[k].kind /\ jobs'[k].rng = jobs[k].rng
                     /\ jobs'[k].ward = jobs[k].ward
                     /\ jobs'[k].at = IF k = j THEN at ELSE jobs[k].at
  BY <1>1 DEF JobState
<1>3. JobsInv'
  BY <1>1, <1>2 DEF JobsInv
<1>4. RunInv' /\ BucketInv'
  BY <1>1, <1>2 DEF RunInv, BucketInv
<1> QED
  BY <1>1, <1>3, <1>4

LEMMA FailKeepsMoves ==
  ASSUME ShipInv, NEW j \in Job, Fail(j), UNCHANGED <<roots, Around>>
  PROVE  MovesInv'
<1> USE DEF ShipInv, ShipTypeOK, MovesInv, Around
<1>1. Idle \in JobState
  BY IdleTyped
<1>2. /\ jobs' = [jobs EXCEPT ![j] = Idle]
      /\ jobs' \in [Job -> JobState]
      /\ pc' = IF jobs[j].ward THEN "idle" ELSE pc
  BY <1>1 DEF Fail
<1>3. \A k \in Job : jobs'[k] = IF k = j THEN Idle ELSE jobs[k]
  BY <1>2
<1>4. JobsInv'
  BY <1>2, <1>3 DEF JobsInv, Idle
<1>5. RunInv' /\ BucketInv'
  BY <1>2, <1>3 DEF RunInv, BucketInv, Idle, Delivering
<1> QED
  BY <1>2, <1>4, <1>5 DEF Places

\* A waiting shipper takes an importer's end for what it is: a pinned root.
LEMMA FinishKeepsMoves ==
  ASSUME ShipInv, NEW j \in Job, Finish(j), UNCHANGED <<roots, Around>>,
         jobs[j].kind # "none", jobs[j].kind = "import" => jobs[j].rng \in roots
  PROVE  MovesInv'
<1> USE DEF ShipInv, ShipTypeOK, MovesInv, Around
<1>1. jobs[j].kind \in {"export", "unpack", "import"} /\ jobs[j] \in JobState
  BY DEF JobState, Programs
<1>2. CASE ~(jobs[j].ward)
  <2>1. Fail(j)
    BY <1>2 DEF Fail, Finish
  <2> QED
    BY <2>1, FailKeepsMoves
<1>3. CASE jobs[j].ward /\ jobs[j].kind = "unpack"
  <2>1. jobs[j].rng = rng /\ rng \in RowRange /\ pc = "wait"
    BY <1>3 DEF JobsInv
  <2>2. Run("import", rng) \in JobState
    BY <2>1 DEF Run, JobState, Programs, Phases, RowRange
  <2>3. /\ jobs' = [jobs EXCEPT ![j] = Run("import", rng)]
        /\ jobs' \in [Job -> JobState] /\ pc' = "wait"
    BY <1>3, <2>1, <2>2 DEF Finish, NextStep
  <2>4. \A k \in Job : jobs'[k] = IF k = j THEN Run("import", rng) ELSE jobs[k]
    BY <2>3
  <2>5. JobsInv'
    BY <1>3, <2>1, <2>3, <2>4 DEF JobsInv, Run
  <2>6. RunInv' /\ BucketInv'
    BY <1>3, <2>1, <2>3, <2>4 DEF RunInv, BucketInv, Delivering, Run
  <2> QED
    BY <2>3, <2>5, <2>6 DEF Places
<1>4. CASE jobs[j].ward /\ jobs[j].kind # "unpack"
  <2>1. jobs[j].rng = rng /\ rng \in RowRange /\ pc = "wait"
    BY <1>4 DEF JobsInv
  <2>2. Idle \in JobState
    BY IdleTyped
  <2>3. /\ jobs' = [jobs EXCEPT ![j] = Idle] /\ jobs' \in [Job -> JobState]
        /\ pc' = IF jobs[j].kind = "export" THEN "copy"
                 ELSE IF mode = "s3" THEN "manifest" ELSE "cleanup"
    BY <1>1, <1>4, <2>2 DEF Finish, NextStep
  <2>4. \A k \in Job : jobs'[k] = IF k = j THEN Idle ELSE jobs[k]
    BY <2>3
  <2>5. \A k \in Job : ~(jobs'[k].ward)
    BY <1>4, <2>4 DEF JobsInv, Idle
  <2>6. JobsInv'
    BY <2>4, <2>5 DEF JobsInv, Idle
  <2>7. RunInv'
    BY <1>1, <1>4, <2>1, <2>3 DEF RunInv, Delivering
  <2>8. BucketInv'
    BY <1>1, <1>4, <2>1, <2>3, <2>5 DEF BucketInv, Delivering
  <2>9. pc' \in Places
    BY <2>3 DEF Places
  <2> QED
    BY <2>3, <2>6, <2>7, <2>8, <2>9
<1> QED
  BY <1>2, <1>3, <1>4

\* The export, the restore and the check of an import leave the repository.
LEMMA FarKeepsInv ==
  ASSUME ShipInv, NEW j \in Job,
         \/ ExportCheck(j) \/ ExportReceipt(j) \/ UnpackCheck(j) \/ UnpackReceipt(j)
         \/ ImportCheck(j) \/ OpenReceipt(j) \/ JobDies(j)
  PROVE  ShipInv'
<1>1. UNCHANGED <<importVars, Around>>
  BY DEF ExportCheck, ExportReceipt, UnpackCheck, UnpackReceipt, ImportCheck, OpenReceipt,
         JobDies, localVars, boundVars, Around
<1>2. \/ Fail(j)
      \/ Finish(j) /\ jobs[j].kind \in {"export", "unpack"}
      \/ Step(j, "receipt") /\ jobs[j].kind # "import"
      \/ Step(j, "load")
      \/ Step(j, "publish") /\ jobs[j].kind = "import" /\ jobs[j].at = "open"
  BY DEF ExportCheck, ExportReceipt, UnpackCheck, UnpackReceipt, ImportCheck, OpenReceipt,
         JobDies, Busy
<1>3. MovesInv'
  BY <1>1, <1>2, FailKeepsMoves, FinishKeepsMoves, StepKeepsMoves
     DEF importVars, Phases, ShipInv, JobsInv
<1>4. StoredInv'
  BY <1>1 DEF importVars, Around, ShipInv, StoredInv
<1>5. ShipTypeOK'
  BY <1>1, <1>3 DEF importVars, Around, ShipInv, ShipTypeOK, MovesInv
<1> QED
  BY <1>3, <1>4, <1>5 DEF ShipInv, MovesInv

LEMMA ImportKeepsInv ==
  ASSUME ShipInv, NEW j \in Job, Load(j) \/ Pin(j) \/ PublishReceipt(j)
  PROVE  ShipInv'
<1>1. UNCHANGED Around /\ jobs[j].kind = "import" /\ jobs[j].rng \in RowRange
  BY DEF Load, Pin, PublishReceipt, PinRange, Busy, localVars, boundVars, Around, ShipInv, JobsInv
<1>2. RowsOf(jobs[j].rng) \subseteq Row
  BY <1>1, RangeRows
<1>3. CASE Load(j)
  <2>1. UNCHANGED roots /\ blocks \subseteq blocks' /\ blocks' \subseteq Row
    BY <1>2, <1>3 DEF Load, ShipInv, ShipTypeOK
  <2>2. MovesInv'
    BY <1>1, <1>3, <2>1, StepKeepsMoves, FailKeepsMoves DEF Load, Phases
  <2>3. StoredInv'
    BY <1>1, <2>1 DEF ShipInv, StoredInv, Around
  <2> QED
    BY <1>1, <2>1, <2>2, <2>3 DEF ShipInv, ShipTypeOK, MovesInv, Around
<1>4. CASE Pin(j)
  <2>1. /\ roots' = roots \cup {jobs[j].rng} /\ blocks' = blocks \cup RowsOf(jobs[j].rng)
        /\ Step(j, "open")
    BY <1>4 DEF Pin, PinRange
  <2>2. MovesInv'
    BY <1>1, <2>1, StepKeepsMoves DEF Phases
  <2>3. Linked(roots') = Linked(roots) \cup RowsOf(jobs[j].rng)
    BY <2>1, LinkedAdds
  <2>4. StoredInv'
    BY <1>1, <2>1, <2>3 DEF ShipInv, StoredInv, Around
  <2>5. roots' \subseteq RowRange /\ blocks' \subseteq Row
    BY <1>1, <1>2, <2>1 DEF ShipInv, ShipTypeOK
  <2> QED
    BY <1>1, <2>2, <2>4, <2>5 DEF ShipInv, ShipTypeOK, MovesInv, Around
<1>5. CASE PublishReceipt(j)
  <2>1. UNCHANGED <<blocks, roots>> /\ Finish(j) /\ jobs[j].rng \in roots
    BY <1>5 DEF PublishReceipt, Busy, ShipInv, JobsInv
  <2>2. MovesInv'
    BY <1>1, <2>1, FinishKeepsMoves
  <2>3. StoredInv'
    BY <1>1, <2>1 DEF ShipInv, StoredInv, Around
  <2> QED
    BY <1>1, <2>1, <2>2, <2>3 DEF ShipInv, ShipTypeOK, MovesInv, Around
<1> QED
  BY <1>3, <1>4, <1>5

LEMMA EnvironmentKeepsInv ==
  ASSUME ShipInv, ShipperDies \/ CollectGarbage \/ \E i \in Row : StoredElsewhere(i)
  PROVE  ShipInv'
<1>1. CASE ShipperDies
  <2>1. pc' = "idle" /\ UNCHANGED <<importVars, Around>>
    BY <1>1 DEF ShipperDies, localVars, Around
  <2>2. jobs' \in [Job -> JobState]
    BY <1>1 DEF ShipperDies, ShipInv, ShipTypeOK, JobState
  <2>3. \A j \in Job : /\ jobs'[j].kind = jobs[j].kind /\ jobs'[j].rng = jobs[j].rng
                       /\ jobs'[j].at = jobs[j].at /\ ~(jobs'[j].ward)
    BY <1>1 DEF ShipperDies, ShipInv, ShipTypeOK, JobState
  <2>4. JobsInv'
    BY <2>1, <2>3 DEF ShipInv, JobsInv, importVars
  <2>5. RunInv' /\ BucketInv' /\ StoredInv'
    BY <2>1, <2>3 DEF ShipInv, RunInv, BucketInv, StoredInv, Delivering, importVars, Around
  <2>6. ShipTypeOK'
    BY <2>1, <2>2 DEF ShipInv, ShipTypeOK, Places, importVars, Around
  <2> QED
    BY <2>4, <2>5, <2>6 DEF ShipInv
<1>2. CASE CollectGarbage
  <2>1. /\ blocks' = blocks \cap Linked(roots)
        /\ UNCHANGED <<roots, pc, jobs, Around>>
    BY <1>2 DEF CollectGarbage, localVars, Around
  <2> QED
    BY <2>1 DEF ShipInv, ShipTypeOK, JobsInv, RunInv, BucketInv, StoredInv, Around
<1>3. CASE \E i \in Row : StoredElsewhere(i)
  <2>1. /\ rawStore \subseteq rawStore' /\ recovery \subseteq recovery'
        /\ UNCHANGED <<importVars, pc, jobs, rng, cursor, mode, shipped, uploads>>
    BY <1>3 DEF StoredElsewhere, localVars, boundVars
  <2> QED
    BY <2>1 DEF ShipInv, ShipTypeOK, JobsInv, RunInv, BucketInv, StoredInv, importVars
<1> QED
  BY <1>1, <1>2, <1>3

LEMMA StepKeepsInv == ShipInv /\ [ShipNext]_shipVars => ShipInv'
<1> SUFFICES ASSUME ShipInv, [ShipNext]_shipVars PROVE ShipInv'
  OBVIOUS
<1>1. CASE Shipper
  BY <1>1, StartKeepsInv, PackKeepsInv, SendKeepsInv, CleanUpKeepsInv, CheckpointKeepsInv
     DEF Shipper
<1>2. CASE StartComplete \/ UNCHANGED shipVars
  BY <1>2, StartKeepsInv
     DEF shipVars, importVars, localVars, boundVars, ShipInv, ShipTypeOK, JobsInv, RunInv,
         BucketInv, StoredInv
<1>3. ASSUME NEW j \in Job, Remote(j) \/ JobDies(j) PROVE ShipInv'
  BY <1>3, FarKeepsInv, ImportKeepsInv DEF Remote
<1>4. CASE ShipperDies \/ CollectGarbage \/ \E i \in Row : StoredElsewhere(i)
  BY <1>4, EnvironmentKeepsInv
<1> QED
  BY <1>1, <1>2, <1>3, <1>4 DEF ShipNext

(* The invariant of the shipper: its types, what a remote program and the   *)
(* shipper that waits for it have established, the bucket, and the rows     *)
(* that are kept.                                                           *)
THEOREM ShipInvariant == ShipSpec => []ShipInv
  BY ShipInitial, StepKeepsInv, PTL DEF ShipSpec

(* A row behind the checkpoint of ship_lake_car.py is kept, and what was    *)
(* shipped through S3 is in the bucket with its manifest.                   *)
THEOREM PassedRowsStay == ShipSpec => []PassedRowsAreKept
<1>1. ShipInv => PassedRowsAreKept
  BY DEF ShipInv, BucketInv, StoredInv, PassedRowsAreKept
<1> QED
  BY <1>1, ShipInvariant, PTL

-----------------------------------------------------------------------------
(* The repository keeps the contract of imports.                            *)

\* The steps that change blocks, roots or receipts, each as one of LakeImport.
LEMMA LoadStores ==
  ASSUME ShipInv, NEW j \in Job, Load(j)
  PROVE  Store
<1>1. jobs[j].rng \in RowRange
  BY DEF Load, Busy, ShipInv, JobsInv
<1>2. RowsOf(jobs[j].rng) \subseteq Row
  BY <1>1, RangeRows
<1> QED
  BY <1>2 DEF Load, Store, ShipInv, ShipTypeOK

LEMMA ProgramImports ==
  ASSUME ShipInv, NEW j \in Job, Remote(j) \/ JobDies(j)
  PROVE  [ImportNext]_importVars
<1>1. CASE Load(j)
  BY <1>1, LoadStores DEF ImportNext
<1>2. CASE Pin(j)
  <2>1. jobs[j].rng \in RowRange
    BY <1>2 DEF Pin, Busy, ShipInv, JobsInv
  <2> QED
    BY <1>2, <2>1 DEF Pin, ImportNext
<1>3. CASE PublishReceipt(j)
  <2>1. jobs[j].rng \in RowRange \cap roots
    BY <1>3 DEF PublishReceipt, Busy, ShipInv, JobsInv
  <2>2. WriteReceipt("car", jobs[j].rng)
    BY <1>3, <2>1 DEF PublishReceipt, WriteReceipt
  <2> QED
    BY <2>1, <2>2, ShipAssumption DEF ImportNext
<1>4. \/ UNCHANGED importVars
      \/ Load(j) \/ Pin(j) \/ PublishReceipt(j)
  BY DEF Remote, ExportCheck, ExportReceipt, UnpackCheck, UnpackReceipt, ImportCheck,
         OpenReceipt, JobDies
<1> QED
  BY <1>1, <1>2, <1>3, <1>4

LEMMA StepImports == ShipInv /\ [ShipNext]_shipVars => [ImportNext]_importVars
<1> SUFFICES ASSUME ShipInv, [ShipNext]_shipVars PROVE [ImportNext]_importVars
  OBVIOUS
<1>1. CASE Shipper \/ StartComplete \/ ShipperDies \/ UNCHANGED shipVars
  BY <1>1 DEF Shipper, StartRange, StartSkip, CheckpointSkip, StartComplete, CopyHome,
              RecordExport, Pack, PackReceipt, BeginSend, EndSend, UploadManifest,
              CleanDestination, CleanSource, Checkpoint, Unlink, ShipperDies, shipVars
<1>2. CASE CollectGarbage
  <2>1. Store
    BY <1>2 DEF CollectGarbage, Store, ShipInv, ShipTypeOK
  <2> QED
    BY <2>1 DEF ImportNext
<1>3. CASE \E i \in Row : StoredElsewhere(i)
  BY <1>3 DEF StoredElsewhere
<1>4. ASSUME NEW j \in Job, Remote(j) \/ JobDies(j) PROVE [ImportNext]_importVars
  BY <1>4, ProgramImports
<1> QED
  BY <1>1, <1>2, <1>3, <1>4 DEF ShipNext

(* Whatever dies or runs twice, the shipper's destination keeps the         *)
(* contract that the reader and the audits rely on: a receipt appears after *)
(* the root that links its rows, and what a pinned root links stays.        *)
THEOREM ShipperKeepsContract == ShipSpec => ImportSpec
<1>1. ShipInit => ImportInit
  BY DEF ShipInit
<1> QED
  BY <1>1, StepImports, ShipInvariant, PTL DEF ShipSpec, ImportSpec

-----------------------------------------------------------------------------
(* What the contract is worth                                               *)

\* Every receipt names a range whose root is pinned and whose rows are stored.
ReceiptsAreBacked == \A rc \in receipts : rc[2] \in roots /\ RowsOf(rc[2]) \subseteq blocks

\* What is pinned is stored whole, and receipts name what is pinned.
ContractInv == Linked(roots) \subseteq blocks /\ \A rc \in receipts : rc[2] \in roots

LEMMA ContractStep == ContractInv /\ [ImportNext]_importVars => ContractInv'
<1> SUFFICES ASSUME ContractInv, [ImportNext]_importVars PROVE ContractInv'
  OBVIOUS
<1> USE DEF ContractInv
<1>1. CASE Store
  BY <1>1 DEF Store
<1>2. ASSUME NEW r \in RowRange, PinRange(r) PROVE ContractInv'
  BY <1>2 DEF PinRange, Linked
<1>3. ASSUME NEW k \in Kinds, NEW r \in RowRange, WriteReceipt(k, r) PROVE ContractInv'
  BY <1>3 DEF WriteReceipt
<1>4. CASE UNCHANGED importVars
  BY <1>4 DEF importVars
<1> QED
  BY <1>1, <1>2, <1>3, <1>4 DEF ImportNext

(* Whoever keeps the contract of imports, a root pinned before its receipt  *)
(* and no pinned block collected, never shows a receipt for rows that are   *)
(* not pinned and stored.                                                   *)
THEOREM ContractBacksReceipts == ImportSpec => []ReceiptsAreBacked
<1>1. ImportInit => ContractInv
  BY DEF ImportInit, ContractInv, Linked
<1>2. ContractInv => ReceiptsAreBacked
  BY DEF ContractInv, ReceiptsAreBacked, Linked
<1> QED
  BY <1>1, <1>2, ContractStep, PTL DEF ImportSpec

(* import_lake_car.py under the shipper: a receipt at the destination stands *)
(* for rows that are pinned and stored, whatever process wrote it after its *)
(* ssh was cut.                                                             *)
THEOREM ShippedReceiptsAreBacked == ShipSpec => []ReceiptsAreBacked
  BY ShipperKeepsContract, ContractBacksReceipts, PTL
=============================================================================
