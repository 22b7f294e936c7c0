--------------------------- MODULE LakeEpochCycle ---------------------------
(***************************************************************************)
(* Cutting the next epoch of the lake (deploy/lake_epoch_cycle.cljk): a    *)
(* daily job that resumes the newest unfinished run of thirteen steps, from *)
(* two captures (LakeCapture) over custody on two hosts to the record on   *)
(* the witnesses' log and the reader that serves it.  The state file says  *)
(* which steps are done; everything else a step leaves behind is found     *)
(* again by the next start.  p6_drill cuts an epoch of the same log from a *)
(* work directory of its own.                                              *)
(***************************************************************************)
EXTENDS LakeCapture, Sequences, Functions

CONSTANTS
  Drill,    \* the row of the drill's epoch, if the drill is run: no lake block
  MaxFaults \* bound: how often a process stops, a copy stays incomplete, a
            \* submission is lost or the drill cuts its epoch

Steps == <<"head", "capture", "diff", "resolve", "delta", "xavier", "jacob", "cids",
           "manifest", "submit", "bundle", "check", "reader">>
Hosts == {"xavier", "jacob"}

ASSUME CycleAssumption ==
  /\ Drill \cap Cids = {} /\ None \notin Drill /\ MaxFaults \in Nat

VARIABLES
  state,    \* cycle-state.json of the newest run
  s,        \* what the process has of it in memory
  pc,       \* where the process is
  marks,    \* the walks with a candidate-<walk>.done
  diffed,   \* how much of the diff's two files is there
  resolved, \* log-resolved.jsonl: the inventories of the log, one after the other
  log,      \* the manifests the witnesses have committed, epoch 0 first
  pending,  \* the records that were submitted to them
  custody,  \* the rows the Kubo of each host holds
  added,    \* inventories and manifests pinned on both hosts
  reader,   \* the plist of jacob's reader: its epochs, and their total
  serving,  \* what the running reader has read of it, or None when none runs
  drill,    \* how far the drill is
  faults

dir == <<state, marks, diffed, resolved>>
remote == <<log, pending, custody, added, reader, serving, drill>>
cycleVars == <<dir, s, pc, remote, faults>>
vars == <<captureVars, cycleVars>>

NewRun == [done |-> 0, cutoff |-> FALSE, epoch |-> 0, prev |-> None, inv |-> None,
           manifest |-> None, log |-> None]

Inventories(l) == [i \in DOMAIN l |-> l[i].rows]
Rows(l) == UNION Range(Inventories(l))
Tip == log[Len(log)]

\* An inventory as a document that can be pinned.
Inventory(rows) == [rows |-> rows]

\* A CID stands for the bytes; a manifest carries the day it was made on.
Manifest(epoch, prev, rows) == [epoch |-> epoch, prev |-> prev, rows |-> rows, day |-> faults]

Epoch0 == [epoch |-> 0, prev |-> None, rows |-> Base, day |-> 0]

Init ==
  /\ CaptureInit
  /\ state = NewRun /\ s = NewRun /\ pc = "idle"
  /\ marks = {} /\ diffed = "none" /\ resolved = None
  /\ log = <<Epoch0>> /\ pending = {}
  /\ custody = [h \in Hosts |-> Base] /\ added = {Inventory(Base), Epoch0}
  /\ reader = [epochs |-> <<Base>>, total |-> <<Base>>] /\ serving = reader
  /\ drill = "none"
  /\ faults = 0

-----------------------------------------------------------------------------
(* Starting, saving and stopping                                           *)

Finished == state.done = Len(Steps) \/ (state.done >= 5 /\ state.inv = {})

Resume ==
  /\ pc = "idle" /\ ~Finished
  /\ s' = state /\ pc' = "step"
  /\ UNCHANGED <<captureVars, dir, remote, faults>>

\* A new dated directory.
Start ==
  /\ pc = "idle" /\ Finished
  /\ state' = NewRun /\ s' = NewRun /\ pc' = "step"
  /\ marks' = {} /\ diffed' = "none" /\ resolved' = None
  /\ progress' = [w \in Walks |-> NoProgress]
  /\ partial' = [w \in Walks |-> None] /\ output' = [w \in Walks |-> None]
  /\ early' = {} /\ cut' = {}
  /\ UNCHANGED <<lake, recent, fresh, walker, remote, faults>>

At(step) == pc = "step" /\ Steps[s.done + 1] = step

\* The step's function has returned; that it is done is not on the disk yet.
Return(new) == s' = new /\ pc' = "save"

\* A check refused or something could not be measured: nothing else is saved,
\* because a step changes the state where it ends.
Exit == pc' = "idle" /\ s' = NewRun

Save ==
  /\ pc = "save"
  /\ state' = [s EXCEPT !.done = @ + 1]
  /\ IF Finished' THEN Exit ELSE s' = state' /\ pc' = "step"
  /\ UNCHANGED <<captureVars, marks, diffed, resolved, remote, faults>>

\* Killed, alone or with the capture it waits for; or something it needs cannot
\* be reached and it exits.
Kill ==
  /\ pc # "idle" \/ at # "none"
  /\ faults < MaxFaults /\ faults' = faults + 1
  /\ pc' = "idle" /\ s' = NewRun
  /\ UNCHANGED walker \/ NoWalker
  /\ UNCHANGED <<lakeVars, progress, partial, output, dir, remote>>

-----------------------------------------------------------------------------
(* The steps                                                               *)

StepHead ==
  /\ At("head")
  /\ Return([s EXCEPT !.epoch = Len(log), !.prev = Tip])
  /\ UNCHANGED <<captureVars, dir, remote, faults>>

SetCutoff ==
  /\ At("capture") /\ ~s.cutoff
  /\ s' = [s EXCEPT !.cutoff = TRUE] /\ state' = s'
  /\ early' = lake \ recent /\ cut' = early'
  /\ UNCHANGED <<lake, recent, fresh, progress, partial, output, walker, pc, marks, diffed, resolved,
                 remote, faults>>

\* The two walks run one after the other.
StartWalk ==
  /\ At("capture") /\ s.cutoff /\ marks # Walks /\ at = "none"
  /\ walk' = (IF "a" \in marks THEN "b" ELSE "a") /\ at' = "open" /\ pc' = "walk"
  /\ UNCHANGED <<lakeVars, progress, partial, output, next, more, dir, s, remote, faults>>

\* A capture that outlived its cycle still holds the lock of the walk.
WalkBusy ==
  /\ At("capture") /\ s.cutoff /\ marks # Walks /\ at # "none"
  /\ Exit /\ UNCHANGED <<captureVars, dir, remote, faults>>

WalkReturns ==
  /\ pc = "walk" /\ at \in {"ok", "failed"}
  /\ NoWalker
  /\ marks' = (IF at = "ok" THEN marks \cup {walk} ELSE marks)
  /\ IF at = "ok" THEN pc' = "step" /\ UNCHANGED s ELSE Exit
  /\ UNCHANGED <<lakeVars, progress, partial, output, state, diffed, resolved,
                 remote, faults>>

OrphanEnds ==
  /\ pc # "walk" /\ at \in {"ok", "failed"}
  /\ NoWalker
  /\ UNCHANGED <<lakeVars, progress, partial, output, cycleVars>>

StepCapture ==
  /\ At("capture") /\ marks = Walks
  /\ Return(s) /\ UNCHANGED <<captureVars, dir, remote, faults>>

\* Two files, each renamed into place; the second is the receipt.
WriteDiff ==
  /\ At("diff") /\ diffed = "none" /\ output["a"] = output["b"]
  /\ diffed' = "output" /\ pc' = "diff"
  /\ UNCHANGED <<captureVars, state, marks, resolved, s, remote, faults>>

WriteReceipt ==
  /\ pc = "diff"
  /\ diffed' = "receipt" /\ Return(s)
  /\ UNCHANGED <<captureVars, state, marks, resolved, remote, faults>>

\* The receipt of the same run is believed, whatever the tool says.
StepDiff ==
  /\ At("diff") /\ diffed = "receipt"
  /\ Return(s) /\ UNCHANGED <<captureVars, dir, remote, faults>>

RefuseDiff ==
  /\ At("diff")
  /\ \/ diffed = "none" /\ output["a"] # output["b"]
     \/ diffed = "output"
  /\ Exit /\ UNCHANGED <<captureVars, dir, remote, faults>>

StepResolve ==
  /\ At("resolve") /\ Len(log) = s.epoch
  /\ resolved' = Inventories(log) /\ Return(s)
  /\ UNCHANGED <<captureVars, state, marks, diffed, remote, faults>>

RefuseResolve ==
  /\ At("resolve") /\ Len(log) # s.epoch
  /\ resolved' = Inventories(log) /\ Exit
  /\ UNCHANGED <<captureVars, state, marks, diffed, remote, faults>>

\* Mutant: the diff is taken for the delta.
StepDeltaOfDiff ==
  /\ At("delta")
  /\ Return([s EXCEPT !.inv = output["a"] \ Base])
  /\ UNCHANGED <<captureVars, dir, remote, faults>>

\* The diff's rows, which epoch 0 does not have, without those the log has.
StepDelta ==
  /\ At("delta")
  /\ Return([s EXCEPT !.inv = (output["a"] \ Base) \ UNION Range(resolved)])
  /\ UNCHANGED <<captureVars, dir, remote, faults>>

\* Mutant: the readback is not waited for.
StepCustodyUnread(h) ==
  /\ At(h)
  /\ \E copied \in SUBSET s.inv :
       /\ copied = s.inv \/ faults < MaxFaults
       /\ custody' = [custody EXCEPT ![h] = @ \cup copied]
       /\ faults' = IF copied = s.inv THEN faults ELSE faults + 1
       /\ Return(s)
  /\ UNCHANGED <<captureVars, dir, log, pending, added, reader, serving, drill>>

\* Copies to one host, and a readback of every row there.
StepCustody(h) ==
  /\ At(h)
  /\ \E copied \in SUBSET s.inv :
       /\ copied = s.inv \/ faults < MaxFaults
       /\ custody' = [custody EXCEPT ![h] = @ \cup copied]
       /\ faults' = IF copied = s.inv THEN faults ELSE faults + 1
       /\ IF s.inv \subseteq custody'[h] THEN Return(s) ELSE Exit
  /\ UNCHANGED <<captureVars, dir, log, pending, added, reader, serving, drill>>

StepCids ==
  /\ At("cids")
  /\ added' = added \cup {Inventory(s.inv)} /\ Return(s)
  /\ UNCHANGED <<captureVars, dir, log, pending, custody, reader, serving, drill, faults>>

StepManifest ==
  /\ At("manifest")
  /\ Return([s EXCEPT !.manifest = Manifest(s.epoch, s.prev, s.inv)])
  /\ added' = added \cup {s'.manifest}
  /\ UNCHANGED <<captureVars, dir, log, pending, custody, reader, serving, drill, faults>>

\* Mutant: a sequence number that is taken is taken to be another's.
SubmitNew ==
  /\ \/ At("submit")
     \/ pc = "submitted" /\ Len(log) = s.epoch /\ s.manifest \notin pending
  /\ IF Len(log) = s.epoch
     THEN pending' = pending \cup {s.manifest} /\ pc' = "submitted" /\ UNCHANGED s
     ELSE Exit /\ UNCHANGED pending
  /\ UNCHANGED <<captureVars, dir, log, custody, added, reader, serving, drill, faults>>

\* To every witness, and again for as long as no record is committed.
Submit ==
  /\ \/ At("submit")
     \/ pc = "submitted" /\ Len(log) = s.epoch /\ s.manifest \notin pending
  /\ pending' = pending \cup {s.manifest} /\ pc' = "submitted"
  /\ UNCHANGED <<captureVars, dir, s, log, custody, added, reader, serving, drill, faults>>

\* The verified head is this record.
StepSubmit ==
  /\ pc = "submitted" /\ Tip = s.manifest
  /\ Return(s) /\ UNCHANGED <<captureVars, dir, remote, faults>>

\* Another's record at this epoch, or any record behind it.
RefuseSubmit ==
  /\ pc = "submitted" /\ Len(log) > s.epoch /\ Tip # s.manifest
  /\ Exit /\ UNCHANGED <<captureVars, dir, remote, faults>>

\* A proof of the head as it is now, pinned on both hosts.
StepBundle ==
  /\ At("bundle")
  /\ Return(s) /\ UNCHANGED <<captureVars, dir, remote, faults>>

MoveResolved ==
  /\ At("check") /\ resolved # None
  /\ resolved' = None /\ pc' = "check"
  /\ UNCHANGED <<captureVars, state, marks, diffed, s, remote, faults>>

\* The file was moved away by a start that then failed.
RefuseMove ==
  /\ At("check") /\ resolved = None
  /\ Exit /\ UNCHANGED <<captureVars, dir, remote, faults>>

StepCheck ==
  /\ pc = "check" /\ Len(log) = s.epoch + 1 /\ output["a"] \subseteq Rows(log)
  /\ resolved' = Inventories(log)
  /\ Return([s EXCEPT !.log = resolved'])
  /\ UNCHANGED <<captureVars, state, marks, diffed, remote, faults>>

RefuseCheck ==
  /\ pc = "check" /\ (Len(log) # s.epoch + 1 \/ ~(output["a"] \subseteq Rows(log)))
  /\ resolved' = Inventories(log) /\ Exit
  /\ UNCHANGED <<captureVars, state, marks, diffed, remote, faults>>

\* An epoch is added once, and the total is set with it.
Listed(inv) == inv \in Range(reader.epochs)
WithEpoch(inv, total) ==
  IF Listed(inv) THEN reader
  ELSE [epochs |-> Append(reader.epochs, inv), total |-> total]

\* The reader refuses to start with epochs that are not the total.
Started(plist) == IF plist.epochs = plist.total THEN plist ELSE None
Serves(total) == serving = [epochs |-> total, total |-> total]

\* One remote command: the plist is edited, then launchd unloads the reader and
\* loads it with the plist as it is.  It is run only while the epoch is not in
\* the plist.
EditReader ==
  /\ At("reader") /\ ~Listed(s.inv)
  /\ reader' = WithEpoch(s.inv, s.log) /\ pc' = "restart"
  /\ UNCHANGED <<captureVars, dir, s, log, pending, custody, added, serving, drill, faults>>

RestartReader ==
  /\ pc = "restart"
  /\ serving' = Started(reader) /\ pc' = "health"
  /\ UNCHANGED <<captureVars, dir, s, log, pending, custody, added, reader, drill, faults>>

\* Unloaded and not loaded again.
RestartFails ==
  /\ pc = "restart"
  /\ faults < MaxFaults /\ faults' = faults + 1
  /\ serving' = None /\ Exit
  /\ UNCHANGED <<captureVars, dir, log, pending, custody, added, reader, drill>>

AtHealth == pc = "health" \/ (At("reader") /\ Listed(s.inv))

StepReader ==
  /\ AtHealth /\ Serves(s.log)
  /\ Return(s) /\ UNCHANGED <<captureVars, dir, remote, faults>>

RefuseReader ==
  /\ AtHealth /\ ~Serves(s.log)
  /\ Exit /\ UNCHANGED <<captureVars, dir, remote, faults>>

-----------------------------------------------------------------------------
(* The witnesses and the drill                                             *)

\* The first record of a sequence number wins.
Commit(m) ==
  /\ m \in pending /\ m.epoch = Len(log)
  /\ log' = Append(log, m)
  /\ UNCHANGED <<captureVars, dir, s, pc, pending, custody, added, reader, serving, drill, faults>>

\* A submission that was accepted into a mempool can still vanish.
Lose(m) ==
  /\ faults < MaxFaults /\ faults' = faults + 1
  /\ pending' = pending \ {m}
  /\ UNCHANGED <<captureVars, dir, s, pc, log, custody, added, reader, serving, drill>>

\* The drill's head, action, custody, cids, manifest and submit, which are
\* decided at its commit.
DrillCuts ==
  /\ drill = "none" /\ Drill # {} /\ faults < MaxFaults /\ faults' = faults + 1
  /\ \E m \in {Manifest(Len(log), Tip, Drill)} :
       /\ log' = Append(log, m)
       /\ added' = added \cup {m, Inventory(Drill)}
  /\ custody' = [h \in Hosts |-> custody[h] \cup Drill]
  /\ drill' = "cut"
  /\ UNCHANGED <<captureVars, dir, s, pc, pending, reader, serving>>

\* The log must end with the drill's epoch and have one row more than the
\* reader serves.
DrillResolves ==
  /\ drill = "cut" /\ Tip.rows = Drill
  /\ Serves(Inventories(SubSeq(log, 1, Len(log) - 1)))
  /\ drill' = "resolved"
  /\ UNCHANGED <<captureVars, dir, s, pc, log, pending, custody, added, reader, serving, faults>>

\* The same remote command, which may be cut anywhere too.
DrillEdits ==
  /\ drill = "resolved"
  /\ \E i \in DOMAIN log :
       /\ log[i].rows = Drill
       /\ reader' = WithEpoch(Drill, Inventories(SubSeq(log, 1, i)))
  /\ drill' = "edited"
  /\ UNCHANGED <<captureVars, dir, s, pc, log, pending, custody, added, serving, faults>>

DrillRestarts ==
  /\ drill = "edited"
  /\ serving' \in {Started(reader), None} /\ drill' = "done"
  /\ UNCHANGED <<captureVars, dir, s, pc, log, pending, custody, added, reader, faults>>

-----------------------------------------------------------------------------
Capture == SetCutoff \/ StartWalk \/ WalkBusy \/ WalkReturns \/ StepCapture

Prepare ==
  \/ StepHead \/ WriteDiff \/ WriteReceipt \/ StepDiff \/ RefuseDiff
  \/ StepResolve \/ RefuseResolve \/ StepDelta
  \/ (\E h \in Hosts : StepCustody(h)) \/ StepCids \/ StepManifest

Publication ==
  \/ Submit \/ StepSubmit \/ RefuseSubmit \/ StepBundle
  \/ MoveResolved \/ RefuseMove \/ StepCheck \/ RefuseCheck
  \/ EditReader \/ RestartReader \/ RestartFails \/ StepReader \/ RefuseReader

Cycle == Resume \/ Start \/ Save \/ Capture \/ Prepare \/ Publication

Tool == (Walk /\ UNCHANGED cycleVars) \/ OrphanEnds

Surroundings ==
  \/ Lake /\ UNCHANGED cycleVars
  \/ DrillCuts \/ DrillResolves \/ DrillEdits \/ DrillRestarts
  \/ \E m \in pending : Lose(m)

Witnesses == \E m \in pending : Commit(m)

Next == Cycle \/ Tool \/ Kill \/ Witnesses \/ Surroundings

Spec == Init /\ [][Next]_vars

\* The job is started every day and its children end; the witnesses commit.
FairSpec == Spec /\ WF_vars(Cycle) /\ WF_vars(Tool) /\ WF_vars(Witnesses)

-----------------------------------------------------------------------------
(* Properties                                                              *)

\* Every epoch names the manifest before it and only rows that no earlier
\* epoch has, although another run may cut an epoch at any moment between the
\* head a run read and the record it submits.
LogIsChained ==
  \A i \in 2..Len(log) :
    /\ log[i].epoch = i - 1 /\ log[i].prev = log[i - 1]
    /\ log[i].rows # {} /\ log[i].rows \cap Rows(SubSeq(log, 1, i - 1)) = {}

\* No epoch is committed before both hosts hold its rows and its documents,
\* however the run was interrupted, repeated or left with a copy half done.
CommittedIsInCustody ==
  \A i \in 1..Len(log) :
    /\ \A h \in Hosts : log[i].rows \subseteq custody[h]
    /\ {log[i], Inventory(log[i].rows)} \subseteq added

\* A run that ends, with an epoch or with nothing to commit, leaves a log that
\* covers the lake as it was dated at the run's cutoff.
FinishedMeansCovered == Finished => early \subseteq Rows(log)

\* Where no later start gets further: a stuck walk, walks that disagree, the
\* diff's first file alone, a file the check moved away, an epoch of another
\* run behind the head this one has read, a reader that serves more or less, or
\* one whose plist has the epoch and that was not started with it.
NeedsOperator ==
  \/ \E w \in Walks \ marks : WalkStuck(w)
  \/ marks = Walks /\ diffed = "none" /\ output["a"] # output["b"]
  \/ diffed = "output" /\ pc # "diff"
  \/ state.done = 11 /\ resolved = None /\ pc # "check"
  \/ state.done \in 1..11 /\ \E i \in (state.epoch + 1)..Len(log) : log[i] # state.manifest
  \/ /\ state.done = 12 /\ pc # "restart"
     /\ IF Listed(state.inv) THEN ~Serves(state.log)
        ELSE Append(reader.epochs, state.inv) # state.log

\* Apart from those, every run ends, however often it was killed.
RunsFinish == <>[]NeedsOperator \/ []<>Finished

\* "The state file in --work makes an interrupted run continue from the step
\* where it stopped": the same without the exceptions.
InterruptedRunsFinish == []<>Finished
=============================================================================
