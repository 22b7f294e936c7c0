------------------------- MODULE ReplicateLakeProofs -------------------------
(***************************************************************************)
(* The safety of the replicator, for every inventory, budget and set of    *)
(* services on the same Kubo.  One argument carries all of it: no step     *)
(* takes a block out of Safe, so what the cursor, the receipts and a run   *)
(* once relied on stays true while they are used.                          *)
(***************************************************************************)
EXTENDS ReplicateLake, TLAPS

\* The rows of an inventory are CIDs.
LEMMA RowsAreCids ==
  /\ \A s \in Snapshots : Last(s) \in Nat /\ Last(s) > 0
  /\ \A s \in Snapshots : \A i \in 1..Last(s) : Rows[s][i] \in Cids
BY ReplicaAssumption DEF Last, Snapshots

\* A fresh node and a legacy one satisfy the invariant.
LEMMA InitInv == Init => ReplicaInv
<1> SUFFICES ASSUME Init PROVE ReplicaInv
  OBVIOUS
<1> USE DEF Init
<1>1. /\ checkpoint \in [cursor : Cids \cup {None}, source : {None}]
      /\ pinned \subseteq Cids
  <2>1. CASE checkpoint = NoCheckpoint /\ pinned = {}
    BY <2>1 DEF NoCheckpoint
  <2>2. CASE \E i \in 1..Last("old") :
               /\ Rows["old"][i] \in LegacyCursors
               /\ checkpoint = [cursor |-> Rows["old"][i], source |-> None]
               /\ pinned = RowsUpTo("old", i) \ Late
    <3>1. PICK i \in 1..Last("old") :
               /\ checkpoint = [cursor |-> Rows["old"][i], source |-> None]
               /\ pinned = RowsUpTo("old", i) \ Late
      BY <2>2
    <3>2. "old" \in Snapshots /\ Last("old") \in Nat
      BY RowsAreCids DEF Snapshots
    <3>3. \A j \in 1..i : Rows["old"][j] \in Cids
      BY <3>2, RowsAreCids
    <3> QED
      BY <3>1, <3>2, <3>3, RowsAreCids DEF RowsUpTo
  <2> QED
    BY <2>1, <2>2
<1>2. TypeOK
  BY <1>1 DEF TypeOK, NoCheckpoint, Snapshots, Slots
<1>3. rawMeta \subseteq rawData /\ known \subseteq Safe /\ receipts \subseteq Safe
  OBVIOUS
<1>4. CursorInv
  BY <1>1 DEF CursorInv, NoCheckpoint
<1>5. RunInv /\ PageInv /\ CopyInv /\ CompleteMeansHeld
  BY DEF RunInv, PageInv, CopyInv, CompleteMeansHeld, Copying
<1> QED
  BY <1>2, <1>3, <1>4, <1>5 DEF ReplicaInv

\* Once the run belongs to an inventory, the cursor is a row of it or null.
LEMMA PositionIsARow ==
  ASSUME TypeOK, RunInv, CursorInv, pc \in {"preflight", "list", "check", "report"} \/ Copying
  PROVE  /\ args \in Snapshots /\ checkpoint.source = args /\ Position \in 0..Last(args)
         /\ Position \in Nat /\ Last(args) \in Nat
         /\ RowsUpTo(args, Position) \subseteq Safe
<1>1. args \in Snapshots /\ checkpoint.source = args
  BY DEF RunInv, Copying
<1>2. None \notin Snapshots
  BY ReplicaAssumption DEF ReplicaAssumption
<1> QED
  BY <1>1, <1>2, RowsAreCids DEF CursorInv

\* The row to be checked is a row of the inventory.
LEMMA CheckedIsARow ==
  ASSUME TypeOK, RunInv, CursorInv, PageInv, pc = "check", at =< last
  PROVE  at \in 1..Last(args) /\ listing = args /\ args \in Snapshots
<1>1. args \in Snapshots /\ Position \in Nat /\ Last(args) \in Nat
  BY PositionIsARow
<1> QED
  BY <1>1 DEF PageInv, TypeOK

\* When a page is done and the budget did not stop it, all its rows are safe.
LEMMA PageIsSafe ==
  ASSUME ReplicaInv, PageDone, ~stopped
  PROVE  /\ checkpoint.source = args /\ args \in Snapshots /\ listing = args
         /\ last \in 0..Last(args) /\ Last(args) \in Nat
         /\ \A i \in 1..last : Rows[args][i] \in Safe
<1>1. /\ args \in Snapshots /\ checkpoint.source = args /\ Position \in Nat
      /\ Last(args) \in Nat
  BY PositionIsARow DEF PageDone, Copying, ReplicaInv
<1>2. /\ listing = args /\ last =< Last(args) /\ Position < last /\ at = last + 1
      /\ \A i \in 1..(at - 1) : i \in todo \/ Rows[args][i] \in Safe
  BY DEF PageDone, Copying, ReplicaInv, PageInv
<1>3. last \in Nat
  BY DEF ReplicaInv, TypeOK
<1> QED
  BY <1>1, <1>2, <1>3 DEF PageDone

\* The oldest selected row is a row of the page, and there is only one.
LEMMA OldestIsARow ==
  ASSUME TypeOK, RunInv, PageInv, Copying, NEW i \in todo
  PROVE  /\ i \in 1..Last(args) /\ Rows[args][i] \in Cids /\ args \in Snapshots
         /\ listing = args
         /\ Oldest(i) => \A j \in todo : Oldest(j) => i = j
<1>1. args \in Snapshots /\ pc # "idle"
  BY DEF RunInv, Copying
<1>2. Position \in Nat \/ Position \in Cids \/ Position = None
  BY DEF TypeOK, Position
<1>3. at \in Nat /\ last \in Nat /\ Last(args) \in Nat
  BY <1>1, RowsAreCids DEF TypeOK
<1>4. i \in Nat /\ i > 0 /\ i =< at - 1 /\ at =< last + 1 /\ last =< Last(args) /\ listing = args
  BY DEF PageInv, TypeOK
<1>5. i \in 1..Last(args)
  BY <1>3, <1>4
<1>6. ASSUME Oldest(i), NEW j \in todo, Oldest(j) PROVE i = j
  BY <1>6 DEF Oldest, TypeOK
<1> QED
  BY <1>1, <1>4, <1>5, <1>6, RowsAreCids

\* The steps, with the five ways a run refuses and the report as one.
LEMMA StepCases ==
  ASSUME [Next]_vars
  PROVE  \/ UNCHANGED vars \/ EndRun \/ Fault
         \/ Prepared \/ StartMigration \/ CreateBackup \/ FillBackup \/ KeepBackup \/ Migrate
         \/ Preflight \/ ListPage \/ CheckPinned \/ Select \/ StopAtBudget \/ StartCopy
         \/ FetchBlock \/ PutBlock \/ PinBlock \/ PinUndecodable \/ ConfirmPin \/ PutRawData \/ PutRawMeta
         \/ AppendReceipt \/ AdvanceCursor \/ CompleteCycle \/ ReturnByteBudget \/ StartRun
         \/ (\E c \in Cids : OtherPins(c)) \/ (\E c \in Cids : OtherUnpins(c))
         \/ RollReader \/ RollUnit
BY DEF Next, Replicate, Prepare, Page, Copy, EndOfPage, Surroundings, RefuseStaleReader,
       RefuseBackup, RefusePage, RefuseSize, RefusePin, ReportBatch

\* No step takes a block out of Safe, or out of the raw store.
LEMMA SafeGrows ==
  ASSUME ReplicaInv, [Next]_vars
  PROVE  Safe \subseteq Safe' /\ rawData \subseteq rawData'
<1> USE DEF Safe, Held
<1>1. CASE UNCHANGED vars \/ EndRun \/ Fault \/ StartRun \/ Prepared \/ StartMigration
           \/ KeepBackup \/ Preflight \/ ListPage \/ CheckPinned \/ Select \/ StopAtBudget
  BY <1>1 DEF vars, disk, EndRun, Fault, StartRun, Prepared, StartMigration, KeepBackup,
              Preflight, ListPage, CheckPinned, Select, StopAtBudget, Go
<1>2. CASE StartCopy \/ FetchBlock \/ PutBlock \/ PinUndecodable \/ ConfirmPin \/ ReturnByteBudget
           \/ CreateBackup \/ FillBackup \/ AppendReceipt \/ AdvanceCursor \/ CompleteCycle
           \/ RollReader \/ RollUnit
  BY <1>2 DEF disk, StartCopy, FetchBlock, PutBlock, PinUndecodable, ConfirmPin, ReturnByteBudget,
              CreateBackup, FillBackup, AppendReceipt, AdvanceCursor, CompleteCycle,
              RollReader, RollUnit, Go
<1>3. CASE Migrate
  BY <1>3 DEF Migrate
<1>4. CASE PinBlock
  BY <1>4 DEF PinBlock, disk
<1>5. CASE PutRawData
  BY <1>5 DEF PutRawData, Go
<1>6. CASE PutRawMeta
  \* The metadata is written for the row whose bytes went in the step before.
  <2>1. PICK i \in todo : /\ Oldest(i) /\ rawMeta' = rawMeta \cup {Rows[listing][i]}
                         /\ exempt' = exempt \ {Rows[listing][i]}
    BY <1>6 DEF PutRawMeta
  <2>2. Rows[listing][i] \in rawData
    BY <1>6, <2>1 DEF PutRawMeta, ReplicaInv, CopyInv, PageInv, Copying
  <2> QED
    BY <1>6, <2>1, <2>2 DEF PutRawMeta
<1>7. CASE \E c \in Cids : OtherPins(c)
  BY <1>7 DEF OtherPins, disk
<1>8. CASE \E c \in Cids : OtherUnpins(c)
  BY <1>8 DEF OtherUnpins, disk
<1> QED
  BY <1>1, <1>2, <1>3, <1>4, <1>5, <1>6, <1>7, <1>8, StepCases

\* The types are kept.
LEMMA TypeNext ==
  ASSUME ReplicaInv, [Next]_vars
  PROVE  TypeOK'
<1> TypeOK
  BY DEF ReplicaInv
<1> Snapshots \subseteq Slots /\ "legacy" \in Slots
  BY DEF Slots
<1> USE DEF TypeOK
<1>1. CASE UNCHANGED vars \/ StartRun \/ Prepared \/ StartMigration \/ KeepBackup
  BY <1>1 DEF vars, disk, others, run, StartRun, Prepared, StartMigration, KeepBackup, Go
<1>2. CASE EndRun \/ Fault
  <2>1. /\ args' = None /\ listing' = None /\ known' = {} /\ at' = 0 /\ last' = 0 /\ todo' = {}
        /\ bytes' = 0 /\ stopped' = FALSE /\ pages' = 0 /\ pc' = "idle"
    BY <1>2 DEF EndRun, Fault, IdleRun
  <2>2. faults' \in Nat
    BY <1>2 DEF EndRun, Fault, others
  <2>3. UNCHANGED <<disk, pinned, conf, serving, sharing, exempt>>
    BY <1>2 DEF EndRun, Fault, others
  <2> QED
    BY <2>1, <2>2, <2>3 DEF disk
<1>3. CASE CreateBackup \/ FillBackup
  <2>1. Slot \in Slots
    BY DEF Slot, Slots
  <2> QED
    BY <1>3, <2>1 DEF others, run, CreateBackup, FillBackup, Go
<1>4. CASE Migrate
  <2>1. args \in Snapshots
    BY <1>4 DEF Migrate, ReplicaInv, RunInv
  <2>2. checkpoint' \in [cursor : Nat \cup Cids \cup {None}, source : Snapshots \cup {None}]
    BY <1>4, <2>1, RowsAreCids DEF Migrate
  <2>3. exempt' \subseteq Cids
    <3>1. \A n \in 1..Last(args) : RowsUpTo(args, n) \subseteq Cids
      BY <2>1, RowsAreCids DEF RowsUpTo
    <3>2. exempt' = exempt \/ \E n \in 1..Last(args) : exempt' = exempt \cup (RowsUpTo(args, n) \ Held)
      BY <1>4 DEF Migrate
    <3> QED
      BY <3>1, <3>2
  <2> QED
    BY <1>4, <2>2, <2>3 DEF Migrate, others, run
<1>5. CASE Preflight
  BY <1>5 DEF disk, others, Preflight
<1>6. CASE ListPage
  <2>1. Position \in Nat /\ serving = args /\ args \in Snapshots
    BY <1>6, PositionIsARow DEF ListPage, ReplicaInv
  <2>2. at' \in Nat /\ last' \in Nat /\ todo' = {} /\ listing' = args /\ pc' = "check"
    BY <1>6, <2>1, RowsAreCids, ReplicaAssumption DEF ListPage, ReplicaAssumption
  <2> QED
    BY <1>6, <2>1, <2>2 DEF disk, others, ListPage
<1>7. CASE CheckPinned \/ Select \/ StopAtBudget
  <2>1. at \in 1..Last(args) /\ listing = args /\ args \in Snapshots
    BY <1>7, CheckedIsARow DEF CheckPinned, Select, StopAtBudget, ReplicaInv
  <2>2. Checked \in Cids
    BY <2>1, RowsAreCids DEF Checked
  <2> QED
    <3>1. Size[Checked] \in Nat /\ MaxNewBytes \in Nat
      BY <2>2, ReplicaAssumption DEF ReplicaAssumption
    <3>2. CASE CheckPinned
      BY <2>1, <2>2, <3>2 DEF disk, others, CheckPinned
    <3>3. CASE Select
      BY <2>1, <3>1, <3>3 DEF disk, others, Select
    <3>4. CASE StopAtBudget
      BY <3>4 DEF disk, others, StopAtBudget
    <3> QED
      BY <1>7, <3>2, <3>3, <3>4
<1>8. CASE StartCopy \/ FetchBlock \/ PutBlock \/ PinUndecodable \/ ReturnByteBudget
  BY <1>8 DEF disk, others, run, StartCopy, FetchBlock, PutBlock, PinUndecodable, ReturnByteBudget, PageDone, Go
<1>9. CASE PinBlock \/ ConfirmPin \/ PutRawData \/ PutRawMeta \/ AppendReceipt
  <2>1. \A i \in todo : Rows[listing][i] \in Cids
    BY <1>9, OldestIsARow DEF PinBlock, ConfirmPin, PutRawData, PutRawMeta, AppendReceipt,
                              Copying, ReplicaInv
  <2> QED
    <3>1. CASE PinBlock
      BY <2>1, <3>1 DEF disk, others, run, PinBlock
    <3>2. CASE ConfirmPin
      BY <2>1, <3>2 DEF disk, others, ConfirmPin
    <3>3. CASE PutRawData
      BY <2>1, <3>3 DEF others, run, PutRawData, Go
    <3>4. CASE PutRawMeta
      BY <2>1, <3>4 DEF others, PutRawMeta
    <3>5. CASE AppendReceipt
      BY <2>1, <3>5 DEF others, AppendReceipt
    <3> QED
      BY <1>9, <3>1, <3>2, <3>3, <3>4, <3>5
<1>10. CASE AdvanceCursor \/ CompleteCycle
  <2>1. checkpoint' \in [cursor : Nat \cup Cids \cup {None}, source : Snapshots \cup {None}]
    BY <1>10 DEF AdvanceCursor, CompleteCycle
  <2>2. pages' \in Nat /\ pc' \in {"list", "report"}
    BY <1>10 DEF AdvanceCursor, CompleteCycle
  <2> QED
    BY <1>10, <2>1, <2>2 DEF others, AdvanceCursor, CompleteCycle
<1>11. CASE (\E c \in Cids : OtherPins(c)) \/ (\E c \in Cids : OtherUnpins(c))
            \/ RollReader \/ RollUnit
  <2>1. sharing' \in [Cids -> {"pin", "unpin", "done"}] /\ pinned' \subseteq Cids /\ exempt' \subseteq Cids
    BY <1>11 DEF OtherPins, OtherUnpins, RollReader, RollUnit
  <2>2. conf' \in Snapshots /\ serving' \in Snapshots
    BY <1>11 DEF OtherPins, OtherUnpins, RollReader, RollUnit, Snapshots
  <2>3. UNCHANGED <<disk, faults, pc, run>>
    BY <1>11 DEF OtherPins, OtherUnpins, RollReader, RollUnit
  <2> QED
    BY <2>1, <2>2, <2>3 DEF disk, run
<1> QED
  BY <1>1, <1>2, <1>3, <1>4, <1>5, <1>6, <1>7, <1>8, <1>9, <1>10, <1>11, StepCases

\* Metadata follows the bytes; what the run knows and what was receipted is safe.
LEMMA StoreNext ==
  ASSUME ReplicaInv, [Next]_vars
  PROVE  rawMeta' \subseteq rawData' /\ known' \subseteq Safe' /\ receipts' \subseteq Safe'
<1>1. /\ rawMeta \subseteq rawData /\ known \subseteq Safe /\ receipts \subseteq Safe
      /\ Safe \subseteq Safe' /\ rawData \subseteq rawData'
  BY SafeGrows DEF ReplicaInv
<1>2. CASE UNCHANGED <<known, receipts, rawMeta>>
  BY <1>1, <1>2
<1>3. CASE EndRun \/ Fault
  BY <1>1, <1>3 DEF EndRun, Fault, IdleRun, disk
<1>4. CASE Preflight
  BY <1>1, <1>4 DEF Preflight, disk, Safe, Held
<1>5. CASE CheckPinned
  BY <1>1, <1>5 DEF CheckPinned, disk, Safe, Held
<1>6. CASE ConfirmPin
  BY <1>1, <1>6 DEF ConfirmPin, disk, Safe, Held
<1>7. CASE PutRawMeta
  <2>1. PICK i \in todo : /\ Oldest(i) /\ rawMeta' = rawMeta \cup {Rows[listing][i]}
                         /\ known' = known \cup {Rows[listing][i]}
    BY <1>7 DEF PutRawMeta
  <2>2. Rows[listing][i] \in rawData /\ UNCHANGED <<rawData, receipts>>
    BY <1>7, <2>1 DEF PutRawMeta, ReplicaInv, CopyInv, PageInv, Copying
  <2> QED
    BY <1>1, <2>1, <2>2 DEF Safe, Held
<1>8. CASE AppendReceipt
  <2>1. PICK i \in todo : Oldest(i) /\ receipts' = receipts \cup {Rows[listing][i]}
    BY <1>8 DEF AppendReceipt
  <2>2. Rows[listing][i] \in Safe /\ UNCHANGED <<rawMeta, known>>
    BY <1>8, <2>1 DEF AppendReceipt, ReplicaInv, CopyInv, PageInv, Copying
  <2> QED
    BY <1>1, <2>1, <2>2
<1>9. UNCHANGED <<known, receipts, rawMeta>>
      \/ EndRun \/ Fault \/ Preflight \/ CheckPinned \/ ConfirmPin \/ PutRawMeta \/ AppendReceipt
  <2>1. CASE UNCHANGED vars \/ StartRun \/ Prepared \/ StartMigration \/ CreateBackup
             \/ FillBackup \/ KeepBackup \/ Migrate \/ ListPage \/ Select \/ StopAtBudget
    BY <2>1 DEF vars, disk, run, StartRun, Prepared, StartMigration, CreateBackup, FillBackup,
                KeepBackup, Migrate, ListPage, Select, StopAtBudget, Go
  <2>2. CASE StartCopy \/ FetchBlock \/ PutBlock \/ PinUndecodable \/ PinBlock \/ PutRawData
             \/ AdvanceCursor \/ CompleteCycle \/ ReturnByteBudget
             \/ (\E c \in Cids : OtherPins(c)) \/ (\E c \in Cids : OtherUnpins(c))
             \/ RollReader \/ RollUnit
    BY <2>2 DEF disk, run, StartCopy, FetchBlock, PutBlock, PinUndecodable, PinBlock, PutRawData,
                AdvanceCursor, CompleteCycle, ReturnByteBudget, OtherPins, OtherUnpins,
                RollReader, RollUnit, Go
  <2> QED
    BY <2>1, <2>2, StepCases
<1> QED
  BY <1>2, <1>3, <1>4, <1>5, <1>6, <1>7, <1>8, <1>9

\* What the cursor promises: it moves over rows that are safe, and a change of
\* inventory takes it back to the first one.
LEMMA CursorNext ==
  ASSUME ReplicaInv, [Next]_vars
  PROVE  CursorInv'
<1>1. Safe \subseteq Safe' /\ None \notin Snapshots /\ TypeOK /\ CursorInv
  BY SafeGrows, ReplicaAssumption DEF ReplicaInv, ReplicaAssumption
<1>2. CASE UNCHANGED checkpoint
  BY <1>1, <1>2 DEF CursorInv, Position
<1>3. CASE Migrate
  <2>1. args \in Snapshots /\ Last(args) \in Nat
    BY <1>3, RowsAreCids DEF Migrate, ReplicaInv, RunInv
  <2>2. CASE checkpoint' = [cursor |-> 0, source |-> args]
    BY <1>1, <2>1, <2>2 DEF CursorInv, Position, RowsUpTo
  <2>3. CASE checkpoint.cursor = None /\ checkpoint' = [cursor |-> None, source |-> args]
    BY <1>1, <2>1, <2>3 DEF CursorInv, Position, RowsUpTo
  <2>4. ASSUME NEW n \in 1..Last(args), checkpoint' = [cursor |-> n, source |-> args],
               exempt' = exempt \cup (RowsUpTo(args, n) \ Held)
        PROVE  CursorInv'
    <3>1. RowsUpTo(args, n) \subseteq Held \cup exempt'
      BY <2>4
    <3>2. Held' = Held
      BY <1>3 DEF Migrate, Held
    <3>3. n # None
      BY <2>1, ReplicaAssumption DEF ReplicaAssumption
    <3> QED
      BY <1>1, <2>1, <2>4, <3>1, <3>2, <3>3 DEF CursorInv, Position, Safe
  <2>5. \/ checkpoint' = [cursor |-> 0, source |-> args]
        \/ checkpoint.cursor = None /\ checkpoint' = [cursor |-> None, source |-> args]
        \/ \E n \in 1..Last(args) : /\ checkpoint' = [cursor |-> n, source |-> args]
                                    /\ exempt' = exempt \cup (RowsUpTo(args, n) \ Held)
    BY <1>3, <2>1, ReplicaAssumption DEF Migrate, ReplicaAssumption
  <2> QED
    BY <2>2, <2>3, <2>4, <2>5
<1>4. CASE AdvanceCursor \/ CompleteCycle
  <2>1. /\ checkpoint.source = args /\ args \in Snapshots /\ listing = args
        /\ last \in 0..Last(args) /\ Last(args) \in Nat
        /\ \A i \in 1..last : Rows[args][i] \in Safe
    BY <1>4, PageIsSafe DEF AdvanceCursor, CompleteCycle
  <2>2. CASE AdvanceCursor
    <3>1. checkpoint' = [checkpoint EXCEPT !.cursor = last]
      BY <2>2 DEF AdvanceCursor
    <3>2. checkpoint'.source = args /\ checkpoint'.cursor = last
      BY <1>1, <2>1, <3>1 DEF TypeOK
    <3>3. Position' = last \/ Position' = 0
      BY <3>2 DEF Position
    <3>4. RowsUpTo(args, Position') \subseteq Safe
      BY <2>1, <3>3 DEF RowsUpTo
    <3> QED
      BY <1>1, <2>1, <3>2, <3>3, <3>4 DEF CursorInv
  <2>3. CASE CompleteCycle
    <3>1. checkpoint' = [checkpoint EXCEPT !.cursor = None]
      BY <2>3 DEF CompleteCycle
    <3>2. checkpoint'.source = args /\ checkpoint'.cursor = None
      BY <1>1, <2>1, <3>1 DEF TypeOK
    <3>3. Position' = 0 /\ RowsUpTo(args, 0) = {}
      BY <3>2 DEF Position, RowsUpTo
    <3> QED
      BY <1>1, <2>1, <3>2, <3>3 DEF CursorInv
  <2> QED
    BY <1>4, <2>2, <2>3
<1>5. UNCHANGED checkpoint \/ Migrate \/ AdvanceCursor \/ CompleteCycle
  <2>1. CASE UNCHANGED vars \/ EndRun \/ Fault \/ StartRun \/ Prepared \/ StartMigration
             \/ CreateBackup \/ FillBackup \/ KeepBackup \/ Preflight \/ ListPage
             \/ CheckPinned \/ Select \/ StopAtBudget \/ StartCopy
    BY <2>1 DEF vars, disk, EndRun, Fault, StartRun, Prepared, StartMigration, CreateBackup,
                FillBackup, KeepBackup, Preflight, ListPage, CheckPinned, Select, StopAtBudget,
                StartCopy
  <2>2. CASE FetchBlock \/ PutBlock \/ PinBlock \/ PinUndecodable \/ ConfirmPin \/ PutRawData \/ PutRawMeta
             \/ AppendReceipt \/ ReturnByteBudget
             \/ (\E c \in Cids : OtherPins(c)) \/ (\E c \in Cids : OtherUnpins(c))
             \/ RollReader \/ RollUnit
    BY <2>2 DEF disk, FetchBlock, PutBlock, PinBlock, PinUndecodable, ConfirmPin, PutRawData, PutRawMeta,
                AppendReceipt, ReturnByteBudget, OtherPins, OtherUnpins, RollReader, RollUnit
  <2> QED
    BY <2>1, <2>2, StepCases
<1> QED
  BY <1>2, <1>3, <1>4, <1>5

\* A step of the surroundings leaves the run alone; a step that ends the run
\* leaves it idle.
LEMMA QuietSteps ==
  ASSUME [Next]_vars
  PROVE  \/ UNCHANGED <<checkpoint, pc, run>>
         \/ pc' = "idle"
         \/ StartRun \/ Prepared \/ StartMigration \/ CreateBackup \/ FillBackup \/ KeepBackup
         \/ Migrate \/ Preflight \/ ListPage \/ CheckPinned \/ Select \/ StopAtBudget \/ StartCopy
         \/ FetchBlock \/ PutBlock \/ PinBlock \/ PinUndecodable \/ ConfirmPin \/ PutRawData \/ PutRawMeta
         \/ AppendReceipt \/ AdvanceCursor \/ CompleteCycle \/ ReturnByteBudget
<1>1. CASE UNCHANGED vars
  BY <1>1 DEF vars, disk
<1>2. CASE EndRun \/ Fault
  BY <1>2 DEF EndRun, Fault
<1>3. CASE (\E c \in Cids : OtherPins(c)) \/ (\E c \in Cids : OtherUnpins(c))
           \/ RollReader \/ RollUnit
  BY <1>3 DEF disk, OtherPins, OtherUnpins, RollReader, RollUnit
<1> QED
  BY <1>1, <1>2, <1>3, StepCases

\* A run keeps the inventory it was started with, and from its preflight on
\* the checkpoint belongs to that inventory.
LEMMA RunNext ==
  ASSUME ReplicaInv, [Next]_vars
  PROVE  RunInv'
<1> USE DEF RunInv, Copying
<1>1. RunInv /\ TypeOK
  BY DEF ReplicaInv
<1>2. CASE UNCHANGED <<checkpoint, pc, run>> \/ pc' = "idle"
  BY <1>1, <1>2 DEF run
<1>3. CASE StartRun \/ Prepared \/ StartMigration \/ CreateBackup \/ FillBackup \/ KeepBackup
  BY <1>1, <1>3 DEF TypeOK, disk, run, StartRun, Prepared, StartMigration, CreateBackup, FillBackup,
                    KeepBackup, Go
<1>4. CASE Migrate
  BY <1>1, <1>4 DEF Migrate, run
<1>5. CASE Preflight \/ ListPage \/ CheckPinned \/ Select \/ StopAtBudget \/ StartCopy
  BY <1>1, <1>5 DEF disk, run, Preflight, ListPage, CheckPinned, Select, StopAtBudget, StartCopy, Go
<1>6. CASE FetchBlock \/ PutBlock \/ PinBlock \/ PinUndecodable \/ ConfirmPin \/ PutRawData \/ PutRawMeta
           \/ AppendReceipt
  BY <1>1, <1>6 DEF disk, run, FetchBlock, PutBlock, PinBlock, PinUndecodable, ConfirmPin, PutRawData,
                    PutRawMeta, AppendReceipt, Go
<1>7. CASE AdvanceCursor \/ CompleteCycle \/ ReturnByteBudget
  <2>1. checkpoint'.source = checkpoint.source /\ args' = args
    BY <1>1, <1>7 DEF TypeOK, disk, run, AdvanceCursor, CompleteCycle, ReturnByteBudget, Go
  <2>2. pc = "copy"
    BY <1>7 DEF AdvanceCursor, CompleteCycle, ReturnByteBudget, PageDone
  <2> QED
    BY <1>1, <2>1, <2>2
<1> QED
  BY <1>2, <1>3, <1>4, <1>5, <1>6, <1>7, QuietSteps

\* The rows of a page are safe or selected, from its listing to its last receipt.
LEMMA PageNext ==
  ASSUME ReplicaInv, [Next]_vars
  PROVE  PageInv'
<1>1. Safe \subseteq Safe' /\ TypeOK /\ PageInv /\ RunInv /\ CursorInv
  BY SafeGrows DEF ReplicaInv
<1>2. CASE UNCHANGED <<checkpoint, args, listing, at, last, todo, stopped>>
           /\ (pc' = "check" => pc = "check")
           /\ (Copying' => Copying)
  BY <1>1, <1>2 DEF PageInv, Position
<1>3. CASE pc' \in {"idle", "prepare", "backup", "fill", "migrate", "preflight", "list", "report"}
  BY <1>3 DEF PageInv, Copying
<1>4. CASE ListPage
  <2>1. /\ args \in Snapshots /\ Position \in Nat /\ Last(args) \in Nat /\ Position < Last(args)
        /\ RowsUpTo(args, Position) \subseteq Safe /\ PageSize \in Nat \ {0}
    BY <1>1, <1>4, PositionIsARow, ReplicaAssumption DEF ListPage, ReplicaAssumption
  <2>2. /\ listing' = args /\ args' = args /\ at' = Position + 1 /\ todo' = {} /\ pc' = "check"
        /\ last' = IF Position + PageSize < Last(args) THEN Position + PageSize ELSE Last(args)
        /\ Position' = Position
    BY <1>4 DEF ListPage, disk, Position
  <2>3. \A i \in 1..Position : Rows[args][i] \in Safe'
    BY <1>1, <2>1 DEF RowsUpTo
  <2> QED
    BY <2>1, <2>2, <2>3 DEF PageInv, Copying
<1>5. CASE CheckPinned
  <2>1. /\ at \in 1..Last(args) /\ listing = args /\ at =< last /\ pc = "check" /\ Position \in Nat
    BY <1>1, <1>5, CheckedIsARow, PositionIsARow DEF CheckPinned
  <2>2. Rows[args][at] \in Safe
    BY <1>5, <2>1 DEF CheckPinned, Checked, ReplicaInv, Safe, Held
  <2>3. at' = at + 1 /\ UNCHANGED <<checkpoint, pc, args, listing, last, todo>> /\ Position' = Position
    BY <1>5 DEF CheckPinned, disk, Position
  <2>4. at \in Nat /\ last \in Nat
    BY <1>1 DEF TypeOK
  <2>5. todo' \subseteq (Position' + 1)..(at' - 1)
    BY <1>1, <2>1, <2>3, <2>4 DEF PageInv
  <2>6. \A i \in 1..(at' - 1) : i \in todo' \/ Rows[args'][i] \in Safe'
    BY <1>1, <2>1, <2>2, <2>3, <2>4 DEF PageInv
  <2> QED
    BY <1>1, <2>1, <2>3, <2>4, <2>5, <2>6 DEF PageInv, Copying
<1>6. CASE Select
  <2>1. /\ at \in 1..Last(args) /\ listing = args /\ at =< last /\ pc = "check" /\ Position \in Nat
    BY <1>1, <1>6, CheckedIsARow, PositionIsARow DEF Select
  <2>2. /\ at' = at + 1 /\ todo' = todo \cup {at}
        /\ UNCHANGED <<checkpoint, pc, args, listing, last>> /\ Position' = Position
    BY <1>6 DEF Select, disk, Position
  <2>3. at \in Nat /\ last \in Nat
    BY <1>1 DEF TypeOK
  <2>4. todo' \subseteq (Position' + 1)..(at' - 1)
    BY <1>1, <2>1, <2>2, <2>3 DEF PageInv
  <2>5. \A i \in 1..(at' - 1) : i \in todo' \/ Rows[args'][i] \in Safe'
    BY <1>1, <2>1, <2>2, <2>3 DEF PageInv
  <2> QED
    BY <1>1, <2>1, <2>2, <2>3, <2>4, <2>5 DEF PageInv, Copying
<1>7. CASE StopAtBudget \/ StartCopy
  <2>1. /\ UNCHANGED <<checkpoint, args, listing, at, last, todo>> /\ Position' = Position
        /\ pc = "check" /\ pc' = "copy"
    BY <1>7 DEF StopAtBudget, StartCopy, disk, run, Go, Position
  <2>2. at \in Nat /\ last \in Nat /\ (~stopped' => at > last)
    BY <1>1, <1>7 DEF TypeOK, StopAtBudget, StartCopy, run, Go
  <2> QED
    BY <1>1, <2>1, <2>2 DEF PageInv, Copying
<1>8. CASE AppendReceipt
  <2>1. PICK i \in todo : Oldest(i) /\ todo' = todo \ {i}
    BY <1>8 DEF AppendReceipt
  <2>2. Rows[args][i] \in Safe
    BY <1>8, <2>1 DEF AppendReceipt, ReplicaInv, CopyInv
  <2>3. /\ UNCHANGED <<checkpoint, args, listing, at, last, stopped>> /\ Position' = Position
        /\ pc = "receipt" /\ pc' = "copy"
    BY <1>8 DEF AppendReceipt, Position
  <2> QED
    BY <1>1, <2>1, <2>2, <2>3 DEF PageInv, Copying
<1>9. \/ UNCHANGED <<checkpoint, args, listing, at, last, todo, stopped>>
         /\ (pc' = "check" => pc = "check")
         /\ (Copying' => Copying)
      \/ pc' \in {"idle", "prepare", "backup", "fill", "migrate", "preflight", "list", "report"}
      \/ ListPage \/ CheckPinned \/ Select \/ StopAtBudget \/ StartCopy \/ AppendReceipt
  <2>1. CASE UNCHANGED <<checkpoint, pc, run>> \/ pc' = "idle"
    BY <2>1 DEF run, Copying
  <2>2. CASE StartRun \/ Prepared \/ StartMigration \/ CreateBackup \/ FillBackup \/ KeepBackup
             \/ Migrate \/ Preflight \/ AdvanceCursor \/ CompleteCycle \/ ReturnByteBudget
    BY <2>2 DEF StartRun, Prepared, StartMigration, CreateBackup, FillBackup, KeepBackup,
                Migrate, Preflight, AdvanceCursor, CompleteCycle, ReturnByteBudget, Go
  <2>3. CASE FetchBlock \/ PutBlock \/ PinBlock \/ PinUndecodable \/ ConfirmPin \/ PutRawData \/ PutRawMeta
    BY <2>3 DEF disk, run, Copying, FetchBlock, PutBlock, PageDone, PinBlock, PinUndecodable, ConfirmPin,
                PutRawData, PutRawMeta, Go
  <2> QED
    BY <2>1, <2>2, <2>3, QuietSteps
<1> QED
  BY <1>2, <1>3, <1>4, <1>5, <1>6, <1>7, <1>8, <1>9

\* A receipt or a confirmation is about a row that is safe, metadata about a
\* row whose bytes are stored.
LEMMA CopyNext ==
  ASSUME ReplicaInv, [Next]_vars
  PROVE  CopyInv'
<1>1. Safe \subseteq Safe' /\ rawData \subseteq rawData' /\ TypeOK /\ PageInv /\ RunInv /\ CopyInv
  BY SafeGrows DEF ReplicaInv
<1>2. CASE UNCHANGED <<pc, args, todo>>
  BY <1>1, <1>2 DEF CopyInv, Oldest
<1>3. CASE pc' \notin {"confirm", "rawmeta", "receipt"}
  BY <1>3 DEF CopyInv
<1>4. CASE PinBlock \/ ConfirmPin \/ PutRawData \/ PutRawMeta
  <2>1. Copying /\ UNCHANGED <<args, listing, todo>>
    BY <1>4 DEF Copying, PinBlock, ConfirmPin, PutRawData, PutRawMeta, run, Go
  <2>2. listing = args /\ \A i, j \in todo : Oldest(i) /\ Oldest(j) => i = j
    BY <1>1, <2>1, OldestIsARow DEF PageInv
  <2>3. CASE PinBlock
    <3>1. PICK i \in todo : Oldest(i) /\ pinned' = pinned \cup {Rows[args][i]}
      BY <2>2, <2>3 DEF PinBlock
    <3>2. Rows[args][i] \in Safe' /\ pc' = "confirm"
      BY <2>3, <3>1 DEF PinBlock, Safe, Held
    <3> QED
      BY <2>1, <2>2, <3>1, <3>2 DEF CopyInv, Oldest
  <2>4. CASE ConfirmPin
    <3>1. PICK i \in todo : Oldest(i) /\ Rows[args][i] \in pinned
      BY <2>2, <2>4 DEF ConfirmPin
    <3>2. Rows[args][i] \in Safe /\ pc' = "receipt"
      BY <2>4, <3>1 DEF ConfirmPin, Safe, Held
    <3> QED
      BY <1>1, <2>1, <2>2, <3>1, <3>2 DEF CopyInv, Oldest
  <2>5. CASE PutRawData
    <3>1. PICK i \in todo : Oldest(i) /\ rawData' = rawData \cup {Rows[args][i]}
      BY <2>2, <2>5 DEF PutRawData
    <3>2. pc' = "rawmeta"
      BY <2>5 DEF PutRawData, Go
    <3> QED
      BY <2>1, <2>2, <3>1, <3>2 DEF CopyInv, Oldest
  <2>6. CASE PutRawMeta
    <3>1. PICK i \in todo : Oldest(i) /\ rawMeta' = rawMeta \cup {Rows[args][i]}
      BY <2>2, <2>6 DEF PutRawMeta
    <3>2. Rows[args][i] \in rawData' /\ pc' = "receipt"
      BY <1>1, <2>6, <3>1 DEF PutRawMeta, CopyInv
    <3>3. Rows[args][i] \in Safe'
      BY <3>1, <3>2 DEF Safe, Held
    <3> QED
      BY <2>1, <2>2, <3>1, <3>2, <3>3 DEF CopyInv, Oldest
  <2> QED
    BY <1>4, <2>3, <2>4, <2>5, <2>6
<1>5. \/ UNCHANGED <<pc, args, todo>>
      \/ pc' \notin {"confirm", "rawmeta", "receipt"}
      \/ PinBlock \/ ConfirmPin \/ PutRawData \/ PutRawMeta
  <2>1. CASE UNCHANGED <<checkpoint, pc, run>> \/ pc' = "idle"
    BY <2>1 DEF run
  <2>2. CASE StartRun \/ Prepared \/ StartMigration \/ CreateBackup \/ FillBackup \/ KeepBackup
             \/ Migrate \/ Preflight \/ AdvanceCursor \/ CompleteCycle \/ ReturnByteBudget
    BY <2>2 DEF StartRun, Prepared, StartMigration, CreateBackup, FillBackup, KeepBackup,
                Migrate, Preflight, AdvanceCursor, CompleteCycle, ReturnByteBudget, Go
  <2>3. CASE ListPage \/ CheckPinned \/ Select \/ StopAtBudget \/ StartCopy \/ FetchBlock \/ PutBlock
             \/ PinUndecodable \/ AppendReceipt
    BY <2>3 DEF ListPage, CheckPinned, Select, StopAtBudget, StartCopy, FetchBlock, PutBlock,
                PinUndecodable, AppendReceipt, Go
  <2> QED
    BY <2>1, <2>2, <2>3, QuietSteps
<1> QED
  BY <1>2, <1>3, <1>4, <1>5

\* Null is written as the cursor of a finished run only by a complete cycle.
LEMMA CompleteNext ==
  ASSUME ReplicaInv, [Next]_vars
  PROVE  CompleteMeansHeld'
<1>1. Safe \subseteq Safe' /\ TypeOK /\ CompleteMeansHeld
  BY SafeGrows DEF ReplicaInv
<1>2. CASE UNCHANGED <<checkpoint, pc, run>>
  BY <1>1, <1>2 DEF CompleteMeansHeld, run
<1>3. CASE pc' # "report"
  BY <1>3 DEF CompleteMeansHeld
<1>4. CASE AdvanceCursor
  <2>1. checkpoint'.cursor = last /\ last \in Nat
    BY <1>1, <1>4 DEF AdvanceCursor, TypeOK
  <2> QED
    BY <2>1, ReplicaAssumption DEF CompleteMeansHeld, ReplicaAssumption
<1>5. CASE CompleteCycle
  <2>1. \A i \in 1..Last(args) : Rows[args][i] \in Safe
    BY <1>5, PageIsSafe DEF CompleteCycle
  <2>2. args' = args
    BY <1>5 DEF CompleteCycle
  <2> QED
    BY <1>1, <2>1, <2>2 DEF CompleteMeansHeld, RowsUpTo
<1>6. CASE ReturnByteBudget
  BY <1>6 DEF ReturnByteBudget, Go, run, CompleteMeansHeld
<1>7. \/ UNCHANGED <<checkpoint, pc, run>> \/ pc' # "report"
      \/ AdvanceCursor \/ CompleteCycle \/ ReturnByteBudget
  <2>1. CASE StartRun \/ Prepared \/ StartMigration \/ CreateBackup \/ FillBackup \/ KeepBackup
             \/ Migrate \/ Preflight \/ ListPage \/ StopAtBudget \/ StartCopy
    BY <2>1 DEF StartRun, Prepared, StartMigration, CreateBackup, FillBackup, KeepBackup,
                Migrate, Preflight, ListPage, StopAtBudget, StartCopy, Go
  <2>2. CASE CheckPinned \/ Select \/ FetchBlock \/ PutBlock \/ PinBlock \/ PinUndecodable \/ ConfirmPin
             \/ PutRawData \/ PutRawMeta \/ AppendReceipt
    BY <2>2 DEF CheckPinned, Select, FetchBlock, PutBlock, PinBlock, PinUndecodable, ConfirmPin, PutRawData,
                PutRawMeta, AppendReceipt, Go
  <2> QED
    BY <2>1, <2>2, QuietSteps
<1> QED
  BY <1>2, <1>3, <1>4, <1>5, <1>6, <1>7

-----------------------------------------------------------------------------
\* The inductive invariant of replicate_lake.py holds in every reachable state.
THEOREM ReplicaInvariant == Spec => []ReplicaInv
<1>1. Init => ReplicaInv
  BY InitInv
<1>2. ReplicaInv /\ [Next]_vars => ReplicaInv'
  BY TypeNext, StoreNext, CursorNext, RunNext, PageNext, CopyNext, CompleteNext DEF ReplicaInv
<1> QED
  BY <1>1, <1>2, PTL DEF Spec

\* Whatever crashes, refuses or is rolled over, the cursor of checkpoint.json
\* stands behind rows that are kept, or that somebody else let go.
THEOREM CursorIsSafe == Spec => []CursorPassesOnlyHeld
<1>1. ReplicaInv => CursorPassesOnlyHeld
  BY DEF ReplicaInv, CursorInv, CursorPassesOnlyHeld
<1> QED
  BY <1>1, ReplicaInvariant, PTL

\* A line of receipts.jsonl is about a block that is durable.
THEOREM ReceiptsAreTrue == Spec => []ReceiptMeansHeld
<1>1. ReplicaInv => ReceiptMeansHeld
  BY DEF ReplicaInv, ReceiptMeansHeld
<1> QED
  BY <1>1, ReplicaInvariant, PTL

\* The raw store shows no entry whose bytes are missing.
THEOREM RawEntriesAreComplete == Spec => []RawEntryIsComplete
<1>1. ReplicaInv => RawEntryIsComplete
  BY DEF ReplicaInv, RawEntryIsComplete
<1> QED
  BY <1>1, ReplicaInvariant, PTL

\* A batch that reports "cycle-complete" leaves a complete inventory.
THEOREM CompleteIsTrue == Spec => []CompleteMeansHeld
<1>1. ReplicaInv => CompleteMeansHeld
  BY DEF ReplicaInv
<1> QED
  BY <1>1, ReplicaInvariant, PTL

-----------------------------------------------------------------------------
(* What the checkpoint is replaced by                                       *)

\* A run migrates only a checkpoint of another listing, and not before that
\* checkpoint has a whole copy.
MigrationInv ==
  /\ pc \in {"backup", "fill", "migrate"} => checkpoint.source # args
  /\ pc \in {"backup", "fill"} => Slot \in Slots
  /\ pc = "migrate" => checkpoint = NoCheckpoint \/ backups[Slot] = "full"

\* A new checkpoint of the same inventory lies further on, or ends the cycle;
\* one of another inventory leaves a copy of the one before.
CheckpointMoves ==
  /\ checkpoint'.source = checkpoint.source =>
       checkpoint'.cursor = None \/ checkpoint'.cursor > Position
  /\ checkpoint'.source # checkpoint.source =>
       checkpoint = NoCheckpoint \/ backups[Slot] = "full"

\* No copy is written twice.
CopiesStay == \A s \in Slots : backups[s] = "full" => backups'[s] = "full"

LEMMA SlotIsNamed == TypeOK /\ checkpoint.source # args /\ args \in Snapshots => Slot \in Slots
  BY DEF TypeOK, Slot, Slots

LEMMA MigrationStep ==
  ASSUME ReplicaInv, MigrationInv, [Next]_vars
  PROVE  MigrationInv' /\ [CheckpointMoves]_checkpoint /\ CopiesStay
<1>1. TypeOK /\ PageInv /\ RunInv
  BY DEF ReplicaInv
<1> USE DEF MigrationInv, CopiesStay
<1>2. CASE StartRun \/ Fault
  BY <1>2 DEF StartRun, Fault, IdleRun, disk
<1>3. CASE Prepared \/ RefuseStaleReader \/ RefuseBackup
  BY <1>3 DEF Prepared, RefuseStaleReader, RefuseBackup, EndRun, IdleRun, Go, disk
<1>4. CASE StartMigration
  BY <1>1, <1>4, SlotIsNamed DEF StartMigration, Go, disk, run, RunInv, Slot
<1>5. CASE CreateBackup
  <2>1. /\ pc' = "fill" /\ pc = "backup" /\ backups' = [backups EXCEPT ![Slot] = "torn"]
        /\ backups[Slot] = "none" /\ UNCHANGED <<checkpoint, args>>
    BY <1>5 DEF CreateBackup, Go, run
  <2> QED
    BY <1>1, <2>1 DEF TypeOK, Slot
<1>6. CASE FillBackup
  <2>1. /\ pc' = "migrate" /\ pc = "fill" /\ backups' = [backups EXCEPT ![Slot] = "full"]
        /\ UNCHANGED <<checkpoint, args>>
    BY <1>6 DEF FillBackup, Go, run
  <2> QED
    BY <1>1, <2>1 DEF TypeOK, Slot
<1>7. CASE KeepBackup
  BY <1>7 DEF KeepBackup, Go, disk, run, Slot
<1>8. CASE Migrate
  <2>1. /\ pc = "migrate" /\ pc' = "preflight" /\ checkpoint'.source = args
        /\ UNCHANGED backups
    BY <1>8 DEF Migrate
  <2> QED
    BY <2>1 DEF CheckpointMoves
<1>9. CASE Page
  BY <1>9 DEF Page, Preflight, ListPage, RefusePage, CheckPinned, RefuseSize, Select,
              StopAtBudget, StartCopy, EndRun, IdleRun, Go, disk
<1>10. CASE Copy
  BY <1>10 DEF Copy, FetchBlock, PutBlock, PinBlock, PinUndecodable, ConfirmPin, RefusePin,
               PutRawData, PutRawMeta, AppendReceipt, EndRun, IdleRun, Go, disk
<1>11. CASE AdvanceCursor
  <2>1. /\ pc = "copy" /\ pc' \in {"list", "report"} /\ UNCHANGED backups
        /\ checkpoint' = [checkpoint EXCEPT !.cursor = last]
    BY <1>11 DEF AdvanceCursor, PageDone
  <2>2. last > Position
    BY <1>1, <2>1 DEF PageInv, Copying, TypeOK, Position
  <2>3. checkpoint'.cursor = last /\ checkpoint'.source = checkpoint.source
    BY <1>1, <2>1 DEF TypeOK
  <2> QED
    BY <2>1, <2>2, <2>3 DEF CheckpointMoves
<1>12. CASE CompleteCycle
  <2>1. /\ pc' = "report" /\ UNCHANGED backups
        /\ checkpoint' = [checkpoint EXCEPT !.cursor = None]
    BY <1>12 DEF CompleteCycle
  <2>2. checkpoint'.cursor = None /\ checkpoint'.source = checkpoint.source
    BY <1>1, <2>1 DEF TypeOK
  <2> QED
    BY <2>1, <2>2 DEF CheckpointMoves
<1>13. CASE ReturnByteBudget \/ ReportBatch
  BY <1>13 DEF ReturnByteBudget, ReportBatch, EndRun, IdleRun, Go, disk
<1>14. CASE Surroundings
  BY <1>14 DEF Surroundings, OtherPins, OtherUnpins, RollReader, RollUnit, disk, run, Slot
<1>15. CASE UNCHANGED vars
  BY <1>15 DEF vars, disk, run, Slot
<1> QED
  BY <1>2, <1>3, <1>4, <1>5, <1>6, <1>7, <1>8, <1>9, <1>10, <1>11, <1>12, <1>13, <1>14, <1>15
     DEF Next, Replicate, Prepare, EndOfPage

(* checkpoint.json only moves forward in its inventory, whatever is killed, *)
(* and it is replaced by one of another inventory, or of another form of    *)
(* cursor, only once a whole copy of it lies beside it, which then stays.   *)
THEOREM CheckpointIsNotLost ==
  Spec => [][CheckpointMoves]_checkpoint /\ [][CopiesStay]_backups
<1>1. Init => MigrationInv
  BY DEF Init, MigrationInv
<1>2. ReplicaInv /\ MigrationInv /\ [Next]_vars =>
        MigrationInv' /\ [CheckpointMoves]_checkpoint /\ [CopiesStay]_backups
  BY MigrationStep
<1> QED
  BY <1>1, <1>2, ReplicaInvariant, PTL DEF Spec
=============================================================================
