----------------------------- MODULE LargeImport -----------------------------
(***************************************************************************)
(* import_large_lake_batch.py and the program it runs for every row,        *)
(* import_large_lake_recovery.py: the recovery CARs of an archive become    *)
(* the original blocks again, each under a pin of its own, in a Kubo that   *)
(* collects garbage and whose pins another service may release.             *)
(***************************************************************************)
EXTENDS Naturals, FiniteSets

CONSTANTS
  LargeCount,   \* --expected-large-count
  MaxPerRun,    \* --max-new
  MaxStops,     \* bound: runs that are killed
  MaxLoosened,  \* bound: pins of originals that another service releases
  MaxSweeps     \* bound: collections

ASSUME LargeImportAssumption ==
  /\ LargeCount \in Nat \ {0} /\ MaxPerRun \in Nat \ {0}
  /\ MaxStops \in Nat /\ MaxLoosened \in Nat /\ MaxSweeps \in Nat

VARIABLES
  archiveCar,   \* row -> its CAR in the archive: "none", "torn", "whole"
  archiveReceipts, \* rows with a receipt there
  rootPins,     \* rows whose recovery root is pinned
  originals,    \* rows whose original block is stored
  directPins,   \*   and pinned directly
  imports,      \* rows with an import receipt
  icursor,      \* checkpoint.json
  ipc,          \* the step of the running batch
  ifresh,       \* rows it has imported
  loosened,     \* history: originals that another service unpinned
  stops, sweeps

filesVars == <<archiveCar, archiveReceipts>>
largeImportVars == <<filesVars, rootPins, originals, directPins, imports,
                     icursor, ipc, ifresh, loosened, stops, sweeps>>

LargeRow == 1 .. LargeCount

\* The row the batch is at.
Irow == icursor + 1

LargeImportInit ==
  /\ archiveCar = [i \in LargeRow |-> "none"] /\ archiveReceipts = {}
  /\ rootPins = {} /\ originals = {} /\ directPins = {} /\ imports = {}
  /\ icursor = 0 /\ ipc = "idle" /\ ifresh = {} /\ loosened = {}
  /\ stops = 0 /\ sweeps = 0
-----------------------------------------------------------------------------
\* Somebody copies the CARs and their receipts into the archive, in any order.
ArchiveGrows(i) ==
  /\ \/ /\ archiveCar[i] # "whole"
        /\ archiveCar' = [archiveCar EXCEPT ![i] = IF @ = "none" THEN "torn" ELSE "whole"]
        /\ UNCHANGED archiveReceipts
     \/ /\ i \notin archiveReceipts
        /\ archiveReceipts' = archiveReceipts \cup {i} /\ UNCHANGED archiveCar
  /\ UNCHANGED <<rootPins, originals, directPins, imports, icursor, ipc,
                 ifresh, loosened, stops, sweeps>>

ImporterStep(from, to) ==
  /\ ipc = from /\ ipc' = to
  /\ UNCHANGED <<filesVars, loosened, stops, sweeps>>

ImportStart ==
  /\ Irow <= LargeCount /\ ImporterStep("idle", "row")
  /\ ifresh' = {}
  /\ UNCHANGED <<rootPins, originals, directPins, imports, icursor>>

\* Mutant: a receipt that is there is refused.
ImportRowAfresh ==
  /\ ipc = "row"
  /\ ImporterStep("row", IF \/ Irow \in imports \/ archiveCar[Irow] # "whole"
                            \/ Irow \notin archiveReceipts
                           THEN "idle" ELSE "root")
  /\ UNCHANGED <<rootPins, originals, directPins, imports, icursor, ifresh>>

\* A receipt of an earlier run is good while the original is pinned; without
\* its two files the row is waited for; the child refuses a CAR that differs.
ImportRow ==
  /\ ipc = "row"
  /\ LET there == archiveCar[Irow] = "whole" /\ Irow \in archiveReceipts IN
       IF Irow \in imports
         THEN ImporterStep("row", IF Irow \in directPins THEN "advance" ELSE "idle")
         ELSE ImporterStep("row", IF there THEN "root" ELSE "idle")
  /\ UNCHANGED <<rootPins, originals, directPins, imports, icursor, ifresh>>

\* Mutant: the import of the CAR does not pin its root.
LoadRoot ==
  /\ ImporterStep("root", "put")
  /\ UNCHANGED <<rootPins, originals, directPins, imports, icursor, ifresh>>

PinRoot ==
  /\ ImporterStep("root", "put")
  /\ rootPins' = rootPins \cup {Irow}
  /\ UNCHANGED <<originals, directPins, imports, icursor, ifresh>>

PutOriginal ==
  /\ ImporterStep("put", "pin")
  /\ originals' = originals \cup {Irow}
  /\ UNCHANGED <<rootPins, directPins, imports, icursor, ifresh>>

\* The original may have been collected before it is pinned.
PinOriginal ==
  /\ \/ Irow \in originals /\ ImporterStep("pin", "stat")
     \/ Irow \notin originals /\ ImporterStep("pin", "idle")
  /\ directPins' = directPins \cup ({Irow} \cap originals)
  /\ UNCHANGED <<rootPins, originals, imports, icursor, ifresh>>

CheckOriginal ==
  /\ ImporterStep("stat", IF Irow \in originals \cap directPins
                            THEN "receipt" ELSE "idle")
  /\ UNCHANGED <<rootPins, originals, directPins, imports, icursor, ifresh>>

WriteImport ==
  /\ ImporterStep("receipt", "advance")
  /\ imports' = imports \cup {Irow} /\ ifresh' = ifresh \cup {Irow}
  /\ UNCHANGED <<rootPins, originals, directPins, icursor>>

AdvanceCursor ==
  /\ icursor' = icursor + 1
  /\ ImporterStep("advance",
       IF icursor' < LargeCount /\ Cardinality(ifresh) < MaxPerRun
         THEN "row" ELSE "idle")
  /\ UNCHANGED <<rootPins, originals, directPins, imports, ifresh>>

ImporterDies ==
  /\ ipc # "idle" /\ stops < MaxStops
  /\ ipc' = "idle" /\ stops' = stops + 1
  /\ UNCHANGED <<filesVars, rootPins, originals, directPins, imports, icursor,
                 ifresh, loosened, sweeps>>

\* Another service on the importer's Kubo, and its collector.
Loosen(i) ==
  /\ i \in directPins /\ Cardinality(loosened) < MaxLoosened
  /\ directPins' = directPins \ {i} /\ loosened' = loosened \cup {i}
  /\ UNCHANGED <<filesVars, rootPins, originals, imports, icursor, ipc,
                 ifresh, stops, sweeps>>

Sweep ==
  /\ sweeps < MaxSweeps /\ ~(originals \subseteq directPins)
  /\ originals' = originals \cap directPins /\ sweeps' = sweeps + 1
  /\ UNCHANGED <<filesVars, rootPins, directPins, imports, icursor, ipc,
                 ifresh, loosened, stops>>

Importer ==
  \/ ImportStart \/ ImportRow \/ PinRoot \/ PutOriginal \/ PinOriginal
  \/ CheckOriginal \/ WriteImport \/ AdvanceCursor

Archive == \E i \in LargeRow : ArchiveGrows(i)

LargeImportNext ==
  \/ Importer \/ Archive \/ ImporterDies \/ Sweep
  \/ \E i \in LargeRow : Loosen(i)

LargeImportSpec == LargeImportInit /\ [][LargeImportNext]_largeImportVars

LargeImportFairSpec ==
  LargeImportSpec /\ WF_largeImportVars(Importer) /\ WF_largeImportVars(Archive)
-----------------------------------------------------------------------------
(* The checkpoint passes only rows with an import receipt, and such a row   *)
(* is kept: its recovery root is pinned and the original stored under a pin *)
(* of its own, unless another service took that pin away.                   *)
ImportedIsKept ==
  /\ 1 .. icursor \subseteq imports
  /\ \A i \in imports :
       i \in rootPins /\ (i \in originals \cap directPins \/ i \in loosened)

(* When nothing dies any more, every row of the archive is imported; unless *)
(* the pin of one was taken away between its receipt and the checkpoint,    *)
(* which every later run refuses.                                           *)
LargeImportEnds ==
  <>(icursor = LargeCount) \/ <>[](Irow \in imports \ directPins)
=============================================================================
