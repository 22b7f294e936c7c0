---------------------------- MODULE LakeReadback ----------------------------
(***************************************************************************)
(* verify_lake_leaves.py: the offline read-back of every row.  A timer      *)
(* starts bounded batches, one at a time (flock); what a batch counted      *)
(* survives only in the checkpoint it saves at its end, while the node is   *)
(* being filled, collected, and the batch may be killed.                    *)
(***************************************************************************)
EXTENDS LakeNode

CONSTANTS
  GapModes,     \* whether the read-back has --scan-gaps
  MaxRows       \* --max-rows of a batch

ASSUME ReadbackAssumption ==
  GapModes \subseteq BOOLEAN /\ MaxRows \in Nat \ {0}

VARIABLES
  gaps,         \* --scan-gaps
  ledger,       \* the checkpoint: cursor, present_rows, missing_rows
  rpc,          \* the step of the running batch
  scan          \* its counters

scanVars == <<gaps, ledger, rpc, scan>>

FreshState == [cursor |-> 0, present |-> 0, missing |-> 0]

ReadbackInit ==
  /\ NodeInit
  /\ gaps \in GapModes
  /\ ledger = FreshState /\ scan = FreshState
  /\ rpc = "idle"

\* load_state refuses a checkpoint whose counters do not add up.
BatchStart ==
  /\ rpc = "idle" /\ ledger.cursor # Count
  /\ ledger.present + ledger.missing = ledger.cursor
  /\ scan' = ledger
  /\ rpc' = "read"
  /\ UNCHANGED <<nodeVars, gaps, ledger>>

\* A row that is not there is counted as missing or ends the batch.
ReadRow ==
  /\ rpc = "read" /\ scan.cursor < Count /\ scan.cursor < ledger.cursor + MaxRows
  /\ \/ /\ scan.cursor \in Readable
        /\ scan' = [scan EXCEPT !.cursor = @ + 1, !.present = @ + 1]
        /\ UNCHANGED rpc
     \/ /\ scan.cursor \notin Readable /\ gaps
        /\ scan' = [scan EXCEPT !.cursor = @ + 1, !.missing = @ + 1]
        /\ UNCHANGED rpc
     \/ /\ scan.cursor \notin Readable /\ ~gaps
        /\ rpc' = "save"
        /\ UNCHANGED scan
  /\ UNCHANGED <<nodeVars, gaps, ledger>>

\* Mutant: --max-bytes may stop a batch before its first row.
BatchFullAtOnce ==
  /\ rpc = "read"
  /\ rpc' = "save"
  /\ UNCHANGED <<nodeVars, gaps, ledger, scan>>

\* --max-rows or --max-bytes is reached (never by the first row), or the end.
BatchFull ==
  /\ rpc = "read" /\ scan.cursor > ledger.cursor
  /\ rpc' = "save"
  /\ UNCHANGED <<nodeVars, gaps, ledger, scan>>

SaveState ==
  /\ rpc = "save"
  /\ ledger' = scan
  /\ rpc' = "idle"
  /\ UNCHANGED <<nodeVars, gaps, scan>>

ReadbackDies ==
  /\ rpc # "idle" /\ kills < MaxKills
  /\ rpc' = "idle" /\ kills' = kills + 1
  /\ UNCHANGED <<keptVars, nativeVars, stamps, clock, released, gaps, ledger, scan>>

Readback == BatchStart \/ ReadRow \/ BatchFull \/ SaveState

ReadbackNext ==
  \/ Readback \/ ReadbackDies
  \/ NodeNext /\ UNCHANGED scanVars

ReadbackSpec ==
  ReadbackInit /\ [][ReadbackNext]_<<nodeVars, scanVars>>

ReadbackFairSpec == ReadbackSpec /\ WF_<<nodeVars, scanVars>>(Readback)
-----------------------------------------------------------------------------
(* Once every row stays readable, the read-back comes to the end of the     *)
(* inventory, whatever was missing or killed before: and then, if it stops  *)
(* at gaps, it has counted no row as missing.                               *)
ReadbackEnds ==
  <>[](Row \subseteq Readable) =>
    <>(ledger.cursor = Count /\ (gaps \/ ledger.missing = 0))
=============================================================================
