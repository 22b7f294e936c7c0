----------------------------- MODULE LakeAudit -----------------------------
(***************************************************************************)
(* audit_lake.py: how much of the inventory a node holds.  The report is    *)
(* put together from several looks at a repository that is being filled     *)
(* meanwhile: the names of the receipts, two or three pin listings, the     *)
(* roots, and the raw store.                                                *)
(***************************************************************************)
EXTENDS LakeNode

CONSTANTS
  AuditModes    \* "receipts" (with the receipt directories), "pins" (without)

ASSUME AuditAssumption == AuditModes \subseteq {"receipts", "pins"}

VARIABLES
  amode,        \* the kind of report the audit makes
  apc,          \* its step
  names,        \* the receipts whose names it has frozen
  recursive,    \* ranges whose root was listed as pinned,
  rootRows,     \*   and recovery roots, by their row
  listed,       \* rows listed as pinned directly
  covered,      \* rows of the report
  unpinned,     \* receipts reported without a pinned root
  keptBefore,   \* history: rows kept when the audit began
  receiptedBefore \* history: receipts of that moment

auditVars == <<amode, apc, names, recursive, rootRows, listed, covered,
               unpinned, keptBefore, receiptedBefore>>

AuditInit ==
  /\ NodeInit
  /\ amode \in AuditModes /\ apc = "idle"
  /\ names = {} /\ recursive = {} /\ rootRows = {} /\ listed = {}
  /\ covered = {} /\ unpinned = {} /\ keptBefore = {} /\ receiptedBefore = {}

\* The names are frozen before the pins are listed: a receipt appears only
\* after its root is pinned.
FreezeNames ==
  /\ apc = "idle" /\ amode = "receipts"
  /\ names' = receipts
  /\ receiptedBefore' = receipts /\ keptBefore' = Kept
  /\ apc' = "recursive"
  /\ UNCHANGED <<nodeVars, amode, recursive, rootRows, listed, covered, unpinned>>

ListRecursive ==
  /\ apc = "recursive"
  /\ recursive' = roots /\ rootRows' = recovered
  /\ apc' = IF amode = "receipts" THEN "direct" ELSE "indirect"
  /\ UNCHANGED <<nodeVars, amode, names, listed, covered, unpinned, keptBefore,
                 receiptedBefore>>

\* With receipts the recursive pins are listed first, without them the
\* direct ones.
ListDirectPins ==
  /\ \/ apc = "direct" /\ amode = "receipts" /\ apc' = "count"
        /\ UNCHANGED keptBefore
     \/ apc = "idle" /\ amode = "pins" /\ apc' = "recursive"
        /\ keptBefore' = Kept
  /\ listed' = direct
  /\ UNCHANGED <<nodeVars, amode, names, recursive, rootRows, covered,
                 unpinned, receiptedBefore>>

HasRoot(rc) ==
  IF rc[1] = "large" THEN rc[2][1] \in rootRows ELSE rc[2] \in recursive

Rooted(rc) ==
  IF rc[1] = "large" THEN RowsOf(rc[2]) \cap listed ELSE RowsOf(rc[2])

\* Mutant: the receipts are listed after the pins.
CountLateReceipts ==
  /\ apc = "count"
  /\ LET rooted == {rc \in receipts : HasRoot(rc)} IN
       /\ covered' = (UNION {Rooted(rc) : rc \in rooted}) \cup listed \cup raw
       /\ unpinned' = receipts \ rooted
  /\ apc' = "done"
  /\ UNCHANGED <<nodeVars, amode, names, recursive, rootRows, listed,
                 keptBefore, receiptedBefore>>

\* audit_receipts; RootGone: a root that was listed is read back (`dag get
\* --offline'), and may have been released and collected since.
CountReceipts ==
  /\ apc = "count"
  /\ LET rooted == {rc \in names : HasRoot(rc)} IN
       /\ covered' = (UNION {Rooted(rc) : rc \in rooted}) \cup listed \cup raw
       /\ unpinned' = names \ rooted
  /\ apc' = "done"
  /\ UNCHANGED <<nodeVars, amode, names, recursive, rootRows, listed,
                 keptBefore, receiptedBefore>>

RootGone ==
  /\ apc = "count"
  /\ \E rc \in names : rc[1] # "large" /\ HasRoot(rc) /\ rc[2] \notin roots
  /\ apc' = "refused"
  /\ UNCHANGED <<nodeVars, amode, names, recursive, rootRows, listed, covered,
                 unpinned, keptBefore, receiptedBefore>>

\* audit_inventory: direct, recursive and indirect pins, and the raw store.
CountPins ==
  /\ apc = "indirect"
  /\ covered' = listed \cup Linked(roots) \cup raw
  /\ apc' = "done"
  /\ UNCHANGED <<nodeVars, amode, names, recursive, rootRows, listed, unpinned,
                 keptBefore, receiptedBefore>>

Audit ==
  \/ FreezeNames \/ ListRecursive \/ ListDirectPins \/ CountReceipts \/ RootGone
  \/ CountPins

AuditNext == Audit \/ (NodeNext /\ UNCHANGED auditVars)

AuditSpec == AuditInit /\ [][AuditNext]_<<nodeVars, auditVars>>
-----------------------------------------------------------------------------
(* A report speaks the truth about a repository that changed while it was   *)
(* made.  No root is called unpinned, and no row is counted, but by what    *)
(* another service let go; and what was held before the audit began is in   *)
(* the report: by receipts or direct pins in the one mode, by any pin in    *)
(* the other.                                                               *)
ReportIsTrue ==
  apc = "done" =>
    /\ \A rc \in unpinned : RowsOf(rc[2]) \subseteq released
    /\ covered \subseteq Kept \cup released
    /\ amode = "receipts" =>
         \A rc \in receiptedBefore : RowsOf(rc[2]) \subseteq covered \cup released
    /\ amode = "pins" => keptBefore \subseteq covered \cup released
=============================================================================
