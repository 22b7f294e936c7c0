----------------------------- MODULE LakeImport -----------------------------
(***************************************************************************)
(* What an import of a range of inventory rows into a Kubo repository       *)
(* promises: a root that links the rows is pinned before its receipt        *)
(* appears, and whatever a pinned root links stays stored.  The shipper and *)
(* the native mirror are shown to keep this promise; the reader and the     *)
(* audit rely on it.                                                        *)
(***************************************************************************)
EXTENDS Naturals

CONSTANTS
  Count,      \* rows of the inventory
  Kinds       \* the receipt directories: "car", "native"

ASSUME ImportAssumption == Count \in Nat \ {0}

VARIABLES
  blocks,     \* rows whose block the repository stores
  roots,      \* ranges with a recursively pinned root
  receipts    \* <<kind, range>> with a complete receipt

importVars == <<blocks, roots, receipts>>

Row == 0 .. Count - 1
RowRange == {r \in (0 .. Count) \X (0 .. Count) : r[1] < r[2]}

\* A receipt and its root speak of the rows from start to end, exclusive.
RowsOf(r) == r[1] .. r[2] - 1

Linked(R) == UNION {RowsOf(r) : r \in R}
-----------------------------------------------------------------------------
ImportInit == blocks = {} /\ roots = {} /\ receipts = {}

\* Blocks come and go, except those a pinned root keeps.
Store ==
  /\ blocks' \in SUBSET Row
  /\ Linked(roots) \cap blocks \subseteq blocks'
  /\ UNCHANGED <<roots, receipts>>

PinRange(r) ==
  /\ roots' = roots \cup {r}
  /\ blocks' = blocks \cup RowsOf(r)
  /\ UNCHANGED receipts

WriteReceipt(k, r) ==
  /\ r \in roots
  /\ receipts' = receipts \cup {<<k, r>>}
  /\ UNCHANGED <<blocks, roots>>

ImportNext ==
  \/ Store
  \/ \E r \in RowRange : PinRange(r)
  \/ \E k \in Kinds, r \in RowRange : WriteReceipt(k, r)

ImportSpec == ImportInit /\ [][ImportNext]_importVars
=============================================================================
