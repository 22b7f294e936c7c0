----------------------------- MODULE GraphHead -----------------------------
(***************************************************************************)
(* The pure part of a graph-head write (`decide' in                        *)
(* deploy/yataverse_writer.cljk).  A signed head record is abstracted to   *)
(* its head-key, a sequence and a value; a request is the head to commit   *)
(* and the head its sender expects to be current.                          *)
(***************************************************************************)
EXTENDS Naturals

CONSTANTS
  Values,    \* the CIDs a head can name
  Requests,  \* the writes clients may ask for: records [exp, head]
  None       \* nil: no head, no expectation, no document

Heads == [sequence: Nat, value: Values]

\* `expected' is null, or names a sequence, with or without a value.
Expectations == {None} \cup [sequence: Nat, value: Values \cup {None}]

ASSUME RequestsAssumption ==
  /\ None \notin Values
  /\ None \notin Heads
  /\ None \notin [sequence: Nat, value: Values \cup {None}]
  /\ Requests \subseteq [exp: Expectations, head: Heads]

\* The compare of the compare-and-set: null expects that there is no head; a
\* sequence must be the current one and a value, when given, must match too.
Matches(exp, cur) ==
  \/ exp = None /\ cur = None
  \/ /\ exp # None /\ cur # None
     /\ exp.sequence = cur.sequence
     /\ exp.value \in {None, cur.value}

\* The sequence only has to move forward, by any amount.
Advances(head, cur) == cur # None => head.sequence > cur.sequence
=============================================================================
