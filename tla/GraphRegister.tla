--------------------------- MODULE GraphRegister ---------------------------
(***************************************************************************)
(* What the graph-head authority promises, with no writer, witness or      *)
(* message in it: the committed heads of ONE graph form a chain that only  *)
(* grows, and each was put there by a request that expected exactly the    *)
(* head before it.                                                         *)
(***************************************************************************)
EXTENDS GraphHead, Sequences

VARIABLE chain   \* the heads ever committed, oldest first

Current == IF chain = <<>> THEN None ELSE chain[Len(chain)]

Init == chain = <<>>

CompareAndSet(r) ==
  /\ Matches(r.exp, Current)
  /\ Advances(r.head, Current)
  /\ chain' = Append(chain, r.head)

Next == \E r \in Requests : CompareAndSet(r)

Spec == Init /\ [][Next]_chain
=============================================================================
