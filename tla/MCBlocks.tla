------------------------------ MODULE MCBlocks ------------------------------
(***************************************************************************)
(* One run for the two questions about blocks.  Either the entrance runs    *)
(* alone, with two signers on three connections - one more than its slots - *)
(* of which at most two carry a request when one is the PUT of a head, or   *)
(* the mirror follows it, with its signer on two connections that both      *)
(* carry blocks or both carry heads.                                        *)
(***************************************************************************)
EXTENDS BlockMirror, TLC

VARIABLE alone

Busy == {q \in Requests : req'[q].pc # "free"}
IsHead(q) == req'[q].name # None

BlocksInit == Init /\ alone \in BOOLEAN

BlocksNext ==
  /\ UNCHANGED alone
  /\ IF alone
       THEN /\ IngestNext /\ UNCHANGED mirrorVars
            /\ \A q \in Busy : IsHead(q) => req'[q].seq = 1 /\ Cardinality(Busy) <= 2
       ELSE /\ Next /\ Cardinality(Busy) <= 2
            /\ \A q, p \in Busy : req'[q].signer = Mirrored /\ (IsHead(q) <=> IsHead(p))

BlocksSpec == BlocksInit /\ [][BlocksNext]_<<vars, alone>>

ConnectionsAlike == Permutations(Requests)
=============================================================================
