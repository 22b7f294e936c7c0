---------------------------- MODULE BlockMirror ----------------------------
(***************************************************************************)
(* The second custodian (deploy/block_mirror.cljk) beside the entrance it  *)
(* follows: round after round it lists what one signer holds at the        *)
(* source, copies what it lacks over libp2p, releases what the source no   *)
(* longer lists, and copies heads with a higher seq.                       *)
(*                                                                         *)
(* The mirror is the only writer of its own store and awaits each of its   *)
(* children, so what it holds is one set; what moves under it is the       *)
(* source.                                                                 *)
(***************************************************************************)
EXTENDS BlockIngest

CONSTANTS
  Mirrored   \* the signer that is mirrored

ASSUME MirrorAssumption == Mirrored \in Signers

VARIABLES
  mheld,    \* what the mirror holds for the signer
  mheads,   \* name -> the head in the mirror's heads file
  round,    \* the phase of the round
  listed,   \* the listing read so far
  todo,     \* the blocks still to copy
  drop,     \* the blocks still to release
  gone      \* history: what was not held at the source at some instant of the round

mirrorVars == <<mheld, mheads, round, listed, todo, drop, gone>>
vars == <<ingestVars, mirrorVars>>

-----------------------------------------------------------------------------
TypeOK ==
  /\ IngestTypeOK
  /\ mheld \subseteq Cids
  /\ mheads \in [Names -> Heads]
  /\ round \in {"idle", "raw", "dag", "copy", "release", "heads"}
  /\ listed \subseteq Cids /\ todo \subseteq Cids /\ drop \subseteq Cids
  /\ gone \subseteq Cids

Init ==
  /\ IngestInit
  /\ mheld = {} /\ mheads = [n \in Names |-> NoHead]
  /\ round = "idle" /\ listed = {} /\ todo = {} /\ drop = {} /\ gone = {}

Source == held[Mirrored]

StartRound ==
  /\ round = "idle"
  /\ round' = "raw" /\ gone' = Cids \ Source
  /\ UNCHANGED <<ingestVars, mheld, mheads, listed, todo, drop>>

\* GET /v1/holds at the source: `files ls' for the raw holds, then the holds
\* file for the others; what it could not read it leaves out.
ListRaw ==
  /\ round = "raw"
  /\ listed' \in ReadSet(Source \cap Raw)
  /\ round' = "dag"
  /\ UNCHANGED <<ingestVars, mheld, mheads, todo, drop, gone>>

\* The mirror's own holds are listed by the same function, and `plan' compares
\* the two listings.
ListDag ==
  /\ round = "dag"
  /\ \E dags \in ReadSet(Source \cap Dag),
        mraws \in ReadSet(mheld \cap Raw), mdags \in ReadSet(mheld \cap Dag) :
       LET source == listed \cup dags
           local == mraws \cup mdags
       IN todo' = source \ local /\ drop' = local \ source
  /\ round' = "copy" /\ listed' = {}
  /\ UNCHANGED <<ingestVars, mheld, mheads, gone>>

\* Mutant: the status of the listing is not looked at, and an error has no CIDs.
RoundFailsUnchecked ==
  /\ UNCHANGED <<ingestVars, mheld, mheads>>
  /\ listed' = {} /\ todo' = {}
  /\ \/ round # "idle" /\ round' = "idle" /\ drop' = {} /\ gone' = {}
     \/ round \in {"raw", "dag"} /\ round' = "copy" /\ drop' = mheld /\ UNCHANGED gone

\* The round ends here: the source does not answer or answers an error, or the
\* mirror dies and starts again.
RoundFails ==
  /\ round # "idle"
  /\ round' = "idle"
  /\ listed' = {} /\ todo' = {} /\ drop' = {} /\ gone' = {}
  /\ UNCHANGED <<ingestVars, mheld, mheads>>

\* The source's Kubo still has the bytes to send.  A dag-cbor hold is a line of
\* the mirror's own holds file, written anew from what can be read of it.
Copy(c) ==
  /\ round = "copy" /\ c \in todo \cap blocks
  /\ \/ c \in Raw /\ mheld' = mheld \cup {c}
     \/ /\ c \in Dag
        /\ \E own \in ReadSet(mheld \cap Dag) : mheld' = (mheld \cap Raw) \cup own \cup {c}
  /\ todo' = todo \ {c}
  /\ UNCHANGED <<ingestVars, mheads, round, listed, drop, gone>>

\* The fetch times out, also after the source was dialled again.
CopyFails(c) ==
  /\ round = "copy" /\ c \in todo
  /\ todo' = todo \ {c}
  /\ UNCHANGED <<ingestVars, mheld, mheads, round, listed, drop, gone>>

\* Everything was tried, or the free-space reserve is reached.
StartRelease ==
  /\ round = "copy"
  /\ todo' = {} /\ round' = "release"
  /\ UNCHANGED <<ingestVars, mheld, mheads, listed, drop, gone>>

Release(c) ==
  /\ round = "release" /\ c \in drop
  /\ \/ c \in Raw /\ mheld' \in {mheld \ {c}, mheld}
     \/ /\ c \in Dag
        /\ \E own \in ReadSet(mheld \cap Dag) : mheld' = (mheld \cap Raw) \cup (own \ {c})
  /\ drop' = drop \ {c}
  /\ UNCHANGED <<ingestVars, mheads, round, listed, todo, gone>>

StartHeads ==
  /\ round = "release" /\ drop = {}
  /\ round' = "heads" /\ gone' = {}
  /\ UNCHANGED <<ingestVars, mheld, mheads, listed, todo, drop>>

\* The names whose seq is higher at the source are written one by one, each into
\* what can be read of the file then: a read that fails leaves the names written
\* since.
CopyHeads ==
  /\ round = "heads"
  /\ \E remote \in ReadAll(heads[Mirrored]), local \in ReadAll(mheads) :
       LET newer == {n \in Names : remote[n].seq > local[n].seq}
       IN \E left \in {Names} \cup IF ReadsFail THEN SUBSET newer \ {{}} ELSE {} :
            mheads' = [n \in Names |-> IF n \notin left THEN NoHead
                                       ELSE IF n \in newer THEN remote[n] ELSE mheads[n]]
  /\ round' = "idle"
  /\ UNCHANGED <<ingestVars, mheld, listed, todo, drop, gone>>

-----------------------------------------------------------------------------
Mirror ==
  \/ StartRound \/ ListRaw \/ ListDag
  \/ (\E c \in Cids : Copy(c)) \/ (\E c \in Cids : CopyFails(c)) \/ StartRelease
  \/ (\E c \in Cids : Release(c)) \/ StartHeads \/ CopyHeads \/ RoundFails

\* A step of the source; the history notes what it no longer holds.
SourceStep ==
  /\ IngestNext
  /\ gone' = IF round \in {"idle", "heads"} THEN gone ELSE gone \cup (Cids \ held'[Mirrored])
  /\ UNCHANGED <<mheld, mheads, round, listed, todo, drop>>

Next == SourceStep \/ Mirror

Spec == Init /\ [][Next]_vars

-----------------------------------------------------------------------------
(* Properties                                                              *)

\* What is known of the source as a round goes on: whatever the listing lacks,
\* the source did not hold at some instant since the round began.  It is what
\* makes the releases at the end of the round safe.
MirrorInv ==
  /\ TypeOK
  /\ round \in {"raw", "dag", "copy", "release"} => Cids \ Source \subseteq gone
  /\ round = "dag" => Raw \ listed \subseteq gone
  /\ round \in {"copy", "release"} => drop \subseteq gone

\* The header: releases follow the source, and a source that fails releases
\* nothing.  A block the source holds all through a round is not released in
\* it, although the listing is read in two halves while the source changes -
\* provided no look fails (ReadsFail = FALSE).
ReleaseFollowsSource == [][mheld \ mheld' \subseteq gone]_mheld
=============================================================================
