---------------------------- MODULE BlockIngest ----------------------------
(***************************************************************************)
(* The block entrance (deploy/block_ingest.cljk): signed PUTs and DELETEs  *)
(* of content-addressed blocks and PUTs of heads, served concurrently by   *)
(* one Node process over a Kubo it drives with child processes.  The code  *)
(* between two awaited children is one step; what a child does to Kubo is  *)
(* another.                                                                *)
(*                                                                         *)
(* A raw block is held by an MFS entry of its signer, a dag-cbor block by  *)
(* an entry in the signer's holds file plus one direct pin shared by all   *)
(* signers.  Kubo itself is external: blocks, pins and its collector are   *)
(* modelled as the code relies on them.  Every request is well formed and  *)
(* authorised, every body hashes to its CID; refusals change no state.     *)
(*                                                                         *)
(* The code takes a look that fails for one that finds nothing: `files     *)
(* stat', `files ls', and every read of a holds file or a heads file.      *)
(***************************************************************************)
EXTENDS Naturals, FiniteSets

CONSTANTS
  Signers,   \* the did:keys on --allow
  Raw, Dag,  \* the CIDs with codec raw and with codec dag-cbor
  Names,     \* the names of heads
  MaxSeq,    \* bound on the seq of a head a client asks for
  Requests,  \* the connections that carry requests
  MaxPuts,   \* --max-concurrent-puts (four)
  ReadsFail, \* whether `files ls' and reads of holds and heads files may fail
  None

Cids == Raw \cup Dag
NoHead == [cid |-> None, seq |-> 0]
Heads == {NoHead} \cup [cid: Cids, seq: Nat \ {0}]

ASSUME IngestAssumption ==
  /\ Raw \cap Dag = {}
  /\ None \notin Cids
  /\ MaxSeq \in Nat /\ MaxPuts \in Nat \ {0}
  /\ IsFiniteSet(Requests)
  /\ ReadsFail \in BOOLEAN

VARIABLES
  blocks,    \* Kubo: the blocks it stores
  pins,      \* Kubo: the dag-cbor blocks pinned directly
  held,      \* signer -> what it holds: MFS entries and holds-file entries
  heads,     \* signer -> name -> the head kept in its heads file
  req,       \* connection -> the request it carries, or Free
  inflight   \* the PUTs that are counted as running

ingestVars == <<blocks, pins, held, heads, req, inflight>>

-----------------------------------------------------------------------------
PutPhases == {"body", "stat", "put", "hold", "record", "headstat"}
DeletePhases == {"held", "rm", "unpin"}

Free == [pc |-> "free", signer |-> None, cid |-> None, name |-> None, seq |-> 0,
         seen |-> 0]

\* A request: its phase, its signer and CID; for the PUT of a head (name is not
\* None) the name, the new seq, and the seq of the head it saw.
RequestState ==
  [pc: {"free"} \cup PutPhases \cup DeletePhases, signer: {None} \cup Signers,
   cid: {None} \cup Cids, name: {None} \cup Names, seq: Nat, seen: Nat]

IngestTypeOK ==
  /\ blocks \subseteq Cids
  /\ pins \subseteq Dag
  /\ held \in [Signers -> SUBSET Cids]
  /\ heads \in [Signers -> [Names -> Heads]]
  /\ req \in [Requests -> RequestState]
  /\ inflight \in 0..MaxPuts

IngestInit ==
  /\ blocks = {} /\ pins = {}
  /\ held = [s \in Signers |-> {}]
  /\ heads = [s \in Signers |-> [n \in Names |-> NoHead]]
  /\ req = [q \in Requests |-> Free]
  /\ inflight = 0

Held(q) == req[q].cid \in held[req[q].signer]

\* What `held?' may say: `files stat' answers nonzero for every failure, and an
\* unread holds file holds nothing.
Looks(q) == {Held(q)} \cup IF ReadsFail \/ req[q].cid \in Raw THEN {FALSE} ELSE {}

\* What `read-set' and `files ls' may make of these entries, and `read-all' of a
\* heads file: a read that fails is an empty one.
ReadSet(entries) == {entries} \cup IF ReadsFail THEN {{}} ELSE {}
ReadAll(file) == {file} \cup IF ReadsFail THEN {[n \in Names |-> NoHead]} ELSE {}

Goto(q, pc) == req' = [req EXCEPT ![q].pc = pc]

\* The reply ends a request; the PUT of a head and of a block free their slot.
Answer(q) ==
  /\ req' = [req EXCEPT ![q] = Free]
  /\ inflight' = IF req[q].pc \in PutPhases THEN inflight - 1 ELSE inflight

-----------------------------------------------------------------------------
(* PUT /v1/blocks/<cid>                                                    *)

\* A PUT past the limit is refused at once; another takes a slot before its
\* body is read.
AcceptPut(q) ==
  /\ req[q].pc = "free" /\ inflight < MaxPuts
  /\ \E s \in Signers, c \in Cids :
       req' = [req EXCEPT ![q] = [Free EXCEPT !.pc = "body", !.signer = s, !.cid = c]]
  /\ inflight' = inflight + 1
  /\ UNCHANGED <<blocks, pins, held, heads>>

\* Mutant: a body that fails keeps its slot.
BodyFailsCounted(q) ==
  /\ req[q].pc = "body"
  /\ req' = [req EXCEPT ![q] = Free]
  /\ UNCHANGED <<blocks, pins, held, heads, inflight>>

\* The body is too large, or the connection fails.
BodyFails(q) ==
  /\ req[q].pc = "body"
  /\ Answer(q)
  /\ UNCHANGED <<blocks, pins, held, heads>>

\* `held?' asks Kubo about a raw block and reads the holds file for another; a
\* block it does not find is put, and held, again.
Body(q) ==
  /\ req[q].pc = "body" /\ req[q].name = None
  /\ IF req[q].cid \in Raw
     THEN Goto(q, "stat") /\ UNCHANGED inflight
     ELSE \E found \in Looks(q) :
            IF found THEN Answer(q) ELSE Goto(q, "put") /\ UNCHANGED inflight
  /\ UNCHANGED <<blocks, pins, held, heads>>

Stat(q) ==
  /\ req[q].pc = "stat"
  /\ \E found \in Looks(q) :
       IF found THEN Answer(q) ELSE Goto(q, "put") /\ UNCHANGED inflight
  /\ UNCHANGED <<blocks, pins, held, heads>>

\* `block put' stores the bytes; nothing keeps them yet.
BlockPut(q) ==
  /\ req[q].pc = "put"
  /\ blocks' = blocks \cup {req[q].cid}
  /\ Goto(q, "hold")
  /\ UNCHANGED <<pins, held, heads, inflight>>

\* `files cp' of a block Kubo stores; "already has entry" counts as held.
HoldRaw(q) ==
  /\ req[q].pc = "hold" /\ req[q].cid \in Raw \cap blocks
  /\ held' = [held EXCEPT ![req[q].signer] = @ \cup {req[q].cid}]
  /\ Answer(q)
  /\ UNCHANGED <<blocks, pins, heads>>

\* `pin add' of a block Kubo stores, and the entry once that child is done.
PinAdd(q) ==
  /\ req[q].pc = "hold" /\ req[q].cid \in Dag \cap blocks
  /\ pins' = pins \cup {req[q].cid}
  /\ Goto(q, "record")
  /\ UNCHANGED <<blocks, held, heads, inflight>>

\* `add!' writes the file anew from what it could read of it.
Record(q) ==
  /\ req[q].pc = "record"
  /\ \E own \in ReadSet(held[req[q].signer] \cap Dag) :
       held' = [held EXCEPT ![req[q].signer] = (@ \cap Raw) \cup own \cup {req[q].cid}]
  /\ Answer(q)
  /\ UNCHANGED <<blocks, pins, heads>>

\* `block put', `files cp' or `pin add' fails: 503.
PutFails(q) ==
  /\ req[q].pc \in {"put", "hold"}
  /\ Answer(q)
  /\ UNCHANGED <<blocks, pins, held, heads>>

-----------------------------------------------------------------------------
(* DELETE /v1/blocks/<cid>                                                 *)

\* For a dag-cbor block the entry is removed, and the need for its pin
\* decided, before anything is awaited; the other signers' files, and their
\* directory, are read for that.
ReleaseDag(q, s, c) ==
  /\ \E own \in ReadSet(held[s] \cap Dag) :
       held' = [held EXCEPT ![s] = (@ \cap Raw) \cup (own \ {c})]
  /\ \/ (\E t \in Signers : c \in held'[t]) /\ req' = req
     \/ /\ ReadsFail \/ \A t \in Signers : c \notin held'[t]
        /\ req' = [req EXCEPT ![q] = [Free EXCEPT !.pc = "unpin", !.signer = s, !.cid = c]]

AcceptDelete(q) ==
  /\ req[q].pc = "free"
  /\ \E s \in Signers, c \in Cids :
       \/ /\ c \in Raw
          /\ req' = [req EXCEPT ![q] = [Free EXCEPT !.pc = "held", !.signer = s, !.cid = c]]
          /\ UNCHANGED held
       \/ c \in Dag \cap held[s] /\ ReleaseDag(q, s, c)
  /\ UNCHANGED <<blocks, pins, heads, inflight>>

DeleteStat(q) ==
  /\ req[q].pc = "held"
  /\ \E found \in Looks(q) :
       IF found THEN Goto(q, "rm") /\ UNCHANGED inflight ELSE Answer(q)
  /\ UNCHANGED <<blocks, pins, held, heads>>

\* Mutant: the release drops the block itself, not the signer's entry alone.
FilesRmBlock(q) ==
  /\ req[q].pc = "rm"
  /\ held' = [held EXCEPT ![req[q].signer] = @ \ {req[q].cid}]
  /\ blocks' = blocks \ {req[q].cid}
  /\ Answer(q)
  /\ UNCHANGED <<pins, heads>>

\* The outcome of `files rm' is not looked at: 200 either way.
FilesRm(q) ==
  /\ req[q].pc = "rm"
  /\ \/ held' = [held EXCEPT ![req[q].signer] = @ \ {req[q].cid}]
     \/ UNCHANGED held
  /\ Answer(q)
  /\ UNCHANGED <<blocks, pins, heads>>

\* Nor is the outcome of `pin rm'.
PinRm(q) ==
  /\ req[q].pc = "unpin"
  /\ pins' = pins \ {req[q].cid} \/ UNCHANGED pins
  /\ Answer(q)
  /\ UNCHANGED <<blocks, held, heads>>

-----------------------------------------------------------------------------
(* PUT /v1/heads/<name>                                                    *)

AcceptHead(q) ==
  /\ req[q].pc = "free" /\ inflight < MaxPuts
  /\ \E s \in Signers, c \in Cids, n \in Names, k \in 1..MaxSeq :
       req' = [req EXCEPT ![q] = [Free EXCEPT !.pc = "body", !.signer = s, !.cid = c,
                                              !.name = n, !.seq = k]]
  /\ inflight' = inflight + 1
  /\ UNCHANGED <<blocks, pins, held, heads>>

\* The checks a head must pass, and the write of the heads file with them, from
\* what can be read of it then.
PutHead(q, seen) ==
  LET r == req[q]
  IN \E found \in Looks(q), file \in ReadAll(heads[req[q].signer]) :
       IF found /\ r.seq > seen
       THEN heads' = [heads EXCEPT ![r.signer] =
                        [file EXCEPT ![r.name] = [cid |-> r.cid, seq |-> r.seq]]]
       ELSE UNCHANGED heads

\* Mutant: every head waits for a child between the read and the write of its file.
HeadBodyAwaits(q) ==
  /\ req[q].pc = "body" /\ req[q].name # None
  /\ req' = [req EXCEPT ![q].pc = "headstat",
                         ![q].seen = heads[req[q].signer][req[q].name].seq]
  /\ UNCHANGED <<blocks, pins, held, heads, inflight>>

\* The current head is read when the request is handled; whether the signer
\* holds the block is known at once for dag-cbor and after a child for raw.
HeadBody(q) ==
  /\ req[q].pc = "body" /\ req[q].name # None
  /\ \E file \in ReadAll(heads[req[q].signer]) :
       LET current == file[req[q].name].seq
       IN IF req[q].cid \in Raw
          THEN /\ req' = [req EXCEPT ![q].pc = "headstat", ![q].seen = current]
               /\ UNCHANGED <<heads, inflight>>
          ELSE PutHead(q, current) /\ Answer(q)
  /\ UNCHANGED <<blocks, pins, held>>

HeadStat(q) ==
  /\ req[q].pc = "headstat"
  /\ PutHead(q, req[q].seen)
  /\ Answer(q)
  /\ UNCHANGED <<blocks, pins, held>>

-----------------------------------------------------------------------------
\* Kubo collects what no MFS entry and no pin keeps.
Kept == pins \cup {c \in Raw : \E s \in Signers : c \in held[s]}

Collect ==
  /\ blocks' = blocks \cap Kept
  /\ UNCHANGED <<pins, held, heads, req, inflight>>

\* The service dies and starts again: the files and Kubo are as they were.
Restart ==
  /\ req' = [q \in Requests |-> Free]
  /\ inflight' = 0
  /\ UNCHANGED <<blocks, pins, held, heads>>

Serve(q) ==
  \/ AcceptPut(q) \/ AcceptDelete(q) \/ AcceptHead(q)
  \/ BodyFails(q) \/ Body(q) \/ Stat(q) \/ BlockPut(q)
  \/ HoldRaw(q) \/ PinAdd(q) \/ Record(q) \/ PutFails(q)
  \/ DeleteStat(q) \/ FilesRm(q) \/ PinRm(q)
  \/ HeadBody(q) \/ HeadStat(q)

IngestNext == (\E q \in Requests : Serve(q)) \/ Collect \/ Restart

IngestSpec == IngestInit /\ [][IngestNext]_ingestVars

-----------------------------------------------------------------------------
(* Properties                                                              *)

\* A slot is taken for exactly the PUTs that run, and never more than there
\* are, so failing bodies, refusals and restarts never use the slots up.
SlotsBalanced ==
  /\ IngestTypeOK
  /\ inflight = Cardinality({q \in Requests : req[q].pc \in PutPhases})

\* The bytes of a raw block some signer holds are there, whatever is collected
\* between the put and the hold and whatever other signers release.
RawHoldIsStored == \A s \in Signers : held[s] \cap Raw \subseteq blocks

\* A head that names a dag-cbor block never replaces a newer one, however many
\* PUTs overlap: its check and its write are not separated by a child.  (Of a
\* heads file that can be read, ReadsFail = FALSE.)
DagHeadsNeverRollBack ==
  [][\A s \in Signers, n \in Names :
       \/ heads'[s][n].seq > heads[s][n].seq
       \/ heads'[s][n].cid \in Raw
       \/ heads'[s][n] = heads[s][n]]_heads

\* The header: "The pin is removed only when the last signer that holds the
\* block releases it", so what is held stays pinned.
DagHoldIsPinned == \A s \in Signers : held[s] \cap Dag \subseteq pins

\* The comment on heads: seq must grow, so a head can never be rolled back.
HeadNeverRollsBack ==
  [][\A s \in Signers, n \in Names : heads'[s][n].seq >= heads[s][n].seq]_heads
=============================================================================
