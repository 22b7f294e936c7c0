-------------------------- MODULE BlockMirrorProofs --------------------------
(***************************************************************************)
(* What the entrance and the mirror that follows it never do, for any       *)
(* signers, blocks, names, connections and number of slots.                 *)
(***************************************************************************)
EXTENDS BlockMirror, FiniteSetTheorems, TLAPS

Putting == {q \in Requests : req[q].pc \in PutPhases}

\* A connection that carries a request carries a whole one; only the PUT of a
\* head on a raw block waits between the read and the write of the heads file.
RequestInv ==
  \A q \in Requests :
    /\ req[q].pc # "free" => req[q].signer \in Signers /\ req[q].cid \in Cids
    /\ req[q].pc = "record" => req[q].cid \in Dag
    /\ req[q].pc = "headstat" => req[q].cid \in Raw /\ req[q].name \in Names

IngestInv == SlotsBalanced /\ RequestInv /\ RawHoldIsStored

\* What a step does to connections and slots, and to the rest of the state.
Balanced ==
  /\ req \in [Requests -> RequestState]
  /\ inflight \in 0 .. MaxPuts
  /\ inflight = Cardinality(Putting)

StoreTypeOK ==
  /\ blocks \subseteq Cids /\ pins \subseteq Dag
  /\ held \in [Signers -> SUBSET Cids]
  /\ heads \in [Signers -> [Names -> Heads]]

-----------------------------------------------------------------------------
(* Reads that may fail                                                      *)

\* What a read gives is some of what is there.
LEMMA ReadsGiveLess ==
  /\ \A entries : \A own \in ReadSet(entries) : own \subseteq entries
  /\ \A file \in [Names -> Heads] : ReadAll(file) \subseteq [Names -> Heads]
  BY DEF ReadSet, ReadAll, Heads, NoHead

\* A read that does not fail gives what is there.
LEMMA ReadsAreTrue ==
  ASSUME ~ReadsFail
  PROVE  /\ \A entries : ReadSet(entries) = {entries}
         /\ \A file : ReadAll(file) = {file}
  BY DEF ReadSet, ReadAll

-----------------------------------------------------------------------------
(* Slots                                                                    *)

LEMMA PuttingIsFinite == IsFiniteSet(Putting)
  BY IngestAssumption, FS_Subset DEF Putting

\* A request that ends gives its slot back, if it has one.
LEMMA AnswerBalances ==
  ASSUME SlotsBalanced, NEW q \in Requests, Answer(q)
  PROVE  Balanced'
<1> USE IngestAssumption DEF Balanced
<1>1. req' \in [Requests -> RequestState]
  BY DEF SlotsBalanced, IngestTypeOK, Answer, Free, RequestState
<1>2. Putting' = Putting \ {q}
  BY <1>1 DEF SlotsBalanced, IngestTypeOK, Answer, Free, Putting, PutPhases
<1>3. IsFiniteSet(Putting) /\ inflight = Cardinality(Putting) /\ inflight \in 0 .. MaxPuts
  BY PuttingIsFinite DEF SlotsBalanced, IngestTypeOK, Putting
<1>4. CASE req[q].pc \in PutPhases
  <2>1. q \in Putting /\ inflight' = inflight - 1
    BY <1>4 DEF Putting, Answer
  <2>2. Cardinality(Putting') = Cardinality(Putting) - 1
    BY <2>1, <1>2, <1>3, FS_RemoveElement
  <2>3. Cardinality(Putting') \in Nat
    BY <1>2, <1>3, FS_RemoveElement, FS_CardinalityType
  <2> QED
    BY <1>1, <1>3, <2>1, <2>2, <2>3
<1>5. CASE req[q].pc \notin PutPhases
  <2>1. Putting' = Putting /\ inflight' = inflight
    BY <1>2, <1>5 DEF Putting, Answer
  <2> QED
    BY <1>1, <1>3, <2>1
<1> QED
  BY <1>4, <1>5

\* A request that is accepted as a PUT takes a slot.
LEMMA AcceptBalances ==
  ASSUME SlotsBalanced, NEW q \in Requests, NEW r \in RequestState,
         req[q].pc = "free", r.pc = "body", inflight < MaxPuts,
         req' = [req EXCEPT ![q] = r], inflight' = inflight + 1
  PROVE  Balanced'
<1> USE IngestAssumption DEF Balanced
<1>1. req' \in [Requests -> RequestState]
  BY DEF SlotsBalanced, IngestTypeOK
<1>2. Putting' = Putting \cup {q} /\ q \notin Putting
  BY <1>1 DEF SlotsBalanced, IngestTypeOK, Putting, PutPhases
<1>3. inflight = Cardinality(Putting) /\ inflight \in 0 .. MaxPuts
  BY DEF SlotsBalanced, IngestTypeOK, Putting
<1>4. Cardinality(Putting') = Cardinality(Putting) + 1
  BY <1>2, PuttingIsFinite, FS_AddElement
<1> QED
  BY <1>1, <1>3, <1>4

\* A request that goes on keeps what it has.
LEMMA StayBalances ==
  ASSUME SlotsBalanced, req' \in [Requests -> RequestState], UNCHANGED inflight,
         \A q \in Requests : req'[q].pc \in PutPhases <=> req[q].pc \in PutPhases
  PROVE  Balanced'
<1>1. Putting' = Putting
  BY DEF Putting
<1> QED
  BY <1>1 DEF Balanced, SlotsBalanced, IngestTypeOK, Putting
-----------------------------------------------------------------------------
(* The steps of the entrance                                                *)

LEMMA InvParts ==
  /\ IngestInv <=> StoreTypeOK /\ Balanced /\ RequestInv /\ RawHoldIsStored
  /\ IngestInv' <=> StoreTypeOK' /\ Balanced' /\ RequestInv' /\ RawHoldIsStored'
  BY DEF IngestInv, SlotsBalanced, IngestTypeOK, StoreTypeOK, Balanced, Putting

LEMMA IngestInitial == IngestInit => IngestInv
<1> SUFFICES ASSUME IngestInit PROVE StoreTypeOK /\ Balanced /\ RequestInv /\ RawHoldIsStored
  BY InvParts
<1> USE IngestAssumption DEF IngestInit
<1>1. StoreTypeOK /\ RequestInv /\ RawHoldIsStored
  BY DEF StoreTypeOK, RequestInv, RawHoldIsStored, Free, Heads, NoHead
<1>2. req \in [Requests -> RequestState]
  BY DEF Free, RequestState
<1>3. Putting = {}
  BY DEF Putting, Free, PutPhases
<1>4. inflight \in 0 .. MaxPuts /\ inflight = Cardinality(Putting)
  BY <1>3, FS_EmptySet
<1> QED
  BY <1>1, <1>2, <1>4 DEF Balanced

LEMMA HeadRequestTyped ==
  ASSUME NEW s \in Signers, NEW c \in Cids, NEW n \in Names, NEW k \in Nat
  PROVE  [Free EXCEPT !.pc = "body", !.signer = s, !.cid = c, !.name = n, !.seq = k]
           \in RequestState
  BY DEF Free, RequestState, PutPhases

LEMMA AcceptKeepsInv ==
  ASSUME IngestInv, NEW q \in Requests, AcceptPut(q) \/ AcceptHead(q) \/ AcceptDelete(q)
  PROVE  IngestInv'
<1> SUFFICES StoreTypeOK' /\ Balanced' /\ RequestInv' /\ RawHoldIsStored'
  BY InvParts
<1> USE IngestAssumption, InvParts
<1>1. CASE AcceptPut(q)
  <2> PICK s \in Signers, c \in Cids :
        req' = [req EXCEPT ![q] = [Free EXCEPT !.pc = "body", !.signer = s, !.cid = c]]
    BY <1>1 DEF AcceptPut
  <2> DEFINE r == [Free EXCEPT !.pc = "body", !.signer = s, !.cid = c]
  <2>1. r \in RequestState
    BY DEF Free, RequestState, PutPhases
  <2>2. Balanced'
    BY <1>1, <2>1, AcceptBalances DEF AcceptPut, IngestInv, Free
  <2>3. RequestInv'
    BY <1>1 DEF RequestInv, Balanced, Free
  <2> QED
    BY <1>1, <2>2, <2>3 DEF AcceptPut, StoreTypeOK, RawHoldIsStored
<1>2. CASE AcceptHead(q)
  <2> PICK s \in Signers, c \in Cids, n \in Names, k \in 1 .. MaxSeq :
        req' = [req EXCEPT ![q] = [Free EXCEPT !.pc = "body", !.signer = s, !.cid = c,
                                               !.name = n, !.seq = k]]
    BY <1>2 DEF AcceptHead
  <2> DEFINE r == [Free EXCEPT !.pc = "body", !.signer = s, !.cid = c, !.name = n, !.seq = k]
  <2>1. r \in RequestState
    <3>1. k \in Nat
      OBVIOUS
    <3> QED
      BY <3>1, HeadRequestTyped
  <2>2. Balanced'
    BY <1>2, <2>1, AcceptBalances DEF AcceptHead, IngestInv, Free
  <2>3. RequestInv'
    BY <1>2 DEF RequestInv, Balanced, Free
  <2> QED
    BY <1>2, <2>2, <2>3 DEF AcceptHead, StoreTypeOK, RawHoldIsStored
<1>3. CASE AcceptDelete(q)
  <2> PICK s \in Signers, c \in Cids :
       \/ /\ c \in Raw
          /\ req' = [req EXCEPT ![q] = [Free EXCEPT !.pc = "held", !.signer = s, !.cid = c]]
          /\ UNCHANGED held
       \/ c \in Dag \cap held[s] /\ ReleaseDag(q, s, c)
    BY <1>3 DEF AcceptDelete
  <2>1. /\ req[q].pc = "free"
        /\ UNCHANGED <<blocks, pins, heads, inflight>>
    BY <1>3 DEF AcceptDelete
  <2>2. \E r \in RequestState :
          /\ r.pc \in {"held", "unpin"} /\ r.signer = s /\ r.cid = c
          /\ req' = req \/ req' = [req EXCEPT ![q] = r]
    <3>1. PICK pc \in {"held", "unpin"} :
            \/ req' = req
            \/ req' = [req EXCEPT ![q] = [Free EXCEPT !.pc = pc, !.signer = s, !.cid = c]]
      BY DEF ReleaseDag
    <3> DEFINE r == [Free EXCEPT !.pc = pc, !.signer = s, !.cid = c]
    <3>2. r \in RequestState /\ r.pc = pc /\ r.signer = s /\ r.cid = c
      BY DEF Free, RequestState, DeletePhases
    <3>3. req' = req \/ req' = [req EXCEPT ![q] = r]
      BY <3>1
    <3> HIDE DEF r
    <3> QED
      BY <3>2, <3>3
  <2>3. /\ held' \in [Signers -> SUBSET Cids]
        /\ \A t \in Signers : held'[t] \subseteq held[t]
    <3>1. held \in [Signers -> SUBSET Cids]
      BY DEF StoreTypeOK
    <3>2. \/ held' = held
          \/ \E own \in SUBSET held[s] :
               held' = [held EXCEPT ![s] = (@ \cap Raw) \cup (own \ {c})]
      <4>1. \A own \in ReadSet(held[s] \cap Dag) : own \in SUBSET held[s]
        BY ReadsGiveLess
      <4> QED
        BY <4>1 DEF ReleaseDag
    <3> QED
      BY <3>1, <3>2
  <2>4. req' \in [Requests -> RequestState]
    BY <2>2 DEF Balanced
  <2>5. \A p \in Requests :
          \/ req'[p] = req[p]
          \/ /\ p = q /\ req'[p].pc \in {"held", "unpin"}
             /\ req'[p].signer = s /\ req'[p].cid = c
    BY <2>2 DEF Balanced
  <2>6. Balanced'
    <3>1. \A p \in Requests : req'[p].pc \in PutPhases <=> req[p].pc \in PutPhases
      BY <2>1, <2>5 DEF PutPhases
    <3> QED
      BY <2>1, <2>4, <3>1, StayBalances DEF IngestInv
  <2>7. RequestInv'
    <3>1. RequestInv
      BY DEF IngestInv
    <3> QED
      BY <2>5, <3>1 DEF RequestInv
  <2> QED
    BY <2>1, <2>3, <2>6, <2>7 DEF StoreTypeOK, RawHoldIsStored
<1> QED
  BY <1>1, <1>2, <1>3

\* A request that ends, and one that goes on to its next phase.
LEMMA AnswerKeeps ==
  ASSUME IngestInv, NEW q \in Requests, Answer(q)
  PROVE  Balanced' /\ RequestInv'
<1>1. Balanced'
  BY AnswerBalances DEF IngestInv
<1>2. RequestInv'
  BY InvParts DEF Balanced, RequestInv, Answer, Free
<1> QED
  BY <1>1, <1>2

LEMMA GotoKeeps ==
  ASSUME IngestInv, NEW q \in Requests, NEW pc \in PutPhases \cup DeletePhases,
         req[q].pc # "free", Goto(q, pc), UNCHANGED inflight,
         pc \in PutPhases <=> req[q].pc \in PutPhases,
         pc # "headstat", pc = "record" => req[q].cid \in Dag
  PROVE  Balanced' /\ RequestInv'
<1> req \in [Requests -> RequestState]
  BY InvParts DEF Balanced
<1>1. req' \in [Requests -> RequestState]
  BY DEF Goto, RequestState
<1>2. \A p \in Requests : req'[p].pc \in PutPhases <=> req[p].pc \in PutPhases
  BY DEF Goto, RequestState
<1>3. Balanced'
  BY <1>1, <1>2, StayBalances DEF IngestInv
<1>4. RequestInv'
  BY InvParts DEF RequestInv, Goto, RequestState
<1> QED
  BY <1>3, <1>4

\* The head a PUT writes is one its signer asked for, and newer than the one
\* it saw.
LEMMA PutHeadTyped ==
  ASSUME IngestInv, NEW q \in Requests, NEW seen \in Nat, PutHead(q, seen),
         req[q].pc # "free", req[q].name \in Names
  PROVE  heads' \in [Signers -> [Names -> Heads]]
<1> DEFINE h == [cid |-> req[q].cid, seq |-> req[q].seq]
<1>1. req[q] \in RequestState /\ req[q].cid \in Cids /\ req[q].signer \in Signers
  BY InvParts DEF Balanced, RequestInv
<1>2. heads \in [Signers -> [Names -> Heads]]
  BY InvParts DEF StoreTypeOK
<1>3. req[q].seq > seen => h \in Heads
  BY <1>1 DEF RequestState, Heads
<1> QED
  BY <1>1, <1>2, <1>3, ReadsGiveLess DEF PutHead

LEMMA BlockStepsKeepInv ==
  ASSUME IngestInv, NEW q \in Requests,
         \/ BodyFails(q) \/ Body(q) \/ Stat(q) \/ BlockPut(q)
         \/ HoldRaw(q) \/ PinAdd(q) \/ Record(q) \/ PutFails(q)
  PROVE  IngestInv'
<1> SUFFICES StoreTypeOK' /\ Balanced' /\ RequestInv' /\ RawHoldIsStored'
  BY InvParts
<1> StoreTypeOK /\ Balanced /\ RequestInv /\ RawHoldIsStored
  BY InvParts
<1> USE IngestAssumption DEF StoreTypeOK, RawHoldIsStored
<1>1. CASE BodyFails(q) \/ PutFails(q)
  BY <1>1, AnswerKeeps DEF BodyFails, PutFails
<1>2. CASE Body(q)
  BY <1>2, AnswerKeeps, GotoKeeps DEF Body, PutPhases
<1>3. CASE Stat(q)
  BY <1>3, AnswerKeeps, GotoKeeps DEF Stat, PutPhases
<1>4. CASE BlockPut(q)
  <2>1. req[q].cid \in Cids
    BY <1>4 DEF BlockPut, RequestInv
  <2>2. Balanced' /\ RequestInv'
    BY <1>4, GotoKeeps DEF BlockPut, PutPhases
  <2> QED
    BY <1>4, <2>1, <2>2 DEF BlockPut
<1>5. CASE HoldRaw(q)
  <2>1. req[q].signer \in Signers /\ req[q].cid \in Cids
    BY <1>5 DEF HoldRaw, RequestInv
  <2> QED
    BY <1>5, <2>1, AnswerKeeps DEF HoldRaw
<1>6. CASE PinAdd(q)
  <2>1. Balanced' /\ RequestInv'
    BY <1>6, GotoKeeps DEF PinAdd, PutPhases
  <2> QED
    BY <1>6, <2>1 DEF PinAdd
<1>7. CASE Record(q)
  <2>1. req[q].signer \in Signers /\ req[q].cid \in Dag
    BY <1>7 DEF Record, RequestInv
  <2>2. Balanced' /\ RequestInv'
    BY <1>7, AnswerKeeps DEF Record
  <2> PICK own \in SUBSET (held[req[q].signer] \cap Dag) :
        held' = [held EXCEPT ![req[q].signer] = (@ \cap Raw) \cup own \cup {req[q].cid}]
    BY <1>7, ReadsGiveLess DEF Record
  <2>3. held' \in [Signers -> SUBSET Cids]
    BY <2>1 DEF Cids
  <2>4. \A s \in Signers : held'[s] \cap Raw \subseteq held[s] \cap Raw
    BY <2>1
  <2> QED
    BY <1>7, <2>2, <2>3, <2>4 DEF Record
<1> QED
  BY <1>1, <1>2, <1>3, <1>4, <1>5, <1>6, <1>7

LEMMA ReleaseStepsKeepInv ==
  ASSUME IngestInv, NEW q \in Requests, DeleteStat(q) \/ FilesRm(q) \/ PinRm(q)
  PROVE  IngestInv'
<1> SUFFICES StoreTypeOK' /\ Balanced' /\ RequestInv' /\ RawHoldIsStored'
  BY InvParts
<1> StoreTypeOK /\ Balanced /\ RequestInv /\ RawHoldIsStored
  BY InvParts
<1> USE IngestAssumption DEF StoreTypeOK, RawHoldIsStored
<1>1. CASE DeleteStat(q)
  BY <1>1, AnswerKeeps, GotoKeeps DEF DeleteStat, PutPhases, DeletePhases
<1>2. CASE FilesRm(q)
  BY <1>2, AnswerKeeps DEF FilesRm
<1>3. CASE PinRm(q)
  BY <1>3, AnswerKeeps DEF PinRm
<1> QED
  BY <1>1, <1>2, <1>3

LEMMA HeadStepsKeepInv ==
  ASSUME IngestInv, NEW q \in Requests, HeadBody(q) \/ HeadStat(q)
  PROVE  IngestInv'
<1> SUFFICES StoreTypeOK' /\ Balanced' /\ RequestInv' /\ RawHoldIsStored'
  BY InvParts
<1>0. StoreTypeOK /\ Balanced /\ RequestInv /\ RawHoldIsStored
  BY InvParts
<1>1. req[q] \in RequestState
  BY <1>0 DEF Balanced
<1>2. CASE HeadStat(q)
  <2>1. req[q].name \in Names /\ req[q].seen \in Nat
    BY <1>0, <1>1, <1>2 DEF HeadStat, RequestInv, RequestState
  <2>2. heads' \in [Signers -> [Names -> Heads]]
    BY <1>2, <2>1, PutHeadTyped DEF HeadStat
  <2>3. Balanced' /\ RequestInv'
    BY <1>2, AnswerKeeps DEF HeadStat
  <2> QED
    BY <1>0, <1>2, <2>2, <2>3 DEF HeadStat, StoreTypeOK, RawHoldIsStored
<1>3. CASE HeadBody(q)
  <2>0. PICK file \in ReadAll(heads[req[q].signer]) :
          LET current == file[req[q].name].seq
          IN IF req[q].cid \in Raw
             THEN /\ req' = [req EXCEPT ![q].pc = "headstat", ![q].seen = current]
                  /\ UNCHANGED <<heads, inflight>>
             ELSE PutHead(q, current) /\ Answer(q)
    BY <1>3 DEF HeadBody
  <2> DEFINE current == file[req[q].name].seq
  <2>1. req[q].name \in Names /\ req[q].signer \in Signers
    BY <1>0, <1>1, <1>3 DEF HeadBody, RequestInv, RequestState
  <2>2. current \in Nat
    BY <1>0, <2>1, ReadsGiveLess DEF StoreTypeOK, Heads, NoHead
  <2>3. CASE req[q].cid \in Raw
    <3>1. req' = [req EXCEPT ![q].pc = "headstat", ![q].seen = current]
      BY <2>0, <2>3
    <3>2. UNCHANGED <<blocks, pins, held, heads, inflight>>
      BY <1>3, <2>0, <2>3 DEF HeadBody
    <3>3. req' \in [Requests -> RequestState]
      BY <1>0, <1>1, <2>2, <3>1 DEF Balanced, RequestState, PutPhases
    <3>4. \A p \in Requests : req'[p].pc \in PutPhases <=> req[p].pc \in PutPhases
      BY <1>0, <1>3, <3>1 DEF Balanced, RequestState, PutPhases, HeadBody
    <3>5. Balanced'
      BY <3>2, <3>3, <3>4, StayBalances DEF IngestInv
    <3>6. RequestInv'
      <4>1. req[q].pc # "free" /\ req[q].cid \in Cids
        BY <1>0, <1>3 DEF RequestInv, HeadBody
      <4> HIDE DEF current
      <4>2. /\ req'[q].pc = "headstat" /\ req'[q].signer = req[q].signer
            /\ req'[q].cid = req[q].cid /\ req'[q].name = req[q].name
            /\ \A p \in Requests \ {q} : req'[p] = req[p]
        BY <1>0, <1>1, <3>1 DEF Balanced, RequestState
      <4> QED
        BY <1>0, <2>1, <2>3, <4>1, <4>2 DEF RequestInv
    <3> QED
      BY <1>0, <3>2, <3>5, <3>6 DEF StoreTypeOK, RawHoldIsStored
  <2>4. CASE req[q].cid \notin Raw
    <3>1. PutHead(q, current) /\ Answer(q) /\ UNCHANGED <<blocks, pins, held>>
      BY <1>3, <2>0, <2>4 DEF HeadBody
    <3>2. heads' \in [Signers -> [Names -> Heads]]
      BY <1>3, <2>1, <2>2, <3>1, PutHeadTyped DEF HeadBody
    <3> QED
      BY <1>0, <3>1, <3>2, AnswerKeeps DEF StoreTypeOK, RawHoldIsStored
  <2> QED
    BY <2>3, <2>4
<1> QED
  BY <1>2, <1>3

LEMMA IngestKeepsInv == IngestInv /\ [IngestNext]_ingestVars => IngestInv'
<1> SUFFICES ASSUME IngestInv, [IngestNext]_ingestVars PROVE IngestInv'
  OBVIOUS
<1>1. ASSUME NEW q \in Requests, Serve(q) PROVE IngestInv'
  BY <1>1, AcceptKeepsInv, BlockStepsKeepInv, ReleaseStepsKeepInv, HeadStepsKeepInv DEF Serve
<1>2. CASE Collect
  BY <1>2, InvParts DEF Collect, Kept, StoreTypeOK, Balanced, RequestInv, RawHoldIsStored,
                        Putting
<1>3. CASE Restart
  <2>1. StoreTypeOK' /\ RequestInv' /\ RawHoldIsStored'
    BY <1>3, InvParts DEF Restart, StoreTypeOK, RequestInv, RawHoldIsStored, Free
  <2>2. req' \in [Requests -> RequestState] /\ Putting' = {}
    BY <1>3 DEF Restart, Free, RequestState, Putting, PutPhases
  <2>3. Balanced'
    BY <1>3, <2>2, FS_EmptySet, IngestAssumption DEF Restart, Balanced
  <2> QED
    BY <2>1, <2>3, InvParts
<1>4. CASE UNCHANGED ingestVars
  BY <1>4, InvParts DEF ingestVars, StoreTypeOK, Balanced, RequestInv, RawHoldIsStored, Putting
<1> QED
  BY <1>1, <1>2, <1>3, <1>4 DEF IngestNext

(* The invariant of the entrance: its types and slots, what a running       *)
(* request has established, and the raw holds.                              *)
THEOREM IngestInvariant == IngestSpec => []IngestInv
  BY IngestInitial, IngestKeepsInv, PTL DEF IngestSpec

(* A slot is taken for exactly the PUTs that run.                           *)
THEOREM SlotsAreBalanced == IngestSpec => []SlotsBalanced
  BY IngestInvariant, PTL DEF IngestInv

(* The bytes behind every raw hold are stored.                              *)
THEOREM RawHoldsAreStored == IngestSpec => []RawHoldIsStored
  BY IngestInvariant, PTL DEF IngestInv

\* Only the two steps of a head's PUT write heads, and the one for a dag-cbor
\* block compares with the very head it replaces.
LEMMA HeadStepIsForward ==
  ASSUME ~ReadsFail, IngestInv, [IngestNext]_ingestVars, NEW s \in Signers, NEW n \in Names
  PROVE  \/ heads'[s][n].seq > heads[s][n].seq
         \/ heads'[s][n].cid \in Raw
         \/ heads'[s][n] = heads[s][n]
<1> DEFINE Forward == \/ heads'[s][n].seq > heads[s][n].seq
                      \/ heads'[s][n].cid \in Raw
                      \/ heads'[s][n] = heads[s][n]
<1>1. heads \in [Signers -> [Names -> Heads]] /\ RequestInv
  BY InvParts DEF StoreTypeOK
<1>2. ASSUME NEW q \in Requests, HeadStat(q) PROVE Forward
  BY <1>1, <1>2, ReadsAreTrue DEF HeadStat, PutHead, RequestInv
<1>3. ASSUME NEW q \in Requests, HeadBody(q) PROVE Forward
  <2>1. CASE req[q].cid \in Raw
    BY <1>3, <2>1 DEF HeadBody
  <2>2. CASE req[q].cid \notin Raw
    <3>1. ReadAll(heads[req[q].signer]) = {heads[req[q].signer]}
      BY ReadsAreTrue
    <3>2. PutHead(q, heads[req[q].signer][req[q].name].seq)
      BY <1>3, <2>2, <3>1 DEF HeadBody
    <3> QED
      BY <1>1, <3>1, <3>2 DEF PutHead
  <2> QED
    BY <2>1, <2>2
<1>4. UNCHANGED heads \/ \E q \in Requests : HeadStat(q) \/ HeadBody(q)
  BY DEF IngestNext, Serve, ingestVars, AcceptPut, AcceptDelete, AcceptHead, BodyFails, Body,
         Stat, BlockPut, HoldRaw, PinAdd, Record, PutFails, DeleteStat, FilesRm, PinRm,
         Collect, Restart
<1> QED
  BY <1>2, <1>3, <1>4

(* A head that names a dag-cbor block never replaces a newer one, as long as *)
(* the heads file can be read: an unread one would be an empty one.         *)
THEOREM DagHeadsMoveForward == ASSUME ~ReadsFail PROVE IngestSpec => DagHeadsNeverRollBack
<1>1. IngestInv /\ [IngestNext]_ingestVars
        => [\A s \in Signers, n \in Names :
              \/ heads'[s][n].seq > heads[s][n].seq
              \/ heads'[s][n].cid \in Raw
              \/ heads'[s][n] = heads[s][n]]_heads
  BY HeadStepIsForward
<1> QED
  BY <1>1, IngestInvariant, PTL DEF IngestSpec, DagHeadsNeverRollBack

-----------------------------------------------------------------------------
(* Pins                                                                     *)

\* No `pin rm' runs while a PUT of the same block has its pin but not yet its
\* entry in the holds file.
UnpinsAlone ==
  \A p, q \in Requests :
    req[p].pc = "unpin" /\ req[q].pc = "record" => req[p].cid # req[q].cid

\* A PUT has its pin before its entry is written; a DELETE takes a pin away
\* that no entry stands for.
PinInv ==
  /\ DagHoldIsPinned
  /\ \A q \in Requests : req[q].pc = "record" => req[q].cid \in pins
  /\ \A q \in Requests : req[q].pc = "unpin" =>
       req[q].cid \in Dag /\ \A s \in Signers : req[q].cid \notin held[s]

\* A step that takes no pin, adds no dag-cbor entry and lets no request begin
\* to record or to unpin.
Quiet ==
  /\ pins \subseteq pins'
  /\ \A s \in Signers : held'[s] \cap Dag \subseteq held[s]
  /\ \A q \in Requests : req'[q].pc \in {"record", "unpin"} => req'[q] = req[q]

LEMMA QuietKeepsPins == PinInv /\ Quiet => PinInv'
  BY DEF PinInv, Quiet, DagHoldIsPinned

LEMMA EndsAreQuiet ==
  ASSUME IngestInv, NEW q \in Requests, Answer(q)
  PROVE  \A p \in Requests : req'[p].pc \in {"record", "unpin"} => req'[p] = req[p]
  BY InvParts DEF Balanced, RequestState, Answer, Free

LEMMA PinStepKeepsPins ==
  ASSUME ~ReadsFail, IngestInv, UnpinsAlone, PinInv, NEW q \in Requests,
         PinAdd(q) \/ Record(q) \/ PinRm(q) \/ AcceptDelete(q)
  PROVE  PinInv'
<1>1. StoreTypeOK /\ RequestInv /\ req \in [Requests -> RequestState]
  BY InvParts DEF Balanced
<1>2. CASE PinAdd(q)
  BY <1>1, <1>2 DEF PinAdd, Goto, PinInv, DagHoldIsPinned
<1>3. CASE Record(q)
  <2>1. req[q].signer \in Signers /\ req[q].cid \in Dag \cap pins
    BY <1>1, <1>3 DEF Record, RequestInv, PinInv
  <2>2. \A p \in Requests : req'[p].pc \in {"record", "unpin"} => req'[p] = req[p]
    BY <1>3, EndsAreQuiet DEF Record
  <2>3. \A p \in Requests : req[p].pc = "unpin" => req[p].cid # req[q].cid
    BY <1>3 DEF Record, UnpinsAlone
  <2>4. \A s \in Signers : held'[s] \subseteq held[s] \cup {req[q].cid}
    BY <1>1, <1>3, <2>1, ReadsAreTrue DEF Record, StoreTypeOK
  <2>5. pins' = pins
    BY <1>3 DEF Record
  <2> QED
    BY <2>1, <2>2, <2>3, <2>4, <2>5 DEF PinInv, DagHoldIsPinned
<1>4. CASE PinRm(q)
  <2>1. \A p \in Requests : req'[p].pc \in {"record", "unpin"} => req'[p] = req[p]
    BY <1>4, EndsAreQuiet DEF PinRm
  <2>2. \A p \in Requests : req[p].pc = "record" => req[p].cid # req[q].cid
    BY <1>4 DEF PinRm, UnpinsAlone
  <2>3. (pins' = pins \/ pins' = pins \ {req[q].cid}) /\ held' = held
    BY <1>4 DEF PinRm
  <2>4. \A s \in Signers : req[q].cid \notin held[s]
    BY <1>4 DEF PinRm, PinInv
  <2> QED
    BY <2>1, <2>2, <2>3, <2>4 DEF PinInv, DagHoldIsPinned
<1>5. CASE AcceptDelete(q)
  <2>1. PICK s \in Signers, c \in Cids :
          \/ /\ c \in Raw
             /\ req' = [req EXCEPT ![q] = [Free EXCEPT !.pc = "held", !.signer = s, !.cid = c]]
             /\ UNCHANGED held
          \/ c \in Dag \cap held[s] /\ ReleaseDag(q, s, c)
    BY <1>5 DEF AcceptDelete
  <2>2. pins' = pins
    BY <1>5 DEF AcceptDelete
  <2>3. \A t \in Signers : held'[t] \subseteq held[t]
    BY <1>1, <2>1, ReadsAreTrue DEF ReleaseDag, StoreTypeOK
  <2>4. \A p \in Requests :
          \/ req'[p] = req[p]
          \/ req'[p].pc = "held"
          \/ /\ req'[p].pc = "unpin" /\ req'[p].cid = c /\ c \in Dag
             /\ \A t \in Signers : c \notin held'[t]
    BY <1>1, <2>1 DEF ReleaseDag, Free
  <2> QED
    BY <2>2, <2>3, <2>4 DEF PinInv, DagHoldIsPinned
<1> QED
  BY <1>2, <1>3, <1>4, <1>5

LEMMA OtherStepsAreQuiet ==
  ASSUME IngestInv, NEW q \in Requests,
         \/ AcceptPut(q) \/ AcceptHead(q) \/ BodyFails(q) \/ Body(q) \/ Stat(q)
         \/ BlockPut(q) \/ HoldRaw(q) \/ PutFails(q) \/ DeleteStat(q) \/ FilesRm(q)
         \/ HeadBody(q) \/ HeadStat(q)
  PROVE  Quiet
<1>1. StoreTypeOK /\ RequestInv /\ req \in [Requests -> RequestState]
  BY InvParts DEF Balanced
<1>2. pins' = pins
  BY DEF AcceptPut, AcceptHead, BodyFails, Body, Stat, BlockPut, HoldRaw, PutFails, DeleteStat,
         FilesRm, HeadBody, HeadStat
<1>3. \A s \in Signers : held'[s] \cap Dag \subseteq held[s]
  <2>1. CASE HoldRaw(q)
    <3>1. req[q].cid \notin Dag
      BY <2>1, IngestAssumption DEF HoldRaw
    <3> QED
      BY <1>1, <2>1, <3>1 DEF HoldRaw, StoreTypeOK
  <2>2. CASE FilesRm(q)
    BY <1>1, <2>2 DEF FilesRm, StoreTypeOK
  <2>3. CASE ~HoldRaw(q) /\ ~FilesRm(q)
    BY <2>3 DEF AcceptPut, AcceptHead, BodyFails, Body, Stat, BlockPut, PutFails, DeleteStat,
                HeadBody, HeadStat
  <2> QED
    BY <2>1, <2>2, <2>3
<1>4. ASSUME NEW r, r.pc \notin {"record", "unpin"}, req' = [req EXCEPT ![q] = r]
      PROVE  \A p \in Requests : req'[p].pc \in {"record", "unpin"} => req'[p] = req[p]
  BY <1>1, <1>4
<1>5. ASSUME NEW pc \in {"stat", "put", "hold", "rm"}, Goto(q, pc)
      PROVE  \A p \in Requests : req'[p].pc \in {"record", "unpin"} => req'[p] = req[p]
  BY <1>1, <1>5 DEF Goto, RequestState
<1>6. \A p \in Requests : req'[p].pc \in {"record", "unpin"} => req'[p] = req[p]
  <2>1. CASE AcceptPut(q)
    BY <1>4, <2>1 DEF AcceptPut, Free
  <2>2. CASE AcceptHead(q)
    BY <1>4, <2>2 DEF AcceptHead, Free
  <2>3. CASE BodyFails(q) \/ PutFails(q) \/ HoldRaw(q) \/ FilesRm(q) \/ HeadStat(q)
    BY <2>3, EndsAreQuiet DEF BodyFails, PutFails, HoldRaw, FilesRm, HeadStat
  <2>4. CASE Body(q) \/ Stat(q) \/ BlockPut(q) \/ DeleteStat(q)
    <3>1. Answer(q) \/ \E pc \in {"stat", "put", "hold", "rm"} : Goto(q, pc)
      BY <2>4 DEF Body, Stat, BlockPut, DeleteStat
    <3> QED
      BY <1>5, <3>1, EndsAreQuiet
  <2>5. CASE HeadBody(q)
    <3>1. CASE req[q].cid \in Raw
      <4>1. \E seen : req' = [req EXCEPT ![q].pc = "headstat", ![q].seen = seen]
        BY <2>5, <3>1 DEF HeadBody
      <4> QED
        BY <1>1, <4>1 DEF RequestState
    <3>2. CASE req[q].cid \notin Raw
      BY <2>5, <3>2, EndsAreQuiet DEF HeadBody
    <3> QED
      BY <3>1, <3>2
  <2> QED
    BY <2>1, <2>2, <2>3, <2>4, <2>5
<1> QED
  BY <1>2, <1>3, <1>6 DEF Quiet

LEMMA PinsAreKept ==
  ~ReadsFail => (IngestInv /\ UnpinsAlone /\ PinInv /\ [IngestNext]_ingestVars => PinInv')
<1> SUFFICES ASSUME ~ReadsFail, IngestInv, UnpinsAlone, PinInv, [IngestNext]_ingestVars PROVE PinInv'
  OBVIOUS
<1>1. ASSUME NEW q \in Requests, Serve(q) PROVE PinInv'
  BY <1>1, PinStepKeepsPins, OtherStepsAreQuiet, QuietKeepsPins DEF Serve
<1>2. CASE Collect \/ UNCHANGED ingestVars
  BY <1>2 DEF Collect, ingestVars, PinInv, DagHoldIsPinned
<1>3. CASE Restart
  BY <1>3 DEF Restart, Free, PinInv, DagHoldIsPinned
<1> QED
  BY <1>1, <1>2, <1>3 DEF IngestNext

(* The header's promise about pins, which the code does not keep: it is     *)
(* broken only where a holds file cannot be read, or where a `pin rm'       *)
(* overlaps the window of a PUT between its pin and its entry.  Without     *)
(* either every dag-cbor block that a signer holds stays pinned, across     *)
(* collections and restarts.                                                *)
THEOREM HeldDagStaysPinned ==
  ASSUME ~ReadsFail PROVE IngestSpec /\ []UnpinsAlone => []DagHoldIsPinned
<1>1. IngestInit => PinInv
  BY DEF IngestInit, PinInv, DagHoldIsPinned, Free
<1>2. PinInv => DagHoldIsPinned
  BY DEF PinInv
<1>3. IngestInv /\ UnpinsAlone /\ PinInv /\ [IngestNext]_ingestVars => PinInv'
  BY PinsAreKept
<1> QED
  BY <1>1, <1>2, <1>3, IngestInvariant, PTL DEF IngestSpec

-----------------------------------------------------------------------------
(* The mirror                                                               *)

MirrorTypeOK ==
  /\ mheld \subseteq Cids
  /\ mheads \in [Names -> Heads]
  /\ round \in {"idle", "raw", "dag", "copy", "release", "heads"}
  /\ listed \subseteq Cids /\ todo \subseteq Cids /\ drop \subseteq Cids
  /\ gone \subseteq Cids

\* What MirrorInv says of the history in each phase of a round.
Known ==
  /\ round \in {"raw", "dag", "copy", "release"} => Cids \ Source \subseteq gone
  /\ round = "dag" => Raw \ listed \subseteq gone
  /\ round \in {"copy", "release"} => drop \subseteq gone

FollowInv == IngestInv /\ MirrorTypeOK /\ Known

LEMMA FollowTyped == FollowInv =>
  /\ MirrorInv
  /\ Source \subseteq Cids
  /\ heads[Mirrored] \in [Names -> Heads]
  BY MirrorAssumption, InvParts
     DEF FollowInv, MirrorInv, TypeOK, MirrorTypeOK, Known, IngestInv, SlotsBalanced, Source,
         StoreTypeOK

LEMMA FollowInitial == Init => FollowInv
  BY IngestInitial, IngestAssumption
     DEF Init, FollowInv, MirrorTypeOK, Known, Heads, NoHead

LEMMA SourceKeepsFollow == FollowInv /\ SourceStep => FollowInv'
<1> SUFFICES ASSUME FollowInv, SourceStep PROVE FollowInv'
  OBVIOUS
<1>1. IngestInv'
  BY IngestKeepsInv DEF FollowInv, SourceStep
<1>2. MirrorTypeOK'
  BY DEF FollowInv, SourceStep, MirrorTypeOK
<1>3. Known'
  BY DEF FollowInv, SourceStep, MirrorTypeOK, Known, Source
<1> QED
  BY <1>1, <1>2, <1>3 DEF FollowInv

\* The releases of a round are safe only if the listing is whole: `files ls' did
\* not fail and the holds file was read.
LEMMA MirrorKeepsFollow ==
  ASSUME ~ReadsFail, FollowInv, Mirror
  PROVE  FollowInv'
<1> USE DEF MirrorTypeOK, Known
<1>1. UNCHANGED ingestVars
  BY DEF Mirror, StartRound, ListRaw, ListDag, Copy, CopyFails, StartRelease, Release,
         StartHeads, CopyHeads, RoundFails
<1>2. IngestInv' /\ Source' = Source
  BY <1>1, IngestKeepsInv DEF FollowInv, ingestVars, Source
<1>3. MirrorTypeOK /\ Known /\ Source \subseteq Cids /\ heads[Mirrored] \in [Names -> Heads]
  BY FollowTyped DEF FollowInv
<1>4. SUFFICES MirrorTypeOK' /\ Known'
  BY <1>2 DEF FollowInv
<1>5. CASE StartRound
  BY <1>2, <1>3, <1>5 DEF StartRound
<1>6. CASE ListRaw
  <2>1. listed' = Source \cap Raw /\ round = "raw" /\ round' = "dag"
    BY <1>6, ReadsAreTrue DEF ListRaw
  <2> QED
    BY <1>2, <1>3, <1>6, <2>1 DEF ListRaw, Cids
<1>7. CASE ListDag
  <2>1. PICK local \in SUBSET Cids :
          /\ todo' = (listed \cup (Source \cap Dag)) \ local
          /\ drop' = local \ (listed \cup (Source \cap Dag))
    <3> DEFINE local == (mheld \cap Raw) \cup (mheld \cap Dag)
    <3>1. local \in SUBSET Cids
      BY <1>3
    <3>2. /\ ReadSet(Source \cap Dag) = {Source \cap Dag}
          /\ ReadSet(mheld \cap Raw) = {mheld \cap Raw}
          /\ ReadSet(mheld \cap Dag) = {mheld \cap Dag}
      BY ReadsAreTrue
    <3>3. /\ todo' = (listed \cup (Source \cap Dag)) \ local
          /\ drop' = local \ (listed \cup (Source \cap Dag))
      BY <1>7, <3>2 DEF ListDag
    <3> HIDE DEF local
    <3> QED
      BY <3>1, <3>3
  <2>2. drop' \subseteq gone
    BY <1>3, <1>7, <2>1 DEF ListDag, Cids
  <2> QED
    BY <1>2, <1>3, <1>7, <2>1, <2>2 DEF ListDag
<1>8. ASSUME NEW c \in Cids, Copy(c) \/ CopyFails(c) \/ Release(c)
      PROVE  MirrorTypeOK' /\ Known'
  <2>1. CASE Copy(c)
    <3>1. mheld' \subseteq Cids
      BY <1>3, <2>1, ReadsAreTrue DEF Copy
    <3> QED
      BY <1>2, <1>3, <2>1, <3>1 DEF Copy
  <2>2. CASE CopyFails(c)
    BY <1>2, <1>3, <1>8, <2>2 DEF CopyFails
  <2>3. CASE Release(c)
    <3>1. mheld' \subseteq Cids
      BY <1>3, <2>3, ReadsAreTrue DEF Release
    <3> QED
      BY <1>2, <1>3, <2>3, <3>1 DEF Release
  <2> QED
    BY <1>8, <2>1, <2>2, <2>3
<1>9. CASE StartRelease \/ StartHeads \/ RoundFails
  BY <1>2, <1>3, <1>9 DEF StartRelease, StartHeads, RoundFails
<1>10. CASE CopyHeads
  <2>1. mheads' \in [Names -> Heads]
    BY <1>3, <1>10, ReadsAreTrue DEF CopyHeads
  <2> QED
    BY <1>2, <1>3, <1>10, <2>1 DEF CopyHeads
<1> QED
  BY <1>5, <1>6, <1>7, <1>8, <1>9, <1>10 DEF Mirror

LEMMA FollowKept == ~ReadsFail => (FollowInv /\ [Next]_vars => FollowInv')
<1> SUFFICES ASSUME ~ReadsFail, FollowInv, [Next]_vars PROVE FollowInv'
  OBVIOUS
<1>1. CASE UNCHANGED vars
  <2>1. IngestInv'
    BY <1>1, IngestKeepsInv DEF vars, FollowInv
  <2>2. MirrorTypeOK' /\ Known'
    BY <1>1 DEF vars, ingestVars, mirrorVars, FollowInv, MirrorTypeOK, Known, Source
  <2> QED
    BY <2>1, <2>2 DEF FollowInv
<1> QED
  BY <1>1, SourceKeepsFollow, MirrorKeepsFollow DEF Next

(* What the mirror knows of its source, when no look fails: neither `files   *)
(* ls' nor the read of a holds file, at the source or here.                 *)
THEOREM MirrorInvariant == ASSUME ~ReadsFail PROVE Spec => []MirrorInv
<1>1. (Init => FollowInv) /\ (FollowInv /\ [Next]_vars => FollowInv')
  BY FollowInitial, FollowKept
<1> QED
  BY <1>1, FollowTyped, PTL DEF Spec

(* What the source holds all through a round is not released in it, unless   *)
(* `files ls' fails or a holds file cannot be read: either makes a listing   *)
(* that lacks what is held and that the mirror takes as complete.           *)
THEOREM ReleasesFollowSource == ASSUME ~ReadsFail PROVE Spec => ReleaseFollowsSource
<1>1. MirrorInv /\ [Next]_vars => [mheld \ mheld' \subseteq gone]_mheld
  <2> SUFFICES ASSUME MirrorInv, Next PROVE mheld \ mheld' \subseteq gone
    BY DEF vars, mirrorVars
  <2>1. ASSUME NEW c \in Cids, Release(c) PROVE mheld \ mheld' \subseteq gone
    <3>1. mheld \subseteq Cids /\ c \in gone
      BY <2>1 DEF Release, MirrorInv, TypeOK
    <3>2. mheld \ mheld' \subseteq {c}
      BY <2>1, <3>1, ReadsAreTrue DEF Release, Cids
    <3> QED
      BY <3>1, <3>2
  <2>2. ASSUME NEW c \in Cids, Copy(c) PROVE mheld \subseteq mheld'
    <3>1. mheld \subseteq Cids
      BY DEF MirrorInv, TypeOK
    <3> QED
      BY <2>2, <3>1, ReadsAreTrue DEF Copy, Cids
  <2> QED
    BY <2>1, <2>2 DEF Next, SourceStep, Mirror, StartRound, ListRaw, ListDag, CopyFails,
                StartRelease, StartHeads, CopyHeads, RoundFails
<1> QED
  BY <1>1, MirrorInvariant, PTL DEF Spec, ReleaseFollowsSource
=============================================================================
