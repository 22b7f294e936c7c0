---------------------------- MODULE GraphWriter ----------------------------
(***************************************************************************)
(* The graph-head writers (deploy/yataverse_writer.cljk) and the witness   *)
(* client they run as a child process (deploy/lake_head.cljk), on the inga *)
(* ref of ONE graph.  Several writers relay heads for the same graph; each *)
(* serialises its own writes, keeps a cache of the head it last saw, pins  *)
(* a document before it submits it, and learns the outcome by polling      *)
(* witnesses that may lag behind the commit.                               *)
(*                                                                         *)
(* A mirror document is [seq, prev, head]; its CID names its bytes, so the *)
(* document itself stands for its CID.  The witnesses' consensus (inga) is *)
(* not in this repository: `log', `view', Commit and Learn model it as the *)
(* code relies on it - one record per seq, first wins, and every witness   *)
(* shows some prefix of the same log.                                      *)
(***************************************************************************)
EXTENDS GraphHead, Sequences, FiniteSets

CONSTANTS
  Writers,      \* the writer processes
  Witnesses,    \* the inga witnesses of the ledger (seven in production)
  MinAgree,     \* --min: witnesses that must prove the same head (five)
  Getters,      \* the writers that serve GETs too (the follower reads one)
  Landed,       \* --landed: witnesses that must report a commit (one)
  MaxAttempts   \* submissions before submit! gives up (thirteen)

ASSUME WitnessesAssumption ==
  /\ IsFiniteSet(Witnesses)
  /\ Getters \subseteq Writers
  /\ MinAgree \in Nat /\ 2 * MinAgree > Cardinality(Witnesses)
  /\ Landed \in Nat \ {0}
  /\ MaxAttempts \in Nat \ {0}

VARIABLES
  log,        \* inga: the committed documents, seq s at index s + 1
  view,       \* inga: how many of them each witness shows
  submitted,  \* documents some writer has posted to the witnesses' mempools
  held,       \* documents the synchronous custodians hold
  cache,      \* writer -> the document of its cached head, or None
  req,        \* writer -> its running POST, or Idle
  reply,      \* the reply to a POST this step sent, or None
  got,        \* writer -> the document a running GET has read, or None
  proved      \* history: the position of the last head a verify proved

vars == <<log, view, submitted, held, cache, req, reply, got, proved>>

Register == INSTANCE GraphRegister WITH chain <- [i \in DOMAIN log |-> log[i].head]

-----------------------------------------------------------------------------
Committed == {log[i] : i \in DOMAIN log}
Docs == [seq: Nat, prev: {None} \cup Committed, head: Heads]
HeadOf(doc) == IF doc = None THEN None ELSE doc.head
NextSeq(doc) == IF doc = None THEN 0 ELSE doc.seq + 1

Phases == {"idle", "read", "decide", "pin", "submit", "poll", "lost", "reread"}

Idle == [pc |-> "idle", exp |-> None, head |-> None, cur |-> None, doc |-> None,
         retried |-> FALSE, attempt |-> 0]

\* A POST: what it asks, the document it was decided on, the document it
\* writes, whether it has been decided twice, and its submissions.
RequestState ==
  [pc: Phases, exp: Expectations, head: {None} \cup Heads, cur: {None} \cup Docs,
   doc: {None} \cup Docs, retried: BOOLEAN, attempt: 0..MaxAttempts]

ReplyState ==
  [writer: Writers, status: {200, 403, 409, 503}, doc: {None} \cup Docs]

TypeOK ==
  /\ log \in Seq(Docs)
  /\ view \in [Witnesses -> 0..Len(log)]
  /\ submitted \subseteq Docs
  /\ held \subseteq Docs
  /\ cache \in [Writers -> {None} \cup Docs]
  /\ req \in [Writers -> RequestState]
  /\ reply \in {None} \cup ReplyState
  /\ got \in [Writers -> {None} \cup Docs]
  /\ proved \in 0..Len(log)

Init ==
  /\ log = <<>>
  /\ view = [x \in Witnesses |-> 0]
  /\ submitted = {}
  /\ held = {}
  /\ cache = [w \in Writers |-> None]
  /\ req = [w \in Writers |-> Idle]
  /\ reply = None
  /\ got = [w \in Writers |-> None]
  /\ proved = 0

-----------------------------------------------------------------------------
(* inga                                                                    *)

\* The first record submitted for the next seq becomes the record of that seq.
Commit(doc) ==
  /\ doc \in submitted
  /\ doc.seq = Len(log)
  /\ log' = Append(log, doc)
  /\ reply' = None
  /\ UNCHANGED <<view, submitted, held, cache, req, got, proved>>

\* A witness writes a committed record only after its own commit.
Learn(x) ==
  /\ view[x] < Len(log)
  /\ view' = [view EXCEPT ![x] = @ + 1]
  /\ reply' = None
  /\ UNCHANGED <<log, submitted, held, cache, req, got, proved>>

-----------------------------------------------------------------------------
(* What the answers of the witnesses S amount to (`verdict').  A witness   *)
(* outside S is unreachable, or refused because its proof is not there     *)
(* yet; the code drops both alike.                                         *)

Members(S, k) == {x \in S : view[x] = k}
Positions(S) == {view[x] : x \in S} \ {0}
\* Mutant: the most common position wins however few witnesses are at it.
AgreedPlurality(S, n) ==
  {k \in Positions(S) :
     \A j \in Positions(S) : Cardinality(Members(S, j)) <= Cardinality(Members(S, k))}

Agreed(S, n) ==
  {k \in Positions(S) :
     /\ Cardinality(Members(S, k)) >= n
     /\ \A j \in Positions(S) : Cardinality(Members(S, j)) <= Cardinality(Members(S, k))}

SplitVerdict(S, n) == Agreed(S, n) = {} /\ Cardinality(Positions(S)) > 1
AbsentVerdict(S, n) == Positions(S) = {} /\ Cardinality(S) >= n
Unmeasured(S, n) == Agreed(S, n) = {} /\ ~SplitVerdict(S, n) /\ ~AbsentVerdict(S, n)

-----------------------------------------------------------------------------
(* One POST at writer w                                                    *)

Busy(w) == req[w].pc # "idle"

Goto(w, pc) == req' = [req EXCEPT ![w].pc = pc] /\ reply' = None

\* The reply ends the request: the status and, for a 200, the document.
Answer(w, status, doc) ==
  /\ req' = [req EXCEPT ![w] = Idle]
  /\ reply' = [writer |-> w, status |-> status, doc |-> doc]

\* The `.catch' behind write-step gets what its promise rejects with: the first
\* conflict of that kind has the writer decide again on a fresh read, the second
\* is answered.
Conflict(w) == IF req[w].retried THEN Answer(w, 409, None) ELSE Goto(w, "reread")

\* Writes to one graph are serialised, so a writer starts one when the one
\* before it has settled; it starts from the cache when it has an entry.
Accept(w, r) ==
  /\ ~Busy(w)
  /\ req' = [req EXCEPT ![w] =
               [pc |-> IF cache[w] = None THEN "read" ELSE "decide",
                exp |-> r.exp, head |-> r.head, cur |-> cache[w], doc |-> None,
                retried |-> FALSE, attempt |-> 0]]
  /\ reply' = None
  /\ UNCHANGED <<log, view, submitted, held, cache, got, proved>>

\* `current': a quorum proves a head, or reports none, or there is no verdict.
\* A split is thrown as a refusal, everything else as unmeasured.
Current(w, S, Found(_)) ==
  \/ \E k \in Agreed(S, MinAgree) : Found(log[k]) /\ proved' = k
  \/ AbsentVerdict(S, MinAgree) /\ Found(None) /\ UNCHANGED proved
  \/ SplitVerdict(S, MinAgree) /\ Answer(w, 403, None) /\ UNCHANGED <<cache, proved>>
  \/ Unmeasured(S, MinAgree) /\ Answer(w, 503, None) /\ UNCHANGED <<cache, proved>>

Read(w) ==
  /\ req[w].pc = "read"
  /\ LET Found(doc) == /\ req' = [req EXCEPT ![w].pc = "decide", ![w].cur = doc]
                       /\ reply' = None
                       /\ UNCHANGED cache
     IN \E S \in SUBSET Witnesses : Current(w, S, Found)
  /\ UNCHANGED <<log, view, submitted, held, got>>

\* The head is the current one already.
AlreadyHead(w) == req[w].cur # None /\ HeadOf(req[w].cur) = req[w].head

DecideCommitted(w) ==
  /\ req[w].pc = "decide"
  /\ AlreadyHead(w)
  /\ cache' = [cache EXCEPT ![w] = req[w].cur]
  /\ Answer(w, 200, req[w].cur)
  /\ UNCHANGED <<log, view, submitted, held, got, proved>>

\* `decide' throws before there is a promise to catch on, so a conflict it finds
\* is answered as it is; a cached head it was found on stays in the cache.
DecideConflict(w) ==
  /\ req[w].pc = "decide"
  /\ ~AlreadyHead(w)
  /\ ~Matches(req[w].exp, HeadOf(req[w].cur))
  /\ Answer(w, 409, None)
  /\ UNCHANGED <<log, view, submitted, held, cache, got, proved>>

DecideRefused(w) ==
  /\ req[w].pc = "decide"
  /\ ~AlreadyHead(w)
  /\ Matches(req[w].exp, HeadOf(req[w].cur))
  /\ ~Advances(req[w].head, HeadOf(req[w].cur))
  /\ Answer(w, 403, None)
  /\ UNCHANGED <<log, view, submitted, held, cache, got, proved>>

\* Mutant: the document forgets the one it was decided on.
MirrorDocUnlinked(cur, head) == [seq |-> NextSeq(cur), prev |-> None, head |-> head]

MirrorDoc(cur, head) == [seq |-> NextSeq(cur), prev |-> cur, head |-> head]

\* Mutant: the expectation is not compared again after a retry.
DecideSubmitUnexpected(w) ==
  /\ req[w].pc = "decide"
  /\ ~AlreadyHead(w)
  /\ req[w].retried \/ Matches(req[w].exp, HeadOf(req[w].cur))
  /\ Advances(req[w].head, HeadOf(req[w].cur))
  /\ req' = [req EXCEPT ![w].pc = "pin", ![w].doc = MirrorDoc(req[w].cur, req[w].head)]
  /\ reply' = None
  /\ UNCHANGED <<log, view, submitted, held, cache, got, proved>>

DecideSubmit(w) ==
  /\ req[w].pc = "decide"
  /\ ~AlreadyHead(w)
  /\ Matches(req[w].exp, HeadOf(req[w].cur))
  /\ Advances(req[w].head, HeadOf(req[w].cur))
  /\ req' = [req EXCEPT ![w].pc = "pin", ![w].doc = MirrorDoc(req[w].cur, req[w].head)]
  /\ reply' = None
  /\ UNCHANGED <<log, view, submitted, held, cache, got, proved>>

\* Mutant: a custodian that fails is left for later.
PinLater(w) ==
  /\ req[w].pc = "pin"
  /\ Goto(w, "submit")
  /\ \/ held' = held \cup {req[w].doc}
     \/ UNCHANGED held
  /\ UNCHANGED <<log, view, submitted, cache, got, proved>>

\* Every synchronous custodian returns the CID before anything is submitted.
Pin(w) ==
  /\ req[w].pc = "pin"
  /\ \/ held' = held \cup {req[w].doc} /\ Goto(w, "submit")
     \/ Answer(w, 503, None) /\ UNCHANGED held
  /\ UNCHANGED <<log, view, submitted, cache, got, proved>>

\* Mutant: submissions are not counted.
SubmitForever(w) ==
  /\ req[w].pc = "submit"
  /\ submitted' = submitted \cup {req[w].doc}
  /\ Goto(w, "poll")
  /\ UNCHANGED <<log, view, held, cache, got, proved>>

\* One submission to all witnesses, or the end of the attempts (exit 3).  A
\* submission the mempools lose is one that is never committed.
Submit(w) ==
  /\ req[w].pc = "submit"
  /\ \/ /\ req[w].attempt < MaxAttempts
        /\ submitted' = submitted \cup {req[w].doc}
        /\ req' = [req EXCEPT ![w].pc = "poll", ![w].attempt = @ + 1]
        /\ reply' = None
     \/ /\ req[w].attempt = MaxAttempts
        /\ Answer(w, 503, None)
        /\ UNCHANGED submitted
  /\ UNCHANGED <<log, view, held, cache, got, proved>>

\* Mutant: any record at this seq counts as the landing of this one.
PollBySeq(w) ==
  /\ req[w].pc = "poll"
  /\ \E S \in SUBSET Witnesses :
       IF \E k \in Agreed(S, Landed) : log[k].seq >= req[w].doc.seq
       THEN /\ cache' = [cache EXCEPT ![w] = req[w].doc]
            /\ Answer(w, 200, req[w].doc)
       ELSE Goto(w, "submit") /\ UNCHANGED cache
  /\ UNCHANGED <<log, view, submitted, held, got, proved>>

\* The landed verdict after a submission: this document (exit 0), another one
\* at this seq or a later seq (exit 1), or nothing yet, to submit again.
Poll(w) ==
  /\ req[w].pc = "poll"
  /\ \E S \in SUBSET Witnesses :
       LET Past == {k \in Agreed(S, Landed) : log[k].seq >= req[w].doc.seq}
       IN \/ \E k \in Past : /\ log[k] = req[w].doc
                             /\ cache' = [cache EXCEPT ![w] = req[w].doc]
                             /\ Answer(w, 200, req[w].doc)
          \/ \E k \in Past : log[k] # req[w].doc /\ Goto(w, "lost") /\ UNCHANGED cache
          \/ Past = {} /\ Goto(w, "submit") /\ UNCHANGED cache
  /\ UNCHANGED <<log, view, submitted, held, got, proved>>

\* The child is killed at its time limit, or fails to run.
ChildFails(w) ==
  /\ req[w].pc \in {"submit", "poll"}
  /\ Answer(w, 503, None)
  /\ UNCHANGED <<log, view, submitted, held, cache, got, proved>>

\* The seq went to another record.  If that is this same head relayed by
\* another writer, the head is committed.
Lost(w) ==
  /\ req[w].pc = "lost"
  /\ LET Found(doc) ==
           IF HeadOf(doc) = req[w].head
           THEN Answer(w, 200, doc) /\ cache' = [cache EXCEPT ![w] = doc]
           ELSE Conflict(w) /\ UNCHANGED cache
     IN \E S \in SUBSET Witnesses : Current(w, S, Found)
  /\ UNCHANGED <<log, view, submitted, held, got>>

\* After a lost sequence: a head other than the one decided on is decided on again.
Reread(w) ==
  /\ req[w].pc = "reread"
  /\ LET Found(doc) ==
           IF doc # req[w].cur
           THEN /\ cache' = [cache EXCEPT ![w] = None]
                /\ req' = [req EXCEPT ![w].pc = "decide", ![w].cur = doc, ![w].doc = None,
                                      ![w].retried = TRUE, ![w].attempt = 0]
                /\ reply' = None
           ELSE Answer(w, 409, None) /\ UNCHANGED cache
     IN \E S \in SUBSET Witnesses : Current(w, S, Found)
  /\ UNCHANGED <<log, view, submitted, held, got>>

-----------------------------------------------------------------------------
(* A GET is not serialised with the writes: what it read is put into the   *)
(* cache when its promise resolves, whatever a write has put there since.  *)

GetRead(w) ==
  /\ w \in Getters
  /\ got[w] = None
  /\ \E S \in SUBSET Witnesses : \E k \in Agreed(S, MinAgree) :
       got' = [got EXCEPT ![w] = log[k]] /\ proved' = k
  /\ reply' = None
  /\ UNCHANGED <<log, view, submitted, held, cache, req>>

GetAnswer(w) ==
  /\ got[w] # None
  /\ cache' = [cache EXCEPT ![w] = got[w]]
  /\ got' = [got EXCEPT ![w] = None]
  /\ reply' = None
  /\ UNCHANGED <<log, view, submitted, held, req, proved>>

\* A writer restarts: its cache and its running requests are gone, what it
\* pinned and submitted is not.
Restart(w) ==
  /\ req' = [req EXCEPT ![w] = Idle]
  /\ cache' = [cache EXCEPT ![w] = None]
  /\ got' = [got EXCEPT ![w] = None]
  /\ reply' = None
  /\ UNCHANGED <<log, view, submitted, held, proved>>

-----------------------------------------------------------------------------
Decide(w) == DecideCommitted(w) \/ DecideConflict(w) \/ DecideRefused(w) \/ DecideSubmit(w)

Write(w) ==
  \/ Read(w) \/ Decide(w) \/ Pin(w) \/ Submit(w) \/ Poll(w)
  \/ ChildFails(w) \/ Lost(w) \/ Reread(w)

Next ==
  \/ \E doc \in submitted : Commit(doc)
  \/ \E x \in Witnesses : Learn(x)
  \/ \E w \in Writers :
       \/ \E r \in Requests : Accept(w, r)
       \/ Write(w)
       \/ GetRead(w)
       \/ GetAnswer(w)
       \/ Restart(w)

Spec == Init /\ [][Next]_vars

\* A writer's own steps end: every child it waits for has a time limit.
FairSpec == Spec /\ \A w \in Writers : WF_vars(Write(w))

-----------------------------------------------------------------------------
(* Properties                                                              *)

\* This step answers the POST of w with this status.
Replies(w, status) == reply' # None /\ reply'.writer = w /\ reply'.status = status

\* Each committed document has the seq of its place, links to the document
\* committed just before it, and moves the head sequence forward; so a head
\* sequence names one committed head, which is why `expected' may give the
\* sequence alone.
ChainLinked ==
  \A i \in DOMAIN log :
    /\ log[i].seq = i - 1
    /\ log[i].prev = IF i = 1 THEN None ELSE log[i - 1]
    /\ Advances(log[i].head, HeadOf(log[i].prev))

\* A POST answered 200 names a committed document that carries its head,
\* although one witness's unproved word is enough for the answer.
AnsweredIsCommitted ==
  [][\A w \in Writers : Replies(w, 200) =>
       /\ reply'.doc \in Committed
       /\ reply'.doc.head = req[w].head]_vars

\* No document becomes the head before the synchronous custodians hold it,
\* through retries, restarts and submissions of another writer.
CommittedIsHeld == Committed \subseteq held

\* The writers implement the abstract register: a head is committed only for
\* a request that expected the head before it.
RegisterSpec == Register!Spec

\* What the writers rely on, in one inductive invariant.  A document that is
\* being written was built on the committed document before its seq, for a
\* request that expected exactly that one ...
Proposed(doc) ==
  /\ doc.seq <= Len(log)
  /\ doc.prev = IF doc.seq = 0 THEN None ELSE log[doc.seq]
  /\ Advances(doc.head, HeadOf(doc.prev))
  /\ \E r \in Requests : r.head = doc.head /\ Matches(r.exp, HeadOf(doc.prev))

\* ... is held before it is submitted ...
SubmittedInv == \A doc \in submitted : Proposed(doc) /\ doc \in held

\* ... and everything a writer remembers to have read is committed.
RequestOK(q) ==
  /\ q.cur \in {None} \cup Committed
  /\ q.pc # "idle" => [exp |-> q.exp, head |-> q.head] \in Requests
  /\ q.pc \in {"pin", "submit", "poll", "lost"} =>
       q.doc \in Docs /\ Proposed(q.doc) /\ q.doc.head = q.head
  /\ q.pc \in {"submit", "poll", "lost"} => q.doc \in held

RequestInv ==
  \A w \in Writers :
    /\ cache[w] \in {None} \cup Committed
    /\ got[w] \in {None} \cup Committed
    /\ RequestOK(req[w])

\* A proved head is shown by enough witnesses to meet every later quorum.
ProvedInv ==
  \E Q \in SUBSET Witnesses :
    /\ Cardinality(Q) >= MinAgree
    /\ \A x \in Q : view[x] >= proved

WriterInv ==
  /\ TypeOK /\ ChainLinked /\ SubmittedInv /\ CommittedIsHeld
  /\ RequestInv /\ (proved > 0 => ProvedInv)

\* Two verified reads never go back in time, whichever witnesses answer:
\* quorums intersect and a witness never shows less than it did.
ProvedNeverGoesBack == [][proved' >= proved]_proved

\* What the comment at yataverse_writer.cljk:224-225 says of a stale cache: no
\* POST is refused on a cached head while it expects the head that every
\* witness shows, since a fresh read would have let it pass.
CachedConflictIsReal ==
  [][\A w \in Writers :
       /\ Replies(w, 409)
       /\ cache[w] # None /\ req[w].cur = cache[w]
       /\ log # <<>> /\ \A x \in Witnesses : view[x] = Len(log)
       => ~Matches(req[w].exp, log[Len(log)].head)]_vars

\* Every accepted POST is answered (or its writer restarts), even when no
\* witness ever commits: the attempts are bounded.
PostIsAnswered == \A w \in Writers : Busy(w) ~> ~Busy(w)
=============================================================================
