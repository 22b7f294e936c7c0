------------------------- MODULE GraphWriterProofs -------------------------
(***************************************************************************)
(* Theorems about GraphWriter for every set of writers and witnesses,      *)
(* every quorum size above half and every set of requests.                 *)
(***************************************************************************)
EXTENDS GraphWriter, FiniteSetTheorems, TLAPS

\* The initial state satisfies the invariant.
LEMMA InitInv == Init => WriterInv
<1> SUFFICES ASSUME Init PROVE WriterInv
  OBVIOUS
<1>1. Committed = {}
  BY DEF Init, Committed
<1>2. TypeOK
  <2>1. Idle \in RequestState
    BY WitnessesAssumption DEF Idle, Phases, Expectations, RequestState
  <2> QED
    BY <2>1 DEF Init, TypeOK
<1>3. ChainLinked /\ SubmittedInv /\ CommittedIsHeld
  BY <1>1 DEF Init, ChainLinked, SubmittedInv, CommittedIsHeld
<1>4. RequestInv
  BY DEF Init, RequestInv, RequestOK, Idle
<1> QED
  BY <1>2, <1>3, <1>4 DEF WriterInv, Init

-----------------------------------------------------------------------------
(* Steps that leave the log alone                                          *)

\* While the log does not change, neither does what its documents may be.
LEMMA SameLog ==
  ASSUME log' = log
  PROVE  /\ Committed' = Committed /\ Docs' = Docs
         /\ RequestState' = RequestState /\ ReplyState' = ReplyState
         /\ \A doc : Proposed(doc)' = Proposed(doc)
<1>1. Committed' = Committed /\ Docs' = Docs
  BY DEF Committed, Docs
<1> QED
  BY <1>1 DEF RequestState, ReplyState, Proposed

\* The positions witnesses agree on are positions of the log.
LEMMA AgreedInLog ==
  ASSUME TypeOK, NEW S \in SUBSET Witnesses, NEW n, NEW k \in Agreed(S, n)
  PROVE  k \in 1..Len(log) /\ k \in DOMAIN log /\ log[k] \in Committed /\ log[k] \in Docs
<1>1. PICK x \in S : k = view[x] /\ view[x] # 0
  BY DEF Agreed, Positions
<1>2. k \in 1..Len(log)
  BY <1>1 DEF TypeOK
<1> QED
  BY <1>2 DEF TypeOK, Committed

\* A position a quorum agrees on is shown by a quorum.
LEMMA AgreedIsShown ==
  ASSUME NEW S \in SUBSET Witnesses, NEW k \in Agreed(S, MinAgree), TypeOK
  PROVE  \E Q \in SUBSET Witnesses : /\ Cardinality(Q) >= MinAgree
                                     /\ \A x \in Q : view[x] >= k
<1>1. /\ Members(S, k) \in SUBSET Witnesses
      /\ Cardinality(Members(S, k)) >= MinAgree
      /\ \A x \in Members(S, k) : view[x] >= k
  BY AgreedInLog DEF Agreed, Members, TypeOK
<1> QED
  BY <1>1

\* Only the request of one writer, what is cached, read, held, submitted and
\* proved can change in a step of a writer.
LEMMA WriterStep ==
  ASSUME WriterInv, log' = log, view' = view,
         held \subseteq held', held' \subseteq Docs,
         submitted' \subseteq Docs,
         \A doc \in submitted' : Proposed(doc) /\ doc \in held',
         cache' \in [Writers -> {None} \cup Committed],
         got' \in [Writers -> {None} \cup Committed],
         NEW w \in Writers,
         req' \in [Writers -> RequestState],
         \A v \in Writers \ {w} : req'[v] = req[v],
         RequestOK(req[w])',
         reply' \in {None} \cup ReplyState,
         proved' = proved \/ \E S \in SUBSET Witnesses : proved' \in Agreed(S, MinAgree)
  PROVE  WriterInv'
<1> USE DEF WriterInv
<1>1. Committed \subseteq Docs
  BY DEF TypeOK, Committed
<1>2. proved' \in 0..Len(log) /\ (proved' > 0 => ProvedInv')
  <2>1. CASE proved' = proved
    BY <2>1 DEF TypeOK, ProvedInv
  <2>2. CASE \E S \in SUBSET Witnesses : proved' \in Agreed(S, MinAgree)
    BY <2>2, AgreedInLog, AgreedIsShown DEF ProvedInv
  <2> QED
    BY <2>1, <2>2
<1>3. TypeOK'
  BY <1>1, <1>2, SameLog DEF TypeOK
<1>4. ChainLinked' /\ SubmittedInv' /\ CommittedIsHeld'
  BY SameLog DEF ChainLinked, SubmittedInv, CommittedIsHeld
<1>5. RequestInv'
  <2> SUFFICES ASSUME NEW v \in Writers
               PROVE  /\ cache'[v] \in {None} \cup Committed'
                      /\ got'[v] \in {None} \cup Committed'
                      /\ RequestOK(req[v])'
    BY DEF RequestInv
  <2>1. CASE v = w
    BY <2>1, SameLog
  <2>2. CASE v # w
    <3>1. RequestOK(req[v])
      BY DEF RequestInv
    <3>2. req'[v] = req[v]
      BY <2>2
    <3> QED
      BY <3>1, <3>2, SameLog DEF RequestOK
  <2> QED
    BY <2>1, <2>2
<1> QED
  BY <1>2, <1>3, <1>4, <1>5

-----------------------------------------------------------------------------
(* One lemma per shape of step                                             *)

\* A reply leaves its writer idle, whatever was asked.
LEMMA AnswerStep ==
  ASSUME WriterInv, log' = log, NEW w \in Writers,
         NEW status \in {200, 403, 409, 503}, NEW doc \in {None} \cup Docs,
         Answer(w, status, doc)
  PROVE  /\ req' \in [Writers -> RequestState]
         /\ \A v \in Writers \ {w} : req'[v] = req[v]
         /\ RequestOK(req[w])'
         /\ reply' \in {None} \cup ReplyState
<1>1. Idle \in RequestState
  BY WitnessesAssumption DEF Idle, Phases, Expectations, RequestState
<1>2. req' = [req EXCEPT ![w] = Idle] /\ req \in [Writers -> RequestState]
  BY DEF Answer, WriterInv, TypeOK
<1>3. req'[w] = Idle
  BY <1>2
<1>4. RequestOK(req[w])'
  BY <1>3 DEF RequestOK, Idle
<1>5. reply' \in ReplyState
  BY DEF Answer, ReplyState
<1> QED
  BY <1>1, <1>2, <1>4, <1>5

\* A change of phase alone keeps a request well formed, as long as the new
\* phase promises no more than the old one.
LEMMA GotoStep ==
  ASSUME WriterInv, log' = log, held \subseteq held', NEW w \in Writers,
         NEW pc \in Phases, Goto(w, pc), Busy(w),
         pc \in {"submit", "poll", "lost"} =>
            /\ req[w].pc \in {"pin", "submit", "poll", "lost"}
            /\ req[w].doc \in held',
         pc # "pin"
  PROVE  /\ req' \in [Writers -> RequestState]
         /\ \A v \in Writers \ {w} : req'[v] = req[v]
         /\ RequestOK(req[w])'
         /\ reply' \in {None} \cup ReplyState
<1>1. /\ req' = [req EXCEPT ![w].pc = pc]
      /\ req \in [Writers -> RequestState] /\ RequestOK(req[w])
  BY DEF Goto, WriterInv, TypeOK, RequestInv
<1>2. req[w] \in RequestState
  BY <1>1
<1>3. /\ req'[w] = [req[w] EXCEPT !.pc = pc]
      /\ req'[w] \in RequestState
      /\ req' \in [Writers -> RequestState]
  BY <1>1, <1>2 DEF RequestState
<1>4. RequestOK(req[w])'
  BY <1>1, <1>2, <1>3, SameLog DEF RequestOK, RequestState, Busy
<1> QED
  BY <1>1, <1>3, <1>4 DEF Goto

\* What a writer remembers, and everything else it leaves alone, is in place.
LEMMA Remembered ==
  ASSUME WriterInv
  PROVE  /\ cache \in [Writers -> {None} \cup Committed]
         /\ got \in [Writers -> {None} \cup Committed]
         /\ held \subseteq Docs /\ submitted \subseteq Docs
         /\ \A doc \in submitted : Proposed(doc) /\ doc \in held
         /\ \A w \in Writers : req[w] \in RequestState /\ RequestOK(req[w])
         /\ Committed \subseteq Docs
BY DEF WriterInv, TypeOK, RequestInv, SubmittedInv, Committed

LEMMA AnswerKeepsInv ==
  ASSUME WriterInv, NEW w \in Writers,
         NEW status \in {200, 403, 409, 503}, NEW doc \in {None} \cup Committed,
         Answer(w, status, doc),
         log' = log, view' = view, submitted' = submitted, held' = held, got' = got,
         cache' \in [Writers -> {None} \cup Committed],
         proved' = proved \/ \E S \in SUBSET Witnesses : proved' \in Agreed(S, MinAgree)
  PROVE  WriterInv'
<1>1. doc \in {None} \cup Docs
  BY Remembered
<1>2. /\ req' \in [Writers -> RequestState]
      /\ \A v \in Writers \ {w} : req'[v] = req[v]
      /\ RequestOK(req[w])'
      /\ reply' \in {None} \cup ReplyState
  BY <1>1, AnswerStep
<1> QED
  BY <1>1, <1>2, Remembered, WriterStep

LEMMA GotoKeepsInv ==
  ASSUME WriterInv, NEW w \in Writers, NEW pc \in Phases \ {"pin"}, Goto(w, pc), Busy(w),
         pc \in {"submit", "poll", "lost"} => req[w].pc \in {"submit", "poll", "lost"},
         log' = log, view' = view, submitted' = submitted, held' = held, got' = got,
         cache' = cache,
         proved' = proved \/ \E S \in SUBSET Witnesses : proved' \in Agreed(S, MinAgree)
  PROVE  WriterInv'
<1>1. /\ req' \in [Writers -> RequestState]
      /\ \A v \in Writers \ {w} : req'[v] = req[v]
      /\ RequestOK(req[w])'
      /\ reply' \in {None} \cup ReplyState
  BY GotoStep, Remembered DEF RequestOK
<1> QED
  BY <1>1, Remembered, WriterStep

LEMMA ConflictKeepsInv ==
  ASSUME WriterInv, NEW w \in Writers, Conflict(w), Busy(w),
         log' = log, view' = view, submitted' = submitted, held' = held, got' = got,
         cache' = cache,
         proved' = proved \/ \E S \in SUBSET Witnesses : proved' \in Agreed(S, MinAgree)
  PROVE  WriterInv'
BY AnswerKeepsInv, Remembered, GotoKeepsInv DEF Conflict, Phases

LEMMA AcceptKeepsInv ==
  ASSUME WriterInv, NEW w \in Writers, NEW r \in Requests, Accept(w, r)
  PROVE  WriterInv'
<1> DEFINE q == [pc |-> IF cache[w] = None THEN "read" ELSE "decide",
                 exp |-> r.exp, head |-> r.head, cur |-> cache[w], doc |-> None,
                 retried |-> FALSE, attempt |-> 0]
<1>1. /\ r \in [exp: Expectations, head: Heads]
      /\ [exp |-> r.exp, head |-> r.head] = r
  BY RequestsAssumption
<1>2. cache[w] \in {None} \cup Committed /\ cache[w] \in {None} \cup Docs
  BY Remembered
<1>3. q \in RequestState
  <2>1. r.exp \in Expectations /\ r.head \in Heads /\ 0 \in 0..MaxAttempts
    BY <1>1, WitnessesAssumption
  <2> QED
    BY <2>1, <1>2 DEF RequestState, Phases
<1>4. req' = [req EXCEPT ![w] = q] /\ req \in [Writers -> RequestState]
  BY DEF Accept, WriterInv, TypeOK
<1>5. req'[w] = q
  BY <1>4
<1>6. RequestOK(req[w])'
  <2>1. q.cur = cache[w] /\ q.exp = r.exp /\ q.head = r.head /\ q.pc \in {"read", "decide"}
    OBVIOUS
  <2>2. log' = log /\ held' = held
    BY DEF Accept
  <2> QED
    BY <1>1, <1>2, <1>5, <2>1, <2>2, SameLog DEF RequestOK
<1>7. req' \in [Writers -> RequestState] /\ \A v \in Writers \ {w} : req'[v] = req[v]
  BY <1>3, <1>4
<1> HIDE DEF q
<1> QED
  BY <1>6, <1>7, Remembered, WriterStep DEF Accept

LEMMA PinKeepsInv ==
  ASSUME WriterInv, NEW w \in Writers, Pin(w)
  PROVE  WriterInv'
<1>1. /\ req[w].pc = "pin" /\ log' = log /\ view' = view
      /\ submitted' = submitted /\ cache' = cache /\ got' = got /\ proved' = proved
  BY DEF Pin
<1>2. req[w].doc \in Docs
  BY <1>1, Remembered DEF RequestOK, RequestState
<1>3. CASE held' = held \cup {req[w].doc} /\ Goto(w, "submit")
  <2>1. /\ req' \in [Writers -> RequestState]
        /\ \A v \in Writers \ {w} : req'[v] = req[v]
        /\ RequestOK(req[w])'
        /\ reply' \in {None} \cup ReplyState
    BY <1>1, <1>3, GotoStep DEF Phases, Busy
  <2> QED
    BY <1>1, <1>2, <1>3, <2>1, Remembered, WriterStep
<1>4. CASE Answer(w, 503, None) /\ UNCHANGED held
  BY <1>1, <1>4, AnswerKeepsInv, Remembered
<1> QED
  BY <1>3, <1>4 DEF Pin

\* A request that goes on with a committed document, or with none, is well
\* formed.
LEMMA DecideOnStep ==
  ASSUME WriterInv, log' = log, NEW w \in Writers, Busy(w),
         NEW doc \in {None} \cup Committed,
         \/ req' = [req EXCEPT ![w].pc = "decide", ![w].cur = doc]
         \/ req' = [req EXCEPT ![w].pc = "decide", ![w].cur = doc, ![w].doc = None,
                               ![w].retried = TRUE, ![w].attempt = 0]
  PROVE  /\ req' \in [Writers -> RequestState]
         /\ \A v \in Writers \ {w} : req'[v] = req[v]
         /\ RequestOK(req[w])'
<1>1. /\ req[w] \in RequestState /\ RequestOK(req[w])
      /\ req \in [Writers -> RequestState]
      /\ doc \in {None} \cup Docs
      /\ 0 \in 0..MaxAttempts
  BY Remembered, WitnessesAssumption DEF WriterInv, TypeOK
<1>2. /\ req'[w] \in RequestState
      /\ req'[w].pc = "decide" /\ req'[w].cur = doc
      /\ req'[w].exp = req[w].exp /\ req'[w].head = req[w].head
      /\ req' \in [Writers -> RequestState]
  BY <1>1 DEF RequestState, Phases
<1>3. RequestOK(req[w])'
  BY <1>1, <1>2, SameLog DEF RequestOK, Busy
<1> QED
  BY <1>2, <1>3

LEMMA ReadKeepsInv ==
  ASSUME WriterInv, NEW w \in Writers, Read(w)
  PROVE  WriterInv'
<1>1. /\ req[w].pc = "read" /\ log' = log /\ view' = view
      /\ submitted' = submitted /\ held' = held /\ got' = got
  BY DEF Read
<1>2. PICK S \in SUBSET Witnesses :
        \/ \E k \in Agreed(S, MinAgree) :
              /\ req' = [req EXCEPT ![w].pc = "decide", ![w].cur = log[k]]
              /\ reply' = None /\ cache' = cache /\ proved' = k
        \/ /\ req' = [req EXCEPT ![w].pc = "decide", ![w].cur = None]
           /\ reply' = None /\ cache' = cache /\ proved' = proved
        \/ Answer(w, 403, None) /\ cache' = cache /\ proved' = proved
        \/ Answer(w, 503, None) /\ cache' = cache /\ proved' = proved
  BY DEF Read, Current
<1>3. CASE \E k \in Agreed(S, MinAgree) :
             /\ req' = [req EXCEPT ![w].pc = "decide", ![w].cur = log[k]]
             /\ reply' = None /\ cache' = cache /\ proved' = k
  <2>1. PICK k \in Agreed(S, MinAgree) :
          /\ req' = [req EXCEPT ![w].pc = "decide", ![w].cur = log[k]]
          /\ reply' = None /\ cache' = cache /\ proved' = k
    BY <1>3
  <2>2. log[k] \in {None} \cup Committed
    BY AgreedInLog DEF WriterInv
  <2>3. /\ req' \in [Writers -> RequestState]
        /\ \A v \in Writers \ {w} : req'[v] = req[v]
        /\ RequestOK(req[w])'
    BY <1>1, <2>1, <2>2, DecideOnStep DEF Busy
  <2> QED
    BY <1>1, <2>1, <2>3, Remembered, WriterStep
<1>4. CASE /\ req' = [req EXCEPT ![w].pc = "decide", ![w].cur = None]
           /\ reply' = None /\ cache' = cache /\ proved' = proved
  <2>1. /\ req' \in [Writers -> RequestState]
        /\ \A v \in Writers \ {w} : req'[v] = req[v]
        /\ RequestOK(req[w])'
    BY <1>1, <1>4, DecideOnStep DEF Busy
  <2> QED
    BY <1>1, <1>4, <2>1, Remembered, WriterStep
<1>5. ASSUME NEW status \in {403, 503}, Answer(w, status, None),
             cache' = cache, proved' = proved
      PROVE  WriterInv'
  BY <1>1, <1>5, AnswerKeepsInv, Remembered
<1> QED
  BY <1>2, <1>3, <1>4, <1>5

\* The document a writer builds next links to the document it decided on.
LEMMA MirrorDocProposed ==
  ASSUME WriterInv, NEW cur \in {None} \cup Committed, NEW r \in Requests,
         Matches(r.exp, HeadOf(cur)), Advances(r.head, HeadOf(cur))
  PROVE  LET doc == MirrorDoc(cur, r.head)
         IN  doc \in Docs /\ Proposed(doc) /\ doc.head = r.head
<1> DEFINE doc == MirrorDoc(cur, r.head)
<1> SUFFICES doc \in Docs /\ Proposed(doc) /\ doc.head = r.head
  OBVIOUS
<1>1. doc.seq = NextSeq(cur) /\ doc.prev = cur /\ doc.head = r.head
  BY DEF MirrorDoc
<1>2. /\ NextSeq(cur) \in Nat
      /\ NextSeq(cur) <= Len(log)
      /\ cur = IF NextSeq(cur) = 0 THEN None ELSE log[NextSeq(cur)]
  <2>1. CASE cur = None
    BY <2>1 DEF NextSeq, WriterInv, TypeOK
  <2>2. CASE cur # None
    <3>1. PICK i \in DOMAIN log : cur = log[i]
      BY <2>2 DEF Committed
    <3>2. i \in 1..Len(log) /\ cur.seq = i - 1
      BY <3>1 DEF WriterInv, TypeOK, ChainLinked
    <3> QED
      BY <2>2, <3>1, <3>2 DEF NextSeq
  <2> QED
    BY <2>1, <2>2
<1>3. r.head \in Heads
  BY RequestsAssumption
<1>4. doc \in Docs
  BY <1>2, <1>3 DEF MirrorDoc, Docs
<1>5. Proposed(doc)
  BY <1>1, <1>2 DEF Proposed
<1> QED
  BY <1>1, <1>4, <1>5

LEMMA DecideKeepsInv ==
  ASSUME WriterInv, NEW w \in Writers, Decide(w)
  PROVE  WriterInv'
<1>1. /\ req[w].pc = "decide" /\ log' = log /\ view' = view /\ submitted' = submitted
      /\ held' = held /\ got' = got /\ proved' = proved
  BY DEF Decide, DecideCommitted, DecideConflict, DecideRefused, DecideSubmit
<1>2. req[w].cur \in {None} \cup Committed
  BY Remembered DEF RequestOK
<1>3. CASE DecideCommitted(w)
  <2>1. /\ cache' = [cache EXCEPT ![w] = req[w].cur]
        /\ Answer(w, 200, req[w].cur)
    BY <1>3 DEF DecideCommitted
  <2>2. cache' \in [Writers -> {None} \cup Committed]
    BY <1>2, <2>1, Remembered
  <2> QED
    BY <1>1, <1>2, <2>1, <2>2, AnswerKeepsInv
<1>4. CASE DecideConflict(w)
  BY <1>1, <1>4, AnswerKeepsInv, Remembered DEF DecideConflict
<1>5. CASE DecideRefused(w)
  BY <1>1, <1>5, AnswerKeepsInv, Remembered DEF DecideRefused
<1>6. CASE DecideSubmit(w)
  <2> DEFINE doc == MirrorDoc(req[w].cur, req[w].head)
  <2>1. /\ req' = [req EXCEPT ![w].pc = "pin", ![w].doc = doc]
        /\ reply' = None /\ cache' = cache
        /\ Matches(req[w].exp, HeadOf(req[w].cur))
        /\ Advances(req[w].head, HeadOf(req[w].cur))
    BY <1>6 DEF DecideSubmit
  <2>2. [exp |-> req[w].exp, head |-> req[w].head] \in Requests
    BY <1>1, Remembered DEF RequestOK
  <2>3. doc \in Docs /\ Proposed(doc) /\ doc.head = req[w].head
    <3> DEFINE r == [exp |-> req[w].exp, head |-> req[w].head]
    <3>1. r \in Requests /\ Matches(r.exp, HeadOf(req[w].cur)) /\ Advances(r.head, HeadOf(req[w].cur))
      BY <2>1, <2>2
    <3>2. r.head = req[w].head
      OBVIOUS
    <3> HIDE DEF r
    <3> QED
      BY <1>2, <3>1, <3>2, MirrorDocProposed
  <2> HIDE DEF doc
  <2>4. /\ req' \in [Writers -> RequestState]
        /\ \A v \in Writers \ {w} : req'[v] = req[v]
        /\ RequestOK(req[w])'
    <3>1. /\ req[w] \in RequestState /\ RequestOK(req[w])
          /\ req \in [Writers -> RequestState]
      BY Remembered DEF WriterInv, TypeOK
    <3>2. /\ req'[w] \in RequestState
          /\ req'[w].pc = "pin" /\ req'[w].doc = doc /\ req'[w].cur = req[w].cur
          /\ req'[w].exp = req[w].exp /\ req'[w].head = req[w].head
          /\ req' \in [Writers -> RequestState]
      BY <2>1, <2>3, <3>1 DEF RequestState, Phases
    <3> QED
      BY <1>1, <2>1, <2>2, <2>3, <3>1, <3>2, SameLog DEF RequestOK
  <2> QED
    BY <1>1, <2>1, <2>4, Remembered, WriterStep
<1> QED
  BY <1>3, <1>4, <1>5, <1>6 DEF Decide

LEMMA SubmitKeepsInv ==
  ASSUME WriterInv, NEW w \in Writers, Submit(w)
  PROVE  WriterInv'
<1>1. /\ req[w].pc = "submit" /\ log' = log /\ view' = view /\ cache' = cache
      /\ held' = held /\ got' = got /\ proved' = proved
  BY DEF Submit
<1>2. CASE /\ req[w].attempt < MaxAttempts
           /\ submitted' = submitted \cup {req[w].doc}
           /\ req' = [req EXCEPT ![w].pc = "poll", ![w].attempt = @ + 1]
           /\ reply' = None
  <2>1. /\ req[w] \in RequestState /\ RequestOK(req[w])
        /\ req \in [Writers -> RequestState]
    BY Remembered DEF WriterInv, TypeOK
  <2>2. req[w].doc \in Docs /\ Proposed(req[w].doc) /\ req[w].doc \in held
    BY <1>1, <2>1 DEF RequestOK
  <2>3. /\ req'[w] \in RequestState
        /\ req'[w].pc = "poll" /\ req'[w].doc = req[w].doc /\ req'[w].cur = req[w].cur
        /\ req'[w].exp = req[w].exp /\ req'[w].head = req[w].head
        /\ req' \in [Writers -> RequestState]
        /\ \A v \in Writers \ {w} : req'[v] = req[v]
    <3>1. req[w].attempt + 1 \in 0..MaxAttempts
      BY <1>2, <2>1, WitnessesAssumption DEF RequestState
    <3> QED
      BY <1>2, <2>1, <3>1 DEF RequestState, Phases
  <2>4. RequestOK(req[w])'
    BY <1>1, <2>1, <2>2, <2>3, SameLog DEF RequestOK
  <2> QED
    BY <1>1, <1>2, <2>2, <2>3, <2>4, Remembered, WriterStep
<1>3. CASE Answer(w, 503, None) /\ UNCHANGED submitted
  BY <1>1, <1>3, AnswerKeepsInv, Remembered
<1> QED
  BY <1>2, <1>3 DEF Submit

LEMMA PollKeepsInv ==
  ASSUME WriterInv, NEW w \in Writers, Poll(w)
  PROVE  WriterInv'
<1>1. /\ req[w].pc = "poll" /\ log' = log /\ view' = view /\ submitted' = submitted
      /\ held' = held /\ got' = got /\ proved' = proved
  BY DEF Poll
<1>2. \/ \E S \in SUBSET Witnesses : \E k \in Agreed(S, Landed) :
           /\ log[k] = req[w].doc
           /\ cache' = [cache EXCEPT ![w] = req[w].doc]
           /\ Answer(w, 200, req[w].doc)
      \/ Goto(w, "lost") /\ cache' = cache
      \/ Goto(w, "submit") /\ cache' = cache
  BY DEF Poll
<1>3. ASSUME NEW S \in SUBSET Witnesses, NEW k \in Agreed(S, Landed),
             log[k] = req[w].doc, cache' = [cache EXCEPT ![w] = req[w].doc],
             Answer(w, 200, req[w].doc)
      PROVE  WriterInv'
  <2>1. req[w].doc \in Committed
    BY <1>3, AgreedInLog DEF WriterInv
  <2>2. cache' \in [Writers -> {None} \cup Committed]
    BY <1>3, <2>1, Remembered
  <2> QED
    BY <1>1, <1>3, <2>1, <2>2, AnswerKeepsInv
<1>4. CASE Goto(w, "lost") /\ cache' = cache
  BY <1>1, <1>4, GotoKeepsInv DEF Busy, Phases
<1>5. CASE Goto(w, "submit") /\ cache' = cache
  BY <1>1, <1>5, GotoKeepsInv DEF Busy, Phases
<1> QED
  BY <1>2, <1>3, <1>4, <1>5

LEMMA ChildFailsKeepsInv ==
  ASSUME WriterInv, NEW w \in Writers, ChildFails(w)
  PROVE  WriterInv'
BY AnswerKeepsInv, Remembered DEF ChildFails

\* Both ways a request that lost its seq can go on: answered with the head the
\* witnesses prove, or in conflict with it.
LEMMA LostKeepsInv ==
  ASSUME WriterInv, NEW w \in Writers, Lost(w)
  PROVE  WriterInv'
<1>1. /\ req[w].pc = "lost" /\ log' = log /\ view' = view /\ submitted' = submitted
      /\ held' = held /\ got' = got
  BY DEF Lost
<1>2. PICK S \in SUBSET Witnesses :
        \/ \E k \in Agreed(S, MinAgree) :
              /\ \/ Answer(w, 200, log[k]) /\ cache' = [cache EXCEPT ![w] = log[k]]
                 \/ Conflict(w) /\ cache' = cache
              /\ proved' = k
        \/ /\ \/ Answer(w, 200, None) /\ cache' = [cache EXCEPT ![w] = None]
              \/ Conflict(w) /\ cache' = cache
           /\ proved' = proved
        \/ Answer(w, 403, None) /\ cache' = cache /\ proved' = proved
        \/ Answer(w, 503, None) /\ cache' = cache /\ proved' = proved
  BY DEF Lost, Current
<1>3. ASSUME NEW doc \in {None} \cup Committed,
             proved' = proved \/ proved' \in Agreed(S, MinAgree),
             \/ Answer(w, 200, doc) /\ cache' = [cache EXCEPT ![w] = doc]
             \/ Conflict(w) /\ cache' = cache
      PROVE  WriterInv'
  <2>1. CASE Answer(w, 200, doc) /\ cache' = [cache EXCEPT ![w] = doc]
    <3>1. cache' \in [Writers -> {None} \cup Committed]
      BY <1>3, <2>1, Remembered
    <3> QED
      BY <1>1, <1>3, <2>1, <3>1, AnswerKeepsInv
  <2>2. CASE Conflict(w) /\ cache' = cache
    BY <1>1, <1>3, <2>2, ConflictKeepsInv DEF Busy
  <2> QED
    BY <1>3, <2>1, <2>2
<1>4. ASSUME NEW status \in {403, 503}, Answer(w, status, None),
             cache' = cache, proved' = proved
      PROVE  WriterInv'
  BY <1>1, <1>4, AnswerKeepsInv, Remembered
<1>5. \A k \in Agreed(S, MinAgree) : log[k] \in {None} \cup Committed
  BY AgreedInLog DEF WriterInv
<1> QED
  BY <1>2, <1>3, <1>4, <1>5

LEMMA RereadKeepsInv ==
  ASSUME WriterInv, NEW w \in Writers, Reread(w)
  PROVE  WriterInv'
<1>1. /\ req[w].pc = "reread" /\ log' = log /\ view' = view /\ submitted' = submitted
      /\ held' = held /\ got' = got
  BY DEF Reread
<1> DEFINE DecideOn(doc) ==
             /\ cache' = [cache EXCEPT ![w] = None]
             /\ req' = [req EXCEPT ![w].pc = "decide", ![w].cur = doc, ![w].doc = None,
                                   ![w].retried = TRUE, ![w].attempt = 0]
             /\ reply' = None
<1>2. PICK S \in SUBSET Witnesses :
        \/ \E k \in Agreed(S, MinAgree) :
              /\ DecideOn(log[k]) \/ (Answer(w, 409, None) /\ cache' = cache)
              /\ proved' = k
        \/ /\ DecideOn(None) \/ (Answer(w, 409, None) /\ cache' = cache)
           /\ proved' = proved
        \/ Answer(w, 403, None) /\ cache' = cache /\ proved' = proved
        \/ Answer(w, 503, None) /\ cache' = cache /\ proved' = proved
  BY DEF Reread, Current
<1>3. ASSUME NEW doc \in {None} \cup Committed, DecideOn(doc),
             proved' = proved \/ proved' \in Agreed(S, MinAgree)
      PROVE  WriterInv'
  <2>1. /\ req' \in [Writers -> RequestState]
        /\ \A v \in Writers \ {w} : req'[v] = req[v]
        /\ RequestOK(req[w])'
    BY <1>1, <1>3, DecideOnStep DEF Busy
  <2>2. cache' \in [Writers -> {None} \cup Committed] /\ reply' = None
    BY <1>3, Remembered
  <2> QED
    BY <1>1, <1>3, <2>1, <2>2, Remembered, WriterStep
<1>4. ASSUME NEW status \in {403, 409, 503}, Answer(w, status, None), cache' = cache,
             proved' = proved \/ proved' \in Agreed(S, MinAgree)
      PROVE  WriterInv'
  BY <1>1, <1>4, AnswerKeepsInv, Remembered
<1>5. \A k \in Agreed(S, MinAgree) : log[k] \in {None} \cup Committed
  BY AgreedInLog DEF WriterInv
<1> HIDE DEF DecideOn
<1> QED
  BY <1>2, <1>3, <1>4, <1>5

LEMMA GetKeepsInv ==
  ASSUME WriterInv, NEW w \in Writers, GetRead(w) \/ GetAnswer(w)
  PROVE  WriterInv'
<1>1. /\ log' = log /\ view' = view /\ submitted' = submitted /\ held' = held
      /\ req' = req /\ reply' = None
  BY DEF GetRead, GetAnswer
<1>2. /\ req' \in [Writers -> RequestState]
      /\ RequestOK(req[w])'
  BY <1>1, Remembered, SameLog DEF WriterInv, TypeOK, RequestOK
<1>3. CASE GetRead(w)
  <2>1. PICK S \in SUBSET Witnesses : \E k \in Agreed(S, MinAgree) :
          got' = [got EXCEPT ![w] = log[k]] /\ proved' = k
    BY <1>3 DEF GetRead
  <2>2. /\ got' \in [Writers -> {None} \cup Committed] /\ cache' = cache
        /\ proved' \in Agreed(S, MinAgree)
    BY <1>3, <2>1, Remembered, AgreedInLog DEF GetRead, WriterInv
  <2> QED
    BY <1>1, <1>2, <2>2, Remembered, WriterStep
<1>4. CASE GetAnswer(w)
  <2>1. /\ got' \in [Writers -> {None} \cup Committed]
        /\ cache' \in [Writers -> {None} \cup Committed]
        /\ proved' = proved
    BY <1>4, Remembered DEF GetAnswer
  <2> QED
    BY <1>1, <1>2, <2>1, Remembered, WriterStep
<1> QED
  BY <1>3, <1>4

LEMMA RestartKeepsInv ==
  ASSUME WriterInv, NEW w \in Writers, Restart(w)
  PROVE  WriterInv'
<1>1. Idle \in RequestState
  BY WitnessesAssumption DEF Idle, Phases, Expectations, RequestState
<1>2. /\ req' \in [Writers -> RequestState]
      /\ \A v \in Writers \ {w} : req'[v] = req[v]
      /\ req'[w] = Idle
  BY <1>1 DEF Restart, WriterInv, TypeOK
<1>3. RequestOK(req[w])'
  BY <1>2 DEF RequestOK, Idle
<1>4. /\ got' \in [Writers -> {None} \cup Committed]
      /\ cache' \in [Writers -> {None} \cup Committed]
  BY Remembered DEF Restart
<1> QED
  BY <1>2, <1>3, <1>4, Remembered, WriterStep DEF Restart

-----------------------------------------------------------------------------
(* The steps of the witnesses                                              *)

\* A longer log keeps every committed document, and every document that was a
\* fit one to commit stays one that fits behind the same predecessor.
LEMMA LongerLog ==
  ASSUME log \in Seq(Docs), NEW doc, log' = Append(log, doc)
  PROVE  /\ Len(log') = Len(log) + 1
         /\ \A i \in DOMAIN log : i \in DOMAIN log' /\ log'[i] = log[i]
         /\ log'[Len(log) + 1] = doc
         /\ DOMAIN log = 1..Len(log) /\ DOMAIN log' = 1..(Len(log) + 1)
         /\ Committed \subseteq Committed' /\ Docs \subseteq Docs'
         /\ \A d \in Docs : Proposed(d) => Proposed(d)'
<1>1. /\ Len(log') = Len(log) + 1
      /\ \A i \in DOMAIN log : i \in DOMAIN log' /\ log'[i] = log[i]
      /\ log'[Len(log) + 1] = doc
      /\ DOMAIN log = 1..Len(log) /\ DOMAIN log' = 1..(Len(log) + 1)
  OBVIOUS
<1>2. Committed \subseteq Committed'
  <2> SUFFICES ASSUME NEW i \in DOMAIN log PROVE log[i] \in Committed'
    BY DEF Committed
  <2> QED
    BY <1>1 DEF Committed
<1>3. Docs \subseteq Docs'
  BY <1>2 DEF Docs
<1>4. ASSUME NEW d \in Docs, Proposed(d) PROVE Proposed(d)'
  <2>1. d.seq \in Nat /\ d.seq <= Len(log) /\ Len(log) \in Nat
    BY <1>4 DEF Docs, Proposed
  <2>2. d.seq # 0 => log'[d.seq] = log[d.seq]
    BY <1>1, <2>1
  <2> QED
    BY <1>1, <1>4, <2>1, <2>2 DEF Proposed
<1> QED
  BY <1>1, <1>2, <1>3, <1>4

LEMMA CommitKeepsInv ==
  ASSUME WriterInv, NEW doc \in submitted, Commit(doc)
  PROVE  WriterInv'
<1>1. /\ doc \in Docs /\ Proposed(doc) /\ doc \in held /\ doc.seq = Len(log)
      /\ log' = Append(log, doc) /\ log \in Seq(Docs) /\ Len(log) \in Nat
      /\ view' = view /\ submitted' = submitted /\ held' = held /\ cache' = cache
      /\ req' = req /\ reply' = None /\ got' = got /\ proved' = proved
  BY Remembered DEF Commit, WriterInv, TypeOK
<1>2. /\ Len(log') = Len(log) + 1
      /\ \A i \in DOMAIN log : i \in DOMAIN log' /\ log'[i] = log[i]
      /\ log'[Len(log) + 1] = doc
      /\ DOMAIN log = 1..Len(log) /\ DOMAIN log' = 1..(Len(log) + 1)
      /\ Committed \subseteq Committed' /\ Docs \subseteq Docs'
      /\ \A d \in Docs : Proposed(d) => Proposed(d)'
  BY <1>1, LongerLog
<1>3. TypeOK'
  <2>1. log' \in Seq(Docs')
    BY <1>1, <1>2
  <2>2. RequestState \subseteq RequestState'
    BY <1>2 DEF RequestState
  <2>3. /\ view' \in [Witnesses -> 0..Len(log')] /\ proved' \in 0..Len(log')
    BY <1>1, <1>2 DEF WriterInv, TypeOK
  <2>4. /\ submitted' \subseteq Docs' /\ held' \subseteq Docs'
        /\ cache' \in [Writers -> {None} \cup Docs']
        /\ got' \in [Writers -> {None} \cup Docs']
    BY <1>1, <1>2 DEF WriterInv, TypeOK
  <2>5. req' \in [Writers -> RequestState']
    BY <1>1, <2>2 DEF WriterInv, TypeOK
  <2> QED
    BY <1>1, <2>1, <2>3, <2>4, <2>5 DEF TypeOK
<1>4. ChainLinked'
  <2> SUFFICES ASSUME NEW i \in DOMAIN log'
               PROVE  /\ log'[i].seq = i - 1
                      /\ log'[i].prev = IF i = 1 THEN None ELSE log'[i - 1]
                      /\ Advances(log'[i].head, HeadOf(log'[i].prev))
    BY DEF ChainLinked
  <2>1. CASE i \in DOMAIN log
    <3>1. /\ log[i].seq = i - 1
          /\ log[i].prev = IF i = 1 THEN None ELSE log[i - 1]
          /\ Advances(log[i].head, HeadOf(log[i].prev))
      BY <2>1 DEF WriterInv, ChainLinked
    <3>2. i # 1 => i - 1 \in DOMAIN log
      BY <1>2, <2>1
    <3> QED
      BY <1>2, <2>1, <3>1, <3>2
  <2>2. CASE i \notin DOMAIN log
    <3>1. i = Len(log) + 1 /\ log'[i] = doc
      BY <1>1, <1>2, <2>2
    <3>2. /\ doc.prev = IF doc.seq = 0 THEN None ELSE log[doc.seq]
          /\ Advances(doc.head, HeadOf(doc.prev))
      BY <1>1 DEF Proposed
    <3>3. i - 1 = doc.seq /\ (i # 1 => doc.seq \in DOMAIN log) /\ (i = 1 <=> doc.seq = 0)
      BY <1>1, <1>2, <3>1
    <3>4. i # 1 => log'[i - 1] = log[doc.seq]
      BY <1>2, <3>3
    <3> QED
      BY <3>1, <3>2, <3>3, <3>4
  <2> QED
    BY <2>1, <2>2
<1>5. SubmittedInv'
  BY <1>1, <1>2, Remembered DEF SubmittedInv
<1>6. CommittedIsHeld'
  <2> SUFFICES ASSUME NEW i \in DOMAIN log' PROVE log'[i] \in held
    BY <1>1 DEF CommittedIsHeld, Committed
  <2>1. CASE i \in DOMAIN log
    BY <1>2, <2>1 DEF WriterInv, CommittedIsHeld, Committed
  <2>2. CASE i \notin DOMAIN log
    BY <1>1, <1>2, <2>2
  <2> QED
    BY <2>1, <2>2
<1>7. RequestInv'
  <2> SUFFICES ASSUME NEW w \in Writers
               PROVE  /\ cache[w] \in {None} \cup Committed'
                      /\ got[w] \in {None} \cup Committed'
                      /\ RequestOK(req[w])'
    BY <1>1 DEF RequestInv
  <2>1. /\ cache[w] \in {None} \cup Committed /\ got[w] \in {None} \cup Committed
        /\ RequestOK(req[w])
    BY DEF WriterInv, RequestInv
  <2>2. RequestOK(req[w])'
    BY <1>1, <1>2, <2>1 DEF RequestOK
  <2> QED
    BY <1>2, <2>1, <2>2
<1>8. proved' > 0 => ProvedInv'
  BY <1>1 DEF WriterInv, ProvedInv
<1> QED
  BY <1>3, <1>4, <1>5, <1>6, <1>7, <1>8 DEF WriterInv

LEMMA LearnKeepsInv ==
  ASSUME WriterInv, NEW x \in Witnesses, Learn(x)
  PROVE  WriterInv'
<1>1. /\ log' = log /\ submitted' = submitted /\ held' = held /\ cache' = cache
      /\ req' = req /\ reply' = None /\ got' = got /\ proved' = proved
      /\ view[x] < Len(log) /\ view' = [view EXCEPT ![x] = @ + 1]
      /\ view \in [Witnesses -> 0..Len(log)] /\ log \in Seq(Docs)
  BY DEF Learn, WriterInv, TypeOK
<1>2. /\ view' \in [Witnesses -> 0..Len(log)]
      /\ \A y \in Witnesses : view'[y] >= view[y]
  BY <1>1
<1>3. TypeOK'
  BY <1>1, <1>2, SameLog DEF WriterInv, TypeOK
<1>4. ChainLinked' /\ SubmittedInv' /\ CommittedIsHeld'
  BY <1>1, SameLog DEF WriterInv, ChainLinked, SubmittedInv, CommittedIsHeld
<1>5. RequestInv'
  BY <1>1, SameLog DEF WriterInv, RequestInv, RequestOK
<1>6. proved' > 0 => ProvedInv'
  <2> SUFFICES ASSUME proved > 0 PROVE ProvedInv'
    BY <1>1
  <2>1. PICK Q \in SUBSET Witnesses :
          Cardinality(Q) >= MinAgree /\ \A y \in Q : view[y] >= proved
    BY DEF WriterInv, ProvedInv
  <2>2. \A y \in Q : view'[y] >= proved
    BY <1>1, <1>2, <2>1 DEF WriterInv, TypeOK
  <2> QED
    BY <1>1, <2>1, <2>2 DEF ProvedInv
<1> QED
  BY <1>3, <1>4, <1>5, <1>6 DEF WriterInv

-----------------------------------------------------------------------------
(* The invariant                                                           *)

\* Every step keeps the invariant.
LEMMA StepKeepsInv == WriterInv /\ [Next]_vars => WriterInv'
<1> SUFFICES ASSUME WriterInv, [Next]_vars PROVE WriterInv'
  OBVIOUS
<1>1. CASE \E doc \in submitted : Commit(doc)
  BY <1>1, CommitKeepsInv
<1>2. CASE \E x \in Witnesses : Learn(x)
  BY <1>2, LearnKeepsInv
<1>3. ASSUME NEW w \in Writers, \E r \in Requests : Accept(w, r) PROVE WriterInv'
  BY <1>3, AcceptKeepsInv
<1>4. ASSUME NEW w \in Writers, Write(w) PROVE WriterInv'
  BY <1>4, ReadKeepsInv, DecideKeepsInv, PinKeepsInv, SubmitKeepsInv, PollKeepsInv,
     ChildFailsKeepsInv, LostKeepsInv, RereadKeepsInv DEF Write
<1>5. ASSUME NEW w \in Writers, GetRead(w) \/ GetAnswer(w) PROVE WriterInv'
  BY <1>5, GetKeepsInv
<1>6. ASSUME NEW w \in Writers, Restart(w) PROVE WriterInv'
  BY <1>6, RestartKeepsInv
<1>7. CASE UNCHANGED vars
  <2>1. /\ log' = log /\ view' = view /\ submitted' = submitted /\ held' = held
        /\ cache' = cache /\ req' = req /\ reply' = reply /\ got' = got
        /\ proved' = proved
    BY <1>7 DEF vars
  <2>2. TypeOK' /\ ChainLinked' /\ SubmittedInv' /\ CommittedIsHeld'
    BY <2>1, SameLog
       DEF WriterInv, TypeOK, ChainLinked, SubmittedInv, CommittedIsHeld
  <2>3. RequestInv' /\ (proved' > 0 => ProvedInv')
    BY <2>1, SameLog DEF WriterInv, RequestInv, RequestOK, ProvedInv
  <2> QED
    BY <2>2, <2>3 DEF WriterInv
<1> QED
  BY <1>1, <1>2, <1>3, <1>4, <1>5, <1>6, <1>7 DEF Next

\* Whatever the writers, the witnesses, the quorum above half and the requests
\* are, everything a writer relies on stays true.
THEOREM WriterInvariant == Spec => []WriterInv
BY InitInv, StepKeepsInv, PTL DEF Spec

\* Type correctness, for every instance.
THEOREM TypeCorrect == Spec => []TypeOK
<1>1. WriterInv => TypeOK
  BY DEF WriterInv
<1> QED
  BY <1>1, WriterInvariant, PTL

\* The committed documents form one chain without gaps whose head sequences
\* move forward, however many writers relay heads and whatever they have cached.
THEOREM ChainIsLinked == Spec => []ChainLinked
<1>1. WriterInv => ChainLinked
  BY DEF WriterInv
<1> QED
  BY <1>1, WriterInvariant, PTL

\* Whatever is committed was pinned before it was submitted.
THEOREM CommittedDocumentsAreHeld == Spec => []CommittedIsHeld
<1>1. WriterInv => CommittedIsHeld
  BY DEF WriterInv
<1> QED
  BY <1>1, WriterInvariant, PTL

-----------------------------------------------------------------------------
(* What the invariant gives                                                *)

\* Two quorums above half share a witness, so what one quorum has shown is
\* never undercut by another.
LEMMA QuorumsMeet ==
  ASSUME NEW P \in SUBSET Witnesses, NEW Q \in SUBSET Witnesses,
         Cardinality(P) >= MinAgree, Cardinality(Q) >= MinAgree
  PROVE  P \cap Q # {}
<1>1. IsFiniteSet(Witnesses) /\ IsFiniteSet(P) /\ IsFiniteSet(Q)
  BY WitnessesAssumption, FS_Subset
<1>2. /\ Cardinality(Witnesses) \in Nat /\ Cardinality(P) \in Nat
      /\ Cardinality(Q) \in Nat
  BY <1>1, FS_CardinalityType
<1>3. Cardinality(P) + Cardinality(Q) > Cardinality(Witnesses)
  BY <1>2, WitnessesAssumption
<1> QED
  BY <1>1, <1>3, FS_MajoritiesIntersect

\* A quorum that agrees on position k proves one no older than any before.
LEMMA AgreedNotOlder ==
  ASSUME WriterInv, NEW S \in SUBSET Witnesses, NEW k \in Agreed(S, MinAgree)
  PROVE  k >= proved
<1>1. k \in 1..Len(log) /\ proved \in 0..Len(log) /\ Len(log) \in Nat
  BY AgreedInLog DEF WriterInv, TypeOK
<1>2. CASE proved = 0
  BY <1>1, <1>2
<1>3. CASE proved > 0
  <2>1. PICK Q \in SUBSET Witnesses :
          Cardinality(Q) >= MinAgree /\ \A x \in Q : view[x] >= proved
    BY <1>3 DEF WriterInv, ProvedInv
  <2>2. Members(S, k) \in SUBSET Witnesses /\ Cardinality(Members(S, k)) >= MinAgree
    BY DEF Agreed, Members
  <2>3. PICK x \in Members(S, k) : x \in Q
    BY <2>1, <2>2, QuorumsMeet
  <2> QED
    BY <2>1, <2>3 DEF Members
<1> QED
  BY <1>1, <1>2, <1>3

\* Whichever witnesses answer, verified reads are monotonic.
THEOREM VerifiedReadsAreMonotonic == Spec => ProvedNeverGoesBack
<1>1. WriterInv /\ [Next]_vars => [proved' >= proved]_proved
  <2> SUFFICES ASSUME WriterInv, [Next]_vars, proved' # proved
               PROVE  proved' >= proved
    OBVIOUS
  <2>1. PICK w \in Writers : Read(w) \/ Lost(w) \/ Reread(w) \/ GetRead(w)
    <3>1. ASSUME NEW w \in Writers, Write(w)
          PROVE  Read(w) \/ Lost(w) \/ Reread(w)
      BY <3>1 DEF Write, Decide, DecideCommitted, DecideConflict, DecideRefused,
                  DecideSubmit, Pin, Submit, Poll, ChildFails
    <3> QED
      BY <3>1 DEF Next, vars, Commit, Learn, Accept, GetAnswer, Restart
  <2>2. \E S \in SUBSET Witnesses : proved' \in Agreed(S, MinAgree)
    <3>1. CASE Read(w)
      BY <3>1 DEF Read, Current
    <3>2. CASE Lost(w)
      BY <3>2 DEF Lost, Current
    <3>3. CASE Reread(w)
      BY <3>3 DEF Reread, Current
    <3>4. CASE GetRead(w)
      BY <3>4 DEF GetRead
    <3> QED
      BY <2>1, <3>1, <3>2, <3>3, <3>4
  <2> QED
    BY <2>2, AgreedNotOlder
<1> QED
  BY <1>1, WriterInvariant, PTL DEF Spec, ProvedNeverGoesBack

\* A reply 200 answers a running request with a committed document that carries
\* its head.
LEMMA SuccessIsCommitted ==
  ASSUME WriterInv, Next, NEW w \in Writers, Replies(w, 200)
  PROVE  reply'.doc \in Committed /\ reply'.doc.head = req[w].head
<1>1. ASSUME NEW u \in Writers, NEW doc \in Committed,
             Answer(u, 200, doc), doc.head = req[u].head
      PROVE  reply'.doc \in Committed /\ reply'.doc.head = req[w].head
  BY <1>1 DEF Answer, Replies
<1>2. ASSUME NEW u \in Writers, NEW status \in {403, 409, 503}, NEW doc,
             Answer(u, status, doc)
      PROVE  FALSE
  BY <1>2 DEF Answer, Replies
<1>3. reply' # None
  BY DEF Replies
<1>4. PICK u \in Writers : Write(u)
  BY <1>3 DEF Next, Commit, Learn, Accept, GetRead, GetAnswer, Restart
<1>5. req[u] \in RequestState /\ RequestOK(req[u])
  BY Remembered
<1>6. CASE DecideCommitted(u)
  <2>1. req[u].cur \in Committed /\ req[u].cur.head = req[u].head
    BY <1>5, <1>6 DEF DecideCommitted, AlreadyHead, HeadOf, RequestOK
  <2> QED
    BY <1>1, <1>6, <2>1 DEF DecideCommitted
<1>7. CASE Poll(u)
  <2>1. PICK S \in SUBSET Witnesses : \E k \in Agreed(S, Landed) :
          log[k] = req[u].doc /\ Answer(u, 200, req[u].doc)
    BY <1>3, <1>7 DEF Poll, Goto
  <2>2. req[u].doc \in Committed
    BY <2>1, AgreedInLog DEF WriterInv
  <2>3. req[u].doc.head = req[u].head
    BY <1>5, <1>7 DEF Poll, RequestOK
  <2> QED
    BY <1>1, <2>1, <2>2, <2>3
<1>8. CASE Lost(u)
  <2>1. [exp |-> req[u].exp, head |-> req[u].head] \in Requests
    BY <1>5, <1>8 DEF Lost, RequestOK
  <2>2. req[u].head # None
    <3> DEFINE r == [exp |-> req[u].exp, head |-> req[u].head]
    <3>1. r \in Requests /\ r.head = req[u].head
      BY <2>1
    <3> HIDE DEF r
    <3> QED
      BY <3>1, RequestsAssumption
  <2>3. PICK S \in SUBSET Witnesses :
          \/ \E k \in Agreed(S, MinAgree) :
               HeadOf(log[k]) = req[u].head /\ Answer(u, 200, log[k])
          \/ HeadOf(None) = req[u].head
          \/ Conflict(u)
          \/ Answer(u, 403, None) \/ Answer(u, 503, None)
    BY <1>8 DEF Lost, Current
  <2>4. ~ Conflict(u)
    BY <1>2, <1>3 DEF Conflict, Goto
  <2>5. PICK k \in Agreed(S, MinAgree) :
          HeadOf(log[k]) = req[u].head /\ Answer(u, 200, log[k])
    BY <1>2, <2>2, <2>3, <2>4 DEF HeadOf
  <2>6. log[k] \in Committed
    BY AgreedInLog DEF WriterInv
  <2>7. log[k].head = req[u].head
    BY <2>2, <2>5 DEF HeadOf
  <2> QED
    BY <1>1, <2>5, <2>6, <2>7
<1>9. CASE \/ Read(u) \/ DecideConflict(u) \/ DecideRefused(u) \/ DecideSubmit(u)
           \/ Pin(u) \/ Submit(u) \/ ChildFails(u) \/ Reread(u)
  <2>1. CASE Read(u)
    BY <1>2, <1>3, <2>1 DEF Read, Current
  <2>2. CASE DecideConflict(u)
    BY <1>2, <1>3, <2>2 DEF DecideConflict
  <2>3. CASE Reread(u)
    <3>1. \/ reply' = None
          \/ Answer(u, 409, None) \/ Answer(u, 403, None) \/ Answer(u, 503, None)
      BY <2>3 DEF Reread, Current
    <3> QED
      BY <1>2, <1>3, <3>1
  <2>4. CASE DecideRefused(u) \/ DecideSubmit(u) \/ Pin(u) \/ Submit(u) \/ ChildFails(u)
    BY <1>2, <1>3, <2>4 DEF DecideRefused, DecideSubmit, Pin, Submit, ChildFails, Goto
  <2> QED
    BY <1>9, <2>1, <2>2, <2>3, <2>4
<1> QED
  BY <1>4, <1>6, <1>7, <1>8, <1>9 DEF Write, Decide

\* A client that is told 200 finds its head in the chain, although the answer
\* needed one witness only.
THEOREM SuccessMeansCommitted == Spec => AnsweredIsCommitted
<1>1. WriterInv /\ [Next]_vars =>
        [\A w \in Writers : Replies(w, 200) =>
           /\ reply'.doc \in Committed
           /\ reply'.doc.head = req[w].head]_vars
  BY SuccessIsCommitted
<1> QED
  BY <1>1, WriterInvariant, PTL DEF Spec, AnsweredIsCommitted

-----------------------------------------------------------------------------
(* The writers implement the abstract register                             *)

Chain == [i \in DOMAIN log |-> log[i].head]

\* nil is no document.  (TLC cannot evaluate this over all values; it holds for
\* the model value the configurations give to None.)
NoneIsNoDoc == \A s, p, h : None # [seq |-> s, prev |-> p, head |-> h]

\* Until something is committed the register is empty.
LEMMA InitRefines == Init => Register!Init
BY DEF Init, Register!Init

\* A committed document is the compare-and-set of the request it was built for.
LEMMA CommitRefines ==
  ASSUME NoneIsNoDoc, WriterInv, NEW doc \in submitted, Commit(doc)
  PROVE  Register!Next
<1>1. /\ doc \in Docs /\ Proposed(doc) /\ doc.seq = Len(log)
      /\ log \in Seq(Docs) /\ Len(log) \in Nat /\ log' = Append(log, doc)
  BY Remembered DEF Commit, WriterInv, TypeOK
<1>2. Chain \in Seq(Heads) /\ Len(Chain) = Len(log) /\ DOMAIN Chain = DOMAIN log
  <2>1. \A i \in DOMAIN log : log[i].head \in Heads
    <3>1. \A i \in DOMAIN log : log[i] \in Docs
      BY <1>1
    <3> QED
      BY <3>1 DEF Docs
  <2> QED
    BY <1>1, <2>1 DEF Chain
<1>3. Chain' = Append(Chain, doc.head)
  <2>1. Chain' = [i \in 1..(Len(log) + 1) |-> IF i = Len(log) + 1 THEN doc.head ELSE log[i].head]
    BY <1>1, LongerLog DEF Chain
  <2> QED
    BY <1>1, <1>2, <2>1 DEF Chain
<1>4. HeadOf(doc.prev) = IF Chain = <<>> THEN None ELSE Chain[Len(Chain)]
  <2>1. CASE doc.seq = 0
    <3>1. Chain = <<>>
      BY <1>1, <1>2, <2>1
    <3> QED
      BY <1>1, <2>1, <3>1 DEF Proposed, HeadOf
  <2>2. CASE doc.seq # 0
    <3>1. doc.seq \in DOMAIN log /\ Chain # <<>> /\ Chain[Len(Chain)] = log[doc.seq].head
      BY <1>1, <1>2, <2>2 DEF Chain
    <3>2. log[doc.seq] # None
      <4>1. log[doc.seq] \in Docs
        BY <1>1, <3>1
      <4> QED
        BY <4>1 DEF NoneIsNoDoc, Docs
    <3> QED
      BY <1>1, <2>2, <3>1, <3>2 DEF Proposed, HeadOf
  <2> QED
    BY <2>1, <2>2
<1>5. PICK r \in Requests : r.head = doc.head /\ Matches(r.exp, HeadOf(doc.prev))
  BY <1>1 DEF Proposed
<1>6. Advances(doc.head, HeadOf(doc.prev))
  BY <1>1 DEF Proposed
<1>7. Register!CompareAndSet(r)
  BY <1>3, <1>4, <1>5, <1>6
     DEF Register!CompareAndSet, Register!Current, Register!Matches, Register!Advances,
         Matches, Advances, Chain
<1> QED
  BY <1>7 DEF Register!Next

\* Every step of the system is a step of the register or leaves it alone.
LEMMA StepRefines ==
  ASSUME NoneIsNoDoc, WriterInv, [Next]_vars
  PROVE  [Register!Next]_Chain
<1>1. CASE \E doc \in submitted : Commit(doc)
  BY <1>1, CommitRefines
<1>2. CASE log' = log
  BY <1>2 DEF Chain
<1>3. ASSUME NEW w \in Writers, Write(w) PROVE log' = log
  BY <1>3 DEF Write, Decide, DecideCommitted, DecideConflict, DecideRefused,
              DecideSubmit, Read, Pin, Submit, Poll, ChildFails, Lost, Reread
<1>4. (\E doc \in submitted : Commit(doc)) \/ log' = log
  BY <1>3 DEF Next, vars, Learn, Accept, GetRead, GetAnswer, Restart
<1> QED
  BY <1>1, <1>2, <1>4

\* The writers, their caches, their retries and the lagging witnesses together
\* are one compare-and-set register per graph.
THEOREM WritersImplementRegister == ASSUME NoneIsNoDoc PROVE Spec => RegisterSpec
<1>1. Init => Register!Init
  BY InitRefines DEF Register!Init
<1>2. WriterInv /\ [Next]_vars => [Register!Next]_Chain
  BY StepRefines
<1> QED
  BY <1>1, <1>2, WriterInvariant, PTL DEF Spec, RegisterSpec, Register!Spec, Chain
=============================================================================
