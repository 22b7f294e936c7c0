----------------------------- MODULE LakeReader -----------------------------
(***************************************************************************)
(* serve_lake.py: the loopback reader of a node's lake.  Its threads answer *)
(* a request for a row from the raw store, or from Kubo when a receipt or a *)
(* pin vouches for the row.  They share two semaphores and one table of     *)
(* receipts, which is read again when the time of a receipt directory has   *)
(* changed, while everything the answer depends on goes on changing.  What  *)
(* cannot be read, and whatever Kubo refuses, is answered like an absent    *)
(* row.                                                                     *)
(***************************************************************************)
EXTENDS LakeNode

CONSTANTS
  Threads,      \* requests that may be in progress
  Slots,        \* --max-concurrent-requests
  HugeRows      \* rows above LARGE_BLOCK_THRESHOLD

ASSUME ReaderAssumption == Slots \in Nat \ {0} /\ HugeRows \subseteq Row

VARIABLES
  cover,        \* ranges: <<kind, range>> of the receipts in the table
  seen,         \* mtime_ns: the times the table was read at
  statTick,     \* history: the tick of that look
  holder,       \* the thread in CarReceipts.covers, or "none"
  mtime,        \* the times it has just read
  mtimeTick,    \* history: the tick in which it read them
  asked,        \* thread -> row asked for
  at,           \* thread -> step
  before,       \* history: thread -> rows kept when its request began
  answer,       \* thread -> last status code, 0 for none
  misread       \* history: threads whose 404 is for something that was there and
                \* could not be read

tableVars == <<cover, seen, statTick, holder, mtime, mtimeTick>>
requestVars == <<asked, at, before, answer, misread>>
readerVars == <<tableVars, requestVars>>

\* The directories the reader is started with.
Watched == {"car", "native"}
Times == [k \in Watched |-> stamps[k]]
Active == {t \in Threads : at[t] # "idle"}

\* The table is loaded before the first request.
ReaderInit ==
  /\ NodeInit
  /\ cover = {} /\ seen = Times /\ mtime = Times
  /\ statTick = clock /\ mtimeTick = clock
  /\ holder = "none"
  /\ asked = [t \in Threads |-> 0] /\ at = [t \in Threads |-> "idle"]
  /\ before = [t \in Threads |-> {}] /\ answer = [t \in Threads |-> 0]
  /\ misread = {}

Go(t, step) == at' = [at EXCEPT ![t] = step] /\ UNCHANGED <<asked, before, answer, misread>>

Answer(t, code) ==
  /\ at' = [at EXCEPT ![t] = "idle"]
  /\ answer' = [answer EXCEPT ![t] = code]
  /\ UNCHANGED <<asked, before, misread>>

Misread(t) ==
  /\ at' = [at EXCEPT ![t] = "idle"]
  /\ answer' = [answer EXCEPT ![t] = 404]
  /\ misread' = misread \cup {t}
  /\ UNCHANGED <<asked, before>>

\* Neither semaphore is waited for: a request beyond its limit is answered.
Request(t) ==
  /\ at[t] = "idle"
  /\ \E i \in Row :
       LET busy == \/ Cardinality(Active) >= Slots
                   \/ i \in HugeRows /\ \E u \in Active : asked[u] \in HugeRows IN
       /\ asked' = [asked EXCEPT ![t] = i]
       /\ at' = [at EXCEPT ![t] = IF busy THEN "idle" ELSE "raw"]
       /\ answer' = [answer EXCEPT ![t] = IF busy THEN 503 ELSE 0]
  /\ before' = [before EXCEPT ![t] = Kept]
  /\ misread' = misread \ {t}
  /\ UNCHANGED <<nodeVars, tableVars>>

\* An entry of which the data or the metadata is missing or unreadable ends the
\* request.
ReadRaw(t) ==
  /\ at[t] = "raw"
  /\ \/ asked[t] \in raw /\ Answer(t, 200)
     \/ asked[t] \notin raw /\ Go(t, "receipts")
     \/ asked[t] \in RawRows /\ Misread(t)
  /\ UNCHANGED <<nodeVars, tableVars>>

\* covers, under its lock: the directories are looked at first,
Stat(t) ==
  /\ at[t] = "receipts" /\ holder = "none"
  /\ holder' = t
  /\ mtime' = Times /\ mtimeTick' = clock
  /\ Go(t, IF Times = seen THEN "covered" ELSE "load")
  /\ UNCHANGED <<nodeVars, cover, seen, statTick>>

\* Mutant: one of the two directories is not listed again.
LoadCarReceipts(t) ==
  /\ at[t] = "load"
  /\ cover' = {rc \in receipts : rc[1] = "car"}
  /\ seen' = mtime /\ statTick' = mtimeTick
  /\ Go(t, "covered")
  /\ UNCHANGED <<nodeVars, holder, mtime, mtimeTick>>

\* and listed and read after that when a time has changed.
LoadReceipts(t) ==
  /\ at[t] = "load"
  /\ cover' = {rc \in receipts : rc[1] \in Watched}
  /\ seen' = mtime /\ statTick' = mtimeTick
  /\ Go(t, "covered")
  /\ UNCHANGED <<nodeVars, holder, mtime, mtimeTick>>

\* A receipt cannot be read: the table stays as it is.
RefuseReceipts(t) ==
  /\ at[t] = "load"
  /\ holder' = "none" /\ Misread(t)
  /\ UNCHANGED <<nodeVars, cover, seen, statTick, mtime, mtimeTick>>

\* Mutant: a row without a receipt is not looked for among the pins.
CoversOrNothing(t) ==
  /\ at[t] = "covered"
  /\ holder' = "none"
  /\ IF \E rc \in cover : asked[t] \in RowsOf(rc[2])
       THEN Go(t, "get") ELSE Answer(t, 404)
  /\ UNCHANGED <<nodeVars, cover, seen, statTick, mtime, mtimeTick>>

Covers(t) ==
  /\ at[t] = "covered"
  /\ holder' = "none"
  /\ Go(t, IF \E rc \in cover : asked[t] \in RowsOf(rc[2]) THEN "get" ELSE "direct")
  /\ UNCHANGED <<nodeVars, cover, seen, statTick, mtime, mtimeTick>>

\* A command of Kubo that fails is one that has not found the row.
ListDirect(t) ==
  /\ at[t] = "direct"
  /\ \/ asked[t] \in direct /\ Go(t, "get")
     \/ Go(t, "all")
  /\ UNCHANGED <<nodeVars, tableVars>>

\* Kubo shows one pin of a row, a direct one before an indirect one; here only
\* the others count.
ListAll(t) ==
  /\ at[t] = "all"
  /\ \/ asked[t] \in Linked(roots) \ direct /\ Go(t, "get")
     \/ asked[t] \in Pinned /\ Misread(t)
     \/ asked[t] \notin Pinned /\ Answer(t, 404)
  /\ UNCHANGED <<nodeVars, tableVars>>

GetBlock(t) ==
  /\ at[t] = "get"
  /\ \/ asked[t] \in blocks /\ (Answer(t, 200) \/ Misread(t))
     \/ asked[t] \notin blocks /\ Answer(t, 404)
  /\ UNCHANGED <<nodeVars, tableVars>>

\* Kubo is slow: `pin ls' and `block get' have a time limit.
KuboTimeout(t) ==
  /\ at[t] \in {"direct", "all", "get"}
  /\ Answer(t, 503)
  /\ UNCHANGED <<nodeVars, tableVars>>

Serve(t) ==
  \/ ReadRaw(t) \/ Stat(t) \/ LoadReceipts(t) \/ RefuseReceipts(t) \/ Covers(t)
  \/ ListDirect(t) \/ ListAll(t) \/ GetBlock(t) \/ KuboTimeout(t)

ReaderNext ==
  \/ \E t \in Threads : Request(t) \/ Serve(t)
  \/ NodeNext /\ UNCHANGED readerVars

ReaderSpec == ReaderInit /\ [][ReaderNext]_<<nodeVars, readerVars>>
-----------------------------------------------------------------------------
(* A receipt that the table lacks is noticed at the next request, because   *)
(* its directory has a time the reader has not seen: unless it appeared in  *)
(* the very tick in which the reader took that time.                        *)
ReceiptsAreNoticed ==
  \A rc \in receipts : rc[1] \in Watched /\ rc \notin cover =>
    seen[rc[1]] # stamps[rc[1]] \/ stamps[rc[1]] = statTick

(* A row kept when the request began, and let go by nobody, is not answered *)
(* with 404, although its custody moves from one store to another while the *)
(* reader looks at them in turn: unless the look that ended the request     *)
(* failed over a pin, a receipt, an entry or a block that was there.  And   *)
(* only a row that is kept, or was let go by another service, is answered   *)
(* with 200.                                                                *)
AnswersMatchCustody ==
  \A t \in Threads :
    /\ answer[t] = 404 /\ t \notin misread => asked[t] \notin before[t] \ released
    /\ answer[t] = 200 => asked[t] \in Kept \cup released
=============================================================================
