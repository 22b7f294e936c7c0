---------------------------- MODULE OriginBridge ----------------------------
(***************************************************************************)
(* r2_origin_bridge.py: a loopback origin that fetches one inventory block  *)
(* per request from R2.  Its threads share a byte budget, which a request   *)
(* waits for under a condition variable, and one OAuth token, which is      *)
(* fetched again after a 401 under a lock that other requests wait for.     *)
(* Which token it is does not matter here: whatever wrangler prints is      *)
(* sent, and whatever Cloudflare answers is believed.                       *)
(***************************************************************************)
EXTENDS Naturals, FiniteSets, FiniteSetsExt

CONSTANTS
  Clients,      \* request threads
  Objects,      \* CIDs of the inventory
  SizeOf,       \* CID -> bytes the inventory lists
  Budget,       \* --max-memory-bytes
  MaxGets       \* bound: requests

ASSUME BridgeAssumption ==
  /\ IsFiniteSet(Clients)
  /\ SizeOf \in [Objects -> Nat \ {0}]
  /\ Budget \in Nat /\ MaxGets \in Nat

VARIABLES
  used,         \* ByteBudget.used
  step,         \* thread -> where it is in Origin.fetch
  cid,          \* thread -> the block it fetches
  attempt,      \* thread -> 0, or 1 after a 401
  refresher,    \* the thread that holds the token's lock, or "none"
  gets

bridgeVars == <<used, step, cid, attempt, refresher, gets>>

Holding == {t \in Clients : step[t] \in {"token", "refresh", "request", "release"}}
BytesOf(t) == SizeOf[cid[t]]

\* main fetches a token before the server starts.
BridgeInit ==
  /\ used = 0
  /\ step = [t \in Clients |-> "idle"]
  /\ cid = [t \in Clients |-> CHOOSE o \in Objects : TRUE]
  /\ attempt = [t \in Clients |-> 0] /\ refresher = "none" /\ gets = 0

Goto(t, s) == step' = [step EXCEPT ![t] = s]

\* do_GET: /healthz fetches the smallest block on the same path.
DoGet(t) ==
  /\ step[t] = "idle" /\ gets < MaxGets
  /\ \E o \in Objects :
       /\ cid' = [cid EXCEPT ![t] = o]
       /\ Goto(t, IF SizeOf[o] > Budget THEN "idle" ELSE "acquire")
  /\ attempt' = [attempt EXCEPT ![t] = 0]
  /\ gets' = gets + 1
  /\ UNCHANGED <<used, refresher>>

\* ByteBudget.acquire: without room the thread sleeps until it is notified.
Acquire(t) ==
  /\ step[t] = "acquire"
  /\ IF used + BytesOf(t) > Budget
       THEN Goto(t, "sleep") /\ UNCHANGED used
       ELSE Goto(t, "token") /\ used' = used + BytesOf(t)
  /\ UNCHANGED <<cid, attempt, refresher, gets>>

\* OAuthToken.get, under its lock: the cached token, or wrangler's for a second
\* attempt.
TakeToken(t) ==
  /\ step[t] = "token" /\ refresher = "none"
  /\ \/ attempt[t] = 0 /\ Goto(t, "request") /\ UNCHANGED refresher
     \/ attempt[t] = 1 /\ Goto(t, "refresh") /\ refresher' = t
  /\ UNCHANGED <<used, cid, attempt, gets>>

\* wrangler prints a token, the same as before perhaps, or fails or times out.
RefreshToken(t) ==
  /\ step[t] = "refresh"
  /\ Goto(t, "request") \/ Goto(t, "release")
  /\ refresher' = "none"
  /\ UNCHANGED <<used, cid, attempt, gets>>

\* Whatever it is for, the first 401 of a fetch is tried once more; any other
\* failure ends it, like success.
RequestObject(t) ==
  /\ step[t] = "request"
  /\ \/ /\ attempt[t] = 0
        /\ attempt' = [attempt EXCEPT ![t] = 1]
        /\ Goto(t, "token")
     \/ Goto(t, "release") /\ UNCHANGED attempt
  /\ UNCHANGED <<used, cid, refresher, gets>>

\* Mutant: notify instead of notify_all.
ReleaseWakesOne(t) ==
  /\ step[t] = "release"
  /\ used' = used - BytesOf(t)
  /\ LET asleep == {u \in Clients : step[u] = "sleep"} IN
     \/ asleep = {} /\ Goto(t, "idle")
     \/ \E u \in asleep : step' = [step EXCEPT ![t] = "idle", ![u] = "acquire"]
  /\ UNCHANGED <<cid, attempt, refresher, gets>>

\* finally: release and notify_all.
ReleaseBudget(t) ==
  /\ step[t] = "release"
  /\ used' = used - BytesOf(t)
  /\ step' = [u \in Clients |-> IF u = t THEN "idle"
                                ELSE IF step[u] = "sleep" THEN "acquire" ELSE step[u]]
  /\ UNCHANGED <<cid, attempt, refresher, gets>>

Fetch(t) ==
  \/ Acquire(t) \/ TakeToken(t) \/ RefreshToken(t) \/ RequestObject(t) \/ ReleaseBudget(t)

BridgeNext == \E t \in Clients : DoGet(t) \/ Fetch(t)

BridgeSpec == BridgeInit /\ [][BridgeNext]_bridgeVars
-----------------------------------------------------------------------------
(* The budget is what the running fetches hold, however they ended, and     *)
(* never more than the limit; and no request sleeps beside room that it     *)
(* would fit in: a wake-up is never lost.  (A large one may still sleep for *)
(* ever behind small ones that keep coming.)                                *)
BudgetIsExact ==
  /\ used = MapThenSumSet(BytesOf, Holding)
  /\ used <= Budget
  /\ \A t \in Clients : step[t] = "sleep" => used + BytesOf(t) > Budget
=============================================================================
