--------------------------- MODULE RouterStandby ---------------------------
(***************************************************************************)
(* router_standby.py: a check that gad runs under a lock and a timer.  It   *)
(* reads who owns the router's HTTPS mapping, probes both gateways and may  *)
(* move the mapping: delete, list, add, list, and add the old one again     *)
(* when that failed.  Xavier renews its own lease as long as its nginx      *)
(* listens, whatever the check does.                                        *)
(***************************************************************************)
EXTENDS Naturals, FiniteSets

CONSTANTS
  MaxTurns,    \* bound: changes of the gateways and of how checks are run
  MaxMishaps   \* bound: router commands that fail, checks that die, leases lost

ASSUME StandbyAssumption == MaxTurns \in Nat /\ MaxMishaps \in Nat

VARIABLES
  mapping,     \* owner of port 8443 at the router, or "none"
  up,          \* the gateways that pass the content check
  listening,   \* xavier accepts TCP on 443
  option,        \* how a check is run: "dry", "timer" (--apply), "supervised"
  failures,    \* the saved count, at most 3
  phase,       \* where the check is
  found,       \* the mapping it read
  count,       \* the failures it counts
  owner,       \* the new owner it sets
  excuse,      \* history: what went wrong since the check read the mapping
  turns, mishaps

routerVars == <<mapping, up, listening, option, failures, phase, found, count,
                owner, excuse, turns, mishaps>>
world == <<up, listening, option, turns>>
check == <<found, count, owner>>

Owners == {"xavier", "gad"}

StandbyInit ==
  /\ mapping = "xavier" /\ up = Owners /\ listening = TRUE /\ option = "timer"
  /\ failures = 0 /\ phase = "idle" /\ found = "none" /\ count = 0
  /\ owner = "gad" /\ excuse = {} /\ turns = 0 /\ mishaps = 0

Mishap(what) ==
  /\ mishaps < MaxMishaps /\ mishaps' = mishaps + 1 /\ excuse' = excuse \cup {what}

NoMishap == UNCHANGED <<excuse, mishaps>>

\* main: the lock, the listing; a listing that fails ends the check.
BeginCheck ==
  /\ phase = "idle"
  /\ phase' = "probe" /\ found' = mapping /\ excuse' = {}
  /\ UNCHANGED <<mapping, world, failures, count, owner, mishaps>>

\* gateway_healthy(XAVIER_IP) and load_failures.
ProbePrimary ==
  /\ phase = "probe"
  /\ count' = IF "xavier" \in up THEN 0 ELSE IF failures < 3 THEN failures + 1 ELSE 3
  /\ phase' = "decide"
  /\ UNCHANGED <<mapping, world, failures, found, owner, excuse, mishaps>>

(* decide and require_cutover_opt_in, before save_failures: a refusal, and  *)
(* a check without --apply, leave the saved count as it was.                *)
Moves(host) == found # host
Decision ==
  CASE count = 0 -> IF Moves("xavier") THEN "restore" ELSE "keep"
    [] count \in 1..2 -> "wait"
    [] count = 3 /\ (listening \/ "gad" \notin up) -> "refused"
    [] OTHER -> IF Moves("gad") THEN "takeover" ELSE "renew"

Permitted ==
  /\ Decision # "refused" /\ option # "dry"
  /\ Decision \in {"restore", "takeover"} => option = "supervised"

\* Mutant: the count is saved only when the router is to be changed.
DecideSavesLate ==
  /\ phase = "decide"
  /\ IF ~Permitted \/ Decision \in {"keep", "wait"}
       THEN phase' = "idle" /\ UNCHANGED <<failures, owner>>
       ELSE /\ failures' = count
            /\ owner' = IF Decision = "restore" THEN "xavier" ELSE "gad"
            /\ phase' = IF found \in {"none", owner'} THEN "add" ELSE "delete"
  /\ UNCHANGED <<mapping, world, found, count, excuse, mishaps>>

Decide ==
  /\ phase = "decide"
  /\ IF ~Permitted
       THEN phase' = "idle" /\ UNCHANGED <<failures, owner>>
       ELSE /\ failures' = count
            /\ owner' = IF Decision = "restore" THEN "xavier" ELSE "gad"
            /\ phase' = CASE Decision \in {"keep", "wait"} -> "idle"
                          [] found \in {"none", owner'} -> "add"
                          [] OTHER -> "delete"
  /\ UNCHANGED <<mapping, world, found, count, excuse, mishaps>>

\* upnpc -d; a call that fails may have reached the router.
DeleteOld ==
  /\ phase = "delete"
  /\ \/ mapping' = "none" /\ phase' = "confirm none" /\ NoMishap
     \/ mapping' \in {"none", mapping} /\ phase' = "idle" /\ Mishap("delete failed")
  /\ UNCHANGED <<world, failures, check>>

\* This listing is before the try: when it fails nothing is put back.
ConfirmRemoved ==
  /\ phase = "confirm none"
  /\ \/ phase' = (IF mapping = "none" THEN "add" ELSE "idle") /\ NoMishap
     \/ phase' = "idle" /\ Mishap("removal not listed")
  /\ UNCHANGED <<mapping, world, failures, check>>

\* The router answers 718 while another host holds the port.
Free(host) == mapping \in {"none", host}

\* Mutant: an addition that failed is not followed by the roll-back.
AddNewOrGiveUp ==
  /\ phase = "add"
  /\ \/ Free(owner) /\ mapping' = owner /\ phase' = "confirm new" /\ NoMishap
     \/ phase' = "idle" /\ UNCHANGED mapping /\ Mishap("add failed")
  /\ UNCHANGED <<world, failures, check>>

AddNew ==
  /\ phase = "add"
  /\ \/ Free(owner) /\ mapping' = owner /\ phase' = "confirm new" /\ NoMishap
     \/ ~Free(owner) /\ phase' = "rollback" /\ UNCHANGED mapping /\ NoMishap
     \/ /\ mapping' \in {mapping} \cup (IF Free(owner) THEN {owner} ELSE {})
        /\ phase' = "rollback" /\ Mishap("add failed")
  /\ UNCHANGED <<world, failures, check>>

ConfirmNew ==
  /\ phase = "confirm new"
  /\ \/ phase' = (IF mapping = owner THEN "idle" ELSE "rollback") /\ NoMishap
     \/ phase' = "rollback" /\ Mishap("addition not listed")
  /\ UNCHANGED <<mapping, world, failures, check>>

\* Only a mapping that was deleted is put back, and a failure is swallowed.
PutBack ==
  /\ phase = "rollback" /\ phase' = "idle"
  /\ \/ found \in {"none", owner} /\ UNCHANGED mapping /\ NoMishap
     \/ /\ found \notin {"none", owner} /\ NoMishap
        /\ mapping' = IF Free(found) THEN found ELSE mapping
     \/ /\ found \notin {"none", owner} /\ Mishap("rollback failed")
        /\ UNCHANGED mapping
  /\ UNCHANGED <<world, failures, check>>

CheckDies ==
  /\ phase # "idle" /\ phase' = "idle" /\ Mishap("check died")
  /\ UNCHANGED <<mapping, world, failures, check>>

\* external: xavier's own timer, and leases of 900 seconds nobody renewed.
XavierRenews ==
  /\ listening /\ mapping = "none" /\ mapping' = "xavier"
  /\ UNCHANGED <<world, failures, phase, check, excuse, mishaps>>

LeaseExpires ==
  /\ mapping # "none" /\ mapping' = "none" /\ Mishap("lease expired")
  /\ UNCHANGED <<world, failures, phase, check>>

WorldTurns ==
  /\ turns < MaxTurns /\ turns' = turns + 1
  /\ \/ /\ \E o \in Owners : up' = (up \ {o}) \cup ({o} \ up)
        /\ UNCHANGED <<listening, option>>
     \/ listening' = ~listening /\ UNCHANGED <<up, option>>
     \/ /\ phase = "idle" /\ option' \in {"dry", "timer", "supervised"} \ {option}
        /\ UNCHANGED <<up, listening>>
  /\ UNCHANGED <<mapping, failures, phase, check, excuse, mishaps>>

CheckStep ==
  BeginCheck \/ ProbePrimary \/ Decide \/ DeleteOld \/ ConfirmRemoved \/ AddNew
             \/ ConfirmNew \/ PutBack

StandbyNext == CheckStep \/ CheckDies \/ XavierRenews \/ LeaseExpires \/ WorldTurns

StandbySpec == StandbyInit /\ [][StandbyNext]_routerVars

StandbyFairSpec == StandbySpec /\ WF_routerVars(CheckStep)
-----------------------------------------------------------------------------
(* "A failed replacement must not strand a formerly healthy endpoint": when *)
(* a check that found the port mapped is over, the port is mapped, unless   *)
(* the lease ran out, the check died, or the router failed the deletion,    *)
(* the listing after it or the roll-back.  The failed addition and the      *)
(* failed confirmation alone never strand it.                               *)
NotStranded ==
  phase = "idle" /\ found # "none" /\ mapping = "none" =>
    excuse \cap {"lease expired", "check died", "delete failed",
                 "removal not listed", "rollback failed"} # {}

(* Without --allow-router-cutover no check takes the port from its owner.   *)
UnattendedKeepsOwner ==
  [][phase' # phase /\ mapping # "none" /\ mapping' # mapping => option = "supervised"]_routerVars

(* A primary that stays down with nothing listening, beside a standby that  *)
(* stays up under supervised checks, loses the port to the standby.         *)
TakeOverHappens ==
  <>[](up = {"gad"} /\ ~listening /\ option = "supervised") => <>[](mapping = "gad")
=============================================================================
