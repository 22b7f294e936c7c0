----------------------------- MODULE CycleLock -----------------------------
(***************************************************************************)
(* The lock of a run of the lake epoch cycle (main in lake_epoch_cycle.cljk)*)
(* for processes started on the same work directory: cycle.lock is created  *)
(* with "wx" and then gets the pid, two system calls; whoever finds it      *)
(* there reads it, stops if its holder lives and takes it over otherwise;   *)
(* the file is removed by its path when a holder exits.                     *)
(***************************************************************************)
CONSTANTS
  Processes,
  NoLock,     \* no cycle.lock: not a process
  NoPid       \* cycle.lock is empty: not one either

VARIABLES
  lock,       \* cycle.lock
  stage       \* process -> where it is

lockVars == <<lock, stage>>

LockInit == lock = NoLock /\ stage = [p \in Processes |-> "out"]

Goes(p, from, to) == stage[p] = from /\ stage' = [stage EXCEPT ![p] = to]

Alive(p) == p \in Processes /\ stage[p] \notin {"out", "ended"}

\* writeFileSync with "wx": the file is there, empty, before the pid is in it.
Create(p) == Goes(p, "out", "named") /\ lock = NoLock /\ lock' = NoPid

Exists(p) == Goes(p, "out", "beaten") /\ lock # NoLock /\ UNCHANGED lock

\* The holder read from the file: a live one stops this process, a dead one or
\* no number at all does not; a file that is gone again ends it with an error.
ReadHolder(p) ==
  /\ IF lock = NoLock \/ Alive(lock) THEN Goes(p, "beaten", "ended")
                                     ELSE Goes(p, "beaten", "takes")
  /\ UNCHANGED lock

\* The second writeFileSync truncates, or makes the file again.
Truncate(p) == Goes(p, "takes", "named") /\ lock' = NoPid

\* The write goes to the opened file, which may have been removed.
WritePid(p) ==
  /\ Goes(p, "named", "running")
  /\ lock' = IF lock = NoLock THEN NoLock ELSE p

\* The exit handler, or a kill, which leaves the file.
Finish(p) == Goes(p, "running", "ended") /\ lock' = NoLock

Killed(p) == Alive(p) /\ stage' = [stage EXCEPT ![p] = "ended"] /\ UNCHANGED lock

LockNext == \E p \in Processes :
  \/ Create(p) \/ Exists(p) \/ ReadHolder(p) \/ Truncate(p) \/ WritePid(p)
  \/ Finish(p) \/ Killed(p)

LockSpec == LockInit /\ [][LockNext]_lockVars
-----------------------------------------------------------------------------
(* The comment above the lock, "One process per run.": no two processes     *)
(* resume the same run beside each other.                                   *)
OneProcessPerRun ==
  \A p, q \in Processes : stage[p] = "running" /\ stage[q] = "running" => p = q
=============================================================================
