------------------------------ MODULE SyncLock ------------------------------
(***************************************************************************)
(* The sync_locks row that keeps two sync runs apart (dms/sync/locks.py).  *)
(*                                                                         *)
(* A process is the web application or a `python -m dms.cli.sync` command; *)
(* each has its own SQLite connection, and at most one run in flight       *)
(* (background._active in the web process, one asyncio.run in the CLI).    *)
(* The owner string "<requested_by>-<pid>" is abstracted to the process.   *)
(*                                                                         *)
(* acquire() is two atomic statements, not one: the sqlite3 module opens a *)
(* transaction only at the first INSERT/UPDATE/DELETE, so the SELECT runs  *)
(* on its own (Look) and the DELETE + INSERT that follow are a transaction *)
(* that no longer looks at the row (TakeOver, TakeFree).                   *)
(*                                                                         *)
(* Time is kept as ages: lock.age is now - heartbeat_at, stamp[p] is       *)
(* now - the `now` acquire() took before its SELECT and writes into the    *)
(* row.  An age above TTL is stale for ever, so ages stop at TTL + 1.      *)
(***************************************************************************)
EXTENDS Integers

CONSTANTS
  Procs,        \* processes that may run a sync
  None,         \* no owner: the row is absent
  TTL,          \* sync_lock_ttl_minutes, in ticks
  MaxCrashes,   \* bound: crashes of a process that holds or takes the lock
  MaxLeaks      \* bound: exceptions that leave the row behind

ASSUME LockAssumption ==
  /\ None \notin Procs
  /\ TTL \in Nat
  /\ MaxCrashes \in Nat /\ MaxLeaks \in Nat

VARIABLES
  lock,      \* the row: [owner, age]; owner = None when there is no row
  phase,     \* per process: idle, taking (between SELECT and the write), inside
  seen,      \* per process: owner of the row its SELECT returned, None if none
  stamp,     \* per process: age of the `now` of its acquire()
  audit,     \* stale_lock_recovered rows of audit_log, [by, from]
  crashes,   \* number of crashes so far (bounded by MaxCrashes)
  leaks,     \* number of leaked rows so far (bounded by MaxLeaks)
  late       \* was a live process silent for more than TTL between two of its
             \* lock statements?  (history variable)

lockVars == <<lock, phase, seen, stamp, audit, crashes, leaks, late>>

Ages   == 0 .. (TTL + 1)
NoLock == [owner |-> None, age |-> 0]

LockTypeOK ==
  /\ lock \in [owner : Procs \cup {None}, age : Ages]
  /\ phase \in [Procs -> {"idle", "taking", "inside"}]
  /\ seen \in [Procs -> Procs \cup {None}]
  /\ stamp \in [Procs -> Ages]
  /\ audit \in SUBSET [by : Procs, from : Procs]
  /\ crashes \in Nat /\ leaks \in Nat
  /\ late \in BOOLEAN

LockInit ==
  /\ lock = NoLock
  /\ phase = [p \in Procs |-> "idle"]
  /\ seen = [p \in Procs |-> None]
  /\ stamp = [p \in Procs |-> 0]
  /\ audit = {}
  /\ crashes = 0 /\ leaks = 0
  /\ late = FALSE

Held      == lock.owner # None
Inside(p) == phase[p] = "inside"
Owns(p)   == lock.owner = p

(* Mutants of Fresh: the boundary off by one; no expiry at all. *)
FreshStrict  == Held /\ lock.age < TTL
FreshForever == Held

\* prev_heartbeat >= cutoff: at exactly TTL the lock is still held.
Fresh == Held /\ lock.age <= TTL

-----------------------------------------------------------------------------
(* acquire(), the SELECT.  A fresh row raises LockHeldError, which the     *)
(* callers log or report; nothing is written.                              *)
Refused(p) ==
  /\ phase[p] = "idle"
  /\ Fresh
  /\ UNCHANGED lockVars

Look(p) ==
  /\ phase[p] = "idle"
  /\ ~Fresh
  /\ phase' = [phase EXCEPT ![p] = "taking"]
  /\ seen' = [seen EXCEPT ![p] = lock.owner]
  /\ stamp' = [stamp EXCEPT ![p] = 0]
  /\ UNCHANGED <<lock, audit, crashes, leaks, late>>

\* The local variables of acquire() are gone once it returns or raises.
Forget(p) ==
  /\ seen' = [seen EXCEPT ![p] = None]
  /\ stamp' = [stamp EXCEPT ![p] = 0]

Enter(p) ==
  /\ lock' = [owner |-> p, age |-> stamp[p]]
  /\ phase' = [phase EXCEPT ![p] = "inside"]
  /\ Forget(p)
  /\ UNCHANGED <<crashes, leaks, late>>

(* Mutant of TakeOver: the audit_log row is forgotten. *)
TakeOverSilently(p) ==
  /\ phase[p] = "taking"
  /\ seen[p] # None
  /\ audit' = audit
  /\ Enter(p)

(* acquire(), the transaction after a stale row was seen: DELETE by name,  *)
(* audit, INSERT.  It deletes whatever row is there now.                   *)
TakeOver(p) ==
  /\ phase[p] = "taking"
  /\ seen[p] # None
  /\ audit' = audit \cup {[by |-> p, from |-> seen[p]]}
  /\ Enter(p)

(* acquire(), the transaction after no row was seen: a bare INSERT, which  *)
(* the primary key refuses if another process has inserted its row since.  *)
TakeFree(p) ==
  /\ phase[p] = "taking"
  /\ seen[p] = None
  /\ ~Held
  /\ audit' = audit
  /\ Enter(p)

TakeRefused(p) ==
  /\ phase[p] = "taking"
  /\ seen[p] = None
  /\ Held
  /\ phase' = [phase EXCEPT ![p] = "idle"]
  /\ Forget(p)
  /\ UNCHANGED <<lock, audit, crashes, leaks, late>>

\* Either write may raise "database is locked" and roll back.
TakeBlocked(p) ==
  /\ phase[p] = "taking"
  /\ phase' = [phase EXCEPT ![p] = "idle"]
  /\ Forget(p)
  /\ UNCHANGED <<lock, audit, crashes, leaks, late>>

(* heartbeat(): UPDATE ... WHERE owner = ?.  The caller ignores the False  *)
(* that says the lock was stolen and carries on.                           *)
Heartbeat(p) ==
  /\ Inside(p)
  /\ lock' = IF Owns(p) THEN [lock EXCEPT !.age = 0] ELSE lock
  /\ UNCHANGED <<phase, seen, stamp, audit, crashes, leaks, late>>

(* Mutant of Release: DELETE without the owner condition. *)
ReleaseAnyone(p) ==
  /\ Inside(p)
  /\ lock' = NoLock
  /\ phase' = [phase EXCEPT ![p] = "idle"]
  /\ UNCHANGED <<seen, stamp, audit, crashes, leaks, late>>

\* release(): DELETE ... WHERE owner = ?.
Release(p) ==
  /\ Inside(p)
  /\ lock' = IF Owns(p) THEN NoLock ELSE lock
  /\ phase' = [phase EXCEPT ![p] = "idle"]
  /\ UNCHANGED <<seen, stamp, audit, crashes, leaks, late>>

Vanish(p) ==
  /\ phase' = [phase EXCEPT ![p] = "idle"]
  /\ Forget(p)
  /\ UNCHANGED <<lock, audit>>

\* The process dies in acquire() or inside, and may start again.
Crash(p) ==
  /\ phase[p] # "idle"
  /\ crashes < MaxCrashes
  /\ crashes' = crashes + 1
  /\ Vanish(p)
  /\ UNCHANGED <<leaks, late>>

\* The run ends in an exception that no release() follows: start_run() raised
\* before the try block, or release() itself did.
Leak(p) ==
  /\ Inside(p)
  /\ leaks < MaxLeaks
  /\ leaks' = leaks + 1
  /\ Vanish(p)
  /\ UNCHANGED <<crashes, late>>

Older(age) == IF age > TTL THEN age ELSE age + 1

\* Nobody's next lock statement is overdue.
NobodyOverdue ==
  \A p \in Procs : /\ Inside(p) /\ Owns(p) => lock.age < TTL
                   /\ phase[p] = "taking" => stamp[p] < TTL

Tick ==
  /\ late' = (late \/ ~NobodyOverdue)
  /\ lock' = IF Held THEN [lock EXCEPT !.age = Older(@)] ELSE lock
  /\ stamp' = [p \in Procs |->
                 IF phase[p] = "taking" THEN Older(stamp[p]) ELSE stamp[p]]
  /\ UNCHANGED <<phase, seen, audit, crashes, leaks>>

LockStep(p) ==
  \/ Refused(p) \/ Look(p)
  \/ TakeOver(p) \/ TakeFree(p) \/ TakeRefused(p) \/ TakeBlocked(p)
  \/ Heartbeat(p) \/ Release(p) \/ Crash(p) \/ Leak(p)

LockNext == Tick \/ \E p \in Procs : LockStep(p)

LockSpec == LockInit /\ [][LockNext]_lockVars

(* Time passes, the cron trigger and the user ask for a run again and      *)
(* again, and SQLite's busy handler does not refuse the write for ever.    *)
LockFairness ==
  /\ WF_lockVars(Tick)
  /\ \A p \in Procs : /\ WF_lockVars(Look(p))
                      /\ SF_lockVars(TakeOver(p) \/ TakeFree(p))

FairLockSpec == LockSpec /\ LockFairness

-----------------------------------------------------------------------------
MutualExclusion ==
  \A p, q \in Procs : Inside(p) /\ Inside(q) => p = q

\* The lock "prevents concurrent sync runs", and it takes a heartbeat older
\* than the TTL to steal it (locks.py:3-6): as long as every live process is
\* heard of in time, at most one is between acquire() and release().  Violated:
\* after one crash two acquire() calls may both have seen the stale row, and
\* the second deletes the fresh row of the first.  NoTakeoverExclusion and
\* PromptExclusion are what the code does guarantee.
StealNeedsSilence == ~late => MutualExclusion

\* A running process that lost its row lost it to a recorded takeover by
\* another process: release(), heartbeat() and the refused INSERT never take
\* somebody's row away.
RobbedIsAudited ==
  \A p \in Procs : Inside(p) /\ ~Owns(p) => \E a \in audit : a.by # p

\* Without a stale-lock recovery on record there are never two runs at once.
NoTakeoverExclusion == audit = {} => MutualExclusion

\* If every process is heard of within the TTL and none leaves without
\* releasing, no lock is ever recovered and runs are mutually exclusive: the
\* overlap of two runs needs a crash, a leak or a step longer than the TTL.
PromptExclusion ==
  ~late /\ crashes = 0 /\ leaks = 0 => audit = {} /\ MutualExclusion

\* A run that lost its lock cannot touch the row of the run that took it:
\* until it has left, none of its steps changes the row.
RobbedIsInert ==
  [][\A p \in Procs :
       Inside(p) /\ ~Owns(p) /\ phase'[p] # phase[p] => lock' = lock]_lockVars

\* A row whose owner is gone does not wedge the lock for ever: it is released
\* or taken over by a live run (PLAN.md:530).
OrphanReclaimed == []<>(Held => Inside(lock.owner))
=============================================================================
