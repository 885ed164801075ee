------------------------------ MODULE SyncRun ------------------------------
(***************************************************************************)
(* One sync run under the lock: dms/sync/runner.py with the ledgers of     *)
(* dms/sync/runs.py.                                                       *)
(*                                                                         *)
(* run_sync() takes the lock, writes a sync_jobs row, works through the    *)
(* plan of steps (each with a sync_run_steps row), refreshes the heartbeat *)
(* between the pulls, releases the lock in a finally block and, only then, *)
(* writes the status of the job.  Every database transaction is a step of  *)
(* its own, so two runs that overlap interleave at that grain.             *)
(*                                                                         *)
(* SyncLock is the lock; here each of its actions happens at the place of  *)
(* run_sync() that calls it.                                               *)
(***************************************************************************)
EXTENDS SyncLock, Sequences, FiniteSets

CONSTANTS
  ArrCount,        \* configured Sonarr and Radarr instances
  HasTautulli,     \* is Tautulli configured?
  RequesterCount,  \* configured Overseerr/Jellyseerr instances
  MaxRuns,         \* bound: runs started
  MaxCancels,      \* bound: cancellations
  MaxErrors        \* bound: failed bookkeeping writes

ASSUME RunAssumption ==
  /\ ArrCount \in Nat /\ RequesterCount \in Nat /\ HasTautulli \in BOOLEAN
  /\ MaxRuns \in Nat /\ MaxCancels \in Nat /\ MaxErrors \in Nat

VARIABLES
  jobs,    \* sync_jobs: the status of run i, in order of id
  rows,    \* sync_run_steps: the status of each step of run i
  run,     \* per process: id of its run, 0 when it has none
  stage,   \* per process: where in run_sync() it is
  at,      \* per process: index of the step in Plan
  cancels, \* number of cancelled runs so far (bounded by MaxCancels)
  errors   \* number of failed writes so far (bounded by MaxErrors)

runVars == <<lockVars, jobs, rows, run, stage, at, cancels, errors>>

-----------------------------------------------------------------------------
(* The plan: the steps run_sync() goes through, in order.                  *)
Times(n, kind) == [i \in 1 .. n |-> kind]
Plan == Times(ArrCount, "arr")
        \o (IF HasTautulli THEN <<"plex_inventory", "tautulli_history">> ELSE << >>)
        \o Times(RequesterCount, "requester")
        \o (IF HasTautulli /\ RequesterCount > 0 THEN <<"user_identity_map">> ELSE << >>)
        \o <<"request_attribution", "watch_state", "candidates", "dashboard_snapshot">>

Steps == 1 .. Len(Plan)

\* Steps followed by a heartbeat, steps whose errors are swallowed, and the
\* derived steps, which must succeed.
Beating  == {"arr", "plex_inventory", "tautulli_history", "requester"}
DerivedKinds == {"request_attribution", "watch_state", "candidates", "dashboard_snapshot"}

(* Mutants of Swallowed: nothing is swallowed; a failing candidate engine is. *)
SwallowedNone == {}
SwallowedToo  == Beating \cup {"user_identity_map", "candidates"}

Swallowed == Beating \cup {"user_identity_map"}
Awaiting  == Swallowed     \* exactly the pulls are coroutines

JobStatus == {"running", "succeeded", "partial", "failed"}
RowStatus == {"absent", "running", "succeeded", "failed"}
Stages == {"none", "start", "step", "work", "beat", "fail", "leave", "finish"}

RunTypeOK ==
  /\ LockTypeOK
  /\ jobs \in Seq(JobStatus)
  /\ rows \in Seq([Steps -> RowStatus])
  /\ Len(rows) = Len(jobs)
  /\ run \in [Procs -> Nat]
  /\ stage \in [Procs -> Stages]
  /\ at \in [Procs -> Nat]
  /\ cancels \in Nat /\ errors \in Nat

RunInit ==
  /\ LockInit
  /\ jobs = << >>
  /\ rows = << >>
  /\ run = [p \in Procs |-> 0]
  /\ stage = [p \in Procs |-> "none"]
  /\ at = [p \in Procs |-> 0]
  /\ cancels = 0 /\ errors = 0

\* A bound, not code: whoever looks at the lock will find room for its run.
LedgerHasRoom ==
  Len(jobs) + Cardinality({p \in Procs : phase[p] = "taking" \/ stage[p] = "start"})
    < MaxRuns

RowsOf(p)    == rows[run[p]]
RowIs(p, s)  == rows' = [rows EXCEPT ![run[p]][at[p]] = s]
JobIs(p, s)  == jobs' = [jobs EXCEPT ![run[p]] = s]
GoTo(p, s)   == stage' = [stage EXCEPT ![p] = s]
NextStep(p)  == at' = [at EXCEPT ![p] = @ + 1]
Gone(p)      == /\ GoTo(p, "none")
                /\ run' = [run EXCEPT ![p] = 0]
                /\ at' = [at EXCEPT ![p] = 0]

\* A failing bookkeeping write, as far as the bound allows.
Error == errors < MaxErrors /\ errors' = errors + 1 /\ UNCHANGED cancels
NoError == UNCHANGED <<cancels, errors>>

-----------------------------------------------------------------------------
(* run_sync(): acquire.                                                    *)
Ask(p) ==
  /\ stage[p] = "none"
  /\ \/ Refused(p)
     \/ LedgerHasRoom /\ Look(p)
  /\ UNCHANGED <<jobs, rows, run, stage, at, cancels, errors>>

Acquire(p) ==
  /\ TakeOver(p) \/ TakeFree(p)
  /\ GoTo(p, "start")
  /\ UNCHANGED <<jobs, rows, run, at, cancels, errors>>

AcquireFails(p) ==
  /\ TakeRefused(p) \/ TakeBlocked(p)
  /\ UNCHANGED <<jobs, rows, run, stage, at, cancels, errors>>

(* Mutant of StartRun: a run that still reads "running" is adopted. *)
StartRunResumes(p) ==
  /\ stage[p] = "start"
  /\ IF jobs # << >> /\ jobs[Len(jobs)] = "running"
     THEN UNCHANGED <<jobs, rows>>
     ELSE /\ jobs' = Append(jobs, "running")
          /\ rows' = Append(rows, [i \in Steps |-> "absent"])
  /\ run' = [run EXCEPT ![p] = Len(jobs')]
  /\ at' = [at EXCEPT ![p] = 1]
  /\ GoTo(p, "step")
  /\ UNCHANGED <<lockVars, cancels, errors>>

\* start_run(), outside the try block.
StartRun(p) ==
  /\ stage[p] = "start"
  /\ jobs' = Append(jobs, "running")
  /\ rows' = Append(rows, [i \in Steps |-> "absent"])
  /\ run' = [run EXCEPT ![p] = Len(jobs) + 1]
  /\ at' = [at EXCEPT ![p] = 1]
  /\ GoTo(p, "step")
  /\ UNCHANGED <<lockVars, cancels, errors>>

\* start_run() raises: no finally block is active, the lock row stays.
StartRunFails(p) ==
  /\ stage[p] = "start"
  /\ Leak(p)
  /\ Gone(p)
  /\ UNCHANGED <<jobs, rows, cancels, errors>>

-----------------------------------------------------------------------------
(* The steps.                                                              *)

\* requester_users_by_source has an entry only if some requester answered.
IdentitySkipped(p) ==
  /\ Plan[at[p]] = "user_identity_map"
  /\ \A i \in Steps : Plan[i] = "requester" => RowsOf(p)[i] # "succeeded"

SkipIdentity(p) ==
  /\ stage[p] = "step" /\ at[p] \in Steps
  /\ IdentitySkipped(p)
  /\ NextStep(p)
  /\ UNCHANGED <<lockVars, jobs, rows, run, stage, cancels, errors>>

OpenStep(p) ==
  /\ stage[p] = "step" /\ at[p] \in Steps
  /\ ~IdentitySkipped(p)
  /\ \/ /\ RowIs(p, "running")
        /\ GoTo(p, "work")
        /\ NoError
     \/ /\ Error                       \* the INSERT of the row raises
        /\ rows' = rows
        /\ GoTo(p, "fail")
  /\ UNCHANGED <<lockVars, jobs, run, at>>

\* After a step that does not propagate an exception.
CarryOn(p) ==
  IF Plan[at[p]] \in Beating
  THEN GoTo(p, "beat") /\ at' = at
  ELSE GoTo(p, "step") /\ NextStep(p)

StepSucceeds(p) ==
  /\ stage[p] = "work"
  /\ RowIs(p, "succeeded")
  /\ CarryOn(p)
  /\ UNCHANGED <<lockVars, jobs, run, cancels, errors>>

\* The body raises an Exception: recorded, then swallowed or re-raised.
StepFails(p) ==
  /\ stage[p] = "work"
  /\ RowIs(p, "failed")
  /\ IF Plan[at[p]] \in Swallowed THEN CarryOn(p) ELSE GoTo(p, "fail") /\ at' = at
  /\ UNCHANGED <<lockVars, jobs, run, cancels, errors>>

(* Mutant of CloseFails: the error of _finalize_step() is swallowed too. *)
CloseFailsSwallowed(p) ==
  /\ stage[p] = "work"
  /\ Error
  /\ CarryOn(p)
  /\ UNCHANGED <<lockVars, jobs, rows, run>>

\* _finalize_step() itself raises: not swallowed, the row stays running.
CloseFails(p) ==
  /\ stage[p] = "work"
  /\ Error
  /\ GoTo(p, "fail")
  /\ UNCHANGED <<lockVars, jobs, rows, run, at>>

Beat(p) ==
  /\ stage[p] = "beat"
  /\ Heartbeat(p)
  /\ GoTo(p, "step")
  /\ NextStep(p)
  /\ UNCHANGED <<jobs, rows, run, cancels, errors>>

BeatFails(p) ==
  /\ stage[p] = "beat"
  /\ Error
  /\ GoTo(p, "fail")
  /\ UNCHANGED <<lockVars, jobs, rows, run, at>>

-----------------------------------------------------------------------------
(* The end of run_sync().                                                  *)

(* Mutant of RecordFailure: the job is not closed on the error path. *)
RecordFailureNot(p) ==
  /\ stage[p] = "fail"
  /\ jobs' = jobs /\ NoError
  /\ GoTo(p, "leave")
  /\ UNCHANGED <<lockVars, rows, run, at>>

\* except Exception: finish_run(failed); if that raises, the job row stays
\* running.  Either way the finally block is next.
RecordFailure(p) ==
  /\ stage[p] = "fail"
  /\ \/ JobIs(p, "failed") /\ NoError
     \/ Error /\ jobs' = jobs
  /\ GoTo(p, "leave")
  /\ UNCHANGED <<lockVars, rows, run, at>>

\* finally, after an exception: the exception then leaves run_sync().
LeaveFailed(p) ==
  /\ stage[p] = "leave"
  /\ Release(p)
  /\ Gone(p)
  /\ UNCHANGED <<jobs, rows, cancels, errors>>

\* finally, after the last step.
LeaveDone(p) ==
  /\ stage[p] = "step" /\ at[p] \notin Steps
  /\ Release(p)
  /\ GoTo(p, "finish")
  /\ UNCHANGED <<jobs, rows, run, at, cancels, errors>>

\* release() raises: the lock row stays, the job row keeps its status.
LeaveFails(p) ==
  /\ stage[p] = "leave" \/ (stage[p] = "step" /\ at[p] \notin Steps)
  /\ Leak(p)
  /\ Gone(p)
  /\ UNCHANGED <<jobs, rows, cancels, errors>>

(* Mutant of OverallStatus: a failed step does not make the run partial. *)
OverallLenient(statuses) ==
  IF statuses = {} \/ statuses = {"failed"} THEN "failed" ELSE "succeeded"

\* overall_status() of the rows of a run.
OverallStatus(statuses) ==
  IF statuses = {} \/ statuses = {"failed"} THEN "failed"
  ELSE IF "failed" \in statuses THEN "partial" ELSE "succeeded"

Finish(p) ==
  /\ stage[p] = "finish"
  /\ \/ /\ JobIs(p, OverallStatus({RowsOf(p)[i] : i \in Steps} \ {"absent"}))
        /\ NoError
     \/ Error /\ jobs' = jobs
  /\ Gone(p)
  /\ UNCHANGED <<lockVars, rows>>

(* Mutant of Cancel: the release is not in a finally block. *)
CancelKeepsLock(p) ==
  /\ stage[p] = "work" /\ Plan[at[p]] \in Awaiting
  /\ cancels < MaxCancels
  /\ cancels' = cancels + 1
  /\ Vanish(p)
  /\ Gone(p)
  /\ UNCHANGED <<crashes, leaks, late, jobs, rows, errors>>

\* CancelledError at an await is not an Exception: neither the step nor the
\* job is recorded, but the finally block releases the lock.
Cancel(p) ==
  /\ stage[p] = "work" /\ Plan[at[p]] \in Awaiting
  /\ cancels < MaxCancels
  /\ cancels' = cancels + 1
  /\ Release(p)
  /\ Gone(p)
  /\ UNCHANGED <<jobs, rows, errors>>

\* The process dies; between the release and the last write of the job, that
\* write is what is lost.
Die(p) ==
  /\ \/ Crash(p) /\ NoError
     \/ stage[p] = "finish" /\ Error /\ UNCHANGED lockVars
  /\ Gone(p)
  /\ UNCHANGED <<jobs, rows>>

Elapse == Tick /\ UNCHANGED <<jobs, rows, run, stage, at, cancels, errors>>

\* The code of run_sync() itself, as opposed to what may happen to it.
Proceed(p) ==
  \/ Acquire(p) \/ AcquireFails(p) \/ StartRun(p)
  \/ SkipIdentity(p) \/ OpenStep(p) \/ StepSucceeds(p) \/ StepFails(p) \/ Beat(p)
  \/ RecordFailure(p) \/ LeaveFailed(p) \/ LeaveDone(p) \/ Finish(p)

Mishap(p) ==
  \/ StartRunFails(p) \/ CloseFails(p) \/ BeatFails(p) \/ LeaveFails(p)
  \/ Cancel(p) \/ Die(p)

RunNext == Elapse \/ \E p \in Procs : Ask(p) \/ Proceed(p) \/ Mishap(p)

RunSpec == RunInit /\ [][RunNext]_runVars

\* A running coroutine is resumed, and every step ends: each HTTP request has
\* a timeout and a bounded number of attempts.
RunFairness == \A p \in Procs : WF_runVars(Proceed(p))

FairRunSpec == RunSpec /\ RunFairness

-----------------------------------------------------------------------------
Published(i) == jobs[i] \in {"succeeded", "partial"}
Working(p)   == run[p] # 0

\* What the dashboards rely on when they take the latest succeeded or partial
\* run: every derived step of it was completed, and the status tells whether
\* some pull failed.  Failed runs never look published.
PublishedIsComplete ==
  \A i \in DOMAIN jobs : Published(i) =>
    /\ \A s \in Steps : Plan[s] \in DerivedKinds => rows[i][s] = "succeeded"
    /\ jobs[i] = "partial" <=> \E s \in Steps : rows[i][s] = "failed"

\* The ledger shows one step in progress at a time: below a running row of a
\* run there is no other row, even after crashes, cancellations and overlaps.
StepsInOrder ==
  \A i \in DOMAIN rows : \A s, t \in Steps :
    s < t /\ rows[i][s] = "running" => rows[i][t] = "absent"

\* No two processes ever write the same run's rows.
RunsAreApart ==
  \A p, q \in Procs : Working(p) /\ run[p] = run[q] => p = q

\* A job or a step that reads "running" is being worked on by a live process.
RunningIsLive ==
  \A i \in DOMAIN jobs :
    jobs[i] = "running" \/ (\E s \in Steps : rows[i][s] = "running")
      => \E p \in Procs : run[p] = i

Undisturbed == crashes = 0 /\ leaks = 0 /\ cancels = 0 /\ errors = 0

\* It takes a crash, a cancellation or a failing bookkeeping write to leave a
\* row behind that reads "running": no order of failing steps does.
OrphanRowsNeedMishap == Undisturbed => RunningIsLive

Quiet == \A p \in Procs : ~Inside(p)

\* Unless a process crashed or leaked the row, the lock is free whenever no
\* run holds it, however many steps failed, were cancelled or overlapped.
FreeWhenQuiet == crashes = 0 /\ leaks = 0 /\ Quiet => ~Held

\* Every run that starts gets a verdict, whatever fails upstream, and even if
\* its lock was taken over meanwhile.
EveryRunEnds ==
  \A i \in 1 .. MaxRuns :
    (i \in DOMAIN jobs) ~> (Undisturbed => i \in DOMAIN jobs /\ jobs[i] # "running")

-----------------------------------------------------------------------------
(* Refinement: the ledgers implement RunBook.  A run is complete once the  *)
(* last of its derived rows has succeeded, tainted once a row has failed.  *)
CompleteRuns == {i \in DOMAIN rows :
                   \A s \in Steps : Plan[s] \in DerivedKinds => rows[i][s] = "succeeded"}
TaintedRuns  == {i \in DOMAIN rows : \E s \in Steps : rows[i][s] = "failed"}

Book == INSTANCE RunBook WITH book <- jobs, complete <- CompleteRuns, tainted <- TaintedRuns

\* Readers of sync_jobs may think of RunBook: no interleaving, failing step,
\* crash or takeover gives a run two verdicts or one its steps do not bear out.
ImplementsRunBook == Book!BookSpec

\* run_sync() uses the lock as SyncLock says: acquire, heartbeat and release
\* in their order, nothing in between touches the row.
ImplementsLock == LockSpec
=============================================================================
