---------------------------- MODULE Publication ----------------------------
(***************************************************************************)
(* What the dashboards read from a run: its rows in `candidates`, written  *)
(* and pruned by candidates_db.compute_candidates, its rows in             *)
(* dashboard_snapshots, and the status in sync_jobs that makes it the      *)
(* latest run.  The three are written in three transactions, and the       *)
(* status last, so a failure or a crash in between separates them.         *)
(*                                                                         *)
(* A run is abstracted to that tail of its life; the pulls and the other   *)
(* derived steps are what may fail before it (SyncRun has them in full).   *)
(***************************************************************************)
EXTENDS Naturals, Sequences, FiniteSets

CONSTANTS
  Keep,       \* keep_last_n_runs
  MaxRuns,    \* bound: runs started
  MaxActive   \* bound: runs in flight at once

ASSUME PublicationAssumption ==
  Keep \in Nat \ {0} /\ MaxRuns \in Nat /\ MaxActive \in Nat \ {0}

VARIABLES
  status,    \* sync_jobs: status of run i
  pc,        \* where run i is; dead after a crash or a bookkeeping error
  produced,  \* runs whose candidates step inserted rows
  stored,    \* runs with rows in candidates now
  snaps,     \* run ids in dashboard_snapshots, in order of row id
  overlap    \* were two runs ever in flight at once, the lock of a live run
             \* having been taken over?  (history variable)

pubVars == <<status, pc, produced, stored, snaps, overlap>>

Runs == DOMAIN status

PubTypeOK ==
  /\ status \in Seq({"running", "succeeded", "partial", "failed"})
  /\ pc \in Seq({"pulling", "computed", "snapped", "done", "dead"})
  /\ Len(pc) = Len(status)
  /\ produced \in SUBSET Runs
  /\ stored \in SUBSET produced
  /\ snaps \in Seq(Runs)
  /\ overlap \in BOOLEAN

PubInit ==
  /\ status = << >> /\ pc = << >>
  /\ produced = {} /\ stored = {} /\ snaps = << >>
  /\ overlap = FALSE

Active == {i \in Runs : pc[i] \in {"pulling", "computed", "snapped"}}

StartRun ==
  /\ Len(status) < MaxRuns
  /\ Cardinality(Active) < MaxActive
  /\ status' = Append(status, "running")
  /\ pc' = Append(pc, "pulling")
  /\ overlap' = (overlap \/ Active # {})
  /\ UNCHANGED <<produced, stored, snaps>>

(* Mutant of Latest: one run too many. *)
LatestAndOne(ids, n) == {i \in ids : Cardinality({j \in ids : j > i}) <= n}

\* SELECT DISTINCT run id ... ORDER BY run id DESC LIMIT n.
Latest(ids, n) == {i \in ids : Cardinality({j \in ids : j > i}) < n}

(* Mutant of Pruned: the run at hand takes the place of an older one. *)
PrunedToRun(ids, i) == Latest(ids, Keep - 1) \cup ({i} \cap ids)

\* _prune_old_runs(): whichever runs have rows, whatever became of them.
Pruned(ids, i) == Latest(ids, Keep) \cup ({i} \cap ids)

\* compute_candidates(), one transaction.  There may be nothing to insert.
Compute(i) ==
  /\ pc[i] = "pulling"
  /\ pc' = [pc EXCEPT ![i] = "computed"]
  /\ \E rows \in {{}, {i}} :
       /\ produced' = produced \cup rows
       /\ stored' = Pruned(stored \cup rows, i)
  /\ UNCHANGED <<status, snaps, overlap>>

\* take_snapshot(), one transaction; the TOTAL row is always written.
TakeSnapshot(i) ==
  /\ pc[i] = "computed"
  /\ pc' = [pc EXCEPT ![i] = "snapped"]
  /\ snaps' = Append(snaps, i)
  /\ UNCHANGED <<status, produced, stored, overlap>>

\* A derived step up to the snapshot raises: the run is recorded as failed.
FailRun(i) ==
  /\ pc[i] \in {"pulling", "computed"}
  /\ pc' = [pc EXCEPT ![i] = "done"]
  /\ status' = [status EXCEPT ![i] = "failed"]
  /\ UNCHANGED <<produced, stored, snaps, overlap>>

\* finish_run() with the overall status of the steps.
Publish(i) ==
  /\ pc[i] = "snapped"
  /\ pc' = [pc EXCEPT ![i] = "done"]
  /\ \E v \in {"succeeded", "partial"} : status' = [status EXCEPT ![i] = v]
  /\ UNCHANGED <<produced, stored, snaps, overlap>>

\* _finalize_step() of the snapshot step raises, its rows are committed.
FailClosing(i) ==
  /\ pc[i] = "snapped"
  /\ pc' = [pc EXCEPT ![i] = "dead"]
  /\ status' = [status EXCEPT ![i] = "failed"]
  /\ UNCHANGED <<produced, stored, snaps, overlap>>

\* The process dies, or finish_run() raises: the job stays running.
CrashRun(i) ==
  /\ i \in Active
  /\ pc' = [pc EXCEPT ![i] = "dead"]
  /\ UNCHANGED <<status, produced, stored, snaps, overlap>>

PubNext ==
  \/ StartRun
  \/ \E i \in Runs :
       \/ Compute(i) \/ TakeSnapshot(i) \/ Publish(i)
       \/ FailRun(i) \/ FailClosing(i) \/ CrashRun(i)

PubSpec == PubInit /\ [][PubNext]_pubVars

-----------------------------------------------------------------------------
Published == {i \in Runs : status[i] \in {"succeeded", "partial"}}

\* latest_run(): the run all dashboards read; {} before the first one.
LatestRun == Latest(Published, 1)

\* The candidates the dashboards show can disappear only when at least Keep
\* newer runs computed theirs and then failed or died (or are in flight).
LossNeedsFailures ==
  \A i \in LatestRun \cap produced :
    i \notin stored => Cardinality({j \in produced : j > i /\ j \notin Published}) >= Keep

\* The candidates table does not grow: never more than Keep runs have rows, and
\* one more once an older run computed after newer ones it overlapped with.
StoredIsBounded ==
  Cardinality(stored) <= IF overlap THEN Keep + 1 ELSE Keep

\* The trend strip and the cards agree: when no run is in flight, none died and
\* none overlapped, the newest snapshot is that of the run whose candidates are
\* shown.
SnapshotIsOfLatest ==
  Active = {} /\ (\A i \in Runs : pc[i] # "dead") /\ ~overlap /\ snaps # << >>
    => LatestRun = {snaps[Len(snaps)]}
=============================================================================
