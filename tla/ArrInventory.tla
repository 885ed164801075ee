---------------------------- MODULE ArrInventory ----------------------------
(***************************************************************************)
(* The mirror of one Sonarr or Radarr instance: arr_sync.py over           *)
(* upsert.py, in runs that follow or overlap each other.                   *)
(*                                                                         *)
(* A pull stamps every row it sees with its run and then tombstones the    *)
(* rows of the instance that carry another stamp.  Its first upsert opens  *)
(* a transaction that stays open across every request of the pull; the     *)
(* first tombstone statement commits it, or the next bookkeeping write     *)
(* after an error (_finalize_step, release).  The tombstones of the files  *)
(* and the last write to the instance are transactions of their own.  Two  *)
(* runs overlap in two processes (SyncRun shows how), so SQLite's write    *)
(* lock orders their transactions.                                         *)
(*                                                                         *)
(* The files of an item are one row here; the rows of arr_episodes, which  *)
(* are stamped and tombstoned like those of arr_files, are left out, and   *)
(* so are the tags, which are replaced with their item.  The instance      *)
(* answers anything at any time.                                           *)
(***************************************************************************)
EXTENDS Naturals, FiniteSets

CONSTANTS
  Items,      \* movies or series the instance may have
  MaxRuns,    \* bound: runs
  MaxActive   \* bound: runs in flight at once

ASSUME ArrAssumption == MaxRuns \in Nat /\ MaxActive \in Nat \ {0}

VARIABLES
  db,      \* committed: [items, files], a row per item and one for its files
  draft,   \* the same as the writer sees it, with its uncommitted upserts
  writer,  \* run whose transaction holds the write lock, 0 if none
  todo,    \* items of the writer's list not yet upserted
  at,      \* the item whose files the writer is fetching, if any
  stage,   \* per run: where in sync_arr_instance() it is
  listed,  \* per run: items of the answer to its list request (history)
  filed,   \* per run: items whose files it upserted (history)
  marked,  \* runs whose first tombstone statement committed (history)
  alone    \* per run: was no other run ever in flight with it? (history)

arrVars == <<db, draft, writer, todo, at, stage, listed, filed, marked, alone>>

Runs  == 1 .. MaxRuns
NoRow == [stamp |-> 0, dead |-> FALSE]
Row   == [stamp : 0 .. MaxRuns, dead : BOOLEAN]
Table == [Items -> Row]

Alive(table) == {i \in Items : table[i].stamp # 0 /\ ~table[i].dead}

\* Stages: step not reached; before the first write; inside the transaction;
\* before each of the two transactions that follow it; and the ends - well,
\* by a failing request, by "database is locked", by the death of the process.
Stages == {"none", "wait", "open", "pull", "files", "seal",
           "ok", "failed", "starved", "dead"}
Active == {r \in Runs : stage[r] \in {"wait", "open", "pull", "files", "seal"}}

ArrTypeOK ==
  /\ db \in [items : Table, files : Table]
  /\ draft \in [items : Table, files : Table]
  /\ writer \in 0 .. MaxRuns
  /\ todo \subseteq Items /\ at \subseteq Items
  /\ stage \in [Runs -> Stages]
  /\ listed \in [Runs -> SUBSET Items]
  /\ filed \in [Runs -> SUBSET Items]
  /\ marked \subseteq Runs
  /\ alone \in [Runs -> BOOLEAN]
  /\ \A r \in Runs : (stage[r] \in {"open", "pull"}) <=> (writer = r)

ArrInit ==
  /\ db = [items |-> [i \in Items |-> NoRow], files |-> [i \in Items |-> NoRow]]
  /\ draft = db
  /\ writer = 0 /\ todo = {} /\ at = {}
  /\ stage = [r \in Runs |-> "none"]
  /\ listed = [r \in Runs |-> {}]
  /\ filed = [r \in Runs |-> {}]
  /\ marked = {}
  /\ alone = [r \in Runs |-> TRUE]

GoTo(r, s) == stage' = [stage EXCEPT ![r] = s]

\* The writer's transaction ends, or a short one happens: tables is committed.
Commit(tables) ==
  db' = tables /\ draft' = tables /\ writer' = 0 /\ todo' = {} /\ at' = {}

-----------------------------------------------------------------------------
(* sync_arr_instance().                                                    *)

\* A run records the step, which is a write of its own; ids are in order.
Start(r) ==
  /\ stage[r] = "none" /\ writer = 0
  /\ \A q \in Runs : q < r => stage[q] # "none"
  /\ Cardinality(Active) < MaxActive
  /\ GoTo(r, "wait")
  /\ alone' = [q \in Runs |->
                 IF q \in Active THEN FALSE ELSE IF q = r THEN Active = {} ELSE alone[q]]
  /\ UNCHANGED <<db, draft, writer, todo, at, listed, filed, marked>>

(* Mutant of Open: a run does not wait for the write lock. *)
OpenUnlocked(r) ==
  /\ stage[r] = "wait"
  /\ writer' = r
  /\ GoTo(r, "open")
  /\ UNCHANGED <<db, draft, todo, at, listed, filed, marked, alone>>

\* _upsert_instance(): the transaction begins.
Open(r) ==
  /\ stage[r] = "wait" /\ writer = 0
  /\ writer' = r
  /\ GoTo(r, "open")
  /\ UNCHANGED <<db, draft, todo, at, listed, filed, marked, alone>>

\* list_tags(), list_movies(), list_series(): upstream answers what it has now.
List(r) ==
  /\ stage[r] = "open"
  /\ \E found \in SUBSET Items :
       todo' = found /\ listed' = [listed EXCEPT ![r] = found]
  /\ GoTo(r, "pull")
  /\ UNCHANGED <<db, draft, writer, at, filed, marked, alone>>

\* upsert(): the conflicting row is stamped and its deleted_at cleared.
Upsert(table, i, r) == [table EXCEPT ![i] = [stamp |-> r, dead |-> FALSE]]

(* Mutant of UpsertItem: every upsert is committed by itself. *)
UpsertItemCommitted(r, i) ==
  /\ stage[r] = "pull" /\ at = {} /\ i \in todo
  /\ draft' = [draft EXCEPT !.items = Upsert(@, i, r)]
  /\ db' = draft'
  /\ todo' = todo \ {i} /\ at' = {i}
  /\ UNCHANGED <<writer, stage, listed, filed, marked, alone>>

\* _upsert_movie(), _upsert_series().
UpsertItem(r, i) ==
  /\ stage[r] = "pull" /\ at = {} /\ i \in todo
  /\ draft' = [draft EXCEPT !.items = Upsert(@, i, r)]
  /\ todo' = todo \ {i} /\ at' = {i}
  /\ UNCHANGED <<db, writer, stage, listed, filed, marked, alone>>

\* The item has files: _upsert_movie_file(), or list_episodes(),
\* list_episode_files() and their upserts.
UpsertFiles(r, i) ==
  /\ stage[r] = "pull" /\ at = {i}
  /\ draft' = [draft EXCEPT !.files = Upsert(@, i, r)]
  /\ filed' = [filed EXCEPT ![r] = @ \cup {i}]
  /\ at' = {}
  /\ UNCHANGED <<db, writer, todo, stage, listed, marked, alone>>

\* The item has none.
SkipFiles(r, i) ==
  /\ stage[r] = "pull" /\ at = {i}
  /\ at' = {}
  /\ UNCHANGED <<db, draft, writer, todo, stage, listed, filed, marked, alone>>

(* Mutant of Mark: nothing is marked. *)
MarkNone(table, r) == table

\* mark_tombstones() over the rows of the instance.
Mark(table, r) ==
  [i \in Items |->
     IF table[i].stamp \notin {0, r} THEN [table[i] EXCEPT !.dead = TRUE] ELSE table[i]]

\* mark_tombstones(arr_items): its commit ends the transaction of the pull.
MarkItems(r) ==
  /\ stage[r] = "pull" /\ todo = {} /\ at = {}
  /\ Commit([draft EXCEPT !.items = Mark(@, r)])
  /\ marked' = marked \cup {r}
  /\ GoTo(r, "files")
  /\ UNCHANGED <<listed, filed, alone>>

(* Mutant of MarkFiles: only the items are tombstoned. *)
MarkFilesForgotten(r) ==
  /\ stage[r] = "files" /\ writer = 0
  /\ GoTo(r, "seal")
  /\ UNCHANGED <<db, draft, writer, todo, at, listed, filed, marked, alone>>

\* mark_tombstones(arr_episodes), mark_tombstones(arr_files).
MarkFiles(r) ==
  /\ stage[r] = "files" /\ writer = 0
  /\ Commit([db EXCEPT !.files = Mark(@, r)])
  /\ GoTo(r, "seal")
  /\ UNCHANGED <<listed, filed, marked, alone>>

\* UPDATE instances SET last_seen_ok_at.
Seal(r) ==
  /\ stage[r] = "seal" /\ writer = 0
  /\ GoTo(r, "ok")
  /\ UNCHANGED <<db, draft, writer, todo, at, listed, filed, marked, alone>>

(* Mutant of Fail: the items are tombstoned on the error path too. *)
FailAndMark(r) ==
  /\ writer = r
  /\ Commit([draft EXCEPT !.items = Mark(@, r)])
  /\ GoTo(r, "failed")
  /\ UNCHANGED <<listed, filed, marked, alone>>

\* A request fails, or the task is cancelled: what was upserted so far is
\* committed by the write that records the failure or releases the lock.
Fail(r) ==
  /\ writer = r
  /\ Commit(draft)
  /\ GoTo(r, "failed")
  /\ UNCHANGED <<listed, filed, marked, alone>>

\* "database is locked": another run holds the write lock for too long.
Starve(r) ==
  /\ stage[r] \in {"wait", "files", "seal"} /\ writer # 0
  /\ GoTo(r, "starved")
  /\ UNCHANGED <<db, draft, writer, todo, at, listed, filed, marked, alone>>

\* The process dies: an open transaction is rolled back.
Crash(r) ==
  /\ r \in Active
  /\ IF writer = r THEN Commit(db) ELSE UNCHANGED <<db, draft, writer, todo, at>>
  /\ GoTo(r, "dead")
  /\ UNCHANGED <<listed, filed, marked, alone>>

RunStep(r) ==
  \/ Start(r) \/ Open(r) \/ List(r)
  \/ MarkItems(r) \/ MarkFiles(r) \/ Seal(r)
  \/ Fail(r) \/ Starve(r) \/ Crash(r)
  \/ \E i \in Items : UpsertItem(r, i) \/ UpsertFiles(r, i) \/ SkipFiles(r, i)

ArrNext == \E r \in Runs : RunStep(r)

ArrSpec == ArrInit /\ [][ArrNext]_arrVars

-----------------------------------------------------------------------------
Newest(r) == \A q \in Runs : q > r => stage[q] = "none"

Undisturbed == \A r \in Runs : alone[r]

\* Whatever earlier runs did to the mirror - partial commits, deaths between
\* the tombstones, overlaps - a pull that had it to itself and ended well
\* leaves alive exactly the items and files that it saw.
PullHeals ==
  \A r \in Runs : stage[r] = "ok" /\ alone[r] /\ Newest(r) =>
    Alive(db.items) = listed[r] /\ Alive(db.files) = filed[r]

\* "Tombstones rows missed by this run" (arr_sync.py:11), for items: one is
\* tombstoned only by a run that got through its list and missed it, and where
\* no two runs overlap that run is younger than the row's stamp.  A pull that
\* fails halfway tombstones nothing, and overlapping pulls do not tombstone an
\* item that both have seen.
DeathHasWitness ==
  \A i \in Items : db.items[i].dead =>
    \E r \in marked : i \notin listed[r] /\ (Undisturbed => r > db.items[i].stamp)

\* Between runs no file row is alive whose item is tombstoned, unless a run
\* died between the tombstone transactions or two runs overlapped: the sizes
\* of items that are gone are not counted.
FilesHaveItems ==
  Active = {} /\ Undisturbed /\ (\A r \in Runs : stage[r] # "dead") =>
    Alive(db.files) \subseteq Alive(db.items)

\* While no pull fails, the items that readers of the database find alive are
\* those of one answer of the instance, never a mix of two, also while a pull
\* is under way, after a crash and under overlap: rows reach the readers with
\* the first tombstone statement.
ItemsAreOneAnswer ==
  (\A r \in Runs : stage[r] # "failed") =>
    Alive(db.items) \in {{}} \cup {listed[r] : r \in marked}
=============================================================================
