# Dead Movies & Shows: a verification project

TLA+ models of `dms` (`src/src/dms`), the model checks on them, and proofs. The
program mirrors Sonarr, Radarr, Plex (through Tautulli) and Overseerr into one
SQLite file, computes which media nobody watches, and shows the result. Paths
below are relative to `src/src/dms` unless they start with `PLAN.md`.

## 1. Inventory

| Component | State | Operations | Talks to |
|---|---|---|---|
| Sync lock (`sync/locks.py`) | the `sync_locks` row, `audit_log` | `acquire`, `heartbeat`, `release` | called by the runner, in every process |
| Runner, ledgers (`sync/runner.py`, `sync/runs.py`) | `sync_jobs`, `sync_run_steps` | `run_sync`, `start_run`, `step`, `finish_run` | lock, pulls, derived computations |
| Triggers (`sync/background.py`, `scheduler.py`, `cli/sync.py`, `routes/sync_route.py`) | `_active`, one task per process | start a run | runner |
| History mirror (`sync/tautulli_sync.py`, `clients/tautulli.py`) | `watch_events`, `cursor_json` | a walk by pages, purge | Tautulli; the configuration page |
| Publication (`sync/candidates_db.py`, `sync/snapshots.py`, `views/`) | `candidates`, `dashboard_snapshots` | compute, prune, snapshot; latest run | runner; the pages |
| Inventory pulls (`sync/arr_sync.py`, `sync/plex_sync.py`, `sync/requester_sync.py`, `sync/upsert.py`) | `arr_*`, `plex_*`, `tags`, `requests` | upsert, tombstone | upstream services, one transaction across awaits |
| Identity map (`sync/requester_sync.py`, `identity.py`) | `user_identity_map` | refresh, manual mapping | runner; the configuration page |
| Attribution, watch state, candidate rules (`sync/attribution.py`, `sync/watch_state.py`, `sync/candidates_db.py`) | `request_attribution`, `watch_state`, `candidates` | recompute | the mirrored tables |
| Spike (`spike.py`, `candidates.py`) | none | the same candidates from one answer of each service | upstream services |
| Pages and views (`views/`, `routes/`) | none | cards, buckets, lists, totals | candidates joined with mirrored tables |
| Settings (`settings_store.py`, `config.py`, `routes/config_route.py`) | `config`, `audit_log` | save, effective value | pages |
| Ignore rules (`routes/ignored.py`) | `ignored_local`, `ignore_rules` | ignore, unignore | candidate rules |
| Login (`auth.py`, `routes/login.py`) | session, attempts per client | login, logout, throttle | pages |
| Migrations, database (`migrations/`, `db.py`) | `schema_version`, the schema | apply pending | every process at start |
| HTTP clients (`clients/`) | none | request with retries | upstream services |

What is hard here: every process (the web application and any
`python -m dms.cli.sync`) has its own SQLite connection and there is no lock but
the row in `sync_locks`; a run is a coroutine with an await in every pull, and
its write transaction stays open across them; forms are handled on the same
event loop; each bookkeeping write is a transaction of its own, so a crash, a
cancellation or an error separates what belongs together; upstream data change
while they are being paged through; the same candidates are computed and counted
by several pieces of SQL that must agree. `PROJECT.json` lists the hazards line by line.

What makes the components correct:

- lock: two runs overlap only for a stated cause, a stolen lock is always on
  record, an orphaned row never blocks syncing for good;
- ledgers: one verdict per run, and one its steps bear out;
- history: no gap in the mirror without a stated cause;
- publication: what the pages show exists and belongs together;
- pulls: an item is alive exactly if the last successful pull of its source saw
  it, an outage costs no more than the retry loop says, and a bad pull is healed by
  the next good one;
- derived tables: the earliest request wins, the scopes of a run and the two
  engines agree, ignoring an item only hides it, and an item that a good pull caught
  is judged as the truth would have it;
- pages: buckets, cards, totals and lists tell one story;
- forms: what was saved is on record, a manual mapping is lost only to a stated
  race, and nobody waits for ever;
- web process: a migration may be interrupted and run again, and a client has
  a bounded number of guesses.

## 2. Modules

### Runs and what they share

`SyncLock` is the lock. A process is the web application or a command; the owner
string `<requested_by>-<pid>` is the process (two containers whose commands run
under the same name *and* pid would share it, which is not modelled).
`acquire()` is two actions, since the `sqlite3` module opens a transaction only
at the first writing statement: `Look` is the SELECT, `TakeOver` and `TakeFree`
the transaction that follows, `Refused`, `TakeRefused` and `TakeBlocked` the three
ways to fail. `Heartbeat`, `Release`, `Crash`, `Leak` and `Tick` are the rest.
Timestamps are ages (now - timestamp), capped at `TTL + 1`, where they no longer
matter. `late` is a history variable: was a live process silent for longer than
the TTL?

`SyncRun` EXTENDS it and is one run after another in each process: `run_sync()` with
its plan of steps (`Plan`, from the configuration constants), the two ledgers, and a
program counter `stage`. Each lock action happens where the code calls it. Every
exit is there: a swallowed and an unswallowed step error, `start_run()` raising,
a failing bookkeeping write (`errors`), a `CancelledError` (`cancels`), a crash. A
pull is one step that succeeds or fails; what it does to its tables is not here.

`RunBook` is the abstract specification of `sync_jobs` as its readers see it: runs
in order, one verdict each, and which verdicts a run may get. `SyncRun` implements
it under the mapping `Book`.

`Publication` is the tail of a run seen from the readers: compute (with pruning),
snapshot, verdict, three transactions. It has up to two runs in flight, as SyncRun
shows possible; the history variable `overlap` tells when that happened. `Trend` EXTENDS it
with the numbers: what a run found by reason, which of that `take_snapshot()` keeps, and what the
trend strip and the cards of the home page make of it (`Stat`, which is `latest_with_delta()`).
`take_snapshot()` reads before its transaction; here both are one action, which makes a difference only
to overlapping runs. The 365-day pruning of snapshots is left out.

### Mirrors

`HistorySync` is one walk at a time over `get_history`: the floor is fixed first,
each page is one action (rows and cursor are one transaction), and between pages
plays are recorded (`Play`), deleted upstream (`Delete`), a day passes
(`DayPasses`), the walk is interrupted or the table purged. A play is its row id;
Tautulli is taken to serve plays in order of id. `walk.due`, `synced`, `covered`,
`torn` and `spoiled` are history variables. `cursor_json` has no variable: nothing reads it.

`ArrInventory` is the mirror of one Sonarr or Radarr instance. The first upsert of
a pull opens a transaction that stays open across its requests; `draft` is what
the writer sees, `db` what is committed. `MarkItems` is the first tombstone
statement, whose commit ends that transaction; `MarkFiles` and `Seal` are
transactions of their own. A failing request (`Fail`) commits the upserts so far,
since the write that records the failure is on the same connection; a crash rolls them
back; a busy write lock (`Starve`) ends the run. SyncRun shows that two runs may overlap,
in two processes; here any `MaxActive` may, and the write lock alone orders them.
`listed`, `filed`, `marked` and `alone` are history variables.

`HttpRetry` is the retry loop of `BaseClient.request_json()` as its callers can tell:
a reply lets `glitches` attempts down and then has a last word, and `Outcome` is data, an
`UpstreamError` or the `ValueError` of the parser.

`PlexInventory` EXTENDS it and is the pull of the Plex libraries, run after run. One
section (`PullSection`) is listed, enriched and upserted; the metadata requests of a
section are gathered, so each item has a reply of its own, and an item whose request fails
is written without ids and paths. `SweepItems` and `SweepFiles` are the tombstones, which
have no scope. `FailPull` commits what was upserted, `CrashPull` rolls it back. `heard`
is a history variable.

### From the mirror to the pages

`CandidateRules` has the derived steps as operators over one record `w` of tables:
`Attribution`, `WatchState` and `Candidates`, each named part being one SQL statement
or one condition of it. `Spike` is the other engine, `run_spike()`, which joins by
dictionaries. `Pages` has the queries of `views/` over the candidates of a run.
`Derive` EXTENDS both and makes the derived steps actions, each a transaction that
may fail, with the ignore and unignore forms in between. Runs follow each other: `Pull`
is all the pulls of the next run, which may turn the tables into any of `Later` that keeps their
rows and flags. Pages are made at any time, so they join the rows of an older run with
tables of a newer one until that has computed its own.

`Pipeline` composes `PlexInventory` with the steps of `Derive`, instantiated over the mirror that
the pull leaves (`Mirrored`): the path of an incomplete or wrong answer through
tombstones and lost ids to a wrong candidate. `Truth` is the same after a pull that misses
nothing.

### The web process

`ConfigForms` is the forms of the configuration page beside a run, over what they
share: SQLite's write lock (`holder`), the event loop, the tables `config` and
`user_identity_map`. A form is handled without an await, so while one is handled the
loop does nothing else; a run is a task of that loop or a process of its own. Saving
settings is one action per key and one for the audit row. Refreshing the map is one
action in the loop and a SELECT and an upsert per user in another process. A user's name
is the number of his renames.

`Migrations` is `apply_pending()` in several processes. `executescript()` commits by
the statement; 0002, which moves a table, is modelled by the statement, 0001 and 0003
by the script. `LoginThrottle` is the memory of failed attempts per client.
`WebApp` composes the two: the process migrates before it serves, and its throttle
dies with it.

The `MC` modules give model values to processes, items and users; `MCDerive` builds the
tables that the derived steps are checked on, and `MCPipeline` the libraries.
The `Proofs` modules hold the theorems: `SyncRunProofs` those of `SyncLock` too, and
`PipelineProofs` those of `PlexInventory`, `WebAppProofs` those of `LoginThrottle`. Operators whose comment says "Mutant" are
deliberately wrong variants of the definition they precede, kept to show that each
property can fail; no specification uses them.

## 3. What is checked

| Run | Bounds | Result |
|---|---|---|
| `lock` | 2 processes, TTL 1, 2 crashes, 1 leak | `RobbedIsAudited`, `NoTakeoverExclusion`, `PromptExclusion`, `RobbedIsInert`, `OrphanReclaimed` hold |
| `lock_doublesteal` | 2 processes, 1 crash | `StealNeedsSilence` is violated |
| `run_overlap` | 2 processes, plan of 5 steps, 2 runs, 1 crash, 1 cancellation | `RunsAreApart`, `OrphanRowsNeedMishap`, `FreeWhenQuiet`, `EveryRunEnds`, `ImplementsRunBook` hold |
| `run_fullplan` | 1 process, plan of 10 steps, one of each fault | `PublishedIsComplete`, `StepsInOrder` hold |
| `publication` | 3 runs, 2 in flight, keep 2, one reason with up to 2 rows, 216,074 states | `StoredIsBounded`, `TrendsFollowCards`, `LossNeedsFailures` hold |
| `history` | 5 plays, pages of 2, cutoff 1 | `GapHasCause`, `WalkCovers` hold |
| `arr` | 2 items, 3 runs, 2 in flight | `ArrTypeOK`, `PullHeals`, `DeathHasWitness`, `FilesHaveItems`, `ItemsAreOneAnswer` hold |
| `rules` | seven families of tables, the last before and after any number of runs, 264,920 states | `EarliestWins`, `ScopesAgree`, `FinishedIsEarned`, `EnginesAgree`, `IgnoringOnlyHides`, `OrphansAgree`, `PagesAgree` hold |
| `pipeline` | 2 runs, 2 sections, 3 Plex items, 3 attempts, 233,050 states | `PlexPullHeals`, `CaughtIsJudgedRight`, `IdsLostNeedOutage`, `PlexDeathHasWitness` hold |
| `forms` | 2 keys, 2 users, 1 rename, 105,092 states | `SavedIsAudited`, `MappingTakesEffect`, `ManualLostOnlyByRace`, `EveryoneGetsOn` hold |
| `settings_ignored` | the same | `SavedSettingsRule` is violated |
| `web` | 2 processes, 2 rows, 1 client, window 2, 3 strikes, 120,228 states | `RetryIsSafe`, `GuessesAreBounded`, `LockoutIsEarned` hold |

The two violations:

- *Double steal.* The SELECT of `acquire()` decides, and the DELETE that follows goes by
  the name of the lock, not by the row that was seen. Two processes that both saw
  the row of a crashed run both enter (`sync/locks.py:63`).
- *Settings.* A run judges by `config.watch`, which is read from the environment;
  `effective_watch_config()`, which would merge the saved rows, has no caller. `PLAN.md:96`
  says: "In-app config page can override most values (DB-stored values take precedence
  over env after first save)."

### What the holding properties say of weak spots

Several properties hold only with an exception that names what the code does. Each
exception is the place where a reader of the docs would expect more:

- The lock is not released on every exit: `start_run()` is called between `acquire()`
  and `try` (`sync/runner.py:62`; `PLAN.md:275`: "Release in a `finally` block."). `FreeWhenQuiet`
  excepts it, `OrphanReclaimed` shows that it heals.
- A heartbeat is sent between the pulls (`sync/runner.py:81`), not every 30 seconds
  (`PLAN.md:274`): a long step makes a live run look dead, which `PromptExclusion` excepts.
- Pruning counts failed runs (`sync/candidates_db.py:365`) although the docstring at :349
  says "Prune all but last N successful runs' candidates."; `LossNeedsFailures`.
- The deltas of the cards are called "since last sync" (`views/snapshots.py:1-2`), but a
  reason without rows gets no snapshot, so its delta skips the runs that had none: after 2, 0 and 1
  rows the card reads -1. When failed runs have pushed out the rows that are shown, the
  headline is 0 and its trend still ends with the old number. `TrendsFollowCards` says which run the
  delta is against, and excepts lost rows.
- An interrupted backfill is never completed: the walk is newest first and the next
  stops at the newest stored row. "A crash mid-backfill can resume from the cursor"
  (`sync/tautulli_sync.py:7-9`), but nothing reads the cursor; `GapHasCause`.
- Overlapping pulls of one Arr instance tombstone each other's files
  (`sync/arr_sync.py:121`); `PullHeals` excepts overlap. Items are safe, because their upserts
  and tombstones are one transaction.
- A Plex section that is skipped or comes short loses its items
  (`sync/plex_sync.py:132`), and a refused metadata request loses an item's ids;
  `CaughtIsJudgedRight` says how far that reaches.
- Attribution goes by the least local id and does not compare the media kind; requests
  come in an order whose direction the code does not know (`sort=added`). `EarliestWins`
  presupposes the order of arrival and that no namesake was requested.
- A mapping by hand that was made before the user's first sync, or before a rename,
  joins nothing (`MappingTakesEffect`); one made while another process refreshes
  the map may be overwritten (`ManualLostOnlyByRace`), although the docstring in
  `sync/requester_sync.py` says "we never overwrite them".
- "a re-run after partial failure is safe" (`migrations/__init__.py:77-79`), except for a death between
  DROP and RENAME of 0002, or when two processes migrate at a time; `RetryIsSafe`.
- A requester's total counts the bytes of an item once per candidate row, the headline
  takes the largest row of a Plex item though rows are per file, and the docstring of
  `list_candidates()` calls both age filters inclusive though the upper one is not;
  `PagesAgree` states what does agree.
- Nothing keeps the tables of the run that is shown (`views/candidates.py:37`). Until a later
  run has computed its rows, an item that is gone since stays in the list and on its card
  but is in no requester's column, and a row about a requester may show none.
  `LatePagesAgree` says what holds at any time, `SettledPagesAgree` what only does once a run
  has its rows; `PagesAgree` is both.

### Bounds

TTL 1 separates fresh, exactly at the boundary, and stale. Two processes are what a
race on one row takes; the theorems below hold for any number. `lock` allows two crashes,
so an orphan can be orphaned again. Two runs overlap, follow each other, or rob each
other. Plans differ in length only, except for the optional identity step, which
`run_fullplan` has. With `Keep` 2 and three runs a published run can be pushed out, an
old run can compute after newer ones, and a run without rows of the reason comes between two with; five plays are three pages; two items make a pull
that fails halfway, and the third run heals what two overlapping ones did.

The derived steps have no loops, so tables of the size of one statement's join suffice:
`rules` varies, one family at a time, two requests of all kinds and numbers; tags; plays of
the episodes of two copies by two users; plays of a movie with two copies; ages on
either side of each threshold; sizes on either side of 5%; with these, a run is the first. In the
seventh family the movie is there or gone and known to Plex or not, the series played or not, and there
is one requester or two; after each run any of its tables may follow any other. `pipeline` has an item with
two copies, one of which is matched by a single id, an item without parts, and replies one glitch
short of an outage and as long as one; its second run heals or repeats the first.
`forms` explores the settings, and the mapping together with renames, separately
(`Arounds`), since they share nothing but the lock and the loop; two keys make half
a save, two users a refresh that is overtaken halfway. `web` has a database of both
former versions; a lockout longer than the window is that of the code.

Every counter that only bounds a model (`MaxCrashes`, `MaxLeaks`, `MaxCancels`, `MaxErrors`,
`MaxRuns`, `MaxActive`, `MaxRows`, `MaxPlay`, `MaxRenames`) is a constant in the guard of the action it limits;
`Worlds`, `Later`, `Replies` and `Arounds` limit what is chosen.

The deadlock check is off where the behaviour really ends: `publication`, `arr` and
`pipeline`, after `MaxRuns` runs. Everywhere else it is on.

### Fairness

`LockFairness`: time passes; a trigger that finds the lock stale or free
does run (the cron job fires for ever); SQLite's busy handler does not refuse the
write of `acquire()` for ever (strong fairness, as others may hold the write lock
in between). `RunFairness`: a run that has a next step takes it, because the event
loop resumes a ready coroutine and each request has a timeout and a bounded number
of attempts. In `FormsSpec`, a form gets on, since SQLite gives up waiting for the lock
after 30 seconds (weak fairness of `FormStep`); a run in a process of its own gets on
(weak); a run in the loop is ready again and again, between the forms, and the loop takes
ready callbacks in order (strong). No fairness is assumed for faults, for requests to
start a run, nor for users. `OrphanReclaimed` rests on the first, `EveryRunEnds` on the
second, `EveryoneGetsOn` on the third.

## 4. What is proved

For all values of the constants, from the named assumptions of the modules alone:
the types of the constants, that `None` is no process, that the sections of Plex are
disjoint, and, for the derived steps, that tables hold what the schema and its writers
let them hold. The latter is `IsTables` of `CandidateRules`, assumed of the tables that
are explored, at first and later (`WorldsAssumption` of `Derive`): finitely many rows and files, ids
from 1 on, sizes, ages and hours that are not negative, a confidence that is one of three, and nothing hidden
but items. `Pipeline` needs only the shape of the tables and that no row has id 0
(`PipeAssumption`). TLC evaluates all of them. An inductive invariant named below was
checked by TLC first, on the bounds of the run.

### The lock and the runs: `SyncRunProofs`

- `LockTypeCorrect`; `RobberiesAreAudited`, where `RobbedIsAudited` itself is inductive
  because only `TakeOver` writes a row over another; `ExclusionWithoutTakeover`, a
  consequence; `PromptRunsExclude`, from the inductive `PromptInv`; `RobbedRunsAreInert`,
  an action property. `PromptExclusion` is not inductive: it says nothing of a process
  between its SELECT and its write. `PromptInv` adds that, while there was no fault, the
  row belongs to a live run and is at most `TTL` old, that no process remembers a stale
  row, and that every pending timestamp is at most `TTL` old.
- `RunImplementsLock`, the refinement that carries the theorems about the lock over to
  runs (`RunsExcludeWithoutTakeover` is one); `RunTypeCorrect`; `RunsLeaveLockFree`, from
  the invariant that without crash or leak a held row is owned by a process inside;
  `RunsStayApart`, where the strengthening says that the runs of two processes differ
  and are in the ledger.
- `PublishedRunsAreComplete`, `LedgerInOrder` and `OrphansNeedMishap`, from one inductive
  invariant. What a verdict says of the steps is known only at the end of `run_sync()`, so
  `PlaceInv` ties every place in it to the rows of its run: the steps before are settled,
  the derived ones with success, those behind have no row, and the row in between is as
  the place says. `RunInv` is what remains of a run once nobody works on it. That runs
  stay apart is needed here: the step of one process must not disturb the place of another.
- `RunImplementsBook`, the refinement of `RunBook`: every step of the runner is a step of
  the abstract ledger or none. `PlaceInv` gives the guard of the verdict.

### The mirrors: `ArrInventoryProofs`, `PipelineProofs`, `HistoryProofs`

- `ArrTypeCorrect` and `TombstonesHaveWitness`. What readers see (`db`) is not enough for
  induction, because a commit makes the draft visible: `ArrInv` says the same of `draft`,
  that the writer has stamped every listed item it is done with, that a run which
  marked its items does not list again, and that stamps and overlaps come from runs that
  have started.
- `PullsHeal`, `FilesKeepItems` and `ReadersSeeOneAnswer`, from `MirrorInv`. `PullIsExact` says
  that the stamps of a run which pulls are on exactly the rows it has seen;
  `SoleInFlight`, that a run which had the mirror to itself keeps it until a newer run
  starts; `HealedInv` is `PullHeals` between the tombstones of items and of files. The draft
  of the writer is covered too, as a failure commits it.
- `PlexTypeCorrect`, `PlexPullsHeal`, `PlexDeathsHaveWitness`, `PlexIdsOutliveGlitches`, of
  `PlexInventory`. `PlexPullHeals` speaks of the end of a pull, so `PlexInv`
  says along the pull that no stamp is newer than the run, that the rows stamped by
  this run are exactly those it heard of, in the form it heard, and, between the
  two tombstones, that the items are settled. It needs that sections are disjoint: a
  second listing of an item would leave parts of the first.
- `PipelinePulls`, that the composition implements `PlexSpec`; `PipelineHeals`, a
  consequence; and `CaughtIsJudged`, which takes the argument across the composition. Two sets of
  tables are `Twins` for an item if they differ only in Plex items that share no id
  with it; `TwinsAreJudged` shows, statement by statement, that attribution, watch state and
  rules give the item the same rows from either. `MirrorIsTwin` shows that the mirror after a pull
  that ended well and caught the item's copies is a twin of the truth: a copy is there with
  its ids and its files (`CaughtRow`), whatever else is there has its own ids or none. `PipeInv`
  adds that the results of the steps are functions of the mirror as it is, and that
  no pull begins before they are done.
- `HistTypeCorrect`, `GapsHaveCauses` and `WalksCover`. A gap shows only when a walk is over;
  `WalkInv` says of a walk that is on what it has passed, in terms of the rank of a play among
  those on the server, which is what the paging goes by; `DenseInv`, that until something
  tore the mirror there is no gap below a mirrored play; `BelowInv`, the same
  below the floor while a walk writes above it.

### Publication, forms and the web process

- `PublicationProofs`: `CandidatesAreBounded`, `LossesNeedFailures` and `SnapshotsAreOfLatest`
  (and `PubTypeCorrect`), from `PubInv`: lost rows were lost to `Keep` newer runs with rows, which
  never become fewer; what a run's place says of its verdict and its snapshot; and
  that without overlap the run in flight is the newest, so snapshots are in order. They
  hold of `Trend` too (`TrendsPublish`). `TrendsMeetCards` adds `TrendInv`: without overlap nobody prunes
  what a run computed before it is counted (`KeptInv`), and the points of a reason are those of
  the runs with snapshots that had rows of it, one each and in order (`PointInv`), so that the last
  one is that of the run shown and the one before it that of the newest run to compare with.
- `ConfigFormsProofs`: `FormsTypeCorrect`; `SettingsAreAudited`, from `FormFaithful`, which
  ties what a form has saved so far to the table; `MappingsLostOnlyByRace`, from `RunInv`,
  which ties the draft of the map and the place of the run to the holder of the write
  lock: without the lock draft and table agree, so a mapping is overwritten only
  by an upsert that was decided before the lock was taken, and that is the first.
  `MappingsTakeEffect`, from `MapInv`: every user the refresh has dealt with has a
  row with the listed name, or one made by hand whose name was good when it was made.
- `WebAppProofs`: `RetriesAreSafe`, `GuessesStayBounded`, `LockoutsAreEarned`.
  `RetryIsSafe` speaks of the times when nobody is in a script; the inductive `WebInv` says what each statement finds and leaves (`Shape`), that
  a single process is in a script and that it is the first that is not recorded, and that the rows
  are in the table but between DROP and RENAME. It is a disjunction with `torn` and
  `met`, since after either nothing is promised. The other two follow from `ThrottleInv`: moments
  are in order, so that the loop which drops leading ones leaves what is within the window;
  the bucket of a client that may try holds, stale ones apart, all its wrong passwords
  within the window, fewer than `MaxAttempts`; one locked out has an empty bucket, and
  its wrong passwords have aged at least as long as the lockout has lasted, so they are out of
  the window before it ends. That is where `Lockout > Window` is needed: the
  constants of the code are 15 and 5 minutes.

### The derived steps: `DeriveProofs`

`DeriveSettles` is the inductive invariant: att, ws and rows are `Attribution`, `WatchState` and
`Candidates` of the tables, the last with what was hidden then. Its one hard case is
the forms between the steps, for which `AttributionIsBlind`, `WatchStateIsBlind` and
`RowsAreBlind` say that nothing but the listing looks at what is hidden. What survives the pulls of
a later run is the shape of the rows (`AreShaped`): finitely many, each with a size and with what
its reason speaks of. The rest follows from the rules:

- `IgnoringHides`: `HidingOnlyHides`, since the rows of an item carry its id and no orphan's does.
- `ScopesNest`: the plays of a requester are among the plays of anyone, so are the copies'
  counts, and greatest elements and days are monotone.
- `FinishedByEpisodes`: a count of distinct episodes that reaches the number that is needed means
  a superset, unless the count has something that is not needed (cardinalities of
  subsets of finite sets).
- `OrphansAreApart`: the two directions of the 5% rule, in integers.
- `EarliestIsChosen`: the least id among the matching requests is the earliest, as they
  came in order.
- `EnginesListTheSame`: copies, people, names, plays, counts and trust agree one after the
  other for an item that is `Plain`, and then the rows do, reason by reason.
- `LatePagesTellOneStory`, from the shape of the rows alone: buckets, names and the rows
  of no item partition what the card or the total counts, and the tabs cover all reasons.
  `PagesTellOneStory` adds `SettledPagesAgree`: the items of the rows are there, so names and instances partition
  the same items, and no row is larger than its item, so neither is the largest. Both rest on
  lemmas about sums: that elements may be added in any order (`SumTake`), that a sum over a
  partition is the sum of the parts' (`SumByParts`), and that it is monotone (`SumAtMost`). A fact about
  sums over S is proved of the set of all subsets of S that have it: it has {}, with a subset
  also that and one element more, hence S (`AllFinite`, from the well-foundedness of < on the
  sizes). So no induction theorem with an operator for a parameter is needed.

### Only model-checked

- `OrphanReclaimed`, `EveryRunEnds`, `EveryoneGetsOn`: liveness under fairness is beyond
  the prover.

## 5. Plan

The components that keep state are modelled, and every safety property of the passing runs is
proved. What is left, most important first:

1. The retention of snapshots, which counts days while everything else counts runs.
2. Overlapping Plex pulls, which `ArrInventory` shows for the Arr tables.

## 6. Not modelled

Formatting, templates, paging and searching of lists, the data classes, the tag
parser, the assembly of the FastAPI application and packaging keep no state of
their own. Sessions, password hashing and CSRF tokens are the work of libraries.
How a requester's name is matched to a user of Tautulli (`identity.py`) is left out: a
mapping leads to somebody, and `people` has the outcome. The paging of users and
requests (`clients/requester.py`) depends on what the services do with `skip`, `take`
and `sort`, which this code does not say. The retention of snapshots, the
pulls and the report of the spike, and the connection tests of the configuration page
are left out. SQLite's own atomicity is assumed: a transaction is one action.
`PROJECT.json` says for each component whether it is modelled, in part or not, and why.
