------------------------------ MODULE Pipeline ------------------------------
(***************************************************************************)
(* The path of a wrong answer: the pulls of PlexInventory, good or bad,    *)
(* and the derived steps of Derive over the mirror that they leave.        *)
(*                                                                         *)
(* The step plex_inventory swallows its errors, so the derived steps come  *)
(* after a pull that failed as well; a death of the process ends the run.  *)
(* All that the steps read beside the mirror stands still, in `base`.      *)
(***************************************************************************)
EXTENDS PlexInventory

CONSTANTS
  NeverDays, StaleDays, MoviePct, EpisodePct,
  Worlds   \* bound: the tables beside the mirror, with the items in Plex as .plex

\* Row ids count from 1.
ASSUME PipeAssumption ==
  \A w \in Worlds :
    /\ w = [arr |-> w.arr, plex |-> w.plex, requests |-> w.requests, people |-> w.people,
            events |-> w.events, specials |-> w.specials, hidden |-> w.hidden, ruled |-> w.ruled]
    /\ 0 \notin DOMAIN w.arr

VARIABLES base, att, ws, rows, phase, silent

pipeVars == <<plexVars, base, att, ws, rows, phase, silent>>

\* A row of plex_items as CandidateRules wants it, base.plex[k] being the item
\* in Plex: without its ids if they are not known, with the files that are
\* live, and the size in the listing for a file that is not of the metadata.
RowOf(k, live, known, files, real) ==
  LET item == base.plex[k] IN
  [live |-> live,
   tmdb |-> IF known THEN item.tmdb ELSE 0,
   tvdb |-> IF known THEN item.tvdb ELSE 0,
   imdb |-> IF known THEN item.imdb ELSE 0,
   files |-> [n \in {f[2] : f \in files} |->
                [size |-> IF real THEN item.parts[n] ELSE item.listed, live |-> TRUE]]]

FilesAlive(k) == {f \in Alive(mirror.files) : f[1] = k}

Mirrored ==
  [base EXCEPT !.plex =
     [k \in Keys |-> RowOf(k, k \in Alive(mirror.items), mirror.items[k].known, FilesAlive(k),
                           \E f \in FilesAlive(k) : mirror.files[f].real)]]

\* No tables are given to the derived steps: they read the mirror.
D == INSTANCE Derive WITH world <- Mirrored, Worlds <- {}, Later <- {}

PipeInit ==
  /\ PlexInit
  /\ base \in Worlds
  /\ att = D!NoRows /\ ws = D!NoRows
  /\ rows = {} /\ silent = {}
  /\ phase = "idle"

\* A run begins, with the inventory of Plex.
BeginRun ==
  /\ phase \in {"idle", "done", "failed"}
  /\ StartPull
  /\ phase' = "attribution"
  /\ UNCHANGED <<base, att, ws, rows, silent>>

PullStep ==
  /\ PullSection \/ SweepItems \/ SweepFiles \/ FailPull
  /\ UNCHANGED <<base, att, ws, rows, phase, silent>>

Die ==
  /\ CrashPull
  /\ phase' = "failed"
  /\ UNCHANGED <<base, att, ws, rows, silent>>

\* The derived steps, once the pull is over.
DeriveStep ==
  /\ stage \in {"ok", "failed"}
  /\ UNCHANGED <<plexVars, base>>
  /\ D!Attribute \/ D!Watch \/ D!ComputeRows \/ D!FailDerive

PipeNext == BeginRun \/ PullStep \/ Die \/ DeriveStep

PipeSpec == PipeInit /\ [][PipeNext]_pipeVars

-----------------------------------------------------------------------------
\* The tables after a pull that would miss nothing.
Perfect == [glitches |-> 0, last |-> "answer"]
Truth ==
  [base EXCEPT !.plex =
     [k \in Keys |-> RowOf(k, TRUE, TRUE, FilesOf(k, Perfect), Parts[k] > 0)]]

TrueRows ==
  LET true == D!Attribution(Truth) IN D!Candidates(Truth, true, D!WatchState(Truth, true))

\* The copies of an item by any of its ids.
TrueCopies(a) ==
  LET ai == base.arr[a] IN
  {k \in Keys : \/ D!Same(ai.tmdb, base.plex[k].tmdb)
                \/ D!Same(ai.tvdb, base.plex[k].tvdb)
                \/ D!Same(ai.imdb, base.plex[k].imdb)}

Caught(k) == k \in Listed /\ Outcome(heard[k]) = "data"

\* An item is judged as the truth would have it - not never watched when a copy
\* was played, not missing in Plex when it is there - by every run whose pull
\* ended well and caught all its copies, whatever the pull missed of others and
\* whatever earlier runs left behind.
CaughtIsJudgedRight ==
  phase = "done" /\ stage = "ok" =>
    \A a \in DOMAIN base.arr :
      (\A k \in TrueCopies(a) : Caught(k)) =>
        {r \in rows : r.arr = a} = {r \in TrueRows : r.arr = a}
=============================================================================
