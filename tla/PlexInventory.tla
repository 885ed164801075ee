--------------------------- MODULE PlexInventory ---------------------------
(***************************************************************************)
(* The mirror of the Plex libraries: sync_plex_inventory() of plex_sync.py *)
(* over the Tautulli client, run after run.                                *)
(*                                                                         *)
(* A pull asks for one section after the other.  For each it lists the     *)
(* items, asks for the metadata of all of them at once, and then upserts   *)
(* them; a metadata request that fails is swallowed, and its item is       *)
(* written with what the listing knows of it, which has no external ids    *)
(* and no paths.  The first upsert opens a transaction, the tombstones of  *)
(* the items commit it, those of the files are a transaction of their own. *)
(* Neither has a scope: all that this run did not stamp is tombstoned,     *)
(* whichever section it is in.  Overlapping pulls are ArrInventory's       *)
(* subject; here one run follows the other.                                *)
(***************************************************************************)
EXTENDS HttpRetry, Sequences

CONSTANTS
  Keys,       \* rating keys of the items
  Sections,   \* the library sections in their order, each a set of keys; an
              \* item is in one section only
  Parts,      \* Parts[k]: parts that the metadata of k lists
  Sized,      \* keys whose listing carries a file size
  Replies,    \* bound: the replies to metadata requests that are explored
  MaxRuns     \* bound: runs

ASSUME PlexAssumption ==
  /\ Sections \in Seq(SUBSET Keys)
  /\ \A i, j \in DOMAIN Sections : i # j => Sections[i] \cap Sections[j] = {}
  /\ Parts \in [Keys -> Nat]
  /\ Sized \subseteq Keys
  /\ Replies \subseteq Reply
  /\ MaxRuns \in Nat

VARIABLES
  mirror,  \* committed: [items, files], a row per key and one per part
  draft,   \* the same with the uncommitted upserts of the run
  run,     \* the current run, or the last
  stage,   \* where it is, or how it ended
  sect,    \* index of the section it asks for
  heard    \* what it heard of each key (history)

plexVars == <<mirror, draft, run, stage, sect, heard>>

PartRows == UNION {{<<k, n>> : n \in 0 .. Parts[k]} : k \in Keys}

\* known: the row has the external ids; real: it has the path of the part.
NoItem == [stamp |-> 0, dead |-> FALSE, known |-> FALSE]
NoFile == [stamp |-> 0, dead |-> FALSE, real |-> FALSE]
Items  == [Keys -> [stamp : 0 .. MaxRuns, dead : BOOLEAN, known : BOOLEAN]]
Files  == [PartRows -> [stamp : 0 .. MaxRuns, dead : BOOLEAN, real : BOOLEAN]]
Tables == [items : Items, files : Files]

Alive(table) == {x \in DOMAIN table : table[x].stamp # 0 /\ ~table[x].dead}

Unheard == [glitches |-> 0, last |-> "unlisted"]
Listed  == {k \in Keys : heard[k] # Unheard}

PlexTypeOK ==
  /\ mirror \in Tables
  /\ draft \in Tables
  /\ run \in 0 .. MaxRuns
  /\ stage \in {"none", "pull", "files", "ok", "failed", "dead"}
  /\ sect \in 1 .. Len(Sections) + 1
  /\ heard \in [Keys -> Replies \cup {Unheard}]
  /\ stage # "pull" => draft = mirror

PlexInit ==
  /\ mirror = [items |-> [k \in Keys |-> NoItem], files |-> [f \in PartRows |-> NoFile]]
  /\ draft = mirror
  /\ run = 0 /\ stage = "none" /\ sect = 1
  /\ heard = [k \in Keys |-> Unheard]

Commit(tables) == mirror' = tables /\ draft' = tables

-----------------------------------------------------------------------------
(* sync_plex_inventory().                                                  *)

\* The step begins; list_libraries() gives the sections.
StartPull ==
  /\ stage \notin {"pull", "files"} /\ run < MaxRuns
  /\ run' = run + 1
  /\ stage' = "pull" /\ sect' = 1
  /\ heard' = [k \in Keys |-> Unheard]
  /\ UNCHANGED <<mirror, draft>>

\* _enrich_with_metadata() and the fallback of the caller: the parts of the
\* metadata, else one file without a path if the listing carries a size.
FilesOf(k, reply) ==
  IF Outcome(reply) = "data" /\ Parts[k] > 0 THEN {<<k, n>> : n \in 0 .. Parts[k] - 1}
  ELSE IF k \in Sized THEN {<<k, 0>>} ELSE {}

\* _upsert_plex_item(): every column is overwritten, the ids too.
ItemRow(reply) == [stamp |-> run, dead |-> FALSE, known |-> Outcome(reply) = "data"]

\* _upsert_plex_media_file().
FileRow(k, reply) ==
  [stamp |-> run, dead |-> FALSE, real |-> Outcome(reply) = "data" /\ Parts[k] > 0]

Written(tables, found, replies) ==
  [items |-> [k \in Keys |-> IF k \in found THEN ItemRow(replies[k]) ELSE tables.items[k]],
   files |-> [f \in PartRows |->
                IF f[1] \in found /\ f \in FilesOf(f[1], replies[f[1]])
                THEN FileRow(f[1], replies[f[1]]) ELSE tables.files[f]]]

\* One section: listed, enriched and upserted.  The answer may be short, and
\* it is empty for a section that is skipped: one whose count reads 0, whose
\* kind is not movie or show, whose id is no number, or that is not in the
\* libraries table at all.
PullSection ==
  /\ stage = "pull" /\ sect <= Len(Sections)
  /\ \E found \in SUBSET Sections[sect] :
       \E replies \in [found -> {r \in Replies : Outcome(r) # "ValueError"}] :
         /\ draft' = Written(draft, found, replies)
         /\ heard' = [k \in Keys |-> IF k \in found THEN replies[k] ELSE heard[k]]
  /\ sect' = sect + 1
  /\ UNCHANGED <<mirror, run, stage>>

(* Mutant of Swept: the rows of the run itself are not spared. *)
SweptToo(table) ==
  [x \in DOMAIN table |->
     IF table[x].stamp \in 1 .. run THEN [table[x] EXCEPT !.dead = TRUE] ELSE table[x]]

\* mark_tombstones() of a table, without a scope clause.
Swept(table) ==
  [x \in DOMAIN table |->
     IF table[x].stamp \notin {0, run} THEN [table[x] EXCEPT !.dead = TRUE] ELSE table[x]]

\* mark_tombstones(plex_items) commits the transaction of the pull.
SweepItems ==
  /\ stage = "pull" /\ sect > Len(Sections)
  /\ Commit([draft EXCEPT !.items = Swept(@)])
  /\ stage' = "files"
  /\ UNCHANGED <<run, sect, heard>>

(* Mutant of SweepFiles: only the items are tombstoned. *)
SweepFilesForgotten ==
  /\ stage = "files"
  /\ stage' = "ok"
  /\ UNCHANGED <<mirror, draft, run, sect, heard>>

\* mark_tombstones(plex_media_files).
SweepFiles ==
  /\ stage = "files"
  /\ Commit([mirror EXCEPT !.files = Swept(@)])
  /\ stage' = "ok"
  /\ UNCHANGED <<run, sect, heard>>

(* Mutant of FailPull: the items are tombstoned on the error path too. *)
FailPullAndSweep ==
  /\ stage \in {"pull", "files"}
  /\ Commit([draft EXCEPT !.items = Swept(@)])
  /\ stage' = "failed"
  /\ UNCHANGED <<run, sect, heard>>

\* A listing fails, some metadata cannot be parsed, a write is refused or the
\* task is cancelled: the sections upserted so far are committed by the write
\* that records the failure.
FailPull ==
  /\ stage \in {"pull", "files"}
  /\ Commit(draft)
  /\ stage' = "failed"
  /\ UNCHANGED <<run, sect, heard>>

\* The process dies: an open transaction is rolled back.
CrashPull ==
  /\ stage \in {"pull", "files"}
  /\ Commit(mirror)
  /\ stage' = "dead"
  /\ UNCHANGED <<run, sect, heard>>

PlexNext ==
  StartPull \/ PullSection \/ SweepItems \/ SweepFiles \/ FailPull \/ CrashPull

PlexSpec == PlexInit /\ [][PlexNext]_plexVars

-----------------------------------------------------------------------------
\* Whatever earlier runs left - lost ids, files that have become fewer, half a
\* pull, a death between the tombstones - a pull that ends well leaves exactly
\* what it heard: the listed items, the ids and the parts of those whose
\* metadata came, and the fallback file of the others.
PlexPullHeals ==
  stage = "ok" =>
    /\ Alive(mirror.items) = Listed
    /\ \A k \in Listed : mirror.items[k].known <=> Outcome(heard[k]) = "data"
    /\ Alive(mirror.files) = UNION {FilesOf(k, heard[k]) : k \in Listed}
    /\ \A f \in Alive(mirror.files) : mirror.files[f].real => mirror.items[f[1]].known

\* An item that was matched loses its external ids only to a refusal or to an
\* outage of MaxRetries attempts in a row: shorter ones cost nothing.
IdsLostNeedOutage ==
  [][\A k \in Keys :
       mirror.items[k].known /\ ~mirror'.items[k].known =>
         heard[k].last = "refusal" \/ heard[k].glitches = MaxRetries]_plexVars

\* An item is tombstoned only by a run that got through all sections and did
\* not hear of it: a pull that fails or dies on its way tombstones nothing.
PlexDeathHasWitness ==
  [][\A k \in Keys :
       k \in Alive(mirror.items) /\ mirror'.items[k].dead =>
         /\ sect > Len(Sections) /\ stage = "pull" /\ stage' = "files"
         /\ heard[k] = Unheard]_plexVars
=============================================================================
