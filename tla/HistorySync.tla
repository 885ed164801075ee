---------------------------- MODULE HistorySync ----------------------------
(***************************************************************************)
(* The mirror of Tautulli's play history: tautulli_sync.py over            *)
(* TautulliClient.iter_history, with the purge of config_route.py.         *)
(*                                                                         *)
(* A play is its row id; Tautulli numbers plays in order and serves them   *)
(* newest first, by offset.  A walk fixes a floor once, then fetches pages *)
(* from the newest row down until a page is short or reaches the floor.    *)
(* Each page is one transaction (rows and cursor).  Between two pages the  *)
(* walk awaits the network, and anything may happen: new plays, deletions  *)
(* upstream, a purge from the configuration page, a failure or a crash.    *)
(* cursor_json is written with every page and never read, so it has no     *)
(* variable here.                                                          *)
(***************************************************************************)
EXTENDS Naturals, FiniteSets

CONSTANTS
  MaxPlay,    \* bound: plays ever recorded upstream
  Cutoff,     \* plays up to this id are older than the retention
  PageSize    \* backfill_page_size

ASSUME HistoryAssumption ==
  MaxPlay \in Nat /\ Cutoff \in Nat /\ PageSize \in Nat \ {0}

VARIABLES
  server,   \* ids Tautulli has now
  newest,   \* the last id it gave out
  old,      \* plays up to this id started more than a day ago
  local,    \* source_row_id of the rows in watch_events
  walk,     \* the walk: is it on, its floor, its offset, what it is due to
            \* fetch, and whether nobody disturbed it so far
  synced,   \* due rows of the last walk that ended well (history variable)
  covered,  \* those of them above its floor, unless it was disturbed (history)
  torn,     \* was a walk interrupted after a page had landed? (history)
  spoiled   \* did a disturbed walk end? (history)

histVars == <<server, newest, old, local, walk, synced, covered, torn, spoiled>>

Plays == 1 .. MaxPlay
NoWalk == [on |-> FALSE, floor |-> 0, start |-> 0, due |-> {}, clean |-> TRUE]

HistTypeOK ==
  /\ server \in SUBSET Plays /\ local \in SUBSET Plays
  /\ newest \in 0 .. MaxPlay /\ old \in 0 .. MaxPlay
  /\ walk \in [on : BOOLEAN, floor : Nat, start : Nat,
               due : SUBSET Plays, clean : BOOLEAN]
  /\ synced \in SUBSET Plays /\ covered \in SUBSET synced
  /\ torn \in BOOLEAN /\ spoiled \in BOOLEAN

HistInit ==
  /\ newest \in 0 .. MaxPlay
  /\ server = 1 .. newest
  /\ old \in 0 .. newest
  /\ local = {} /\ walk = NoWalk
  /\ synced = {} /\ covered = {} /\ torn = FALSE /\ spoiled = FALSE

Least(S)    == CHOOSE i \in S : \A j \in S : i <= j
Greatest(S) == CHOOSE i \in S : \A j \in S : i >= j

\* Position of a row in the answer of get_history, newest first.
Rank(i) == Cardinality({j \in server : j >= i})

-----------------------------------------------------------------------------
(* Tautulli.                                                               *)
Play ==
  /\ newest < MaxPlay
  /\ newest' = newest + 1
  /\ server' = server \cup {newest'}
  /\ UNCHANGED <<old, local, walk, synced, covered, torn, spoiled>>

DayPasses ==
  /\ old < newest
  /\ old' \in (old + 1) .. newest
  /\ UNCHANGED <<server, newest, local, walk, synced, covered, torn, spoiled>>

\* A deleted row the walk has already passed moves the others up by one: the
\* next page starts one row too low.
Delete(i) ==
  /\ server' = server \ {i}
  /\ walk' = [walk EXCEPT !.clean = @ /\ ~(walk.on /\ Rank(i) <= walk.start)]
  /\ UNCHANGED <<newest, old, local, synced, covered, torn, spoiled>>

-----------------------------------------------------------------------------
(* The step of the sync run.                                               *)

(* Mutant of Floor: off by one, the row after the newest one is skipped. *)
FloorAtTop == IF local = {} THEN Cutoff ELSE Greatest(local) + 1

\* No rows: the retention cutoff.  Else below the oldest row of the last 24
\* hours, or the newest row there is.
Floor ==
  LET recent == {i \in local : i > old}
  IN  IF local = {} THEN Cutoff
      ELSE IF recent # {} THEN Least(recent) - 1 ELSE Greatest(local)

Begin ==
  /\ ~walk.on
  /\ walk' = [on |-> TRUE, floor |-> Floor, start |-> 0,
              due |-> {i \in server : i > Cutoff}, clean |-> TRUE]
  /\ UNCHANGED <<server, newest, old, local, synced, covered, torn, spoiled>>

(* Mutant of PageRows: the offset skips a row. *)
PageRowsShifted(start) == {i \in server : start + 1 < Rank(i) /\ Rank(i) <= start + PageSize}

PageRows(start) == {i \in server : start < Rank(i) /\ Rank(i) <= start + PageSize}

\* The rows of a page above the floor are inserted or ignored; the walk ends on
\* a short page or at the first row at or below the floor.
Page ==
  LET raw == PageRows(walk.start)
      new == {i \in raw : i > walk.floor}
  IN  /\ walk.on
      /\ local' = local \cup new
      /\ IF raw # new \/ Cardinality(raw) < PageSize
         THEN /\ walk' = NoWalk
              /\ synced' = walk.due
              /\ covered' = IF walk.clean THEN {i \in walk.due : i > walk.floor} ELSE {}
              /\ spoiled' = (spoiled \/ ~walk.clean)
         ELSE /\ walk' = [walk EXCEPT !.start = @ + PageSize]
              /\ UNCHANGED <<synced, covered, spoiled>>
      /\ UNCHANGED <<server, newest, old, torn>>

\* A request fails for good, the task is cancelled or the process dies: pages
\* that landed stay, the rest is not fetched.
Interrupt ==
  /\ walk.on
  /\ walk' = NoWalk
  /\ torn' = (torn \/ walk.start > 0)
  /\ UNCHANGED <<server, newest, old, local, synced, covered, spoiled>>

\* POST /config/purge-history: DELETE FROM watch_events, at any time.
Purge ==
  /\ local' = {}
  /\ synced' = {} /\ covered' = {}
  /\ walk' = [walk EXCEPT !.due = {}, !.clean = ~walk.on]
  /\ torn' = FALSE /\ spoiled' = FALSE
  /\ UNCHANGED <<server, newest, old>>

HistNext ==
  \/ Play \/ DayPasses \/ Begin \/ Page \/ Interrupt \/ Purge
  \/ \E i \in server : Delete(i)

HistSpec == HistInit /\ [][HistNext]_histVars

-----------------------------------------------------------------------------
\* After a walk that ended well, every play Tautulli had when it began (and
\* still has), back to the retention cutoff, is mirrored.
NoGap == synced \cap server \subseteq local

\* The mirror has a gap only if, since the last purge, a walk was interrupted
\* after its first page, or a purge or a deletion above it disturbed one: plays
\* recorded during a walk, deletions below it and the day window leave none.
GapHasCause == torn \/ spoiled \/ NoGap

\* Whatever happened before, a walk that ends undisturbed has fetched every
\* play above its floor: a gap is never at the recent end.
WalkCovers == covered \cap server \subseteq local
=============================================================================
