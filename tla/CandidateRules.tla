--------------------------- MODULE CandidateRules ---------------------------
(***************************************************************************)
(* The derived steps of a run as functions of the tables they read:        *)
(* recompute_request_attribution() of attribution.py, recompute_watch_     *)
(* state() of watch_state.py and compute_candidates() of candidates_db.py. *)
(*                                                                         *)
(* The tables are one record w:                                            *)
(*   w.arr       arr_items with their files, episodes and tags             *)
(*   w.plex      plex_items with their media files, by rating key          *)
(*   w.requests  requests, in the order of their local ids                 *)
(*   w.people    user_identity_map                                         *)
(*   w.events    watch_events                                              *)
(*   w.specials  whether watch.specials_mode is "include"                  *)
(*   w.hidden    arr items whose ignored_local is 1                        *)
(*   w.ruled     arr items with a row in ignore_rules                      *)
(* Ids, sizes and hours are numbers and 0 is NULL, except for a size; a    *)
(* name is a string and "" is NULL.  A moment is the hours it lies back.   *)
(***************************************************************************)
EXTENDS Integers, Sequences, FiniteSets, FiniteSetsExt

CONSTANTS
  NeverDays,    \* watch.never_watched_days
  StaleDays,    \* watch.stale_days
  MoviePct,     \* watch.threshold_movies_pct
  EpisodePct    \* watch.threshold_episodes_pct

ASSUME RulesAssumption == {NeverDays, StaleDays, MoviePct, EpisodePct} \subseteq Nat

NULL == 0
NoName == ""

\* What the columns hold: row ids count from 1, sizes and hours are not negative.
IsTables(w) ==
  /\ w = [arr |-> w.arr, plex |-> w.plex, requests |-> w.requests, people |-> w.people,
          events |-> w.events, specials |-> w.specials, hidden |-> w.hidden, ruled |-> w.ruled]
  /\ DOMAIN w.arr \cup DOMAIN w.plex \subseteq Nat \ {NULL} /\ DOMAIN w.requests \subseteq Nat
  /\ IsFiniteSet(DOMAIN w.arr) /\ IsFiniteSet(DOMAIN w.plex) /\ IsFiniteSet(DOMAIN w.requests)
  /\ IsFiniteSet(w.events) /\ IsFiniteSet(w.people)
  /\ \A a \in DOMAIN w.arr :
       /\ w.arr[a].kind \in {"movie", "series"}
       /\ IsFiniteSet(DOMAIN w.arr[a].eps) /\ IsFiniteSet(DOMAIN w.arr[a].files)
       /\ IsFiniteSet(w.arr[a].tags) /\ w.arr[a].age \in Nat
       /\ \A n \in DOMAIN w.arr[a].files : w.arr[a].files[n].size \in Nat
  /\ \A k \in DOMAIN w.plex :
       /\ IsFiniteSet(DOMAIN w.plex[k].files)
       /\ \A n \in DOMAIN w.plex[k].files : w.plex[k].files[n].size \in Nat
  /\ \A p \in w.people : p.id \in Nat \ {NULL} /\ p.conf \in {"high", "medium", "low"}
  /\ \A e \in w.events : e.ago \in Nat
  /\ \A i \in DOMAIN w.requests : w.requests[i].at \in Nat
  /\ w.hidden \subseteq DOMAIN w.arr

\* x = y in SQL.
Same(x, y) == x # NULL /\ x = y

Largest(S)  == IF S = {} THEN 0 ELSE Max(S)
Bytes(Size(_), S) == SumFunction([x \in S |-> Size(x)])

-----------------------------------------------------------------------------
(* recompute_request_attribution().                                        *)

(* Mutant of Asks: the number alone decides, also for a series with a tvdb id. *)
AsksByEitherNumber(ai, r) ==
  IF ai.kind = "movie" THEN Same(r.tmdb, ai.tmdb)
  ELSE Same(r.tvdb, ai.tvdb) \/ Same(r.tmdb, ai.tmdb)

\* The ON clause.  The kind of the media requested plays no part in it.
Asks(ai, r) ==
  \/ ai.kind = "movie" /\ Same(r.tmdb, ai.tmdb)
  \/ ai.kind = "series" /\ Same(r.tvdb, ai.tvdb)
  \/ ai.kind = "series" /\ r.tvdb = NULL /\ Same(r.tmdb, ai.tmdb)

RequestsFor(w, a) == {i \in DOMAIN w.requests : Asks(w.arr[a], w.requests[i])}

\* The request with the least local id.
ByRequest(w, a) ==
  LET first == w.requests[Min(RequestsFor(w, a))] IN [id |-> first.id, name |-> first.name]

\* Tags that name a requester.
Parsed(w, a) == {t \in w.arr[a].tags : t.name # NoName}

ByTags(w, a) ==
  LET ids   == {t.id : t \in Parsed(w, a)} \ {NULL}
      names == {t.name : t \in Parsed(w, a)}
  IN [id   |-> IF Cardinality(ids) = 1 THEN Min(ids) ELSE NULL,
      name |-> IF Cardinality(names) = 1 THEN CHOOSE n \in names : TRUE ELSE "multi-requester"]

LiveArr(w) == {a \in DOMAIN w.arr : w.arr[a].live}

\* The rows of request_attribution, by arr item.
Attribution(w) ==
  LET asked  == {a \in LiveArr(w) : RequestsFor(w, a) # {}}
      tagged == {a \in LiveArr(w) : Parsed(w, a) # {}}
  IN [a \in asked \cup tagged |-> IF a \in asked THEN ByRequest(w, a) ELSE ByTags(w, a)]

Nobody == [id |-> NULL, name |-> NoName]
Requester(att, a) == IF a \in DOMAIN att THEN att[a] ELSE Nobody

-----------------------------------------------------------------------------
(* recompute_watch_state().                                                *)

\* The Plex items that an arr item joins: again whatever their kind.
Copies(w, ai) ==
  {k \in DOMAIN w.plex :
     /\ w.plex[k].live
     /\ IF ai.kind = "movie"
        THEN Same(w.plex[k].tmdb, ai.tmdb) \/ Same(w.plex[k].imdb, ai.imdb)
        ELSE Same(w.plex[k].tvdb, ai.tvdb) \/ Same(w.plex[k].tmdb, ai.tmdb)}

\* Rows of user_identity_map for the requester: the source is not compared.
Identities(w, who) ==
  {p \in w.people : Same(p.id, who.id) /\ who.name # NoName /\ p.name = who.name}

\* MAX over the texts of the confidences: medium, low, high.
Confidence(people) ==
  LET said == {p.conf : p \in people}
  IN IF "medium" \in said THEN "medium"
     ELSE IF "low" \in said THEN "low"
     ELSE IF "high" \in said THEN "high" ELSE "none"

\* MAX(stopped_at), NULLs left out.
LastOf(events) ==
  LET stops == {e.ago : e \in events} \ {NULL} IN IF stops = {} THEN NULL ELSE Min(stops)

(* Mutant of MoviePlays: the threshold is passed, not reached. *)
MoviePlaysPast(w, ai) ==
  {e \in w.events : e.ep = NULL /\ e.pct > MoviePct /\ e.copy \in Copies(w, ai)}

\* An event of a movie has the rating key of the copy, that of an episode has
\* its own and the key of the copy as grandparent.
MoviePlays(w, ai) ==
  {e \in w.events : e.ep = NULL /\ e.pct >= MoviePct /\ e.copy \in Copies(w, ai)}

EpisodePlays(w, k) ==
  {e \in w.events : e.ep # NULL /\ e.pct >= EpisodePct /\ e.copy = k}

By(events, people) == {e \in events : \E p \in people : Same(p.user, e.user)}

(* Mutant of MovieState: the plays of the requester miss the threshold. *)
MovieStateLoose(w, ai, people) ==
  LET any == MoviePlays(w, ai)
      own == By({e \in w.events : e.ep = NULL /\ e.copy \in Copies(w, ai)}, people)
  IN [played |-> any # {}, playedOwn |-> own # {},
      last |-> LastOf(any), lastOwn |-> LastOf(own),
      finished |-> any # {}, finishedOwn |-> own # {},
      conf |-> Confidence(people)]

MovieState(w, ai, people) ==
  LET any == MoviePlays(w, ai)
      own == By(any, people)
  IN [played |-> any # {}, playedOwn |-> own # {},
      last |-> LastOf(any), lastOwn |-> LastOf(own),
      finished |-> any # {}, finishedOwn |-> own # {},
      conf |-> Confidence(people)]

Countable(w, ai) ==
  {n \in DOMAIN ai.eps : ai.eps[n].live /\ (w.specials \/ ~ai.eps[n].special)}

Distinct(events) == Cardinality({e.ep : e \in events})

(* Mutant of SeriesDone: the episodes of all copies are added up. *)
SeriesDoneSummed(total, counts) ==
  total > 0 /\ Bytes(LAMBDA c : c, counts) >= total

\* The counts are the numbers of episodes played, per copy and, for the
\* requester, per user.
SeriesDone(total, counts) == total > 0 /\ Largest(counts) >= total

AnyPlays(w, ai) == UNION {EpisodePlays(w, k) : k \in Copies(w, ai)}

Counts(w, ai) == {Distinct(EpisodePlays(w, k)) : k \in Copies(w, ai)}

CountsPerUser(events, people) == {Distinct(By(events, {p})) : p \in people}

OwnCounts(w, ai, people) == UNION {CountsPerUser(EpisodePlays(w, k), people) : k \in Copies(w, ai)}

SeriesState(w, ai, people) ==
  LET any   == AnyPlays(w, ai)
      own   == By(any, people)
      total == Cardinality(Countable(w, ai))
  IN [played |-> any # {}, playedOwn |-> own # {},
      last |-> LastOf(any), lastOwn |-> LastOf(own),
      finished |-> SeriesDone(total, Counts(w, ai)),
      finishedOwn |-> SeriesDone(total, OwnCounts(w, ai, people)),
      conf |-> Confidence(people)]

\* The rows of watch_state.
WatchState(w, att) ==
  [a \in LiveArr(w) |->
     LET people == Identities(w, Requester(att, a))
     IN IF w.arr[a].kind = "movie" THEN MovieState(w, w.arr[a], people)
        ELSE SeriesState(w, w.arr[a], people)]

-----------------------------------------------------------------------------
(* compute_candidates() of candidates_db.py.                               *)

Unwatched == [played |-> FALSE, playedOwn |-> FALSE, last |-> NULL, lastOwn |-> NULL,
              finished |-> FALSE, finishedOwn |-> FALSE, conf |-> "none"]
Watched(ws, a) == IF a \in DOMAIN ws THEN ws[a] ELSE Unwatched

LiveFiles(item) == {n \in DOMAIN item.files : item.files[n].live}

\* v_arr_item_size.
ItemBytes(ai) == Bytes(LAMBDA n : ai.files[n].size, LiveFiles(ai))

\* CAST(julianday('now') - julianday(x) AS INTEGER).
Days(hours) == hours \div 24

Listable(w, a) == w.arr[a].live /\ a \notin w.hidden \cup w.ruled

Trust(conf) == IF conf \in {"none", "low"} THEN "low" ELSE "high"

\* A row that names an arr item and no file of it.
ItemRowOf(w, a, reason, last, conf) ==
  [arr |-> a, plex |-> NULL, file |-> NULL, reason |-> reason, size |-> ItemBytes(w.arr[a]),
   age |-> w.arr[a].age, last |-> last, conf |-> conf]

FileRowOf(a, k, n, reason, size) ==
  [arr |-> a, plex |-> k, file |-> n, reason |-> reason, size |-> size,
   age |-> NULL, last |-> NULL, conf |-> "high"]

Old(hours, days) == hours # NULL /\ Days(hours) > days

\* Rules 1 and 2.
NeverRows(w, att, ws, a) ==
  IF ~Old(w.arr[a].age, NeverDays) THEN {}
  ELSE (IF Watched(ws, a).played THEN {}
        ELSE {ItemRowOf(w, a, "never_watched_anyone", NULL, "high")})
       \cup
       (IF Requester(att, a).name = NoName \/ Watched(ws, a).playedOwn THEN {}
        ELSE {ItemRowOf(w, a, "never_watched_requester", NULL, Trust(Watched(ws, a).conf))})

\* Rules 3 to 6.
StaleRows(w, att, ws, a) ==
  LET s == Watched(ws, a) IN
  (IF s.played /\ Old(s.last, StaleDays)
   THEN {ItemRowOf(w, a, IF s.finished THEN "stale_finished_anyone" ELSE "stale_partial_anyone",
                   s.last, "high")}
   ELSE {})
  \cup
  (IF Requester(att, a).name # NoName /\ s.playedOwn /\ Old(s.lastOwn, StaleDays)
   THEN {ItemRowOf(w, a,
                   IF s.finishedOwn THEN "stale_finished_requester" ELSE "stale_partial_requester",
                   s.lastOwn, Trust(s.conf))}
   ELSE {})

Apart(x, y) == IF x > y THEN x - y ELSE y - x

(* Mutant of Alike: the tolerance is that of the other size. *)
AlikeTheOther(mine, other) == mine = 0 \/ other = 0 \/ 20 * Apart(mine, other) < other

\* ABS(other - mine) < mine * 0.05, or a size that is not known.
Alike(mine, other) == mine = 0 \/ other = 0 \/ 20 * Apart(mine, other) < mine

\* Rule 7a, file by file.
MovieOrphans(w, a) ==
  LET ai == w.arr[a] IN
  {FileRowOf(a, NULL, n, "orphan_arr_no_plex", ai.files[n].size) :
     n \in {m \in LiveFiles(ai) :
              ~\E k \in Copies(w, ai) : \E p \in LiveFiles(w.plex[k]) :
                 Alike(ai.files[m].size, w.plex[k].files[p].size)}}

\* Rule 7b: a show is matched by any id, and by its sum of sizes if it has one.
SeriesOrphans(w, a) ==
  LET ai    == w.arr[a]
      mine  == ItemBytes(ai)
      match == {k \in DOMAIN w.plex :
                  /\ w.plex[k].live
                  /\ \/ Same(ai.tvdb, w.plex[k].tvdb)
                     \/ Same(ai.tmdb, w.plex[k].tmdb)
                     \/ Same(ai.imdb, w.plex[k].imdb)
                  /\ Alike(mine, ItemBytes(w.plex[k]))}
  IN IF match # {} THEN {} ELSE {FileRowOf(a, NULL, NULL, "orphan_arr_no_plex", mine)}

(* Mutant of Holds: an item that is ignored holds nothing. *)
HoldsUnlessIgnored(w, a, px, size) ==
  LET ai == w.arr[a] IN
  /\ Listable(w, a)
  /\ Same(ai.tmdb, px.tmdb) \/ Same(ai.tvdb, px.tvdb) \/ Same(ai.imdb, px.imdb)
  /\ \E n \in LiveFiles(ai) : Alike(size, ai.files[n].size)

\* Has the arr item a file for one of this size of the Plex item?
Holds(w, a, px, size) ==
  LET ai == w.arr[a] IN
  /\ ai.live
  /\ Same(ai.tmdb, px.tmdb) \/ Same(ai.tvdb, px.tvdb) \/ Same(ai.imdb, px.imdb)
  /\ \E n \in LiveFiles(ai) : Alike(size, ai.files[n].size)

\* Rule 8, file by file; what the user ignores plays no part.
PlexOrphans(w) ==
  UNION {{FileRowOf(NULL, k, n, "orphan_plex_no_arr", w.plex[k].files[n].size) :
            n \in {m \in LiveFiles(w.plex[k]) :
                     ~\E a \in DOMAIN w.arr :
                        Holds(w, a, w.plex[k], w.plex[k].files[m].size)}} :
         k \in {k \in DOMAIN w.plex : w.plex[k].live}}

ItemRows(w, att, ws, a) ==
  NeverRows(w, att, ws, a) \cup StaleRows(w, att, ws, a)
  \cup (IF w.arr[a].kind = "movie" THEN MovieOrphans(w, a) ELSE SeriesOrphans(w, a))

\* The rows that a run inserts.
Candidates(w, att, ws) ==
  PlexOrphans(w) \cup UNION {ItemRows(w, att, ws, a) : a \in {a \in DOMAIN w.arr : Listable(w, a)}}
=============================================================================
