------------------------------- MODULE Derive -------------------------------
(***************************************************************************)
(* The tail of a run that turns the tables into candidates: the steps      *)
(* request_attribution, watch_state and candidates of run_sync(), each a   *)
(* transaction of its own, with the ignore and unignore forms of           *)
(* routes/ignored.py in between, and the pages made from the result.  Runs *)
(* follow each other: until a run has computed its rows, the pages join    *)
(* those of an older one with the tables that it is changing.              *)
(***************************************************************************)
EXTENDS Spike, Pages

CONSTANTS
  Worlds,   \* bound: the contents of the tables at first
  Later     \* bound: what the pulls of a later run may make of them

ASSUME WorldsAssumption == \A w \in Worlds \cup Later : IsTables(w)

VARIABLES
  world,   \* the tables that the steps read
  att,     \* request_attribution
  ws,      \* watch_state
  rows,    \* candidates of the latest run that computed them
  phase,   \* the step that comes next, or how the run ended
  silent   \* w.hidden when the candidates were computed (history)

deriveVars == <<world, att, ws, rows, phase, silent>>

NoRows == [a \in {} |-> Nobody]

DeriveInit ==
  /\ world \in Worlds
  /\ att = NoRows /\ ws = NoRows
  /\ rows = {} /\ silent = {}
  /\ phase = "attribution"

\* recompute_request_attribution(): the old rows go, the new ones come.
Attribute ==
  /\ phase = "attribution"
  /\ att' = Attribution(world)
  /\ phase' = "watch"
  /\ UNCHANGED <<world, ws, rows, silent>>

\* recompute_watch_state().
Watch ==
  /\ phase = "watch"
  /\ ws' = WatchState(world, att)
  /\ phase' = "candidates"
  /\ UNCHANGED <<world, att, rows, silent>>

\* compute_candidates().
ComputeRows ==
  /\ phase = "candidates"
  /\ rows' = Candidates(world, att, ws)
  /\ silent' = world.hidden
  /\ phase' = "done"
  /\ UNCHANGED <<world, att, ws>>

\* One of the steps fails and is rolled back: the run ends there.
FailDerive ==
  /\ phase \in {"attribution", "watch", "candidates"}
  /\ phase' = "failed"
  /\ UNCHANGED <<world, att, ws, rows, silent>>

\* ignore_item(), of an item that is still there.
Ignore(a) ==
  /\ world.arr[a].live /\ a \notin world.hidden
  /\ world' = [world EXCEPT !.hidden = @ \cup {a}]
  /\ UNCHANGED <<att, ws, rows, phase, silent>>

\* unignore_item(), of any.
Unignore(a) ==
  /\ a \in world.hidden
  /\ world' = [world EXCEPT !.hidden = @ \ {a}]
  /\ UNCHANGED <<att, ws, rows, phase, silent>>

\* The pulls of the next run.  They delete no item, and leave the flag of
\* those that are ignored alone.
Pull(w) ==
  /\ phase \in {"done", "failed"}
  /\ DOMAIN world.arr \subseteq DOMAIN w.arr /\ DOMAIN world.plex \subseteq DOMAIN w.plex
  /\ world' = [w EXCEPT !.hidden = world.hidden]
  /\ phase' = "attribution"
  /\ UNCHANGED <<att, ws, rows, silent>>

DeriveNext ==
  \/ Attribute \/ Watch \/ ComputeRows \/ FailDerive
  \/ \E w \in Later : Pull(w)
  \/ \E a \in DOMAIN world.arr : Ignore(a) \/ Unignore(a)

DeriveSpec == DeriveInit /\ [][DeriveNext]_deriveVars

-----------------------------------------------------------------------------
Done == phase = "done"

Has(a, reason) == \E r \in rows : r.arr = a /\ r.reason = reason

\* What a request is for: media of a kind, and of one number.
IsFor(ai, r) ==
  /\ (r.media = "movie") <=> (ai.kind = "movie")
  /\ IF ai.kind = "series" /\ r.tvdb # NULL THEN r.tvdb = ai.tvdb ELSE Same(r.tmdb, ai.tmdb)

\* Media of the other kind that happens to have one of the numbers.
Namesake(ai, r) ==
  /\ (r.media = "movie") <=> (ai.kind # "movie")
  /\ Same(r.tmdb, ai.tmdb) \/ Same(r.tvdb, ai.tvdb)

\* The earliest request wins (PLAN.md and the docstring of attribution.py),
\* provided that upstream hands the requests over in the order of their making
\* and that no namesake was requested.
EarliestWins ==
  phase \notin {"attribution", "failed"} =>
    \A a \in LiveArr(world) :
      LET ai      == world.arr[a]
          asked   == DOMAIN world.requests
          mine    == {i \in asked : IsFor(ai, world.requests[i])}
          ordered == \A i, j \in mine : i < j => world.requests[i].at <= world.requests[j].at
      IN mine # {} /\ ordered /\ (\A i \in asked : ~Namesake(ai, world.requests[i])) =>
           att[a].name = EarliestOf(world, mine).name

\* The two scopes of a run agree: what nobody watched its requester did not
\* watch, what the requester watched last is no fresher than what anyone did,
\* and what the requester finished is finished.
ScopesAgree ==
  Done => \A a \in DOMAIN ws :
    /\ Has(a, "never_watched_anyone") /\ Requester(att, a).name # NoName =>
         Has(a, "never_watched_requester")
    /\ (Has(a, "stale_finished_anyone") \/ Has(a, "stale_partial_anyone"))
       /\ ws[a].lastOwn # NULL /\ Requester(att, a).name # NoName =>
         Has(a, "stale_finished_requester") \/ Has(a, "stale_partial_requester")
    /\ Has(a, "stale_finished_requester") => ~Has(a, "stale_partial_anyone")
    /\ ~(Has(a, "never_watched_anyone")
         /\ (Has(a, "stale_finished_requester") \/ Has(a, "stale_partial_requester")))

\* A series counts as finished, by anyone or by its requester, exactly if on
\* one copy every episode that counts has been played, unless plays of others -
\* specials that do not count, episodes that are gone - make up for missing ones.
FinishedIsEarned ==
  Done => \A a \in {b \in DOMAIN ws : world.arr[b].kind = "series"} :
    LET ai     == world.arr[a]
        needed == Countable(world, ai)
        Seen(k, users) == {e.ep : e \in {f \in EpisodePlays(world, k) : f.user \in users}}
        users  == {e.user : e \in world.events}
        mine   == {p.user : p \in Identities(world, Requester(att, a))} \ {NULL}
    IN /\ \A k \in Copies(world, ai) :
            /\ needed # {} /\ needed \subseteq Seen(k, users) => ws[a].finished
            /\ \A u \in mine : needed # {} /\ needed \subseteq Seen(k, {u}) => ws[a].finishedOwn
       /\ ws[a].finished =>
            \E k \in Copies(world, ai) :
              needed \subseteq Seen(k, users) \/ ~(Seen(k, users) \subseteq needed)
       /\ ws[a].finishedOwn =>
            \E k \in Copies(world, ai), u \in mine :
              needed \subseteq Seen(k, {u}) \/ ~(Seen(k, {u}) \subseteq needed)

\* Nothing about the item is read differently by joins and by dictionaries: it
\* has one copy at most, one request at most and that by its own kind and
\* numbers, or one tag; one user goes by the name of its requester, and every
\* play has a user and an end.
Plain(a) ==
  LET ai == world.arr[a]
      who == Requester(att, a)
      asked == RequestsFor(world, a)
  IN /\ ai.live /\ a \notin silent \cup world.ruled
     /\ Cardinality(Copies(world, ai)) <= 1
     /\ Cardinality(asked) <= 1 /\ asked = Keyed(world, ai)
     /\ asked = {} => Cardinality(Parsed(world, a)) <= 1
     /\ asked # {} => who.name # NoName
     /\ Cardinality({p \in world.people : p.name = who.name}) <= 1
     /\ \A p \in world.people : p.name = who.name => p.id = who.id
     /\ \A e \in world.events : e.user # NULL /\ e.ago # NULL

\* For such items the run lists what the spike lists, orphans apart.
EnginesAgree ==
  Done => \A a \in DOMAIN ws :
    Plain(a) => {r \in RowsOf(rows, a) : r.reason # "orphan_arr_no_plex"} = SpikeRows(world, a)

\* To ignore an item hides its own rows and changes nothing else: above all its
\* Plex copy does not turn up as one that no Arr knows.
IgnoringOnlyHides ==
  Done => rows = {r \in Candidates([world EXCEPT !.hidden = {}], att, ws) : r.arr \notin silent}

\* A movie file and a Plex file of the same media are called missing from each
\* other's side only if they differ by 5% of either; a size in between leaves
\* it to the larger of the two, and one that is unknown to neither.
OrphansAgree ==
  Done => \A a \in {b \in DOMAIN ws : world.arr[b].kind = "movie"}, k \in DOMAIN world.plex :
    k \in Copies(world, world.arr[a]) =>
      \A n \in LiveFiles(world.arr[a]), m \in LiveFiles(world.plex[k]) :
        LET x == world.arr[a].files[n].size
            y == world.plex[k].files[m].size
            here  == \E r \in rows : r.arr = a /\ r.file = n /\ r.reason = "orphan_arr_no_plex"
            there == \E r \in rows : r.plex = k /\ r.file = m /\ r.reason = "orphan_plex_no_arr"
        IN /\ here => x # 0 /\ y # 0 /\ 20 * Apart(x, y) >= x
           /\ there => x # 0 /\ y # 0 /\ 20 * Apart(x, y) >= y
           /\ here /\ ~there /\ Cardinality(LiveArr(world)) = 1
              /\ Cardinality(LiveFiles(world.arr[a])) = 1 => x < y

Names(items) == {GroupName(att, a) : a \in items}

Nevers == OfReason(rows, {"never_watched_anyone"})

\* The list behind an age bucket.
Linked(b) ==
  ListRows(att, rows, [reasons |-> {"never_watched_anyone"}, name |-> NoName, least |-> b[1],
                       below |-> IF b[2] = NULL THEN NotGiven ELSE b[2]])

\* The rows of all tabs, without a filter.
Tabs ==
  UNION {ListRows(att, rows, [reasons |-> ReasonsForTab(tab, anyone, "all"), name |-> NoName,
                              least |-> NotGiven, below |-> NotGiven]) :
           tab \in {"never", "stale", "orphans"}, anyone \in BOOLEAN}

\* What the pages agree on whenever they are made, also of the rows of an older
\* run over tables that a later one has changed: a bucket counts what its link
\* lists, the buckets add up to their card, the tabs leave no row out, the
\* headline counts each item once, the top requesters account for all bytes but
\* those of unknown Plex files, and the requesters' columns for all items but
\* those that are gone since.
LatePagesAgree ==
  /\ \A b \in AgeBuckets : Bucket(rows, b) = Tally(Linked(b))
  /\ Card(rows, "never_watched_anyone").count = SumFunction([b \in AgeBuckets |-> Bucket(rows, b).count])
  /\ rows = Tabs
  /\ Headline(rows).items = Cardinality({r.arr : r \in rows} \ {NULL})
                            + Cardinality({r.plex : r \in rows} \ {NULL})
  /\ RowBytes(rows) = SumFunction([n \in Names(DOMAIN world.arr) |-> TopRequester(att, rows, n).bytes])
                      + RowBytes(OfReason(rows, {"orphan_plex_no_arr"}))
  /\ Card(rows, "never_watched_anyone").count =
       SumFunction([n \in Names(LiveArr(world)) |-> RequesterTotal(world, att, rows, n).never.count])
       + Cardinality({r \in Nevers : r.arr \notin LiveArr(world)})

\* What they agree on once a run has its rows: the requesters' columns add up to
\* their card and their items to those of the instances, the headline counts the
\* bytes of an item at most once, and a row about a requester shows one.  A
\* requester's bytes are those of the items unless one of them is listed twice.
SettledPagesAgree ==
  Done =>
    /\ Card(rows, "never_watched_anyone").count =
         SumFunction([n \in Names(LiveArr(world)) |-> RequesterTotal(world, att, rows, n).never.count])
    /\ SumFunction([n \in Names(LiveArr(world)) |-> RequesterTotal(world, att, rows, n).items]) =
         SumFunction([i \in {world.arr[a].inst : a \in DOMAIN world.arr} |-> InstanceCard(world, i).count])
    /\ Headline(rows).bytes <=
         SumFunction([a \in {r.arr : r \in rows} \ {NULL} |-> ItemBytes(world.arr[a])])
         + RowBytes(OfReason(rows, {"orphan_plex_no_arr"}))
    /\ \A r \in rows :
         r.reason \in {"never_watched_requester", "stale_finished_requester", "stale_partial_requester"}
           => Requester(att, r.arr).name # NoName
    /\ \A n \in Names(LiveArr(world)) :
         LET items == {a \in LiveArr(world) : GroupName(att, a) = n}
         IN (\A a \in items : Cardinality(RowsOf(rows, a)) <= 1)
              => RequesterTotal(world, att, rows, n).bytes
                   = SumFunction([a \in items |-> ItemBytes(world.arr[a])])

\* The pages tell one story (views/summary.py, list_candidates()), whenever they
\* are made and whatever a later run has done to the tables by then.
PagesAgree == LatePagesAgree /\ SettledPagesAgree
=============================================================================
