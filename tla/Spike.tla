-------------------------------- MODULE Spike --------------------------------
(***************************************************************************)
(* run_spike() of spike.py: the same candidates without a database, from   *)
(* one answer of each service.  It joins by dictionaries where the run     *)
(* joins by SQL, so the two need not agree; where they must is what this   *)
(* module is for.                                                          *)
(*                                                                         *)
(* Tables as in CandidateRules.  A request also has its media type and the *)
(* date it was made (at, never NULL here); the history fits one page, and  *)
(* the counts that Sonarr reports are those of its lists.                  *)
(***************************************************************************)
EXTENDS CandidateRules

\* _build_plex_index(): the first item of the library that has the id of an agent.
Indexed(w, agent, id) ==
  LET hits == {k \in DOMAIN w.plex : w.plex[k].live /\ Same(id, w.plex[k][agent])}
  IN IF hits = {} THEN NULL ELSE Min(hits)

Else(k, other) == IF k # NULL THEN k ELSE other

\* The one copy that _project_movie() and _project_series() look at.
SpikeCopy(w, ai) ==
  IF ai.kind = "movie"
  THEN Else(Indexed(w, "tmdb", ai.tmdb), Indexed(w, "imdb", ai.imdb))
  ELSE Else(Indexed(w, "tvdb", ai.tvdb), Indexed(w, "tmdb", ai.tmdb))

\* requested_by_external: media type and both numbers, NULLs being equal.
Keyed(w, ai) ==
  {i \in DOMAIN w.requests :
     LET r == w.requests[i] IN
     /\ r.tmdb = ai.tmdb
     /\ IF ai.kind = "movie" THEN r.media = "movie" /\ r.tvdb = NULL
        ELSE r.media = "tv" /\ r.tvdb = ai.tvdb}

\* The earliest of them; of two that are equally early, the first.
EarliestOf(w, S) ==
  w.requests[CHOOSE i \in S : \A j \in S :
               w.requests[i].at < w.requests[j].at
               \/ (w.requests[i].at = w.requests[j].at /\ i <= j)]

\* _resolve_requester(): a request without a requester leaves it to the tags,
\* and two tags of one name are two.
SpikeRequester(w, a) ==
  LET asked == Keyed(w, w.arr[a])
      tags  == Parsed(w, a)
  IN IF asked # {} /\ EarliestOf(w, asked).name # NoName THEN EarliestOf(w, asked).name
     ELSE IF Cardinality(tags) = 1 THEN (CHOOSE t \in tags : TRUE).name
     ELSE IF tags # {} THEN "multi-requester" ELSE NoName

\* _requester_to_tautulli(): by the name alone.
SpikeUser(w, name) ==
  LET people == {p \in w.people : p.name = name /\ p.user # NULL}
  IN IF name = NoName \/ people = {} THEN NULL
     ELSE (CHOOSE p \in people : \A q \in people : p.id <= q.id).user

Resolved(w, name) == name # NoName /\ \E p \in w.people : p.conf # "low" /\ p.name = name

\* _summarize_watch_movie() and _summarize_watch_series(); a play of no user is
\* one of the requester whose user is not known.
SpikeWatch(w, a) ==
  LET ai    == w.arr[a]
      copy  == SpikeCopy(w, ai)
      any   == {e \in w.events : /\ copy # NULL /\ e.copy = copy
                                 /\ (e.ep = NULL) <=> (ai.kind = "movie")
                                 /\ e.pct >= (IF ai.kind = "movie" THEN MoviePct ELSE EpisodePct)}
      own   == {e \in any : e.user = SpikeUser(w, SpikeRequester(w, a))}
      total == Cardinality(Countable(w, ai))
      Done(plays) == IF ai.kind = "movie" THEN plays # {} ELSE total > 0 /\ Distinct(plays) >= total
  IN [played |-> any # {}, playedOwn |-> own # {},
      last |-> LastOf(any), lastOwn |-> LastOf(own),
      finished |-> Done(any), finishedOwn |-> Done(own), conf |-> "none"]

\* _emit_anyone() and _emit_requester() of candidates.py.
EmitAnyone(w, a, s) ==
  LET never == ~s.played /\ w.arr[a].age # NULL /\ Days(w.arr[a].age) > NeverDays
      stale == s.played /\ s.last # NULL /\ Days(s.last) > StaleDays
  IN {ItemRowOf(w, a, reason, IF s.played THEN s.last ELSE NULL, "high") :
        reason \in (IF never THEN {"never_watched_anyone"} ELSE {})
                   \cup (IF ~stale THEN {}
                         ELSE IF s.finished THEN {"stale_finished_anyone"}
                         ELSE {"stale_partial_anyone"})}

EmitRequester(w, a, s, name) ==
  LET never == ~s.playedOwn /\ w.arr[a].age # NULL /\ Days(w.arr[a].age) > NeverDays
      stale == s.playedOwn /\ s.lastOwn # NULL /\ Days(s.lastOwn) > StaleDays
  IN {ItemRowOf(w, a, reason, IF s.playedOwn THEN s.lastOwn ELSE NULL,
                IF Resolved(w, name) THEN "high" ELSE "low") :
        reason \in IF name = NoName THEN {}
                   ELSE (IF never THEN {"never_watched_requester"} ELSE {})
                        \cup (IF ~stale THEN {}
                              ELSE IF s.finishedOwn THEN {"stale_finished_requester"}
                              ELSE {"stale_partial_requester"})}

\* compute_candidates() of candidates.py for an item, orphans left out.
SpikeRows(w, a) ==
  EmitAnyone(w, a, SpikeWatch(w, a)) \cup EmitRequester(w, a, SpikeWatch(w, a), SpikeRequester(w, a))
=============================================================================
