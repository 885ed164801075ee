----------------------------- MODULE MCPipeline -----------------------------
(***************************************************************************)
(* Two sections of Plex: one with a movie in two copies, the second of     *)
(* which has no imdb id, and one with a show, whose metadata lists no      *)
(* parts.  Both were added long ago; what was played of them varies.       *)
(***************************************************************************)
EXTENDS Pipeline, TLC

CONSTANTS k1, k2, k3

MCSections == <<{k1, k2}, {k3}>>
MCParts == (k1 :> 1) @@ (k2 :> 1) @@ (k3 :> 0)
MCSized == {k2, k3}
MCReplies == {[glitches |-> g, last |-> "answer"] : g \in {0, MaxRetries - 1, MaxRetries}}
             \cup {[glitches |-> 0, last |-> x] : x \in {"refusal", "garbage"}}

Ann == [id |-> 1, name |-> "ann"]

Item(kind, tmdb, tvdb, imdb, sizes, eps) ==
  [kind |-> kind, live |-> TRUE, inst |-> 1, tmdb |-> tmdb, tvdb |-> tvdb, imdb |-> imdb,
   age |-> 24 * (NeverDays + 1), files |-> [n \in DOMAIN sizes |-> [size |-> sizes[n], live |-> TRUE]],
   tags |-> {Ann}, eps |-> [n \in 1 .. eps |-> [live |-> TRUE, special |-> FALSE]]]

InPlex(tmdb, tvdb, imdb, parts, listed) ==
  [tmdb |-> tmdb, tvdb |-> tvdb, imdb |-> imdb, parts |-> parts, listed |-> listed]

Play(k, ep) ==
  [copy |-> k, ep |-> ep, user |-> 11, pct |-> MoviePct, ago |-> 24 * (StaleDays + 1)]

MCWorlds ==
  {[arr |-> <<Item("movie", 1, 0, 7, <<100>>, 0), Item("series", 2, 5, 0, <<60, 40>>, 1)>>,
    plex |-> (k1 :> InPlex(1, 0, 7, (0 :> 100), 100)) @@ (k2 :> InPlex(1, 0, 0, (0 :> 40), 40))
             @@ (k3 :> InPlex(2, 5, 0, << >>, 90)),
    requests |-> << >>, people |-> {[id |-> 1, name |-> "ann", user |-> 11, conf |-> "high"]},
    events |-> e, specials |-> FALSE, hidden |-> {}, ruled |-> {}] :
     e \in {{}, {Play(k1, 0)}, {Play(k2, 0), Play(k3, 1)}}}
=============================================================================
