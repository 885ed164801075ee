------------------------------ MODULE MCDerive ------------------------------
(***************************************************************************)
(* Tables for Derive.  Each family of them varies what one of the steps    *)
(* tells apart and holds the rest still: a movie (item 1) and a series     *)
(* (item 2) that were added long ago, with one copy each.                  *)
(***************************************************************************)
EXTENDS Derive

Ann == [id |-> 1, name |-> "ann"]
Bob == [id |-> 2, name |-> "bob"]

\* One day over the threshold, and one hour short of that.
LongAgo(days) == 24 * (days + 1)
JustNot(days) == 24 * (days + 1) - 1

File(size) == [size |-> size, live |-> TRUE]
Gone(size) == [size |-> size, live |-> FALSE]
Episode(special) == [live |-> TRUE, special |-> special]

Movie == [kind |-> "movie", live |-> TRUE, inst |-> 1, tmdb |-> 1, tvdb |-> NULL, imdb |-> 7,
          age |-> LongAgo(NeverDays), files |-> <<File(100)>>, tags |-> {}, eps |-> << >>]
Series == [kind |-> "series", live |-> TRUE, inst |-> 2, tmdb |-> 2, tvdb |-> 5, imdb |-> NULL,
           age |-> LongAgo(NeverDays), files |-> <<File(60), File(40)>>, tags |-> {},
           eps |-> <<Episode(FALSE), Episode(FALSE), Episode(TRUE), [Episode(FALSE) EXCEPT !.live = FALSE]>>]

Copy(ai, size) == [live |-> TRUE, tmdb |-> ai.tmdb, tvdb |-> ai.tvdb, imdb |-> ai.imdb,
                   files |-> IF size = 0 THEN << >> ELSE <<File(size)>>]

Play(copy, ep, user) ==
  [copy |-> copy, ep |-> ep, user |-> user, pct |-> MoviePct, ago |-> LongAgo(StaleDays)]

Mapped(who, user, conf) == [id |-> who.id, name |-> who.name, user |-> user, conf |-> conf]

AnnAsks(n) ==
  [media |-> IF n = 1 THEN "movie" ELSE "tv", tmdb |-> n, tvdb |-> IF n = 1 THEN NULL ELSE 5,
   id |-> 1, name |-> "ann", at |-> n]

Base == [arr |-> <<Movie, Series>>, plex |-> <<Copy(Movie, 100), Copy(Series, 0)>>,
         requests |-> <<AnnAsks(1), AnnAsks(2)>>, people |-> {Mapped(Ann, 11, "high")},
         events |-> {}, specials |-> FALSE, hidden |-> {}, ruled |-> {}]

-----------------------------------------------------------------------------
\* Up to two requests of all kinds and numbers, and the tags.
SomeRequests ==
  {[media |-> m, tmdb |-> i, tvdb |-> v, id |-> p.id, name |-> p.name, at |-> t] :
     m \in {"movie", "tv"}, i \in {NULL, 1, 2}, v \in {NULL, 5, 6}, p \in {Ann, Bob, Nobody}, t \in {1, 2}}

RequestWorlds ==
  {[Base EXCEPT !.requests = q] :
     q \in {<<r, s>> : r \in {r \in SomeRequests : r.name # "bob"},
                       s \in {s \in SomeRequests : s.name = "bob" /\ s.at = 1}}}

TagWorlds ==
  {[Base EXCEPT !.requests = q, !.arr[1].tags = t, !.events = e, !.people = {Mapped(Ann, 11, c)}] :
     q \in {<< >>, <<AnnAsks(2)>>, <<[AnnAsks(1) EXCEPT !.name = "", !.id = NULL]>>},
     t \in SUBSET {Ann, Bob, [Bob EXCEPT !.id = 3], Nobody},
     e \in {{}, {Play(1, NULL, 11)}, {Play(1, NULL, 12)}}, c \in {"high", "medium", "low"}}

\* Plays of the episodes of two copies by two users, and who they are.
EpisodePool ==
  {Play(2, 1, 11), Play(2, 2, 12), Play(2, 3, 11), Play(2, 4, 12), Play(3, 2, 11),
   [Play(2, 2, 11) EXCEPT !.pct = EpisodePct - 1], [Play(2, 2, 11) EXCEPT !.ago = JustNot(StaleDays)]}

SeriesWorlds ==
  {[Base EXCEPT !.plex = <<Copy(Movie, 100), Copy(Series, 0), Copy(Series, 0)>>,
                !.events = e, !.people = p, !.specials = s] :
     e \in SUBSET EpisodePool, s \in BOOLEAN,
     p \in {{Mapped(Ann, 11, "high")}, {Mapped(Ann, 11, "high"), Mapped(Ann, 12, "medium")},
            {Mapped(Ann, NULL, "low")}}}

\* Plays of a movie with two copies, one of them known by its imdb id only.
MoviePool ==
  {Play(1, NULL, 11), Play(3, NULL, 12), [Play(3, NULL, 11) EXCEPT !.ago = NULL],
   [Play(1, NULL, 11) EXCEPT !.pct = MoviePct - 1], [Play(1, NULL, 11) EXCEPT !.ago = JustNot(StaleDays)]}

MovieWorlds ==
  {[Base EXCEPT !.plex = <<Copy(Movie, 100), Copy(Series, 0), c>>, !.events = e, !.people = p] :
     e \in SUBSET MoviePool,
     c \in {[Copy(Movie, 100) EXCEPT !.tmdb = NULL], [Copy(Movie, 100) EXCEPT !.live = FALSE]},
     p \in {{Mapped(Ann, 11, "high")}, {Mapped(Bob, 12, "high")}, {Mapped(Ann, NULL, "low")}}}

\* Ages, items that are gone, ignored or ruled out.
AgeWorlds ==
  {[Base EXCEPT !.arr[1].age = g, !.arr[2].age = h, !.arr[1].live = v, !.ruled = u, !.hidden = i,
                !.events = e] :
     g \in {NULL, JustNot(NeverDays), LongAgo(NeverDays), LongAgo(364)},
     h \in {JustNot(364), LongAgo(29)}, v \in BOOLEAN, u \in {{}, {2}}, i \in {{}, {1}},
     e \in {{}, {Play(2, 1, 11)}}}

\* Sizes around the 5% of either side, in one or two files.
Sizes == {0, 950, 951, 952, 1000, 1049, 1050}

SizeWorlds ==
  {[Base EXCEPT !.arr[1].files = f, !.plex = <<[Copy(Movie, 0) EXCEPT !.files = g], Copy(Series, t)>>,
                !.events = {Play(1, NULL, 11)}, !.arr[2].imdb = n] :
     f \in {<<File(x)>> : x \in Sizes} \cup {<<File(x), File(1000)>> : x \in {0, 950}}
           \cup {<<File(1000), Gone(950)>>},
     g \in {<<File(x)>> : x \in Sizes} \cup {<<File(x), File(1050)>> : x \in {0, 950}} \cup {<<Gone(1000)>>},
     t \in {0, 95, 96}, n \in {NULL, 7}}

\* A movie that is there or gone, known to Plex or not, and a series that was
\* played or not, of one requester or two.  These tables may follow each other;
\* the items have ids of their own, so they follow none of the other families.
PageWorlds ==
  {[Base EXCEPT !.arr = [a \in {3, 4} |-> IF a = 3 THEN [Movie EXCEPT !.live = v] ELSE Series],
                !.plex = <<[Copy(Movie, 100) EXCEPT !.tmdb = i, !.imdb = NULL], Copy(Series, 0)>>,
                !.requests = q, !.events = e] :
     v \in BOOLEAN, i \in {1, 3}, e \in {{}, {Play(2, 1, 11)}},
     q \in {<<AnnAsks(1)>>, <<[AnnAsks(1) EXCEPT !.id = 2, !.name = "bob"], AnnAsks(2)>>}}

MCWorlds ==
  RequestWorlds \cup TagWorlds \cup SeriesWorlds \cup MovieWorlds \cup AgeWorlds \cup SizeWorlds
  \cup PageWorlds
=============================================================================
