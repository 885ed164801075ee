-------------------------------- MODULE Pages --------------------------------
(***************************************************************************)
(* What the pages show of a run's candidates: the cards, the age buckets,  *)
(* the headline and the requester tables of views/summary.py, and the      *)
(* drill-down list of views/candidates.py.                                 *)
(*                                                                         *)
(* rows are the candidates of the run; w and att, the tables that the      *)
(* queries join them with, are read when the page is made.                 *)
(***************************************************************************)
EXTENDS CandidateRules

RowBytes(rows) == Bytes(LAMBDA r : r.size, rows)

Tally(rows) == [count |-> Cardinality(rows), bytes |-> RowBytes(rows)]

OfReason(rows, reasons) == {r \in rows : r.reason \in reasons}

\* reason_summary(): one card.
Card(rows, reason) == Tally(OfReason(rows, {reason}))

\* headline_reclaim_bytes(), and the TOTAL row of take_snapshot(): the largest
\* row of each arr item and of each Plex item.
Headline(rows) ==
  LET media == {<<r.arr, r.plex>> : r \in rows}
  IN [items |-> Cardinality({IF m[1] # NULL THEN m[1] ELSE -m[2] : m \in media}),
      bytes |-> Bytes(LAMBDA m : Largest({r.size : r \in {q \in rows : <<q.arr, q.plex>> = m}}), media)]

AgeBuckets == {<<0, 30>>, <<30, 90>>, <<90, 365>>, <<365, NULL>>}

\* age_buckets_for_never_watched(): from lo, up to but without hi.
Bucket(rows, b) ==
  Tally({r \in OfReason(rows, {"never_watched_anyone"}) :
           /\ r.age # NULL /\ Days(r.age) >= b[1]
           /\ b[2] # NULL => Days(r.age) < b[2]})

NotGiven == -1

\* list_candidates(), all pages of it; {} and "" are filters not given, too.
ListRows(att, rows, f) ==
  {r \in rows :
     /\ f.reasons # {} => r.reason \in f.reasons
     /\ f.name # NoName => r.arr # NULL /\ Requester(att, r.arr).name = f.name
     /\ f.least # NotGiven => r.age # NULL /\ Days(r.age) >= f.least
     /\ f.below # NotGiven => r.age # NULL /\ Days(r.age) < f.below}

\* reasons_for_tab().
ReasonsForTab(tab, anyone, state) ==
  IF tab = "never" THEN {IF anyone THEN "never_watched_anyone" ELSE "never_watched_requester"}
  ELSE IF tab = "orphans" THEN {"orphan_arr_no_plex", "orphan_plex_no_arr"}
  ELSE (IF state \in {"all", "finished"}
        THEN {IF anyone THEN "stale_finished_anyone" ELSE "stale_finished_requester"} ELSE {})
       \cup
       (IF state \in {"all", "partial"}
        THEN {IF anyone THEN "stale_partial_anyone" ELSE "stale_partial_requester"} ELSE {})

\* The name under which a requester's items are grouped.
GroupName(att, a) == IF Requester(att, a).name = NoName THEN "(no requester)" ELSE Requester(att, a).name

RowsOf(rows, a) == {r \in rows : r.arr = a}

\* instance_cards(): the items of an instance and their bytes.
InstanceCard(w, inst) ==
  LET items == {a \in LiveArr(w) : w.arr[a].inst = inst}
  IN [count |-> Cardinality(items), bytes |-> Bytes(LAMBDA a : ItemBytes(w.arr[a]), items)]

(* Mutant of RequesterTotal: the items that are gone are joined, too. *)
RequesterTotalOfGone(w, att, rows, name) ==
  LET items == {a \in DOMAIN w.arr : GroupName(att, a) = name}
      mine  == {r \in rows : r.arr \in items}
  IN [items |-> Cardinality(items),
      bytes |-> Bytes(LAMBDA a : ItemBytes(w.arr[a]), items),
      never |-> Tally(OfReason(mine, {"never_watched_anyone"})),
      stale |-> Tally(OfReason(mine, ReasonsForTab("stale", TRUE, "all")))]

\* requester_totals(), one line: the files are joined once per candidate row.
RequesterTotal(w, att, rows, name) ==
  LET items == {a \in LiveArr(w) : GroupName(att, a) = name}
      mine  == {r \in rows : r.arr \in items}
      Lines(a) == Largest({1, Cardinality(RowsOf(rows, a))})
  IN [items |-> Cardinality(items),
      bytes |-> Bytes(LAMBDA a : Lines(a) * ItemBytes(w.arr[a]), items),
      never |-> Tally(OfReason(mine, {"never_watched_anyone"})),
      stale |-> Tally(OfReason(mine, ReasonsForTab("stale", TRUE, "all")))]

\* top_requesters_by_reclaim(), one line, before its limit.
TopRequester(att, rows, name) ==
  Tally({r \in rows : r.arr # NULL /\ GroupName(att, r.arr) = name})
=============================================================================
