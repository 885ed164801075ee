-------------------------------- MODULE Trend --------------------------------
(***************************************************************************)
(* The numbers behind Publication: how many rows of each reason a run      *)
(* computed, what take_snapshot() of sync/snapshots.py keeps of that, and  *)
(* the trends that views/snapshots.py reads from it for the cards of the   *)
(* home page.  Bytes go the way of counts.                                 *)
(***************************************************************************)
EXTENDS Publication, Integers

CONSTANTS
  Reasons,   \* reasons of candidates
  MaxRows    \* bound: rows of one reason in a run

\* TOTAL_KEY: the pseudo-reason of the headline.
Total == "TOTAL"

ASSUME TrendAssumption == Total \notin Reasons /\ MaxRows \in Nat

Keys == Reasons \cup {Total}

VARIABLES
  found,    \* by run and key: the rows that the run computed, its headline
  points    \* dashboard_snapshots: by reason, its rows in order of id

trendVars == <<pubVars, found, points>>

Nothing == [r \in Keys |-> 0]

\* The headline counts items, of which there is one if there is a row.
Numbers == {c \in [Keys -> 0 .. MaxRows] : c[Total] = 0 <=> \A r \in Reasons : c[r] = 0}

\* reason_summary() and headline_reclaim_bytes(), from the rows that are left.
Shown(i) == IF i \in stored THEN found[i] ELSE Nothing

\* A reason without rows has no card and is not written.
Counts(r, n) == r = Total \/ n # 0

TrendInit ==
  /\ PubInit
  /\ found = << >>
  /\ points = [r \in Keys |-> << >>]

TrendStart ==
  /\ StartRun
  /\ found' = Append(found, Nothing)
  /\ UNCHANGED points

TrendCompute(i) ==
  /\ Compute(i)
  /\ \E c \in Numbers :
       /\ c[Total] # 0 <=> i \in produced'
       /\ found' = [found EXCEPT ![i] = c]
  /\ UNCHANGED points

\* take_snapshot(): a row for the headline and for each reason that has rows.
TrendSnapshot(i) ==
  /\ TakeSnapshot(i)
  /\ points' = [r \in Keys |-> IF Counts(r, Shown(i)[r])
                               THEN Append(points[r], [run |-> i, count |-> Shown(i)[r]])
                               ELSE points[r]]
  /\ UNCHANGED found

TrendEnd(i) ==
  /\ Publish(i) \/ FailRun(i) \/ FailClosing(i) \/ CrashRun(i)
  /\ UNCHANGED <<found, points>>

TrendNext ==
  \/ TrendStart
  \/ \E i \in Runs : TrendCompute(i) \/ TrendSnapshot(i) \/ TrendEnd(i)

TrendSpec == TrendInit /\ [][TrendNext]_trendVars

(* Mutant of Stat: the oldest two. *)
StatOfOldest(r) ==
  LET p == points[r]
  IN [latest |-> p[1],
      delta  |-> IF Len(p) < 2 THEN {} ELSE {p[1].count - p[2].count}]

\* latest_with_delta() of a reason that has snapshots; {} is None.
Stat(r) ==
  LET p == points[r]
      n == Len(p)
  IN [latest |-> p[n],
      delta  |-> IF n < 2 THEN {} ELSE {p[n].count - p[n - 1].count}]

-----------------------------------------------------------------------------
\* When no run is in flight, none died and none overlapped, and the rows of the
\* latest run are still there, the trend of the headline and of each card ends
\* with the number that is shown, and its delta is taken against the newest
\* published run before that had rows of the reason: not against the last sync,
\* if that had none (views/snapshots.py).
TrendsFollowCards ==
  Active = {} /\ (\A i \in Runs : pc[i] # "dead") /\ ~overlap =>
    \A i \in LatestRun, r \in Keys :
      Counts(r, Shown(i)[r]) /\ (i \in produced => i \in stored) =>
        LET before == {j \in Published : j < i /\ Counts(r, found[j][r])}
        IN /\ points[r] # << >>
           /\ Stat(r) = [latest |-> [run |-> i, count |-> Shown(i)[r]],
                         delta  |-> {Shown(i)[r] - found[j][r] : j \in Latest(before, 1)}]
=============================================================================
