------------------------------ MODULE RunBook ------------------------------
(***************************************************************************)
(* What the sync_jobs table promises its readers (dms/views and            *)
(* dms/routes), whatever happens to the runs: runs are numbered in the     *)
(* order they start, a run gets at most one verdict, and the verdict tells *)
(* what became of its steps.  Readers take the greatest id with verdict    *)
(* succeeded or partial as the data to show.                               *)
(***************************************************************************)
EXTENDS Naturals, Sequences

VARIABLES
  book,      \* the verdict of each run, "running" until there is one
  complete,  \* runs whose derived steps are all done
  tainted    \* runs with a failed step

bookVars == <<book, complete, tainted>>

BookInit == book = << >> /\ complete = {} /\ tainted = {}

OpenRun ==
  /\ book' = Append(book, "running")
  /\ UNCHANGED <<complete, tainted>>

\* Steps report only for runs without a verdict.
MarkComplete(i) ==
  /\ i \notin complete /\ book[i] = "running"
  /\ complete' = complete \cup {i}
  /\ UNCHANGED <<book, tainted>>

MarkTainted(i) ==
  /\ i \notin complete \cup tainted /\ book[i] = "running"
  /\ tainted' = tainted \cup {i}
  /\ UNCHANGED <<book, complete>>

Verdict(i, v) ==
  /\ book[i] = "running"
  /\ v = "succeeded" => i \in complete \ tainted
  /\ v = "partial" => i \in complete \cap tainted
  /\ v = "failed" => i \notin complete
  /\ book' = [book EXCEPT ![i] = v]
  /\ UNCHANGED <<complete, tainted>>

BookNext ==
  \/ OpenRun
  \/ \E i \in DOMAIN book :
       \/ MarkComplete(i) \/ MarkTainted(i)
       \/ \E v \in {"succeeded", "partial", "failed"} : Verdict(i, v)

BookSpec == BookInit /\ [][BookNext]_bookVars
=============================================================================
