----------------------------- MODULE Migrations -----------------------------
(***************************************************************************)
(* apply_pending() of migrations/__init__.py, in the processes that start  *)
(* on one database file: the web application and the command lines.        *)
(*                                                                         *)
(* executescript() runs a script without a transaction: each statement     *)
(* commits by itself.  The statements of 0001 and 0003 say IF NOT EXISTS   *)
(* throughout, and each of these scripts is a step.  0002 moves            *)
(* plex_media_files over to a table with one more column and is modelled   *)
(* by the statement.  A statement that fails ends the process.             *)
(***************************************************************************)
EXTENDS Naturals, Sequences, FiniteSets

CONSTANTS
  Procs,   \* processes
  Rows     \* rows of plex_media_files

VARIABLES
  old,      \* plex_media_files: whether it is there, has part_index, its rows
  new,      \* plex_media_files_new
  versions, \* schema_version
  proc,     \* where each process is
  already,  \* the versions it read as applied
  stored,   \* rows that were ever stored (history)
  torn,     \* did a process die between DROP and RENAME? (history)
  met       \* were two processes in their scripts at a time? (history)

migVars == <<old, new, versions, proc, already, stored, torn, met>>

NoTable == [there |-> FALSE, parts |-> FALSE, rows |-> {}]
Tables  == [there : BOOLEAN, parts : BOOLEAN, rows : SUBSET Rows]

Script ==
  << <<"tables">>, <<"drop_new", "create", "copy", "drop_old", "rename", "index">>, <<"snapshots">> >>

Versions == DOMAIN Script

\* At a statement of a script, or at the row that records it.
Place == UNION {{[v |-> v, i |-> i] : i \in 1 .. Len(Script[v]) + 1} : v \in Versions}
Off    == [v |-> 0, i |-> 0]
Up     == [v |-> 0, i |-> 1]
Failed == [v |-> 0, i |-> 2]

MigTypeOK ==
  /\ old \in Tables /\ new \in Tables
  /\ versions \subseteq Versions
  /\ proc \in [Procs -> Place \cup {Off, Up, Failed}]
  /\ already \in [Procs -> SUBSET Versions]
  /\ stored \subseteq Rows /\ torn \in BOOLEAN /\ met \in BOOLEAN

\* A new database, or one of the first version.
MigInit ==
  /\ \/ old = NoTable /\ versions = {}
     \/ \E rows \in SUBSET Rows :
          old = [there |-> TRUE, parts |-> FALSE, rows |-> rows] /\ versions = {1}
  /\ new = NoTable
  /\ proc = [p \in Procs |-> Off] /\ already = [p \in Procs |-> {}]
  /\ stored = old.rows /\ torn = FALSE /\ met = FALSE

Least(S) == CHOOSE v \in S : \A w \in S : v <= w

\* The next script that is pending by what the process read, else it is up.
NextPlace(p, after) ==
  LET pending == {v \in Versions : v > after /\ v \notin already'[p]}
  IN IF pending = {} THEN Up ELSE [v |-> Least(pending), i |-> 1]

InScript(p) == proc[p] \in Place
At(p, statement) ==
  /\ InScript(p) /\ proc[p].i \in DOMAIN Script[proc[p].v]
  /\ Script[proc[p].v][proc[p].i] = statement

Goes(p, place) ==
  /\ proc' = [proc EXCEPT ![p] = place]
  /\ met' = (met \/ \E q \in Procs \ {p} : InScript(q) /\ place \in Place)
Proceeds(p) == Goes(p, [proc[p] EXCEPT !.i = @ + 1])
Fails(p)    == Goes(p, Failed)

-----------------------------------------------------------------------------
\* A process starts: schema_version is created if need be and read.
Start(p) ==
  /\ proc[p] \in {Off, Failed}
  /\ already' = [already EXCEPT ![p] = versions]
  /\ Goes(p, NextPlace(p, 0))
  /\ UNCHANGED <<old, new, versions, stored, torn>>

\* 0001: CREATE TABLE IF NOT EXISTS, the old form of the table among them.
CreateTables(p) ==
  /\ At(p, "tables")
  /\ old' = IF old.there THEN old ELSE [NoTable EXCEPT !.there = TRUE]
  /\ Proceeds(p)
  /\ UNCHANGED <<new, versions, already, stored, torn>>

(* Mutant of DropNew: the leftover of an earlier attempt is not dropped. *)
DropNewMissing(p) ==
  /\ At(p, "drop_new")
  /\ Proceeds(p)
  /\ UNCHANGED <<old, new, versions, already, stored, torn>>

\* 0002: DROP TABLE IF EXISTS plex_media_files_new.
DropNew(p) ==
  /\ At(p, "drop_new")
  /\ new' = NoTable
  /\ Proceeds(p)
  /\ UNCHANGED <<old, versions, already, stored, torn>>

CreateNew(p) ==
  /\ At(p, "create")
  /\ IF new.there
     THEN Fails(p) /\ UNCHANGED new
     ELSE Proceeds(p) /\ new' = [there |-> TRUE, parts |-> TRUE, rows |-> {}]
  /\ UNCHANGED <<old, versions, already, stored, torn>>

\* INSERT .. SELECT: it fails without the tables, and on ids that are there.
Copy(p) ==
  /\ At(p, "copy")
  /\ IF old.there /\ new.there /\ old.rows \cap new.rows = {}
     THEN Proceeds(p) /\ new' = [new EXCEPT !.rows = @ \cup old.rows]
     ELSE Fails(p) /\ UNCHANGED new
  /\ UNCHANGED <<old, versions, already, stored, torn>>

DropOld(p) ==
  /\ At(p, "drop_old")
  /\ IF old.there THEN Proceeds(p) /\ old' = NoTable ELSE Fails(p) /\ UNCHANGED old
  /\ UNCHANGED <<new, versions, already, stored, torn>>

Rename(p) ==
  /\ At(p, "rename")
  /\ IF new.there /\ ~old.there
     THEN Proceeds(p) /\ old' = new /\ new' = NoTable
     ELSE Fails(p) /\ UNCHANGED <<old, new>>
  /\ UNCHANGED <<versions, already, stored, torn>>

\* CREATE INDEX IF NOT EXISTS on the table, and 0003.
CreateRest(p) ==
  /\ At(p, "index") \/ At(p, "snapshots")
  /\ IF At(p, "index") /\ ~old.there THEN Fails(p) ELSE Proceeds(p)
  /\ UNCHANGED <<old, new, versions, already, stored, torn>>

\* The row of schema_version; its key is the version.
Record(p) ==
  /\ InScript(p) /\ proc[p].i = Len(Script[proc[p].v]) + 1
  /\ UNCHANGED already
  /\ IF proc[p].v \in versions
     THEN Fails(p) /\ UNCHANGED versions
     ELSE Goes(p, NextPlace(p, proc[p].v)) /\ versions' = versions \cup {proc[p].v}
  /\ UNCHANGED <<old, new, stored, torn>>

\* A run of an application that is up stores a row.
Store(p) ==
  /\ proc[p] = Up /\ old.parts
  /\ \E r \in Rows \ old.rows :
       /\ old' = [old EXCEPT !.rows = @ \cup {r}]
       /\ stored' = stored \cup {r}
  /\ UNCHANGED <<new, versions, proc, already, torn, met>>

\* A process ends or dies.
Stop(p) ==
  /\ proc[p] # Off
  /\ torn' = (torn \/ At(p, "rename"))
  /\ Goes(p, Off)
  /\ UNCHANGED <<old, new, versions, already, stored>>

Migrate(p) ==
  \/ CreateTables(p)
  \/ DropNew(p) \/ CreateNew(p) \/ Copy(p) \/ DropOld(p) \/ Rename(p)
  \/ CreateRest(p) \/ Record(p)

-----------------------------------------------------------------------------
\* Wherever a process died but for one place, starting again is safe: no start
\* fails, and what was ever stored is there when nobody is in 0002, in the form
\* that the versions say.  It takes a death between the DROP of the table and
\* the RENAME of its copy, or two processes in their scripts at a time.
RetryIsSafe ==
  torn \/ met \/
    /\ \A p \in Procs : proc[p] # Failed
    /\ (\A p \in Procs : ~InScript(p)) /\ (1 \in versions) => old.there /\ old.rows = stored
    /\ 2 \in versions => old.parts
    /\ (\E p \in Procs : proc[p] = Up) => versions = Versions
=============================================================================
