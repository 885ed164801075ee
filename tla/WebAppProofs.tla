---------------------------- MODULE WebAppProofs ----------------------------
(***************************************************************************)
(* Theorems about WebApp: starting again is safe wherever a process died   *)
(* but for one place; the throttle bounds the guesses within any window,   *)
(* and whoever is locked out has made as many.                             *)
(***************************************************************************)
EXTENDS WebApp, SequenceTheorems, WellFoundedInduction, TLAPS

-----------------------------------------------------------------------------
(* The scripts.                                                            *)

LEMMA ScriptShape ==
  /\ Versions = 1 .. 3
  /\ Len(Script[1]) = 1 /\ Len(Script[2]) = 6 /\ Len(Script[3]) = 1
  /\ Script[1][1] = "tables"
  /\ Script[2][1] = "drop_new" /\ Script[2][2] = "create" /\ Script[2][3] = "copy"
  /\ Script[2][4] = "drop_old" /\ Script[2][5] = "rename" /\ Script[2][6] = "index"
  /\ Script[3][1] = "snapshots"
BY DEF Script, Versions

LEMMA PlaceShape ==
  /\ \A pl \in Place :
       /\ pl = [v |-> pl.v, i |-> pl.i]
       /\ \/ pl.v = 1 /\ pl.i \in 1 .. 2
          \/ pl.v = 2 /\ pl.i \in 1 .. 7
          \/ pl.v = 3 /\ pl.i \in 1 .. 2
  /\ \A i \in 1 .. 2 : [v |-> 1, i |-> i] \in Place /\ [v |-> 3, i |-> i] \in Place
  /\ \A i \in 1 .. 7 : [v |-> 2, i |-> i] \in Place
  /\ {Off, Up, Failed} \cap Place = {}
<1>0. Len(Script[1]) + 1 = 2 /\ Len(Script[2]) + 1 = 7 /\ Len(Script[3]) + 1 = 2
  BY ScriptShape
<1>1. ASSUME NEW pl \in Place
      PROVE  \E v \in 1 .. 3 : \E i \in 1 .. Len(Script[v]) + 1 : pl = [v |-> v, i |-> i]
  BY ScriptShape DEF Place
<1>2. ASSUME NEW v \in 1 .. 3, NEW i \in 1 .. Len(Script[v]) + 1
      PROVE  [v |-> v, i |-> i] \in Place
  BY ScriptShape DEF Place
<1>3. ASSUME NEW pl \in Place
      PROVE  /\ pl = [v |-> pl.v, i |-> pl.i]
             /\ \/ pl.v = 1 /\ pl.i \in 1 .. 2
                \/ pl.v = 2 /\ pl.i \in 1 .. 7
                \/ pl.v = 3 /\ pl.i \in 1 .. 2
  <2>1. PICK v \in 1 .. 3 : \E i \in 1 .. Len(Script[v]) + 1 : pl = [v |-> v, i |-> i]
    BY <1>1
  <2>2. PICK i \in 1 .. Len(Script[v]) + 1 : pl = [v |-> v, i |-> i]
    BY <2>1
  <2>3. pl.v = v /\ pl.i = i /\ pl = [v |-> pl.v, i |-> pl.i]
    BY <2>2
  <2>4. CASE v = 1
    BY <2>3, <2>4, <1>0
  <2>5. CASE v = 2
    BY <2>3, <2>5, <1>0
  <2>6. CASE v = 3
    BY <2>3, <2>6, <1>0
  <2> QED
    BY <2>3, <2>4, <2>5, <2>6
<1>4. \A i \in 1 .. 2 : [v |-> 1, i |-> i] \in Place /\ [v |-> 3, i |-> i] \in Place
  <2>1. 1 \in 1 .. 3 /\ 3 \in 1 .. 3
    OBVIOUS
  <2> QED
    BY <1>0, <1>2, <2>1
<1>5. \A i \in 1 .. 7 : [v |-> 2, i |-> i] \in Place
  <2>1. 2 \in 1 .. 3
    OBVIOUS
  <2> QED
    BY <1>0, <1>2, <2>1
<1>6. {Off, Up, Failed} \cap Place = {}
  BY <1>3 DEF Off, Up, Failed
<1> QED
  BY <1>3, <1>4, <1>5, <1>6

\* Where a statement is.
LEMMA AtShape ==
  ASSUME NEW p, InScript(p)
  PROVE  /\ At(p, "tables") <=> proc[p].v = 1 /\ proc[p].i = 1
         /\ At(p, "drop_new") <=> proc[p].v = 2 /\ proc[p].i = 1
         /\ At(p, "create") <=> proc[p].v = 2 /\ proc[p].i = 2
         /\ At(p, "copy") <=> proc[p].v = 2 /\ proc[p].i = 3
         /\ At(p, "drop_old") <=> proc[p].v = 2 /\ proc[p].i = 4
         /\ At(p, "rename") <=> proc[p].v = 2 /\ proc[p].i = 5
         /\ At(p, "index") <=> proc[p].v = 2 /\ proc[p].i = 6
         /\ At(p, "snapshots") <=> proc[p].v = 3 /\ proc[p].i = 1
<1>1. proc[p] \in Place
  BY DEF InScript
<1>2. DOMAIN Script[1] = 1 .. 1 /\ DOMAIN Script[2] = 1 .. 6 /\ DOMAIN Script[3] = 1 .. 1
  BY DEF Script
<1>3. CASE proc[p].v = 1 /\ proc[p].i \in 1 .. 2
  BY <1>2, <1>3, ScriptShape DEF At, InScript
<1>4. CASE proc[p].v = 2 /\ proc[p].i \in 1 .. 7
  <2>1. proc[p].i \in {1, 2, 3, 4, 5, 6, 7}
    BY <1>4
  <2> QED
    BY <1>2, <1>4, <2>1, ScriptShape DEF At, InScript
<1>5. CASE proc[p].v = 3 /\ proc[p].i \in 1 .. 2
  BY <1>2, <1>5, ScriptShape DEF At, InScript
<1> QED
  BY <1>1, <1>3, <1>4, <1>5, PlaceShape

-----------------------------------------------------------------------------
(* The invariant.                                                          *)

MigTyped ==
  /\ proc \in [Procs -> Place \cup {Off, Up, Failed}]
  /\ already \in [Procs -> SUBSET Versions]
  /\ versions \in SUBSET Versions
  /\ old \in Tables /\ new \in Tables

\* Versions are applied in their order.
InOrder == versions \in {{}, {1}, {1, 2}, {1, 2, 3}}

\* Nobody failed; one process at most is in a script, which is the first that is
\* not recorded; who is up found all of them recorded.
OneAtATime ==
  /\ \A p \in Procs : proc[p] # Failed
  /\ \A p, q \in Procs : InScript(p) /\ InScript(q) => p = q
  /\ \A p \in Procs : already[p] \subseteq versions
  /\ \A p \in Procs : InScript(p) => versions = {v \in Versions : v < proc[p].v}
  /\ \A p \in Procs : proc[p] = Up => versions = Versions

AtRename == \E p \in Procs : InScript(p) /\ proc[p].v = 2 /\ proc[p].i = 5

\* The rows are in the table, but between DROP and RENAME.
RowsAreThere ==
  /\ ~AtRename => old.rows = stored /\ (1 \in versions => old.there)
  /\ ~old.there => old.rows = {}
  /\ 2 \in versions => old.parts

\* What the statements before its own have made of the tables.
Shape(pl) ==
  /\ pl.v = 1 /\ pl.i = 2 => old.there
  /\ pl.v = 2 /\ pl.i = 2 => ~new.there
  /\ pl.v = 2 /\ pl.i = 3 => new = [there |-> TRUE, parts |-> TRUE, rows |-> {}]
  /\ pl.v = 2 /\ pl.i \in {4, 5} => new = [there |-> TRUE, parts |-> TRUE, rows |-> stored]
  /\ pl.v = 2 /\ pl.i = 5 => ~old.there
  /\ pl.v = 2 /\ pl.i \in {6, 7} => old.there /\ old.parts

Orderly ==
  /\ OneAtATime
  /\ RowsAreThere
  /\ \A p \in Procs : InScript(p) => Shape(proc[p])

WebInv == torn \/ met \/ (MigTyped /\ InOrder /\ Orderly)

-----------------------------------------------------------------------------
(* Steps of a script.                                                      *)

LEMMA ScriptPlace ==
  ASSUME MigTyped, NEW p \in Procs
  PROVE  /\ InScript(p) => proc[p].v \in 1 .. 3 /\ proc[p].i \in 1 .. 7
         /\ ~InScript(p) => proc[p] \in {Off, Up, Failed}
         /\ InScript(p) => proc[p] \notin {Off, Up, Failed}
<1>1. CASE proc[p] \in Place
  <2>1. proc[p] \notin {Off, Up, Failed}
    BY <1>1, PlaceShape
  <2>2. proc[p].v \in 1 .. 3 /\ proc[p].i \in 1 .. 7
    BY <1>1, PlaceShape
  <2> QED
    BY <1>1, <2>1, <2>2 DEF InScript
<1>2. CASE proc[p] \notin Place
  BY <1>2 DEF InScript, MigTyped
<1> QED
  BY <1>1, <1>2

\* The step of a process that is the only one in a script and stays in it.
LEMMA OnlyOne ==
  ASSUME MigTyped, OneAtATime, NEW p \in Procs, InScript(p),
         NEW place \in Place, place.v = proc[p].v, Goes(p, place),
         UNCHANGED <<versions, already>>
  PROVE  /\ proc' \in [Procs -> Place \cup {Off, Up, Failed}]
         /\ proc'[p] = place
         /\ \A q \in Procs \ {p} : ~InScript(q) /\ ~InScript(q)'
         /\ OneAtATime'
<1>1. proc'[p] = place /\ \A q \in Procs \ {p} : proc'[q] = proc[q]
  BY DEF Goes, MigTyped
<1>2. proc' \in [Procs -> Place \cup {Off, Up, Failed}]
  BY DEF Goes, MigTyped
<1>3. \A q \in Procs \ {p} : ~InScript(q) /\ ~InScript(q)'
  BY <1>1 DEF InScript, OneAtATime
<1>4. place \notin {Off, Up, Failed}
  BY PlaceShape
<1>5. OneAtATime'
  <2>1. (\A q \in Procs : proc[q] # Failed)'
    BY <1>1, <1>4 DEF OneAtATime
  <2>2. (\A q, r \in Procs : InScript(q) /\ InScript(r) => q = r)'
    BY <1>3
  <2>3. (\A q \in Procs : already[q] \subseteq versions)'
    BY DEF OneAtATime
  <2>4. (\A q \in Procs : InScript(q) => versions = {v \in Versions : v < proc[q].v})'
    BY <1>1, <1>3 DEF OneAtATime
  <2>5. (\A q \in Procs : proc[q] = Up => versions = Versions)'
    BY <1>1, <1>4 DEF OneAtATime
  <2> QED
    BY <2>1, <2>2, <2>3, <2>4, <2>5 DEF OneAtATime
<1> QED
  BY <1>1, <1>2, <1>3, <1>5

LEMMA Proceeding ==
  ASSUME MigTyped, OneAtATime, NEW p \in Procs, InScript(p),
         proc[p].v \in {1, 3} => proc[p].i = 1, proc[p].v = 2 => proc[p].i < 7,
         Proceeds(p), UNCHANGED <<versions, already>>
  PROVE  /\ proc' \in [Procs -> Place \cup {Off, Up, Failed}]
         /\ proc'[p].v = proc[p].v /\ proc'[p].i = proc[p].i + 1
         /\ \A q \in Procs \ {p} : ~InScript(q) /\ ~InScript(q)'
         /\ OneAtATime'
<1> DEFINE place == [proc[p] EXCEPT !.i = @ + 1]
<1>1. /\ proc[p] = [v |-> proc[p].v, i |-> proc[p].i]
      /\ \/ proc[p].v = 1 /\ proc[p].i \in 1 .. 2
         \/ proc[p].v = 2 /\ proc[p].i \in 1 .. 7
         \/ proc[p].v = 3 /\ proc[p].i \in 1 .. 2
  BY PlaceShape DEF InScript
<1>2. place = [v |-> proc[p].v, i |-> proc[p].i + 1]
  BY <1>1
<1>3. place \in Place
  BY <1>1, <1>2, PlaceShape
<1>4. place.v = proc[p].v /\ place.i = proc[p].i + 1
  BY <1>2
<1>5. Goes(p, place)
  BY DEF Proceeds
<1> QED
  BY <1>3, <1>4, <1>5, OnlyOne

\* Where a process goes when the versions up to n are recorded.
LEMMA NextShape ==
  ASSUME NEW p, NEW n \in 0 .. 3, NEW after \in 0 .. 3, after <= n,
         \A v \in 1 .. 3 : v > n => v \notin already'[p],
         \A v \in 1 .. 3 : v <= n /\ v > after => v \in already'[p]
  PROVE  IF n = 3 THEN NextPlace(p, after) = Up
                  ELSE NextPlace(p, after) = [v |-> n + 1, i |-> 1]
<1> DEFINE pending == {v \in Versions : v > after /\ v \notin already'[p]}
<1>1. pending = {v \in 1 .. 3 : v > n}
  BY ScriptShape
<1>2. CASE n = 3
  <2>1. pending = {}
    BY <1>1, <1>2
  <2> QED
    BY <1>2, <2>1 DEF NextPlace
<1>3. CASE n # 3
  <2>1. n + 1 \in pending /\ \A w \in pending : n + 1 <= w /\ w \in Nat
    BY <1>1, <1>3
  <2>2. Least(pending) = n + 1
    <3> HIDE DEF pending
    <3>1. \A m \in pending : (\A w \in pending : m <= w) => m = n + 1
      BY <2>1
    <3> QED
      BY <2>1, <3>1 DEF Least
  <2> QED
    BY <1>3, <2>1, <2>2 DEF NextPlace
<1> QED
  BY <1>2, <1>3

-----------------------------------------------------------------------------
(* Every step keeps the order, unless a process dies at the rename or two   *)
(* of them are in their scripts.                                           *)

LEMMA MigrateKeeps ==
  ASSUME MigTyped, InOrder, Orderly, NEW p \in Procs, Migrate(p), ~met'
  PROVE  MigTyped' /\ InOrder' /\ Orderly' /\ torn' = torn
<1> USE DEF Orderly
<1>0. InScript(p) /\ Shape(proc[p]) /\ (proc[p].v = 2 => 1 \in versions)
  <2>1. InScript(p)
    BY DEF Migrate, CreateTables, DropNew, CreateNew, Copy, DropOld, Rename, CreateRest, Record, At
  <2> QED
    BY <2>1, ScriptShape DEF OneAtATime
<1>1. CASE CreateTables(p)
  <2>1. proc[p].v = 1 /\ proc[p].i = 1
    BY <1>0, <1>1, AtShape DEF CreateTables
  <2>2. /\ proc' \in [Procs -> Place \cup {Off, Up, Failed}]
        /\ proc'[p].v = 1 /\ proc'[p].i = 2
        /\ \A q \in Procs \ {p} : ~InScript(q) /\ ~InScript(q)'
        /\ OneAtATime'
    BY <1>0, <1>1, <2>1, Proceeding DEF CreateTables
  <2>3. versions = {} /\ ~AtRename /\ ~AtRename'
    BY <1>0, <2>1, <2>2, ScriptShape DEF OneAtATime, AtRename
  <2>4. MigTyped' /\ InOrder'
    BY <1>1, <2>2 DEF MigTyped, InOrder, CreateTables, Tables, NoTable
  <2>5. old'.there /\ old'.rows = old.rows /\ RowsAreThere'
    BY <1>1, <2>3 DEF CreateTables, RowsAreThere, MigTyped, Tables, NoTable
  <2>6. \A q \in Procs : InScript(q)' => Shape(proc[q])'
    BY <2>2, <2>5 DEF Shape
  <2> QED
    BY <1>1, <2>2, <2>4, <2>5, <2>6 DEF CreateTables
<1>2. CASE DropNew(p)
  <2>1. proc[p].v = 2 /\ proc[p].i = 1
    BY <1>0, <1>2, AtShape DEF DropNew
  <2>2. /\ proc' \in [Procs -> Place \cup {Off, Up, Failed}]
        /\ proc'[p].v = 2 /\ proc'[p].i = 2
        /\ \A q \in Procs \ {p} : ~InScript(q) /\ ~InScript(q)'
        /\ OneAtATime'
    BY <1>0, <1>2, <2>1, Proceeding DEF DropNew
  <2>3. ~AtRename /\ ~AtRename'
    BY <1>0, <2>1, <2>2 DEF AtRename
  <2>4. MigTyped' /\ InOrder'
    BY <1>2, <2>2 DEF MigTyped, InOrder, DropNew, Tables, NoTable
  <2>5. ~new'.there /\ RowsAreThere'
    BY <1>2, <2>3 DEF DropNew, RowsAreThere, NoTable
  <2>6. \A q \in Procs : InScript(q)' => Shape(proc[q])'
    BY <2>2, <2>5 DEF Shape
  <2> QED
    BY <1>2, <2>2, <2>4, <2>5, <2>6 DEF DropNew
<1>3. CASE CreateNew(p)
  <2>1. proc[p].v = 2 /\ proc[p].i = 2
    BY <1>0, <1>3, AtShape DEF CreateNew
  <2>2. Proceeds(p) /\ new' = [there |-> TRUE, parts |-> TRUE, rows |-> {}]
    BY <1>0, <1>3, <2>1 DEF CreateNew, Shape
  <2>3. /\ proc' \in [Procs -> Place \cup {Off, Up, Failed}]
        /\ proc'[p].v = 2 /\ proc'[p].i = 3
        /\ \A q \in Procs \ {p} : ~InScript(q) /\ ~InScript(q)'
        /\ OneAtATime'
    BY <1>0, <1>3, <2>1, <2>2, Proceeding DEF CreateNew
  <2>4. ~AtRename /\ ~AtRename'
    BY <1>0, <2>1, <2>3 DEF AtRename
  <2>5. MigTyped' /\ InOrder'
    BY <1>3, <2>2, <2>3 DEF MigTyped, InOrder, CreateNew, Tables
  <2>6. RowsAreThere'
    BY <1>3, <2>4 DEF CreateNew, RowsAreThere
  <2>7. \A q \in Procs : InScript(q)' => Shape(proc[q])'
    BY <2>2, <2>3 DEF Shape
  <2> QED
    BY <1>3, <2>3, <2>5, <2>6, <2>7 DEF CreateNew
<1>4. CASE Copy(p)
  <2>1. proc[p].v = 2 /\ proc[p].i = 3
    BY <1>0, <1>4, AtShape DEF Copy
  <2>2. ~AtRename
    BY <1>0, <2>1 DEF AtRename, OneAtATime
  <2>3. new = [there |-> TRUE, parts |-> TRUE, rows |-> {}] /\ old.there /\ old.rows = stored
    BY <1>0, <2>1, <2>2 DEF Shape, RowsAreThere
  <2>4. Proceeds(p) /\ new' = [there |-> TRUE, parts |-> TRUE, rows |-> stored]
    BY <1>4, <2>3 DEF Copy
  <2>5. /\ proc' \in [Procs -> Place \cup {Off, Up, Failed}]
        /\ proc'[p].v = 2 /\ proc'[p].i = 4
        /\ \A q \in Procs \ {p} : ~InScript(q) /\ ~InScript(q)'
        /\ OneAtATime'
    BY <1>0, <1>4, <2>1, <2>4, Proceeding DEF Copy
  <2>6. ~AtRename'
    BY <2>5 DEF AtRename
  <2>7. MigTyped' /\ InOrder'
    BY <1>4, <2>3, <2>4, <2>5 DEF MigTyped, InOrder, Copy, Tables
  <2>8. RowsAreThere'
    BY <1>4, <2>2, <2>6 DEF Copy, RowsAreThere
  <2>9. \A q \in Procs : InScript(q)' => Shape(proc[q])'
    BY <1>4, <2>4, <2>5 DEF Shape, Copy
  <2> QED
    BY <1>4, <2>5, <2>7, <2>8, <2>9 DEF Copy
<1>5. CASE DropOld(p)
  <2>1. proc[p].v = 2 /\ proc[p].i = 4
    BY <1>0, <1>5, AtShape DEF DropOld
  <2>2. ~AtRename
    BY <1>0, <2>1 DEF AtRename, OneAtATime
  <2>3. new = [there |-> TRUE, parts |-> TRUE, rows |-> stored] /\ old.there
    BY <1>0, <2>1, <2>2 DEF Shape, RowsAreThere
  <2>4. Proceeds(p) /\ old' = NoTable
    BY <1>5, <2>3 DEF DropOld
  <2>5. /\ proc' \in [Procs -> Place \cup {Off, Up, Failed}]
        /\ proc'[p].v = 2 /\ proc'[p].i = 5
        /\ \A q \in Procs \ {p} : ~InScript(q) /\ ~InScript(q)'
        /\ OneAtATime'
    BY <1>0, <1>5, <2>1, <2>4, Proceeding DEF DropOld
  <2>6. AtRename' /\ versions = {1}
    <3>1. InScript(p)'
      BY <2>5, ScriptPlace, PlaceShape DEF InScript, Off, Up, Failed
    <3>2. versions = {1}
      BY <1>0, <2>1, ScriptShape DEF OneAtATime
    <3> QED
      BY <2>5, <3>1, <3>2 DEF AtRename
  <2>7. MigTyped' /\ InOrder'
    BY <1>5, <2>4, <2>5 DEF MigTyped, InOrder, DropOld, Tables, NoTable
  <2>8. RowsAreThere'
    BY <1>5, <2>4, <2>6 DEF DropOld, RowsAreThere, NoTable
  <2>9. \A q \in Procs : InScript(q)' => Shape(proc[q])'
    BY <1>5, <2>3, <2>4, <2>5 DEF Shape, DropOld, NoTable
  <2> QED
    BY <1>5, <2>5, <2>7, <2>8, <2>9 DEF DropOld
<1>6. CASE Rename(p)
  <2>1. proc[p].v = 2 /\ proc[p].i = 5
    BY <1>0, <1>6, AtShape DEF Rename
  <2>2. new = [there |-> TRUE, parts |-> TRUE, rows |-> stored] /\ ~old.there
    BY <1>0, <2>1 DEF Shape
  <2>3. Proceeds(p) /\ old' = new /\ new' = NoTable
    BY <1>6, <2>2 DEF Rename
  <2>4. /\ proc' \in [Procs -> Place \cup {Off, Up, Failed}]
        /\ proc'[p].v = 2 /\ proc'[p].i = 6
        /\ \A q \in Procs \ {p} : ~InScript(q) /\ ~InScript(q)'
        /\ OneAtATime'
    BY <1>0, <1>6, <2>1, <2>3, Proceeding DEF Rename
  <2>5. MigTyped' /\ InOrder'
    BY <1>6, <2>2, <2>3, <2>4 DEF MigTyped, InOrder, Rename, Tables, NoTable
  <2>6. RowsAreThere'
    BY <1>6, <2>2, <2>3 DEF Rename, RowsAreThere
  <2>7. \A q \in Procs : InScript(q)' => Shape(proc[q])'
    BY <1>6, <2>2, <2>3, <2>4 DEF Shape, Rename
  <2> QED
    BY <1>6, <2>4, <2>5, <2>6, <2>7 DEF Rename
<1>7. CASE CreateRest(p)
  <2>1. (proc[p].v = 2 /\ proc[p].i = 6) \/ (proc[p].v = 3 /\ proc[p].i = 1)
    BY <1>0, <1>7, AtShape DEF CreateRest
  <2>2. Proceeds(p)
    BY <1>0, <1>7, <2>1, AtShape DEF CreateRest, Shape
  <2>3. /\ proc' \in [Procs -> Place \cup {Off, Up, Failed}]
        /\ proc'[p].v = proc[p].v /\ proc'[p].i = proc[p].i + 1
        /\ \A q \in Procs \ {p} : ~InScript(q) /\ ~InScript(q)'
        /\ OneAtATime'
    BY <1>0, <1>7, <2>1, <2>2, Proceeding DEF CreateRest
  <2>4. ~AtRename /\ ~AtRename'
    BY <1>0, <2>1, <2>3 DEF AtRename
  <2>5. MigTyped' /\ InOrder'
    BY <1>7, <2>3 DEF MigTyped, InOrder, CreateRest
  <2>6. RowsAreThere'
    BY <1>7, <2>4 DEF CreateRest, RowsAreThere
  <2>7. \A q \in Procs : InScript(q)' => Shape(proc[q])'
    BY <1>0, <1>7, <2>1, <2>3 DEF Shape, CreateRest
  <2> QED
    BY <1>7, <2>3, <2>5, <2>6, <2>7 DEF CreateRest
<1>8. CASE Record(p)
  <2> DEFINE n == proc[p].v
  <2>1. n \in 1 .. 3 /\ versions = {v \in 1 .. 3 : v < n} /\ already[p] \subseteq versions
    BY <1>0, ScriptPlace, ScriptShape DEF OneAtATime
  <2>2. Goes(p, NextPlace(p, n)) /\ versions' = versions \cup {n} /\ already' = already
    BY <1>8, <2>1 DEF Record
  <2>3. IF n = 3 THEN NextPlace(p, n) = Up ELSE NextPlace(p, n) = [v |-> n + 1, i |-> 1]
    BY <2>1, <2>2, NextShape
  <2>4. NextPlace(p, n) \in Place \cup {Up} /\ NextPlace(p, n) \notin {Off, Failed}
    <3>1. n = 3 \/ n = 1 \/ n = 2
      BY <2>1
    <3>2. [v |-> 2, i |-> 1] \in Place /\ [v |-> 3, i |-> 1] \in Place
      BY PlaceShape
    <3> QED
      BY <2>3, <3>1, <3>2, PlaceShape DEF Up, Off, Failed
  <2>5. /\ proc'[p] = NextPlace(p, n) /\ \A q \in Procs \ {p} : proc'[q] = proc[q]
        /\ proc' \in [Procs -> Place \cup {Off, Up, Failed}]
    BY <2>2, <2>4 DEF Goes, MigTyped
  <2>6. \A q \in Procs \ {p} : ~InScript(q) /\ ~InScript(q)' /\ proc[q] # Up
    BY <1>0, <2>1, <2>5, ScriptShape DEF InScript, OneAtATime
  <2>7. versions' = {v \in 1 .. 3 : v <= n}
    BY <2>1, <2>2
  <2>8. MigTyped' /\ InOrder'
    <3>1. InOrder'
      BY <2>1, <2>7 DEF InOrder
    <3>2. MigTyped'
      BY <1>8, <2>2, <2>5, <2>7, ScriptShape DEF MigTyped, Record
    <3> QED
      BY <3>1, <3>2
  <2>9. OneAtATime'
    <3>1. (\A q \in Procs : proc[q] # Failed)'
      BY <2>4, <2>5 DEF OneAtATime
    <3>2. (\A q, r \in Procs : InScript(q) /\ InScript(r) => q = r)'
      BY <2>6
    <3>3. (\A q \in Procs : already[q] \subseteq versions)'
      BY <2>2 DEF OneAtATime
    <3>4. (\A q \in Procs : InScript(q) => versions = {v \in Versions : v < proc[q].v})'
      <4>1. CASE n = 3
        <5>1. \A q \in Procs : ~InScript(q)'
          BY <2>3, <2>5, <2>6, <4>1, PlaceShape DEF InScript
        <5> QED
          BY <5>1
      <4>2. CASE n # 3
        <5>1. proc'[p].v = n + 1
          BY <2>3, <2>5, <4>2
        <5>2. versions' = {v \in Versions : v < proc'[p].v}
          BY <2>1, <2>7, <5>1, ScriptShape
        <5> QED
          BY <2>6, <5>2
      <4> QED
        BY <4>1, <4>2
    <3>5. (\A q \in Procs : proc[q] = Up => versions = Versions)'
      <4>1. CASE n = 3
        BY <2>7, <4>1, ScriptShape
      <4>2. CASE n # 3
        BY <2>3, <2>5, <2>6, <4>2, <2>1 DEF Up
      <4> QED
        BY <4>1, <4>2
    <3> QED
      BY <3>1, <3>2, <3>3, <3>4, <3>5 DEF OneAtATime
  <2>10. ~AtRename /\ (2 \in versions' => 2 \in versions \/ n = 2)
    <3>1. proc[p].i = Len(Script[n]) + 1
      BY <1>8 DEF Record
    <3>2. n = 2 => proc[p].i = 7
      <4>1. SUFFICES ASSUME n = 2 PROVE proc[p].i = 7
        OBVIOUS
      <4>2. proc[p].i = Len(Script[2]) + 1
        BY <3>1, <4>1
      <4> QED
        BY <4>2, ScriptShape
    <3> QED
      BY <1>0, <2>2, <2>6, <3>2 DEF AtRename
  <2>11. (1 \in versions' => old.there) /\ (2 \in versions' => old.parts)
    <3>1. proc[p].i = Len(Script[n]) + 1
      BY <1>8 DEF Record
    <3>2. (n = 1 => proc[p].i = 2) /\ (n = 2 => proc[p].i = 7)
      <4>1. (n = 1 => proc[p].i = Len(Script[1]) + 1) /\ (n = 2 => proc[p].i = Len(Script[2]) + 1)
        BY <3>1
      <4> QED
        BY <4>1, ScriptShape
    <3>3. (n = 1 => old.there) /\ (n = 2 => old.parts)
      BY <1>0, <3>2 DEF Shape
    <3> QED
      BY <2>2, <2>10, <3>3 DEF RowsAreThere
  <2>12. RowsAreThere'
    BY <1>8, <2>10, <2>11 DEF RowsAreThere, Record
  <2>13. \A q \in Procs : InScript(q)' => Shape(proc[q])'
    <3>1. InScript(p)' => proc'[p].i = 1 /\ proc'[p].v \in {2, 3}
      BY <2>1, <2>3, <2>5, PlaceShape DEF InScript
    <3> QED
      BY <2>6, <3>1 DEF Shape
  <2> QED
    BY <1>8, <2>8, <2>9, <2>12, <2>13 DEF Record
<1> QED
  BY <1>1, <1>2, <1>3, <1>4, <1>5, <1>6, <1>7, <1>8 DEF Migrate

LEMMA StartKeeps ==
  ASSUME MigTyped, InOrder, Orderly, NEW p \in Procs, Start(p), ~met'
  PROVE  MigTyped' /\ InOrder' /\ Orderly' /\ torn' = torn
<1> USE DEF Orderly
<1>1. PICK n \in 0 .. 3 : versions = {v \in 1 .. 3 : v <= n}
  <2>1. \/ versions = {v \in 1 .. 3 : v <= 0} \/ versions = {v \in 1 .. 3 : v <= 1}
        \/ versions = {v \in 1 .. 3 : v <= 2} \/ versions = {v \in 1 .. 3 : v <= 3}
    BY DEF InOrder
  <2> QED
    BY <2>1
<1> DEFINE place == NextPlace(p, 0)
<1>2. /\ already' = [already EXCEPT ![p] = versions] /\ already'[p] = versions
      /\ Goes(p, place) /\ proc[p] = Off
  BY DEF Start, MigTyped, OneAtATime
<1>3. IF n = 3 THEN place = Up ELSE place = [v |-> n + 1, i |-> 1]
  BY <1>1, <1>2, NextShape
<1>4. place \in Place \cup {Up} /\ place \notin {Off, Failed}
  <2>1. n = 3 \/ n = 0 \/ n = 1 \/ n = 2
    BY <1>1
  <2>2. [v |-> 1, i |-> 1] \in Place /\ [v |-> 2, i |-> 1] \in Place /\ [v |-> 3, i |-> 1] \in Place
    BY PlaceShape
  <2> QED
    BY <1>3, <2>1, <2>2, PlaceShape DEF Up, Off, Failed
<1>5. /\ proc'[p] = place /\ \A q \in Procs \ {p} : proc'[q] = proc[q]
      /\ proc' \in [Procs -> Place \cup {Off, Up, Failed}]
  BY <1>2, <1>4 DEF Goes, MigTyped
<1>6. place \in Place => \A q \in Procs \ {p} : ~InScript(q)
  BY <1>2 DEF Goes
<1>7. ~InScript(p)
  BY <1>2, PlaceShape DEF InScript
<1>8. MigTyped' /\ InOrder'
  BY <1>2, <1>5 DEF MigTyped, InOrder, Start
<1>9. OneAtATime'
  <2>1. (\A q \in Procs : proc[q] # Failed)'
    BY <1>4, <1>5 DEF OneAtATime
  <2>2. (\A q, r \in Procs : InScript(q) /\ InScript(r) => q = r)'
    BY <1>4, <1>5, <1>6 DEF InScript, OneAtATime
  <2>3. (\A q \in Procs : already[q] \subseteq versions)'
    BY <1>2 DEF OneAtATime, Start, MigTyped
  <2>4. (\A q \in Procs : InScript(q) => versions = {v \in Versions : v < proc[q].v})'
    <3>1. CASE n = 3
      BY <1>3, <1>5, <3>1, PlaceShape DEF InScript, OneAtATime, Start
    <3>2. CASE n # 3
      <4>1. proc'[p].v = n + 1
        BY <1>3, <1>5, <3>2
      <4>2. versions' = {v \in Versions : v < proc'[p].v}
        BY <1>1, <4>1, ScriptShape DEF Start
      <4> QED
        BY <1>5, <4>2 DEF InScript, OneAtATime, Start
    <3> QED
      BY <3>1, <3>2
  <2>5. (\A q \in Procs : proc[q] = Up => versions = Versions)'
    <3>1. CASE n = 3
      BY <1>1, <3>1, ScriptShape DEF Start
    <3>2. CASE n # 3
      BY <1>1, <1>3, <1>5, <3>2 DEF Up, OneAtATime, Start
    <3> QED
      BY <3>1, <3>2
  <2> QED
    BY <2>1, <2>2, <2>3, <2>4, <2>5 DEF OneAtATime
<1>10. InScript(p)' => proc'[p].i = 1
  BY <1>3, <1>5, PlaceShape DEF InScript
<1>11. AtRename' <=> AtRename
  BY <1>5, <1>7, <1>10 DEF AtRename, InScript
<1>12. RowsAreThere'
  BY <1>11 DEF RowsAreThere, Start
<1>13. \A q \in Procs : InScript(q)' => Shape(proc[q])'
  <2>1. TAKE q \in Procs
  <2>2. HAVE InScript(q)'
  <2>3. CASE q = p
    <3>1. proc'[p].i = 1
      BY <1>10, <2>2, <2>3
    <3> QED
      BY <2>3, <3>1 DEF Shape
  <2>4. CASE q # p
    <3>1. proc'[q] = proc[q] /\ Shape(proc[q])
      BY <1>5, <2>2, <2>4 DEF InScript
    <3> QED
      BY <3>1 DEF Shape, Start
  <2> QED
    BY <2>3, <2>4
<1> QED
  BY <1>8, <1>9, <1>12, <1>13 DEF Start

LEMMA StoreKeeps ==
  ASSUME MigTyped, InOrder, Orderly, NEW p \in Procs, Store(p)
  PROVE  MigTyped' /\ InOrder' /\ Orderly' /\ torn' = torn
<1> USE DEF Orderly
<1>1. versions = Versions /\ old.parts
  BY DEF Store, OneAtATime
<1>2. \A q \in Procs : ~InScript(q)
  <2>1. TAKE q \in Procs
  <2>2. InScript(q) => proc[q].v \in Versions /\ versions = {v \in Versions : v < proc[q].v}
    BY ScriptPlace, ScriptShape DEF OneAtATime
  <2> QED
    BY <1>1, <2>2, ScriptShape
<1>3. old.rows = stored /\ old.there
  BY <1>1, <1>2, ScriptShape DEF RowsAreThere, AtRename
<1>4. PICK r \in Rows \ old.rows : old' = [old EXCEPT !.rows = @ \cup {r}] /\ stored' = stored \cup {r}
  BY DEF Store
<1>5. /\ old' \in Tables /\ old'.rows = stored' /\ old'.there /\ old'.parts
  BY <1>1, <1>3, <1>4 DEF MigTyped, Tables
<1>6. MigTyped' /\ InOrder'
  BY <1>5 DEF MigTyped, InOrder, Store
<1>7. RowsAreThere'
  BY <1>5 DEF RowsAreThere
<1>8. OneAtATime' /\ \A q \in Procs : ~InScript(q)'
  BY <1>2 DEF OneAtATime, InScript, Store
<1> QED
  BY <1>6, <1>7, <1>8 DEF Store

LEMMA StopKeeps ==
  ASSUME MigTyped, InOrder, Orderly, NEW p \in Procs, Stop(p), ~torn'
  PROVE  MigTyped' /\ InOrder' /\ Orderly'
<1> USE DEF Orderly
<1>1. /\ proc'[p] = Off /\ \A q \in Procs \ {p} : proc'[q] = proc[q]
      /\ proc' \in [Procs -> Place \cup {Off, Up, Failed}]
  BY DEF Stop, Goes, MigTyped
<1>2. ~InScript(p)'
  BY <1>1, PlaceShape DEF InScript
<1>3. ~(InScript(p) /\ proc[p].v = 2 /\ proc[p].i = 5)
  BY AtShape DEF Stop
<1>4. AtRename' <=> AtRename
  BY <1>1, <1>2, <1>3 DEF AtRename, InScript
<1>5. MigTyped' /\ InOrder'
  BY <1>1 DEF MigTyped, InOrder, Stop
<1>6. OneAtATime'
  BY <1>1, <1>2 DEF OneAtATime, InScript, Stop, Off, Up, Failed
<1>7. RowsAreThere'
  BY <1>4 DEF RowsAreThere, Stop
<1>8. \A q \in Procs : InScript(q)' => Shape(proc[q])'
  BY <1>1, <1>2 DEF Shape, InScript, Stop
<1> QED
  BY <1>5, <1>6, <1>7, <1>8

-----------------------------------------------------------------------------
(* The invariant and the theorem.                                          *)

LEMMA InitWebInv ==
  WebInit => WebInv
<1>1. SUFFICES ASSUME MigInit PROVE MigTyped /\ InOrder /\ Orderly
  BY DEF WebInit, WebInv
<1>2. /\ \A p \in Procs : proc[p] = Off /\ already[p] = {} /\ ~InScript(p)
      /\ proc \in [Procs -> Place \cup {Off, Up, Failed}] /\ new = NoTable /\ old.rows = stored
  <2>1. proc = [p \in Procs |-> Off] /\ already = [p \in Procs |-> {}]
    BY <1>1 DEF MigInit
  <2>2. \A p \in Procs : proc[p] = Off /\ already[p] = {}
    BY <2>1
  <2>3. \A p \in Procs : ~InScript(p)
    BY <2>2, PlaceShape DEF InScript
  <2>4. new = NoTable /\ old.rows = stored
    BY <1>1 DEF MigInit
  <2> QED
    BY <2>1, <2>2, <2>3, <2>4
<1>3. \/ old = NoTable /\ versions = {}
      \/ old \in Tables /\ old.there /\ versions = {1}
  <2>1. CASE old = NoTable /\ versions = {}
    BY <2>1
  <2>2. CASE ~(old = NoTable /\ versions = {})
    <3>1. PICK rows \in SUBSET Rows : old = [there |-> TRUE, parts |-> FALSE, rows |-> rows] /\ versions = {1}
      BY <1>1, <2>2 DEF MigInit
    <3> QED
      BY <3>1 DEF Tables
  <2> QED
    BY <2>1, <2>2
<1>4. MigTyped /\ InOrder
  <2>1. already = [p \in Procs |-> {}]
    BY <1>1 DEF MigInit
  <2>2. already \in [Procs -> SUBSET Versions]
    BY <2>1
  <2>3. NoTable \in Tables /\ {1} \subseteq Versions
    BY ScriptShape DEF NoTable, Tables
  <2> QED
    BY <1>2, <1>3, <2>2, <2>3 DEF MigTyped, InOrder
<1>5. OneAtATime
  BY <1>2 DEF OneAtATime, Off, Up, Failed
<1>6. RowsAreThere
  BY <1>2, <1>3 DEF RowsAreThere, NoTable
<1> QED
  BY <1>2, <1>4, <1>5, <1>6 DEF Orderly

LEMMA StepWebInv ==
  WebInv /\ [WebNext]_webVars => WebInv'
<1>1. SUFFICES ASSUME WebInv, [WebNext]_webVars, ~torn', ~met' PROVE WebInv'
  BY DEF WebInv
<1>2. CASE UNCHANGED migVars
  BY <1>1, <1>2
     DEF WebInv, migVars, MigTyped, InOrder, Orderly, OneAtATime, RowsAreThere, AtRename, InScript, Shape
<1>3. ASSUME NEW p \in Procs, Start(p) \/ Migrate(p) \/ Store(p) \/ Stop(p)
      PROVE  WebInv'
  <2>1. (torn => torn') /\ (met => met')
    <3>1. ASSUME NEW place, Goes(p, place)
          PROVE  met => met'
      BY <3>1 DEF Goes
    <3>2. CASE Start(p)
      BY <3>1, <3>2 DEF Start
    <3>3. CASE Stop(p)
      <4>1. torn => torn'
        BY <3>3 DEF Stop
      <4>2. met => met'
        BY <3>1, <3>3 DEF Stop
      <4> QED
        BY <4>1, <4>2
    <3>4. CASE Store(p)
      BY <3>4 DEF Store
    <3>5. CASE CreateTables(p) \/ DropNew(p) \/ CreateNew(p) \/ Copy(p)
      BY <3>1, <3>5 DEF CreateTables, DropNew, CreateNew, Copy, Proceeds, Fails
    <3>6. CASE DropOld(p) \/ Rename(p) \/ CreateRest(p) \/ Record(p)
      BY <3>1, <3>6 DEF DropOld, Rename, CreateRest, Record, Proceeds, Fails
    <3> QED
      BY <1>3, <3>2, <3>3, <3>4, <3>5, <3>6 DEF Migrate
  <2>2. MigTyped /\ InOrder /\ Orderly
    BY <1>1, <2>1 DEF WebInv
  <2> QED
    BY <1>1, <1>3, <2>2, StartKeeps, MigrateKeeps, StoreKeeps, StopKeeps DEF WebInv
<1>4. CASE Migrating
  BY <1>3, <1>4 DEF Migrating
<1>5. CASE Stopping
  BY <1>3, <1>5 DEF Stopping
<1>6. CASE Serving
  BY <1>2, <1>6 DEF Serving
<1> QED
  BY <1>1, <1>2, <1>4, <1>5, <1>6 DEF WebNext, webVars

LEMMA WebInvSuffices ==
  WebInv => RetryIsSafe
BY ScriptShape DEF WebInv, RetryIsSafe, Orderly, OneAtATime, RowsAreThere, AtRename

(* Starting again is safe, whatever statement of a migration a process     *)
(* died at, unless it died between the DROP and the RENAME of 0002 or two  *)
(* processes were in their scripts at a time: no start fails, no stored    *)
(* row is lost, and the tables are in the form that schema_version says    *)
(* (apply_pending in migrations/__init__.py).                              *)
THEOREM RetriesAreSafe ==
  WebSpec => []RetryIsSafe
BY InitWebInv, StepWebInv, WebInvSuffices, PTL DEF WebSpec

-----------------------------------------------------------------------------
(* The throttle.  Moments are kept in the order of their making, so what   *)
(* popleft() in a loop leaves is what is within the window.                *)

\* How many leading moments the loop drops.
Drops(b, age, n) ==
  /\ n \in 0 .. Len(b)
  /\ \A i \in 1 .. n : b[i] > age
  /\ n < Len(b) => b[n + 1] <= age

LEMMA DropsExist ==
  ASSUME NEW b \in Seq(Nat), NEW age \in Nat
  PROVE  \E n : Drops(b, age, n)
<1> DEFINE T == {m \in 0 .. Len(b) : m < Len(b) => b[m + 1] <= age}
<1>0. Len(b) \in Nat /\ DOMAIN b = 1 .. Len(b) /\ \A i \in 1 .. Len(b) : b[i] \in Nat
  OBVIOUS
<1>1. T \subseteq Nat /\ Len(b) \in T
  BY <1>0
<1>2. PICK n \in T : \A m \in T : ~ (<<m, n>> \in OpToRel(<, Nat))
  BY <1>1, NatLessThanWellFounded, WFMin
<1>4. n \in 0 .. Len(b)
  BY <1>2
<1>3. ASSUME NEW i \in 1 .. n PROVE b[i] > age
  <2>1. i - 1 \in Nat /\ i - 1 < n /\ n \in Nat /\ n <= Len(b) /\ i - 1 + 1 = i
    BY <1>0, <1>3, <1>4
  <2>2. i - 1 \notin T
    <3> SUFFICES ASSUME i - 1 \in T PROVE FALSE
      OBVIOUS
    <3>1. <<i - 1, n>> \in Nat \X Nat
      BY <2>1
    <3> HIDE DEF T
    <3> QED
      BY <1>2, <2>1, <3>1 DEF OpToRel
  <2>3. ~(b[i] <= age)
    BY <1>0, <2>1, <2>2
  <2> QED
    BY <1>0, <2>1, <2>3
<1> QED
  BY <1>2, <1>3, <1>4 DEF Drops

LEMMA ShedMeans ==
  ASSUME NEW b \in Seq(Nat), NEW age \in Nat, NEW n, Drops(b, age, n)
  PROVE  /\ Shed(b, age) = SubSeq(b, n + 1, Len(b)) /\ Shed(b, age) \in Seq(Nat)
         /\ Len(Shed(b, age)) = Len(b) - n
         /\ \A i \in 1 .. Len(b) - n : Shed(b, age)[i] = b[n + i]
<1>1. \A m : Drops(b, age, m) => m = n
  BY DEF Drops
<1>2. n = CHOOSE m \in 0 .. Len(b) :
            /\ \A i \in 1 .. m : b[i] > age
            /\ m < Len(b) => b[m + 1] <= age
  BY <1>1 DEF Drops
<1>3. Shed(b, age) = SubSeq(b, n + 1, Len(b))
  BY <1>2, Zenon DEF Shed
<1>4. n \in 0 .. Len(b) /\ Len(b) \in Nat
  BY DEF Drops
<1> QED
  BY <1>3, <1>4

Ordered(b) == \A i, j \in DOMAIN b : i <= j => b[i] >= b[j]

Recent(b) == \A i \in DOMAIN b : b[i] <= Window

LEMMA ShedOrdered ==
  ASSUME NEW b \in Seq(Nat), Ordered(b)
  PROVE  /\ Shed(b, Window) \in Seq(Nat) /\ Len(Shed(b, Window)) <= Len(b)
         /\ Ordered(Shed(b, Window)) /\ Recent(Shed(b, Window))
<1>1. Window \in Nat
  BY ThrottleAssumption
<1>2. PICK n : Drops(b, Window, n)
  BY <1>1, DropsExist
<1> DEFINE s == Shed(b, Window)
<1>3. /\ s \in Seq(Nat) /\ Len(s) = Len(b) - n
      /\ \A i \in 1 .. Len(b) - n : s[i] = b[n + i]
  BY <1>1, <1>2, ShedMeans
<1>4. n \in 0 .. Len(b) /\ Len(b) \in Nat /\ (n < Len(b) => b[n + 1] <= Window)
  BY <1>2 DEF Drops
<1>7. DOMAIN s = 1 .. Len(b) - n /\ DOMAIN b = 1 .. Len(b)
  BY <1>3
<1> HIDE DEF s
<1>5. Ordered(s)
  <2> SUFFICES ASSUME NEW i \in DOMAIN s, NEW j \in DOMAIN s, i <= j PROVE s[i] >= s[j]
    BY DEF Ordered
  <2>1. n + i \in DOMAIN b /\ n + j \in DOMAIN b /\ n + i <= n + j
    BY <1>4, <1>7
  <2>2. b[n + i] >= b[n + j]
    BY <2>1 DEF Ordered
  <2> QED
    BY <1>3, <1>7, <2>2
<1>6. Recent(s)
  <2> SUFFICES ASSUME NEW i \in DOMAIN s PROVE s[i] <= Window
    BY DEF Recent
  <2>0. i \in 1 .. Len(b) - n /\ n \in Nat
    BY <1>4, <1>7
  <2>a. s[i] = b[n + i]
    BY <1>3, <2>0
  <2>b. i \in Nat \ {0} /\ n < Len(b) /\ n + 1 <= n + i /\ n + i <= Len(b)
    BY <1>4, <2>0
  <2>1. i \in 1 .. Len(b) - n /\ s[i] = b[n + i] /\ n < Len(b) /\ n + 1 <= n + i
    BY <2>0, <2>a, <2>b
  <2>2. n + 1 \in DOMAIN b /\ n + i \in DOMAIN b
    BY <1>4, <1>7, <2>1
  <2>3. b[n + 1] >= b[n + i] /\ b[n + 1] \in Nat /\ b[n + i] \in Nat
    BY <2>1, <2>2 DEF Ordered
  <2> QED
    BY <1>1, <1>4, <2>1, <2>3
<1> QED
  BY <1>3, <1>4, <1>5, <1>6 DEF s

LEMMA ShedRecent ==
  ASSUME NEW b \in Seq(Nat), Recent(b)
  PROVE  Shed(b, Window) = b
<1>1. Window \in Nat
  BY ThrottleAssumption
<1>2. Drops(b, Window, 0)
  BY DEF Drops, Recent
<1> QED
  BY <1>1, <1>2, ShedMeans

LEMMA ShedAppend ==
  ASSUME NEW b \in Seq(Nat)
  PROVE  Shed(Append(b, 0), Window) = Append(Shed(b, Window), 0)
<1>1. Window \in Nat
  BY ThrottleAssumption
<1>2. PICK n : Drops(b, Window, n)
  BY <1>1, DropsExist
<1> DEFINE s == Shed(b, Window)
           c == Append(b, 0)
           t == Shed(c, Window)
<1>3. c \in Seq(Nat) /\ Len(c) = Len(b) + 1 /\ c[Len(b) + 1] = 0 /\ \A i \in 1 .. Len(b) : c[i] = b[i]
  OBVIOUS
<1>4. n \in 0 .. Len(b) /\ Len(b) \in Nat
  BY <1>2 DEF Drops
<1> HIDE DEF c
<1>5. Drops(c, Window, n)
  <2>1. n \in 0 .. Len(c) /\ \A i \in 1 .. n : c[i] > Window
    BY <1>2, <1>3, <1>4 DEF Drops
  <2>2. c[n + 1] <= Window
    <3>1. CASE n = Len(b)
      BY <1>1, <1>3, <3>1
    <3>2. CASE n < Len(b)
      <4>1. n + 1 \in 1 .. Len(b) /\ b[n + 1] <= Window
        BY <1>2, <1>4, <3>2 DEF Drops
      <4> QED
        BY <1>3, <4>1
    <3> QED
      BY <1>4, <3>1, <3>2
  <2> QED
    BY <2>1, <2>2 DEF Drops
<1>6. /\ s \in Seq(Nat) /\ Len(s) = Len(b) - n
      /\ \A i \in 1 .. Len(b) - n : s[i] = b[n + i]
  BY <1>1, <1>2, ShedMeans
<1>7. /\ t \in Seq(Nat) /\ Len(t) = Len(c) - n
      /\ \A i \in 1 .. Len(c) - n : t[i] = c[n + i]
  BY <1>1, <1>3, <1>5, ShedMeans
<1> HIDE DEF s, t
<1>8. /\ Append(s, 0) \in Seq(Nat) /\ Len(Append(s, 0)) = Len(s) + 1
      /\ Append(s, 0)[Len(s) + 1] = 0 /\ \A i \in 1 .. Len(s) : Append(s, 0)[i] = s[i]
  BY <1>6
<1>9. Len(Append(s, 0)) = Len(t)
  BY <1>3, <1>4, <1>6, <1>7, <1>8
<1>10. ASSUME NEW i \in 1 .. Len(t) PROVE t[i] = Append(s, 0)[i]
  <2>1. CASE i = Len(t)
    BY <1>3, <1>4, <1>6, <1>7, <1>8, <2>1
  <2>2. CASE i # Len(t)
    <3>1. i \in 1 .. Len(b) - n /\ n + i \in 1 .. Len(b)
      BY <1>3, <1>4, <1>7, <1>10, <2>2
    <3> QED
      BY <1>3, <1>4, <1>6, <1>7, <1>8, <3>1
  <2> QED
    BY <2>1, <2>2
<1>11. t = Append(s, 0)
  BY <1>7, <1>8, <1>9, <1>10, SeqEqual
<1> QED
  BY <1>11 DEF s, t, c

\* A tick later, what was dropped a tick ago would be dropped anyway.
LEMMA OlderMeans ==
  ASSUME NEW b \in Seq(Nat)
  PROVE  /\ Older(b) \in Seq(Nat) /\ Len(Older(b)) = Len(b)
         /\ \A i \in 1 .. Len(b) : /\ Older(b)[i] = IF b[i] > Window THEN Window + 1 ELSE b[i] + 1
                                   /\ Older(b)[i] > Window <=> b[i] >= Window
         /\ Ordered(b) => Ordered(Older(b))
<1>1. Window \in Nat
  BY ThrottleAssumption
<1>2. DOMAIN b = 1 .. Len(b) /\ Len(b) \in Nat /\ \A i \in 1 .. Len(b) : b[i] \in Nat
  OBVIOUS
<1>3. \A i \in 1 .. Len(b) : /\ Older(b)[i] = IF b[i] > Window THEN Window + 1 ELSE b[i] + 1
                             /\ Older(b)[i] > Window <=> b[i] >= Window
                             /\ Older(b)[i] \in Nat
  BY <1>1, <1>2 DEF Older
<1>4. Older(b) \in [1 .. Len(b) -> Nat]
  BY <1>1, <1>2 DEF Older
<1>5. Older(b) \in Seq(Nat) /\ Len(Older(b)) = Len(b)
  BY <1>2, <1>4
<1>6. Ordered(b) => Ordered(Older(b))
  BY <1>1, <1>2, <1>3, <1>4 DEF Ordered
<1> QED
  BY <1>3, <1>5, <1>6

LEMMA ShedOlder ==
  ASSUME NEW b \in Seq(Nat)
  PROVE  Shed(Older(Shed(b, Window)), Window) = Shed(Older(b), Window)
<1>1. Window \in Nat
  BY ThrottleAssumption
<1>2. PICK n : Drops(b, Window, n)
  BY <1>1, DropsExist
<1> DEFINE s == Shed(b, Window)
           o == Older(b)
           p == Older(s)
           x == Shed(p, Window)
           y == Shed(o, Window)
<1>3. /\ s \in Seq(Nat) /\ Len(s) = Len(b) - n
      /\ \A i \in 1 .. Len(b) - n : s[i] = b[n + i]
  BY <1>1, <1>2, ShedMeans
<1>4. /\ o \in Seq(Nat) /\ Len(o) = Len(b)
      /\ \A i \in 1 .. Len(b) : /\ o[i] = IF b[i] > Window THEN Window + 1 ELSE b[i] + 1
                                /\ o[i] > Window <=> b[i] >= Window
  BY OlderMeans
<1>5. /\ p \in Seq(Nat) /\ Len(p) = Len(s)
      /\ \A i \in 1 .. Len(s) : /\ p[i] = IF s[i] > Window THEN Window + 1 ELSE s[i] + 1
                                /\ p[i] > Window <=> s[i] >= Window
  BY <1>3, OlderMeans
<1>6. PICK m : Drops(o, Window, m)
  BY <1>1, <1>4, DropsExist
<1>7. /\ y \in Seq(Nat) /\ Len(y) = Len(o) - m
      /\ \A i \in 1 .. Len(o) - m : y[i] = o[m + i]
  BY <1>1, <1>4, <1>6, ShedMeans
<1> HIDE DEF s, o, p, x, y
<1>8. /\ n \in 0 .. Len(b) /\ Len(b) \in Nat /\ m \in 0 .. Len(b)
      /\ \A i \in 1 .. n : b[i] > Window
      /\ \A i \in 1 .. m : o[i] > Window
      /\ m < Len(b) => o[m + 1] <= Window
      /\ \A i \in 1 .. Len(b) : b[i] \in Nat /\ o[i] \in Nat
  BY <1>2, <1>4, <1>6 DEF Drops
<1>9. n <= m
  <2> SUFFICES ASSUME m < n PROVE FALSE
    BY <1>8
  <2>1. m + 1 \in 1 .. n /\ m + 1 \in 1 .. Len(b) /\ m < Len(b)
    BY <1>8
  <2>2. b[m + 1] > Window /\ o[m + 1] <= Window
    BY <1>8, <2>1
  <2> QED
    BY <1>1, <1>4, <1>8, <2>1, <2>2
<1>10. ASSUME NEW i \in 1 .. Len(b) - n PROVE p[i] = o[n + i]
  <2>1. n + i \in 1 .. Len(b) /\ s[i] = b[n + i] /\ i \in 1 .. Len(s)
    BY <1>3, <1>8
  <2> QED
    BY <1>4, <1>5, <2>1
<1>11. Drops(p, Window, m - n)
  <2>1. m - n \in 0 .. Len(p)
    BY <1>3, <1>5, <1>8, <1>9
  <2>2. ASSUME NEW i \in 1 .. m - n PROVE p[i] > Window
    <3>1. i \in 1 .. Len(b) - n /\ n + i \in 1 .. m
      BY <1>8, <1>9
    <3> QED
      BY <1>8, <1>10, <3>1
  <2>3. ASSUME m - n < Len(p) PROVE p[m - n + 1] <= Window
    <3>1. m < Len(b) /\ m - n + 1 \in 1 .. Len(b) - n /\ n + (m - n + 1) = m + 1
      BY <1>3, <1>5, <1>8, <1>9, <2>3
    <3> QED
      BY <1>8, <1>10, <3>1
  <2> QED
    BY <2>1, <2>2, <2>3 DEF Drops
<1>12. /\ x \in Seq(Nat) /\ Len(x) = Len(p) - (m - n)
       /\ \A i \in 1 .. Len(p) - (m - n) : x[i] = p[(m - n) + i]
  BY <1>1, <1>5, <1>11, ShedMeans DEF x
<1>13. Len(x) = Len(y)
  BY <1>3, <1>4, <1>5, <1>7, <1>8, <1>9, <1>12
<1>14. ASSUME NEW i \in 1 .. Len(y) PROVE x[i] = y[i]
  <2>1. /\ i \in 1 .. Len(o) - m /\ i \in 1 .. Len(p) - (m - n)
        /\ (m - n) + i \in 1 .. Len(b) - n /\ n + ((m - n) + i) = m + i
    BY <1>3, <1>4, <1>5, <1>7, <1>8, <1>9, <1>14
  <2> QED
    BY <1>7, <1>10, <1>12, <2>1
<1>15. x = y
  BY <1>7, <1>12, <1>13, <1>14, SeqEqual
<1> QED
  BY <1>15 DEF x, y, p, s, o

-----------------------------------------------------------------------------
(* A client and what is remembered of him.  While he is free, his bucket    *)
(* holds the passwords found wrong within the window and a few that are    *)
(* older; while he is locked out, it is empty, and the wrong ones, at most *)
(* MaxAttempts, grow older until none is within the window when he is free *)
(* again, since the lockout is the longer one.                             *)

Remembered(bucket, left, bad) ==
  /\ bucket \in Seq(Ages) /\ bad \in Seq(Ages) /\ left \in 0 .. Lockout
  /\ Ordered(bucket) /\ Ordered(bad) /\ Recent(bad)
  /\ left = 0 => bad = Kept(bucket) /\ Len(bad) < MaxAttempts
  /\ left > 0 =>
       /\ bucket = << >> /\ Len(bad) <= MaxAttempts
       /\ \A i \in DOMAIN bad : bad[i] >= Lockout - left
  /\ left = Lockout => Len(bad) >= MaxAttempts

ThrottleInv ==
  /\ attempts \in [Clients -> Seq(Ages)] /\ lockout \in [Clients -> 0 .. Lockout]
  /\ wrong \in [Clients -> Seq(Ages)]
  /\ \A c \in Clients : Remembered(attempts[c], lockout[c], wrong[c])

LEMMA AgesAreNat == Seq(Ages) \subseteq Seq(Nat) /\ Ages \subseteq Nat /\ 0 \in Ages
<1>1. Ages \subseteq Nat /\ 0 \in Ages
  BY ThrottleAssumption DEF Ages
<1>2. ASSUME NEW b \in Seq(Ages) PROVE b \in Seq(Nat)
  <2>1. Len(b) \in Nat /\ DOMAIN b = 1 .. Len(b) /\ b \in [1 .. Len(b) -> Ages]
    OBVIOUS
  <2>2. b \in [1 .. Len(b) -> Nat]
    BY <1>1, <2>1
  <2> QED
    BY <2>1, <2>2
<1> QED
  BY <1>1, <1>2

LEMMA NothingRemembered == Remembered(<< >>, 0, << >>)
<1>1. << >> \in Seq(Ages) /\ << >> \in Seq(Nat) /\ DOMAIN << >> = {} /\ Len(<< >>) = 0
  OBVIOUS
<1>2. Ordered(<< >>) /\ Recent(<< >>)
  BY <1>1 DEF Ordered, Recent
<1>3. Kept(<< >>) = << >>
  BY <1>1, <1>2, ShedRecent DEF Kept
<1> QED
  BY <1>1, <1>2, <1>3, ThrottleAssumption DEF Remembered

LEMMA ShedTyped ==
  ASSUME NEW b \in Seq(Ages), Ordered(b)
  PROVE  /\ Shed(b, Window) \in Seq(Ages) /\ Len(Shed(b, Window)) <= Len(b)
         /\ Ordered(Shed(b, Window)) /\ Recent(Shed(b, Window))
<1> DEFINE s == Shed(b, Window)
<1>1. /\ s \in Seq(Nat) /\ Len(s) <= Len(b) /\ Ordered(s) /\ Recent(s)
  BY AgesAreNat, ShedOrdered
<1> HIDE DEF s
<1>2. \A i \in 1 .. Len(s) : s[i] \in Ages
  BY <1>1, ThrottleAssumption DEF Recent, Ages
<1>3. s \in Seq(Ages)
  BY <1>1, <1>2
<1> QED
  BY <1>1, <1>3 DEF s

LEMMA OlderTyped ==
  ASSUME NEW b \in Seq(Ages), Ordered(b)
  PROVE  Older(b) \in Seq(Ages) /\ Ordered(Older(b)) /\ Len(Older(b)) = Len(b)
<1>1. b \in Seq(Nat)
  BY AgesAreNat
<1>2. /\ Older(b) \in Seq(Nat) /\ Len(Older(b)) = Len(b) /\ Ordered(Older(b))
      /\ \A i \in 1 .. Len(b) : Older(b)[i] = IF b[i] > Window THEN Window + 1 ELSE b[i] + 1
  BY <1>1, OlderMeans
<1>3. \A i \in 1 .. Len(b) : b[i] \in Nat /\ Older(b)[i] \in Ages
  BY <1>1, <1>2, ThrottleAssumption DEF Ages
<1> QED
  BY <1>2, <1>3

\* A tick.
LEMMA TickRemembers ==
  ASSUME NEW b, NEW k, NEW bad, Remembered(b, k, bad)
  PROVE  Remembered(Older(b), IF k = 0 THEN 0 ELSE k - 1, Within(Older(bad)))
<1>1. /\ b \in Seq(Ages) /\ bad \in Seq(Ages) /\ k \in 0 .. Lockout
      /\ Ordered(b) /\ Ordered(bad) /\ Recent(bad)
      /\ b \in Seq(Nat) /\ bad \in Seq(Nat)
  BY AgesAreNat DEF Remembered
<1>2. Lockout \in Nat /\ Window \in Nat /\ Lockout > Window /\ MaxAttempts \in Nat \ {0}
  BY ThrottleAssumption
<1> DEFINE ob == Older(b)
           obad == Older(bad)
           grown == Shed(obad, Window)
<1>3. /\ ob \in Seq(Ages) /\ Ordered(ob) /\ obad \in Seq(Ages) /\ Ordered(obad)
      /\ Len(obad) = Len(bad) /\ obad \in Seq(Nat)
  BY <1>1, OlderTyped, AgesAreNat
<1>4. /\ grown \in Seq(Ages) /\ Ordered(grown) /\ Recent(grown) /\ Len(grown) <= Len(obad)
      /\ grown \in Seq(Nat)
  BY <1>3, ShedTyped, AgesAreNat
<1>5. Within(obad) = grown
  BY DEF Within
<1>6. Len(grown) \in Nat /\ Len(bad) \in Nat
  BY <1>1, <1>4
<1>7. CASE k = 0
  <2>1. bad = Shed(b, Window) /\ Len(bad) < MaxAttempts
    BY <1>7 DEF Remembered, Kept
  <2>2. grown = Shed(ob, Window)
    BY <1>1, <2>1, ShedOlder
  <2>3. Len(grown) < MaxAttempts
    BY <1>2, <1>3, <1>4, <1>6, <2>1
  <2> HIDE DEF ob, obad, grown
  <2> QED
    BY <1>2, <1>3, <1>4, <1>5, <1>7, <2>2, <2>3 DEF Remembered, Kept, ob, obad
<1>8. CASE k > 0
  <2>1. /\ b = << >> /\ Len(bad) <= MaxAttempts
        /\ \A i \in 1 .. Len(bad) : bad[i] >= Lockout - k /\ bad[i] <= Window /\ bad[i] \in Nat
    BY <1>1, <1>8 DEF Remembered, Recent
  <2>2. ob = << >>
    BY <2>1 DEF Older
  <2>3. Len(grown) <= MaxAttempts
    BY <1>2, <1>3, <1>4, <1>6, <2>1
  <2>4. \A i \in 1 .. Len(bad) : obad[i] = bad[i] + 1 /\ obad[i] >= Lockout - (k - 1)
    BY <1>1, <1>2, <2>1, OlderMeans
  <2>5. PICK n : Drops(obad, Window, n)
    BY <1>2, <1>3, DropsExist
  <2>a. Len(obad) = Len(bad) /\ n \in 0 .. Len(obad)
    BY <1>3, <2>5 DEF Drops
  <2> HIDE DEF ob, obad
  <2>b. /\ Len(grown) = Len(obad) - n
        /\ \A i \in 1 .. Len(obad) - n : grown[i] = obad[n + i]
    BY <1>2, <1>3, <2>5, ShedMeans
  <2> HIDE DEF grown
  <2>6. /\ n \in 0 .. Len(bad) /\ Len(grown) = Len(bad) - n
        /\ \A i \in 1 .. Len(bad) - n : grown[i] = obad[n + i]
    BY <2>a, <2>b
  <2>7. \A i \in DOMAIN grown : grown[i] >= Lockout - (k - 1)
    <3> SUFFICES ASSUME NEW i \in 1 .. Len(grown) PROVE grown[i] >= Lockout - (k - 1)
      BY <1>4
    <3>1. n + i \in 1 .. Len(bad) /\ grown[i] = obad[n + i]
      BY <1>6, <2>6
    <3> QED
      BY <2>4, <3>1
  <2>8. CASE k = 1
    <3>1. Len(grown) = 0
      <4> SUFFICES ASSUME Len(grown) # 0 PROVE FALSE
        OBVIOUS
      <4>1. 1 \in DOMAIN grown /\ grown[1] \in Nat
        BY <1>4, <1>6
      <4>2. grown[1] >= Lockout /\ grown[1] <= Window
        BY <1>2, <1>4, <2>7, <2>8, <4>1 DEF Recent
      <4> QED
        BY <1>2, <4>1, <4>2
    <3>2. grown = << >>
      BY <1>4, <3>1
    <3> QED
      BY <1>5, <2>2, <2>8, <3>2, NothingRemembered DEF ob, obad
  <2>9. CASE k > 1
    <3>1. k - 1 \in 0 .. Lockout /\ k - 1 > 0 /\ k - 1 # Lockout /\ k # 0
      BY <1>1, <1>2, <2>9
    <3> QED
      BY <1>3, <1>4, <1>5, <2>2, <2>3, <2>7, <3>1 DEF Remembered, ob, obad
  <2> QED
    BY <1>1, <1>8, <2>8, <2>9
<1> QED
  BY <1>1, <1>7, <1>8

\* A password found wrong.
LEMMA WrongRemembers ==
  ASSUME NEW b, NEW bad, Remembered(b, 0, bad)
  PROVE  LET bucket == Kept(Append(b, 0))
             grown == Append(Within(bad), 0)
         IN /\ bucket \in Seq(Ages) /\ grown \in Seq(Ages)
            /\ Len(bucket) >= MaxAttempts => Remembered(<< >>, Lockout, grown)
            /\ ~(Len(bucket) >= MaxAttempts) => Remembered(bucket, 0, grown)
<1>1. /\ b \in Seq(Ages) /\ bad \in Seq(Ages) /\ b \in Seq(Nat) /\ bad \in Seq(Nat)
      /\ Ordered(b) /\ Ordered(bad) /\ Recent(bad)
      /\ bad = Shed(b, Window) /\ Len(bad) < MaxAttempts
  BY AgesAreNat DEF Remembered, Kept
<1>2. Lockout \in Nat /\ Window \in Nat /\ Lockout > Window /\ MaxAttempts \in Nat \ {0}
  BY ThrottleAssumption
<1> DEFINE grown == Append(bad, 0)
<1>3. Kept(Append(b, 0)) = grown
  BY <1>1, ShedAppend DEF Kept
<1>4. Within(bad) = bad
  BY <1>1, ShedRecent DEF Within
<1>5. /\ grown \in Seq(Ages) /\ grown \in Seq(Nat) /\ Len(grown) = Len(bad) + 1 /\ Len(bad) \in Nat
      /\ DOMAIN grown = 1 .. Len(bad) + 1 /\ DOMAIN bad = 1 .. Len(bad)
      /\ grown[Len(bad) + 1] = 0 /\ \A i \in 1 .. Len(bad) : grown[i] = bad[i] /\ bad[i] \in Nat
  BY <1>1, AgesAreNat
<1> HIDE DEF grown
<1>6. Ordered(grown) /\ Recent(grown)
  <2>1. ASSUME NEW i \in DOMAIN grown, NEW j \in DOMAIN grown, i <= j PROVE grown[i] >= grown[j]
    <3>1. CASE j = Len(bad) + 1
      BY <1>5, <2>1, <3>1
    <3>2. CASE j # Len(bad) + 1
      <4>1. i \in 1 .. Len(bad) /\ j \in 1 .. Len(bad)
        BY <1>5, <2>1, <3>2
      <4> QED
        BY <1>1, <1>5, <2>1, <4>1 DEF Ordered
    <3> QED
      BY <3>1, <3>2
  <2>2. Recent(grown)
    <3> SUFFICES ASSUME NEW i \in DOMAIN grown PROVE grown[i] <= Window
      BY DEF Recent
    <3>1. CASE i = Len(bad) + 1
      BY <1>2, <1>5, <3>1
    <3>2. CASE i # Len(bad) + 1
      <4>1. i \in 1 .. Len(bad)
        BY <1>5, <3>2
      <4> QED
        BY <1>1, <1>5, <4>1 DEF Recent
    <3> QED
      BY <3>1, <3>2
  <2> QED
    BY <2>1, <2>2 DEF Ordered
<1>7. CASE Len(grown) >= MaxAttempts
  <2>1. /\ << >> \in Seq(Ages) /\ Ordered(<< >>) /\ Lockout \in 0 .. Lockout /\ Lockout > 0
        /\ Lockout # 0 /\ Len(grown) <= MaxAttempts
    BY <1>1, <1>2, <1>5, NothingRemembered DEF Remembered
  <2>2. \A i \in DOMAIN grown : grown[i] >= Lockout - Lockout
    BY <1>2, <1>5
  <2>3. Remembered(<< >>, Lockout, grown)
    BY <1>5, <1>6, <1>7, <2>1, <2>2 DEF Remembered
  <2> QED
    BY <1>3, <1>4, <1>5, <1>7, <2>3 DEF grown
<1>8. CASE ~(Len(grown) >= MaxAttempts)
  <2>1. Kept(grown) = grown
    BY <1>5, <1>6, ShedRecent DEF Kept
  <2>2. Len(grown) < MaxAttempts
    BY <1>2, <1>5, <1>8
  <2>3. Remembered(grown, 0, grown)
    BY <1>2, <1>5, <1>6, <2>1, <2>2 DEF Remembered
  <2> QED
    BY <1>3, <1>4, <1>5, <1>8, <2>3 DEF grown
<1> QED
  BY <1>7, <1>8

LEMMA InitThrottleInv == WebInit => ThrottleInv
<1> SUFFICES ASSUME LogInit PROVE ThrottleInv
  BY DEF WebInit
<1>1. << >> \in Seq(Ages) /\ 0 \in 0 .. Lockout
  BY ThrottleAssumption
<1> QED
  BY <1>1, NothingRemembered DEF LogInit, ThrottleInv

LEMMA StepThrottleInv == ThrottleInv /\ [WebNext]_webVars => ThrottleInv'
<1> SUFFICES ASSUME ThrottleInv, [WebNext]_webVars PROVE ThrottleInv'
  OBVIOUS
<1>0. << >> \in Seq(Ages) /\ 0 \in 0 .. Lockout /\ Lockout \in 0 .. Lockout
  BY ThrottleAssumption
<1>1. CASE UNCHANGED logVars
  BY <1>1 DEF logVars, ThrottleInv
<1>2. CASE Forget
  BY <1>0, <1>2, NothingRemembered DEF Forget, ThrottleInv
<1>3. CASE Tick
  <2>1. ASSUME NEW c \in Clients
        PROVE  Remembered(attempts'[c], lockout'[c], wrong'[c])
    <3>1. Remembered(attempts[c], lockout[c], wrong[c])
      BY DEF ThrottleInv
    <3>2. /\ attempts'[c] = Older(attempts[c]) /\ wrong'[c] = Within(Older(wrong[c]))
          /\ lockout'[c] = IF lockout[c] = 0 THEN 0 ELSE lockout[c] - 1
      BY <1>3 DEF Tick
    <3> QED
      BY <3>1, <3>2, TickRemembers
  <2>2. /\ attempts' = [c \in Clients |-> attempts'[c]] /\ wrong' = [c \in Clients |-> wrong'[c]]
        /\ lockout' = [c \in Clients |-> lockout'[c]]
    BY <1>3 DEF Tick
  <2> QED
    BY <2>1, <2>2 DEF ThrottleInv, Remembered
<1>4. ASSUME NEW c \in Clients, WrongPassword(c) PROVE ThrottleInv'
  <2> DEFINE bucket == Kept(Append(attempts[c], 0))
             grown == Append(Within(wrong[c]), 0)
  <2>1. lockout[c] = 0 /\ Remembered(attempts[c], 0, wrong[c])
    BY <1>4 DEF WrongPassword, ThrottleInv
  <2>2. /\ bucket \in Seq(Ages) /\ grown \in Seq(Ages)
        /\ Len(bucket) >= MaxAttempts => Remembered(<< >>, Lockout, grown)
        /\ ~(Len(bucket) >= MaxAttempts) => Remembered(bucket, 0, grown)
    BY <2>1, WrongRemembers
  <2>3. wrong' = [wrong EXCEPT ![c] = grown]
    BY <1>4 DEF WrongPassword
  <2>4. CASE Len(bucket) >= MaxAttempts
    <3>1. attempts' = [attempts EXCEPT ![c] = << >>] /\ lockout' = [lockout EXCEPT ![c] = Lockout]
      BY <1>4, <2>4 DEF WrongPassword
    <3> HIDE DEF bucket, grown
    <3> QED
      BY <1>0, <2>2, <2>3, <2>4, <3>1 DEF ThrottleInv
  <2>5. CASE ~(Len(bucket) >= MaxAttempts)
    <3>1. attempts' = [attempts EXCEPT ![c] = bucket] /\ lockout' = lockout
      BY <1>4, <2>5 DEF WrongPassword
    <3> HIDE DEF bucket, grown
    <3> QED
      BY <1>0, <2>1, <2>2, <2>3, <2>5, <3>1 DEF ThrottleInv
  <2> QED
    BY <2>4, <2>5
<1>5. ASSUME NEW c \in Clients, RightPassword(c) PROVE ThrottleInv'
  BY <1>0, <1>5, NothingRemembered DEF RightPassword, ThrottleInv
<1> QED
  BY <1>1, <1>2, <1>3, <1>4, <1>5 DEF WebNext, Migrating, Stopping, Serving, webVars

\* A client has MaxAttempts guesses within any window, whatever the lockouts and
\* the buckets that are cleared (_record_failure() of routes/login.py).
THEOREM GuessesStayBounded == WebSpec => []GuessesAreBounded
<1>1. ThrottleInv => GuessesAreBounded
  <2> SUFFICES ASSUME ThrottleInv, NEW c \in Clients PROVE Len(Within(wrong[c])) <= MaxAttempts
    BY DEF GuessesAreBounded
  <2>1. Remembered(attempts[c], lockout[c], wrong[c])
    BY DEF ThrottleInv
  <2>2. wrong[c] \in Seq(Nat) /\ Recent(wrong[c]) /\ lockout[c] \in 0 .. Lockout
    BY <2>1, AgesAreNat DEF Remembered
  <2>3. Len(wrong[c]) <= MaxAttempts
    BY <2>1, <2>2, ThrottleAssumption DEF Remembered
  <2> QED
    BY <2>2, <2>3, ShedRecent DEF Within
<1> QED
  BY <1>1, InitThrottleInv, StepThrottleInv, PTL DEF WebSpec

\* A lockout begins with MaxAttempts wrong passwords within a window, and neither
\* a stale one nor one of an earlier lockout among them (_record_failure()).
THEOREM LockoutsAreEarned == WebSpec => []LockoutIsEarned
<1>1. ThrottleInv => LockoutIsEarned
  <2> SUFFICES ASSUME ThrottleInv, NEW c \in Clients, lockout[c] = Lockout
               PROVE  Len(Within(wrong[c])) >= MaxAttempts
    BY DEF LockoutIsEarned
  <2>1. Remembered(attempts[c], lockout[c], wrong[c])
    BY DEF ThrottleInv
  <2>2. wrong[c] \in Seq(Nat) /\ Recent(wrong[c]) /\ Len(wrong[c]) >= MaxAttempts
    BY <2>1, AgesAreNat DEF Remembered
  <2> QED
    BY <2>2, ShedRecent DEF Within
<1> QED
  BY <1>1, InitThrottleInv, StepThrottleInv, PTL DEF WebSpec
=============================================================================
