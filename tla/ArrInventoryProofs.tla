------------------------- MODULE ArrInventoryProofs -------------------------
(***************************************************************************)
(* Theorems about ArrInventory: type correctness; a tombstoned item was    *)
(* missed by a pull that got through its list; an undisturbed pull heals   *)
(* the mirror, files go with their items, and readers see one answer.      *)
(***************************************************************************)
EXTENDS ArrInventory, TLAPS

-----------------------------------------------------------------------------
(* The helpers on tables.                                                  *)

LEMMA UpsertRow ==
  ASSUME NEW t \in Table, NEW i \in Items, NEW r \in Runs
  PROVE  /\ Upsert(t, i, r) \in Table
         /\ Upsert(t, i, r)[i].stamp = r
         /\ ~Upsert(t, i, r)[i].dead
         /\ \A j \in Items : j # i => Upsert(t, i, r)[j] = t[j]
<1>1. [stamp |-> r, dead |-> FALSE] \in Row
  BY ArrAssumption DEF Row, Runs
<1> QED
  BY <1>1 DEF Upsert, Table

LEMMA MarkRow ==
  ASSUME NEW t \in Table, NEW r \in Runs
  PROVE  /\ Mark(t, r) \in Table
         /\ \A i \in Items :
              /\ Mark(t, r)[i].stamp = t[i].stamp
              /\ t[i].stamp \in {0, r} => Mark(t, r)[i] = t[i]
<1>1. ASSUME NEW i \in Items
      PROVE  /\ [t[i] EXCEPT !.dead = TRUE] \in Row
             /\ [t[i] EXCEPT !.dead = TRUE].stamp = t[i].stamp
             /\ t[i] \in Row
  BY DEF Table, Row
<1> QED
  BY <1>1 DEF Mark, Table

-----------------------------------------------------------------------------
(* Type correctness.                                                       *)

LEMMA ArrTypeInit == ArrInit => ArrTypeOK
<1>1. NoRow \in Row
  BY ArrAssumption DEF NoRow, Row
<1> QED
  BY <1>1, ArrAssumption DEF ArrInit, ArrTypeOK, Table, Stages, Runs

LEMMA ArrTypeStep == ArrTypeOK /\ [ArrNext]_arrVars => ArrTypeOK'
<1> SUFFICES ASSUME ArrTypeOK, [ArrNext]_arrVars PROVE ArrTypeOK'
  OBVIOUS
<1>0. CASE UNCHANGED arrVars
  BY <1>0 DEF ArrTypeOK, arrVars
<1>r. ASSUME NEW r \in Runs, RunStep(r) PROVE ArrTypeOK'
  <2> r \in 1 .. MaxRuns /\ r # 0 /\ MaxRuns \in Nat
    BY ArrAssumption DEF Runs
  <2>1. CASE Start(r)
    BY <2>1 DEF Start, GoTo, ArrTypeOK, Stages
  <2>2. CASE Open(r)
    BY <2>2 DEF Open, GoTo, ArrTypeOK, Stages, Runs
  <2>3. CASE List(r)
    BY <2>3 DEF List, GoTo, ArrTypeOK, Stages, Runs
  <2>4. ASSUME NEW i \in Items, UpsertItem(r, i) PROVE ArrTypeOK'
    <3>1. Upsert(draft.items, i, r) \in Table
      BY UpsertRow DEF ArrTypeOK
    <3> QED
      BY <2>4, <3>1 DEF UpsertItem, ArrTypeOK
  <2>5. ASSUME NEW i \in Items, UpsertFiles(r, i) PROVE ArrTypeOK'
    <3>1. Upsert(draft.files, i, r) \in Table
      BY UpsertRow DEF ArrTypeOK
    <3> QED
      BY <2>5, <3>1 DEF UpsertFiles, ArrTypeOK
  <2>6. ASSUME NEW i \in Items, SkipFiles(r, i) PROVE ArrTypeOK'
    BY <2>6 DEF SkipFiles, ArrTypeOK
  <2>7. CASE MarkItems(r)
    <3>1. Mark(draft.items, r) \in Table
      BY MarkRow DEF ArrTypeOK
    <3> QED
      BY <2>7, <3>1 DEF MarkItems, Commit, GoTo, ArrTypeOK, Stages, Runs
  <2>8. CASE MarkFiles(r)
    <3>1. Mark(db.files, r) \in Table
      BY MarkRow DEF ArrTypeOK
    <3> QED
      BY <2>8, <3>1 DEF MarkFiles, Commit, GoTo, ArrTypeOK, Stages, Runs
  <2>9. CASE Seal(r)
    BY <2>9 DEF Seal, GoTo, ArrTypeOK, Stages, Runs
  <2>10. CASE Fail(r)
    BY <2>10 DEF Fail, Commit, GoTo, ArrTypeOK, Stages, Runs
  <2>11. CASE Starve(r)
    BY <2>11 DEF Starve, GoTo, ArrTypeOK, Stages, Runs
  <2>12. CASE Crash(r)
    BY <2>12 DEF Crash, Commit, GoTo, ArrTypeOK, Stages, Runs, Active
  <2> QED
    BY <1>r, <2>1, <2>2, <2>3, <2>4, <2>5, <2>6, <2>7, <2>8, <2>9, <2>10, <2>11, <2>12
    DEF RunStep
<1> QED
  BY <1>0, <1>r DEF ArrNext

\* The types of the mirror and of the runs, and that the holder of the write
\* lock is exactly the run inside its pull (upsert.py over db.py:50).
THEOREM ArrTypeCorrect == ArrSpec => []ArrTypeOK
<1> QED
  BY ArrTypeInit, ArrTypeStep, PTL DEF ArrSpec

-----------------------------------------------------------------------------
(* Tombstoned items have a witness.                                        *)

Witnessed(table) ==
  \A i \in Items : table[i].dead =>
    \E r \in marked : i \notin listed[r] /\ (Undisturbed => r > table[i].stamp)

\* Runs start in order; those that have not are alone so far and stamp nothing.
StartOrder ==
  /\ \A q, r \in Runs : q < r /\ stage[r] # "none" => stage[q] # "none"
  /\ \A r \in Runs : stage[r] = "none" => alone[r]
  /\ \A i \in Items, r \in Runs :
       r \in {db.items[i].stamp, draft.items[i].stamp} => stage[r] # "none"

\* A run in flight that is not the newest is not alone.
OverlapNoticed ==
  \A q, r \in Runs : r \in Active /\ q > r /\ stage[q] # "none" => ~alone[r]

\* A run that has marked its items is past its list.
MarkedIsPast ==
  \A r \in marked : stage[r] \notin {"none", "wait", "open", "pull"}

\* The writer has stamped the listed items that it is done with.
DoneIsStamped ==
  \A r \in Runs : stage[r] = "pull" =>
    \A i \in listed[r] \ todo : draft.items[i].stamp = r

ArrInv ==
  /\ ArrTypeOK
  /\ StartOrder
  /\ OverlapNoticed
  /\ MarkedIsPast
  /\ DoneIsStamped
  /\ Witnessed(db.items)
  /\ Witnessed(draft.items)

LEMMA ArrInvInit == ArrInit => ArrInv
<1> SUFFICES ASSUME ArrInit PROVE ArrInv
  OBVIOUS
<1>1. ArrTypeOK
  BY ArrTypeInit
<1>2. \A i \in Items : ~db.items[i].dead /\ db.items[i].stamp = 0 /\ draft = db
  BY DEF ArrInit, NoRow
<1>3. \A r \in Runs : r # 0 /\ stage[r] = "none" /\ alone[r]
  BY ArrAssumption DEF ArrInit, Runs
<1> QED
  BY <1>1, <1>2, <1>3
  DEF ArrInit, ArrInv, StartOrder, OverlapNoticed, MarkedIsPast, DoneIsStamped,
      Witnessed, Active

LEMMA ArrInvStep == ArrInv /\ [ArrNext]_arrVars => ArrInv'
<1> SUFFICES ASSUME ArrInv, [ArrNext]_arrVars PROVE ArrInv'
  OBVIOUS
<1>t. ArrTypeOK /\ ArrTypeOK'
  BY ArrTypeStep DEF ArrInv
<1>0. CASE UNCHANGED arrVars
  <2>1. Witnessed(db.items)' /\ Witnessed(draft.items)'
    BY <1>0 DEF ArrInv, Witnessed, Undisturbed, arrVars
  <2> QED
    BY <1>0, <1>t, <2>1
    DEF ArrInv, StartOrder, OverlapNoticed, MarkedIsPast, DoneIsStamped, Active, arrVars
<1>r. ASSUME NEW r \in Runs, RunStep(r) PROVE ArrInv'
  <2> DEFINE Rest == StartOrder /\ OverlapNoticed /\ MarkedIsPast /\ DoneIsStamped
             Seen == Witnessed(db.items) /\ Witnessed(draft.items)
  <2> r # 0 /\ r \in Nat /\ MaxRuns \in Nat /\ Runs \subseteq Nat
    BY ArrAssumption DEF Runs
  <2> USE DEF ArrInv
  <2>1. CASE Start(r)
    <3>1. \A q \in Runs : alone'[q] => alone[q]
      BY <2>1, <1>t DEF Start, StartOrder, ArrTypeOK
    <3>2. Seen'
      BY <2>1, <3>1 DEF Start, Witnessed, Undisturbed
    <3>3. StartOrder'
      BY <2>1, <1>t DEF Start, GoTo, StartOrder, ArrTypeOK, Active
    <3>4. OverlapNoticed'
      BY <2>1, <1>t DEF Start, GoTo, StartOrder, OverlapNoticed, ArrTypeOK, Active
    <3>5. MarkedIsPast' /\ DoneIsStamped'
      BY <2>1, <1>t DEF Start, GoTo, MarkedIsPast, DoneIsStamped, ArrTypeOK
    <3> QED
      BY <1>t, <3>2, <3>3, <3>4, <3>5
  <2>2. CASE Open(r)
    <3>1. Seen'
      BY <2>2 DEF Open, Witnessed, Undisturbed
    <3>2. Rest'
      BY <2>2, <1>t
      DEF Open, GoTo, StartOrder, OverlapNoticed, MarkedIsPast, DoneIsStamped, ArrTypeOK, Active
    <3> QED
      BY <1>t, <3>1, <3>2
  <2>3. CASE List(r)
    <3>1. \A q \in marked : listed'[q] = listed[q]
      BY <2>3, <1>t DEF List, MarkedIsPast, ArrTypeOK
    <3>2. Seen'
      BY <2>3, <3>1 DEF List, Witnessed, Undisturbed
    <3>3. StartOrder' /\ OverlapNoticed' /\ MarkedIsPast'
      BY <2>3, <1>t
      DEF List, GoTo, StartOrder, OverlapNoticed, MarkedIsPast, ArrTypeOK, Active
    <3>4. DoneIsStamped'
      <4>1. \A q \in Runs : stage'[q] = "pull" => q = r
        BY <2>3, <1>t DEF List, GoTo, ArrTypeOK
      <4>2. listed'[r] = todo'
        BY <2>3, <1>t DEF List, ArrTypeOK
      <4> QED
        BY <4>1, <4>2 DEF DoneIsStamped
    <3> QED
      BY <1>t, <3>2, <3>3, <3>4
  <2>4. ASSUME NEW i \in Items, UpsertItem(r, i) PROVE ArrInv'
    <3>1. /\ draft'.items[i].stamp = r /\ ~draft'.items[i].dead
          /\ \A j \in Items : j # i => draft'.items[j] = draft.items[j]
      BY <2>4, <1>t, UpsertRow DEF UpsertItem, ArrTypeOK
    <3>2. Witnessed(db.items)'
      BY <2>4 DEF UpsertItem, Witnessed, Undisturbed
    <3>3. Witnessed(draft.items)'
      BY <2>4, <3>1 DEF UpsertItem, Witnessed, Undisturbed
    <3>4. StartOrder'
      BY <2>4, <3>1 DEF UpsertItem, StartOrder
    <3>5. OverlapNoticed' /\ MarkedIsPast'
      BY <2>4 DEF UpsertItem, OverlapNoticed, MarkedIsPast, Active
    <3>6. DoneIsStamped'
      <4>1. \A q \in Runs : stage'[q] = "pull" => q = r
        BY <2>4, <1>t DEF UpsertItem, ArrTypeOK
      <4> QED
        BY <2>4, <1>t, <3>1, <4>1 DEF UpsertItem, DoneIsStamped, ArrTypeOK
    <3> QED
      BY <1>t, <3>2, <3>3, <3>4, <3>5, <3>6
  <2>5. ASSUME NEW i \in Items, UpsertFiles(r, i) PROVE ArrInv'
    <3>1. draft'.items = draft.items
      BY <2>5, <1>t DEF UpsertFiles, ArrTypeOK
    <3>2. Seen'
      BY <2>5, <3>1 DEF UpsertFiles, Witnessed, Undisturbed
    <3>3. Rest'
      BY <2>5, <3>1
      DEF UpsertFiles, StartOrder, OverlapNoticed, MarkedIsPast, DoneIsStamped, Active
    <3> QED
      BY <1>t, <3>2, <3>3
  <2>6. ASSUME NEW i \in Items, SkipFiles(r, i) PROVE ArrInv'
    <3>1. Seen'
      BY <2>6 DEF SkipFiles, Witnessed, Undisturbed
    <3>2. Rest'
      BY <2>6
      DEF SkipFiles, StartOrder, OverlapNoticed, MarkedIsPast, DoneIsStamped, Active
    <3> QED
      BY <1>t, <3>1, <3>2
  <2>7. CASE MarkItems(r)
    <3> DEFINE T == Mark(draft.items, r)
    <3>1. /\ db'.items = T /\ draft'.items = T
          /\ marked' = marked \cup {r}
          /\ stage[r] = "pull" /\ todo = {}
          /\ stage' = [stage EXCEPT ![r] = "files"]
          /\ UNCHANGED <<listed, alone>>
      BY <2>7, <1>t DEF MarkItems, Commit, GoTo, ArrTypeOK
    <3>2. \A i \in Items : /\ T[i].stamp = draft.items[i].stamp
                           /\ draft.items[i].stamp \in {0, r} => T[i] = draft.items[i]
      BY <1>t, MarkRow DEF ArrTypeOK
    <3>3. ASSUME NEW i \in Items, T[i].dead
          PROVE  \E q \in marked' : i \notin listed'[q] /\ (Undisturbed' => q > T[i].stamp)
      <4>1. CASE draft.items[i].stamp \in {0, r}
        <5>1. draft.items[i].dead /\ T[i] = draft.items[i]
          BY <3>2, <3>3, <4>1
        <5> QED
          BY <3>1, <5>1 DEF Witnessed, Undisturbed
      <4>2. CASE draft.items[i].stamp \notin {0, r}
        <5>1. draft.items[i].stamp \in Runs
          BY <1>t, <4>2 DEF ArrTypeOK, Table, Row, Runs
        <5>2. i \notin listed[r]
          BY <3>1, <4>2 DEF DoneIsStamped
        <5>3. stage[draft.items[i].stamp] # "none"
          BY <5>1 DEF StartOrder
        <5>4. Undisturbed => ~(draft.items[i].stamp > r)
          BY <3>1, <5>1, <5>3 DEF Undisturbed, OverlapNoticed, Active
        <5>5. Undisturbed => r > T[i].stamp
          <6> DEFINE s == draft.items[i].stamp
          <6>1. s \in Nat /\ s # r /\ T[i].stamp = s
            BY <3>2, <4>2, <5>1
          <6> HIDE DEF s, T
          <6> QED
            BY <5>4, <6>1 DEF s
        <5>6. r \in marked' /\ i \notin listed'[r] /\ (Undisturbed' => Undisturbed)
          BY <3>1, <5>2 DEF Undisturbed
        <5> HIDE DEF T
        <5> QED
          BY <5>5, <5>6
      <4> QED
        BY <4>1, <4>2
    <3>4. Seen'
      BY <3>1, <3>3 DEF Witnessed
    <3>5. StartOrder'
      BY <3>1, <3>2, <1>t DEF StartOrder, ArrTypeOK
    <3>6. OverlapNoticed' /\ MarkedIsPast'
      BY <3>1, <1>t DEF OverlapNoticed, MarkedIsPast, ArrTypeOK, Active
    <3>7. DoneIsStamped'
      BY <3>1, <1>t DEF DoneIsStamped, ArrTypeOK
    <3> QED
      BY <1>t, <3>4, <3>5, <3>6, <3>7
  <2>8. CASE MarkFiles(r)
    <3>1. db'.items = db.items /\ draft'.items = db.items
      BY <2>8, <1>t DEF MarkFiles, Commit, ArrTypeOK
    <3>2. Seen'
      BY <2>8, <3>1 DEF MarkFiles, Witnessed, Undisturbed
    <3>3. StartOrder' /\ OverlapNoticed' /\ MarkedIsPast'
      BY <2>8, <3>1, <1>t
      DEF MarkFiles, GoTo, StartOrder, OverlapNoticed, MarkedIsPast, ArrTypeOK, Active
    <3>4. DoneIsStamped'
      <4>1. \A q \in Runs : stage'[q] # "pull"
        BY <2>8, <1>t, ArrAssumption DEF MarkFiles, GoTo, ArrTypeOK, Runs
      <4> QED
        BY <4>1 DEF DoneIsStamped
    <3> QED
      BY <1>t, <3>2, <3>3, <3>4
  <2>9. CASE Seal(r)
    <3>1. Seen'
      BY <2>9 DEF Seal, Witnessed, Undisturbed
    <3>2. Rest'
      BY <2>9, <1>t
      DEF Seal, GoTo, StartOrder, OverlapNoticed, MarkedIsPast, DoneIsStamped,
          ArrTypeOK, Active
    <3> QED
      BY <1>t, <3>1, <3>2
  <2>10. CASE Fail(r)
    <3>1. db' = draft /\ draft' = draft
      BY <2>10 DEF Fail, Commit
    <3>2. Seen'
      BY <2>10, <3>1 DEF Fail, Witnessed, Undisturbed
    <3>3. Rest'
      BY <2>10, <3>1, <1>t
      DEF Fail, GoTo, StartOrder, OverlapNoticed, MarkedIsPast, DoneIsStamped,
          ArrTypeOK, Active
    <3> QED
      BY <1>t, <3>2, <3>3
  <2>11. CASE Starve(r)
    <3>1. Seen'
      BY <2>11 DEF Starve, Witnessed, Undisturbed
    <3>2. Rest'
      BY <2>11, <1>t
      DEF Starve, GoTo, StartOrder, OverlapNoticed, MarkedIsPast, DoneIsStamped,
          ArrTypeOK, Active
    <3> QED
      BY <1>t, <3>1, <3>2
  <2>12. CASE Crash(r)
    <3>1. db' = db /\ draft' \in {db, draft}
      BY <2>12 DEF Crash, Commit
    <3>2. Seen'
      BY <2>12, <3>1 DEF Crash, Witnessed, Undisturbed
    <3>3. StartOrder' /\ OverlapNoticed' /\ MarkedIsPast'
      BY <2>12, <3>1, <1>t
      DEF Crash, GoTo, StartOrder, OverlapNoticed, MarkedIsPast, ArrTypeOK, Active
    <3>4. DoneIsStamped'
      <4>1. CASE writer = r
        BY <2>12, <4>1, <1>t DEF Crash, Commit, GoTo, DoneIsStamped, ArrTypeOK
      <4>2. CASE writer # r
        BY <2>12, <4>2, <1>t DEF Crash, GoTo, DoneIsStamped, ArrTypeOK
      <4> QED
        BY <4>1, <4>2
    <3> QED
      BY <1>t, <3>2, <3>3, <3>4
  <2> HIDE DEF ArrInv
  <2> QED
    BY <1>r, <2>1, <2>2, <2>3, <2>4, <2>5, <2>6, <2>7, <2>8, <2>9, <2>10, <2>11, <2>12
    DEF RunStep
<1> HIDE DEF ArrInv
<1> QED
  BY <1>0, <1>r DEF ArrNext

\* DeathHasWitness: whatever fails, dies or overlaps, a tombstoned item was
\* missed by a run that got through its list (arr_sync.py:107, upsert.py:73).
THEOREM TombstonesHaveWitness == ArrSpec => []DeathHasWitness
<1>1. ArrInv => DeathHasWitness
  BY DEF ArrInv, Witnessed, DeathHasWitness
<1> QED
  BY <1>1, ArrInvInit, ArrInvStep, PTL DEF ArrSpec

-----------------------------------------------------------------------------
(* What a pull leaves behind.  While a run pulls, its stamps are on exactly *)
(* the rows it has seen; it keeps the mirror to itself as long as it is     *)
(* alone and the newest, so what it marks is the answer it got.             *)

\* The runs whose stamps are on the rows of an item.
Stamps(i) == {db.items[i].stamp, draft.items[i].stamp, db.files[i].stamp, draft.files[i].stamp}

\* A run has stamped what it has seen of its answer, and nothing before it asked.
ExactFor(r) ==
  /\ filed[r] \subseteq listed[r]
  /\ stage[r] \in {"none", "wait", "open"} =>
       filed[r] = {} /\ \A i \in Items : r \notin Stamps(i)
  /\ stage[r] = "pull" =>
       /\ todo \subseteq listed[r] /\ at \subseteq listed[r] \ todo
       /\ \A i \in Items :
            /\ draft.items[i].stamp = r <=> i \in listed[r] \ todo
            /\ draft.files[i].stamp = r <=> i \in filed[r]
            /\ draft.items[i].stamp = r => ~draft.items[i].dead
            /\ draft.files[i].stamp = r => ~draft.files[i].dead

PullIsExact ==
  /\ \A r \in Runs : ExactFor(r)
  /\ at # {} => \E r \in Runs : stage[r] = "pull"

\* A run that had the mirror to itself found no older run in flight.
SoleInFlight ==
  \A q, r \in Runs : q < r /\ stage[r] # "none" /\ alone[r] => q \notin Active

\* PullHeals on the way: after the items are marked, before and after the files.
HealedInv ==
  \A r \in Runs : alone[r] /\ Newest(r) =>
    /\ stage[r] \in {"files", "seal", "ok"} => Alive(db.items) = listed[r]
    /\ stage[r] = "files" =>
         \A i \in Items : /\ db.files[i].stamp = r <=> i \in filed[r]
                          /\ db.files[i].stamp = r => ~db.files[i].dead
    /\ stage[r] \in {"seal", "ok"} => Alive(db.files) = filed[r]

\* FilesHaveItems at every moment but between the two tombstone transactions.
FilesInv ==
  Undisturbed /\ (\A r \in Runs : stage[r] \notin {"dead", "files"}) =>
    /\ Alive(db.files) \subseteq Alive(db.items)
    /\ Alive(draft.files) \subseteq Alive(draft.items)

MirrorInv == PullIsExact /\ SoleInFlight /\ HealedInv /\ FilesInv /\ ItemsAreOneAnswer


\* A step stamps rows with its own run only.
LEMMA OwnStampOnly ==
  ASSUME ArrTypeOK, NEW r \in Runs, RunStep(r), NEW i \in Items
  PROVE  Stamps(i)' \subseteq Stamps(i) \cup {r}
<1> USE DEF Stamps
<1>1. CASE Start(r) \/ Open(r) \/ List(r) \/ Seal(r) \/ Starve(r)
  BY <1>1 DEF Start, Open, List, Seal, Starve
<1>2. ASSUME NEW j \in Items, UpsertItem(r, j) PROVE Stamps(i)' \subseteq Stamps(i) \cup {r}
  <2>1. draft'.items = Upsert(draft.items, j, r) /\ draft'.files = draft.files /\ db' = db
    BY <1>2 DEF UpsertItem, ArrTypeOK
  <2>2. draft'.items[i].stamp \in {draft.items[i].stamp, r}
    BY <2>1, UpsertRow DEF ArrTypeOK
  <2> QED BY <2>1, <2>2
<1>3. ASSUME NEW j \in Items, UpsertFiles(r, j) PROVE Stamps(i)' \subseteq Stamps(i) \cup {r}
  <2>1. draft'.files = Upsert(draft.files, j, r) /\ draft'.items = draft.items /\ db' = db
    BY <1>3 DEF UpsertFiles, ArrTypeOK
  <2>2. draft'.files[i].stamp \in {draft.files[i].stamp, r}
    BY <2>1, UpsertRow DEF ArrTypeOK
  <2> QED BY <2>1, <2>2
<1>4. ASSUME NEW j \in Items, SkipFiles(r, j) PROVE Stamps(i)' \subseteq Stamps(i) \cup {r}
  BY <1>4 DEF SkipFiles
<1>5. CASE MarkItems(r)
  <2>1. db' = draft' /\ draft'.items = Mark(draft.items, r) /\ draft'.files = draft.files
    BY <1>5 DEF MarkItems, Commit, ArrTypeOK
  <2> QED BY <2>1, MarkRow DEF ArrTypeOK
<1>6. CASE MarkFiles(r)
  <2>1. db' = draft' /\ draft'.files = Mark(db.files, r) /\ draft'.items = db.items
    BY <1>6 DEF MarkFiles, Commit, ArrTypeOK
  <2> QED BY <2>1, MarkRow DEF ArrTypeOK
<1>7. CASE Fail(r)
  BY <1>7 DEF Fail, Commit
<1>8. CASE Crash(r)
  BY <1>8 DEF Crash, Commit
<1> QED BY <1>1, <1>2, <1>3, <1>4, <1>5, <1>6, <1>7, <1>8 DEF RunStep

\* A run acts in flight or starts, and is known from then on.
LEMMA Actor ==
  ASSUME ArrTypeOK, NEW r \in Runs, RunStep(r)
  PROVE  /\ r \in Active \/ (stage[r] = "none" /\ writer = 0)
         /\ stage'[r] # "none"
         /\ \A s \in Runs \ {r} : /\ stage'[s] = stage[s] /\ filed'[s] = filed[s]
                                  /\ listed'[s] = listed[s] /\ (alone'[s] => alone[s])
<1> USE DEF ArrTypeOK, GoTo, Active
<1>0. r # 0
  BY ArrAssumption DEF Runs
<1>1. CASE Start(r)
  BY <1>1 DEF Start
<1>2. CASE Open(r) \/ List(r) \/ MarkItems(r) \/ MarkFiles(r) \/ Seal(r)
  BY <1>2 DEF Open, List, MarkItems, MarkFiles, Seal
<1>3. CASE Fail(r) \/ Starve(r) \/ Crash(r)
  BY <1>3, <1>0 DEF Fail, Starve, Crash
<1>4. ASSUME NEW i \in Items, UpsertItem(r, i) \/ UpsertFiles(r, i) \/ SkipFiles(r, i)
      PROVE  /\ r \in Active /\ stage'[r] # "none"
             /\ \A s \in Runs \ {r} : /\ stage'[s] = stage[s] /\ filed'[s] = filed[s]
                                      /\ listed'[s] = listed[s] /\ (alone'[s] => alone[s])
  BY <1>4 DEF UpsertItem, UpsertFiles, SkipFiles
<1> QED BY <1>1, <1>2, <1>3, <1>4 DEF RunStep

\* What a run does while another has the write lock leaves the tables alone.
LEMMA LockKeepsOut ==
  ASSUME ArrTypeOK, NEW r \in Runs, RunStep(r), writer # 0, writer # r
  PROVE  UNCHANGED <<db, draft, writer, todo, at>>
<1> USE DEF ArrTypeOK
<1>1. CASE Start(r) \/ Open(r) \/ List(r) \/ MarkItems(r) \/ MarkFiles(r) \/ Seal(r)
  BY <1>1 DEF Start, Open, List, MarkItems, MarkFiles, Seal
<1>2. CASE Fail(r) \/ Starve(r) \/ Crash(r)
  BY <1>2 DEF Fail, Starve, Crash
<1>3. ASSUME NEW i \in Items, UpsertItem(r, i) \/ UpsertFiles(r, i) \/ SkipFiles(r, i) PROVE FALSE
  BY <1>3 DEF UpsertItem, UpsertFiles, SkipFiles
<1> QED BY <1>1, <1>2, <1>3 DEF RunStep

\* The acting run leaves what PullIsExact says of the others alone,
LEMMA ExactForOthers ==
  ASSUME ArrTypeOK, PullIsExact, NEW r \in Runs, RunStep(r), NEW s \in Runs \ {r}
  PROVE  ExactFor(s)'
<1>1. stage'[s] = stage[s] /\ filed'[s] = filed[s] /\ listed'[s] = listed[s]
  BY Actor
<1>2. \A i \in Items : s \in Stamps(i)' => s \in Stamps(i)
  BY OwnStampOnly
<1>3. stage[s] = "pull" => UNCHANGED <<draft, todo, at>>
  <2>1. stage[s] = "pull" => writer = s /\ writer # 0
    BY ArrAssumption DEF ArrTypeOK, Runs
  <2> QED BY <2>1, LockKeepsOut
<1>4. CASE stage[s] = "pull"
  BY <1>1, <1>3, <1>4 DEF PullIsExact, ExactFor
<1>5. CASE stage[s] # "pull"
  BY <1>1, <1>2, <1>5 DEF PullIsExact, ExactFor
<1> QED BY <1>4, <1>5

\* and keeps it of itself.
LEMMA ExactForActor ==
  ASSUME ArrTypeOK, PullIsExact, NEW r \in Runs, RunStep(r)
  PROVE  ExactFor(r)'
<1>0. ExactFor(r)
  BY DEF PullIsExact
<1>t. /\ stage \in [Runs -> Stages] /\ filed \in [Runs -> SUBSET Items]
      /\ listed \in [Runs -> SUBSET Items] /\ todo \subseteq Items
      /\ draft \in [items : Table, files : Table]
      /\ (stage[r] \in {"open", "pull"}) <=> (writer = r)
  BY DEF ArrTypeOK
<1> USE DEF GoTo
<1> HIDE DEF Stages
<1>1. CASE Start(r)
  BY <1>0, <1>1, <1>t DEF Start, Stamps, ExactFor
<1>2. CASE Open(r)
  BY <1>0, <1>2, <1>t DEF Open, Stamps, ExactFor
<1>3. CASE List(r)
  <2>1. /\ stage[r] = "open" /\ stage'[r] = "pull" /\ listed'[r] = todo' /\ filed' = filed
        /\ UNCHANGED <<db, draft, at>>
    BY <1>3, <1>t DEF List
  <2>2. at = {}
    <3>1. \A s \in Runs : stage[s] # "pull"
      BY <2>1 DEF ArrTypeOK
    <3> QED BY <3>1 DEF PullIsExact
  <2> QED BY <1>0, <2>1, <2>2 DEF Stamps, ExactFor
<1>4. ASSUME NEW i \in Items, UpsertItem(r, i) PROVE ExactFor(r)'
  <2>1. /\ stage[r] = "pull" /\ stage' = stage /\ at = {} /\ i \in todo
        /\ todo' = todo \ {i} /\ at' = {i} /\ filed' = filed /\ listed' = listed
        /\ draft'.files = draft.files /\ draft'.items = Upsert(draft.items, i, r)
    BY <1>4, <1>t DEF UpsertItem
  <2>2. /\ draft'.items[i].stamp = r /\ ~draft'.items[i].dead
        /\ \A j \in Items : j # i => draft'.items[j] = draft.items[j]
    BY <1>t, <2>1, UpsertRow
  <2> QED BY <1>0, <2>1, <2>2 DEF ExactFor
<1>5. ASSUME NEW i \in Items, UpsertFiles(r, i) PROVE ExactFor(r)'
  <2>1. /\ stage[r] = "pull" /\ stage' = stage /\ at = {i} /\ at' = {}
        /\ todo' = todo /\ filed'[r] = filed[r] \cup {i} /\ listed' = listed
        /\ draft'.items = draft.items /\ draft'.files = Upsert(draft.files, i, r)
    BY <1>5, <1>t DEF UpsertFiles
  <2>2. /\ draft'.files[i].stamp = r /\ ~draft'.files[i].dead
        /\ \A j \in Items : j # i => draft'.files[j] = draft.files[j]
    BY <1>t, <2>1, UpsertRow
  <2> QED BY <1>0, <2>1, <2>2 DEF ExactFor
<1>6. ASSUME NEW i \in Items, SkipFiles(r, i) PROVE ExactFor(r)'
  BY <1>0, <1>6 DEF SkipFiles, ExactFor
<1>7. CASE MarkItems(r) \/ MarkFiles(r) \/ Seal(r) \/ Fail(r) \/ Starve(r) \/ Crash(r)
  <2>1. /\ stage'[r] \notin {"none", "wait", "open", "pull"}
        /\ filed' = filed /\ listed' = listed
    BY <1>7, <1>t DEF MarkItems, MarkFiles, Seal, Fail, Starve, Crash
  <2> QED BY <1>0, <2>1 DEF ExactFor
<1> QED BY <1>1, <1>2, <1>3, <1>4, <1>5, <1>6, <1>7 DEF RunStep

\* So each step keeps PullIsExact,
LEMMA ExactStep ==
  ASSUME ArrTypeOK, ArrTypeOK', PullIsExact, NEW r \in Runs, RunStep(r)
  PROVE  PullIsExact'
<1>1. \A s \in Runs : ExactFor(s)'
  BY ExactForOthers, ExactForActor
<1>2. ASSUME at' # {} PROVE \E s \in Runs : stage'[s] = "pull"
  <2>1. CASE Start(r) \/ Open(r) \/ Seal(r) \/ Starve(r)
    BY <1>2, <2>1 DEF Start, Open, Seal, Starve, GoTo, PullIsExact, ArrTypeOK
  <2>2. CASE List(r)
    BY <1>2, <2>2 DEF List, GoTo, ArrTypeOK
  <2>3. CASE MarkItems(r) \/ MarkFiles(r) \/ Fail(r)
    BY <1>2, <2>3 DEF MarkItems, MarkFiles, Fail, Commit
  <2>4. CASE Crash(r)
    <3>1. writer # r /\ at' = at
      BY <1>2, <2>4 DEF Crash, Commit
    <3> QED BY <1>2, <2>4, <3>1 DEF Crash, GoTo, PullIsExact, ArrTypeOK
  <2>5. ASSUME NEW i \in Items, UpsertItem(r, i) \/ UpsertFiles(r, i) \/ SkipFiles(r, i)
        PROVE  \E s \in Runs : stage'[s] = "pull"
    BY <2>5 DEF UpsertItem, UpsertFiles, SkipFiles
  <2> QED BY <2>1, <2>2, <2>3, <2>4, <2>5 DEF RunStep
<1> QED BY <1>1, <1>2 DEF PullIsExact

\* Nobody else acts while a run that has the mirror to itself is the newest.
LEMMA SoleActor ==
  ASSUME ArrTypeOK, StartOrder, SoleInFlight, NEW r \in Runs, RunStep(r),
         NEW s \in Runs, s # r, stage[s] # "none", alone'[s], Newest(s)'
  PROVE  FALSE
<1>1. r \in Nat /\ s \in Nat
  BY ArrAssumption DEF Runs
<1>2. r < s
  BY <1>1, Actor DEF Newest
<1>3. stage[r] # "none" /\ r \notin Active
  BY <1>2, Actor DEF StartOrder, SoleInFlight
<1> QED BY <1>3, Actor

\* and SoleInFlight,
LEMMA SoleStep ==
  ASSUME ArrTypeOK, ArrTypeOK', StartOrder, SoleInFlight, NEW r \in Runs, RunStep(r)
  PROVE  SoleInFlight'
<1> SUFFICES ASSUME NEW q \in Runs, NEW s \in Runs, q < s, stage'[s] # "none", alone'[s]
             PROVE  q \notin Active'
  BY DEF SoleInFlight
<1>1. CASE Start(r)
  <2>1. /\ stage[r] = "none" /\ stage' = [stage EXCEPT ![r] = "wait"]
        /\ alone'[s] => IF s \in Active THEN FALSE ELSE IF s = r THEN Active = {} ELSE alone[s]
    BY <1>1 DEF Start, GoTo, ArrTypeOK
  <2>2. CASE s = r
    <3>1. q \notin Active
      BY <2>1, <2>2
    <3>2. q # r
      BY <2>2, ArrAssumption DEF Runs
    <3> QED BY <2>1, <3>1, <3>2 DEF Active, ArrTypeOK
  <2>3. CASE s # r
    <3>1. stage[s] # "none" /\ alone[s] /\ q \notin Active
      BY <2>1, <2>3 DEF SoleInFlight, ArrTypeOK
    <3>2. q # r
      BY <2>1, <3>1 DEF StartOrder
    <3> QED BY <2>1, <3>1, <3>2 DEF Active, ArrTypeOK
  <2> QED BY <2>2, <2>3
<1>2. CASE ~Start(r)
  <2>1. r \in Active /\ alone' = alone
    BY <1>2, ArrAssumption DEF RunStep, Open, List, MarkItems, MarkFiles, Seal, Fail, Starve, Crash,
       UpsertItem, UpsertFiles, SkipFiles, Active, ArrTypeOK, Runs
  <2>2. stage[s] # "none"
    BY <2>1, Actor DEF Active
  <2>3. q \notin Active
    BY <2>1, <2>2 DEF SoleInFlight
  <2> QED BY <2>1, <2>3, Actor DEF Active
<1> QED BY <1>1, <1>2

\* What a pull saw is what is alive once it has marked the items.
LEMMA MarkedItems ==
  ASSUME ArrTypeOK, PullIsExact, NEW r \in Runs, MarkItems(r)
  PROVE  Alive(db'.items) = listed[r]
<1>1. db'.items = Mark(draft.items, r) /\ stage[r] = "pull" /\ todo = {}
  BY DEF MarkItems, Commit, ArrTypeOK
<1>2. \A i \in Items : /\ draft.items[i].stamp = r <=> i \in listed[r]
                       /\ draft.items[i].stamp = r => ~draft.items[i].dead
  BY <1>1 DEF PullIsExact, ExactFor
<1>3. draft.items \in Table /\ listed[r] \subseteq Items /\ r # 0
  BY ArrAssumption DEF ArrTypeOK, Runs
<1>4. ASSUME NEW i \in Items
      PROVE  (Mark(draft.items, r)[i].stamp # 0 /\ ~Mark(draft.items, r)[i].dead)
             <=> draft.items[i].stamp = r /\ ~draft.items[i].dead
  <2>1. draft.items[i] \in Row
    BY <1>3 DEF Table
  <2> QED BY <1>3, <2>1 DEF Mark, Row
<1> QED BY <1>1, <1>2, <1>3, <1>4 DEF Alive

\* The same of the files.
LEMMA MarkedFiles ==
  ASSUME ArrTypeOK, NEW r \in Runs, MarkFiles(r),
         \A i \in Items : /\ db.files[i].stamp = r <=> i \in filed[r]
                          /\ db.files[i].stamp = r => ~db.files[i].dead
  PROVE  Alive(db'.files) = filed[r]
<1>1. db'.files = Mark(db.files, r)
  BY DEF MarkFiles, Commit, ArrTypeOK
<1>3. db.files \in Table /\ filed[r] \subseteq Items /\ r # 0
  BY ArrAssumption DEF ArrTypeOK, Runs
<1>4. ASSUME NEW i \in Items
      PROVE  (Mark(db.files, r)[i].stamp # 0 /\ ~Mark(db.files, r)[i].dead)
             <=> db.files[i].stamp = r /\ ~db.files[i].dead
  <2>1. db.files[i] \in Row
    BY <1>3 DEF Table
  <2> QED BY <1>3, <2>1 DEF Mark, Row
<1> QED BY <1>1, <1>3, <1>4 DEF Alive

\* A run in its last stages keeps what it has marked,
LEMMA HealStep ==
  ASSUME ArrTypeOK, StartOrder, SoleInFlight, PullIsExact, HealedInv, NEW r \in Runs, RunStep(r)
  PROVE  HealedInv'
<1> SUFFICES ASSUME NEW s \in Runs, alone'[s], Newest(s)'
             PROVE  /\ stage'[s] \in {"files", "seal", "ok"} => Alive(db'.items) = listed'[s]
                    /\ stage'[s] = "files" =>
                         \A i \in Items : /\ db'.files[i].stamp = s <=> i \in filed'[s]
                                          /\ db'.files[i].stamp = s => ~db'.files[i].dead
                    /\ stage'[s] \in {"seal", "ok"} => Alive(db'.files) = filed'[s]
  BY DEF HealedInv, Alive
<1>1. CASE s # r
  <2>1. stage[s] = "none" /\ stage'[s] = "none"
    BY <1>1, SoleActor, Actor
  <2> QED BY <2>1
<1>2. CASE s = r
  <2>0. stage \in [Runs -> Stages] /\ alone \in [Runs -> BOOLEAN]
    BY DEF ArrTypeOK
  <2>1. ASSUME stage[r] # "none" PROVE Newest(r)
    BY <1>2, Actor DEF Newest
  <2> HIDE DEF Stages
  <2>2. CASE MarkItems(r)
    <3>1. stage'[r] = "files" /\ listed' = listed /\ filed' = filed /\ stage[r] = "pull"
          /\ db'.files = draft.files
      BY <2>0, <2>2 DEF MarkItems, GoTo, Commit, ArrTypeOK
    <3>2. \A i \in Items : /\ db'.files[i].stamp = r <=> i \in filed'[r]
                           /\ db'.files[i].stamp = r => ~db'.files[i].dead
      BY <3>1 DEF PullIsExact, ExactFor
    <3> QED BY <1>2, <2>2, <3>1, <3>2, MarkedItems
  <2>3. CASE MarkFiles(r)
    <3>1. stage'[r] = "seal" /\ listed' = listed /\ filed' = filed /\ stage[r] = "files"
          /\ db'.items = db.items /\ alone' = alone
      BY <2>0, <2>3 DEF MarkFiles, GoTo, Commit, ArrTypeOK
    <3>2. Alive(db.items) = listed[r]
      BY <1>2, <2>1, <3>1 DEF HealedInv
    <3>3. \A i \in Items : /\ db.files[i].stamp = r <=> i \in filed[r]
                           /\ db.files[i].stamp = r => ~db.files[i].dead
      BY <1>2, <2>1, <3>1 DEF HealedInv
    <3> QED BY <1>2, <2>3, <3>1, <3>2, <3>3, MarkedFiles
  <2>4. CASE Seal(r)
    <3>1. stage'[r] = "ok" /\ listed' = listed /\ filed' = filed /\ stage[r] = "seal"
          /\ db' = db /\ alone' = alone
      BY <2>0, <2>4 DEF Seal, GoTo
    <3> QED BY <1>2, <2>1, <3>1 DEF HealedInv
  <2>5. CASE ~MarkItems(r) /\ ~MarkFiles(r) /\ ~Seal(r)
    <3>1. stage'[r] \notin {"files", "seal", "ok"}
      BY <2>0, <2>5, ArrAssumption DEF RunStep, Start, Open, List, Fail, Starve, Crash, UpsertItem, UpsertFiles,
         SkipFiles, GoTo, ArrTypeOK, Runs
    <3> QED BY <1>2, <3>1
  <2> QED BY <2>2, <2>3, <2>4, <2>5
<1> QED BY <1>1, <1>2

\* no step but a death or an overlap leaves a file without its item,
LEMMA FilesStep ==
  ASSUME ArrTypeOK, ArrTypeOK', StartOrder, OverlapNoticed, PullIsExact, PullIsExact', FilesInv, HealedInv',
         NEW r \in Runs, RunStep(r)
  PROVE  FilesInv'
<1> SUFFICES ASSUME Undisturbed', \A s \in Runs : stage'[s] \notin {"dead", "files"}
             PROVE  /\ Alive(db'.files) \subseteq Alive(db'.items)
                    /\ Alive(draft'.files) \subseteq Alive(draft'.items)
  BY DEF FilesInv, Alive
<1>0. stage \in [Runs -> Stages] /\ alone \in [Runs -> BOOLEAN] /\ r # 0
  BY ArrAssumption DEF ArrTypeOK, Runs
<1>1. \A s \in Runs : s # r => alone[s] /\ stage[s] \notin {"dead", "files"}
  BY Actor DEF Undisturbed
<1>2. stage[r] = "none" => alone[r]
  BY DEF StartOrder
<1>3. CASE Start(r)
  <2>1. UNCHANGED <<db, draft>> /\ stage[r] = "none"
    BY <1>3 DEF Start
  <2>2. Undisturbed
    BY <1>1, <1>2, <2>1 DEF Undisturbed
  <2> QED BY <1>1, <2>1, <2>2 DEF FilesInv
<1>4. ASSUME ~Start(r), stage[r] # "files"
      PROVE  /\ Alive(db.files) \subseteq Alive(db.items)
             /\ Alive(draft.files) \subseteq Alive(draft.items)
  <2>1. alone' = alone
    BY <1>4 DEF RunStep, Open, List, MarkItems, MarkFiles, Seal, Fail, Starve, Crash, UpsertItem,
       UpsertFiles, SkipFiles
  <2>2. stage[r] # "dead"
    BY <1>4, Actor DEF Active
  <2> QED BY <1>1, <1>4, <2>1, <2>2 DEF FilesInv, Undisturbed
<1>5. CASE Open(r) \/ List(r) \/ Seal(r)
  BY <1>4, <1>5 DEF Open, List, Seal, Start
<1>6. ASSUME NEW i \in Items, UpsertItem(r, i)
      PROVE  /\ Alive(db'.files) \subseteq Alive(db'.items)
             /\ Alive(draft'.files) \subseteq Alive(draft'.items)
  <2>1. /\ draft'.items = Upsert(draft.items, i, r) /\ draft'.files = draft.files /\ db' = db
        /\ draft.items \in Table
    BY <1>6 DEF UpsertItem, ArrTypeOK
  <2>2. /\ draft'.items[i].stamp # 0 /\ ~draft'.items[i].dead
        /\ \A j \in Items : j # i => draft'.items[j] = draft.items[j]
    BY <1>0, <2>1, UpsertRow
  <2>3. stage[r] = "pull" /\ ~Start(r)
    BY <1>6 DEF UpsertItem, Start
  <2> QED BY <1>4, <2>1, <2>2, <2>3 DEF Alive
<1>7. ASSUME NEW i \in Items, UpsertFiles(r, i)
      PROVE  /\ Alive(db'.files) \subseteq Alive(db'.items)
             /\ Alive(draft'.files) \subseteq Alive(draft'.items)
  <2>1. /\ draft'.files = Upsert(draft.files, i, r) /\ draft'.items = draft.items /\ db' = db
        /\ draft.files \in Table /\ stage[r] = "pull" /\ at = {i} /\ ~Start(r)
    BY <1>7 DEF UpsertFiles, ArrTypeOK, Start
  <2>2. \A j \in Items : j # i => draft'.files[j] = draft.files[j]
    BY <2>1, UpsertRow
  <2>3. i \in Alive(draft.items)
    BY <1>0, <2>1 DEF PullIsExact, ExactFor, Alive
  <2> QED BY <1>4, <2>1, <2>2, <2>3 DEF Alive
<1>8. ASSUME NEW i \in Items, SkipFiles(r, i)
      PROVE  /\ Alive(db'.files) \subseteq Alive(db'.items)
             /\ Alive(draft'.files) \subseteq Alive(draft'.items)
  BY <1>4, <1>8 DEF SkipFiles, Start
<1>9. CASE MarkItems(r) \/ Crash(r)
  BY <1>0, <1>9 DEF MarkItems, Crash, GoTo
<1>10. CASE MarkFiles(r)
  <2>1. /\ stage[r] = "files" /\ stage'[r] = "seal" /\ alone' = alone /\ draft' = db'
        /\ \A s \in Runs \ {r} : stage'[s] = stage[s]
    BY <1>0, <1>10 DEF MarkFiles, GoTo, Commit
  <2>2. Newest(r)'
    BY <2>1, ArrAssumption DEF OverlapNoticed, Undisturbed, Newest, Active, Runs
  <2>3. Alive(db.items)' = listed'[r] /\ Alive(db.files)' = filed'[r]
    BY <2>1, <2>2 DEF HealedInv, Undisturbed
  <2>4. filed'[r] \subseteq listed'[r]
    BY DEF PullIsExact, ExactFor
  <2> QED BY <2>1, <2>3, <2>4 DEF Alive
<1>11. CASE Fail(r)
  BY <1>0, <1>4, <1>11 DEF Fail, Commit, Start, ArrTypeOK
<1>12. CASE Starve(r)
  <2>1. CASE stage[r] = "files"
    <3>1. writer \in Runs /\ writer # 0 /\ writer # r /\ alone' = alone
          /\ writer \in Active /\ r \in Active
      BY <1>12, <2>1, ArrAssumption DEF Starve, ArrTypeOK, Active, Runs
    <3>2. writer < r \/ r < writer
      BY <3>1, ArrAssumption DEF Runs
    <3> QED BY <3>1, <3>2 DEF OverlapNoticed, Undisturbed, Active
  <2>2. CASE stage[r] # "files"
    BY <1>4, <1>12, <2>2 DEF Starve, Start
  <2> QED BY <2>1, <2>2
<1> QED BY <1>3, <1>5, <1>6, <1>7, <1>8, <1>9, <1>10, <1>11, <1>12 DEF RunStep

\* and only the first tombstone statement shows new items to the readers.
LEMMA AnswerStep ==
  ASSUME ArrTypeOK, MarkedIsPast, PullIsExact, ItemsAreOneAnswer, NEW r \in Runs, RunStep(r)
  PROVE  ItemsAreOneAnswer'
<1> SUFFICES ASSUME \A s \in Runs : stage'[s] # "failed"
             PROVE  Alive(db'.items) \in {{}} \cup {listed'[s] : s \in marked'}
  BY DEF ItemsAreOneAnswer, Alive
<1>0. stage \in [Runs -> Stages] /\ listed \in [Runs -> SUBSET Items]
  BY DEF ArrTypeOK
<1>1. \A s \in Runs : stage[s] # "failed"
  BY Actor DEF Active
<1>2. Alive(db.items) \in {{}} \cup {listed[s] : s \in marked}
  BY <1>1 DEF ItemsAreOneAnswer
<1>3. CASE MarkItems(r)
  <2>1. Alive(db'.items) = listed'[r] /\ r \in marked'
    BY <1>3, MarkedItems DEF MarkItems
  <2> QED BY <2>1
<1>4. CASE ~MarkItems(r)
  <2>1. marked' = marked /\ \A s \in marked : listed'[s] = listed[s]
    BY <1>0, <1>4 DEF RunStep, Start, Open, List, MarkFiles, Seal, Fail, Starve, Crash, UpsertItem,
       UpsertFiles, SkipFiles, MarkedIsPast, ArrTypeOK
  <2>2. db'.items = db.items
    BY <1>0, <1>4 DEF RunStep, Start, Open, List, MarkFiles, Seal, Fail, Starve, Crash, UpsertItem,
       UpsertFiles, SkipFiles, Commit, GoTo, ArrTypeOK
  <2> QED BY <1>2, <2>1, <2>2
<1> QED BY <1>3, <1>4

\* The mirror always is as its runs have left it.
LEMMA MirrorInvariant == ArrSpec => [](ArrInv /\ MirrorInv)
<1>1. ArrInit => MirrorInv
  <2> SUFFICES ASSUME ArrInit PROVE MirrorInv
    OBVIOUS
  <2>1. /\ \A i \in Items : Stamps(i) = {0} /\ Alive(db.items) = {} /\ Alive(db.files) = {}
        /\ draft = db /\ at = {} /\ \A r \in Runs : r # 0 /\ stage[r] = "none" /\ filed[r] = {}
    BY ArrAssumption DEF ArrInit, Stamps, NoRow, Alive, Runs
  <2>2. Alive(db.items) = {} /\ Alive(db.files) = {}
    BY DEF ArrInit, NoRow, Alive
  <2>3. SoleInFlight
    BY <2>1 DEF SoleInFlight
  <2> QED BY <2>1, <2>2, <2>3
       DEF MirrorInv, PullIsExact, ExactFor, HealedInv, FilesInv, ItemsAreOneAnswer
<1>2. ArrInv /\ ArrInv' /\ MirrorInv /\ [ArrNext]_arrVars => MirrorInv'
  <2> SUFFICES ASSUME ArrInv, ArrInv', MirrorInv, [ArrNext]_arrVars PROVE MirrorInv'
    OBVIOUS
  <2>1. CASE UNCHANGED arrVars
    BY <2>1 DEF arrVars, MirrorInv, PullIsExact, ExactFor, Stamps, SoleInFlight, Active, HealedInv,
       Newest, Alive, FilesInv, Undisturbed, ItemsAreOneAnswer
  <2>2. ASSUME NEW r \in Runs, RunStep(r) PROVE MirrorInv'
    <3>1. PullIsExact'
      BY <2>2, ExactStep DEF ArrInv, MirrorInv
    <3>2. SoleInFlight'
      BY <2>2, SoleStep DEF ArrInv, MirrorInv
    <3>3. HealedInv'
      BY <2>2, HealStep DEF ArrInv, MirrorInv
    <3>4. FilesInv'
      BY <2>2, <3>1, <3>3, FilesStep DEF ArrInv, MirrorInv
    <3>5. ItemsAreOneAnswer'
      BY <2>2, AnswerStep DEF ArrInv, MirrorInv
    <3> QED BY <3>1, <3>2, <3>3, <3>4, <3>5 DEF MirrorInv
  <2> QED BY <2>1, <2>2 DEF ArrNext
<1> QED BY <1>1, <1>2, ArrInvInit, ArrInvStep, PTL DEF ArrSpec

\* PullHeals: whatever earlier runs left in the mirror, a pull that had it to
\* itself and ended well leaves alive exactly what it saw (arr_sync.py:69-150).
THEOREM PullsHeal == ArrSpec => []PullHeals
<1>1. MirrorInv => PullHeals
  BY DEF MirrorInv, HealedInv, PullHeals
<1> QED BY <1>1, MirrorInvariant, PTL

\* FilesHaveItems: between runs, no file is alive whose item is tombstoned,
\* unless a run died or overlapped another.
THEOREM FilesKeepItems == ArrSpec => []FilesHaveItems
<1>1. MirrorInv => FilesHaveItems
  BY DEF MirrorInv, FilesInv, FilesHaveItems, Active
<1> QED BY <1>1, MirrorInvariant, PTL

\* ItemsAreOneAnswer: readers of the mirror never see the mix of two answers,
\* as long as no pull fails: not during a pull, after a crash or under overlap.
THEOREM ReadersSeeOneAnswer == ArrSpec => []ItemsAreOneAnswer
<1>1. MirrorInv => ItemsAreOneAnswer
  BY DEF MirrorInv
<1> QED BY <1>1, MirrorInvariant, PTL
=============================================================================
