--------------------------- MODULE PipelineProofs ---------------------------
(***************************************************************************)
(* What is proved of PlexInventory and of Pipeline: a pull of Plex that    *)
(* ends well heals the mirror, items die and lose their ids only for cause *)
(* (inductive invariant PlexInv), and an item whose copies a run caught is *)
(* judged as the truth would have it (inductive invariant PipeInv).        *)
(*                                                                         *)
(* The pulls inside the pipeline are pulls of PlexInventory, so what holds *)
(* of these holds of those.  An item is judged by its own copies: two sets *)
(* of tables that differ in strangers to it only (Twins) give it the same  *)
(* rows, and the mirror after such a run is the twin of the truth.         *)
(***************************************************************************)
EXTENDS Pipeline, TLAPS

-----------------------------------------------------------------------------
(* The helpers.                                                            *)

ItemRows == [stamp : 0 .. MaxRuns, dead : BOOLEAN, known : BOOLEAN]
FileRows == [stamp : 0 .. MaxRuns, dead : BOOLEAN, real : BOOLEAN]

LEMMA ReplyTypes ==
  /\ Unheard \notin Replies
  /\ \A r \in Replies :
       /\ Outcome(r) \in {"data", "UpstreamError", "ValueError"}
       /\ Outcome(r) = "UpstreamError" => r.last = "refusal" \/ r.glitches = MaxRetries
BY PlexAssumption, RetryAssumption DEF Reply, Unheard, Outcome

LEMMA PartsAreRows ==
  ASSUME NEW k \in Keys, NEW r PROVE FilesOf(k, r) \subseteq PartRows
BY PlexAssumption DEF FilesOf, PartRows

LEMMA KeysOfParts == \A f \in PartRows : f[1] \in Keys
BY DEF PartRows

LEMMA SweptItems ==
  ASSUME NEW t \in Items
  PROVE  /\ Swept(t) \in Items
         /\ \A k \in Keys :
              /\ Swept(t)[k].stamp = t[k].stamp /\ Swept(t)[k].known = t[k].known
              /\ Swept(t)[k].dead <=> t[k].dead \/ t[k].stamp \notin {0, run}
<1>1. ASSUME NEW k \in Keys
      PROVE  /\ t[k] \in ItemRows
             /\ [t[k] EXCEPT !.dead = TRUE] \in ItemRows
             /\ [t[k] EXCEPT !.dead = TRUE].stamp = t[k].stamp
             /\ [t[k] EXCEPT !.dead = TRUE].known = t[k].known
             /\ [t[k] EXCEPT !.dead = TRUE].dead = TRUE
  BY DEF Items, ItemRows
<1> QED
  BY <1>1 DEF Swept, Items, ItemRows

LEMMA SweptFiles ==
  ASSUME NEW t \in Files
  PROVE  /\ Swept(t) \in Files
         /\ \A f \in PartRows :
              /\ Swept(t)[f].stamp = t[f].stamp /\ Swept(t)[f].real = t[f].real
              /\ Swept(t)[f].dead <=> t[f].dead \/ t[f].stamp \notin {0, run}
<1>1. ASSUME NEW f \in PartRows
      PROVE  /\ t[f] \in FileRows
             /\ [t[f] EXCEPT !.dead = TRUE] \in FileRows
             /\ [t[f] EXCEPT !.dead = TRUE].stamp = t[f].stamp
             /\ [t[f] EXCEPT !.dead = TRUE].real = t[f].real
             /\ [t[f] EXCEPT !.dead = TRUE].dead = TRUE
  BY DEF Files, FileRows
<1> QED
  BY <1>1 DEF Swept, Files, FileRows

LEMMA WrittenTables ==
  ASSUME NEW t \in Tables, NEW found \in SUBSET Keys, NEW replies \in [found -> Replies],
         run \in 0 .. MaxRuns
  PROVE  Written(t, found, replies) \in Tables
<1> DEFINE w == Written(t, found, replies)
<1>1. \A k \in found : ItemRow(replies[k]) \in ItemRows
  BY DEF ItemRow, ItemRows
<1>2. \A f \in PartRows : f[1] \in found => FileRow(f[1], replies[f[1]]) \in FileRows
  BY DEF FileRow, FileRows
<1>3. w.items \in Items
  BY <1>1 DEF Written, Items, ItemRows, Tables
<1>4. w.files \in Files
  BY <1>2 DEF Written, Files, FileRows, Tables
<1> QED
  BY <1>3, <1>4 DEF Written, Tables

-----------------------------------------------------------------------------
(* Type correctness.                                                       *)

LEMMA PlexTypeInit == PlexInit => PlexTypeOK
<1> SUFFICES ASSUME PlexInit PROVE PlexTypeOK
  OBVIOUS
<1>1. 0 \in 0 .. MaxRuns /\ 1 \in 1 .. Len(Sections) + 1
  BY PlexAssumption
<1>2. [k \in Keys |-> NoItem] \in Items
  BY <1>1 DEF NoItem, Items
<1>3. [f \in PartRows |-> NoFile] \in Files
  BY <1>1 DEF NoFile, Files
<1> QED
  BY <1>1, <1>2, <1>3 DEF PlexInit, PlexTypeOK, Tables

LEMMA PlexTypeStep == PlexTypeOK /\ [PlexNext]_plexVars => PlexTypeOK'
<1> SUFFICES ASSUME PlexTypeOK, [PlexNext]_plexVars PROVE PlexTypeOK'
  OBVIOUS
<1> USE PlexAssumption
<1>0. CASE UNCHANGED plexVars
  BY <1>0 DEF PlexTypeOK, plexVars
<1>1. CASE StartPull
  BY <1>1 DEF StartPull, PlexTypeOK
<1>2. CASE PullSection
  <2>0. PICK found \in SUBSET Sections[sect] :
          \E replies \in [found -> {r \in Replies : Outcome(r) # "ValueError"}] :
            /\ draft' = Written(draft, found, replies)
            /\ heard' = [k \in Keys |-> IF k \in found THEN replies[k] ELSE heard[k]]
    BY <1>2 DEF PullSection
  <2>1. PICK replies \in [found -> {r \in Replies : Outcome(r) # "ValueError"}] :
          /\ draft' = Written(draft, found, replies)
          /\ heard' = [k \in Keys |-> IF k \in found THEN replies[k] ELSE heard[k]]
    BY <2>0
  <2>2. found \in SUBSET Keys /\ replies \in [found -> Replies]
    BY <1>2 DEF PullSection, PlexTypeOK
  <2>3. draft' \in Tables
    BY <2>1, <2>2, WrittenTables DEF PlexTypeOK
  <2>4. heard' \in [Keys -> Replies \cup {Unheard}]
    BY <2>1, <2>2 DEF PlexTypeOK
  <2> QED
    BY <1>2, <2>3, <2>4 DEF PullSection, PlexTypeOK
<1>3. CASE SweepItems
  <2>1. [draft EXCEPT !.items = Swept(draft.items)] \in Tables
    BY SweptItems DEF Tables, PlexTypeOK
  <2> QED
    BY <1>3, <2>1 DEF SweepItems, Commit, PlexTypeOK
<1>4. CASE SweepFiles
  <2>1. [mirror EXCEPT !.files = Swept(mirror.files)] \in Tables
    BY SweptFiles DEF Tables, PlexTypeOK
  <2> QED
    BY <1>4, <2>1 DEF SweepFiles, Commit, PlexTypeOK
<1>5. CASE FailPull
  BY <1>5 DEF FailPull, Commit, PlexTypeOK
<1>6. CASE CrashPull
  BY <1>6 DEF CrashPull, Commit, PlexTypeOK
<1> QED
  BY <1>0, <1>1, <1>2, <1>3, <1>4, <1>5, <1>6 DEF PlexNext

\* The types of the mirror and of the pull, and that nothing is uncommitted
\* outside a pull (plex_sync.py over db.py:50).
THEOREM PlexTypeCorrect == PlexSpec => []PlexTypeOK
<1> QED
  BY PlexTypeInit, PlexTypeStep, PTL DEF PlexSpec

-----------------------------------------------------------------------------
(* The inductive invariant.                                                *)

\* Rows are stamped by runs that have begun, items heard of are of the sections
\* that the pull is done with, and metadata that cannot be parsed ends it.
StampsAreOld ==
  /\ \A k \in Keys : draft.items[k].stamp <= run /\ mirror.items[k].stamp <= run
  /\ \A f \in PartRows : draft.files[f].stamp <= run /\ mirror.files[f].stamp <= run
  /\ stage # "none" => run # 0
  /\ \A k \in Listed : \E i \in 1 .. sect - 1 : i \in DOMAIN Sections /\ k \in Sections[i]
  /\ \A k \in Listed : Outcome(heard[k]) # "ValueError"

\* A pull on its way has stamped exactly what it heard of, and nothing of it is
\* dead; items that it has not heard of are as they were.
Heard(k) == [stamp |-> run, dead |-> FALSE, known |-> Outcome(heard[k]) = "data"]
Filed(f) == f[1] \in Listed /\ f \in FilesOf(f[1], heard[f[1]])

ItemsAreHeard ==
  stage = "pull" =>
    \A k \in Keys :
      IF k \in Listed THEN draft.items[k] = Heard(k)
      ELSE draft.items[k].stamp # run /\ draft.items[k] = mirror.items[k]

FilesAreHeard ==
  stage \in {"pull", "files"} =>
    \A f \in PartRows :
      IF Filed(f) THEN draft.files[f] = FileRow(f[1], heard[f[1]]) ELSE draft.files[f].stamp # run

ItemsAreSettled ==
  stage = "files" =>
    /\ Alive(mirror.items) = Listed
    /\ \A k \in Listed : mirror.items[k].known <=> Outcome(heard[k]) = "data"

PlexInv ==
  PlexTypeOK /\ StampsAreOld /\ ItemsAreHeard /\ FilesAreHeard /\ ItemsAreSettled /\ PlexPullHeals

LEMMA HeardRow ==
  ASSUME NEW k
  PROVE  /\ Heard(k).stamp = run /\ ~Heard(k).dead
         /\ Heard(k).known <=> Outcome(heard[k]) = "data"
BY DEF Heard

LEMMA FileRowReal ==
  ASSUME NEW k, NEW r PROVE FileRow(k, r).real => Outcome(r) = "data"
BY DEF FileRow

LEMMA PlexInvInit == PlexInit => PlexInv
<1> SUFFICES ASSUME PlexInit PROVE PlexInv
  OBVIOUS
<1>1. PlexTypeOK
  BY PlexTypeInit
<1>2. Listed = {}
  BY DEF PlexInit, Listed
<1>3. StampsAreOld
  BY <1>2 DEF PlexInit, StampsAreOld, NoItem, NoFile
<1> QED
  BY <1>1, <1>3 DEF PlexInit, PlexInv, ItemsAreHeard, FilesAreHeard, ItemsAreSettled, PlexPullHeals

LEMMA PlexInvPull == PlexInv /\ PullSection => PlexInv'
<1> SUFFICES ASSUME PlexInv, PullSection PROVE PlexInv'
  OBVIOUS
<1> USE PlexAssumption
<1>1. PICK found \in SUBSET Sections[sect] :
        \E replies \in [found -> {r \in Replies : Outcome(r) # "ValueError"}] :
          /\ draft' = Written(draft, found, replies)
          /\ heard' = [k \in Keys |-> IF k \in found THEN replies[k] ELSE heard[k]]
  BY DEF PullSection
<1>2. PICK replies \in [found -> {r \in Replies : Outcome(r) # "ValueError"}] :
        /\ draft' = Written(draft, found, replies)
        /\ heard' = [k \in Keys |-> IF k \in found THEN replies[k] ELSE heard[k]]
  BY <1>1
<1>3. /\ stage = "pull" /\ stage' = "pull" /\ run' = run /\ mirror' = mirror
      /\ sect \in DOMAIN Sections /\ sect' = sect + 1 /\ sect \in Nat
  BY DEF PullSection, PlexInv, PlexTypeOK
<1>4. found \in SUBSET Keys /\ replies \in [found -> Replies]
  BY <1>3
<1>5. PlexTypeOK'
  BY PlexTypeStep DEF PlexInv, PlexNext
<1>6. found \cap Listed = {}
  <2> SUFFICES ASSUME NEW k \in Listed, k \in found PROVE FALSE
    OBVIOUS
  <2>1. PICK i \in 1 .. sect - 1 : i \in DOMAIN Sections /\ k \in Sections[i]
    BY DEF PlexInv, StampsAreOld
  <2>2. i # sect /\ k \in Sections[sect]
    BY <1>3
  <2> QED
    BY <1>3, <2>1, <2>2
<1>7. /\ Listed' = Listed \cup found
      /\ \A k \in Keys : heard'[k] = IF k \in found THEN replies[k] ELSE heard[k]
  BY <1>2, <1>4, ReplyTypes DEF Listed
<1>8. /\ \A k \in Keys : draft'.items[k] = IF k \in found THEN ItemRow(replies[k]) ELSE draft.items[k]
      /\ \A f \in PartRows :
           draft'.files[f] = IF f[1] \in found /\ f \in FilesOf(f[1], replies[f[1]])
                             THEN FileRow(f[1], replies[f[1]]) ELSE draft.files[f]
  BY <1>2 DEF Written
<1>9. StampsAreOld'
  <2>1. run \in Nat
    BY DEF PlexInv, PlexTypeOK
  <2>2. ASSUME NEW k \in Keys
        PROVE  draft'.items[k].stamp <= run' /\ mirror'.items[k].stamp <= run'
    <3>1. draft'.items[k].stamp = run \/ draft'.items[k] = draft.items[k]
      <4>1. ItemRow(replies[k]).stamp = run
        BY DEF ItemRow
      <4> QED
        BY <1>8, <4>1
    <3> QED
      BY <1>3, <2>1, <3>1 DEF PlexInv, StampsAreOld
  <2>3. ASSUME NEW f \in PartRows
        PROVE  draft'.files[f].stamp <= run' /\ mirror'.files[f].stamp <= run'
    <3>1. draft'.files[f].stamp = run \/ draft'.files[f] = draft.files[f]
      <4>1. FileRow(f[1], replies[f[1]]).stamp = run
        BY DEF FileRow
      <4> QED
        BY <1>8, <4>1
    <3> QED
      BY <1>3, <2>1, <3>1 DEF PlexInv, StampsAreOld
  <2>4. \A k \in Listed' : \E i \in 1 .. sect' - 1 : i \in DOMAIN Sections /\ k \in Sections[i]
    BY <1>3, <1>7 DEF PlexInv, StampsAreOld
  <2>5. \A k \in Listed' : Outcome(heard'[k]) # "ValueError"
    BY <1>7 DEF PlexInv, StampsAreOld, Listed
  <2> QED
    BY <1>3, <2>2, <2>3, <2>4, <2>5 DEF PlexInv, StampsAreOld, Outcome
<1>10. ItemsAreHeard'
  BY <1>3, <1>4, <1>6, <1>7, <1>8 DEF PlexInv, ItemsAreHeard, Heard, ItemRow
<1>11. FilesAreHeard'
  <2> SUFFICES ASSUME NEW f \in PartRows
               PROVE  IF Filed(f)' THEN draft'.files[f] = FileRow(f[1], heard'[f[1]])
                      ELSE draft'.files[f].stamp # run
    BY <1>3 DEF FilesAreHeard, FileRow
  <2>1. f[1] \in Keys
    BY KeysOfParts
  <2>2. CASE f[1] \in found
    <3>1. draft.files[f].stamp # run
      BY <1>3, <1>6, <2>2 DEF PlexInv, FilesAreHeard, Filed
    <3> QED
      BY <1>7, <1>8, <2>1, <2>2, <3>1 DEF Filed, FilesOf
  <2>3. CASE f[1] \notin found
    BY <1>3, <1>7, <1>8, <2>1, <2>3 DEF PlexInv, FilesAreHeard, Filed, FilesOf
  <2> QED
    BY <2>2, <2>3
<1> QED
  BY <1>3, <1>5, <1>9, <1>10, <1>11 DEF PlexInv, ItemsAreSettled, PlexPullHeals

LEMMA PlexInvSweepItems == PlexInv /\ SweepItems => PlexInv'
<1> SUFFICES ASSUME PlexInv, SweepItems PROVE PlexInv'
  OBVIOUS
<1>1. /\ stage = "pull" /\ stage' = "files" /\ run' = run /\ heard' = heard /\ sect' = sect
      /\ Listed' = Listed
  BY DEF SweepItems, Listed
<1>2. PlexTypeOK'
  BY PlexTypeStep DEF PlexInv, PlexNext
<1>3. draft \in Tables /\ draft.items \in Items /\ draft.files \in Files /\ run \in Nat
  BY PlexAssumption DEF PlexInv, PlexTypeOK, Tables
<1>4. /\ draft' = mirror' /\ draft'.files = draft.files /\ draft'.items = Swept(draft.items)
  BY <1>3 DEF SweepItems, Commit, Tables
<1>5. \A k \in Keys :
        /\ draft'.items[k].stamp = draft.items[k].stamp
        /\ draft'.items[k].known = draft.items[k].known
        /\ draft'.items[k].dead <=> draft.items[k].dead \/ draft.items[k].stamp \notin {0, run}
  BY <1>3, <1>4, SweptItems
<1>6. StampsAreOld'
  BY <1>1, <1>4, <1>5 DEF PlexInv, StampsAreOld, Outcome
<1>7. FilesAreHeard'
  BY <1>1, <1>4 DEF PlexInv, FilesAreHeard, Filed, FilesOf, FileRow
<1>8. ItemsAreSettled'
  <2>1. DOMAIN draft'.items = Keys
    BY <1>2 DEF PlexTypeOK, Tables, Items
  <2>2. ASSUME NEW k \in Keys
        PROVE  k \in Listed <=> draft'.items[k].stamp # 0 /\ ~draft'.items[k].dead
    <3>1. CASE k \in Listed
      <4>1. draft.items[k] = Heard(k)
        BY <1>1, <3>1 DEF PlexInv, ItemsAreHeard
      <4>2. draft.items[k].stamp = run /\ ~draft.items[k].dead
        BY <4>1 DEF Heard
      <4>3. run # 0
        BY <1>1, <3>1 DEF PlexInv, StampsAreOld
      <4> QED
        BY <1>5, <3>1, <4>2, <4>3
    <3>2. CASE k \notin Listed
      <4>1. draft.items[k].stamp # run
        BY <1>1, <3>2 DEF PlexInv, ItemsAreHeard
      <4> QED
        BY <1>5, <3>2, <4>1
    <3> QED
      BY <3>1, <3>2
  <2>3. Alive(draft'.items) = Listed
    BY <2>1, <2>2 DEF Alive, Listed
  <2>4. ASSUME NEW k \in Listed PROVE draft'.items[k].known <=> Outcome(heard[k]) = "data"
    <3>1. k \in Keys
      BY DEF Listed
    <3>2. draft.items[k] = Heard(k)
      BY <1>1, <2>4, <3>1 DEF PlexInv, ItemsAreHeard
    <3>3. draft.items[k].known <=> Outcome(heard[k]) = "data"
      BY <3>2, HeardRow
    <3> QED
      BY <1>5, <3>1, <3>3
  <2> QED
    BY <1>1, <1>4, <2>3, <2>4 DEF ItemsAreSettled
<1> QED
  BY <1>1, <1>2, <1>6, <1>7, <1>8 DEF PlexInv, ItemsAreHeard, PlexPullHeals

LEMMA PlexInvSweepFiles == PlexInv /\ SweepFiles => PlexInv'
<1> SUFFICES ASSUME PlexInv, SweepFiles PROVE PlexInv'
  OBVIOUS
<1>1. /\ stage = "files" /\ stage' = "ok" /\ run' = run /\ heard' = heard /\ sect' = sect
      /\ Listed' = Listed
  BY DEF SweepFiles, Listed
<1>2. PlexTypeOK'
  BY PlexTypeStep DEF PlexInv, PlexNext
<1>3. /\ mirror \in Tables /\ mirror.items \in Items /\ mirror.files \in Files /\ run \in Nat
      /\ draft = mirror
  BY <1>1, PlexAssumption DEF PlexInv, PlexTypeOK, Tables
<1>4. draft' = mirror' /\ mirror'.items = mirror.items /\ mirror'.files = Swept(mirror.files)
  BY <1>3 DEF SweepFiles, Commit, Tables
<1>5. \A f \in PartRows :
        /\ mirror'.files[f].stamp = mirror.files[f].stamp
        /\ mirror'.files[f].real = mirror.files[f].real
        /\ mirror'.files[f].dead <=> mirror.files[f].dead \/ mirror.files[f].stamp \notin {0, run}
  BY <1>3, <1>4, SweptFiles
<1>6. StampsAreOld'
  BY <1>1, <1>3, <1>4, <1>5 DEF PlexInv, StampsAreOld, Outcome
<1>7. ASSUME NEW f \in PartRows
      PROVE  /\ Filed(f) <=> mirror'.files[f].stamp # 0 /\ ~mirror'.files[f].dead
             /\ Filed(f) /\ mirror'.files[f].real => Outcome(heard[f[1]]) = "data"
  <2>1. CASE Filed(f)
    <3>1. mirror.files[f] = FileRow(f[1], heard[f[1]])
      BY <1>1, <1>3, <2>1 DEF PlexInv, FilesAreHeard
    <3>2. mirror.files[f].stamp = run /\ ~mirror.files[f].dead
      BY <3>1 DEF FileRow
    <3>3. mirror.files[f].real => Outcome(heard[f[1]]) = "data"
      BY <3>1, FileRowReal
    <3>4. run # 0
      BY <1>1 DEF PlexInv, StampsAreOld
    <3> QED
      BY <1>5, <2>1, <3>2, <3>3, <3>4
  <2>2. CASE ~Filed(f)
    <3>1. mirror.files[f].stamp # run
      BY <1>1, <1>3, <2>2 DEF PlexInv, FilesAreHeard
    <3> QED
      BY <1>5, <2>2, <3>1
  <2> QED
    BY <2>1, <2>2
<1>8. PlexPullHeals'
  <2>1. /\ Alive(mirror'.items) = Listed
        /\ \A k \in Listed : mirror'.items[k].known <=> Outcome(heard[k]) = "data"
    BY <1>1, <1>4 DEF PlexInv, ItemsAreSettled
  <2>2. DOMAIN mirror'.files = PartRows
    BY <1>2 DEF PlexTypeOK, Tables, Files
  <2>3. Alive(mirror'.files) = {f \in PartRows : Filed(f)}
    BY <1>7, <2>2 DEF Alive
  <2>4. {f \in PartRows : Filed(f)} = UNION {FilesOf(k, heard[k]) : k \in Listed}
    <3>1. \A k \in Listed : \A f \in FilesOf(k, heard[k]) : f[1] = k /\ f \in PartRows
      BY PartsAreRows DEF Listed, FilesOf
    <3> QED
      BY <3>1 DEF Filed
  <2>5. \A f \in Alive(mirror'.files) : mirror'.files[f].real => mirror'.items[f[1]].known
    BY <1>7, <2>1, <2>3 DEF Filed
  <2> QED
    BY <1>1, <2>1, <2>3, <2>4, <2>5 DEF PlexPullHeals, FilesOf
<1> QED
  BY <1>1, <1>2, <1>6, <1>8 DEF PlexInv, ItemsAreHeard, FilesAreHeard, ItemsAreSettled

LEMMA PlexInvStep == PlexInv /\ [PlexNext]_plexVars => PlexInv'
<1> SUFFICES ASSUME PlexInv, [PlexNext]_plexVars PROVE PlexInv'
  OBVIOUS
<1>t. PlexTypeOK'
  BY PlexTypeStep DEF PlexInv
<1>0. CASE UNCHANGED plexVars
  BY <1>0, <1>t DEF plexVars, PlexInv, StampsAreOld, Outcome, ItemsAreHeard, FilesAreHeard, ItemsAreSettled,
                    PlexPullHeals, Listed, Heard, Filed, FilesOf, FileRow
<1>1. CASE StartPull
  <2>1. /\ run \in Nat /\ run' = run + 1 /\ Listed' = {} /\ stage' = "pull" /\ draft = mirror
        /\ mirror' = mirror /\ draft' = draft /\ draft \in Tables
    BY <1>1, PlexAssumption DEF StartPull, PlexInv, PlexTypeOK, Listed
  <2>2. \A k \in Keys : draft.items[k].stamp \in Nat /\ draft.items[k].stamp <= run
    BY <2>1, PlexAssumption DEF PlexInv, StampsAreOld, Tables, Items
  <2>3. \A f \in PartRows : draft.files[f].stamp \in Nat /\ draft.files[f].stamp <= run
    BY <2>1, PlexAssumption DEF PlexInv, StampsAreOld, Tables, Files
  <2>4. StampsAreOld'
    BY <2>1, <2>2, <2>3 DEF StampsAreOld
  <2>5. ItemsAreHeard' /\ FilesAreHeard'
    BY <2>1, <2>2, <2>3 DEF ItemsAreHeard, FilesAreHeard, Filed
  <2> QED
    BY <1>t, <2>1, <2>4, <2>5 DEF PlexInv, ItemsAreSettled, PlexPullHeals
<1>2. CASE PullSection
  BY <1>2, PlexInvPull
<1>3. CASE SweepItems
  BY <1>3, PlexInvSweepItems
<1>4. CASE SweepFiles
  BY <1>4, PlexInvSweepFiles
<1>5. CASE FailPull
  <2>1. /\ stage' = "failed" /\ run' = run /\ draft' = draft /\ mirror' = draft
        /\ Listed' = Listed /\ heard' = heard /\ sect' = sect /\ stage # "none"
    BY <1>5 DEF FailPull, Commit, Listed
  <2> QED
    BY <1>t, <2>1 DEF PlexInv, StampsAreOld, Outcome, ItemsAreHeard, FilesAreHeard, ItemsAreSettled,
                      PlexPullHeals
<1>6. CASE CrashPull
  <2>1. /\ stage' = "dead" /\ run' = run /\ draft' = mirror /\ mirror' = mirror
        /\ Listed' = Listed /\ heard' = heard /\ sect' = sect /\ stage # "none"
    BY <1>6 DEF CrashPull, Commit, Listed
  <2> QED
    BY <1>t, <2>1 DEF PlexInv, StampsAreOld, Outcome, ItemsAreHeard, FilesAreHeard, ItemsAreSettled,
                      PlexPullHeals
<1> QED
  BY <1>0, <1>1, <1>2, <1>3, <1>4, <1>5, <1>6 DEF PlexNext

\* A pull of Plex that ends well leaves exactly what it heard, whatever earlier
\* pulls left: plex_sync.py from its first upsert to its last tombstones.
THEOREM PlexPullsHeal == PlexSpec => []PlexPullHeals
<1>1. PlexInv => PlexPullHeals
  BY DEF PlexInv
<1> QED
  BY <1>1, PlexInvInit, PlexInvStep, PTL DEF PlexSpec

-----------------------------------------------------------------------------
(* Who tombstones an item, and who takes its ids.                          *)

LEMMA DeathStep ==
  ASSUME PlexInv, [PlexNext]_plexVars, NEW k \in Keys,
         k \in Alive(mirror.items), mirror'.items[k].dead
  PROVE  /\ sect > Len(Sections) /\ stage = "pull" /\ stage' = "files"
         /\ heard[k] = Unheard
<1>1. mirror.items[k].stamp # 0 /\ ~mirror.items[k].dead
  BY DEF Alive
<1>2. /\ draft.items \in Items
      /\ mirror \in Tables
      /\ stage # "pull" => draft = mirror
  BY DEF PlexInv, PlexTypeOK, Tables
<1>3. ~draft.items[k].dead
  <2>1. CASE stage = "pull" /\ k \in Listed
    <3>1. draft.items[k] = Heard(k)
      BY <2>1 DEF PlexInv, ItemsAreHeard
    <3> QED
      BY <3>1, HeardRow
  <2>2. CASE stage = "pull" /\ k \notin Listed
    BY <1>1, <2>2 DEF PlexInv, ItemsAreHeard
  <2>3. CASE stage # "pull"
    BY <1>1, <1>2, <2>3
  <2> QED
    BY <2>1, <2>2, <2>3
<1>4. CASE SweepItems
  <2>1. mirror'.items = Swept(draft.items)
    BY <1>4 DEF SweepItems, Commit, PlexInv, PlexTypeOK, Tables
  <2>2. draft.items[k].stamp # run
    BY <1>2, <1>3, <2>1, SweptItems
  <2>3. k \notin Listed
    <3> SUFFICES ASSUME k \in Listed PROVE FALSE
      OBVIOUS
    <3>1. draft.items[k] = Heard(k)
      BY <1>4 DEF SweepItems, PlexInv, ItemsAreHeard
    <3> QED
      BY <2>2, <3>1, HeardRow
  <2> QED
    BY <1>4, <2>3 DEF SweepItems, Listed
<1>5. CASE ~SweepItems
  <2>1. mirror'.items \in {mirror.items, draft.items}
    BY <1>2, <1>5 DEF PlexNext, plexVars, StartPull, PullSection, SweepFiles, FailPull, CrashPull,
                      Commit, Tables
  <2> QED
    BY <1>1, <1>3, <2>1
<1> QED
  BY <1>4, <1>5

\* An item is tombstoned only by a pull that got through every section and did
\* not hear of it (the tombstones of plex_sync.py:132).
THEOREM PlexDeathsHaveWitness == PlexSpec => PlexDeathHasWitness
<1>1. PlexInv /\ [PlexNext]_plexVars =>
        [\A k \in Keys :
           k \in Alive(mirror.items) /\ mirror'.items[k].dead =>
             /\ sect > Len(Sections) /\ stage = "pull" /\ stage' = "files"
             /\ heard[k] = Unheard]_plexVars
  BY DeathStep
<1> QED
  BY <1>1, PlexInvInit, PlexInvStep, PTL DEF PlexSpec, PlexDeathHasWitness

LEMMA LossStep ==
  ASSUME PlexInv, [PlexNext]_plexVars, NEW k \in Keys,
         mirror.items[k].known, ~mirror'.items[k].known
  PROVE  heard[k].last = "refusal" \/ heard[k].glitches = MaxRetries
<1>1. /\ draft.items \in Items /\ mirror \in Tables /\ draft \in Tables
      /\ heard \in [Keys -> Replies \cup {Unheard}]
      /\ stage # "pull" => draft = mirror
  BY DEF PlexInv, PlexTypeOK, Tables
<1>2. ~draft.items[k].known
  <2>1. CASE SweepItems
    <3>1. mirror'.items = Swept(draft.items)
      BY <1>1, <2>1 DEF SweepItems, Commit, Tables
    <3> QED
      BY <1>1, <3>1, SweptItems
  <2>2. CASE ~SweepItems
    <3>1. mirror'.items \in {mirror.items, draft.items}
      BY <1>1, <2>2 DEF PlexNext, plexVars, StartPull, PullSection, SweepFiles, FailPull, CrashPull,
                        Commit, Tables
    <3> QED
      BY <3>1
  <2> QED
    BY <2>1, <2>2
<1>3. stage = "pull"
  BY <1>1, <1>2
<1>4. k \in Listed /\ draft.items[k] = Heard(k)
  BY <1>2, <1>3 DEF PlexInv, ItemsAreHeard
<1>5. heard[k] \in Replies
  BY <1>1, <1>4 DEF Listed
<1>6. Outcome(heard[k]) = "UpstreamError"
  BY <1>2, <1>4, <1>5, HeardRow, ReplyTypes DEF PlexInv, StampsAreOld
<1> QED
  BY <1>5, <1>6, ReplyTypes

\* A matched item loses its ids only to a refusal or to an outage as long as
\* the retry loop of clients/base.py.
THEOREM PlexIdsOutliveGlitches == PlexSpec => IdsLostNeedOutage
<1>1. PlexInv /\ [PlexNext]_plexVars =>
        [\A k \in Keys :
           mirror.items[k].known /\ ~mirror'.items[k].known =>
             heard[k].last = "refusal" \/ heard[k].glitches = MaxRetries]_plexVars
  BY LossStep
<1> QED
  BY <1>1, PlexInvInit, PlexInvStep, PTL DEF PlexSpec, IdsLostNeedOutage

-----------------------------------------------------------------------------
(* The pipeline.                                                           *)

LEMMA PipeStepIsPull == [PipeNext]_pipeVars => [PlexNext]_plexVars
<1> SUFFICES ASSUME [PipeNext]_pipeVars PROVE [PlexNext]_plexVars
  OBVIOUS
<1>0. CASE UNCHANGED pipeVars
  BY <1>0 DEF pipeVars
<1>1. CASE BeginRun
  BY <1>1 DEF BeginRun, PlexNext
<1>2. CASE PullStep
  BY <1>2 DEF PullStep, PlexNext
<1>3. CASE Die
  BY <1>3 DEF Die, PlexNext
<1>4. CASE DeriveStep
  BY <1>4 DEF DeriveStep
<1> QED
  BY <1>0, <1>1, <1>2, <1>3, <1>4 DEF PipeNext

\* Runs of the pipeline pull as PlexInventory says: run_sync() only decides
\* when a pull begins and what comes after it (runner.py).
THEOREM PipelinePulls == PipeSpec => PlexSpec
<1>1. PipeInit => PlexInit
  BY DEF PipeInit
<1> QED
  BY <1>1, PipeStepIsPull, PTL DEF PipeSpec, PlexSpec

\* The mirror that the derived steps read is, after a pull that ended well, what
\* the pull heard.
THEOREM PipelineHeals == PipeSpec => []PlexPullHeals
<1> QED
  BY PipelinePulls, PlexPullsHeal

-----------------------------------------------------------------------------
(* An item is judged by its own copies.                                    *)

Stranger(w, a, k) ==
  /\ ~D!Same(w.arr[a].tmdb, w.plex[k].tmdb)
  /\ ~D!Same(w.arr[a].tvdb, w.plex[k].tvdb)
  /\ ~D!Same(w.arr[a].imdb, w.plex[k].imdb)

\* Tables that differ at most in Plex items that are no copies of a.
Twins(u, v, a) ==
  /\ v.arr = u.arr /\ v.requests = u.requests /\ v.people = u.people /\ v.events = u.events
  /\ v.specials = u.specials /\ v.hidden = u.hidden /\ v.ruled = u.ruled
  /\ DOMAIN v.plex = DOMAIN u.plex
  /\ \A k \in DOMAIN u.plex : v.plex[k] = u.plex[k] \/ (Stranger(u, a, k) /\ Stranger(v, a, k))

\* ByTags() and SeriesState() as functions of what they read of the tables.
TagRow(tags) ==
  LET ids   == {t.id : t \in tags} \ {D!NULL}
      names == {t.name : t \in tags}
  IN [id   |-> IF D!Cardinality(ids) = 1 THEN D!Min(ids) ELSE D!NULL,
      name |-> IF D!Cardinality(names) = 1 THEN CHOOSE n \in names : TRUE ELSE "multi-requester"]

SeriesRow(any, people, needed, counts, ownCounts) ==
  LET own   == D!By(any, people)
      total == D!Cardinality(needed)
  IN [played |-> any # {}, playedOwn |-> own # {},
      last |-> D!LastOf(any), lastOwn |-> D!LastOf(own),
      finished |-> D!SeriesDone(total, counts), finishedOwn |-> D!SeriesDone(total, ownCounts),
      conf |-> D!Confidence(people)]

LEMMA PipeRowsByParts ==
  /\ \A w, a : D!ByTags(w, a) = TagRow(D!Parsed(w, a))
  /\ \A w, ai, people : D!SeriesState(w, ai, people) =
       SeriesRow(D!AnyPlays(w, ai), people, D!Countable(w, ai), D!Counts(w, ai), D!OwnCounts(w, ai, people))
<1>1. \A w, a : D!ByTags(w, a) = TagRow(D!Parsed(w, a))
  BY Zenon DEF D!ByTags, TagRow
<1>2. \A w, ai, people : D!SeriesState(w, ai, people) =
       SeriesRow(D!AnyPlays(w, ai), people, D!Countable(w, ai), D!Counts(w, ai), D!OwnCounts(w, ai, people))
  BY Zenon DEF D!SeriesState, SeriesRow
<1> QED
  BY <1>1, <1>2

LEMMA TwinsAreAttributed ==
  ASSUME NEW u, NEW v, NEW a, Twins(u, v, a)
  PROVE  D!Attribution(v) = D!Attribution(u) /\ D!LiveArr(v) = D!LiveArr(u)
<1>1. v.arr = u.arr /\ v.requests = u.requests
  BY DEF Twins
<1>2. \A b : D!RequestsFor(v, b) = D!RequestsFor(u, b) /\ D!Parsed(v, b) = D!Parsed(u, b)
  BY <1>1 DEF D!RequestsFor, D!Parsed
<1>3. D!LiveArr(v) = D!LiveArr(u)
  BY <1>1 DEF D!LiveArr
<1>4. \A b : D!ByRequest(v, b) = D!ByRequest(u, b)
  BY <1>1, <1>2 DEF D!ByRequest
<1>5. \A b : D!ByTags(v, b) = D!ByTags(u, b)
  BY <1>2, PipeRowsByParts, Zenon
<1>6. {b \in D!LiveArr(v) : D!RequestsFor(v, b) # {}} = {b \in D!LiveArr(u) : D!RequestsFor(u, b) # {}}
  BY <1>2, <1>3
<1>7. {b \in D!LiveArr(v) : D!Parsed(v, b) # {}} = {b \in D!LiveArr(u) : D!Parsed(u, b) # {}}
  BY <1>2, <1>3
<1> QED
  BY <1>3, <1>4, <1>5, <1>6, <1>7 DEF D!Attribution

LEMMA TwinsAreWatched ==
  ASSUME NEW u, NEW v, NEW a, Twins(u, v, a), NEW at
  PROVE  D!Watched(D!WatchState(v, at), a) = D!Watched(D!WatchState(u, at), a)
<1> DEFINE ai == u.arr[a]
<1>1. /\ v.arr = u.arr /\ v.people = u.people /\ v.events = u.events /\ v.specials = u.specials
      /\ DOMAIN v.plex = DOMAIN u.plex
      /\ \A k \in DOMAIN u.plex : v.plex[k] = u.plex[k] \/ (Stranger(u, a, k) /\ Stranger(v, a, k))
  BY DEF Twins
<1>2. D!Copies(v, ai) = D!Copies(u, ai)
  BY <1>1 DEF D!Copies, Stranger, D!Same
<1>3. D!Countable(v, ai) = D!Countable(u, ai)
  BY <1>1 DEF D!Countable
<1>4. \A who : D!Identities(v, who) = D!Identities(u, who)
  BY <1>1 DEF D!Identities
<1>5. D!MoviePlays(v, ai) = D!MoviePlays(u, ai)
  BY <1>1, <1>2 DEF D!MoviePlays
<1>6. \A k : D!EpisodePlays(v, k) = D!EpisodePlays(u, k)
  BY <1>1 DEF D!EpisodePlays
<1>7. \A people : D!MovieState(v, ai, people) = D!MovieState(u, ai, people)
  BY <1>5 DEF D!MovieState
<1>8. D!AnyPlays(v, ai) = D!AnyPlays(u, ai) /\ D!Counts(v, ai) = D!Counts(u, ai)
  BY <1>2, <1>6 DEF D!AnyPlays, D!Counts
<1>9. \A people : D!OwnCounts(v, ai, people) = D!OwnCounts(u, ai, people)
  BY <1>2, <1>6 DEF D!OwnCounts
<1>10. \A people : D!SeriesState(v, ai, people) = D!SeriesState(u, ai, people)
  BY <1>3, <1>8, <1>9, PipeRowsByParts, Zenon
<1>11. D!LiveArr(v) = D!LiveArr(u)
  BY <1>1 DEF D!LiveArr
<1>12. ASSUME NEW b, b = a, b \in D!LiveArr(u) PROVE D!WatchState(v, at)[b] = D!WatchState(u, at)[b]
  BY <1>1, <1>4, <1>7, <1>10, <1>11, <1>12 DEF D!WatchState
<1>13. /\ DOMAIN D!WatchState(v, at) = D!LiveArr(u)
       /\ DOMAIN D!WatchState(u, at) = D!LiveArr(u)
  BY <1>11 DEF D!WatchState
<1> QED
  BY <1>12, <1>13 DEF D!Watched

LEMMA TwinsAreListed ==
  ASSUME NEW u, NEW v, NEW a, Twins(u, v, a), NEW at, NEW s, NEW t, D!Watched(s, a) = D!Watched(t, a)
  PROVE  /\ D!ItemRows(v, at, s, a) = D!ItemRows(u, at, t, a)
         /\ D!Listable(v, a) <=> D!Listable(u, a)
<1> DEFINE ai == u.arr[a]
<1>1. /\ v.arr = u.arr /\ v.hidden = u.hidden /\ v.ruled = u.ruled /\ DOMAIN v.plex = DOMAIN u.plex
      /\ \A k \in DOMAIN u.plex : v.plex[k] = u.plex[k] \/ (Stranger(u, a, k) /\ Stranger(v, a, k))
  BY DEF Twins
<1>2. D!Copies(v, ai) = D!Copies(u, ai)
  BY <1>1 DEF D!Copies, Stranger, D!Same
<1>3. \A k \in D!Copies(u, ai) : v.plex[k] = u.plex[k]
  BY <1>1 DEF D!Copies, Stranger, D!Same
<1>4. \A reason, last, conf : D!ItemRowOf(v, a, reason, last, conf) = D!ItemRowOf(u, a, reason, last, conf)
  BY <1>1 DEF D!ItemRowOf
<1>5. D!NeverRows(v, at, s, a) = D!NeverRows(u, at, t, a)
  BY <1>1, <1>4 DEF D!NeverRows
<1>6. D!StaleRows(v, at, s, a) = D!StaleRows(u, at, t, a)
  BY <1>1, <1>4 DEF D!StaleRows
<1>7. D!MovieOrphans(v, a) = D!MovieOrphans(u, a)
  BY <1>1, <1>2, <1>3 DEF D!MovieOrphans
<1>8. D!SeriesOrphans(v, a) = D!SeriesOrphans(u, a)
  BY <1>1 DEF D!SeriesOrphans, Stranger
<1>9. D!Listable(v, a) <=> D!Listable(u, a)
  BY <1>1 DEF D!Listable
<1> QED
  BY <1>1, <1>5, <1>6, <1>7, <1>8, <1>9 DEF D!ItemRows

LEMMA RowsOfItem ==
  ASSUME NEW w, NEW at, NEW s, NEW a \in DOMAIN w.arr, a # 0
  PROVE  {r \in D!Candidates(w, at, s) : r.arr = a}
           = IF D!Listable(w, a) THEN D!ItemRows(w, at, s, a) ELSE {}
<1>1. \A r : r \in D!Candidates(w, at, s) <=>
           \/ \E b \in DOMAIN w.arr : D!Listable(w, b) /\ r \in D!ItemRows(w, at, s, b)
           \/ r \in D!PlexOrphans(w)
  BY DEF D!Candidates
<1>2. ASSUME NEW b, NEW r \in D!ItemRows(w, at, s, b) PROVE r.arr = b
  <2>1. \A reason, last, conf : D!ItemRowOf(w, b, reason, last, conf).arr = b
    BY DEF D!ItemRowOf
  <2>2. \A k, n, reason, size : D!FileRowOf(b, k, n, reason, size).arr = b
    BY DEF D!FileRowOf
  <2>3. r \in D!NeverRows(w, at, s, b) => r.arr = b
    BY <2>1 DEF D!NeverRows
  <2>4. r \in D!StaleRows(w, at, s, b) => r.arr = b
    BY <2>1 DEF D!StaleRows
  <2>5. r \in D!MovieOrphans(w, b) \cup D!SeriesOrphans(w, b) => r.arr = b
    BY <2>2 DEF D!MovieOrphans, D!SeriesOrphans
  <2> QED
    BY <2>3, <2>4, <2>5 DEF D!ItemRows
<1>3. \A r \in D!PlexOrphans(w) : r.arr = 0
  <2>1. \A k, n, reason, size : D!FileRowOf(D!NULL, k, n, reason, size).arr = 0
    BY DEF D!FileRowOf, D!NULL
  <2> QED
    BY <2>1 DEF D!PlexOrphans
<1> QED
  BY <1>1, <1>2, <1>3

LEMMA TwinsAreJudged ==
  ASSUME NEW u, NEW v, NEW a \in DOMAIN u.arr, a # 0, Twins(u, v, a)
  PROVE  LET atu == D!Attribution(u)
             atv == D!Attribution(v)
         IN {r \in D!Candidates(v, atv, D!WatchState(v, atv)) : r.arr = a}
              = {r \in D!Candidates(u, atu, D!WatchState(u, atu)) : r.arr = a}
<1> DEFINE at == D!Attribution(u)
           s == D!WatchState(v, at)
           t == D!WatchState(u, at)
<1>1. D!Attribution(v) = at
  BY TwinsAreAttributed
<1>2. D!Watched(s, a) = D!Watched(t, a)
  BY TwinsAreWatched
<1>3. DOMAIN v.arr = DOMAIN u.arr
  BY DEF Twins
<1> HIDE DEF at, s, t
<1>4. /\ D!ItemRows(v, at, s, a) = D!ItemRows(u, at, t, a)
      /\ D!Listable(v, a) <=> D!Listable(u, a)
  BY <1>2, TwinsAreListed
<1>5. {r \in D!Candidates(v, at, s) : r.arr = a} = IF D!Listable(v, a) THEN D!ItemRows(v, at, s, a) ELSE {}
  BY <1>3, RowsOfItem
<1>6. {r \in D!Candidates(u, at, t) : r.arr = a} = IF D!Listable(u, a) THEN D!ItemRows(u, at, t, a) ELSE {}
  BY RowsOfItem
<1>7. {r \in D!Candidates(v, at, s) : r.arr = a} = {r \in D!Candidates(u, at, t) : r.arr = a}
  BY <1>4, <1>5, <1>6
<1> QED
  BY <1>1, <1>7 DEF at, s, t

-----------------------------------------------------------------------------
(* What a pull that ended well makes of the items it caught.               *)

\* A file has the path and size of its part exactly if the metadata listed it.
FilesAreReal ==
  stage = "ok" =>
    \A f \in Alive(mirror.files) :
      mirror.files[f].real <=> Outcome(heard[f[1]]) = "data" /\ Parts[f[1]] > 0

LEMMA FilesAreRealStep == PlexInv /\ FilesAreReal /\ [PlexNext]_plexVars => FilesAreReal'
<1> SUFFICES ASSUME PlexInv, FilesAreReal, [PlexNext]_plexVars, stage' = "ok" PROVE FilesAreReal'
  BY DEF FilesAreReal
<1>0. CASE UNCHANGED plexVars
  BY <1>0 DEF plexVars, FilesAreReal, Alive, Outcome
<1>1. CASE SweepFiles
  <2>1. /\ stage = "files" /\ run' = run /\ heard' = heard /\ mirror \in Tables /\ mirror.files \in Files
        /\ draft = mirror /\ mirror'.files = Swept(mirror.files)
    BY <1>1 DEF SweepFiles, Commit, PlexInv, PlexTypeOK, Tables
  <2>2. \A f \in PartRows :
          /\ Swept(mirror.files)[f].real = mirror.files[f].real
          /\ Swept(mirror.files)[f].stamp = mirror.files[f].stamp
          /\ Swept(mirror.files)[f].dead <=> mirror.files[f].dead \/ mirror.files[f].stamp \notin {0, run}
    BY <2>1, SweptFiles
  <2>3. DOMAIN Swept(mirror.files) = PartRows
    BY <2>1, SweptFiles DEF Files
  <2>4. ASSUME NEW f \in Alive(mirror'.files)
        PROVE  mirror'.files[f].real <=> Outcome(heard[f[1]]) = "data" /\ Parts[f[1]] > 0
    <3>1. f \in PartRows /\ mirror.files[f].stamp = run /\ mirror'.files[f].real = mirror.files[f].real
      BY <2>1, <2>2, <2>3 DEF Alive
    <3>2. mirror.files[f] = FileRow(f[1], heard[f[1]])
      BY <2>1, <3>1 DEF PlexInv, FilesAreHeard
    <3>3. FileRow(f[1], heard[f[1]]).real <=> Outcome(heard[f[1]]) = "data" /\ Parts[f[1]] > 0
      BY DEF FileRow
    <3> QED
      BY <3>1, <3>2, <3>3
  <2> QED
    BY <2>1, <2>4 DEF FilesAreReal, Outcome
<1>2. CASE PlexNext /\ ~SweepFiles
  BY <1>2 DEF PlexNext, StartPull, PullSection, SweepItems, FailPull, CrashPull, PlexInv, PlexTypeOK
<1> QED
  BY <1>0, <1>1, <1>2

LEMMA PerfectOutcome == Outcome(Perfect) = "data"
BY RetryAssumption DEF Perfect, Outcome

\* The row of an item that was caught is the one that is true.
LEMMA CaughtRow ==
  ASSUME PlexInv, FilesAreReal, stage = "ok", NEW k \in Keys, Caught(k)
  PROVE  RowOf(k, k \in Alive(mirror.items), mirror.items[k].known, FilesAlive(k),
               \E f \in FilesAlive(k) : mirror.files[f].real)
           = RowOf(k, TRUE, TRUE, FilesOf(k, Perfect), Parts[k] > 0)
<1>1. /\ Alive(mirror.items) = Listed
      /\ \A j \in Listed : mirror.items[j].known <=> Outcome(heard[j]) = "data"
      /\ Alive(mirror.files) = UNION {FilesOf(j, heard[j]) : j \in Listed}
  BY DEF PlexInv, PlexPullHeals
<1>2. k \in Listed /\ Outcome(heard[k]) = "data"
  BY DEF Caught
<1>3. \A j, r : \A f \in FilesOf(j, r) : f[1] = j
  BY DEF FilesOf
<1>4. FilesAlive(k) = FilesOf(k, heard[k])
  BY <1>1, <1>2, <1>3 DEF FilesAlive
<1>5. FilesOf(k, heard[k]) = FilesOf(k, Perfect)
  BY <1>2, PerfectOutcome DEF FilesOf
<1>6. k \in Alive(mirror.items) /\ mirror.items[k].known
  BY <1>1, <1>2
<1>7. Parts[k] \in Nat /\ (Parts[k] > 0 => FilesOf(k, heard[k]) # {})
  <2>1. Parts[k] \in Nat
    BY PlexAssumption
  <2>2. Parts[k] > 0 => <<k, 0>> \in FilesOf(k, heard[k])
    BY <1>2, <2>1 DEF FilesOf
  <2> QED
    BY <2>1, <2>2
<1>8. (\E f \in FilesAlive(k) : mirror.files[f].real) <=> Parts[k] > 0
  <2>1. \A f \in FilesAlive(k) : mirror.files[f].real <=> Parts[k] > 0
    BY <1>2 DEF FilesAreReal, FilesAlive
  <2> QED
    BY <1>4, <1>7, <2>1
<1> QED
  BY <1>4, <1>5, <1>6, <1>8 DEF RowOf

\* The tables by their parts.
LEMMA TablesByParts ==
  ASSUME base \in Worlds, NEW p
  PROVE  LET w == [base EXCEPT !.plex = p] IN
         /\ w.plex = p /\ w.arr = base.arr /\ w.requests = base.requests /\ w.people = base.people
         /\ w.events = base.events /\ w.specials = base.specials /\ w.hidden = base.hidden
         /\ w.ruled = base.ruled
<1>1. base = [arr |-> base.arr, plex |-> base.plex, requests |-> base.requests, people |-> base.people,
              events |-> base.events, specials |-> base.specials, hidden |-> base.hidden,
              ruled |-> base.ruled]
  BY PipeAssumption
<1> QED
  BY <1>1

\* What the mirror may have wrong of an item that is not a's is not about a.
LEMMA MirrorIsTwin ==
  ASSUME PlexInv, FilesAreReal, stage = "ok", base \in Worlds, NEW a \in DOMAIN base.arr,
         \A k \in TrueCopies(a) : Caught(k)
  PROVE  Twins(Truth, Mirrored, a)
<1> DEFINE Seen(k) == RowOf(k, k \in Alive(mirror.items), mirror.items[k].known, FilesAlive(k),
                            \E f \in FilesAlive(k) : mirror.files[f].real)
           True(k) == RowOf(k, TRUE, TRUE, FilesOf(k, Perfect), Parts[k] > 0)
           seen == [k \in Keys |-> Seen(k)]
           true == [k \in Keys |-> True(k)]
<1>1. /\ Mirrored = [base EXCEPT !.plex = seen]
      /\ Truth = [base EXCEPT !.plex = true]
  BY DEF Mirrored, Truth
<1>2. \A k \in Keys : Caught(k) => Seen(k) = True(k)
  BY CaughtRow
<1>3. \A k, live, known, files, real :
        LET r == RowOf(k, live, known, files, real) IN
        /\ r.tmdb \in {base.plex[k].tmdb, 0} /\ r.tvdb \in {base.plex[k].tvdb, 0}
        /\ r.imdb \in {base.plex[k].imdb, 0}
  BY DEF RowOf
<1> HIDE DEF Seen, True
<1>4. \A k \in Keys :
        /\ seen[k] = Seen(k) /\ true[k] = True(k)
  OBVIOUS
<1>5. \A k \in Keys :
        /\ Seen(k).tmdb \in {base.plex[k].tmdb, 0} /\ Seen(k).tvdb \in {base.plex[k].tvdb, 0}
        /\ Seen(k).imdb \in {base.plex[k].imdb, 0}
        /\ True(k).tmdb \in {base.plex[k].tmdb, 0} /\ True(k).tvdb \in {base.plex[k].tvdb, 0}
        /\ True(k).imdb \in {base.plex[k].imdb, 0}
  BY <1>3 DEF Seen, True
<1>6. DOMAIN seen = Keys /\ DOMAIN true = Keys
  OBVIOUS
<1> HIDE DEF seen, true
<1>7. /\ Mirrored.plex = seen /\ Mirrored.arr = base.arr /\ Mirrored.requests = base.requests
      /\ Mirrored.people = base.people /\ Mirrored.events = base.events
      /\ Mirrored.specials = base.specials /\ Mirrored.hidden = base.hidden
      /\ Mirrored.ruled = base.ruled
  BY <1>1, TablesByParts
<1>8. /\ Truth.plex = true /\ Truth.arr = base.arr /\ Truth.requests = base.requests
      /\ Truth.people = base.people /\ Truth.events = base.events
      /\ Truth.specials = base.specials /\ Truth.hidden = base.hidden /\ Truth.ruled = base.ruled
  BY <1>1, TablesByParts
<1>9. ASSUME NEW k \in Keys, k \notin TrueCopies(a)
      PROVE  Stranger(Truth, a, k) /\ Stranger(Mirrored, a, k)
  <2>1. /\ ~D!Same(base.arr[a].tmdb, base.plex[k].tmdb)
        /\ ~D!Same(base.arr[a].tvdb, base.plex[k].tvdb)
        /\ ~D!Same(base.arr[a].imdb, base.plex[k].imdb)
    BY <1>9 DEF TrueCopies
  <2>2. \A x : ~D!Same(x, 0)
    BY DEF D!Same, D!NULL
  <2> QED
    BY <1>4, <1>5, <1>7, <1>8, <2>1, <2>2 DEF Stranger
<1>10. \A k \in Keys : Mirrored.plex[k] = Truth.plex[k]
                       \/ (Stranger(Truth, a, k) /\ Stranger(Mirrored, a, k))
  BY <1>2, <1>4, <1>7, <1>8, <1>9
<1> QED
  BY <1>6, <1>7, <1>8, <1>10 DEF Twins

-----------------------------------------------------------------------------
(* The inductive invariant of the pipeline.                                *)

\* The pull is over before the derived steps begin, and what they have made is
\* made from the mirror as it is now.
StepsAreInTurn ==
  /\ stage \in {"pull", "files"} => phase = "attribution"
  /\ phase \in {"watch", "candidates", "done"} => stage \in {"ok", "failed"}

RowsAreOfMirror ==
  /\ phase \in {"watch", "candidates", "done"} => att = D!Attribution(Mirrored)
  /\ phase \in {"candidates", "done"} => ws = D!WatchState(Mirrored, att)
  /\ phase = "done" => rows = D!Candidates(Mirrored, att, ws)

PipeInv ==
  PlexInv /\ FilesAreReal /\ base \in Worlds /\ StepsAreInTurn /\ RowsAreOfMirror

LEMMA PipeInvInit == PipeInit => PipeInv
<1> SUFFICES ASSUME PipeInit PROVE PipeInv
  OBVIOUS
<1>1. PlexInv
  BY PlexInvInit DEF PipeInit
<1> QED
  BY <1>1 DEF PipeInit, PlexInit, PipeInv, FilesAreReal, StepsAreInTurn, RowsAreOfMirror

\* The mirror as the derived steps read it stands still while its tables do.
LEMMA MirrorStands ==
  ASSUME base' = base, mirror' = mirror PROVE Mirrored' = Mirrored
BY DEF Mirrored, RowOf, FilesAlive, Alive

LEMMA PipeInvStep == PipeInv /\ [PipeNext]_pipeVars => PipeInv'
<1> SUFFICES ASSUME PipeInv, [PipeNext]_pipeVars PROVE PipeInv'
  OBVIOUS
<1>1. [PlexNext]_plexVars
  BY PipeStepIsPull
<1>2. PlexInv' /\ FilesAreReal'
  BY <1>1, PlexInvStep, FilesAreRealStep DEF PipeInv
<1>3. base' \in Worlds
  BY DEF PipeInv, PipeNext, BeginRun, PullStep, Die, DeriveStep, pipeVars
<1>4. stage \in {"none", "pull", "files", "ok", "failed", "dead"}
  BY DEF PipeInv, PlexInv, PlexTypeOK
<1>5. CASE UNCHANGED pipeVars
  <2>1. Mirrored' = Mirrored
    BY <1>5, MirrorStands DEF pipeVars, plexVars
  <2> QED
    BY <1>2, <1>3, <1>5, <2>1 DEF pipeVars, plexVars, PipeInv, StepsAreInTurn, RowsAreOfMirror
<1>6. CASE BeginRun
  BY <1>2, <1>3, <1>6 DEF BeginRun, StartPull, PipeInv, StepsAreInTurn, RowsAreOfMirror
<1>7. CASE PullStep
  <2>1. stage \in {"pull", "files"} /\ phase' = phase
    BY <1>7 DEF PullStep, PullSection, SweepItems, SweepFiles, FailPull
  <2>2. phase' = "attribution"
    BY <2>1 DEF PipeInv, StepsAreInTurn
  <2> QED
    BY <1>2, <1>3, <2>2 DEF PipeInv, StepsAreInTurn, RowsAreOfMirror
<1>8. CASE Die
  <2>1. phase' = "failed" /\ stage' = "dead"
    BY <1>8 DEF Die, CrashPull
  <2> QED
    BY <1>2, <1>3, <2>1 DEF PipeInv, StepsAreInTurn, RowsAreOfMirror
<1>9. CASE DeriveStep
  <2>1. stage \in {"ok", "failed"} /\ stage' = stage /\ base' = base /\ mirror' = mirror
    BY <1>9 DEF DeriveStep, plexVars
  <2>2. Mirrored' = Mirrored
    BY <2>1, MirrorStands
  <2>3. StepsAreInTurn'
    BY <2>1 DEF StepsAreInTurn
  <2>4. RowsAreOfMirror'
    <3>1. CASE D!Attribute
      <4>1. att' = D!Attribution(Mirrored) /\ phase' = "watch"
        BY <3>1 DEF D!Attribute
      <4> QED
        BY <2>2, <4>1 DEF RowsAreOfMirror
    <3>2. CASE D!Watch
      <4>1. phase = "watch" /\ att' = att /\ ws' = D!WatchState(Mirrored, att) /\ phase' = "candidates"
        BY <3>2 DEF D!Watch
      <4> QED
        BY <2>2, <4>1 DEF PipeInv, RowsAreOfMirror
    <3>3. CASE D!ComputeRows
      <4>1. /\ phase = "candidates" /\ att' = att /\ ws' = ws
            /\ rows' = D!Candidates(Mirrored, att, ws) /\ phase' = "done"
        BY <3>3 DEF D!ComputeRows
      <4> QED
        BY <2>2, <4>1 DEF PipeInv, RowsAreOfMirror
    <3>4. CASE D!FailDerive
      BY <3>4 DEF D!FailDerive, RowsAreOfMirror
    <3> QED
      BY <1>9, <3>1, <3>2, <3>3, <3>4 DEF DeriveStep
  <2> QED
    BY <1>2, <1>3, <2>3, <2>4 DEF PipeInv
<1> QED
  BY <1>5, <1>6, <1>7, <1>8, <1>9 DEF PipeNext

\* A run whose pull ended well and caught every copy of an item judges it as
\* the truth would have it, whatever the pull missed of others and whatever
\* earlier runs left in plex_items: plex_sync.py, then attribution.py,
\* watch_state.py and candidates_db.py over what it left.
THEOREM CaughtIsJudged == PipeSpec => []CaughtIsJudgedRight
<1>1. PipeInv => CaughtIsJudgedRight
  <2> SUFFICES ASSUME PipeInv, phase = "done", stage = "ok", NEW a \in DOMAIN base.arr,
                      \A k \in TrueCopies(a) : Caught(k)
               PROVE  {r \in rows : r.arr = a} = {r \in TrueRows : r.arr = a}
    BY DEF CaughtIsJudgedRight
  <2>1. Twins(Truth, Mirrored, a)
    BY MirrorIsTwin DEF PipeInv
  <2>2. a # 0 /\ Truth.arr = base.arr
    BY PipeAssumption, TablesByParts DEF PipeInv, Truth
  <2>3. LET atu == D!Attribution(Truth)
            atv == D!Attribution(Mirrored)
        IN {r \in D!Candidates(Mirrored, atv, D!WatchState(Mirrored, atv)) : r.arr = a}
             = {r \in D!Candidates(Truth, atu, D!WatchState(Truth, atu)) : r.arr = a}
    BY <2>1, <2>2, TwinsAreJudged
  <2>4. /\ att = D!Attribution(Mirrored) /\ ws = D!WatchState(Mirrored, att)
        /\ rows = D!Candidates(Mirrored, att, ws)
    BY DEF PipeInv, RowsAreOfMirror
  <2> QED
    BY <2>3, <2>4 DEF TrueRows
<1> QED
  BY <1>1, PipeInvInit, PipeInvStep, PTL DEF PipeSpec
=============================================================================
