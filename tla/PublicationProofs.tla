-------------------------- MODULE PublicationProofs --------------------------
(***************************************************************************)
(* Theorems about Publication and Trend, for any number of runs to keep:   *)
(* the table of candidates is bounded, what is lost of it was pushed out   *)
(* by runs that were never published, the snapshots follow the latest run  *)
(* and the trends the cards.                                               *)
(***************************************************************************)
EXTENDS Trend, Functions, FiniteSetTheorems, WellFoundedInduction, TLAPS

-----------------------------------------------------------------------------
(* Finite sets of runs.                                                    *)


\* The naturals are well-founded: a set of runs has an oldest.
LEMMA LeastExists ==
  ASSUME NEW S, S \subseteq Nat, S # {}
  PROVE  \E x \in S : \A y \in S : x <= y
<1>1. PICK x \in S : \A y \in S : ~ (<<y, x>> \in OpToRel(<, Nat))
  BY NatLessThanWellFounded, WFMin
<1>2. ASSUME NEW y \in S PROVE x <= y
  <2>1. <<y, x>> \in Nat \X Nat
    OBVIOUS
  <2>2. ~ (y < x)
    BY <1>1, <2>1 DEF OpToRel
  <2> QED
    BY <2>2
<1> QED
  BY <1>2

Statuses == {"running", "succeeded", "partial", "failed"}
Places   == {"pulling", "computed", "snapped", "done", "dead"}

LEMMA RunsAreNats ==
  ASSUME PubTypeOK
  PROVE  /\ Runs = 1 .. Len(status) /\ Runs = DOMAIN pc /\ Len(status) \in Nat
         /\ Runs \subseteq Nat /\ IsFiniteSet(Runs)
         /\ Published \subseteq Runs /\ IsFiniteSet(Published)
         /\ stored \subseteq produced /\ produced \subseteq Runs
         /\ IsFiniteSet(produced) /\ IsFiniteSet(stored)
         /\ \A i \in Runs : status[i] \in Statuses /\ pc[i] \in Places
<1>1. Runs = 1 .. Len(status) /\ Runs = DOMAIN pc /\ Len(status) \in Nat
  BY DEF PubTypeOK, Runs
<1>2. Runs \subseteq Nat /\ IsFiniteSet(Runs)
  BY <1>1, FS_Interval
<1>3. Published \subseteq Runs /\ stored \subseteq produced /\ produced \subseteq Runs
  BY DEF Published, PubTypeOK
<1>4. IsFiniteSet(Published) /\ IsFiniteSet(produced) /\ IsFiniteSet(stored)
  BY <1>2, <1>3, FS_Subset
<1>5. \A i \in Runs : status[i] \in Statuses /\ pc[i] \in Places
  BY <1>1 DEF PubTypeOK, Statuses, Places
<1> QED
  BY <1>1, <1>2, <1>3, <1>4, <1>5

\* The newer ones of a finite set.
LEMMA NewerAreFinite ==
  ASSUME NEW ids, IsFiniteSet(ids), NEW i
  PROVE  /\ IsFiniteSet({j \in ids : j > i}) /\ Cardinality({j \in ids : j > i}) \in Nat
<1>1. {j \in ids : j > i} \in SUBSET ids
  OBVIOUS
<1> QED
  BY <1>1, FS_Subset, FS_CardinalityType

LEMMA LatestIsBounded ==
  ASSUME NEW ids \in SUBSET Nat, IsFiniteSet(ids), NEW n \in Nat
  PROVE  /\ Latest(ids, n) \in SUBSET ids /\ IsFiniteSet(Latest(ids, n))
         /\ Cardinality(Latest(ids, n)) \in Nat /\ Cardinality(Latest(ids, n)) <= n
<1>1. Latest(ids, n) \in SUBSET ids
  BY DEF Latest
<1>2. IsFiniteSet(Latest(ids, n)) /\ Cardinality(Latest(ids, n)) \in Nat
  BY <1>1, FS_Subset, FS_CardinalityType
<1>3. CASE Latest(ids, n) = {}
  BY <1>1, <1>2, <1>3, FS_EmptySet
<1>4. CASE Latest(ids, n) # {}
  <2> DEFINE L == Latest(ids, n)
  <2>1. PICK m \in L : \A j \in L : m <= j
    BY <1>1, <1>4, LeastExists
  <2> DEFINE N == {j \in ids : j > m}
  <2>2. m \in ids /\ Cardinality(N) < n /\ IsFiniteSet(N) /\ Cardinality(N) \in Nat
    BY <2>1, NewerAreFinite DEF Latest
  <2>3. L \ {m} \in SUBSET N
    <3>1. \A j \in L : j \in ids /\ j \in Nat /\ m \in Nat
      BY <1>1, <2>1
    <3> QED
      BY <2>1, <3>1
  <2>4. Cardinality(L \ {m}) = Cardinality(L) - 1
    BY <1>2, <2>1, FS_RemoveElement
  <2>5. Cardinality(L \ {m}) <= Cardinality(N)
    <3> HIDE DEF N, L
    <3> QED
      BY <2>2, <2>3, FS_Subset
  <2> HIDE DEF N
  <2> QED
    BY <1>1, <1>2, <2>2, <2>4, <2>5
<1> QED
  BY <1>3, <1>4

\* The newest of all is among the latest, and it alone is the latest one.
LEMMA NewestIsLatest ==
  ASSUME NEW ids \in SUBSET Nat, IsFiniteSet(ids), NEW i \in ids, \A j \in ids : j <= i,
         NEW n \in Nat \ {0}
  PROVE  i \in Latest(ids, n) /\ Latest(ids, 1) = {i}
<1>1. {j \in ids : j > i} = {}
  <2>1. ASSUME NEW j \in ids PROVE ~ (j > i)
    <3>1. j \in Nat /\ i \in Nat /\ j <= i
      OBVIOUS
    <3> QED
      BY <3>1
  <2> QED
    BY <2>1
<1>2. i \in Latest(ids, n) /\ i \in Latest(ids, 1)
  BY <1>1, FS_EmptySet DEF Latest
<1>3. ASSUME NEW j \in Latest(ids, 1), j # i PROVE FALSE
  <2>1. j \in ids /\ Cardinality({k \in ids : k > j}) < 1
    BY DEF Latest
  <2>2. IsFiniteSet({k \in ids : k > j}) /\ Cardinality({k \in ids : k > j}) \in Nat
    BY NewerAreFinite
  <2>3. {k \in ids : k > j} = {}
    BY <2>1, <2>2, FS_EmptySet
  <2>4. i > j
    BY <1>3, <2>1
  <2> QED
    BY <2>3, <2>4
<1> QED
  BY <1>2, <1>3

LEMMA NothingNewer ==
  ASSUME NEW ids \in SUBSET Nat, IsFiniteSet(ids), NEW i \in Latest(ids, 1)
  PROVE  i \in ids /\ {j \in ids : j > i} = {}
<1>1. i \in ids /\ Cardinality({j \in ids : j > i}) < 1
  BY DEF Latest
<1>2. IsFiniteSet({j \in ids : j > i}) /\ Cardinality({j \in ids : j > i}) \in Nat
  BY NewerAreFinite
<1> QED
  BY <1>1, <1>2, FS_EmptySet

-----------------------------------------------------------------------------
(* The inductive invariant.                                                *)

\* A run that follows the runs that had ended is the newest while it lasts.
AloneIsNewest ==
  ~overlap => \A i \in Runs : i \in Active => i = Len(status)

\* Rows are lost to Keep newer runs with rows, which can only become more.
LossInv ==
  \A i \in produced \ stored : Cardinality({j \in produced : j > i}) >= Keep

\* How far a run got, what the ledger says of it and whether it has a snapshot.
SnapInv ==
  /\ \A i \in Runs :
       /\ pc[i] \in {"pulling", "computed", "snapped"} => i \notin Published
       /\ pc[i] = "dead" => i \notin Published
       /\ pc[i] = "snapped" => i \in Range(snaps)
       /\ pc[i] = "done" => (i \in Published <=> i \in Range(snaps))
       /\ pc[i] \in {"pulling", "computed"} => i \notin Range(snaps)
  /\ ~overlap => \A i \in DOMAIN snaps : snaps[i] <= snaps[Len(snaps)]

PubInv ==
  /\ PubTypeOK /\ AloneIsNewest /\ LossInv /\ SnapInv /\ StoredIsBounded

\* What a run does after it began.
Move(i) ==
  Compute(i) \/ TakeSnapshot(i) \/ Publish(i) \/ FailRun(i) \/ FailClosing(i) \/ CrashRun(i)

LEMMA PubInvInit == PubInit => PubInv
<1> SUFFICES ASSUME PubInit PROVE PubInv
  OBVIOUS
<1>1. status = << >> /\ pc = << >> /\ produced = {} /\ stored = {} /\ snaps = << >>
      /\ overlap = FALSE /\ Runs = {} /\ Active = {}
  BY DEF PubInit, Runs, Active
<1>2. PubTypeOK
  <2>1. \A S : << >> \in Seq(S)
    OBVIOUS
  <2>2. status \in Seq(Statuses) /\ pc \in Seq(Places) /\ snaps \in Seq(Runs)
    BY <1>1, <2>1
  <2>3. Len(pc) = Len(status)
    BY <1>1
  <2> QED
    BY <1>1, <2>2, <2>3 DEF PubTypeOK, Statuses, Places
<1>3. AloneIsNewest /\ LossInv /\ SnapInv
  BY <1>1 DEF AloneIsNewest, LossInv, SnapInv
<1>4. StoredIsBounded
  BY <1>1, FS_EmptySet, PublicationAssumption DEF StoredIsBounded
<1> QED
  BY <1>2, <1>3, <1>4 DEF PubInv

\* A run moves alone: where it is and what is said of it changes, of no other.
LEMMA MoveIsLocal ==
  ASSUME PubTypeOK, NEW i \in Runs, Move(i)
  PROVE  /\ Runs' = Runs /\ Len(status') = Len(status) /\ overlap' = overlap
         /\ pc' \in Seq(Places) /\ status' \in Seq(Statuses) /\ Len(pc') = Len(pc)
         /\ \A j \in Runs \ {i} : pc'[j] = pc[j] /\ status'[j] = status[j]
         /\ i \in Active
         /\ \/ pc[i] = "pulling" /\ pc'[i] = "computed" /\ status'[i] = status[i]
            \/ pc[i] = "computed" /\ pc'[i] = "snapped" /\ status'[i] = status[i]
            \/ pc[i] = "snapped" /\ pc'[i] = "done" /\ status'[i] \in {"succeeded", "partial"}
            \/ pc[i] \in {"pulling", "computed"} /\ pc'[i] = "done" /\ status'[i] = "failed"
            \/ pc'[i] = "dead" /\ status'[i] \in {"failed", status[i]}
<1>1. i \in DOMAIN pc /\ i \in DOMAIN status /\ pc \in Seq(Places) /\ status \in Seq(Statuses)
  BY RunsAreNats DEF PubTypeOK, Runs, Places, Statuses
<1>2. PICK p \in Places : pc' = [pc EXCEPT ![i] = p]
  BY DEF Move, Compute, TakeSnapshot, Publish, FailRun, FailClosing, CrashRun, Places
<1>3. PICK v \in Statuses : status' = [status EXCEPT ![i] = v]
  <2>1. CASE status' = status
    BY <1>1, <2>1
  <2>2. CASE status' # status
    BY <2>2 DEF Move, Compute, TakeSnapshot, Publish, FailRun, FailClosing, CrashRun, Statuses
  <2> QED
    BY <2>1, <2>2
<1>4. pc' \in Seq(Places) /\ Len(pc') = Len(pc) /\ status' \in Seq(Statuses) /\ Len(status') = Len(status)
  BY <1>1, <1>2, <1>3
<1>5. Runs' = Runs
  BY <1>1, <1>3 DEF Runs
<1>6. i \in Active /\ overlap' = overlap
  BY DEF Move, Compute, TakeSnapshot, Publish, FailRun, FailClosing, CrashRun, Active
<1>7. \A j \in Runs \ {i} : pc'[j] = pc[j] /\ status'[j] = status[j]
  BY <1>1, <1>2, <1>3, RunsAreNats
<1>8. pc'[i] = p /\ status'[i] = v
  BY <1>1, <1>2, <1>3
<1>9. \/ pc[i] = "pulling" /\ pc'[i] = "computed" /\ status'[i] = status[i]
      \/ pc[i] = "computed" /\ pc'[i] = "snapped" /\ status'[i] = status[i]
      \/ pc[i] = "snapped" /\ pc'[i] = "done" /\ status'[i] \in {"succeeded", "partial"}
      \/ pc[i] \in {"pulling", "computed"} /\ pc'[i] = "done" /\ status'[i] = "failed"
      \/ pc'[i] = "dead" /\ status'[i] \in {"failed", status[i]}
  BY <1>1 DEF Move, Compute, TakeSnapshot, Publish, FailRun, FailClosing, CrashRun
<1> QED
  BY <1>4, <1>5, <1>6, <1>7, <1>9

LEMMA WiderSeq ==
  ASSUME NEW S, NEW T, S \subseteq T, NEW s \in Seq(S) PROVE s \in Seq(T)
OBVIOUS

\* What compute_candidates() leaves: no more than it found and its own rows.
LEMMA ComputedRows ==
  ASSUME PubTypeOK, NEW i \in Runs, Compute(i)
  PROVE  /\ produced \subseteq produced' /\ produced' \subseteq produced \cup {i}
         /\ \E rows \in {{}, {i}} :
              /\ produced' = produced \cup rows
              /\ stored' = Pruned(stored \cup rows, i)
              /\ stored \cup rows \in SUBSET Nat /\ IsFiniteSet(stored \cup rows)
              /\ stored \cup rows \subseteq produced'
         /\ stored' \subseteq produced'
<1>1. PICK rows \in {{}, {i}} : produced' = produced \cup rows /\ stored' = Pruned(stored \cup rows, i)
  BY DEF Compute
<1>2. IsFiniteSet(stored \cup rows) /\ stored \cup rows \in SUBSET Nat
  BY RunsAreNats, FS_Union, FS_EmptySet, FS_Singleton
<1>3. stored \cup rows \subseteq produced'
  BY <1>1, RunsAreNats
<1>4. stored' \subseteq stored \cup rows
  BY <1>1 DEF Pruned, Latest
<1> QED
  BY <1>1, <1>2, <1>3, <1>4

LEMMA TypeMove == ASSUME PubTypeOK, NEW i \in Runs, Move(i) PROVE PubTypeOK'
<1>1. /\ Runs' = Runs /\ pc' \in Seq(Places) /\ status' \in Seq(Statuses)
      /\ Len(pc') = Len(status') /\ overlap' \in BOOLEAN
  BY MoveIsLocal DEF PubTypeOK
<1>2. produced' \in SUBSET Runs /\ stored' \in SUBSET produced'
  <2>1. CASE Compute(i)
    BY <2>1, ComputedRows DEF PubTypeOK
  <2>2. CASE ~Compute(i)
    <3>1. produced' = produced /\ stored' = stored
      BY <2>2 DEF Move, TakeSnapshot, Publish, FailRun, FailClosing, CrashRun
    <3> QED
      BY <3>1 DEF PubTypeOK
  <2> QED
    BY <2>1, <2>2
<1>3. snaps' \in Seq(Runs)
  <2>1. snaps' = snaps \/ snaps' = Append(snaps, i)
    BY DEF Move, Compute, TakeSnapshot, Publish, FailRun, FailClosing, CrashRun
  <2>2. snaps \in Seq(Runs)
    BY DEF PubTypeOK
  <2>3. Append(snaps, i) \in Seq(Runs)
    BY <2>2
  <2> QED
    BY <2>1, <2>2, <2>3
<1> QED
  BY <1>1, <1>2, <1>3 DEF PubTypeOK, Places, Statuses

\* What a run that begins changes: it is the newest.
LEMMA StartAdds ==
  ASSUME PubTypeOK, StartRun
  PROVE  /\ Runs' = Runs \cup {Len(status) + 1} /\ Len(status') = Len(status) + 1
         /\ \A j \in Runs : pc'[j] = pc[j] /\ status'[j] = status[j]
         /\ pc'[Len(status) + 1] = "pulling" /\ status'[Len(status) + 1] = "running"
         /\ UNCHANGED <<produced, stored, snaps>>
         /\ PubTypeOK'
<1>1. /\ status' = Append(status, "running") /\ pc' = Append(pc, "pulling")
      /\ status \in Seq(Statuses) /\ pc \in Seq(Places) /\ Len(pc) = Len(status)
      /\ overlap' = (overlap \/ Active # {})
      /\ UNCHANGED <<produced, stored, snaps>>
  BY DEF StartRun, PubTypeOK, Statuses, Places
<1>2. /\ Len(status') = Len(status) + 1 /\ Len(pc') = Len(status')
      /\ status' \in Seq(Statuses) /\ pc' \in Seq(Places)
  BY <1>1 DEF Statuses, Places
<1>3. Runs' = Runs \cup {Len(status) + 1}
  BY <1>1, <1>2 DEF Runs
<1>4. \A j \in Runs : pc'[j] = pc[j] /\ status'[j] = status[j]
  BY <1>1, RunsAreNats
<1>5. pc'[Len(status) + 1] = "pulling" /\ status'[Len(status) + 1] = "running"
  BY <1>1
<1>6. overlap' \in BOOLEAN
  BY <1>1 DEF PubTypeOK
<1>7. snaps' \in Seq(Runs') /\ produced' \in SUBSET (Runs') /\ stored' \in SUBSET (produced')
  <2>1. snaps \in Seq(Runs) /\ Runs \subseteq Runs'
    BY <1>3 DEF PubTypeOK
  <2>2. snaps \in Seq(Runs')
    BY <2>1, WiderSeq
  <2> QED
    BY <1>1, <2>1, <2>2 DEF PubTypeOK
<1>8. PubTypeOK'
  BY <1>2, <1>6, <1>7 DEF PubTypeOK, Statuses, Places
<1> QED
  BY <1>1, <1>2, <1>3, <1>4, <1>5, <1>8

LEMMA MoveKeepsNewest ==
  ASSUME PubInv, NEW i \in Runs, Move(i) PROVE AloneIsNewest'
<1>1. /\ Runs' = Runs /\ overlap' = overlap /\ Len(status') = Len(status) /\ i \in Active
      /\ \A j \in Runs \ {i} : pc'[j] = pc[j]
  BY MoveIsLocal DEF PubInv
<1>2. \A j \in Runs : j \in Active' => j \in Active
  BY <1>1 DEF Active
<1> QED
  BY <1>1, <1>2 DEF PubInv, AloneIsNewest

\* Rows of other runs go only when Keep newer ones have rows.
LEMMA MoveLosesOld ==
  ASSUME PubInv, NEW i \in Runs, Move(i) PROVE LossInv'
<1>0. PubTypeOK /\ PubTypeOK' /\ LossInv
  BY TypeMove DEF PubInv
<1>1. CASE Compute(i)
  <2>1. PICK rows \in {{}, {i}} :
          /\ produced' = produced \cup rows /\ stored' = Pruned(stored \cup rows, i)
          /\ IsFiniteSet(stored \cup rows) /\ stored \cup rows \subseteq produced'
    BY <1>0, <1>1, ComputedRows
  <2>2. IsFiniteSet(produced')
    BY <1>0, RunsAreNats, <2>1, FS_Union, FS_EmptySet, FS_Singleton
  <2>3. ASSUME NEW k \in produced', k \notin stored'
        PROVE  Cardinality({j \in produced' : j > k}) >= Keep
    <3> DEFINE N == {j \in produced' : j > k}
    <3>1. IsFiniteSet(N) /\ Cardinality(N) \in Nat
      BY <2>2, NewerAreFinite
    <3>2. CASE k \in stored \cup rows
      <4> DEFINE M == {j \in stored \cup rows : j > k}
      <4>1. ~ (Cardinality(M) < Keep)
        BY <2>1, <2>3, <3>2 DEF Pruned, Latest
      <4>2. M \in SUBSET N
        BY <2>1
      <4>3. Cardinality(M) <= Cardinality(N)
        BY <3>1, <4>2, FS_Subset
      <4>4. Cardinality(M) \in Nat
        BY <2>1, NewerAreFinite
      <4> HIDE DEF M, N
      <4> QED
        BY <3>1, <4>1, <4>3, <4>4, PublicationAssumption DEF N
    <3>3. CASE k \notin stored \cup rows
      <4> DEFINE M == {j \in produced : j > k}
      <4>1. k \in produced \ stored
        BY <2>1, <3>3
      <4>2. Cardinality(M) >= Keep
        BY <1>0, <4>1 DEF LossInv
      <4>3. M \in SUBSET N
        BY <2>1
      <4>4. Cardinality(M) <= Cardinality(N) /\ Cardinality(M) \in Nat
        BY <3>1, <4>3, FS_Subset, FS_CardinalityType
      <4> HIDE DEF M, N
      <4> QED
        BY <3>1, <4>2, <4>4, PublicationAssumption DEF N
    <3> QED
      BY <3>2, <3>3
  <2> QED
    BY <2>3 DEF LossInv
<1>2. CASE ~Compute(i)
  <2>1. produced' = produced /\ stored' = stored
    BY <1>2 DEF Move, TakeSnapshot, Publish, FailRun, FailClosing, CrashRun
  <2> QED
    BY <1>0, <2>1 DEF LossInv
<1> QED
  BY <1>1, <1>2

LEMMA MoveKeepsBound ==
  ASSUME PubInv, NEW i \in Runs, Move(i) PROVE StoredIsBounded'
<1>0. PubTypeOK /\ Keep \in Nat \ {0} /\ Keep \in Nat
  BY PublicationAssumption DEF PubInv
<1>1. CASE Compute(i)
  <2>1. PICK rows \in {{}, {i}} :
          /\ produced' = produced \cup rows /\ stored' = Pruned(stored \cup rows, i)
          /\ stored \cup rows \in SUBSET Nat /\ IsFiniteSet(stored \cup rows)
    BY <1>0, <1>1, ComputedRows
  <2> DEFINE ids == stored \cup rows
             L   == Latest(ids, Keep)
  <2>2. /\ IsFiniteSet(L) /\ Cardinality(L) \in Nat /\ Cardinality(L) <= Keep
    BY <1>0, <2>1, LatestIsBounded
  <2>3. IsFiniteSet(L \cup {i}) /\ Cardinality(L \cup {i}) <= Keep + 1 /\ Cardinality(L \cup {i}) \in Nat
    <3>1. Cardinality(L \cup {i}) = IF i \in L THEN Cardinality(L) ELSE Cardinality(L) + 1
      BY <2>2, FS_AddElement
    <3>2. IsFiniteSet(L \cup {i})
      BY <2>2, FS_AddElement
    <3> HIDE DEF L
    <3> QED
      BY <1>0, <2>2, <3>1, <3>2
  <2>4. CASE overlap
    <3>1. stored' \in SUBSET (L \cup {i})
      BY <2>1 DEF Pruned
    <3>2. Cardinality(stored') <= Cardinality(L \cup {i}) /\ IsFiniteSet(stored')
      BY <2>3, <3>1, FS_Subset
    <3>3. Cardinality(stored') \in Nat
      BY <3>2, FS_CardinalityType
    <3>4. overlap'
      BY <2>4, <1>0, MoveIsLocal
    <3> HIDE DEF L
    <3> QED
      BY <1>0, <2>3, <3>2, <3>3, <3>4 DEF StoredIsBounded
  <2>5. CASE ~overlap
    <3>1. i = Len(status) /\ \A j \in ids : j <= i
      <4>1. i \in Active
        BY <1>0, MoveIsLocal
      <4>2. i = Len(status)
        BY <2>5, <4>1 DEF PubInv, AloneIsNewest
      <4>3. \A j \in ids : j \in 1 .. Len(status)
        BY <1>0, <2>1, RunsAreNats
      <4> QED
        BY <4>2, <4>3, <1>0, RunsAreNats
    <3>2. i \in ids => i \in L
      BY <1>0, <2>1, <3>1, NewestIsLatest
    <3>3. stored' = L
      BY <2>1, <3>2 DEF Pruned
    <3> HIDE DEF L
    <3> QED
      BY <1>0, <2>2, <3>3 DEF StoredIsBounded
  <2> QED
    BY <2>4, <2>5
<1>2. CASE ~Compute(i)
  <2>1. stored' = stored /\ overlap' = overlap
    BY <1>2 DEF Move, TakeSnapshot, Publish, FailRun, FailClosing, CrashRun
  <2> QED
    BY <2>1 DEF PubInv, StoredIsBounded
<1> QED
  BY <1>1, <1>2

LEMMA AppendRange ==
  ASSUME NEW S, NEW s \in Seq(S), NEW x
  PROVE  Range(Append(s, x)) = Range(s) \cup {x}
<1>1. \A y \in Range(s) : y \in Range(Append(s, x))
  <2>1. \A k \in DOMAIN s : k \in DOMAIN Append(s, x) /\ Append(s, x)[k] = s[k]
    OBVIOUS
  <2> QED
    BY <2>1 DEF Range
<1>2. x \in Range(Append(s, x))
  <2>1. Len(s) + 1 \in DOMAIN Append(s, x) /\ Append(s, x)[Len(s) + 1] = x
    OBVIOUS
  <2> QED
    BY <2>1 DEF Range
<1>3. \A y \in Range(Append(s, x)) : y = x \/ y \in Range(s)
  <2>1. \A k \in DOMAIN Append(s, x) : Append(s, x)[k] = x \/ (k \in DOMAIN s /\ Append(s, x)[k] = s[k])
    OBVIOUS
  <2> QED
    BY <2>1 DEF Range
<1> QED
  BY <1>1, <1>2, <1>3

LEMMA MoveKeepsSnaps ==
  ASSUME PubInv, NEW i \in Runs, Move(i) PROVE SnapInv'
<1>0. PubTypeOK /\ PubTypeOK' /\ snaps \in Seq(Runs)
  BY TypeMove DEF PubInv, PubTypeOK
<1>1. /\ Runs' = Runs /\ overlap' = overlap /\ i \in Active
      /\ \A j \in Runs \ {i} : pc'[j] = pc[j] /\ status'[j] = status[j]
  BY <1>0, MoveIsLocal
<1>2. \A j \in Runs : j \in Range(snaps') <=> j \in Range(snaps) \/ (j = i /\ TakeSnapshot(i))
  <2>1. CASE TakeSnapshot(i)
    BY <1>0, <2>1, AppendRange DEF TakeSnapshot
  <2>2. CASE ~TakeSnapshot(i)
    BY <2>2 DEF Move, Compute, Publish, FailRun, FailClosing, CrashRun
  <2> QED
    BY <2>1, <2>2
<1>3. \A j \in Runs : (j \in Published <=> status[j] \in {"succeeded", "partial"})
                      /\ (j \in Published' <=> status'[j] \in {"succeeded", "partial"})
  BY <1>1 DEF Published
<1>4. ASSUME NEW j \in Runs
      PROVE  /\ pc'[j] \in {"pulling", "computed", "snapped"} => j \notin Published'
             /\ pc'[j] = "dead" => j \notin Published'
             /\ pc'[j] = "snapped" => j \in Range(snaps')
             /\ pc'[j] = "done" => (j \in Published' <=> j \in Range(snaps'))
             /\ pc'[j] \in {"pulling", "computed"} => j \notin Range(snaps')
  <2>0. /\ pc[j] \in {"pulling", "computed", "snapped"} => j \notin Published
        /\ pc[j] = "dead" => j \notin Published
        /\ pc[j] = "snapped" => j \in Range(snaps)
        /\ pc[j] = "done" => (j \in Published <=> j \in Range(snaps))
        /\ pc[j] \in {"pulling", "computed"} => j \notin Range(snaps)
    BY DEF PubInv, SnapInv
  <2>1. CASE j # i
    BY <1>1, <1>2, <1>3, <2>0, <2>1
  <2>2. CASE j = i
    <3>0. j \in DOMAIN pc /\ j \in DOMAIN status
      BY <1>0, RunsAreNats DEF Runs
    <3>p. \A p, v : /\ pc' = [pc EXCEPT ![i] = p] => pc'[j] = p
                    /\ status' = [status EXCEPT ![i] = v] => status'[j] = v
      BY <2>2, <3>0
    <3>1. CASE Compute(i)
      <4>1. pc'[j] = "computed" /\ status' = status /\ pc[j] = "pulling" /\ ~TakeSnapshot(i)
        BY <2>2, <3>p, <3>1 DEF Compute, TakeSnapshot
      <4> QED
        BY <1>2, <1>3, <2>0, <4>1
    <3>2. CASE TakeSnapshot(i)
      <4>1. pc'[j] = "snapped" /\ status' = status /\ pc[j] = "computed"
        BY <2>2, <3>p, <3>2 DEF TakeSnapshot
      <4> QED
        BY <1>2, <1>3, <2>0, <2>2, <3>2, <4>1
    <3>3. CASE Publish(i)
      <4>1. pc'[j] = "done" /\ status'[j] \in {"succeeded", "partial"} /\ pc[j] = "snapped"
        BY <2>2, <3>p, <3>3 DEF Publish
      <4> QED
        BY <1>2, <1>3, <2>0, <4>1
    <3>4. CASE FailRun(i)
      <4>1. /\ pc'[j] = "done" /\ status'[j] = "failed" /\ pc[j] \in {"pulling", "computed"}
        BY <2>2, <3>p, <3>4 DEF FailRun
      <4>2. ~TakeSnapshot(i)
        BY <2>2, <3>p, <4>1 DEF TakeSnapshot
      <4> QED
        BY <1>2, <1>3, <2>0, <4>1, <4>2
    <3>5. CASE FailClosing(i)
      <4>1. pc'[j] = "dead" /\ status'[j] = "failed"
        BY <2>2, <3>p, <3>5 DEF FailClosing
      <4> QED
        BY <1>3, <4>1
    <3>6. CASE CrashRun(i)
      <4>1. pc'[j] = "dead" /\ status' = status /\ pc[j] \in {"pulling", "computed", "snapped"}
        BY <2>2, <3>p, <3>6 DEF CrashRun, Active
      <4> QED
        BY <1>3, <2>0, <4>1
    <3> QED
      BY <3>1, <3>2, <3>3, <3>4, <3>5, <3>6 DEF Move
  <2> QED
    BY <2>1, <2>2
<1>5. ~overlap' => \A k \in DOMAIN snaps' : snaps'[k] <= snaps'[Len(snaps')]
  <2>1. CASE TakeSnapshot(i)
    <3> SUFFICES ASSUME ~overlap', NEW k \in DOMAIN snaps'
                 PROVE  snaps'[k] <= snaps'[Len(snaps')]
      OBVIOUS
    <3>1. i = Len(status)
      BY <1>1 DEF PubInv, AloneIsNewest
    <3>2. snaps' \in Seq(Runs) /\ Runs = 1 .. Len(status) /\ Len(status) \in Nat
      BY <1>0, <1>1, RunsAreNats DEF PubTypeOK
    <3>3. snaps'[Len(snaps')] = i
      BY <1>0, <2>1 DEF TakeSnapshot
    <3>4. snaps'[k] \in 1 .. Len(status)
      BY <3>2
    <3> QED
      BY <3>1, <3>2, <3>3, <3>4
  <2>2. CASE ~TakeSnapshot(i)
    <3>1. snaps' = snaps
      BY <2>2 DEF Move, Compute, Publish, FailRun, FailClosing, CrashRun
    <3> QED
      BY <1>1, <3>1 DEF PubInv, SnapInv
  <2> QED
    BY <2>1, <2>2
<1> QED
  BY <1>1, <1>4, <1>5 DEF SnapInv

\* A run that begins is the newest, alone unless others are in flight.
LEMMA StartKeepsInv == ASSUME PubInv, StartRun PROVE PubInv'
<1> DEFINE n == Len(status) + 1
<1>1. /\ Runs' = Runs \cup {n} /\ Len(status') = n
      /\ \A j \in Runs : pc'[j] = pc[j] /\ status'[j] = status[j]
      /\ pc'[n] = "pulling" /\ status'[n] = "running"
      /\ UNCHANGED <<produced, stored, snaps>> /\ PubTypeOK' /\ PubTypeOK
      /\ overlap' = (overlap \/ Active # {})
  BY StartAdds DEF PubInv, StartRun
<1> HIDE DEF n
<1>2. AloneIsNewest'
  <2> SUFFICES ASSUME ~overlap', NEW i \in Runs', i \in Active' PROVE i = Len(status')
    BY DEF AloneIsNewest
  <2>1. Active = {}
    BY <1>1
  <2>2. CASE i \in Runs
    <3>1. i \in Active
      BY <1>1, <2>2 DEF Active
    <3> QED
      BY <2>1, <3>1
  <2> QED
    BY <1>1, <2>2
<1>3. LossInv'
  BY <1>1 DEF PubInv, LossInv
<1>4. StoredIsBounded'
  <2>1. overlap => overlap'
    BY <1>1
  <2>2. Cardinality(stored) \in Nat
    BY <1>1, RunsAreNats, FS_CardinalityType
  <2> QED
    BY <1>1, <2>1, <2>2, PublicationAssumption DEF PubInv, StoredIsBounded
<1>5. SnapInv'
  <2>1. \A j \in Runs' : j \in Published' <=> (j \in Runs /\ j \in Published)
    BY <1>1 DEF Published
  <2>2. n \notin Range(snaps')
    <3>1. Range(snaps) \subseteq Runs
      BY <1>1 DEF PubTypeOK, Range
    <3>2. n \notin Runs
      BY <1>1, RunsAreNats DEF n
    <3> QED
      BY <1>1, <3>1, <3>2
  <2>3. ASSUME NEW j \in Runs'
        PROVE  /\ pc'[j] \in {"pulling", "computed", "snapped"} => j \notin Published'
               /\ pc'[j] = "dead" => j \notin Published'
               /\ pc'[j] = "snapped" => j \in Range(snaps')
               /\ pc'[j] = "done" => (j \in Published' <=> j \in Range(snaps'))
               /\ pc'[j] \in {"pulling", "computed"} => j \notin Range(snaps')
    <3>1. CASE j \in Runs
      BY <1>1, <2>1, <3>1 DEF PubInv, SnapInv
    <3>2. CASE j \notin Runs
      BY <1>1, <2>1, <2>2, <3>2
    <3> QED
      BY <3>1, <3>2
  <2>4. ~overlap' => \A k \in DOMAIN snaps' : snaps'[k] <= snaps'[Len(snaps')]
    BY <1>1 DEF PubInv, SnapInv
  <2> QED
    BY <2>3, <2>4 DEF SnapInv
<1> QED
  BY <1>1, <1>2, <1>3, <1>4, <1>5 DEF PubInv

LEMMA PubInvariant == PubSpec => []PubInv
<1>1. ASSUME PubInv, [PubNext]_pubVars PROVE PubInv'
  <2>1. CASE UNCHANGED pubVars
    BY <1>1, <2>1 DEF pubVars, PubInv, PubTypeOK, AloneIsNewest, LossInv, SnapInv, StoredIsBounded,
                      Runs, Active, Published
  <2>2. CASE StartRun
    BY <1>1, <2>2, StartKeepsInv
  <2>3. ASSUME NEW i \in Runs, Move(i) PROVE PubInv'
    <3>1. PubTypeOK'
      BY <1>1, <2>3, TypeMove DEF PubInv
    <3> QED
      BY <1>1, <2>3, <3>1, MoveKeepsNewest, MoveLosesOld, MoveKeepsBound, MoveKeepsSnaps DEF PubInv
  <2> QED
    BY <1>1, <2>1, <2>2, <2>3 DEF PubNext, Move
<1> QED
  BY <1>1, PubInvInit, PTL DEF PubSpec

\* The types of the ledgers and tables (candidates_db.py, snapshots.py).
THEOREM PubTypeCorrect == PubSpec => []PubTypeOK
<1>1. PubInv => PubTypeOK
  BY DEF PubInv
<1> QED
  BY <1>1, PubInvariant, PTL

\* The candidates table does not grow (_prune_old_runs() of candidates_db.py).
THEOREM CandidatesAreBounded == PubSpec => []StoredIsBounded
<1>1. PubInv => StoredIsBounded
  BY DEF PubInv
<1> QED
  BY <1>1, PubInvariant, PTL

LEMMA LossFromInv == PubInv => LossNeedsFailures
<1> SUFFICES ASSUME PubInv, NEW i \in LatestRun \cap produced, i \notin stored
             PROVE  Cardinality({j \in produced : j > i /\ j \notin Published}) >= Keep
  BY DEF LossNeedsFailures
<1>1. i \in Published /\ {j \in Published : j > i} = {}
  BY RunsAreNats, NothingNewer DEF PubInv, LatestRun
<1>2. {j \in produced : j > i /\ j \notin Published} = {j \in produced : j > i}
  BY <1>1
<1> QED
  BY <1>2 DEF PubInv, LossInv

\* The candidates on the dashboards disappear only to Keep newer runs that
\* computed theirs and were never published (compute_candidates(), latest_run()).
THEOREM LossesNeedFailures == PubSpec => []LossNeedsFailures
<1> QED
  BY LossFromInv, PubInvariant, PTL

LEMMA SnapshotFromInv == PubInv => SnapshotIsOfLatest
<1> SUFFICES ASSUME PubInv, Active = {}, \A i \in Runs : pc[i] # "dead", ~overlap, snaps # << >>
             PROVE  LatestRun = {snaps[Len(snaps)]}
  BY DEF SnapshotIsOfLatest
<1> DEFINE last == snaps[Len(snaps)]
<1>1. Len(snaps) \in DOMAIN snaps /\ last \in Runs /\ last \in Range(snaps)
  <2>1. snaps \in Seq(Runs)
    BY DEF PubInv, PubTypeOK
  <2>2. Len(snaps) \in DOMAIN snaps /\ last \in Runs
    BY <2>1
  <2> QED
    BY <2>2 DEF Range
<1>2. \A j \in Runs : pc[j] = "done"
  BY RunsAreNats DEF PubInv, Active, Places
<1>3. \A j \in Runs : j \in Published <=> j \in Range(snaps)
  BY <1>2 DEF PubInv, SnapInv
<1>4. \A j \in Published : j <= last
  <2>1. Published \subseteq Runs
    BY DEF Published
  <2> QED
    BY <1>3, <2>1 DEF Range, PubInv, SnapInv
<1> HIDE DEF last
<1>5. LatestRun = {last}
  <2>1. Published \in SUBSET Nat /\ IsFiniteSet(Published) /\ last \in Published
    BY <1>1, <1>3, RunsAreNats DEF PubInv
  <2> QED
    BY <1>4, <2>1, NewestIsLatest DEF LatestRun
<1> QED
  BY <1>5 DEF last

\* The trend strip and the cards agree once everything has come to an end
\* (take_snapshot(), latest_run()).
THEOREM SnapshotsAreOfLatest == PubSpec => []SnapshotIsOfLatest
<1> QED
  BY SnapshotFromInv, PubInvariant, PTL

-----------------------------------------------------------------------------
(* The trends.                                                             *)

\* The runs of Trend are those of Publication, so what is proved of these holds
\* of them (take_snapshot(), compute_candidates()).
THEOREM TrendsPublish == TrendSpec => PubSpec
<1>1. TrendInit => PubInit
  BY DEF TrendInit
<1>2. [TrendNext]_trendVars => [PubNext]_pubVars
  <2>1. CASE UNCHANGED trendVars
    BY <2>1 DEF trendVars
  <2>2. CASE TrendNext
    BY <2>2 DEF TrendNext, TrendStart, TrendCompute, TrendSnapshot, TrendEnd, PubNext
  <2> QED
    BY <2>1, <2>2
<1> QED
  BY <1>1, <1>2, PTL DEF TrendSpec, PubSpec

Points == [run : Nat, count : Nat]

\* The points of one reason are those of the runs in S that have rows of it, one
\* for each, and the runs are in order.
Follows(p, r, S, f) ==
  /\ \A k \in DOMAIN p : p[k].run \in S /\ p[k].count = f[p[k].run][r] /\ Counts(r, p[k].count)
  /\ \A j \in S : Counts(r, f[j][r]) => \E k \in DOMAIN p : p[k].run = j
  /\ \A k, m \in DOMAIN p : k < m => p[k].run < p[m].run

TrendTypeOK ==
  /\ found \in Seq([Keys -> Nat]) /\ Len(found) = Len(status)
  /\ points \in [Keys -> Seq(Points)]

\* A run without rows found none, and one that pulls has none yet.
FoundInv ==
  \A i \in Runs :
    /\ i \notin produced => found[i] = Nothing
    /\ pc[i] = "pulling" => i \notin produced

\* Nobody prunes the rows of a run that is alone before they are counted.
KeptInv ==
  ~overlap => \A i \in Runs : pc[i] = "computed" /\ i \in produced => i \in stored

PointInv ==
  ~overlap => \A r \in Keys : Follows(points[r], r, Range(snaps), found)

TrendInv == TrendTypeOK /\ FoundInv /\ KeptInv /\ PointInv

LEMMA NothingIsNothing == Nothing \in [Keys -> Nat] /\ \A r \in Keys : Nothing[r] = 0
BY DEF Nothing

LEMMA FollowsSame ==
  ASSUME NEW p, NEW r, NEW S, NEW f, NEW g, Follows(p, r, S, f), \A j \in S : g[j] = f[j]
  PROVE  Follows(p, r, S, g)
BY DEF Follows

LEMMA FollowsNone ==
  ASSUME NEW p, NEW r, NEW S, NEW f, NEW i, Follows(p, r, S, f), ~Counts(r, f[i][r])
  PROVE  Follows(p, r, S \cup {i}, f)
BY DEF Follows

LEMMA FollowsMore ==
  ASSUME NEW p \in Seq(Points), NEW r, NEW S \in SUBSET Nat, NEW f, NEW i \in Nat,
         \A j \in S : j < i, Follows(p, r, S, f), f[i][r] \in Nat, Counts(r, f[i][r])
  PROVE  Follows(Append(p, [run |-> i, count |-> f[i][r]]), r, S \cup {i}, f)
<1> DEFINE x == [run |-> i, count |-> f[i][r]]
           q == Append(p, x)
           n == Len(p)
<1>1. /\ DOMAIN p = 1 .. n /\ DOMAIN q = 1 .. n + 1 /\ n \in Nat
      /\ \A k \in 1 .. n : q[k] = p[k]
      /\ q[n + 1] = x
  BY DEF Points
<1>2. x.run = i /\ x.count = f[i][r]
  OBVIOUS
<1> HIDE DEF x, q, n
<1>3. \A k \in DOMAIN q : k \in DOMAIN p \/ k = n + 1
  BY <1>1
<1>4. ASSUME NEW k \in DOMAIN q
      PROVE  q[k].run \in S \cup {i} /\ q[k].count = f[q[k].run][r] /\ Counts(r, q[k].count)
  <2>1. CASE k \in DOMAIN p
    BY <1>1, <2>1 DEF Follows
  <2>2. CASE k = n + 1
    BY <1>1, <1>2, <2>2
  <2> QED
    BY <1>3, <2>1, <2>2
<1>5. ASSUME NEW j \in S \cup {i}, Counts(r, f[j][r]) PROVE \E k \in DOMAIN q : q[k].run = j
  <2>1. CASE j = i
    <3>1. n + 1 \in DOMAIN q
      BY <1>1
    <3> QED
      BY <1>1, <1>2, <2>1, <3>1
  <2>2. CASE j # i
    <3>1. PICK k \in DOMAIN p : p[k].run = j
      BY <1>5, <2>2 DEF Follows
    <3>2. k \in DOMAIN q /\ q[k] = p[k]
      BY <1>1, <3>1
    <3> QED
      BY <3>1, <3>2
  <2> QED
    BY <2>1, <2>2
<1>6. ASSUME NEW k \in DOMAIN q, NEW m \in DOMAIN q, k < m PROVE q[k].run < q[m].run
  <2>1. k \in DOMAIN p /\ q[k] = p[k]
    BY <1>1, <1>6
  <2>2. CASE m \in DOMAIN p
    BY <1>1, <1>6, <2>1, <2>2 DEF Follows
  <2>3. CASE m = n + 1
    <3>1. p[k].run \in S
      BY <2>1 DEF Follows
    <3> QED
      BY <1>1, <1>2, <2>1, <2>3, <3>1
  <2> QED
    BY <1>3, <2>2, <2>3
<1>7. Follows(q, r, S \cup {i}, f)
  BY <1>4, <1>5, <1>6 DEF Follows
<1> QED
  BY <1>7 DEF q, x

LEMMA TrendInvInit == TrendInit => TrendInv
<1> SUFFICES ASSUME TrendInit PROVE TrendInv
  OBVIOUS
<1>1. /\ status = << >> /\ produced = {} /\ snaps = << >> /\ found = << >>
      /\ points = [r \in Keys |-> << >>]
  BY DEF TrendInit, PubInit
<1>2. Runs = {} /\ Range(snaps) = {}
  BY <1>1 DEF Runs, Range
<1>3. TrendTypeOK
  BY <1>1 DEF TrendTypeOK
<1>4. \A r \in Keys : points[r] = << >>
  BY <1>1
<1>5. PointInv
  BY <1>2, <1>4 DEF PointInv, Follows
<1> QED
  BY <1>2, <1>3, <1>5 DEF TrendInv, FoundInv, KeptInv

LEMMA TrendStartKeepsInv ==
  ASSUME PubInv, TrendInv, TrendStart PROVE TrendInv'
<1> DEFINE n == Len(status) + 1
<1>1. /\ Runs' = Runs \cup {n} /\ Len(status') = n
      /\ \A j \in Runs : pc'[j] = pc[j]
      /\ pc'[n] = "pulling"
      /\ UNCHANGED <<produced, stored, snaps>> /\ PubTypeOK
      /\ overlap' = (overlap \/ Active # {})
  BY StartAdds DEF PubInv, TrendStart, StartRun
<1>2. Runs = 1 .. Len(status) /\ Len(status) \in Nat /\ produced \subseteq Runs /\ n \notin Runs
  BY <1>1, RunsAreNats
<1>3. found \in Seq([Keys -> Nat]) /\ Len(found) = Len(status) /\ found' = Append(found, Nothing)
      /\ points' = points
  BY DEF TrendInv, TrendTypeOK, TrendStart
<1>4. found' \in Seq([Keys -> Nat]) /\ Len(found') = n
  BY <1>3, NothingIsNothing
<1>5. found'[n] = Nothing /\ \A j \in Runs : found'[j] = found[j]
  BY <1>2, <1>3, NothingIsNothing
<1> HIDE DEF n
<1>6. TrendTypeOK'
  BY <1>1, <1>3, <1>4 DEF TrendInv, TrendTypeOK
<1>7. FoundInv'
  <2> SUFFICES ASSUME NEW i \in Runs'
               PROVE  /\ i \notin produced' => found'[i] = Nothing
                      /\ pc'[i] = "pulling" => i \notin produced'
    BY DEF FoundInv
  <2>1. CASE i \in Runs
    BY <1>1, <1>5, <2>1 DEF TrendInv, FoundInv
  <2>2. CASE i = n
    BY <1>1, <1>2, <1>5, <2>2
  <2> QED
    BY <1>1, <2>1, <2>2
<1>8. KeptInv'
  BY <1>1 DEF TrendInv, KeptInv
<1>9. PointInv'
  <2> SUFFICES ASSUME ~overlap', NEW r \in Keys PROVE Follows(points'[r], r, Range(snaps'), found')
    BY DEF PointInv
  <2>1. Follows(points[r], r, Range(snaps), found)
    BY <1>1 DEF TrendInv, PointInv
  <2>2. \A j \in Range(snaps) : found'[j] = found[j]
    BY <1>1, <1>5 DEF PubTypeOK, Range
  <2> QED
    BY <1>1, <1>3, <2>1, <2>2, FollowsSame
<1> QED
  BY <1>6, <1>7, <1>8, <1>9 DEF TrendInv

LEMMA TrendComputeKeepsInv ==
  ASSUME PubInv, TrendInv, NEW i \in Runs, TrendCompute(i) PROVE TrendInv'
<1>1. /\ Runs' = Runs /\ Len(status') = Len(status) /\ overlap' = overlap /\ i \in Active
      /\ \A j \in Runs \ {i} : pc'[j] = pc[j]
      /\ pc[i] = "pulling" /\ pc'[i] = "computed" /\ snaps' = snaps /\ points' = points
  <2>1. PubTypeOK /\ Compute(i) /\ Move(i)
    BY DEF PubInv, TrendCompute, Move
  <2>2. pc[i] = "pulling" /\ snaps' = snaps /\ pc' = [pc EXCEPT ![i] = "computed"]
    BY <2>1 DEF Compute
  <2>3. i \in DOMAIN pc
    BY <2>1, RunsAreNats
  <2> QED
    BY <2>1, <2>2, <2>3, MoveIsLocal DEF TrendCompute
<1>2. PICK c \in Numbers : (c[Total] # 0 <=> i \in produced') /\ found' = [found EXCEPT ![i] = c]
  BY DEF TrendCompute
<1>3. PICK rows \in {{}, {i}} : produced' = produced \cup rows /\ stored' = Pruned(stored \cup rows, i)
  BY DEF TrendCompute, Compute
<1>4. /\ Runs = 1 .. Len(status) /\ found \in Seq([Keys -> Nat]) /\ Len(found) = Len(status)
      /\ PubTypeOK
  BY RunsAreNats DEF TrendInv, TrendTypeOK, PubInv
<1>5. c \in [Keys -> Nat] /\ (c[Total] = 0 => c = Nothing)
  <2>1. c \in [Keys -> 0 .. MaxRows] /\ (c[Total] = 0 => \A r \in Keys : c[r] = 0)
    BY DEF Numbers, Keys
  <2> QED
    BY <2>1, TrendAssumption DEF Nothing
<1>6. /\ found' \in Seq([Keys -> Nat]) /\ Len(found') = Len(found)
      /\ found'[i] = c /\ \A j \in Runs \ {i} : found'[j] = found[j]
  BY <1>2, <1>4, <1>5
<1>7. TrendTypeOK'
  BY <1>1, <1>4, <1>6 DEF TrendInv, TrendTypeOK
<1>8. FoundInv'
  <2> SUFFICES ASSUME NEW j \in Runs
               PROVE  /\ j \notin produced' => found'[j] = Nothing
                      /\ pc'[j] = "pulling" => j \notin produced'
    BY <1>1 DEF FoundInv
  <2>1. CASE j = i
    BY <1>1, <1>2, <1>5, <1>6, <2>1
  <2>2. CASE j # i
    BY <1>1, <1>3, <1>6, <2>2 DEF TrendInv, FoundInv
  <2> QED
    BY <2>1, <2>2
<1>9. KeptInv'
  <2> SUFFICES ASSUME ~overlap', NEW j \in Runs, pc'[j] = "computed", j \in produced' PROVE j \in stored'
    BY <1>1 DEF KeptInv
  <2>1. j = i
    <3>1. CASE j # i
      <4>1. j \in Active
        BY <1>1, <3>1 DEF Active
      <4>2. j = Len(status) /\ i = Len(status)
        BY <1>1, <4>1 DEF PubInv, AloneIsNewest
      <4> QED
        BY <3>1, <4>2
    <3> QED
      BY <3>1
  <2>2. i \in rows
    BY <1>1, <1>3, <2>1 DEF TrendInv, FoundInv
  <2> QED
    BY <1>3, <2>1, <2>2 DEF Pruned
<1>10. PointInv'
  <2> SUFFICES ASSUME ~overlap', NEW r \in Keys PROVE Follows(points'[r], r, Range(snaps'), found')
    BY DEF PointInv
  <2>1. Follows(points[r], r, Range(snaps), found)
    BY <1>1 DEF TrendInv, PointInv
  <2>2. i \notin Range(snaps) /\ Range(snaps) \subseteq Runs
    BY <1>1 DEF PubInv, SnapInv, PubTypeOK, Range
  <2>3. \A j \in Range(snaps) : found'[j] = found[j]
    BY <1>6, <2>2
  <2> QED
    BY <1>1, <2>1, <2>3, FollowsSame
<1> QED
  BY <1>7, <1>8, <1>9, <1>10 DEF TrendInv

LEMMA TrendSnapshotKeepsInv ==
  ASSUME PubInv, TrendInv, NEW i \in Runs, TrendSnapshot(i) PROVE TrendInv'
<1>1. /\ Runs' = Runs /\ Len(status') = Len(status) /\ overlap' = overlap /\ i \in Active
      /\ \A j \in Runs \ {i} : pc'[j] = pc[j]
      /\ pc[i] = "computed" /\ pc'[i] = "snapped" /\ snaps' = Append(snaps, i)
      /\ UNCHANGED <<produced, stored, found>>
  <2>1. PubTypeOK /\ TakeSnapshot(i) /\ Move(i)
    BY DEF PubInv, TrendSnapshot, Move
  <2>2. /\ pc[i] = "computed" /\ snaps' = Append(snaps, i) /\ pc' = [pc EXCEPT ![i] = "snapped"]
        /\ UNCHANGED <<produced, stored, found>>
    BY <2>1 DEF TakeSnapshot, TrendSnapshot
  <2>3. i \in DOMAIN pc
    BY <2>1, RunsAreNats
  <2> QED
    BY <2>1, <2>2, <2>3, MoveIsLocal
<1>2. /\ Runs = 1 .. Len(status) /\ Len(status) \in Nat /\ Runs \subseteq Nat
      /\ snaps \in Seq(Runs) /\ Range(snaps) \subseteq Runs
  BY RunsAreNats DEF PubInv, PubTypeOK, Range
<1>3. /\ found \in Seq([Keys -> Nat]) /\ Len(found) = Len(status)
      /\ points \in [Keys -> Seq(Points)]
  BY DEF TrendInv, TrendTypeOK
<1>4. found[i] \in [Keys -> Nat] /\ Shown(i) \in [Keys -> Nat]
  BY <1>2, <1>3, NothingIsNothing DEF Shown
<1>5. \A r \in Keys : points'[r] = IF Counts(r, Shown(i)[r])
                                   THEN Append(points[r], [run |-> i, count |-> Shown(i)[r]])
                                   ELSE points[r]
  BY DEF TrendSnapshot
<1>6. points' \in [Keys -> Seq(Points)]
  <2>1. \A r \in Keys : points[r] \in Seq(Points) /\ [run |-> i, count |-> Shown(i)[r]] \in Points
    BY <1>2, <1>3, <1>4 DEF Points
  <2>2. ASSUME NEW r \in Keys PROVE points'[r] \in Seq(Points)
    <3> DEFINE x == [run |-> i, count |-> Shown(i)[r]]
    <3>1. points[r] \in Seq(Points) /\ x \in Points
      BY <2>1
    <3> HIDE DEF x
    <3>2. Append(points[r], x) \in Seq(Points)
      BY <3>1
    <3>3. points'[r] = Append(points[r], x) \/ points'[r] = points[r]
      BY <1>5 DEF x
    <3> QED
      BY <3>1, <3>2, <3>3
  <2>3. points' = [r \in Keys |-> points'[r]]
    BY DEF TrendSnapshot
  <2> QED
    BY <2>2, <2>3
<1>7. TrendTypeOK'
  BY <1>1, <1>3, <1>6 DEF TrendTypeOK
<1>8. FoundInv' /\ KeptInv'
  <2> SUFFICES ASSUME NEW j \in Runs
               PROVE  /\ j \notin produced => found[j] = Nothing
                      /\ pc'[j] = "pulling" => j \notin produced
                      /\ ~overlap /\ pc'[j] = "computed" /\ j \in produced => j \in stored
    BY <1>1 DEF FoundInv, KeptInv
  <2> QED
    BY <1>1 DEF TrendInv, FoundInv, KeptInv
<1>9. PointInv'
  <2> SUFFICES ASSUME ~overlap, NEW r \in Keys PROVE Follows(points'[r], r, Range(snaps'), found)
    BY <1>1 DEF PointInv
  <2>1. Follows(points[r], r, Range(snaps), found) /\ points[r] \in Seq(Points)
    BY <1>3 DEF TrendInv, PointInv
  <2>2. Range(snaps') = Range(snaps) \cup {i}
    BY <1>1, <1>2, AppendRange
  <2>3. Shown(i) = found[i]
    BY <1>1 DEF Shown, TrendInv, FoundInv, KeptInv
  <2>4. \A j \in Range(snaps) : j < i
    <3>1. i = Len(status) /\ i \notin Range(snaps)
      BY <1>1 DEF PubInv, AloneIsNewest, SnapInv
    <3> QED
      BY <1>2, <3>1
  <2>5. i \in Nat /\ Range(snaps) \in SUBSET Nat /\ found[i][r] \in Nat
    BY <1>2, <1>4
  <2>6. CASE Counts(r, found[i][r])
    <3>1. points'[r] = Append(points[r], [run |-> i, count |-> found[i][r]])
      BY <1>5, <2>3, <2>6
    <3> QED
      BY <2>1, <2>2, <2>4, <2>5, <2>6, <3>1, FollowsMore
  <2>7. CASE ~Counts(r, found[i][r])
    <3>1. points'[r] = points[r]
      BY <1>5, <2>3, <2>7
    <3> QED
      BY <2>1, <2>2, <2>7, <3>1, FollowsNone
  <2> QED
    BY <2>6, <2>7
<1> QED
  BY <1>7, <1>8, <1>9 DEF TrendInv

LEMMA TrendEndKeepsInv ==
  ASSUME PubInv, TrendInv, NEW i \in Runs, TrendEnd(i) PROVE TrendInv'
<1>1. /\ Runs' = Runs /\ Len(status') = Len(status) /\ overlap' = overlap
      /\ \A j \in Runs \ {i} : pc'[j] = pc[j]
      /\ pc'[i] \in {"done", "dead"}
      /\ UNCHANGED <<produced, stored, snaps, found, points>>
  <2>1. PubTypeOK /\ Move(i)
    BY DEF PubInv, TrendEnd, Move
  <2>2. /\ pc' = [pc EXCEPT ![i] = "done"] \/ pc' = [pc EXCEPT ![i] = "dead"]
        /\ UNCHANGED <<produced, stored, snaps, found, points>>
    BY DEF TrendEnd, Publish, FailRun, FailClosing, CrashRun
  <2>3. i \in DOMAIN pc
    BY <2>1, RunsAreNats
  <2> QED
    BY <2>1, <2>2, <2>3, MoveIsLocal
<1>2. TrendTypeOK'
  BY <1>1 DEF TrendInv, TrendTypeOK
<1>3. FoundInv' /\ KeptInv'
  <2> SUFFICES ASSUME NEW j \in Runs
               PROVE  /\ j \notin produced => found[j] = Nothing
                      /\ pc'[j] = "pulling" => j \notin produced
                      /\ ~overlap /\ pc'[j] = "computed" /\ j \in produced => j \in stored
    BY <1>1 DEF FoundInv, KeptInv
  <2>1. CASE j = i
    BY <1>1, <2>1 DEF TrendInv, FoundInv
  <2>2. CASE j # i
    BY <1>1, <2>2 DEF TrendInv, FoundInv, KeptInv
  <2> QED
    BY <2>1, <2>2
<1>4. PointInv'
  BY <1>1 DEF TrendInv, PointInv
<1> QED
  BY <1>2, <1>3, <1>4 DEF TrendInv

LEMMA TrendInvariant == TrendSpec => [](PubInv /\ TrendInv)
<1>1. ASSUME PubInv, TrendInv, [TrendNext]_trendVars PROVE TrendInv'
  <2>1. CASE UNCHANGED trendVars
    BY <1>1, <2>1 DEF trendVars, pubVars, TrendInv, TrendTypeOK, FoundInv, KeptInv, PointInv, Runs
  <2>2. CASE TrendStart
    BY <1>1, <2>2, TrendStartKeepsInv
  <2>3. ASSUME NEW i \in Runs, TrendCompute(i) \/ TrendSnapshot(i) \/ TrendEnd(i) PROVE TrendInv'
    BY <1>1, <2>3, TrendComputeKeepsInv, TrendSnapshotKeepsInv, TrendEndKeepsInv
  <2> QED
    BY <1>1, <2>1, <2>2, <2>3 DEF TrendNext
<1>2. TrendSpec => []PubInv
  BY TrendsPublish, PubInvariant, PTL
<1> QED
  BY <1>1, <1>2, TrendInvInit, PTL DEF TrendSpec

\* With everything at rest, what the points say is what latest_with_delta() reads.
LEMMA TrendsFromInv == PubInv /\ TrendInv => TrendsFollowCards
<1> SUFFICES ASSUME PubInv, TrendInv, Active = {}, \A j \in Runs : pc[j] # "dead", ~overlap,
                    NEW i \in LatestRun, NEW r \in Keys,
                    Counts(r, Shown(i)[r]), i \in produced => i \in stored
             PROVE  LET before == {j \in Published : j < i /\ Counts(r, found[j][r])}
                    IN /\ points[r] # << >>
                       /\ Stat(r) = [latest |-> [run |-> i, count |-> Shown(i)[r]],
                                     delta  |-> {Shown(i)[r] - found[j][r] : j \in Latest(before, 1)}]
  BY DEF TrendsFollowCards
<1> DEFINE p == points[r]
           n == Len(p)
           before == {j \in Published : j < i /\ Counts(r, found[j][r])}
<1>1. /\ Runs \subseteq Nat /\ Published \subseteq Runs /\ IsFiniteSet(Published)
      /\ \A j \in Runs : pc[j] \in Places
  BY RunsAreNats DEF PubInv
<1>2. i \in Published /\ \A j \in Published : j <= i
  <2>1. i \in Published /\ {j \in Published : j > i} = {}
    BY <1>1, NothingNewer DEF LatestRun
  <2> QED
    BY <1>1, <2>1
<1>3. Published = Range(snaps)
  <2>1. \A j \in Runs : pc[j] = "done"
    BY <1>1 DEF Active, Places
  <2>2. Range(snaps) \subseteq Runs
    BY DEF PubInv, PubTypeOK, Range
  <2>3. \A j \in Runs : j \in Published <=> j \in Range(snaps)
    BY <2>1 DEF PubInv, SnapInv
  <2> QED
    BY <1>1, <2>2, <2>3
<1>4. Shown(i) = found[i]
  BY <1>1, <1>2 DEF Shown, TrendInv, FoundInv
<1>5. Follows(p, r, Published, found) /\ p \in Seq(Points)
  BY <1>3 DEF TrendInv, PointInv, TrendTypeOK
<1>6. DOMAIN p = 1 .. n /\ n \in Nat /\ \A k \in 1 .. n : p[k] = [run |-> p[k].run, count |-> p[k].count]
  <2>1. DOMAIN p = 1 .. n /\ n \in Nat /\ \A k \in 1 .. n : p[k] \in Points
    BY <1>5
  <2>2. \A x \in Points : x = [run |-> x.run, count |-> x.count]
    BY DEF Points
  <2> HIDE DEF p, n
  <2> QED
    BY <2>1, <2>2
<1> HIDE DEF p, n
<1>7. n \in 1 .. n /\ p[n].run = i
  <2>1. PICK k \in 1 .. n : p[k].run = i
    BY <1>2, <1>4, <1>5, <1>6 DEF Follows
  <2>2. n \in 1 .. n
    BY <1>6, <2>1
  <2>3. p[n].run \in Nat /\ i \in Nat /\ p[n].run <= i
    BY <1>1, <1>2, <1>5, <1>6, <2>2 DEF Follows
  <2>4. k < n => i < p[n].run
    BY <1>5, <1>6, <2>1, <2>2 DEF Follows
  <2>5. k = n
    BY <1>6, <2>1, <2>3, <2>4
  <2> QED
    BY <2>1, <2>2, <2>5
<1>8. p[n] = [run |-> i, count |-> found[i][r]]
  BY <1>5, <1>6, <1>7 DEF Follows
<1>9. \A k \in 1 .. n : k < n => p[k].run \in before
  <2> SUFFICES ASSUME NEW k \in 1 .. n, k < n PROVE p[k].run \in before
    OBVIOUS
  <2>1. p[k].run \in Published /\ p[k].count = found[p[k].run][r] /\ Counts(r, p[k].count) /\ p[k].run < p[n].run
    BY <1>5, <1>6, <1>7 DEF Follows
  <2> QED
    BY <1>7, <2>1
<1>10. \A j \in before : \E k \in 1 .. n : k < n /\ p[k].run = j
  <2> SUFFICES ASSUME NEW j \in before PROVE \E k \in 1 .. n : k < n /\ p[k].run = j
    OBVIOUS
  <2>1. PICK k \in 1 .. n : p[k].run = j
    BY <1>5, <1>6 DEF Follows
  <2>2. j < i /\ j \in Nat /\ i \in Nat
    BY <1>1, <1>2
  <2>3. k # n
    BY <1>7, <2>1, <2>2
  <2>4. k < n
    BY <1>6, <2>3
  <2> QED
    BY <2>1, <2>4
<1>11. before \in SUBSET Nat /\ IsFiniteSet(before) /\ IsFiniteSet({}) /\ before \subseteq Published
  <2>1. before \in SUBSET Published
    OBVIOUS
  <2>2. IsFiniteSet(before)
    BY <1>1, <2>1, FS_Subset
  <2> QED
    BY <1>1, <2>1, <2>2, FS_EmptySet
<1> HIDE DEF before
<1>12. [latest |-> p[n], delta |-> IF n < 2 THEN {} ELSE {p[n].count - p[n - 1].count}]
         = [latest |-> [run |-> i, count |-> found[i][r]],
            delta  |-> {found[i][r] - found[j][r] : j \in Latest(before, 1)}]
  <2>1. CASE n < 2
    <3>1. before = {}
      BY <1>6, <1>10, <2>1
    <3>2. Latest(before, 1) = {}
      BY <3>1 DEF Latest
    <3> QED
      BY <1>8, <2>1, <3>2
  <2>2. CASE ~(n < 2)
    <3> DEFINE q == p[n - 1].run
    <3>1. n - 1 \in 1 .. n /\ n - 1 < n
      BY <1>6, <2>2
    <3>2. q \in before /\ p[n - 1].count = found[q][r]
      BY <1>5, <1>6, <1>9, <3>1 DEF Follows
    <3>3. \A j \in before : j <= q
      <4> SUFFICES ASSUME NEW j \in before PROVE j <= q
        OBVIOUS
      <4>1. PICK k \in 1 .. n : k < n /\ p[k].run = j
        BY <1>10
      <4>2. k = n - 1 \/ k < n - 1
        BY <1>6, <4>1
      <4>3. k < n - 1 => j < q
        BY <1>5, <1>6, <3>1, <4>1 DEF Follows
      <4>4. j \in Nat /\ q \in Nat
        BY <1>11, <3>2
      <4> QED
        BY <4>1, <4>2, <4>3, <4>4
    <3> HIDE DEF q
    <3>4. Latest(before, 1) = {q}
      BY <1>11, <3>2, <3>3, NewestIsLatest
    <3>5. p[n].count = found[i][r]
      BY <1>8
    <3> QED
      BY <1>8, <2>2, <3>2, <3>4, <3>5
  <2> QED
    BY <2>1, <2>2
<1>13. p # << >>
  BY <1>6, <1>7
<1> QED
  BY <1>4, <1>12, <1>13 DEF p, n, before, Stat

\* The trends of the home page end with the numbers it shows, and their deltas
\* are against the newest earlier run that had the reason (take_snapshot(),
\* latest_with_delta()).
THEOREM TrendsMeetCards == TrendSpec => []TrendsFollowCards
<1> QED
  BY TrendsFromInv, TrendInvariant, PTL
=============================================================================
