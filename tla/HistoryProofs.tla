---------------------------- MODULE HistoryProofs ----------------------------
(***************************************************************************)
(* Theorems about HistorySync, for any retention, page size and number of  *)
(* plays: a walk that nothing disturbed covers what is above its floor,    *)
(* and a gap in the mirror has one of the causes that are known.           *)
(***************************************************************************)
EXTENDS HistorySync, FiniteSetTheorems, WellFoundedInduction, TLAPS


-----------------------------------------------------------------------------
(* Sets of numbers, and the position of a number in them.                  *)

LEMMA LeastExists ==
  ASSUME NEW S, S \subseteq Nat, S # {}
  PROVE  \E x \in S : \A y \in S : x <= y
<1>1. PICK x \in S : \A y \in S : ~ (<<y, x>> \in OpToRel(<, Nat))
  BY NatLessThanWellFounded, WFMin
<1>2. ASSUME NEW y \in S PROVE x <= y
  <2>1. <<y, x>> \in Nat \X Nat
    OBVIOUS
  <2>2. ~ (y < x)
    BY <1>1, <2>1 DEF OpToRel
  <2> QED
    BY <2>2
<1> QED
  BY <1>2

LEMMA GreatestExists ==
  ASSUME NEW n \in Nat, NEW S, S \subseteq 0 .. n, S # {}
  PROVE  \E x \in S : \A y \in S : x >= y
<1> DEFINE T == {m \in 0 .. n : n - m \in S}
<1>1. T \subseteq Nat
  OBVIOUS
<1>2. T # {}
  <2>1. PICK x : x \in S
    OBVIOUS
  <2>2. x \in 0 .. n
    BY <2>1
  <2>3. n - x \in 0 .. n /\ n - (n - x) = x
    BY <2>2
  <2> QED
    BY <2>1, <2>3
<1>3. PICK m \in T : \A k \in T : m <= k
  BY <1>1, <1>2, LeastExists
<1>4. ASSUME NEW y \in S PROVE n - m >= y
  <2>1. y \in 0 .. n
    OBVIOUS
  <2>2. n - y \in 0 .. n /\ n - (n - y) = y
    BY <2>1
  <2>3. n - y \in T
    BY <2>2
  <2>4. m <= n - y /\ m \in 0 .. n
    BY <1>3, <2>3
  <2> QED
    BY <2>1, <2>4
<1> QED
  BY <1>3, <1>4

LEMMA NumbersAreFinite ==
  ASSUME NEW n \in Nat, NEW S \in SUBSET (0 .. n)
  PROVE  IsFiniteSet(S) /\ S \in SUBSET Nat
<1>1. IsFiniteSet(0 .. n)
  BY FS_Interval
<1>2. IsFiniteSet(S)
  BY <1>1, FS_Subset
<1>3. 0 .. n \subseteq Nat
  OBVIOUS
<1> QED
  BY <1>2, <1>3

\* Rank(i) is this of the set that Tautulli has.
RankIn(S, i) == Cardinality({j \in S : j >= i})

LEMMA RankType ==
  ASSUME NEW S \in SUBSET Nat, IsFiniteSet(S), NEW i
  PROVE  /\ IsFiniteSet({j \in S : j >= i}) /\ RankIn(S, i) \in Nat
         /\ i \in S => RankIn(S, i) >= 1
<1>1. {j \in S : j >= i} \in SUBSET S
  OBVIOUS
<1>2. IsFiniteSet({j \in S : j >= i}) /\ RankIn(S, i) \in Nat
  BY <1>1, FS_Subset, FS_CardinalityType DEF RankIn
<1>3. ASSUME i \in S PROVE RankIn(S, i) >= 1
  <2>1. i \in Nat
    BY <1>3
  <2>2. i \in {j \in S : j >= i}
    BY <1>3, <2>1
  <2>3. RankIn(S, i) # 0
    BY <1>2, <2>2, FS_EmptySet DEF RankIn
  <2> QED
    BY <1>2, <2>3
<1> QED
  BY <1>2, <1>3

\* The lower of two numbers is the later in the answer.
LEMMA LowerIsLater ==
  ASSUME NEW S \in SUBSET Nat, IsFiniteSet(S), NEW i \in S, NEW k \in S, i < k
  PROVE  RankIn(S, i) > RankIn(S, k)
<1> DEFINE A == {j \in S : j >= i}  B == {j \in S : j >= k}
<1>1. B \in SUBSET A /\ i \in A /\ i \notin B
  <2>1. i \in Nat /\ k \in Nat
    OBVIOUS
  <2>2. ASSUME NEW j \in S, j >= k PROVE j >= i
    BY <2>1, <2>2
  <2>3. i >= i /\ ~ (i >= k)
    BY <2>1
  <2> QED
    BY <2>2, <2>3
<1>2. IsFiniteSet(A) /\ Cardinality(A) \in Nat /\ Cardinality(B) \in Nat
  BY RankType DEF RankIn
<1>3. Cardinality(B) <= Cardinality(A) /\ (Cardinality(A) = Cardinality(B) => A = B)
  <2> HIDE DEF A, B
  <2> QED
    BY <1>1, <1>2, FS_Subset
<1>4. Cardinality(B) < Cardinality(A)
  <2> HIDE DEF A, B
  <2> QED
    BY <1>1, <1>2, <1>3
<1> QED
  BY <1>4 DEF RankIn

\* More rows upstream never bring a row forward.
LEMMA MoreIsLater ==
  ASSUME NEW T \in SUBSET Nat, IsFiniteSet(T), NEW S \in SUBSET T, NEW i
  PROVE  RankIn(S, i) <= RankIn(T, i)
<1>1. {j \in S : j >= i} \in SUBSET {j \in T : j >= i}
  OBVIOUS
<1> QED
  BY <1>1, RankType, FS_Subset DEF RankIn

\* A deletion brings those below it forward by one, and no other.
LEMMA DeletedMovesUp ==
  ASSUME NEW S \in SUBSET Nat, IsFiniteSet(S), NEW d \in S, NEW i \in S, i # d
  PROVE  /\ RankIn(S \ {d}, i) >= RankIn(S, i) - 1
         /\ i > d => RankIn(S \ {d}, i) = RankIn(S, i)
<1> DEFINE A == {j \in S : j >= i}
<1>1. {j \in S \ {d} : j >= i} = A \ {d}
  OBVIOUS
<1>2. IsFiniteSet(A) /\ Cardinality(A) \in Nat
  BY RankType DEF RankIn
<1>3. Cardinality(A \ {d}) = IF d \in A THEN Cardinality(A) - 1 ELSE Cardinality(A)
  <2> HIDE DEF A
  <2> QED
    BY <1>2, FS_RemoveElement
<1>4. i > d => d \notin A
  <2>1. i \in Nat /\ d \in Nat
    OBVIOUS
  <2> QED
    BY <2>1
<1>5. RankIn(S \ {d}, i) = Cardinality(A \ {d}) /\ RankIn(S, i) = Cardinality(A)
  BY <1>1 DEF RankIn
<1> HIDE DEF A
<1> QED
  BY <1>2, <1>3, <1>4, <1>5

\* The first k positions are those of k rows, if there are that many.
LEMMA FirstRanks ==
  ASSUME NEW n \in Nat, NEW S \in SUBSET (0 .. n), NEW k \in Nat
  PROVE  LET U == {j \in S : RankIn(S, j) <= k}
         IN  /\ IsFiniteSet(U) /\ Cardinality(U) \in Nat /\ Cardinality(U) <= k
             /\ \A i \in S : RankIn(S, i) > k => Cardinality(U) >= k
<1> DEFINE U == {j \in S : RankIn(S, j) <= k}
<1>1. IsFiniteSet(S) /\ S \in SUBSET Nat /\ U \in SUBSET S
  BY NumbersAreFinite
<1>2. IsFiniteSet(U) /\ Cardinality(U) \in Nat
  BY <1>1, FS_Subset, FS_CardinalityType
<1>3. Cardinality(U) <= k
  <2>1. CASE U = {}
    BY <2>1, FS_EmptySet
  <2>2. CASE U # {}
    <3>1. PICK m \in U : \A j \in U : m <= j
      <4>1. U \subseteq Nat
        BY <1>1
      <4> HIDE DEF U
      <4> QED
        BY <2>2, <4>1, LeastExists
    <3>2. m \in S /\ RankIn(S, m) <= k /\ RankIn(S, m) \in Nat
      BY <1>1, RankType
    <3>3. U \in SUBSET {j \in S : j >= m}
      <4>1. \A j \in U : j \in S /\ j \in Nat /\ m \in Nat
        BY <1>1
      <4> QED
        BY <3>1, <4>1
    <3>4. IsFiniteSet({j \in S : j >= m})
      BY <1>1, RankType
    <3>5. Cardinality(U) <= RankIn(S, m)
      <4> HIDE DEF U
      <4> QED
        BY <3>3, <3>4, FS_Subset DEF RankIn
    <3> HIDE DEF U
    <3> QED
      BY <1>2, <3>2, <3>5
  <2> QED
    BY <2>1, <2>2
<1>4. ASSUME NEW i \in S, RankIn(S, i) > k PROVE Cardinality(U) >= k
  <2> DEFINE V == {j \in S : RankIn(S, j) > k}
  <2>1. PICK g \in V : \A j \in V : g >= j
    <3>1. V \subseteq 0 .. n /\ V # {}
      BY <1>4
    <3> HIDE DEF V
    <3> QED
      BY <3>1, GreatestExists
  <2>2. g \in S /\ RankIn(S, g) > k /\ RankIn(S, g) \in Nat
    BY <1>1, RankType
  <2>3. {j \in S : j >= g} \in SUBSET (U \cup {g})
    <3> SUFFICES ASSUME NEW j \in S, j >= g, j # g PROVE j \in U
      OBVIOUS
    <3>1. j \in Nat /\ g \in Nat /\ RankIn(S, j) \in Nat
      BY <1>1, <2>2, RankType
    <3>2. j \notin V
      BY <2>1, <3>1
    <3> QED
      BY <3>1, <3>2
  <2>4. /\ IsFiniteSet(U \cup {g})
        /\ Cardinality(U \cup {g}) = IF g \in U THEN Cardinality(U) ELSE Cardinality(U) + 1
    <3> HIDE DEF U
    <3> QED
      BY <1>2, FS_AddElement
  <2>5. RankIn(S, g) <= Cardinality(U \cup {g})
    <3> HIDE DEF U
    <3> QED
      BY <2>3, <2>4, FS_Subset DEF RankIn
  <2> HIDE DEF U
  <2> QED
    BY <1>2, <2>2, <2>4, <2>5
<1> QED
  BY <1>2, <1>3, <1>4

\* A page is short only at the end.
LEMMA ShortIsLast ==
  ASSUME NEW n \in Nat, NEW S \in SUBSET (0 .. n), NEW s \in Nat, NEW p \in Nat,
         NEW i \in S, RankIn(S, i) > s + p
  PROVE  /\ IsFiniteSet({j \in S : s < RankIn(S, j) /\ RankIn(S, j) <= s + p})
         /\ Cardinality({j \in S : s < RankIn(S, j) /\ RankIn(S, j) <= s + p}) >= p
<1> DEFINE raw == {j \in S : s < RankIn(S, j) /\ RankIn(S, j) <= s + p}
           A   == {j \in S : RankIn(S, j) <= s}
           B   == {j \in S : RankIn(S, j) <= s + p}
<1>1. IsFiniteSet(A) /\ Cardinality(A) \in Nat /\ Cardinality(A) <= s
  BY FirstRanks
<1>2. IsFiniteSet(B) /\ Cardinality(B) \in Nat /\ Cardinality(B) >= s + p
  <2>1. s + p \in Nat
    OBVIOUS
  <2> QED
    BY <2>1, FirstRanks
<1>3. raw = B \ A
  <2>1. IsFiniteSet(S) /\ S \in SUBSET Nat
    BY NumbersAreFinite
  <2>2. ASSUME NEW j \in S PROVE j \in raw <=> j \in B \ A
    <3>1. RankIn(S, j) \in Nat
      BY <2>1, RankType
    <3>2. s < RankIn(S, j) <=> ~ (RankIn(S, j) <= s)
      BY <3>1
    <3>3. RankIn(S, j) <= s => RankIn(S, j) <= s + p
      BY <3>1
    <3> QED
      BY <3>2, <3>3
  <2>3. raw \subseteq S /\ B \subseteq S
    OBVIOUS
  <2> HIDE DEF raw, A, B
  <2> QED
    BY <2>2, <2>3
<1>4. IsFiniteSet(B \ A) /\ Cardinality(B \ A) = Cardinality(B) - Cardinality(B \cap A)
  <2> HIDE DEF A, B
  <2> QED
    BY <1>2, FS_Difference
<1>5. Cardinality(B \cap A) <= Cardinality(A) /\ Cardinality(B \cap A) \in Nat
  <2> HIDE DEF A, B
  <2>1. IsFiniteSet(B \cap A)
    BY <1>1, FS_Intersection
  <2> QED
    BY <1>1, <2>1, FS_Intersection, FS_CardinalityType
<1> HIDE DEF A, B
<1>6. Cardinality(B \ A) >= p
  BY <1>1, <1>2, <1>4, <1>5
<1> QED
  BY <1>3, <1>4, <1>6

-----------------------------------------------------------------------------
(* The inductive invariant.                                                *)

\* Nothing is newer than the newest play; a walk is due nothing that is older
\* than the retention, and its floor is a play that was there or the cutoff.
HistTyped ==
  /\ HistTypeOK
  /\ server \subseteq 1 .. newest /\ local \subseteq 1 .. newest /\ synced \subseteq 1 .. newest
  /\ walk.due \subseteq 1 .. newest /\ \A i \in walk.due : i > Cutoff
  /\ walk.floor <= newest \/ walk.floor <= Cutoff

\* What an undisturbed walk has passed is mirrored, but for plays that came
\* while it was on, which are newer than everything mirrored.
WalkInv ==
  walk.on /\ walk.clean =>
    \A i \in server :
      i > walk.floor /\ Rank(i) <= walk.start =>
        i \in local \/ (i \notin walk.due /\ \A j \in local : j < i)

\* As long as nothing has left a gap, there is none below a mirrored play; a walk
\* leaves one while it is on, above its floor.
DenseInv ==
  ~torn /\ ~spoiled /\ (walk.on => walk.start = 0) =>
    \A i \in server : \A j \in local : Cutoff < i /\ i < j => i \in local

BelowInv ==
  ~torn /\ ~spoiled /\ walk.on /\ walk.clean =>
    \A i \in server : Cutoff < i /\ i <= walk.floor => i \in local

HistInv ==
  HistTyped /\ WalkInv /\ DenseInv /\ BelowInv /\ GapHasCause /\ WalkCovers

LEMMA ServerRanks ==
  ASSUME HistTyped
  PROVE  /\ IsFiniteSet(server) /\ server \in SUBSET Nat /\ newest \in Nat
         /\ server \in SUBSET (0 .. newest) /\ local \in SUBSET (0 .. newest)
         /\ \A i \in server : Rank(i) = RankIn(server, i) /\ Rank(i) \in Nat /\ Rank(i) >= 1
         /\ walk.start \in Nat /\ walk.floor \in Nat
<1>1. newest \in Nat /\ walk.start \in Nat /\ walk.floor \in Nat
  BY HistoryAssumption DEF HistTyped, HistTypeOK
<1>2. server \in SUBSET (0 .. newest) /\ local \in SUBSET (0 .. newest)
  BY <1>1 DEF HistTyped
<1>3. IsFiniteSet(server) /\ server \in SUBSET Nat
  BY <1>1, <1>2, NumbersAreFinite
<1>4. \A i \in server : Rank(i) = RankIn(server, i) /\ Rank(i) \in Nat /\ Rank(i) >= 1
  BY <1>3, RankType DEF Rank, RankIn
<1> QED
  BY <1>1, <1>2, <1>3, <1>4

LEMMA HistInvInit == HistInit => HistInv
<1> SUFFICES ASSUME HistInit PROVE HistInv
  OBVIOUS
<1>1. /\ newest \in 0 .. MaxPlay /\ server = 1 .. newest /\ old \in 0 .. newest /\ local = {}
      /\ walk = NoWalk /\ synced = {} /\ covered = {} /\ torn = FALSE /\ spoiled = FALSE
  BY DEF HistInit
<1>2. /\ walk.on = FALSE /\ walk.floor = 0 /\ walk.start = 0 /\ walk.due = {}
      /\ walk \in [on : BOOLEAN, floor : Nat, start : Nat, due : SUBSET Plays, clean : BOOLEAN]
  BY <1>1 DEF NoWalk
<1>3. server \subseteq Plays /\ old \in 0 .. MaxPlay /\ newest \in Nat
  BY <1>1, HistoryAssumption DEF Plays
<1>4. HistTyped
  <2>1. HistTypeOK
    BY <1>1, <1>2, <1>3 DEF HistTypeOK
  <2> QED
    BY <1>1, <1>2, <1>3, <2>1 DEF HistTyped
<1> QED
  BY <1>1, <1>2, <1>4 DEF HistInv, WalkInv, DenseInv, BelowInv, GapHasCause, NoGap, WalkCovers

LEMMA PlayKeepsInv == ASSUME HistInv, Play PROVE HistInv'
<1>0. HistTyped /\ HistTypeOK
  BY DEF HistInv, HistTyped
<1>1. /\ newest' = newest + 1 /\ server' = server \cup {newest + 1} /\ newest + 1 \in Plays
      /\ newest \in Nat /\ newest' \in 0 .. MaxPlay
      /\ UNCHANGED <<old, local, walk, synced, covered, torn, spoiled>>
  BY <1>0, HistoryAssumption DEF Play, HistTypeOK, Plays
<1>2. HistTyped'
  <2>1. 1 .. newest \subseteq 1 .. newest' /\ newest + 1 \in 1 .. newest'
    BY <1>1
  <2>2. HistTypeOK'
    BY <1>0, <1>1 DEF HistTypeOK
  <2>3. walk.floor <= newest => walk.floor <= newest'
    BY <1>0, <1>1, ServerRanks
  <2> QED
    BY <1>0, <1>1, <2>1, <2>2, <2>3 DEF HistTyped
<1>3. \A i \in local \cup synced \cup walk.due \cup server : i < newest + 1 /\ i # newest + 1
  <2>1. \A i \in 1 .. newest : i < newest + 1 /\ i # newest + 1
    BY <1>1
  <2> QED
    BY <1>0, <2>1 DEF HistTyped
<1>4. ASSUME NEW i \in server PROVE Rank(i) <= Rank(i)' /\ Rank(i)' \in Nat
  <2>1. IsFiniteSet(server') /\ server' \in SUBSET Nat /\ server \in SUBSET (server')
    BY <1>1, <1>2, ServerRanks, NumbersAreFinite, FS_AddElement, <1>0
  <2>2. Rank(i)' = RankIn(server', i) /\ Rank(i) = RankIn(server, i)
    BY DEF Rank, RankIn
  <2> QED
    BY <2>1, <2>2, MoreIsLater, RankType
<1>5. WalkInv'
  <2> SUFFICES ASSUME walk.on, walk.clean, NEW i \in server', i > walk.floor, Rank(i)' <= walk.start
               PROVE  i \in local \/ (i \notin walk.due /\ \A j \in local : j < i)
    BY <1>1 DEF WalkInv
  <2>1. CASE i = newest + 1
    BY <1>3, <2>1
  <2>2. CASE i \in server
    <3>1. Rank(i) <= walk.start
      BY <1>0, <1>4, <2>2, ServerRanks
    <3> QED
      BY <2>2, <3>1 DEF HistInv, WalkInv
  <2> QED
    BY <1>1, <2>1, <2>2
<1>6. DenseInv'
  <2>1. \A j \in local : ~ (newest + 1 < j)
    <3>1. \A j \in 1 .. newest : ~ (newest + 1 < j)
      BY <1>1
    <3> QED
      BY <1>0, <3>1 DEF HistTyped
  <2> QED
    BY <1>1, <2>1 DEF HistInv, DenseInv
<1>7. BelowInv'
  <2>1. Cutoff < newest + 1 /\ newest + 1 <= walk.floor => FALSE
    BY <1>0, <1>1, ServerRanks, HistoryAssumption DEF HistTyped
  <2> QED
    BY <1>1, <2>1 DEF HistInv, BelowInv
<1>8. GapHasCause' /\ WalkCovers'
  <2>1. covered \subseteq synced
    BY <1>0 DEF HistTypeOK
  <2>2. newest + 1 \notin synced
    BY <1>3
  <2> QED
    BY <1>1, <2>1, <2>2 DEF HistInv, GapHasCause, NoGap, WalkCovers
<1> QED
  BY <1>2, <1>5, <1>6, <1>7, <1>8 DEF HistInv

LEMMA DayKeepsInv == ASSUME HistInv, DayPasses PROVE HistInv'
<1>1. /\ UNCHANGED <<server, newest, local, walk, synced, covered, torn, spoiled>>
      /\ old' \in 0 .. MaxPlay
  BY HistoryAssumption DEF DayPasses, HistInv, HistTyped, HistTypeOK
<1>2. HistTyped'
  BY <1>1 DEF HistInv, HistTyped, HistTypeOK
<1> QED
  BY <1>1, <1>2 DEF HistInv, WalkInv, Rank, DenseInv, BelowInv, GapHasCause, NoGap, WalkCovers

\* A deletion that leaves a walk undisturbed moves nothing into what it passed.
LEMMA DeleteKeepsInv == ASSUME HistInv, NEW d \in server, Delete(d) PROVE HistInv'
<1>0. HistTyped /\ HistTypeOK
  BY DEF HistInv, HistTyped
<1>1. /\ server' = server \ {d}
      /\ UNCHANGED <<newest, old, local, synced, covered, torn, spoiled>>
      /\ walk'.on = walk.on /\ walk'.floor = walk.floor /\ walk'.start = walk.start
      /\ walk'.due = walk.due
      /\ walk'.clean = (walk.clean /\ ~(walk.on /\ Rank(d) <= walk.start))
      /\ walk' \in [on : BOOLEAN, floor : Nat, start : Nat, due : SUBSET Plays, clean : BOOLEAN]
  BY <1>0 DEF Delete, HistTypeOK
<1>2. HistTyped'
  BY <1>0, <1>1 DEF HistTyped, HistTypeOK
<1>3. WalkInv'
  <2> SUFFICES ASSUME walk.on, walk.clean, ~ (Rank(d) <= walk.start),
                      NEW i \in server', i > walk.floor, Rank(i)' <= walk.start
               PROVE  i \in local \/ (i \notin walk.due /\ \A j \in local : j < i)
    BY <1>1 DEF WalkInv
  <2>1. i \in server /\ i # d /\ i \in Nat /\ d \in Nat
    BY <1>0, <1>1, ServerRanks
  <2>2. /\ Rank(i) = RankIn(server, i) /\ Rank(d) = RankIn(server, d)
        /\ Rank(i)' = RankIn(server \ {d}, i)
        /\ Rank(i) \in Nat /\ Rank(d) \in Nat
    BY <1>0, <1>1, <2>1, ServerRanks DEF Rank, RankIn
  <2>3. /\ Rank(i)' >= Rank(i) - 1
        /\ i > d => Rank(i)' = Rank(i)
    BY <1>0, <2>1, <2>2, ServerRanks, DeletedMovesUp
  <2>4. i < d => Rank(i) > Rank(d)
    BY <1>0, <2>1, <2>2, ServerRanks, LowerIsLater
  <2>5. Rank(i)' \in Nat
    <3>1. IsFiniteSet(server \ {d}) /\ server \ {d} \in SUBSET Nat
      BY <1>0, ServerRanks, FS_RemoveElement
    <3> QED
      BY <2>2, <3>1, RankType
  <2>6. Rank(i) <= walk.start
    BY <1>0, <2>1, <2>2, <2>3, <2>4, <2>5, ServerRanks
  <2> QED
    BY <2>1, <2>6 DEF HistInv, WalkInv
<1>4. DenseInv' /\ BelowInv'
  BY <1>1 DEF HistInv, DenseInv, BelowInv
<1>5. GapHasCause' /\ WalkCovers'
  BY <1>1 DEF HistInv, GapHasCause, NoGap, WalkCovers
<1> QED
  BY <1>2, <1>3, <1>4, <1>5 DEF HistInv

\* Where a walk may stop: everything from the cutoff to there is mirrored.
LEMMA FloorIsKnown ==
  ASSUME HistTyped
  PROVE  /\ Floor \in Nat /\ (Floor <= newest \/ Floor <= Cutoff)
         /\ \A i \in Nat : Cutoff < i /\ i <= Floor => i \in local \/ \E j \in local : i < j
<1>0. /\ newest \in Nat /\ local \in SUBSET (0 .. newest) /\ local \subseteq 1 .. newest
      /\ local \subseteq Nat
  BY ServerRanks DEF HistTyped
<1> DEFINE recent == {i \in local : i > old}
<1>1. CASE local = {}
  <2>1. Floor = Cutoff
    BY <1>1 DEF Floor
  <2> QED
    BY <2>1, HistoryAssumption
<1>2. CASE local # {} /\ recent # {}
  <2>1. Floor = Least(recent) - 1
    BY <1>2 DEF Floor
  <2>2. Least(recent) \in recent
    <3>1. recent \subseteq Nat
      BY <1>0
    <3>2. \E x \in recent : \A y \in recent : x <= y
      <4> HIDE DEF recent
      <4> QED
        BY <1>2, <3>1, LeastExists
    <3> QED
      BY <3>2 DEF Least
  <2>3. Least(recent) \in local /\ Least(recent) \in 1 .. newest
    BY <1>0, <2>2
  <2> HIDE DEF recent
  <2> QED
    BY <1>0, <2>1, <2>3
<1>3. CASE local # {} /\ recent = {}
  <2>1. Floor = Greatest(local)
    BY <1>3 DEF Floor
  <2>2. Greatest(local) \in local
    BY <1>0, <1>3, GreatestExists DEF Greatest
  <2>3. Greatest(local) \in 1 .. newest
    BY <1>0, <2>2
  <2> QED
    BY <1>0, <2>1, <2>2, <2>3
<1> QED
  BY <1>1, <1>2, <1>3

LEMMA BeginKeepsInv == ASSUME HistInv, Begin PROVE HistInv'
<1>0. HistTyped /\ HistTypeOK
  BY DEF HistInv, HistTyped
<1>1. /\ walk.on = FALSE
      /\ walk'.on = TRUE /\ walk'.floor = Floor /\ walk'.start = 0 /\ walk'.clean = TRUE
      /\ walk'.due = {i \in server : i > Cutoff}
      /\ UNCHANGED <<server, newest, old, local, synced, covered, torn, spoiled>>
  BY <1>0 DEF Begin, HistTypeOK
<1>2. HistTyped'
  <2>1. walk' \in [on : BOOLEAN, floor : Nat, start : Nat, due : SUBSET Plays, clean : BOOLEAN]
    <3>1. Floor \in Nat /\ {i \in server : i > Cutoff} \subseteq Plays
      BY <1>0, FloorIsKnown DEF HistTypeOK
    <3> QED
      BY <3>1 DEF Begin
  <2>2. HistTypeOK'
    BY <1>0, <1>1, <2>1 DEF HistTypeOK
  <2> QED
    BY <1>0, <1>1, <2>2, FloorIsKnown DEF HistTyped
<1>3. WalkInv'
  <2>1. \A i \in server' : ~ (Rank(i)' <= walk'.start)
    <3>1. \A i \in server : ~ (Rank(i) <= 0)
      BY <1>0, ServerRanks
    <3>2. \A i \in server : Rank(i)' = Rank(i)
      BY <1>1 DEF Rank
    <3> QED
      BY <1>1, <3>1, <3>2
  <2> QED
    BY <2>1 DEF WalkInv
<1>4. DenseInv' /\ BelowInv'
  <2>1. ~torn /\ ~spoiled => \A i \in server : \A j \in local : Cutoff < i /\ i < j => i \in local
    BY <1>1 DEF HistInv, DenseInv
  <2>2. \A i \in server : Cutoff < i /\ i <= Floor => i \in local \/ \E j \in local : i < j
    BY <1>0, FloorIsKnown, ServerRanks
  <2> QED
    BY <1>1, <2>1, <2>2 DEF DenseInv, BelowInv
<1>5. GapHasCause' /\ WalkCovers'
  BY <1>1 DEF HistInv, GapHasCause, NoGap, WalkCovers
<1> QED
  BY <1>2, <1>3, <1>4, <1>5 DEF HistInv

LEMMA InterruptKeepsInv == ASSUME HistInv, Interrupt PROVE HistInv'
<1>0. HistTyped /\ HistTypeOK
  BY DEF HistInv, HistTyped
<1>1. /\ walk.on /\ walk' = NoWalk /\ torn' = (torn \/ walk.start > 0)
      /\ UNCHANGED <<server, newest, old, local, synced, covered, spoiled>>
  BY DEF Interrupt
<1>2. /\ walk'.on = FALSE /\ walk'.floor = 0 /\ walk'.start = 0 /\ walk'.due = {}
      /\ walk' \in [on : BOOLEAN, floor : Nat, start : Nat, due : SUBSET Plays, clean : BOOLEAN]
  BY <1>1 DEF NoWalk
<1>3. HistTyped'
  <2>1. torn' \in BOOLEAN
    BY <1>0, <1>1 DEF HistTypeOK
  <2> QED
    BY <1>0, <1>1, <1>2, <2>1 DEF HistTyped, HistTypeOK
<1>4. ~torn' => ~torn /\ walk.start = 0
  <2>1. ~ (walk.start > 0) => walk.start = 0
    BY <1>0, ServerRanks
  <2> QED
    BY <1>1, <2>1
<1> QED
  BY <1>1, <1>2, <1>3, <1>4
  DEF HistInv, WalkInv, DenseInv, BelowInv, GapHasCause, NoGap, WalkCovers

LEMMA PurgeKeepsInv == ASSUME HistInv, Purge PROVE HistInv'
<1>0. HistTyped /\ HistTypeOK
  BY DEF HistInv, HistTyped
<1>1. /\ local' = {} /\ synced' = {} /\ covered' = {} /\ torn' = FALSE /\ spoiled' = FALSE
      /\ UNCHANGED <<server, newest, old>>
      /\ walk'.on = walk.on /\ walk'.floor = walk.floor /\ walk'.start = walk.start
      /\ walk'.due = {} /\ walk'.clean = ~walk.on
      /\ walk' \in [on : BOOLEAN, floor : Nat, start : Nat, due : SUBSET Plays, clean : BOOLEAN]
  BY <1>0 DEF Purge, HistTypeOK
<1>2. HistTyped'
  BY <1>0, <1>1 DEF HistTyped, HistTypeOK
<1> QED
  BY <1>1, <1>2 DEF HistInv, WalkInv, DenseInv, BelowInv, GapHasCause, NoGap, WalkCovers

LEMMA PageKeepsInv == ASSUME HistInv, Page PROVE HistInv'
<1> DEFINE raw == PageRows(walk.start)
           new == {i \in raw : i > walk.floor}
           last == raw # new \/ Cardinality(raw) < PageSize
<1>0. HistTyped /\ HistTypeOK /\ PageSize \in Nat \ {0}
  BY HistoryAssumption DEF HistInv, HistTyped
<1>1. /\ walk.on /\ local' = local \cup new /\ UNCHANGED <<server, newest, old, torn>>
      /\ last => /\ walk' = NoWalk /\ synced' = walk.due /\ spoiled' = (spoiled \/ ~walk.clean)
                 /\ covered' = IF walk.clean THEN {i \in walk.due : i > walk.floor} ELSE {}
      /\ ~last => /\ walk' = [walk EXCEPT !.start = @ + PageSize]
                  /\ UNCHANGED <<synced, covered, spoiled>>
  BY DEF Page
<1>r. \A i \in server : /\ i \in raw <=> walk.start < Rank(i) /\ Rank(i) <= walk.start + PageSize
                        /\ i \in new <=> i \in raw /\ i > walk.floor
  BY DEF PageRows
<1>s. new \subseteq raw /\ raw \subseteq server
  BY DEF PageRows
<1>k. /\ IsFiniteSet(server) /\ server \in SUBSET Nat /\ newest \in Nat
      /\ server \in SUBSET (0 .. newest) /\ walk.start \in Nat /\ walk.floor \in Nat
      /\ \A i \in server : Rank(i) = RankIn(server, i) /\ Rank(i) \in Nat
  BY <1>0, ServerRanks
\* A row after the page means that the page is full and above the floor.
<1>2. ASSUME last, NEW i \in server, i > walk.floor PROVE Rank(i) <= walk.start + PageSize
  <2> SUFFICES ASSUME Rank(i) > walk.start + PageSize PROVE FALSE
    BY <1>0, <1>k
  <2>1. raw = new
    <3>1. ASSUME NEW k \in raw PROVE k > walk.floor
      <4>1. k \in server /\ Rank(k) <= walk.start + PageSize
        BY <1>r, <1>s
      <4>2. Rank(k) < Rank(i) /\ k # i
        BY <1>0, <1>k, <4>1
      <4>3. ~ (k < i)
        BY <1>k, <4>1, <4>2, LowerIsLater
      <4> QED
        BY <1>2, <1>k, <4>1, <4>2, <4>3
    <3> QED
      BY <3>1
  <2>2. raw = {j \in server : walk.start < RankIn(server, j) /\ RankIn(server, j) <= walk.start + PageSize}
    BY <1>k DEF PageRows
  <2>3. IsFiniteSet(raw) /\ Cardinality(raw) >= PageSize
    <3>1. PageSize \in Nat /\ RankIn(server, i) > walk.start + PageSize
      BY <1>0, <1>k
    <3> DEFINE full == {j \in server : /\ walk.start < RankIn(server, j)
                                      /\ RankIn(server, j) <= walk.start + PageSize}
    <3>2. \A n, s, p \in Nat : server \in SUBSET (0 .. n) /\ RankIn(server, i) > s + p =>
            /\ IsFiniteSet({j \in server : s < RankIn(server, j) /\ RankIn(server, j) <= s + p})
            /\ Cardinality({j \in server : s < RankIn(server, j) /\ RankIn(server, j) <= s + p}) >= p
      BY ShortIsLast
    <3>4. IsFiniteSet(full) /\ Cardinality(full) >= PageSize
      BY <1>k, <3>1, <3>2
    <3>3. raw = full
      BY <2>2
    <3> HIDE DEF raw, full
    <3> QED
      BY <3>3, <3>4
  <2>4. Cardinality(raw) \in Nat
    BY <2>3, FS_CardinalityType
  <2> HIDE DEF raw, new
  <2> QED
    BY <1>0, <1>2, <2>1, <2>3, <2>4
<1> HIDE DEF raw, new, last
\* What the page and those before it leave, of the rows above the floor.
<1>3. ASSUME walk.clean, NEW i \in server, i > walk.floor, Rank(i) <= walk.start + PageSize
      PROVE  i \in local' \/ (i \notin walk.due /\ \A j \in local' : j < i)
  <2>1. CASE Rank(i) <= walk.start
    <3>1. i \in local \/ (i \notin walk.due /\ \A j \in local : j < i)
      BY <1>1, <1>3, <2>1 DEF HistInv, WalkInv
    <3>2. ASSUME NEW j \in new PROVE j < i
      <4>1. j \in server /\ Rank(j) > walk.start
        BY <1>r, <1>s, <1>k
      <4>2. Rank(i) < Rank(j)
        BY <1>k, <2>1, <4>1
      <4>3. ~ (i < j) /\ i # j /\ i \in Nat /\ j \in Nat
        BY <1>k, <4>1, <4>2, LowerIsLater
      <4> QED
        BY <4>3
    <3> QED
      BY <1>1, <3>1, <3>2
  <2>2. CASE ~ (Rank(i) <= walk.start)
    BY <1>1, <1>3, <1>r, <1>k, <2>2
  <2> QED
    BY <2>1, <2>2
<1>4. local' \subseteq Plays /\ local' \subseteq 1 .. newest
  BY <1>0, <1>1, <1>s DEF HistTyped, HistTypeOK
<1>5. CASE last
  <2>1. /\ walk'.on = FALSE /\ walk'.floor = 0 /\ walk'.start = 0 /\ walk'.due = {}
        /\ walk' \in [on : BOOLEAN, floor : Nat, start : Nat, due : SUBSET Plays, clean : BOOLEAN]
    <3>1. walk' = NoWalk
      BY <1>1, <1>5
    <3> QED
      BY <3>1 DEF NoWalk
  <2>2. HistTyped'
    <3>1. spoiled' \in BOOLEAN
      BY <1>0, <1>1, <1>5 DEF HistTypeOK
    <3>2. synced' = walk.due /\ covered' \subseteq synced'
      BY <1>1, <1>5
    <3>3. HistTypeOK'
      BY <1>0, <1>1, <1>4, <2>1, <3>1, <3>2 DEF HistTypeOK
    <3>4. UNCHANGED <<server, newest>>
      BY <1>1
    <3>5. synced' \subseteq 1 .. newest /\ walk'.due = {} /\ walk'.floor <= newest
      BY <1>0, <1>k, <2>1, <3>2 DEF HistTyped
    <3> QED
      BY <1>0, <1>4, <3>3, <3>4, <3>5 DEF HistTyped
  <2>3. ASSUME walk.clean, NEW i \in server, i > walk.floor
        PROVE  i \in local' \/ (i \notin walk.due /\ \A j \in local' : j < i)
    BY <1>2, <1>3, <1>5, <2>3
  <2>4. ASSUME ~torn', ~spoiled', NEW i \in server, Cutoff < i, i <= walk.floor PROVE i \in local'
    BY <1>1, <1>5, <2>4 DEF HistInv, BelowInv
  <2>5. WalkCovers'
    <3> SUFFICES ASSUME NEW i \in covered', i \in server PROVE i \in local'
      BY <1>1 DEF WalkCovers
    <3>1. walk.clean /\ i \in walk.due /\ i > walk.floor
      BY <1>1, <1>5
    <3> QED
      BY <2>3, <3>1
  <2>6. GapHasCause'
    <3> SUFFICES ASSUME ~torn', ~spoiled', NEW i \in synced', i \in server PROVE i \in local'
      BY <1>1 DEF GapHasCause, NoGap
    <3>1. walk.clean /\ i \in walk.due /\ i > Cutoff /\ i \in Nat
      BY <1>0, <1>1, <1>5, <1>k DEF HistTyped
    <3>2. CASE i > walk.floor
      BY <2>3, <3>1, <3>2
    <3>3. CASE i <= walk.floor
      BY <2>4, <3>1, <3>3
    <3> QED
      BY <1>k, <3>1, <3>2, <3>3
  <2>7. DenseInv'
    <3> SUFFICES ASSUME ~torn', ~spoiled', NEW i \in server, NEW j \in local', Cutoff < i, i < j
                 PROVE  i \in local'
      BY <1>1 DEF DenseInv
    <3>1. walk.clean /\ i \in Nat /\ j \in Nat
      <4>1. 1 .. newest \subseteq Nat
        BY <1>k
      <4> QED
        BY <1>1, <1>4, <1>5, <1>k, <4>1
    <3>2. CASE i <= walk.floor
      BY <2>4, <3>2
    <3>3. CASE i > walk.floor
      BY <2>3, <3>1, <3>3
    <3> QED
      BY <1>k, <3>1, <3>2, <3>3
  <2> QED
    BY <2>1, <2>2, <2>5, <2>6, <2>7 DEF HistInv, WalkInv, BelowInv
<1>6. CASE ~last
  <2>1. /\ walk'.on = walk.on /\ walk'.floor = walk.floor /\ walk'.start = walk.start + PageSize
        /\ walk'.due = walk.due /\ walk'.clean = walk.clean /\ walk'.start # 0
        /\ walk' \in [on : BOOLEAN, floor : Nat, start : Nat, due : SUBSET Plays, clean : BOOLEAN]
        /\ UNCHANGED <<synced, covered, spoiled>>
    <3>1. /\ walk' = [walk EXCEPT !.start = walk.start + PageSize]
          /\ UNCHANGED <<synced, covered, spoiled>>
      BY <1>1, <1>6
    <3>2. walk.start + PageSize \in Nat /\ walk.start + PageSize # 0
      BY <1>0, <1>k
    <3>3. walk \in [on : BOOLEAN, floor : Nat, start : Nat, due : SUBSET Plays, clean : BOOLEAN]
      BY <1>0 DEF HistTypeOK
    <3> QED
      BY <3>1, <3>2, <3>3
  <2>2. HistTyped'
    <3>1. HistTypeOK'
      BY <1>0, <1>1, <1>4, <2>1 DEF HistTypeOK
    <3> QED
      BY <1>0, <1>1, <1>4, <2>1, <3>1 DEF HistTyped
  <2>3. WalkInv'
    <3>1. \A i \in server : Rank(i)' = Rank(i)
      BY <1>1 DEF Rank
    <3> QED
      BY <1>1, <1>3, <2>1, <3>1 DEF WalkInv
  <2>4. local \subseteq local'
    BY <1>1
  <2>5. DenseInv' /\ BelowInv'
    BY <1>1, <2>1, <2>4 DEF HistInv, DenseInv, BelowInv
  <2>6. GapHasCause' /\ WalkCovers'
    BY <1>1, <2>1, <2>4 DEF HistInv, GapHasCause, NoGap, WalkCovers
  <2> QED
    BY <2>2, <2>3, <2>5, <2>6 DEF HistInv
<1> QED
  BY <1>5, <1>6

LEMMA HistInvariant == HistSpec => []HistInv
<1>1. ASSUME HistInv, [HistNext]_histVars PROVE HistInv'
  <2>1. CASE UNCHANGED histVars
    BY <1>1, <2>1 DEF histVars, HistInv, HistTyped, HistTypeOK, WalkInv, Rank, DenseInv, BelowInv,
                      GapHasCause, NoGap, WalkCovers
  <2> QED
    BY <1>1, <2>1, PlayKeepsInv, DayKeepsInv, DeleteKeepsInv, BeginKeepsInv, PageKeepsInv,
       InterruptKeepsInv, PurgeKeepsInv DEF HistNext
<1> QED
  BY <1>1, HistInvInit, PTL DEF HistSpec

\* The types of the history table, the cursor and the walk (tautulli_sync.py).
THEOREM HistTypeCorrect == HistSpec => []HistTypeOK
<1>1. HistInv => HistTypeOK
  BY DEF HistInv, HistTyped
<1> QED
  BY <1>1, HistInvariant, PTL

\* A gap in the mirrored history has one of the causes that are known
\* (sync_tautulli(), iter_history(), purge_history()).
THEOREM GapsHaveCauses == HistSpec => []GapHasCause
<1>1. HistInv => GapHasCause
  BY DEF HistInv
<1> QED
  BY <1>1, HistInvariant, PTL

\* A walk that ends undisturbed has mirrored all the plays above its floor.
THEOREM WalksCover == HistSpec => []WalkCovers
<1>1. HistInv => WalkCovers
  BY DEF HistInv
<1> QED
  BY <1>1, HistInvariant, PTL
=============================================================================
