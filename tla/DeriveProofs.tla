---------------------------- MODULE DeriveProofs ----------------------------
(***************************************************************************)
(* Theorems about Derive, for any tables the schema allows and any         *)
(* thresholds.  The inductive invariant DeriveInv says that each result is *)
(* the function of the tables that its step computes, whatever is ignored  *)
(* and unignored in between; what a run lists follows from the rules.      *)
(*                                                                         *)
(* Least and greatest elements are had from the well-foundedness of <, and *)
(* counts of episodes are compared by subsets of finite sets.  A fact      *)
(* about sums is proved of the set of all parts that have it: it has {},   *)
(* and with a part also that part and one element more.                    *)
(***************************************************************************)
EXTENDS Derive, FiniteSetTheorems, WellFoundedInduction, TLAPS

-----------------------------------------------------------------------------
(* Minima and maxima.                                                      *)

LEMMA MinIsLeast ==
  ASSUME NEW S, S \subseteq Nat, S # {}
  PROVE  Min(S) \in S /\ \A y \in S : Min(S) <= y
<1>1. PICK x \in S : \A y \in S : ~ (<<y, x>> \in OpToRel(<, Nat))
  BY NatLessThanWellFounded, WFMin
<1>2. ASSUME NEW y \in S PROVE x <= y
  <2>1. <<y, x>> \in Nat \X Nat
    OBVIOUS
  <2>2. ~ (y < x)
    BY <1>1, <2>1 DEF OpToRel
  <2> QED
    BY <2>2
<1> QED
  BY <1>2 DEF Min

LEMMA MaxIsGreatest ==
  ASSUME NEW n \in Nat, NEW S, S \subseteq 0 .. n, S # {}
  PROVE  Max(S) \in S /\ \A y \in S : Max(S) >= y
<1> DEFINE T == {m \in 0 .. n : n - m \in S}
<1>1. T \subseteq Nat
  OBVIOUS
<1>2. T # {}
  <2>1. PICK x : x \in S
    OBVIOUS
  <2>2. x \in 0 .. n
    BY <2>1
  <2>3. n - x \in 0 .. n /\ n - (n - x) = x
    BY <2>2
  <2> QED
    BY <2>1, <2>3
<1>3. Min(T) \in T /\ \A k \in T : Min(T) <= k
  BY <1>1, <1>2, MinIsLeast
<1>4. ASSUME NEW y \in S PROVE n - Min(T) >= y
  <2>1. y \in 0 .. n
    OBVIOUS
  <2>2. n - y \in 0 .. n /\ n - (n - y) = y
    BY <2>1
  <2>3. n - y \in T
    BY <2>2
  <2>4. Min(T) <= n - y /\ Min(T) \in 0 .. n
    BY <1>3, <2>3
  <2> QED
    BY <2>1, <2>4
<1> QED
  BY <1>3, <1>4 DEF Max

LEMMA LargestAtMost ==
  ASSUME NEW n \in Nat, NEW S, \A x \in S : x \in Nat /\ x <= n
  PROVE  Largest(S) \in Nat /\ Largest(S) <= n
<1>1. CASE S = {}
  BY <1>1 DEF Largest
<1>2. CASE S # {}
  <2>1. S \subseteq 0 .. n
    OBVIOUS
  <2>2. Max(S) \in S
    BY <1>2, <2>1, MaxIsGreatest
  <2> QED
    BY <1>2, <2>2 DEF Largest
<1> QED
  BY <1>1, <1>2

\* The days of a later moment are no more.
LEMMA DaysGrow ==
  ASSUME NEW x \in Nat, NEW y \in Nat, x <= y PROVE Days(x) <= Days(y) /\ Days(x) \in Nat /\ Days(y) \in Nat
BY DEF Days

-----------------------------------------------------------------------------
(* Sums over finite sets.  A property of all parts of a set is proved of   *)
(* the set of the parts that have it: the library states induction with an *)
(* operator as a parameter, which its provers do not instantiate.          *)

\* The induction principles that need no operator as a parameter.
LEMMA AllNaturals ==
  ASSUME NEW T, 0 \in T, \A n \in Nat : n \in T => n + 1 \in T
  PROVE  Nat \subseteq T
<1> SUFFICES ASSUME Nat \ T # {} PROVE FALSE
  OBVIOUS
<1>1. PICK n \in Nat \ T : \A m \in Nat \ T : ~ (<<m, n>> \in OpToRel(<, Nat))
  BY NatLessThanWellFounded, WFMin
<1>2. n \in Nat /\ n # 0 /\ n - 1 \in Nat /\ n - 1 < n /\ n - 1 + 1 = n
  OBVIOUS
<1>3. n - 1 \in T
  BY <1>1, <1>2 DEF OpToRel
<1> QED
  BY <1>1, <1>2, <1>3

LEMMA OneLess ==
  ASSUME NEW s, IsFiniteSet(s), NEW x \in s
  PROVE  IsFiniteSet(s \ {x}) /\ Cardinality(s \ {x}) = Cardinality(s) - 1 /\ Cardinality(s) \in Nat \ {0}
<1>1. Cardinality(s) \in Nat /\ Cardinality(s) # 0
  BY FS_EmptySet, FS_CardinalityType
<1> QED
  BY <1>1, FS_RemoveElement

LEMMA OneMore ==
  ASSUME NEW s, NEW n \in Nat, Cardinality(s) = n + 1
  PROVE  s # {}
<1>1. n + 1 # 0 /\ Cardinality({}) = 0
  BY FS_EmptySet
<1> QED
  BY <1>1

LEMMA AllFinite ==
  ASSUME NEW S, IsFiniteSet(S), NEW G, {} \in G,
         \A s \in SUBSET S, x \in S : s \in G /\ x \notin s => s \cup {x} \in G
  PROVE  S \in G
<1> DEFINE T == {n \in Nat : \A s \in SUBSET S : Cardinality(s) = n => s \in G}
<1>0. \A s \in SUBSET S : IsFiniteSet(s) /\ Cardinality(s) \in Nat
  BY FS_Subset, FS_CardinalityType
<1>1. 0 \in T
  BY <1>0, FS_EmptySet
<1>2. ASSUME NEW n \in Nat, n \in T PROVE n + 1 \in T
  <2>1. ASSUME NEW s \in SUBSET S, Cardinality(s) = n + 1 PROVE s \in G
    <3> HIDE DEF T
    <3>1. s # {}
      BY <2>1, OneMore
    <3>2. PICK x \in s : TRUE
      BY <3>1
    <3>3. IsFiniteSet(s) /\ s \ {x} \in SUBSET S
      BY <1>0
    <3>4. Cardinality(s \ {x}) = n
      BY <2>1, <3>2, <3>3, OneLess
    <3>5. s \ {x} \in G
      BY <1>2, <3>3, <3>4 DEF T
    <3>6. (s \ {x}) \cup {x} = s /\ x \in S /\ x \notin s \ {x}
      BY <3>2
    <3> QED
      BY <3>3, <3>5, <3>6
  <2> QED
    BY <2>1
<1> HIDE DEF T
<1>3. Nat \subseteq T
  BY <1>1, <1>2, AllNaturals
<1> QED
  BY <1>0, <1>3 DEF T

\* What the library's fold takes for the sum over each part of S.
Pick(s) == CHOOSE x \in s : TRUE

SumTable(g, f, D) == g = [s \in D |-> IF s = {} THEN 0 ELSE f[Pick(s)] + g[s \ {Pick(s)}]]

IsTable(g, f, S) == SumTable(g, f, SUBSET S)

LEMMA SumIsTable ==
  ASSUME NEW f, NEW S
  PROVE  SumFunctionOnSet(f, S) = (CHOOSE g : IsTable(g, f, S))[S]
BY DEF SumFunctionOnSet, FoldFunctionOnSet, MapThenFoldSet, IsTable, SumTable, Pick

LEMMA TableExists ==
  ASSUME NEW f, NEW S, IsFiniteSet(S)
  PROVE  \E g : IsTable(g, f, S)
<1> DEFINE D(n) == {s \in SUBSET S : Cardinality(s) <= n}
           T == {n \in Nat : \E g : SumTable(g, f, D(n))}
<1>0. \A s \in SUBSET S : IsFiniteSet(s) /\ Cardinality(s) \in Nat
  BY FS_Subset, FS_CardinalityType
<1>1. 0 \in T
  <2>1. \A s \in D(0) : s = {}
    BY <1>0, FS_EmptySet
  <2> DEFINE g == [s \in D(0) |-> 0]
  <2>2. SumTable(g, f, D(0))
    BY <2>1 DEF SumTable
  <2> QED
    BY <2>2
<1>2. ASSUME NEW n \in Nat, n \in T PROVE n + 1 \in T
  <2>1. PICK g : SumTable(g, f, D(n))
    BY <1>2
  <2> DEFINE h == [s \in D(n + 1) |-> IF s = {} THEN 0 ELSE f[Pick(s)] + g[s \ {Pick(s)}]]
  <2>2. \A s \in D(n + 1) : s # {} => Pick(s) \in s /\ s \ {Pick(s)} \in D(n)
    <3> SUFFICES ASSUME NEW s \in D(n + 1), s # {} PROVE Pick(s) \in s /\ s \ {Pick(s)} \in D(n)
      OBVIOUS
    <3>1. Pick(s) \in s
      BY DEF Pick
    <3>2. Cardinality(s \ {Pick(s)}) = Cardinality(s) - 1
      BY <1>0, <3>1, FS_RemoveElement
    <3> QED
      BY <1>0, <3>1, <3>2
  <2>3. \A s \in D(n) : s \in D(n + 1) /\ h[s] = g[s]
    <3> SUFFICES ASSUME NEW s \in D(n) PROVE s \in D(n + 1) /\ h[s] = g[s]
      OBVIOUS
    <3>1. s \in D(n + 1)
      BY <1>0
    <3>2. g[s] = IF s = {} THEN 0 ELSE f[Pick(s)] + g[s \ {Pick(s)}]
      BY <2>1 DEF SumTable
    <3> QED
      BY <3>1, <3>2
  <2>4. \A s \in D(n + 1) : h[s] = IF s = {} THEN 0 ELSE f[Pick(s)] + h[s \ {Pick(s)}]
    BY <2>2, <2>3
  <2>5. h = [s \in D(n + 1) |-> h[s]]
    OBVIOUS
  <2> HIDE DEF h, D
  <2>6. SumTable(h, f, D(n + 1))
    BY <2>4, <2>5 DEF SumTable
  <2> QED
    BY <2>6
<1> HIDE DEF T
<1>3. Cardinality(S) \in T
  BY <1>0, <1>1, <1>2, AllNaturals
<1>4. D(Cardinality(S)) = SUBSET S
  BY FS_Subset
<1> QED
  BY <1>3, <1>4 DEF T, IsTable

\* Two tables agree where both have an entry.
LEMMA TablesAgree ==
  ASSUME NEW f, NEW S, IsFiniteSet(S), NEW R \in SUBSET S, NEW g, IsTable(g, f, S),
         NEW h, IsTable(h, f, R)
  PROVE  g[R] = h[R]
<1> DEFINE G == {s \in SUBSET R : g[s] = h[s]}
           T == {n \in Nat : \A s \in SUBSET R : Cardinality(s) = n => g[s] = h[s]}
<1>0. \A s \in SUBSET R : IsFiniteSet(s) /\ Cardinality(s) \in Nat /\ s \in SUBSET S
  BY FS_Subset, FS_CardinalityType
<1>a. ASSUME NEW s \in SUBSET R
      PROVE  /\ g[s] = IF s = {} THEN 0 ELSE f[Pick(s)] + g[s \ {Pick(s)}]
             /\ h[s] = IF s = {} THEN 0 ELSE f[Pick(s)] + h[s \ {Pick(s)}]
  BY <1>0 DEF IsTable, SumTable
<1>1. 0 \in T
  BY <1>0, <1>a, FS_EmptySet
<1>2. ASSUME NEW n \in Nat, n \in T PROVE n + 1 \in T
  <2>1. ASSUME NEW s \in SUBSET R, Cardinality(s) = n + 1 PROVE g[s] = h[s]
    <3> HIDE DEF T
    <3>1. s # {}
      BY <2>1, OneMore
    <3>2. Pick(s) \in s
      BY <3>1 DEF Pick
    <3>3. IsFiniteSet(s) /\ s \ {Pick(s)} \in SUBSET R
      BY <1>0
    <3>4. Cardinality(s \ {Pick(s)}) = n
      BY <2>1, <3>2, <3>3, OneLess
    <3>5. g[s \ {Pick(s)}] = h[s \ {Pick(s)}]
      BY <1>2, <3>3, <3>4 DEF T
    <3> QED
      BY <1>a, <3>1, <3>5
  <2> QED
    BY <2>1
<1> HIDE DEF T
<1>3. Cardinality(R) \in T
  BY <1>0, <1>1, <1>2, AllNaturals
<1> QED
  BY <1>3 DEF T

LEMMA SumStep ==
  ASSUME NEW f, NEW S, IsFiniteSet(S)
  PROVE  /\ S = {} => SumFunctionOnSet(f, S) = 0
         /\ S # {} => SumFunctionOnSet(f, S) = f[Pick(S)] + SumFunctionOnSet(f, S \ {Pick(S)})
<1> DEFINE R == S \ {Pick(S)}
<1>1. IsFiniteSet(R) /\ R \subseteq S
  BY FS_Subset
<1>2. PICK g : IsTable(g, f, S) /\ SumFunctionOnSet(f, S) = g[S]
  BY TableExists, SumIsTable
<1>3. PICK h : IsTable(h, f, R) /\ SumFunctionOnSet(f, R) = h[R]
  BY <1>1, TableExists, SumIsTable
<1>4. g[S] = IF S = {} THEN 0 ELSE f[Pick(S)] + g[R]
  BY <1>2 DEF IsTable, SumTable
<1> HIDE DEF R
<1>5. g[R] = h[R]
  BY <1>1, <1>2, <1>3, TablesAgree
<1> QED
  BY <1>2, <1>3, <1>4, <1>5 DEF R

\* Any element may be taken first.
LEMMA SumTake ==
  ASSUME NEW S, IsFiniteSet(S), NEW f, \A x \in S : f[x] \in Int
  PROVE  /\ SumFunctionOnSet(f, S) \in Int
         /\ \A x \in S : SumFunctionOnSet(f, S) = f[x] + SumFunctionOnSet(f, S \ {x})
<1> DEFINE Good(s) == /\ SumFunctionOnSet(f, s) \in Int
                      /\ \A x \in s : SumFunctionOnSet(f, s) = f[x] + SumFunctionOnSet(f, s \ {x})
           T == {n \in Nat : \A s \in SUBSET S : Cardinality(s) \in 0 .. n => Good(s)}
<1>0. \A s \in SUBSET S : IsFiniteSet(s) /\ Cardinality(s) \in Nat
  BY FS_Subset, FS_CardinalityType
<1> HIDE DEF Good
<1>1. 0 \in T
  <2> SUFFICES ASSUME NEW s \in SUBSET S, s = {} PROVE Good(s)
    BY <1>0, FS_EmptySet
  <2> QED
    BY <1>0, SumStep DEF Good
<1>2. ASSUME NEW n \in Nat, n \in T PROVE n + 1 \in T
  <2>1. ASSUME NEW s \in SUBSET S, Cardinality(s) \in 0 .. n + 1 PROVE Good(s)
    <3>0. \A t \in SUBSET S : Cardinality(t) \in 0 .. n => Good(t)
      BY <1>2
    <3> HIDE DEF T
    <3>1. CASE s = {}
      BY <3>1, <1>0, SumStep DEF Good
    <3>2. CASE s # {}
      <4> DEFINE p == Pick(s)
      <4>1. p \in s /\ IsFiniteSet(s)
        BY <1>0, <3>2 DEF Pick
      <4>2. \A x \in s : /\ s \ {x} \in SUBSET S /\ Cardinality(s \ {x}) \in 0 .. n
        BY <1>0, <2>1, <4>1, OneLess
      <4>3. \A x \in s : Good(s \ {x})
        BY <3>0, <4>2
      <4>4. SumFunctionOnSet(f, s) = f[p] + SumFunctionOnSet(f, s \ {p})
        BY <3>2, <4>1, SumStep
      <4> HIDE DEF p
      <4>5. SumFunctionOnSet(f, s \ {p}) \in Int /\ f[p] \in Int
        BY <4>1, <4>3 DEF Good
      <4>6. ASSUME NEW x \in s PROVE SumFunctionOnSet(f, s) = f[x] + SumFunctionOnSet(f, s \ {x})
        <5>1. CASE x = p
          BY <4>4, <5>1
        <5>2. CASE x # p
          <6>1. (s \ {p}) \ {x} = (s \ {x}) \ {p} /\ x \in s \ {p} /\ p \in s \ {x}
            BY <4>1, <5>2
          <6> DEFINE c == SumFunctionOnSet(f, (s \ {x}) \ {p})
          <6>2. SumFunctionOnSet(f, s \ {p}) = f[x] + c
            BY <4>1, <4>3, <6>1 DEF Good
          <6>3. SumFunctionOnSet(f, s \ {x}) = f[p] + c
            BY <4>1, <4>3, <6>1 DEF Good
          <6>4. c \in Int
            <7>1. (s \ {x}) \ {p} \in SUBSET S /\ Cardinality((s \ {x}) \ {p}) \in 0 .. n
              <8>1. s \ {x} \in SUBSET S /\ IsFiniteSet(s \ {x}) /\ Cardinality(s \ {x}) \in 0 .. n
                BY <1>0, <4>2
              <8>2. Cardinality((s \ {x}) \ {p}) = Cardinality(s \ {x}) - 1 /\ Cardinality(s \ {x}) \in Nat \ {0}
                BY <6>1, <8>1, OneLess
              <8> QED
                BY <8>1, <8>2
            <7> QED
              BY <3>0, <7>1 DEF Good
          <6>5. f[x] \in Int
            OBVIOUS
          <6> HIDE DEF c
          <6> QED
            BY <4>4, <4>5, <6>2, <6>3, <6>4, <6>5
        <5> QED
          BY <5>1, <5>2
      <4>7. SumFunctionOnSet(f, s) \in Int
        BY <4>4, <4>5
      <4> QED
        BY <4>6, <4>7, Zenon DEF Good
    <3> QED
      BY <3>1, <3>2
  <2> QED
    BY <2>1
<1> HIDE DEF T
<1>3. Cardinality(S) \in T
  BY <1>0, <1>1, <1>2, AllNaturals
<1> QED
  BY <1>0, <1>3 DEF T, Good

LEMMA SumNone == ASSUME NEW f PROVE SumFunctionOnSet(f, {}) = 0
BY SumStep, FS_EmptySet

\* Adding one.
LEMMA SumAdd ==
  ASSUME NEW S, IsFiniteSet(S), NEW f, \A x \in S : f[x] \in Int, NEW y, y \notin S, f[y] \in Int
  PROVE  SumFunctionOnSet(f, S \cup {y}) = f[y] + SumFunctionOnSet(f, S)
<1>1. IsFiniteSet(S \cup {y}) /\ \A x \in S \cup {y} : f[x] \in Int
  BY FS_AddElement
<1>2. (S \cup {y}) \ {y} = S
  OBVIOUS
<1>3. \A x \in S \cup {y} : SumFunctionOnSet(f, S \cup {y}) = f[x] + SumFunctionOnSet(f, (S \cup {y}) \ {x})
  BY <1>1, SumTake
<1> QED
  BY <1>2, <1>3

LEMMA SumSame ==
  ASSUME NEW S, IsFiniteSet(S), NEW f, NEW g, \A x \in S : f[x] \in Int /\ g[x] = f[x]
  PROVE  SumFunctionOnSet(g, S) = SumFunctionOnSet(f, S)
<1> DEFINE G == {s \in SUBSET S : SumFunctionOnSet(g, s) = SumFunctionOnSet(f, s)}
<1>1. {} \in G
  BY SumNone
<1>2. ASSUME NEW s \in SUBSET S, NEW x \in S, s \in G, x \notin s PROVE s \cup {x} \in G
  <2>1. IsFiniteSet(s)
    BY FS_Subset
  <2>2. SumFunctionOnSet(g, s \cup {x}) = g[x] + SumFunctionOnSet(g, s)
    BY <1>2, <2>1, SumAdd
  <2>3. SumFunctionOnSet(f, s \cup {x}) = f[x] + SumFunctionOnSet(f, s)
    BY <1>2, <2>1, SumAdd
  <2> QED
    BY <1>2, <2>2, <2>3
<1> HIDE DEF G
<1>3. S \in G
  BY <1>1, <1>2, AllFinite
<1> QED
  BY <1>3 DEF G

LEMMA SumAtMost ==
  ASSUME NEW S, IsFiniteSet(S), NEW f, NEW g, \A x \in S : f[x] \in Int /\ g[x] \in Int /\ f[x] <= g[x]
  PROVE  SumFunctionOnSet(f, S) <= SumFunctionOnSet(g, S)
<1> DEFINE G == {s \in SUBSET S : SumFunctionOnSet(f, s) <= SumFunctionOnSet(g, s)}
<1>1. {} \in G
  BY SumNone
<1>2. ASSUME NEW s \in SUBSET S, NEW x \in S, s \in G, x \notin s PROVE s \cup {x} \in G
  <2>1. IsFiniteSet(s)
    BY FS_Subset
  <2>2. SumFunctionOnSet(g, s \cup {x}) = g[x] + SumFunctionOnSet(g, s)
    BY <1>2, <2>1, SumAdd
  <2>3. SumFunctionOnSet(f, s \cup {x}) = f[x] + SumFunctionOnSet(f, s)
    BY <1>2, <2>1, SumAdd
  <2>4. SumFunctionOnSet(f, s) \in Int /\ SumFunctionOnSet(g, s) \in Int
    BY <2>1, SumTake
  <2> QED
    BY <1>2, <2>2, <2>3, <2>4
<1> HIDE DEF G
<1>3. S \in G
  BY <1>1, <1>2, AllFinite
<1> QED
  BY <1>3 DEF G

LEMMA SumIsNat ==
  ASSUME NEW S, IsFiniteSet(S), NEW f, \A x \in S : f[x] \in Nat
  PROVE  SumFunctionOnSet(f, S) \in Nat
<1> DEFINE G == {s \in SUBSET S : SumFunctionOnSet(f, s) \in Nat}
<1>1. {} \in G
  BY SumNone
<1>2. ASSUME NEW s \in SUBSET S, NEW x \in S, s \in G, x \notin s PROVE s \cup {x} \in G
  <2>1. IsFiniteSet(s)
    BY FS_Subset
  <2>2. SumFunctionOnSet(f, s \cup {x}) = f[x] + SumFunctionOnSet(f, s)
    BY <1>2, <2>1, SumAdd
  <2> QED
    BY <1>2, <2>2
<1> HIDE DEF G
<1>3. S \in G
  BY <1>1, <1>2, AllFinite
<1> QED
  BY <1>3 DEF G

LEMMA SumApart ==
  ASSUME NEW A, NEW B, IsFiniteSet(A), IsFiniteSet(B), A \cap B = {},
         NEW f, \A x \in A \cup B : f[x] \in Int
  PROVE  SumFunctionOnSet(f, A \cup B) = SumFunctionOnSet(f, A) + SumFunctionOnSet(f, B)
<1> DEFINE G == {s \in SUBSET B : SumFunctionOnSet(f, A \cup s) = SumFunctionOnSet(f, A) + SumFunctionOnSet(f, s)}
<1>0. SumFunctionOnSet(f, A) \in Int
  BY SumTake
<1>1. {} \in G
  <2>1. A \cup {} = A
    OBVIOUS
  <2> QED
    BY <1>0, <2>1, SumNone
<1>2. ASSUME NEW s \in SUBSET B, NEW x \in B, s \in G, x \notin s PROVE s \cup {x} \in G
  <2>1. IsFiniteSet(s) /\ IsFiniteSet(A \cup s)
    BY FS_Subset, FS_Union
  <2>2. SumFunctionOnSet(f, (A \cup s) \cup {x}) = f[x] + SumFunctionOnSet(f, A \cup s)
    BY <1>2, <2>1, SumAdd
  <2>3. SumFunctionOnSet(f, s \cup {x}) = f[x] + SumFunctionOnSet(f, s)
    BY <1>2, <2>1, SumAdd
  <2>4. (A \cup s) \cup {x} = A \cup (s \cup {x})
    OBVIOUS
  <2>5. SumFunctionOnSet(f, s) \in Int /\ f[x] \in Int
    BY <2>1, SumTake
  <2>6. SumFunctionOnSet(f, A \cup s) = SumFunctionOnSet(f, A) + SumFunctionOnSet(f, s)
    BY <1>2
  <2> DEFINE As == SumFunctionOnSet(f, A \cup s)
             Ss == SumFunctionOnSet(f, s)
             Sa == SumFunctionOnSet(f, A)
             Sx == SumFunctionOnSet(f, s \cup {x})
  <2>a. SumFunctionOnSet(f, A \cup (s \cup {x})) = f[x] + As
    BY <2>2, <2>4
  <2> HIDE DEF As, Ss, Sa, Sx
  <2>b. As = Sa + Ss /\ Sx = f[x] + Ss /\ Ss \in Int /\ Sa \in Int /\ f[x] \in Int
    BY <1>0, <2>3, <2>5, <2>6 DEF As, Ss, Sa, Sx
  <2>c. f[x] + As = Sa + Sx
    BY <2>b
  <2>7. SumFunctionOnSet(f, A \cup (s \cup {x})) = SumFunctionOnSet(f, A) + SumFunctionOnSet(f, s \cup {x})
    BY <2>a, <2>c DEF Sa, Sx
  <2> QED
    BY <2>7
<1> HIDE DEF G
<1>3. B \in G
  BY <1>1, <1>2, AllFinite
<1> QED
  BY <1>3 DEF G

\* No term is more than the sum.
LEMMA SumHasTerm ==
  ASSUME NEW S, IsFiniteSet(S), NEW f, \A x \in S : f[x] \in Nat
  PROVE  \A x \in S : f[x] <= SumFunctionOnSet(f, S)
<1> SUFFICES ASSUME NEW x \in S PROVE f[x] <= SumFunctionOnSet(f, S)
  OBVIOUS
<1>1. SumFunctionOnSet(f, S) = f[x] + SumFunctionOnSet(f, S \ {x})
  BY SumTake
<1>2. SumFunctionOnSet(f, S \ {x}) \in Nat
  <2>1. IsFiniteSet(S \ {x}) /\ \A y \in S \ {x} : f[y] \in Nat
    BY FS_Subset
  <2> QED
    BY <2>1, SumIsNat
<1> DEFINE c == SumFunctionOnSet(f, S \ {x})
           d == SumFunctionOnSet(f, S)
<1> HIDE DEF c, d
<1>3. d = f[x] + c /\ c \in Nat /\ f[x] \in Nat
  BY <1>1, <1>2 DEF c, d
<1>4. f[x] <= d
  BY <1>3
<1> QED
  BY <1>4 DEF d

Whole(part, I) == UNION {part[i] : i \in I}

\* What is cut into parts adds up from them.
LEMMA SumByParts ==
  ASSUME NEW I, IsFiniteSet(I), NEW part, NEW f,
         \A i \in I : IsFiniteSet(part[i]) /\ \A x \in part[i] : f[x] \in Int,
         \A i, j \in I : i # j => part[i] \cap part[j] = {},
         NEW total, \A i \in I : total[i] = SumFunctionOnSet(f, part[i])
  PROVE  SumFunctionOnSet(f, Whole(part, I)) = SumFunctionOnSet(total, I)
<1> DEFINE G == {s \in SUBSET I :
                  /\ IsFiniteSet(Whole(part, s))
                  /\ SumFunctionOnSet(f, Whole(part, s)) = SumFunctionOnSet(total, s)}
<1>0. \A i \in I : total[i] \in Int
  BY SumTake
<1>1. {} \in G
  <2>1. Whole(part, {}) = {}
    BY DEF Whole
  <2> QED
    BY <2>1, SumNone, FS_EmptySet
<1>2. ASSUME NEW s \in SUBSET I, NEW x \in I, s \in G, x \notin s PROVE s \cup {x} \in G
  <2> DEFINE U == Whole(part, s)
  <2>1. Whole(part, s \cup {x}) = U \cup part[x]
    BY DEF Whole
  <2>2. IsFiniteSet(U) /\ SumFunctionOnSet(f, U) = SumFunctionOnSet(total, s)
    BY <1>2
  <2>3. U \cap part[x] = {} /\ \A y \in U \cup part[x] : f[y] \in Int
    BY <1>2 DEF Whole
  <2> HIDE DEF U
  <2>4. IsFiniteSet(part[x]) /\ IsFiniteSet(U \cup part[x]) /\ IsFiniteSet(s)
    BY <2>2, FS_Union, FS_Subset
  <2>5. SumFunctionOnSet(f, U \cup part[x]) = SumFunctionOnSet(f, U) + SumFunctionOnSet(f, part[x])
    BY <2>2, <2>3, <2>4, SumApart
  <2>6. SumFunctionOnSet(total, s \cup {x}) = total[x] + SumFunctionOnSet(total, s)
    BY <1>0, <1>2, <2>4, SumAdd
  <2>7. SumFunctionOnSet(total, s) \in Int /\ total[x] \in Int
    BY <1>0, <2>4, SumTake
  <2>8. SumFunctionOnSet(f, U \cup part[x]) = SumFunctionOnSet(total, s \cup {x})
    BY <2>2, <2>5, <2>6, <2>7
  <2> QED
    BY <2>1, <2>4, <2>8
<1> HIDE DEF G
<1>3. I \in G
  BY <1>1, <1>2, AllFinite
<1> QED
  BY <1>3 DEF G

\* A number is a sum of ones.
LEMMA SumOfOnes ==
  ASSUME NEW S, IsFiniteSet(S), NEW f, \A x \in S : f[x] = 1
  PROVE  SumFunctionOnSet(f, S) = Cardinality(S)
<1> DEFINE G == {s \in SUBSET S : SumFunctionOnSet(f, s) = Cardinality(s)}
<1>1. {} \in G
  BY SumNone, FS_EmptySet
<1>2. ASSUME NEW s \in SUBSET S, NEW x \in S, s \in G, x \notin s PROVE s \cup {x} \in G
  <2>1. IsFiniteSet(s) /\ Cardinality(s) \in Nat
    BY FS_Subset, FS_CardinalityType
  <2>2. SumFunctionOnSet(f, s \cup {x}) = f[x] + SumFunctionOnSet(f, s)
    BY <1>2, <2>1, SumAdd
  <2>3. Cardinality(s \cup {x}) = Cardinality(s) + 1
    BY <1>2, <2>1, FS_AddElement
  <2> QED
    BY <1>2, <2>1, <2>2, <2>3
<1> HIDE DEF G
<1>3. S \in G
  BY <1>1, <1>2, AllFinite
<1> QED
  BY <1>3 DEF G

LEMMA CountByParts ==
  ASSUME NEW I, IsFiniteSet(I), NEW part, \A i \in I : IsFiniteSet(part[i]),
         \A i, j \in I : i # j => part[i] \cap part[j] = {},
         NEW total, \A i \in I : total[i] = Cardinality(part[i])
  PROVE  IsFiniteSet(Whole(part, I)) /\ Cardinality(Whole(part, I)) = SumFunctionOnSet(total, I)
<1> DEFINE U == Whole(part, I)
           P == {part[i] : i \in I}
           f == [x \in U |-> 1]
<1>1. IsFiniteSet(U)
  <2>1. IsFiniteSet(P)
    <3> DEFINE h == [i \in I |-> part[i]]
    <3>1. h \in Surjection(I, P)
      BY DEF Surjection
    <3> QED
      BY <3>1, FS_Surjection
  <2> QED
    BY <2>1, FS_UNION DEF Whole
<1>2. \A i \in I : \A x \in part[i] : f[x] = 1
  BY DEF Whole
<1>3. \A x \in U : f[x] = 1
  OBVIOUS
<1> HIDE DEF f
<1>4. \A i \in I : total[i] = SumFunctionOnSet(f, part[i])
  BY <1>2, SumOfOnes
<1>5. SumFunctionOnSet(f, U) = SumFunctionOnSet(total, I)
  <2>1. \A i \in I : \A x \in part[i] : f[x] \in Int
    BY <1>2
  <2> QED
    BY <1>4, <2>1, SumByParts
<1> QED
  BY <1>1, <1>3, <1>5, SumOfOnes

\* The same numbers under other indices.
LEMMA SumRenamed ==
  ASSUME NEW S, IsFiniteSet(S), NEW m, \A x, y \in S : m[x] = m[y] => x = y,
         NEW f, \A x \in S : f[m[x]] \in Int, NEW g, \A x \in S : g[x] = f[m[x]]
  PROVE  SumFunctionOnSet(f, {m[x] : x \in S}) = SumFunctionOnSet(g, S)
<1> DEFINE part == [x \in S |-> {m[x]}]
<1>1. \A x \in S : IsFiniteSet({m[x]}) /\ SumFunctionOnSet(f, {m[x]}) = f[m[x]]
  <2> SUFFICES ASSUME NEW x \in S PROVE IsFiniteSet({m[x]}) /\ SumFunctionOnSet(f, {m[x]}) = f[m[x]]
    OBVIOUS
  <2>1. SumFunctionOnSet(f, {} \cup {m[x]}) = f[m[x]] + SumFunctionOnSet(f, {})
    BY SumAdd, FS_EmptySet
  <2>2. {} \cup {m[x]} = {m[x]} /\ f[m[x]] \in Int
    OBVIOUS
  <2>3. SumFunctionOnSet(f, {m[x]}) = f[m[x]] + SumFunctionOnSet(f, {})
    BY <2>1, <2>2
  <2>4. SumFunctionOnSet(f, {m[x]}) = f[m[x]]
    BY <2>2, <2>3, SumNone
  <2> QED
    BY <2>4, FS_Singleton
<1>2. Whole(part, S) = {m[x] : x \in S}
  BY DEF Whole
<1>3. \A x \in S : IsFiniteSet(part[x]) /\ \A y \in part[x] : f[y] \in Int
  BY <1>1
<1>4. \A x, y \in S : x # y => part[x] \cap part[y] = {}
  OBVIOUS
<1>5. \A x \in S : g[x] = SumFunctionOnSet(f, part[x])
  BY <1>1
<1> HIDE DEF part
<1>6. SumFunctionOnSet(f, Whole(part, S)) = SumFunctionOnSet(g, S)
  BY <1>3, <1>4, <1>5, SumByParts
<1> QED
  BY <1>2, <1>6

-----------------------------------------------------------------------------
(* What is hidden plays no part but in the listing.                        *)

Hiding(w, h) == [w EXCEPT !.hidden = h]

LEMMA HidingKeeps ==
  ASSUME NEW w, IsTables(w), NEW h
  PROVE  /\ Hiding(w, h).arr = w.arr /\ Hiding(w, h).plex = w.plex
         /\ Hiding(w, h).requests = w.requests /\ Hiding(w, h).people = w.people
         /\ Hiding(w, h).events = w.events /\ Hiding(w, h).specials = w.specials
         /\ Hiding(w, h).ruled = w.ruled /\ Hiding(w, h).hidden = h
         /\ Hiding(w, h) =
              [arr |-> w.arr, plex |-> w.plex, requests |-> w.requests, people |-> w.people,
               events |-> w.events, specials |-> w.specials, hidden |-> h, ruled |-> w.ruled]
<1> DEFINE r == [arr |-> w.arr, plex |-> w.plex, requests |-> w.requests, people |-> w.people,
                 events |-> w.events, specials |-> w.specials, hidden |-> w.hidden, ruled |-> w.ruled]
<1>1. w = r
  BY DEF IsTables
<1>2. [r EXCEPT !.hidden = h] =
              [arr |-> w.arr, plex |-> w.plex, requests |-> w.requests, people |-> w.people,
               events |-> w.events, specials |-> w.specials, hidden |-> h, ruled |-> w.ruled]
  OBVIOUS
<1>3. Hiding(w, h) = [r EXCEPT !.hidden = h]
  BY <1>1 DEF Hiding
<1>4. Hiding(w, h) = [arr |-> w.arr, plex |-> w.plex, requests |-> w.requests, people |-> w.people,
               events |-> w.events, specials |-> w.specials, hidden |-> h, ruled |-> w.ruled]
  BY <1>2, <1>3
<1> QED
  BY <1>4

LEMMA HidingAgain ==
  ASSUME NEW w, IsTables(w), NEW h, NEW g, h \subseteq DOMAIN w.arr
  PROVE  IsTables(Hiding(w, h)) /\ Hiding(Hiding(w, h), g) = Hiding(w, g)
<1>1. IsTables(Hiding(w, h))
  BY HidingKeeps DEF IsTables
<1> QED
  BY <1>1, HidingKeeps

\* ByTags() and SeriesState() as functions of what they read of the tables.
TagRow(tags) ==
  LET ids   == {t.id : t \in tags} \ {NULL}
      names == {t.name : t \in tags}
  IN [id   |-> IF Cardinality(ids) = 1 THEN Min(ids) ELSE NULL,
      name |-> IF Cardinality(names) = 1 THEN CHOOSE n \in names : TRUE ELSE "multi-requester"]

SeriesRow(any, people, needed, counts, ownCounts) ==
  LET own   == By(any, people)
      total == Cardinality(needed)
  IN [played |-> any # {}, playedOwn |-> own # {},
      last |-> LastOf(any), lastOwn |-> LastOf(own),
      finished |-> SeriesDone(total, counts), finishedOwn |-> SeriesDone(total, ownCounts),
      conf |-> Confidence(people)]

LEMMA RowsByParts ==
  /\ \A w, a : ByTags(w, a) = TagRow(Parsed(w, a))
  /\ \A w, ai, people : SeriesState(w, ai, people) =
       SeriesRow(AnyPlays(w, ai), people, Countable(w, ai), Counts(w, ai), OwnCounts(w, ai, people))
<1>1. \A w, a : ByTags(w, a) = TagRow(Parsed(w, a))
  BY Zenon DEF ByTags, TagRow
<1>2. \A w, ai, people : SeriesState(w, ai, people) =
       SeriesRow(AnyPlays(w, ai), people, Countable(w, ai), Counts(w, ai), OwnCounts(w, ai, people))
  BY Zenon DEF SeriesState, SeriesRow
<1> QED
  BY <1>1, <1>2

LEMMA AttributionIsBlind ==
  ASSUME NEW w, IsTables(w), NEW h
  PROVE  Attribution(Hiding(w, h)) = Attribution(w)
<1> DEFINE v == Hiding(w, h)
<1>1. v.arr = w.arr /\ v.requests = w.requests
  BY HidingKeeps
<1> HIDE DEF v
<1>2. \A a : RequestsFor(v, a) = RequestsFor(w, a) /\ Parsed(v, a) = Parsed(w, a)
  BY <1>1 DEF RequestsFor, Parsed
<1>3. LiveArr(v) = LiveArr(w)
  BY <1>1 DEF LiveArr
<1>4. \A a : ByRequest(v, a) = ByRequest(w, a)
  BY <1>1, <1>2 DEF ByRequest
<1>5. \A a : ByTags(v, a) = ByTags(w, a)
  BY <1>2, RowsByParts, Zenon
<1>6. {a \in LiveArr(v) : RequestsFor(v, a) # {}} = {a \in LiveArr(w) : RequestsFor(w, a) # {}}
  BY <1>2, <1>3
<1>7. {a \in LiveArr(v) : Parsed(v, a) # {}} = {a \in LiveArr(w) : Parsed(w, a) # {}}
  BY <1>2, <1>3
<1>8. Attribution(v) = Attribution(w)
  BY <1>4, <1>5, <1>6, <1>7 DEF Attribution
<1> QED
  BY <1>8 DEF v

LEMMA WatchStateIsBlind ==
  ASSUME NEW w, IsTables(w), NEW h, NEW at
  PROVE  WatchState(Hiding(w, h), at) = WatchState(w, at)
<1> DEFINE v == Hiding(w, h)
<1>1. /\ v.arr = w.arr /\ v.plex = w.plex /\ v.people = w.people /\ v.events = w.events
      /\ v.specials = w.specials
  BY HidingKeeps
<1> HIDE DEF v
<1>2. \A ai : Copies(v, ai) = Copies(w, ai) /\ Countable(v, ai) = Countable(w, ai)
  BY <1>1 DEF Copies, Countable
<1>3. \A who : Identities(v, who) = Identities(w, who)
  BY <1>1 DEF Identities
<1>4. \A ai : MoviePlays(v, ai) = MoviePlays(w, ai)
  BY <1>1, <1>2 DEF MoviePlays
<1>5. \A k : EpisodePlays(v, k) = EpisodePlays(w, k)
  BY <1>1 DEF EpisodePlays
<1>6. LiveArr(v) = LiveArr(w)
  BY <1>1 DEF LiveArr
<1>7. \A ai, people : MovieState(v, ai, people) = MovieState(w, ai, people)
  BY <1>4 DEF MovieState
<1>8. ASSUME NEW ai, NEW people PROVE SeriesState(v, ai, people) = SeriesState(w, ai, people)
  <2>1. Copies(v, ai) = Copies(w, ai) /\ Countable(v, ai) = Countable(w, ai)
    BY <1>2
  <2>2. AnyPlays(v, ai) = AnyPlays(w, ai) /\ Counts(v, ai) = Counts(w, ai)
    BY <1>5, <2>1 DEF AnyPlays, Counts
  <2>3. OwnCounts(v, ai, people) = OwnCounts(w, ai, people)
    BY <1>5, <2>1 DEF OwnCounts
  <2> QED
    BY <2>1, <2>2, <2>3, RowsByParts, Zenon
<1>9. WatchState(v, at) = WatchState(w, at)
  BY <1>1, <1>3, <1>6, <1>7, <1>8 DEF WatchState
<1> QED
  BY <1>9 DEF v

\* The rows by whose they are.
LEMMA CandidatesByItem ==
  ASSUME NEW w, NEW at, NEW s
  PROVE  \A r : r \in Candidates(w, at, s) <=>
           \/ \E a \in DOMAIN w.arr : Listable(w, a) /\ r \in ItemRows(w, at, s, a)
           \/ r \in PlexOrphans(w)
BY DEF Candidates

\* The rules 1 to 6, row by row.
LEMMA NeverMeans ==
  ASSUME NEW w, NEW at, NEW s, NEW a, NEW r
  PROVE  r \in NeverRows(w, at, s, a) <=>
           /\ Old(w.arr[a].age, NeverDays)
           /\ \/ /\ ~Watched(s, a).played
                 /\ r = ItemRowOf(w, a, "never_watched_anyone", NULL, "high")
              \/ /\ Requester(at, a).name # NoName /\ ~Watched(s, a).playedOwn
                 /\ r = ItemRowOf(w, a, "never_watched_requester", NULL, Trust(Watched(s, a).conf))
BY DEF NeverRows

LEMMA StaleMeans ==
  ASSUME NEW w, NEW at, NEW s, NEW a, NEW r
  PROVE  r \in StaleRows(w, at, s, a) <=>
           \/ /\ Watched(s, a).played /\ Old(Watched(s, a).last, StaleDays)
              /\ r = ItemRowOf(w, a, IF Watched(s, a).finished THEN "stale_finished_anyone"
                                                               ELSE "stale_partial_anyone",
                               Watched(s, a).last, "high")
           \/ /\ Requester(at, a).name # NoName /\ Watched(s, a).playedOwn
              /\ Old(Watched(s, a).lastOwn, StaleDays)
              /\ r = ItemRowOf(w, a, IF Watched(s, a).finishedOwn THEN "stale_finished_requester"
                                                                  ELSE "stale_partial_requester",
                               Watched(s, a).lastOwn, Trust(Watched(s, a).conf))
BY DEF StaleRows

LEMMA RowsAreNamed ==
  ASSUME NEW w, NEW at, NEW s
  PROVE  /\ \A a : \A r \in ItemRows(w, at, s, a) : r.arr = a
         /\ \A r \in PlexOrphans(w) : r.arr = NULL
<1>1. \A a, reason, last, conf : ItemRowOf(w, a, reason, last, conf).arr = a
  BY DEF ItemRowOf
<1>2. \A a, k, n, reason, size : FileRowOf(a, k, n, reason, size).arr = a
  BY DEF FileRowOf
<1>3. ASSUME NEW a, NEW r \in NeverRows(w, at, s, a) PROVE r.arr = a
  BY <1>1, NeverMeans
<1>4. ASSUME NEW a, NEW r \in StaleRows(w, at, s, a) PROVE r.arr = a
  BY <1>1, StaleMeans
<1>5. \A a : \A r \in MovieOrphans(w, a) \cup SeriesOrphans(w, a) : r.arr = a
  BY <1>2 DEF MovieOrphans, SeriesOrphans
<1>6. \A r \in PlexOrphans(w) : r.arr = NULL
  BY <1>2 DEF PlexOrphans
<1> QED
  BY <1>3, <1>4, <1>5, <1>6 DEF ItemRows

LEMMA RowsAreBlind ==
  ASSUME NEW w, IsTables(w), NEW h, NEW at, NEW s
  PROVE  /\ \A a : ItemRows(Hiding(w, h), at, s, a) = ItemRows(w, at, s, a)
         /\ PlexOrphans(Hiding(w, h)) = PlexOrphans(w)
<1> DEFINE v == Hiding(w, h)
<1>1. v.arr = w.arr /\ v.plex = w.plex
  BY HidingKeeps
<1> HIDE DEF v
<1>2. \A ai : Copies(v, ai) = Copies(w, ai)
  BY <1>1 DEF Copies
<1>3. \A a, reason, last, conf : ItemRowOf(v, a, reason, last, conf) = ItemRowOf(w, a, reason, last, conf)
  BY <1>1 DEF ItemRowOf
<1>4. \A a : NeverRows(v, at, s, a) = NeverRows(w, at, s, a)
  BY <1>1, <1>3 DEF NeverRows
<1>5. \A a : StaleRows(v, at, s, a) = StaleRows(w, at, s, a)
  BY <1>1, <1>3 DEF StaleRows
<1>6. \A a : MovieOrphans(v, a) = MovieOrphans(w, a)
  BY <1>1, <1>2 DEF MovieOrphans
<1>7. \A a : SeriesOrphans(v, a) = SeriesOrphans(w, a)
  BY <1>1 DEF SeriesOrphans
<1>8. \A a, px, size : Holds(v, a, px, size) = Holds(w, a, px, size)
  BY <1>1 DEF Holds
<1>9. PlexOrphans(v) = PlexOrphans(w)
  BY <1>1, <1>8 DEF PlexOrphans
<1> QED
  BY <1>1, <1>4, <1>5, <1>6, <1>7, <1>9 DEF ItemRows, v

LEMMA HidingSelf ==
  ASSUME NEW w, IsTables(w) PROVE Hiding(w, w.hidden) = w
<1>1. Hiding(w, w.hidden) =
        [arr |-> w.arr, plex |-> w.plex, requests |-> w.requests, people |-> w.people,
         events |-> w.events, specials |-> w.specials, hidden |-> w.hidden, ruled |-> w.ruled]
  BY HidingKeeps
<1> QED
  BY <1>1 DEF IsTables

-----------------------------------------------------------------------------
(* Finitely many rows, each of a reason that says what it names.           *)

ItemReasons ==
  {"never_watched_anyone", "never_watched_requester", "stale_finished_anyone", "stale_partial_anyone",
   "stale_finished_requester", "stale_partial_requester", "orphan_arr_no_plex"}

Shaped(r, items) ==
  /\ r.size \in Nat
  /\ \/ r.reason = "orphan_plex_no_arr" /\ r.arr = NULL /\ r.plex \in Nat \ {NULL}
     \/ r.reason \in ItemReasons /\ r.arr \in items /\ r.plex = NULL
  /\ r.reason = "never_watched_anyone" => r.age \in Nat \ {NULL}

AreShaped(S, items) == IsFiniteSet(S) /\ \A r \in S : Shaped(r, items)

LEMMA FiniteUnion ==
  ASSUME NEW I, IsFiniteSet(I), NEW part, \A i \in I : IsFiniteSet(part[i])
  PROVE  IsFiniteSet(Whole(part, I))
<1> DEFINE P == {part[i] : i \in I}
<1>1. IsFiniteSet(P)
  <2> DEFINE h == [i \in I |-> part[i]]
  <2>1. h \in Surjection(I, P)
    BY DEF Surjection
  <2> QED
    BY <2>1, FS_Surjection
<1> QED
  BY <1>1, FS_UNION DEF Whole

LEMMA FiniteImage ==
  ASSUME NEW I, IsFiniteSet(I), NEW m
  PROVE  IsFiniteSet({m[i] : i \in I})
<1> DEFINE h == [i \in I |-> m[i]]
<1>1. h \in Surjection(I, {m[i] : i \in I})
  BY DEF Surjection
<1> QED
  BY <1>1, FS_Surjection

LEMMA BytesAreNat ==
  ASSUME NEW item, IsFiniteSet(DOMAIN item.files), \A n \in DOMAIN item.files : item.files[n].size \in Nat
  PROVE  IsFiniteSet(LiveFiles(item)) /\ ItemBytes(item) \in Nat
<1> DEFINE F == LiveFiles(item)
           f == [n \in F |-> item.files[n].size]
<1>1. F \subseteq DOMAIN item.files /\ IsFiniteSet(F)
  BY FS_Subset DEF LiveFiles
<1>2. \A n \in F : f[n] \in Nat
  BY <1>1
<1>3. DOMAIN f = F
  OBVIOUS
<1>4. ItemBytes(item) = SumFunctionOnSet(f, DOMAIN f)
  BY DEF ItemBytes, Bytes, SumFunction
<1> HIDE DEF f, F
<1>5. SumFunctionOnSet(f, F) \in Nat
  BY <1>1, <1>2, SumIsNat
<1> QED
  BY <1>1, <1>3, <1>4, <1>5 DEF F

LEMMA PlexOrphansAreShaped ==
  ASSUME NEW w, IsTables(w)
  PROVE  AreShaped(PlexOrphans(w), DOMAIN w.arr)
<1> DEFINE live == {k \in DOMAIN w.plex : w.plex[k].live}
           lost(k) == {m \in LiveFiles(w.plex[k]) :
                         ~\E a \in DOMAIN w.arr : Holds(w, a, w.plex[k], w.plex[k].files[m].size)}
           row(k, n) == FileRowOf(NULL, k, n, "orphan_plex_no_arr", w.plex[k].files[n].size)
           part == [k \in live |-> {row(k, n) : n \in lost(k)}]
<1>1. IsFiniteSet(live) /\ live \subseteq DOMAIN w.plex /\ live \subseteq Nat \ {NULL}
  BY FS_Subset DEF IsTables
<1>2. PlexOrphans(w) = Whole(part, live)
  <2>1. ASSUME NEW r PROVE r \in PlexOrphans(w) <=> \E k \in live : \E n \in lost(k) : r = row(k, n)
    BY DEF PlexOrphans
  <2> HIDE DEF live, lost, row
  <2>2. ASSUME NEW r PROVE r \in Whole(part, live) <=> \E k \in live : \E n \in lost(k) : r = row(k, n)
    BY DEF Whole
  <2> QED
    BY <2>1, <2>2
<1>3. ASSUME NEW k \in live PROVE IsFiniteSet(lost(k)) /\ lost(k) \subseteq DOMAIN w.plex[k].files
  <2>1. IsFiniteSet(LiveFiles(w.plex[k])) /\ LiveFiles(w.plex[k]) \subseteq DOMAIN w.plex[k].files
    BY <1>1, FS_Subset DEF IsTables, LiveFiles
  <2> QED
    BY <2>1, FS_Subset
<1>4. ASSUME NEW k \in live PROVE IsFiniteSet({row(k, n) : n \in lost(k)})
  <2> DEFINE m == [n \in lost(k) |-> row(k, n)]
             L == lost(k)
  <2>1. IsFiniteSet(L) /\ {row(k, n) : n \in L} = {m[n] : n \in L}
    BY <1>3
  <2> HIDE DEF m, L, lost, row
  <2>2. IsFiniteSet({m[n] : n \in L})
    BY <2>1, FiniteImage
  <2> QED
    BY <2>1, <2>2 DEF L
<1>5. ASSUME NEW k \in live, NEW n \in lost(k) PROVE Shaped(row(k, n), DOMAIN w.arr)
  <2>1. w.plex[k].files[n].size \in Nat /\ k \in Nat \ {NULL}
    BY <1>1, <1>3 DEF IsTables
  <2> QED
    BY <2>1 DEF Shaped, FileRowOf
<1> HIDE DEF lost, row, live
<1>6. \A k \in live : IsFiniteSet(part[k])
  BY <1>4
<1>7. \A r \in Whole(part, live) : Shaped(r, DOMAIN w.arr)
  BY <1>5 DEF Whole
<1> HIDE DEF part
<1>8. IsFiniteSet(Whole(part, live))
  BY <1>1, <1>6, FiniteUnion
<1> QED
  BY <1>2, <1>7, <1>8 DEF AreShaped

LEMMA ItemRowsAreShaped ==
  ASSUME NEW w, IsTables(w), NEW at, NEW s, NEW a \in DOMAIN w.arr
  PROVE  AreShaped(ItemRows(w, at, s, a), DOMAIN w.arr)
<1> DEFINE ai == w.arr[a]
<1>1. /\ IsFiniteSet(LiveFiles(ai)) /\ ItemBytes(ai) \in Nat /\ ai.age \in Nat
      /\ \A n \in LiveFiles(ai) : ai.files[n].size \in Nat
  BY BytesAreNat DEF IsTables, LiveFiles
<1>2. \A reason, last, conf : reason \in ItemReasons /\ (reason = "never_watched_anyone" => ai.age # NULL)
        => Shaped(ItemRowOf(w, a, reason, last, conf), DOMAIN w.arr)
  BY <1>1 DEF Shaped, ItemRowOf
<1>3. \A n, size : size \in Nat => Shaped(FileRowOf(a, NULL, n, "orphan_arr_no_plex", size), DOMAIN w.arr)
  BY DEF Shaped, FileRowOf, ItemReasons
<1>4. AreShaped(NeverRows(w, at, s, a), DOMAIN w.arr)
  <2> DEFINE x == ItemRowOf(w, a, "never_watched_anyone", NULL, "high")
             y == ItemRowOf(w, a, "never_watched_requester", NULL, Trust(Watched(s, a).conf))
  <2>1. NeverRows(w, at, s, a) \subseteq {x, y}
    BY NeverMeans
  <2>2. \A r \in NeverRows(w, at, s, a) : Shaped(r, DOMAIN w.arr)
    <3>1. ai.age # NULL => Shaped(x, DOMAIN w.arr) /\ Shaped(y, DOMAIN w.arr)
      BY <1>2 DEF ItemReasons
    <3> HIDE DEF x, y
    <3>2. \A r \in NeverRows(w, at, s, a) : ai.age # NULL /\ r \in {x, y}
      BY <2>1, NeverMeans DEF Old
    <3> QED
      BY <3>1, <3>2
  <2> HIDE DEF x, y
  <2>3. IsFiniteSet({x} \cup {y}) /\ {x, y} = {x} \cup {y}
    BY FS_Singleton, FS_Union
  <2>4. IsFiniteSet(NeverRows(w, at, s, a))
    BY <2>1, <2>3, FS_Subset
  <2> QED
    BY <2>2, <2>4 DEF AreShaped
<1>5. AreShaped(StaleRows(w, at, s, a), DOMAIN w.arr)
  <2> DEFINE x == ItemRowOf(w, a, IF Watched(s, a).finished THEN "stale_finished_anyone"
                                                           ELSE "stale_partial_anyone",
                            Watched(s, a).last, "high")
             y == ItemRowOf(w, a, IF Watched(s, a).finishedOwn THEN "stale_finished_requester"
                                                              ELSE "stale_partial_requester",
                            Watched(s, a).lastOwn, Trust(Watched(s, a).conf))
  <2>1. StaleRows(w, at, s, a) \subseteq {x, y}
    BY StaleMeans
  <2>2. Shaped(x, DOMAIN w.arr) /\ Shaped(y, DOMAIN w.arr)
    BY <1>2 DEF ItemReasons
  <2> HIDE DEF x, y
  <2>3. IsFiniteSet({x} \cup {y}) /\ {x, y} = {x} \cup {y}
    BY FS_Singleton, FS_Union
  <2>4. IsFiniteSet(StaleRows(w, at, s, a))
    BY <2>1, <2>3, FS_Subset
  <2> QED
    BY <2>1, <2>2, <2>4 DEF AreShaped
<1>6. AreShaped(MovieOrphans(w, a), DOMAIN w.arr)
  <2> DEFINE lost == {m \in LiveFiles(ai) :
                        ~\E k \in Copies(w, ai) : \E p \in LiveFiles(w.plex[k]) :
                           Alike(ai.files[m].size, w.plex[k].files[p].size)}
             m == [n \in lost |-> FileRowOf(a, NULL, n, "orphan_arr_no_plex", ai.files[n].size)]
  <2>1. IsFiniteSet(lost) /\ lost \subseteq LiveFiles(ai)
    BY <1>1, FS_Subset
  <2>2. MovieOrphans(w, a) = {m[n] : n \in lost}
    BY DEF MovieOrphans
  <2>3. \A n \in lost : Shaped(m[n], DOMAIN w.arr)
    BY <1>1, <1>3, <2>1
  <2> HIDE DEF lost, m
  <2>4. IsFiniteSet({m[n] : n \in lost})
    BY <2>1, FiniteImage
  <2> QED
    BY <2>2, <2>3, <2>4 DEF AreShaped
<1>7. AreShaped(SeriesOrphans(w, a), DOMAIN w.arr)
  <2> DEFINE x == FileRowOf(a, NULL, NULL, "orphan_arr_no_plex", ItemBytes(ai))
  <2>1. SeriesOrphans(w, a) \subseteq {x}
    BY DEF SeriesOrphans
  <2>2. Shaped(x, DOMAIN w.arr)
    BY <1>1, <1>3
  <2> HIDE DEF x
  <2>3. IsFiniteSet(SeriesOrphans(w, a))
    BY <2>1, FS_Singleton, FS_Subset
  <2> QED
    BY <2>1, <2>2, <2>3 DEF AreShaped
<1>8. \A S, T : AreShaped(S, DOMAIN w.arr) /\ AreShaped(T, DOMAIN w.arr) => AreShaped(S \cup T, DOMAIN w.arr)
  BY FS_Union DEF AreShaped
<1> QED
  BY <1>4, <1>5, <1>6, <1>7, <1>8 DEF ItemRows

LEMMA CandidatesAreShaped ==
  ASSUME NEW w, IsTables(w), NEW at, NEW s
  PROVE  AreShaped(Candidates(w, at, s), DOMAIN w.arr)
<1> DEFINE I == {a \in DOMAIN w.arr : Listable(w, a)}
           part == [a \in I |-> ItemRows(w, at, s, a)]
<1>1. IsFiniteSet(I)
  BY FS_Subset DEF IsTables
<1>2. \A a \in I : AreShaped(part[a], DOMAIN w.arr)
  BY ItemRowsAreShaped
<1>3. Candidates(w, at, s) = PlexOrphans(w) \cup Whole(part, I)
  BY DEF Candidates, Whole
<1> HIDE DEF part, I
<1>4. IsFiniteSet(Whole(part, I))
  BY <1>1, <1>2, FiniteUnion DEF AreShaped
<1>5. \A r \in Whole(part, I) : Shaped(r, DOMAIN w.arr)
  BY <1>2 DEF Whole, AreShaped
<1>6. AreShaped(PlexOrphans(w), DOMAIN w.arr)
  BY PlexOrphansAreShaped
<1> QED
  BY <1>3, <1>4, <1>5, <1>6, FS_Union DEF AreShaped

-----------------------------------------------------------------------------
(* What the steps leave: the tables are what they were but for what is     *)
(* hidden, and each result is the function of them that its step computes. *)

Settled ==
  /\ phase \in {"watch", "candidates", "done"} => att = Attribution(world)
  /\ phase \in {"candidates", "done"} => ws = WatchState(world, att)
  /\ Done => rows = Candidates(Hiding(world, silent), att, ws)

DeriveInv ==
  /\ IsTables(world) /\ silent \subseteq DOMAIN world.arr
  /\ phase \in {"attribution", "watch", "candidates", "done", "failed"}
  /\ AreShaped(rows, DOMAIN world.arr)
  /\ Settled

\* The ignore forms: other items are hidden, and no result changes.
LEMMA HidingStep ==
  ASSUME DeriveInv, NEW h, h \subseteq DOMAIN world.arr, world' = Hiding(world, h),
         UNCHANGED <<att, ws, rows, phase, silent>>
  PROVE  DeriveInv'
<1>1. IsTables(world) /\ IsTables(world') /\ world'.arr = world.arr
  BY HidingAgain, HidingKeeps DEF DeriveInv
<1>2. silent' \subseteq DOMAIN world'.arr
  BY <1>1 DEF DeriveInv
<1>3. Attribution(world') = Attribution(world)
  BY <1>1, AttributionIsBlind
<1>4. WatchState(world', att') = WatchState(world, att)
  BY <1>1, WatchStateIsBlind
<1>5. Hiding(world', silent') = Hiding(world, silent)
  BY <1>1, HidingAgain
<1> QED
  BY <1>1, <1>2, <1>3, <1>4, <1>5 DEF DeriveInv, Settled, Done

LEMMA DeriveInvInit == DeriveInit => DeriveInv
BY WorldsAssumption, FS_EmptySet DEF DeriveInit, DeriveInv, Settled, Done, AreShaped

LEMMA DeriveInvStep == DeriveInv /\ [DeriveNext]_deriveVars => DeriveInv'
<1> SUFFICES ASSUME DeriveInv, [DeriveNext]_deriveVars PROVE DeriveInv'
  OBVIOUS
<1>1. CASE Attribute
  BY <1>1 DEF DeriveInv, Settled, Done, Attribute
<1>2. CASE Watch
  BY <1>2 DEF DeriveInv, Settled, Done, Watch
<1>3. CASE ComputeRows
  <2>1. Hiding(world, world.hidden) = world /\ world.hidden \subseteq DOMAIN world.arr
    BY HidingSelf DEF DeriveInv, IsTables
  <2> QED
    BY <1>3, <2>1, CandidatesAreShaped DEF DeriveInv, Settled, Done, ComputeRows
<1>4. CASE FailDerive
  BY <1>4 DEF DeriveInv, Settled, Done, FailDerive
<1>5. ASSUME NEW a \in DOMAIN world.arr, Ignore(a) PROVE DeriveInv'
  <2>1. world.hidden \cup {a} \subseteq DOMAIN world.arr
    BY DEF DeriveInv, IsTables
  <2> QED
    BY <1>5, <2>1, HidingStep DEF Ignore, Hiding
<1>6. ASSUME NEW a \in DOMAIN world.arr, Unignore(a) PROVE DeriveInv'
  <2>1. world.hidden \ {a} \subseteq DOMAIN world.arr
    BY DEF DeriveInv, IsTables
  <2> QED
    BY <1>6, <2>1, HidingStep DEF Unignore, Hiding
<1>7. ASSUME NEW w \in Later, Pull(w) PROVE DeriveInv'
  <2>1. IsTables(w) /\ world.hidden \subseteq DOMAIN w.arr /\ DOMAIN world.arr \subseteq DOMAIN w.arr
    BY <1>7, WorldsAssumption DEF Pull, DeriveInv, IsTables
  <2>2. world' = Hiding(w, world.hidden)
    BY <1>7 DEF Pull, Hiding
  <2>3. IsTables(world') /\ world'.arr = w.arr
    BY <2>1, <2>2, HidingAgain, HidingKeeps
  <2>4. AreShaped(rows, DOMAIN w.arr)
    BY <2>1 DEF DeriveInv, AreShaped, Shaped
  <2> QED
    BY <1>7, <2>1, <2>3, <2>4 DEF DeriveInv, Settled, Done, Pull
<1>8. CASE UNCHANGED deriveVars
  BY <1>8 DEF deriveVars, DeriveInv, Settled, Done
<1> QED
  BY <1>1, <1>2, <1>3, <1>4, <1>5, <1>6, <1>7, <1>8 DEF DeriveNext

\* When a step of the tail of run_sync() is over, its table is what the step
\* computes from the tables as they are, ignored items apart: the forms of
\* routes/ignored.py change no result, and no step reads another too early.
THEOREM DeriveSettles == DeriveSpec => []DeriveInv
<1>1. DeriveInit => DeriveInv
  BY DeriveInvInit
<1>2. DeriveInv /\ [DeriveNext]_deriveVars => DeriveInv'
  BY DeriveInvStep
<1> QED
  BY <1>1, <1>2, PTL DEF DeriveSpec

-----------------------------------------------------------------------------
(* To ignore hides.                                                        *)

LEMMA HidingOnlyHides ==
  ASSUME NEW w, IsTables(w), NEW h, h \subseteq DOMAIN w.arr, NEW at, NEW s
  PROVE  Candidates(Hiding(w, h), at, s) = {r \in Candidates(Hiding(w, {}), at, s) : r.arr \notin h}
<1> DEFINE v == Hiding(w, h)
           u == Hiding(w, {})
<1>1. /\ v.arr = w.arr /\ u.arr = w.arr /\ v.ruled = w.ruled /\ u.ruled = w.ruled
      /\ v.hidden = h /\ u.hidden = {}
  BY HidingKeeps
<1>2. \A a : ItemRows(v, at, s, a) = ItemRows(u, at, s, a)
  BY RowsAreBlind
<1>3. PlexOrphans(v) = PlexOrphans(u)
  BY RowsAreBlind
<1> HIDE DEF v, u
<1>4. \A a \in DOMAIN w.arr : Listable(v, a) <=> Listable(u, a) /\ a \notin h
  BY <1>1 DEF Listable
<1>5. NULL \notin h
  BY DEF IsTables
<1>6. \A a : \A r \in ItemRows(u, at, s, a) : r.arr = a
  BY RowsAreNamed
<1>7. \A r \in PlexOrphans(u) : r.arr = NULL
  BY RowsAreNamed
<1>8. ASSUME NEW r
      PROVE  r \in Candidates(v, at, s) <=> r \in Candidates(u, at, s) /\ r.arr \notin h
  <2>1. r \in Candidates(v, at, s) <=>
          \/ \E a \in DOMAIN v.arr : Listable(v, a) /\ r \in ItemRows(v, at, s, a)
          \/ r \in PlexOrphans(v)
    BY CandidatesByItem
  <2>2. r \in Candidates(u, at, s) <=>
          \/ \E a \in DOMAIN u.arr : Listable(u, a) /\ r \in ItemRows(u, at, s, a)
          \/ r \in PlexOrphans(u)
    BY CandidatesByItem
  <2> QED
    BY <2>1, <2>2, <1>1, <1>2, <1>3, <1>4, <1>5, <1>6, <1>7
<1>9. Candidates(v, at, s) = {r \in Candidates(u, at, s) : r.arr \notin h}
  BY <1>8
<1> QED
  BY <1>9 DEF v, u

\* ignore_item() takes the item's own rows off the list and no others: the
\* file matching of candidates_db.py does not look at what is hidden.
THEOREM IgnoringHides == DeriveSpec => []IgnoringOnlyHides
<1>1. DeriveInv => IgnoringOnlyHides
  <2> SUFFICES ASSUME DeriveInv, Done
               PROVE  rows = {r \in Candidates([world EXCEPT !.hidden = {}], att, ws) : r.arr \notin silent}
    BY DEF IgnoringOnlyHides
  <2>1. rows = Candidates(Hiding(world, silent), att, ws)
    BY DEF DeriveInv, Settled
  <2>2. Candidates(Hiding(world, silent), att, ws)
          = {r \in Candidates(Hiding(world, {}), att, ws) : r.arr \notin silent}
    BY HidingOnlyHides DEF DeriveInv
  <2> QED
    BY <2>1, <2>2, Zenon DEF Hiding
<1> QED
  BY <1>1, DeriveSettles, PTL

-----------------------------------------------------------------------------
(* The rows of a run, reason by reason.                                    *)

Shown(a) == world.arr[a].live /\ a \notin silent \cup world.ruled

LEMMA RowsMean ==
  ASSUME DeriveInv, Done
  PROVE  \A r : r \in rows <=>
           \/ \E a \in DOMAIN world.arr : Shown(a) /\ r \in ItemRows(world, att, ws, a)
           \/ r \in PlexOrphans(world)
<1> DEFINE v == Hiding(world, silent)
<1>1. v.arr = world.arr /\ v.hidden = silent /\ v.ruled = world.ruled
  BY HidingKeeps DEF DeriveInv
<1>2. \A a : ItemRows(v, att, ws, a) = ItemRows(world, att, ws, a)
  BY RowsAreBlind DEF DeriveInv
<1>3. PlexOrphans(v) = PlexOrphans(world)
  BY RowsAreBlind DEF DeriveInv
<1>4. rows = Candidates(v, att, ws)
  BY DEF DeriveInv, Settled
<1> HIDE DEF v
<1>5. \A r : r \in Candidates(v, att, ws) <=>
           \/ \E a \in DOMAIN v.arr : Listable(v, a) /\ r \in ItemRows(v, att, ws, a)
           \/ r \in PlexOrphans(v)
  BY CandidatesByItem
<1>6. \A a : Listable(v, a) <=> Shown(a)
  BY <1>1 DEF Listable, Shown
<1> QED
  BY <1>1, <1>2, <1>3, <1>4, <1>5, <1>6

\* What the reasons and the other columns of a row are.
LEMMA RowColumns ==
  ASSUME NEW w, NEW at, NEW s, NEW a
  PROVE  /\ \A reason, last, conf : /\ ItemRowOf(w, a, reason, last, conf).arr = a
                                    /\ ItemRowOf(w, a, reason, last, conf).plex = NULL
                                    /\ ItemRowOf(w, a, reason, last, conf).reason = reason
         /\ \A k, n, reason, size : /\ FileRowOf(a, k, n, reason, size).arr = a
                                   /\ FileRowOf(a, k, n, reason, size).plex = k
                                   /\ FileRowOf(a, k, n, reason, size).file = n
                                   /\ FileRowOf(a, k, n, reason, size).reason = reason
BY DEF ItemRowOf, FileRowOf

LEMMA ReasonsOfRules ==
  ASSUME NEW w, NEW at, NEW s, NEW a
  PROVE  /\ \A r \in NeverRows(w, at, s, a) :
              r.reason \in {"never_watched_anyone", "never_watched_requester"}
         /\ \A r \in StaleRows(w, at, s, a) :
              r.reason \in {"stale_finished_anyone", "stale_partial_anyone",
                           "stale_finished_requester", "stale_partial_requester"}
         /\ \A r \in MovieOrphans(w, a) \cup SeriesOrphans(w, a) : r.reason = "orphan_arr_no_plex"
         /\ \A r \in PlexOrphans(w) : r.reason = "orphan_plex_no_arr"
<1>1. ASSUME NEW r \in NeverRows(w, at, s, a)
      PROVE  r.reason \in {"never_watched_anyone", "never_watched_requester"}
  <2>1. \/ r = ItemRowOf(w, a, "never_watched_anyone", NULL, "high")
        \/ r = ItemRowOf(w, a, "never_watched_requester", NULL, Trust(Watched(s, a).conf))
    BY NeverMeans
  <2> QED
    BY <2>1, RowColumns
<1>2. ASSUME NEW r \in StaleRows(w, at, s, a)
      PROVE  r.reason \in {"stale_finished_anyone", "stale_partial_anyone",
                           "stale_finished_requester", "stale_partial_requester"}
  BY StaleMeans, RowColumns
<1>3. \A r \in MovieOrphans(w, a) : r.reason = "orphan_arr_no_plex"
  BY RowColumns DEF MovieOrphans
<1>4. \A r \in SeriesOrphans(w, a) : r.reason = "orphan_arr_no_plex"
  BY RowColumns DEF SeriesOrphans
<1>5. ASSUME NEW r \in PlexOrphans(w) PROVE r.reason = "orphan_plex_no_arr"
  <2>1. \A k, n, size : FileRowOf(NULL, k, n, "orphan_plex_no_arr", size).reason = "orphan_plex_no_arr"
    BY DEF FileRowOf
  <2> QED
    BY <2>1 DEF PlexOrphans
<1> QED
  BY <1>1, <1>2, <1>3, <1>4, <1>5

\* The rules 1 to 6 list an item exactly if their conditions hold of it.
LEMMA HasMeans ==
  ASSUME DeriveInv, Done, NEW a \in DOMAIN world.arr
  PROVE  /\ Has(a, "never_watched_anyone") <=>
              Shown(a) /\ Old(world.arr[a].age, NeverDays) /\ ~Watched(ws, a).played
         /\ Has(a, "never_watched_requester") <=>
              /\ Shown(a) /\ Old(world.arr[a].age, NeverDays)
              /\ Requester(att, a).name # NoName /\ ~Watched(ws, a).playedOwn
         /\ Has(a, "stale_finished_anyone") <=>
              /\ Shown(a) /\ Watched(ws, a).played /\ Old(Watched(ws, a).last, StaleDays)
              /\ Watched(ws, a).finished
         /\ Has(a, "stale_partial_anyone") <=>
              /\ Shown(a) /\ Watched(ws, a).played /\ Old(Watched(ws, a).last, StaleDays)
              /\ ~Watched(ws, a).finished
         /\ Has(a, "stale_finished_requester") <=>
              /\ Shown(a) /\ Requester(att, a).name # NoName /\ Watched(ws, a).playedOwn
              /\ Old(Watched(ws, a).lastOwn, StaleDays) /\ Watched(ws, a).finishedOwn
         /\ Has(a, "stale_partial_requester") <=>
              /\ Shown(a) /\ Requester(att, a).name # NoName /\ Watched(ws, a).playedOwn
              /\ Old(Watched(ws, a).lastOwn, StaleDays) /\ ~Watched(ws, a).finishedOwn
<1> DEFINE N == NeverRows(world, att, ws, a)
           S == StaleRows(world, att, ws, a)
<1>1. a # NULL
  BY DEF DeriveInv, IsTables
<1>2. \A r \in rows : r.arr = a /\ r.reason \notin {"orphan_arr_no_plex", "orphan_plex_no_arr"}
                      => Shown(a) /\ (r \in N \/ r \in S)
  <2> SUFFICES ASSUME NEW r \in rows, r.arr = a, r.reason \notin {"orphan_arr_no_plex", "orphan_plex_no_arr"}
      PROVE Shown(a) /\ (r \in N \/ r \in S)
    OBVIOUS
  <2>1. r \notin PlexOrphans(world)
    BY ReasonsOfRules
  <2>2. PICK b \in DOMAIN world.arr : Shown(b) /\ r \in ItemRows(world, att, ws, b)
    BY <2>1, RowsMean
  <2>3. b = a
    BY <2>2, RowsAreNamed
  <2>4. r \notin MovieOrphans(world, a) /\ r \notin SeriesOrphans(world, a)
    BY ReasonsOfRules
  <2> QED
    BY <2>2, <2>3, <2>4 DEF ItemRows
<1>3. Shown(a) => \A r : r \in N \/ r \in S => r \in rows
  BY RowsMean DEF ItemRows
<1>4. \A r \in N : r.arr = a /\ r.reason \in {"never_watched_anyone", "never_watched_requester"}
  BY RowsAreNamed, ReasonsOfRules DEF ItemRows
<1>5. \A r \in S : r.arr = a /\ r.reason \in {"stale_finished_anyone", "stale_partial_anyone",
                           "stale_finished_requester", "stale_partial_requester"}
  BY RowsAreNamed, ReasonsOfRules DEF ItemRows
<1> HIDE DEF N, S
<1>6. \A reason : reason \in {"never_watched_anyone", "never_watched_requester"} =>
        (Has(a, reason) <=> Shown(a) /\ \E r \in N : r.reason = reason)
  BY <1>2, <1>3, <1>4, <1>5 DEF Has
<1>7. \A reason : reason \in {"stale_finished_anyone", "stale_partial_anyone",
                           "stale_finished_requester", "stale_partial_requester"} =>
        (Has(a, reason) <=> Shown(a) /\ \E r \in S : r.reason = reason)
  BY <1>2, <1>3, <1>4, <1>5 DEF Has
<1>8. \A reason, last, conf : ItemRowOf(world, a, reason, last, conf).reason = reason
  BY RowColumns
<1>9. /\ (\E r \in N : r.reason = "never_watched_anyone") <=>
           Old(world.arr[a].age, NeverDays) /\ ~Watched(ws, a).played
      /\ (\E r \in N : r.reason = "never_watched_requester") <=>
           /\ Old(world.arr[a].age, NeverDays)
           /\ Requester(att, a).name # NoName /\ ~Watched(ws, a).playedOwn
  <2> DEFINE x == ItemRowOf(world, a, "never_watched_anyone", NULL, "high")
             y == ItemRowOf(world, a, "never_watched_requester", NULL, Trust(Watched(ws, a).conf))
  <2>1. x.reason = "never_watched_anyone" /\ y.reason = "never_watched_requester"
    BY <1>8
  <2>2. \A r : r \in N <=>
          /\ Old(world.arr[a].age, NeverDays)
          /\ \/ ~Watched(ws, a).played /\ r = x
             \/ Requester(att, a).name # NoName /\ ~Watched(ws, a).playedOwn /\ r = y
    BY NeverMeans DEF N
  <2> HIDE DEF x, y
  <2> QED
    BY <2>1, <2>2
<1>10. /\ (\E r \in S : r.reason = "stale_finished_anyone") <=>
            Watched(ws, a).played /\ Old(Watched(ws, a).last, StaleDays) /\ Watched(ws, a).finished
       /\ (\E r \in S : r.reason = "stale_partial_anyone") <=>
            Watched(ws, a).played /\ Old(Watched(ws, a).last, StaleDays) /\ ~Watched(ws, a).finished
       /\ (\E r \in S : r.reason = "stale_finished_requester") <=>
            /\ Requester(att, a).name # NoName /\ Watched(ws, a).playedOwn
            /\ Old(Watched(ws, a).lastOwn, StaleDays) /\ Watched(ws, a).finishedOwn
       /\ (\E r \in S : r.reason = "stale_partial_requester") <=>
            /\ Requester(att, a).name # NoName /\ Watched(ws, a).playedOwn
            /\ Old(Watched(ws, a).lastOwn, StaleDays) /\ ~Watched(ws, a).finishedOwn
  <2> DEFINE reasonAny == IF Watched(ws, a).finished THEN "stale_finished_anyone"
                                                     ELSE "stale_partial_anyone"
             reasonOwn == IF Watched(ws, a).finishedOwn THEN "stale_finished_requester"
                                                        ELSE "stale_partial_requester"
             x == ItemRowOf(world, a, reasonAny, Watched(ws, a).last, "high")
             y == ItemRowOf(world, a, reasonOwn, Watched(ws, a).lastOwn, Trust(Watched(ws, a).conf))
  <2>1. x.reason = reasonAny /\ y.reason = reasonOwn
    BY <1>8
  <2>2. \A r : r \in S <=>
          \/ Watched(ws, a).played /\ Old(Watched(ws, a).last, StaleDays) /\ r = x
          \/ /\ Requester(att, a).name # NoName /\ Watched(ws, a).playedOwn
             /\ Old(Watched(ws, a).lastOwn, StaleDays) /\ r = y
    BY StaleMeans DEF S
  <2> HIDE DEF x, y
  <2> QED
    BY <2>1, <2>2
<1> QED
  BY <1>6, <1>7, <1>9, <1>10

-----------------------------------------------------------------------------
(* Counting episodes.                                                      *)

EpisodesOf(events) == {e.ep : e \in events}

LEMMA EpisodesAreFinite ==
  ASSUME NEW E, IsFiniteSet(E)
  PROVE  IsFiniteSet(EpisodesOf(E)) /\ Cardinality(EpisodesOf(E)) \in Nat
<1> DEFINE f == [e \in E |-> e.ep]
<1>1. f \in Surjection(E, EpisodesOf(E))
  BY DEF Surjection, EpisodesOf
<1> QED
  BY <1>1, FS_Surjection, FS_CardinalityType

LEMMA FewerEpisodes ==
  ASSUME NEW E, IsFiniteSet(E), NEW D, D \subseteq E
  PROVE  /\ Distinct(D) \in Nat /\ Distinct(E) \in Nat
         /\ Distinct(D) <= Distinct(E)
<1>1. EpisodesOf(D) \in SUBSET EpisodesOf(E)
  BY DEF EpisodesOf
<1>2. IsFiniteSet(EpisodesOf(E)) /\ IsFiniteSet(EpisodesOf(D))
  BY <1>1, EpisodesAreFinite, FS_Subset
<1>3. Cardinality(EpisodesOf(D)) <= Cardinality(EpisodesOf(E))
  BY <1>1, <1>2, FS_Subset
<1>4. Distinct(D) = Cardinality(EpisodesOf(D)) /\ Distinct(E) = Cardinality(EpisodesOf(E))
  BY Zenon DEF Distinct, EpisodesOf
<1> QED
  BY <1>2, <1>3, <1>4, FS_CardinalityType

\* The counts of a series are bounded by the plays there are.
LEMMA CountsAreBounded ==
  ASSUME NEW w, IsTables(w), NEW ai, NEW people
  PROVE  \E n \in Nat : Counts(w, ai) \subseteq 0 .. n /\ OwnCounts(w, ai, people) \subseteq 0 .. n
<1>1. IsFiniteSet(w.events)
  BY DEF IsTables
<1> DEFINE n == Distinct(w.events)
<1>2. \A D : D \subseteq w.events => Distinct(D) \in Nat /\ Distinct(D) <= n /\ n \in Nat
  BY <1>1, FewerEpisodes
<1>3. \A k : EpisodePlays(w, k) \subseteq w.events
  BY DEF EpisodePlays
<1>4. \A k, p : By(EpisodePlays(w, k), {p}) \subseteq w.events
  BY <1>3 DEF By
<1> HIDE DEF n
<1>5. n \in Nat
  BY <1>2
<1>6. \A k : Distinct(EpisodePlays(w, k)) \in 0 .. n
  BY <1>2, <1>3
<1>7. ASSUME NEW k, NEW p PROVE Distinct(By(EpisodePlays(w, k), {p})) \in 0 .. n
  <2>1. By(EpisodePlays(w, k), {p}) \subseteq w.events
    BY <1>4
  <2> QED
    BY <1>2, <2>1
<1>8. Counts(w, ai) \subseteq 0 .. n
  BY <1>6 DEF Counts
<1>9. \A k : CountsPerUser(EpisodePlays(w, k), people) \subseteq 0 .. n
  BY <1>7 DEF CountsPerUser
<1>10. OwnCounts(w, ai, people) \subseteq 0 .. n
  BY <1>9 DEF OwnCounts
<1> QED
  BY <1>5, <1>8, <1>10

LEMMA DoneMeans ==
  ASSUME NEW n \in Nat, NEW C, C \subseteq 0 .. n, NEW total \in Nat
  PROVE  SeriesDone(total, C) <=> total > 0 /\ \E c \in C : c >= total
<1>1. CASE C = {}
  BY <1>1 DEF SeriesDone, Largest
<1>2. CASE C # {}
  <2>1. Max(C) \in C /\ \A y \in C : Max(C) >= y
    BY <1>2, MaxIsGreatest
  <2>2. Largest(C) = Max(C)
    BY <1>2 DEF Largest
  <2>3. ASSUME NEW c \in C, c >= total PROVE Max(C) >= total
    <3>1. Max(C) \in 0 .. n /\ c \in 0 .. n /\ Max(C) >= c
      BY <2>1
    <3> QED
      BY <2>3, <3>1
  <2> QED
    BY <2>1, <2>2, <2>3 DEF SeriesDone
<1> QED
  BY <1>1, <1>2

LEMMA NeededIsFinite ==
  ASSUME NEW w, IsTables(w), NEW a \in DOMAIN w.arr
  PROVE  IsFiniteSet(Countable(w, w.arr[a])) /\ Cardinality(Countable(w, w.arr[a])) \in Nat
<1>1. IsFiniteSet(DOMAIN w.arr[a].eps)
  BY DEF IsTables
<1>2. Countable(w, w.arr[a]) \in SUBSET DOMAIN w.arr[a].eps
  BY DEF Countable
<1> QED
  BY <1>1, <1>2, FS_Subset, FS_CardinalityType

LEMMA LastMeans ==
  ASSUME NEW E, \A e \in E : e.ago \in Nat
  PROVE  /\ LastOf(E) \in Nat
         /\ LastOf(E) # NULL => \E e \in E : e.ago = LastOf(E)
         /\ \A e \in E : e.ago # NULL => LastOf(E) # NULL /\ LastOf(E) <= e.ago
<1> DEFINE stops == {e.ago : e \in E} \ {NULL}
<1>1. LastOf(E) = IF stops = {} THEN NULL ELSE Min(stops)
  BY DEF LastOf
<1>2. stops \subseteq Nat
  OBVIOUS
<1>3. \A t \in stops : \E e \in E : e.ago = t
  OBVIOUS
<1>4. \A e \in E : e.ago # NULL => e.ago \in stops
  OBVIOUS
<1>5. NULL \notin stops
  OBVIOUS
<1> HIDE DEF stops
<1>6. stops # {} => Min(stops) \in stops /\ \A t \in stops : Min(stops) <= t
  BY <1>2, MinIsLeast
<1>7. CASE stops = {}
  BY <1>7, <1>1, <1>4 DEF NULL
<1>8. CASE stops # {}
  BY <1>8, <1>1, <1>2, <1>3, <1>4, <1>5, <1>6
<1> QED
  BY <1>7, <1>8

\* What the plays of the requester say, all plays say.
LEMMA OwnIsPart ==
  ASSUME NEW E, \A e \in E : e.ago \in Nat, NEW people
  PROVE  LET own == By(E, people) IN
         /\ own # {} => E # {}
         /\ LastOf(own) # NULL =>
              /\ own # {} /\ LastOf(E) # NULL /\ LastOf(E) \in Nat /\ LastOf(own) \in Nat
              /\ LastOf(E) <= LastOf(own)
<1> DEFINE own == By(E, people)
<1>1. own \subseteq E /\ \A e \in own : e.ago \in Nat
  BY DEF By
<1> HIDE DEF own
<1>2. /\ LastOf(own) \in Nat
      /\ LastOf(own) # NULL => \E e \in own : e.ago = LastOf(own)
  BY <1>1, LastMeans
<1>3. LastOf(E) \in Nat /\ \A e \in E : e.ago # NULL => LastOf(E) # NULL /\ LastOf(E) <= e.ago
  BY LastMeans
<1>4. (own # {} => E # {}) /\
      (LastOf(own) # NULL =>
              /\ own # {} /\ LastOf(E) # NULL /\ LastOf(E) \in Nat /\ LastOf(own) \in Nat
              /\ LastOf(E) <= LastOf(own))
  BY <1>1, <1>2, <1>3
<1> QED
  BY <1>4 DEF own

\* What a row of watch_state says of the requester it says of all.
OwnImpliesAny(s) ==
  /\ s.playedOwn => s.played
  /\ s.lastOwn # NULL =>
       /\ s.playedOwn /\ s.last # NULL /\ s.last \in Nat /\ s.lastOwn \in Nat
       /\ s.last <= s.lastOwn
  /\ s.finishedOwn => s.finished

LEMMA MovieOwnImpliesAny ==
  ASSUME NEW w, IsTables(w), NEW ai, NEW people
  PROVE  OwnImpliesAny(MovieState(w, ai, people))
<1> DEFINE any == MoviePlays(w, ai)
           own == By(any, people)
           s == MovieState(w, ai, people)
<1>1. \A e \in any : e.ago \in Nat
  BY DEF MoviePlays, IsTables
<1>2. /\ s.played = (any # {}) /\ s.playedOwn = (own # {}) /\ s.last = LastOf(any)
      /\ s.lastOwn = LastOf(own) /\ s.finished = (any # {}) /\ s.finishedOwn = (own # {})
  BY DEF MovieState
<1> HIDE DEF any, s
<1>3. /\ own # {} => any # {}
      /\ LastOf(own) # NULL =>
              /\ own # {} /\ LastOf(any) # NULL /\ LastOf(any) \in Nat /\ LastOf(own) \in Nat
              /\ LastOf(any) <= LastOf(own)
  BY <1>1, OwnIsPart
<1> HIDE DEF own
<1>4. OwnImpliesAny(s)
  BY <1>2, <1>3 DEF OwnImpliesAny
<1> QED
  BY <1>4 DEF s

LEMMA SeriesOwnImpliesAny ==
  ASSUME NEW w, IsTables(w), NEW a \in DOMAIN w.arr, NEW people
  PROVE  OwnImpliesAny(SeriesState(w, w.arr[a], people))
<1> DEFINE ai == w.arr[a]
           any == AnyPlays(w, ai)
           own == By(any, people)
           total == Cardinality(Countable(w, ai))
           s == SeriesState(w, ai, people)
<1>1. \A e \in any : e.ago \in Nat
  BY DEF AnyPlays, EpisodePlays, IsTables
<1>2. /\ s.played = (any # {}) /\ s.playedOwn = (own # {}) /\ s.last = LastOf(any)
      /\ s.lastOwn = LastOf(own) /\ s.finished = SeriesDone(total, Counts(w, ai))
      /\ s.finishedOwn = SeriesDone(total, OwnCounts(w, ai, people))
  BY DEF SeriesState
<1>3. total \in Nat
  BY NeededIsFinite
<1>4. PICK n \in Nat : Counts(w, ai) \subseteq 0 .. n /\ OwnCounts(w, ai, people) \subseteq 0 .. n
  BY CountsAreBounded
<1>5. ASSUME NEW c \in OwnCounts(w, ai, people) PROVE \E d \in Counts(w, ai) : d >= c
  <2>1. PICK k \in Copies(w, ai) : c \in CountsPerUser(EpisodePlays(w, k), people)
    BY DEF OwnCounts
  <2>2. PICK p \in people : c = Distinct(By(EpisodePlays(w, k), {p}))
    BY <2>1 DEF CountsPerUser
  <2>3. By(EpisodePlays(w, k), {p}) \subseteq EpisodePlays(w, k)
    BY DEF By
  <2>4. IsFiniteSet(EpisodePlays(w, k))
    <3>1. EpisodePlays(w, k) \in SUBSET w.events /\ IsFiniteSet(w.events)
      BY DEF EpisodePlays, IsTables
    <3> QED
      BY <3>1, FS_Subset
  <2>5. /\ c \in Nat /\ Distinct(EpisodePlays(w, k)) \in Nat
        /\ c <= Distinct(EpisodePlays(w, k))
    BY <2>2, <2>3, <2>4, FewerEpisodes
  <2>6. Distinct(EpisodePlays(w, k)) \in Counts(w, ai)
    BY DEF Counts
  <2> QED
    BY <2>5, <2>6
<1> HIDE DEF any, s, total, ai
<1>6. /\ own # {} => any # {}
      /\ LastOf(own) # NULL =>
              /\ own # {} /\ LastOf(any) # NULL /\ LastOf(any) \in Nat /\ LastOf(own) \in Nat
              /\ LastOf(any) <= LastOf(own)
  BY <1>1, OwnIsPart
<1>7. SeriesDone(total, OwnCounts(w, ai, people)) => SeriesDone(total, Counts(w, ai))
  <2>1. SeriesDone(total, OwnCounts(w, ai, people)) <=>
          total > 0 /\ \E c \in OwnCounts(w, ai, people) : c >= total
    BY <1>3, <1>4, DoneMeans
  <2>2. SeriesDone(total, Counts(w, ai)) <=> total > 0 /\ \E c \in Counts(w, ai) : c >= total
    BY <1>3, <1>4, DoneMeans
  <2>3. ASSUME NEW c \in OwnCounts(w, ai, people), c >= total
        PROVE  \E d \in Counts(w, ai) : d >= total
    <3>1. PICK d \in Counts(w, ai) : d >= c
      BY <1>5
    <3>2. d \in Nat /\ c \in Nat
      BY <1>4
    <3> QED
      BY <1>3, <2>3, <3>1, <3>2
  <2> QED
    BY <2>1, <2>2, <2>3
<1> HIDE DEF own
<1>8. OwnImpliesAny(s)
  BY <1>2, <1>6, <1>7 DEF OwnImpliesAny
<1> QED
  BY <1>8 DEF s, ai

LEMMA WatchStateMeans ==
  ASSUME NEW w, IsTables(w), NEW at, NEW a \in LiveArr(w)
  PROVE  /\ a \in DOMAIN w.arr
         /\ w.arr[a].kind = "movie" =>
              WatchState(w, at)[a] = MovieState(w, w.arr[a], Identities(w, Requester(at, a)))
         /\ w.arr[a].kind # "movie" =>
              WatchState(w, at)[a] = SeriesState(w, w.arr[a], Identities(w, Requester(at, a)))
         /\ OwnImpliesAny(WatchState(w, at)[a])
<1>1. a \in DOMAIN w.arr
  BY DEF LiveArr
<1>2. w.arr[a].kind = "movie" =>
        WatchState(w, at)[a] = MovieState(w, w.arr[a], Identities(w, Requester(at, a)))
  BY DEF WatchState
<1>3. w.arr[a].kind # "movie" =>
        WatchState(w, at)[a] = SeriesState(w, w.arr[a], Identities(w, Requester(at, a)))
  BY DEF WatchState
<1> QED
  BY <1>1, <1>2, <1>3, MovieOwnImpliesAny, SeriesOwnImpliesAny

\* What compute_candidates() lists for a requester agrees with what it lists for
\* anyone: the plays that watch_state.py counts for the one are among those it
\* counts for the other.
THEOREM ScopesNest == DeriveSpec => []ScopesAgree
<1>1. DeriveInv => ScopesAgree
  <2> SUFFICES ASSUME DeriveInv, Done, NEW a \in DOMAIN ws
      PROVE /\ Has(a, "never_watched_anyone") /\ Requester(att, a).name # NoName =>
                 Has(a, "never_watched_requester")
            /\ (Has(a, "stale_finished_anyone") \/ Has(a, "stale_partial_anyone"))
               /\ ws[a].lastOwn # NULL /\ Requester(att, a).name # NoName =>
                 Has(a, "stale_finished_requester") \/ Has(a, "stale_partial_requester")
            /\ Has(a, "stale_finished_requester") => ~Has(a, "stale_partial_anyone")
            /\ ~(Has(a, "never_watched_anyone")
                 /\ (Has(a, "stale_finished_requester") \/ Has(a, "stale_partial_requester")))
    BY DEF ScopesAgree
  <2>1. ws = WatchState(world, att) /\ IsTables(world)
    BY DEF DeriveInv, Settled, Done
  <2>2. DOMAIN ws = LiveArr(world)
    BY <2>1 DEF WatchState
  <2>3. a \in DOMAIN world.arr /\ OwnImpliesAny(ws[a])
    BY <2>1, <2>2, WatchStateMeans
  <2>4. Watched(ws, a) = ws[a]
    BY DEF Watched
  <2>5. /\ StaleDays \in Nat
        /\ ws[a].lastOwn # NULL /\ Old(ws[a].last, StaleDays) => Old(ws[a].lastOwn, StaleDays)
    BY <2>3, DaysGrow, RulesAssumption DEF OwnImpliesAny, Old
  <2> QED
    BY <2>3, <2>4, <2>5, HasMeans DEF OwnImpliesAny
<1> QED
  BY <1>1, DeriveSettles, PTL

-----------------------------------------------------------------------------
(* What finishes a series.                                                 *)

SeenOn(w, k, users) == EpisodesOf({f \in EpisodePlays(w, k) : f.user \in users})

Users(w) == {e.user : e \in w.events}

Mine(w, at, a) == {p.user : p \in Identities(w, Requester(at, a))} \ {NULL}

\* At least as many as are needed, and not because of others: all that are needed.
LEMMA EnoughIsAll ==
  ASSUME NEW N, IsFiniteSet(N), NEW S, IsFiniteSet(S)
  PROVE  /\ N \subseteq S => Cardinality(S) >= Cardinality(N)
         /\ Cardinality(S) >= Cardinality(N) => N \subseteq S \/ ~(S \subseteq N)
<1>1. Cardinality(N) \in Nat /\ Cardinality(S) \in Nat
  BY FS_CardinalityType
<1>2. ASSUME N \subseteq S PROVE Cardinality(S) >= Cardinality(N)
  <2>1. Cardinality(N) <= Cardinality(S)
    BY <1>2, FS_Subset
  <2> QED
    BY <1>1, <2>1
<1>3. ASSUME Cardinality(S) >= Cardinality(N), S \subseteq N PROVE N \subseteq S
  <2>1. Cardinality(S) <= Cardinality(N) /\ (Cardinality(N) = Cardinality(S) => N = S)
    BY <1>3, FS_Subset
  <2> QED
    BY <1>1, <1>3, <2>1
<1> QED
  BY <1>2, <1>3

LEMMA SeenCounts ==
  ASSUME NEW w, IsTables(w), NEW k
  PROVE  /\ Distinct(EpisodePlays(w, k)) = Cardinality(SeenOn(w, k, Users(w)))
         /\ \A p : p.user # NULL =>
              Distinct(By(EpisodePlays(w, k), {p})) = Cardinality(SeenOn(w, k, {p.user}))
         /\ \A p : p.user = NULL => Distinct(By(EpisodePlays(w, k), {p})) = 0
         /\ \A users : IsFiniteSet(SeenOn(w, k, users))
<1>0. EpisodePlays(w, k) \in SUBSET w.events /\ IsFiniteSet(w.events)
  BY DEF EpisodePlays, IsTables
<1>1. \A D : Distinct(D) = Cardinality(EpisodesOf(D))
  BY Zenon DEF Distinct, EpisodesOf
<1>2. {f \in EpisodePlays(w, k) : f.user \in Users(w)} = EpisodePlays(w, k)
  BY <1>0 DEF Users
<1>3. ASSUME NEW p, p.user # NULL
      PROVE  By(EpisodePlays(w, k), {p}) = {f \in EpisodePlays(w, k) : f.user \in {p.user}}
  BY <1>3 DEF By, Same
<1>4. ASSUME NEW p, p.user = NULL PROVE Distinct(By(EpisodePlays(w, k), {p})) = 0
  <2>1. By(EpisodePlays(w, k), {p}) = {}
    BY <1>4 DEF By, Same
  <2>2. EpisodesOf({}) = {}
    BY DEF EpisodesOf
  <2> QED
    BY <1>1, <2>1, <2>2, FS_EmptySet
<1>5. ASSUME NEW users PROVE IsFiniteSet(SeenOn(w, k, users))
  <2>1. {f \in EpisodePlays(w, k) : f.user \in users} \in SUBSET w.events
    BY <1>0
  <2> QED
    BY <1>0, <2>1, FS_Subset, EpisodesAreFinite DEF SeenOn
<1>6. Distinct(EpisodePlays(w, k)) = Cardinality(SeenOn(w, k, Users(w)))
  BY <1>1, <1>2 DEF SeenOn
<1>7. ASSUME NEW p, p.user # NULL
      PROVE  Distinct(By(EpisodePlays(w, k), {p})) = Cardinality(SeenOn(w, k, {p.user}))
  BY <1>1, <1>3, <1>7 DEF SeenOn
<1> QED
  BY <1>4, <1>5, <1>6, <1>7

\* The two ways in which a series becomes finished.
LEMMA FinishedMeans ==
  ASSUME NEW w, IsTables(w), NEW at, NEW a \in LiveArr(w), w.arr[a].kind # "movie"
  PROVE  LET n == Cardinality(Countable(w, w.arr[a])) IN
         /\ WatchState(w, at)[a].finished <=>
              n > 0 /\ \E k \in Copies(w, w.arr[a]) : Cardinality(SeenOn(w, k, Users(w))) >= n
         /\ WatchState(w, at)[a].finishedOwn <=>
              n > 0 /\ \E k \in Copies(w, w.arr[a]) : \E u \in Mine(w, at, a) :
                         Cardinality(SeenOn(w, k, {u})) >= n
<1> DEFINE ai == w.arr[a]
           n == Cardinality(Countable(w, ai))
           people == Identities(w, Requester(at, a))
           s == WatchState(w, at)[a]
<1>1. s = SeriesState(w, ai, people) /\ a \in DOMAIN w.arr
  BY WatchStateMeans
<1>2. s.finished = SeriesDone(n, Counts(w, ai)) /\ s.finishedOwn = SeriesDone(n, OwnCounts(w, ai, people))
  BY <1>1 DEF SeriesState
<1>3. n \in Nat
  BY <1>1, NeededIsFinite
<1>4. PICK m \in Nat : Counts(w, ai) \subseteq 0 .. m /\ OwnCounts(w, ai, people) \subseteq 0 .. m
  BY CountsAreBounded
<1> HIDE DEF ai, n, s
<1>5. SeriesDone(n, Counts(w, ai)) <=> n > 0 /\ \E c \in Counts(w, ai) : c >= n
  BY <1>3, <1>4, DoneMeans
<1>6. SeriesDone(n, OwnCounts(w, ai, people)) <=> n > 0 /\ \E c \in OwnCounts(w, ai, people) : c >= n
  BY <1>3, <1>4, DoneMeans
<1>7. (\E c \in Counts(w, ai) : c >= n)
      <=> \E k \in Copies(w, ai) : Cardinality(SeenOn(w, k, Users(w))) >= n
  BY SeenCounts DEF Counts
<1>8. ASSUME n > 0, NEW c \in OwnCounts(w, ai, people), c >= n
      PROVE  \E k \in Copies(w, ai) : \E u \in Mine(w, at, a) : Cardinality(SeenOn(w, k, {u})) >= n
  <2>1. PICK k \in Copies(w, ai) : c \in CountsPerUser(EpisodePlays(w, k), people)
    BY DEF OwnCounts
  <2>2. PICK p \in people : c = Distinct(By(EpisodePlays(w, k), {p}))
    BY <2>1 DEF CountsPerUser
  <2>3. p.user # NULL
    <3>1. p.user = NULL => c = 0
      BY <2>2, SeenCounts
    <3> QED
      BY <1>3, <1>8, <3>1
  <2>4. p.user \in Mine(w, at, a)
    BY <2>2, <2>3 DEF Mine
  <2>5. c = Cardinality(SeenOn(w, k, {p.user}))
    BY <2>2, <2>3, SeenCounts
  <2> QED
    BY <1>8, <2>4, <2>5
<1>9. ASSUME NEW k \in Copies(w, ai), NEW u \in Mine(w, at, a), Cardinality(SeenOn(w, k, {u})) >= n
      PROVE  \E c \in OwnCounts(w, ai, people) : c >= n
  <2>1. PICK p \in people : u = p.user /\ p.user # NULL
    BY DEF Mine
  <2>2. Distinct(By(EpisodePlays(w, k), {p})) = Cardinality(SeenOn(w, k, {u}))
    BY <2>1, SeenCounts
  <2>3. Distinct(By(EpisodePlays(w, k), {p})) \in CountsPerUser(EpisodePlays(w, k), people)
    BY DEF CountsPerUser
  <2>4. Distinct(By(EpisodePlays(w, k), {p})) \in OwnCounts(w, ai, people)
    BY <2>3 DEF OwnCounts
  <2> QED
    BY <1>9, <2>2, <2>4
<1>10. /\ s.finished <=> n > 0 /\ \E k \in Copies(w, ai) : Cardinality(SeenOn(w, k, Users(w))) >= n
       /\ s.finishedOwn <=>
            n > 0 /\ \E k \in Copies(w, ai) : \E u \in Mine(w, at, a) :
                       Cardinality(SeenOn(w, k, {u})) >= n
  BY <1>2, <1>5, <1>6, <1>7, <1>8, <1>9
<1> QED
  BY <1>10 DEF s, n, ai

\* recompute_watch_state() of watch_state.py, which compares counts of episodes,
\* finishes a series whose episodes were all played on a copy, and no other
\* unless plays of episodes that do not count make up for missing ones.
THEOREM FinishedByEpisodes == DeriveSpec => []FinishedIsEarned
<1>1. DeriveInv => FinishedIsEarned
  <2> SUFFICES ASSUME DeriveInv, Done, NEW a \in DOMAIN ws, world.arr[a].kind = "series"
      PROVE LET needed == Countable(world, world.arr[a]) IN
            /\ \A k \in Copies(world, world.arr[a]) :
                 /\ needed # {} /\ needed \subseteq SeenOn(world, k, Users(world)) => ws[a].finished
                 /\ \A u \in Mine(world, att, a) :
                      needed # {} /\ needed \subseteq SeenOn(world, k, {u}) => ws[a].finishedOwn
            /\ ws[a].finished => \E k \in Copies(world, world.arr[a]) :
                 \/ needed \subseteq SeenOn(world, k, Users(world))
                 \/ ~(SeenOn(world, k, Users(world)) \subseteq needed)
            /\ ws[a].finishedOwn => \E k \in Copies(world, world.arr[a]) : \E u \in Mine(world, att, a) :
                 needed \subseteq SeenOn(world, k, {u}) \/ ~(SeenOn(world, k, {u}) \subseteq needed)
    BY Zenon DEF FinishedIsEarned, SeenOn, EpisodesOf, Users, Mine
  <2> DEFINE needed == Countable(world, world.arr[a])
  <2>1. ws = WatchState(world, att) /\ IsTables(world) /\ a \in LiveArr(world)
    BY DEF DeriveInv, Settled, Done, WatchState
  <2>2. /\ ws[a].finished <=>
            /\ Cardinality(needed) > 0
            /\ \E k \in Copies(world, world.arr[a]) :
                 Cardinality(SeenOn(world, k, Users(world))) >= Cardinality(needed)
        /\ ws[a].finishedOwn <=>
            /\ Cardinality(needed) > 0
            /\ \E k \in Copies(world, world.arr[a]) : \E u \in Mine(world, att, a) :
                 Cardinality(SeenOn(world, k, {u})) >= Cardinality(needed)
    BY <2>1, FinishedMeans
  <2>3. IsFiniteSet(needed) /\ (needed # {} => Cardinality(needed) > 0)
    <3>1. IsFiniteSet(needed) /\ Cardinality(needed) \in Nat
      BY <2>1, NeededIsFinite DEF LiveArr
    <3>2. needed # {} => Cardinality(needed) # 0
      BY <3>1, FS_EmptySet
    <3> QED
      BY <3>1, <3>2
  <2>4. \A k, users : LET S == SeenOn(world, k, users) IN
          /\ needed \subseteq S => Cardinality(S) >= Cardinality(needed)
          /\ Cardinality(S) >= Cardinality(needed) => needed \subseteq S \/ ~(S \subseteq needed)
    <3> TAKE k, users
    <3>1. IsFiniteSet(SeenOn(world, k, users))
      BY <2>1, SeenCounts
    <3> QED
      BY <2>3, <3>1, EnoughIsAll
  <2> HIDE DEF needed
  <2>5. /\ \A k \in Copies(world, world.arr[a]) :
                 /\ needed # {} /\ needed \subseteq SeenOn(world, k, Users(world)) => ws[a].finished
                 /\ \A u \in Mine(world, att, a) :
                      needed # {} /\ needed \subseteq SeenOn(world, k, {u}) => ws[a].finishedOwn
        /\ ws[a].finished => \E k \in Copies(world, world.arr[a]) :
                 \/ needed \subseteq SeenOn(world, k, Users(world))
                 \/ ~(SeenOn(world, k, Users(world)) \subseteq needed)
        /\ ws[a].finishedOwn => \E k \in Copies(world, world.arr[a]) : \E u \in Mine(world, att, a) :
                 needed \subseteq SeenOn(world, k, {u}) \/ ~(SeenOn(world, k, {u}) \subseteq needed)
    BY <2>2, <2>3, <2>4
  <2> QED
    BY <2>5 DEF needed
<1> QED
  BY <1>1, DeriveSettles, PTL

-----------------------------------------------------------------------------
(* Files that are missing from the other side.                             *)

LEMMA MovieOrphanMeans ==
  ASSUME DeriveInv, Done, NEW a \in LiveArr(world), world.arr[a].kind = "movie", NEW n,
         \E r \in rows : r.arr = a /\ r.file = n /\ r.reason = "orphan_arr_no_plex"
  PROVE  \A k \in Copies(world, world.arr[a]) : \A m \in LiveFiles(world.plex[k]) :
           ~Alike(world.arr[a].files[n].size, world.plex[k].files[m].size)
<1>1. PICK r \in rows : r.arr = a /\ r.file = n /\ r.reason = "orphan_arr_no_plex"
  OBVIOUS
<1>2. r \notin PlexOrphans(world)
  <2>1. "orphan_arr_no_plex" # "orphan_plex_no_arr"
    OBVIOUS
  <2> QED
    BY <1>1, <2>1, ReasonsOfRules
<1>3. PICK b \in DOMAIN world.arr : r \in ItemRows(world, att, ws, b)
  BY <1>2, RowsMean
<1>4. b = a
  BY <1>1, <1>3, RowsAreNamed
<1>5. r \notin NeverRows(world, att, ws, a) /\ r \notin StaleRows(world, att, ws, a)
  BY <1>1, ReasonsOfRules
<1>6. r \in MovieOrphans(world, a)
  BY <1>3, <1>4, <1>5 DEF ItemRows
<1>7. PICK f \in LiveFiles(world.arr[a]) :
        /\ ~\E k \in Copies(world, world.arr[a]) : \E p \in LiveFiles(world.plex[k]) :
              Alike(world.arr[a].files[f].size, world.plex[k].files[p].size)
        /\ r = FileRowOf(a, NULL, f, "orphan_arr_no_plex", world.arr[a].files[f].size)
  BY <1>6 DEF MovieOrphans
<1>8. f = n
  BY <1>1, <1>7 DEF FileRowOf
<1> QED
  BY <1>7, <1>8

LEMMA PlexOrphanMeans ==
  ASSUME DeriveInv, Done, NEW k \in DOMAIN world.plex, world.plex[k].live,
         NEW m \in LiveFiles(world.plex[k])
  PROVE  (\E r \in rows : r.plex = k /\ r.file = m /\ r.reason = "orphan_plex_no_arr")
         <=> ~\E a \in DOMAIN world.arr : Holds(world, a, world.plex[k], world.plex[k].files[m].size)
<1> DEFINE Lost(j, f) == ~\E a \in DOMAIN world.arr :
                            Holds(world, a, world.plex[j], world.plex[j].files[f].size)
           RowOf(j, f) == FileRowOf(NULL, j, f, "orphan_plex_no_arr", world.plex[j].files[f].size)
<1>1. \A r : r \in PlexOrphans(world) <=>
        \E j \in DOMAIN world.plex : world.plex[j].live /\
          \E f \in LiveFiles(world.plex[j]) : Lost(j, f) /\ r = RowOf(j, f)
  BY DEF PlexOrphans
<1>2. \A j, f : RowOf(j, f).plex = j /\ RowOf(j, f).file = f /\ RowOf(j, f).reason = "orphan_plex_no_arr"
  BY DEF FileRowOf
<1>3. ASSUME NEW r \in rows, r.reason = "orphan_plex_no_arr" PROVE r \in PlexOrphans(world)
  <2>1. \A b : r \notin NeverRows(world, att, ws, b) /\ r \notin StaleRows(world, att, ws, b)
    <3> TAKE b
    <3> QED
      BY <1>3, ReasonsOfRules
  <2>2. \A b : r \notin MovieOrphans(world, b) /\ r \notin SeriesOrphans(world, b)
    <3> TAKE b
    <3>1. "orphan_arr_no_plex" # "orphan_plex_no_arr"
      OBVIOUS
    <3> QED
      BY <1>3, <3>1, ReasonsOfRules
  <2>3. \A b : r \notin ItemRows(world, att, ws, b)
    BY <2>1, <2>2 DEF ItemRows
  <2> QED
    BY <2>3, RowsMean
<1>4. \A r \in PlexOrphans(world) : r \in rows
  BY RowsMean
<1> HIDE DEF Lost, RowOf
<1>5. (\E r \in rows : r.plex = k /\ r.file = m /\ r.reason = "orphan_plex_no_arr") <=> Lost(k, m)
  BY <1>1, <1>2, <1>3, <1>4
<1> QED
  BY <1>5 DEF Lost

LEMMA ApartMeans ==
  ASSUME NEW x \in Nat, NEW y \in Nat
  PROVE  /\ ~Alike(x, y) <=> x # 0 /\ y # 0 /\ 20 * Apart(x, y) >= x
         /\ Apart(x, y) = Apart(y, x)
         /\ ~Alike(x, y) /\ Alike(y, x) => x < y
BY DEF Alike, Apart

LEMMA OnlyOne ==
  ASSUME NEW S, IsFiniteSet(S), Cardinality(S) = 1, NEW x \in S, NEW y \in S
  PROVE  x = y
BY FS_Singleton

\* The two directions in which candidates_db.py matches movie files by their
\* sizes agree: a file is missing from the other side only if no size there is
\* within 5% of it.
THEOREM OrphansAreApart == DeriveSpec => []OrphansAgree
<1>1. DeriveInv => OrphansAgree
  <2> SUFFICES ASSUME DeriveInv, Done, NEW a \in DOMAIN ws, world.arr[a].kind = "movie",
                      NEW k \in DOMAIN world.plex, k \in Copies(world, world.arr[a]),
                      NEW n \in LiveFiles(world.arr[a]), NEW m \in LiveFiles(world.plex[k])
      PROVE LET x == world.arr[a].files[n].size
                y == world.plex[k].files[m].size
                here  == \E r \in rows : r.arr = a /\ r.file = n /\ r.reason = "orphan_arr_no_plex"
                there == \E r \in rows : r.plex = k /\ r.file = m /\ r.reason = "orphan_plex_no_arr"
            IN /\ here => x # 0 /\ y # 0 /\ 20 * Apart(x, y) >= x
               /\ there => x # 0 /\ y # 0 /\ 20 * Apart(x, y) >= y
               /\ here /\ ~there /\ Cardinality(LiveArr(world)) = 1
                  /\ Cardinality(LiveFiles(world.arr[a])) = 1 => x < y
    BY Zenon DEF OrphansAgree
  <2> DEFINE x == world.arr[a].files[n].size
             y == world.plex[k].files[m].size
             here  == \E r \in rows : r.arr = a /\ r.file = n /\ r.reason = "orphan_arr_no_plex"
             there == \E r \in rows : r.plex = k /\ r.file = m /\ r.reason = "orphan_plex_no_arr"
  <2>1. IsTables(world) /\ a \in LiveArr(world) /\ a \in DOMAIN world.arr
    BY DEF DeriveInv, Settled, Done, WatchState, LiveArr
  <2>2. x \in Nat /\ y \in Nat
    BY <2>1 DEF IsTables, LiveFiles
  <2>3. here => ~Alike(x, y)
    BY <2>1, MovieOrphanMeans
  <2>4. world.plex[k].live
    BY DEF Copies
  <2>5. there <=> ~\E b \in DOMAIN world.arr : Holds(world, b, world.plex[k], y)
    BY <2>4, PlexOrphanMeans
  <2>6. there => ~Alike(y, x)
    <3>1. Holds(world, a, world.plex[k], y) <=>
            \E f \in LiveFiles(world.arr[a]) : Alike(y, world.arr[a].files[f].size)
      BY <2>1 DEF Holds, Copies, Same, LiveArr
    <3> QED
      BY <2>1, <2>5, <3>1
  <2>7. ~there /\ Cardinality(LiveArr(world)) = 1 /\ Cardinality(LiveFiles(world.arr[a])) = 1 => Alike(y, x)
    <3> SUFFICES ASSUME ~there, Cardinality(LiveArr(world)) = 1, Cardinality(LiveFiles(world.arr[a])) = 1
                 PROVE  Alike(y, x)
      OBVIOUS
    <3>1. PICK b \in DOMAIN world.arr : Holds(world, b, world.plex[k], y)
      BY <2>5
    <3>2. PICK f \in LiveFiles(world.arr[b]) : Alike(y, world.arr[b].files[f].size)
      BY <3>1 DEF Holds
    <3>3. b \in LiveArr(world)
      BY <3>1 DEF Holds, LiveArr
    <3>4. IsFiniteSet(LiveArr(world)) /\ IsFiniteSet(LiveFiles(world.arr[a]))
      <4>1. LiveArr(world) \in SUBSET DOMAIN world.arr /\ IsFiniteSet(DOMAIN world.arr)
        BY <2>1 DEF LiveArr, IsTables
      <4>2. /\ LiveFiles(world.arr[a]) \in SUBSET DOMAIN world.arr[a].files
            /\ IsFiniteSet(DOMAIN world.arr[a].files)
        BY <2>1 DEF LiveFiles, IsTables
      <4> QED
        BY <4>1, <4>2, FS_Subset
    <3>5. b = a
      BY <2>1, <3>3, <3>4, OnlyOne
    <3>6. f = n
      BY <3>2, <3>4, <3>5, OnlyOne
    <3> QED
      BY <3>2, <3>5, <3>6
  <2> HIDE DEF x, y, here, there
  <2>8. /\ here => x # 0 /\ y # 0 /\ 20 * Apart(x, y) >= x
        /\ there => x # 0 /\ y # 0 /\ 20 * Apart(x, y) >= y
        /\ here /\ ~there /\ Cardinality(LiveArr(world)) = 1
           /\ Cardinality(LiveFiles(world.arr[a])) = 1 => x < y
    BY <2>2, <2>3, <2>6, <2>7, ApartMeans
  <2> QED
    BY <2>8 DEF x, y, here, there
<1> QED
  BY <1>1, DeriveSettles, PTL

-----------------------------------------------------------------------------
(* The earliest request.                                                   *)

LEMMA AsksIsFor ==
  ASSUME NEW ai, ai.kind \in {"movie", "series"}, NEW r, ~Namesake(ai, r)
  PROVE  Asks(ai, r) <=> IsFor(ai, r)
BY DEF Namesake, Asks, IsFor, Same

\* The order of the ids is that of the making: the first is the earliest.
LEMMA FirstIsEarliest ==
  ASSUME NEW w, IsTables(w), NEW S, S # {}, S \subseteq DOMAIN w.requests,
         \A i, j \in S : i < j => w.requests[i].at <= w.requests[j].at
  PROVE  EarliestOf(w, S) = w.requests[Min(S)]
<1> DEFINE P(i) == \A j \in S : w.requests[i].at < w.requests[j].at
                               \/ (w.requests[i].at = w.requests[j].at /\ i <= j)
<1>1. S \subseteq Nat /\ \A i \in S : w.requests[i].at \in Nat
  BY DEF IsTables
<1>2. Min(S) \in S /\ \A j \in S : Min(S) <= j
  BY <1>1, MinIsLeast
<1>3. P(Min(S))
  <2> SUFFICES ASSUME NEW j \in S
               PROVE  w.requests[Min(S)].at < w.requests[j].at
                      \/ (w.requests[Min(S)].at = w.requests[j].at /\ Min(S) <= j)
    OBVIOUS
  <2>1. CASE Min(S) = j
    BY <1>1, <1>2, <2>1
  <2>2. CASE Min(S) < j
    <3>1. w.requests[Min(S)].at <= w.requests[j].at
      BY <1>2, <2>2
    <3> QED
      BY <1>1, <1>2, <3>1
  <2> QED
    BY <1>1, <1>2, <2>1, <2>2
<1>4. ASSUME NEW i \in S, P(i) PROVE i = Min(S)
  BY <1>1, <1>2, <1>3, <1>4
<1> HIDE DEF P
<1>5. (CHOOSE i \in S : P(i)) = Min(S)
  BY <1>2, <1>3, <1>4
<1> QED
  BY <1>5 DEF EarliestOf, P

\* attribution.py gives an item to its earliest request when the requests were
\* handed over in order and no namesake was requested.
THEOREM EarliestIsChosen == DeriveSpec => []EarliestWins
<1>1. DeriveInv => EarliestWins
  <2> SUFFICES ASSUME DeriveInv, phase \notin {"attribution", "failed"}, NEW a \in LiveArr(world)
      PROVE LET ai      == world.arr[a]
                asked   == DOMAIN world.requests
                mine    == {i \in asked : IsFor(ai, world.requests[i])}
                ordered == \A i, j \in mine : i < j => world.requests[i].at <= world.requests[j].at
            IN mine # {} /\ ordered /\ (\A i \in asked : ~Namesake(ai, world.requests[i])) =>
                 att[a].name = EarliestOf(world, mine).name
    BY Zenon DEF EarliestWins
  <2> DEFINE ai   == world.arr[a]
             mine == {i \in DOMAIN world.requests : IsFor(ai, world.requests[i])}
  <2> SUFFICES ASSUME mine # {},
                      \A i, j \in mine : i < j => world.requests[i].at <= world.requests[j].at,
                      \A i \in DOMAIN world.requests : ~Namesake(ai, world.requests[i])
               PROVE  att[a].name = EarliestOf(world, mine).name
    OBVIOUS
  <2>1. IsTables(world) /\ att = Attribution(world)
    BY DEF DeriveInv, Settled
  <2>2. ai.kind \in {"movie", "series"}
    BY <2>1 DEF IsTables, LiveArr
  <2>3. RequestsFor(world, a) = mine
    BY <2>2, AsksIsFor DEF RequestsFor
  <2>4. att[a] = ByRequest(world, a)
    BY <2>1, <2>3 DEF Attribution
  <2>5. ByRequest(world, a).name = world.requests[Min(mine)].name
    BY <2>3 DEF ByRequest
  <2>6. EarliestOf(world, mine) = world.requests[Min(mine)]
    BY <2>1, FirstIsEarliest
  <2> QED
    BY <2>4, <2>5, <2>6
<1> QED
  BY <1>1, DeriveSettles, PTL

-----------------------------------------------------------------------------
(* The two engines, for an item that neither reads differently.            *)

LEMMA AtMostOne ==
  ASSUME NEW S, IsFiniteSet(S), Cardinality(S) <= 1, S # {}
  PROVE  \E x : S = {x}
<1>1. Cardinality(S) \in Nat /\ Cardinality(S) # 0
  BY FS_CardinalityType, FS_EmptySet
<1>2. Cardinality(S) = 1
  BY <1>1
<1> QED
  BY <1>2, FS_Singleton

LEMMA MinOfOne == ASSUME NEW x \in Nat PROVE Min({x}) = x
BY MinIsLeast

\* The requester of the run is that of the spike.
LEMMA NamesAgree ==
  ASSUME DeriveInv, Done, NEW a \in LiveArr(world), Plain(a)
  PROVE  Requester(att, a).name = SpikeRequester(world, a)
<1> DEFINE ai == world.arr[a]
           asked == RequestsFor(world, a)
           tags == Parsed(world, a)
<1>1. IsTables(world) /\ att = Attribution(world)
  BY DEF DeriveInv, Settled, Done
<1>2. /\ asked = Keyed(world, ai) /\ Cardinality(asked) <= 1
      /\ asked = {} => Cardinality(tags) <= 1
      /\ asked # {} => Requester(att, a).name # NoName
  BY DEF Plain
<1>3. IsFiniteSet(asked) /\ asked \subseteq DOMAIN world.requests /\ IsFiniteSet(tags)
  <2>1. asked \in SUBSET DOMAIN world.requests /\ IsFiniteSet(DOMAIN world.requests)
    BY <1>1 DEF RequestsFor, IsTables
  <2>2. tags \in SUBSET ai.tags /\ IsFiniteSet(ai.tags)
    BY <1>1 DEF Parsed, IsTables, LiveArr
  <2> QED
    BY <2>1, <2>2, FS_Subset
<1>4. CASE asked # {}
  <2>1. PICK i : asked = {i}
    BY <1>2, <1>3, <1>4, AtMostOne
  <2>2. i \in Nat /\ i \in DOMAIN world.requests
    BY <1>1, <1>3, <2>1 DEF IsTables
  <2>3. Min(asked) = i
    BY <2>1, <2>2, MinOfOne
  <2>4. Requester(att, a).name = world.requests[i].name
    <3>1. att[a] = ByRequest(world, a) /\ a \in DOMAIN att
      BY <1>1, <1>4 DEF Attribution
    <3> QED
      BY <2>3, <3>1 DEF ByRequest, Requester
  <2>5. EarliestOf(world, asked) = world.requests[i]
    <3>1. world.requests[i].at \in Nat
      BY <1>1, <2>2 DEF IsTables
    <3>2. \A j, l \in asked : j < l => world.requests[j].at <= world.requests[l].at
      BY <2>1, <2>2, <3>1
    <3> QED
      BY <1>1, <1>3, <1>4, <2>3, <3>2, FirstIsEarliest
  <2>6. EarliestOf(world, Keyed(world, ai)).name = world.requests[i].name
    BY <1>2, <2>5
  <2>7. world.requests[i].name # NoName /\ Keyed(world, ai) # {}
    BY <1>2, <1>4, <2>4
  <2> QED
    BY <2>4, <2>6, <2>7 DEF SpikeRequester
<1>5. CASE asked = {} /\ tags = {}
  <2>1. a \notin DOMAIN att
    BY <1>1, <1>5 DEF Attribution
  <2>2. Requester(att, a).name = NoName
    BY <2>1 DEF Requester, Nobody
  <2>3. Cardinality(tags) # 1
    BY <1>5, FS_EmptySet
  <2> QED
    BY <1>2, <1>5, <2>2, <2>3 DEF SpikeRequester
<1>6. CASE asked = {} /\ tags # {}
  <2>1. PICK t : tags = {t}
    BY <1>2, <1>3, <1>6, AtMostOne
  <2>2. Cardinality(tags) = 1 /\ (CHOOSE s \in tags : TRUE) = t
    BY <2>1, FS_Singleton
  <2>3. SpikeRequester(world, a) = t.name
    BY <1>2, <1>6, <2>2 DEF SpikeRequester
  <2>4. {s.name : s \in tags} = {t.name}
    BY <2>1
  <2>5. Cardinality({s.name : s \in tags}) = 1 /\ (CHOOSE n \in {s.name : s \in tags} : TRUE) = t.name
    BY <2>4, FS_Singleton
  <2>6. att[a] = ByTags(world, a) /\ a \in DOMAIN att
    BY <1>1, <1>6 DEF Attribution
  <2>7. TagRow(tags).name = t.name
    BY <2>5 DEF TagRow
  <2>8. ByTags(world, a) = TagRow(tags)
    BY RowsByParts
  <2> QED
    BY <2>3, <2>6, <2>7, <2>8 DEF Requester
<1> QED
  BY <1>4, <1>5, <1>6

\* The one copy there may be is the copy that the spike finds.
LEMMA CopiesAgree ==
  ASSUME NEW w, IsTables(w), NEW a \in DOMAIN w.arr, Cardinality(Copies(w, w.arr[a])) <= 1
  PROVE  Copies(w, w.arr[a]) = IF SpikeCopy(w, w.arr[a]) = NULL THEN {} ELSE {SpikeCopy(w, w.arr[a])}
<1> DEFINE ai == w.arr[a]
           C == Copies(w, ai)
           Hits(agent, id) == {k \in DOMAIN w.plex : w.plex[k].live /\ Same(id, w.plex[k][agent])}
           first  == IF ai.kind = "movie" THEN Hits("tmdb", ai.tmdb) ELSE Hits("tvdb", ai.tvdb)
           second == IF ai.kind = "movie" THEN Hits("imdb", ai.imdb) ELSE Hits("tmdb", ai.tmdb)
           Found(S) == IF S = {} THEN NULL ELSE Min(S)
<1>1. DOMAIN w.plex \subseteq Nat \ {NULL} /\ IsFiniteSet(DOMAIN w.plex)
  BY DEF IsTables
<1>2. C \in SUBSET DOMAIN w.plex /\ IsFiniteSet(C)
  <2>1. C \in SUBSET DOMAIN w.plex
    BY DEF Copies
  <2> QED
    BY <1>1, <2>1, FS_Subset
<1>3. C = first \cup second
  BY DEF Copies, Same
<1>4. SpikeCopy(w, ai) = IF Found(first) # NULL THEN Found(first) ELSE Found(second)
  BY Zenon DEF SpikeCopy, Indexed, Else
<1> HIDE DEF C, first, second, ai
<1>5. C = {} \/ \E k : C = {k}
  BY <1>2, AtMostOne DEF C, ai
<1>6. CASE C = {}
  <2>1. first = {} /\ second = {}
    BY <1>3, <1>6
  <2> QED
    BY <1>4, <1>6, <2>1 DEF C, ai
<1>7. ASSUME NEW k, C = {k} PROVE C = {SpikeCopy(w, ai)} /\ SpikeCopy(w, ai) # NULL
  <2>1. k \in Nat /\ k # NULL
    BY <1>1, <1>2, <1>7
  <2>2. Min({k}) = k
    BY <2>1, MinOfOne
  <2>3. first \in {{}, {k}} /\ second \in {{}, {k}} /\ ~(first = {} /\ second = {})
    BY <1>3, <1>7
  <2> QED
    BY <1>4, <1>7, <2>1, <2>2, <2>3
<1> QED
  BY <1>5, <1>6, <1>7 DEF C, ai

\* Who the requester is: nobody, or one person whose user the spike finds, too.
LEMMA PeopleAgree ==
  ASSUME DeriveInv, Done, NEW a \in LiveArr(world), Plain(a)
  PROVE  LET who == Requester(att, a)
             people == Identities(world, who)
         IN /\ people = {} \/ \E p \in world.people : people = {p}
            /\ who.name # NoName => people = {p \in world.people : p.name = who.name}
            /\ \A u : u # NULL =>
                 ((\E p \in people : Same(p.user, u)) <=> SpikeUser(world, who.name) = u)
<1> DEFINE who == Requester(att, a)
           named == {p \in world.people : p.name = who.name}
           known == {p \in world.people : p.name = who.name /\ p.user # NULL}
           people == Identities(world, who)
<1>1. IsTables(world)
  BY DEF DeriveInv
<1>2. Cardinality(named) <= 1 /\ \A p \in named : p.id = who.id
  BY DEF Plain
<1>3. named \in SUBSET world.people /\ IsFiniteSet(named)
  <2>1. named \in SUBSET world.people /\ IsFiniteSet(world.people)
    BY <1>1 DEF IsTables
  <2> QED
    BY <2>1, FS_Subset
<1>4. named = {} \/ \E p : named = {p}
  BY <1>2, <1>3, AtMostOne
<1>5. \A p \in named : p.id \in Nat /\ p.id # NULL
  BY <1>1, <1>3 DEF IsTables
<1>6. people = IF who.name = NoName THEN {} ELSE named
  BY <1>2, <1>5 DEF Identities, Same
<1>7. SpikeUser(world, who.name) =
        IF who.name = NoName \/ known = {} THEN NULL
        ELSE (CHOOSE p \in known : \A q \in known : p.id <= q.id).user
  BY Zenon DEF SpikeUser
<1>11. known = {p \in named : p.user # NULL}
  OBVIOUS
<1> HIDE DEF named, people, who, known
<1>8. ASSUME NEW u, u # NULL
      PROVE  (\E p \in people : Same(p.user, u)) <=> SpikeUser(world, who.name) = u
  <2>1. CASE who.name = NoName \/ named = {}
    BY <1>6, <1>7, <1>8, <1>11, <2>1
  <2>2. ASSUME who.name # NoName, NEW p, named = {p}
        PROVE  (\E q \in people : Same(q.user, u)) <=> SpikeUser(world, who.name) = u
    <3>1. people = {p} /\ p.id \in Nat
      BY <1>5, <1>6, <2>2
    <3>2. CASE p.user = NULL
      <4>1. known = {}
        BY <1>11, <2>2, <3>2
      <4>2. SpikeUser(world, who.name) = NULL
        BY <1>7, <4>1
      <4> QED
        BY <1>8, <3>1, <3>2, <4>2 DEF Same
    <3>3. CASE p.user # NULL
      <4>1. known = {p}
        BY <1>11, <2>2, <3>3
      <4>2. (CHOOSE q \in {p} : \A r \in {p} : q.id <= r.id) = p
        BY <3>1
      <4>3. SpikeUser(world, who.name) = p.user
        BY <1>7, <2>2, <4>1, <4>2
      <4> QED
        BY <3>1, <3>3, <4>3 DEF Same
    <3> QED
      BY <3>2, <3>3
  <2> QED
    BY <1>4, <2>1, <2>2
<1>9. people = {} \/ \E p \in world.people : people = {p}
  BY <1>3, <1>4, <1>6
<1>10. who.name # NoName => people = {p \in world.people : p.name = who.name}
  BY <1>6 DEF named
<1> QED
  BY <1>8, <1>9, <1>10 DEF people, who

SpikeAny(w, a) ==
  {e \in w.events :
     /\ SpikeCopy(w, w.arr[a]) # NULL /\ e.copy = SpikeCopy(w, w.arr[a])
     /\ (e.ep = NULL) <=> (w.arr[a].kind = "movie")
     /\ e.pct >= (IF w.arr[a].kind = "movie" THEN MoviePct ELSE EpisodePct)}

SpikeOwn(w, a) == {e \in SpikeAny(w, a) : e.user = SpikeUser(w, SpikeRequester(w, a))}

SpikeDone(w, a, plays) ==
  IF w.arr[a].kind = "movie" THEN plays # {}
  ELSE Cardinality(Countable(w, w.arr[a])) > 0 /\ Distinct(plays) >= Cardinality(Countable(w, w.arr[a]))

LEMMA SpikeWatchMeans ==
  ASSUME NEW w, NEW a
  PROVE
    SpikeWatch(w, a) =
      [played |-> SpikeAny(w, a) # {}, playedOwn |-> SpikeOwn(w, a) # {},
       last |-> LastOf(SpikeAny(w, a)), lastOwn |-> LastOf(SpikeOwn(w, a)),
       finished |-> SpikeDone(w, a, SpikeAny(w, a)), finishedOwn |-> SpikeDone(w, a, SpikeOwn(w, a)),
       conf |-> "none"]
BY DEF SpikeWatch, SpikeAny, SpikeOwn, SpikeDone

\* Both engines see the same plays, and finish the same.
LEMMA WatchesAgree ==
  ASSUME DeriveInv, Done, NEW a \in LiveArr(world), Plain(a)
  PROVE  /\ ws[a].played <=> SpikeWatch(world, a).played
         /\ ws[a].playedOwn <=> SpikeWatch(world, a).playedOwn
         /\ ws[a].last = SpikeWatch(world, a).last /\ ws[a].lastOwn = SpikeWatch(world, a).lastOwn
         /\ ws[a].finished <=> SpikeWatch(world, a).finished
         /\ ws[a].finishedOwn <=> SpikeWatch(world, a).finishedOwn
         /\ ws[a].conf = Confidence(Identities(world, Requester(att, a)))
<1> DEFINE ai == world.arr[a]
           people == Identities(world, Requester(att, a))
           C == Copies(world, ai)
           c == SpikeCopy(world, ai)
           any == SpikeAny(world, a)
           own == SpikeOwn(world, a)
<1>1. IsTables(world) /\ a \in DOMAIN world.arr /\ ws = WatchState(world, att)
  BY DEF DeriveInv, Settled, Done, LiveArr
<1>2. C = IF c = NULL THEN {} ELSE {c}
  BY <1>1, CopiesAgree DEF Plain
<1>3. ai.kind \in {"movie", "series"}
  BY <1>1 DEF IsTables
<1>4. \A e \in world.events : e.user # NULL
  BY DEF Plain
<1>5. people = {} \/ \E p \in world.people : people = {p}
  BY PeopleAgree
<1>6. own = By(any, people)
  <2>1. \A u : u # NULL =>
          ((\E p \in people : Same(p.user, u)) <=> SpikeUser(world, Requester(att, a).name) = u)
    BY PeopleAgree
  <2>2. \A e \in any : e.user # NULL
    BY <1>4 DEF SpikeAny
  <2>3. Requester(att, a).name = SpikeRequester(world, a)
    BY NamesAgree
  <2> HIDE DEF people, any
  <2>4. {e \in any : e.user = SpikeUser(world, SpikeRequester(world, a))} = By(any, people)
    BY <2>1, <2>2, <2>3 DEF By
  <2> QED
    BY <2>4 DEF SpikeOwn, any
<1>7. /\ SpikeWatch(world, a).played = (any # {}) /\ SpikeWatch(world, a).playedOwn = (own # {})
      /\ SpikeWatch(world, a).last = LastOf(any) /\ SpikeWatch(world, a).lastOwn = LastOf(own)
      /\ SpikeWatch(world, a).finished = SpikeDone(world, a, any)
      /\ SpikeWatch(world, a).finishedOwn = SpikeDone(world, a, own)
  BY SpikeWatchMeans
<1>8. CASE ai.kind = "movie"
  <2>1. MoviePlays(world, ai) = any
    BY <1>2, <1>8 DEF MoviePlays, SpikeAny
  <2>2. ws[a] = MovieState(world, ai, people)
    BY <1>1, <1>8, WatchStateMeans
  <2>3. SpikeDone(world, a, any) = (any # {}) /\ SpikeDone(world, a, own) = (own # {})
    BY <1>8 DEF SpikeDone
  <2> HIDE DEF any, own, people, ai
  <2>4. /\ ws[a].played = (any # {}) /\ ws[a].playedOwn = (own # {}) /\ ws[a].last = LastOf(any)
        /\ ws[a].lastOwn = LastOf(own) /\ ws[a].finished = (any # {}) /\ ws[a].finishedOwn = (own # {})
        /\ ws[a].conf = Confidence(people)
    BY <1>6, <2>1, <2>2 DEF MovieState
  <2> QED
    BY <1>7, <2>3, <2>4 DEF people
<1>9. CASE ai.kind = "series"
  <2> DEFINE n == Cardinality(Countable(world, ai))
  <2>1. AnyPlays(world, ai) = any /\ \A k \in C : EpisodePlays(world, k) = any
    <3>1. any = {e \in world.events : c # NULL /\ e.copy = c /\ e.ep # NULL /\ e.pct >= EpisodePct}
      BY <1>9 DEF SpikeAny
    <3>2. c # NULL => EpisodePlays(world, c) = any
      BY <3>1 DEF EpisodePlays
    <3>3. c = NULL => any = {}
      BY <3>1
    <3> HIDE DEF any, c, ai
    <3> QED
      BY <1>2, <3>2, <3>3 DEF AnyPlays
  <2>2. ws[a] = SeriesState(world, ai, people)
    BY <1>1, <1>9, WatchStateMeans
  <2>3. /\ SpikeDone(world, a, any) = (n > 0 /\ Distinct(any) >= n)
        /\ SpikeDone(world, a, own) = (n > 0 /\ Distinct(own) >= n)
    BY <1>9 DEF SpikeDone
  <2>4. n \in Nat
    BY <1>1, NeededIsFinite
  <2>5. PICK m \in Nat : Counts(world, ai) \subseteq 0 .. m /\ OwnCounts(world, ai, people) \subseteq 0 .. m
    BY <1>1, CountsAreBounded
  <2>6. /\ SeriesDone(n, Counts(world, ai)) <=> n > 0 /\ \E d \in Counts(world, ai) : d >= n
        /\ SeriesDone(n, OwnCounts(world, ai, people)) <=>
             n > 0 /\ \E d \in OwnCounts(world, ai, people) : d >= n
    BY <2>4, <2>5, DoneMeans
  <2>7. Distinct({}) = 0
    <3>1. EpisodesOf({}) = {}
      BY DEF EpisodesOf
    <3>2. Distinct({}) = Cardinality(EpisodesOf({}))
      BY Zenon DEF Distinct, EpisodesOf
    <3> QED
      BY <3>1, <3>2, FS_EmptySet
  <2>8. n > 0 => ((\E d \in Counts(world, ai) : d >= n) <=> Distinct(any) >= n)
    <3>1. CASE C = {}
      <4>1. Counts(world, ai) = {} /\ AnyPlays(world, ai) = {}
        BY <3>1 DEF Counts, AnyPlays
      <4>2. any = {}
        BY <2>1, <4>1
      <4> QED
        BY <2>4, <2>7, <4>1, <4>2
    <3>2. CASE C # {}
      <4>1. Counts(world, ai) = {Distinct(any)}
        BY <2>1, <3>2 DEF Counts
      <4> QED
        BY <4>1
    <3> QED
      BY <3>1, <3>2
  <2>9. n > 0 => ((\E d \in OwnCounts(world, ai, people) : d >= n) <=> Distinct(own) >= n)
    <3>1. CASE C = {} \/ people = {}
      <4>1. OwnCounts(world, ai, people) = {}
        BY <3>1 DEF OwnCounts, CountsPerUser
      <4>2. own = {}
        <5>1. C = {} => any = {}
          BY <2>1 DEF AnyPlays
        <5> QED
          BY <1>6, <3>1, <5>1 DEF By
      <4> QED
        BY <2>4, <2>7, <4>1, <4>2
    <3>2. CASE C # {} /\ people # {}
      <4>1. PICK p : people = {p}
        BY <1>5, <3>2
      <4>2. CountsPerUser(any, people) = {Distinct(own)}
        BY <1>6, <4>1 DEF CountsPerUser
      <4>3. OwnCounts(world, ai, people) = {Distinct(own)}
        <5>1. \A k \in C : CountsPerUser(EpisodePlays(world, k), people) = {Distinct(own)}
          BY <2>1, <4>2
        <5> QED
          BY <3>2, <5>1 DEF OwnCounts
      <4> QED
        BY <4>3
    <3> QED
      BY <3>1, <3>2
  <2> HIDE DEF any, own, people, n
  <2>10. /\ ws[a].played = (any # {}) /\ ws[a].playedOwn = (own # {}) /\ ws[a].last = LastOf(any)
         /\ ws[a].lastOwn = LastOf(own) /\ ws[a].finished = SeriesDone(n, Counts(world, ai))
         /\ ws[a].finishedOwn = SeriesDone(n, OwnCounts(world, ai, people))
         /\ ws[a].conf = Confidence(people)
    BY <1>6, <2>1, <2>2 DEF SeriesState, n
  <2> QED
    BY <1>7, <2>3, <2>6, <2>8, <2>9, <2>10 DEF people
<1> QED
  BY <1>3, <1>8, <1>9

\* The trust in the requester: only a mapping of low confidence, or none, lacks it.
LEMMA TrustAgrees ==
  ASSUME DeriveInv, Done, NEW a \in LiveArr(world), Plain(a), Requester(att, a).name # NoName
  PROVE  Trust(ws[a].conf) = IF Resolved(world, SpikeRequester(world, a)) THEN "high" ELSE "low"
<1> DEFINE who == Requester(att, a)
           people == Identities(world, who)
<1>1. people = {p \in world.people : p.name = who.name}
  BY PeopleAgree
<1>2. people = {} \/ \E p \in world.people : people = {p}
  BY PeopleAgree
<1>3. \A p \in world.people : p.conf \in {"high", "medium", "low"}
  BY DEF DeriveInv, IsTables
<1>4. ws[a].conf = Confidence(people)
  BY WatchesAgree
<1>5. Resolved(world, SpikeRequester(world, a)) <=> \E p \in people : p.conf # "low"
  BY <1>1, NamesAgree DEF Resolved
<1> HIDE DEF people
<1>6. Trust(Confidence(people)) = IF \E p \in people : p.conf # "low" THEN "high" ELSE "low"
  <2>1. CASE people = {}
    BY <2>1 DEF Trust, Confidence
  <2>2. ASSUME NEW p \in world.people, people = {p}
        PROVE  Trust(Confidence(people)) = IF \E q \in people : q.conf # "low" THEN "high" ELSE "low"
    <3>1. {q.conf : q \in people} = {p.conf}
      BY <2>2
    <3>2. Confidence(people) = p.conf
      BY <1>3, <3>1 DEF Confidence
    <3> QED
      BY <1>3, <2>2, <3>2 DEF Trust
  <2> QED
    BY <1>2, <2>1, <2>2
<1> QED
  BY <1>4, <1>5, <1>6

\* The rows of both engines, reason by reason.
LEMMA RowsAgree ==
  ASSUME DeriveInv, Done, NEW a \in LiveArr(world), Plain(a)
  PROVE  NeverRows(world, att, ws, a) \cup StaleRows(world, att, ws, a) = SpikeRows(world, a)
<1> DEFINE s == SpikeWatch(world, a)
           t == ws[a]
           name == SpikeRequester(world, a)
           trust == IF Resolved(world, name) THEN "high" ELSE "low"
           age == world.arr[a].age
           Row(reason, last, conf) == ItemRowOf(world, a, reason, last, conf)
<1>1. a \in DOMAIN ws /\ Watched(ws, a) = t
  BY DEF DeriveInv, Settled, Done, WatchState, Watched
<1>2. Requester(att, a).name = name
  BY NamesAgree
<1>3. /\ t.played <=> s.played
      /\ t.playedOwn <=> s.playedOwn
      /\ t.last = s.last /\ t.lastOwn = s.lastOwn
      /\ t.finished <=> s.finished
      /\ t.finishedOwn <=> s.finishedOwn
  BY WatchesAgree
<1>4. name # NoName => Trust(t.conf) = trust
  BY <1>2, TrustAgrees
<1> HIDE DEF s, t, name, trust, age, Row
<1>5. ASSUME NEW r
      PROVE  r \in NeverRows(world, att, ws, a) <=>
               /\ Old(age, NeverDays)
               /\ \/ ~s.played /\ r = Row("never_watched_anyone", NULL, "high")
                  \/ name # NoName /\ ~s.playedOwn /\ r = Row("never_watched_requester", NULL, trust)
  BY <1>1, <1>2, <1>3, <1>4, NeverMeans DEF Row, age
<1>6. ASSUME NEW r
      PROVE  r \in StaleRows(world, att, ws, a) <=>
               \/ /\ s.played /\ Old(s.last, StaleDays)
                  /\ r = Row(IF s.finished THEN "stale_finished_anyone" ELSE "stale_partial_anyone",
                             s.last, "high")
               \/ /\ name # NoName /\ s.playedOwn /\ Old(s.lastOwn, StaleDays)
                  /\ r = Row(IF s.finishedOwn THEN "stale_finished_requester" ELSE "stale_partial_requester",
                             s.lastOwn, trust)
  BY <1>1, <1>2, <1>3, <1>4, StaleMeans DEF Row
<1>7. ASSUME NEW r
      PROVE  r \in EmitAnyone(world, a, s) <=>
               \/ ~s.played /\ Old(age, NeverDays) /\ r = Row("never_watched_anyone", NULL, "high")
               \/ /\ s.played /\ Old(s.last, StaleDays)
                  /\ r = Row(IF s.finished THEN "stale_finished_anyone" ELSE "stale_partial_anyone",
                             s.last, "high")
  BY DEF EmitAnyone, Old, Row, age
<1>8. ASSUME NEW r
      PROVE  r \in EmitRequester(world, a, s, name) <=>
               /\ name # NoName
               /\ \/ ~s.playedOwn /\ Old(age, NeverDays) /\ r = Row("never_watched_requester", NULL, trust)
                  \/ /\ s.playedOwn /\ Old(s.lastOwn, StaleDays)
                     /\ r = Row(IF s.finishedOwn THEN "stale_finished_requester" ELSE "stale_partial_requester",
                                s.lastOwn, trust)
  BY DEF EmitRequester, Old, Row, age, trust
<1>9. ASSUME NEW r
      PROVE  r \in NeverRows(world, att, ws, a) \cup StaleRows(world, att, ws, a)
             <=> r \in EmitAnyone(world, a, s) \cup EmitRequester(world, a, s, name)
  BY <1>5, <1>6, <1>7, <1>8
<1> QED
  BY <1>9 DEF SpikeRows, s, name

\* For an item that neither reads differently, compute_candidates() lists what
\* the in-memory engine of spike.py lists, reason by reason.
THEOREM EnginesListTheSame == DeriveSpec => []EnginesAgree
<1>1. DeriveInv => EnginesAgree
  <2> SUFFICES ASSUME DeriveInv, Done, NEW a \in DOMAIN ws, Plain(a)
      PROVE {r \in RowsOf(rows, a) : r.reason # "orphan_arr_no_plex"} = SpikeRows(world, a)
    BY DEF EnginesAgree
  <2> DEFINE N == NeverRows(world, att, ws, a)
             S == StaleRows(world, att, ws, a)
  <2>1. a \in LiveArr(world) /\ a \in DOMAIN world.arr /\ a # NULL
    BY DEF DeriveInv, Settled, Done, WatchState, LiveArr, IsTables
  <2>2. Shown(a)
    BY DEF Plain, Shown
  <2>3. \A r \in N \cup S : r \in rows /\ r.arr = a /\ r.reason # "orphan_arr_no_plex"
    <3>1. \A r \in N \cup S : r \in rows
      BY <2>1, <2>2, RowsMean DEF ItemRows
    <3>2. \A r \in N \cup S : r.arr = a
      BY RowsAreNamed DEF ItemRows
    <3>3. \A r \in N \cup S : r.reason # "orphan_arr_no_plex"
      BY ReasonsOfRules
    <3> QED
      BY <3>1, <3>2, <3>3
  <2>4. ASSUME NEW r \in rows, r.arr = a, r.reason # "orphan_arr_no_plex" PROVE r \in N \cup S
    <3>1. r \notin PlexOrphans(world)
      BY <2>1, <2>4, RowsAreNamed
    <3>2. PICK b \in DOMAIN world.arr : r \in ItemRows(world, att, ws, b)
      BY <3>1, RowsMean
    <3>3. b = a
      BY <2>4, <3>2, RowsAreNamed
    <3>4. r \notin MovieOrphans(world, a) /\ r \notin SeriesOrphans(world, a)
      BY <2>4, ReasonsOfRules
    <3> QED
      BY <3>2, <3>3, <3>4 DEF ItemRows
  <2>5. N \cup S = SpikeRows(world, a)
    BY <2>1, RowsAgree
  <2> HIDE DEF N, S
  <2>6. {r \in RowsOf(rows, a) : r.reason # "orphan_arr_no_plex"} = N \cup S
    BY <2>3, <2>4 DEF RowsOf
  <2> QED
    BY <2>5, <2>6
<1> QED
  BY <1>1, DeriveSettles, PTL

-----------------------------------------------------------------------------
(* The pages.                                                              *)

\* Bytes of a part of the rows, from one table of their sizes.
SizeOf(S) == [r \in S |-> r.size]

LEMMA RowBytesMean ==
  ASSUME NEW items, NEW S, AreShaped(S, items), NEW T, T \subseteq S
  PROVE  /\ IsFiniteSet(T) /\ \A r \in S : SizeOf(S)[r] \in Nat
         /\ RowBytes(T) = SumFunctionOnSet(SizeOf(S), T) /\ RowBytes(T) \in Nat
<1> DEFINE f == [r \in T |-> r.size]
           g == SizeOf(S)
<1>1. IsFiniteSet(T) /\ \A r \in S : g[r] = r.size /\ r.size \in Nat
  BY FS_Subset DEF AreShaped, Shaped, SizeOf
<1>2. RowBytes(T) = SumFunctionOnSet(f, DOMAIN f) /\ DOMAIN f = T
  BY DEF RowBytes, Bytes, SumFunction
<1>3. \A r \in T : f[r] \in Int /\ f[r] \in Nat /\ g[r] = f[r]
  BY <1>1
<1> HIDE DEF f, g
<1>4. SumFunctionOnSet(g, T) = SumFunctionOnSet(f, T)
  BY <1>1, <1>3, SumSame
<1>5. SumFunctionOnSet(f, T) \in Nat
  BY <1>1, <1>3, SumIsNat
<1> QED
  BY <1>1, <1>2, <1>4, <1>5 DEF g

InBucket(S, b) ==
  {r \in OfReason(S, {"never_watched_anyone"}) :
     /\ r.age # NULL /\ Days(r.age) >= b[1]
     /\ b[2] # NULL => Days(r.age) < b[2]}

LEMMA BucketIsLinked == ASSUME NEW b \in AgeBuckets PROVE InBucket(rows, b) = Linked(b)
<1>1. b[1] \in Nat /\ b[2] \in Nat
  BY DEF AgeBuckets, NULL
<1>2. b[1] # NotGiven /\ b[2] # NotGiven
  BY <1>1 DEF NotGiven
<1> DEFINE f == [reasons |-> {"never_watched_anyone"}, name |-> NoName, least |-> b[1],
                 below |-> IF b[2] = NULL THEN NotGiven ELSE b[2]]
<1>3. /\ f.reasons = {"never_watched_anyone"} /\ f.name = NoName /\ f.least = b[1]
      /\ f.below = IF b[2] = NULL THEN NotGiven ELSE b[2]
  OBVIOUS
<1>4. Linked(b) = ListRows(att, rows, f)
  BY DEF Linked
<1> HIDE DEF f
<1>5. ASSUME NEW r \in rows
      PROVE  r \in InBucket(rows, b) <=> r \in ListRows(att, rows, f)
  BY <1>2, <1>3 DEF InBucket, OfReason, ListRows
<1>6. InBucket(rows, b) \subseteq rows /\ ListRows(att, rows, f) \subseteq rows
  BY DEF InBucket, OfReason, ListRows
<1> QED
  BY <1>4, <1>5, <1>6

LEMMA FourAreFinite == \A x, y, z, u : IsFiniteSet({x, y, z, u})
<1> TAKE x, y, z, u
<1>1. IsFiniteSet({x} \cup {y}) /\ IsFiniteSet({z} \cup {u})
  BY FS_Singleton, FS_Union
<1> DEFINE P == {x} \cup {y}
           Q == {z} \cup {u}
<1>2. {x, y, z, u} = P \cup Q
  OBVIOUS
<1> HIDE DEF P, Q
<1>3. IsFiniteSet(P \cup Q)
  BY <1>1, FS_Union DEF P, Q
<1> QED
  BY <1>2, <1>3

\* Every age is in one bucket.
LEMMA BucketsPart ==
  ASSUME NEW items, AreShaped(rows, items)
  PROVE  /\ \A b \in AgeBuckets : IsFiniteSet(InBucket(rows, b))
         /\ \A b, c \in AgeBuckets : b # c => InBucket(rows, b) \cap InBucket(rows, c) = {}
         /\ UNION {InBucket(rows, b) : b \in AgeBuckets} = Nevers
         /\ IsFiniteSet(AgeBuckets)
<1>1. ASSUME NEW b \in AgeBuckets PROVE InBucket(rows, b) \subseteq Nevers
  BY DEF InBucket, Nevers
<1>2. IsFiniteSet(Nevers) /\ \A r \in Nevers : r.age \in Nat \ {NULL}
  BY FS_Subset DEF Nevers, OfReason, AreShaped, Shaped
<1>3. \A b \in AgeBuckets : IsFiniteSet(InBucket(rows, b))
  BY <1>1, <1>2, FS_Subset
<1>4. \A r \in Nevers : Days(r.age) \in Nat
  BY <1>2 DEF Days
<1>5. \A r \in Nevers, b \in AgeBuckets :
        r \in InBucket(rows, b) <=> Days(r.age) >= b[1] /\ (b[2] # NULL => Days(r.age) < b[2])
  BY <1>2 DEF InBucket, Nevers
<1>6. \A d \in Nat : \E b \in AgeBuckets : d >= b[1] /\ (b[2] # NULL => d < b[2])
  <2> SUFFICES ASSUME NEW d \in Nat PROVE \E b \in AgeBuckets : d >= b[1] /\ (b[2] # NULL => d < b[2])
    OBVIOUS
  <2>1. d < 30 \/ (d >= 30 /\ d < 90) \/ (d >= 90 /\ d < 365) \/ d >= 365
    OBVIOUS
  <2>2. <<0, 30>> \in AgeBuckets /\ <<30, 90>> \in AgeBuckets /\ <<90, 365>> \in AgeBuckets /\ <<365, 0>> \in AgeBuckets
    BY DEF AgeBuckets, NULL
  <2> QED
    BY <2>1, <2>2 DEF NULL
<1>7. \A b, c \in AgeBuckets, d \in Nat :
        /\ d >= b[1] /\ (b[2] # NULL => d < b[2])
        /\ d >= c[1] /\ (c[2] # NULL => d < c[2])
        => b = c
  BY DEF AgeBuckets, NULL
<1>8. \A b, c \in AgeBuckets : b # c => InBucket(rows, b) \cap InBucket(rows, c) = {}
  BY <1>1, <1>4, <1>5, <1>7
<1>9. \A r \in Nevers : \E b \in AgeBuckets : r \in InBucket(rows, b)
  BY <1>4, <1>5, <1>6
<1>10. UNION {InBucket(rows, b) : b \in AgeBuckets} = Nevers
  BY <1>1, <1>9
<1>11. IsFiniteSet(AgeBuckets)
  BY FourAreFinite, Zenon DEF AgeBuckets
<1> QED
  BY <1>3, <1>8, <1>10, <1>11

\* The sum of a column over parts of the rows.
LEMMA BucketsAddUp ==
  ASSUME NEW items, AreShaped(rows, items)
  PROVE  Card(rows, "never_watched_anyone").count = SumFunction([b \in AgeBuckets |-> Bucket(rows, b).count])
<1> DEFINE t == [b \in AgeBuckets |-> Bucket(rows, b).count]
           part == [b \in AgeBuckets |-> InBucket(rows, b)]
<1>1. SumFunction([b \in AgeBuckets |-> Bucket(rows, b).count]) = SumFunctionOnSet(t, DOMAIN t) /\ DOMAIN t = AgeBuckets
  BY DEF SumFunction
<1>2. \A b : Bucket(rows, b) = Tally(InBucket(rows, b))
  BY DEF Bucket, InBucket
<1>3. \A S : Tally(S).count = Cardinality(S)
  BY DEF Tally
<1>4. \A b \in AgeBuckets : t[b] = Cardinality(part[b])
  BY <1>2, <1>3
<1>5. /\ \A b \in AgeBuckets : IsFiniteSet(part[b])
      /\ \A b, c \in AgeBuckets : b # c => part[b] \cap part[c] = {}
      /\ IsFiniteSet(AgeBuckets)
  BY BucketsPart
<1>6. Whole(part, AgeBuckets) = Nevers
  BY BucketsPart DEF Whole
<1>7. Card(rows, "never_watched_anyone").count = Cardinality(Nevers)
  BY <1>3 DEF Card, Nevers
<1> HIDE DEF t, part
<1>8. Cardinality(Whole(part, AgeBuckets)) = SumFunctionOnSet(t, AgeBuckets)
  BY <1>4, <1>5, CountByParts
<1> QED
  BY <1>1, <1>6, <1>7, <1>8

\* The tabs are of all reasons.
LEMMA TabsShowAll ==
  ASSUME NEW items, AreShaped(rows, items)
  PROVE  rows = Tabs
<1> DEFINE f(tab, anyone) == [reasons |-> ReasonsForTab(tab, anyone, "all"), name |-> NoName,
                              least |-> NotGiven, below |-> NotGiven]
           Tab(tab, anyone) == ListRows(att, rows, f(tab, anyone))
<1>1. \A tab, anyone : \A r \in rows : r.reason \in ReasonsForTab(tab, anyone, "all") => r \in Tab(tab, anyone)
  BY DEF ListRows
<1>2. \A tab, anyone : Tab(tab, anyone) \subseteq rows
  BY DEF ListRows
<1>3. \A r \in rows : r.reason \in ItemReasons \cup {"orphan_plex_no_arr"}
  BY DEF AreShaped, Shaped
<1>4. Tabs = UNION {Tab(tab, anyone) : tab \in {"never", "stale", "orphans"}, anyone \in BOOLEAN}
  BY DEF Tabs
<1> HIDE DEF Tab
<1>5. \A x \in ItemReasons \cup {"orphan_plex_no_arr"} :
         \E tab \in {"never", "stale", "orphans"}, anyone \in BOOLEAN : x \in ReasonsForTab(tab, anyone, "all")
  <2>1. /\ ReasonsForTab("never", TRUE, "all") = {"never_watched_anyone"}
        /\ ReasonsForTab("never", FALSE, "all") = {"never_watched_requester"}
        /\ ReasonsForTab("stale", TRUE, "all") = {"stale_finished_anyone", "stale_partial_anyone"}
        /\ ReasonsForTab("stale", FALSE, "all") = {"stale_finished_requester", "stale_partial_requester"}
        /\ ReasonsForTab("orphans", TRUE, "all") = {"orphan_arr_no_plex", "orphan_plex_no_arr"}
    BY DEF ReasonsForTab
  <2> QED
    BY <2>1 DEF ItemReasons
<1>6. \A r \in rows : \E tab \in {"never", "stale", "orphans"}, anyone \in BOOLEAN : r \in Tab(tab, anyone)
  BY <1>1, <1>3, <1>5
<1> QED
  BY <1>2, <1>4, <1>6

LEMMA CountApart ==
  ASSUME NEW S, IsFiniteSet(S), NEW T, IsFiniteSet(T), S \cap T = {}
  PROVE  IsFiniteSet(S \cup T) /\ Cardinality(S \cup T) = Cardinality(S) + Cardinality(T)
<1>1. Cardinality(S) \in Nat /\ Cardinality(T) \in Nat /\ Cardinality({}) = 0
  BY FS_CardinalityType, FS_EmptySet
<1>2. /\ IsFiniteSet(S \cup T)
      /\ Cardinality(S \cup T) = Cardinality(S) + Cardinality(T) - Cardinality(S \cap T)
  BY FS_Union
<1>3. Cardinality(S \cap T) = 0
  BY <1>1
<1> DEFINE c == Cardinality(S \cup T)
           d == Cardinality(S \cap T)
<1> HIDE DEF c, d
<1>4. c = Cardinality(S) + Cardinality(T)
  <2>1. c = Cardinality(S) + Cardinality(T) - d /\ d = 0
    BY <1>2, <1>3 DEF c, d
  <2> QED
    BY <1>1, <2>1
<1> QED
  BY <1>2, <1>4 DEF c

LEMMA NegativesCount ==
  ASSUME NEW B, B \subseteq Nat, IsFiniteSet(B)
  PROVE  IsFiniteSet({-x : x \in B}) /\ Cardinality({-x : x \in B}) = Cardinality(B)
<1> DEFINE h == [x \in B |-> -x]
<1>1. h \in Bijection(B, {-x : x \in B})
  <2>1. \A x, y \in B : -x = -y => x = y
    OBVIOUS
  <2> QED
    BY <2>1 DEF Bijection, Injection, Surjection, IsInjective
<1> QED
  BY <1>1, FS_Bijection DEF ExistsBijection

\* One number for each item and each Plex item.
LEMMA HeadlineCounts ==
  ASSUME NEW items, items \subseteq Nat \ {NULL}, AreShaped(rows, items)
  PROVE  Headline(rows).items = Cardinality({r.arr : r \in rows} \ {NULL})
                                + Cardinality({r.plex : r \in rows} \ {NULL})
<1> DEFINE A == {r.arr : r \in rows} \ {NULL}
           B == {r.plex : r \in rows} \ {NULL}
           N == {-x : x \in B}
           media == {<<r.arr, r.plex>> : r \in rows}
           K == {IF m[1] # NULL THEN m[1] ELSE -m[2] : m \in media}
<1>1. Headline(rows).items = Cardinality(K)
  BY DEF Headline
<1>2. A \subseteq Nat /\ B \subseteq Nat
  BY DEF AreShaped, Shaped, NULL
<1>3. K = A \cup N
  <2>1. \A r \in rows : \/ r.arr = NULL /\ r.plex \in Nat \ {NULL}
                        \/ r.arr \in Nat \ {NULL} /\ r.plex = NULL
    BY DEF AreShaped, Shaped
  <2>2. \A x : x \in K <=> \E r \in rows : x = IF r.arr # NULL THEN r.arr ELSE -r.plex
    <3> DEFINE val == [m \in media |-> IF m[1] # NULL THEN m[1] ELSE -m[2]]
               pair == [r \in rows |-> <<r.arr, r.plex>>]
               num == [r \in rows |-> IF r.arr # NULL THEN r.arr ELSE -r.plex]
    <3>1. \A r \in rows : pair[r] \in media /\ val[pair[r]] = num[r]
      OBVIOUS
    <3>2. \A m \in media : \E r \in rows : m = pair[r]
      OBVIOUS
    <3>3. K = {val[m] : m \in media}
      OBVIOUS
    <3> HIDE DEF K, media, val, pair
    <3>4. \A x : x \in K <=> \E r \in rows : x = num[r]
      <4> HIDE DEF num
      <4> QED
        BY <3>1, <3>2, <3>3
    <3> QED
      BY <3>4
  <2>3. \A r \in rows : (IF r.arr # NULL THEN r.arr ELSE -r.plex) \in A \cup N
    BY <2>1 DEF NULL
  <2>4. \A x \in A : \E r \in rows : x = IF r.arr # NULL THEN r.arr ELSE -r.plex
    OBVIOUS
  <2>5. \A x \in N : \E r \in rows : x = IF r.arr # NULL THEN r.arr ELSE -r.plex
    BY <2>1
  <2> HIDE DEF A, N, K
  <2> QED
    BY <2>2, <2>3, <2>4, <2>5
<1>4. A \cap N = {}
  BY <1>2 DEF NULL
<1>5. IsFiniteSet(A) /\ IsFiniteSet(B)
  <2> DEFINE p == [r \in rows |-> r.arr]
             q == [r \in rows |-> r.plex]
  <2>1. {r.arr : r \in rows} = {p[r] : r \in rows} /\ {r.plex : r \in rows} = {q[r] : r \in rows}
    OBVIOUS
  <2>2. IsFiniteSet(rows)
    BY DEF AreShaped
  <2> HIDE DEF p, q
  <2>3. IsFiniteSet({p[r] : r \in rows}) /\ IsFiniteSet({q[r] : r \in rows})
    BY <2>2, FiniteImage
  <2> QED
    BY <2>1, <2>3, FS_Subset
<1> HIDE DEF A, B, K, media
<1>6. IsFiniteSet(N) /\ Cardinality(N) = Cardinality(B)
  BY <1>2, <1>5, NegativesCount
<1> HIDE DEF N
<1>7. Cardinality(K) = Cardinality(A) + Cardinality(B)
  BY <1>3, <1>4, <1>5, <1>6, CountApart
<1> QED
  BY <1>1, <1>7 DEF A, B

\* Rows about the items, by the name they are grouped under.
GroupRows(R, I, n) == {r \in R : r.arr \in I /\ GroupName(att, r.arr) = n}

ByName(R, I) == [n \in Names(I) |-> GroupRows(R, I, n)]

RowsAbout(R, I) == {r \in R : r.arr \in I}

LEMMA GroupsPart ==
  ASSUME NEW R, IsFiniteSet(R), NEW I, IsFiniteSet(I)
  PROVE  /\ IsFiniteSet(Names(I)) /\ \A n \in Names(I) : IsFiniteSet(ByName(R, I)[n])
         /\ \A m, n \in Names(I) : m # n => ByName(R, I)[m] \cap ByName(R, I)[n] = {}
         /\ Whole(ByName(R, I), Names(I)) = RowsAbout(R, I)
<1> DEFINE part == ByName(R, I)
<1>1. IsFiniteSet(Names(I))
  <2> DEFINE g == [a \in I |-> GroupName(att, a)]
  <2>1. Names(I) = {g[a] : a \in I}
    BY DEF Names
  <2> HIDE DEF g
  <2> QED
    BY <2>1, FiniteImage
<1>2. \A n \in Names(I) : IsFiniteSet(part[n])
  <2>1. \A n \in Names(I) : part[n] \subseteq R
    BY DEF GroupRows, ByName
  <2> QED
    BY <2>1, FS_Subset
<1>3. \A m, n \in Names(I) : m # n => part[m] \cap part[n] = {}
  BY DEF GroupRows, ByName
<1>4. Whole(part, Names(I)) = RowsAbout(R, I)
  <2>1. \A r : r \in RowsAbout(R, I) => GroupName(att, r.arr) \in Names(I) /\ r \in GroupRows(R, I, GroupName(att, r.arr))
    BY DEF Names, GroupRows, RowsAbout
  <2>2. \A n \in Names(I) : part[n] = GroupRows(R, I, n) /\ part[n] \subseteq RowsAbout(R, I)
    BY DEF GroupRows, ByName, RowsAbout
  <2> HIDE DEF part
  <2> QED
    BY <2>1, <2>2 DEF Whole
<1> QED
  BY <1>1, <1>2, <1>3, <1>4

\* The top requesters account for all rows about items.
LEMMA TopRequestersAddUp ==
  ASSUME NEW items, IsFiniteSet(items), NULL \notin items, AreShaped(rows, items)
  PROVE  RowBytes(rows) = SumFunction([n \in Names(items) |-> TopRequester(att, rows, n).bytes])
                          + RowBytes(OfReason(rows, {"orphan_plex_no_arr"}))
<1> DEFINE f == SizeOf(rows)
           t == [n \in Names(items) |-> TopRequester(att, rows, n).bytes]
           part == ByName(rows, items)
           H == RowsAbout(rows, items)
           O == OfReason(rows, {"orphan_plex_no_arr"})
<1>1. SumFunction([n \in Names(items) |-> TopRequester(att, rows, n).bytes]) = SumFunctionOnSet(t, DOMAIN t)
      /\ DOMAIN t = Names(items)
  BY DEF SumFunction
<1>2. \A r \in rows : r.arr # NULL <=> r.arr \in items
  BY DEF AreShaped, Shaped
<1>3. \A n : {r \in rows : r.arr # NULL /\ GroupName(att, r.arr) = n} = GroupRows(rows, items, n)
  BY <1>2 DEF GroupRows
<1>4. \A n : TopRequester(att, rows, n) = Tally(GroupRows(rows, items, n))
  BY <1>3 DEF TopRequester
<1>5. \A S : Tally(S).bytes = RowBytes(S)
  BY DEF Tally
<1>6. H \cup O = rows /\ H \cap O = {}
  <2>1. \A r \in rows : r.arr \in items \/ r.reason = "orphan_plex_no_arr"
    BY DEF AreShaped, Shaped
  <2>2. \A r \in rows : r.reason = "orphan_plex_no_arr" => r.arr = NULL
    BY DEF AreShaped, Shaped, ItemReasons
  <2> QED
    BY <1>2, <2>1, <2>2 DEF OfReason, RowsAbout
<1>7. IsFiniteSet(rows)
  BY DEF AreShaped
<1>8. /\ IsFiniteSet(Names(items)) /\ \A n \in Names(items) : IsFiniteSet(part[n])
      /\ \A m, n \in Names(items) : m # n => part[m] \cap part[n] = {}
      /\ Whole(part, Names(items)) = H
  BY <1>7, GroupsPart
<1>9. \A T : T \subseteq rows =>
        IsFiniteSet(T) /\ (\A r \in T : f[r] \in Int) /\ RowBytes(T) = SumFunctionOnSet(f, T)
  BY RowBytesMean
<1>10. \A n \in Names(items) : part[n] \subseteq rows
  BY DEF ByName, GroupRows
<1>11. \A n \in Names(items) : t[n] = SumFunctionOnSet(f, part[n]) /\ \A r \in part[n] : f[r] \in Int
  BY <1>4, <1>5, <1>9, <1>10 DEF ByName
<1>12. H \subseteq rows /\ O \subseteq rows
  BY <1>6
<1> HIDE DEF f, t, H, O, part
<1>13. SumFunctionOnSet(f, Whole(part, Names(items))) = SumFunctionOnSet(t, Names(items))
  BY <1>8, <1>11, SumByParts
<1>14. SumFunctionOnSet(f, H \cup O) = SumFunctionOnSet(f, H) + SumFunctionOnSet(f, O)
  BY <1>6, <1>9, <1>12, SumApart
<1>15. RowBytes(rows) = SumFunctionOnSet(f, rows) /\ RowBytes(O) = SumFunctionOnSet(f, O)
  BY <1>9, <1>12
<1> QED
  BY <1>1, <1>6, <1>8, <1>13, <1>14, <1>15 DEF O

\* The columns of the requesters, and what is in none of them.
LEMMA NeversAddUp ==
  ASSUME NEW items, IsFiniteSet(items), AreShaped(rows, items), LiveArr(world) \subseteq items
  PROVE  /\ Card(rows, "never_watched_anyone").count =
              SumFunction([n \in Names(LiveArr(world)) |-> RequesterTotal(world, att, rows, n).never.count])
              + Cardinality({r \in Nevers : r.arr \notin LiveArr(world)})
         /\ SumFunction([n \in Names(LiveArr(world)) |-> RequesterTotal(world, att, rows, n).never.count]) \in Nat
<1> DEFINE I == LiveArr(world)
           t == [n \in Names(I) |-> RequesterTotal(world, att, rows, n).never.count]
           part == ByName(Nevers, I)
           H == RowsAbout(Nevers, I)
           gone == {r \in Nevers : r.arr \notin I}
<1>1. SumFunction([n \in Names(I) |-> RequesterTotal(world, att, rows, n).never.count])
        = SumFunctionOnSet(t, DOMAIN t) /\ DOMAIN t = Names(I)
  BY DEF SumFunction
<1>2. \A n : RequesterTotal(world, att, rows, n).never = Tally(GroupRows(Nevers, I, n))
  <2> TAKE n
  <2> DEFINE J == {a \in LiveArr(world) : GroupName(att, a) = n}
             mine == {r \in rows : r.arr \in J}
  <2>1. OfReason(mine, {"never_watched_anyone"}) = GroupRows(Nevers, I, n)
    BY DEF OfReason, Nevers, GroupRows
  <2>2. RequesterTotal(world, att, rows, n).never = Tally(OfReason(mine, {"never_watched_anyone"}))
    BY DEF RequesterTotal
  <2> QED
    BY <2>1, <2>2
<1>3. \A S : Tally(S).count = Cardinality(S)
  BY DEF Tally
<1>4. IsFiniteSet(Nevers) /\ IsFiniteSet(I) /\ H \subseteq Nevers /\ gone \subseteq Nevers
  BY FS_Subset DEF AreShaped, Nevers, OfReason, RowsAbout
<1>5. /\ IsFiniteSet(Names(I)) /\ \A n \in Names(I) : IsFiniteSet(part[n])
      /\ \A m, n \in Names(I) : m # n => part[m] \cap part[n] = {}
      /\ Whole(part, Names(I)) = H
  BY <1>4, GroupsPart
<1>6. \A n \in Names(I) : t[n] = Cardinality(part[n])
  BY <1>2, <1>3 DEF ByName
<1>7. H \cup gone = Nevers /\ H \cap gone = {}
  BY DEF RowsAbout
<1>8. Card(rows, "never_watched_anyone").count = Cardinality(Nevers)
  BY <1>3 DEF Card, Nevers
<1>9. IsFiniteSet(H) /\ IsFiniteSet(gone)
  BY <1>4, FS_Subset
<1> HIDE DEF t, H, gone, I, part
<1>10. Cardinality(Whole(part, Names(I))) = SumFunctionOnSet(t, Names(I))
  BY <1>5, <1>6, CountByParts
<1>11. Cardinality(H \cup gone) = Cardinality(H) + Cardinality(gone)
  BY <1>7, <1>9, CountApart
<1>12. SumFunctionOnSet(t, Names(I)) \in Nat
  <2>1. \A n \in Names(I) : t[n] \in Nat
    BY <1>5, <1>6, FS_CardinalityType
  <2> QED
    BY <1>5, <2>1, SumIsNat
<1> QED
  BY <1>1, <1>5, <1>7, <1>8, <1>10, <1>11, <1>12 DEF I, gone

\* What the pages agree on whenever they are made: also while a later run
\* changes the tables that the rows of an older one are joined with.
THEOREM LatePagesTellOneStory == DeriveSpec => []LatePagesAgree
<1>1. DeriveInv => LatePagesAgree
  <2> SUFFICES ASSUME DeriveInv PROVE LatePagesAgree
    OBVIOUS
  <2>1. /\ IsFiniteSet(DOMAIN world.arr) /\ DOMAIN world.arr \subseteq Nat \ {NULL}
        /\ AreShaped(rows, DOMAIN world.arr) /\ LiveArr(world) \subseteq DOMAIN world.arr
    BY DEF DeriveInv, IsTables, LiveArr
  <2>2. \A b \in AgeBuckets : Bucket(rows, b) = Tally(Linked(b))
    <3>1. \A b : Bucket(rows, b) = Tally(InBucket(rows, b))
      BY DEF Bucket, InBucket
    <3> QED
      BY <3>1, BucketIsLinked
  <2>3. Card(rows, "never_watched_anyone").count = SumFunction([b \in AgeBuckets |-> Bucket(rows, b).count])
    BY <2>1, BucketsAddUp
  <2>4. rows = Tabs
    BY <2>1, TabsShowAll
  <2>5. Headline(rows).items = Cardinality({r.arr : r \in rows} \ {NULL})
                               + Cardinality({r.plex : r \in rows} \ {NULL})
    BY <2>1, HeadlineCounts
  <2>6. RowBytes(rows) = SumFunction([n \in Names(DOMAIN world.arr) |-> TopRequester(att, rows, n).bytes])
                         + RowBytes(OfReason(rows, {"orphan_plex_no_arr"}))
    BY <2>1, TopRequestersAddUp
  <2>7. Card(rows, "never_watched_anyone").count =
          SumFunction([n \in Names(LiveArr(world)) |-> RequesterTotal(world, att, rows, n).never.count])
          + Cardinality({r \in Nevers : r.arr \notin LiveArr(world)})
    BY <2>1, NeversAddUp
  <2> QED
    BY <2>2, <2>3, <2>4, <2>5, <2>6, <2>7, Zenon DEF LatePagesAgree
<1> QED
  BY <1>1, DeriveSettles, PTL

\* A run lists no item that is gone.
LEMMA RowsAreLive ==
  ASSUME DeriveInv, Done, NEW r \in rows, r.arr # NULL
  PROVE  /\ r.arr \in LiveArr(world) /\ r \in ItemRows(world, att, ws, r.arr)
<1>1. r \notin PlexOrphans(world)
  BY RowsAreNamed
<1>2. PICK a \in DOMAIN world.arr : Shown(a) /\ r \in ItemRows(world, att, ws, a)
  BY <1>1, RowsMean
<1>3. r.arr = a
  BY <1>2, RowsAreNamed
<1> QED
  BY <1>2, <1>3 DEF Shown, LiveArr

LEMMA RequesterRowsAreNamed ==
  ASSUME DeriveInv, Done, NEW r \in rows,
         r.reason \in {"never_watched_requester", "stale_finished_requester", "stale_partial_requester"}
  PROVE  Requester(att, r.arr).name # NoName
<1>1. r.arr \in DOMAIN world.arr
  BY DEF DeriveInv, AreShaped, Shaped
<1>2. Has(r.arr, r.reason)
  BY DEF Has
<1> QED
  BY <1>1, <1>2, HasMeans

\* A row about an item is no larger than the item.
LEMMA RowsFitItems ==
  ASSUME DeriveInv, Done, NEW r \in rows, r.arr # NULL
  PROVE  /\ r.size \in Nat /\ ItemBytes(world.arr[r.arr]) \in Nat
         /\ r.size <= ItemBytes(world.arr[r.arr])
<1> DEFINE a == r.arr
           ai == world.arr[a]
           F == LiveFiles(ai)
           f == [n \in F |-> ai.files[n].size]
<1>1. a \in DOMAIN world.arr /\ r \in ItemRows(world, att, ws, a)
  BY RowsAreLive DEF LiveArr
<1>2. /\ IsFiniteSet(DOMAIN ai.files)
      /\ \A n \in DOMAIN ai.files : ai.files[n].size \in Nat
  BY <1>1 DEF DeriveInv, IsTables
<1>3. IsFiniteSet(F) /\ ItemBytes(ai) \in Nat
  BY <1>2, BytesAreNat
<1>4. \A n \in F : f[n] \in Nat /\ f[n] = ai.files[n].size
  BY <1>2 DEF LiveFiles
<1>5. ItemBytes(ai) = SumFunctionOnSet(f, DOMAIN f) /\ DOMAIN f = F
  BY DEF ItemBytes, Bytes, SumFunction
<1>6. r.size \in Nat
  BY DEF DeriveInv, AreShaped, Shaped
<1>7. r.size = ItemBytes(ai) \/ \E n \in F : r.size = ai.files[n].size
  <2>1. \A reason, last, conf : ItemRowOf(world, a, reason, last, conf).size = ItemBytes(ai)
    BY DEF ItemRowOf
  <2>2. \A n, size : FileRowOf(a, NULL, n, "orphan_arr_no_plex", size).size = size
    BY DEF FileRowOf
  <2>3. CASE r \in NeverRows(world, att, ws, a)
    BY <2>1, <2>3, NeverMeans
  <2>4. CASE r \in StaleRows(world, att, ws, a)
    BY <2>1, <2>4, StaleMeans
  <2>5. CASE r \in MovieOrphans(world, a)
    BY <2>2, <2>5 DEF MovieOrphans
  <2>6. CASE r \in SeriesOrphans(world, a)
    <3>1. r = FileRowOf(a, NULL, NULL, "orphan_arr_no_plex", ItemBytes(ai))
      BY <2>6 DEF SeriesOrphans
    <3> QED
      BY <2>2, <3>1
  <2> QED
    BY <1>1, <2>3, <2>4, <2>5, <2>6 DEF ItemRows
<1> HIDE DEF f, F, ai
<1>8. \A n \in F : f[n] <= SumFunctionOnSet(f, F)
  BY <1>3, <1>4, SumHasTerm
<1> QED
  BY <1>3, <1>4, <1>5, <1>6, <1>7, <1>8 DEF ai

\* Every item is of one name and of one instance.
LEMMA ItemsAddUp ==
  ASSUME DeriveInv
  PROVE  SumFunction([n \in Names(LiveArr(world)) |-> RequesterTotal(world, att, rows, n).items]) =
           SumFunction([i \in {world.arr[a].inst : a \in DOMAIN world.arr} |-> InstanceCard(world, i).count])
<1> DEFINE L == LiveArr(world)
           N == Names(L)
           I == {world.arr[a].inst : a \in DOMAIN world.arr}
           f == [n \in N |-> RequesterTotal(world, att, rows, n).items]
           g == [i \in I |-> InstanceCard(world, i).count]
           p == [n \in N |-> {a \in L : GroupName(att, a) = n}]
           q == [i \in I |-> {a \in L : world.arr[a].inst = i}]
<1>1. L \subseteq DOMAIN world.arr /\ IsFiniteSet(DOMAIN world.arr)
  BY DEF DeriveInv, IsTables, LiveArr
<1>2. IsFiniteSet(L)
  BY <1>1, FS_Subset
<1>3. IsFiniteSet(N)
  BY <1>2, GroupsPart
<1>4. IsFiniteSet(I)
  <2> DEFINE m == [a \in DOMAIN world.arr |-> world.arr[a].inst]
             D == DOMAIN world.arr
  <2>1. I = {m[a] : a \in D}
    OBVIOUS
  <2> HIDE DEF m, D
  <2>2. IsFiniteSet({m[a] : a \in D})
    BY <1>1, FiniteImage DEF D
  <2> QED
    BY <2>1, <2>2
<1>5. \A n \in N : f[n] = Cardinality(p[n])
  BY DEF RequesterTotal
<1>6. \A i \in I : g[i] = Cardinality(q[i])
  BY DEF InstanceCard
<1>7. \A n \in N : p[n] \subseteq L
  OBVIOUS
<1>8. \A i \in I : q[i] \subseteq L
  OBVIOUS
<1>9. (\A n \in N : IsFiniteSet(p[n])) /\ \A i \in I : IsFiniteSet(q[i])
  BY <1>2, <1>7, <1>8, FS_Subset
<1>10. \A m, n \in N : m # n => p[m] \cap p[n] = {}
  OBVIOUS
<1>11. \A i, j \in I : i # j => q[i] \cap q[j] = {}
  OBVIOUS
<1>12. \A a \in L : \E n \in N : a \in p[n]
  BY DEF Names
<1>13. \A a \in L : \E i \in I : a \in q[i]
  BY <1>1
<1>14. SumFunction(f) = SumFunctionOnSet(f, N) /\ SumFunction(g) = SumFunctionOnSet(g, I)
  BY DEF SumFunction
<1> HIDE DEF f, g, p, q, L, N, I
<1>15. Whole(p, N) = L
  BY <1>7, <1>12 DEF Whole
<1>16. Whole(q, I) = L
  BY <1>8, <1>13 DEF Whole
<1>17. Cardinality(Whole(p, N)) = SumFunctionOnSet(f, N)
  BY <1>3, <1>5, <1>9, <1>10, CountByParts
<1>18. Cardinality(Whole(q, I)) = SumFunctionOnSet(g, I)
  BY <1>4, <1>6, <1>9, <1>11, CountByParts
<1>19. SumFunction(f) = SumFunction(g)
  BY <1>14, <1>15, <1>16, <1>17, <1>18
<1> QED
  BY <1>19 DEF f, g, L, N, I

\* An item that is listed once is counted once.
LEMMA RequesterBytesMean ==
  ASSUME DeriveInv, NEW n, NEW items, items = {a \in LiveArr(world) : GroupName(att, a) = n},
         \A a \in items : Cardinality(RowsOf(rows, a)) <= 1
  PROVE  RequesterTotal(world, att, rows, n).bytes = SumFunction([a \in items |-> ItemBytes(world.arr[a])])
<1> DEFINE Lines(a) == Largest({1, Cardinality(RowsOf(rows, a))})
           f == [a \in items |-> Lines(a) * ItemBytes(world.arr[a])]
           g == [a \in items |-> ItemBytes(world.arr[a])]
<1>1. RequesterTotal(world, att, rows, n).bytes = SumFunctionOnSet(f, items)
  BY DEF RequesterTotal, Bytes, SumFunction
<1>2. items \subseteq DOMAIN world.arr /\ IsFiniteSet(DOMAIN world.arr)
  BY DEF DeriveInv, IsTables, LiveArr
<1>3. IsFiniteSet(items)
  BY <1>2, FS_Subset
<1>4. \A a \in items : ItemBytes(world.arr[a]) \in Nat
  BY <1>2, BytesAreNat DEF DeriveInv, IsTables
<1>5. \A a \in items : Lines(a) = 1
  <2> SUFFICES ASSUME NEW a \in items PROVE Lines(a) = 1
    OBVIOUS
  <2> DEFINE c == Cardinality(RowsOf(rows, a))
  <2>1. RowsOf(rows, a) \subseteq rows /\ IsFiniteSet(rows)
    BY DEF RowsOf, DeriveInv, AreShaped
  <2>2. c \in Nat /\ c <= 1
    BY <2>1, FS_Subset, FS_CardinalityType
  <2> HIDE DEF c
  <2>3. {1, c} \subseteq 0 .. 1 /\ {1, c} # {} /\ 1 \in {1, c}
    BY <2>2
  <2> DEFINE S == {1, c}
  <2> HIDE DEF S
  <2>4. Max(S) \in S /\ \A y \in S : Max(S) >= y
    BY <2>3, MaxIsGreatest DEF S
  <2>5. Max(S) = 1
    BY <2>3, <2>4 DEF S
  <2>6. Largest(S) = 1
    BY <2>3, <2>5 DEF Largest, S
  <2> QED
    BY <2>6 DEF S, c
<1> HIDE DEF Lines
<1>6. \A a \in items : g[a] \in Int /\ f[a] = g[a]
  BY <1>4, <1>5
<1>7. SumFunction(g) = SumFunctionOnSet(g, items)
  BY DEF SumFunction
<1> HIDE DEF f, g
<1>8. SumFunctionOnSet(f, items) = SumFunctionOnSet(g, items)
  BY <1>3, <1>6, SumSame
<1> QED
  BY <1>1, <1>7, <1>8 DEF g

MediaOf(r) == <<r.arr, r.plex>>

MediaRows(S, m) == {r \in S : MediaOf(r) = m}

LargestRow(S, m) == Largest({r.size : r \in MediaRows(S, m)})

\* The largest row of an item is no larger than the item.
LEMMA ItemsFit ==
  ASSUME DeriveInv, Done, NEW A, A = {r.arr : r \in rows} \ {NULL},
         NEW h, \A a \in A : h[<<a, NULL>>] = LargestRow(rows, <<a, NULL>>)
  PROVE  /\ IsFiniteSet(A) /\ \A a \in A : h[<<a, NULL>>] \in Nat
         /\ SumFunctionOnSet(h, {<<a, NULL>> : a \in A})
              <= SumFunction([a \in A |-> ItemBytes(world.arr[a])])
         /\ SumFunctionOnSet(h, {<<a, NULL>> : a \in A}) \in Nat
         /\ SumFunction([a \in A |-> ItemBytes(world.arr[a])]) \in Nat
<1> DEFINE m == [a \in A |-> <<a, NULL>>]
           g == [a \in A |-> h[<<a, NULL>>]]
           b == [a \in A |-> ItemBytes(world.arr[a])]
<1>1. IsFiniteSet(A)
  <2> DEFINE p == [r \in rows |-> r.arr]
  <2>1. A \subseteq {p[r] : r \in rows}
    OBVIOUS
  <2>2. IsFiniteSet(rows)
    BY DEF DeriveInv, AreShaped
  <2> HIDE DEF p
  <2>3. IsFiniteSet({p[r] : r \in rows})
    BY <2>2, FiniteImage
  <2> QED
    BY <2>1, <2>3, FS_Subset
<1>2. ASSUME NEW a \in A
      PROVE  /\ h[<<a, NULL>>] \in Nat /\ ItemBytes(world.arr[a]) \in Nat
             /\ h[<<a, NULL>>] <= ItemBytes(world.arr[a])
  <2>1. PICK r \in rows : r.arr = a /\ a # NULL
    OBVIOUS
  <2>2. ItemBytes(world.arr[a]) \in Nat
    BY <2>1, RowsFitItems
  <2>3. \A q \in MediaRows(rows, <<a, NULL>>) : q \in rows /\ q.arr = a /\ q.arr # NULL
    BY <2>1 DEF MediaRows, MediaOf
  <2> DEFINE S == {q.size : q \in MediaRows(rows, <<a, NULL>>)}
  <2>4. \A x \in S : x \in Nat /\ x <= ItemBytes(world.arr[a])
    BY <2>3, RowsFitItems
  <2>5. h[<<a, NULL>>] = Largest(S)
    BY DEF LargestRow
  <2> HIDE DEF S
  <2>6. Largest(S) \in Nat /\ Largest(S) <= ItemBytes(world.arr[a])
    BY <2>2, <2>4, LargestAtMost
  <2> QED
    BY <2>2, <2>5, <2>6
<1>3. \A x, y \in A : m[x] = m[y] => x = y
  OBVIOUS
<1>4. \A a \in A : /\ h[m[a]] \in Nat /\ h[m[a]] \in Int /\ g[a] = h[m[a]]
                   /\ g[a] \in Nat /\ g[a] \in Int /\ b[a] \in Nat /\ b[a] \in Int /\ g[a] <= b[a]
  BY <1>2
<1>5. {<<a, NULL>> : a \in A} = {m[a] : a \in A}
  OBVIOUS
<1>6. SumFunction(b) = SumFunctionOnSet(b, A)
  BY DEF SumFunction
<1> HIDE DEF m, g, b
<1>7. SumFunctionOnSet(h, {m[a] : a \in A}) = SumFunctionOnSet(g, A)
  BY <1>1, <1>3, <1>4, SumRenamed
<1>8. SumFunctionOnSet(g, A) <= SumFunctionOnSet(b, A)
  BY <1>1, <1>4, SumAtMost
<1>9. SumFunctionOnSet(g, A) \in Nat /\ SumFunctionOnSet(b, A) \in Nat
  BY <1>1, <1>4, SumIsNat
<1>10. SumFunctionOnSet(h, {<<a, NULL>> : a \in A}) = SumFunctionOnSet(g, A)
  BY <1>5, <1>7
<1> QED
  BY <1>1, <1>2, <1>6, <1>8, <1>9, <1>10 DEF b

\* The largest row of a Plex item is no larger than its rows together.
LEMMA PlexRowsFit ==
  ASSUME NEW items, NULL \notin items, AreShaped(rows, items),
         NEW B, B = {r.plex : r \in rows} \ {NULL}, NEW O, O = OfReason(rows, {"orphan_plex_no_arr"}),
         NEW h, \A k \in B : h[<<NULL, k>>] = LargestRow(rows, <<NULL, k>>)
  PROVE  /\ IsFiniteSet(B) /\ \A k \in B : h[<<NULL, k>>] \in Nat
         /\ SumFunctionOnSet(h, {<<NULL, k>> : k \in B}) <= RowBytes(O)
         /\ SumFunctionOnSet(h, {<<NULL, k>> : k \in B}) \in Nat /\ RowBytes(O) \in Nat
<1> DEFINE m == [k \in B |-> <<NULL, k>>]
           g == [k \in B |-> h[<<NULL, k>>]]
           f == SizeOf(rows)
           part == [k \in B |-> MediaRows(rows, <<NULL, k>>)]
           b == [k \in B |-> RowBytes(part[k])]
<1>1. IsFiniteSet(B)
  <2> DEFINE p == [r \in rows |-> r.plex]
  <2>1. B \subseteq {p[r] : r \in rows}
    OBVIOUS
  <2>2. IsFiniteSet(rows)
    BY DEF AreShaped
  <2> HIDE DEF p
  <2>3. IsFiniteSet({p[r] : r \in rows})
    BY <2>2, FiniteImage
  <2> QED
    BY <2>1, <2>3, FS_Subset
<1>2. \A T : T \subseteq rows => /\ IsFiniteSet(T) /\ (\A r \in T : f[r] \in Int /\ f[r] \in Nat /\ f[r] = r.size)
                                 /\ RowBytes(T) = SumFunctionOnSet(f, T) /\ RowBytes(T) \in Nat
  BY RowBytesMean DEF SizeOf
<1>3. \A k \in B : part[k] \subseteq rows
  BY DEF MediaRows
<1>4. \A k, l \in B : k # l => part[k] \cap part[l] = {}
  BY DEF MediaRows
<1>5. Whole(part, B) = O
  <2>1. \A r \in O : r \in rows /\ r.plex \in B /\ MediaOf(r) = <<NULL, r.plex>>
    BY DEF AreShaped, Shaped, ItemReasons, OfReason, MediaOf
  <2>2. \A k \in B : \A r \in part[k] : r \in O
    <3> SUFFICES ASSUME NEW k \in B, NEW r \in part[k] PROVE r \in O
      OBVIOUS
    <3>1. r \in rows /\ r.plex = k /\ k # NULL
      BY DEF MediaRows, MediaOf
    <3> QED
      BY <3>1 DEF AreShaped, Shaped, OfReason
  <2>3. \A r \in O : r \in part[r.plex]
    BY <2>1 DEF MediaRows
  <2> HIDE DEF part
  <2> QED
    BY <2>1, <2>2, <2>3 DEF Whole
<1>6. ASSUME NEW k \in B
      PROVE  /\ h[<<NULL, k>>] \in Nat /\ RowBytes(part[k]) \in Nat
             /\ h[<<NULL, k>>] <= RowBytes(part[k])
  <2> DEFINE T == part[k]
             S == {q.size : q \in T}
  <2>1. h[<<NULL, k>>] = Largest(S)
    BY DEF LargestRow
  <2> HIDE DEF S, part, T, f
  <2>2. IsFiniteSet(T) /\ \A r \in T : f[r] \in Nat /\ f[r] = r.size
    BY <1>2, <1>3 DEF T
  <2>3. RowBytes(T) = SumFunctionOnSet(f, T) /\ RowBytes(T) \in Nat
    BY <1>2, <1>3 DEF T
  <2>4. \A r \in T : f[r] <= SumFunctionOnSet(f, T)
    BY <2>2, SumHasTerm
  <2>5. \A x \in S : x \in Nat /\ x <= RowBytes(T)
    BY <2>2, <2>3, <2>4 DEF S
  <2>6. Largest(S) \in Nat /\ Largest(S) <= RowBytes(T)
    BY <2>3, <2>5, LargestAtMost
  <2> QED
    BY <2>1, <2>3, <2>6 DEF T
<1>7. \A x, y \in B : m[x] = m[y] => x = y
  OBVIOUS
<1>8. \A k \in B : /\ h[m[k]] \in Nat /\ h[m[k]] \in Int /\ g[k] = h[m[k]]
                   /\ g[k] \in Nat /\ g[k] \in Int /\ b[k] \in Int /\ g[k] <= b[k]
  <2> SUFFICES ASSUME NEW k \in B
      PROVE  /\ h[m[k]] \in Nat /\ h[m[k]] \in Int /\ g[k] = h[m[k]]
             /\ g[k] \in Nat /\ g[k] \in Int /\ b[k] \in Int /\ g[k] <= b[k]
    OBVIOUS
  <2> DEFINE x == h[<<NULL, k>>]
             c == RowBytes(part[k])
  <2>1. m[k] = <<NULL, k>> /\ g[k] = x
    OBVIOUS
  <2>2. b[k] = c
    OBVIOUS
  <2>3. h[m[k]] = x
    BY <2>1
  <2>4. x \in Nat /\ c \in Nat /\ x <= c
    BY <1>6
  <2> HIDE DEF x, c, g, b, m, part
  <2> QED
    BY <2>1, <2>2, <2>3, <2>4
<1>9. {<<NULL, k>> : k \in B} = {m[k] : k \in B}
  OBVIOUS
<1>10. \A k \in B : b[k] = SumFunctionOnSet(f, part[k])
  BY <1>2, <1>3
<1> HIDE DEF m, g, b, part, f
<1>11. SumFunctionOnSet(h, {m[k] : k \in B}) = SumFunctionOnSet(g, B)
  BY <1>1, <1>7, <1>8, SumRenamed
<1>12. SumFunctionOnSet(g, B) <= SumFunctionOnSet(b, B)
  BY <1>1, <1>8, SumAtMost
<1>13. SumFunctionOnSet(g, B) \in Nat
  BY <1>1, <1>8, SumIsNat
<1>14. SumFunctionOnSet(f, Whole(part, B)) = SumFunctionOnSet(b, B)
  <2>1. \A k \in B : IsFiniteSet(part[k]) /\ \A r \in part[k] : f[r] \in Int
    BY <1>2, <1>3
  <2> QED
    BY <1>1, <1>4, <1>10, <2>1, SumByParts
<1>15. O \subseteq rows
  BY DEF OfReason
<1>16. RowBytes(O) = SumFunctionOnSet(b, B) /\ RowBytes(O) \in Nat
  BY <1>2, <1>5, <1>14, <1>15
<1>17. SumFunctionOnSet(h, {<<NULL, k>> : k \in B}) = SumFunctionOnSet(g, B)
  BY <1>9, <1>11
<1> QED
  BY <1>1, <1>6, <1>12, <1>13, <1>16, <1>17

\* The headline counts the bytes of an item at most once.
LEMMA HeadlineFits ==
  ASSUME DeriveInv, Done
  PROVE  Headline(rows).bytes <=
           SumFunction([a \in {r.arr : r \in rows} \ {NULL} |-> ItemBytes(world.arr[a])])
           + RowBytes(OfReason(rows, {"orphan_plex_no_arr"}))
<1> DEFINE A == {r.arr : r \in rows} \ {NULL}
           B == {r.plex : r \in rows} \ {NULL}
           O == OfReason(rows, {"orphan_plex_no_arr"})
           media == {<<r.arr, r.plex>> : r \in rows}
           h == [m \in media |-> LargestRow(rows, m)]
           MA == {<<a, NULL>> : a \in A}
           MB == {<<NULL, k>> : k \in B}
           total == SumFunction([a \in A |-> ItemBytes(world.arr[a])])
<1>1. Headline(rows).bytes = SumFunction(h)
  BY DEF Headline, Bytes, LargestRow, MediaRows, MediaOf
<1>2. AreShaped(rows, DOMAIN world.arr) /\ NULL \notin DOMAIN world.arr
  BY DEF DeriveInv, IsTables
<1>3. \A r \in rows : \/ r.arr = NULL /\ r.plex # NULL
                      \/ r.arr # NULL /\ r.plex = NULL
  BY <1>2 DEF AreShaped, Shaped
<1>4. media = MA \cup MB
  BY <1>3
<1>5. MA \cap MB = {}
  OBVIOUS
<1>6. \A a \in A : <<a, NULL>> \in media /\ h[<<a, NULL>>] = LargestRow(rows, <<a, NULL>>)
  BY <1>3
<1>7. \A k \in B : <<NULL, k>> \in media /\ h[<<NULL, k>>] = LargestRow(rows, <<NULL, k>>)
  BY <1>3
<1>8. SumFunction(h) = SumFunctionOnSet(h, media)
  BY DEF SumFunction
<1> HIDE DEF h, media, O
<1>9. /\ IsFiniteSet(A) /\ \A a \in A : h[<<a, NULL>>] \in Nat
      /\ SumFunctionOnSet(h, MA) <= total /\ SumFunctionOnSet(h, MA) \in Nat /\ total \in Nat
  BY <1>6, ItemsFit
<1>10. /\ IsFiniteSet(B) /\ \A k \in B : h[<<NULL, k>>] \in Nat
       /\ SumFunctionOnSet(h, MB) <= RowBytes(O) /\ SumFunctionOnSet(h, MB) \in Nat /\ RowBytes(O) \in Nat
  BY <1>2, <1>7, PlexRowsFit DEF O
<1>11. IsFiniteSet(MA) /\ IsFiniteSet(MB)
  <2> DEFINE p == [a \in A |-> <<a, NULL>>]
             q == [k \in B |-> <<NULL, k>>]
  <2>1. MA = {p[a] : a \in A} /\ MB = {q[k] : k \in B}
    OBVIOUS
  <2> HIDE DEF p, q, A, B, MA, MB
  <2> QED
    BY <1>9, <1>10, <2>1, FiniteImage
<1>12. \A x \in MA \cup MB : h[x] \in Int
  BY <1>9, <1>10
<1> HIDE DEF MA, MB, total
<1>13. SumFunctionOnSet(h, MA \cup MB) = SumFunctionOnSet(h, MA) + SumFunctionOnSet(h, MB)
  BY <1>5, <1>11, <1>12, SumApart
<1>14. Headline(rows).bytes = SumFunctionOnSet(h, MA) + SumFunctionOnSet(h, MB)
  BY <1>1, <1>4, <1>8, <1>13
<1>15. Headline(rows).bytes <= total + RowBytes(O)
  BY <1>9, <1>10, <1>14
<1> QED
  BY <1>15 DEF total, O

\* The pages tell one story, and once a run has its rows, one that agrees with
\* its tables, too.
THEOREM PagesTellOneStory == DeriveSpec => []PagesAgree
<1>1. DeriveInv => SettledPagesAgree
  <2> SUFFICES ASSUME DeriveInv, Done PROVE SettledPagesAgree
    BY DEF SettledPagesAgree
  <2>1. Card(rows, "never_watched_anyone").count =
          SumFunction([n \in Names(LiveArr(world)) |-> RequesterTotal(world, att, rows, n).never.count])
    <3> DEFINE gone == {r \in Nevers : r.arr \notin LiveArr(world)}
    <3>1. /\ IsFiniteSet(DOMAIN world.arr) /\ NULL \notin DOMAIN world.arr
          /\ AreShaped(rows, DOMAIN world.arr) /\ LiveArr(world) \subseteq DOMAIN world.arr
      BY DEF DeriveInv, IsTables, LiveArr
    <3>2. \A r \in Nevers : r \in rows /\ r.arr # NULL
      BY <3>1 DEF Nevers, OfReason, AreShaped, Shaped
    <3>3. gone = {}
      BY <3>2, RowsAreLive
    <3>4. Cardinality(gone) = 0
      BY <3>3, FS_EmptySet
    <3> HIDE DEF gone
    <3>5. /\ Card(rows, "never_watched_anyone").count =
               SumFunction([n \in Names(LiveArr(world)) |-> RequesterTotal(world, att, rows, n).never.count])
               + Cardinality(gone)
          /\ SumFunction([n \in Names(LiveArr(world)) |-> RequesterTotal(world, att, rows, n).never.count]) \in Nat
      BY <3>1, NeversAddUp DEF gone
    <3> QED
      BY <3>4, <3>5
  <2>2. SumFunction([n \in Names(LiveArr(world)) |-> RequesterTotal(world, att, rows, n).items]) =
          SumFunction([i \in {world.arr[a].inst : a \in DOMAIN world.arr} |-> InstanceCard(world, i).count])
    BY ItemsAddUp
  <2>3. Headline(rows).bytes <=
          SumFunction([a \in {r.arr : r \in rows} \ {NULL} |-> ItemBytes(world.arr[a])])
          + RowBytes(OfReason(rows, {"orphan_plex_no_arr"}))
    BY HeadlineFits
  <2>4. \A r \in rows :
          r.reason \in {"never_watched_requester", "stale_finished_requester", "stale_partial_requester"}
            => Requester(att, r.arr).name # NoName
    BY RequesterRowsAreNamed
  <2>5. \A n \in Names(LiveArr(world)) :
          LET items == {a \in LiveArr(world) : GroupName(att, a) = n}
          IN (\A a \in items : Cardinality(RowsOf(rows, a)) <= 1)
               => RequesterTotal(world, att, rows, n).bytes
                    = SumFunction([a \in items |-> ItemBytes(world.arr[a])])
    BY RequesterBytesMean
  <2> QED
    BY <2>1, <2>2, <2>3, <2>4, <2>5, Zenon DEF SettledPagesAgree
<1>2. LatePagesAgree /\ SettledPagesAgree => PagesAgree
  BY DEF PagesAgree
<1> QED
  BY <1>1, <1>2, LatePagesTellOneStory, DeriveSettles, PTL
=============================================================================
