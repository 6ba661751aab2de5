---------------------------- MODULE Sums_proofs ----------------------------
(***************************************************************************)
(* What the totals of the contracts rest on: the sum of a table exists, it  *)
(* depends on its entries only, and it changes by what one entry changes,   *)
(* whichever order the entries are added up in.                             *)
(***************************************************************************)
EXTENDS Sums, Integers, FiniteSetTheorems, WellFoundedInduction, TLAPS

-----------------------------------------------------------------------------
(* Induction over a finite set, in the form the provers can use: of the subsets
   in which something fails one has no smaller such subset. *)
LEMMA LeastSubset ==
  ASSUME NEW S, IsFiniteSet(S), NEW B, B \subseteq SUBSET S, B # {}
  PROVE  \E T \in B : \A U \in B : ~(U \subseteq T /\ U # T)
<1>1. B \subseteq FiniteSubsetsOf(S)
  BY FS_FiniteSubsetsOfFinite
<1>2. IsWellFoundedOn(StrictSubsetOrdering(S), FiniteSubsetsOf(S))
  BY FS_StrictSubsetOrderingWellFounded
<1>3. PICK T \in B : \A U \in B : ~(<<U, T>> \in StrictSubsetOrdering(S))
  BY <1>1, <1>2, WFMin
<1>4. ASSUME NEW U \in B, U \subseteq T, U # T PROVE FALSE
  <2>1. U \in SUBSET S /\ T \in SUBSET S
    OBVIOUS
  <2>2. <<U, T>> \in StrictSubsetOrdering(S)
    BY <1>4, <2>1 DEF StrictSubsetOrdering
  <2>3. QED
    BY <1>3, <2>2
<1>5. QED
  BY <1>4

(* The same for natural numbers. *)
LEMMA LeastExists ==
  ASSUME NEW T, T \subseteq Nat, T # {}
  PROVE  \E n \in T : \A i \in T : n <= i
<1> DEFINE Less == OpToRel(<, Nat)
<1>1. \A i, n \in Nat : i < n => <<i, n>> \in Less
  BY DEF OpToRel
<1>2. IsWellFoundedOn(Less, Nat)
  BY NatLessThanWellFounded
<1> HIDE DEF Less
<1>3. PICK n \in T : \A i \in T : ~(<<i, n>> \in Less)
  BY <1>2, WFMin
<1>4. ASSUME NEW i \in T PROVE n <= i
  <2>1. i \in Nat /\ n \in Nat
    OBVIOUS
  <2>2. ~(i < n)
    BY <2>1, <1>1, <1>3, Zenon
  <2>3. QED
    BY <2>1, <2>2
<1>5. QED
  BY <1>4

-----------------------------------------------------------------------------
(* The element a sum takes first. *)
FirstOf(s) == CHOOSE x \in s : TRUE

RestOf(s) == s \ {FirstOf(s)}

IsSum(f, S, g) ==
  g = [s \in SUBSET S |-> IF s = {} THEN 0 ELSE f[FirstOf(s)] + g[RestOf(s)]]

LEMMA SumOverIs ==
  ASSUME NEW f, NEW S
  PROVE  SumOver(f, S) = (CHOOSE g : IsSum(f, S, g))[S]
  BY DEF SumOver, MapThenSumSet, MapThenFoldSet, IsSum, FirstOf, RestOf

LEMMA RestIsSmaller ==
  ASSUME NEW s, s # {}
  PROVE  FirstOf(s) \in s /\ RestOf(s) \subseteq s /\ RestOf(s) # s
  BY DEF FirstOf, RestOf

(* Two partial sums agree wherever both are defined. *)
LEMMA SumsAgree ==
  ASSUME NEW f, NEW S, NEW R, NEW g, NEW h, IsFiniteSet(S), R \subseteq S,
         IsSum(f, S, g), IsSum(f, R, h)
  PROVE  g[R] = h[R]
<1> SUFFICES ASSUME g[R] # h[R] PROVE FALSE
  OBVIOUS
<1> DEFINE B == {s \in SUBSET R : g[s] # h[s]}
<1>1. PICK T \in B : \A U \in B : ~(U \subseteq T /\ U # T)
  <2>1. B # {} /\ B \subseteq SUBSET S
    OBVIOUS
  <2> HIDE DEF B
  <2>2. QED
    BY <2>1, LeastSubset
<1>2. /\ g[T] = IF T = {} THEN 0 ELSE f[FirstOf(T)] + g[RestOf(T)]
      /\ h[T] = IF T = {} THEN 0 ELSE f[FirstOf(T)] + h[RestOf(T)]
  <2>1. T \in SUBSET S /\ T \in SUBSET R
    OBVIOUS
  <2>2. QED
    BY <2>1 DEF IsSum
<1>3. T # {}
  BY <1>2
<1>4. RestOf(T) \subseteq T /\ RestOf(T) # T
  BY <1>3, RestIsSmaller
<1>5. RestOf(T) \notin B
  BY <1>1, <1>4
<1>6. g[RestOf(T)] = h[RestOf(T)]
  BY <1>4, <1>5
<1>7. QED
  BY <1>2, <1>6

LEMMA SumsExist ==
  ASSUME NEW f, NEW S, IsFiniteSet(S)
  PROVE  \E g : IsSum(f, S, g)
<1> SUFFICES ASSUME ~(\E g : IsSum(f, S, g)) PROVE FALSE
  OBVIOUS
<1> DEFINE B == {s \in SUBSET S : ~(\E g : IsSum(f, s, g))}
<1>1. PICK T \in B : \A U \in B : ~(U \subseteq T /\ U # T)
  <2>1. B # {} /\ B \subseteq SUBSET S
    OBVIOUS
  <2> HIDE DEF B
  <2>2. QED
    BY <2>1, LeastSubset
<1> DEFINE G(s) == CHOOSE g : IsSum(f, s, g)
           value(s) == IF s = {} THEN 0
                       ELSE IF s = T THEN f[FirstOf(s)] + G(RestOf(s))[RestOf(s)]
                       ELSE G(s)[s]
           h == [s \in SUBSET T |-> value(s)]
<1>2. ASSUME NEW s \in SUBSET T, s # T PROVE IsSum(f, s, G(s))
  <2>1. s \in SUBSET S /\ s \notin B
    BY <1>1, <1>2
  <2>2. \E g : IsSum(f, s, g)
    BY <2>1
  <2>3. QED
    BY <2>2
<1>3. ASSUME NEW s \in SUBSET T, s # {} PROVE h[s] = f[FirstOf(s)] + h[RestOf(s)]
  <2>1. RestOf(s) \in SUBSET T /\ RestOf(s) \subseteq s /\ RestOf(s) # s /\ RestOf(s) # T
    BY <1>3, RestIsSmaller
  <2>2. IsSum(f, RestOf(s), G(RestOf(s)))
    BY <1>2, <2>1
  <2>3. h[RestOf(s)] = G(RestOf(s))[RestOf(s)]
    <3>1. CASE RestOf(s) = {}
      <4>1. G(RestOf(s))[RestOf(s)] = 0
        BY <2>2, <3>1 DEF IsSum
      <4>2. QED
        BY <2>1, <3>1, <4>1
    <3>2. CASE RestOf(s) # {}
      BY <2>1, <3>2
    <3>3. QED
      BY <3>1, <3>2
  <2>4. CASE s = T
    BY <1>3, <2>3, <2>4
  <2>5. CASE s # T
    <3>1. IsSum(f, s, G(s))
      BY <1>2, <2>5
    <3>2. G(s)[s] = f[FirstOf(s)] + G(s)[RestOf(s)]
      BY <1>3, <2>1, <3>1 DEF IsSum
    <3>3. IsFiniteSet(s)
      BY FS_Subset
    <3>4. G(s)[RestOf(s)] = G(RestOf(s))[RestOf(s)]
      BY <2>1, <2>2, <3>1, <3>3, SumsAgree
    <3>5. QED
      BY <1>3, <2>3, <2>5, <3>2, <3>4
  <2>6. QED
    BY <2>4, <2>5
<1>4. IsSum(f, T, h)
  <2>1. h[{}] = 0
    OBVIOUS
  <2>2. ASSUME NEW s \in SUBSET T
        PROVE  h[s] = IF s = {} THEN 0 ELSE f[FirstOf(s)] + h[RestOf(s)]
    <3> HIDE DEF h
    <3>1. QED
      BY <1>3, <2>1
  <2>3. h = [s \in SUBSET T |-> h[s]]
    OBVIOUS
  <2> HIDE DEF h
  <2>4. QED
    BY <2>2, <2>3 DEF IsSum
<1>5. QED
  BY <1>1, <1>4

LEMMA SumOfNothing ==
  ASSUME NEW f
  PROVE  SumOver(f, {}) = 0
<1>1. IsSum(f, {}, CHOOSE g : IsSum(f, {}, g))
  BY SumsExist, FS_EmptySet
<1>2. QED
  BY <1>1, SumOverIs DEF IsSum

LEMMA SumStep ==
  ASSUME NEW f, NEW S, IsFiniteSet(S), S # {}
  PROVE  SumOver(f, S) = f[FirstOf(S)] + SumOver(f, RestOf(S))
<1> DEFINE g == CHOOSE g : IsSum(f, S, g)
           h == CHOOSE h : IsSum(f, RestOf(S), h)
<1>1. RestOf(S) \subseteq S /\ IsFiniteSet(RestOf(S))
  BY RestIsSmaller, FS_Subset
<1>2. IsSum(f, S, g) /\ IsSum(f, RestOf(S), h)
  BY <1>1, SumsExist
<1>3. SumOver(f, S) = g[S] /\ SumOver(f, RestOf(S)) = h[RestOf(S)]
  BY SumOverIs
<1> HIDE DEF g, h
<1>4. g[RestOf(S)] = h[RestOf(S)]
  BY <1>1, <1>2, SumsAgree
<1>5. g[S] = f[FirstOf(S)] + g[RestOf(S)]
  BY <1>1, <1>2 DEF IsSum
<1>6. QED
  BY <1>3, <1>4, <1>5

-----------------------------------------------------------------------------
(* A sum depends on the values it sums, and only on those. *)
LEMMA SumOfSame ==
  ASSUME NEW S, IsFiniteSet(S), NEW f, NEW g, \A x \in S : f[x] = g[x]
  PROVE  SumOver(f, S) = SumOver(g, S)
<1> SUFFICES ASSUME SumOver(f, S) # SumOver(g, S) PROVE FALSE
  OBVIOUS
<1> DEFINE B == {s \in SUBSET S : SumOver(f, s) # SumOver(g, s)}
<1>1. PICK T \in B : \A U \in B : ~(U \subseteq T /\ U # T)
  <2>1. B # {} /\ B \subseteq SUBSET S
    OBVIOUS
  <2> HIDE DEF B
  <2>2. QED
    BY <2>1, LeastSubset
<1>2. T # {}
  BY SumOfNothing
<1>3. IsFiniteSet(T)
  BY FS_Subset
<1>4. FirstOf(T) \in S /\ RestOf(T) \subseteq T /\ RestOf(T) # T
  BY <1>2, RestIsSmaller
<1>5. RestOf(T) \notin B
  BY <1>1, <1>4
<1>6. SumOver(f, RestOf(T)) = SumOver(g, RestOf(T))
  BY <1>4, <1>5
<1>7. SumOver(f, T) = SumOver(g, T)
  <2>1. f[FirstOf(T)] = g[FirstOf(T)]
    BY <1>4
  <2>2. SumOver(f, T) = f[FirstOf(T)] + SumOver(f, RestOf(T))
    BY <1>2, <1>3, SumStep
  <2>3. SumOver(g, T) = g[FirstOf(T)] + SumOver(g, RestOf(T))
    BY <1>2, <1>3, SumStep
  <2>4. QED
    BY <1>6, <2>1, <2>2, <2>3
<1>8. QED
  BY <1>7

LEMMA SumIsInt ==
  ASSUME NEW S, IsFiniteSet(S), NEW f, \A x \in S : f[x] \in Int
  PROVE  SumOver(f, S) \in Int
<1> SUFFICES ASSUME SumOver(f, S) \notin Int PROVE FALSE
  OBVIOUS
<1> DEFINE B == {s \in SUBSET S : SumOver(f, s) \notin Int}
<1>1. PICK T \in B : \A U \in B : ~(U \subseteq T /\ U # T)
  <2>1. B # {} /\ B \subseteq SUBSET S
    OBVIOUS
  <2> HIDE DEF B
  <2>2. QED
    BY <2>1, LeastSubset
<1>2. T # {}
  BY SumOfNothing
<1>3. IsFiniteSet(T)
  BY FS_Subset
<1>4. FirstOf(T) \in S /\ RestOf(T) \subseteq T /\ RestOf(T) # T
  BY <1>2, RestIsSmaller
<1>5. RestOf(T) \notin B
  BY <1>1, <1>4
<1>6. SumOver(f, RestOf(T)) \in Int
  BY <1>4, <1>5
<1>7. SumOver(f, T) = f[FirstOf(T)] + SumOver(f, RestOf(T))
  BY <1>2, <1>3, SumStep
<1>8. QED
  BY <1>4, <1>6, <1>7

(* No part is larger than the whole. *)
LEMMA SumCoversParts ==
  ASSUME NEW S, IsFiniteSet(S), NEW f, \A x \in S : f[x] \in Nat
  PROVE  /\ SumOver(f, S) \in Nat
         /\ \A x \in S : f[x] <= SumOver(f, S)
<1> DEFINE Covers(s) == SumOver(f, s) \in Nat /\ \A x \in s : f[x] <= SumOver(f, s)
           B == {s \in SUBSET S : ~ Covers(s)}
<1> SUFFICES ASSUME ~ Covers(S) PROVE FALSE
  OBVIOUS
<1>1. PICK T \in B : \A U \in B : ~(U \subseteq T /\ U # T)
  <2>1. B # {} /\ B \subseteq SUBSET S
    OBVIOUS
  <2> HIDE DEF B
  <2>2. QED
    BY <2>1, LeastSubset
<1>2. T # {}
  BY SumOfNothing
<1>3. IsFiniteSet(T)
  BY FS_Subset
<1>4. FirstOf(T) \in S /\ RestOf(T) \subseteq T /\ RestOf(T) # T
  BY <1>2, RestIsSmaller
<1>5. RestOf(T) \notin B
  BY <1>1, <1>4
<1>6. Covers(RestOf(T))
  BY <1>4, <1>5
<1>7. SumOver(f, T) = f[FirstOf(T)] + SumOver(f, RestOf(T))
  BY <1>2, <1>3, SumStep
<1>8. ASSUME NEW x \in T PROVE f[x] <= SumOver(f, T)
  <2>1. x = FirstOf(T) \/ x \in RestOf(T)
    BY DEF RestOf
  <2>2. f[x] \in Nat /\ f[FirstOf(T)] \in Nat
    BY <1>4
  <2>3. x \in RestOf(T) => f[x] <= SumOver(f, RestOf(T))
    BY <1>6
  <2>4. SumOver(f, RestOf(T)) \in Nat
    BY <1>6
  <2>5. QED
    BY <1>7, <2>1, <2>2, <2>3, <2>4
<1>9. SumOver(f, T) \in Nat
  BY <1>4, <1>6, <1>7
<1>10. QED
  BY <1>8, <1>9

(* When one value changes the sum changes by as much. *)
LEMMA SumOfChanged ==
  ASSUME NEW S, IsFiniteSet(S), NEW f, \A x \in S : f[x] \in Int,
         NEW a \in S, NEW g, g[a] \in Int, \A x \in S \ {a} : g[x] = f[x]
  PROVE  SumOver(g, S) = SumOver(f, S) + (g[a] - f[a])
<1> DEFINE Right(s) == SumOver(g, s) = SumOver(f, s) + (g[a] - f[a])
           B == {s \in SUBSET S : a \in s /\ ~ Right(s)}
<1> SUFFICES ASSUME ~ Right(S) PROVE FALSE
  OBVIOUS
<1>1. PICK T \in B : \A U \in B : ~(U \subseteq T /\ U # T)
  <2>1. B # {} /\ B \subseteq SUBSET S
    OBVIOUS
  <2> HIDE DEF B
  <2>2. QED
    BY <2>1, LeastSubset
<1>2. a \in T /\ T # {} /\ T \subseteq S
  OBVIOUS
<1>3. IsFiniteSet(T) /\ IsFiniteSet(RestOf(T))
  BY <1>2, FS_Subset, RestIsSmaller
<1>4. FirstOf(T) \in T /\ RestOf(T) \subseteq T /\ RestOf(T) # T
  BY <1>2, RestIsSmaller
<1>5. /\ SumOver(f, T) = f[FirstOf(T)] + SumOver(f, RestOf(T))
      /\ SumOver(g, T) = g[FirstOf(T)] + SumOver(g, RestOf(T))
  BY <1>2, <1>3, SumStep
<1>6. SumOver(f, RestOf(T)) \in Int /\ f[FirstOf(T)] \in Int /\ f[a] \in Int
  <2>1. \A x \in RestOf(T) : f[x] \in Int
    BY <1>2, <1>4
  <2>2. QED
    BY <1>2, <1>3, <1>4, <2>1, SumIsInt
<1>7. CASE FirstOf(T) = a
  <2>1. \A x \in RestOf(T) : g[x] = f[x]
    BY <1>2, <1>7 DEF RestOf
  <2>2. SumOver(g, RestOf(T)) = SumOver(f, RestOf(T))
    BY <1>3, <2>1, SumOfSame
  <2>3. Right(T)
    BY <1>5, <1>6, <1>7, <2>2
  <2>4. QED
    BY <2>3
<1>8. CASE FirstOf(T) # a
  <2>1. a \in RestOf(T) /\ RestOf(T) \in SUBSET S
    BY <1>2, <1>4, <1>8 DEF RestOf
  <2>2. RestOf(T) \notin B
    BY <1>1, <1>4
  <2>3. Right(RestOf(T))
    BY <2>1, <2>2
  <2>4. g[FirstOf(T)] = f[FirstOf(T)]
    BY <1>2, <1>4, <1>8
  <2>5. Right(T)
    BY <1>5, <1>6, <2>3, <2>4
  <2>6. QED
    BY <2>5
<1>9. QED
  BY <1>7, <1>8

(* ... in the words of an assignment to one entry of a table. *)
LEMMA SumOfUpdated ==
  ASSUME NEW S, IsFiniteSet(S), NEW f \in [S -> Int], NEW a \in S, NEW v \in Int
  PROVE  SumOver([f EXCEPT ![a] = v], S) = SumOver(f, S) + (v - f[a])
<1> DEFINE g == [f EXCEPT ![a] = v]
<1>1. \A x \in S : f[x] \in Int
  OBVIOUS
<1>2. g[a] = v /\ g[a] \in Int /\ \A x \in S \ {a} : g[x] = f[x]
  OBVIOUS
<1> HIDE DEF g
<1>3. SumOver(g, S) = SumOver(f, S) + (g[a] - f[a])
  BY <1>1, <1>2, SumOfChanged
<1>4. QED
  BY <1>2, <1>3 DEF g

LEMMA SumOfZeros ==
  ASSUME NEW S, IsFiniteSet(S), NEW f, \A x \in S : f[x] = 0
  PROVE  SumOver(f, S) = 0
<1> SUFFICES ASSUME SumOver(f, S) # 0 PROVE FALSE
  OBVIOUS
<1> DEFINE B == {s \in SUBSET S : SumOver(f, s) # 0}
<1>1. PICK T \in B : \A U \in B : ~(U \subseteq T /\ U # T)
  <2>1. B # {} /\ B \subseteq SUBSET S
    OBVIOUS
  <2> HIDE DEF B
  <2>2. QED
    BY <2>1, LeastSubset
<1>2. T # {}
  BY SumOfNothing
<1>3. IsFiniteSet(T)
  BY FS_Subset
<1>4. FirstOf(T) \in S /\ RestOf(T) \subseteq T /\ RestOf(T) # T
  BY <1>2, RestIsSmaller
<1>5. RestOf(T) \notin B
  BY <1>1, <1>4
<1>6. SumOver(f, RestOf(T)) = 0 /\ f[FirstOf(T)] = 0
  BY <1>4, <1>5
<1>7. SumOver(f, T) = f[FirstOf(T)] + SumOver(f, RestOf(T))
  BY <1>2, <1>3, SumStep
<1>8. QED
  BY <1>6, <1>7
=============================================================================
