---- MODULE SumProofs ----
(***************************************************************************)
(* What the sums of the models compute.  SumFunctionOnSet(F, S) of the     *)
(* community modules is a recursive function over the subsets of S that    *)
(* takes its elements in an arbitrary order; here it is shown, for every   *)
(* finite S, to exist and to add up: no element is left out or counted     *)
(* twice, whatever the order.                                              *)
(*                                                                         *)
(* The induction is the minimality form of well-foundedness: a non-empty   *)
(* set of finite sets has one that contains no other.                      *)
(***************************************************************************)
EXTENDS Integers, FiniteSets, Functions, FiniteSetTheorems, WellFoundedInduction, TLAPS

\* The element the sum takes next, and one unfolding of its definition.
Chosen(s) == CHOOSE x \in s : TRUE

Unfold(F, S, g) ==
    [s \in SUBSET S |-> IF s = {} THEN 0 ELSE F[Chosen(s)] + g[s \ {Chosen(s)}]]

IsSumOver(F, S, g) == g = Unfold(F, S, g)

LEMMA SumDef ==
    ASSUME NEW F, NEW S
    PROVE  SumFunctionOnSet(F, S) = (CHOOSE g : IsSumOver(F, S, g))[S]
  BY DEF SumFunctionOnSet, FoldFunctionOnSet, MapThenFoldSet, IsSumOver, Unfold, Chosen

\* A non-empty set of subsets of a finite set has a minimal member.
LEMMA SmallestSet ==
    ASSUME NEW S, IsFiniteSet(S), NEW B \in SUBSET (SUBSET S), B # {}
    PROVE  \E T \in B : \A U \in B : U \subseteq T => U = T
  <1>1. FiniteSubsetsOf(S) = SUBSET S
    BY FS_FiniteSubsetsOfFinite
  <1>2. IsWellFoundedOn(StrictSubsetOrdering(S), SUBSET S)
    BY <1>1, FS_StrictSubsetOrderingWellFounded
  <1>3. PICK T \in B : \A U \in B : ~(<<U, T>> \in StrictSubsetOrdering(S))
    BY <1>2, WFMin
  <1>4. \A U \in B : U \subseteq T => U = T
    BY <1>3 DEF StrictSubsetOrdering
  <1>5. QED BY <1>4

\* Two solutions agree on the subsets both are defined on.
LEMMA SumUnique ==
    ASSUME NEW F, NEW S, IsFiniteSet(S), NEW R \in SUBSET S,
           NEW g, IsSumOver(F, S, g), NEW h, IsSumOver(F, R, h)
    PROVE  \A s \in SUBSET R : g[s] = h[s]
  <1> DEFINE B == {s \in SUBSET R : g[s] # h[s]}
  <1> SUFFICES ASSUME B # {} PROVE FALSE
    OBVIOUS
  <1>1. IsFiniteSet(R) BY FS_Subset
  <1>2. PICK s \in B : \A u \in B : u \subseteq s => u = s
    <2>1. B \in SUBSET (SUBSET R) OBVIOUS
    <2>2. B # {} OBVIOUS
    <2> HIDE DEF B
    <2>3. QED BY <1>1, <2>1, <2>2, SmallestSet
  <1>3. /\ g[s] = IF s = {} THEN 0 ELSE F[Chosen(s)] + g[s \ {Chosen(s)}]
        /\ h[s] = IF s = {} THEN 0 ELSE F[Chosen(s)] + h[s \ {Chosen(s)}]
    <2>1. s \in SUBSET S /\ s \in SUBSET R OBVIOUS
    <2>2. g[s] = Unfold(F, S, g)[s] /\ h[s] = Unfold(F, R, h)[s] BY DEF IsSumOver
    <2>3. QED BY <2>1, <2>2 DEF Unfold
  <1>4. s # {} /\ Chosen(s) \in s
    <2>1. s # {} BY <1>3
    <2>2. QED BY <2>1 DEF Chosen
  <1>5. g[s \ {Chosen(s)}] = h[s \ {Chosen(s)}]
    <2>1. s \ {Chosen(s)} \in SUBSET R /\ s \ {Chosen(s)} # s BY <1>4
    <2>2. QED BY <2>1, <1>2
  <1>6. QED BY <1>3, <1>5

\* A finite set has a solution.
LEMMA SumExists ==
    ASSUME NEW F, NEW S, IsFiniteSet(S)
    PROVE  \E g : IsSumOver(F, S, g)
  <1> DEFINE B == {T \in SUBSET S : ~\E g : IsSumOver(F, T, g)}
  <1> SUFFICES ASSUME B # {} PROVE FALSE
    OBVIOUS
  <1>1. PICK T \in B : \A U \in B : U \subseteq T => U = T
    <2>1. B \in SUBSET (SUBSET S) OBVIOUS
    <2>2. B # {} OBVIOUS
    <2> HIDE DEF B
    <2>3. QED BY <2>1, <2>2, SmallestSet
  <1> DEFINE Fix(u) == CHOOSE g : IsSumOver(F, u, g)
             w == [s \in SUBSET T |-> IF s = {} THEN 0
                                      ELSE F[Chosen(s)] + Fix(s \ {Chosen(s)})[s \ {Chosen(s)}]]
  <1>2. ASSUME NEW u \in SUBSET T, u # T PROVE IsSumOver(F, u, Fix(u))
    BY <1>1, <1>2
  <1>3. ASSUME NEW u \in SUBSET T, u # T PROVE w[u] = Fix(u)[u]
    <2>1. Fix(u)[u] = IF u = {} THEN 0 ELSE F[Chosen(u)] + Fix(u)[u \ {Chosen(u)}]
      <3>1. Fix(u)[u] = Unfold(F, u, Fix(u))[u] BY <1>2, <1>3 DEF IsSumOver
      <3>2. QED BY <3>1 DEF Unfold
    <2>2. CASE u = {}
      BY <2>1, <2>2
    <2>3. CASE u # {}
      <3> DEFINE v == u \ {Chosen(u)}
      <3>1. Chosen(u) \in u BY <2>3 DEF Chosen
      <3>2. v \in SUBSET u /\ v \in SUBSET T /\ v # T BY <3>1, <1>3
      <3>3. IsFiniteSet(u) BY FS_Subset
      <3>4. IsSumOver(F, v, Fix(v)) /\ IsSumOver(F, u, Fix(u)) BY <1>2, <1>3, <3>2
      <3>5. Fix(u)[v] = Fix(v)[v]
        <4> HIDE DEF v, Fix
        <4>1. QED BY <3>2, <3>3, <3>4, SumUnique
      <3>6. w[u] = F[Chosen(u)] + Fix(v)[v] BY <2>3
      <3>7. QED BY <2>1, <2>3, <3>5, <3>6
    <2>4. QED BY <2>2, <2>3
  <1>4. IsSumOver(F, T, w)
    <2> HIDE DEF Fix
    <2>1. ASSUME NEW s \in SUBSET T, s # {} PROVE w[s] = F[Chosen(s)] + w[s \ {Chosen(s)}]
      <3>1. Chosen(s) \in s BY <2>1 DEF Chosen
      <3>2. s \ {Chosen(s)} \in SUBSET T /\ s \ {Chosen(s)} # T BY <3>1
      <3>3. w[s \ {Chosen(s)}] = Fix(s \ {Chosen(s)})[s \ {Chosen(s)}] BY <3>2, <1>3
      <3>4. QED BY <2>1, <3>3
    <2>2. w = [s \in SUBSET T |-> IF s = {} THEN 0 ELSE F[Chosen(s)] + w[s \ {Chosen(s)}]]
      BY <2>1
    <2>3. QED BY <2>2 DEF IsSumOver, Unfold
  <1>5. QED BY <1>1, <1>4

\* The unfolding of a sum, and what follows by induction from it.
LEMMA SumUnfolds ==
    ASSUME NEW F, NEW S, IsFiniteSet(S)
    PROVE  SumFunctionOnSet(F, S) =
             IF S = {} THEN 0 ELSE F[Chosen(S)] + SumFunctionOnSet(F, S \ {Chosen(S)})
  <1> DEFINE Fix(u) == CHOOSE g : IsSumOver(F, u, g)
             v == S \ {Chosen(S)}
  <1>1. IsFiniteSet(v) /\ v \in SUBSET S
    <2>1. v \in SUBSET S OBVIOUS
    <2>2. QED BY <2>1, FS_Subset
  <1>2. IsSumOver(F, S, Fix(S)) /\ IsSumOver(F, v, Fix(v))
    <2> HIDE DEF v
    <2>1. QED BY <1>1, SumExists
  <1>3. Fix(S)[v] = Fix(v)[v]
    <2> HIDE DEF v, Fix
    <2>1. QED BY <1>1, <1>2, SumUnique
  <1>4. Fix(S)[S] = IF S = {} THEN 0 ELSE F[Chosen(S)] + Fix(S)[v]
    <2>1. Fix(S)[S] = Unfold(F, S, Fix(S))[S] BY <1>2 DEF IsSumOver
    <2>2. QED BY <2>1 DEF Unfold
  <1>5. SumFunctionOnSet(F, S) = Fix(S)[S] /\ SumFunctionOnSet(F, v) = Fix(v)[v]
    <2> HIDE DEF v
    <2>1. QED BY SumDef
  <1>6. QED BY <1>3, <1>4, <1>5

LEMMA SumNone == \A F : SumFunctionOnSet(F, {}) = 0
  BY SumUnfolds, FS_EmptySet

\* A sum of naturals is a natural.
LEMMA SumType ==
    ASSUME NEW F, NEW S, IsFiniteSet(S), \A x \in S : F[x] \in Nat
    PROVE  SumFunctionOnSet(F, S) \in Nat
  <1> DEFINE B == {T \in SUBSET S : SumFunctionOnSet(F, T) \notin Nat}
  <1> SUFFICES ASSUME B # {} PROVE FALSE
    OBVIOUS
  <1>1. PICK T \in B : \A U \in B : U \subseteq T => U = T
    <2>1. B \in SUBSET (SUBSET S) OBVIOUS
    <2>2. B # {} OBVIOUS
    <2> HIDE DEF B
    <2>3. QED BY <2>1, <2>2, SmallestSet
  <1>2. IsFiniteSet(T) BY FS_Subset
  <1>3. T # {} BY SumNone
  <1>4. Chosen(T) \in T BY <1>3 DEF Chosen
  <1>5. T \ {Chosen(T)} \in SUBSET S /\ T \ {Chosen(T)} # T BY <1>4
  <1>6. SumFunctionOnSet(F, T \ {Chosen(T)}) \in Nat BY <1>1, <1>5
  <1>7. SumFunctionOnSet(F, T) = F[Chosen(T)] + SumFunctionOnSet(F, T \ {Chosen(T)})
    BY <1>2, <1>3, SumUnfolds
  <1>8. F[Chosen(T)] \in Nat BY <1>4
  <1>9. QED BY <1>6, <1>7, <1>8

\* Any element can be taken out of a sum, not just the one it takes next.
LEMMA SumTakeOut ==
    ASSUME NEW F, NEW S, IsFiniteSet(S), \A x \in S : F[x] \in Nat, NEW x \in S
    PROVE  SumFunctionOnSet(F, S) = F[x] + SumFunctionOnSet(F, S \ {x})
  <1> DEFINE Sum(u) == SumFunctionOnSet(F, u)
             Wrong(T) == \E z \in T : Sum(T) # F[z] + Sum(T \ {z})
             B == {T \in SUBSET S : Wrong(T)}
  <1> SUFFICES ASSUME B # {} PROVE FALSE
    <2>1. S \notin B => Sum(S) = F[x] + Sum(S \ {x}) OBVIOUS
    <2>2. QED BY <2>1
  <1>1. PICK T \in B : \A U \in B : U \subseteq T => U = T
    <2>1. B \in SUBSET (SUBSET S) OBVIOUS
    <2>2. B # {} OBVIOUS
    <2> HIDE DEF B
    <2>3. QED BY <2>1, <2>2, SmallestSet
  <1>2. PICK z \in T : Sum(T) # F[z] + Sum(T \ {z})
    OBVIOUS
  <1> DEFINE y == Chosen(T)
  <1>3. T \in SUBSET S /\ IsFiniteSet(T) BY FS_Subset
  <1>4. y \in T BY DEF Chosen
  <1>5. Sum(T) = F[y] + Sum(T \ {y}) BY <1>3, SumUnfolds
  <1>6. z # y BY <1>2, <1>5
  <1> HIDE DEF y
  <1>7. ASSUME NEW a \in T, NEW b \in T, a # b PROVE Sum(T \ {a}) = F[b] + Sum((T \ {a}) \ {b})
    <2>1. T \ {a} \in SUBSET S /\ T \ {a} # T /\ b \in T \ {a} BY <1>7
    <2>2. T \ {a} \notin B BY <2>1, <1>1
    <2>3. QED BY <2>1, <2>2
  <1>8. Sum(T \ {y}) = F[z] + Sum((T \ {y}) \ {z}) BY <1>4, <1>6, <1>7
  <1>9. Sum(T \ {z}) = F[y] + Sum((T \ {z}) \ {y}) BY <1>4, <1>6, <1>7
  <1>10. (T \ {y}) \ {z} = (T \ {z}) \ {y} OBVIOUS
  <1>11. F[y] \in Nat /\ F[z] \in Nat BY <1>4
  <1>12. Sum((T \ {y}) \ {z}) \in Nat
    <2>1. IsFiniteSet((T \ {y}) \ {z}) BY <1>3, FS_Subset
    <2>2. \A u \in (T \ {y}) \ {z} : F[u] \in Nat OBVIOUS
    <2>3. QED BY <2>1, <2>2, SumType
  <1>13. Sum((T \ {y}) \ {z}) = Sum((T \ {z}) \ {y}) BY <1>10
  <1>14. PICK k \in Nat, m \in Nat, n \in Nat :
           k = F[y] /\ m = F[z] /\ n = Sum((T \ {y}) \ {z})
    BY <1>11, <1>12
  <1>15. Sum(T) = k + (m + n) BY <1>5, <1>8, <1>14
  <1>16. F[z] + Sum(T \ {z}) = m + (k + n) BY <1>9, <1>13, <1>14
  <1>17. k + (m + n) = m + (k + n) OBVIOUS
  <1>18. QED BY <1>2, <1>15, <1>16, <1>17

LEMMA SumAdd ==
    ASSUME NEW F, NEW S, IsFiniteSet(S), \A y \in S : F[y] \in Nat,
           NEW x, x \notin S, F[x] \in Nat
    PROVE  SumFunctionOnSet(F, S \union {x}) = F[x] + SumFunctionOnSet(F, S)
  <1>1. IsFiniteSet(S \union {x}) BY FS_AddElement
  <1>2. (S \union {x}) \ {x} = S OBVIOUS
  <1>3. \A y \in S \union {x} : F[y] \in Nat OBVIOUS
  <1>4. QED BY <1>1, <1>2, <1>3, SumTakeOut

LEMMA SumOne ==
    ASSUME NEW F, NEW x, F[x] \in Nat
    PROVE  SumFunctionOnSet(F, {x}) = F[x]
  <1>1. SumFunctionOnSet(F, {} \union {x}) = F[x] + SumFunctionOnSet(F, {})
    BY SumAdd, FS_EmptySet
  <1>2. {} \union {x} = {x} OBVIOUS
  <1>3. QED BY <1>1, <1>2, SumNone

\* Functions that agree on a set have the same sum over it.
LEMMA SumEqual ==
    ASSUME NEW F, NEW G, NEW S, IsFiniteSet(S), \A x \in S : F[x] = G[x]
    PROVE  SumFunctionOnSet(F, S) = SumFunctionOnSet(G, S)
  <1> DEFINE B == {T \in SUBSET S : SumFunctionOnSet(F, T) # SumFunctionOnSet(G, T)}
  <1> SUFFICES ASSUME B # {} PROVE FALSE
    OBVIOUS
  <1>1. PICK T \in B : \A U \in B : U \subseteq T => U = T
    <2>1. B \in SUBSET (SUBSET S) OBVIOUS
    <2>2. B # {} OBVIOUS
    <2> HIDE DEF B
    <2>3. QED BY <2>1, <2>2, SmallestSet
  <1>2. IsFiniteSet(T) BY FS_Subset
  <1>3. T # {} BY SumNone
  <1>4. Chosen(T) \in T BY <1>3 DEF Chosen
  <1>5. T \ {Chosen(T)} \in SUBSET S /\ T \ {Chosen(T)} # T BY <1>4
  <1>6. SumFunctionOnSet(F, T \ {Chosen(T)}) = SumFunctionOnSet(G, T \ {Chosen(T)})
    BY <1>1, <1>5
  <1>7. F[Chosen(T)] = G[Chosen(T)] BY <1>4
  <1>8. /\ SumFunctionOnSet(F, T) = F[Chosen(T)] + SumFunctionOnSet(F, T \ {Chosen(T)})
        /\ SumFunctionOnSet(G, T) = G[Chosen(T)] + SumFunctionOnSet(G, T \ {Chosen(T)})
    BY <1>2, <1>3, SumUnfolds
  <1>9. QED BY <1>6, <1>7, <1>8

\* A part sums to no more than the whole.
LEMMA SumMonotone ==
    ASSUME NEW F, NEW S, IsFiniteSet(S), \A x \in S : F[x] \in Nat, NEW R \in SUBSET S
    PROVE  SumFunctionOnSet(F, R) <= SumFunctionOnSet(F, S)
  <1> DEFINE Sum(u) == SumFunctionOnSet(F, u)
             B == {T \in SUBSET S : R \subseteq T /\ ~(Sum(R) <= Sum(T))}
  <1> SUFFICES ASSUME B # {} PROVE FALSE
    OBVIOUS
  <1>1. PICK T \in B : \A U \in B : U \subseteq T => U = T
    <2>1. B \in SUBSET (SUBSET S) OBVIOUS
    <2>2. B # {} OBVIOUS
    <2> HIDE DEF B
    <2>3. QED BY <2>1, <2>2, SmallestSet
  <1>2. /\ IsFiniteSet(T) /\ IsFiniteSet(R)
        /\ \A x \in T : F[x] \in Nat
        /\ \A x \in R : F[x] \in Nat
    BY FS_Subset
  <1>3. Sum(R) \in Nat BY <1>2, SumType
  <1>4. T # R BY <1>3
  <1>5. PICK z \in T : z \notin R BY <1>4
  <1>6. Sum(T) = F[z] + Sum(T \ {z}) BY <1>2, SumTakeOut
  <1>7. T \ {z} \in SUBSET S /\ T \ {z} # T /\ R \subseteq T \ {z} BY <1>5
  <1>8. Sum(R) <= Sum(T \ {z}) BY <1>1, <1>7
  <1>9. IsFiniteSet(T \ {z}) /\ \A x \in T \ {z} : F[x] \in Nat BY <1>2, FS_Subset
  <1>10. Sum(T \ {z}) \in Nat BY <1>9, SumType
  <1>11. F[z] \in Nat BY <1>2
  <1>12. ~(Sum(R) <= Sum(T)) OBVIOUS
  <1> HIDE DEF Sum, B
  <1>13. QED BY <1>3, <1>6, <1>8, <1>10, <1>11, <1>12

\* A sum of zeros is zero.
LEMMA SumZero ==
    ASSUME NEW F, NEW S, IsFiniteSet(S), \A x \in S : F[x] = 0
    PROVE  SumFunctionOnSet(F, S) = 0
  <1> DEFINE B == {T \in SUBSET S : SumFunctionOnSet(F, T) # 0}
  <1> SUFFICES ASSUME B # {} PROVE FALSE
    OBVIOUS
  <1>1. PICK T \in B : \A U \in B : U \subseteq T => U = T
    <2>1. B \in SUBSET (SUBSET S) OBVIOUS
    <2>2. B # {} OBVIOUS
    <2> HIDE DEF B
    <2>3. QED BY <2>1, <2>2, SmallestSet
  <1>2. IsFiniteSet(T) BY FS_Subset
  <1>3. T # {} BY SumNone
  <1>4. Chosen(T) \in T BY <1>3 DEF Chosen
  <1>5. T \ {Chosen(T)} \in SUBSET S /\ T \ {Chosen(T)} # T BY <1>4
  <1>6. SumFunctionOnSet(F, T \ {Chosen(T)}) = 0 BY <1>1, <1>5
  <1>7. SumFunctionOnSet(F, T) = F[Chosen(T)] + SumFunctionOnSet(F, T \ {Chosen(T)})
    BY <1>2, <1>3, SumUnfolds
  <1>8. F[Chosen(T)] = 0 BY <1>4
  <1>9. QED BY <1>6, <1>7, <1>8
====
