------------------------------ MODULE SumProofs ------------------------------
(***************************************************************************)
(* Lemmas about any system's data: induction over the naturals and over    *)
(* the subsets of a finite set, recursion that takes the elements of a     *)
(* finite set out one at a time, and sums, as SumFunctionOnSet of          *)
(* Functions defines them. The induction schemes take an operator as a     *)
(* parameter, which the provers cannot instantiate; here induction is over *)
(* a set, and rests on the least element of a nonempty set of naturals.    *)
(***************************************************************************)
EXTENDS Integers, Functions, FiniteSetTheorems, WellFoundedInduction, TLAPS

-----------------------------------------------------------------------------
(* Induction *)

Below == {p \in Nat \X Nat : p[1] < p[2]}

\* The order of the naturals is well-founded.
LEMMA BelowIsWellFounded == IsWellFoundedOn(Below, Nat)
<1>1. OpToRel(<, Nat) = Below
  BY DEF OpToRel, Below
<1> QED BY <1>1, NatLessThanWellFounded

\* A set that has 0, and n + 1 whenever it has n, has every natural.
LEMMA InductionOverNat ==
  ASSUME NEW T, 0 \in T, \A n \in Nat : n \in T => n + 1 \in T
  PROVE  Nat \subseteq T
<1> DEFINE U == Nat \ T
<1> SUFFICES ASSUME U # {} PROVE FALSE
  OBVIOUS
<1>1. PICK x \in U : \A y \in U : <<y, x>> \notin Below
  <2> U \subseteq Nat
    OBVIOUS
  <2> HIDE DEF U
  <2> QED BY BelowIsWellFounded, WFMin
<1>2. x # 0 /\ x - 1 \in Nat /\ x - 1 \in U
  OBVIOUS
<1>3. <<x - 1, x>> \in Below
  BY <1>2 DEF Below
<1> QED BY <1>1, <1>2, <1>3

\* A family of sets that has the empty set, and each subset of S that it has
\* without some element, has all subsets of a finite S.
LEMMA InductionOverSubsets ==
  ASSUME NEW S, IsFiniteSet(S), NEW T, {} \in T,
         \A s \in SUBSET S : s # {} => \E x \in s : s \ {x} \in T => s \in T
  PROVE  SUBSET S \subseteq T
<1> DEFINE U == {n \in Nat : \A s \in SUBSET S : Cardinality(s) = n => s \in T}
<1>1. \A s \in SUBSET S : IsFiniteSet(s) /\ Cardinality(s) \in Nat
  BY FS_Subset, FS_CardinalityType
<1>2. 0 \in U
  BY <1>1, FS_EmptySet
<1>3. ASSUME NEW n \in Nat, n \in U PROVE n + 1 \in U
  <2> SUFFICES ASSUME NEW s \in SUBSET S, Cardinality(s) = n + 1 PROVE s \in T
    OBVIOUS
  <2>0. s # {}
    BY <1>1, FS_EmptySet
  <2>1. PICK x \in s : s \ {x} \in T => s \in T
    BY <2>0
  <2>2. Cardinality(s \ {x}) = Cardinality(s) - 1 /\ s \ {x} \in SUBSET S
    BY <1>1, FS_RemoveElement
  <2>3. s \ {x} \in T
    BY <1>3, <2>2
  <2> QED BY <2>1, <2>3
<1>4. Nat \subseteq U
  <2> HIDE DEF U
  <2> QED BY <1>2, <1>3, InductionOverNat
<1> QED BY <1>1, <1>4

-----------------------------------------------------------------------------
(* Recursion over a finite set, one element at a time *)

Step(base, pick, op, g, s) == IF s = {} THEN base ELSE op[<<pick[s], g[s \ {pick[s]}]>>]

Picks(pick, S) == \A s \in SUBSET S : s # {} => pick[s] \in s
Stays(op, S, V) == \A x \in S, v \in V : op[<<x, v>>] \in V
Recursion(g, S, base, pick, op) == \A s \in SUBSET S : g[s] = Step(base, pick, op, g, s)

\* Such a recursion has a solution on the subsets of S, with values in V.
LEMMA RecursionExists ==
  ASSUME NEW S, IsFiniteSet(S), NEW V, NEW base \in V,
         NEW op, Stays(op, S, V), NEW pick, Picks(pick, S)
  PROVE  \E g \in [SUBSET S -> V] : Recursion(g, S, base, pick, op)
<1> DEFINE Small(n) == {s \in SUBSET S : Cardinality(s) <= n}
           U == {n \in Nat : \E g \in [Small(n) -> V] : \A s \in Small(n) : g[s] = Step(base, pick, op, g, s)}
<1>1. \A s \in SUBSET S : IsFiniteSet(s) /\ Cardinality(s) \in Nat
  BY FS_Subset, FS_CardinalityType
<1>2. \A s \in SUBSET S : s # {} =>
        s \ {pick[s]} \in SUBSET S /\ Cardinality(s \ {pick[s]}) = Cardinality(s) - 1
  BY <1>1, FS_RemoveElement DEF Picks
<1>3. 0 \in U
  <2>1. Small(0) = {{}}
    BY <1>1, FS_EmptySet
  <2> DEFINE g == [s \in {{}} |-> base]
  <2>2. g \in [{{}} -> V] /\ \A s \in {{}} : g[s] = Step(base, pick, op, g, s)
    BY DEF Step
  <2> QED BY <2>1, <2>2
<1>4. ASSUME NEW n \in Nat, n \in U PROVE n + 1 \in U
  <2>1. PICK g \in [Small(n) -> V] : \A s \in Small(n) : g[s] = Step(base, pick, op, g, s)
    BY <1>4
  <2> DEFINE k == [s \in Small(n + 1) |-> Step(base, pick, op, g, s)]
  <2>2. \A s \in Small(n + 1) : s # {} => s \ {pick[s]} \in Small(n)
    BY <1>1, <1>2
  <2>3. \A s \in Small(n) : k[s] = g[s]
    BY <1>1, <2>1
  <2>4. \A s \in Small(n + 1) : k[s] \in V /\ k[s] = Step(base, pick, op, k, s)
    <3> SUFFICES ASSUME NEW s \in Small(n + 1) PROVE k[s] \in V /\ k[s] = Step(base, pick, op, k, s)
      OBVIOUS
    <3> HIDE DEF Small
    <3>1. CASE s = {}
      BY <3>1 DEF Step
    <3>2. CASE s # {}
      <4>1. pick[s] \in S /\ g[s \ {pick[s]}] \in V /\ k[s \ {pick[s]}] = g[s \ {pick[s]}]
        BY <2>2, <2>3, <3>2 DEF Small, Picks
      <4> QED BY <3>2, <4>1 DEF Step, Stays
    <3> QED BY <3>1, <3>2
  <2>5. k \in [Small(n + 1) -> V]
    BY <2>4
  <2> HIDE DEF k, Small
  <2> QED BY <2>4, <2>5
<1>5. Cardinality(S) \in U
  <2> HIDE DEF U
  <2> QED BY <1>1, <1>3, <1>4, InductionOverNat
<1>6. Small(Cardinality(S)) = SUBSET S
  BY <1>1, FS_Subset
<1>7. PICK g \in [SUBSET S -> V] : \A s \in SUBSET S : g[s] = Step(base, pick, op, g, s)
  BY <1>5, <1>6
<1> QED BY <1>7 DEF Recursion

-----------------------------------------------------------------------------
(* Sums *)

SumStep(F, g, s) == IF s = {} THEN 0 ELSE LET x == CHOOSE y \in s : TRUE IN F[x] + g[s \ {x}]

SumFcn(F, S) == CHOOSE g : g = [s \in SUBSET S |-> SumStep(F, g, s)]

IsSum(g, F, S) == \A s \in SUBSET S : g[s] = SumStep(F, g, s)
Integral(F, S) == \A x \in S : F[x] \in Int

\* The sum the community module folds is the value of its own recursive function.
LEMMA SumExpanded ==
  ASSUME NEW F, NEW S PROVE SumFunctionOnSet(F, S) = SumFcn(F, S)[S]
BY DEF SumFunctionOnSet, FoldFunctionOnSet, MapThenFoldSet, SumStep, SumFcn

\* The equation of a sum has one solution.
LEMMA SumStepDetermines ==
  ASSUME NEW S, IsFiniteSet(S), NEW F, NEW g, IsSum(g, F, S), NEW k, IsSum(k, F, S)
  PROVE  \A s \in SUBSET S : g[s] = k[s]
<1> DEFINE T == {s \in SUBSET S : g[s] = k[s]}
<1>1. {} \in T
  BY DEF SumStep, IsSum
<1>2. ASSUME NEW s \in SUBSET S, s # {} PROVE \E x \in s : s \ {x} \in T => s \in T
  <2> DEFINE x == CHOOSE y \in s : TRUE
  <2>1. x \in s
    BY <1>2
  <2>2. k[s] = F[x] + k[s \ {x}] /\ g[s] = F[x] + g[s \ {x}]
    BY <1>2 DEF SumStep, IsSum
  <2> HIDE DEF x
  <2> QED BY <2>1, <2>2
<1> HIDE DEF T
<1>3. SUBSET S \subseteq T
  BY <1>1, <1>2, InductionOverSubsets
<1> QED BY <1>3 DEF T

\* The function is there, and satisfies its equation.
LEMMA SumFcnDef ==
  ASSUME NEW S, IsFiniteSet(S), NEW F, Integral(F, S)
  PROVE  IsSum(SumFcn(F, S), F, S) /\ SumFcn(F, S) \in [SUBSET S -> Int]
<1> DEFINE pick == [s \in SUBSET S |-> CHOOSE y \in s : TRUE]
           op == [p \in S \X Int |-> F[p[1]] + p[2]]
           V == Int
<1>1. /\ \A x \in S, v \in V : op[<<x, v>>] = F[x] + v /\ op[<<x, v>>] \in V
      /\ 0 \in V
  BY DEF Integral
<1>2. \A s \in SUBSET S : pick[s] = CHOOSE y \in s : TRUE
  OBVIOUS
<1>3. Picks(pick, S)
  BY DEF Picks
<1> HIDE DEF pick, op
<1>4. PICK g \in [SUBSET S -> V] : Recursion(g, S, 0, pick, op)
  <2> HIDE DEF V
  <2>1. Stays(op, S, V)
    BY <1>1 DEF Stays
  <2> QED BY <1>1, <1>3, <2>1, RecursionExists
<1>5. ASSUME NEW s \in SUBSET S PROVE g[s] = SumStep(F, g, s)
  <2>1. CASE s # {}
    <3>1. pick[s] \in S /\ s \ {pick[s]} \in SUBSET S
      BY <1>3, <2>1 DEF Picks
    <3>2. g[s \ {pick[s]}] \in Int
      BY <3>1
    <3>3. g[s] = op[<<pick[s], g[s \ {pick[s]}]>>]
      BY <1>4, <2>1 DEF Step, Recursion
    <3>4. g[s] = F[pick[s]] + g[s \ {pick[s]}]
      BY <1>1, <3>1, <3>2, <3>3
    <3> QED BY <1>2, <2>1, <3>4 DEF SumStep
  <2> QED BY <1>4, <2>1 DEF Step, SumStep, Recursion
<1>6. g = [s \in SUBSET S |-> SumStep(F, g, s)]
  BY <1>5
<1> DEFINE k == SumFcn(F, S)
<1>7. k = [s \in SUBSET S |-> SumStep(F, k, s)]
  BY <1>6, Zenon DEF SumFcn
<1> HIDE DEF k
<1>8. IsSum(k, F, S) /\ IsSum(g, F, S)
  BY <1>5, <1>7 DEF IsSum
<1>9. \A s \in SUBSET S : k[s] = g[s]
  BY <1>8, SumStepDetermines
<1>10. k = g
  BY <1>4, <1>7, <1>9
<1> QED BY <1>8, <1>10 DEF k

\* The sum over any part of S is a value of the same function.
LEMMA SumOfPart ==
  ASSUME NEW S, IsFiniteSet(S), NEW F, Integral(F, S), NEW s \in SUBSET S
  PROVE  SumFunctionOnSet(F, s) = SumFcn(F, S)[s]
<1>1. IsFiniteSet(s) /\ Integral(F, s)
  BY FS_Subset DEF Integral
<1>2. IsSum(SumFcn(F, s), F, s)
  BY <1>1, SumFcnDef
<1>3. IsSum(SumFcn(F, S), F, S)
  BY SumFcnDef
<1>4. IsSum(SumFcn(F, S), F, s)
  BY <1>3 DEF IsSum
<1> QED BY <1>1, <1>2, <1>4, SumStepDetermines, SumExpanded

-----------------------------------------------------------------------------
(* What proofs need of a sum *)

\* The sum over no element.
LEMMA SumOfNothing == ASSUME NEW F PROVE SumFunctionOnSet(F, {}) = 0
<1>1. IsSum(SumFcn(F, {}), F, {})
  BY SumFcnDef, FS_EmptySet DEF Integral
<1> QED BY <1>1, SumExpanded DEF IsSum, SumStep

\* A sum of integers is one.
LEMMA SumIsInt ==
  ASSUME NEW S, IsFiniteSet(S), NEW F, Integral(F, S)
  PROVE  SumFunctionOnSet(F, S) \in Int
BY SumFcnDef, SumExpanded

\* Whichever element is added last, the sum is the same.
LEMMA SumWithout ==
  ASSUME NEW S, IsFiniteSet(S), NEW F, Integral(F, S), NEW z \in S
  PROVE  SumFunctionOnSet(F, S) = F[z] + SumFunctionOnSet(F, S \ {z})
<1> DEFINE k == SumFcn(F, S)
           Good(s) == \A x \in s : k[s] = F[x] + k[s \ {x}]
           U == {n \in Nat : \A s \in SUBSET S : Cardinality(s) = n => Good(s)}
<1>1. \A s \in SUBSET S : k[s] = SumStep(F, k, s)
  BY SumFcnDef DEF IsSum
<1>2. k \in [SUBSET S -> Int]
  BY SumFcnDef
<1> HIDE DEF k
<1>3. \A s \in SUBSET S : IsFiniteSet(s) /\ Cardinality(s) \in Nat /\ (Cardinality(s) = 0 => s = {})
  BY FS_Subset, FS_CardinalityType, FS_EmptySet
<1>4. 0 \in U
  BY <1>3
<1>5. ASSUME NEW n \in U, NEW s \in SUBSET S, Cardinality(s) = n + 1, NEW x \in s
      PROVE  k[s] = F[x] + k[s \ {x}]
  <2> DEFINE y == CHOOSE w \in s : TRUE
  <2>1. y \in s /\ k[s] = F[y] + k[s \ {y}]
    BY <1>1 DEF SumStep
  <2> HIDE DEF y
  <2>2. CASE x # y
    <3>1. ASSUME NEW w \in s PROVE Good(s \ {w})
      <4>1. s \ {w} \in SUBSET S /\ n \in Nat
        OBVIOUS
      <4>2. Cardinality(s \ {w}) = Cardinality(s) - 1
        BY <1>3, FS_RemoveElement
      <4>3. Cardinality(s \ {w}) = n
        BY <1>5, <4>1, <4>2
      <4> HIDE DEF Good
      <4> QED BY <4>1, <4>3
    <3> DEFINE t == (s \ {x}) \ {y}
    <3>2. t = (s \ {y}) \ {x} /\ t \in SUBSET S
      OBVIOUS
    <3>3. k[s \ {y}] = F[x] + k[t] /\ k[s \ {x}] = F[y] + k[t]
      BY <2>1, <2>2, <3>1, <3>2
    <3>4. F[x] \in Int /\ F[y] \in Int /\ k[t] \in Int
      BY <1>2, <2>1, <3>2 DEF Integral
    <3> HIDE DEF t
    <3> QED BY <2>1, <3>3, <3>4
  <2> QED BY <2>1, <2>2
<1>6. \A n \in Nat : n \in U => n + 1 \in U
  BY <1>5
<1>7. Cardinality(S) \in U
  <2> HIDE DEF U
  <2> QED BY <1>3, <1>4, <1>6, InductionOverNat
<1> QED BY <1>7, SumOfPart DEF k

\* Functions that agree on a set have the same sum.
LEMMA SumOfEqual ==
  ASSUME NEW S, IsFiniteSet(S), NEW F, Integral(F, S), NEW G, \A x \in S : G[x] = F[x]
  PROVE  SumFunctionOnSet(G, S) = SumFunctionOnSet(F, S)
<1>1. Integral(G, S)
  BY DEF Integral
<1>2. IsSum(SumFcn(F, S), F, S) /\ IsSum(SumFcn(G, S), G, S)
  BY <1>1, SumFcnDef
<1>3. \A g, s : s \in SUBSET S => SumStep(G, g, s) = SumStep(F, g, s)
  BY DEF SumStep
<1>4. IsSum(SumFcn(G, S), F, S)
  BY <1>2, <1>3 DEF IsSum
<1> QED BY <1>2, <1>4, SumStepDetermines, SumExpanded

\* A sum of zeros is zero.
LEMMA SumOfZeros ==
  ASSUME NEW S, IsFiniteSet(S), NEW F, \A x \in S : F[x] = 0
  PROVE  SumFunctionOnSet(F, S) = 0
<1> DEFINE k == SumFcn(F, S)
           T == {s \in SUBSET S : k[s] = 0}
<1>0. Integral(F, S)
  BY DEF Integral
<1>1. IsSum(k, F, S)
  BY <1>0, SumFcnDef
<1> HIDE DEF k
<1>2. {} \in T
  BY <1>1 DEF IsSum, SumStep
<1>3. ASSUME NEW s \in SUBSET S, s # {} PROVE \E x \in s : s \ {x} \in T => s \in T
  <2> DEFINE x == CHOOSE y \in s : TRUE
  <2>1. x \in s /\ k[s] = F[x] + k[s \ {x}]
    BY <1>1, <1>3 DEF IsSum, SumStep
  <2> HIDE DEF x
  <2> QED BY <2>1
<1> HIDE DEF T
<1>4. SUBSET S \subseteq T
  BY <1>2, <1>3, InductionOverSubsets
<1> QED BY <1>4, SumExpanded DEF T, k

\* A change of one value changes the sum by as much.
LEMMA SumAfterChange ==
  ASSUME NEW S, IsFiniteSet(S), NEW z \in S, NEW F, Integral(F, S), NEW G, Integral(G, S),
         \A x \in S \ {z} : G[x] = F[x]
  PROVE  SumFunctionOnSet(G, S) = SumFunctionOnSet(F, S) - F[z] + G[z]
<1> DEFINE R == S \ {z}
<1>1. IsFiniteSet(R) /\ Integral(F, R) /\ F[z] \in Int /\ G[z] \in Int
  BY FS_Subset DEF Integral
<1>2. SumFunctionOnSet(G, R) = SumFunctionOnSet(F, R) /\ SumFunctionOnSet(F, R) \in Int
  BY <1>1, SumOfEqual, SumIsInt
<1>3. SumFunctionOnSet(F, S) = F[z] + SumFunctionOnSet(F, R)
  BY SumWithout
<1>4. SumFunctionOnSet(G, S) = G[z] + SumFunctionOnSet(G, R)
  BY SumWithout
<1> QED BY <1>1, <1>2, <1>3, <1>4

\* A sum of naturals is one.
LEMMA SumIsNat ==
  ASSUME NEW S, IsFiniteSet(S), NEW F, \A x \in S : F[x] \in Nat
  PROVE  SumFunctionOnSet(F, S) \in Nat
<1> DEFINE k == SumFcn(F, S)
           T == {s \in SUBSET S : k[s] \in Nat}
<1>0. Integral(F, S)
  BY DEF Integral
<1>1. \A s \in SUBSET S : k[s] = SumStep(F, k, s)
  BY <1>0, SumFcnDef DEF IsSum
<1> HIDE DEF k
<1>2. {} \in T
  BY <1>1 DEF SumStep
<1>3. ASSUME NEW s \in SUBSET S, s # {} PROVE \E x \in s : s \ {x} \in T => s \in T
  <2> DEFINE x == CHOOSE y \in s : TRUE
  <2>1. x \in s /\ k[s] = F[x] + k[s \ {x}]
    BY <1>1, <1>3 DEF SumStep
  <2> HIDE DEF x
  <2> QED BY <2>1
<1> HIDE DEF T
<1>4. SUBSET S \subseteq T
  BY <1>2, <1>3, InductionOverSubsets
<1> QED BY <1>4, SumExpanded DEF T, k

\* Smaller values have a smaller sum.
LEMMA SumOfSmaller ==
  ASSUME NEW S, IsFiniteSet(S), NEW F, Integral(F, S), NEW G, Integral(G, S),
         \A x \in S : F[x] <= G[x]
  PROVE  SumFunctionOnSet(F, S) <= SumFunctionOnSet(G, S)
<1> DEFINE k == SumFcn(F, S)
           l == SumFcn(G, S)
           T == {s \in SUBSET S : k[s] \in Int /\ l[s] \in Int /\ k[s] <= l[s]}
<1>1. IsSum(k, F, S) /\ IsSum(l, G, S)
  BY SumFcnDef
<1> HIDE DEF k, l
<1>2. {} \in T
  BY <1>1 DEF IsSum, SumStep
<1>3. ASSUME NEW s \in SUBSET S, s # {} PROVE \E x \in s : s \ {x} \in T => s \in T
  <2> DEFINE x == CHOOSE y \in s : TRUE
  <2>1. x \in s /\ k[s] = F[x] + k[s \ {x}] /\ l[s] = G[x] + l[s \ {x}]
    BY <1>1, <1>3 DEF IsSum, SumStep
  <2> HIDE DEF x
  <2>2. F[x] \in Int /\ G[x] \in Int /\ F[x] <= G[x]
    BY <2>1 DEF Integral
  <2> QED BY <2>1, <2>2
<1> HIDE DEF T
<1>4. SUBSET S \subseteq T
  BY <1>2, <1>3, InductionOverSubsets
<1> QED BY <1>4, SumExpanded DEF T, k, l
=============================================================================
