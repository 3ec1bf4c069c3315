-------------------------- MODULE AllocationProofs --------------------------
(***************************************************************************)
(* The allocator is exact: for every pool, organisation share and split it *)
(* accepts, the cut and the shares add up to the pool, and no share is a   *)
(* whole unit away from its exact part.                                    *)
(*                                                                         *)
(* Induction over finite sets is by the well-foundedness of inclusion: a   *)
(* smallest subset for which a law fails cannot exist.                     *)
(***************************************************************************)
EXTENDS Allocation, FiniteSetTheorems, TLAPS

-----------------------------------------------------------------------------
(* Induction over the subsets of a finite set.                              *)

\* A family of subsets that holds a set whenever it holds the smaller ones
\* holds them all.
LEMMA SubsetInduction ==
  ASSUME NEW S, IsFiniteSet(S), NEW Good,
         \A T \in SUBSET S : (\A U \in SUBSET T : U # T => U \in Good) => T \in Good
  PROVE  \A T \in SUBSET S : T \in Good
<1> DEFINE Bad == {T \in SUBSET S : T \notin Good}
<1>1. SUFFICES ASSUME Bad # {} PROVE FALSE
  OBVIOUS
<1>2. Bad \subseteq FiniteSubsetsOf(S)
  BY FS_Subset DEF FiniteSubsetsOf
<1>3. IsWellFoundedOn(StrictSubsetOrdering(S), FiniteSubsetsOf(S))
  BY FS_StrictSubsetOrderingWellFounded
<1> HIDE DEF Bad
<1>4. PICK T \in Bad : \A U \in Bad : <<U, T>> \notin StrictSubsetOrdering(S)
  BY <1>1, <1>2, <1>3, WFMin
<1>5. T \in SUBSET S /\ T \notin Good
  BY <1>4 DEF Bad
<1>6. PICK U \in SUBSET T : U # T /\ U \notin Good
  BY <1>5
<1>7. U \in Bad /\ <<U, T>> \in StrictSubsetOrdering(S)
  BY <1>5, <1>6 DEF Bad, StrictSubsetOrdering
<1> QED  BY <1>4, <1>7

\* The same one element at a time.
LEMMA ElementInduction ==
  ASSUME NEW S, IsFiniteSet(S), NEW Good, {} \in Good,
         \A T \in SUBSET S : \A x \in S \ T : T \in Good => T \cup {x} \in Good
  PROVE  S \in Good
<1>1. ASSUME NEW T \in SUBSET S, \A U \in SUBSET T : U # T => U \in Good
      PROVE  T \in Good
  <2>1. CASE T = {}  BY <2>1
  <2>2. CASE T # {}
    <3>1. PICK x \in T : TRUE  BY <2>2
    <3>2. T \ {x} \in Good  BY <1>1, <3>1
    <3>3. (T \ {x}) \cup {x} = T /\ T \ {x} \in SUBSET S /\ x \in S \ (T \ {x})
      BY <3>1
    <3> QED  BY <3>2, <3>3
  <2> QED  BY <2>1, <2>2
<1> QED  BY <1>1, SubsetInduction

-----------------------------------------------------------------------------
(* Sums over finite sets, from the definition of the fold.                  *)

First(s) == CHOOSE x \in s : TRUE

IsFold(g, f, S) ==
  g = [s \in SUBSET S |-> IF s = {} THEN 0 ELSE f[First(s)] + g[s \ {First(s)}]]

LEMMA FirstIn ==
  ASSUME NEW s, s # {}
  PROVE  First(s) \in s
BY DEF First

LEMMA FoldAt ==
  ASSUME NEW g, NEW f, NEW S, IsFold(g, f, S), NEW s \in SUBSET S
  PROVE  g[s] = IF s = {} THEN 0 ELSE f[First(s)] + g[s \ {First(s)}]
<1> DEFINE body(h, t) == IF t = {} THEN 0 ELSE f[First(t)] + h[t \ {First(t)}]
<1>1. g = [t \in SUBSET S |-> body(g, t)]
  BY DEF IsFold
<1> HIDE DEF body
<1>2. g[s] = body(g, s)
  BY <1>1
<1> QED  BY <1>2 DEF body

LEMMA FoldExpanded ==
  ASSUME NEW f, NEW S
  PROVE  SumFunctionOnSet(f, S) = (CHOOSE g : IsFold(g, f, S))[S]
BY DEF SumFunctionOnSet, FoldFunctionOnSet, MapThenFoldSet, IsFold, First

LEMMA FoldsAgree ==
  ASSUME NEW f, NEW S, IsFiniteSet(S), NEW g, NEW R, NEW h, IsFold(g, f, S), IsFold(h, f, R),
         S \subseteq R
  PROVE  g[S] = h[S]
<1> DEFINE Good == {s \in SUBSET S : g[s] = h[s]}
<1>1. ASSUME NEW T \in SUBSET S, \A U \in SUBSET T : U # T => U \in Good
      PROVE  T \in Good
  <2>1. g[T] = IF T = {} THEN 0 ELSE f[First(T)] + g[T \ {First(T)}]
    BY FoldAt
  <2>2. h[T] = IF T = {} THEN 0 ELSE f[First(T)] + h[T \ {First(T)}]
    BY FoldAt
  <2>3. T # {} => g[T \ {First(T)}] = h[T \ {First(T)}]
    BY <1>1, FirstIn
  <2> QED  BY <2>1, <2>2, <2>3
<1> HIDE DEF Good
<1>2. S \in Good
  BY <1>1, SubsetInduction
<1> QED  BY <1>2 DEF Good

LEMMA FoldExists ==
  ASSUME NEW f, NEW S, IsFiniteSet(S)
  PROVE  IsFold(CHOOSE g : IsFold(g, f, S), f, S)
<1> DEFINE F(T) == CHOOSE g : IsFold(g, f, T)
           Good == {T \in SUBSET S : IsFold(F(T), f, T)}
<1>1. ASSUME NEW T \in SUBSET S, \A U \in SUBSET T : U # T => U \in Good
      PROVE  T \in Good
  <2> DEFINE V(s) == F(s)[s]
             g == [s \in SUBSET T |-> IF s = {} THEN 0 ELSE f[First(s)] + V(s \ {First(s)})]
  <2>1. ASSUME NEW u \in SUBSET T, u # T
        PROVE  g[u] = V(u)
    <3>1. IsFold(F(u), f, u) /\ IsFiniteSet(u)
      BY <1>1, <2>1, FS_Subset
    <3>2. V(u) = IF u = {} THEN 0 ELSE f[First(u)] + F(u)[u \ {First(u)}]
      BY <3>1, FoldAt
    <3>3. ASSUME u # {} PROVE F(u)[u \ {First(u)}] = V(u \ {First(u)})
      <4> DEFINE v == u \ {First(u)}
      <4>1. v \in SUBSET T /\ v # T /\ v \subseteq u
        BY <2>1
      <4>2. IsFold(F(v), f, v) /\ IsFiniteSet(v)
        BY <1>1, <4>1, FS_Subset
      <4> HIDE DEF F, v
      <4>3. F(v)[v] = F(u)[v]
        BY <3>1, <4>1, <4>2, FoldsAgree
      <4> QED  BY <4>3 DEF v
    <3> QED  BY <3>2, <3>3
  <2>2. \A s \in SUBSET T : s # {} => s \ {First(s)} \in SUBSET T /\ s \ {First(s)} # T
    BY FirstIn
  <2> HIDE DEF V
  <2>3. \A s \in SUBSET T : s # {} => g[s \ {First(s)}] = V(s \ {First(s)})
    BY <2>1, <2>2
  <2>4. g = [s \in SUBSET T |-> IF s = {} THEN 0 ELSE f[First(s)] + g[s \ {First(s)}]]
    BY <2>3
  <2>5. IsFold(g, f, T)
    BY <2>4 DEF IsFold
  <2>6. IsFold(F(T), f, T)
    BY <2>5
  <2> QED  BY <2>6
<1> HIDE DEF Good
<1>2. S \in Good
  BY <1>1, SubsetInduction
<1> QED  BY <1>2 DEF Good

LEMMA SumUnfolds ==
  ASSUME NEW f, NEW S, IsFiniteSet(S)
  PROVE  /\ S = {} => SumFunctionOnSet(f, S) = 0
         /\ S # {} => SumFunctionOnSet(f, S) = f[First(S)] + SumFunctionOnSet(f, S \ {First(S)})
<1> DEFINE F(T) == CHOOSE g : IsFold(g, f, T)
           T == S \ {First(S)}
<1>1. IsFiniteSet(T) /\ T \subseteq S
  BY FS_Subset
<1>2. IsFold(F(S), f, S) /\ IsFold(F(T), f, T)
  BY <1>1, FoldExists
<1>3. SumFunctionOnSet(f, S) = F(S)[S] /\ SumFunctionOnSet(f, T) = F(T)[T]
  BY FoldExpanded
<1>4. F(S)[S] = IF S = {} THEN 0 ELSE f[First(S)] + F(S)[T]
  BY <1>2, FoldAt
<1> HIDE DEF F, T
<1>5. F(T)[T] = F(S)[T]
  BY <1>1, <1>2, FoldsAgree
<1> QED  BY <1>3, <1>4, <1>5 DEF T

LEMMA SumTyped ==
  ASSUME NEW S, IsFiniteSet(S), NEW f, \A x \in S : f[x] \in Int
  PROVE  \A T \in SUBSET S : SumFunctionOnSet(f, T) \in Int
<1> DEFINE Good == {T \in SUBSET S : SumFunctionOnSet(f, T) \in Int}
<1>1. ASSUME NEW T \in SUBSET S, \A U \in SUBSET T : U # T => U \in Good
      PROVE  T \in Good
  <2>1. IsFiniteSet(T)
    BY FS_Subset
  <2>2. T # {} => First(T) \in T /\ T \ {First(T)} \in Good
    BY <1>1, FirstIn
  <2> QED  BY <2>1, <2>2, SumUnfolds
<1> HIDE DEF Good
<1>2. \A T \in SUBSET S : T \in Good
  BY <1>1, SubsetInduction
<1> QED  BY <1>2 DEF Good

\* A sum does not depend on the order in which it is taken.
LEMMA SumAdds ==
  ASSUME NEW S, IsFiniteSet(S), NEW f, \A x \in S : f[x] \in Int
  PROVE  \A T \in SUBSET S : \A x \in S \ T :
           SumFunctionOnSet(f, T \cup {x}) = f[x] + SumFunctionOnSet(f, T)
<1> DEFINE Sum(T) == SumFunctionOnSet(f, T)
           Good == {T \in SUBSET S : \A x \in S \ T : Sum(T \cup {x}) = f[x] + Sum(T)}
<1>1. ASSUME NEW T \in SUBSET S, \A U \in SUBSET T : U # T => U \in Good
      PROVE  T \in Good
  <2>1. SUFFICES ASSUME NEW x \in S \ T PROVE Sum(T \cup {x}) = f[x] + Sum(T)
    OBVIOUS
  <2> DEFINE U == T \cup {x}
             y == First(U)
  <2>2. IsFiniteSet(U) /\ U # {} /\ y \in U /\ U \subseteq S
    BY FS_Subset, FirstIn
  <2>3. Sum(U) = f[y] + Sum(U \ {y})
    BY <2>2, SumUnfolds
  <2>4. CASE y = x
    <3>1. U \ {y} = T
      BY <2>4
    <3> QED  BY <2>3, <2>4, <3>1
  <2>5. CASE y # x
    <3> DEFINE V == T \ {y}
    <3>1. y \in T /\ V \in SUBSET T /\ V # T /\ V \in SUBSET S
      BY <2>2, <2>5
    <3>2. U \ {y} = V \cup {x} /\ V \cup {y} = T /\ x \in S \ V /\ y \in S \ V
      BY <2>2, <2>5, <3>1
    <3> HIDE DEF U, y, V, Sum
    <3>3. Sum(V \cup {x}) = f[x] + Sum(V) /\ Sum(V \cup {y}) = f[y] + Sum(V)
      BY <1>1, <3>1, <3>2
    <3>4. Sum(V) \in Int /\ f[x] \in Int /\ f[y] \in Int
      BY <3>1, <3>2, SumTyped DEF Sum
    <3>5. Sum(U) = f[y] + (f[x] + Sum(V))
      BY <2>3, <3>2, <3>3
    <3>6. Sum(T) = f[y] + Sum(V)
      BY <3>2, <3>3
    <3>7. Sum(U) = f[x] + Sum(T)
      BY <3>4, <3>5, <3>6
    <3> QED  BY <3>7 DEF U
  <2> HIDE DEF U, y, Sum
  <2> QED  BY <2>4, <2>5 DEF U
<1> HIDE DEF Good
<1>2. \A T \in SUBSET S : T \in Good
  BY <1>1, SubsetInduction
<1> QED  BY <1>2 DEF Good

\* What a law of two sums needs: that it holds of nothing, and that one more
\* element keeps it.
LEMMA SumsOf ==
  ASSUME NEW S, IsFiniteSet(S), NEW f, \A x \in S : f[x] \in Int
  PROVE  /\ SumFunctionOnSet(f, {}) = 0
         /\ \A T \in SUBSET S : SumFunctionOnSet(f, T) \in Int
         /\ \A T \in SUBSET S : \A x \in S \ T :
              SumFunctionOnSet(f, T \cup {x}) = f[x] + SumFunctionOnSet(f, T)
<1>1. SumFunctionOnSet(f, {}) = 0
  BY FS_EmptySet, SumUnfolds
<1>2. \A T \in SUBSET S : SumFunctionOnSet(f, T) \in Int
  BY SumTyped
<1>3. \A T \in SUBSET S : \A x \in S \ T :
        SumFunctionOnSet(f, T \cup {x}) = f[x] + SumFunctionOnSet(f, T)
  BY SumAdds
<1> QED  BY <1>1, <1>2, <1>3

-----------------------------------------------------------------------------
(* Laws of sums.                                                            *)

LEMMA SumPlus ==
  ASSUME NEW S, IsFiniteSet(S), NEW f, NEW g, NEW h,
         \A x \in S : f[x] \in Int, \A x \in S : g[x] \in Int, \A x \in S : h[x] \in Int,
         \A x \in S : h[x] = f[x] + g[x]
  PROVE  SumFunctionOnSet(h, S) = SumFunctionOnSet(f, S) + SumFunctionOnSet(g, S)
<1> DEFINE A(T) == SumFunctionOnSet(f, T)
           B(T) == SumFunctionOnSet(g, T)
           C(T) == SumFunctionOnSet(h, T)
           Good == {T \in SUBSET S : C(T) = A(T) + B(T)}
<1>1. /\ A({}) = 0 /\ \A T \in SUBSET S : A(T) \in Int
      /\ \A T \in SUBSET S : \A x \in S \ T : A(T \cup {x}) = f[x] + A(T)
  BY SumsOf
<1>2. /\ B({}) = 0 /\ \A T \in SUBSET S : B(T) \in Int
      /\ \A T \in SUBSET S : \A x \in S \ T : B(T \cup {x}) = g[x] + B(T)
  BY SumsOf
<1>3. /\ C({}) = 0 /\ \A T \in SUBSET S : C(T) \in Int
      /\ \A T \in SUBSET S : \A x \in S \ T : C(T \cup {x}) = h[x] + C(T)
  BY SumsOf
<1> HIDE DEF A, B, C
<1>4. {} \in Good
  BY <1>1, <1>2, <1>3
<1>5. ASSUME NEW T \in SUBSET S, NEW x \in S \ T, T \in Good
      PROVE  T \cup {x} \in Good
  <2>1. /\ C(T \cup {x}) = h[x] + C(T) /\ A(T \cup {x}) = f[x] + A(T) /\ B(T \cup {x}) = g[x] + B(T)
        /\ C(T) = A(T) + B(T) /\ A(T) \in Int /\ B(T) \in Int
        /\ f[x] \in Int /\ g[x] \in Int /\ h[x] = f[x] + g[x]
    BY <1>1, <1>2, <1>3, <1>5
  <2>2. C(T \cup {x}) = A(T \cup {x}) + B(T \cup {x})
    BY <2>1
  <2> QED  BY <2>2
<1> HIDE DEF Good
<1>6. S \in Good
  BY <1>4, <1>5, ElementInduction
<1> QED  BY <1>6 DEF Good, A, B, C

LEMMA SumScales ==
  ASSUME NEW S, IsFiniteSet(S), NEW f, NEW h, NEW c \in Int,
         \A x \in S : f[x] \in Int, \A x \in S : h[x] \in Int, \A x \in S : h[x] = c * f[x]
  PROVE  SumFunctionOnSet(h, S) = c * SumFunctionOnSet(f, S)
<1> DEFINE A(T) == SumFunctionOnSet(f, T)
           C(T) == SumFunctionOnSet(h, T)
           Good == {T \in SUBSET S : C(T) = c * A(T)}
<1>1. /\ A({}) = 0 /\ \A T \in SUBSET S : A(T) \in Int
      /\ \A T \in SUBSET S : \A x \in S \ T : A(T \cup {x}) = f[x] + A(T)
  BY SumsOf
<1>2. /\ C({}) = 0 /\ \A T \in SUBSET S : C(T) \in Int
      /\ \A T \in SUBSET S : \A x \in S \ T : C(T \cup {x}) = h[x] + C(T)
  BY SumsOf
<1>3. \A m, n \in Int : c * (m + n) = c * m + c * n
  OBVIOUS
<1> HIDE DEF A, C
<1>4. {} \in Good
  BY <1>1, <1>2
<1>5. ASSUME NEW T \in SUBSET S, NEW x \in S \ T, T \in Good
      PROVE  T \cup {x} \in Good
  <2>1. /\ C(T \cup {x}) = h[x] + C(T) /\ A(T \cup {x}) = f[x] + A(T) /\ C(T) = c * A(T)
        /\ A(T) \in Int /\ f[x] \in Int /\ h[x] = c * f[x]
    BY <1>1, <1>2, <1>5
  <2>2. C(T \cup {x}) = c * A(T \cup {x})
    BY <1>3, <2>1
  <2> QED  BY <2>2
<1> HIDE DEF Good
<1>6. S \in Good
  BY <1>4, <1>5, ElementInduction
<1> QED  BY <1>6 DEF Good, A, C

\* Equal terms give equal sums.
LEMMA SumSame ==
  ASSUME NEW S, IsFiniteSet(S), NEW f, NEW h, \A x \in S : f[x] \in Int /\ h[x] = f[x]
  PROVE  SumFunctionOnSet(h, S) = SumFunctionOnSet(f, S)
<1>1. \A x \in S : h[x] \in Int /\ h[x] = 1 * f[x]
  OBVIOUS
<1>2. SumFunctionOnSet(h, S) = 1 * SumFunctionOnSet(f, S)
  BY <1>1, SumScales
<1> QED  BY <1>2, SumTyped

\* A sum of terms that are nothing or at most c.
LEMMA SumBounded ==
  ASSUME NEW S, IsFiniteSet(S), NEW c \in Nat, NEW f, \A x \in S : f[x] \in 0..c
  PROVE  /\ SumFunctionOnSet(f, S) \in Nat
         /\ Cardinality({x \in S : f[x] > 0}) \in Nat
         /\ SumFunctionOnSet(f, S) <= c * Cardinality({x \in S : f[x] > 0})
<1> DEFINE A(T) == SumFunctionOnSet(f, T)
           P(T) == {x \in T : f[x] > 0}
           N(T) == Cardinality(P(T))
           Good == {T \in SUBSET S : A(T) >= 0 /\ A(T) <= c * N(T)}
<1>1. /\ A({}) = 0 /\ \A T \in SUBSET S : A(T) \in Int
      /\ \A T \in SUBSET S : \A x \in S \ T : A(T \cup {x}) = f[x] + A(T)
  <2>1. \A x \in S : f[x] \in Int  OBVIOUS
  <2> QED  BY <2>1, SumsOf
<1>2. \A T \in SUBSET S : IsFiniteSet(P(T)) /\ N(T) \in Nat
  BY FS_Subset, FS_CardinalityType
<1>3. N({}) = 0
  <2>1. P({}) = {}  OBVIOUS
  <2> QED  BY <2>1, FS_EmptySet
<1>4. ASSUME NEW T \in SUBSET S, NEW x \in S \ T
      PROVE  N(T \cup {x}) = IF f[x] > 0 THEN N(T) + 1 ELSE N(T)
  <2>1. CASE f[x] > 0
    <3>1. P(T \cup {x}) = P(T) \cup {x} /\ x \notin P(T)
      BY <2>1
    <3> QED  BY <1>2, <2>1, <3>1, FS_AddElement
  <2>2. CASE ~(f[x] > 0)
    <3>1. P(T \cup {x}) = P(T)
      BY <2>2
    <3> QED  BY <2>2, <3>1
  <2> QED  BY <2>1, <2>2
<1>5. \A n \in Nat : c * (n + 1) = c * n + c
  OBVIOUS
<1> HIDE DEF A, P, N
<1>6. {} \in Good
  BY <1>1, <1>3
<1>7. ASSUME NEW T \in SUBSET S, NEW x \in S \ T, T \in Good
      PROVE  T \cup {x} \in Good
  <2>1. /\ A(T \cup {x}) = f[x] + A(T) /\ A(T) >= 0 /\ A(T) <= c * N(T) /\ A(T) \in Int
        /\ f[x] \in Int /\ f[x] >= 0 /\ f[x] <= c
    BY <1>1, <1>7
  <2>2. N(T) \in Nat /\ c * N(T) \in Int
    BY <1>2
  <2>3. A(T \cup {x}) >= 0 /\ A(T \cup {x}) <= c * N(T \cup {x})
    <3>1. CASE f[x] > 0
      <4>1. c * N(T \cup {x}) = c * N(T) + c
        BY <1>4, <1>5, <2>2, <3>1
      <4> QED  BY <2>1, <2>2, <4>1
    <3>2. CASE ~(f[x] > 0)
      <4>1. c * N(T \cup {x}) = c * N(T) /\ f[x] = 0
        BY <1>4, <2>1, <3>2
      <4> QED  BY <2>1, <2>2, <4>1
    <3> QED  BY <3>1, <3>2
  <2> QED  BY <2>3
<1> HIDE DEF Good
<1>8. S \in Good
  BY <1>6, <1>7, ElementInduction
<1>9. A(S) \in Nat /\ A(S) <= c * N(S) /\ N(S) \in Nat
  BY <1>1, <1>2, <1>8 DEF Good
<1> QED  BY <1>9 DEF A, N, P

\* A sum of ones counts them.
LEMMA SumCounts ==
  ASSUME NEW S, IsFiniteSet(S), NEW f, \A x \in S : f[x] \in {0, 1}
  PROVE  SumFunctionOnSet(f, S) = Cardinality({x \in S : f[x] = 1})
<1> DEFINE A(T) == SumFunctionOnSet(f, T)
           P(T) == {x \in T : f[x] = 1}
           N(T) == Cardinality(P(T))
           Good == {T \in SUBSET S : A(T) = N(T)}
<1>1. /\ A({}) = 0 /\ \A T \in SUBSET S : A(T) \in Int
      /\ \A T \in SUBSET S : \A x \in S \ T : A(T \cup {x}) = f[x] + A(T)
  <2>1. \A x \in S : f[x] \in Int  OBVIOUS
  <2> QED  BY <2>1, SumsOf
<1>2. \A T \in SUBSET S : IsFiniteSet(P(T)) /\ N(T) \in Nat
  BY FS_Subset, FS_CardinalityType
<1>3. N({}) = 0
  <2>1. P({}) = {}  OBVIOUS
  <2> QED  BY <2>1, FS_EmptySet
<1>4. ASSUME NEW T \in SUBSET S, NEW x \in S \ T
      PROVE  N(T \cup {x}) = f[x] + N(T)
  <2>1. CASE f[x] = 1
    <3>1. P(T \cup {x}) = P(T) \cup {x} /\ x \notin P(T)
      BY <2>1
    <3>2. N(T \cup {x}) = N(T) + 1
      BY <1>2, <3>1, FS_AddElement
    <3>3. N(T) \in Nat
      BY <1>2
    <3> HIDE DEF N
    <3>4. N(T) + 1 = 1 + N(T)
      BY <3>3
    <3> QED  BY <2>1, <3>2, <3>4
  <2>2. CASE f[x] = 0
    <3>1. P(T \cup {x}) = P(T)
      BY <2>2
    <3> QED  BY <1>2, <2>2, <3>1
  <2> QED  BY <2>1, <2>2
<1> HIDE DEF A, P, N
<1>5. {} \in Good
  BY <1>1, <1>3
<1>6. ASSUME NEW T \in SUBSET S, NEW x \in S \ T, T \in Good
      PROVE  T \cup {x} \in Good
  BY <1>1, <1>4, <1>6
<1> HIDE DEF Good
<1>7. S \in Good
  BY <1>5, <1>6, ElementInduction
<1> QED  BY <1>7 DEF Good, A, N, P

-----------------------------------------------------------------------------
(* Ranks: in a total order of n elements, for every k up to n exactly k of  *)
(* them have fewer than k before them.                                      *)

LEMMA FirstOnes ==
  ASSUME NEW D, IsFiniteSet(D), NEW ahead \in [D -> SUBSET D],
         \A p \in D : p \notin ahead[p],
         \A p, q, r \in D : p \in ahead[q] /\ q \in ahead[r] => p \in ahead[r],
         \A p, q \in D : p # q => p \in ahead[q] \/ q \in ahead[p],
         NEW k \in 0..Cardinality(D)
  PROVE  Cardinality({p \in D : Cardinality(ahead[p]) < k}) = k
<1> DEFINE n == Cardinality(D)
           rank == [p \in D |-> Cardinality(ahead[p])]
<1>1. n \in Nat /\ k \in Nat /\ k <= n
  BY FS_CardinalityType
<1>2. \A p \in D : IsFiniteSet(ahead[p]) /\ rank[p] \in Nat
  BY FS_Subset, FS_CardinalityType
<1>3. ASSUME NEW p \in D, NEW q \in D, p \in ahead[q]
      PROVE  rank[p] < rank[q]
  <2>1. ahead[p] \in SUBSET ahead[q] /\ p \in ahead[q] /\ p \notin ahead[p]
    BY <1>3
  <2>2. Cardinality(ahead[p]) <= Cardinality(ahead[q]) /\ Cardinality(ahead[p]) # Cardinality(ahead[q])
    BY <1>2, <2>1, FS_Subset
  <2> QED  BY <1>2, <2>2
<1>4. ASSUME NEW p \in D PROVE rank[p] \in 0..(n - 1)
  <2>1. ahead[p] \in SUBSET D /\ ahead[p] # D
    OBVIOUS
  <2>2. Cardinality(ahead[p]) <= n /\ Cardinality(ahead[p]) # n
    BY <2>1, FS_Subset
  <2> QED  BY <1>1, <1>2, <2>2
<1> HIDE DEF rank
<1>5. rank \in Injection(D, 0..(n - 1))
  <2>1. rank \in [D -> 0..(n - 1)]
    BY <1>4 DEF rank
  <2>2. ASSUME NEW p \in D, NEW q \in D, p # q
        PROVE  rank[p] # rank[q]
    <3>1. rank[p] \in Nat /\ rank[q] \in Nat
      BY <1>2
    <3>2. CASE p \in ahead[q]
      BY <1>3, <3>1, <3>2
    <3>3. CASE q \in ahead[p]
      BY <1>3, <3>1, <3>3
    <3>4. p \in ahead[q] \/ q \in ahead[p]
      BY <2>2
    <3> QED  BY <3>2, <3>3, <3>4
  <2>3. DOMAIN rank = D
    BY DEF rank
  <2> QED  BY <2>1, <2>2, <2>3 DEF Injection, IsInjective
<1> HIDE DEF n
<1>6. IsFiniteSet(0..(n - 1)) /\ Cardinality(0..(n - 1)) = n
  <2>1. /\ IsFiniteSet(0..(n - 1))
        /\ Cardinality(0..(n - 1)) = IF 0 > n - 1 THEN 0 ELSE (n - 1) - 0 + 1
    BY <1>1, FS_Interval
  <2> QED  BY <1>1, <2>1
<1>7. rank \in Surjection(D, 0..(n - 1))
  BY <1>5, <1>6, FS_Injection DEF n
<1> DEFINE Front == {p \in D : rank[p] < k}
           front == [p \in Front |-> rank[p]]
<1>8. front \in Bijection(Front, 0..(k - 1))
  <2>1. front \in [Front -> 0..(k - 1)]
    BY <1>1, <1>2
  <2>2. \A p, q \in Front : front[p] = front[q] => p = q
    BY <1>5 DEF Injection, IsInjective
  <2>3. \A i \in 0..(k - 1) : \E p \in Front : front[p] = i
    <3>1. SUFFICES ASSUME NEW i \in 0..(k - 1) PROVE \E p \in Front : front[p] = i
      OBVIOUS
    <3>2. i \in 0..(n - 1) /\ i < k
      BY <1>1
    <3>3. PICK p \in D : rank[p] = i
      BY <1>7, <3>2 DEF Surjection
    <3> QED  BY <3>2, <3>3
  <2> HIDE DEF front, Front
  <2> QED  BY <2>1, <2>2, <2>3 DEF Bijection, Injection, Surjection, IsInjective
<1>9. IsFiniteSet(Front)
  BY FS_Subset
<1>10. Cardinality(0..(k - 1)) = Cardinality(Front)
  <2>1. ExistsBijection(Front, 0..(k - 1))
    BY <1>8 DEF ExistsBijection
  <2> QED  BY <1>9, <2>1, FS_Bijection
<1>11. Cardinality(0..(k - 1)) = k
  BY <1>1, FS_Interval
<1>12. Front = {p \in D : Cardinality(ahead[p]) < k}
  BY DEF rank
<1> QED  BY <1>10, <1>11, <1>12

-----------------------------------------------------------------------------
(* Rounding down.                                                           *)

LEMMA Times ==
  ASSUME NEW m \in Nat, NEW n \in Nat
  PROVE  m * n \in Nat
OBVIOUS

LEMMA FloorTyped ==
  ASSUME NEW pool \in Nat, NEW bps \in Nat
  PROVE  Floor(pool, bps) \in Nat
<1>1. pool * bps \in Nat
  BY Times
<1> QED  BY <1>1 DEF Floor, FullBps

LEMMA FloorBounded ==
  ASSUME NEW pool \in Nat, NEW bps \in 0..FullBps
  PROVE  Floor(pool, bps) <= pool
<1>1. bps \in Nat /\ FullBps - bps \in Nat /\ FullBps = 10000
  BY DEF FullBps
<1>2. pool * (FullBps - bps) \in Nat /\ pool * bps \in Nat
  BY <1>1, Times
<1>3. pool * (FullBps - bps) = pool * FullBps - pool * bps
  BY <1>1
<1>4. pool * bps <= pool * 10000
  BY <1>1, <1>2, <1>3
<1> DEFINE n == pool * bps
<1>5. n \in Nat /\ n <= pool * 10000
  BY <1>2, <1>4
<1>6. Floor(pool, bps) = n \div 10000
  BY DEF Floor, FullBps
<1> HIDE DEF n
<1>7. n \div 10000 <= pool
  BY <1>5
<1> QED  BY <1>6, <1>7

\* What rounding down leaves is the remainder.
LEMMA FloorSplits ==
  ASSUME NEW rest \in Nat, NEW b \in Nat
  PROVE  /\ Floor(rest, b) \in Nat /\ Remainder(rest, b) \in Nat /\ Remainder(rest, b) < 10000
         /\ rest * b = 10000 * Floor(rest, b) + Remainder(rest, b)
<1>1. rest * b \in Nat
  BY Times
<1>2. \A n \in Nat : n \div 10000 \in Nat /\ n % 10000 \in Nat /\ n % 10000 < 10000
                     /\ n = 10000 * (n \div 10000) + (n % 10000)
  OBVIOUS
<1> QED  BY <1>1, <1>2 DEF Floor, Remainder, FullBps

RoundsDown(rest, D, split) ==
  /\ \A p \in D : Floor(rest, split[p]) \in Nat
  /\ \A p \in D : Remainder(rest, split[p]) \in Nat
  /\ \A p \in D : Remainder(rest, split[p]) < 10000
  /\ \A p \in D : rest * split[p] = 10000 * Floor(rest, split[p]) + Remainder(rest, split[p])

LEMMA SharesSplit ==
  ASSUME NEW rest \in Nat, NEW D, NEW split \in [D -> Nat]
  PROVE  RoundsDown(rest, D, split)
<1>1. \A b \in Nat : /\ Floor(rest, b) \in Nat /\ Remainder(rest, b) \in Nat
                     /\ Remainder(rest, b) < 10000
                     /\ rest * b = 10000 * Floor(rest, b) + Remainder(rest, b)
  BY FloorSplits
<1>2. \A p \in D : split[p] \in Nat
  OBVIOUS
<1> QED  BY <1>1, <1>2 DEF RoundsDown

\* The units left over are as many as a sum of remainders makes, so no more than
\* there are people with a remainder.
LEMMA LeftoverBounded ==
  ASSUME NEW rest \in Nat, NEW D, IsFiniteSet(D), NEW split \in [D -> Nat],
         SumFunction(split) = FullBps
  PROVE  /\ Leftover(rest, split) \in Nat
         /\ Cardinality({p \in D : Remainder(rest, split[p]) > 0}) \in Nat
         /\ Leftover(rest, split) <= Cardinality({p \in D : Remainder(rest, split[p]) > 0})
<1> DEFINE floors == [p \in D |-> Floor(rest, split[p])]
           rems   == [p \in D |-> Remainder(rest, split[p])]
           wholes == [p \in D |-> 10000 * Floor(rest, split[p])]
           exact  == [p \in D |-> rest * split[p]]
           m      == Cardinality({p \in D : Remainder(rest, split[p]) > 0})
<1>1. \A p \in D : /\ Floor(rest, split[p]) \in Nat /\ Remainder(rest, split[p]) \in Nat /\ Remainder(rest, split[p]) < 10000
                   /\ rest * split[p] = 10000 * Floor(rest, split[p]) + Remainder(rest, split[p])
  <2>1. RoundsDown(rest, D, split)
    BY SharesSplit
  <2> QED  BY <2>1 DEF RoundsDown
<1>2. DOMAIN split = D
  OBVIOUS
<1>3. /\ \A p \in D : split[p] \in Int
      /\ \A p \in D : exact[p] \in Int
      /\ \A p \in D : exact[p] = rest * split[p]
  OBVIOUS
<1>4. /\ \A p \in D : floors[p] \in Int
      /\ \A p \in D : wholes[p] \in Int
      /\ \A p \in D : wholes[p] = 10000 * floors[p]
  BY <1>1
<1>5. /\ \A p \in D : rems[p] \in Nat /\ rems[p] < 10000
      /\ \A p \in D : rems[p] \in Int
      /\ \A p \in D : exact[p] = wholes[p] + rems[p]
  <2>1. \A p \in D : rems[p] = Remainder(rest, split[p])
    OBVIOUS
  <2>2. \A p \in D : exact[p] = rest * split[p] /\ wholes[p] = 10000 * Floor(rest, split[p])
    OBVIOUS
  <2> HIDE DEF exact, wholes, rems
  <2>3. \A p \in D : exact[p] = wholes[p] + rems[p]
    BY <1>1, <2>1, <2>2
  <2>4. \A p \in D : rems[p] \in Nat /\ rems[p] < 10000
    BY <1>1, <2>1
  <2>5. \A p \in D : rems[p] \in Int
    BY <2>4
  <2> QED  BY <2>3, <2>4, <2>5
<1>6. SumFunctionOnSet(split, D) = 10000
  BY <1>2 DEF SumFunction, FullBps
<1>7. Leftover(rest, split) = rest - SumFunctionOnSet(floors, D)
  BY <1>2 DEF Leftover, SumFunction
<1>8. {p \in D : rems[p] > 0} = {p \in D : Remainder(rest, split[p]) > 0}
  OBVIOUS
<1> HIDE DEF floors, rems, wholes, exact
<1>9. SumFunctionOnSet(exact, D) = rest * SumFunctionOnSet(split, D)
  BY <1>3, SumScales
<1>10. SumFunctionOnSet(wholes, D) = 10000 * SumFunctionOnSet(floors, D)
  BY <1>4, SumScales
<1>11. SumFunctionOnSet(exact, D) = SumFunctionOnSet(wholes, D) + SumFunctionOnSet(rems, D)
  BY <1>3, <1>4, <1>5, SumPlus
<1>12. /\ SumFunctionOnSet(rems, D) \in Nat /\ m \in Nat
       /\ SumFunctionOnSet(rems, D) <= 9999 * m
  <2> DEFINE c == 9999
  <2>1. c \in Nat /\ \A p \in D : rems[p] \in Nat /\ rems[p] <= c
    BY <1>5
  <2> HIDE DEF c
  <2>3. \A p \in D : rems[p] \in 0..c
    BY <2>1
  <2>2. /\ SumFunctionOnSet(rems, D) \in Nat
        /\ Cardinality({p \in D : rems[p] > 0}) \in Nat
        /\ SumFunctionOnSet(rems, D) <= c * Cardinality({p \in D : rems[p] > 0})
    BY <2>1, <2>3, SumBounded
  <2>4. m = Cardinality({p \in D : rems[p] > 0})
    BY <1>8
  <2> HIDE DEF m
  <2> QED  BY <2>2, <2>4 DEF c
<1>13. SumFunctionOnSet(floors, D) \in Int
  BY <1>4, SumTyped
<1> DEFINE L == Leftover(rest, split)
<1>14. L \in Int /\ 10000 * L = SumFunctionOnSet(rems, D)
  BY <1>6, <1>7, <1>9, <1>10, <1>11, <1>12, <1>13
<1> HIDE DEF L, m
<1>15. L \in Nat /\ L <= m
  BY <1>12, <1>14
<1> QED  BY <1>12, <1>15 DEF L, m

-----------------------------------------------------------------------------
(* Who the leftover units go to.                                            *)

\* The people who come before each one.
Queue(rest, split) ==
  [p \in DOMAIN split |-> {q \in DOMAIN split : Before(q, p, rest, split)}]

\* Before puts the people of a split in a row.
LEMMA QueueIsTotalOrder ==
  ASSUME NEW rest \in Nat, NEW D, D \subseteq Nat, NEW split \in [D -> Nat]
  PROVE  LET ahead == Queue(rest, split) IN
         /\ ahead \in [D -> SUBSET D]
         /\ \A p \in D : p \notin ahead[p]
         /\ \A p, q, r \in D : p \in ahead[q] /\ q \in ahead[r] => p \in ahead[r]
         /\ \A p, q \in D : p # q => p \in ahead[q] \/ q \in ahead[p]
<1> DEFINE ahead == Queue(rest, split)
           rem(p) == Remainder(rest, split[p])
<1>1. \A p \in D : p \in Nat /\ split[p] \in Nat /\ rem(p) \in Nat
  <2>1. \A b \in Nat : Remainder(rest, b) \in Nat
    BY FloorSplits
  <2> QED  BY <2>1
<1>2. ahead \in [D -> SUBSET D]
  BY DEF Queue
<1>3. ASSUME NEW p \in D, NEW q \in D
      PROVE  q \in ahead[p] <=> \/ rem(q) > rem(p)
                                \/ rem(q) = rem(p) /\ split[q] > split[p]
                                \/ rem(q) = rem(p) /\ split[q] = split[p] /\ q < p
  <2>1. q \in ahead[p] <=> Before(q, p, rest, split)
    BY DEF Queue
  <2> HIDE DEF ahead
  <2> QED  BY <2>1 DEF Before
<1> HIDE DEF ahead, rem
<1>4. \A p \in D : p \notin ahead[p]
  BY <1>1, <1>3
<1>5. \A p, q, r \in D : p \in ahead[q] /\ q \in ahead[r] => p \in ahead[r]
  BY <1>1, <1>3
<1>6. ASSUME NEW p \in D, NEW q \in D, p # q
      PROVE  p \in ahead[q] \/ q \in ahead[p]
  <2>1. /\ p \in Nat /\ split[p] \in Nat /\ rem(p) \in Nat
        /\ q \in Nat /\ split[q] \in Nat /\ rem(q) \in Nat
    BY <1>1
  <2>2. /\ rem(q) > rem(p) => q \in ahead[p]
        /\ rem(p) > rem(q) => p \in ahead[q]
    BY <1>3
  <2>3. rem(p) = rem(q) => /\ split[q] > split[p] => q \in ahead[p]
                           /\ split[p] > split[q] => p \in ahead[q]
    BY <1>3
  <2>4. rem(p) = rem(q) /\ split[p] = split[q] => /\ q < p => q \in ahead[p]
                                                  /\ p < q => p \in ahead[q]
    BY <1>3
  <2> QED  BY <1>6, <2>1, <2>2, <2>3, <2>4
<1> QED  BY <1>2, <1>4, <1>5, <1>6 DEF ahead

Bump(p, rest, split) ==
  IF Cardinality(Queue(rest, split)[p]) < Leftover(rest, split) THEN 1 ELSE 0

\* As many units are handed out as were left over, and nobody gets one who was
\* not rounded down.
LEMMA LeftoverHandedOut ==
  ASSUME NEW rest \in Nat, NEW D, IsFiniteSet(D), D \subseteq Nat, NEW split \in [D -> Nat],
         SumFunction(split) = FullBps
  PROVE  /\ SumFunctionOnSet([p \in D |-> Bump(p, rest, split)], D) = Leftover(rest, split)
         /\ \A p \in D : Bump(p, rest, split) = 1 => Remainder(rest, split[p]) > 0
<1> DEFINE k == Leftover(rest, split)
           some == {p \in D : Remainder(rest, split[p]) > 0}
           bumps == [p \in D |-> Bump(p, rest, split)]
           ahead == Queue(rest, split)
<1>1. k \in Nat /\ Cardinality(some) \in Nat /\ k <= Cardinality(some)
  BY LeftoverBounded
<1>2. DOMAIN split = D
  OBVIOUS
<1>3. \A p \in D : Remainder(rest, split[p]) \in Nat
  <2>1. \A b \in Nat : Remainder(rest, b) \in Nat
    BY FloorSplits
  <2> QED  BY <2>1
<1>4. some \in SUBSET D /\ Cardinality(D) \in Nat /\ Cardinality(some) <= Cardinality(D)
  BY FS_Subset, FS_CardinalityType
<1>5. k \in 0..Cardinality(D)
  BY <1>1, <1>4
<1>6. /\ ahead \in [D -> SUBSET D]
      /\ \A p \in D : p \notin ahead[p]
      /\ \A p, q, r \in D : p \in ahead[q] /\ q \in ahead[r] => p \in ahead[r]
      /\ \A p, q \in D : p # q => p \in ahead[q] \/ q \in ahead[p]
  BY QueueIsTotalOrder
<1> HIDE DEF ahead, k, bumps
<1>7. Cardinality({p \in D : Cardinality(ahead[p]) < k}) = k
  BY <1>5, <1>6, FirstOnes
<1>8. \A p \in D : bumps[p] = IF Cardinality(ahead[p]) < k THEN 1 ELSE 0
  BY DEF bumps, Bump, k, ahead
<1>9. {p \in D : bumps[p] = 1} = {p \in D : Cardinality(ahead[p]) < k}
  <2>1. ASSUME NEW p \in D
        PROVE  bumps[p] = 1 <=> Cardinality(ahead[p]) < k
    <3>1. CASE Cardinality(ahead[p]) < k
      BY <1>8, <3>1
    <3>2. CASE ~(Cardinality(ahead[p]) < k)
      BY <1>8, <3>2
    <3> QED  BY <3>1, <3>2
  <2> QED  BY <2>1
<1>10. SumFunctionOnSet(bumps, D) = k
  <2>1. \A p \in D : bumps[p] \in {0, 1}
    BY <1>8
  <2>2. SumFunctionOnSet(bumps, D) = Cardinality({p \in D : bumps[p] = 1})
    BY <2>1, SumCounts
  <2> QED  BY <1>7, <1>9, <2>2
<1>11. ASSUME NEW p \in D, Bump(p, rest, split) = 1
       PROVE  Remainder(rest, split[p]) > 0
  <2>1. SUFFICES ASSUME Remainder(rest, split[p]) = 0 PROVE FALSE
    BY <1>3
  <2>2. some \in SUBSET ahead[p]
    BY <1>2, <2>1 DEF ahead, Queue, Before
  <2>3. IsFiniteSet(ahead[p])
    BY <1>6, FS_Subset
  <2>4. Cardinality(ahead[p]) \in Nat /\ Cardinality(some) <= Cardinality(ahead[p])
    BY <2>2, <2>3, FS_Subset, FS_CardinalityType
  <2>5. Cardinality(ahead[p]) < k
    BY <1>11 DEF Bump, k, ahead
  <2> HIDE DEF some
  <2> QED  BY <1>1, <2>4, <2>5
<1> QED  BY <1>10, <1>11 DEF bumps, k

-----------------------------------------------------------------------------
(* The allocation.                                                          *)

\* For every pool, share of the organisation and split that the allocator
\* accepts, it gives the whole pool out and nobody is a whole unit away from an
\* exact share (allocateDistribution, largest remainder).
THEOREM AllocationIsExact ==
  ASSUME NEW pool \in Nat, NEW org \in 0..FullBps, NEW D, IsFiniteSet(D), D \subseteq Nat,
         NEW split \in [D -> Nat], Allocatable(org, split)
  PROVE  Exact(pool, Floor(pool, org), AllocatedShares(pool, org, split), split)
<1> DEFINE cut    == Floor(pool, org)
           rest   == PlayerPool(pool, org)
           floors == [p \in D |-> Floor(rest, split[p])]
           bumps  == [p \in D |-> Bump(p, rest, split)]
           shares == AllocatedShares(pool, org, split)
<1>1. DOMAIN split = D
  OBVIOUS
<1>2. org \in Nat
  BY DEF FullBps
<1>3. cut \in Nat /\ rest \in Nat /\ cut + rest = pool /\ rest = pool - cut
  <2>1. cut \in Nat /\ cut <= pool
    BY <1>2, FloorTyped, FloorBounded
  <2> HIDE DEF cut
  <2>2. rest = pool - cut
    BY DEF rest, cut, PlayerPool
  <2> QED  BY <2>1, <2>2
<1>4. shares = [p \in D |-> floors[p] + bumps[p]]
  BY <1>1 DEF AllocatedShares, Bump, Queue
<1>5. CASE D = {}
  <2>1. org = 10000
    BY <1>1, <1>5 DEF Allocatable, FullBps
  <2>2. cut = pool
    BY <2>1 DEF Floor, FullBps
  <2>3. SumFunctionOnSet(shares, D) = 0
    BY <1>5, FS_EmptySet, SumUnfolds
  <2>4. DOMAIN shares = D
    BY <1>4
  <2> HIDE DEF shares, cut
  <2>5. cut + SumFunction(shares) = pool
    BY <2>2, <2>3, <2>4 DEF SumFunction
  <2> QED  BY <1>1, <1>5, <2>5 DEF Exact, shares, cut
<1>6. CASE D # {}
  <2>1. SumFunction(split) = FullBps
    BY <1>1, <1>6 DEF Allocatable
  <2>2. \A p \in D : split[p] \in Nat
    OBVIOUS
  <2> HIDE DEF rest, cut
  <2>3. /\ SumFunctionOnSet(bumps, D) = Leftover(rest, split)
        /\ \A p \in D : Bump(p, rest, split) = 1 => Remainder(rest, split[p]) > 0
    BY <1>3, <2>1, LeftoverHandedOut
  <2>4. \A p \in D : bumps[p] \in {0, 1} /\ bumps[p] = Bump(p, rest, split)
    BY DEF Bump
  <2>5. /\ \A p \in D : floors[p] \in Nat
        /\ \A p \in D : Remainder(rest, split[p]) \in Nat
        /\ \A p \in D : Remainder(rest, split[p]) < 10000
        /\ \A p \in D : rest * split[p] = 10000 * floors[p] + Remainder(rest, split[p])
    <3>1. RoundsDown(rest, D, split)
      BY <1>3, SharesSplit
    <3>2. \A p \in D : floors[p] = Floor(rest, split[p])
      OBVIOUS
    <3> HIDE DEF floors
    <3> QED  BY <2>2, <3>1, <3>2 DEF RoundsDown
  <2>6. Leftover(rest, split) = rest - SumFunctionOnSet(floors, D)
    BY <1>1 DEF Leftover, SumFunction
  <2> HIDE DEF floors, bumps, shares
  <2>7. /\ \A p \in D : floors[p] \in Int
        /\ \A p \in D : bumps[p] \in Int
        /\ \A p \in D : shares[p] \in Int
        /\ \A p \in D : shares[p] = floors[p] + bumps[p]
    BY <1>4, <2>4, <2>5
  <2>8. SumFunctionOnSet(shares, D) = SumFunctionOnSet(floors, D) + SumFunctionOnSet(bumps, D)
    BY <2>7, SumPlus
  <2>9. cut + SumFunction(shares) = pool
    <3>1. SumFunctionOnSet(floors, D) \in Int
      BY <2>7, SumTyped
    <3>2. DOMAIN shares = D
      BY <1>4
    <3>3. SumFunctionOnSet(shares, D) = rest
      BY <1>3, <2>3, <2>6, <2>8, <3>1
    <3> QED  BY <1>3, <3>2, <3>3 DEF SumFunction
  <2>10. ASSUME NEW p \in D
         PROVE  shares[p] * FullBps - (pool - cut) * split[p] \in (1 - FullBps)..(FullBps - 1)
    <3> DEFINE x == rest * split[p]
               r == Remainder(rest, split[p])
    <3>1. /\ r \in Nat /\ r < 10000 /\ floors[p] \in Nat /\ x = 10000 * floors[p] + r
          /\ bumps[p] \in {0, 1} /\ (bumps[p] = 1 => r > 0) /\ shares[p] = floors[p] + bumps[p]
      BY <2>3, <2>4, <2>5, <2>7
    <3>2. (pool - cut) * split[p] = x
      BY <1>3
    <3> HIDE DEF x, r
    <3> DEFINE d == shares[p] * FullBps - x
    <3>3. d \in Int /\ d >= 1 - FullBps /\ d <= FullBps - 1 /\ FullBps \in Int
      BY <3>1 DEF FullBps
    <3> HIDE DEF d
    <3>4. d \in (1 - FullBps)..(FullBps - 1)
      BY <3>3
    <3> QED  BY <3>2, <3>4 DEF d
  <2> QED  BY <1>1, <2>9, <2>10 DEF Exact, shares, cut
<1> QED  BY <1>5, <1>6
=============================================================================
