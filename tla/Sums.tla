-------------------------------- MODULE Sums --------------------------------
(***************************************************************************)
(* Sums over finite sets, as SumFunctionOnSet computes them: the sum of no *)
(* elements is 0, and one element more adds its value, whichever order the *)
(* fold takes.  Induction over a finite set is the minimal counterexample  *)
(* of the ordering of its subsets.                                         *)
(***************************************************************************)
EXTENDS Integers, FiniteSetsExt, FiniteSetTheorems, TLAPS

\* A set of subsets of a finite set has a smallest member.
LEMMA SmallestSubset ==
  ASSUME NEW S, IsFiniteSet(S), NEW C, C \subseteq SUBSET S, C # {}
  PROVE  \E T \in C : \A U \in C : U \subseteq T => U = T
<1> DEFINE R == StrictSubsetOrdering(S)
<1>1. IsWellFoundedOn(R, SUBSET S)
  BY FS_StrictSubsetOrderingWellFounded, FS_FiniteSubsetsOfFinite
<1>2. \E T \in C : \A U \in C : <<U, T>> \notin R
  <2> HIDE DEF R
  <2> QED BY <1>1, WFMin
<1> QED BY <1>2 DEF StrictSubsetOrdering

\* g gives every subset of S its sum, and does not depend on an order.
Totals(f, S, g) ==
  /\ g \in [SUBSET S -> Int]
  /\ g[{}] = 0
  /\ \A T \in SUBSET S : \A x \in T : g[T] = f[x] + g[T \ {x}]

\* One more element: its value is added to the sums of the sets it is in.
LEMMA ExtendTotals ==
  ASSUME NEW T, NEW x \in T, NEW f, \A y \in T : f[y] \in Int,
         NEW g, Totals(f, T \ {x}, g)
  PROVE  \E h : Totals(f, T, h)
<1> DEFINE h == [s \in SUBSET T |-> IF x \in s THEN f[x] + g[s \ {x}] ELSE g[s]]
<1>1. \A s \in SUBSET T : s \ {x} \in SUBSET (T \ {x}) /\ (x \notin s => s \in SUBSET (T \ {x}))
  OBVIOUS
<1>2. h \in [SUBSET T -> Int]
  <2>1. \A s \in SUBSET T : h[s] \in Int
    BY <1>1 DEF Totals
  <2> QED BY <2>1
<1>3. h[{}] = 0
  BY DEF Totals
<1>4. ASSUME NEW s \in SUBSET T, NEW y \in s
      PROVE  h[s] = f[y] + h[s \ {y}]
  <2>0. f[x] \in Int /\ f[y] \in Int
    OBVIOUS
  <2>1. CASE y = x
    <3>1. h[s \ {y}] = g[s \ {x}]
      BY <2>1
    <3> QED BY <2>1, <3>1
  <2>2. CASE y # x /\ x \in s
    <3>1. g[s \ {x}] = f[y] + g[(s \ {x}) \ {y}]
      BY <1>1, <2>2 DEF Totals
    <3>2. h[s \ {y}] = f[x] + g[(s \ {y}) \ {x}]
      BY <2>2
    <3>3. (s \ {y}) \ {x} = (s \ {x}) \ {y}
      OBVIOUS
    <3>4. g[(s \ {x}) \ {y}] \in Int
      BY <1>1 DEF Totals
    <3>5. h[s] = f[x] + g[s \ {x}]
      BY <2>2
    <3>6. \A a, b, c \in Int : a + (b + c) = b + (a + c)
      OBVIOUS
    <3>7. f[x] + (f[y] + g[(s \ {x}) \ {y}]) = f[y] + (f[x] + g[(s \ {x}) \ {y}])
      BY <2>0, <3>4, <3>6
    <3> HIDE DEF h
    <3> QED BY <3>1, <3>2, <3>3, <3>5, <3>7
  <2>3. CASE x \notin s
    BY <1>1, <2>3 DEF Totals
  <2> QED BY <2>1, <2>2, <2>3
<1>5. Totals(f, T, h)
  <2> HIDE DEF h
  <2> QED BY <1>2, <1>3, <1>4 DEF Totals
<1> QED BY <1>5

\* Every finite set of integers has totals.
LEMMA TotalsExist ==
  ASSUME NEW S, IsFiniteSet(S), NEW f, \A x \in S : f[x] \in Int
  PROVE  \E g : Totals(f, S, g)
<1> DEFINE C == {T \in SUBSET S : ~\E g : Totals(f, T, g)}
<1>1. SUFFICES C = {}
  OBVIOUS
<1>2. SUFFICES ASSUME C # {} PROVE FALSE
  OBVIOUS
<1>3. PICK T \in C : \A U \in C : U \subseteq T => U = T
  <2> HIDE DEF C
  <2>1. C \subseteq SUBSET S
    BY DEF C
  <2> QED BY <1>2, <2>1, SmallestSubset
<1>4. T # {}
  <2> DEFINE g == [s \in SUBSET {} |-> 0]
  <2>1. Totals(f, {}, g)
    BY DEF Totals
  <2> QED BY <2>1
<1>5. PICK x \in T : TRUE
  BY <1>4
<1>6. T \ {x} \notin C /\ T \in SUBSET S
  BY <1>3
<1>7. PICK g : Totals(f, T \ {x}, g)
  BY <1>6
<1>8. \E h : Totals(f, T, h)
  BY <1>6, <1>7, ExtendTotals
<1> QED BY <1>8

\* The fold of the library computes them.
LEMMA FoldIsTotal ==
  ASSUME NEW S, IsFiniteSet(S), NEW f, \A x \in S : f[x] \in Int,
         NEW g, Totals(f, S, g)
  PROVE  SumFunctionOnSet(f, S) = g[S]
<1> DEFINE Pick(s) == CHOOSE x \in s : TRUE
           Body(h) == [s \in SUBSET S |-> IF s = {} THEN 0 ELSE f[Pick(s)] + h[s \ {Pick(s)}]]
           iter == CHOOSE h : h = Body(h)
<1>1. \A s \in SUBSET S : s # {} => Pick(s) \in s
  OBVIOUS
<1>2. g = Body(g)
  <2>1. \A s \in SUBSET S : g[s] = IF s = {} THEN 0 ELSE f[Pick(s)] + g[s \ {Pick(s)}]
    <3> HIDE DEF Pick
    <3> QED BY <1>1 DEF Totals
  <2> HIDE DEF Pick
  <2> QED BY <2>1 DEF Totals
<1>3. iter = Body(iter)
  <2> HIDE DEF Body
  <2> QED BY <1>2
<1>4. SumFunctionOnSet(f, S) = iter[S]
  BY DEF SumFunctionOnSet, FoldFunctionOnSet, MapThenFoldSet
<1> DEFINE C == {s \in SUBSET S : iter[s] # g[s]}
<1>5. SUFFICES ASSUME C # {} PROVE FALSE
  BY <1>4
<1>6. PICK T \in C : \A U \in C : U \subseteq T => U = T
  <2> HIDE DEF C
  <2>1. C \subseteq SUBSET S
    BY DEF C
  <2> QED BY <1>5, <2>1, SmallestSubset
<1>7. T \in SUBSET S /\ iter[T] # g[T]
  BY <1>6
<1> HIDE DEF iter, Pick
<1>8. iter[T] = IF T = {} THEN 0 ELSE f[Pick(T)] + iter[T \ {Pick(T)}]
  BY <1>3, <1>7
<1>9. g[T] = IF T = {} THEN 0 ELSE f[Pick(T)] + g[T \ {Pick(T)}]
  BY <1>2, <1>7
<1>10. T # {}
  BY <1>7, <1>8, <1>9
<1>11. T \ {Pick(T)} \notin C /\ T \ {Pick(T)} \in SUBSET S
  BY <1>1, <1>6, <1>7, <1>10
<1>12. iter[T \ {Pick(T)}] = g[T \ {Pick(T)}]
  BY <1>11
<1> QED BY <1>7, <1>8, <1>9, <1>12

-----------------------------------------------------------------------------
(* The lemmas that proofs about sums cite. *)

LEMMA SumEmpty == ASSUME NEW f PROVE SumFunctionOnSet(f, {}) = 0
<1>1. PICK g : Totals(f, {}, g)
  BY FS_EmptySet, TotalsExist
<1>2. SumFunctionOnSet(f, {}) = g[{}]
  BY <1>1, FS_EmptySet, FoldIsTotal
<1> QED BY <1>1, <1>2 DEF Totals

\* The totals of a set are those of its subsets.
LEMMA SumOfSubset ==
  ASSUME NEW S, IsFiniteSet(S), NEW f, \A x \in S : f[x] \in Int,
         NEW g, Totals(f, S, g), NEW T \in SUBSET S
  PROVE  SumFunctionOnSet(f, T) = g[T]
<1> DEFINE h == [s \in SUBSET T |-> g[s]]
<1>1. Totals(f, T, h)
  <2>1. \A s \in SUBSET T : s \in SUBSET S /\ \A x \in s : s \ {x} \in SUBSET T
    OBVIOUS
  <2>2. h \in [SUBSET T -> Int] /\ h[{}] = 0
    BY <2>1 DEF Totals
  <2>3. \A s \in SUBSET T : \A x \in s : h[s] = f[x] + h[s \ {x}]
    BY <2>1 DEF Totals
  <2> HIDE DEF h
  <2> QED BY <2>2, <2>3 DEF Totals
<1>2. IsFiniteSet(T)
  BY FS_Subset
<1>3. SumFunctionOnSet(f, T) = h[T]
  <2> HIDE DEF h
  <2> QED BY <1>1, <1>2, FoldIsTotal
<1> QED BY <1>3

LEMMA SumRemove ==
  ASSUME NEW S, IsFiniteSet(S), NEW f, \A x \in S : f[x] \in Int, NEW x \in S
  PROVE  /\ SumFunctionOnSet(f, S) = f[x] + SumFunctionOnSet(f, S \ {x})
         /\ SumFunctionOnSet(f, S \ {x}) \in Int
<1>1. PICK g : Totals(f, S, g)
  BY TotalsExist
<1>2. SumFunctionOnSet(f, S) = g[S] /\ SumFunctionOnSet(f, S \ {x}) = g[S \ {x}]
  BY <1>1, SumOfSubset
<1> QED BY <1>1, <1>2 DEF Totals

LEMMA SumInt ==
  ASSUME NEW S, IsFiniteSet(S), NEW f, \A x \in S : f[x] \in Int
  PROVE  SumFunctionOnSet(f, S) \in Int
<1>1. PICK g : Totals(f, S, g)
  BY TotalsExist
<1>2. SumFunctionOnSet(f, S) = g[S]
  BY <1>1, FoldIsTotal
<1> QED BY <1>1, <1>2 DEF Totals

LEMMA SumAdd ==
  ASSUME NEW S, IsFiniteSet(S), NEW f, \A x \in S : f[x] \in Int,
         NEW x, x \notin S, f[x] \in Int
  PROVE  SumFunctionOnSet(f, S \cup {x}) = f[x] + SumFunctionOnSet(f, S)
<1>1. IsFiniteSet(S \cup {x}) /\ (S \cup {x}) \ {x} = S
  BY FS_AddElement
<1>2. \A y \in S \cup {x} : f[y] \in Int
  OBVIOUS
<1>3. SumFunctionOnSet(f, S \cup {x}) = f[x] + SumFunctionOnSet(f, (S \cup {x}) \ {x})
  BY <1>1, <1>2, SumRemove
<1> QED BY <1>1, <1>3

\* A sum depends on the values of the elements only.
LEMMA SumSame ==
  ASSUME NEW S, IsFiniteSet(S), NEW f, NEW h, \A x \in S : f[x] \in Int /\ f[x] = h[x]
  PROVE  SumFunctionOnSet(f, S) = SumFunctionOnSet(h, S)
<1>1. PICK g : Totals(f, S, g)
  BY TotalsExist
<1>2. Totals(h, S, g)
  BY <1>1 DEF Totals
<1> QED BY <1>1, <1>2, FoldIsTotal

\* The sum of sums, element by element.
LEMMA SumPlus ==
  ASSUME NEW S, IsFiniteSet(S), NEW f, NEW h, NEW k,
         \A x \in S : f[x] \in Int /\ h[x] \in Int /\ k[x] = f[x] + h[x]
  PROVE  SumFunctionOnSet(k, S) = SumFunctionOnSet(f, S) + SumFunctionOnSet(h, S)
<1>1. PICK a : Totals(f, S, a)
  BY TotalsExist
<1>2. PICK b : Totals(h, S, b)
  BY TotalsExist
<1> DEFINE c == [T \in SUBSET S |-> a[T] + b[T]]
<1>3. c \in [SUBSET S -> Int] /\ c[{}] = 0
  BY <1>1, <1>2 DEF Totals
<1>4. ASSUME NEW T \in SUBSET S, NEW x \in T
      PROVE  c[T] = k[x] + c[T \ {x}]
  <2>1. a[T] = f[x] + a[T \ {x}] /\ b[T] = h[x] + b[T \ {x}]
    BY <1>1, <1>2 DEF Totals
  <2>2. a[T \ {x}] \in Int /\ b[T \ {x}] \in Int /\ f[x] \in Int /\ h[x] \in Int
    BY <1>1, <1>2 DEF Totals
  <2>3. k[x] = f[x] + h[x] /\ c[T] = a[T] + b[T] /\ c[T \ {x}] = a[T \ {x}] + b[T \ {x}]
    OBVIOUS
  <2> HIDE DEF c
  <2> QED BY <2>1, <2>2, <2>3
<1>5. Totals(k, S, c)
  <2> HIDE DEF c
  <2> QED BY <1>3, <1>4 DEF Totals
<1>6. \A x \in S : k[x] \in Int
  OBVIOUS
<1>7. SumFunctionOnSet(k, S) = c[S]
  <2> HIDE DEF c
  <2> QED BY <1>5, <1>6, FoldIsTotal
<1>8. SumFunctionOnSet(f, S) = a[S] /\ SumFunctionOnSet(h, S) = b[S]
  BY <1>1, <1>2, FoldIsTotal
<1> QED BY <1>7, <1>8

\* Two sets without a common element.
LEMMA SumUnion ==
  ASSUME NEW S, IsFiniteSet(S), NEW T, IsFiniteSet(T), S \cap T = {},
         NEW f, \A x \in S \cup T : f[x] \in Int
  PROVE  SumFunctionOnSet(f, S \cup T) = SumFunctionOnSet(f, S) + SumFunctionOnSet(f, T)
<1> DEFINE Sum(U) == SumFunctionOnSet(f, U)
           C == {U \in SUBSET T : Sum(S \cup U) # Sum(S) + Sum(U)}
<1>0. Sum({}) = 0 /\ Sum(S) \in Int
  BY SumEmpty, SumInt
<1>1. SUFFICES ASSUME C # {} PROVE FALSE
  OBVIOUS
<1>2. PICK U \in C : \A V \in C : V \subseteq U => V = U
  <2> HIDE DEF C
  <2>1. C \subseteq SUBSET T
    BY DEF C
  <2> QED BY <1>1, <2>1, SmallestSubset
<1>3. U \in SUBSET T /\ Sum(S \cup U) # Sum(S) + Sum(U)
  BY <1>2
<1>4. PICK x \in U : TRUE
  <2>1. CASE U = {}
    <3>1. S \cup U = S
      BY <2>1
    <3> HIDE DEF Sum
    <3> QED BY <1>0, <1>3, <2>1, <3>1
  <2> QED BY <2>1
<1>5. Sum(S \cup (U \ {x})) = Sum(S) + Sum(U \ {x})
  <2>1. U \ {x} \in SUBSET T /\ U \ {x} \notin C
    BY <1>2, <1>3, <1>4
  <2> QED BY <2>1
<1>6. /\ IsFiniteSet(U) /\ IsFiniteSet(S \cup U) /\ x \in S \cup U
      /\ (S \cup U) \ {x} = S \cup (U \ {x})
  BY <1>3, <1>4, FS_Subset, FS_Union
<1>7. \A y \in S \cup U : f[y] \in Int
  BY <1>3
<1>8. Sum(U) = f[x] + Sum(U \ {x}) /\ Sum(U \ {x}) \in Int
  BY <1>4, <1>6, <1>7, SumRemove
<1>9. Sum(S \cup U) = f[x] + Sum((S \cup U) \ {x})
  BY <1>6, <1>7, SumRemove
<1>10. f[x] \in Int
  BY <1>3, <1>4
<1> HIDE DEF Sum
<1>11. \A a, b, c \in Int : a + (b + c) = b + (a + c)
  OBVIOUS
<1>12. Sum(S \cup U) = f[x] + (Sum(S) + Sum(U \ {x}))
  BY <1>5, <1>6, <1>9
<1> QED BY <1>0, <1>3, <1>8, <1>10, <1>11, <1>12

LEMMA SumNat ==
  ASSUME NEW S, IsFiniteSet(S), NEW f, \A x \in S : f[x] \in Nat
  PROVE  SumFunctionOnSet(f, S) \in Nat
<1> DEFINE Sum(U) == SumFunctionOnSet(f, U)
           C == {U \in SUBSET S : Sum(U) \notin Nat}
<1>1. SUFFICES ASSUME C # {} PROVE FALSE
  OBVIOUS
<1>2. PICK U \in C : \A V \in C : V \subseteq U => V = U
  <2> HIDE DEF C
  <2>1. C \subseteq SUBSET S
    BY DEF C
  <2> QED BY <1>1, <2>1, SmallestSubset
<1>3. U \in SUBSET S /\ Sum(U) \notin Nat
  BY <1>2
<1>4. PICK x \in U : TRUE
  <2>1. U # {}
    BY <1>3, SumEmpty
  <2> QED BY <2>1
<1>5. Sum(U \ {x}) \in Nat
  BY <1>2, <1>3, <1>4
<1>6. Sum(U) = f[x] + Sum(U \ {x})
  <2>1. IsFiniteSet(U) /\ \A y \in U : f[y] \in Int
    BY <1>3, FS_Subset
  <2> QED BY <1>4, <2>1, SumRemove
<1> HIDE DEF Sum
<1> QED BY <1>3, <1>4, <1>5, <1>6

\* A set parted into groups: the sum of the groups' sums is the sum of all.
LEMMA SumGroups ==
  ASSUME NEW A, IsFiniteSet(A), NEW K, IsFiniteSet(K),
         NEW f, \A x \in A : f[x] \in Int,
         NEW G, \A k \in K : G[k] \in SUBSET A,
         \A k, l \in K : k # l => G[k] \cap G[l] = {},
         \A x \in A : \E k \in K : x \in G[k],
         NEW h, \A k \in K : h[k] = SumFunctionOnSet(f, G[k])
  PROVE  SumFunctionOnSet(h, K) = SumFunctionOnSet(f, A)
<1> DEFINE In(L) == {x \in A : \E k \in L : x \in G[k]}
           Of(k) == G[k]
           C == {L \in SUBSET K : SumFunctionOnSet(h, L) # SumFunctionOnSet(f, In(L))}
<1>0. \A B \in SUBSET A : /\ IsFiniteSet(B) /\ (\A x \in B : f[x] \in Int)
                         /\ SumFunctionOnSet(f, B) \in Int
  BY FS_Subset, SumInt
<1>1. SUFFICES ASSUME C # {} PROVE FALSE
  <2>1. In(K) = A
    OBVIOUS
  <2> HIDE DEF In
  <2> QED BY <2>1
<1>2. PICK L \in C : \A M \in C : M \subseteq L => M = L
  <2> HIDE DEF C
  <2>1. C \subseteq SUBSET K
    BY DEF C
  <2> QED BY <1>1, <2>1, SmallestSubset
<1>3. L \in SUBSET K /\ SumFunctionOnSet(h, L) # SumFunctionOnSet(f, In(L))
  BY <1>2
<1>4. PICK k \in L : TRUE
  <2>1. CASE L = {}
    <3>1. In(L) = {}
      BY <2>1
    <3> HIDE DEF In
    <3> QED BY <1>3, <2>1, <3>1, SumEmpty
  <2> QED BY <2>1
<1>5. SumFunctionOnSet(h, L \ {k}) = SumFunctionOnSet(f, In(L \ {k}))
  <2>1. L \ {k} \in SUBSET K /\ L \ {k} \notin C
    BY <1>2, <1>3, <1>4
  <2> QED BY <2>1
<1>6. SumFunctionOnSet(h, L) = h[k] + SumFunctionOnSet(h, L \ {k})
  <2>1. IsFiniteSet(L)
    BY <1>3, FS_Subset
  <2>2. \A l \in L : h[l] \in Int
    <3> SUFFICES ASSUME NEW l \in L PROVE h[l] \in Int
      OBVIOUS
    <3>1. h[l] = SumFunctionOnSet(f, Of(l)) /\ Of(l) \in SUBSET A
      BY <1>3
    <3> HIDE DEF Of
    <3> QED BY <1>0, <3>1
  <2> QED BY <1>4, <2>1, <2>2, SumRemove
<1>7. h[k] = SumFunctionOnSet(f, Of(k))
  BY <1>3, <1>4
<1>8. /\ In(L \ {k}) \in SUBSET A /\ Of(k) \in SUBSET A
      /\ In(L \ {k}) \cap Of(k) = {} /\ In(L) = In(L \ {k}) \cup Of(k)
  BY <1>3, <1>4
<1> HIDE DEF In, Of
<1>9. SumFunctionOnSet(f, In(L)) = SumFunctionOnSet(f, In(L \ {k})) + SumFunctionOnSet(f, Of(k))
  <2>1. \A x \in In(L \ {k}) \cup Of(k) : f[x] \in Int
    BY <1>8
  <2>2. IsFiniteSet(In(L \ {k})) /\ IsFiniteSet(Of(k))
    BY <1>0, <1>8
  <2>3. SumFunctionOnSet(f, In(L \ {k}) \cup Of(k))
          = SumFunctionOnSet(f, In(L \ {k})) + SumFunctionOnSet(f, Of(k))
    BY <1>8, <2>1, <2>2, SumUnion
  <2> QED BY <1>8, <2>3
<1>10. /\ SumFunctionOnSet(f, In(L \ {k})) \in Int
       /\ SumFunctionOnSet(f, Of(k)) \in Int
  BY <1>0, <1>8
<1> HIDE DEF C
<1> QED BY <1>3, <1>5, <1>6, <1>7, <1>9, <1>10

=============================================================================
