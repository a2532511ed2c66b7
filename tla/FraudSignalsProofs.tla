------------------------- MODULE FraudSignalsProofs -------------------------
(***************************************************************************)
(* FraudSignals for any users, events and clocks.                          *)
(*                                                                         *)
(* Whatever enters bronze has passed the schema, so staging keeps it; a    *)
(* row of the features is made of a nonempty set of the user's rows, of    *)
(* which the last one is in every window; and windows, being subsets of    *)
(* one another, have nested counts.  A sum over a finite set is reasoned   *)
(* about through its partial sums and a minimal counterexample: so both    *)
(* gold tables add up to silver, and the squares of amounts bound the      *)
(* z-score of a few of them.                                               *)
(***************************************************************************)
EXTENDS FraudSignals, FiniteSetTheorems, WellFoundedInduction, TLAPS

-----------------------------------------------------------------------------
(* Finite sets                                                             *)

(* Of some subsets of a finite set, one has none of the others within it.  *)
LEMMA MinimalSubset ==
  ASSUME NEW S, IsFiniteSet(S), NEW Some \in SUBSET (SUBSET S), Some # {}
  PROVE  \E T \in Some : \A U \in SUBSET T : U # T => U \notin Some
<1>1. Some \subseteq FiniteSubsetsOf(S)
  BY FS_FiniteSubsetsOfFinite
<1>2. PICK T \in Some : \A U \in Some : ~ (<<U, T>> \in StrictSubsetOrdering(S))
  BY <1>1, FS_StrictSubsetOrderingWellFounded, WFMin
<1>3. ASSUME NEW U \in SUBSET T, U # T, U \in Some PROVE FALSE
  <2>1. <<U, T>> \in StrictSubsetOrdering(S)
    BY <1>3 DEF StrictSubsetOrdering
  <2> QED BY <1>2, <1>3, <2>1
<1> QED BY <1>3

(* A finite nonempty set of integers has a largest element: the one above  *)
(* which the fewest are.                                                   *)
LEMMA LargestExists ==
  ASSUME NEW S \in SUBSET Int, IsFiniteSet(S), S # {}
  PROVE  Max(S) \in S /\ \A y \in S : Max(S) >= y
<1> DEFINE Above(x) == {y \in S : y > x}
           All == {Above(x) : x \in S}
<1>1. PICK A \in All : \A B \in SUBSET A : B # A => B \notin All
  <2>1. All \in SUBSET (SUBSET S) /\ All # {}
    OBVIOUS
  <2> HIDE DEF All
  <2> QED BY <2>1, MinimalSubset
<1>2. PICK x \in S : A = Above(x)
  BY <1>1
<1>3. ASSUME NEW y \in S, y > x PROVE FALSE
  <2>1. Above(y) \subseteq Above(x)
    <3> SUFFICES ASSUME NEW z \in S, z > y PROVE z > x
      OBVIOUS
    <3> QED BY <1>3, S \subseteq Int
  <2>2. y \in Above(x) /\ y \notin Above(y)
    BY <1>3
  <2> HIDE DEF Above
  <2> QED BY <1>1, <1>2, <1>3, <2>1, <2>2
<1>4. \A y \in S : x >= y
  BY <1>3
<1> QED BY <1>4 DEF Max

(* Part of a finite set: no larger, and both sizes are numbers.            *)
LEMMA Smaller ==
  ASSUME NEW S, IsFiniteSet(S), NEW T, T \subseteq S
  PROVE  /\ Cardinality(T) \in Nat /\ Cardinality(S) \in Nat
         /\ Cardinality(T) <= Cardinality(S)
<1>1. IsFiniteSet(T) /\ Cardinality(T) <= Cardinality(S)
  BY FS_Subset
<1> QED BY <1>1, FS_CardinalityType

(* Distinct merchants and cities of a finite set of rows.                  *)
LEMMA FiniteColumns ==
  ASSUME NEW S, IsFiniteSet(S)
  PROVE  /\ IsFiniteSet({r.merchant : r \in S})
         /\ IsFiniteSet(CitiesOf(S))
         /\ IsFiniteSet({EventTime(r) : r \in S})
<1>1. IsFiniteSet({r.merchant : r \in S})
  <2> DEFINE f == [r \in S |-> r.merchant]
  <2>1. f \in Surjection(S, {r.merchant : r \in S})
    BY DEF Surjection
  <2> QED BY <2>1, FS_Surjection
<1>2. IsFiniteSet(CitiesOf(S))
  <2> DEFINE f == [r \in S |-> r.city]
  <2>1. f \in Surjection(S, {r.city : r \in S})
    BY DEF Surjection
  <2>2. IsFiniteSet({r.city : r \in S})
    BY <2>1, FS_Surjection
  <2> QED BY <2>2, FS_Difference DEF CitiesOf
<1>3. IsFiniteSet({EventTime(r) : r \in S})
  <2> DEFINE f == [r \in S |-> EventTime(r)]
  <2>1. f \in Surjection(S, {EventTime(r) : r \in S})
    BY DEF Surjection
  <2> QED BY <2>1, FS_Surjection
<1> QED BY <1>1, <1>2, <1>3

-----------------------------------------------------------------------------
(* Sums                                                                    *)

(* The element that a fold takes first.                                    *)
First(s) == CHOOSE x \in s : TRUE

(* g is the function by which a fold adds up f over the subsets of S.      *)
Adds(f, S, g) ==
  g = [s \in SUBSET S |-> IF s = {} THEN 0 ELSE f[First(s)] + g[s \ {First(s)}]]

Sums(f, S) == CHOOSE g : Adds(f, S, g)

LEMMA TotalIsSum == ASSUME NEW f PROVE Total(f) = Sums(f, DOMAIN f)[DOMAIN f]
BY DEF Total, FoldFunction, FoldFunctionOnSet, MapThenFoldSet, Sums, Adds, First

LEMMA AddsStep ==
  ASSUME NEW f, NEW S, NEW g, Adds(f, S, g), NEW s \in SUBSET S
  PROVE  g[s] = IF s = {} THEN 0 ELSE f[First(s)] + g[s \ {First(s)}]
<1> DEFINE B(t) == IF t = {} THEN 0 ELSE f[First(t)] + g[t \ {First(t)}]
<1>1. g = [t \in SUBSET S |-> B(t)]
  BY DEF Adds
<1> HIDE DEF B
<1>2. g[s] = B(s)
  BY <1>1
<1> QED BY <1>2 DEF B

LEMMA FirstIn == ASSUME NEW s, s # {} PROVE First(s) \in s
BY DEF First

(* Two such functions agree where both are defined.                        *)
LEMMA AddsUnique ==
  ASSUME NEW f, NEW S, IsFiniteSet(S), NEW V \in SUBSET S,
         NEW g, Adds(f, S, g), NEW h, Adds(f, V, h)
  PROVE  \A s \in SUBSET V : g[s] = h[s]
<1> DEFINE Differ == {s \in SUBSET V : g[s] # h[s]}
<1> SUFFICES ASSUME Differ # {} PROVE FALSE
  OBVIOUS
<1>1. IsFiniteSet(V)
  BY FS_Subset
<1>2. PICK T \in Differ : \A U \in SUBSET T : U # T => U \notin Differ
  <2>1. Differ \in SUBSET (SUBSET V)
    OBVIOUS
  <2> HIDE DEF Differ
  <2> QED BY <1>1, <2>1, MinimalSubset
<1>3. T # {}
  <2>1. T \in SUBSET V /\ T \in SUBSET S /\ g[T] # h[T]
    BY <1>2
  <2>2. T = {} => g[T] = 0 /\ h[T] = 0
    BY <2>1, AddsStep
  <2> QED BY <2>1, <2>2
<1>4. T \ {First(T)} \in SUBSET T /\ T \ {First(T)} # T
  BY <1>3, FirstIn
<1>5. g[T \ {First(T)}] = h[T \ {First(T)}]
  BY <1>2, <1>4
<1>6. g[T] = h[T]
  BY <1>2, <1>3, <1>5, AddsStep
<1> QED BY <1>2, <1>6

LEMMA SumsAdd ==
  ASSUME NEW f, NEW S, IsFiniteSet(S)
  PROVE  Adds(f, S, Sums(f, S))
<1> DEFINE Bad == {T \in SUBSET S : ~ \E g : Adds(f, T, g)}
<1>1. SUFFICES Bad = {}
  BY DEF Sums
<1>2. SUFFICES ASSUME Bad # {} PROVE FALSE
  OBVIOUS
<1>3. PICK T \in Bad : \A U \in SUBSET T : U # T => U \notin Bad
  <2>1. Bad \in SUBSET (SUBSET S)
    OBVIOUS
  <2> HIDE DEF Bad
  <2> QED BY <1>2, <2>1, MinimalSubset
<1>4. \A U \in SUBSET T : U # T => Adds(f, U, Sums(f, U))
  BY <1>3 DEF Sums
<1>5. IsFiniteSet(T)
  BY FS_Subset
<1> DEFINE Rest(s) == s \ {First(s)}
           h == [s \in SUBSET T |->
                   IF s = {} THEN 0 ELSE f[First(s)] + Sums(f, Rest(s))[Rest(s)]]
<1>6. ASSUME NEW s \in SUBSET T, s # {}
      PROVE  h[Rest(s)] = Sums(f, Rest(s))[Rest(s)]
  <2>1. Rest(s) \in SUBSET T /\ Rest(s) # T
    BY <1>6, FirstIn
  <2>2. Adds(f, Rest(s), Sums(f, Rest(s))) /\ IsFiniteSet(Rest(s))
    BY <1>4, <1>5, <2>1, FS_Subset
  <2> DEFINE u == Rest(s)
  <2>3. Sums(f, u)[u] = IF u = {} THEN 0 ELSE f[First(u)] + Sums(f, u)[Rest(u)]
    <3> HIDE DEF u
    <3>1. Adds(f, u, Sums(f, u)) /\ u \in SUBSET u
      BY <2>2 DEF u
    <3> QED BY <3>1, AddsStep
  <2>4. ASSUME u # {} PROVE Sums(f, u)[Rest(u)] = Sums(f, Rest(u))[Rest(u)]
    <3> HIDE DEF u
    <3>1. Rest(u) \in SUBSET u /\ Rest(u) \in SUBSET T /\ Rest(u) # T
      BY <2>1, <2>4, FirstIn DEF u
    <3>2. Adds(f, Rest(u), Sums(f, Rest(u)))
      BY <1>4, <3>1
    <3>3. Adds(f, u, Sums(f, u)) /\ IsFiniteSet(u)
      BY <2>2 DEF u
    <3> HIDE DEF Rest
    <3>4. Rest(u) \in SUBSET Rest(u)
      OBVIOUS
    <3> QED BY <3>1, <3>2, <3>3, <3>4, AddsUnique
  <2>5. h[u] = IF u = {} THEN 0 ELSE f[First(u)] + Sums(f, Rest(u))[Rest(u)]
    <3> HIDE DEF u
    <3> QED BY <2>1 DEF u
  <2> HIDE DEF h
  <2> QED BY <2>3, <2>4, <2>5
<1>7. Adds(f, T, h)
  <2>1. \A s \in SUBSET T :
          (IF s = {} THEN 0 ELSE f[First(s)] + Sums(f, Rest(s))[Rest(s)])
            = (IF s = {} THEN 0 ELSE f[First(s)] + h[Rest(s)])
    <3> HIDE DEF h, Rest
    <3> QED BY <1>6
  <2> DEFINE A(s) == IF s = {} THEN 0 ELSE f[First(s)] + Sums(f, Rest(s))[Rest(s)]
             B(s) == IF s = {} THEN 0 ELSE f[First(s)] + h[Rest(s)]
  <2>2. h = [s \in SUBSET T |-> A(s)]
    OBVIOUS
  <2>3. \A s \in SUBSET T : A(s) = B(s)
    BY <2>1
  <2> HIDE DEF h, A, B
  <2>4. h = [s \in SUBSET T |-> B(s)]
    BY <2>2, <2>3
  <2> QED BY <2>4 DEF B, Adds
<1> QED BY <1>3, <1>7

(* g[T] adds up f over T, for every subset T of S.                         *)
IsSum(g, f, S) ==
  /\ g[{}] = 0
  /\ \A T \in SUBSET S : g[T] \in Int /\ \A x \in T : g[T] = f[x] + g[T \ {x}]

Whole(f, S) == \A x \in S : f[x] \in Int

(* Any element may be taken out of a sum first.                            *)
LEMMA TakeOut ==
  ASSUME NEW f, NEW S, IsFiniteSet(S), Whole(f, S), NEW g, Adds(f, S, g)
  PROVE  IsSum(g, f, S)
<1> DEFINE Good(T) == g[T] \in Int /\ \A x \in T : g[T] = f[x] + g[T \ {x}]
           Bad == {T \in SUBSET S : ~Good(T)}
<1>0. g[{}] = 0
  BY AddsStep
<1> SUFFICES ASSUME Bad # {} PROVE FALSE
  BY <1>0 DEF IsSum
<1>1. PICK T \in Bad : \A U \in SUBSET T : U # T => U \notin Bad
  <2>1. Bad \in SUBSET (SUBSET S)
    OBVIOUS
  <2> HIDE DEF Bad
  <2> QED BY <2>1, MinimalSubset
<1>2. T \in SUBSET S /\ \A U \in SUBSET T : U # T => Good(U)
  BY <1>1
<1>3. g[T] = IF T = {} THEN 0 ELSE f[First(T)] + g[T \ {First(T)}]
  BY <1>2, AddsStep
<1>4. ~Good(T)
  BY <1>1
<1>5. T # {}
  BY <1>3, <1>4
<1> DEFINE c == First(T)
           R == T \ {c}
<1>6. c \in T
  BY <1>5, FirstIn
<1> HIDE DEF c
<1>7. g[T] = f[c] + g[R] /\ g[R] \in Int /\ f[c] \in Int
  BY <1>2, <1>3, <1>5, <1>6 DEF c, Whole
<1>8. ASSUME NEW x \in T, x # c PROVE g[T] = f[x] + g[T \ {x}]
  <2> DEFINE Q == T \ {x}
             Both == T \ {c, x}
  <2>1. R \ {x} = Both /\ Q \ {c} = Both /\ x \in R /\ c \in Q
    BY <1>6, <1>8
  <2>2. Good(R) /\ Good(Q)
    BY <1>2, <1>6, <1>8
  <2>3. g[R] = f[x] + g[Both] /\ g[Q] = f[c] + g[Both]
    BY <2>1, <2>2
  <2>4. Good(Both)
    BY <1>2, <1>6
  <2>5. f[x] \in Int /\ g[Both] \in Int
    BY <1>2, <2>4 DEF Whole
  <2> HIDE DEF Both, Q, R
  <2>6. g[T] = f[x] + g[Q]
    BY <1>7, <2>3, <2>5
  <2> QED BY <2>6 DEF Q
<1>9. g[T] \in Int /\ \A x \in T : g[T] = f[x] + g[T \ {x}]
  <2> HIDE DEF Good, Bad
  <2>1. g[T] \in Int
    BY <1>7
  <2>2. ASSUME NEW x \in T PROVE g[T] = f[x] + g[T \ {x}]
    BY <1>7, <1>8
  <2> QED BY <2>1, <2>2
<1> QED BY <1>4, <1>9

(* The total of a column, and the partial sums it is made of.              *)
LEMMA TotalSums ==
  ASSUME NEW S, IsFiniteSet(S), NEW f, DOMAIN f = S, Whole(f, S)
  PROVE  \E g : Total(f) = g[S] /\ IsSum(g, f, S)
<1>1. Adds(f, S, Sums(f, S)) /\ Total(f) = Sums(f, S)[S]
  BY SumsAdd, TotalIsSum
<1>2. IsSum(Sums(f, S), f, S)
  BY <1>1, TakeOut
<1> QED BY <1>1, <1>2

LEMMA DisjointSizes ==
  ASSUME NEW S, IsFiniteSet(S), NEW T, IsFiniteSet(T), S \cap T = {}
  PROVE  /\ IsFiniteSet(S \cup T)
         /\ Cardinality(S \cup T) = Cardinality(S) + Cardinality(T)
         /\ Cardinality(S) \in Nat /\ Cardinality(T) \in Nat
<1>1. Cardinality(S) \in Nat /\ Cardinality(T) \in Nat
  BY FS_CardinalityType
<1>2. Cardinality(S \cap T) = 0
  BY FS_EmptySet
<1>3. /\ IsFiniteSet(S \cup T)
      /\ Cardinality(S \cup T) = Cardinality(S) + Cardinality(T) - Cardinality(S \cap T)
  BY FS_Union
<1> QED BY <1>1, <1>2, <1>3

(* The parts that a key divides a finite set into add up to it.            *)
LEMMA PartsAddUp ==
  ASSUME NEW K, IsFiniteSet(K), NEW part,
         \A k \in K : IsFiniteSet(part[k]),
         \A k, l \in K : k # l => part[k] \cap part[l] = {},
         NEW c, \A k \in K : c[k] = Cardinality(part[k]),
         NEW g, IsSum(g, c, K)
  PROVE  g[K] = Cardinality(UNION {part[k] : k \in K})
<1> DEFINE All(T) == UNION {part[k] : k \in T}
           Good(T) == IsFiniteSet(All(T)) /\ g[T] = Cardinality(All(T))
           Bad == {T \in SUBSET K : ~Good(T)}
<1> SUFFICES ASSUME Bad # {} PROVE FALSE
  OBVIOUS
<1>1. PICK T \in Bad : \A U \in SUBSET T : U # T => U \notin Bad
  <2>1. Bad \in SUBSET (SUBSET K)
    OBVIOUS
  <2> HIDE DEF Bad
  <2> QED BY <2>1, MinimalSubset
<1>2. T \in SUBSET K /\ (\A U \in SUBSET T : U # T => Good(U)) /\ ~Good(T)
  BY <1>1
<1>3. Good({})
  <2>1. All({}) = {}
    OBVIOUS
  <2> QED BY <2>1, FS_EmptySet DEF IsSum
<1>4. PICK x : x \in T
  BY <1>2, <1>3
<1> DEFINE U == T \ {x}
<1>5. Good(U)
  BY <1>2, <1>4
<1>6. All(T) = All(U) \cup part[x]
  BY <1>4
<1>7. All(U) \cap part[x] = {}
  <2> SUFFICES ASSUME NEW k \in U PROVE part[k] \cap part[x] = {}
    OBVIOUS
  <2> QED BY <1>2, <1>4
<1>8. IsFiniteSet(part[x]) /\ c[x] = Cardinality(part[x])
  BY <1>2, <1>4
<1>9. g[T] = c[x] + g[U]
  BY <1>2, <1>4 DEF IsSum
<1> HIDE DEF All, U
<1>10. /\ IsFiniteSet(All(U) \cup part[x])
       /\ Cardinality(All(U) \cup part[x]) = Cardinality(All(U)) + Cardinality(part[x])
       /\ Cardinality(All(U)) \in Nat /\ Cardinality(part[x]) \in Nat
  BY <1>5, <1>7, <1>8, DisjointSizes
<1> QED BY <1>2, <1>5, <1>6, <1>8, <1>9, <1>10

(* A column of the sizes of the parts of a set adds up to its size.        *)
LEMMA TotalOfParts ==
  ASSUME NEW S, IsFiniteSet(S), NEW c, NEW part, IsFiniteSet(DOMAIN c),
         \A k \in DOMAIN c : part[k] \subseteq S /\ c[k] = Cardinality(part[k]),
         \A k, l \in DOMAIN c : k # l => part[k] \cap part[l] = {},
         S = UNION {part[k] : k \in DOMAIN c}
  PROVE  Total(c) = Cardinality(S)
<1> DEFINE K == DOMAIN c
<1>1. \A k \in K : IsFiniteSet(part[k]) /\ c[k] = Cardinality(part[k])
  BY FS_Subset
<1>2. Whole(c, K)
  BY <1>1, FS_CardinalityType DEF Whole
<1>3. PICK g : Total(c) = g[K] /\ IsSum(g, c, K)
  BY <1>2, TotalSums
<1>4. g[K] = Cardinality(UNION {part[k] : k \in K})
  BY <1>1, <1>3, PartsAddUp
<1> QED BY <1>3, <1>4

-----------------------------------------------------------------------------
(* Sums of squares                                                         *)

(* A square is no negative number.                                         *)
LEMMA SquareIsNat == ASSUME NEW a \in Int PROVE a * a \in Int /\ a * a >= 0
OBVIOUS

(* One more number keeps the sum of the squares in its bound.              *)
LEMMA OneMoreSquare ==
  ASSUME NEW n \in Nat, n > 0, NEW s \in Int, NEW q \in Int, NEW m \in Int, n * q >= s * s
  PROVE  (n + 1) * (q + m * m) >= (s + m) * (s + m)
<1> DEFINE t == n * m - s
           rest == q + n * (m * m) - 2 * (s * m)
<1>1. t \in Int /\ rest \in Int /\ m * m \in Int /\ s * m \in Int /\ n * q \in Int /\ s * s \in Int
  OBVIOUS
<1>2. n * rest = (n * q - s * s) + t * t
  OBVIOUS
<1>3. t * t >= 0
  BY <1>1, SquareIsNat
<1>4. n * rest >= 0
  <2> HIDE DEF t, rest
  <2> t * t \in Int
    BY <1>1
  <2> QED BY <1>1, <1>2, <1>3
<1>5. rest >= 0
  <2> HIDE DEF t, rest
  <2> QED BY <1>1, <1>4
<1>6. (n + 1) * (q + m * m) - (s + m) * (s + m) = (n * q - s * s) + rest
  OBVIOUS
<1>7. (n * q - s * s) + rest >= 0
  <2> HIDE DEF rest
  <2> QED BY <1>1, <1>5
<1>8. (n + 1) * (q + m * m) \in Int /\ (s + m) * (s + m) \in Int
  OBVIOUS
<1> HIDE DEF rest
<1> QED BY <1>1, <1>6, <1>7, <1>8

(* Cauchy and Schwarz: n times the sum of the squares is no less than the  *)
(* square of the sum.                                                      *)
LEMMA SquaresBound ==
  ASSUME NEW S, IsFiniteSet(S), NEW f, Whole(f, S), NEW h, \A x \in S : h[x] = f[x] * f[x],
         NEW g, IsSum(g, f, S), NEW q, IsSum(q, h, S)
  PROVE  \A T \in SUBSET S : Cardinality(T) * q[T] >= g[T] * g[T]
<1> DEFINE Good(T) == Cardinality(T) * q[T] >= g[T] * g[T]
           Bad == {T \in SUBSET S : ~Good(T)}
<1> SUFFICES ASSUME Bad # {} PROVE FALSE
  OBVIOUS
<1>1. PICK T \in Bad : \A U \in SUBSET T : U # T => U \notin Bad
  <2>1. Bad \in SUBSET (SUBSET S)
    OBVIOUS
  <2> HIDE DEF Bad
  <2> QED BY <2>1, MinimalSubset
<1>2. T \in SUBSET S /\ (\A U \in SUBSET T : U # T => Good(U)) /\ ~Good(T)
  BY <1>1
<1>3. Good({})
  BY FS_EmptySet DEF IsSum
<1>4. PICK x : x \in T
  BY <1>2, <1>3
<1> DEFINE U == T \ {x}
<1>5. Good(U) /\ U \in SUBSET S /\ U \in SUBSET T
  BY <1>2, <1>4
<1>6. Cardinality(U) \in Nat /\ Cardinality(T) = Cardinality(U) + 1
  BY <1>2, <1>4, FS_Subset, FS_RemoveElement, FS_CardinalityType
<1>7. U = {} => Cardinality(U) = 0
  BY FS_EmptySet
<1>8. Cardinality(U) = 0 => U = {}
  BY <1>2, FS_Subset, FS_EmptySet
<1>9. f[x] \in Int /\ h[x] = f[x] * f[x] /\ g[U] \in Int /\ q[U] \in Int
  BY <1>2, <1>4, <1>5 DEF Whole, IsSum
<1>10. g[T] = f[x] + g[U] /\ q[T] = h[x] + q[U]
  BY <1>2, <1>4 DEF IsSum
<1>11. U = {} => g[U] = 0 /\ q[U] = 0
  BY DEF IsSum
<1> HIDE DEF U
<1>12. Cardinality(U) * q[U] >= g[U] * g[U]
  BY <1>5
<1> DEFINE n == Cardinality(U)
           s == g[U]
           p == q[U]
           m == f[x]
<1>13. (n + 1) * (p + m * m) >= (s + m) * (s + m)
  <2>1. n \in Nat /\ s \in Int /\ p \in Int /\ m \in Int /\ n * p >= s * s
    BY <1>6, <1>9, <1>12
  <2>2. n = 0 => s = 0 /\ p = 0
    BY <1>8, <1>11
  <2> HIDE DEF n, s, p, m
  <2>3. CASE n = 0
    BY <2>1, <2>2, <2>3, SquareIsNat
  <2>4. CASE n > 0
    BY <2>1, <2>4, OneMoreSquare
  <2> QED BY <2>1, <2>3, <2>4
<1>14. g[T] = s + m /\ q[T] = p + m * m
  <2> n \in Nat /\ s \in Int /\ p \in Int /\ m \in Int
    BY <1>6, <1>9
  <2> m * m \in Int
    BY SquareIsNat
  <2>1. g[T] = m + s /\ q[T] = m * m + p
    BY <1>9, <1>10
  <2> HIDE DEF n, s, p, m
  <2> QED BY <2>1
<1> QED BY <1>2, <1>6, <1>13, <1>14

(* Of the k + 1 numbers that add up to a + m, and their squares to         *)
(* b + m * m, none is three deviations above the mean if k is nine or less.*)
LEMMA FewAreNoOutliers ==
  ASSUME NEW k \in 1 .. 9, NEW a \in Int, NEW b \in Int, NEW m \in Int, k * b >= a * a,
         NEW n, n = k + 1, NEW s, s = a + m, NEW q, q = b + m * m,
         NEW d, d = n * q - s * s, d > 0
  PROVE  (n * m - s) * (n * m - s) * k <= 9 * (n * d)
<1> DEFINE t == n * m - s
           c == k * b - a * a
<1>1. k \in Int /\ n \in Int /\ s \in Int /\ q \in Int /\ d \in Int /\ t \in Int /\ c \in Int
  BY SquareIsNat
<1>2. t = k * m - a
  OBVIOUS
<1>3. d = (k + 1) * b + k * (m * m) - a * a - 2 * (a * m)
  OBVIOUS
<1>4. k * d = n * c + t * t
  <2>1. k * d = k * ((k + 1) * b) + k * (k * (m * m)) - k * (a * a) - 2 * (k * (a * m))
    BY <1>3
  <2>2. t * t = k * (k * (m * m)) - 2 * (k * (a * m)) + a * a
    BY <1>2
  <2>3. n * c = (k + 1) * (k * b) - (k + 1) * (a * a)
    OBVIOUS
  <2> QED BY <2>1, <2>2, <2>3
<1>5. c >= 0
  OBVIOUS
<1> HIDE DEF t, c
<1>6. n * c >= 0
  BY <1>1, <1>5
<1>7. t * t <= k * d
  BY <1>1, <1>4, <1>6
<1>8. (t * t) * k <= (k * d) * k
  BY <1>1, <1>7
<1>9. (k * d) * k = (k * k) * d
  BY <1>1
<1>10. k * k <= 9 * n
  BY <1>1
<1>11. (k * k) * d <= (9 * n) * d
  BY <1>1, <1>10
<1>12. (9 * n) * d = 9 * (n * d)
  BY <1>1
<1>13. t * t * k <= 9 * (n * d)
  BY <1>1, <1>8, <1>9, <1>11, <1>12
<1> QED BY <1>13 DEF t

-----------------------------------------------------------------------------
(* Windows                                                                 *)

(* An amount in paise.                                                     *)
LEMMA PaiseIsInt == ASSUME NEW r \in Event PROVE Paise(r) \in Int
BY DEF Event, Paise, Staging!Cents

(* A user's rows, as a build finds them.                                   *)
UserRows(rows) == rows \in SUBSET Event /\ IsFiniteSet(rows) /\ rows # {}

LEMMA LatestRow ==
  ASSUME NEW rows, UserRows(rows)
  PROVE  /\ Latest(rows) \in Int
         /\ \A r \in rows : EventTime(r) \in Int /\ EventTime(r) <= Latest(rows)
         /\ \E r \in rows : EventTime(r) = Latest(rows)
<1> DEFINE T == {EventTime(r) : r \in rows}
<1>1. \A r \in rows : EventTime(r) \in Int
  BY DEF UserRows, Event, EventTime
<1>2. T \subseteq Int /\ T # {}
  BY <1>1 DEF UserRows
<1>3. IsFiniteSet(T)
  BY FiniteColumns DEF UserRows
<1>4. Latest(rows) \in T /\ \A y \in T : Latest(rows) >= y
  <2> HIDE DEF T
  <2>1. Max(T) \in T /\ \A y \in T : Max(T) >= y
    BY <1>2, <1>3, LargestExists
  <2> QED BY <2>1 DEF Latest, T
<1> QED BY <1>1, <1>4

LEMMA WithinNested ==
  ASSUME NEW rows, UserRows(rows), NEW g \in Nat, NEW h \in Nat, g <= h
  PROVE  /\ Within(rows, g) \subseteq Within(rows, h)
         /\ Within(rows, h) \subseteq rows
         /\ Within(rows, g) # {}
<1>1. /\ Latest(rows) \in Int
      /\ \A r \in rows : EventTime(r) \in Int
      /\ \E r \in rows : EventTime(r) = Latest(rows)
  BY LatestRow
<1> QED BY <1>1 DEF Within

(* With more rows and the same latest one, a window holds no less.         *)
LEMMA WithinGrows ==
  ASSUME NEW S, UserRows(S), NEW T, UserRows(T), S \subseteq T, NEW h \in Nat
  PROVE  /\ Latest(S) <= Latest(T)
         /\ Latest(S) = Latest(T) => Within(S, h) \subseteq Within(T, h)
<1>1. Latest(S) \in Int /\ Latest(T) \in Int
  BY LatestRow
<1>2. PICK r \in S : EventTime(r) = Latest(S)
  BY LatestRow
<1>3. EventTime(r) <= Latest(T)
  BY LatestRow
<1> QED BY <1>1, <1>2, <1>3 DEF Within
-----------------------------------------------------------------------------
(* Schema and staging                                                      *)

(* _generate_amount makes whole paise, one rupee or more.                  *)
LEMMA AmountIsValid ==
  ASSUME NEW raw \in Nat, NEW ticket \in Nat
  PROVE  /\ Amount(raw, ticket) \in Int
         /\ Amount(raw, ticket) > 0 /\ Amount(raw, ticket) % 10 = 0
<1> DEFINE capped == IF raw < 5 * ticket THEN raw ELSE 5 * ticket
           floored == IF capped > 1000 THEN capped ELSE 1000
           paise == (floored + 5) \div 10
<1>1. floored \in Int /\ floored >= 1000
  OBVIOUS
<1>2. Amount(raw, ticket) = 10 * paise
  BY DEF Amount
<1> HIDE DEF floored
<1>3. paise \in Int /\ paise > 0
  BY <1>1
<1> HIDE DEF paise
<1>4. (10 * paise) % 10 = 0
  BY <1>3
<1> QED BY <1>2, <1>3, <1>4

(* What generate_one passes to the schema is accepted.                     *)
LEMMA GeneratedIsAccepted ==
  ASSUME NEW c \in Choice, NEW t \in Int
  PROVE  Generated(c, t) \in Event /\ Accepts(Generated(c, t), t)
<1>1. c.raw \in Nat /\ Ticket[c.merchant] \in Nat /\ Home[c.user] \in Cities
  BY SchemaAssumption DEF Choice
<1>2. LET a == Amount(c.raw, Ticket[c.merchant]) IN a \in Int /\ a > 0 /\ a % 10 = 0
  BY <1>1, AmountIsValid
<1>3. /\ c.user \in Users /\ c.merchant \in Merchants
      /\ c.type \in TransactionType /\ c.status \in TransactionStatus
  BY DEF Choice
<1>4. c.type \in Words /\ c.status \in Words
  BY <1>3, SchemaAssumption
<1>5. Generated(c, t) \in Event
  BY <1>1, <1>2, <1>3, <1>4 DEF Generated, Event
<1>6. Accepts(Generated(c, t), t)
  BY <1>2, <1>3 DEF Generated, Accepts, NotFuture
<1> QED BY <1>5, <1>6

(* The rows that the schema lets in.                                       *)
Valid(r) ==
  /\ r \in Event /\ r.amount > 0 /\ r.amount % 10 = 0
  /\ r.type \in TransactionType /\ r.status \in TransactionStatus

AllValid == IsFiniteSet(bronze) /\ \A r \in bronze : Valid(r)

(* Both queries over bronze agree on a valid row.                          *)
LEMMA ValidIsKept ==
  ASSUME NEW r, Valid(r)
  PROVE  Staging!Validated(r) = 2 /\ Staging!FilteredRule(r) # 2
<1>1. r.amount \in Int /\ r.id # None /\ r.time # None /\ r.type # None
  BY SignalsAssumption DEF Valid, Event
<1>2. r.amount >= 10 /\ r.type \in Staging!Types
  BY <1>1 DEF Valid, TransactionType, Staging!Types
<1>3. Staging!Cents(r.amount) > 0
  BY <1>1, <1>2 DEF Staging!Cents
<1>4. Staging!Validated(r) = 2
  BY <1>1, <1>2, <1>3 DEF Staging!Validated, Staging!And, Staging!Not, Staging!IsNull,
     Staging!Known, Staging!In
<1>5. Staging!FilteredRule(r) # 2
  BY <1>1, <1>2 DEF Staging!FilteredRule, Staging!Or, Staging!Not, Staging!IsNull,
     Staging!Known, Staging!In
<1> QED BY <1>4, <1>5

LEMMA SilverIsBronze ==
  ASSUME AllValid
  PROVE  Silver = bronze /\ Staging!Filtered = {}
BY ValidIsKept DEF AllValid, Silver, Staging!Silver, Staging!Filtered, Staging!Where

-----------------------------------------------------------------------------
(* The inductive invariant                                                 *)

(* A row of the features is made of rows of the user in bronze, one at     *)
(* least; which ones was settled by the build.                             *)
MadeOf(u, rows) ==
  /\ rows # {} /\ \A r \in rows : r.user = u
  /\ user_features[u] = Features(rows)

Built == \A u \in DOMAIN user_features : \E rows \in SUBSET bronze : MadeOf(u, rows)

IInv == now \in Clock /\ raised = FALSE /\ AllValid /\ Built

(* What a build makes of a user whom bronze has.                           *)
LEMMA RowsOfUser ==
  ASSUME AllValid, NEW u \in UsersSeen
  PROVE  Rows(u) \in SUBSET bronze /\ Rows(u) # {} /\ \A r \in Rows(u) : r.user = u
BY SilverIsBronze DEF UsersSeen, Rows

LEMMA InitInv == Init => IInv
<1> SUFFICES ASSUME Init PROVE IInv
  OBVIOUS
<1>1. DOMAIN user_features = {}
  BY DEF Init
<1> QED BY <1>1, FS_EmptySet DEF Init, IInv, AllValid, Built

(* A burst of accepted events.                                             *)
LEMMA PublishInv ==
  ASSUME IInv, NEW e \in Event, Accepts(e, now), NEW n \in Nat, Publish(e, n)
  PROVE  IInv'
<1> DEFINE f == [i \in 1 .. n |-> [e EXCEPT !.id = i]]
           new == {[e EXCEPT !.id = i] : i \in 1 .. n}
<1>1. bronze' = bronze \cup new
  BY DEF Publish, Burst
<1>2. IsFiniteSet(new)
  <2>1. f \in Surjection(1 .. n, new)
    BY DEF Surjection
  <2>2. IsFiniteSet(1 .. n)
    BY FS_Interval
  <2> QED BY <2>1, <2>2, FS_Surjection
<1>3. \A r \in new : Valid(r)
  BY DEF Accepts, Valid, Event
<1>4. AllValid'
  <2> HIDE DEF new
  <2>1. IsFiniteSet(bronze')
    BY <1>1, <1>2, FS_Union DEF IInv, AllValid
  <2> QED BY <1>1, <1>3, <2>1 DEF IInv, AllValid, Valid
<1>5. Built'
  <2> HIDE DEF new
  <2>1. user_features' = user_features /\ bronze \subseteq bronze'
    BY <1>1 DEF Publish
  <2>2. \A u, rows : MadeOf(u, rows) => MadeOf(u, rows)'
    BY <2>1 DEF MadeOf
  <2>3. Built
    BY DEF IInv
  <2> HIDE DEF MadeOf
  <2> QED BY <2>1, <2>2, <2>3 DEF Built
<1> QED BY <1>4, <1>5 DEF IInv, Publish

LEMMA BuildInv ==
  ASSUME IInv, Build
  PROVE  IInv'
<1>1. AllValid' /\ bronze' = bronze
  BY DEF IInv, Build, AllValid, Valid
<1>2. Built'
  <2> SUFFICES ASSUME NEW u \in DOMAIN user_features'
               PROVE  \E rows \in SUBSET bronze : MadeOf(u, rows)'
    BY <1>1 DEF Built
  <2>1. u \in UsersSeen /\ user_features'[u] = Features(Rows(u))
    BY DEF Build
  <2>2. Rows(u) \in SUBSET bronze /\ Rows(u) # {} /\ \A r \in Rows(u) : r.user = u
    BY <2>1, RowsOfUser DEF IInv
  <2> QED BY <2>1, <2>2 DEF MadeOf
<1> QED BY <1>1, <1>2 DEF IInv, Build

LEMMA NextInv == IInv /\ [Next]_vars => IInv'
<1> SUFFICES ASSUME IInv, [Next]_vars PROVE IInv'
  OBVIOUS
<1>1. CASE Tick
  BY <1>1 DEF Tick, IInv, AllValid, Valid, Built, MadeOf
<1>2. CASE Generate
  <2>1. PICK c \in Draws, n \in Bursts :
          /\ Fits(Generated(c, now)) /\ raised' = ~Accepts(Generated(c, now), now)
          /\ bronze' = IF raised' THEN bronze ELSE bronze \cup Burst(Generated(c, now), n)
    BY <1>2 DEF Generate
  <2>2. c \in Choice /\ n \in Nat /\ now \in Int
    BY SignalsAssumption DEF IInv
  <2>3. Generated(c, now) \in Event /\ Accepts(Generated(c, now), now)
    BY <2>2, GeneratedIsAccepted
  <2>4. raised' = FALSE
    BY <2>1, <2>3
  <2>5. Publish(Generated(c, now), n)
    BY <1>2, <2>1, <2>4 DEF Generate, Publish, IInv
  <2> QED BY <2>2, <2>3, <2>5, PublishInv
<1>3. CASE Offer
  <2>1. PICK e \in Offered, n \in Bursts : Accepts(e, now) /\ Publish(e, n)
    BY <1>3 DEF Offer
  <2> QED BY <2>1, SignalsAssumption, PublishInv
<1>4. CASE Build
  BY <1>4, BuildInv
<1>5. CASE UNCHANGED vars
  BY <1>5 DEF vars, IInv, AllValid, Valid, Built, MadeOf
<1> QED BY <1>1, <1>2, <1>3, <1>4, <1>5 DEF Next

(* Whatever is in bronze has passed the schema, and the features are made  *)
(* of it: the inductive invariant of the model.                            *)
THEOREM Invariant == Spec => []IInv
BY InitInv, NextInv, PTL DEF Spec

(* The instance of Reconciliation counts as this module does.              *)
LEMMA SameCardinality == \A S : Staging!Cardinality(S) = Cardinality(S)
BY DEF Staging!Cardinality, Cardinality

-----------------------------------------------------------------------------
(* Theorems about bronze                                                   *)

(* The schema accepts whatever generate_one makes of its choices.          *)
THEOREM GeneratorIsSafe == Spec => []GeneratorNeverRaises
<1>1. IInv => GeneratorNeverRaises
  BY DEF IInv, GeneratorNeverRaises
<1> QED BY <1>1, Invariant, PTL

(* Whole paise up to the largest amount of the column can be cast.         *)
LEMMA FitsColumn ==
  ASSUME NEW r, Valid(r), r.amount <= 10 * MaxCents
  PROVE  Staging!Castable(r.amount)
<1>1. r.amount \in Int /\ r.amount > 0 /\ r.amount % 10 = 0 /\ MaxCents \in Nat
  BY SignalsAssumption DEF Valid, Event
<1> QED BY <1>1 DEF Staging!Castable, Staging!Cents

(* Staging keeps every event that the schema accepts, and reconciliation   *)
(* is balanced, if the column can hold the amounts.                        *)
THEOREM ContractIsKept == Spec => []AcceptedIsKept
<1>1. IInv => AcceptedIsKept
  <2> SUFFICES ASSUME IInv, \A r \in bronze : r.amount <= 10 * MaxCents
               PROVE  Silver = bronze /\ Staging!recon_status = "BALANCED"
    BY DEF AcceptedIsKept
  <2>1. Silver = bronze /\ Staging!Filtered = {}
    BY SilverIsBronze DEF IInv
  <2>2. Cardinality(bronze) \in Nat /\ Cardinality({}) = 0
    BY FS_CardinalityType, FS_EmptySet DEF IInv, AllValid
  <2>3. Staging!unaccounted_records = 0
    BY <2>1, <2>2, SameCardinality DEF Staging!unaccounted_records, Silver
  <2>4. ~Staging!CastFails
    BY FitsColumn, SMTT(30) DEF IInv, AllValid, Staging!CastFails
  <2> QED BY <2>1, <2>3, <2>4 DEF Staging!recon_status
<1> QED BY <1>1, Invariant, PTL

-----------------------------------------------------------------------------
(* Theorems about the features                                             *)

(* round(part / whole, 4) of a part is between 0 and 1.                    *)
LEMMA RateRange ==
  ASSUME NEW p, NEW w, p \in Nat, w \in Nat, p <= w
  PROVE  Rate(p, w) \in 0 .. 10000
<1>1. CASE w = 0
  BY <1>1 DEF Rate
<1>2. CASE w > 0
  <2> DEFINE d == 2 * w
             x == 20000 * p + w
  <2>1. d \in Nat \ {0} /\ x \in Nat /\ x < 10001 * d
    BY <1>2
  <2>2. Rate(p, w) = x \div d
    BY <1>2 DEF Rate
  <2> HIDE DEF d, x
  <2>3. x \div d \in 0 .. 10000
    BY <2>1, SMTT(30)
  <2> QED BY <2>2, <2>3, SMTT(30)
<1> QED BY <1>1, <1>2, SMTT(30)

LEMMA PartRange ==
  ASSUME NEW S, IsFiniteSet(S), NEW T, T \subseteq S
  PROVE  Rate(Cardinality(T), Cardinality(S)) \in 0 .. 10000
<1> DEFINE p == Cardinality(T)
           w == Cardinality(S)
<1>1. p \in Nat /\ w \in Nat /\ p <= w
  BY Smaller
<1> HIDE DEF p, w
<1>2. Rate(p, w) \in 0 .. 10000
  BY <1>1, RateRange
<1> QED BY <1>2, SMTT(30) DEF p, w

(* The columns of a row, by name.                                          *)
LEMMA Columns ==
  ASSUME NEW rows
  PROVE  LET f    == Features(rows)
             hour == Within(rows, OneHour)
             day  == Within(rows, Day)
             week == Within(rows, SevenDays)
         IN  /\ f.latest_txn_at = Latest(rows)
             /\ f.txn_count_1h = Cardinality(hour)
             /\ f.txn_count_24h = Cardinality(day)
             /\ f.txn_count_7d = Cardinality(week)
             /\ f.txn_count_total = Cardinality(rows)
             /\ f.unique_merchants_1h = Cardinality({r.merchant : r \in hour})
             /\ f.unique_merchants_24h = Cardinality({r.merchant : r \in day})
             /\ f.unique_merchants_7d = Cardinality({r.merchant : r \in week})
             /\ f.unique_cities_24h = Cardinality(CitiesOf(day))
             /\ f.failed_txn_count_24h = Cardinality({r \in day : r.status = "FAILED"})
             /\ f.late_night_txn_count_24h
                  = Cardinality({r \in day : EventHour(r) \in 2 .. 5})
BY DEF Features, Failed24h

(* A user's windows in a build.                                            *)
LEMMA WindowsOf ==
  ASSUME NEW rows, UserRows(rows)
  PROVE  LET hour == Within(rows, OneHour)
             day  == Within(rows, Day)
             week == Within(rows, SevenDays)
         IN  /\ hour # {} /\ hour \subseteq day /\ day \subseteq week /\ week \subseteq rows
             /\ IsFiniteSet(hour) /\ IsFiniteSet(day) /\ IsFiniteSet(week)
<1>1. OneHour \in Nat /\ Day \in Nat /\ SevenDays \in Nat /\ OneHour <= Day /\ Day <= SevenDays
  BY DEF OneHour, Day, SevenDays
<1>2. /\ Within(rows, OneHour) # {}
      /\ Within(rows, OneHour) \subseteq Within(rows, Day)
      /\ Within(rows, Day) \subseteq Within(rows, SevenDays)
      /\ Within(rows, SevenDays) \subseteq rows
  BY <1>1, WithinNested
<1>3. IsFiniteSet(rows)
  BY DEF UserRows
<1> HIDE DEF Within
<1>4. /\ IsFiniteSet(Within(rows, OneHour)) /\ IsFiniteSet(Within(rows, Day))
      /\ IsFiniteSet(Within(rows, SevenDays))
  BY <1>2, <1>3, FS_Subset
<1> QED BY <1>2, <1>4

(* The rows a vector is made of are rows of a user.                        *)
LEMMA MadeOfRows ==
  ASSUME IInv, NEW u \in DOMAIN user_features
  PROVE  \E rows \in SUBSET bronze : MadeOf(u, rows) /\ UserRows(rows)
<1>1. PICK rows \in SUBSET bronze : MadeOf(u, rows)
  BY DEF IInv, Built
<1>2. IsFiniteSet(rows) /\ rows \in SUBSET Event
  BY FS_Subset DEF IInv, AllValid, Valid
<1> QED BY <1>1, <1>2 DEF MadeOf, UserRows

(* Counts of nested windows, and of the merchants in them, are ordered;    *)
(* the smallest one has a row.                                             *)
THEOREM WindowsAreNested == Spec => []WindowsNested
<1>1. IInv => WindowsNested
  <2> SUFFICES ASSUME IInv, NEW u \in DOMAIN user_features,
                      NEW f, f = user_features[u]
               PROVE  /\ 1 <= f.txn_count_1h
                      /\ f.txn_count_1h <= f.txn_count_24h
                      /\ f.txn_count_24h <= f.txn_count_7d
                      /\ f.txn_count_7d <= f.txn_count_total
                      /\ f.unique_merchants_1h <= f.unique_merchants_24h
                      /\ f.unique_merchants_24h <= f.unique_merchants_7d
    BY DEF WindowsNested
  <2>1. PICK rows \in SUBSET bronze : MadeOf(u, rows) /\ UserRows(rows)
    BY MadeOfRows
  <2>2. f = Features(rows)
    BY <2>1 DEF MadeOf
  <2> DEFINE hour == Within(rows, OneHour)
             day  == Within(rows, Day)
             week == Within(rows, SevenDays)
             Of(S) == {r.merchant : r \in S}
  <2>3. /\ hour # {} /\ hour \subseteq day /\ day \subseteq week /\ week \subseteq rows
        /\ IsFiniteSet(hour) /\ IsFiniteSet(day) /\ IsFiniteSet(week) /\ IsFiniteSet(rows)
    BY <2>1, WindowsOf DEF UserRows
  <2>4. /\ f.txn_count_1h = Cardinality(hour) /\ f.txn_count_24h = Cardinality(day)
        /\ f.txn_count_7d = Cardinality(week) /\ f.txn_count_total = Cardinality(rows)
        /\ f.unique_merchants_1h = Cardinality(Of(hour))
        /\ f.unique_merchants_24h = Cardinality(Of(day))
        /\ f.unique_merchants_7d = Cardinality(Of(week))
    BY <2>2, Columns
  <2> HIDE DEF hour, day, week
  <2>5. Of(hour) \subseteq Of(day) /\ Of(day) \subseteq Of(week)
    BY <2>3
  <2>6. IsFiniteSet(Of(day)) /\ IsFiniteSet(Of(week))
    BY <2>3, FiniteColumns
  <2> HIDE DEF Of
  <2>7. Cardinality(hour) \in Nat /\ Cardinality(hour) # 0
    BY <2>3, FS_CardinalityType, FS_EmptySet
  <2>8. /\ Cardinality(hour) <= Cardinality(day) /\ Cardinality(day) <= Cardinality(week)
        /\ Cardinality(week) <= Cardinality(rows)
    BY <2>3, Smaller
  <2>9. /\ Cardinality(Of(hour)) <= Cardinality(Of(day))
        /\ Cardinality(Of(day)) <= Cardinality(Of(week))
    BY <2>5, <2>6, Smaller
  <2> QED BY <2>4, <2>7, <2>8, <2>9
<1> QED BY <1>1, Invariant, PTL

LEMMA ExceedsIsBoolean ==
  \A n, s, q, m : Exceeds(n, s, q, m) \in BOOLEAN
BY SMTT(30) DEF Exceeds

(* A row of the features has its type.                                     *)
LEMMA VectorOf ==
  ASSUME NEW rows, UserRows(rows)
  PROVE  Features(rows) \in Vector
<1> DEFINE hour == Within(rows, OneHour)
           day  == Within(rows, Day)
           week == Within(rows, SevenDays)
           failed  == {r \in day : r.status = "FAILED"}
           refunds == {r \in week : r.type = "REFUND"}
           night   == {r \in day : EventHour(r) \in 2 .. 5}
           m1  == {r.merchant : r \in hour}
           m24 == {r.merchant : r \in day}
           m7  == {r.merchant : r \in week}
           cities == CitiesOf(day)
           failure_rate == Rate(Cardinality(failed), Cardinality(day))
           refund_rate  == Rate(Cardinality(refunds), Cardinality(week))
<1>1. IsFiniteSet(hour) /\ IsFiniteSet(day) /\ IsFiniteSet(week) /\ IsFiniteSet(rows)
  BY WindowsOf DEF UserRows
<1> HIDE DEF hour, day, week
<1>2. /\ Cardinality(hour) \in Nat /\ Cardinality(day) \in Nat
      /\ Cardinality(week) \in Nat /\ Cardinality(rows) \in Nat
  BY <1>1, FS_CardinalityType
<1>3. /\ Cardinality(m1) \in Nat /\ Cardinality(m24) \in Nat
      /\ Cardinality(m7) \in Nat /\ Cardinality(cities) \in Nat
  BY <1>1, FiniteColumns, FS_CardinalityType
<1>4. /\ Cardinality(failed) \in Nat /\ Cardinality(failed) <= Cardinality(day)
      /\ Cardinality(refunds) \in Nat /\ Cardinality(refunds) <= Cardinality(week)
      /\ Cardinality(night) \in Nat
  BY <1>1, Smaller, failed \subseteq day, refunds \subseteq week, night \subseteq day
<1>5. failure_rate \in 0 .. 10000 /\ refund_rate \in 0 .. 10000
  <2>1. failed \subseteq day /\ refunds \subseteq week
    OBVIOUS
  <2> HIDE DEF failed, refunds
  <2>2. failure_rate \in 0 .. 10000
    BY <1>1, <2>1, PartRange, SMTT(30)
  <2>3. refund_rate \in 0 .. 10000
    BY <1>1, <2>1, PartRange, SMTT(30)
  <2> HIDE DEF failure_rate, refund_rate
  <2> QED BY <2>2, <2>3, SMTT(30)
<1> HIDE DEF failed, refunds, night, m1, m24, m7, cities
<1>6. Outlier(rows) \in BOOLEAN
  BY ExceedsIsBoolean DEF Outlier
<1>7. Latest(rows) \in Int
  BY LatestRow
<1>8. Features(rows) =
        [latest_txn_at |-> Latest(rows),
         txn_count_1h |-> Cardinality(hour), txn_count_24h |-> Cardinality(day),
         txn_count_7d |-> Cardinality(week), txn_count_total |-> Cardinality(rows),
         unique_merchants_1h |-> Cardinality(m1),
         unique_merchants_24h |-> Cardinality(m24),
         unique_merchants_7d |-> Cardinality(m7),
         unique_cities_24h |-> Cardinality(cities),
         failed_txn_count_24h |-> Cardinality(failed),
         failure_rate_24h |-> failure_rate, refund_rate_7d |-> refund_rate,
         late_night_txn_count_24h |-> Cardinality(night), outlier |-> Outlier(rows)]
  BY DEF Features, Failed24h, hour, day, week, failed, refunds, night, m1, m24, m7, cities
<1> HIDE DEF failure_rate, refund_rate
<1> QED BY <1>2, <1>3, <1>4, <1>5, <1>6, <1>7, <1>8 DEF Vector

(* The state, and every row of the features, has its type.                 *)
THEOREM TypeCorrect == Spec => []TypeOK
<1>1. IInv => TypeOK
  <2> SUFFICES ASSUME IInv PROVE TypeOK
    OBVIOUS
  <2>1. now \in Clock /\ raised \in BOOLEAN /\ bronze \in SUBSET Event /\ IsFiniteSet(bronze)
    BY DEF IInv, AllValid, Valid
  <2>2. ASSUME NEW u \in DOMAIN user_features
        PROVE  u \in Users /\ user_features[u] \in Vector
    <3>1. PICK rows \in SUBSET bronze : MadeOf(u, rows) /\ UserRows(rows)
      BY <2>2, MadeOfRows
    <3>2. user_features[u] \in Vector
      BY <3>1, VectorOf DEF MadeOf
    <3>3. u \in Users
      BY <3>1 DEF MadeOf, UserRows, Event
    <3> QED BY <3>2, <3>3
  <2> QED BY <2>1, <2>2 DEF TypeOK
<1> QED BY <1>1, Invariant, PTL

-----------------------------------------------------------------------------
(* Theorem about the two gold tables                                       *)

(* The enriched rows are as many as the silver rows, and finitely many.    *)
LEMMA JoinsKeepCount ==
  ASSUME IsFiniteSet(Silver)
  PROVE  IsFiniteSet(Enriched) /\ Cardinality(Enriched) = Cardinality(Silver)
<1> DEFINE City(r) == IF r.user \in InTables THEN Home[r.user] ELSE None
           f == [r \in Silver |-> [row |-> r, city |-> City(r)]]
<1>1. Enriched = {[row |-> r, city |-> City(r)] : r \in Silver}
  BY DEF Enriched
<1> HIDE DEF City
<1>2. f \in Bijection(Silver, Enriched)
  <2>1. f \in Surjection(Silver, Enriched)
    BY <1>1 DEF Surjection
  <2>2. \A r, t \in Silver : f[r] = f[t] => r = t
    <3> SUFFICES ASSUME NEW r \in Silver, NEW t \in Silver, f[r] = f[t] PROVE r = t
      OBVIOUS
    <3>1. f[r].row = r /\ f[t].row = t
      OBVIOUS
    <3> HIDE DEF f
    <3> QED BY <3>1
  <2> HIDE DEF f
  <2> QED BY <2>1, <2>2 DEF Bijection, Injection, IsInjective, Surjection
<1> HIDE DEF f
<1> QED BY <1>2, FS_Bijection DEF ExistsBijection

(* The keys of a finite table are finitely many.                           *)
LEMMA FiniteKeys ==
  ASSUME IsFiniteSet(Silver), IsFiniteSet(Enriched)
  PROVE  IsFiniteSet(UsersSeen) /\ IsFiniteSet(Groups)
<1>1. IsFiniteSet(UsersSeen)
  <2> DEFINE f == [r \in Silver |-> r.user]
  <2>1. f \in Surjection(Silver, UsersSeen)
    BY DEF Surjection, UsersSeen
  <2> QED BY <2>1, FS_Surjection
<1>2. IsFiniteSet(Groups)
  <2> DEFINE f == [e \in Enriched |-> <<e.row.merchant, EventDate(e.row)>>]
  <2>1. f \in Surjection(Enriched, Groups)
    BY DEF Surjection, Groups
  <2> QED BY <2>1, FS_Surjection
<1> QED BY <1>1, <1>2

(* The rows of each user add up to silver.                                 *)
LEMMA UsersAddUp ==
  ASSUME IsFiniteSet(Silver), IsFiniteSet(UsersSeen),
         NEW c, c = [u \in UsersSeen |-> Cardinality(Rows(u))]
  PROVE  Total(c) = Cardinality(Silver)
<1> DEFINE part == [u \in UsersSeen |-> Rows(u)]
<1>1. \A u \in DOMAIN c : part[u] \subseteq Silver /\ c[u] = Cardinality(part[u])
  BY DEF Rows
<1>2. \A k, l \in DOMAIN c : k # l => part[k] \cap part[l] = {}
  BY DEF Rows
<1>3. Silver = UNION {part[u] : u \in DOMAIN c}
  <2>1. \A r \in Silver : r.user \in DOMAIN c /\ r \in part[r.user]
    BY DEF Rows, UsersSeen
  <2> HIDE DEF part
  <2> QED BY <1>1, <2>1
<1>4. IsFiniteSet(DOMAIN c)
  OBVIOUS
<1> HIDE DEF part
<1> QED BY <1>1, <1>2, <1>3, <1>4, TotalOfParts

(* The enriched rows of a merchant and a day.                              *)
Group(g) == {e \in Enriched : e.row.merchant = g[1] /\ EventDate(e.row) = g[2]}

(* The groups add up to the enriched rows.                                 *)
LEMMA GroupsAddUp ==
  ASSUME IsFiniteSet(Enriched), IsFiniteSet(Groups),
         NEW c, c = [g \in Groups |-> Cardinality(Group(g))]
  PROVE  Total(c) = Cardinality(Enriched)
<1> DEFINE part == [g \in Groups |-> Group(g)]
<1>1. \A g \in DOMAIN c : part[g] \subseteq Enriched /\ c[g] = Cardinality(part[g])
  BY DEF Group
<1>2. \A k, l \in DOMAIN c : k # l => part[k] \cap part[l] = {}
  BY DEF Group, Groups
<1>3. Enriched = UNION {part[g] : g \in DOMAIN c}
  <2>1. \A e \in Enriched : \E g \in DOMAIN c : e \in part[g]
    <3> SUFFICES ASSUME NEW e \in Enriched PROVE \E g \in DOMAIN c : e \in part[g]
      OBVIOUS
    <3> DEFINE g == <<e.row.merchant, EventDate(e.row)>>
    <3>1. g \in Groups
      BY DEF Groups
    <3>2. e \in Group(g)
      BY DEF Group
    <3> HIDE DEF g
    <3> QED BY <3>1, <3>2
  <2> HIDE DEF part
  <2> QED BY <1>1, <2>1
<1>4. IsFiniteSet(DOMAIN c)
  OBVIOUS
<1> HIDE DEF part
<1> QED BY <1>1, <1>2, <1>3, <1>4, TotalOfParts

(* Each row of a group has one of three statuses.                          *)
LEMMA StatusesAddUp ==
  ASSUME NEW S, IsFiniteSet(S), \A e \in S : e.row.status \in TransactionStatus
  PROVE  Cardinality(S) = Cardinality({e \in S : e.row.status = "SUCCESS"})
                            + Cardinality({e \in S : e.row.status = "FAILED"})
                            + Cardinality({e \in S : e.row.status = "PENDING"})
<1> DEFINE Of(st) == {e \in S : e.row.status = st}
<1>1. S = (Of("SUCCESS") \cup Of("FAILED")) \cup Of("PENDING")
  BY DEF TransactionStatus
<1>2. /\ Of("SUCCESS") \cap Of("FAILED") = {}
      /\ (Of("SUCCESS") \cup Of("FAILED")) \cap Of("PENDING") = {}
  OBVIOUS
<1>3. IsFiniteSet(Of("SUCCESS")) /\ IsFiniteSet(Of("FAILED")) /\ IsFiniteSet(Of("PENDING"))
  BY FS_Subset, \A st : Of(st) \subseteq S
<1> HIDE DEF Of
<1>4. /\ IsFiniteSet(Of("SUCCESS") \cup Of("FAILED"))
      /\ Cardinality(Of("SUCCESS") \cup Of("FAILED"))
           = Cardinality(Of("SUCCESS")) + Cardinality(Of("FAILED"))
  BY <1>2, <1>3, DisjointSizes
<1>5. Cardinality(S) = Cardinality(Of("SUCCESS")) + Cardinality(Of("FAILED"))
                         + Cardinality(Of("PENDING"))
  BY <1>1, <1>2, <1>3, <1>4, DisjointSizes
<1> QED BY <1>5 DEF Of

(* A build makes two tables of one silver, which divide its rows by two    *)
(* keys: both counts add up to the rows of silver.                         *)
LEMMA BuildAgrees ==
  ASSUME IInv, Build
  PROVE  ModelsAgree'
<1>1. Silver = bronze /\ IsFiniteSet(Silver)
  BY SilverIsBronze DEF IInv, AllValid
<1>2. /\ IsFiniteSet(Enriched) /\ Cardinality(Enriched) = Cardinality(Silver)
      /\ IsFiniteSet(UsersSeen) /\ IsFiniteSet(Groups)
  BY <1>1, JoinsKeepCount, FiniteKeys
<1>3. Total([u \in DOMAIN user_features' |-> user_features'[u].txn_count_total])
        = Cardinality(Silver)
  <2> DEFINE c == [u \in DOMAIN user_features' |-> user_features'[u].txn_count_total]
  <2>1. user_features' = [u \in UsersSeen |-> Features(Rows(u))]
    BY DEF Build
  <2>2. \A u \in UsersSeen : Features(Rows(u)).txn_count_total = Cardinality(Rows(u))
    BY Columns
  <2>3. c = [u \in UsersSeen |-> Cardinality(Rows(u))]
    BY <2>1, <2>2
  <2> HIDE DEF c
  <2>4. Total(c) = Cardinality(Silver)
    BY <1>1, <1>2, <2>3, UsersAddUp
  <2> QED BY <2>4 DEF c
<1>4. \A g \in Groups :
        /\ DailyStats(g[1], g[2]).txn_count = Cardinality(Group(g))
        /\ DailyStats(g[1], g[2]).success_count
             = Cardinality({e \in Group(g) : e.row.status = "SUCCESS"})
        /\ DailyStats(g[1], g[2]).failed_count
             = Cardinality({e \in Group(g) : e.row.status = "FAILED"})
        /\ DailyStats(g[1], g[2]).pending_count
             = Cardinality({e \in Group(g) : e.row.status = "PENDING"})
  BY DEF DailyStats, Group
<1>5. merchant_stats' = [g \in Groups |-> DailyStats(g[1], g[2])]
  BY DEF Build
<1>6. Total([g \in DOMAIN merchant_stats' |-> merchant_stats'[g].txn_count])
        = Cardinality(Enriched)
  <2> DEFINE c == [g \in DOMAIN merchant_stats' |-> merchant_stats'[g].txn_count]
  <2>1. c = [g \in Groups |-> Cardinality(Group(g))]
    BY <1>4, <1>5
  <2> HIDE DEF c
  <2>2. Total(c) = Cardinality(Enriched)
    BY <1>2, <2>1, GroupsAddUp
  <2> QED BY <2>2 DEF c
<1>7. ASSUME NEW g \in Groups
      PROVE  LET s == DailyStats(g[1], g[2])
             IN  s.txn_count = s.success_count + s.failed_count + s.pending_count
  <2>1. IsFiniteSet(Group(g))
    BY <1>2, FS_Subset, Group(g) \subseteq Enriched DEF Group
  <2>2. \A e \in Group(g) : e.row.status \in TransactionStatus
    BY <1>1 DEF Group, Enriched, IInv, AllValid, Valid
  <2> QED BY <1>4, <2>1, <2>2, StatusesAddUp
<1>8. \A g \in DOMAIN merchant_stats' :
        LET s == merchant_stats'[g]
        IN  s.txn_count = s.success_count + s.failed_count + s.pending_count
  BY <1>5, <1>7
<1> QED BY <1>2, <1>3, <1>6, <1>8 DEF ModelsAgree

(* The two gold tables count the same rows, by user and by merchant and    *)
(* day, and a group's rows by status.                                      *)
THEOREM CountsAgree == Spec => []ModelsAgree
<1>1. Init => ModelsAgree
  <2> SUFFICES ASSUME Init PROVE ModelsAgree
    OBVIOUS
  <2>1. user_features = <<>> /\ merchant_stats = <<>>
    BY DEF Init
  <2>2. [u \in DOMAIN user_features |-> user_features[u].txn_count_total]
          = [g \in DOMAIN merchant_stats |-> merchant_stats[g].txn_count]
    BY <2>1
  <2>3. DOMAIN merchant_stats = {}
    BY <2>1
  <2> QED BY <2>2, <2>3 DEF ModelsAgree
<1>2. ModelsAgree /\ IInv /\ [Next]_vars => ModelsAgree'
  <2> SUFFICES ASSUME ModelsAgree, IInv, [Next]_vars PROVE ModelsAgree'
    OBVIOUS
  <2>1. CASE Build
    BY <2>1, BuildAgrees
  <2>2. CASE UNCHANGED <<user_features, merchant_stats>>
    BY <2>2 DEF ModelsAgree
  <2> QED BY <2>1, <2>2 DEF Next, Tick, Generate, Offer, Publish, vars
<1> QED BY <1>1, <1>2, Invariant, PTL DEF Spec

-----------------------------------------------------------------------------
(* Theorems about decisions                                                *)

LEMMA ThreeReasons ==
  ASSUME NEW R, IsFiniteSet(R), NEW a \in R, NEW b \in R, NEW c \in R, a # b, a # c, b # c
  PROVE  Cardinality(R) >= 3
<1>1. IsFiniteSet({a}) /\ Cardinality({a}) = 1
  BY FS_Singleton
<1>2. IsFiniteSet({a} \cup {b})
  BY <1>1, FS_AddElement
<1>3. Cardinality({a} \cup {b}) = 2
  BY <1>1, FS_AddElement, b \notin {a}
<1> DEFINE two == {a} \cup {b}
<1>4. IsFiniteSet(two) /\ Cardinality(two) = 2 /\ c \notin two
  BY <1>2, <1>3
<1> HIDE DEF two
<1>5. Cardinality(two \cup {c}) = Cardinality(two) + 1
  BY <1>4, FS_AddElement
<1>6. Cardinality(two \cup {c}) = 3
  BY <1>4, <1>5
<1>7. two \cup {c} \subseteq R
  BY DEF two
<1> QED BY <1>6, <1>7, Smaller

LEMMA TwoReasons ==
  ASSUME NEW R, NEW a, NEW b, a # b, R = {a, b}
  PROVE  Cardinality(R) = 2
<1>1. IsFiniteSet({a}) /\ Cardinality({a}) = 1
  BY FS_Singleton
<1>2. Cardinality({a} \cup {b}) = 2
  BY <1>1, FS_AddElement, b \notin {a}
<1> QED BY <1>2, R = {a} \cup {b}

(* The limit of the scorer is above that of the dashboard.                 *)
LEMMA FailuresShow ==
  ASSUME NEW f \in Vector, "failures" \in Reasons(f)
  PROVE  "high_failure_rate" \in Anomalies(f)
<1>1. f.failure_rate_24h \in 0 .. 10000
  BY SMTT(30) DEF Vector
<1>2. f.failure_rate_24h > 4000
  BY DEF Reasons
<1> DEFINE rate == f.failure_rate_24h
<1> HIDE DEF rate
<1>3. rate \in 0 .. 10000 /\ rate > 4000
  BY <1>1, <1>2, SMTT(30) DEF rate
<1>4. rate > 2000
  BY <1>3
<1> QED BY <1>4 DEF Anomalies, rate

(* Two reasons that block include the failure rate, whatever the noise;    *)
(* the rate is then above the limit of the dashboard too.                  *)
THEOREM BlocksAreExplained == Spec => []BlockIsExplained
<1>1. ASSUME NEW f \in Vector, CanBlock(f)
      PROVE  \/ Cardinality(Reasons(f)) >= 3
             \/ /\ Cardinality(Reasons(f)) = 2 /\ "failures" \in Reasons(f)
                /\ "high_failure_rate" \in Anomalies(f)
  <2> DEFINE R == Reasons(f)
             five == {"velocity", "failures", "cities", "night", "amount"}
             P(x, w) == IF x \in R THEN w ELSE 0
  <2>1. R \subseteq five
    BY DEF Reasons
  <2>2. IsFiniteSet(R)
    <3>1. IsFiniteSet({"velocity"})
      BY FS_Singleton
    <3>2. IsFiniteSet({"velocity"} \cup {"failures"})
      BY <3>1, FS_AddElement
    <3>3. IsFiniteSet({"velocity"} \cup {"failures"} \cup {"cities"})
      BY <3>2, FS_AddElement
    <3>4. IsFiniteSet({"velocity"} \cup {"failures"} \cup {"cities"} \cup {"night"})
      BY <3>3, FS_AddElement
    <3>5. IsFiniteSet({"velocity"} \cup {"failures"} \cup {"cities"} \cup {"night"}
                        \cup {"amount"})
      BY <3>4, FS_AddElement
    <3> QED BY <2>1, <3>5, FS_Subset
  <2>3. PICK noise \in 0 .. 15 :
          P("velocity", 30) + P("failures", 40) + P("cities", 30) + P("night", 20)
            + P("amount", 25) + noise > 75
    BY <1>1 DEF CanBlock, Noise, Blocked, risk_score, Weight
  <2> HIDE DEF R
  <2>4. \/ \E a, b, c \in R : a # b /\ a # c /\ b # c
        \/ \E a \in five : a # "failures" /\ R = {"failures", a}
    <3>1. \A x, y, z \in five : x # y /\ x # z /\ y # z /\ {x, y, z} \subseteq R =>
            \E a, b, c \in R : a # b /\ a # c /\ b # c
      OBVIOUS
    <3>2. CASE \A x, y, z \in five : x # y /\ x # z /\ y # z => ~({x, y, z} \subseteq R)
      <4>1. "failures" \in R
        BY <2>3, <3>2
      <4>2. \E a \in five : a # "failures" /\ a \in R
        BY <2>3
      <4>3. PICK a \in five : a # "failures" /\ a \in R
        BY <4>2
      <4>4. \A b \in R : b = "failures" \/ b = a
        BY <2>1, <3>2, <4>1, <4>3
      <4>5. R = {"failures", a}
        BY <4>1, <4>3, <4>4
      <4> QED BY <4>3, <4>5
    <3> QED BY <3>1, <3>2
  <2>5. "failures" \in R => "high_failure_rate" \in Anomalies(f)
    BY FailuresShow DEF R
  <2>6. CASE \E a, b, c \in R : a # b /\ a # c /\ b # c
    BY <2>2, <2>6, ThreeReasons DEF R
  <2>7. CASE \E a \in five : a # "failures" /\ R = {"failures", a}
    <3>1. PICK a \in five : a # "failures" /\ R = {"failures", a}
      BY <2>7
    <3>2. Cardinality(R) = 2
      BY <3>1, TwoReasons
    <3> QED BY <2>5, <3>1, <3>2 DEF R
  <2> QED BY <2>4, <2>6, <2>7
<1>2. TypeOK => BlockIsExplained
  BY <1>1 DEF TypeOK, BlockIsExplained
<1> QED BY <1>2, TypeCorrect, PTL

(* The largest of the latest amounts is the amount of one of the rows.     *)
LEMMA LatestAmount ==
  ASSUME NEW rows, UserRows(rows)
  PROVE  \E r \in rows : Max({Paise(x) : x \in Within(rows, 0)}) = Paise(r)
<1> DEFINE L == Within(rows, 0)
           P == {Paise(x) : x \in L}
<1>1. L # {} /\ L \subseteq rows
  BY WithinNested, 0 \in Nat
<1>2. IsFiniteSet(L)
  BY <1>1, FS_Subset DEF UserRows
<1> HIDE DEF L
<1>3. \A x \in L : Paise(x) \in Int
  BY <1>1, PaiseIsInt DEF UserRows
<1>4. IsFiniteSet(P)
  <2> DEFINE f == [x \in L |-> Paise(x)]
  <2>1. f \in Surjection(L, P)
    BY DEF Surjection
  <2> QED BY <1>2, <2>1, FS_Surjection
<1>5. P \in SUBSET Int /\ P # {}
  BY <1>1, <1>3
<1> HIDE DEF P
<1>6. Max(P) \in P
  BY <1>4, <1>5, LargestExists
<1> QED BY <1>1, <1>6 DEF P, L

(* Of ten rows or fewer none is an outlier.                                *)
LEMMA FewRowsNoOutlier ==
  ASSUME NEW rows, UserRows(rows), Cardinality(rows) <= 10
  PROVE  ~Outlier(rows)
<1> DEFINE f == [r \in rows |-> Paise(r)]
           h == [r \in rows |-> Paise(r) * Paise(r)]
           n == Cardinality(rows)
           s == Total(f)
           q == Total(h)
           m == Max({Paise(x) : x \in Within(rows, 0)})
           d == n * q - s * s
<1>1. SUFFICES ASSUME Exceeds(n, s, q, m) PROVE FALSE
  BY DEF Outlier
<1>2. IsFiniteSet(rows) /\ \A r \in rows : Paise(r) \in Int /\ Paise(r) * Paise(r) \in Int
  BY PaiseIsInt, SquareIsNat DEF UserRows
<1>3. Whole(f, rows) /\ Whole(h, rows) /\ \A r \in rows : h[r] = f[r] * f[r]
  BY <1>2 DEF Whole
<1>4. DOMAIN f = rows /\ DOMAIN h = rows
  OBVIOUS
<1>5. PICK r \in rows : m = Paise(r)
  BY LatestAmount
<1>6. f[r] = m /\ h[r] = m * m /\ m \in Int
  BY <1>2, <1>5
<1> HIDE DEF f, h, m
<1>7. PICK g : s = g[rows] /\ IsSum(g, f, rows)
  BY <1>2, <1>3, <1>4, TotalSums
<1>8. PICK p : q = p[rows] /\ IsSum(p, h, rows)
  BY <1>2, <1>3, <1>4, TotalSums
<1> DEFINE others == rows \ {r}
           k == Cardinality(others)
           a == g[others]
           b == p[others]
<1>9. k * b >= a * a
  BY <1>2, <1>3, <1>7, <1>8, SquaresBound, others \in SUBSET rows
<1>10. a \in Int /\ b \in Int /\ s = m + a /\ q = m * m + b
  <2>1. others \in SUBSET rows /\ rows \in SUBSET rows
    OBVIOUS
  <2> HIDE DEF s, q
  <2> QED BY <1>5, <1>6, <1>7, <1>8, <2>1 DEF IsSum
<1>11. k \in Nat /\ n = k + 1
  <2>1. k \in Nat /\ k = n - 1 /\ n \in Nat
    BY <1>2, <1>5, FS_RemoveElement, FS_CardinalityType
  <2> HIDE DEF k, n
  <2> QED BY <2>1
<1> HIDE DEF n, s, q, others, k, a, b
<1>12. /\ n > 1 /\ n * d > 0
       /\ (n * m - s) * (n * m - s) * (n - 1) > 3 * 3 * (n * d) + (3 * (n * d)) \div 10000
  BY <1>1 DEF Exceeds, ZLimit
<1>13. k \in 1 .. 9
  <2>1. n <= 10
    BY DEF n
  <2> QED BY <1>11, <1>12, <2>1
<1>14. s \in Int /\ q \in Int /\ d \in Int /\ s = a + m /\ q = b + m * m
  BY <1>6, <1>10, <1>11, SquareIsNat
<1> HIDE DEF d
<1>15. d > 0
  BY <1>11, <1>12, <1>14
<1>16. (n * m - s) * (n * m - s) * k <= 9 * (n * d)
  BY <1>6, <1>9, <1>10, <1>11, <1>13, <1>14, <1>15, FewAreNoOutliers DEF d
<1> DEFINE x == (n * m - s) * (n * m - s)
           y == n * d
<1>17. x * k <= 9 * y /\ x * k > 9 * y + (3 * y) \div 10000 /\ y \in Int /\ y > 0 /\ x \in Int
  <2>1. n - 1 = k /\ 3 * 3 * (n * d) = 9 * (n * d)
    BY <1>11, <1>14
  <2> QED BY <1>6, <1>11, <1>12, <1>14, <1>16, <2>1
<1> HIDE DEF x, y
<1>18. (3 * y) \div 10000 >= 0
  BY <1>17
<1>19. x * k \in Int
  BY <1>13, <1>17
<1> QED BY <1>17, <1>18, <1>19

(* A user with ten transactions or fewer has no outlier and no velocity,   *)
(* and what is left blocks with failures and cities together only.         *)
THEOREM NewUsersAreSafe == Spec => []NewUsersNeedCities
<1>1. ASSUME IInv, NEW u \in DOMAIN user_features,
             NEW f, f = user_features[u], f.txn_count_total <= 10, CanBlock(f)
      PROVE  {"failures", "cities"} \subseteq Reasons(f)
  <2>1. PICK rows \in SUBSET bronze : MadeOf(u, rows) /\ UserRows(rows)
    BY <1>1, MadeOfRows
  <2>2. f = Features(rows)
    BY <1>1, <2>1 DEF MadeOf
  <2>3. /\ f.txn_count_24h = Cardinality(Within(rows, Day))
        /\ f.txn_count_total = Cardinality(rows)
        /\ f.outlier = Outlier(rows)
    BY <2>2, Columns DEF Features
  <2>4. IsFiniteSet(rows) /\ Within(rows, Day) \subseteq rows
    BY <2>1, WindowsOf DEF UserRows
  <2>5. /\ Cardinality(Within(rows, Day)) \in Nat /\ Cardinality(rows) \in Nat
        /\ Cardinality(Within(rows, Day)) <= Cardinality(rows)
    BY <2>4, Smaller
  <2>6. ~ f.outlier
    BY <1>1, <2>1, <2>3, FewRowsNoOutlier
  <2>7. ~ (f.txn_count_24h > 15)
    BY <1>1, <2>3, <2>5
  <2>8. "amount" \notin Reasons(f) /\ "velocity" \notin Reasons(f)
    BY <2>6, <2>7 DEF Reasons
  <2>9. PICK noise \in 0 .. 15 : risk_score(f, noise) > 75
    BY <1>1 DEF CanBlock, Noise, Blocked
  <2> QED BY <2>8, <2>9 DEF risk_score, Weight
<1>2. IInv => NewUsersNeedCities
  BY <1>1 DEF NewUsersNeedCities
<1> QED BY <1>2, Invariant, PTL

-----------------------------------------------------------------------------
(* Theorem about successive builds                                         *)

(* With more rows of the user and the same latest one no count is lower.   *)
LEMMA CountsGrow ==
  ASSUME NEW S, UserRows(S), NEW T, UserRows(T), S \subseteq T,
         Latest(S) = Latest(T),
         NEW f, f = Features(S), NEW g, g = Features(T)
  PROVE  /\ f.txn_count_1h <= g.txn_count_1h
         /\ f.txn_count_24h <= g.txn_count_24h
         /\ f.txn_count_7d <= g.txn_count_7d
         /\ f.unique_cities_24h <= g.unique_cities_24h
         /\ f.failed_txn_count_24h <= g.failed_txn_count_24h
         /\ f.late_night_txn_count_24h <= g.late_night_txn_count_24h
<1> DEFINE Hour(X) == Within(X, OneHour)
           DayOf(X) == Within(X, Day)
           Week(X) == Within(X, SevenDays)
           Cities24(X) == CitiesOf(DayOf(X))
           Failed(X) == {r \in DayOf(X) : r.status = "FAILED"}
           Night(X) == {r \in DayOf(X) : EventHour(r) \in 2 .. 5}
<1>1. OneHour \in Nat /\ Day \in Nat /\ SevenDays \in Nat
  BY DEF OneHour, Day, SevenDays
<1>2. Hour(S) \subseteq Hour(T) /\ DayOf(S) \subseteq DayOf(T) /\ Week(S) \subseteq Week(T)
  BY <1>1, WithinGrows
<1>3. IsFiniteSet(Hour(T)) /\ IsFiniteSet(DayOf(T)) /\ IsFiniteSet(Week(T))
  BY WindowsOf
<1>4. /\ f.txn_count_1h = Cardinality(Hour(S)) /\ g.txn_count_1h = Cardinality(Hour(T))
      /\ f.txn_count_24h = Cardinality(DayOf(S)) /\ g.txn_count_24h = Cardinality(DayOf(T))
      /\ f.txn_count_7d = Cardinality(Week(S)) /\ g.txn_count_7d = Cardinality(Week(T))
  BY Columns
<1>5. /\ f.unique_cities_24h = Cardinality(Cities24(S))
      /\ g.unique_cities_24h = Cardinality(Cities24(T))
  BY Columns
<1>6. /\ f.failed_txn_count_24h = Cardinality(Failed(S))
      /\ g.failed_txn_count_24h = Cardinality(Failed(T))
  BY Columns
<1>7. /\ f.late_night_txn_count_24h = Cardinality(Night(S))
      /\ g.late_night_txn_count_24h = Cardinality(Night(T))
  BY Columns
<1> HIDE DEF Hour, DayOf, Week
<1>8. Cities24(S) \subseteq Cities24(T) /\ Failed(S) \subseteq Failed(T) /\ Night(S) \subseteq Night(T)
  BY <1>2 DEF CitiesOf
<1>9. IsFiniteSet(Cities24(T)) /\ IsFiniteSet(Failed(T)) /\ IsFiniteSet(Night(T))
  BY <1>3, FiniteColumns, FS_Subset, Failed(T) \subseteq DayOf(T), Night(T) \subseteq DayOf(T)
<1> HIDE DEF Cities24, Failed, Night
<1>10. /\ Cardinality(Hour(S)) <= Cardinality(Hour(T))
       /\ Cardinality(DayOf(S)) <= Cardinality(DayOf(T))
       /\ Cardinality(Week(S)) <= Cardinality(Week(T))
  BY <1>2, <1>3, Smaller
<1>11. /\ Cardinality(Cities24(S)) <= Cardinality(Cities24(T))
       /\ Cardinality(Failed(S)) <= Cardinality(Failed(T))
       /\ Cardinality(Night(S)) <= Cardinality(Night(T))
  BY <1>8, <1>9, Smaller
<1> QED BY <1>4, <1>5, <1>6, <1>7, <1>10, <1>11

(* From build to build a user stays, the latest transaction is no earlier, *)
(* and as long as it is the same no count is lower.                        *)
THEOREM LateRowsAdd == Spec => OnlyLaterRowsForget
<1> DEFINE Step(u) ==
      /\ u \in DOMAIN user_features'
      /\ user_features[u].latest_txn_at <= user_features'[u].latest_txn_at
      /\ user_features[u].latest_txn_at = user_features'[u].latest_txn_at =>
           /\ user_features[u].txn_count_1h <= user_features'[u].txn_count_1h
           /\ user_features[u].txn_count_24h <= user_features'[u].txn_count_24h
           /\ user_features[u].txn_count_7d <= user_features'[u].txn_count_7d
           /\ user_features[u].unique_cities_24h <= user_features'[u].unique_cities_24h
           /\ user_features[u].failed_txn_count_24h <= user_features'[u].failed_txn_count_24h
           /\ user_features[u].late_night_txn_count_24h
                <= user_features'[u].late_night_txn_count_24h
<1>1. IInv /\ [Next]_vars => [\A u \in DOMAIN user_features : Step(u)]_vars
  <2> SUFFICES ASSUME IInv, Next, NEW u \in DOMAIN user_features PROVE Step(u)
    OBVIOUS
  <2>1. PICK S \in SUBSET bronze : MadeOf(u, S) /\ UserRows(S)
    BY MadeOfRows
  <2>2. user_features[u] = Features(S) /\ user_features[u].latest_txn_at = Latest(S)
    BY <2>1, Columns DEF MadeOf
  <2>3. CASE UNCHANGED user_features
    <3>1. Latest(S) <= Latest(S)
      BY <2>1, LatestRow
    <3> QED BY <2>1, <2>2, <2>3, <3>1, CountsGrow
  <2>4. CASE Build
    <3>1. Silver = bronze
      BY SilverIsBronze DEF IInv
    <3>2. u \in UsersSeen /\ S \subseteq Rows(u)
      BY <2>1, <3>1 DEF MadeOf, UsersSeen, Rows
    <3>3. UserRows(Rows(u))
      BY <3>2, RowsOfUser, FS_Subset DEF IInv, AllValid, Valid, UserRows
    <3>4. u \in DOMAIN user_features' /\ user_features'[u] = Features(Rows(u))
      BY <2>4, <3>2 DEF Build
    <3>5. user_features'[u].latest_txn_at = Latest(Rows(u))
      BY <3>4, Columns
    <3>6. Latest(S) <= Latest(Rows(u))
      BY <2>1, <3>2, <3>3, WithinGrows, 0 \in Nat
    <3> QED BY <2>1, <2>2, <3>2, <3>3, <3>4, <3>5, <3>6, CountsGrow
  <2> QED BY <2>3, <2>4 DEF Next, Tick, Generate, Offer, Publish
<1>2. Spec => [][\A u \in DOMAIN user_features : Step(u)]_vars
  BY <1>1, Invariant, PTL DEF Spec
<1> QED BY <1>2 DEF OnlyLaterRowsForget

=============================================================================
