-------------------------------- MODULE Sums --------------------------------
(***************************************************************************)
(* Sums over finite sets, as the totals of GPUs and quotas take them       *)
(* (SumFunctionOnSet of the community module Functions): they do not       *)
(* depend on the order of the terms, grow with the terms and the indices,  *)
(* add up over disjoint sets, and are the same for a table by rows and by  *)
(* columns.  And what a solver may select (Selections).                    *)
(*                                                                         *)
(* Induction over finite sets is done without an induction theorem: were   *)
(* a fact false of some subset, it would be false of a minimal one, of     *)
(* which one element can be taken away.                                    *)
(***************************************************************************)
EXTENDS Integers, FiniteSets, Functions, Selections, FiniteSetTheorems, TLAPS

\* Of the subsets of a finite set that are Bad, one has no smaller Bad subset.
LEMMA MinimalSubset ==
    ASSUME NEW S, IsFiniteSet(S), NEW Bad, Bad \subseteq SUBSET S, Bad # {}
    PROVE  \E s \in Bad : \A t \in SUBSET s : t # s => t \notin Bad
<1>1. IsWellFoundedOn(StrictSubsetOrdering(S), FiniteSubsetsOf(S))
  BY FS_StrictSubsetOrderingWellFounded
<1>2. FiniteSubsetsOf(S) = SUBSET S
  BY FS_FiniteSubsetsOfFinite
<1>3. IsWellFoundedOn(StrictSubsetOrdering(S), SUBSET S)
  BY <1>1, <1>2
<1>4. PICK s \in Bad : \A t \in Bad : ~ (<<t, s>> \in StrictSubsetOrdering(S))
  BY <1>3, WFMin
<1>5. \A t \in SUBSET s : t # s => t \notin Bad
  <2> SUFFICES ASSUME NEW t \in SUBSET s, t # s, t \in Bad PROVE FALSE
    OBVIOUS
  <2>1. <<t, s>> \in StrictSubsetOrdering(S)
    BY DEF StrictSubsetOrdering
  <2> QED BY <2>1, <1>4
<1> QED BY <1>5

\* A set of numbers has a least one.
LEMMA MinimalNumber ==
    ASSUME NEW Bad, Bad \subseteq Nat, Bad # {}
    PROVE  \E n \in Bad : \A m \in Bad : n <= m
<1>1. PICK k \in Bad : TRUE
  OBVIOUS
<1> DEFINE Upto == {0..m : m \in {m \in Bad : m <= k}}
<1>2. \E s \in Upto : \A t \in SUBSET s : t # s => t \notin Upto
  <2>1. IsFiniteSet(0..k)
    BY FS_Interval
  <2>2. Upto \subseteq SUBSET (0..k)
    OBVIOUS
  <2>3. Upto # {}
    BY <1>1
  <2> HIDE DEF Upto
  <2> QED BY <2>1, <2>2, <2>3, MinimalSubset
<1>3. PICK n \in Bad : n <= k /\ \A t \in SUBSET (0..n) : t # 0..n => t \notin Upto
  BY <1>2
<1>4. ASSUME NEW m \in Bad, m < n PROVE FALSE
  <2>1. 0..m \in Upto
    BY <1>3, <1>4
  <2>2. 0..m \subseteq 0..n /\ 0..m # 0..n
    <3>1. n \in 0..n /\ n \notin 0..m
      BY <1>4
    <3> QED BY <1>4, <3>1
  <2> QED BY <2>1, <2>2, <1>3
<1> QED BY <1>4
-----------------------------------------------------------------------------
\* iter is the recursive function SumFunctionOnSet(f, S) takes its value from.
SumEquation(f, D, iter) ==
    iter = [s \in D |-> IF s = {} THEN 0
                        ELSE f[CHOOSE x \in s : TRUE] + iter[s \ {CHOOSE x \in s : TRUE}]]

\* There is such a function over the subsets of a finite set.
LEMMA SumsExists ==
    ASSUME NEW f, NEW S, IsFiniteSet(S)
    PROVE  \E iter : SumEquation(f, SUBSET S, iter)
<1> DEFINE D(n)  == {s \in SUBSET S : Cardinality(s) <= n}
           Bad == {n \in Nat : ~ \E iter : SumEquation(f, D(n), iter)}
<1>1. \A s \in SUBSET S : IsFiniteSet(s) /\ Cardinality(s) \in Nat
                          /\ Cardinality(s) <= Cardinality(S)
  BY FS_Subset, FS_CardinalityType
<1>2. Bad = {}
  <2> SUFFICES ASSUME Bad # {} PROVE FALSE
    OBVIOUS
  <2>1. PICK n \in Bad : \A m \in Bad : n <= m
    <3> HIDE DEF Bad
    <3>1. Bad \subseteq Nat
      BY DEF Bad
    <3> QED BY <3>1, MinimalNumber
  <2>2. n # 0
    <3> SUFFICES ASSUME n = 0 PROVE FALSE
      OBVIOUS
    <3>1. D(0) = {{}}
      BY <1>1, FS_EmptySet
    <3>2. SumEquation(f, D(0), [s \in D(0) |-> 0])
      BY <3>1 DEF SumEquation
    <3> QED BY <3>2, <2>1
  <2>3. PICK g : SumEquation(f, D(n - 1), g)
    <3> HIDE DEF D
    <3>1. n - 1 \in Nat /\ n - 1 < n
      BY <2>1, <2>2
    <3>2. n - 1 \notin Bad
      <4> HIDE DEF Bad
      <4>1. n \in Nat
        BY DEF Bad
      <4> QED BY <3>1, <2>1, <4>1
    <3> QED BY <3>1, <3>2
  <2> DEFINE h == [s \in D(n) |->
                      IF s = {} THEN 0
                      ELSE f[CHOOSE x \in s : TRUE] + g[s \ {CHOOSE x \in s : TRUE}]]
  <2>4. ASSUME NEW s \in D(n), s # {}
        PROVE  s \ {CHOOSE x \in s : TRUE} \in D(n - 1)
    <3>1. (CHOOSE x \in s : TRUE) \in s
      BY <2>4
    <3>2. Cardinality(s \ {CHOOSE x \in s : TRUE}) = Cardinality(s) - 1
      BY <1>1, <3>1, FS_RemoveElement
    <3> QED BY <1>1, <2>1, <3>2
  <2>5. \A s \in D(n - 1) : s \in D(n) /\ h[s] = g[s]
    <3> SUFFICES ASSUME NEW s \in D(n - 1) PROVE s \in D(n) /\ h[s] = g[s]
      OBVIOUS
    <3>1. s \in D(n)
      BY <1>1, <2>1
    <3>2. g[s] = IF s = {} THEN 0
                 ELSE f[CHOOSE x \in s : TRUE] + g[s \ {CHOOSE x \in s : TRUE}]
      <4> HIDE DEF D
      <4> QED BY <2>3 DEF SumEquation
    <3> QED BY <3>1, <3>2
  <2>6. SumEquation(f, D(n), h)
    <3>1. \A s \in D(n) : s # {} =>
              h[s \ {CHOOSE x \in s : TRUE}] = g[s \ {CHOOSE x \in s : TRUE}]
      BY <2>4, <2>5
    <3>2. h = [s \in D(n) |->
                      IF s = {} THEN 0
                      ELSE f[CHOOSE x \in s : TRUE] + h[s \ {CHOOSE x \in s : TRUE}]]
      <4> HIDE DEF D
      <4>1. \A s \in D(n) :
               (IF s = {} THEN 0
                ELSE f[CHOOSE x \in s : TRUE] + g[s \ {CHOOSE x \in s : TRUE}])
               = (IF s = {} THEN 0
                  ELSE f[CHOOSE x \in s : TRUE] + h[s \ {CHOOSE x \in s : TRUE}])
        <5> HIDE DEF h
        <5> QED BY <3>1
      <4>2. \A s \in D(n) : h[s] =
               (IF s = {} THEN 0
                ELSE f[CHOOSE x \in s : TRUE] + g[s \ {CHOOSE x \in s : TRUE}])
        OBVIOUS
      <4>3. \A s \in D(n) : h[s] =
               (IF s = {} THEN 0
                ELSE f[CHOOSE x \in s : TRUE] + h[s \ {CHOOSE x \in s : TRUE}])
        <5> HIDE DEF h
        <5> QED BY <4>1, <4>2
      <4>4. DOMAIN h = D(n) /\ h = [s \in DOMAIN h |-> h[s]]
        OBVIOUS
      <4> HIDE DEF h
      <4> QED BY <4>3, <4>4
    <3> QED BY <3>2 DEF SumEquation
  <2> QED BY <2>6, <2>1
<1>3. Cardinality(S) \in Nat
  BY FS_CardinalityType
<1>4. D(Cardinality(S)) = SUBSET S
  BY <1>1
<1>5. \E iter : SumEquation(f, D(Cardinality(S)), iter)
  BY <1>2, <1>3
<1> QED BY <1>4, <1>5

\* The value of a sum, as any function that satisfies the equation gives it.
LEMMA SumIs ==
    ASSUME NEW f, NEW S, IsFiniteSet(S)
    PROVE  \E iter : SumEquation(f, SUBSET S, iter) /\ SumFunctionOnSet(f, S) = iter[S]
<1> DEFINE body == CHOOSE iter : SumEquation(f, SUBSET S, iter)
<1>1. SumEquation(f, SUBSET S, body)
  BY SumsExists
<1>2. SumFunctionOnSet(f, S) = body[S]
  BY DEF SumFunctionOnSet, FoldFunctionOnSet, MapThenFoldSet, SumEquation
<1> QED BY <1>1, <1>2

\* It is the same for functions that agree, and inside a larger set.
LEMMA SumsAgree ==
    \A f, g, S, T, i, j :
        /\ T \subseteq S /\ IsFiniteSet(T)
        /\ \A x \in T : f[x] = g[x]
        /\ SumEquation(f, SUBSET S, i) /\ SumEquation(g, SUBSET T, j)
        => i[T] = j[T]
<1> TAKE f, g, S, T, i, j
<1> HAVE /\ T \subseteq S /\ IsFiniteSet(T)
         /\ \A x \in T : f[x] = g[x]
         /\ SumEquation(f, SUBSET S, i) /\ SumEquation(g, SUBSET T, j)
<1> DEFINE Bad == {s \in SUBSET T : i[s] # j[s]}
<1>1. ASSUME Bad # {} PROVE FALSE
  <2>1. PICK s \in Bad : \A t \in SUBSET s : t # s => t \notin Bad
    <3> HIDE DEF Bad
    <3>1. Bad \subseteq SUBSET T
      BY DEF Bad
    <3> QED BY <3>1, <1>1, MinimalSubset
  <2>2. i[s] = IF s = {} THEN 0
               ELSE f[CHOOSE x \in s : TRUE] + i[s \ {CHOOSE x \in s : TRUE}]
    BY <2>1 DEF SumEquation
  <2>3. j[s] = IF s = {} THEN 0
               ELSE g[CHOOSE x \in s : TRUE] + j[s \ {CHOOSE x \in s : TRUE}]
    BY <2>1 DEF SumEquation
  <2>4. s # {} => /\ (CHOOSE x \in s : TRUE) \in s
                  /\ i[s \ {CHOOSE x \in s : TRUE}] = j[s \ {CHOOSE x \in s : TRUE}]
    BY <2>1
  <2> QED BY <2>1, <2>2, <2>3, <2>4
<1> QED BY <1>1

\* Any element may be taken first.
LEMMA SumsAnyFirst ==
    \A f, S, i :
        IsFiniteSet(S) /\ (\A x \in S : f[x] \in Int) /\ SumEquation(f, SUBSET S, i)
        => \A s \in SUBSET S : /\ i[s] \in Int
                               /\ \A x \in s : i[s] = f[x] + i[s \ {x}]
<1> SUFFICES ASSUME NEW f, NEW S, IsFiniteSet(S), \A x \in S : f[x] \in Int,
                    NEW i, SumEquation(f, SUBSET S, i)
             PROVE  \A s \in SUBSET S : /\ i[s] \in Int
                                        /\ \A x \in s : i[s] = f[x] + i[s \ {x}]
  OBVIOUS
<1> DEFINE Bad == {s \in SUBSET S : ~ (/\ i[s] \in Int
                                       /\ \A x \in s : i[s] = f[x] + i[s \ {x}])}
<1>1. ASSUME Bad # {} PROVE FALSE
  <2>1. PICK s \in Bad : \A t \in SUBSET s : t # s => t \notin Bad
    <3> HIDE DEF Bad
    <3>1. Bad \subseteq SUBSET S
      BY DEF Bad
    <3> QED BY <3>1, <1>1, MinimalSubset
  <2> DEFINE c == CHOOSE x \in s : TRUE
  <2>2. \A t \in SUBSET s : t # s => /\ i[t] \in Int
                                     /\ \A x \in t : i[t] = f[x] + i[t \ {x}]
    BY <2>1
  <2>3. i[s] = IF s = {} THEN 0 ELSE f[c] + i[s \ {c}]
    BY <2>1 DEF SumEquation
  <2>4. s # {} => c \in s /\ s \ {c} # s
    OBVIOUS
  <2> HIDE DEF c
  <2>5. i[s] \in Int
    <3>1. s # {} => i[s \ {c}] \in Int /\ f[c] \in Int
      BY <2>1, <2>2, <2>4
    <3> QED BY <2>3, <3>1
  <2>6. ASSUME NEW x \in s PROVE i[s] = f[x] + i[s \ {x}]
    <3>1. CASE x = c
      BY <2>3, <3>1
    <3>2. CASE x # c
      <4>1. i[s \ {c}] = f[x] + i[(s \ {c}) \ {x}]
        BY <2>2, <2>4, <3>2
      <4>2. i[s \ {x}] = f[c] + i[(s \ {x}) \ {c}]
        BY <2>2, <2>4, <3>2
      <4>3. (s \ {c}) \ {x} = (s \ {x}) \ {c}
        OBVIOUS
      <4>4. f[x] \in Int /\ f[c] \in Int /\ i[(s \ {x}) \ {c}] \in Int
        BY <2>1, <2>2, <2>4
      <4>5. i[s] = f[c] + i[s \ {c}]
        BY <2>3
      <4>6. i[(s \ {c}) \ {x}] = i[(s \ {x}) \ {c}]
        BY <4>3, Zenon
      <4> QED BY <4>1, <4>2, <4>4, <4>5, <4>6
    <3> QED BY <3>1, <3>2
  <2> QED BY <2>1, <2>5, <2>6
<1> QED BY <1>1

-----------------------------------------------------------------------------
\* The sum over no indices.
LEMMA SumEmpty == \A f : SumFunctionOnSet(f, {}) = 0
<1> SUFFICES ASSUME NEW f PROVE SumFunctionOnSet(f, {}) = 0
  OBVIOUS
<1>1. PICK i : SumEquation(f, SUBSET {}, i) /\ SumFunctionOnSet(f, {}) = i[{}]
  BY SumIs, FS_EmptySet
<1> QED BY <1>1 DEF SumEquation

\* A sum depends on the values at its indices only.
LEMMA SumSame ==
    ASSUME NEW f, NEW g, NEW S, IsFiniteSet(S), \A x \in S : f[x] = g[x]
    PROVE  SumFunctionOnSet(f, S) = SumFunctionOnSet(g, S)
<1>1. PICK i : SumEquation(f, SUBSET S, i) /\ SumFunctionOnSet(f, S) = i[S]
  BY SumIs
<1>2. PICK j : SumEquation(g, SUBSET S, j) /\ SumFunctionOnSet(g, S) = j[S]
  BY SumIs
<1>3. S \subseteq S
  OBVIOUS
<1>4. i[S] = j[S]
  BY <1>1, <1>2, <1>3, SumsAgree
<1> QED BY <1>1, <1>2, <1>4

\* One equation gives the sums over all subsets.
LEMMA SumWithin ==
    ASSUME NEW f, NEW S, NEW T, T \subseteq S, IsFiniteSet(T),
           NEW i, SumEquation(f, SUBSET S, i)
    PROVE  SumFunctionOnSet(f, T) = i[T]
<1>1. PICK j : SumEquation(f, SUBSET T, j) /\ SumFunctionOnSet(f, T) = j[T]
  BY SumIs
<1>2. \A x \in T : f[x] = f[x]
  OBVIOUS
<1>3. i[T] = j[T]
  BY <1>1, <1>2, SumsAgree
<1> QED BY <1>1, <1>3

\* Any index may be added last.
LEMMA SumRemove ==
    ASSUME NEW f, NEW S, IsFiniteSet(S), \A x \in S : f[x] \in Int, NEW x \in S
    PROVE  /\ SumFunctionOnSet(f, S) \in Int
           /\ SumFunctionOnSet(f, S \ {x}) \in Int
           /\ SumFunctionOnSet(f, S) = f[x] + SumFunctionOnSet(f, S \ {x})
<1>1. PICK i : SumEquation(f, SUBSET S, i) /\ SumFunctionOnSet(f, S) = i[S]
  BY SumIs
<1> DEFINE R == S \ {x}
<1>2. R \subseteq S /\ IsFiniteSet(R)
  BY FS_RemoveElement
<1>4. SumFunctionOnSet(f, R) = i[R]
  <2> HIDE DEF R
  <2> QED BY <1>1, <1>2, SumWithin
<1>5. i[S] \in Int /\ i[S \ {x}] \in Int /\ i[S] = f[x] + i[S \ {x}]
  <2>1. \A s \in SUBSET S : i[s] \in Int /\ \A y \in s : i[s] = f[y] + i[s \ {y}]
    BY <1>1, SumsAnyFirst
  <2>2. S \in SUBSET S /\ S \ {x} \in SUBSET S
    OBVIOUS
  <2> QED BY <2>1, <2>2
<1> QED BY <1>1, <1>4, <1>5

\* The sum of integers is one.
LEMMA SumInt ==
    ASSUME NEW f, NEW S, IsFiniteSet(S), \A x \in S : f[x] \in Int
    PROVE  SumFunctionOnSet(f, S) \in Int
<1>1. CASE S = {}
  BY <1>1, SumEmpty
<1>2. CASE S # {}
  BY <1>2, SumRemove
<1> QED BY <1>1, <1>2

\* A new index.
LEMMA SumInsert ==
    ASSUME NEW f, NEW S, IsFiniteSet(S), NEW x, x \notin S,
           \A y \in S \cup {x} : f[y] \in Int
    PROVE  SumFunctionOnSet(f, S \cup {x}) = f[x] + SumFunctionOnSet(f, S)
<1>1. IsFiniteSet(S \cup {x}) /\ (S \cup {x}) \ {x} = S /\ x \in S \cup {x}
  BY FS_AddElement
<1> QED BY <1>1, SumRemove

\* Sums grow with their terms.
LEMMA SumMonotone ==
    ASSUME NEW f, NEW g, NEW S, IsFiniteSet(S),
           \A x \in S : f[x] \in Int /\ g[x] \in Int /\ f[x] <= g[x]
    PROVE  SumFunctionOnSet(f, S) <= SumFunctionOnSet(g, S)
<1> DEFINE Bad == {s \in SUBSET S :
                      ~ (SumFunctionOnSet(f, s) <= SumFunctionOnSet(g, s))}
<1>1. ASSUME Bad # {} PROVE FALSE
  <2>1. PICK s \in Bad : \A t \in SUBSET s : t # s => t \notin Bad
    <3> HIDE DEF Bad
    <3>1. Bad \subseteq SUBSET S
      BY DEF Bad
    <3> QED BY <3>1, <1>1, MinimalSubset
  <2>2. PICK x : x \in s
    <3> SUFFICES ASSUME s = {} PROVE FALSE
      OBVIOUS
    <3>1. SumFunctionOnSet(f, s) = 0 /\ SumFunctionOnSet(g, s) = 0
      BY SumEmpty
    <3> QED BY <2>1, <3>1
  <2>3. IsFiniteSet(s) /\ \A y \in s : f[y] \in Int /\ g[y] \in Int
    BY <2>1, FS_Subset
  <2>4. /\ SumFunctionOnSet(f, s) = f[x] + SumFunctionOnSet(f, s \ {x})
        /\ SumFunctionOnSet(f, s \ {x}) \in Int
    BY <2>2, <2>3, SumRemove
  <2>5. /\ SumFunctionOnSet(g, s) = g[x] + SumFunctionOnSet(g, s \ {x})
        /\ SumFunctionOnSet(g, s \ {x}) \in Int
    BY <2>2, <2>3, SumRemove
  <2>6. SumFunctionOnSet(f, s \ {x}) <= SumFunctionOnSet(g, s \ {x})
    <3>1. s \ {x} \in SUBSET s /\ s \ {x} # s
      BY <2>2
    <3> QED BY <2>1, <3>1
  <2>7. f[x] <= g[x] /\ f[x] \in Int /\ g[x] \in Int
    BY <2>1, <2>2
  <2> QED BY <2>1, <2>4, <2>5, <2>6, <2>7
<1> QED BY <1>1

\* Two disjoint sets of indices.
LEMMA SumUnion ==
    ASSUME NEW f, NEW S, IsFiniteSet(S), NEW T, IsFiniteSet(T), S \cap T = {},
           \A x \in S \cup T : f[x] \in Int
    PROVE  SumFunctionOnSet(f, S \cup T)
               = SumFunctionOnSet(f, S) + SumFunctionOnSet(f, T)
<1> DEFINE Bad == {s \in SUBSET S : SumFunctionOnSet(f, s \cup T)
                              # SumFunctionOnSet(f, s) + SumFunctionOnSet(f, T)}
<1>1. ASSUME Bad # {} PROVE FALSE
  <2>1. PICK s \in Bad : \A t \in SUBSET s : t # s => t \notin Bad
    <3> HIDE DEF Bad
    <3>1. Bad \subseteq SUBSET S
      BY DEF Bad
    <3> QED BY <3>1, <1>1, MinimalSubset
  <2>2. SumFunctionOnSet(f, T) \in Int
    BY SumInt
  <2>3. s # {}
    <3> SUFFICES ASSUME s = {} PROVE FALSE
      OBVIOUS
    <3>1. s \cup T = T
      OBVIOUS
    <3>2. SumFunctionOnSet(f, s) = 0
      BY SumEmpty
    <3> QED BY <2>1, <2>2, <3>1, <3>2
  <2>4. PICK x : x \in s
    BY <2>3
  <2>5. IsFiniteSet(s) /\ \A y \in s : f[y] \in Int
    BY <2>1, FS_Subset
  <2>6. /\ SumFunctionOnSet(f, s) = f[x] + SumFunctionOnSet(f, s \ {x})
        /\ SumFunctionOnSet(f, s \ {x}) \in Int
    BY <2>4, <2>5, SumRemove
  <2>7. IsFiniteSet(s \cup T)
    BY <2>5, FS_Union
  <2>8. SumFunctionOnSet(f, s \cup T) = f[x] + SumFunctionOnSet(f, (s \cup T) \ {x})
    <3>1. x \in s \cup T /\ \A y \in s \cup T : f[y] \in Int
      BY <2>4, <2>5
    <3> QED BY <2>7, <3>1, SumRemove
  <2>9. (s \cup T) \ {x} = (s \ {x}) \cup T
    BY <2>1, <2>4
  <2>10. SumFunctionOnSet(f, (s \ {x}) \cup T)
             = SumFunctionOnSet(f, s \ {x}) + SumFunctionOnSet(f, T)
    <3>1. s \ {x} \in SUBSET s /\ s \ {x} # s
      BY <2>4
    <3> QED BY <2>1, <3>1
  <2>11. f[x] \in Int
    BY <2>4, <2>5
  <2>12. SumFunctionOnSet(f, (s \cup T) \ {x}) = SumFunctionOnSet(f, (s \ {x}) \cup T)
    BY <2>9, Zenon
  <2> QED BY <2>1, <2>2, <2>6, <2>8, <2>10, <2>11, <2>12
<1> QED BY <1>1

\* Terms that are not negative: so is the sum, and it grows with its indices.
LEMMA SumNat ==
    ASSUME NEW f, NEW S, IsFiniteSet(S), \A x \in S : f[x] \in Nat
    PROVE  SumFunctionOnSet(f, S) \in Nat
<1> DEFINE Bad == {s \in SUBSET S : ~ (0 <= SumFunctionOnSet(f, s))}
<1>1. ASSUME Bad # {} PROVE FALSE
  <2>1. PICK s \in Bad : \A t \in SUBSET s : t # s => t \notin Bad
    <3> HIDE DEF Bad
    <3>1. Bad \subseteq SUBSET S
      BY DEF Bad
    <3> QED BY <3>1, <1>1, MinimalSubset
  <2>2. PICK x : x \in s
    <3> SUFFICES ASSUME s = {} PROVE FALSE
      OBVIOUS
    <3>1. SumFunctionOnSet(f, s) = 0
      BY SumEmpty
    <3> QED BY <2>1, <3>1
  <2>3. IsFiniteSet(s) /\ \A y \in s : f[y] \in Int
    BY <2>1, FS_Subset
  <2>4. /\ SumFunctionOnSet(f, s) = f[x] + SumFunctionOnSet(f, s \ {x})
        /\ SumFunctionOnSet(f, s \ {x}) \in Int
    BY <2>2, <2>3, SumRemove
  <2>5. 0 <= SumFunctionOnSet(f, s \ {x})
    <3>1. s \ {x} \in SUBSET s /\ s \ {x} # s
      BY <2>2
    <3> QED BY <2>1, <3>1
  <2>6. f[x] \in Nat
    BY <2>1, <2>2
  <2> QED BY <2>1, <2>4, <2>5, <2>6
<1>2. SumFunctionOnSet(f, S) \in Int
  BY SumInt
<1> QED BY <1>1, <1>2

\* The sum over some of the indices.
LEMMA SumSubset ==
    ASSUME NEW f, NEW S, IsFiniteSet(S), \A x \in S : f[x] \in Nat, NEW T \in SUBSET S
    PROVE  SumFunctionOnSet(f, T) <= SumFunctionOnSet(f, S)
<1>1. IsFiniteSet(T) /\ IsFiniteSet(S \ T)
  BY FS_Subset
<1>2. T \cup (S \ T) = S /\ T \cap (S \ T) = {}
  OBVIOUS
<1>3. SumFunctionOnSet(f, S) = SumFunctionOnSet(f, T) + SumFunctionOnSet(f, S \ T)
  <2>1. \A x \in T \cup (S \ T) : f[x] \in Int
    OBVIOUS
  <2> QED BY <1>1, <1>2, <2>1, SumUnion
<1>4. SumFunctionOnSet(f, T) \in Nat /\ SumFunctionOnSet(f, S \ T) \in Nat
  BY <1>1, SumNat
<1> QED BY <1>3, <1>4

\* Fewer and smaller terms.
LEMMA SumGrows ==
    ASSUME NEW f, NEW g, NEW S, NEW T, S \subseteq T, IsFiniteSet(T),
           \A x \in S : f[x] \in Nat /\ f[x] <= g[x],
           \A x \in T : g[x] \in Nat
    PROVE  SumFunctionOnSet(f, S) <= SumFunctionOnSet(g, T)
<1>1. IsFiniteSet(S)
  BY FS_Subset
<1>2. SumFunctionOnSet(f, S) <= SumFunctionOnSet(g, S)
  <2>1. \A x \in S : f[x] \in Int /\ g[x] \in Int /\ f[x] <= g[x]
    OBVIOUS
  <2> QED BY <1>1, <2>1, SumMonotone
<1>3. SumFunctionOnSet(g, S) <= SumFunctionOnSet(g, T)
  BY SumSubset
<1>4. /\ SumFunctionOnSet(f, S) \in Nat
      /\ SumFunctionOnSet(g, S) \in Nat
      /\ SumFunctionOnSet(g, T) \in Nat
  <2>1. \A x \in S : f[x] \in Nat /\ g[x] \in Nat
    OBVIOUS
  <2> QED BY <1>1, <2>1, SumNat
<1> QED BY <1>2, <1>3, <1>4

\* Two sets of indices count an index of both once.
LEMMA SumUnionAtMost ==
    ASSUME NEW f, NEW S, IsFiniteSet(S), NEW T, IsFiniteSet(T),
           \A x \in S \cup T : f[x] \in Nat
    PROVE  SumFunctionOnSet(f, S \cup T)
               <= SumFunctionOnSet(f, S) + SumFunctionOnSet(f, T)
<1> DEFINE R == T \ S
<1>1. IsFiniteSet(R) /\ S \cap R = {} /\ S \cup R = S \cup T /\ R \subseteq T
  BY FS_Subset
<1>2. \A x \in S \cup R : f[x] \in Int
  OBVIOUS
<1> HIDE DEF R
<1>3. SumFunctionOnSet(f, S \cup R) = SumFunctionOnSet(f, S) + SumFunctionOnSet(f, R)
  BY <1>1, <1>2, SumUnion
<1>4. SumFunctionOnSet(f, R) <= SumFunctionOnSet(f, T)
  BY <1>1, SumSubset
<1>5. /\ SumFunctionOnSet(f, S) \in Nat /\ SumFunctionOnSet(f, R) \in Nat
      /\ SumFunctionOnSet(f, T) \in Nat
  BY <1>1, SumNat
<1>6. SumFunctionOnSet(f, S \cup R) = SumFunctionOnSet(f, S \cup T)
  BY <1>1, Zenon
<1> QED BY <1>3, <1>4, <1>5, <1>6

\* A function has no more values than arguments.
LEMMA FiniteImage ==
    ASSUME NEW g, NEW T, IsFiniteSet(T)
    PROVE  IsFiniteSet({g[x] : x \in T})
<1> DEFINE h == [x \in T |-> g[x]]
<1>1. h \in Surjection(T, {g[x] : x \in T})
  BY DEF Surjection
<1> QED BY <1>1, FS_Surjection

\* A sum over the values of g takes each value once; one over its arguments, as
\* often as it is taken.
LEMMA SumImage ==
    ASSUME NEW f, NEW g, NEW T, IsFiniteSet(T), \A x \in T : f[g[x]] \in Nat
    PROVE  /\ IsFiniteSet({g[x] : x \in T})
           /\ SumFunctionOnSet(f, {g[x] : x \in T})
                  <= SumFunctionOnSet([x \in T |-> f[g[x]]], T)
<1> DEFINE h == [x \in T |-> f[g[x]]]
           Of(t) == {g[x] : x \in t}
           Bad == {t \in SUBSET T :
                      ~ (/\ IsFiniteSet(Of(t))
                         /\ SumFunctionOnSet(f, Of(t)) <= SumFunctionOnSet(h, t))}
<1>1. ASSUME Bad # {} PROVE FALSE
  <2>1. PICK t \in Bad : \A s \in SUBSET t : s # t => s \notin Bad
    <3> HIDE DEF Bad
    <3>1. Bad \subseteq SUBSET T
      BY DEF Bad
    <3> QED BY <3>1, <1>1, MinimalSubset
  <2>2. t # {}
    <3> SUFFICES ASSUME t = {} PROVE FALSE
      OBVIOUS
    <3>1. Of(t) = {}
      OBVIOUS
    <3>2. SumFunctionOnSet(f, {}) = 0 /\ SumFunctionOnSet(h, {}) = 0 /\ IsFiniteSet({})
      BY SumEmpty, FS_EmptySet
    <3>3. IsFiniteSet(Of(t)) /\ SumFunctionOnSet(f, Of(t)) = 0 /\ SumFunctionOnSet(h, t) = 0
      <4> HIDE DEF h, Of
      <4> QED BY <3>1, <3>2, Zenon
    <3> QED BY <2>1, <3>3
  <2>3. PICK x : x \in t
    BY <2>2
  <2>4. /\ IsFiniteSet(t) /\ x \in T
        /\ \A y \in t : h[y] \in Nat /\ h[y] = f[g[y]]
    BY <2>1, <2>3, FS_Subset
  <2> DEFINE s == t \ {x}
  <2>5. IsFiniteSet(Of(s)) /\ SumFunctionOnSet(f, Of(s)) <= SumFunctionOnSet(h, s)
    <3>1. s \in SUBSET t /\ s # t
      BY <2>3
    <3> QED BY <2>1, <3>1
  <2>6. Of(t) = Of(s) \cup {g[x]}
    BY <2>3
  <2>7. \A y \in Of(s) \cup {g[x]} : f[y] \in Nat
    BY <2>1, <2>4
  <2>8. /\ SumFunctionOnSet(h, t) = h[x] + SumFunctionOnSet(h, s)
        /\ SumFunctionOnSet(h, s) \in Int
    <3> HIDE DEF h
    <3>1. \A y \in t : h[y] \in Int
      BY <2>4
    <3> QED BY <2>3, <2>4, <3>1, SumRemove
  <2>9. IsFiniteSet(Of(t))
    <3> HIDE DEF Of
    <3>1. IsFiniteSet(Of(s) \cup {g[x]})
      BY <2>5, FS_AddElement
    <3> QED BY <2>6, <3>1, Zenon
  <2>10. SumFunctionOnSet(f, Of(t)) <= f[g[x]] + SumFunctionOnSet(f, Of(s))
    <3> HIDE DEF Of, s
    <3>1. SumFunctionOnSet(f, Of(t)) = SumFunctionOnSet(f, Of(s) \cup {g[x]})
      BY <2>6, Zenon
    <3>2. f[g[x]] \in Nat /\ SumFunctionOnSet(f, Of(s)) \in Nat
      BY <2>5, <2>7, SumNat
    <3>3. CASE g[x] \in Of(s)
      <4>1. Of(s) \cup {g[x]} = Of(s)
        BY <3>3
      <4>2. SumFunctionOnSet(f, Of(s) \cup {g[x]}) = SumFunctionOnSet(f, Of(s))
        BY <4>1, Zenon
      <4> QED BY <3>1, <3>2, <4>2
    <3>4. CASE g[x] \notin Of(s)
      <4>1. \A y \in Of(s) \cup {g[x]} : f[y] \in Int
        BY <2>7
      <4>2. SumFunctionOnSet(f, Of(s) \cup {g[x]}) = f[g[x]] + SumFunctionOnSet(f, Of(s))
        BY <2>5, <3>4, <4>1, SumInsert
      <4> QED BY <3>1, <3>2, <4>2
    <3> QED BY <3>3, <3>4
  <2>11. /\ SumFunctionOnSet(f, Of(s)) \in Nat /\ f[g[x]] \in Nat /\ h[x] = f[g[x]]
         /\ SumFunctionOnSet(f, Of(t)) \in Nat
    <3>1. \A y \in Of(t) : f[y] \in Nat
      BY <2>6, <2>7
    <3> HIDE DEF Of, h, s
    <3> QED BY <2>3, <2>4, <2>5, <2>7, <2>9, <3>1, SumNat
  <2> HIDE DEF h, Of, s
  <2>12. SumFunctionOnSet(f, Of(t)) <= SumFunctionOnSet(h, t)
    BY <2>5, <2>8, <2>10, <2>11
  <2> QED BY <2>1, <2>9, <2>12
<1>2. T \in SUBSET T /\ T \notin Bad
  BY <1>1
<1> QED BY <1>2

\* A sum over a union of finitely many sets is at most the sum of their sums.
LEMMA SumCover ==
    ASSUME NEW f, NEW I, IsFiniteSet(I), NEW part,
           \A k \in I : IsFiniteSet(part[k]),
           \A k \in I : \A x \in part[k] : f[x] \in Nat
    PROVE  /\ IsFiniteSet(UNION {part[k] : k \in I})
           /\ SumFunctionOnSet(f, UNION {part[k] : k \in I})
                  <= SumFunctionOnSet([k \in I |-> SumFunctionOnSet(f, part[k])], I)
<1> DEFINE h == [k \in I |-> SumFunctionOnSet(f, part[k])]
           Of(t) == UNION {part[k] : k \in t}
           Bad == {t \in SUBSET I :
                      ~ (/\ IsFiniteSet(Of(t))
                         /\ SumFunctionOnSet(f, Of(t)) <= SumFunctionOnSet(h, t))}
<1>1. ASSUME Bad # {} PROVE FALSE
  <2>1. PICK t \in Bad : \A s \in SUBSET t : s # t => s \notin Bad
    <3> HIDE DEF Bad
    <3>1. Bad \subseteq SUBSET I
      BY DEF Bad
    <3> QED BY <3>1, <1>1, MinimalSubset
  <2>2. t # {}
    <3> SUFFICES ASSUME t = {} PROVE FALSE
      OBVIOUS
    <3>1. Of(t) = {}
      OBVIOUS
    <3>2. SumFunctionOnSet(f, {}) = 0 /\ SumFunctionOnSet(h, {}) = 0 /\ IsFiniteSet({})
      BY SumEmpty, FS_EmptySet
    <3>3. IsFiniteSet(Of(t)) /\ SumFunctionOnSet(f, Of(t)) = 0 /\ SumFunctionOnSet(h, t) = 0
      <4> HIDE DEF h, Of
      <4> QED BY <3>1, <3>2, Zenon
    <3> QED BY <2>1, <3>3
  <2>3. PICK k : k \in t
    BY <2>2
  <2>4. /\ IsFiniteSet(t) /\ k \in I
        /\ IsFiniteSet(part[k]) /\ \A x \in part[k] : f[x] \in Nat
    BY <2>1, <2>3, FS_Subset
  <2>5. \A j \in I : h[j] \in Nat /\ h[j] = SumFunctionOnSet(f, part[j])
    <3> TAKE j \in I
    <3>1. SumFunctionOnSet(f, part[j]) \in Nat
      BY SumNat
    <3> QED BY <3>1
  <2> DEFINE s == t \ {k}
  <2>6. IsFiniteSet(Of(s)) /\ SumFunctionOnSet(f, Of(s)) <= SumFunctionOnSet(h, s)
    <3>1. s \in SUBSET t /\ s # t
      BY <2>3
    <3> QED BY <2>1, <3>1
  <2>7. Of(t) = Of(s) \cup part[k]
    BY <2>3
  <2>8. \A x \in Of(s) \cup part[k] : f[x] \in Nat
    BY <2>1, <2>3
  <2>9. /\ SumFunctionOnSet(h, t) = h[k] + SumFunctionOnSet(h, s)
        /\ SumFunctionOnSet(h, s) \in Int
    <3> HIDE DEF h
    <3>1. \A j \in t : h[j] \in Int
      BY <2>1, <2>5
    <3> QED BY <2>3, <2>4, <3>1, SumRemove
  <2> HIDE DEF h, Of, s
  <2>10. /\ IsFiniteSet(Of(s) \cup part[k])
         /\ SumFunctionOnSet(f, Of(s) \cup part[k])
                <= SumFunctionOnSet(f, Of(s)) + SumFunctionOnSet(f, part[k])
    BY <2>4, <2>6, <2>8, FS_Union, SumUnionAtMost
  <2>11. /\ SumFunctionOnSet(f, Of(s)) \in Nat
         /\ SumFunctionOnSet(f, Of(s) \cup part[k]) \in Nat
         /\ h[k] \in Nat /\ h[k] = SumFunctionOnSet(f, part[k])
    BY <2>4, <2>5, <2>6, <2>8, <2>10, SumNat
  <2>12. SumFunctionOnSet(f, Of(s) \cup part[k]) <= SumFunctionOnSet(h, t)
    BY <2>6, <2>9, <2>10, <2>11
  <2>13. IsFiniteSet(Of(t)) /\ SumFunctionOnSet(f, Of(t)) <= SumFunctionOnSet(h, t)
    BY <2>7, <2>10, <2>12, Zenon
  <2> QED BY <2>1, <2>13 DEF Bad
<1>2. I \in SUBSET I /\ I \notin Bad
  BY <1>1
<1> QED BY <1>2

\* A finite set of numbers has a largest one.
LEMMA LargestNumber ==
    ASSUME NEW S, S \subseteq Int, IsFiniteSet(S), S # {}
    PROVE  \E m \in S : \A n \in S : n <= m
<1> DEFINE Bad == {t \in SUBSET S : t # {} /\ ~ \E m \in t : \A n \in t : n <= m}
<1>1. ASSUME Bad # {} PROVE FALSE
  <2>1. PICK t \in Bad : \A s \in SUBSET t : s # t => s \notin Bad
    <3> HIDE DEF Bad
    <3>1. Bad \subseteq SUBSET S
      BY DEF Bad
    <3> QED BY <3>1, <1>1, MinimalSubset
  <2>2. PICK x : x \in t
    BY <2>1
  <2>3. t \ {x} # {}
    BY <2>1, <2>2
  <2>4. t \ {x} \in SUBSET S /\ t \ {x} \notin Bad
    BY <2>1, <2>2
  <2>5. PICK m \in t \ {x} : \A n \in t \ {x} : n <= m
    BY <2>3, <2>4
  <2>6. x \in Int /\ m \in Int /\ \A n \in t : n \in Int
    BY <2>1, <2>2
  <2>7. \E k \in t : \A n \in t : n <= k
    <3>1. CASE x <= m
      BY <2>2, <2>5, <2>6, <3>1
    <3>2. CASE m <= x
      BY <2>2, <2>5, <2>6, <3>2
    <3> QED BY <2>6, <3>1, <3>2
  <2> QED BY <2>1, <2>7
<1>2. S \in SUBSET S /\ S \notin Bad
  BY <1>1
<1> QED BY <1>2
\* Nothing adds up to nothing.
LEMMA SumZero ==
    ASSUME NEW f, NEW S, IsFiniteSet(S), \A x \in S : f[x] = 0
    PROVE  SumFunctionOnSet(f, S) = 0
<1> DEFINE Bad == {s \in SUBSET S : SumFunctionOnSet(f, s) # 0}
<1>1. ASSUME Bad # {} PROVE FALSE
  <2>1. PICK s \in Bad : \A t \in SUBSET s : t # s => t \notin Bad
    <3> HIDE DEF Bad
    <3>1. Bad \subseteq SUBSET S
      BY DEF Bad
    <3> QED BY <3>1, <1>1, MinimalSubset
  <2>2. PICK x : x \in s
    <3> SUFFICES ASSUME s = {} PROVE FALSE
      OBVIOUS
    <3>1. SumFunctionOnSet(f, s) = 0
      BY SumEmpty
    <3> QED BY <2>1, <3>1
  <2>3. IsFiniteSet(s) /\ \A y \in s : f[y] \in Int
    BY <2>1, FS_Subset
  <2>4. SumFunctionOnSet(f, s) = f[x] + SumFunctionOnSet(f, s \ {x})
    BY <2>2, <2>3, SumRemove
  <2>5. SumFunctionOnSet(f, s \ {x}) = 0
    <3>1. s \ {x} \in SUBSET s /\ s \ {x} # s
      BY <2>2
    <3> QED BY <2>1, <3>1
  <2>6. f[x] = 0
    BY <2>1, <2>2
  <2> QED BY <2>1, <2>4, <2>5, <2>6
<1> QED BY <1>1

\* A sum changes by what one of its terms changes.
LEMMA SumChange ==
    ASSUME NEW f, NEW g, NEW S, IsFiniteSet(S), \A y \in S : f[y] \in Int /\ g[y] \in Int,
           NEW x \in S, \A y \in S \ {x} : g[y] = f[y]
    PROVE  SumFunctionOnSet(g, S) = SumFunctionOnSet(f, S) - f[x] + g[x]
<1>1. IsFiniteSet(S \ {x})
  BY FS_RemoveElement
<1>2. SumFunctionOnSet(f, S \ {x}) = SumFunctionOnSet(g, S \ {x})
  BY <1>1, SumSame
<1>3. /\ SumFunctionOnSet(f, S) = f[x] + SumFunctionOnSet(f, S \ {x})
      /\ SumFunctionOnSet(f, S \ {x}) \in Int
  <2>1. \A y \in S : f[y] \in Int
    OBVIOUS
  <2> QED BY <2>1, SumRemove
<1>4. SumFunctionOnSet(g, S) = g[x] + SumFunctionOnSet(g, S \ {x})
  <2>1. \A y \in S : g[y] \in Int
    OBVIOUS
  <2> QED BY <2>1, SumRemove
<1> QED BY <1>2, <1>3, <1>4

\* Terms that are no larger, with a sum that is no smaller, are the same.
LEMMA SumSqueeze ==
    ASSUME NEW f, NEW g, NEW S, IsFiniteSet(S),
           \A x \in S : f[x] \in Int /\ g[x] \in Int /\ f[x] <= g[x],
           SumFunctionOnSet(g, S) <= SumFunctionOnSet(f, S)
    PROVE  \A x \in S : f[x] = g[x]
<1> TAKE x \in S
<1>1. IsFiniteSet(S \ {x})
  BY FS_RemoveElement
<1>2. SumFunctionOnSet(f, S \ {x}) <= SumFunctionOnSet(g, S \ {x})
  BY <1>1, SumMonotone
<1>3. /\ SumFunctionOnSet(f, S) = f[x] + SumFunctionOnSet(f, S \ {x})
      /\ SumFunctionOnSet(g, S) = g[x] + SumFunctionOnSet(g, S \ {x})
      /\ SumFunctionOnSet(f, S \ {x}) \in Int /\ SumFunctionOnSet(g, S \ {x}) \in Int
  BY SumRemove
<1> QED BY <1>2, <1>3

\* A sum does not depend on the names of its indices.
LEMMA SumRename ==
    ASSUME NEW f, NEW g, NEW T, IsFiniteSet(T), \A x \in T : f[g[x]] \in Nat,
           \A x, y \in T : g[x] = g[y] => x = y
    PROVE  /\ IsFiniteSet({g[x] : x \in T})
           /\ SumFunctionOnSet(f, {g[x] : x \in T})
                  = SumFunctionOnSet([x \in T |-> f[g[x]]], T)
<1> DEFINE Names == {g[x] : x \in T}
           h     == [x \in T |-> f[g[x]]]
           back  == [y \in Names |-> CHOOSE x \in T : g[x] = y]
           again == [y \in Names |-> h[back[y]]]
<1>1. IsFiniteSet(Names) /\ SumFunctionOnSet(f, Names) <= SumFunctionOnSet(h, T)
  BY SumImage
<1>2. ASSUME NEW y \in Names PROVE back[y] \in T /\ g[back[y]] = y /\ h[back[y]] = f[y]
  BY <1>2
<1>3. {back[y] : y \in Names} = T
  <2>1. ASSUME NEW x \in T PROVE x = back[g[x]] /\ g[x] \in Names
    BY <1>2
  <2>2. \A y \in Names : back[y] \in T
    BY <1>2
  <2>3. \A x \in T : \E y \in Names : x = back[y]
    <3> HIDE DEF back, Names
    <3> QED BY <2>1
  <2> HIDE DEF back, Names
  <2> QED BY <2>2, <2>3
<1>4. \A y \in Names : h[back[y]] \in Nat /\ again[y] = f[y]
  BY <1>2
<1>5. SumFunctionOnSet(h, {back[y] : y \in Names}) <= SumFunctionOnSet(again, Names)
  <2> HIDE DEF Names, h, back
  <2> QED BY <1>1, <1>4, SumImage
<1>6. SumFunctionOnSet(h, T) <= SumFunctionOnSet(f, Names)
  <2> HIDE DEF Names, h, back, again
  <2>1. SumFunctionOnSet(again, Names) = SumFunctionOnSet(f, Names)
    BY <1>1, <1>4, SumSame
  <2>2. SumFunctionOnSet(h, {back[y] : y \in Names}) = SumFunctionOnSet(h, T)
    BY <1>3, Zenon
  <2> QED BY <1>5, <2>1, <2>2
<1>7. SumFunctionOnSet(h, T) \in Nat /\ SumFunctionOnSet(f, Names) \in Nat
  <2>1. \A x \in T : h[x] \in Nat
    OBVIOUS
  <2>2. \A y \in Names : f[y] \in Nat
    OBVIOUS
  <2> HIDE DEF h, Names
  <2> QED BY <1>1, <2>1, <2>2, SumNat
<1> HIDE DEF h, Names
<1>8. SumFunctionOnSet(f, Names) = SumFunctionOnSet(h, T)
  BY <1>1, <1>6, <1>7
<1> QED BY <1>1, <1>8 DEF h, Names

\* A sum of equal terms.
LEMMA SumConstant ==
    ASSUME NEW f, NEW k \in Nat, NEW S, IsFiniteSet(S), \A x \in S : f[x] = k
    PROVE  SumFunctionOnSet(f, S) = Cardinality(S) * k
<1> DEFINE Bad == {s \in SUBSET S : SumFunctionOnSet(f, s) # Cardinality(s) * k}
<1>1. ASSUME Bad # {} PROVE FALSE
  <2>1. PICK s \in Bad : \A t \in SUBSET s : t # s => t \notin Bad
    <3>1. Bad \subseteq SUBSET S
      OBVIOUS
    <3> HIDE DEF Bad
    <3> QED BY <3>1, <1>1, MinimalSubset
  <2>2. IsFiniteSet(s) /\ s \subseteq S
    BY <2>1, FS_Subset
  <2>3. CASE s = {}
    BY <2>1, <2>3, SumEmpty, FS_EmptySet
  <2>4. CASE s # {}
    <3>1. PICK x \in s : TRUE
      BY <2>4
    <3> DEFINE r == s \ {x}
    <3>2. SumFunctionOnSet(f, s) = f[x] + SumFunctionOnSet(f, r)
      BY <2>2, SumRemove
    <3>3. Cardinality(s) \in Nat /\ Cardinality(r) = Cardinality(s) - 1 /\ Cardinality(r) \in Nat
      BY <2>2, FS_RemoveElement, FS_CardinalityType
    <3>4. r \in SUBSET s /\ r # s /\ r \in SUBSET S
      BY <2>2
    <3>5. r \notin Bad
      BY <2>1, <3>4
    <3>6. SumFunctionOnSet(f, r) = Cardinality(r) * k
      BY <3>4, <3>5
    <3>7. \A c \in Nat : k + (c - 1) * k = c * k
      OBVIOUS
    <3>8. f[x] = k
      BY <2>2
    <3> HIDE DEF r
    <3>9. SumFunctionOnSet(f, s) = Cardinality(s) * k
      BY <3>2, <3>3, <3>6, <3>7, <3>8
    <3> QED BY <2>1, <3>9
  <2> QED BY <2>3, <2>4
<1> QED BY <1>1

\* Sums are added term by term.
LEMMA SumAdd ==
    ASSUME NEW f, NEW g, NEW h, NEW S, IsFiniteSet(S),
           \A x \in S : f[x] \in Int /\ g[x] \in Int /\ h[x] = f[x] + g[x]
    PROVE  SumFunctionOnSet(h, S) = SumFunctionOnSet(f, S) + SumFunctionOnSet(g, S)
<1> DEFINE Bad == {s \in SUBSET S : SumFunctionOnSet(h, s)
                              # SumFunctionOnSet(f, s) + SumFunctionOnSet(g, s)}
<1>1. ASSUME Bad # {} PROVE FALSE
  <2>1. PICK s \in Bad : \A t \in SUBSET s : t # s => t \notin Bad
    <3>1. Bad \subseteq SUBSET S
      OBVIOUS
    <3> HIDE DEF Bad
    <3> QED BY <3>1, <1>1, MinimalSubset
  <2>2. /\ IsFiniteSet(s) /\ s \subseteq S
        /\ \A x \in s : f[x] \in Int /\ g[x] \in Int /\ h[x] \in Int
    BY <2>1, FS_Subset
  <2>3. CASE s = {}
    BY <2>1, <2>3, SumEmpty
  <2>4. CASE s # {}
    <3>1. PICK x \in s : TRUE
      BY <2>4
    <3> DEFINE r == s \ {x}
    <3>2. /\ SumFunctionOnSet(f, s) = f[x] + SumFunctionOnSet(f, r)
          /\ SumFunctionOnSet(g, s) = g[x] + SumFunctionOnSet(g, r)
          /\ SumFunctionOnSet(h, s) = h[x] + SumFunctionOnSet(h, r)
          /\ SumFunctionOnSet(f, r) \in Int /\ SumFunctionOnSet(g, r) \in Int
      BY <2>2, SumRemove
    <3>3. r \in SUBSET s /\ r # s /\ r \in SUBSET S
      BY <2>2
    <3>4. SumFunctionOnSet(h, r) = SumFunctionOnSet(f, r) + SumFunctionOnSet(g, r)
      BY <2>1, <3>3
    <3>5. f[x] \in Int /\ g[x] \in Int /\ h[x] = f[x] + g[x]
      BY <2>2
    <3> HIDE DEF r
    <3>6. SumFunctionOnSet(h, s) = SumFunctionOnSet(f, s) + SumFunctionOnSet(g, s)
      BY <3>2, <3>4, <3>5
    <3> QED BY <2>1, <3>6
  <2> QED BY <2>3, <2>4
<1> QED BY <1>1

\* A common factor of the terms is one of the sum.
LEMMA SumScale ==
    ASSUME NEW f, NEW h, NEW k \in Int, NEW S, IsFiniteSet(S),
           \A x \in S : f[x] \in Int /\ h[x] = k * f[x]
    PROVE  SumFunctionOnSet(h, S) = k * SumFunctionOnSet(f, S)
<1> DEFINE Bad == {s \in SUBSET S : SumFunctionOnSet(h, s) # k * SumFunctionOnSet(f, s)}
<1>1. ASSUME Bad # {} PROVE FALSE
  <2>1. PICK s \in Bad : \A t \in SUBSET s : t # s => t \notin Bad
    <3>1. Bad \subseteq SUBSET S
      OBVIOUS
    <3> HIDE DEF Bad
    <3> QED BY <3>1, <1>1, MinimalSubset
  <2>2. /\ IsFiniteSet(s) /\ s \subseteq S
        /\ \A x \in s : f[x] \in Int /\ h[x] \in Int
    BY <2>1, FS_Subset
  <2>3. CASE s = {}
    BY <2>1, <2>3, SumEmpty
  <2>4. CASE s # {}
    <3>1. PICK x \in s : TRUE
      BY <2>4
    <3> DEFINE r == s \ {x}
    <3>2. /\ SumFunctionOnSet(f, s) = f[x] + SumFunctionOnSet(f, r)
          /\ SumFunctionOnSet(h, s) = h[x] + SumFunctionOnSet(h, r)
          /\ SumFunctionOnSet(f, r) \in Int
      BY <2>2, SumRemove
    <3>3. r \in SUBSET s /\ r # s /\ r \in SUBSET S
      BY <2>2
    <3>4. SumFunctionOnSet(h, r) = k * SumFunctionOnSet(f, r)
      BY <2>1, <3>3
    <3>5. f[x] \in Int /\ h[x] = k * f[x]
      BY <2>2
    <3>6. \A a, b \in Int : k * a + k * b = k * (a + b)
      OBVIOUS
    <3> HIDE DEF r
    <3>7. SumFunctionOnSet(h, s) = k * SumFunctionOnSet(f, s)
      BY <3>2, <3>4, <3>5, <3>6
    <3> QED BY <2>1, <3>7
  <2> QED BY <2>3, <2>4
<1> QED BY <1>1

\* A table by rows, f, and by columns, g, with the totals of both.
Table(f, g, S, T, rows, columns) ==
    /\ IsFiniteSet(S) /\ IsFiniteSet(T)
    /\ \A x \in S : \A y \in T : f[x][y] \in Int /\ g[y][x] = f[x][y]
    /\ \A x \in S : rows[x] = SumFunctionOnSet(f[x], T)
    /\ \A y \in T : columns[y] = SumFunctionOnSet(g[y], S)

\* It has the same total either way.
LEMMA SumSwap ==
    ASSUME NEW f, NEW g, NEW S, NEW T, NEW rows, NEW columns,
           Table(f, g, S, T, rows, columns)
    PROVE  SumFunctionOnSet(rows, S) = SumFunctionOnSet(columns, T)
<1> USE DEF Table
<1> DEFINE cols(s) == [y \in T |-> SumFunctionOnSet(g[y], s)]
           Bad == {s \in SUBSET S : SumFunctionOnSet(rows, s) # SumFunctionOnSet(cols(s), T)}
<1>1. ASSUME Bad # {} PROVE FALSE
  <2>1. PICK s \in Bad : \A t \in SUBSET s : t # s => t \notin Bad
    <3>1. Bad \subseteq SUBSET S
      OBVIOUS
    <3> HIDE DEF Bad
    <3> QED BY <3>1, <1>1, MinimalSubset
  <2>2. IsFiniteSet(s) /\ s \subseteq S
    BY <2>1, FS_Subset
  <2>3. \A x \in S : rows[x] \in Int
    BY SumInt
  <2>4. \A r : \A y \in T : cols(r)[y] = SumFunctionOnSet(g[y], r)
    OBVIOUS
  <2>5. SumFunctionOnSet(rows, s) # SumFunctionOnSet(cols(s), T)
    BY <2>1
  <2>6. CASE s = {}
    <3> HIDE DEF cols
    <3>1. \A y \in T : cols(s)[y] = 0
      BY <2>4, <2>6, SumEmpty
    <3>2. SumFunctionOnSet(cols(s), T) = 0
      BY <3>1, SumZero
    <3>3. SumFunctionOnSet(rows, s) = 0
      BY <2>6, SumEmpty
    <3> QED BY <2>5, <3>2, <3>3
  <2>7. CASE s # {}
    <3>1. PICK x \in s : TRUE
      BY <2>7
    <3> DEFINE r == s \ {x}
    <3>2. r \in SUBSET s /\ r # s /\ r \in SUBSET S /\ x \in S
      BY <2>2
    <3>3. SumFunctionOnSet(rows, r) = SumFunctionOnSet(cols(r), T)
      BY <2>1, <3>2
    <3> HIDE DEF cols, Bad
    <3>4. SumFunctionOnSet(rows, s) = rows[x] + SumFunctionOnSet(rows, r)
      <4>1. \A z \in s : rows[z] \in Int
        BY <2>2, <2>3
      <4> QED BY <2>2, <4>1, SumRemove
    <3>5. ASSUME NEW y \in T
          PROVE  f[x][y] \in Int /\ cols(r)[y] \in Int /\ cols(s)[y] = f[x][y] + cols(r)[y]
      <4>1. \A z \in s : g[y][z] \in Int
        BY <2>2
      <4>2. /\ SumFunctionOnSet(g[y], s) = g[y][x] + SumFunctionOnSet(g[y], r)
            /\ SumFunctionOnSet(g[y], r) \in Int
        BY <2>2, <4>1, SumRemove
      <4> HIDE DEF r
      <4> QED BY <2>4, <3>2, <4>2
    <3> HIDE DEF r
    <3>6. SumFunctionOnSet(cols(s), T) = SumFunctionOnSet(f[x], T) + SumFunctionOnSet(cols(r), T)
      BY <3>5, SumAdd
    <3> QED BY <2>3, <2>5, <3>2, <3>3, <3>4, <3>6
  <2> QED BY <2>6, <2>7
<1>2. SumFunctionOnSet(rows, S) = SumFunctionOnSet(cols(S), T)
  BY <1>1
<1>3. \A y \in T : cols(S)[y] = columns[y]
  OBVIOUS
<1>4. SumFunctionOnSet(cols(S), T) = SumFunctionOnSet(columns, T)
  <2> HIDE DEF cols
  <2> QED BY <1>3, SumSame
<1> QED BY <1>2, <1>4

\* A sum of multiples is a multiple.
LEMMA SumMultiple ==
    ASSUME NEW f, NEW S, IsFiniteSet(S), NEW s \in Nat,
           \A x \in S : \E k \in Nat : f[x] = s * k
    PROVE  \E k \in Nat : SumFunctionOnSet(f, S) = s * k
<1> DEFINE times == [x \in S |-> CHOOSE k \in Nat : f[x] = s * k]
<1>1. \A x \in S : times[x] \in Nat /\ f[x] = s * times[x]
  OBVIOUS
<1> HIDE DEF times
<1>2. SumFunctionOnSet(f, S) = s * SumFunctionOnSet(times, S)
  <2>1. s \in Int /\ \A x \in S : times[x] \in Int /\ f[x] = s * times[x]
    BY <1>1
  <2> QED BY <2>1, SumScale
<1>3. SumFunctionOnSet(times, S) \in Nat
  BY <1>1, SumNat
<1> QED BY <1>2, <1>3

\* A table f by rows that have weights, and g by columns that are weighed.
WeighedTable(f, weight, g, S, T, rows, columns) ==
    /\ IsFiniteSet(S) /\ IsFiniteSet(T)
    /\ \A x \in S : weight[x] \in Nat
    /\ \A x \in S : \A y \in T : f[x][y] \in Nat /\ g[y][x] = f[x][y] * weight[x]
    /\ \A x \in S : rows[x] = SumFunctionOnSet(f[x], T) * weight[x]
    /\ \A y \in T : columns[y] = SumFunctionOnSet(g[y], S)

\* It has the same total either way, too.
LEMMA SumWeighed ==
    ASSUME NEW f, NEW weight, NEW g, NEW S, NEW T, NEW rows, NEW columns,
           WeighedTable(f, weight, g, S, T, rows, columns)
    PROVE  SumFunctionOnSet(rows, S) = SumFunctionOnSet(columns, T)
<1> USE DEF WeighedTable
<1> DEFINE h == [x \in S |-> [y \in T |-> f[x][y] * weight[x]]]
<1>1. \A a, b \in Nat : a * b \in Nat /\ a * b = b * a
  OBVIOUS
<1>2. \A x \in S : \A y \in T : h[x][y] = f[x][y] * weight[x] /\ h[x][y] \in Int
  BY <1>1
<1>3. ASSUME NEW x \in S
      PROVE  rows[x] = SumFunctionOnSet(h[x], T)
  <2>1. weight[x] \in Int /\ \A y \in T : f[x][y] \in Int /\ h[x][y] = weight[x] * f[x][y]
    BY <1>1, <1>2
  <2> HIDE DEF h
  <2>2. SumFunctionOnSet(h[x], T) = weight[x] * SumFunctionOnSet(f[x], T)
    BY <2>1, SumScale
  <2>3. SumFunctionOnSet(f[x], T) \in Nat
    BY SumNat
  <2> QED BY <1>1, <2>2, <2>3
<1>4. \A x \in S : \A y \in T : h[x][y] \in Int /\ g[y][x] = h[x][y]
  BY <1>2
<1>5. \A x \in S : rows[x] = SumFunctionOnSet(h[x], T)
  BY <1>3
<1> HIDE DEF h
<1>6. Table(h, g, S, T, rows, columns)
  BY <1>4, <1>5 DEF Table
<1> QED BY <1>6, SumSwap

-----------------------------------------------------------------------------
\* The choices for one thing more: the first of s.
More(options, s, some) ==
    {With(c, CHOOSE x \in s : TRUE, o) :
         c \in some, o \in options[CHOOSE x \in s : TRUE]}

\* iter is the recursive function Selections(options) takes its value from.
SelectionEquation(options, D, iter) ==
    iter = [s \in D |-> IF s = {} THEN {<<>>}
                        ELSE More(options, s, iter[s \ {CHOOSE x \in s : TRUE}])]

\* There is such a function over the subsets of a finite set.
LEMMA SelectionsExist ==
    ASSUME NEW options, NEW S, IsFiniteSet(S)
    PROVE  \E iter : SelectionEquation(options, SUBSET S, iter)
<1> DEFINE D(n)  == {s \in SUBSET S : Cardinality(s) <= n}
           Bad == {n \in Nat : ~ \E iter : SelectionEquation(options, D(n), iter)}
           first(s) == CHOOSE x \in s : TRUE
           more(s, some) == More(options, s, some)
<1>1. \A s \in SUBSET S : IsFiniteSet(s) /\ Cardinality(s) \in Nat
                          /\ Cardinality(s) <= Cardinality(S)
  BY FS_Subset, FS_CardinalityType
<1>e. \A E, g : SelectionEquation(options, E, g) <=>
                    g = [s \in E |-> IF s = {} THEN {<<>>}
                                     ELSE more(s, g[s \ {first(s)}])]
  BY DEF SelectionEquation
<1>2. Bad = {}
  <2> SUFFICES ASSUME Bad # {} PROVE FALSE
    OBVIOUS
  <2> HIDE DEF more
  <2>1. PICK n \in Bad : \A m \in Bad : n <= m
    <3> HIDE DEF Bad
    <3>1. Bad \subseteq Nat
      BY DEF Bad
    <3> QED BY <3>1, MinimalNumber
  <2>2. n # 0
    <3> SUFFICES ASSUME n = 0 PROVE FALSE
      OBVIOUS
    <3>1. D(0) = {{}}
      BY <1>1, FS_EmptySet
    <3>2. SelectionEquation(options, D(0), [s \in D(0) |-> {<<>>}])
      <4> DEFINE z == [s \in D(0) |-> {<<>>}]
      <4>1. \A s \in D(0) : s = {} /\ z[s] = {<<>>}
        BY <3>1
      <4>2. z = [s \in D(0) |-> IF s = {} THEN {<<>>} ELSE more(s, z[s \ {first(s)}])]
        <5>1. [s \in D(0) |-> {<<>>}] = [s \in D(0) |-> IF s = {} THEN {<<>>} ELSE more(s, z[s \ {first(s)}])]
          <6> HIDE DEF z, D, first
          <6> QED BY <4>1
        <5> QED BY <5>1
      <4> HIDE DEF z, D, first
      <4>3. SelectionEquation(options, D(0), z)
        BY <4>2, <1>e
      <4> QED BY <4>3 DEF z
    <3> QED BY <3>2, <2>1
  <2>3. PICK g : SelectionEquation(options, D(n - 1), g)
    <3> HIDE DEF D
    <3>1. n - 1 \in Nat /\ n - 1 < n
      BY <2>1, <2>2
    <3>2. n - 1 \notin Bad
      <4> HIDE DEF Bad
      <4>1. n \in Nat
        BY DEF Bad
      <4> QED BY <3>1, <2>1, <4>1
    <3> QED BY <3>1, <3>2
  <2> DEFINE h == [s \in D(n) |-> IF s = {} THEN {<<>>} ELSE more(s, g[s \ {first(s)}])]
  <2>4. ASSUME NEW s \in D(n), s # {}
        PROVE  s \ {first(s)} \in D(n - 1)
    <3>1. first(s) \in s
      BY <2>4
    <3>2. Cardinality(s \ {first(s)}) = Cardinality(s) - 1
      BY <1>1, <3>1, FS_RemoveElement
    <3> QED BY <1>1, <2>1, <3>2
  <2>5. \A s \in D(n - 1) : s \in D(n) /\ h[s] = g[s]
    <3> SUFFICES ASSUME NEW s \in D(n - 1) PROVE s \in D(n) /\ h[s] = g[s]
      OBVIOUS
    <3>1. s \in D(n)
      BY <1>1, <2>1
    <3>2. g[s] = IF s = {} THEN {<<>>} ELSE more(s, g[s \ {first(s)}])
      <4> HIDE DEF D, first
      <4>1. g = [t \in D(n - 1) |-> IF t = {} THEN {<<>>} ELSE more(t, g[t \ {first(t)}])]
        BY <2>3, <1>e, Zenon
      <4> QED BY <4>1, Zenon
    <3> QED BY <3>1, <3>2
  <2>6. SelectionEquation(options, D(n), h)
    <3>1. \A s \in D(n) : s # {} => h[s \ {first(s)}] = g[s \ {first(s)}]
      BY <2>4, <2>5
    <3>2. h = [s \in D(n) |-> IF s = {} THEN {<<>>} ELSE more(s, h[s \ {first(s)}])]
      <4> HIDE DEF D
      <4>2. \A s \in D(n) : h[s] =
               (IF s = {} THEN {<<>>} ELSE more(s, g[s \ {first(s)}]))
        OBVIOUS
      <4>3. \A s \in D(n) : h[s] =
               (IF s = {} THEN {<<>>} ELSE more(s, h[s \ {first(s)}]))
        <5> HIDE DEF h, first
        <5> QED BY <3>1, <4>2
      <4>4. DOMAIN h = D(n) /\ h = [s \in DOMAIN h |-> h[s]]
        OBVIOUS
      <4> HIDE DEF h, first
      <4> QED BY <4>3, <4>4
    <3> HIDE DEF h, D, first
    <3> QED BY <3>2, <1>e
  <2> QED BY <2>6, <2>1
<1>3. Cardinality(S) \in Nat
  BY FS_CardinalityType
<1>4. D(Cardinality(S)) = SUBSET S
  BY <1>1
<1>5. \E iter : SelectionEquation(options, D(Cardinality(S)), iter)
  BY <1>2, <1>3
<1> QED BY <1>4, <1>5

\* Every choice takes one of the options of each thing, and nothing else.
LEMMA SelectionsSelect ==
    ASSUME NEW options, IsFiniteSet(DOMAIN options), NEW c \in Selections(options)
    PROVE  /\ c = [x \in DOMAIN options |-> c[x]]
           /\ \A x \in DOMAIN options : c[x] \in options[x]
<1> DEFINE S == DOMAIN options
           i == CHOOSE iter : SelectionEquation(options, SUBSET S, iter)
           Good(s, d) == d = [x \in s |-> d[x]] /\ \A x \in s : d[x] \in options[x]
           Bad == {s \in SUBSET S : ~ \A d \in i[s] : Good(s, d)}
<1>1. SelectionEquation(options, SUBSET S, i)
  BY SelectionsExist
<1>2. Selections(options) = i[S]
  BY DEF Selections, FoldSet, MapThenFoldSet, SelectionEquation, More
<1> HIDE DEF i
<1>3. ASSUME Bad # {} PROVE FALSE
  <2>1. PICK s \in Bad : \A t \in SUBSET s : t # s => t \notin Bad
    <3> HIDE DEF Bad
    <3>1. Bad \subseteq SUBSET S
      BY DEF Bad
    <3> QED BY <3>1, <1>3, MinimalSubset
  <2>2. PICK d \in i[s] : ~ Good(s, d)
    BY <2>1
  <2>3. CASE s = {}
    <3>1. i[s] = {<<>>}
      BY <1>1, <2>3 DEF SelectionEquation
    <3>2. d = <<>>
      BY <2>2, <3>1
    <3>3. d = [x \in s |-> d[x]]
      BY <2>3, <3>2
    <3> QED BY <2>2, <2>3, <3>3
  <2>4. CASE s # {}
    <3> DEFINE x == CHOOSE x \in s : TRUE
    <3>1. x \in s /\ s \in SUBSET S
      BY <2>1, <2>4
    <3>2. i[s] = More(options, s, i[s \ {x}])
      BY <1>1, <2>4, <3>1, Zenon DEF SelectionEquation
    <3>3. PICK e \in i[s \ {x}], o \in options[x] : d = With(e, x, o)
      <4>1. d \in More(options, s, i[s \ {x}])
        BY <2>2, <3>2, Zenon
      <4>2. \A some : d \in More(options, s, some) =>
                        \E e \in some, o \in options[x] : d = With(e, x, o)
        BY DEF More
      <4> QED BY <4>1, <4>2, Zenon
    <3> HIDE DEF x
    <3>4. Good(s \ {x}, e)
      BY <2>1, <3>1, <3>3
    <3>5. /\ d = [y \in s |-> d[y]] /\ \A y \in s : d[y] = IF y = x THEN o ELSE e[y]
      BY <3>1, <3>3, <3>4 DEF With
    <3>6. Good(s, d)
      BY <3>3, <3>4, <3>5
    <3> QED BY <2>2, <3>6
  <2> QED BY <2>3, <2>4
<1> QED BY <1>2, <1>3
=============================================================================
