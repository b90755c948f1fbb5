---------------------------- MODULE FiniteInduction ----------------------------
(***************************************************************************)
(* The least-number principle, and what it says of sums over finite sets.  *)
(***************************************************************************)
EXTENDS Integers, Functions, FiniteSetTheorems, WellFoundedInduction, TLAPS

\* The order of the naturals as a set of pairs.
LEMMA PairsOfLessThan == \A x, y \in Nat : y < x => <<y, x>> \in OpToRel(<, Nat)
<1> TAKE x, y \in Nat
<1> HAVE y < x
<1> DEFINE p == <<y, x>>
<1>1. p \in Nat \X Nat /\ p[1] = y /\ p[2] = x
  OBVIOUS
<1> HIDE DEF p
<1>2. p \in {pair \in Nat \X Nat : pair[1] < pair[2]}
  BY <1>1
<1>3. p \in OpToRel(<, Nat)
  BY <1>2, Zenon DEF OpToRel
<1> QED
  BY <1>3, Zenon DEF p

\* That order is well founded.
LEMMA WellFoundedOrder ==
  \E R : IsWellFoundedOn(R, Nat) /\ \A x, y \in Nat : y < x => <<y, x>> \in R
<1>1. IsWellFoundedOn(OpToRel(<, Nat), Nat)
  BY NatLessThanWellFounded, Zenon
<1> QED
  BY <1>1, PairsOfLessThan, Zenon

\* A set of naturals that is not empty has a least element.
LEMMA LeastExists ==
  ASSUME NEW S \in SUBSET Nat, S # {}
  PROVE  \E x \in S : \A y \in S : x <= y
<1> PICK R : IsWellFoundedOn(R, Nat) /\ \A x, y \in Nat : y < x => <<y, x>> \in R
  BY WellFoundedOrder
<1> PICK x \in S : \A y \in S : ~ (<<y, x>> \in R)
  BY WFMin
<1>1. ASSUME NEW y \in S PROVE x <= y
  <2>1. x \in Nat /\ y \in Nat /\ ~ (y < x)
    OBVIOUS
  <2> QED
    BY <2>1
<1> QED
  BY <1>1
-------------------------------------------------------------------------------
(***************************************************************************)
(* Sums.  The library's sum picks the elements one after the other; what   *)
(* is shown is that this defines a number and respects a factor.           *)
(***************************************************************************)
Pick(s) == CHOOSE x \in s : TRUE

\* The sums of f over the sets of SS, if SS has, with a set, what is left of it.
AreSums(g, f, SS) ==
  g = [s \in SS |-> IF s = {} THEN 0 ELSE f[Pick(s)] + g[s \ {Pick(s)}]]

LEMMA SumIsChosen ==
  ASSUME NEW f
  PROVE  SumFunction(f) = (CHOOSE g : AreSums(g, f, SUBSET DOMAIN f))[DOMAIN f]
BY Zenon DEF SumFunction, SumFunctionOnSet, FoldFunctionOnSet, MapThenFoldSet, AreSums, Pick

LEMMA PickIsElement == \A s : s # {} => Pick(s) \in s
BY DEF Pick

\* g is what the steps F build from base over the subsets of S.
Builds(g, S, base, F) ==
  \A s \in SUBSET S : g[s] = IF s = {} THEN base ELSE F[Pick(s)][g[s \ {Pick(s)}]]

\* It exists, by induction on the size of the subsets.
LEMMA FoldsExist ==
  ASSUME NEW S, IsFiniteSet(S), NEW V, NEW base \in V, NEW F, \A i \in S : F[i] \in [V -> V]
  PROVE  \E g \in [SUBSET S -> V] : Builds(g, S, base, F)
<1> DEFINE Small(n) == {s \in SUBSET S : Cardinality(s) <= n}
           Step(g, s) == IF s = {} THEN base ELSE F[Pick(s)][g[s \ {Pick(s)}]]
           Fold(g, n) == g \in [Small(n) -> V] /\ \A s \in Small(n) : g[s] = Step(g, s)
           Missing == {n \in Nat : ~ \E g : Fold(g, n)}
<1>1. \A s \in SUBSET S : /\ IsFiniteSet(s) /\ Cardinality(s) \in Nat
                          /\ Cardinality(s) <= Cardinality(S)
                          /\ s = {} <=> Cardinality(s) = 0
  BY FS_Subset, FS_CardinalityType, FS_EmptySet
<1>2. ASSUME NEW s \in SUBSET S, s # {}
      PROVE  /\ Pick(s) \in S /\ s \ {Pick(s)} \in SUBSET S
             /\ Cardinality(s \ {Pick(s)}) = Cardinality(s) - 1
  BY <1>1, <1>2, PickIsElement, FS_RemoveElement
<1>3. Missing = {}
  <2> SUFFICES ASSUME Missing # {} PROVE FALSE
    OBVIOUS
  <2>1. Missing \in SUBSET Nat
    OBVIOUS
  <2>2. PICK n \in Missing : \A k \in Missing : n <= k
    BY <2>1, LeastExists, Zenon
  <2>3. n \in Nat /\ ~ \E g : Fold(g, n)
    BY <2>2
  <2>4. CASE n = 0
    <3> DEFINE g == [s \in Small(n) |-> base]
    <3>1. \A s \in Small(n) : s = {}
      BY <1>1, <2>4
    <3>2. Fold(g, n)
      BY <3>1
    <3> QED
      BY <2>3, <3>2
  <2>5. CASE n # 0
    <3> HIDE DEF Missing
    <3>1. n - 1 \in Nat /\ n - 1 \notin Missing
      BY <2>2, <2>3, <2>5
    <3> USE DEF Missing
    <3>2. PICK g : Fold(g, n - 1)
      BY <3>1
    <3> DEFINE h == [s \in Small(n) |-> Step(g, s)]
    <3>3. \A s \in Small(n) : s # {} => /\ s \ {Pick(s)} \in Small(n - 1)
                                        /\ F[Pick(s)] \in [V -> V]
      BY <1>1, <1>2, <2>3
    <3>4. \A s \in Small(n) : Step(g, s) \in V
      BY <3>2, <3>3
    <3>5. \A s \in Small(n - 1) : s \in Small(n) /\ h[s] = g[s]
      <4>1. \A s \in Small(n - 1) : s \in Small(n)
        BY <1>1, <2>3
      <4>2. \A s \in Small(n - 1) : g[s] = Step(g, s)
        BY <3>2, Zenon
      <4>3. \A s \in Small(n) : h[s] = Step(g, s)
        BY Zenon
      <4> QED
        BY <4>1, <4>2, <4>3, Zenon
    <3>6. \A s \in Small(n) : Step(g, s) = Step(h, s)
      BY <3>3, <3>5
    <3>7. Fold(h, n)
      BY <3>4, <3>6
    <3> QED
      BY <2>3, <3>7
  <2> QED
    BY <2>4, <2>5
<1>4. Cardinality(S) \in Nat /\ Small(Cardinality(S)) = SUBSET S
  BY <1>1, FS_CardinalityType
<1>5. \E g : Fold(g, Cardinality(S))
  BY <1>3, <1>4
<1> QED
  BY <1>4, <1>5 DEF Builds

\* The sums exist.
LEMMA SumsExist ==
  ASSUME NEW f, NEW S, IsFiniteSet(S), \A i \in S : f[i] \in Int
  PROVE  \E g : AreSums(g, f, SUBSET S)
<1> DEFINE V == Int
           F == [i \in S |-> [y \in Int |-> f[i] + y]]
<1>1. \A i \in S : F[i] \in [Int -> Int] /\ \A y \in Int : F[i][y] = f[i] + y
  OBVIOUS
<1> HIDE DEF F
<1>2. PICK g \in [SUBSET S -> Int] : Builds(g, S, 0, F)
  <2>1. 0 \in V /\ \A i \in S : F[i] \in [V -> V]
    BY <1>1
  <2> HIDE DEF V
  <2>2. \E g \in [SUBSET S -> V] : Builds(g, S, 0, F)
    BY <2>1, FoldsExist
  <2> QED
    BY <2>2 DEF V
<1>3. \A s \in SUBSET S : s # {} => Pick(s) \in S /\ g[s \ {Pick(s)}] \in Int
  BY PickIsElement
<1>4. \A s \in SUBSET S : g[s] = IF s = {} THEN 0 ELSE f[Pick(s)] + g[s \ {Pick(s)}]
  BY <1>1, <1>2, <1>3 DEF Builds
<1>5. g = [s \in SUBSET S |-> g[s]]
  OBVIOUS
<1>6. AreSums(g, f, SUBSET S)
  BY <1>4, <1>5 DEF AreSums
<1> QED
  BY <1>6

\* The sums are integers, all of them.
LEMMA SumsAreInt ==
  ASSUME NEW f, NEW S, IsFiniteSet(S), \A i \in S : f[i] \in Int,
         NEW g, AreSums(g, f, SUBSET S)
  PROVE  \A s \in SUBSET S : g[s] \in Int
<1> DEFINE Bad == {s \in SUBSET S : g[s] \notin Int}
           Sizes == {Cardinality(s) : s \in Bad}
<1> SUFFICES ASSUME Bad # {} PROVE FALSE
  OBVIOUS
<1>1. \A s \in SUBSET S : IsFiniteSet(s) /\ Cardinality(s) \in Nat
  BY FS_Subset, FS_CardinalityType
<1>2. Sizes \in SUBSET Nat /\ Sizes # {}
  BY <1>1
<1>3. PICK n \in Sizes : \A k \in Sizes : n <= k
  BY <1>2, LeastExists, Zenon
<1>4. PICK s \in Bad : Cardinality(s) = n
  OBVIOUS
<1>5. g[s] = IF s = {} THEN 0 ELSE f[Pick(s)] + g[s \ {Pick(s)}]
  BY DEF AreSums
<1>6. s # {}
  BY <1>5
<1> DEFINE left == s \ {Pick(s)}
<1>7. left \in SUBSET S /\ Cardinality(left) = n - 1 /\ Pick(s) \in S
  BY <1>1, <1>4, <1>6, PickIsElement, FS_RemoveElement
<1>8. left \notin Bad
  BY <1>1, <1>3, <1>4, <1>7
<1> QED
  BY <1>5, <1>6, <1>7, <1>8

\* A sum of integers is an integer.
LEMMA SumIsInt ==
  ASSUME NEW f, IsFiniteSet(DOMAIN f), \A i \in DOMAIN f : f[i] \in Int
  PROVE  SumFunction(f) \in Int
<1> DEFINE g == CHOOSE h : AreSums(h, f, SUBSET DOMAIN f)
<1>1. AreSums(g, f, SUBSET DOMAIN f)
  BY SumsExist, Zenon
<1>2. SumFunction(f) = g[DOMAIN f]
  BY SumIsChosen, Zenon
<1> HIDE DEF g
<1> QED
  BY <1>1, <1>2, SumsAreInt

\* A common factor can be taken out of a sum.
LEMMA SumScales ==
  ASSUME NEW f, NEW h, NEW c \in Int, IsFiniteSet(DOMAIN f), DOMAIN h = DOMAIN f,
         \A i \in DOMAIN f : f[i] \in Int /\ h[i] = c * f[i]
  PROVE  SumFunction(h) = c * SumFunction(f)
<1> DEFINE S == DOMAIN f
           u == CHOOSE g : AreSums(g, f, SUBSET S)
           v == CHOOSE g : AreSums(g, h, SUBSET S)
           Bad == {s \in SUBSET S : v[s] # c * u[s]}
           Sizes == {Cardinality(s) : s \in Bad}
<1>1. AreSums(u, f, SUBSET S) /\ AreSums(v, h, SUBSET S)
  <2>1. \A i \in S : f[i] \in Int /\ h[i] \in Int
    OBVIOUS
  <2> QED
    BY <2>1, SumsExist, Zenon
<1>2. SumFunction(f) = u[S] /\ SumFunction(h) = v[S]
  BY SumIsChosen, Zenon
<1> HIDE DEF u, v
<1>3. \A s \in SUBSET S : u[s] \in Int
  BY <1>1, SumsAreInt
<1>4. Bad = {}
  <2> SUFFICES ASSUME Bad # {} PROVE FALSE
    OBVIOUS
  <2>1. \A s \in SUBSET S : IsFiniteSet(s) /\ Cardinality(s) \in Nat
    BY FS_Subset, FS_CardinalityType
  <2>2. Sizes \in SUBSET Nat /\ Sizes # {}
    BY <2>1
  <2>3. PICK n \in Sizes : \A k \in Sizes : n <= k
    BY <2>2, LeastExists, Zenon
  <2>4. PICK s \in Bad : Cardinality(s) = n
    OBVIOUS
  <2>5. /\ u[s] = IF s = {} THEN 0 ELSE f[Pick(s)] + u[s \ {Pick(s)}]
        /\ v[s] = IF s = {} THEN 0 ELSE h[Pick(s)] + v[s \ {Pick(s)}]
    BY <1>1 DEF AreSums
  <2>6. s # {}
    BY <2>5
  <2> DEFINE left == s \ {Pick(s)}
  <2>7. left \in SUBSET S /\ Cardinality(left) = n - 1 /\ Pick(s) \in S
    BY <2>1, <2>4, <2>6, PickIsElement, FS_RemoveElement
  <2>8. left \notin Bad
    <3>1. n \in Nat
      BY <2>1, <2>4
    <3>2. left \in Bad => Cardinality(left) \in Sizes
      OBVIOUS
    <3> HIDE DEF Sizes, Bad, left
    <3> QED
      BY <2>3, <2>7, <3>1, <3>2
  <2>9. v[left] = c * u[left] /\ u[left] \in Int
    BY <1>3, <2>7, <2>8
  <2>10. f[Pick(s)] \in Int /\ h[Pick(s)] = c * f[Pick(s)]
    BY <2>7
  <2>11. v[s] = h[Pick(s)] + v[left] /\ u[s] = f[Pick(s)] + u[left]
    BY <2>5, <2>6
  <2>12. \A x, y \in Int : c * x + c * y = c * (x + y)
    OBVIOUS
  <2>13. v[s] = c * u[s]
    <3> DEFINE x == f[Pick(s)]
               y == u[left]
    <3>1. x \in Int /\ y \in Int /\ v[s] = c * x + c * y /\ u[s] = x + y
      BY <2>9, <2>10, <2>11
    <3> HIDE DEF x, y, left
    <3> QED
      BY <2>12, <3>1
  <2> QED
    BY <2>13
<1> QED
  BY <1>2, <1>4
-------------------------------------------------------------------------------
(***************************************************************************)
(* Sums of two functions, of smaller ones and of a sum of sums.            *)
(***************************************************************************)
\* What holds of a set when it holds of its proper subsets holds of every
\* subset of a finite set.
LEMMA SubsetInduction ==
  ASSUME NEW S, IsFiniteSet(S), NEW G,
         \A s \in SUBSET S : (\A r \in SUBSET s : r # s => r \in G) => s \in G
  PROVE  \A s \in SUBSET S : s \in G
<1> DEFINE Bad == {s \in SUBSET S : s \notin G}
           Sizes == {Cardinality(s) : s \in Bad}
<1> SUFFICES ASSUME Bad # {} PROVE FALSE
  OBVIOUS
<1>1. \A s \in SUBSET S : IsFiniteSet(s) /\ Cardinality(s) \in Nat
  BY FS_Subset, FS_CardinalityType
<1>2. Sizes \in SUBSET Nat /\ Sizes # {}
  BY <1>1
<1>3. PICK n \in Sizes : \A k \in Sizes : n <= k
  BY <1>2, LeastExists, Zenon
<1>4. PICK s \in Bad : Cardinality(s) = n
  OBVIOUS
<1>5. ASSUME NEW r \in SUBSET s, r # s PROVE r \in G
  <2>1. Cardinality(r) <= Cardinality(s) /\ Cardinality(r) # Cardinality(s)
    BY <1>1, <1>5, FS_Subset
  <2>2. r \in SUBSET S /\ (r \in Bad => Cardinality(r) \in Sizes)
    OBVIOUS
  <2>3. Cardinality(r) \in Nat /\ n \in Nat
    BY <1>1, <1>4, <2>2
  <2> HIDE DEF Sizes
  <2> QED
    BY <1>3, <1>4, <2>1, <2>2, <2>3
<1> QED
  BY <1>5

\* The sums of the values of f over the subsets of its domain.
Sums(u, f) ==
  /\ \A s \in SUBSET DOMAIN f : u[s] \in Int
  /\ \A s \in SUBSET DOMAIN f :
       u[s] = IF s = {} THEN 0 ELSE f[Pick(s)] + u[s \ {Pick(s)}]

LEMMA SumsOf ==
  ASSUME NEW f, IsFiniteSet(DOMAIN f), \A i \in DOMAIN f : f[i] \in Int
  PROVE  \E u : Sums(u, f) /\ SumFunction(f) = u[DOMAIN f]
<1> DEFINE u == CHOOSE h : AreSums(h, f, SUBSET DOMAIN f)
<1>1. AreSums(u, f, SUBSET DOMAIN f)
  BY SumsExist, Zenon
<1>2. SumFunction(f) = u[DOMAIN f]
  BY SumIsChosen, Zenon
<1> HIDE DEF u
<1>3. \A s \in SUBSET DOMAIN f : u[s] \in Int
  BY <1>1, SumsAreInt
<1>4. \A s \in SUBSET DOMAIN f :
        u[s] = IF s = {} THEN 0 ELSE f[Pick(s)] + u[s \ {Pick(s)}]
  BY <1>1 DEF AreSums
<1> QED
  BY <1>2, <1>3, <1>4 DEF Sums

\* Any element can be taken out first.
LEMMA SumsTakeOut ==
  ASSUME NEW f, IsFiniteSet(DOMAIN f), \A i \in DOMAIN f : f[i] \in Int, NEW u, Sums(u, f)
  PROVE  \A s \in SUBSET DOMAIN f : \A x \in s : u[s] = f[x] + u[s \ {x}]
<1> DEFINE S == DOMAIN f
           G == {s \in SUBSET S : \A x \in s : u[s] = f[x] + u[s \ {x}]}
<1>1. ASSUME NEW s \in SUBSET S, \A r \in SUBSET s : r # s => r \in G
      PROVE  s \in G
  <2> SUFFICES ASSUME NEW x \in s PROVE u[s] = f[x] + u[s \ {x}]
    OBVIOUS
  <2> DEFINE y == Pick(s)
  <2>1. y \in s /\ u[s] = f[y] + u[s \ {y}]
    BY PickIsElement DEF Sums
  <2> HIDE DEF y
  <2>2. CASE x = y
    BY <2>1, <2>2
  <2>3. CASE x # y
    <3>1. s \ {y} \in G /\ x \in s \ {y} /\ s \ {x} \in G /\ y \in s \ {x}
      BY <1>1, <2>1, <2>3
    <3>2. (s \ {y}) \ {x} = (s \ {x}) \ {y} /\ (s \ {y}) \ {x} \in SUBSET S
      OBVIOUS
    <3>3. u[s \ {y}] = f[x] + u[(s \ {y}) \ {x}] /\ u[s \ {x}] = f[y] + u[(s \ {x}) \ {y}]
      BY <3>1
    <3>4. f[x] \in Int /\ f[y] \in Int /\ u[(s \ {y}) \ {x}] \in Int
      BY <2>1, <3>2 DEF Sums
    <3> DEFINE w == u[(s \ {y}) \ {x}]
    <3>5. u[s] = f[y] + (f[x] + w) /\ u[s \ {x}] = f[y] + w /\ w \in Int
      BY <2>1, <3>2, <3>3, <3>4
    <3> HIDE DEF w
    <3> QED
      BY <3>4, <3>5
  <2> QED
    BY <2>2, <2>3
<1> HIDE DEF G
<1>2. \A s \in SUBSET S : s \in G
  BY <1>1, SubsetInduction, Zenon
<1> QED
  BY <1>2 DEF G

\* The sums of a function over a part of its domain are those of the part.
LEMMA SumsOfPart ==
  ASSUME NEW f, NEW g, IsFiniteSet(DOMAIN f), DOMAIN g \subseteq DOMAIN f,
         \A i \in DOMAIN g : g[i] = f[i], NEW u, Sums(u, f), NEW v, Sums(v, g)
  PROVE  v[DOMAIN g] = u[DOMAIN g]
<1> DEFINE T == DOMAIN g
           G == {s \in SUBSET T : v[s] = u[s]}
<1>1. ASSUME NEW s \in SUBSET T, \A r \in SUBSET s : r # s => r \in G
      PROVE  s \in G
  <2>1. CASE s = {}
    BY <2>1 DEF Sums
  <2>2. CASE s # {}
    <3> DEFINE y == Pick(s)
    <3>1. y \in s /\ s \ {y} \in SUBSET s /\ s \ {y} # s
      BY <2>2, PickIsElement
    <3>2. u[s] = f[y] + u[s \ {y}] /\ v[s] = g[y] + v[s \ {y}]
      BY <2>2 DEF Sums
    <3> HIDE DEF y
    <3>3. v[s \ {y}] = u[s \ {y}] /\ g[y] = f[y]
      BY <1>1, <3>1
    <3> QED
      BY <3>2, <3>3
  <2> QED
    BY <2>1, <2>2
<1> HIDE DEF G
<1>2. IsFiniteSet(T)
  BY FS_Subset
<1>3. \A s \in SUBSET T : s \in G
  BY <1>1, <1>2, SubsetInduction, Zenon
<1> QED
  BY <1>3 DEF G

\* The sum and one of its terms.
LEMMA SumWithout ==
  ASSUME NEW f, IsFiniteSet(DOMAIN f), \A i \in DOMAIN f : f[i] \in Int, NEW x \in DOMAIN f
  PROVE  SumFunction(f) = f[x] + SumFunction([i \in DOMAIN f \ {x} |-> f[i]])
<1> DEFINE g == [i \in DOMAIN f \ {x} |-> f[i]]
<1>1. DOMAIN g = DOMAIN f \ {x} /\ \A i \in DOMAIN g : g[i] = f[i] /\ g[i] \in Int
  OBVIOUS
<1> HIDE DEF g
<1>2. IsFiniteSet(DOMAIN g)
  BY <1>1, FS_RemoveElement
<1>3. PICK u : Sums(u, f) /\ SumFunction(f) = u[DOMAIN f]
  BY SumsOf
<1>4. PICK v : Sums(v, g) /\ SumFunction(g) = v[DOMAIN g]
  BY <1>1, <1>2, SumsOf
<1>5. v[DOMAIN g] = u[DOMAIN g]
  BY <1>1, <1>3, <1>4, SumsOfPart
<1>6. u[DOMAIN f] = f[x] + u[DOMAIN f \ {x}]
  BY <1>3, SumsTakeOut
<1>7. SumFunction(f) = f[x] + SumFunction(g)
  BY <1>1, <1>3, <1>4, <1>5, <1>6
<1> QED
  BY <1>7 DEF g

\* The sum of sums of terms.
LEMMA SumAdds ==
  ASSUME NEW f, NEW g, NEW h, IsFiniteSet(DOMAIN f), DOMAIN g = DOMAIN f, DOMAIN h = DOMAIN f,
         \A i \in DOMAIN f : f[i] \in Int /\ g[i] \in Int /\ h[i] = f[i] + g[i]
  PROVE  SumFunction(h) = SumFunction(f) + SumFunction(g)
<1> DEFINE S == DOMAIN f
<1>1. \A i \in S : f[i] \in Int /\ g[i] \in Int /\ h[i] \in Int
  OBVIOUS
<1>2. PICK u : Sums(u, f) /\ SumFunction(f) = u[S]
  BY <1>1, SumsOf
<1>3. PICK v : Sums(v, g) /\ SumFunction(g) = v[S]
  BY <1>1, SumsOf
<1>4. PICK w : Sums(w, h) /\ SumFunction(h) = w[S]
  BY <1>1, SumsOf
<1> DEFINE G == {s \in SUBSET S : w[s] = u[s] + v[s]}
<1>5. ASSUME NEW s \in SUBSET S, \A r \in SUBSET s : r # s => r \in G
      PROVE  s \in G
  <2>1. CASE s = {}
    <3>1. u[s] = 0 /\ v[s] = 0 /\ w[s] = 0
      BY <1>2, <1>3, <1>4, <2>1 DEF Sums
    <3> QED
      BY <3>1
  <2>2. CASE s # {}
    <3> DEFINE y == Pick(s)
               r == s \ {y}
    <3>1. y \in s /\ r \in SUBSET s /\ r # s /\ r \in SUBSET S
      BY <2>2, PickIsElement
    <3>2. w[s] = h[y] + w[r] /\ u[s] = f[y] + u[r] /\ v[s] = g[y] + v[r]
      BY <1>2, <1>3, <1>4, <2>2 DEF Sums
    <3> HIDE DEF y, r
    <3>3. w[r] = u[r] + v[r] /\ u[r] \in Int /\ v[r] \in Int
      BY <1>2, <1>3, <1>5, <3>1 DEF Sums
    <3>4. h[y] = f[y] + g[y] /\ f[y] \in Int /\ g[y] \in Int
      BY <3>1
    <3>5. w[s] = u[s] + v[s]
      BY <3>2, <3>3, <3>4
    <3> QED
      BY <3>5
  <2> QED
    BY <2>1, <2>2
<1> HIDE DEF G
<1>6. \A s \in SUBSET S : s \in G
  BY <1>5, SubsetInduction, Zenon
<1> QED
  BY <1>2, <1>3, <1>4, <1>6 DEF G

\* A sum of smaller terms is smaller.
LEMMA SumMonotone ==
  ASSUME NEW f, NEW g, IsFiniteSet(DOMAIN f), DOMAIN g = DOMAIN f,
         \A i \in DOMAIN f : f[i] \in Int /\ g[i] \in Int /\ f[i] <= g[i]
  PROVE  SumFunction(f) <= SumFunction(g)
<1> DEFINE S == DOMAIN f
<1>1. PICK u : Sums(u, f) /\ SumFunction(f) = u[S]
  BY SumsOf
<1>2. PICK v : Sums(v, g) /\ SumFunction(g) = v[S]
  BY SumsOf
<1> DEFINE G == {s \in SUBSET S : u[s] <= v[s]}
<1>3. ASSUME NEW s \in SUBSET S, \A r \in SUBSET s : r # s => r \in G
      PROVE  s \in G
  <2>1. CASE s = {}
    <3>1. u[s] = 0 /\ v[s] = 0
      BY <1>1, <1>2, <2>1 DEF Sums
    <3> QED
      BY <3>1
  <2>2. CASE s # {}
    <3> DEFINE y == Pick(s)
               r == s \ {y}
    <3>1. y \in s /\ r \in SUBSET s /\ r # s /\ r \in SUBSET S
      BY <2>2, PickIsElement
    <3>2. u[s] = f[y] + u[r] /\ v[s] = g[y] + v[r]
      BY <1>1, <1>2, <2>2 DEF Sums
    <3> HIDE DEF y, r
    <3>3. u[r] <= v[r] /\ u[r] \in Int /\ v[r] \in Int
      BY <1>1, <1>2, <1>3, <3>1 DEF Sums
    <3>4. f[y] \in Int /\ g[y] \in Int /\ f[y] <= g[y]
      BY <3>1
    <3>5. u[s] <= v[s]
      BY <3>2, <3>3, <3>4
    <3> QED
      BY <3>5
  <2> QED
    BY <2>1, <2>2
<1> HIDE DEF G
<1>4. \A s \in SUBSET S : s \in G
  BY <1>3, SubsetInduction, Zenon
<1> QED
  BY <1>1, <1>2, <1>4 DEF G

\* The sum of one number over and over.
LEMMA SumOfConstant ==
  ASSUME NEW f, IsFiniteSet(DOMAIN f), NEW c \in Int, \A i \in DOMAIN f : f[i] = c
  PROVE  SumFunction(f) = c * Cardinality(DOMAIN f)
<1> DEFINE S == DOMAIN f
<1>1. PICK u : Sums(u, f) /\ SumFunction(f) = u[S]
  BY SumsOf
<1> DEFINE G == {s \in SUBSET S : u[s] = c * Cardinality(s)}
<1>2. ASSUME NEW s \in SUBSET S, \A r \in SUBSET s : r # s => r \in G
      PROVE  s \in G
  <2>1. CASE s = {}
    <3>1. Cardinality(s) = 0 /\ u[s] = 0
      BY <1>1, <2>1, FS_EmptySet DEF Sums
    <3> QED
      BY <3>1
  <2>2. CASE s # {}
    <3> DEFINE y == Pick(s)
               r == s \ {y}
    <3>1. y \in s /\ r \in SUBSET s /\ r # s /\ r \in SUBSET S
      BY <2>2, PickIsElement
    <3>2. IsFiniteSet(s) /\ Cardinality(s) \in Nat /\ Cardinality(r) = Cardinality(s) - 1
      BY <3>1, FS_Subset, FS_CardinalityType, FS_RemoveElement
    <3>3. u[s] = f[y] + u[r] /\ f[y] = c
      BY <1>1, <2>2, <3>1 DEF Sums
    <3> HIDE DEF y, r
    <3>4. u[r] = c * Cardinality(r)
      BY <1>2, <3>1
    <3> DEFINE k == Cardinality(s)
    <3>5. k \in Nat /\ u[s] = c + c * (k - 1)
      BY <3>2, <3>3, <3>4
    <3> HIDE DEF k
    <3>6. u[s] = c * k
      BY <3>5
    <3> QED
      BY <3>6 DEF k
  <2> QED
    BY <2>1, <2>2
<1> HIDE DEF G
<1>3. \A s \in SUBSET S : s \in G
  BY <1>2, SubsetInduction, Zenon
<1> QED
  BY <1>1, <1>3 DEF G

LEMMA SumIsNat ==
  ASSUME NEW f, IsFiniteSet(DOMAIN f), \A i \in DOMAIN f : f[i] \in Nat
  PROVE  SumFunction(f) \in Nat
<1> DEFINE z == [i \in DOMAIN f |-> 0]
<1>1. DOMAIN z = DOMAIN f /\ \A i \in DOMAIN f : z[i] = 0
  OBVIOUS
<1> HIDE DEF z
<1>2. SumFunction(z) = 0
  <2>1. SumFunction(z) = 0 * Cardinality(DOMAIN f)
    BY <1>1, SumOfConstant
  <2> QED
    BY <2>1, FS_CardinalityType
<1>3. SumFunction(z) <= SumFunction(f)
  BY <1>1, SumMonotone
<1>4. SumFunction(f) \in Int
  BY SumIsInt
<1> QED
  BY <1>2, <1>3, <1>4

\* A finite set of naturals that is not empty has a greatest element.
LEMMA GreatestExists ==
  ASSUME NEW S \in SUBSET Nat, IsFiniteSet(S), S # {}
  PROVE  \E x \in S : \A y \in S : y <= x
<1> DEFINE G == {s \in SUBSET S : s # {} => \E x \in s : \A y \in s : y <= x}
<1>1. ASSUME NEW s \in SUBSET S, \A r \in SUBSET s : r # s => r \in G
      PROVE  s \in G
  <2> SUFFICES ASSUME s # {} PROVE \E x \in s : \A y \in s : y <= x
    OBVIOUS
  <2> PICK z \in s : TRUE
    OBVIOUS
  <2> DEFINE r == s \ {z}
  <2>1. CASE r = {}
    BY <2>1
  <2>2. CASE r # {}
    <3>1. r \in SUBSET s /\ r # s
      OBVIOUS
    <3>2. PICK x \in r : \A y \in r : y <= x
      BY <1>1, <2>2, <3>1
    <3>3. z \in Nat /\ x \in Nat /\ x \in s /\ \A y \in s : y \in Nat /\ (y = z \/ y <= x)
      BY <3>2
    <3> HIDE DEF r
    <3>4. CASE z <= x
      BY <3>3, <3>4
    <3>5. CASE ~ (z <= x)
      <4>1. \A y \in s : y <= z
        BY <3>3, <3>5
      <4> QED
        BY <4>1
    <3> QED
      BY <3>4, <3>5
  <2> QED
    BY <2>1, <2>2
<1> HIDE DEF G
<1>2. \A s \in SUBSET S : s \in G
  BY <1>1, SubsetInduction, Zenon
<1> QED
  BY <1>2 DEF G

\* Rows first or columns first.
RowSums(a, I, K) == [i \in I |-> SumFunction([k \in K |-> a[i][k]])]
ColumnSums(a, I, K) == [k \in K |-> SumFunction([i \in I |-> a[i][k]])]

LEMMA SumOfSums ==
  ASSUME NEW I, NEW K, IsFiniteSet(I), IsFiniteSet(K), NEW a,
         \A i \in I, k \in K : a[i][k] \in Int
  PROVE  SumFunction(RowSums(a, I, K)) = SumFunction(ColumnSums(a, I, K))
<1> DEFINE Row(i) == [k \in K |-> a[i][k]]
           Column(k) == [i \in I |-> a[i][k]]
           Over(s, k) == SumFunction([i \in s |-> a[i][k]])
           rows == [i \in I |-> SumFunction(Row(i))]
           Columns(s) == [k \in K |-> Over(s, k)]
<1>1. \A i \in I : SumFunction(Row(i)) \in Int
  <2> TAKE i \in I
  <2> DEFINE f == Row(i)
  <2>1. DOMAIN f = K /\ \A k \in DOMAIN f : f[k] \in Int
    OBVIOUS
  <2> HIDE DEF f
  <2> QED
    BY <2>1, SumIsInt DEF f
<1>2. \A s \in SUBSET I, k \in K : Over(s, k) \in Int
  <2> TAKE s \in SUBSET I, k \in K
  <2> DEFINE f == [i \in s |-> a[i][k]]
  <2>1. DOMAIN f = s /\ IsFiniteSet(s) /\ \A i \in DOMAIN f : f[i] \in Int
    BY FS_Subset
  <2> HIDE DEF f
  <2> QED
    BY <2>1, SumIsInt DEF f
<1>3. \A s \in SUBSET I, k \in K : \A x \in s : Over(s, k) = a[x][k] + Over(s \ {x}, k)
  <2> TAKE s \in SUBSET I, k \in K
  <2> TAKE x \in s
  <2> DEFINE f == [i \in s |-> a[i][k]]
  <2>1. DOMAIN f = s /\ IsFiniteSet(s) /\ \A i \in DOMAIN f : f[i] \in Int /\ f[i] = a[i][k]
    BY FS_Subset
  <2> HIDE DEF f
  <2>2. SumFunction(f) = f[x] + SumFunction([i \in DOMAIN f \ {x} |-> f[i]])
    BY <2>1, SumWithout
  <2>3. [i \in DOMAIN f \ {x} |-> f[i]] = [i \in s \ {x} |-> a[i][k]]
    BY <2>1
  <2> QED
    BY <2>1, <2>2, <2>3 DEF f
<1>4. \A k : Over({}, k) = 0
  <2> TAKE k
  <2> DEFINE f == [i \in {} |-> a[i][k]]
  <2>1. DOMAIN f = {} /\ IsFiniteSet({}) /\ \A i \in DOMAIN f : f[i] \in Int
    BY FS_EmptySet
  <2> HIDE DEF f
  <2>2. PICK u : Sums(u, f) /\ SumFunction(f) = u[DOMAIN f]
    BY <2>1, SumsOf
  <2>3. SumFunction(f) = 0
    BY <2>1, <2>2 DEF Sums
  <2> QED
    BY <2>3 DEF f
<1>5. DOMAIN rows = I /\ \A i \in I : rows[i] = SumFunction(Row(i)) /\ rows[i] \in Int
  BY <1>1
<1>6. \A s : DOMAIN Columns(s) = K /\ \A k \in K : Columns(s)[k] = Over(s, k)
  OBVIOUS
<1>7. \A i : DOMAIN Row(i) = K /\ \A k \in K : Row(i)[k] = a[i][k]
  OBVIOUS
<1> HIDE DEF Row, Over, Columns, rows
<1>8. PICK u : Sums(u, rows) /\ SumFunction(rows) = u[I]
  BY <1>5, SumsOf
<1> DEFINE G == {s \in SUBSET I : u[s] = SumFunction(Columns(s))}
<1>9. ASSUME NEW s \in SUBSET I, \A r \in SUBSET s : r # s => r \in G
      PROVE  s \in G
  <2>1. CASE s = {}
    <3>1. \A k \in DOMAIN Columns(s) : Columns(s)[k] = 0
      BY <1>4, <1>6, <2>1
    <3>2. SumFunction(Columns(s)) = 0 * Cardinality(DOMAIN Columns(s))
      BY <1>6, <3>1, SumOfConstant
    <3>3. Cardinality(K) \in Nat
      BY FS_CardinalityType
    <3>4. SumFunction(Columns(s)) = 0
      BY <1>6, <3>2, <3>3
    <3>5. u[s] = 0
      BY <1>5, <1>8, <2>1 DEF Sums
    <3> QED
      BY <3>4, <3>5
  <2>2. CASE s # {}
    <3> DEFINE y == Pick(s)
               r == s \ {y}
    <3>1. y \in s /\ r \in SUBSET s /\ r # s /\ r \in SUBSET I
      BY <2>2, PickIsElement
    <3>2. u[s] = rows[y] + u[r]
      BY <1>5, <1>8, <2>2 DEF Sums
    <3>3. \A k \in K : Over(s, k) = a[y][k] + Over(r, k)
      BY <1>3, <3>1
    <3> HIDE DEF y, r
    <3>4. u[r] = SumFunction(Columns(r))
      BY <1>9, <3>1
    <3>5. SumFunction(Columns(s)) = SumFunction(Row(y)) + SumFunction(Columns(r))
      <4>1. /\ DOMAIN Columns(r) = DOMAIN Row(y) /\ DOMAIN Columns(s) = DOMAIN Row(y)
            /\ IsFiniteSet(DOMAIN Row(y))
        BY <1>6, <1>7
      <4>2. \A k \in DOMAIN Row(y) : /\ Row(y)[k] \in Int /\ Columns(r)[k] \in Int
                                    /\ Columns(s)[k] = Row(y)[k] + Columns(r)[k]
        BY <1>2, <1>6, <1>7, <3>1, <3>3
      <4> QED
        BY <4>1, <4>2, SumAdds
    <3>6. u[s] = SumFunction(Columns(s))
      BY <1>5, <3>1, <3>2, <3>4, <3>5
    <3> QED
      BY <3>6
  <2> QED
    BY <2>1, <2>2
<1> HIDE DEF G
<1>10. \A s \in SUBSET I : s \in G
  BY <1>9, SubsetInduction, Zenon
<1>11. SumFunction(rows) = SumFunction(Columns(I))
  BY <1>8, <1>10 DEF G
<1> QED
  BY <1>11 DEF RowSums, ColumnSums, rows, Row, Columns, Over
-------------------------------------------------------------------------------
\* A finite union of finite sets is finite.
LEMMA FiniteUnion ==
  ASSUME NEW f, IsFiniteSet(DOMAIN f), \A i \in DOMAIN f : IsFiniteSet(f[i])
  PROVE  IsFiniteSet(UNION {f[i] : i \in DOMAIN f})
<1> DEFINE Over(s) == UNION {f[i] : i \in s}
           G == {s \in SUBSET DOMAIN f : IsFiniteSet(Over(s))}
<1>1. ASSUME NEW s \in SUBSET DOMAIN f, \A r \in SUBSET s : r # s => r \in G
      PROVE  s \in G
  <2>1. CASE s = {}
    <3>1. Over(s) = {}
      BY <2>1
    <3> QED
      BY <3>1, FS_EmptySet
  <2>2. CASE s # {}
    <3> PICK y \in s : TRUE
      BY <2>2
    <3> DEFINE r == s \ {y}
    <3>1. r \in SUBSET s /\ r # s
      OBVIOUS
    <3>2. Over(s) = Over(r) \union f[y]
      OBVIOUS
    <3>3. IsFiniteSet(Over(r)) /\ IsFiniteSet(f[y])
      BY <1>1, <3>1
    <3> HIDE DEF Over, r
    <3>4. IsFiniteSet(Over(s))
      BY <3>2, <3>3, FS_Union
    <3> QED
      BY <3>4
  <2> QED
    BY <2>1, <2>2
<1> HIDE DEF G
<1>2. \A s \in SUBSET DOMAIN f : s \in G
  BY <1>1, SubsetInduction, Zenon
<1> QED
  BY <1>2 DEF G
-------------------------------------------------------------------------------
(***************************************************************************)
(* Products, and the squares of a sum.                                     *)
(***************************************************************************)
AreProducts(g, f, SS) ==
  g = [s \in SS |-> IF s = {} THEN 1 ELSE f[Pick(s)] * g[s \ {Pick(s)}]]

ProductOver(f, S) == FoldFunctionOnSet(LAMBDA x, y : x * y, 1, f, S)

LEMMA ProductIsChosen ==
  ASSUME NEW f, NEW S
  PROVE  ProductOver(f, S) = (CHOOSE g : AreProducts(g, f, SUBSET S))[S]
BY Zenon DEF ProductOver, FoldFunctionOnSet, MapThenFoldSet, AreProducts, Pick

LEMMA ProductsExist ==
  ASSUME NEW f, NEW S, IsFiniteSet(S), \A i \in S : f[i] \in Int
  PROVE  \E g : AreProducts(g, f, SUBSET S)
<1> DEFINE V == Int
           F == [i \in S |-> [y \in Int |-> f[i] * y]]
<1>1. \A i \in S : F[i] \in [Int -> Int] /\ \A y \in Int : F[i][y] = f[i] * y
  OBVIOUS
<1> HIDE DEF F
<1>2. PICK g \in [SUBSET S -> Int] : Builds(g, S, 1, F)
  <2>1. 1 \in V /\ \A i \in S : F[i] \in [V -> V]
    BY <1>1
  <2> HIDE DEF V
  <2>2. \E g \in [SUBSET S -> V] : Builds(g, S, 1, F)
    BY <2>1, FoldsExist
  <2> QED
    BY <2>2 DEF V
<1>3. \A s \in SUBSET S : s # {} => Pick(s) \in S /\ g[s \ {Pick(s)}] \in Int
  BY PickIsElement
<1>4. \A s \in SUBSET S : g[s] = IF s = {} THEN 1 ELSE f[Pick(s)] * g[s \ {Pick(s)}]
  BY <1>1, <1>2, <1>3 DEF Builds
<1>5. g = [s \in SUBSET S |-> g[s]]
  OBVIOUS
<1>6. AreProducts(g, f, SUBSET S)
  BY <1>4, <1>5 DEF AreProducts
<1> QED
  BY <1>6

\* A product of positive factors is positive.
LEMMA ProductIsPositive ==
  ASSUME NEW f, NEW S, IsFiniteSet(S), \A i \in S : f[i] \in Nat \ {0}
  PROVE  ProductOver(f, S) \in Nat \ {0}
<1> DEFINE g == CHOOSE h : AreProducts(h, f, SUBSET S)
           G == {s \in SUBSET S : g[s] \in Nat \ {0}}
<1>1. AreProducts(g, f, SUBSET S)
  <2>1. \A i \in S : f[i] \in Int
    OBVIOUS
  <2> QED
    BY <2>1, ProductsExist, Zenon
<1>2. ProductOver(f, S) = g[S]
  BY ProductIsChosen, Zenon
<1> HIDE DEF g
<1>3. \A s \in SUBSET S : g[s] = IF s = {} THEN 1 ELSE f[Pick(s)] * g[s \ {Pick(s)}]
  BY <1>1 DEF AreProducts
<1>4. ASSUME NEW s \in SUBSET S, \A r \in SUBSET s : r # s => r \in G
      PROVE  s \in G
  <2>1. CASE s = {}
    <3>1. g[s] = 1
      BY <1>3, <2>1, Zenon
    <3> QED
      BY <3>1
  <2>2. CASE s # {}
    <3> DEFINE x == f[Pick(s)]
               y == g[s \ {Pick(s)}]
    <3>1. Pick(s) \in s /\ s \ {Pick(s)} \in G
      BY <1>4, <2>2, PickIsElement
    <3>2. g[s] = x * y /\ x \in Nat \ {0} /\ y \in Nat \ {0}
      BY <1>3, <2>2, <3>1
    <3> HIDE DEF x, y
    <3>3. x * y \in Nat \ {0}
      BY <3>2
    <3> QED
      BY <3>2, <3>3
  <2> QED
    BY <2>1, <2>2
<1> HIDE DEF G
<1>5. \A s \in SUBSET S : s \in G
  BY <1>4, SubsetInduction, Zenon
<1> QED
  BY <1>2, <1>5 DEF G

\* The sum of the squares, as many times as there are terms, is at least the
\* square of the sum.
LEMMA SumOfSquares ==
  ASSUME NEW f, NEW q, IsFiniteSet(DOMAIN f), DOMAIN q = DOMAIN f,
         \A i \in DOMAIN f : f[i] \in Int /\ q[i] = f[i] * f[i]
  PROVE  Cardinality(DOMAIN f) * SumFunction(q) - SumFunction(f) * SumFunction(f) \in Nat
<1> DEFINE S == DOMAIN f
           n == Cardinality(S)
           sum == SumFunction(f)
           squares == SumFunction(q)
           a == [i \in S |-> n * n * q[i]]
           b == [i \in S |-> -2 * n * sum * f[i]]
           c == [i \in S |-> sum * sum]
           ab == [i \in S |-> a[i] + b[i]]
           abc == [i \in S |-> ab[i] + c[i]]
<1>1. n \in Nat /\ sum \in Int /\ squares \in Int /\ \A i \in S : q[i] \in Int
  <2>1. \A i \in S : q[i] \in Int
    OBVIOUS
  <2> QED
    BY <2>1, SumIsInt, FS_CardinalityType
<1>2. \A i \in S : f[i] \in Int /\ q[i] \in Int /\ q[i] = f[i] * f[i]
  BY <1>1
<1> HIDE DEF n, sum, squares
<1>3. /\ \A i \in S : a[i] \in Int /\ a[i] = (n * n) * q[i] /\ b[i] \in Int /\ b[i] = (-2 * n * sum) * f[i]
      /\ \A i \in S : c[i] = sum * sum /\ c[i] \in Int
      /\ \A i \in S : ab[i] = a[i] + b[i] /\ ab[i] \in Int /\ abc[i] = ab[i] + c[i]
      /\ DOMAIN a = S /\ DOMAIN b = S /\ DOMAIN c = S /\ DOMAIN ab = S /\ DOMAIN abc = S
  BY <1>1, <1>2
<1>4. \A i \in S : abc[i] \in Nat
  <2> TAKE i \in S
  <2> DEFINE x == f[i]
             d == n * x - sum
  <2>1. x \in Int /\ q[i] = x * x
    BY <1>2
  <2> HIDE DEF x
  <2>2. d \in Int /\ d * d \in Nat
    <3>1. d \in Int
      BY <1>1, <2>1
    <3> HIDE DEF d
    <3> QED
      BY <3>1
  <2>3. n * n * (x * x) + (-2 * n * sum * x) + sum * sum = d * d
    BY <1>1, <2>1
  <2>4. abc[i] = n * n * (x * x) + (-2 * n * sum * x) + sum * sum
    BY <2>1 DEF x
  <2> HIDE DEF abc, d
  <2> QED
    BY <2>2, <2>3, <2>4
<1> HIDE DEF a, b, c, ab, abc
<1>5. SumFunction(a) = (n * n) * squares
  <2>1. n * n \in Int
    BY <1>1
  <2> QED
    BY <1>1, <1>3, <2>1, SumScales DEF squares
<1>6. SumFunction(b) = (-2 * n * sum) * sum
  <2>1. -2 * n * sum \in Int
    BY <1>1
  <2> QED
    BY <1>2, <1>3, <2>1, SumScales DEF sum
<1>7. SumFunction(c) = (sum * sum) * n
  <2>1. sum * sum \in Int
    BY <1>1
  <2> QED
    BY <1>3, <2>1, SumOfConstant DEF n
<1>8. SumFunction(ab) = SumFunction(a) + SumFunction(b)
  BY <1>3, SumAdds
<1>9. SumFunction(abc) = SumFunction(ab) + SumFunction(c)
  BY <1>3, SumAdds
<1>10. SumFunction(abc) \in Nat
  BY <1>3, <1>4, SumIsNat
<1>11. n * (n * squares - sum * sum) \in Nat
  <2>1. SumFunction(abc) = (n * n) * squares + (-2 * n * sum) * sum + (sum * sum) * n
    BY <1>5, <1>6, <1>7, <1>8, <1>9
  <2>2. (n * n) * squares + (-2 * n * sum) * sum + (sum * sum) * n = n * (n * squares - sum * sum)
    BY <1>1
  <2> QED
    BY <1>10, <2>1, <2>2
<1>12. CASE n = 0
  <2>1. S = {}
    BY <1>12, FS_EmptySet DEF n
  <2>2. sum = 0 * Cardinality(S)
    BY <2>1, SumOfConstant DEF sum
  <2>3. sum = 0
    BY <1>1, <1>12, <2>2 DEF n
  <2> QED
    BY <1>1, <1>12, <2>3 DEF n, sum, squares
<1>13. CASE n # 0
  <2> DEFINE d == n * squares - sum * sum
  <2>1. d \in Int /\ n * d \in Nat
    BY <1>1, <1>11
  <2> HIDE DEF d
  <2>2. d \in Nat
    BY <1>1, <1>13, <2>1
  <2> QED
    BY <2>2 DEF d, n, sum, squares
<1> QED
  BY <1>12, <1>13
===============================================================================
