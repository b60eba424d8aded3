---------------------------- MODULE Totals_proofs ----------------------------
(***************************************************************************)
(* What Total computes, for every finite set of numbers.  The fold behind  *)
(* it picks its elements in an order nobody knows; the lemmas below say    *)
(* that the order does not matter and that elements can be taken out,      *)
(* added up and compared one by one.                                       *)
(***************************************************************************)
EXTENDS Totals, FiniteSetTheorems, WellFoundedInduction, TLAPS

\* A set of natural numbers has a least element.
LEMMA LeastNumber ==
    ASSUME NEW T \in SUBSET Nat, T # {}
    PROVE  \E n \in T : \A m \in T : n <= m
<1> DEFINE Less == {pair \in Nat \X Nat : pair[1] < pair[2]}
<1>1. IsWellFoundedOn(Less, Nat)
    BY NatLessThanWellFounded DEF OpToRel
<1> HIDE DEF Less
<1>2. PICK n \in T : \A m \in T : <<m, n>> \notin Less
    BY <1>1, WFMin
<1>3. \A m \in T : ~(m < n)
    BY <1>2 DEF Less
<1> QED BY <1>3

\* A set that has a subset of S whenever it has those with one element less has
\* all subsets of S, if S is finite.
LEMMA SubsetInduction ==
    ASSUME NEW S, IsFiniteSet(S), NEW P,
           \A s \in SUBSET S : (\A x \in s : s \ {x} \in P) => s \in P
    PROVE  \A s \in SUBSET S : s \in P
<1> DEFINE Others == {s \in SUBSET S : s \notin P}
           Sizes == {Cardinality(s) : s \in Others}
<1> SUFFICES ASSUME Others # {} PROVE FALSE
    OBVIOUS
<1>1. \A s \in SUBSET S : IsFiniteSet(s) /\ Cardinality(s) \in Nat
    BY FS_Subset, FS_CardinalityType
<1>2. Sizes \in SUBSET Nat /\ Sizes # {}
    BY <1>1
<1>3. PICK n \in Sizes : \A m \in Sizes : n <= m
    BY <1>2, LeastNumber
<1>4. PICK s \in Others : n = Cardinality(s)
    BY <1>3
<1>5. ASSUME NEW x \in s PROVE s \ {x} \in P
    <2>1. Cardinality(s \ {x}) = Cardinality(s) - 1 /\ Cardinality(s) \in Nat
        BY <1>1, <1>5, FS_RemoveElement
    <2>2. ASSUME s \ {x} \in Others PROVE FALSE
        <3>1. Cardinality(s \ {x}) \in Sizes
            BY <2>2
        <3>2. n <= Cardinality(s \ {x})
            BY <1>3, <3>1
        <3> QED BY <1>4, <2>1, <3>2
    <2> QED BY <1>4, <2>2
<1> QED BY <1>4, <1>5

-----------------------------------------------------------------------------
(* The fold                                                                *)

\* The fold of f, as the library defines it.
Unfolded(f, g) ==
    g = [s \in SUBSET (DOMAIN f) |->
            IF s = {} THEN 0
            ELSE f[CHOOSE x \in s : TRUE] + g[s \ {CHOOSE x \in s : TRUE}]]

\* h adds up f over the subsets of D, in whatever order.
Adds(h, f, D) ==
    /\ h \in [SUBSET D -> Int] /\ h[{}] = 0
    /\ \A s \in SUBSET D : \A x \in s : h[s] = f[x] + h[s \ {x}]

\* Total is the value of a function that is so folded.
LEMMA TotalUnfolded ==
    ASSUME NEW f
    PROVE  Total(f) = (CHOOSE g : Unfolded(f, g))[DOMAIN f]
BY Zenon DEF Total, FoldFunction, FoldFunctionOnSet, MapThenFoldSet, Unfolded

\* With one number more there is one more to add, where it is.
LEMMA AddsOneMore ==
    ASSUME NEW D, NEW s \in SUBSET D, NEW f \in [D -> Int], NEW x \in s,
           NEW h, Adds(h, f, s \ {x})
    PROVE  Adds([r \in SUBSET s |-> IF x \in r THEN f[x] + h[r \ {x}] ELSE h[r]], f, s)
<1> DEFINE k == [r \in SUBSET s |-> IF x \in r THEN f[x] + h[r \ {x}] ELSE h[r]]
<1>1. \A r \in SUBSET (s \ {x}) : h[r] \in Int
    BY DEF Adds
<1>2. \A r \in SUBSET s : /\ r \ {x} \in SUBSET (s \ {x}) /\ h[r \ {x}] \in Int
                          /\ x \notin r => r \in SUBSET (s \ {x}) /\ h[r] \in Int
    BY <1>1
<1>3. f[x] \in Int
    OBVIOUS
<1>4. k \in [SUBSET s -> Int]
    <2> DEFINE value(r) == IF x \in r THEN f[x] + h[r \ {x}] ELSE h[r]
    <2>1. ASSUME NEW r \in SUBSET s PROVE value(r) \in Int
        <3>1. h[r \ {x}] \in Int /\ (x \notin r => h[r] \in Int)
            BY <1>2
        <3> QED BY <1>3, <3>1
    <2>2. k = [r \in SUBSET s |-> value(r)]
        OBVIOUS
    <2> HIDE DEF k, value
    <2> QED BY <2>1, <2>2
<1>5. k[{}] = 0
    BY DEF Adds
<1>6. ASSUME NEW r \in SUBSET s, NEW y \in r
      PROVE  k[r] = f[y] + k[r \ {y}]
    <2>1. r \ {y} \in SUBSET s /\ f[y] \in Int /\ y \in r
        BY <1>6
    <2>2. CASE y = x
        BY <1>2, <2>1, <2>2
    <2>3. CASE y # x /\ x \in r
        <3>1. (r \ {y}) \ {x} = (r \ {x}) \ {y} /\ y \in r \ {x} /\ x \in r \ {y}
            BY <2>1, <2>3
        <3>2. h[r \ {x}] = f[y] + h[(r \ {x}) \ {y}]
            BY <1>2, <3>1 DEF Adds
        <3>3. h[(r \ {x}) \ {y}] \in Int
            BY <1>2, <2>1, <3>1
        <3>4. k[r] = f[x] + h[r \ {x}] /\ k[r \ {y}] = f[x] + h[(r \ {x}) \ {y}]
            BY <2>1, <2>3, <3>1
        <3> HIDE DEF k
        <3> QED BY <1>3, <2>1, <3>2, <3>3, <3>4
    <2>4. CASE x \notin r
        <3>1. k[r] = h[r] /\ k[r \ {y}] = h[r \ {y}]
            BY <2>1, <2>4
        <3> HIDE DEF k
        <3> QED BY <1>2, <2>1, <2>4, <3>1 DEF Adds
    <2> QED BY <2>2, <2>3, <2>4
<1> QED BY <1>4, <1>5, <1>6 DEF Adds

\* Numbers over a finite set can be added up.
LEMMA AddsExists ==
    ASSUME NEW D, IsFiniteSet(D), NEW f \in [D -> Int]
    PROVE  \E h : Adds(h, f, D)
<1> DEFINE P == {s \in SUBSET D : \E h : Adds(h, f, s)}
<1>1. ASSUME NEW s \in SUBSET D, \A x \in s : s \ {x} \in P
      PROVE  s \in P
    <2>1. CASE s = {}
        <3>1. Adds([r \in SUBSET {} |-> 0], f, {})
            BY DEF Adds
        <3> QED BY <2>1, <3>1
    <2>2. CASE s # {}
        <3>1. PICK x \in s : TRUE
            BY <2>2
        <3>2. PICK h : Adds(h, f, s \ {x})
            BY <1>1, <3>1
        <3> QED BY <3>1, <3>2, AddsOneMore
    <2> QED BY <2>1, <2>2
<1> HIDE DEF P
<1>2. D \in P
    BY <1>1, SubsetInduction
<1> QED BY <1>2 DEF P

\* Whatever adds up f has its total.
LEMMA AddsTotal ==
    ASSUME NEW D, IsFiniteSet(D), NEW f \in [D -> Int], NEW h, Adds(h, f, D)
    PROVE  Total(f) = h[D]
<1>1. DOMAIN f = D
    OBVIOUS
<1>2. Unfolded(f, h)
    <2>1. ASSUME NEW s \in SUBSET D
          PROVE  h[s] = IF s = {} THEN 0
                        ELSE f[CHOOSE x \in s : TRUE] + h[s \ {CHOOSE x \in s : TRUE}]
        <3>1. s # {} => (CHOOSE x \in s : TRUE) \in s
            OBVIOUS
        <3> QED BY <3>1 DEF Adds
    <2> QED BY <1>1, <2>1 DEF Adds, Unfolded
<1> DEFINE g == CHOOSE k : Unfolded(f, k)
<1>3. Unfolded(f, g)
    BY <1>2
<1> HIDE DEF g
<1>4. \A s \in SUBSET D : g[s] = IF s = {} THEN 0
                ELSE f[CHOOSE x \in s : TRUE] + g[s \ {CHOOSE x \in s : TRUE}]
    BY <1>1, <1>3, Zenon DEF Unfolded
<1> DEFINE P == {s \in SUBSET D : g[s] = h[s]}
<1>5. ASSUME NEW s \in SUBSET D, \A x \in s : s \ {x} \in P
      PROVE  s \in P
    <2>1. s = {} => g[s] = h[s]
        BY <1>4 DEF Adds
    <2>2. ASSUME s # {} PROVE g[s] = h[s]
        <3>1. PICK x \in s : x = CHOOSE y \in s : TRUE
            BY <2>2
        <3>2. g[s] = f[x] + g[s \ {x}] /\ h[s] = f[x] + h[s \ {x}]
            BY <1>4, <3>1 DEF Adds
        <3> QED BY <1>5, <3>1, <3>2
    <2> QED BY <2>1, <2>2
<1> HIDE DEF P
<1>6. D \in P
    BY <1>5, SubsetInduction
<1>7. g[D] = h[D]
    BY <1>6 DEF P
<1> QED BY <1>1, <1>7, TotalUnfolded DEF g

-----------------------------------------------------------------------------
(* Totals                                                                  *)

\* A number for each element of D.
Numbers(D) == [D -> Int]

\* What f says of the elements of s.
Part(f, s) == [x \in s |-> f[x]]

\* All of a function is the function.
LEMMA PartOfAll == ASSUME NEW D, NEW S, NEW f \in [D -> S] PROVE Part(f, D) = f
BY DEF Part

\* A total is a number.
THEOREM TotalType ==
    ASSUME NEW D, IsFiniteSet(D), NEW f \in [D -> Int]
    PROVE  Total(f) \in Int
<1>1. PICK h : Adds(h, f, D)
    BY AddsExists
<1>2. Total(f) = h[D]
    BY <1>1, AddsTotal
<1> QED BY <1>1, <1>2 DEF Adds

\* The total of nothing.
THEOREM TotalOfNone ==
    ASSUME NEW f \in [{} -> Int]
    PROVE  Total(f) = 0
<1>1. PICK h : Adds(h, f, {})
    BY AddsExists, FS_EmptySet
<1>2. Total(f) = h[{}]
    BY <1>1, AddsTotal, FS_EmptySet
<1> QED BY <1>1, <1>2 DEF Adds

\* Any number can be taken out of the total of a part.
THEOREM TotalSplit ==
    ASSUME NEW D, IsFiniteSet(D), NEW f \in [D -> Int], NEW s \in SUBSET D, NEW x \in s
    PROVE  /\ Total(Part(f, s)) = f[x] + Total(Part(f, s \ {x}))
           /\ Total(Part(f, s \ {x})) \in Int
<1> DEFINE e == s \ {x}
<1>1. IsFiniteSet(s) /\ IsFiniteSet(e)
    BY FS_Subset
<1>2. /\ Part(f, s) \in [s -> Int] /\ \A y \in s : Part(f, s)[y] = f[y]
      /\ Part(f, e) \in [e -> Int] /\ \A y \in e : Part(f, e)[y] = f[y]
    BY DEF Part
<1>3. PICK h : Adds(h, Part(f, s), s)
    BY <1>1, <1>2, AddsExists
<1> DEFINE k == [r \in SUBSET e |-> h[r]]
<1>4. Adds(k, Part(f, e), e)
    <2>1. \A r \in SUBSET e : r \in SUBSET s /\ h[r] \in Int
        BY <1>3 DEF Adds
    <2>2. k \in [SUBSET e -> Int] /\ k[{}] = 0
        BY <1>3, <2>1 DEF Adds
    <2>3. ASSUME NEW r \in SUBSET e, NEW y \in r
          PROVE  k[r] = Part(f, e)[y] + k[r \ {y}]
        <3>1. h[r] = Part(f, s)[y] + h[r \ {y}] /\ Part(f, e)[y] = Part(f, s)[y]
            BY <1>2, <1>3, <2>1, <2>3 DEF Adds
        <3> QED BY <3>1
    <2> HIDE DEF k
    <2> QED BY <2>2, <2>3 DEF Adds
<1> HIDE DEF e, k
<1>5. Total(Part(f, e)) = k[e]
    BY <1>1, <1>2, <1>4, AddsTotal
<1>6. Total(Part(f, s)) = h[s]
    BY <1>1, <1>2, <1>3, AddsTotal
<1>7. h[s] = f[x] + h[e]
    BY <1>2, <1>3 DEF Adds, e
<1>8. k[e] = h[e] /\ Total(Part(f, e)) \in Int
    BY <1>1, <1>2, TotalType DEF k
<1> QED BY <1>5, <1>6, <1>7, <1>8 DEF e

\* Adding one element to the index set of a function adds its value.
THEOREM TotalOneMore ==
    ASSUME NEW D, IsFiniteSet(D), NEW x, x \notin D,
           NEW f \in [D -> Int], NEW g \in [D \cup {x} -> Int],
           \A y \in D : g[y] = f[y]
    PROVE  Total(g) = Total(f) + g[x]
<1>1. IsFiniteSet(D \cup {x}) /\ (D \cup {x}) \ {x} = D
    BY FS_AddElement
<1>2. Part(g, D \cup {x}) = g /\ Part(g, D) = f
    BY DEF Part
<1>3. Total(g) = g[x] + Total(f) /\ Total(f) \in Int /\ g[x] \in Int
    BY <1>1, <1>2, TotalSplit
<1> QED BY <1>3

\* The same, read the other way.
LEMMA TotalWithout ==
    ASSUME NEW s, IsFiniteSet(s), NEW x \in s, NEW a \in Numbers(s \ {x}), NEW b \in Numbers(s),
           \A y \in s \ {x} : b[y] = a[y]
    PROVE  Total(b) = Total(a) + b[x]
<1>1. b \in [s -> Int] /\ a \in [s \ {x} -> Int]
    BY DEF Numbers
<1>2. Part(b, s) = b /\ Part(b, s \ {x}) = a
    BY <1>1 DEF Part
<1>3. Total(b) = b[x] + Total(a) /\ Total(a) \in Int /\ b[x] \in Int
    BY <1>1, <1>2, TotalSplit
<1> QED BY <1>3

\* Totals of parts are what the empty part, and one number more at a time, make them.
LEMMA TotalInduction ==
    ASSUME NEW D, IsFiniteSet(D), NEW P,
           {} \in P,
           \A s \in SUBSET D : \A x \in s : s \ {x} \in P => s \in P
    PROVE  D \in P
<1>1. \A s \in SUBSET D : (\A x \in s : s \ {x} \in P) => s \in P
    OBVIOUS
<1> QED BY <1>1, SubsetInduction

\* The total of sums is the sum of the totals.
THEOREM TotalOfSums ==
    ASSUME NEW D, IsFiniteSet(D), NEW f \in [D -> Int], NEW g \in [D -> Int],
           NEW h \in [D -> Int], \A x \in D : h[x] = f[x] + g[x]
    PROVE  Total(h) = Total(f) + Total(g)
<1> DEFINE P == {s \in SUBSET D : Total(Part(h, s)) = Total(Part(f, s)) + Total(Part(g, s))}
<1>1. {} \in P
    <2>1. /\ Part(f, {}) \in [{} -> Int] /\ Part(g, {}) \in [{} -> Int]
          /\ Part(h, {}) \in [{} -> Int]
        BY DEF Part
    <2> QED BY <2>1, TotalOfNone
<1>2. ASSUME NEW s \in SUBSET D, NEW x \in s, s \ {x} \in P
      PROVE  s \in P
    <2>1. /\ Total(Part(f, s)) = f[x] + Total(Part(f, s \ {x}))
          /\ Total(Part(f, s \ {x})) \in Int
        BY TotalSplit
    <2>2. /\ Total(Part(g, s)) = g[x] + Total(Part(g, s \ {x}))
          /\ Total(Part(g, s \ {x})) \in Int
        BY TotalSplit
    <2>3. Total(Part(h, s)) = h[x] + Total(Part(h, s \ {x}))
        BY TotalSplit
    <2>4. f[x] \in Int /\ g[x] \in Int /\ h[x] = f[x] + g[x]
        OBVIOUS
    <2> QED BY <1>2, <2>1, <2>2, <2>3, <2>4
<1> HIDE DEF P
<1>3. D \in P
    BY <1>1, <1>2, TotalInduction
<1> QED BY <1>3, PartOfAll DEF P

\* A total of more, element by element, is more.
THEOREM TotalOrder ==
    ASSUME NEW D, IsFiniteSet(D), NEW f \in [D -> Int], NEW g \in [D -> Int],
           \A x \in D : f[x] <= g[x]
    PROVE  Total(f) <= Total(g)
<1> DEFINE P == {s \in SUBSET D : Total(Part(f, s)) <= Total(Part(g, s))}
<1>1. {} \in P
    <2>1. Part(f, {}) \in [{} -> Int] /\ Part(g, {}) \in [{} -> Int]
        BY DEF Part
    <2> QED BY <2>1, TotalOfNone
<1>2. ASSUME NEW s \in SUBSET D, NEW x \in s, s \ {x} \in P
      PROVE  s \in P
    <2>1. /\ Total(Part(f, s)) = f[x] + Total(Part(f, s \ {x}))
          /\ Total(Part(f, s \ {x})) \in Int
        BY TotalSplit
    <2>2. /\ Total(Part(g, s)) = g[x] + Total(Part(g, s \ {x}))
          /\ Total(Part(g, s \ {x})) \in Int
        BY TotalSplit
    <2>3. f[x] \in Int /\ g[x] \in Int /\ f[x] <= g[x]
        OBVIOUS
    <2> QED BY <1>2, <2>1, <2>2, <2>3
<1> HIDE DEF P
<1>3. D \in P
    BY <1>1, <1>2, TotalInduction
<1> QED BY <1>3, PartOfAll DEF P

\* The total of nothing but zeros.
LEMMA TotalOfZeros ==
    ASSUME NEW D, IsFiniteSet(D), NEW f \in [D -> Int], \A x \in D : f[x] = 0
    PROVE  Total(f) = 0
<1> DEFINE P == {s \in SUBSET D : Total(Part(f, s)) = 0}
<1>1. {} \in P
    <2>1. Part(f, {}) \in [{} -> Int]
        BY DEF Part
    <2> QED BY <2>1, TotalOfNone
<1>2. ASSUME NEW s \in SUBSET D, NEW x \in s, s \ {x} \in P
      PROVE  s \in P
    BY <1>2, TotalSplit
<1> HIDE DEF P
<1>3. D \in P
    BY <1>1, <1>2, TotalInduction
<1> QED BY <1>3, PartOfAll DEF P

\* A total of natural numbers is one, and none of them is more.
THEOREM TotalOfNaturals ==
    ASSUME NEW D, IsFiniteSet(D), NEW f \in [D -> Nat]
    PROVE  /\ Total(f) \in Nat
           /\ \A x \in D : f[x] <= Total(f)
<1>1. f \in [D -> Int]
    OBVIOUS
<1>2. ASSUME NEW s \in SUBSET D PROVE Total(Part(f, s)) \in Nat
    <2> DEFINE zeros == [x \in s |-> 0]
    <2>1. IsFiniteSet(s) /\ Part(f, s) \in [s -> Int] /\ zeros \in [s -> Int]
          /\ \A x \in s : zeros[x] <= Part(f, s)[x] /\ zeros[x] = 0
        BY FS_Subset DEF Part
    <2> HIDE DEF zeros
    <2>2. Total(zeros) = 0 /\ Total(zeros) <= Total(Part(f, s)) /\ Total(Part(f, s)) \in Int
        BY <2>1, TotalOfZeros, TotalOrder, TotalType
    <2> QED BY <2>2
<1>3. Part(f, D) = f
    BY PartOfAll
<1>4. ASSUME NEW x \in D PROVE f[x] <= Total(f)
    <2>1. Total(Part(f, D)) = f[x] + Total(Part(f, D \ {x}))
        BY <1>1, TotalSplit
    <2>2. Total(Part(f, D \ {x})) \in Nat /\ f[x] \in Nat
        BY <1>2
    <2> QED BY <1>3, <2>1, <2>2
<1> QED BY <1>2, <1>3, <1>4

\* Numbers that are zero outside s add up to the total of those in s.
LEMMA TotalOfPart ==
    ASSUME NEW D, IsFiniteSet(D), NEW s \in SUBSET D, NEW f \in [D -> Int], NEW g \in [D -> Int],
           \A x \in D : g[x] = IF x \in s THEN f[x] ELSE 0
    PROVE  Total(g) = Total(Part(f, s))
<1> DEFINE P == {r \in SUBSET D : Total(Part(g, r)) = Total(Part(f, r \cap s))}
<1>1. {} \in P
    <2>1. Part(g, {}) = Part(f, {} \cap s)  BY DEF Part
    <2> QED  BY <2>1
<1>2. ASSUME NEW r \in SUBSET D, NEW x \in r, r \ {x} \in P
      PROVE  r \in P
    <2>1. Total(Part(g, r)) = g[x] + Total(Part(g, r \ {x})) /\ Total(Part(g, r \ {x})) \in Int
        BY TotalSplit
    <2>2. CASE x \in s
        <3>1. x \in r \cap s /\ r \cap s \in SUBSET D /\ (r \cap s) \ {x} = (r \ {x}) \cap s
            BY <2>2
        <3>2. Total(Part(f, r \cap s)) = f[x] + Total(Part(f, (r \cap s) \ {x}))
            BY <3>1, TotalSplit
        <3> QED  BY <1>2, <2>1, <2>2, <3>1, <3>2
    <2>3. CASE x \notin s
        <3>1. r \cap s = (r \ {x}) \cap s  BY <2>3
        <3> QED  BY <1>2, <2>1, <2>3, <3>1
    <2> QED  BY <2>2, <2>3
<1> HIDE DEF P
<1>3. D \in P  BY <1>1, <1>2, TotalInduction
<1>4. D \cap s = s  OBVIOUS
<1> QED  BY <1>3, <1>4, PartOfAll DEF P

\* A part of a total of natural numbers is not more, and is all of it when what is left
\* out is zero.
THEOREM TotalOfPartOfNaturals ==
    ASSUME NEW D, IsFiniteSet(D), NEW s \in SUBSET D, NEW f \in [D -> Nat]
    PROVE  /\ Total(Part(f, s)) <= Total(f)
           /\ (\A x \in D \ s : f[x] = 0) => Total(Part(f, s)) = Total(f)
<1> DEFINE g == [x \in D |-> IF x \in s THEN f[x] ELSE 0]
<1>1. /\ f \in [D -> Int] /\ g \in [D -> Int] /\ \A x \in D : g[x] <= f[x]
      /\ \A x \in D : g[x] = IF x \in s THEN f[x] ELSE 0
    OBVIOUS
<1>2. (\A x \in D \ s : f[x] = 0) => g = f  OBVIOUS
<1> HIDE DEF g
<1>3. Total(g) = Total(Part(f, s))  BY <1>1, TotalOfPart
<1>4. Total(g) <= Total(f)  BY <1>1, TotalOrder
<1> QED  BY <1>2, <1>3, <1>4

\* One for each element of S.
Ones(D, S) == [x \in D |-> IF x \in S THEN 1 ELSE 0]

\* What counts one for each element of a set is as large as the set.
THEOREM TotalOfOnes ==
    ASSUME NEW D, IsFiniteSet(D), NEW S \in SUBSET D
    PROVE  Total(Ones(D, S)) = Cardinality(S)
<1> DEFINE f == Ones(D, S)
           P == {s \in SUBSET D : Total(Part(f, s)) = Cardinality(s \cap S)}
<1>1. f \in [D -> Int] /\ \A x \in D : f[x] = IF x \in S THEN 1 ELSE 0
    BY DEF Ones
<1> HIDE DEF f
<1>2. {} \in P
    <2>1. Part(f, {}) \in [{} -> Int] /\ {} \cap S = {}
        BY <1>1 DEF Part
    <2> QED BY <2>1, TotalOfNone, FS_EmptySet
<1>3. ASSUME NEW s \in SUBSET D, NEW x \in s, s \ {x} \in P
      PROVE  s \in P
    <2>1. Total(Part(f, s)) = f[x] + Total(Part(f, s \ {x}))
        BY <1>1, TotalSplit
    <2>2. IsFiniteSet(s \cap S) /\ Cardinality(s \cap S) \in Nat
        BY FS_Subset, FS_CardinalityType
    <2>3. CASE x \in S
        <3> DEFINE all == s \cap S
                   rest == (s \ {x}) \cap S
        <3>1. rest = all \ {x} /\ x \in all /\ IsFiniteSet(all) /\ Cardinality(all) \in Nat
            BY <2>2, <2>3
        <3> HIDE DEF all, rest
        <3>2. Cardinality(rest) = Cardinality(all) - 1
            BY <3>1, FS_RemoveElement
        <3>3. Total(Part(f, s)) = 1 + Cardinality(rest)
            BY <1>1, <1>3, <2>1, <2>3 DEF rest
        <3>4. Total(Part(f, s)) = Cardinality(all)
            BY <3>1, <3>2, <3>3
        <3> QED BY <3>4 DEF all
    <2>4. CASE x \notin S
        <3>1. (s \ {x}) \cap S = s \cap S
            BY <2>4
        <3> QED BY <1>1, <1>3, <2>1, <2>2, <2>4, <3>1
    <2> QED BY <2>3, <2>4
<1> HIDE DEF P
<1>4. D \in P
    BY <1>2, <1>3, TotalInduction
<1>5. Part(f, D) = f /\ D \cap S = S
    BY <1>1, PartOfAll
<1> QED BY <1>4, <1>5 DEF P, f

\* A total of naturals that are at most one is at most the number of those that are one.
LEMMA TotalOfAtMostOnes ==
    ASSUME NEW D, IsFiniteSet(D), NEW S \in SUBSET D, NEW f \in [D -> Nat],
           \A x \in D : f[x] <= 1 /\ (f[x] # 0 => x \in S)
    PROVE  Total(f) \in 0..Cardinality(S)
<1>1. Ones(D, S) \in [D -> Int] /\ f \in [D -> Int] /\ \A x \in D : f[x] <= Ones(D, S)[x]
    BY DEF Ones
<1>2. Total(f) <= Total(Ones(D, S))
    BY <1>1, TotalOrder
<1>3. Total(f) \in Nat
    BY TotalOfNaturals
<1>4. Cardinality(S) \in Nat
    BY FS_Subset, FS_CardinalityType
<1> QED BY <1>2, <1>3, <1>4, TotalOfOnes

\* The sums of the rows of f that s names; a column of them, and the sums of the columns.
RowSums(f, s) == [x \in s |-> Total(f[x])]
ColumnOf(f, s, y) == [x \in s |-> f[x][y]]
ColumnSums(f, s, E) == [y \in E |-> Total(ColumnOf(f, s, y))]

\* Rows, columns and their sums are numbers.
LEMMA RowsAndColumns ==
    ASSUME NEW D, IsFiniteSet(D), NEW E, IsFiniteSet(E), NEW f,
           \A x \in D : f[x] \in [E -> Int], NEW s \in SUBSET D
    PROVE  /\ IsFiniteSet(s)
           /\ RowSums(f, s) \in Numbers(s)
           /\ \A y \in E : ColumnOf(f, s, y) \in Numbers(s)
           /\ ColumnSums(f, s, E) \in Numbers(E)
<1>1. IsFiniteSet(s)
    BY FS_Subset
<1>2. \A x \in s : Total(f[x]) \in Int
    BY TotalType
<1>3. \A y \in E : ColumnOf(f, s, y) \in [s -> Int]
    BY DEF ColumnOf
<1>4. \A y \in E : Total(ColumnOf(f, s, y)) \in Int
    BY <1>1, <1>3, TotalType
<1> QED BY <1>1, <1>2, <1>3, <1>4 DEF RowSums, ColumnSums, Numbers

\* With a row more, its numbers are added to the sum of the rows, and to each column.
LEMMA RowAdded ==
    ASSUME NEW f, NEW s, IsFiniteSet(s), NEW x \in s,
           RowSums(f, s \ {x}) \in Numbers(s \ {x}), RowSums(f, s) \in Numbers(s)
    PROVE  Total(RowSums(f, s)) = Total(RowSums(f, s \ {x})) + Total(f[x])
<1>1. \A y \in s \ {x} : RowSums(f, s)[y] = RowSums(f, s \ {x})[y]
    BY DEF RowSums
<1>2. Total(RowSums(f, s)) = Total(RowSums(f, s \ {x})) + RowSums(f, s)[x]
    BY <1>1, TotalWithout
<1> QED BY <1>2 DEF RowSums

\* In each column the number that the row has there.
LEMMA ColumnAdded ==
    ASSUME NEW f, NEW s, IsFiniteSet(s), NEW x \in s, NEW y,
           ColumnOf(f, s \ {x}, y) \in Numbers(s \ {x}), ColumnOf(f, s, y) \in Numbers(s)
    PROVE  Total(ColumnOf(f, s, y)) = Total(ColumnOf(f, s \ {x}, y)) + f[x][y]
<1>1. \A z \in s \ {x} : ColumnOf(f, s, y)[z] = ColumnOf(f, s \ {x}, y)[z]
    BY DEF ColumnOf
<1>2. Total(ColumnOf(f, s, y)) = Total(ColumnOf(f, s \ {x}, y)) + ColumnOf(f, s, y)[x]
    BY <1>1, TotalWithout
<1> QED BY <1>2 DEF ColumnOf

\* Columns that grow by the numbers of a row grow by its total.
LEMMA ColumnsAdded ==
    ASSUME NEW E, IsFiniteSet(E), NEW before \in Numbers(E), NEW after \in Numbers(E),
           NEW row \in Numbers(E), \A y \in E : after[y] = before[y] + row[y]
    PROVE  Total(after) = Total(before) + Total(row)
BY TotalOfSums DEF Numbers

\* So both sums grow by the total of the row.
LEMMA RowMore ==
    ASSUME NEW D, IsFiniteSet(D), NEW E, IsFiniteSet(E), NEW f,
           \A d \in D : f[d] \in [E -> Int], NEW s \in SUBSET D, NEW x \in s
    PROVE  /\ Total(RowSums(f, s)) = Total(RowSums(f, s \ {x})) + Total(f[x])
           /\ Total(ColumnSums(f, s, E)) = Total(ColumnSums(f, s \ {x}, E)) + Total(f[x])
<1>1. s \ {x} \in SUBSET D /\ f[x] \in [E -> Int]
    OBVIOUS
<1>2. /\ IsFiniteSet(s) /\ RowSums(f, s) \in Numbers(s) /\ ColumnSums(f, s, E) \in Numbers(E)
      /\ \A y \in E : ColumnOf(f, s, y) \in Numbers(s)
    BY RowsAndColumns
<1>3. /\ RowSums(f, s \ {x}) \in Numbers(s \ {x}) /\ ColumnSums(f, s \ {x}, E) \in Numbers(E)
      /\ \A y \in E : ColumnOf(f, s \ {x}, y) \in Numbers(s \ {x})
    BY <1>1, RowsAndColumns
<1>4. Total(RowSums(f, s)) = Total(RowSums(f, s \ {x})) + Total(f[x])
    BY <1>2, <1>3, RowAdded
<1>5. \A y \in E : ColumnSums(f, s, E)[y] = ColumnSums(f, s \ {x}, E)[y] + f[x][y]
    BY <1>2, <1>3, ColumnAdded DEF ColumnSums
<1>6. Total(ColumnSums(f, s, E)) = Total(ColumnSums(f, s \ {x}, E)) + Total(f[x])
    <2> DEFINE before == ColumnSums(f, s \ {x}, E)
               after == ColumnSums(f, s, E)
               row == f[x]
    <2>1. before \in Numbers(E) /\ after \in Numbers(E) /\ row \in Numbers(E)
        BY <1>1, <1>2, <1>3 DEF Numbers
    <2>2. \A y \in E : after[y] = before[y] + row[y]
        BY <1>5
    <2> HIDE DEF before, after, row
    <2>3. Total(after) = Total(before) + Total(row)
        BY <2>1, <2>2, ColumnsAdded
    <2> QED BY <2>3 DEF before, after, row
<1> QED BY <1>4, <1>6

\* Numbers added up row by row are those added up column by column.
THEOREM TotalSwap ==
    ASSUME NEW D, IsFiniteSet(D), NEW E, IsFiniteSet(E), NEW f,
           \A d \in D : f[d] \in [E -> Int]
    PROVE  Total(RowSums(f, D)) = Total(ColumnSums(f, D, E))
<1> DEFINE P == {s \in SUBSET D : Total(RowSums(f, s)) = Total(ColumnSums(f, s, E))}
<1>1. {} \in P
    <2>1. /\ RowSums(f, {}) \in Numbers({}) /\ ColumnSums(f, {}, E) \in Numbers(E)
          /\ \A y \in E : ColumnOf(f, {}, y) \in Numbers({})
        BY RowsAndColumns
    <2>2. Total(RowSums(f, {})) = 0 /\ \A y \in E : Total(ColumnOf(f, {}, y)) = 0
        BY <2>1, TotalOfNone DEF Numbers
    <2>3. \A y \in E : ColumnSums(f, {}, E)[y] = 0
        BY <2>2 DEF ColumnSums
    <2>4. Total(ColumnSums(f, {}, E)) = 0
        BY <2>1, <2>3, TotalOfZeros DEF Numbers
    <2> QED BY <2>2, <2>4
<1>2. ASSUME NEW s \in SUBSET D, NEW x \in s, s \ {x} \in P
      PROVE  s \in P
    BY <1>2, RowMore
<1> HIDE DEF P
<1>3. D \in P
    BY <1>1, <1>2, TotalInduction
<1> QED BY <1>3 DEF P
=============================================================================
