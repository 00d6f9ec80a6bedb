-------------------------------- MODULE Sums --------------------------------
(***************************************************************************)
(* What the library's sum over a finite set comes to: nothing over the     *)
(* empty set, and otherwise any one element's value and the sum over the   *)
(* rest.  SumFunctionOnSet is a fold, defined by a recursive function      *)
(* chosen to satisfy its equation; so there is one (SumsExist), any two    *)
(* agree (SumsAgree), and the element it takes first is of no consequence  *)
(* (SumTakesAny).  Each induction is on the size of a subset, by the       *)
(* smallest one that would be wrong.                                       *)
(***************************************************************************)
EXTENDS Integers, FiniteSetsExt, FiniteSetTheorems, WellFoundedInduction, TLAPS

\* Some number of a set of them is the least.
LEMMA LeastNumber ==
    ASSUME NEW K, K \subseteq Nat, K # {}
    PROVE  \E k \in K : \A j \in K : k <= j
<1> DEFINE R == OpToRel(<, Nat)
<1>1. \A x, y \in Nat : x < y => <<x, y>> \in R
  BY DEF OpToRel
<1>2. IsWellFoundedOn(R, Nat)
  BY NatLessThanWellFounded, Zenon
<1> HIDE DEF R
<1>3. PICK k \in K : \A j \in K : ~(<<j, k>> \in R)
  BY <1>2, WFMin
<1>4. \A j \in K : ~(j < k)
  BY <1>1, <1>3
<1> QED BY <1>4

----------------------------------------------------------------------------
(* The fold, as a function of its subsets *)

OneOf(s) == CHOOSE x \in s : TRUE
WithoutOne(s) == s \ {OneOf(s)}

\* The equation the sums g of f over subsets satisfy, and the sums over those of D.
PartSum(g, f, s) == IF s = {} THEN 0 ELSE f[OneOf(s)] + g[WithoutOne(s)]
SumsOn(g, f, D) == g = [s \in D |-> PartSum(g, f, s)]

\* The library's sum is one of them.
LEMMA SumUnfolds ==
    ASSUME NEW f, NEW S
    PROVE  SumFunctionOnSet(f, S) = (CHOOSE g : SumsOn(g, f, SUBSET S))[S]
BY DEF SumFunctionOnSet, FoldFunctionOnSet, MapThenFoldSet, SumsOn, PartSum, WithoutOne, OneOf

\* What is chosen of a set is in it.
LEMMA OneOfIsIn == ASSUME NEW s, s # {} PROVE OneOf(s) \in s
BY DEF OneOf

\* Without one element a finite set is smaller.
LEMMA FewerWithoutOne ==
    ASSUME NEW S, IsFiniteSet(S), NEW s \in SUBSET S
    PROVE  /\ IsFiniteSet(s) /\ Cardinality(s) \in Nat
           /\ s # {} => /\ WithoutOne(s) \in SUBSET S
                        /\ Cardinality(WithoutOne(s)) = Cardinality(s) - 1
                        /\ Cardinality(WithoutOne(s)) \in Nat
<1>1. IsFiniteSet(s) /\ Cardinality(s) \in Nat
  BY FS_Subset, FS_CardinalityType
<1>2. ASSUME s # {} 
      PROVE  /\ WithoutOne(s) \in SUBSET S
             /\ Cardinality(WithoutOne(s)) = Cardinality(s) - 1
             /\ Cardinality(WithoutOne(s)) \in Nat
  <2>1. OneOf(s) \in s
    BY <1>2, OneOfIsIn
  <2>2. IsFiniteSet(s \ {OneOf(s)}) /\ Cardinality(s \ {OneOf(s)}) = Cardinality(s) - 1
    BY <1>1, <2>1, FS_RemoveElement
  <2>3. Cardinality(s \ {OneOf(s)}) \in Nat
    BY <2>2, FS_CardinalityType
  <2> QED BY <2>2, <2>3 DEF WithoutOne
<1> QED BY <1>1, <1>2

\* The subsets of a size.
OfAtMost(S, n) == {s \in SUBSET S : Cardinality(s) <= n}

\* There are such sums over every subset of a finite set.
LEMMA SumsExist ==
    ASSUME NEW S, IsFiniteSet(S), NEW f
    PROVE  \E g : SumsOn(g, f, SUBSET S)
<1> DEFINE Missing == {n \in Nat : ~ \E g : SumsOn(g, f, OfAtMost(S, n))}
<1>1. Missing = {}
  <2> SUFFICES ASSUME Missing # {} PROVE FALSE
    OBVIOUS
  <2>1. PICK n \in Missing : \A j \in Missing : n <= j
    <3>1. Missing \subseteq Nat
      OBVIOUS
    <3> HIDE DEF Missing
    <3> QED BY <3>1, LeastNumber
  <2>2. CASE n = 0
    <3> DEFINE g == [s \in OfAtMost(S, 0) |-> 0]
    <3>1. ASSUME NEW s \in OfAtMost(S, 0) PROVE PartSum(g, f, s) = 0
      <4>1. s \in SUBSET S /\ Cardinality(s) <= 0
        BY <3>1 DEF OfAtMost
      <4>2. s = {}
        BY <4>1, FewerWithoutOne, FS_EmptySet
      <4> QED BY <4>2 DEF PartSum
    <3>2. SumsOn(g, f, OfAtMost(S, 0))
      BY <3>1 DEF SumsOn
    <3> QED BY <2>2, <3>2
  <2>3. CASE n # 0
    <3>1. n \in Nat /\ n - 1 \in Nat /\ n - 1 \notin Missing
      BY <2>1, <2>3
    <3>2. PICK h : SumsOn(h, f, OfAtMost(S, n - 1))
      BY <3>1
    <3>3. ASSUME NEW s \in OfAtMost(S, n - 1) PROVE h[s] = PartSum(h, f, s)
      BY <3>2 DEF SumsOn
    <3> DEFINE g == [s \in OfAtMost(S, n) |-> PartSum(h, f, s)]
    <3>4. ASSUME NEW s \in OfAtMost(S, n) PROVE PartSum(g, f, s) = PartSum(h, f, s)
      <4>1. CASE s = {}
        BY <4>1 DEF PartSum
      <4>2. CASE s # {}
        <5>1. s \in SUBSET S /\ Cardinality(s) <= n
          BY DEF OfAtMost
        <5>2. WithoutOne(s) \in OfAtMost(S, n - 1) /\ WithoutOne(s) \in OfAtMost(S, n)
          BY <3>1, <4>2, <5>1, FewerWithoutOne DEF OfAtMost
        <5>3. h[WithoutOne(s)] = PartSum(h, f, WithoutOne(s)) /\ g[WithoutOne(s)] = PartSum(h, f, WithoutOne(s))
          BY <3>3, <5>2
        <5> HIDE DEF g
        <5> QED BY <4>2, <5>3 DEF PartSum
      <4> QED BY <4>1, <4>2
    <3>5. SumsOn(g, f, OfAtMost(S, n))
      <4>1. [s \in OfAtMost(S, n) |-> PartSum(h, f, s)] = [s \in OfAtMost(S, n) |-> PartSum(g, f, s)]
        <5> HIDE DEF g
        <5> QED BY <3>4
      <4> QED BY <4>1 DEF SumsOn
    <3> QED BY <3>1, <3>5
  <2> QED BY <2>2, <2>3
<1>2. Cardinality(S) \in Nat
  BY FS_CardinalityType
<1>3. OfAtMost(S, Cardinality(S)) = SUBSET S
  <2>1. \A s \in SUBSET S : Cardinality(s) <= Cardinality(S)
    BY FS_Subset
  <2> QED BY <2>1 DEF OfAtMost
<1>4. \E g : SumsOn(g, f, OfAtMost(S, Cardinality(S)))
  BY <1>1, <1>2
<1> HIDE DEF Missing
<1> QED BY <1>3, <1>4

\* Sums of functions that agree, over subsets of both, are equal.
LEMMA SumsAgree ==
    ASSUME NEW S, IsFiniteSet(S), NEW f, NEW h, NEW T, T \subseteq S,
           \A x \in T : f[x] = h[x],
           NEW g, SumsOn(g, f, SUBSET S), NEW k, SumsOn(k, h, SUBSET T)
    PROVE  \A s \in SUBSET T : g[s] = k[s]
<1> DEFINE Odd == {n \in Nat : \E s \in SUBSET T : Cardinality(s) = n /\ g[s] # k[s]}
<1>0. IsFiniteSet(T)
  BY FS_Subset
<1>1. \A s \in SUBSET T : g[s] = PartSum(g, f, s) /\ k[s] = PartSum(k, h, s)
  BY DEF SumsOn
<1>2. Odd = {}
  <2> SUFFICES ASSUME Odd # {} PROVE FALSE
    OBVIOUS
  <2>1. PICK n \in Odd : \A j \in Odd : n <= j
    <3>1. Odd \subseteq Nat
      OBVIOUS
    <3> HIDE DEF Odd
    <3> QED BY <3>1, LeastNumber
  <2>2. PICK s \in SUBSET T : Cardinality(s) = n /\ g[s] # k[s]
    BY <2>1
  <2>3. s # {}
    BY <1>1, <2>2 DEF PartSum
  <2>4. /\ WithoutOne(s) \in SUBSET T /\ Cardinality(WithoutOne(s)) = n - 1
        /\ Cardinality(WithoutOne(s)) \in Nat
    BY <1>0, <2>2, <2>3, FewerWithoutOne
  <2>5. g[WithoutOne(s)] = k[WithoutOne(s)]
    <3>1. n \in Nat /\ n - 1 \in Nat /\ n - 1 \notin Odd
      BY <2>1, <2>4
    <3> QED BY <2>4, <3>1
  <2>6. f[OneOf(s)] = h[OneOf(s)]
    BY <2>2, <2>3, OneOfIsIn
  <2> QED BY <1>1, <2>2, <2>3, <2>5, <2>6 DEF PartSum
<1>3. \A s \in SUBSET T : Cardinality(s) \in Nat
  BY <1>0, FewerWithoutOne
<1> QED BY <1>2, <1>3

----------------------------------------------------------------------------
(* The sum *)

\* Only the values summed matter.
LEMMA SumOfEqual ==
    ASSUME NEW S, IsFiniteSet(S), NEW f, NEW h, \A x \in S : f[x] = h[x]
    PROVE  SumFunctionOnSet(f, S) = SumFunctionOnSet(h, S)
<1> DEFINE g == CHOOSE e : SumsOn(e, f, SUBSET S)
           k == CHOOSE e : SumsOn(e, h, SUBSET S)
<1>1. SumsOn(g, f, SUBSET S) /\ SumsOn(k, h, SUBSET S)
  BY SumsExist
<1>2. SumFunctionOnSet(f, S) = g[S] /\ SumFunctionOnSet(h, S) = k[S]
  BY SumUnfolds
<1> HIDE DEF g, k
<1> QED BY <1>1, <1>2, SumsAgree

\* Whatever sums over the subsets there are, the library's is the one of the set.
LEMMA SumIsAny ==
    ASSUME NEW S, IsFiniteSet(S), NEW f, NEW k, SumsOn(k, f, SUBSET S)
    PROVE  SumFunctionOnSet(f, S) = k[S]
<1> DEFINE g == CHOOSE e : SumsOn(e, f, SUBSET S)
<1>1. SumsOn(g, f, SUBSET S)
  OBVIOUS
<1>2. SumFunctionOnSet(f, S) = g[S]
  BY SumUnfolds
<1> HIDE DEF g
<1>3. PICK h : h = f
  OBVIOUS
<1>4. SumsOn(k, h, SUBSET S) /\ \A x \in S : f[x] = h[x]
  BY <1>3
<1> QED BY <1>1, <1>2, <1>4, SumsAgree

\* The sum over no element is zero; over some, one element and the sum over the others.
LEMMA SumTakesOne ==
    ASSUME NEW S, IsFiniteSet(S), NEW f
    PROVE  SumFunctionOnSet(f, S) = IF S = {} THEN 0 ELSE f[OneOf(S)] + SumFunctionOnSet(f, WithoutOne(S))
<1> DEFINE g == CHOOSE e : SumsOn(e, f, SUBSET S)
           k == CHOOSE e : SumsOn(e, f, SUBSET WithoutOne(S))
<1>0. WithoutOne(S) \subseteq S /\ IsFiniteSet(WithoutOne(S))
  BY FS_RemoveElement DEF WithoutOne
<1>1. SumsOn(g, f, SUBSET S) /\ SumsOn(k, f, SUBSET WithoutOne(S))
  BY <1>0, SumsExist
<1>2. SumFunctionOnSet(f, S) = g[S] /\ SumFunctionOnSet(f, WithoutOne(S)) = k[WithoutOne(S)]
  BY SumUnfolds
<1> HIDE DEF g, k
<1>3. g[S] = PartSum(g, f, S)
  BY <1>1 DEF SumsOn
<1>4. g[WithoutOne(S)] = k[WithoutOne(S)]
  <2> DEFINE T == WithoutOne(S)
  <2>0. PICK h, u : h = f /\ u = T
    OBVIOUS
  <2>1. T \subseteq S /\ \A x \in T : f[x] = h[x]
    BY <1>0, <2>0
  <2>2. SumsOn(k, h, SUBSET T)
    BY <1>1, <2>0
  <2>4. u \subseteq S /\ (\A x \in u : f[x] = h[x]) /\ SumsOn(k, h, SUBSET u) /\ SumsOn(g, f, SUBSET S)
    BY <1>1, <2>0, <2>1, <2>2
  <2> HIDE DEF T
  <2>3. \A s \in SUBSET u : g[s] = k[s]
    BY <2>4, SumsAgree
  <2> QED BY <2>0, <2>3 DEF T
<1> QED BY <1>2, <1>3, <1>4 DEF PartSum

\* A sum of integers is one.
LEMMA SumTyped ==
    ASSUME NEW S, IsFiniteSet(S), NEW f, \A x \in S : f[x] \in Int
    PROVE  SumFunctionOnSet(f, S) \in Int
<1> DEFINE Odd == {n \in Nat : \E s \in SUBSET S : Cardinality(s) = n /\ SumFunctionOnSet(f, s) \notin Int}
<1>1. Odd = {}
  <2> SUFFICES ASSUME Odd # {} PROVE FALSE
    OBVIOUS
  <2>1. PICK n \in Odd : \A j \in Odd : n <= j
    <3>1. Odd \subseteq Nat
      OBVIOUS
    <3> HIDE DEF Odd
    <3> QED BY <3>1, LeastNumber
  <2>2. PICK s \in SUBSET S : Cardinality(s) = n /\ SumFunctionOnSet(f, s) \notin Int
    BY <2>1
  <2>3. IsFiniteSet(s)
    BY FS_Subset
  <2>4. s # {} /\ SumFunctionOnSet(f, s) = f[OneOf(s)] + SumFunctionOnSet(f, WithoutOne(s))
    BY <2>2, <2>3, SumTakesOne
  <2>5. OneOf(s) \in S
    BY <2>4, OneOfIsIn
  <2>6. SumFunctionOnSet(f, WithoutOne(s)) \in Int
    <3>1. WithoutOne(s) \in SUBSET S /\ Cardinality(WithoutOne(s)) = n - 1 /\ n - 1 \in Nat
      BY <2>2, <2>4, FewerWithoutOne
    <3>2. n \in Nat /\ n - 1 \notin Odd
      BY <2>1, <3>1
    <3> QED BY <3>1, <3>2
  <2> QED BY <2>2, <2>4, <2>5, <2>6
<1>2. Cardinality(S) \in Nat
  BY FS_CardinalityType
<1> QED BY <1>1, <1>2

\* Any element may be taken out first.
LEMMA SumTakesAny ==
    ASSUME NEW S, IsFiniteSet(S), NEW f, \A x \in S : f[x] \in Int, NEW y \in S
    PROVE  SumFunctionOnSet(f, S) = f[y] + SumFunctionOnSet(f, S \ {y})
<1> DEFINE Total(s) == SumFunctionOnSet(f, s)
           Odd == {n \in Nat : \E s \in SUBSET S : \E x \in s :
                       Cardinality(s) = n /\ Total(s) # f[x] + Total(s \ {x})}
<1>0. ASSUME NEW s \in SUBSET S PROVE IsFiniteSet(s) /\ Total(s) \in Int
  <2>1. IsFiniteSet(s)
    BY FS_Subset
  <2> QED BY <2>1, SumTyped
<1>1. Odd = {}
  <2> SUFFICES ASSUME Odd # {} PROVE FALSE
    OBVIOUS
  <2>1. PICK n \in Odd : \A j \in Odd : n <= j
    <3>1. Odd \subseteq Nat
      OBVIOUS
    <3> HIDE DEF Odd
    <3> QED BY <3>1, LeastNumber
  <2>2. PICK s \in SUBSET S : \E x \in s : Cardinality(s) = n /\ Total(s) # f[x] + Total(s \ {x})
    BY <2>1
  <2>3. PICK x \in s : Cardinality(s) = n /\ Total(s) # f[x] + Total(s \ {x})
    BY <2>2
  <2> DEFINE a == OneOf(s)
  <2>4. a \in s /\ Total(s) = f[a] + Total(s \ {a}) /\ Cardinality(s \ {a}) = n - 1 /\ n - 1 \in Nat
    <3>1. IsFiniteSet(s) /\ s # {}
      BY <1>0, <2>3
    <3>2. a \in s /\ Cardinality(s \ {a}) = n - 1 /\ n - 1 \in Nat
      <4>1. OneOf(s) \in s
        BY <3>1, OneOfIsIn
      <4>2. Cardinality(WithoutOne(s)) = Cardinality(s) - 1 /\ Cardinality(WithoutOne(s)) \in Nat
        <5> HIDE DEF Odd, Total, a
        <5> QED BY <3>1, FewerWithoutOne
      <4> HIDE DEF Odd, Total
      <4> QED BY <2>3, <4>1, <4>2 DEF WithoutOne
    <3>3. Total(s) = f[a] + Total(s \ {a})
      BY <3>1, SumTakesOne DEF WithoutOne
    <3> QED BY <3>2, <3>3
  <2>5. \A z \in s \ {a} : Total(s \ {a}) = f[z] + Total((s \ {a}) \ {z})
    <3>1. n \in Nat /\ n - 1 \in Nat /\ n - 1 \notin Odd
      BY <2>1, <2>4
    <3>2. s \ {a} \in SUBSET S /\ Cardinality(s \ {a}) = n - 1
      BY <2>4
    <3> HIDE DEF a, Total
    <3> QED BY <3>1, <3>2
  <2>6. x # a
    BY <2>3, <2>4
  <2>7. \A z \in s \ {x} : Total(s \ {x}) = f[z] + Total((s \ {x}) \ {z})
    <3>1. n \in Nat /\ n - 1 \in Nat /\ n - 1 \notin Odd
      BY <2>1, <2>4
    <3>2. s \ {x} \in SUBSET S /\ Cardinality(s \ {x}) = n - 1
      BY <1>0, <2>3, FS_RemoveElement
    <3> HIDE DEF a, Total
    <3> QED BY <3>1, <3>2
  <2>8. (s \ {a}) \ {x} = (s \ {x}) \ {a}
    OBVIOUS
  <2>9. Total((s \ {a}) \ {x}) \in Int /\ f[x] \in Int /\ f[a] \in Int
    BY <1>0, <2>4
  <2> HIDE DEF a, Total
  <2>10. Total(s \ {a}) = f[x] + Total((s \ {a}) \ {x}) /\ Total(s \ {x}) = f[a] + Total((s \ {x}) \ {a})
    BY <2>4, <2>5, <2>6, <2>7
  <2>11. Total(s) = f[a] + (f[x] + Total((s \ {a}) \ {x})) /\ Total(s \ {x}) = f[a] + Total((s \ {a}) \ {x})
    BY <2>4, <2>8, <2>10
  <2>12. Total(s) # f[x] + (f[a] + Total((s \ {a}) \ {x}))
    BY <2>3, <2>11
  <2> QED BY <2>9, <2>11, <2>12
<1>2. Cardinality(S) \in Nat
  BY FS_CardinalityType
<1> HIDE DEF Total
<1>3. Total(S) = f[y] + Total(S \ {y})
  BY <1>1, <1>2
<1> QED BY <1>3 DEF Total

\* Where no value is greater, neither is the sum.
LEMMA SumMonotone ==
    ASSUME NEW S, IsFiniteSet(S), NEW f, NEW h,
           \A x \in S : f[x] \in Int /\ h[x] \in Int /\ f[x] <= h[x]
    PROVE  SumFunctionOnSet(f, S) <= SumFunctionOnSet(h, S)
<1> DEFINE Less(s) == SumFunctionOnSet(f, s)
           More(s) == SumFunctionOnSet(h, s)
           Odd == {n \in Nat : \E s \in SUBSET S : Cardinality(s) = n /\ ~(Less(s) <= More(s))}
<1>0. ASSUME NEW s \in SUBSET S PROVE IsFiniteSet(s) /\ Less(s) \in Int /\ More(s) \in Int
  <2>1. IsFiniteSet(s)
    BY FS_Subset
  <2> QED BY <2>1, SumTyped
<1>1. Odd = {}
  <2> SUFFICES ASSUME Odd # {} PROVE FALSE
    OBVIOUS
  <2>1. PICK n \in Odd : \A j \in Odd : n <= j
    <3>1. Odd \subseteq Nat
      OBVIOUS
    <3> HIDE DEF Odd
    <3> QED BY <3>1, LeastNumber
  <2>2. PICK s \in SUBSET S : Cardinality(s) = n /\ ~(Less(s) <= More(s))
    BY <2>1
  <2>3. Less({}) = 0 /\ More({}) = 0
    BY FS_EmptySet, SumTakesOne
  <2>4. s # {}
    BY <2>2, <2>3
  <2>5. /\ Less(s) = f[OneOf(s)] + Less(WithoutOne(s))
        /\ More(s) = h[OneOf(s)] + More(WithoutOne(s))
    BY <1>0, <2>4, SumTakesOne
  <2>6. OneOf(s) \in S
    BY <2>4, OneOfIsIn
  <2>7. WithoutOne(s) \in SUBSET S /\ Cardinality(WithoutOne(s)) = n - 1 /\ n - 1 \in Nat
    <3> HIDE DEF Odd, Less, More
    <3> QED BY <2>2, <2>4, FewerWithoutOne
  <2>8. Less(WithoutOne(s)) <= More(WithoutOne(s))
    <3>1. n \in Nat /\ n - 1 \notin Odd
      BY <2>1, <2>7
    <3> HIDE DEF Less, More
    <3> QED BY <2>7, <3>1
  <2>9. Less(WithoutOne(s)) \in Int /\ More(WithoutOne(s)) \in Int
    BY <1>0, <2>7
  <2> HIDE DEF Odd, Less, More
  <2> QED BY <2>2, <2>5, <2>6, <2>8, <2>9
<1>2. Cardinality(S) \in Nat
  BY FS_CardinalityType
<1> HIDE DEF Less, More
<1>3. Less(S) <= More(S)
  BY <1>1, <1>2
<1> QED BY <1>3 DEF Less, More

\* One more on one element is one more in all.
LEMMA SumOneMore ==
    ASSUME NEW S, IsFiniteSet(S), NEW f \in [S -> Int], NEW y \in S
    PROVE  SumFunctionOnSet([f EXCEPT ![y] = @ + 1], S) = SumFunctionOnSet(f, S) + 1
<1> DEFINE h == [f EXCEPT ![y] = @ + 1]
<1>1. h \in [S -> Int] /\ h[y] = f[y] + 1 /\ \A x \in S \ {y} : h[x] = f[x]
  OBVIOUS
<1>2. \A x \in S : f[x] \in Int /\ h[x] \in Int
  BY <1>1
<1> HIDE DEF h
<1>3. IsFiniteSet(S \ {y})
  BY FS_RemoveElement
<1>4. SumFunctionOnSet(f, S) = f[y] + SumFunctionOnSet(f, S \ {y})
  BY <1>2, SumTakesAny
<1>5. SumFunctionOnSet(h, S) = h[y] + SumFunctionOnSet(h, S \ {y})
  BY <1>2, SumTakesAny
<1>6. SumFunctionOnSet(h, S \ {y}) = SumFunctionOnSet(f, S \ {y})
  BY <1>1, <1>3, SumOfEqual
<1>7. SumFunctionOnSet(f, S \ {y}) \in Int
  BY <1>2, <1>3, SumTyped
<1>8. SumFunctionOnSet(h, S) = SumFunctionOnSet(f, S) + 1
  BY <1>1, <1>2, <1>4, <1>5, <1>6, <1>7
<1> QED BY <1>8 DEF h

\* A sum of nothing but zeros is zero.
LEMMA SumOfZeros ==
    ASSUME NEW S, IsFiniteSet(S)
    PROVE  SumFunctionOnSet([x \in S |-> 0], S) = 0
<1> DEFINE f == [x \in S |-> 0]
           Odd == {n \in Nat : \E s \in SUBSET S : Cardinality(s) = n /\ SumFunctionOnSet(f, s) # 0}
<1>1. Odd = {}
  <2> SUFFICES ASSUME Odd # {} PROVE FALSE
    OBVIOUS
  <2>1. PICK n \in Odd : \A j \in Odd : n <= j
    <3>1. Odd \subseteq Nat
      OBVIOUS
    <3> HIDE DEF Odd
    <3> QED BY <3>1, LeastNumber
  <2>2. PICK s \in SUBSET S : Cardinality(s) = n /\ SumFunctionOnSet(f, s) # 0
    BY <2>1
  <2>3. IsFiniteSet(s)
    BY FS_Subset
  <2>4. s # {} /\ SumFunctionOnSet(f, s) = f[OneOf(s)] + SumFunctionOnSet(f, WithoutOne(s))
    <3> HIDE DEF f, Odd
    <3> QED BY <2>2, <2>3, SumTakesOne
  <2>5. f[OneOf(s)] = 0
    BY <2>4, OneOfIsIn
  <2>6. WithoutOne(s) \in SUBSET S /\ Cardinality(WithoutOne(s)) = n - 1 /\ n - 1 \in Nat
    <3> HIDE DEF Odd, f
    <3> QED BY <2>2, <2>4, FewerWithoutOne
  <2>7. SumFunctionOnSet(f, WithoutOne(s)) = 0
    <3>1. n \in Nat /\ n - 1 \notin Odd
      BY <2>1, <2>6
    <3> HIDE DEF f
    <3> QED BY <2>6, <3>1
  <2> HIDE DEF f, Odd
  <2> QED BY <2>2, <2>4, <2>5, <2>7
<1>2. Cardinality(S) \in Nat
  BY FS_CardinalityType
<1> HIDE DEF f
<1>3. SumFunctionOnSet(f, S) = 0
  BY <1>1, <1>2
<1> QED BY <1>3 DEF f

\* The sum of a sequence with one element more.
LEMMA SumOfAppended ==
    ASSUME NEW n \in Nat, NEW f, NEW h, \A i \in 1..(n + 1) : h[i] \in Int,
           \A i \in 1..n : f[i] = h[i]
    PROVE  /\ SumFunctionOnSet(f, 1..n) \in Int
           /\ SumFunctionOnSet(h, 1..(n + 1)) = SumFunctionOnSet(f, 1..n) + h[n + 1]
<1>1. IsFiniteSet(1..n) /\ IsFiniteSet(1..(n + 1))
  BY FS_Interval
<1>2. (1..(n + 1)) \ {n + 1} = 1..n /\ n + 1 \in 1..(n + 1)
  OBVIOUS
<1>3. SumFunctionOnSet(h, 1..(n + 1)) = h[n + 1] + SumFunctionOnSet(h, 1..n)
  <2>1. SumFunctionOnSet(h, 1..(n + 1)) = h[n + 1] + SumFunctionOnSet(h, (1..(n + 1)) \ {n + 1})
    BY <1>1, <1>2, SumTakesAny
  <2> QED BY <1>2, <2>1
<1>4. SumFunctionOnSet(f, 1..n) = SumFunctionOnSet(h, 1..n)
  BY <1>1, SumOfEqual
<1>5. SumFunctionOnSet(h, 1..n) \in Int
  <2>1. \A i \in 1..n : h[i] \in Int
    OBVIOUS
  <2> QED BY <1>1, <2>1, SumTyped
<1> QED BY <1>2, <1>3, <1>4, <1>5
=============================================================================
