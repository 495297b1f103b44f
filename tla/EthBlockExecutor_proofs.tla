----------------------- MODULE EthBlockExecutor_proofs -----------------------
(***************************************************************************)
(* Proofs about EthBlockExecutor for every block, every list of            *)
(* transactions and every value of the constants.                          *)
(***************************************************************************)
EXTENDS EthBlockExecutor, BalanceDues, SequenceTheorems, WellFoundedInduction,
        FiniteSetTheorems, TLAPS

-----------------------------------------------------------------------------
(***************************************************************************)
(* Sums, by induction on the number of elements.                            *)
(***************************************************************************)

\* Induction over the natural numbers, with a set for the predicate.
LEMMA NatSetInduction ==
    ASSUME NEW S, 0 \in S, \A n \in Nat : n \in S => n + 1 \in S
    PROVE  \A n \in Nat : n \in S
<1> SUFFICES ASSUME NEW k \in Nat, k \notin S PROVE FALSE
  OBVIOUS
<1> DEFINE T == {n \in Nat : n \notin S}
           R == OpToRel(<, Nat)
<1>0. IsWellFoundedOn(R, Nat)
  BY NatLessThanWellFounded
<1>1. \A x, y \in Nat : x < y => <<x, y>> \in R
  BY DEF OpToRel
<1>2. T \subseteq Nat /\ T # {}
  OBVIOUS
<1> HIDE DEF R, T
<1>3. PICK x \in T : \A y \in T : ~(<<y, x>> \in R)
  BY <1>0, <1>2, WFMin
<1>4. x \in Nat /\ x \notin S
  BY DEF T
<1>5. x # 0 /\ x - 1 \in Nat /\ x = (x - 1) + 1 /\ x - 1 < x
  BY <1>4
<1>6. x - 1 \notin S
  BY <1>4, <1>5
<1>7. x - 1 \in T
  BY <1>5, <1>6 DEF T
<1>8. QED
  BY <1>1, <1>3, <1>4, <1>5, <1>7

\* One unfolding of the recursion of SumFunctionOnSet.
Unfolded(f, s, rest) ==
    IF s = {} THEN 0 ELSE f[CHOOSE x \in s : TRUE] + rest[s \ {CHOOSE x \in s : TRUE}]

\* g is the function SumFunctionOnSet defines recursively.
IsSum(g, f, S) == g = [s \in SUBSET S |-> Unfolded(f, s, g)]

LEMMA SumIsChosen ==
    ASSUME NEW f, NEW S
    PROVE  SumFunctionOnSet(f, S) = (CHOOSE g : IsSum(g, f, S))[S]
BY DEF SumFunctionOnSet, FoldFunctionOnSet, MapThenFoldSet, IsSum, Unfolded

\* What is left of a finite set when its chosen element is taken.
LEMMA ChosenElement ==
    ASSUME NEW S, IsFiniteSet(S), NEW s \in SUBSET S, s # {}
    PROVE  /\ IsFiniteSet(s)
           /\ (CHOOSE x \in s : TRUE) \in s
           /\ s \ {CHOOSE x \in s : TRUE} \in SUBSET S
           /\ Cardinality(s) \in Nat \ {0}
           /\ Cardinality(s \ {CHOOSE x \in s : TRUE}) = Cardinality(s) - 1
<1>1. IsFiniteSet(s)
  BY FS_Subset
<1>2. (CHOOSE x \in s : TRUE) \in s
  OBVIOUS
<1>3. Cardinality(s) \in Nat /\ Cardinality(s) # 0
  BY <1>1, FS_CardinalityType, FS_EmptySet
<1>4. QED
  BY <1>1, <1>2, <1>3, FS_RemoveElement

\* The recursion has a solution: on sets of at most n elements, for every n.
LEMMA SumExists ==
    ASSUME NEW S, IsFiniteSet(S), NEW f
    PROVE  \E g : IsSum(g, f, S)
<1> DEFINE Upto(n) == {s \in SUBSET S : Cardinality(s) <= n}
           Solves(g, n) == \A s \in Upto(n) : g[s] = Unfolded(f, s, g)
           N == {n \in Nat : \E g : Solves(g, n)}
<1>1. 0 \in N
  <2>1. \A s \in Upto(0) : s = {}
    <3> SUFFICES ASSUME NEW s \in SUBSET S, Cardinality(s) <= 0, s # {} PROVE FALSE
      OBVIOUS
    <3>1. Cardinality(s) \in Nat \ {0}
      BY ChosenElement
    <3>2. QED
      BY <3>1
  <2>2. Solves([s \in SUBSET S |-> 0], 0)
    BY <2>1 DEF Unfolded
  <2>3. QED
    BY <2>2
<1>2. ASSUME NEW n \in Nat, n \in N PROVE n + 1 \in N
  <2>1. PICK g : Solves(g, n)
    BY <1>2
  <2> DEFINE h == [s \in SUBSET S |-> Unfolded(f, s, g)]
  <2>2. \A s \in Upto(n) : h[s] = g[s]
    BY <2>1
  <2>3. ASSUME NEW s \in Upto(n + 1) PROVE h[s] = Unfolded(f, s, h)
    <3>1. CASE s = {}
      BY <3>1 DEF Unfolded
    <3>2. CASE s # {}
      <4>1. s \ {CHOOSE x \in s : TRUE} \in Upto(n)
        BY <3>2, ChosenElement
      <4>2. h[s \ {CHOOSE x \in s : TRUE}] = g[s \ {CHOOSE x \in s : TRUE}]
        BY <2>2, <4>1
      <4>3. QED
        BY <4>2 DEF Unfolded
    <3>3. QED
      BY <3>1, <3>2
  <2>4. Solves(h, n + 1)
    BY <2>3
  <2>5. \E k : Solves(k, n + 1)
    BY <2>4
  <2>6. QED
    BY <2>5
<1>3. \A n \in Nat : n \in N
  <2> HIDE DEF N
  <2> QED
    BY <1>1, <1>2, NatSetInduction
<1>4. Cardinality(S) \in Nat
  BY FS_CardinalityType
<1>5. PICK g : Solves(g, Cardinality(S))
  BY <1>3, <1>4
<1>6. \A s \in SUBSET S : s \in Upto(Cardinality(S))
  BY FS_Subset
<1> DEFINE h == [s \in SUBSET S |-> g[s]]
<1>7. ASSUME NEW s \in SUBSET S PROVE Unfolded(f, s, h) = Unfolded(f, s, g)
  <2>1. s \ {CHOOSE x \in s : TRUE} \in SUBSET S
    OBVIOUS
  <2>2. h[s \ {CHOOSE x \in s : TRUE}] = g[s \ {CHOOSE x \in s : TRUE}]
    BY <2>1
  <2>3. QED
    BY <2>2 DEF Unfolded
<1>8. IsSum(h, f, S)
  BY <1>5, <1>6, <1>7 DEF IsSum
<1>9. QED
  BY <1>8

\* Two solutions agree on the sets both are defined for.
LEMMA SumUnique ==
    ASSUME NEW S, IsFiniteSet(S), NEW T \in SUBSET S, NEW f, NEW g, NEW h,
           IsSum(g, f, S), IsSum(h, f, T)
    PROVE  g[T] = h[T]
<1> DEFINE N == {n \in Nat : \A s \in SUBSET T : Cardinality(s) = n => g[s] = h[s]}
<1>0. IsFiniteSet(T)
  BY FS_Subset
<1>1. \A s \in SUBSET T : g[s] = Unfolded(f, s, g) /\ h[s] = Unfolded(f, s, h)
  BY DEF IsSum
<1>2. 0 \in N
  <2>1. \A s \in SUBSET T : Cardinality(s) = 0 => s = {}
    BY <1>0, ChosenElement
  <2>2. QED
    BY <1>1, <2>1 DEF Unfolded
<1>3. ASSUME NEW n \in Nat, n \in N PROVE n + 1 \in N
  <2> SUFFICES ASSUME NEW s \in SUBSET T, Cardinality(s) = n + 1 PROVE g[s] = h[s]
    OBVIOUS
  <2>1. s # {}
    BY FS_EmptySet
  <2>2. g[s \ {CHOOSE x \in s : TRUE}] = h[s \ {CHOOSE x \in s : TRUE}]
    BY <1>0, <1>3, <2>1, ChosenElement
  <2>3. QED
    BY <1>1, <2>1, <2>2 DEF Unfolded
<1>4. \A n \in Nat : n \in N
  <2> HIDE DEF N
  <2> QED
    BY <1>2, <1>3, NatSetInduction
<1>5. Cardinality(T) \in Nat
  BY <1>0, FS_CardinalityType
<1>6. QED
  BY <1>4, <1>5

LEMMA SumOfNothing ==
    ASSUME NEW f PROVE SumFunctionOnSet(f, {}) = 0
<1>1. IsFiniteSet({})
  BY FS_EmptySet
<1>2. IsSum(CHOOSE g : IsSum(g, f, {}), f, {})
  BY <1>1, SumExists
<1>3. QED
  BY <1>2, SumIsChosen DEF IsSum, Unfolded

\* A sum is its chosen element and the sum of the rest.
LEMMA SumOfChosen ==
    ASSUME NEW S, IsFiniteSet(S), S # {}, NEW f
    PROVE  LET x == CHOOSE x \in S : TRUE
           IN  SumFunctionOnSet(f, S) = f[x] + SumFunctionOnSet(f, S \ {x})
<1> DEFINE x == CHOOSE x \in S : TRUE
           g == CHOOSE g : IsSum(g, f, S)
           h == CHOOSE h : IsSum(h, f, S \ {x})
<1>1. IsSum(g, f, S)
  BY SumExists
<1>2. IsFiniteSet(S \ {x}) /\ S \ {x} \in SUBSET S
  BY FS_RemoveElement
<1>3. IsSum(h, f, S \ {x})
  BY <1>2, SumExists
<1>4. SumFunctionOnSet(f, S) = g[S] /\ SumFunctionOnSet(f, S \ {x}) = h[S \ {x}]
  BY SumIsChosen
<1> HIDE DEF g, h
<1>5. g[S \ {x}] = h[S \ {x}]
  BY <1>1, <1>2, <1>3, SumUnique
<1>6. g[S] = f[x] + g[S \ {x}]
  BY <1>1 DEF IsSum, Unfolded
<1>7. QED
  BY <1>4, <1>5, <1>6

\* A sum stays in a set of numbers that addition stays in.
LEMMA SumClosed ==
    ASSUME NEW S, IsFiniteSet(S), NEW f, NEW K, 0 \in K,
           \A k, m \in K : k + m \in K, \A x \in S : f[x] \in K
    PROVE  SumFunctionOnSet(f, S) \in K
<1> DEFINE N == {n \in Nat : \A s \in SUBSET S :
                    Cardinality(s) = n => SumFunctionOnSet(f, s) \in K}
<1>1. 0 \in N
  <2>1. \A s \in SUBSET S : Cardinality(s) = 0 => s = {}
    BY ChosenElement
  <2>2. QED
    BY <2>1, SumOfNothing
<1>2. ASSUME NEW n \in Nat, n \in N PROVE n + 1 \in N
  <2> SUFFICES ASSUME NEW s \in SUBSET S, Cardinality(s) = n + 1
               PROVE  SumFunctionOnSet(f, s) \in K
    OBVIOUS
  <2>1. s # {} /\ IsFiniteSet(s)
    BY FS_EmptySet, FS_Subset
  <2> DEFINE x == CHOOSE x \in s : TRUE
  <2>2. SumFunctionOnSet(f, s) = f[x] + SumFunctionOnSet(f, s \ {x})
    BY <2>1, SumOfChosen
  <2>3. x \in s /\ s \ {x} \in SUBSET S /\ Cardinality(s \ {x}) = n
    BY <2>1, ChosenElement
  <2> HIDE DEF x
  <2>4. SumFunctionOnSet(f, s \ {x}) \in K
    BY <1>2, <2>3
  <2>5. QED
    BY <2>2, <2>3, <2>4
<1>3. \A n \in Nat : n \in N
  <2> HIDE DEF N
  <2> QED
    BY <1>1, <1>2, NatSetInduction
<1>4. Cardinality(S) \in Nat
  BY FS_CardinalityType
<1>5. QED
  BY <1>3, <1>4

\* A sum of integers is an integer, of natural numbers a natural number.
LEMMA SumType ==
    ASSUME NEW S, IsFiniteSet(S), NEW f
    PROVE  /\ (\A x \in S : f[x] \in Int) => SumFunctionOnSet(f, S) \in Int
           /\ (\A x \in S : f[x] \in Nat) => SumFunctionOnSet(f, S) \in Nat
<1>1. /\ 0 \in Int /\ \A k, m \in Int : k + m \in Int
      /\ 0 \in Nat /\ \A k, m \in Nat : k + m \in Nat
  OBVIOUS
<1>2. QED
  BY <1>1, SumClosed

\* Any element may be taken first.
LEMMA SumOfElement ==
    ASSUME NEW S, IsFiniteSet(S), NEW f, \A x \in S : f[x] \in Int, NEW y \in S
    PROVE  SumFunctionOnSet(f, S) = f[y] + SumFunctionOnSet(f, S \ {y})
<1> DEFINE Splits(s) == \A z \in s : SumFunctionOnSet(f, s)
                                        = f[z] + SumFunctionOnSet(f, s \ {z})
           N == {n \in Nat : \A s \in SUBSET S : Cardinality(s) = n => Splits(s)}
<1>1. 0 \in N
  <2>1. \A s \in SUBSET S : Cardinality(s) = 0 => s = {}
    BY ChosenElement
  <2>2. QED
    BY <2>1
<1>2. ASSUME NEW n \in Nat, n \in N PROVE n + 1 \in N
  <2> SUFFICES ASSUME NEW s \in SUBSET S, Cardinality(s) = n + 1, NEW z \in s
               PROVE  SumFunctionOnSet(f, s) = f[z] + SumFunctionOnSet(f, s \ {z})
    OBVIOUS
  <2>1. s # {} /\ IsFiniteSet(s)
    BY FS_Subset
  <2> DEFINE x == CHOOSE x \in s : TRUE
  <2>2. SumFunctionOnSet(f, s) = f[x] + SumFunctionOnSet(f, s \ {x})
    BY <2>1, SumOfChosen
  <2>3. x \in s /\ s \ {x} \in SUBSET S /\ Cardinality(s \ {x}) = n
    BY <2>1, ChosenElement
  <2> HIDE DEF x
  <2>4. CASE z = x
    BY <2>2, <2>4
  <2>5. CASE z # x
    <3> DEFINE r == s \ {x, z}
    <3>1. /\ z \in s \ {x} /\ x \in s \ {z}
          /\ (s \ {x}) \ {z} = r /\ (s \ {z}) \ {x} = r
      BY <2>3, <2>5
    <3>2. SumFunctionOnSet(f, s \ {x}) = f[z] + SumFunctionOnSet(f, r)
      <4>1. Splits(s \ {x})
        BY <1>2, <2>3
      <4>2. QED
        BY <3>1, <4>1
    <3>3. Cardinality(s \ {z}) = n
      <4>1. Cardinality(s \ {z}) = Cardinality(s) - 1
        BY <2>1, FS_RemoveElement
      <4>2. QED
        BY <4>1
    <3>4. SumFunctionOnSet(f, s \ {z}) = f[x] + SumFunctionOnSet(f, r)
      <4>1. s \ {z} \in SUBSET S
        OBVIOUS
      <4>2. Splits(s \ {z})
        BY <1>2, <3>3, <4>1
      <4>3. QED
        BY <3>1, <4>2
    <3>5. f[x] \in Int /\ f[z] \in Int
      BY <2>3
    <3>6. SumFunctionOnSet(f, r) \in Int
      <4>1. IsFiniteSet(r)
        BY <2>1, FS_Subset
      <4>2. QED
        BY <4>1, SumType
    <3> HIDE DEF r, Splits
    <3>7. QED
      BY <2>2, <3>2, <3>4, <3>5, <3>6
  <2>6. QED
    BY <2>4, <2>5
<1>3. \A n \in Nat : n \in N
  <2> HIDE DEF N
  <2> QED
    BY <1>1, <1>2, NatSetInduction
<1>4. Cardinality(S) \in Nat
  BY FS_CardinalityType
<1>5. QED
  BY <1>3, <1>4

\* The sum of pointwise sums.
LEMMA SumOfSums ==
    ASSUME NEW S, IsFiniteSet(S), NEW f, NEW g, NEW h,
           \A x \in S : f[x] \in Int /\ g[x] \in Int /\ h[x] = f[x] + g[x]
    PROVE  SumFunctionOnSet(h, S) = SumFunctionOnSet(f, S) + SumFunctionOnSet(g, S)
<1> DEFINE N == {n \in Nat : \A s \in SUBSET S : Cardinality(s) = n =>
                    SumFunctionOnSet(h, s) = SumFunctionOnSet(f, s) + SumFunctionOnSet(g, s)}
<1>1. 0 \in N
  <2>1. \A s \in SUBSET S : Cardinality(s) = 0 => s = {}
    BY ChosenElement
  <2>2. SumFunctionOnSet(h, {}) = SumFunctionOnSet(f, {}) + SumFunctionOnSet(g, {})
    BY SumOfNothing
  <2>3. QED
    BY <2>1, <2>2
<1>2. ASSUME NEW n \in Nat, n \in N PROVE n + 1 \in N
  <2> SUFFICES ASSUME NEW s \in SUBSET S, Cardinality(s) = n + 1
               PROVE  SumFunctionOnSet(h, s) = SumFunctionOnSet(f, s) + SumFunctionOnSet(g, s)
    OBVIOUS
  <2>1. s # {} /\ IsFiniteSet(s)
    BY FS_EmptySet, FS_Subset
  <2> DEFINE x == CHOOSE x \in s : TRUE
             r == s \ {x}
  <2>2. /\ SumFunctionOnSet(f, s) = f[x] + SumFunctionOnSet(f, r)
        /\ SumFunctionOnSet(g, s) = g[x] + SumFunctionOnSet(g, r)
        /\ SumFunctionOnSet(h, s) = h[x] + SumFunctionOnSet(h, r)
    BY <2>1, SumOfChosen
  <2>3. x \in s /\ r \in SUBSET S /\ Cardinality(r) = n /\ IsFiniteSet(r)
    <3>1. x \in s /\ r \in SUBSET S /\ Cardinality(r) = Cardinality(s) - 1
      BY <2>1, ChosenElement
    <3>2. IsFiniteSet(r)
      BY <3>1, FS_Subset
    <3>3. QED
      BY <3>1, <3>2
  <2> HIDE DEF x, r
  <2>4. SumFunctionOnSet(h, r) = SumFunctionOnSet(f, r) + SumFunctionOnSet(g, r)
    BY <1>2, <2>3
  <2>5. SumFunctionOnSet(f, r) \in Int /\ SumFunctionOnSet(g, r) \in Int
    BY <2>3, SumType
  <2>6. f[x] \in Int /\ g[x] \in Int /\ h[x] = f[x] + g[x]
    BY <2>3
  <2>7. QED
    BY <2>2, <2>4, <2>5, <2>6
<1>3. \A n \in Nat : n \in N
  <2> HIDE DEF N
  <2> QED
    BY <1>1, <1>2, NatSetInduction
<1>4. Cardinality(S) \in Nat
  BY FS_CardinalityType
<1>5. QED
  BY <1>3, <1>4

\* A sum of zeroes.
LEMMA SumOfZeroes ==
    ASSUME NEW S, IsFiniteSet(S), NEW f, \A x \in S : f[x] = 0
    PROVE  SumFunctionOnSet(f, S) = 0
<1> DEFINE sum == SumFunctionOnSet(f, S)
<1>1. sum = sum + sum
  <2>1. \A x \in S : f[x] \in Int /\ f[x] \in Int /\ f[x] = f[x] + f[x]
    OBVIOUS
  <2>2. QED
    BY <2>1, SumOfSums
<1>2. sum \in Int
  <2>1. \A x \in S : f[x] \in Int
    OBVIOUS
  <2>2. QED
    BY <2>1, SumType
<1> HIDE DEF sum
<1>3. sum = 0
  BY <1>1, <1>2
<1>4. QED
  BY <1>3 DEF sum

\* A multiple of a sum is the sum of the multiples.
LEMMA SumOfMultiples ==
    ASSUME NEW S, IsFiniteSet(S), NEW c \in Int, NEW f, NEW g,
           \A x \in S : f[x] \in Int /\ g[x] = c * f[x]
    PROVE  SumFunctionOnSet(g, S) = c * SumFunctionOnSet(f, S)
<1> DEFINE N == {n \in Nat : \A s \in SUBSET S : Cardinality(s) = n =>
                    SumFunctionOnSet(g, s) = c * SumFunctionOnSet(f, s)}
<1>1. 0 \in N
  <2>1. \A s \in SUBSET S : Cardinality(s) = 0 => s = {}
    BY ChosenElement
  <2>2. SumFunctionOnSet(g, {}) = c * SumFunctionOnSet(f, {})
    BY SumOfNothing
  <2>3. QED
    BY <2>1, <2>2
<1>2. ASSUME NEW n \in Nat, n \in N PROVE n + 1 \in N
  <2> SUFFICES ASSUME NEW s \in SUBSET S, Cardinality(s) = n + 1
               PROVE  SumFunctionOnSet(g, s) = c * SumFunctionOnSet(f, s)
    OBVIOUS
  <2>1. s # {} /\ IsFiniteSet(s)
    BY FS_EmptySet, FS_Subset
  <2>2. PICK x \in s : TRUE
    BY <2>1
  <2> DEFINE r == s \ {x}
             sum == SumFunctionOnSet(f, r)
             value == f[x]
  <2>3. r \in SUBSET S /\ Cardinality(r) = n /\ IsFiniteSet(r)
    <3>1. IsFiniteSet(r) /\ Cardinality(r) = Cardinality(s) - 1
      BY <2>1, <2>2, FS_RemoveElement
    <3>2. r \in SUBSET S
      OBVIOUS
    <3> HIDE DEF r
    <3>3. QED
      BY <3>1, <3>2
  <2>4. f[x] \in Int /\ g[x] = c * f[x] /\ g[x] \in Int
    OBVIOUS
  <2>5. \A y \in s : f[y] \in Int /\ g[y] \in Int
    OBVIOUS
  <2>6. /\ SumFunctionOnSet(f, s) = value + sum
        /\ SumFunctionOnSet(g, s) = c * value + SumFunctionOnSet(g, r)
    BY <2>1, <2>4, <2>5, SumOfElement
  <2> HIDE DEF r
  <2>7. SumFunctionOnSet(g, r) = c * sum
    BY <1>2, <2>3
  <2>8. sum \in Int /\ value \in Int
    BY <2>3, <2>4, SumType
  <2> HIDE DEF sum, value
  <2>9. c * (value + sum) = c * value + c * sum
    BY <2>8
  <2>10. QED
    BY <2>6, <2>7, <2>9
<1>3. \A n \in Nat : n \in N
  <2> HIDE DEF N
  <2> QED
    BY <1>1, <1>2, NatSetInduction
<1>4. Cardinality(S) \in Nat
  BY FS_CardinalityType
<1>5. QED
  BY <1>3, <1>4

\* A sum depends on the values at the summed elements alone.
LEMMA SumOfEquals ==
    ASSUME NEW S, IsFiniteSet(S), NEW f, NEW g,
           \A x \in S : f[x] \in Int /\ g[x] = f[x]
    PROVE  SumFunctionOnSet(g, S) = SumFunctionOnSet(f, S)
<1> DEFINE z == [x \in S |-> 0]
<1>1. SumFunctionOnSet(z, S) = 0
  BY SumOfZeroes
<1>2. \A x \in S : f[x] \in Int /\ z[x] \in Int /\ g[x] = f[x] + z[x]
  OBVIOUS
<1> HIDE DEF z
<1>3. SumFunctionOnSet(g, S) = SumFunctionOnSet(f, S) + SumFunctionOnSet(z, S)
  BY <1>2, SumOfSums
<1>4. SumFunctionOnSet(f, S) \in Int
  BY SumType
<1>5. QED
  BY <1>1, <1>3, <1>4

\* Elements whose value is zero need not be summed.
LEMMA SumOfSubset ==
    ASSUME NEW S, IsFiniteSet(S), NEW T \in SUBSET S, NEW f,
           \A x \in S : f[x] \in Int, \A x \in S \ T : f[x] = 0
    PROVE  SumFunctionOnSet(f, S) = SumFunctionOnSet(f, T)
<1> DEFINE N == {n \in Nat : \A s \in SUBSET S : T \subseteq s /\ Cardinality(s \ T) = n =>
                    SumFunctionOnSet(f, s) = SumFunctionOnSet(f, T)}
<1>1. 0 \in N
  <2>1. \A s \in SUBSET S : T \subseteq s /\ Cardinality(s \ T) = 0 => s = T
    <3> SUFFICES ASSUME NEW s \in SUBSET S, T \subseteq s, Cardinality(s \ T) = 0 PROVE s = T
      OBVIOUS
    <3>1. IsFiniteSet(s \ T)
      BY FS_Subset
    <3>2. QED
      BY <3>1, FS_EmptySet
  <2>2. QED
    BY <2>1
<1>2. ASSUME NEW n \in Nat, n \in N PROVE n + 1 \in N
  <2> SUFFICES ASSUME NEW s \in SUBSET S, T \subseteq s, Cardinality(s \ T) = n + 1
               PROVE  SumFunctionOnSet(f, s) = SumFunctionOnSet(f, T)
    OBVIOUS
  <2>1. IsFiniteSet(s) /\ IsFiniteSet(s \ T) /\ s \ T # {}
    BY FS_Subset, FS_EmptySet
  <2>2. PICK x \in s : x \notin T
    BY <2>1
  <2>3. SumFunctionOnSet(f, s) = f[x] + SumFunctionOnSet(f, s \ {x})
    BY <2>1, SumOfElement
  <2>4. (s \ {x}) \ T = (s \ T) \ {x} /\ T \subseteq s \ {x} /\ s \ {x} \in SUBSET S
    BY <2>2
  <2>5. Cardinality((s \ {x}) \ T) = n
    <3> DEFINE u == s \ T
               v == u \ {x}
    <3>1. IsFiniteSet(u) /\ x \in u /\ Cardinality(u) = n + 1 /\ (s \ {x}) \ T = v
      BY <2>1, <2>2, <2>4
    <3> HIDE DEF u
    <3>2. Cardinality(v) = Cardinality(u) - 1
      BY <3>1, FS_RemoveElement
    <3> HIDE DEF v
    <3>3. Cardinality(v) = n
      BY <3>1, <3>2
    <3>4. QED
      BY <3>1, <3>3
  <2>6. SumFunctionOnSet(f, s \ {x}) = SumFunctionOnSet(f, T)
    BY <1>2, <2>4, <2>5
  <2>7. SumFunctionOnSet(f, T) \in Int
    BY FS_Subset, SumType
  <2>8. QED
    BY <2>2, <2>3, <2>6, <2>7
<1>3. \A n \in Nat : n \in N
  <2> HIDE DEF N
  <2> QED
    BY <1>1, <1>2, NatSetInduction
<1>4. Cardinality(S \ T) \in Nat
  BY FS_Subset, FS_CardinalityType
<1>5. QED
  BY <1>3, <1>4

\* Sets of indices are finite.
LEMMA IndicesFinite == \A n \in Nat : IsFiniteSet(1 .. n)
BY FS_Interval

\* A non-empty set of indices has a greatest one.
LEMMA GreatestIndex ==
    ASSUME NEW n \in Nat, NEW s \in SUBSET (1 .. n), s # {}
    PROVE  Max(s) \in s
<1> DEFINE G == {m \in Nat : \A t \in SUBSET (1 .. m) : t # {} => \E x \in t : \A y \in t : x >= y}
<1>1. 0 \in G
  <2>1. \A t \in SUBSET (1 .. 0) : t = {}
    OBVIOUS
  <2>2. QED
    BY <2>1
<1>2. ASSUME NEW m \in Nat, m \in G PROVE m + 1 \in G
  <2> SUFFICES ASSUME NEW t \in SUBSET (1 .. m + 1), t # {}
               PROVE  \E x \in t : \A y \in t : x >= y
    OBVIOUS
  <2>1. CASE m + 1 \in t
    BY <2>1
  <2>2. CASE m + 1 \notin t
    <3>1. t \in SUBSET (1 .. m)
      BY <2>2
    <3>2. QED
      BY <1>2, <3>1
  <2>3. QED
    BY <2>1, <2>2
<1> HIDE DEF G
<1>3. n \in G
  BY <1>1, <1>2, NatSetInduction
<1>4. \E x \in s : \A y \in s : x >= y
  BY <1>3 DEF G
<1>5. QED
  BY <1>4 DEF Max

-----------------------------------------------------------------------------
(***************************************************************************)
(* The loops of post_block_balance_increments.  A loop has n steps; step i  *)
(* adds amount[i] to the entry of account[i], unless it is to skip amounts  *)
(* of zero and this is one.                                                 *)
(***************************************************************************)
StepOf(account, amount, skip, map, i) ==
    IF ~skip \/ amount[i] > 0 THEN Bump(map, account[i], amount[i]) ELSE map

\* fold is the function FoldLeft defines recursively, on sets of steps.
IsFold(fold, account, amount, skip, map, n) ==
    fold = [s \in SUBSET (1 .. n) |->
              IF s = {} THEN map
              ELSE StepOf(account, amount, skip, fold[s \ {Max(s)}], Max(s))]

Entry(map, a) == IF a \in DOMAIN map THEN map[a] ELSE 0

\* What the steps of a set that are an account's add up to.
SumFor(account, amount, s, a) == SumFunctionOnSet(amount, {i \in s : account[i] = a})

\* What the steps of a set come to, whatever their order.
Collected(account, amount, skip, map, s) ==
    [a \in DOMAIN map \cup {account[i] : i \in {j \in s : ~skip \/ amount[j] > 0}} |->
        Entry(map, a) + SumFor(account, amount, s, a)]

\* The sum for an account is at least each of its amounts.
LEMMA SumForType ==
    ASSUME NEW s, IsFiniteSet(s), NEW account, NEW amount, \A i \in s : amount[i] \in Nat, NEW a
    PROVE  /\ SumFor(account, amount, s, a) \in Nat
           /\ \A i \in s : account[i] = a => SumFor(account, amount, s, a) >= amount[i]
<1> DEFINE mine == {i \in s : account[i] = a}
           sum == SumFor(account, amount, s, a)
<1>0. sum = SumFunctionOnSet(amount, mine)
  BY DEF SumFor
<1>1. mine \in SUBSET s
  OBVIOUS
<1> HIDE DEF mine, sum
<1>2. \A i \in mine : amount[i] \in Nat /\ amount[i] \in Int
  BY <1>1
<1>3. IsFiniteSet(mine)
  BY <1>1, FS_Subset
<1>4. sum \in Nat
  BY <1>0, <1>2, <1>3, SumType
<1>5. ASSUME NEW i \in mine PROVE sum >= amount[i]
  <2>1. sum = amount[i] + SumFunctionOnSet(amount, mine \ {i})
    BY <1>0, <1>2, <1>3, SumOfElement
  <2>2. SumFunctionOnSet(amount, mine \ {i}) \in Nat
    <3>1. IsFiniteSet(mine \ {i}) /\ \A j \in mine \ {i} : amount[j] \in Nat
      BY <1>2, <1>3, FS_RemoveElement
    <3>2. QED
      BY <3>1, SumType
  <2>3. amount[i] \in Nat
    BY <1>2
  <2>4. QED
    BY <2>1, <2>2, <2>3
<1>6. QED
  BY <1>4, <1>5 DEF sum, mine

\* What a map has for an account after steps: what it had, and its sum.
LEMMA EntryCollected ==
    ASSUME NEW s, IsFiniteSet(s), NEW account, NEW amount, \A i \in s : amount[i] \in Nat,
           NEW skip \in BOOLEAN, NEW map, \A x \in DOMAIN map : map[x] \in Nat, NEW a
    PROVE  Entry(Collected(account, amount, skip, map, s), a)
             = Entry(map, a) + SumFor(account, amount, s, a)
<1> DEFINE mine == {i \in s : account[i] = a}
           sum == SumFor(account, amount, s, a)
           named == DOMAIN map \cup {account[i] : i \in {j \in s : ~skip \/ amount[j] > 0}}
<1>1. a \notin named => sum = 0
  <2> SUFFICES ASSUME a \notin named PROVE sum = 0
    OBVIOUS
  <2>0. sum = SumFunctionOnSet(amount, mine)
    BY DEF SumFor
  <2>1. mine \in SUBSET s /\ \A i \in mine : i \in s /\ account[i] = a
    OBVIOUS
  <2> HIDE DEF mine, sum
  <2>2. ASSUME NEW i \in mine PROVE amount[i] = 0
    <3>1. i \in s /\ account[i] = a /\ amount[i] \in Nat
      BY <2>1
    <3>2. ~(~skip \/ amount[i] > 0)
      BY <3>1
    <3>3. QED
      BY <3>1, <3>2
  <2>3. IsFiniteSet(mine)
    BY <2>1, FS_Subset
  <2>4. QED
    BY <2>0, <2>2, <2>3, SumOfZeroes
<1>2. Collected(account, amount, skip, map, s)
        = [x \in named |-> Entry(map, x) + SumFor(account, amount, s, x)]
  BY DEF Collected
<1>3. a \notin named => Entry(map, a) = 0
  BY DEF Entry
<1> HIDE DEF named, mine
<1>4. CASE a \in named
  BY <1>2, <1>4 DEF Entry
<1>5. CASE a \notin named
  <2>1. Entry(Collected(account, amount, skip, map, s), a) = 0
    BY <1>2, <1>5 DEF Entry
  <2> HIDE DEF sum
  <2>2. QED
    BY <1>1, <1>3, <1>5, <2>1 DEF sum
<1>6. QED
  BY <1>4, <1>5

LEMMA CollectedStep ==
    ASSUME NEW n \in Nat, NEW account, NEW amount, NEW skip \in BOOLEAN, NEW map,
           \A i \in 1 .. n : amount[i] \in Nat,
           \A a \in DOMAIN map : map[a] \in Nat,
           NEW s \in SUBSET (1 .. n), NEW x \in s
    PROVE  Collected(account, amount, skip, map, s)
             = StepOf(account, amount, skip,
                      Collected(account, amount, skip, map, s \ {x}), x)
<1> DEFINE Of(t, a) == {i \in t : account[i] = a}
           Named(t) == DOMAIN map \cup {account[i] : i \in {j \in t : ~skip \/ amount[j] > 0}}
           rest == s \ {x}
           before == Collected(account, amount, skip, map, rest)
           after == Collected(account, amount, skip, map, s)
           Sum(t, a) == SumFunctionOnSet(amount, Of(t, a))
<1>1. IsFiniteSet(1 .. n)
  BY IndicesFinite
<1>2. \A a : /\ Of(s, a) \in SUBSET (1 .. n) /\ Of(rest, a) \in SUBSET (1 .. n)
             /\ a # account[x] => Of(s, a) = Of(rest, a)
             /\ a = account[x] => x \in Of(s, a) /\ Of(s, a) \ {x} = Of(rest, a)
  OBVIOUS
<1>3. \A a : Sum(rest, a) \in Nat
  <2> SUFFICES ASSUME NEW a PROVE Sum(rest, a) \in Nat
    OBVIOUS
  <2>1. Of(rest, a) \in SUBSET (1 .. n) /\ \A i \in Of(rest, a) : amount[i] \in Nat
    OBVIOUS
  <2> HIDE DEF Of
  <2>2. IsFiniteSet(Of(rest, a))
    BY <1>1, <2>1, FS_Subset
  <2>3. QED
    BY <2>1, <2>2, SumType
<1>4. \A a : Sum(s, a) = Sum(rest, a) + (IF a = account[x] THEN amount[x] ELSE 0)
  <2> SUFFICES ASSUME NEW a
               PROVE  Sum(s, a) = Sum(rest, a) + (IF a = account[x] THEN amount[x] ELSE 0)
    OBVIOUS
  <2>1. CASE a # account[x]
    <3>1. Sum(s, a) = Sum(rest, a)
      BY <1>2, <2>1
    <3> HIDE DEF Sum
    <3>2. QED
      BY <1>3, <2>1, <3>1
  <2>2. CASE a = account[x]
    <3> DEFINE mine == Of(s, a)
    <3>1. mine \in SUBSET (1 .. n) /\ x \in mine /\ mine \ {x} = Of(rest, a)
      BY <1>2, <2>2
    <3> HIDE DEF Of, mine
    <3>2. IsFiniteSet(mine)
      BY <1>1, <3>1, FS_Subset
    <3>7. \A i \in mine : amount[i] \in Int
      <4>1. \A i \in 1 .. n : amount[i] \in Int
        OBVIOUS
      <4>2. QED
        BY <3>1, <4>1
    <3>3. SumFunctionOnSet(amount, mine) = amount[x] + SumFunctionOnSet(amount, mine \ {x})
      BY <3>1, <3>2, <3>7, SumOfElement
    <3>4. Sum(s, a) = amount[x] + Sum(rest, a)
      BY <3>1, <3>3 DEF mine
    <3>5. amount[x] \in Nat
      OBVIOUS
    <3> HIDE DEF Sum
    <3>6. QED
      BY <1>3, <2>2, <3>4, <3>5
  <2>3. QED
    BY <2>1, <2>2
<1>5. /\ DOMAIN before = Named(rest) /\ DOMAIN after = Named(s)
      /\ \A a \in Named(rest) : before[a] = Entry(map, a) + Sum(rest, a)
      /\ after = [a \in Named(s) |-> Entry(map, a) + Sum(s, a)]
      /\ before = [a \in Named(rest) |-> Entry(map, a) + Sum(rest, a)]
  BY DEF Collected, SumFor
<1>6. \A a : Entry(map, a) \in Nat
  BY DEF Entry
\* An account without an entry has nothing of the rest.
<1>7. \A a : a \notin Named(rest) => Entry(map, a) = 0 /\ Sum(rest, a) = 0
  <2> SUFFICES ASSUME NEW a, a \notin Named(rest) PROVE Entry(map, a) = 0 /\ Sum(rest, a) = 0
    OBVIOUS
  <2>1. Entry(map, a) = 0
    BY DEF Entry
  <2>2. Of(rest, a) \in SUBSET (1 .. n) /\ \A i \in Of(rest, a) : amount[i] = 0
    <3> SUFFICES ASSUME NEW i \in Of(rest, a) PROVE amount[i] = 0
      BY <1>2
    <3>1. i \in rest /\ account[i] = a /\ amount[i] \in Nat
      OBVIOUS
    <3>2. ~(~skip \/ amount[i] > 0)
      BY <3>1
    <3>3. QED
      BY <3>1, <3>2
  <2> HIDE DEF Of
  <2>3. IsFiniteSet(Of(rest, a))
    BY <1>1, <2>2, FS_Subset
  <2>4. QED
    BY <2>1, <2>2, <2>3, SumOfZeroes
<1>8. amount[x] \in Nat
  OBVIOUS
<1>9. CASE ~skip \/ amount[x] > 0
  <2>1. Named(s) = Named(rest) \cup {account[x]}
    BY <1>9
  <2> HIDE DEF Sum, Named, before, after
  <2>2. \A a \in Named(s) :
          Entry(map, a) + Sum(s, a)
            = (IF a \in Named(rest) THEN before[a] ELSE 0)
                + (IF a = account[x] THEN amount[x] ELSE 0)
    <3> SUFFICES ASSUME NEW a \in Named(s)
                 PROVE  Entry(map, a) + Sum(s, a)
                          = (IF a \in Named(rest) THEN before[a] ELSE 0)
                              + (IF a = account[x] THEN amount[x] ELSE 0)
      OBVIOUS
    <3> DEFINE more == IF a = account[x] THEN amount[x] ELSE 0
    <3>1. more \in Nat
      BY <1>8
    <3>2. Entry(map, a) + Sum(rest, a) = IF a \in Named(rest) THEN before[a] ELSE 0
      <4>1. CASE a \in Named(rest)
        BY <1>5, <4>1
      <4>2. CASE a \notin Named(rest)
        BY <1>7, <4>2
      <4>3. QED
        BY <4>1, <4>2
    <3>3. Sum(s, a) = Sum(rest, a) + more
      BY <1>4
    <3>4. Entry(map, a) \in Nat /\ Sum(rest, a) \in Nat
      BY <1>3, <1>6
    <3> HIDE DEF more
    <3>5. Entry(map, a) + Sum(s, a) = (Entry(map, a) + Sum(rest, a)) + more
      BY <3>1, <3>3, <3>4
    <3>6. QED
      BY <3>2, <3>5 DEF more
  <2>3. after = Bump(before, account[x], amount[x])
    BY <1>5, <2>1, <2>2 DEF Bump
  <2>4. QED
    BY <1>9, <2>3 DEF after, before, StepOf
<1>10. CASE skip /\ ~(amount[x] > 0)
  <2>1. Named(s) = Named(rest)
    BY <1>10
  <2>2. amount[x] = 0
    BY <1>8, <1>10
  <2> HIDE DEF Sum, Named, before, after
  <2>3. \A a : Sum(s, a) = Sum(rest, a)
    BY <1>3, <1>4, <2>2
  <2>4. after = before
    BY <1>5, <2>1, <2>3
  <2>5. QED
    BY <1>10, <2>4 DEF after, before, StepOf
<1>11. QED
  BY <1>9, <1>10

LEMMA CollectedNothing ==
    ASSUME NEW account, NEW amount, NEW skip, NEW map, map = [a \in DOMAIN map |-> map[a]],
           \A a \in DOMAIN map : map[a] \in Nat
    PROVE  Collected(account, amount, skip, map, {}) = map
<1>1. \A a : {i \in {} : account[i] = a} = {}
  OBVIOUS
<1>2. SumFunctionOnSet(amount, {}) = 0
  BY SumOfNothing
<1>3. Collected(account, amount, skip, map, {})
        = [a \in DOMAIN map |-> Entry(map, a) + SumFunctionOnSet(amount, {})]
  BY <1>1 DEF Collected, SumFor
<1>4. \A a \in DOMAIN map : Entry(map, a) + SumFunctionOnSet(amount, {}) = map[a]
  BY <1>2 DEF Entry
<1>5. QED
  BY <1>3, <1>4

\* The function a loop defines exists and collects the steps.
LEMMA FoldCollects ==
    ASSUME NEW n \in Nat, NEW account, NEW amount, NEW skip \in BOOLEAN, NEW map,
           map = [a \in DOMAIN map |-> map[a]],
           \A i \in 1 .. n : amount[i] \in Nat,
           \A a \in DOMAIN map : map[a] \in Nat
    PROVE  /\ IsFold([s \in SUBSET (1 .. n) |-> Collected(account, amount, skip, map, s)],
                     account, amount, skip, map, n)
           /\ \A fold : IsFold(fold, account, amount, skip, map, n) =>
                 fold[1 .. n] = Collected(account, amount, skip, map, 1 .. n)
<1> DEFINE All(s) == Collected(account, amount, skip, map, s)
           Step(m, i) == StepOf(account, amount, skip, m, i)
<1>0. IsFiniteSet(1 .. n)
  BY IndicesFinite
<1>1. All({}) = map
  BY CollectedNothing
<1>2. \A s \in SUBSET (1 .. n) : s # {} =>
        /\ Max(s) \in s /\ s \ {Max(s)} \in SUBSET (1 .. n)
        /\ All(s) = Step(All(s \ {Max(s)}), Max(s))
  <2> SUFFICES ASSUME NEW s \in SUBSET (1 .. n), s # {}
               PROVE  /\ Max(s) \in s /\ s \ {Max(s)} \in SUBSET (1 .. n)
                      /\ All(s) = Step(All(s \ {Max(s)}), Max(s))
    OBVIOUS
  <2>1. Max(s) \in s
    BY GreatestIndex
  <2>2. QED
    BY <2>1, CollectedStep
<1> HIDE DEF All, Step
<1>3. IsFold([s \in SUBSET (1 .. n) |-> All(s)], account, amount, skip, map, n)
  <2> DEFINE F == [s \in SUBSET (1 .. n) |-> All(s)]
             R == [s \in SUBSET (1 .. n) |-> IF s = {} THEN map
                                             ELSE Step(F[s \ {Max(s)}], Max(s))]
  <2>1. ASSUME NEW s \in SUBSET (1 .. n)
        PROVE  All(s) = IF s = {} THEN map ELSE Step(F[s \ {Max(s)}], Max(s))
    <3>1. CASE s = {}
      BY <1>1, <3>1
    <3>2. CASE s # {}
      <4>1. s \ {Max(s)} \in SUBSET (1 .. n) /\ All(s) = Step(All(s \ {Max(s)}), Max(s))
        BY <1>2, <3>2
      <4>2. F[s \ {Max(s)}] = All(s \ {Max(s)})
        BY <4>1
      <4>3. QED
        BY <3>2, <4>1, <4>2
    <3>3. QED
      BY <3>1, <3>2
  <2>2. F = R
    BY <2>1
  <2>3. QED
    BY <2>2 DEF IsFold, Step
<1>4. ASSUME NEW fold, IsFold(fold, account, amount, skip, map, n)
      PROVE  fold[1 .. n] = All(1 .. n)
  <2>0. \A s \in SUBSET (1 .. n) :
          fold[s] = IF s = {} THEN map ELSE Step(fold[s \ {Max(s)}], Max(s))
    BY <1>4 DEF IsFold, Step
  <2> DEFINE N == {k \in Nat : \A s \in SUBSET (1 .. n) : Cardinality(s) = k => fold[s] = All(s)}
  <2>1. IsFiniteSet(1 .. n)
    BY <1>0
  <2>2. \A s \in SUBSET (1 .. n) : IsFiniteSet(s) /\ Cardinality(s) \in Nat
    BY <2>1, FS_Subset, FS_CardinalityType
  <2>3. 0 \in N
    <3>1. \A s \in SUBSET (1 .. n) : Cardinality(s) = 0 => s = {}
      BY <2>2, FS_EmptySet
    <3>2. fold[{}] = All({})
      BY <1>1, <2>0
    <3>3. QED
      BY <3>1, <3>2
  <2>4. ASSUME NEW k \in Nat, k \in N PROVE k + 1 \in N
    <3> SUFFICES ASSUME NEW s \in SUBSET (1 .. n), Cardinality(s) = k + 1
                 PROVE  fold[s] = All(s)
      OBVIOUS
    <3>1. s # {}
      BY FS_EmptySet
    <3>2. /\ Max(s) \in s /\ s \ {Max(s)} \in SUBSET (1 .. n)
          /\ All(s) = Step(All(s \ {Max(s)}), Max(s))
      BY <1>2, <3>1
    <3>3. Cardinality(s \ {Max(s)}) = k
      BY <2>2, <3>2, FS_RemoveElement
    <3>4. fold[s \ {Max(s)}] = All(s \ {Max(s)})
      BY <2>4, <3>2, <3>3
    <3>5. fold[s] = Step(fold[s \ {Max(s)}], Max(s))
      BY <2>0, <3>1
    <3>6. QED
      BY <3>2, <3>4, <3>5
  <2> HIDE DEF N
  <2>5. \A k \in Nat : k \in N
    BY <2>3, <2>4, NatSetInduction
  <2>6. 1 .. n \in SUBSET (1 .. n) /\ Cardinality(1 .. n) \in N
    BY <2>2, <2>5
  <2>7. QED
    BY <2>6 DEF N
<1>5. QED
  BY <1>3, <1>4 DEF All

-----------------------------------------------------------------------------
\* The loop over the ommers: step i adds the reward of ommer i.
OmmerAccounts(b) == [i \in DOMAIN b.ommers |-> b.ommers[i].beneficiary]
OmmerRewards(b) ==
    [i \in DOMAIN b.ommers |->
        OmmerReward(BaseBlockReward(b.spec, b.number), b.number, b.ommers[i].number)]
OfOmmers(b) ==
    Collected(OmmerAccounts(b), OmmerRewards(b), FALSE, NoIncrements, DOMAIN b.ommers)

LEMMA ListElements ==
    ASSUME NEW T, NEW list \in Seq(T)
    PROVE  /\ Len(list) \in Nat /\ DOMAIN list = 1 .. Len(list)
           /\ \A i \in 1 .. Len(list) : list[i] \in T
OBVIOUS

\* A reward is a number of wei, even where the unsigned subtraction wraps.
LEMMA RewardType ==
    ASSUME NEW spec, NEW number \in Nat, number < U64, NEW ommer \in 0 .. U64 - 1
    PROVE  /\ BaseBlockReward(spec, number) \in Nat
           /\ OmmerReward(BaseBlockReward(spec, number), number, ommer) \in Nat
<1> DEFINE base == BaseBlockReward(spec, number)
           age == WrapSub(WrapAdd(8, ommer), number)
<1>1. base \in Nat
  <2> DEFINE units == IF ActiveAtBlock(spec["Constantinople"], number) THEN 2
                      ELSE IF ActiveAtBlock(spec["Byzantium"], number) THEN 3 ELSE 5
  <2>1. units \in Nat /\ EthToWei \in Nat
    BY RewardAssumption
  <2> HIDE DEF units
  <2>2. EthToWei * units \in Nat
    BY <2>1
  <2>3. QED
    BY <2>2 DEF BaseBlockReward, units
<1>2. age \in Nat
  BY RewardAssumption DEF WrapSub, WrapAdd
<1> HIDE DEF base, age
<1>3. age * base \in Nat
  BY <1>1, <1>2
<1>4. (age * base) \div 8 \in Nat
  BY <1>3
<1>5. QED
  BY <1>1, <1>4 DEF OmmerReward, base, age

\* A block whose ommers are a list of accounts and numbers.
LEMMA OmmersLoop ==
    ASSUME NEW b, NEW S, b.number \in Nat, b.number < U64,
           b.ommers \in Seq([beneficiary : S, number : 0 .. U64 - 1]),
           HasBlockReward(b.spec, b.number)
    PROVE  /\ \A i \in DOMAIN b.ommers : OmmerRewards(b)[i] \in Nat
           /\ RewardIncrements(b)
                = Bump(OfOmmers(b), b.beneficiary,
                       BlockReward(BaseBlockReward(b.spec, b.number), Len(b.ommers)))
<1> DEFINE n == Len(b.ommers)
           base == BaseBlockReward(b.spec, b.number)
           account == OmmerAccounts(b)
           amount == OmmerRewards(b)
           P(it) == it = [s \in SUBSET DOMAIN b.ommers |->
                            IF s = {} THEN NoIncrements
                            ELSE Bump(it[s \ {Max(s)}], b.ommers[Max(s)].beneficiary,
                                      OmmerReward(base, b.number, b.ommers[Max(s)].number))]
           it == CHOOSE it : P(it)
           all == [s \in SUBSET (1 .. n) |-> Collected(account, amount, FALSE, NoIncrements, s)]
<1>1. RewardIncrements(b) = Bump(it[DOMAIN b.ommers], b.beneficiary, BlockReward(base, n))
  BY DEF RewardIncrements, FoldLeft, MapThenFoldSet
<1>2. n \in Nat /\ DOMAIN b.ommers = 1 .. n
      /\ \A i \in 1 .. n : b.ommers[i] \in [beneficiary : S, number : 0 .. U64 - 1]
  BY ListElements
<1>3. \A i \in 1 .. n : amount[i] \in Nat
  BY <1>2, RewardType DEF OmmerRewards
<1>4. ASSUME NEW f PROVE P(f) <=> IsFold(f, account, amount, FALSE, NoIncrements, n)
  <2>1. ASSUME NEW s \in SUBSET (1 .. n), s # {}
        PROVE  StepOf(account, amount, FALSE, f[s \ {Max(s)}], Max(s))
                 = Bump(f[s \ {Max(s)}], b.ommers[Max(s)].beneficiary,
                        OmmerReward(base, b.number, b.ommers[Max(s)].number))
    <3>1. Max(s) \in DOMAIN b.ommers
      BY <1>2, <2>1, GreatestIndex
    <3>2. QED
      BY <3>1 DEF StepOf, OmmerAccounts, OmmerRewards
  <2> DEFINE L == [s \in SUBSET DOMAIN b.ommers |->
                    IF s = {} THEN NoIncrements
                    ELSE Bump(f[s \ {Max(s)}], b.ommers[Max(s)].beneficiary,
                              OmmerReward(base, b.number, b.ommers[Max(s)].number))]
             R == [s \in SUBSET (1 .. n) |->
                    IF s = {} THEN NoIncrements
                    ELSE StepOf(account, amount, FALSE, f[s \ {Max(s)}], Max(s))]
  <2>2. L = R
    BY <1>2, <2>1
  <2>3. QED
    BY <2>2 DEF IsFold
<1>5. NoIncrements = [a \in DOMAIN NoIncrements |-> NoIncrements[a]] /\ DOMAIN NoIncrements = {}
  BY DEF NoIncrements
<1> HIDE DEF n, base, account, amount
<1>6. /\ IsFold(all, account, amount, FALSE, NoIncrements, n)
      /\ \A f : IsFold(f, account, amount, FALSE, NoIncrements, n) =>
             f[1 .. n] = Collected(account, amount, FALSE, NoIncrements, 1 .. n)
  BY <1>2, <1>3, <1>5, FoldCollects
<1> HIDE DEF P, all
<1>7. P(all)
  BY <1>4, <1>6
<1>8. P(it)
  BY <1>7
<1> HIDE DEF it
<1>9. it[1 .. n] = Collected(account, amount, FALSE, NoIncrements, 1 .. n)
  BY <1>4, <1>6, <1>8
<1>10. QED
  BY <1>1, <1>2, <1>3, <1>9 DEF n, base, account, amount, OfOmmers

\* The loop over the withdrawals: step i adds the wei of withdrawal i, unless
\* it is zero.
Recipients(b) == [i \in DOMAIN b.withdrawals |-> b.withdrawals[i].address]
Amounts(b) == [i \in DOMAIN b.withdrawals |-> AmountWei(b.withdrawals[i])]

\* An amount is some wei exactly if it is some gwei.
LEMMA AmountWeiType ==
    ASSUME NEW w, w.amount \in Nat
    PROVE  AmountWei(w) \in Nat /\ (AmountWei(w) > 0 <=> w.amount > 0)
<1> DEFINE gwei == w.amount
<1>1. gwei \in Nat /\ GweiToWei \in Nat \ {0} /\ AmountWei(w) = gwei * GweiToWei
  BY RewardAssumption DEF AmountWei
<1> HIDE DEF gwei
<1>2. gwei * GweiToWei \in Nat /\ (gwei * GweiToWei > 0 <=> gwei > 0)
  BY <1>1
<1>3. QED
  BY <1>1, <1>2 DEF gwei

LEMMA WithdrawalsLoop ==
    ASSUME NEW b, NEW S, b.withdrawals \in Seq([address : S, amount : Nat]),
           ActiveAtTimestamp(b.spec["Shanghai"], b.timestamp),
           NEW map, map = [a \in DOMAIN map |-> map[a]], \A a \in DOMAIN map : map[a] \in Nat
    PROVE  /\ \A i \in DOMAIN b.withdrawals : Amounts(b)[i] \in Nat
           /\ WithWithdrawals(b, map)
                = Collected(Recipients(b), Amounts(b), TRUE, map, DOMAIN b.withdrawals)
<1> DEFINE n == Len(b.withdrawals)
           account == Recipients(b)
           amount == Amounts(b)
           P(it) == it = [s \in SUBSET DOMAIN b.withdrawals |->
                            IF s = {} THEN map
                            ELSE IF b.withdrawals[Max(s)].amount > 0
                                 THEN Bump(it[s \ {Max(s)}], b.withdrawals[Max(s)].address,
                                           AmountWei(b.withdrawals[Max(s)]))
                                 ELSE it[s \ {Max(s)}]]
           it == CHOOSE it : P(it)
           all == [s \in SUBSET (1 .. n) |-> Collected(account, amount, TRUE, map, s)]
<1>1. WithWithdrawals(b, map) = it[DOMAIN b.withdrawals]
  BY DEF WithWithdrawals, FoldLeft, MapThenFoldSet
<1>2. n \in Nat /\ DOMAIN b.withdrawals = 1 .. n
      /\ \A i \in 1 .. n : b.withdrawals[i] \in [address : S, amount : Nat]
  BY ListElements
<1>3. \A i \in 1 .. n : amount[i] \in Nat /\ (amount[i] > 0 <=> b.withdrawals[i].amount > 0)
  <2> SUFFICES ASSUME NEW i \in 1 .. n
               PROVE  amount[i] \in Nat /\ (amount[i] > 0 <=> b.withdrawals[i].amount > 0)
    OBVIOUS
  <2>1. amount[i] = AmountWei(b.withdrawals[i]) /\ b.withdrawals[i].amount \in Nat
    BY <1>2 DEF Amounts
  <2>2. QED
    BY <2>1, AmountWeiType
<1>4. ASSUME NEW f PROVE P(f) <=> IsFold(f, account, amount, TRUE, map, n)
  <2>1. ASSUME NEW s \in SUBSET (1 .. n), s # {}
        PROVE  StepOf(account, amount, TRUE, f[s \ {Max(s)}], Max(s))
                 = IF b.withdrawals[Max(s)].amount > 0
                   THEN Bump(f[s \ {Max(s)}], b.withdrawals[Max(s)].address,
                             AmountWei(b.withdrawals[Max(s)]))
                   ELSE f[s \ {Max(s)}]
    <3>1. Max(s) \in DOMAIN b.withdrawals
      BY <1>2, <2>1, GreatestIndex
    <3>2. /\ amount[Max(s)] = AmountWei(b.withdrawals[Max(s)])
          /\ account[Max(s)] = b.withdrawals[Max(s)].address
          /\ amount[Max(s)] > 0 <=> b.withdrawals[Max(s)].amount > 0
      BY <1>2, <1>3, <3>1 DEF Recipients, Amounts
    <3> HIDE DEF account, amount
    <3>3. QED
      BY <3>2 DEF StepOf
  <2> DEFINE L == [s \in SUBSET DOMAIN b.withdrawals |->
                    IF s = {} THEN map
                    ELSE IF b.withdrawals[Max(s)].amount > 0
                         THEN Bump(f[s \ {Max(s)}], b.withdrawals[Max(s)].address,
                                   AmountWei(b.withdrawals[Max(s)]))
                         ELSE f[s \ {Max(s)}]]
             R == [s \in SUBSET (1 .. n) |->
                    IF s = {} THEN map
                    ELSE StepOf(account, amount, TRUE, f[s \ {Max(s)}], Max(s))]
  <2>2. L = R
    BY <1>2, <2>1
  <2>3. QED
    BY <2>2 DEF IsFold
<1> HIDE DEF n, account, amount
<1>6. /\ IsFold(all, account, amount, TRUE, map, n)
      /\ \A f : IsFold(f, account, amount, TRUE, map, n) =>
             f[1 .. n] = Collected(account, amount, TRUE, map, 1 .. n)
  BY <1>2, <1>3, FoldCollects
<1> HIDE DEF P, all
<1>7. P(all)
  BY <1>4, <1>6
<1>8. P(it)
  BY <1>7
<1> HIDE DEF it
<1>9. it[1 .. n] = Collected(account, amount, TRUE, map, 1 .. n)
  BY <1>4, <1>6, <1>8
<1>10. QED
  BY <1>1, <1>2, <1>3, <1>9 DEF n, account, amount

-----------------------------------------------------------------------------
\* Amounts of accounts of S.
AmountsOf(map, S) ==
    /\ map = [a \in DOMAIN map |-> map[a]]
    /\ DOMAIN map \subseteq S
    /\ \A a \in DOMAIN map : map[a] \in Nat

LEMMA BumpAmounts ==
    ASSUME NEW S, NEW map, AmountsOf(map, S), NEW x \in S, NEW amount \in Nat
    PROVE  /\ AmountsOf(Bump(map, x, amount), S)
           /\ DOMAIN Bump(map, x, amount) = DOMAIN map \cup {x}
BY DEF AmountsOf, Bump

LEMMA EntryBump ==
    ASSUME NEW map, NEW x, NEW amount \in Nat, \A a \in DOMAIN map : map[a] \in Nat, NEW a
    PROVE  Entry(Bump(map, x, amount), a) = Entry(map, a) + (IF a = x THEN amount ELSE 0)
BY DEF Bump, Entry

LEMMA CollectedAmounts ==
    ASSUME NEW S, NEW map, AmountsOf(map, S), NEW n \in Nat, NEW account, NEW amount,
           NEW skip \in BOOLEAN,
           \A i \in 1 .. n : account[i] \in S /\ amount[i] \in Nat
    PROVE  AmountsOf(Collected(account, amount, skip, map, 1 .. n), S)
<1> DEFINE steps == 1 .. n
           all == Collected(account, amount, skip, map, steps)
<1>0. IsFiniteSet(steps) /\ \A i \in steps : account[i] \in S /\ amount[i] \in Nat
  BY IndicesFinite
<1> HIDE DEF steps
<1>1. all = [a \in DOMAIN all |-> all[a]] /\ DOMAIN all \subseteq S
  BY <1>0 DEF Collected, AmountsOf
<1>2. ASSUME NEW a \in DOMAIN all PROVE all[a] \in Nat
  <2> DEFINE sum == SumFor(account, amount, steps, a)
  <2>1. \A x \in DOMAIN map : map[x] \in Nat
    BY DEF AmountsOf
  <2>2. Entry(map, a) \in Nat /\ sum \in Nat
    BY <1>0, <2>1, SumForType DEF Entry
  <2>3. Entry(all, a) = Entry(map, a) + sum
    BY <1>0, <2>1, EntryCollected
  <2>4. Entry(all, a) = all[a]
    BY DEF Entry
  <2> HIDE DEF all, sum
  <2>5. QED
    BY <2>2, <2>3, <2>4
<1>3. QED
  BY <1>1, <1>2 DEF AmountsOf, steps

\* What the loop over the ommers and the reward of the block come to.
LEMMA RewardAmounts ==
    ASSUME NEW b, NEW S, PaysAccounts(b, S)
    PROVE  /\ AmountsOf(RewardIncrements(b), S)
           /\ HasBlockReward(b.spec, b.number) =>
                /\ AmountsOf(OfOmmers(b), S)
                /\ BlockReward(BaseBlockReward(b.spec, b.number), Len(b.ommers)) \in Nat
                /\ RewardIncrements(b)
                     = Bump(OfOmmers(b), b.beneficiary,
                            BlockReward(BaseBlockReward(b.spec, b.number), Len(b.ommers)))
<1> DEFINE base == BaseBlockReward(b.spec, b.number)
           n == Len(b.ommers)
<1>1. AmountsOf(NoIncrements, S)
  BY DEF AmountsOf, NoIncrements
<1>2. CASE ~HasBlockReward(b.spec, b.number)
  BY <1>1, <1>2 DEF RewardIncrements
<1>3. CASE HasBlockReward(b.spec, b.number)
  <2>1. /\ \A i \in DOMAIN b.ommers : OmmerRewards(b)[i] \in Nat
        /\ RewardIncrements(b) = Bump(OfOmmers(b), b.beneficiary, BlockReward(base, n))
    BY <1>3, OmmersLoop DEF PaysAccounts
  <2>2. /\ n \in Nat /\ DOMAIN b.ommers = 1 .. n
        /\ \A i \in 1 .. n : b.ommers[i] \in [beneficiary : S, number : 0 .. U64 - 1]
    BY ListElements DEF PaysAccounts
  <2>3. \A i \in 1 .. n : OmmerAccounts(b)[i] \in S
    BY <2>2 DEF OmmerAccounts
  <2>4. base \in Nat
    <3>1. 0 \in 0 .. U64 - 1
      BY RewardAssumption
    <3>2. QED
      BY <3>1, RewardType DEF PaysAccounts
  <2> HIDE DEF base, n
  <2>5. BlockReward(base, n) \in Nat
    <3>1. base \div 32 \in Nat
      BY <2>4
    <3>2. (base \div 32) * n \in Nat
      BY <2>2, <3>1
    <3>3. QED
      BY <2>4, <3>2 DEF BlockReward
  <2>6. AmountsOf(OfOmmers(b), S)
    BY <1>1, <2>1, <2>2, <2>3, CollectedAmounts DEF OfOmmers
  <2>7. AmountsOf(RewardIncrements(b), S)
    <3>1. b.beneficiary \in S
      BY DEF PaysAccounts
    <3>2. AmountsOf(Bump(OfOmmers(b), b.beneficiary, BlockReward(base, n)), S)
      BY <2>5, <2>6, <3>1, BumpAmounts
    <3>3. QED
      BY <2>1, <3>2 DEF base, n
  <2>8. QED
    BY <2>1, <2>5, <2>6, <2>7 DEF base, n
<1>4. QED
  BY <1>2, <1>3

\* The increments of a block are amounts of the accounts it pays.
LEMMA IncrementsAreAmounts ==
    ASSUME NEW b, NEW S, PaysAccounts(b, S)
    PROVE  AmountsOf(PostBlockBalanceIncrements(b), S)
<1> DEFINE map == RewardIncrements(b)
           n == Len(b.withdrawals)
<1>1. AmountsOf(map, S)
  BY RewardAmounts
<1> HIDE DEF map
<1>2. CASE ~ActiveAtTimestamp(b.spec["Shanghai"], b.timestamp)
  BY <1>1, <1>2 DEF PostBlockBalanceIncrements, WithWithdrawals, map
<1>3. CASE ActiveAtTimestamp(b.spec["Shanghai"], b.timestamp)
  <2>1. /\ \A i \in DOMAIN b.withdrawals : Amounts(b)[i] \in Nat
        /\ WithWithdrawals(b, map)
             = Collected(Recipients(b), Amounts(b), TRUE, map, DOMAIN b.withdrawals)
    BY <1>1, <1>3, WithdrawalsLoop DEF PaysAccounts, AmountsOf
  <2>2. /\ n \in Nat /\ DOMAIN b.withdrawals = 1 .. n
        /\ \A i \in 1 .. n : b.withdrawals[i] \in [address : S, amount : Nat]
    BY ListElements DEF PaysAccounts
  <2>3. \A i \in 1 .. n : Recipients(b)[i] \in S
    BY <2>2 DEF Recipients
  <2> HIDE DEF n
  <2>4. AmountsOf(WithWithdrawals(b, map), S)
    <3>1. \A i \in 1 .. n : Recipients(b)[i] \in S /\ Amounts(b)[i] \in Nat
      BY <2>1, <2>2, <2>3
    <3>2. AmountsOf(Collected(Recipients(b), Amounts(b), TRUE, map, 1 .. n), S)
      BY <1>1, <2>2, <3>1, CollectedAmounts
    <3>3. QED
      BY <2>1, <2>2, <3>2
  <2>5. QED
    BY <2>4 DEF PostBlockBalanceIncrements, map
<1>4. QED
  BY <1>2, <1>3

\* Every block of the executor pays accounts.
LEMMA IncrementsOfAccounts ==
    \A b \in Blocks :
        /\ DOMAIN PostBlockBalanceIncrements(b) \subseteq Addresses
        /\ \A a \in DOMAIN PostBlockBalanceIncrements(b) :
              PostBlockBalanceIncrements(b)[a] \in Nat
<1>1. \A b \in Blocks : PaysAccounts(b, Addresses)
  BY BlockAssumption
<1>2. \A b \in Blocks : AmountsOf(PostBlockBalanceIncrements(b), Addresses)
  BY <1>1, IncrementsAreAmounts
<1>3. QED
  BY <1>2 DEF AmountsOf

-----------------------------------------------------------------------------
\* The reward of a block, and that of an ommer by its age.
LEMMA RewardsDue ==
    ASSUME RewardUnit, NEW b, NEW S, PaysAccounts(b, S), Scheduled(b)
    PROVE  /\ HasBlockReward(b.spec, b.number) <=> ~Merged(b)
           /\ StaticReward(b) \in Nat \ {0}
           /\ BaseBlockReward(b.spec, b.number) = StaticReward(b)
           /\ \A n \in Nat : BlockReward(StaticReward(b), n)
                                = StaticReward(b) + n * (StaticReward(b) \div 32)
           /\ \A i \in DOMAIN b.ommers :
                OmmerReward(StaticReward(b), b.number, b.ommers[i].number)
                  = (8 - (b.number - b.ommers[i].number)) * (StaticReward(b) \div 8)
<1> DEFINE base == StaticReward(b)
<1>0. b.number \in Nat /\ b.spec["Paris"].at \in Nat
      /\ b.spec["Byzantium"].at \in Nat /\ b.spec["Constantinople"].at \in Nat
      /\ b.spec["Paris"].kind \in {"Block", "TTD"}
      /\ b.spec["Byzantium"].kind \in {"Block", "TTD"}
      /\ b.spec["Constantinople"].kind \in {"Block", "TTD"}
  BY DEF PaysAccounts, Scheduled
<1>1. HasBlockReward(b.spec, b.number) <=> ~Merged(b)
  BY <1>0 DEF HasBlockReward, ActiveAtBlock, Merged
<1>2. BaseBlockReward(b.spec, b.number) = base
  BY <1>0 DEF BaseBlockReward, ActiveAtBlock, StaticReward
<1>3. PICK k \in Nat \ {0} : EthToWei = 32 * k
  <2>1. EthToWei = 32 * (EthToWei \div 32) /\ EthToWei \div 32 \in Nat \ {0}
    BY RewardAssumption DEF RewardUnit
  <2>2. QED
    BY <2>1
<1>4. PICK u \in {2, 3, 5} : base = EthToWei * u
  BY DEF StaticReward
<1>5. PICK m \in Nat \ {0} : base = 32 * m
  BY <1>3, <1>4
<1> HIDE DEF base
<1>6. base \in Nat \ {0} /\ base \div 32 = m /\ base \div 8 = 4 * m
  BY <1>5
<1>7. ASSUME NEW n \in Nat PROVE BlockReward(base, n) = base + n * (base \div 32)
  <2>1. m * n = n * m
    OBVIOUS
  <2>2. QED
    BY <1>6, <2>1 DEF BlockReward
<1>8. ASSUME NEW i \in DOMAIN b.ommers
      PROVE  OmmerReward(base, b.number, b.ommers[i].number)
               = (8 - (b.number - b.ommers[i].number)) * (base \div 8)
  <2> DEFINE number == b.ommers[i].number
             share == 8 - (b.number - number)
  <2>1. number \in 0 .. U64 - 1
    <3>1. /\ DOMAIN b.ommers = 1 .. Len(b.ommers)
          /\ \A j \in 1 .. Len(b.ommers) :
                b.ommers[j] \in [beneficiary : S, number : 0 .. U64 - 1]
      BY ListElements DEF PaysAccounts
    <3>2. b.ommers[i] \in [beneficiary : S, number : 0 .. U64 - 1]
      BY <3>1
    <3>3. QED
      BY <3>2
  <2>2. b.number <= number + 8 /\ number + 8 < U64
    BY DEF Scheduled
  <2> HIDE DEF number
  <2>3. WrapSub(WrapAdd(8, number), b.number) = share /\ share \in Nat
    BY <1>0, <2>1, <2>2, RewardAssumption DEF WrapSub, WrapAdd
  <2> HIDE DEF share
  <2>4. share * base = 8 * (share * (4 * m))
    BY <1>5, <2>3
  <2>5. share * (4 * m) \in Nat
    BY <2>3
  <2>6. (share * base) \div 8 = share * (4 * m)
    BY <2>4, <2>5
  <2>7. QED
    BY <1>6, <2>3, <2>6 DEF OmmerReward, number, share
<1>9. QED
  BY <1>1, <1>2, <1>6, <1>7, <1>8 DEF base

\* The sum of the steps that are an account's, as the sum over a function.
LEMMA SumForSteps ==
    ASSUME NEW n \in Nat, NEW account, NEW amount, NEW a, NEW f,
           \A i \in 1 .. n : amount[i] \in Nat,
           DOMAIN f = {i \in 1 .. n : account[i] = a},
           \A i \in DOMAIN f : f[i] = amount[i]
    PROVE  SumFunction(f) = SumFor(account, amount, 1 .. n, a)
<1> DEFINE mine == {i \in 1 .. n : account[i] = a}
<1>1. mine \in SUBSET (1 .. n) /\ DOMAIN f = mine
  OBVIOUS
<1> HIDE DEF mine
<1>2. IsFiniteSet(1 .. n)
  BY IndicesFinite
<1>3. IsFiniteSet(mine) /\ \A i \in mine : amount[i] \in Int /\ f[i] = amount[i]
  BY <1>1, <1>2, FS_Subset
<1>4. SumFunctionOnSet(f, mine) = SumFunctionOnSet(amount, mine)
  BY <1>3, SumOfEquals
<1>5. QED
  BY <1>1, <1>4 DEF SumFunction, SumFor, mine

\* The increments of every block that pays accounts are what is due to them,
\* however ommers, beneficiary and recipients coincide.
THEOREM IncrementsAreDues ==
    ASSUME RewardUnit, NEW b, NEW S, PaysAccounts(b, S), Scheduled(b), NEW accounts
    PROVE  MatchesDues(b, accounts)
<1> DEFINE base == StaticReward(b)
           reward == RewardIncrements(b)
           paid == PostBlockBalanceIncrements(b)
<1>1. PICK n \in Nat, w \in Nat : /\ n = Len(b.ommers) /\ DOMAIN b.ommers = 1 .. n
                                 /\ DOMAIN b.withdrawals = 1 .. w
  BY ListElements DEF PaysAccounts
<1>2. AmountsOf(reward, S) /\ AmountsOf(paid, S) /\ AmountsOf(NoIncrements, S)
  BY RewardAmounts, IncrementsAreAmounts DEF AmountsOf, NoIncrements
<1>3. base \in Nat \ {0}
  BY RewardsDue
\* The reward of the block and of its ommers.
<1>4. ASSUME NEW a
      PROVE  /\ Entry(reward, a) = OmmersDue(b, a) + BlockDue(b, a)
             /\ OmmersDue(b, a) \in Nat /\ BlockDue(b, a) \in Nat
             /\ a \in DOMAIN reward => Entry(reward, a) > 0
                                       \/ \E i \in 1 .. n : b.ommers[i].beneficiary = a
  <2>1. CASE Merged(b)
    <3>1. reward = NoIncrements
      BY <2>1, RewardsDue DEF RewardIncrements
    <3>2. QED
      BY <2>1, <3>1 DEF OmmersDue, BlockDue, Entry, NoIncrements
  <2>2. CASE ~Merged(b)
    <3> DEFINE block == BlockReward(base, n)
               sum == SumFor(OmmerAccounts(b), OmmerRewards(b), 1 .. n, a)
               f == [i \in {j \in DOMAIN b.ommers : b.ommers[j].beneficiary = a} |->
                       (8 - (b.number - b.ommers[i].number)) * (base \div 8)]
    <3>1. /\ HasBlockReward(b.spec, b.number)
          /\ BaseBlockReward(b.spec, b.number) = base
      BY <2>2, RewardsDue
    <3>2. /\ AmountsOf(OfOmmers(b), S)
          /\ block \in Nat
          /\ reward = Bump(OfOmmers(b), b.beneficiary, block)
      BY <1>1, <3>1, RewardAmounts
    <3>3. \A i \in 1 .. n : OmmerRewards(b)[i] \in Nat
      BY <1>1, <3>1, OmmersLoop DEF PaysAccounts
    <3>4. sum \in Nat /\ Entry(OfOmmers(b), a) = sum
      <4> DEFINE s == 1 .. n
      <4>1. /\ IsFiniteSet(s) /\ \A i \in s : OmmerRewards(b)[i] \in Nat
            /\ \A x \in DOMAIN NoIncrements : NoIncrements[x] \in Nat
        BY <3>3, IndicesFinite DEF NoIncrements
      <4> HIDE DEF s
      <4>2. SumFor(OmmerAccounts(b), OmmerRewards(b), s, a) \in Nat
        BY <4>1, SumForType
      <4>3. Entry(NoIncrements, a) = 0
        BY DEF Entry, NoIncrements
      <4>4. PICK skip \in BOOLEAN : skip = FALSE
        OBVIOUS
      <4>5. Entry(Collected(OmmerAccounts(b), OmmerRewards(b), skip, NoIncrements, s), a)
              = Entry(NoIncrements, a) + SumFor(OmmerAccounts(b), OmmerRewards(b), s, a)
        BY <4>1, EntryCollected
      <4>6. sum \in Nat /\ Entry(OfOmmers(b), a) = 0 + sum
        BY <1>1, <4>2, <4>3, <4>4, <4>5 DEF OfOmmers, s
      <4> HIDE DEF sum
      <4>7. QED
        BY <4>6
    <3>5. OmmersDue(b, a) = sum
      <4>1. OmmersDue(b, a) = SumFunction(f)
        BY <2>2 DEF OmmersDue
      <4>2. /\ DOMAIN f = {i \in 1 .. n : OmmerAccounts(b)[i] = a}
            /\ \A i \in DOMAIN f : f[i] = OmmerRewards(b)[i]
        BY <1>1, <3>1, RewardsDue DEF OmmerAccounts, OmmerRewards
      <4> HIDE DEF f
      <4>3. QED
        BY <1>1, <3>3, <4>1, <4>2, SumForSteps
    <3>6. BlockDue(b, a) = IF a = b.beneficiary THEN block ELSE 0
      BY <1>1, <2>2, RewardsDue DEF BlockDue
    <3>7. block >= base
      <4>1. block = base + n * (base \div 32)
        BY <1>1, RewardsDue
      <4> HIDE DEF base, block
      <4>2. base \div 32 \in Nat
        BY <1>3
      <4>3. n * (base \div 32) \in Nat
        BY <1>1, <4>2
      <4>4. QED
        BY <1>3, <4>1, <4>3
    <3>8. b.beneficiary \in S
      BY DEF PaysAccounts
    <3> HIDE DEF block, sum, reward, base
    <3>9. /\ DOMAIN reward = DOMAIN OfOmmers(b) \cup {b.beneficiary}
          /\ Entry(reward, a) = Entry(OfOmmers(b), a) + (IF a = b.beneficiary THEN block ELSE 0)
      <4> DEFINE map == OfOmmers(b)
                 x == b.beneficiary
      <4>1. PICK v \in Nat : v = block
        BY <3>2
      <4>2. /\ AmountsOf(map, S) /\ x \in S /\ reward = Bump(map, x, v)
            /\ \A y \in DOMAIN map : map[y] \in Nat
        BY <3>2, <3>8, <4>1 DEF AmountsOf
      <4> HIDE DEF map, x
      <4>3. DOMAIN Bump(map, x, v) = DOMAIN map \cup {x}
        BY DEF Bump
      <4>4. Entry(Bump(map, x, v), a) = Entry(map, a) + (IF a = x THEN v ELSE 0)
        BY <4>2, EntryBump
      <4>5. QED
        BY <4>1, <4>2, <4>3, <4>4 DEF map, x
    <3>10. a \in DOMAIN OfOmmers(b) => \E i \in 1 .. n : b.ommers[i].beneficiary = a
      BY <1>1 DEF OfOmmers, Collected, OmmerAccounts, NoIncrements
    <3>11. QED
      BY <1>3, <3>2, <3>4, <3>5, <3>6, <3>7, <3>9, <3>10
  <2>3. QED
    BY <2>1, <2>2
\* The withdrawals on top of it.
<1>5. ASSUME NEW a
      PROVE  /\ Entry(paid, a) = Entry(reward, a) + WithdrawalsDue(b, a)
             /\ WithdrawalsDue(b, a) \in Nat
             /\ a \in DOMAIN paid =>
                  a \in DOMAIN reward \/ WithdrawalsDue(b, a) > 0
  <2>0. /\ Entry(reward, a) \in Nat
        /\ ActiveAtTimestamp(b.spec["Shanghai"], b.timestamp)
             <=> ~(b.timestamp < b.spec["Shanghai"].at)
    BY <1>2 DEF AmountsOf, Entry, ActiveAtTimestamp, Scheduled
  <2>1. CASE b.timestamp < b.spec["Shanghai"].at
    <3>1. paid = reward /\ WithdrawalsDue(b, a) = 0
      BY <2>0, <2>1 DEF PostBlockBalanceIncrements, WithWithdrawals, WithdrawalsDue
    <3> HIDE DEF paid, reward
    <3>2. QED
      BY <2>0, <3>1
  <2>2. CASE ~(b.timestamp < b.spec["Shanghai"].at)
    <3> DEFINE sum == SumFor(Recipients(b), Amounts(b), 1 .. w, a)
               mine == {j \in DOMAIN b.withdrawals : b.withdrawals[j].address = a}
               gwei == [i \in mine |-> b.withdrawals[i].amount]
               wei == [i \in mine |-> AmountWei(b.withdrawals[i])]
    <3>1. reward = [x \in DOMAIN reward |-> reward[x]] /\ \A x \in DOMAIN reward : reward[x] \in Nat
      BY <1>2 DEF AmountsOf
    <3> HIDE DEF reward
    <3>2. /\ \A i \in 1 .. w : Amounts(b)[i] \in Nat
          /\ paid = Collected(Recipients(b), Amounts(b), TRUE, reward, 1 .. w)
      BY <1>1, <2>0, <2>2, <3>1, WithdrawalsLoop
      DEF PaysAccounts, PostBlockBalanceIncrements, reward
    <3>3. /\ sum \in Nat /\ Entry(paid, a) = Entry(reward, a) + sum
          /\ \A i \in 1 .. w : Recipients(b)[i] = a => sum >= Amounts(b)[i]
      <4> DEFINE s == 1 .. w
      <4>1. IsFiniteSet(s) /\ \A i \in s : Amounts(b)[i] \in Nat
        BY <3>2, IndicesFinite
      <4> HIDE DEF s, sum, paid
      <4>2. /\ SumFor(Recipients(b), Amounts(b), s, a) \in Nat
            /\ \A i \in s : Recipients(b)[i] = a =>
                 SumFor(Recipients(b), Amounts(b), s, a) >= Amounts(b)[i]
        BY <4>1, SumForType
      <4>3. PICK skip \in BOOLEAN : skip = TRUE
        OBVIOUS
      <4>4. Entry(Collected(Recipients(b), Amounts(b), skip, reward, s), a)
              = Entry(reward, a) + SumFor(Recipients(b), Amounts(b), s, a)
        BY <3>1, <4>1, EntryCollected
      <4>5. QED
        BY <3>2, <4>2, <4>3, <4>4 DEF s, sum
    <3>4. WithdrawalsDue(b, a) = sum
      <4>1. WithdrawalsDue(b, a) = GweiToWei * SumFunctionOnSet(gwei, mine)
        BY <2>2 DEF WithdrawalsDue, SumFunction
      <4>2. /\ DOMAIN wei = {i \in 1 .. w : Recipients(b)[i] = a}
            /\ \A i \in DOMAIN wei : wei[i] = Amounts(b)[i]
            /\ DOMAIN wei = mine
        BY <1>1 DEF Recipients, Amounts
      <4>3. IsFiniteSet(mine) /\ \A i \in mine : b.withdrawals[i].amount \in Nat
        <5>1. /\ DOMAIN b.withdrawals = 1 .. Len(b.withdrawals)
              /\ Len(b.withdrawals) \in Nat
              /\ \A i \in 1 .. Len(b.withdrawals) :
                    b.withdrawals[i] \in [address : S, amount : Nat]
          BY ListElements DEF PaysAccounts
        <5>2. IsFiniteSet(DOMAIN b.withdrawals)
          BY <5>1, IndicesFinite
        <5>3. IsFiniteSet(mine)
          BY <5>2, FS_Subset
        <5>4. \A i \in mine : b.withdrawals[i].amount \in Nat
          BY <5>1
        <5>5. QED
          BY <5>3, <5>4
      <4>4. GweiToWei \in Int /\ \A i \in mine : gwei[i] \in Int /\ wei[i] = GweiToWei * gwei[i]
        <5>1. GweiToWei \in Nat
          BY RewardAssumption
        <5>2. ASSUME NEW i \in mine PROVE gwei[i] \in Int /\ wei[i] = GweiToWei * gwei[i]
          <6> DEFINE amount == b.withdrawals[i].amount
          <6>1. amount \in Nat /\ gwei[i] = amount /\ wei[i] = amount * GweiToWei
            BY <4>3 DEF AmountWei
          <6> HIDE DEF amount, gwei, wei
          <6>2. QED
            BY <5>1, <6>1
        <5>3. GweiToWei \in Int
          BY <5>1
        <5> HIDE DEF mine, gwei, wei
        <5>4. QED
          BY <5>2, <5>3
      <4> HIDE DEF mine, gwei, wei
      <4>5. SumFunctionOnSet(wei, mine) = GweiToWei * SumFunctionOnSet(gwei, mine)
        BY <4>3, <4>4, SumOfMultiples
      <4>6. SumFunction(wei) = sum
        BY <1>1, <3>2, <4>2, SumForSteps
      <4>7. QED
        BY <4>1, <4>2, <4>5, <4>6 DEF SumFunction
    <3>5. ASSUME a \in DOMAIN paid, a \notin DOMAIN reward PROVE sum > 0
      <4>1. PICK i \in 1 .. w : Recipients(b)[i] = a /\ Amounts(b)[i] > 0
        BY <3>2, <3>5 DEF Collected
      <4> HIDE DEF sum
      <4>2. QED
        BY <3>2, <3>3, <4>1
    <3> HIDE DEF sum
    <3>6. QED
      BY <3>3, <3>4, <3>5
  <2>3. QED
    BY <2>1, <2>2
<1> HIDE DEF paid, reward
<1>6. ASSUME NEW a PROVE Due(b, a) = Entry(paid, a)
  BY <1>4, <1>5 DEF Due
<1>7. ASSUME NEW a \in DOMAIN paid, paid[a] = 0
      PROVE  \E i \in DOMAIN b.ommers : b.ommers[i].beneficiary = a
  <2>1. Entry(paid, a) = 0
    BY <1>7 DEF Entry
  <2>2. /\ Entry(reward, a) \in Nat
        /\ WithdrawalsDue(b, a) \in Nat
        /\ Entry(reward, a) + WithdrawalsDue(b, a) = 0
    BY <1>4, <1>5, <2>1
  <2>3. Entry(reward, a) = 0 /\ WithdrawalsDue(b, a) = 0
    BY <2>2
  <2>4. a \in DOMAIN reward
    BY <1>5, <1>7, <2>3
  <2>5. \E i \in 1 .. n : b.ommers[i].beneficiary = a
    BY <1>4, <2>3, <2>4
  <2>6. QED
    BY <1>1, <2>5
<1>8. QED
  BY <1>6, <1>7 DEF MatchesDues, Entry, paid

\* So it is for the blocks of every set of inputs and for all they pay.
THEOREM EveryInputMatches == DuesSpec => []IncrementsMatchDues
<1>1. input \in Inputs => IncrementsMatchDues
  BY InputsAssumption, IncrementsAreDues DEF IncrementsMatchDues
<1>2. DuesInit => input \in Inputs
  BY DEF DuesInit
<1>3. input \in Inputs /\ [DuesNext]_input => (input \in Inputs)'
  BY DEF DuesNext
<1>4. QED
  BY <1>1, <1>2, <1>3, PTL DEF DuesSpec

-----------------------------------------------------------------------------
(***************************************************************************)
(* Gas.                                                                     *)
(***************************************************************************)

\* The inductive strengthening of GasWithinLimit: where the block and the
\* transactions come from, and that the gas used is a natural number.
GasInv ==
    /\ blk \in Blocks
    /\ todo \in Seq(AllTransactions)
    /\ gasUsed \in Nat
    /\ gasUsed <= blk.gasLimit

\* What a caller submits is one of the transactions assumed about.
LEMMA SubmittedTransactions ==
    ASSUME todo \in Seq(AllTransactions), NEW tx \in Submitted
    PROVE  tx \in AllTransactions
<1>1. CASE caller = "builder"
  BY <1>1 DEF Submitted, AllTransactions
<1>2. CASE caller # "builder"
  BY <1>2 DEF Submitted
<1>3. QED
  BY <1>1, <1>2

\* An executed transaction uses some gas, and no more than its limit.
LEMMA GasOfResult ==
    ASSUME NEW tx \in AllTransactions, NEW res \in TxResults(tx, db)
    PROVE  /\ res.gasUsed \in Nat
           /\ IntrinsicGas <= res.gasUsed
           /\ res.gasUsed <= tx.gasLimit
<1>1. res.gasUsed \in {IntrinsicGas, tx.gasLimit}
  BY DEF TxResults
<1>2. /\ IntrinsicGas \in Nat /\ tx.gasLimit \in Nat
      /\ IntrinsicGas <= tx.gasLimit
  BY GasAssumption
<1>3. QED
  BY <1>1, <1>2

\* While the gas used is within the limit neither operation wraps around.
LEMMA NoWrap ==
    ASSUME GasInv, NEW tx \in AllTransactions, Fits(tx),
           NEW res \in TxResults(tx, db)
    PROVE  /\ BlockAvailableGas = blk.gasLimit - gasUsed
           /\ WrapAdd(gasUsed, res.gasUsed) = gasUsed + res.gasUsed
           /\ gasUsed + res.gasUsed <= blk.gasLimit
<1>1. /\ blk.gasLimit \in Nat /\ blk.gasLimit < U64
      /\ gasUsed \in Nat /\ gasUsed <= blk.gasLimit
      /\ tx.gasLimit \in Nat /\ U64 \in Nat
  BY GasAssumption, RewardAssumption DEF GasInv
<1>2. BlockAvailableGas = blk.gasLimit - gasUsed
  BY <1>1 DEF BlockAvailableGas, WrapSub
<1>3. tx.gasLimit <= blk.gasLimit - gasUsed
  BY <1>2 DEF Fits
<1>4. /\ res.gasUsed \in Nat /\ res.gasUsed <= tx.gasLimit
  BY GasOfResult
<1>5. gasUsed + res.gasUsed <= blk.gasLimit
  BY <1>1, <1>3, <1>4
<1>6. QED
  BY <1>1, <1>2, <1>4, <1>5 DEF WrapAdd

\* Only CommitTransaction touches what GasInv speaks of.
LEMMA OtherStepsKeepGas ==
    [Next]_vars => \/ CommitTransaction
                   \/ UNCHANGED <<blk, body, todo, receipts, gasUsed>>
BY DEF Next, Execute, ApplyBlockhashesContractCall, ApplyBeaconRootContractCall,
       RejectTransaction, SkipTransaction, Skipped, StartFinish, RequestsCall,
       ApplyWithdrawalRequestsContractCall, ApplyConsolidationRequestsContractCall,
       CollectBalanceIncrements, IncrementBalances, ReportBalanceIncrements,
       SetStateHook, vars, result

\* What an executed transaction leaves in its receipt has the right type.
LEMMA ReceiptType ==
    ASSUME NEW tx \in AllTransactions, NEW res \in TxResults(tx, db),
           NEW gas \in Nat
    PROVE  BuildReceipt(tx, res, gas) \in Receipt
<1>1. /\ res.success \in BOOLEAN
      /\ res.logs \in {tx.logs, <<>>}
  BY DEF TxResults
<1>2. QED
  BY <1>1 DEF BuildReceipt, Receipt

\* The effect of a committed transaction on gas and receipts.
LEMMA CommitTransactionReceipt ==
    ASSUME GasInv, CommitTransaction
    PROVE  \E r \in Receipt :
              /\ receipts' = Append(receipts, r)
              /\ r.cumulativeGasUsed = gasUsed'
              /\ gasUsed' \in Nat
              /\ gasUsed + IntrinsicGas <= gasUsed'
              /\ gasUsed' <= blk.gasLimit
<1>1. PICK tx \in Submitted :
        /\ Fits(tx)
        /\ \E res \in TxResults(tx, db) :
            /\ gasUsed' = WrapAdd(gasUsed, res.gasUsed)
            /\ receipts' = Append(receipts, BuildReceipt(tx, res, gasUsed'))
  BY DEF CommitTransaction, Committed
<1>2. PICK res \in TxResults(tx, db) :
            /\ gasUsed' = WrapAdd(gasUsed, res.gasUsed)
            /\ receipts' = Append(receipts, BuildReceipt(tx, res, gasUsed'))
  BY <1>1
<1>3. tx \in AllTransactions
  BY SubmittedTransactions DEF GasInv
<1>4. /\ res.gasUsed \in Nat /\ IntrinsicGas <= res.gasUsed
  BY <1>3, GasOfResult
<1>5. /\ gasUsed' = gasUsed + res.gasUsed
      /\ gasUsed' <= blk.gasLimit
  BY <1>1, <1>2, <1>3, NoWrap
<1>6. gasUsed \in Nat /\ IntrinsicGas \in Nat
  BY GasAssumption DEF GasInv
<1>7. BuildReceipt(tx, res, gasUsed').cumulativeGasUsed = gasUsed'
  BY DEF BuildReceipt
<1>8. gasUsed' \in Nat /\ gasUsed + IntrinsicGas <= gasUsed'
  BY <1>4, <1>5, <1>6
<1>9. BuildReceipt(tx, res, gasUsed') \in Receipt
  BY <1>3, <1>8, ReceiptType
<1>10. QED
  BY <1>2, <1>5, <1>7, <1>8, <1>9

\* GasInv is inductive.
LEMMA GasInvariant == Spec => []GasInv
<1>1. Init => GasInv
  <2> SUFFICES ASSUME Init PROVE GasInv
    OBVIOUS
  <2>1. blk.gasLimit \in Nat
    BY GasAssumption DEF Init
  <2>2. todo \in Seq(AllTransactions)
    <3>1. CASE body = <<>>
      BY <3>1 DEF Init
    <3>2. CASE body \in Bodies
      BY <3>2, GasAssumption DEF Init
    <3>3. QED
      BY <3>1, <3>2 DEF Init
  <2>3. QED
    BY <2>1, <2>2 DEF Init, GasInv
<1>2. GasInv /\ [Next]_vars => GasInv'
  <2> SUFFICES ASSUME GasInv, [Next]_vars PROVE GasInv'
    OBVIOUS
  <2>1. CASE CommitTransaction
    <3>1. blk' = blk
      BY <2>1 DEF CommitTransaction, Committed
    <3>2. todo' \in Seq(AllTransactions)
      <4>1. CASE caller = "builder"
        BY <2>1, <4>1 DEF CommitTransaction, Committed, GasInv
      <4>2. CASE caller # "builder"
        <5>1. todo # <<>> /\ todo' = Tail(todo)
          BY <2>1, <4>2 DEF CommitTransaction, Committed, Submitted
        <5>2. QED
          BY <5>1 DEF GasInv
      <4>3. QED
        BY <4>1, <4>2
    <3>3. QED
      BY <2>1, <3>1, <3>2, CommitTransactionReceipt DEF GasInv
  <2>2. CASE UNCHANGED <<blk, body, todo, receipts, gasUsed>>
    BY <2>2 DEF GasInv
  <2>3. QED
    BY <2>1, <2>2, OtherStepsKeepGas
<1>3. QED
  BY <1>1, <1>2, PTL DEF Spec

\* No block ever uses more gas than its limit, and the unchecked subtraction
\* of execute_transaction_with_commit_condition never wraps around.
THEOREM GasSafety == Spec => []GasWithinLimit
<1>1. GasInv => GasWithinLimit
  <2> SUFFICES ASSUME GasInv PROVE GasWithinLimit
    OBVIOUS
  <2>1. blk.gasLimit \in Nat /\ gasUsed \in Nat /\ gasUsed <= blk.gasLimit
    BY GasAssumption DEF GasInv
  <2>2. BlockAvailableGas = blk.gasLimit - gasUsed
    BY <2>1 DEF BlockAvailableGas, WrapSub
  <2>3. QED
    BY <2>1, <2>2 DEF GasWithinLimit
<1>2. QED
  BY <1>1, GasInvariant, PTL

-----------------------------------------------------------------------------
(***************************************************************************)
(* Receipts.                                                                *)
(***************************************************************************)

\* The inductive strengthening of ReceiptsAccountForGas.
ReceiptsInv ==
    /\ receipts \in Seq(Receipt)
    /\ ReceiptsAccountForGas

LEMMA ReceiptsInvariant == Spec => []ReceiptsInv
<1>1. Init => ReceiptsInv
  BY DEF Init, ReceiptsInv, ReceiptsAccountForGas
<1>2. GasInv /\ ReceiptsInv /\ [Next]_vars => ReceiptsInv'
  <2> SUFFICES ASSUME GasInv, ReceiptsInv, [Next]_vars PROVE ReceiptsInv'
    OBVIOUS
  <2>1. CASE CommitTransaction
    <3>1. PICK r \in Receipt :
              /\ receipts' = Append(receipts, r)
              /\ r.cumulativeGasUsed = gasUsed'
              /\ gasUsed + IntrinsicGas <= gasUsed'
      BY <2>1, CommitTransactionReceipt
    <3>2. /\ receipts \in Seq(Receipt)
          /\ receipts' \in Seq(Receipt)
          /\ Len(receipts') = Len(receipts) + 1
          /\ \A i \in 1 .. Len(receipts) : receipts'[i] = receipts[i]
          /\ receipts'[Len(receipts) + 1] = r
      BY <3>1 DEF ReceiptsInv
    <3>3. gasUsed' = receipts'[Len(receipts')].cumulativeGasUsed /\ receipts' # <<>>
      BY <3>1, <3>2
    <3>4. ASSUME NEW i \in 1 .. Len(receipts')
          PROVE  receipts'[i].cumulativeGasUsed
                    >= (IF i = 1 THEN 0 ELSE receipts'[i - 1].cumulativeGasUsed)
                       + IntrinsicGas
      <4>1. CASE i = Len(receipts) + 1
        <5>1. gasUsed = IF i = 1 THEN 0 ELSE receipts'[i - 1].cumulativeGasUsed
          BY <4>1, <3>2 DEF ReceiptsInv, ReceiptsAccountForGas
        <5>2. QED
          BY <4>1, <5>1, <3>1, <3>2, GasAssumption DEF GasInv
      <4>2. CASE i \in 1 .. Len(receipts)
        <5>1. receipts[i].cumulativeGasUsed
                >= (IF i = 1 THEN 0 ELSE receipts[i - 1].cumulativeGasUsed) + IntrinsicGas
          BY <4>2, <3>2 DEF ReceiptsInv, ReceiptsAccountForGas
        <5>2. CASE i = 1
          BY <4>2, <3>2, <5>1, <5>2
        <5>3. CASE i # 1
          <6>1. i - 1 \in 1 .. Len(receipts)
            BY <4>2, <3>2, <5>3
          <6>2. QED
            BY <4>2, <3>2, <5>1, <5>3, <6>1
        <5>4. QED
          BY <5>2, <5>3
      <4>3. QED
        BY <4>1, <4>2, <3>2
    <3>5. QED
      BY <3>2, <3>3, <3>4 DEF ReceiptsInv, ReceiptsAccountForGas
  <2>2. CASE UNCHANGED <<blk, body, todo, receipts, gasUsed>>
    BY <2>2 DEF ReceiptsInv, ReceiptsAccountForGas
  <2>3. QED
    BY <2>1, <2>2, OtherStepsKeepGas
<1>3. QED
  BY <1>1, <1>2, GasInvariant, PTL DEF Spec

\* The receipts are a running total of the gas used, each transaction adding at
\* least its intrinsic gas, and end at the block's total.
THEOREM CumulativeGas == Spec => []ReceiptsAccountForGas
BY ReceiptsInvariant, PTL DEF ReceiptsInv

-----------------------------------------------------------------------------
(***************************************************************************)
(* The state hook.                                                          *)
(***************************************************************************)

\* What the hook knows between the increments and their report: everything,
\* but for the balances, and existence, of the incremented accounts.
AwaitsReport ==
    /\ mirror = [a \in Addresses |-> mirror[a]]
    /\ \A a \in Addresses :
          IF a \in Incremented THEN mirror[a].storage = db[a].storage
                               ELSE mirror[a] = db[a]

\* The inductive strengthening of HookMirrorsState.
HookInv ==
    /\ hook \in BOOLEAN
    /\ blk \in Blocks
    /\ db = [a \in Addresses |-> db[a]]
    /\ \A a \in Addresses : IsAccount(db[a])
    /\ phase \notin {"credit", "report", "done", "failed"} => increments = NoIncrements
    /\ DOMAIN increments \subseteq Addresses
    /\ hook /\ ~DaoTransition =>
        /\ phase \notin {"report", "failed"} => mirror = db
        /\ phase = "report" => AwaitsReport
        /\ phase = "failed" /\ increments = NoIncrements => mirror = db

\* A commit leaves a database of accounts.
LEMMA CommitShape ==
    ASSUME NEW changes, NEW clear, db = [a \in Addresses |-> db[a]],
           \A a \in Addresses : IsAccount(db[a])
    PROVE  /\ Commit(db, changes, clear) =
                [a \in Addresses |-> Commit(db, changes, clear)[a]]
           /\ \A a \in Addresses : IsAccount(Commit(db, changes, clear)[a])
<1>1. Commit(db, changes, clear) =
                [a \in Addresses |-> Commit(db, changes, clear)[a]]
  BY DEF Commit
<1>2. ASSUME NEW a \in Addresses
      PROVE  IsAccount(Commit(db, changes, clear)[a])
  BY DEF Commit, IsAccount, NoAccount
<1>3. QED
  BY <1>1, <1>2

\* A step that reports and commits the same changeset keeps mirror and
\* database equal, with or without a hook.
LEMMA ReportAndCommitKeepsMirror ==
    ASSUME NEW source, NEW changes, NEW clear,
           hook \in BOOLEAN, db = [a \in Addresses |-> db[a]],
           \A a \in Addresses : IsAccount(db[a]),
           ReportAndCommit(source, changes, clear)
    PROVE  /\ hook' = hook
           /\ hook /\ mirror = db => mirror' = db'
           /\ db' = [a \in Addresses |-> db'[a]]
           /\ \A a \in Addresses : IsAccount(db'[a])
<1>1. db' = Commit(db, changes, clear)
  BY DEF ReportAndCommit
<1>2. /\ db' = [a \in Addresses |-> db'[a]]
      /\ \A a \in Addresses : IsAccount(db'[a])
  BY <1>1, CommitShape
<1>3. CASE hook
  BY <1>1, <1>2, <1>3 DEF ReportAndCommit, OnState
<1>4. CASE ~hook
  BY <1>2, <1>4 DEF ReportAndCommit, OnState, hookVars
<1>5. QED
  BY <1>3, <1>4

LEMMA HookInvariant == Spec => []HookInv
<1>1. Init => HookInv
  BY AddressAssumption DEF Init, HookInv, NoIncrements
<1>2. HookInv /\ [Next]_vars => HookInv'
  <2> SUFFICES ASSUME HookInv, [Next]_vars PROVE HookInv'
    OBVIOUS
  <2> USE DEF HookInv
  <2>1. CASE ApplyBlockhashesContractCall
    <3>1. /\ UNCHANGED <<blk, increments>> /\ phase = "start"
          /\ phase' \in {"beaconRoot", "failed"}
      BY <2>1 DEF ApplyBlockhashesContractCall
    <3>2. CASE UNCHANGED <<db, hookVars>>
      BY <3>1, <3>2 DEF hookVars, DaoTransition
    <3>3. CASE \E source, changes : ReportAndCommit(source, changes, stateClear')
      BY <3>1, <3>3, ReportAndCommitKeepsMirror DEF DaoTransition
    <3>4. QED
      BY <2>1, <3>2, <3>3 DEF ApplyBlockhashesContractCall
  <2>2. CASE ApplyBeaconRootContractCall
    <3>1. /\ UNCHANGED <<blk, increments>> /\ phase = "beaconRoot"
          /\ phase' \in {"txs", "failed"}
      BY <2>2 DEF ApplyBeaconRootContractCall
    <3>2. CASE UNCHANGED <<db, hookVars>>
      BY <3>1, <3>2 DEF hookVars, DaoTransition
    <3>3. CASE \E source, changes : ReportAndCommit(source, changes, stateClear)
      BY <3>1, <3>3, ReportAndCommitKeepsMirror DEF DaoTransition
    <3>4. QED
      BY <2>2, <3>2, <3>3 DEF ApplyBeaconRootContractCall
  <2>3. CASE CommitTransaction
    <3>1. /\ UNCHANGED <<blk, phase, increments>> /\ phase = "txs"
      BY <2>3 DEF CommitTransaction, Committed
    <3>2. \E source, changes : ReportAndCommit(source, changes, stateClear)
      BY <2>3 DEF CommitTransaction, Committed
    <3>3. QED
      BY <3>1, <3>2, ReportAndCommitKeepsMirror DEF DaoTransition
  <2>4. CASE RejectTransaction
    BY <2>4 DEF RejectTransaction, hookVars, DaoTransition
  <2>5. CASE SkipTransaction
    BY <2>5 DEF SkipTransaction, Skipped, vars, hookVars, DaoTransition, AwaitsReport, Incremented
  <2>6. CASE StartFinish
    BY <2>6 DEF StartFinish, hookVars, DaoTransition
  <2>7. CASE \/ ApplyWithdrawalRequestsContractCall
             \/ ApplyConsolidationRequestsContractCall
    <3>1. /\ UNCHANGED <<blk, increments>>
          /\ phase \in {"withdrawalRequests", "consolidationRequests"}
          /\ phase' \in {"consolidationRequests", "increments", "failed"}
      BY <2>7 DEF ApplyWithdrawalRequestsContractCall,
                  ApplyConsolidationRequestsContractCall, RequestsCall
    <3>2. CASE UNCHANGED <<db, hookVars>>
      BY <3>1, <3>2 DEF hookVars, DaoTransition
    <3>3. CASE \E source, changes : ReportAndCommit(source, changes, stateClear)
      BY <3>1, <3>3, ReportAndCommitKeepsMirror DEF DaoTransition
    <3>4. QED
      BY <2>7, <3>2, <3>3 DEF ApplyWithdrawalRequestsContractCall,
                  ApplyConsolidationRequestsContractCall, RequestsCall
  <2>8. CASE CollectBalanceIncrements
    <3>1. /\ UNCHANGED <<blk, hookVars>> /\ phase = "increments"
          /\ phase' \in {"credit", "failed"}
          /\ phase' = "failed" => increments' = increments
      BY <2>8 DEF CollectBalanceIncrements
    <3>2. DOMAIN PostBlockBalanceIncrements(blk) \subseteq Addresses
      BY IncrementsOfAccounts
    <3>3. DOMAIN increments' \subseteq Addresses
      <4>1. DOMAIN DaoIncrements(PostBlockBalanceIncrements(blk)) \subseteq Addresses
        BY <3>2, AddressAssumption DEF DaoIncrements, Bump
      <4>2. QED
        BY <2>8, <3>2, <4>1 DEF CollectBalanceIncrements
    <3>4. CASE UNCHANGED db /\ ~DaoTransition
      BY <3>1, <3>3, <3>4 DEF hookVars, DaoTransition
    <3>5. CASE DaoTransition /\ \E some : db' = Drain(db, some)
      <4>1. PICK some : db' = Drain(db, some)
        BY <3>5
      <4>2. db' = [a \in Addresses |-> db'[a]]
        BY <4>1 DEF Drain
      <4>3. ASSUME NEW a \in Addresses PROVE IsAccount(db'[a])
        BY <4>1 DEF Drain, IsAccount
      <4>4. QED
        BY <3>1, <3>3, <3>5, <4>2, <4>3 DEF hookVars, DaoTransition
    <3>6. QED
      BY <2>8, <3>4, <3>5 DEF CollectBalanceIncrements
  <2>9. CASE IncrementBalances
    <3>1. /\ UNCHANGED <<blk, hookVars, increments>> /\ phase = "credit"
          /\ phase' \in {"report", "failed"}
      BY <2>9 DEF IncrementBalances
    <3>2. PICK some \in SUBSET Addresses :
            /\ db' = Credit(db, increments, some)
            /\ phase' = "report" => some = Addresses
            /\ phase' = "failed" => some # DOMAIN increments /\ some \subseteq DOMAIN increments
      BY <2>9 DEF IncrementBalances
    <3>3. db' = [a \in Addresses |-> db'[a]]
      BY <3>2 DEF Credit
    <3>4. ASSUME NEW a \in Addresses
          PROVE  /\ IsAccount(db'[a])
                 /\ db'[a].storage = db[a].storage
                 /\ a \notin Incremented => db'[a] = db[a]
      <4>1. CASE a \in some /\ a \in Incremented
        <5>1. db'[a] = [db[a] EXCEPT !.balance = @ + increments[a], !.exists = TRUE]
          BY <3>2, <4>1 DEF Credit, Incremented
        <5>2. db[a] = [exists |-> db[a].exists, nonce |-> db[a].nonce,
                       balance |-> db[a].balance, storage |-> db[a].storage]
          BY DEF IsAccount
        <5>3. db'[a] = [exists |-> TRUE, nonce |-> db[a].nonce,
                        balance |-> db[a].balance + increments[a],
                        storage |-> db[a].storage]
          BY <5>1, <5>2
        <5>4. QED
          BY <4>1, <5>3 DEF IsAccount
      <4>2. CASE ~(a \in some /\ a \in Incremented)
        <5>1. db'[a] = db[a]
          BY <3>2, <4>2 DEF Credit, Incremented
        <5>2. QED
          BY <5>1
      <4>3. QED
        BY <4>1, <4>2
    <3>5. CASE phase' = "report"
      BY <3>1, <3>3, <3>4, <3>5 DEF hookVars, DaoTransition, AwaitsReport, Incremented
    <3>6. CASE phase' = "failed"
      <4>1. increments # NoIncrements
        BY <3>2, <3>6 DEF NoIncrements
      <4>2. QED
        BY <3>1, <3>3, <3>4, <3>6, <4>1 DEF hookVars, DaoTransition
    <3>7. QED
      BY <3>1, <3>5, <3>6
  <2>10. CASE ReportBalanceIncrements
    <3>1. /\ UNCHANGED <<blk, db, hook, increments>> /\ phase = "report"
          /\ phase' \in {"done", "failed"}
      BY <2>10 DEF ReportBalanceIncrements
    <3>2. CASE hook /\ ~DaoTransition /\ phase' = "done"
      <4>1. mirror' = [a \in Addresses |->
                            IF a \in Incremented
                            THEN [db[a] EXCEPT !.storage = mirror[a].storage]
                            ELSE mirror[a]]
        BY <2>10, <3>2 DEF ReportBalanceIncrements
      <4>2. ASSUME NEW a \in Addresses PROVE mirror'[a] = db[a]
        <5>1. AwaitsReport
          BY <3>1, <3>2
        <5>2. CASE a \in Incremented
          <6>1. mirror[a].storage = db[a].storage
            BY <5>1, <5>2 DEF AwaitsReport
          <6>2. [db[a] EXCEPT !.storage = db[a].storage] = db[a]
            BY DEF IsAccount
          <6>3. QED
            BY <4>1, <5>2, <6>1, <6>2
        <5>3. CASE a \notin Incremented
          BY <4>1, <5>1, <5>3 DEF AwaitsReport
        <5>4. QED
          BY <5>2, <5>3
      <4>3. mirror' = db
        BY <4>1, <4>2
      <4>4. QED
        BY <3>1, <3>2, <4>3 DEF DaoTransition
    <3>3. CASE hook /\ ~DaoTransition /\ phase' = "failed"
      <4>1. increments # NoIncrements
        BY <2>10, <3>3 DEF ReportBalanceIncrements, Incremented, NoIncrements
      <4>2. QED
        BY <3>1, <3>3, <4>1 DEF DaoTransition
    <3>4. CASE ~hook \/ DaoTransition
      BY <3>1, <3>4 DEF DaoTransition
    <3>5. QED
      BY <3>1, <3>2, <3>3, <3>4
  <2>11. CASE SetStateHook
    BY <2>11 DEF SetStateHook, DaoTransition
  <2>12. CASE UNCHANGED vars
    BY <2>12 DEF vars, hookVars, DaoTransition, AwaitsReport, Incremented
  <2>13. QED
    BY <2>1, <2>2, <2>3, <2>4, <2>5, <2>6, <2>7, <2>8, <2>9, <2>10, <2>11, <2>12
    DEF Next, Execute
<1>3. QED
  BY <1>1, <1>2, PTL DEF Spec

\* A hook that applies every changeset it is told of holds the executor's own
\* database whenever the caller can look at either: in no state is a committed
\* change unreported or an uncommitted one reported.
THEOREM HookIsFaithful == Spec => []HookMirrorsState
<1>1. HookInv => HookMirrorsState
  BY DEF HookInv, HookMirrorsState
<1>2. QED
  BY <1>1, HookInvariant, PTL

-----------------------------------------------------------------------------
(***************************************************************************)
(* Types.                                                                   *)
(***************************************************************************)

\* What the invariants above leave to say of TypeOK.
FieldsInv ==
    /\ caller \in {"builder", "execute_block"}
    /\ phase \in Phases
    /\ body \in Seq(AllTransactions)
    /\ stateClear \in BOOLEAN
    /\ DOMAIN mirror = IF hook THEN Addresses ELSE {}

\* A changeset reaches the hook's copy without changing whose accounts it holds.
LEMMA OnStateKeepsDomain ==
    ASSUME NEW source, NEW changes, NEW clear, HookInv, FieldsInv,
           \/ OnState(source, changes, clear)
           \/ UNCHANGED hookVars
    PROVE  DOMAIN mirror' = IF hook' THEN Addresses ELSE {}
<1>1. CASE hook /\ OnState(source, changes, clear)
  BY <1>1 DEF OnState, Commit, FieldsInv
<1>2. CASE UNCHANGED hookVars
  BY <1>2 DEF hookVars, FieldsInv
<1>3. QED
  BY <1>1, <1>2 DEF OnState, HookInv

\* No step changes the block, the caller or the list it was given.
LEMMA OtherStepsKeepCaller == [Next]_vars => UNCHANGED <<blk, caller, body>>
BY DEF Next, Execute, ApplyBlockhashesContractCall, ApplyBeaconRootContractCall,
       CommitTransaction, Committed, RejectTransaction,
       SkipTransaction, Skipped, StartFinish, RequestsCall,
       ApplyWithdrawalRequestsContractCall, ApplyConsolidationRequestsContractCall,
       CollectBalanceIncrements, IncrementBalances, ReportBalanceIncrements,
       SetStateHook, vars

\* The stages of a block, step by step.
LEMMA PhaseSteps ==
    [Next]_vars =>
        \/ phase' = phase \/ phase' = "failed"
        \/ phase = "start" /\ phase' = "beaconRoot"
        \/ phase = "beaconRoot" /\ phase' = "txs"
        \/ phase = "txs" /\ phase' \in {"withdrawalRequests", "increments"}
        \/ phase = "withdrawalRequests" /\ phase' = "consolidationRequests"
        \/ phase = "consolidationRequests" /\ phase' = "increments"
        \/ phase = "increments" /\ phase' = "credit"
        \/ phase = "credit" /\ phase' = "report"
        \/ phase = "report" /\ phase' = "done"
BY DEF Next, Execute, ApplyBlockhashesContractCall, ApplyBeaconRootContractCall,
       CommitTransaction, Committed, RejectTransaction,
       SkipTransaction, Skipped, StartFinish, RequestsCall,
       ApplyWithdrawalRequestsContractCall, ApplyConsolidationRequestsContractCall,
       CollectBalanceIncrements, IncrementBalances, ReportBalanceIncrements,
       SetStateHook, vars

\* The state clear flag is set at the start of the block and never again.
LEMMA StateClearSteps ==
    [Next]_vars => stateClear' \in BOOLEAN \/ stateClear' = stateClear
BY DEF Next, Execute, ApplyBlockhashesContractCall, ApplyBeaconRootContractCall,
       CommitTransaction, Committed, RejectTransaction,
       SkipTransaction, Skipped, StartFinish, RequestsCall,
       ApplyWithdrawalRequestsContractCall, ApplyConsolidationRequestsContractCall,
       CollectBalanceIncrements, IncrementBalances, ReportBalanceIncrements,
       SetStateHook, vars, ActiveAtBlock

\* Apart from a new hook and the report of the increments, the hook hears only
\* of changesets.
LEMMA HookSteps ==
    [Next]_vars => \/ SetStateHook
                   \/ ReportBalanceIncrements
                   \/ UNCHANGED hookVars
                   \/ \E source, changes, clear : OnState(source, changes, clear)
BY DEF Next, Execute, ApplyBlockhashesContractCall, ApplyBeaconRootContractCall,
       CommitTransaction, Committed, RejectTransaction,
       SkipTransaction, Skipped, StartFinish, RequestsCall,
       ApplyWithdrawalRequestsContractCall, ApplyConsolidationRequestsContractCall,
       CollectBalanceIncrements, IncrementBalances, ReportAndCommit, vars

LEMMA FieldsInvariant == Spec => []FieldsInv
<1>1. Init => FieldsInv
  <2> SUFFICES ASSUME Init PROVE FieldsInv
    OBVIOUS
  <2>1. body \in Seq(AllTransactions)
    <3>1. CASE body = <<>>
      BY <3>1
    <3>2. CASE body \in Bodies
      BY <3>2, GasAssumption
    <3>3. QED
      BY <3>1, <3>2 DEF Init
  <2>2. DOMAIN mirror = IF hook THEN Addresses ELSE {}
    <3>1. mirror = <<>> /\ hook = FALSE
      BY DEF Init
    <3>2. DOMAIN <<>> = {}
      OBVIOUS
    <3>3. QED
      BY <3>1, <3>2
  <2>3. QED
    BY <2>1, <2>2 DEF Init, FieldsInv, Phases
<1>2. HookInv /\ FieldsInv /\ [Next]_vars => FieldsInv'
  <2> SUFFICES ASSUME HookInv, FieldsInv, [Next]_vars PROVE FieldsInv'
    OBVIOUS
  <2>1. /\ caller' = caller /\ body' = body
    BY OtherStepsKeepCaller
  <2>2. phase' \in Phases
    BY PhaseSteps DEF FieldsInv, Phases
  <2>3. stateClear' \in BOOLEAN
    BY StateClearSteps DEF FieldsInv
  <2>4. DOMAIN mirror' = IF hook' THEN Addresses ELSE {}
    <3>1. CASE SetStateHook
      BY <3>1 DEF SetStateHook, HookInv
    <3>2. CASE ReportBalanceIncrements
      BY <3>2 DEF ReportBalanceIncrements, FieldsInv
    <3>3. QED
      BY <3>1, <3>2, HookSteps, OnStateKeepsDomain
  <2>5. QED
    BY <2>1, <2>2, <2>3, <2>4 DEF FieldsInv
<1>3. QED
  BY <1>1, <1>2, HookInvariant, PTL DEF Spec

\* Every reachable state of the executor is well typed.
THEOREM TypeCorrect == Spec => []TypeOK
<1>1. GasInv /\ ReceiptsInv /\ HookInv /\ FieldsInv => TypeOK
  <2> SUFFICES ASSUME GasInv, ReceiptsInv, HookInv, FieldsInv PROVE TypeOK
    OBVIOUS
  <2>1. gasUsed \in 0 .. U64 - 1
    BY GasAssumption, RewardAssumption DEF GasInv
  <2>2. DOMAIN db = Addresses
    BY DEF HookInv
  <2>3. QED
    BY <2>1, <2>2 DEF GasInv, ReceiptsInv, HookInv, FieldsInv, TypeOK
<1>2. QED
  BY <1>1, GasInvariant, ReceiptsInvariant, HookInvariant, FieldsInvariant, PTL

-----------------------------------------------------------------------------
(***************************************************************************)
(* Completeness.                                                            *)
(***************************************************************************)

TxTypes == {tx.type : tx \in AllTransactions}

TypesOf(list) == [i \in DOMAIN list |-> list[i].type]

\* The inductive strengthening of ExecuteBlockComplete: from finish on there is
\* nothing left to execute.
CompleteInv ==
    caller = "execute_block" =>
        /\ TypesOf(receipts) \o TypesOf(todo) = TypesOf(body)
        /\ phase \notin {"start", "beaconRoot", "txs", "failed"} => todo = <<>>

LEMMA TypesOfSequence ==
    ASSUME NEW S, NEW list \in Seq(S), \A x \in S : x.type \in TxTypes
    PROVE  /\ TypesOf(list) \in Seq(TxTypes)
           /\ Len(TypesOf(list)) = Len(list)
           /\ \A i \in 1 .. Len(list) : TypesOf(list)[i] = list[i].type
<1>1. TypesOf(list) \in [1 .. Len(list) -> TxTypes]
  BY DEF TypesOf
<1>2. TypesOf(list) \in Seq(TxTypes) /\ Len(TypesOf(list)) = Len(list)
  BY <1>1
<1>3. QED
  BY <1>2 DEF TypesOf

LEMMA TypesAppended ==
    ASSUME NEW S, NEW list \in Seq(S), NEW x \in S, \A y \in S : y.type \in TxTypes
    PROVE  TypesOf(Append(list, x)) = Append(TypesOf(list), x.type)
<1> DEFINE longer == Append(list, x)
<1>1. /\ longer \in Seq(S) /\ Len(longer) = Len(list) + 1
      /\ \A i \in 1 .. Len(list) : longer[i] = list[i]
      /\ longer[Len(list) + 1] = x
  BY AppendProperties
<1> HIDE DEF longer
<1>2. /\ TypesOf(longer) \in Seq(TxTypes) /\ Len(TypesOf(longer)) = Len(longer)
      /\ \A i \in 1 .. Len(longer) : TypesOf(longer)[i] = longer[i].type
  BY <1>1, TypesOfSequence
<1>3. /\ TypesOf(list) \in Seq(TxTypes) /\ Len(TypesOf(list)) = Len(list)
      /\ \A i \in 1 .. Len(list) : TypesOf(list)[i] = list[i].type
  BY TypesOfSequence
<1>4. /\ Append(TypesOf(list), x.type) \in Seq(TxTypes)
      /\ Len(Append(TypesOf(list), x.type)) = Len(list) + 1
      /\ \A i \in 1 .. Len(list) : Append(TypesOf(list), x.type)[i] = list[i].type
      /\ Append(TypesOf(list), x.type)[Len(list) + 1] = x.type
  BY <1>3, AppendProperties
<1>5. \A i \in 1 .. Len(list) + 1 : i \in 1 .. Len(list) \/ i = Len(list) + 1
  OBVIOUS
<1>6. \A i \in 1 .. Len(TypesOf(longer)) :
         TypesOf(longer)[i] = Append(TypesOf(list), x.type)[i]
  BY <1>1, <1>2, <1>4, <1>5
<1>7. TypesOf(longer) = Append(TypesOf(list), x.type)
  BY <1>1, <1>2, <1>4, <1>6, SeqEqual
<1>8. QED
  BY <1>7 DEF longer

LEMMA TypesOfTail ==
    ASSUME NEW S, NEW list \in Seq(S), list # <<>>, \A y \in S : y.type \in TxTypes
    PROVE  /\ TypesOf(list) # <<>>
           /\ Head(TypesOf(list)) = Head(list).type
           /\ Tail(TypesOf(list)) = TypesOf(Tail(list))
<1>1. /\ TypesOf(list) \in Seq(TxTypes) /\ Len(TypesOf(list)) = Len(list)
      /\ \A i \in 1 .. Len(list) : TypesOf(list)[i] = list[i].type
  BY TypesOfSequence
<1>2. Len(list) \in Nat /\ Len(list) > 0
  BY EmptySeq
<1>3. TypesOf(list) # <<>>
  BY <1>1, <1>2
<1>4. Head(TypesOf(list)) = Head(list).type
  BY <1>1, <1>2
<1> DEFINE rest == Tail(list)
<1>5. /\ rest \in Seq(S) /\ Len(rest) = Len(list) - 1
      /\ \A i \in 1 .. Len(list) - 1 : rest[i] = list[i + 1]
  BY HeadTailProperties
<1> HIDE DEF rest
<1>6. /\ TypesOf(rest) \in Seq(TxTypes)
      /\ Len(TypesOf(rest)) = Len(list) - 1
      /\ \A i \in 1 .. Len(list) - 1 : TypesOf(rest)[i] = list[i + 1].type
  BY <1>5, TypesOfSequence
<1>7. /\ Tail(TypesOf(list)) \in Seq(TxTypes)
      /\ Len(Tail(TypesOf(list))) = Len(list) - 1
      /\ \A i \in 1 .. Len(list) - 1 : Tail(TypesOf(list))[i] = TypesOf(list)[i + 1]
  BY <1>1, <1>3, HeadTailProperties
<1>8. \A i \in 1 .. Len(list) - 1 : Tail(TypesOf(list))[i] = TypesOf(rest)[i]
  BY <1>1, <1>2, <1>6, <1>7
<1>9. Tail(TypesOf(list)) = TypesOf(rest)
  BY <1>6, <1>7, <1>8, SeqEqual
<1>10. QED
  BY <1>3, <1>4, <1>9 DEF rest

\* Moving the head of one sequence to the end of another.
LEMMA MoveHead ==
    ASSUME NEW S, NEW r \in Seq(S), NEW t \in Seq(S), t # <<>>
    PROVE  Append(r, Head(t)) \o Tail(t) = r \o t
<1> DEFINE more == Append(r, Head(t))
           rest == Tail(t)
<1>1. /\ Len(t) \in Nat /\ Len(t) > 0 /\ Len(r) \in Nat /\ Head(t) \in S
      /\ rest \in Seq(S) /\ Len(rest) = Len(t) - 1
      /\ \A i \in 1 .. Len(t) - 1 : rest[i] = t[i + 1]
  BY HeadTailProperties, EmptySeq
<1>2. /\ more \in Seq(S) /\ Len(more) = Len(r) + 1
      /\ \A i \in 1 .. Len(r) : more[i] = r[i]
      /\ more[Len(r) + 1] = t[1]
  BY <1>1, AppendProperties
<1> HIDE DEF more, rest
<1>3. /\ more \o rest \in Seq(S)
      /\ Len(more \o rest) = Len(r) + Len(t)
      /\ \A i \in 1 .. Len(r) + Len(t) :
            (more \o rest)[i] = IF i <= Len(r) + 1 THEN more[i] ELSE rest[i - (Len(r) + 1)]
  <2>1. Len(more) + Len(rest) = Len(r) + Len(t)
    BY <1>1, <1>2
  <2>2. /\ more \o rest \in Seq(S)
        /\ Len(more \o rest) = Len(more) + Len(rest)
        /\ \A i \in 1 .. Len(more) + Len(rest) :
              (more \o rest)[i] = IF i <= Len(more) THEN more[i] ELSE rest[i - Len(more)]
    BY <1>1, <1>2, ConcatProperties
  <2>3. QED
    BY <1>2, <2>1, <2>2
<1>4. /\ r \o t \in Seq(S) /\ Len(r \o t) = Len(r) + Len(t)
      /\ \A i \in 1 .. Len(r) + Len(t) :
            (r \o t)[i] = IF i <= Len(r) THEN r[i] ELSE t[i - Len(r)]
  BY ConcatProperties
<1>5. ASSUME NEW i \in 1 .. Len(r) + Len(t)
      PROVE  (more \o rest)[i] = (r \o t)[i]
  <2>1. CASE i \in 1 .. Len(r)
    BY <1>1, <1>2, <1>3, <1>4, <2>1
  <2>2. CASE i = Len(r) + 1
    BY <1>1, <1>2, <1>3, <1>4, <2>2
  <2>3. CASE i - (Len(r) + 1) \in 1 .. Len(t) - 1
    <3>1. i - (Len(r) + 1) + 1 = i - Len(r) /\ i > Len(r) + 1
      BY <1>1, <2>3
    <3>2. rest[i - (Len(r) + 1)] = t[i - Len(r)]
      BY <1>1, <2>3, <3>1
    <3>3. QED
      BY <1>1, <1>3, <1>4, <3>1, <3>2
  <2>4. \/ i \in 1 .. Len(r) \/ i = Len(r) + 1
        \/ i - (Len(r) + 1) \in 1 .. Len(t) - 1
    BY <1>1
  <2>5. QED
    BY <2>1, <2>2, <2>3, <2>4
<1>6. more \o rest = r \o t
  BY <1>3, <1>4, <1>5, SeqEqual
<1>7. QED
  BY <1>6 DEF more, rest

\* execute_block takes its transactions from the front of the list.
LEMMA NextOfList ==
    ASSUME GasInv, ReceiptsInv, CommitTransaction, caller # "builder"
    PROVE  /\ todo # <<>> /\ todo' = Tail(todo)
           /\ \E r \in Receipt : receipts' = Append(receipts, r)
                                 /\ r.type = Head(todo).type
<1>1. PICK tx \in Submitted : \E res \in TxResults(tx, db) :
        receipts' = Append(receipts, BuildReceipt(tx, res, gasUsed'))
  BY DEF CommitTransaction, Committed
<1>2. todo # <<>> /\ tx = Head(todo) /\ todo' = Tail(todo)
  BY <1>1 DEF CommitTransaction, Committed, Submitted
<1>3. PICK r \in Receipt : receipts' = Append(receipts, r)
  BY CommitTransactionReceipt
<1>4. r.type = Head(todo).type
  <2>1. PICK res \in TxResults(tx, db) :
          receipts' = Append(receipts, BuildReceipt(tx, res, gasUsed'))
    BY <1>1
  <2>2. tx \in AllTransactions /\ gasUsed' \in Nat
    BY SubmittedTransactions, CommitTransactionReceipt DEF GasInv
  <2>3. BuildReceipt(tx, res, gasUsed') \in Receipt
    BY <2>2, ReceiptType
  <2>4. r = BuildReceipt(tx, res, gasUsed')
    <3>1. receipts \in Seq(Receipt)
      BY DEF ReceiptsInv
    <3>2. /\ Append(receipts, r)[Len(receipts) + 1] = r
          /\ Append(receipts, BuildReceipt(tx, res, gasUsed'))[Len(receipts) + 1]
               = BuildReceipt(tx, res, gasUsed')
      BY <2>3, <3>1, AppendProperties
    <3>3. QED
      BY <1>3, <2>1, <3>2
  <2>5. QED
    BY <1>2, <2>4 DEF BuildReceipt
<1>5. QED
  BY <1>2, <1>3, <1>4

LEMMA CompleteInvariant == Spec => []CompleteInv
<1>1. Init => CompleteInv
  <2> SUFFICES ASSUME Init, caller = "execute_block" PROVE CompleteInv
    BY DEF CompleteInv
  <2>1. /\ todo = body /\ body \in Seq(AllTransactions)
        /\ receipts = <<>> /\ phase = "start"
    BY GasAssumption DEF Init
  <2>2. TypesOf(receipts) = <<>>
    BY <2>1 DEF TypesOf
  <2>3. TypesOf(todo) \in Seq(TxTypes)
    BY <2>1, TypesOfSequence DEF TxTypes
  <2>4. QED
    BY <2>1, <2>2, <2>3, ConcatEmptySeq DEF CompleteInv
<1>2. GasInv /\ ReceiptsInv /\ CompleteInv /\ [Next]_vars => CompleteInv'
  <2> SUFFICES ASSUME GasInv, ReceiptsInv, CompleteInv, [Next]_vars,
                      caller = "execute_block"
               PROVE  CompleteInv'
    BY OtherStepsKeepCaller DEF CompleteInv
  <2>1. caller' = caller /\ body' = body
    BY OtherStepsKeepCaller
  <2>2. CASE CommitTransaction
    <3>1. PICK r \in Receipt :
            receipts' = Append(receipts, r) /\ r.type = Head(todo).type
      BY <2>2, NextOfList
    <3>2. todo # <<>> /\ todo' = Tail(todo) /\ phase' = "txs"
      BY <2>2, NextOfList DEF CommitTransaction, Committed
    <3>3. /\ receipts \in Seq(Receipt) /\ \A x \in Receipt : x.type \in TxTypes
          /\ todo \in Seq(AllTransactions) /\ \A x \in AllTransactions : x.type \in TxTypes
      BY DEF ReceiptsInv, GasInv, Receipt, TxTypes
    <3>4. TypesOf(receipts') = Append(TypesOf(receipts), Head(todo).type)
      BY <3>1, <3>3, TypesAppended
    <3>5. /\ TypesOf(todo) # <<>>
          /\ Head(TypesOf(todo)) = Head(todo).type
          /\ Tail(TypesOf(todo)) = TypesOf(todo')
      BY <3>2, <3>3, TypesOfTail
    <3>6. TypesOf(receipts) \in Seq(TxTypes) /\ TypesOf(todo) \in Seq(TxTypes)
      BY <3>3, TypesOfSequence
    <3>7. TypesOf(receipts') \o TypesOf(todo') = TypesOf(receipts) \o TypesOf(todo)
      <4>1. Append(TypesOf(receipts), Head(TypesOf(todo))) \o Tail(TypesOf(todo))
              = TypesOf(receipts) \o TypesOf(todo)
        BY <3>5, <3>6, MoveHead
      <4>2. QED
        BY <3>4, <3>5, <4>1, Zenon
    <3>8. TypesOf(receipts)' = TypesOf(receipts') /\ TypesOf(todo)' = TypesOf(todo')
          /\ TypesOf(body)' = TypesOf(body')
      BY DEF TypesOf
    <3>9. QED
      BY <2>1, <3>2, <3>7, <3>8 DEF CompleteInv
  <2>3. CASE UNCHANGED <<blk, body, todo, receipts, gasUsed>>
    <3>1. phase = "txs" /\ phase' \in {"withdrawalRequests", "increments"} => todo = <<>>
      BY DEF Next, Execute, ApplyBlockhashesContractCall, ApplyBeaconRootContractCall,
             CommitTransaction, Committed, RejectTransaction, SkipTransaction, Skipped,
             StartFinish, RequestsCall, ApplyWithdrawalRequestsContractCall,
             ApplyConsolidationRequestsContractCall, CollectBalanceIncrements,
             IncrementBalances, ReportBalanceIncrements, SetStateHook, vars
    <3>2. QED
      BY <2>1, <2>3, <3>1, PhaseSteps DEF CompleteInv, TypesOf
  <2>4. QED
    BY <2>2, <2>3, OtherStepsKeepGas
<1>3. QED
  BY <1>1, <1>2, GasInvariant, ReceiptsInvariant, PTL DEF Spec

\* execute_block executes its whole list, in order, or fails: it never returns
\* Ok with a transaction missing, however long the list is.
THEOREM ExecutesAll == Spec => []ExecuteBlockComplete
<1>1. CompleteInv => ExecuteBlockComplete
  BY DEF CompleteInv, ExecuteBlockComplete, TypesOf
<1>2. QED
  BY <1>1, CompleteInvariant, PTL

-----------------------------------------------------------------------------
(***************************************************************************)
(* The executor implements the trait.                                       *)
(***************************************************************************)

\* Appending to a sequence keeps it as a prefix.
LEMMA SubSeqOfAppend ==
    ASSUME NEW S, NEW seq \in Seq(S), NEW e \in S
    PROVE  /\ Len(Append(seq, e)) = Len(seq) + 1
           /\ Append(seq, e)[Len(seq) + 1] = e
           /\ SubSeq(Append(seq, e), 1, Len(seq)) = seq
<1>1. /\ Len(Append(seq, e)) = Len(seq) + 1
      /\ Append(seq, e)[Len(seq) + 1] = e
      /\ \A i \in 1 .. Len(seq) : Append(seq, e)[i] = seq[i]
  OBVIOUS
<1>2. SubSeq(Append(seq, e), 1, Len(seq)) = [i \in 1 .. Len(seq) |-> Append(seq, e)[i]]
  OBVIOUS
<1>3. seq = [i \in 1 .. Len(seq) |-> seq[i]]
  OBVIOUS
<1>4. QED
  BY <1>1, <1>2, <1>3

\* A step of the executor is a step of the trait or leaves its state alone.
LEMMA StepImplementation ==
    ASSUME GasInv, ReceiptsInv, phase \in Phases, Next
    PROVE  [Abstract!Next]_Abstract!vars
<1> USE DEF Stage, Abstract!vars
<1>1. CASE ApplyBlockhashesContractCall \/ ApplyBeaconRootContractCall
  <2>1. /\ phase \in {"start", "beaconRoot"}
        /\ phase' \in {"beaconRoot", "txs", "failed"}
        /\ UNCHANGED <<blk, receipts, gasUsed>>
    BY <1>1 DEF ApplyBlockhashesContractCall, ApplyBeaconRootContractCall, result
  <2>2. Abstract!PreExecution
    BY <2>1 DEF Abstract!PreExecution
  <2>3. QED
    BY <2>2 DEF Abstract!Next
<1>2. CASE CommitTransaction
  <2>1. phase = "txs" /\ UNCHANGED <<blk, phase>>
    BY <1>2 DEF CommitTransaction, Committed
  <2>2. PICK r \in Receipt :
              /\ receipts' = Append(receipts, r)
              /\ r.cumulativeGasUsed = gasUsed'
              /\ gasUsed' \in Nat
              /\ gasUsed + IntrinsicGas <= gasUsed'
              /\ gasUsed' <= blk.gasLimit
    BY <1>2, CommitTransactionReceipt
  <2>3. /\ Len(receipts') = Len(receipts) + 1
        /\ receipts'[Len(receipts')] = r
        /\ SubSeq(receipts', 1, Len(receipts)) = receipts
    <3>1. receipts \in Seq(Receipt)
      BY DEF ReceiptsInv
    <3>2. QED
      BY <2>2, <3>1, SubSeqOfAppend
  <2>4. gasUsed' >= gasUsed
    BY <2>2, GasAssumption DEF GasInv
  <2>5. Abstract!CommitTransaction
    BY <2>1, <2>2, <2>3, <2>4 DEF Abstract!CommitTransaction
  <2>6. QED
    BY <2>5 DEF Abstract!Next
<1>3. CASE RejectTransaction
  <2>1. /\ phase = "txs" /\ phase' \in {"txs", "failed"}
        /\ UNCHANGED <<blk, db, receipts, gasUsed>>
    BY <1>3 DEF RejectTransaction, result
  <2>2. CASE phase' = "txs"
    BY <2>1, <2>2
  <2>3. CASE phase' = "failed"
    <3>1. Abstract!AbortTransactions
      BY <2>1, <2>3 DEF Abstract!AbortTransactions
    <3>2. QED
      BY <3>1 DEF Abstract!Next
  <2>4. QED
    BY <2>1, <2>2, <2>3
<1>4. CASE SkipTransaction
  BY <1>4 DEF SkipTransaction, Skipped, vars, result
<1>5. CASE \/ StartFinish
           \/ ApplyWithdrawalRequestsContractCall
           \/ ApplyConsolidationRequestsContractCall
           \/ CollectBalanceIncrements
           \/ IncrementBalances
           \/ ReportBalanceIncrements
  <2>1. /\ phase \in Phases \ {"start", "beaconRoot", "done", "failed"}
        /\ phase' \in Phases \ {"start", "beaconRoot", "txs"}
        /\ UNCHANGED <<blk, receipts, gasUsed>>
    BY <1>5 DEF StartFinish, ApplyWithdrawalRequestsContractCall, RequestsCall,
                ApplyConsolidationRequestsContractCall, CollectBalanceIncrements,
                IncrementBalances, ReportBalanceIncrements, result, Phases
  <2>2. Stage \in {"txs", "post"} /\ Stage' \in {"post", "done", "failed"}
    BY <2>1 DEF Phases
  <2>3. Abstract!PostExecution
    BY <2>1, <2>2 DEF Abstract!PostExecution
  <2>4. QED
    BY <2>3 DEF Abstract!Next
<1>6. CASE SetStateHook
  BY <1>6 DEF SetStateHook, result
<1>7. QED
  BY <1>1, <1>2, <1>3, <1>4, <1>5, <1>6 DEF Next, Execute

\* EthBlockExecutor keeps the contract of the trait BlockExecutor: whatever the
\* block, its transactions and its errors, its steps come in the documented
\* order, each committed transaction adds one receipt within the gas limit, and
\* a failed one leaves no trace.
THEOREM Implementation == Spec => ImplementsBlockExecutor
<1>1. Init => Abstract!Init
  BY DEF Init, Abstract!Init, Stage
<1>2. GasInv /\ ReceiptsInv /\ FieldsInv /\ [Next]_vars => [Abstract!Next]_Abstract!vars
  <2> SUFFICES ASSUME GasInv, ReceiptsInv, FieldsInv, [Next]_vars
               PROVE  [Abstract!Next]_Abstract!vars
    OBVIOUS
  <2>1. CASE Next
    BY <2>1, StepImplementation DEF FieldsInv
  <2>2. CASE UNCHANGED vars
    BY <2>2 DEF vars, result, Abstract!vars, Stage
  <2>3. QED
    BY <2>1, <2>2
<1>3. QED
  BY <1>1, <1>2, GasInvariant, ReceiptsInvariant, FieldsInvariant, PTL
  DEF Spec, ImplementsBlockExecutor, Abstract!Spec

-----------------------------------------------------------------------------
(***************************************************************************)
(* Nonces and balances.                                                     *)
(***************************************************************************)

\* A function that is zero but at one element sums up to its value there.
LEMMA SumOfSingle ==
    ASSUME NEW S, IsFiniteSet(S), NEW x \in S, NEW f, f[x] \in Int,
           \A y \in S \ {x} : f[y] = 0
    PROVE  SumFunctionOnSet(f, S) = f[x]
<1>1. IsFiniteSet(S \ {x})
  BY FS_RemoveElement
<1>2. SumFunctionOnSet(f, S \ {x}) = 0
  BY <1>1, SumOfZeroes
<1>3. \A y \in S : f[y] \in Int
  OBVIOUS
<1>4. SumFunctionOnSet(f, S) = f[x] + SumFunctionOnSet(f, S \ {x})
  BY <1>3, SumOfElement
<1>5. QED
  BY <1>2, <1>4

\* The database: the accounts the model knows, their nonces and balances
\* natural numbers.
Ledger(base) ==
    /\ base = [a \in Addresses |-> base[a]]
    /\ \A a \in Addresses :
        IsAccount(base[a]) /\ base[a].nonce \in Nat /\ base[a].balance \in Nat

\* Whether a committed account is empty or not, its nonce, balance and storage
\* are those of the changeset.
LEMMA CommitFields ==
    ASSUME NEW base, DOMAIN base = Addresses, NEW changes, NEW clear,
           NEW a \in Addresses
    PROVE  LET after == Commit(base, changes, clear)[a] IN
           IF a \in DOMAIN changes
           THEN /\ after.nonce = changes[a].nonce
                /\ after.balance = changes[a].balance
                /\ after.storage = changes[a].storage
           ELSE after = base[a]
BY DEF Commit, IsEmpty, NoAccount

\* What committing the result of a transaction does to the account a.
Moved(tx, success, base, after, a) ==
    /\ after[a].nonce = base[a].nonce + (IF a = tx.sender THEN 1 ELSE 0)
    /\ after[a].balance =
            base[a].balance - (IF success /\ a = tx.sender THEN tx.value ELSE 0)
                            + (IF success /\ a = tx.to THEN tx.value ELSE 0)
    /\ after[a].storage =
            IF /\ success /\ a = tx.to
               /\ a \in {WithdrawalContract, ConsolidationContract}
            THEN Append(base[a].storage, tx.sender) ELSE base[a].storage

LEMMA TxResultMoves ==
    ASSUME NEW tx \in AllTransactions, NEW base, Ledger(base), NEW clear,
           NEW res \in TxResults(tx, base), NEW a \in Addresses
    PROVE  /\ tx.value <= base[tx.sender].balance
           /\ Moved(tx, res.success, base, Commit(base, res.state, clear), a)
<1>1. /\ tx.sender \in Addresses /\ tx.to \in Addresses /\ tx.value \in Nat
  BY StateAssumption
<1>2. /\ DOMAIN base = Addresses /\ IsAccount(base[a])
      /\ base[a].nonce \in Nat /\ base[a].balance \in Nat
      /\ base[tx.sender].balance \in Nat
  BY <1>1 DEF Ledger
<1>3. tx.value <= base[tx.sender].balance
  <2>1. ~(base[tx.sender].balance < tx.value)
    BY DEF TxResults
  <2>2. QED
    BY <1>1, <1>2, <2>1
<1> DEFINE after == Commit(base, res.state, clear)
<1>4. CASE /\ res.success = FALSE
           /\ res.state = [x \in {tx.sender} |-> [base[tx.sender] EXCEPT !.nonce = @ + 1]]
  <2>1. CASE a = tx.sender
    <3>1. a \in DOMAIN res.state /\ res.state[a] = [base[a] EXCEPT !.nonce = @ + 1]
      BY <1>4, <2>1
    <3>2. /\ res.state[a].nonce = base[a].nonce + 1
          /\ res.state[a].balance = base[a].balance
          /\ res.state[a].storage = base[a].storage
      BY <1>2, <3>1 DEF IsAccount
    <3>3. /\ after[a].nonce = base[a].nonce + 1
          /\ after[a].balance = base[a].balance
          /\ after[a].storage = base[a].storage
      <4> HIDE DEF after
      <4>1. /\ after[a].nonce = res.state[a].nonce
            /\ after[a].balance = res.state[a].balance
            /\ after[a].storage = res.state[a].storage
        <5>1. DOMAIN base = Addresses /\ a \in DOMAIN res.state
          BY <1>2, <3>1
        <5>2. QED
          BY <5>1, CommitFields DEF after
      <4>2. QED
        BY <3>2, <4>1
    <3> HIDE DEF after
    <3>4. Moved(tx, res.success, base, after, a)
      BY <1>1, <1>2, <1>4, <2>1, <3>3 DEF Moved
    <3>5. QED
      BY <1>3, <3>4, Zenon DEF after
  <2>2. CASE a # tx.sender
    <3>1. after[a] = base[a]
      BY <1>2, <1>4, <2>2, CommitFields
    <3> HIDE DEF after
    <3>2. Moved(tx, res.success, base, after, a)
      BY <1>1, <1>2, <1>4, <2>2, <3>1 DEF Moved
    <3>3. QED
      BY <1>3, <3>2, Zenon DEF after
  <2>3. QED
    BY <2>1, <2>2
<1> DEFINE runs(x) == x = tx.to /\ x \in {WithdrawalContract, ConsolidationContract}
           moved(x) == [base[x] EXCEPT
                    !.nonce = @ + (IF x = tx.sender THEN 1 ELSE 0),
                    !.balance = @ - (IF x = tx.sender THEN tx.value ELSE 0)
                                  + (IF x = tx.to THEN tx.value ELSE 0),
                    !.storage = IF runs(x) THEN Append(@, tx.sender) ELSE @]
<1>5. CASE /\ res.success = TRUE
           /\ res.state = [x \in {tx.sender, tx.to} |-> moved(x)]
  <2>1. CASE a \in {tx.sender, tx.to}
    <3>1. a \in DOMAIN res.state /\ res.state[a] = moved(a)
      BY <1>5, <2>1
    <3>2. /\ moved(a).nonce = base[a].nonce + (IF a = tx.sender THEN 1 ELSE 0)
          /\ moved(a).balance = base[a].balance - (IF a = tx.sender THEN tx.value ELSE 0)
                                  + (IF a = tx.to THEN tx.value ELSE 0)
          /\ moved(a).storage = IF runs(a) THEN Append(base[a].storage, tx.sender)
                                           ELSE base[a].storage
      BY <1>2 DEF IsAccount
    <3> HIDE DEF moved
    <3>3. /\ after[a].nonce = moved(a).nonce
          /\ after[a].balance = moved(a).balance
          /\ after[a].storage = moved(a).storage
      BY <1>2, <3>1, CommitFields
    <3> HIDE DEF after
    <3>4. Moved(tx, res.success, base, after, a)
      BY <1>5, <3>2, <3>3 DEF Moved
    <3>5. QED
      BY <1>3, <3>4, Zenon DEF after
  <2>2. CASE a \notin {tx.sender, tx.to}
    <3>1. after[a] = base[a]
      BY <1>2, <1>5, <2>2, CommitFields
    <3> HIDE DEF after
    <3>2. Moved(tx, res.success, base, after, a)
      BY <1>1, <1>2, <1>5, <2>2, <3>1 DEF Moved
    <3>3. QED
      BY <1>3, <3>2, Zenon DEF after
  <2>3. QED
    BY <2>1, <2>2
<1>6. QED
  <2>1. \/ /\ res.success = FALSE
           /\ res.state = [x \in {tx.sender} |-> [base[tx.sender] EXCEPT !.nonce = @ + 1]]
        \/ /\ res.success = TRUE
           /\ res.state = [x \in {tx.sender, tx.to} |-> moved(x)]
    BY <1>1, <1>2, <1>3 DEF TxResults
  <2> HIDE DEF moved, after
  <2>2. QED
    BY <1>4, <1>5, <2>1 DEF after

\* What a system call leaves in the account a: a call that succeeds leaves the
\* storage given to it, and nothing else is another than before.
Called(contract, storage, success, base, after, a) ==
    /\ after[a].nonce = base[a].nonce
    /\ after[a].balance = base[a].balance
    /\ after[a].storage = IF success /\ a = contract THEN storage ELSE base[a].storage

LEMMA SystemCallKeeps ==
    ASSUME Ledger(db), NEW contract, NEW storage, NEW output, NEW clear,
           NEW res \in SystemCallResults(contract, storage, output),
           NEW a \in Addresses
    PROVE  Called(contract, storage, res.success, db, Commit(db, res.state, clear), a)
<1> DEFINE after == Commit(db, res.state, clear)
           same == [success |-> FALSE, output |-> <<>>, state |-> [x \in {contract} |-> db[x]]]
           done == [success |-> TRUE, output |-> output,
                    state |-> [x \in {contract} |-> [db[x] EXCEPT !.storage = storage]]]
<1>1. DOMAIN db = Addresses /\ IsAccount(db[a])
  BY DEF Ledger
<1>2. res = same \/ res = done
  BY DEF SystemCallResults
<1>3. CASE a = contract
  <2>1. /\ a \in DOMAIN same.state /\ same.state[a] = db[a] /\ same.success = FALSE
        /\ a \in DOMAIN done.state /\ done.success = TRUE
        /\ done.state[a] = [db[a] EXCEPT !.storage = storage]
    BY <1>3
  <2>2. /\ a \in DOMAIN res.state
        /\ res.state[a].nonce = db[a].nonce
        /\ res.state[a].balance = db[a].balance
        /\ res.state[a].storage = IF res.success THEN storage ELSE db[a].storage
    <3> HIDE DEF same, done
    <3>1. CASE res = same
      BY <2>1, <3>1
    <3>2. CASE res = done
      BY <1>1, <2>1, <3>2 DEF IsAccount
    <3>3. QED
      BY <1>2, <3>1, <3>2
  <2>3. /\ after[a].nonce = res.state[a].nonce
        /\ after[a].balance = res.state[a].balance
        /\ after[a].storage = res.state[a].storage
    BY <1>1, <2>2, CommitFields
  <2> HIDE DEF after
  <2>4. Called(contract, storage, res.success, db, after, a)
    BY <1>3, <2>2, <2>3 DEF Called
  <2>5. QED
    BY <2>4 DEF after
<1>4. CASE a # contract
  <2>1. a \notin DOMAIN res.state
    BY <1>2, <1>4
  <2>2. after[a] = db[a]
    BY <1>1, <2>1, CommitFields
  <2> HIDE DEF after
  <2>3. Called(contract, storage, res.success, db, after, a)
    BY <1>4, <2>2 DEF Called
  <2>4. QED
    BY <2>3 DEF after
<1>5. QED
  BY <1>3, <1>4

\* The nonce and the balance of every account stay as they are.
Quiet == \A a \in Addresses : /\ db'[a].nonce = db[a].nonce
                              /\ db'[a].balance = db[a].balance

\* The database and the receipts after a transaction was committed.
LEMMA CommitTransactionMoves ==
    ASSUME GasInv, Ledger(db), CommitTransaction
    PROVE  \E tx, success, r :
              /\ tx \in AllTransactions
              /\ tx.value <= db[tx.sender].balance
              /\ \A a \in Addresses : Moved(tx, success, db, db', a)
              /\ receipts' = Append(receipts, r)
              /\ r.type = tx.type /\ r.success = success
<1>1. PICK tx \in Submitted : \E res \in TxResults(tx, db) :
          /\ db' = Commit(db, res.state, stateClear)
          /\ receipts' = Append(receipts, BuildReceipt(tx, res, gasUsed'))
  BY DEF CommitTransaction, Committed, ReportAndCommit
<1>2. tx \in AllTransactions
  BY SubmittedTransactions DEF GasInv
<1>3. PICK res \in TxResults(tx, db) :
          /\ db' = Commit(db, res.state, stateClear)
          /\ receipts' = Append(receipts, BuildReceipt(tx, res, gasUsed'))
  BY <1>1
<1>4. \A a \in Addresses : /\ tx.value <= db[tx.sender].balance
                           /\ Moved(tx, res.success, db, db', a)
  BY <1>2, <1>3, TxResultMoves
<1>5. tx.value <= db[tx.sender].balance
  BY <1>2, <1>4, StateAssumption
<1>6. /\ BuildReceipt(tx, res, gasUsed').type = tx.type
      /\ BuildReceipt(tx, res, gasUsed').success = res.success
  BY DEF BuildReceipt
<1>7. QED
  BY <1>2, <1>3, <1>4, <1>5, <1>6

\* The system calls move no ether and no nonce.
LEMMA SystemCallsAreQuiet ==
    ASSUME Ledger(db),
           \/ ApplyBlockhashesContractCall \/ ApplyBeaconRootContractCall
           \/ ApplyWithdrawalRequestsContractCall
           \/ ApplyConsolidationRequestsContractCall
    PROVE  Quiet
<1>1. CASE db' = db
  BY <1>1 DEF Quiet
<1>2. CASE \E contract, storage, output, clear :
             \E res \in SystemCallResults(contract, storage, output) :
                db' = Commit(db, res.state, clear)
  <2>1. PICK contract, storage, output, clear :
             \E res \in SystemCallResults(contract, storage, output) :
                db' = Commit(db, res.state, clear)
    BY <1>2
  <2>2. PICK res \in SystemCallResults(contract, storage, output) :
                db' = Commit(db, res.state, clear)
    BY <2>1
  <2>3. \A a \in Addresses : Called(contract, storage, res.success, db, db', a)
    BY <2>2, SystemCallKeeps
  <2>4. QED
    BY <2>3 DEF Called, Quiet
<1>3. QED
  BY <1>1, <1>2 DEF ApplyBlockhashesContractCall, ApplyBeaconRootContractCall,
       ApplyWithdrawalRequestsContractCall, ApplyConsolidationRequestsContractCall,
       RequestsCall, ReportAndCommit, DequeueResults

\* Which steps move ether or nonces.
LEMMA LedgerSteps ==
    ASSUME Ledger(db), [Next]_vars
    PROVE  \/ CommitTransaction
           \/ CollectBalanceIncrements
           \/ IncrementBalances
           \/ /\ Quiet /\ UNCHANGED <<receipts, increments>>
              /\ phase' \in {"credit", "report"} => phase' = phase
<1>1. CASE \/ ApplyBlockhashesContractCall \/ ApplyBeaconRootContractCall
           \/ ApplyWithdrawalRequestsContractCall
           \/ ApplyConsolidationRequestsContractCall
  <2>1. UNCHANGED <<receipts, increments>> /\ phase' \notin {"credit", "report"}
    BY <1>1 DEF ApplyBlockhashesContractCall, ApplyBeaconRootContractCall,
         ApplyWithdrawalRequestsContractCall, ApplyConsolidationRequestsContractCall,
         RequestsCall, result
  <2>2. QED
    BY <1>1, <2>1, SystemCallsAreQuiet
<1>2. CASE \/ RejectTransaction \/ SkipTransaction \/ StartFinish
           \/ ReportBalanceIncrements \/ SetStateHook \/ UNCHANGED vars
  BY <1>2 DEF RejectTransaction, SkipTransaction, Skipped, StartFinish,
       ReportBalanceIncrements, SetStateHook, vars, result, Quiet
<1>3. QED
  BY <1>1, <1>2 DEF Next, Execute

\* Draining accounts empties them and leaves the others alone.
LEMMA DrainFields ==
    ASSUME Ledger(db), NEW some, NEW a \in Addresses
    PROVE  /\ Drain(db, some)[a].nonce = db[a].nonce
           /\ Drain(db, some)[a].storage = db[a].storage
           /\ Drain(db, some)[a].balance = IF a \in some THEN 0 ELSE db[a].balance
<1>1. DOMAIN db = Addresses /\ IsAccount(db[a])
  BY DEF Ledger
<1>2. Drain(db, some)[a] = IF a \in some
                           THEN [db[a] EXCEPT !.balance = 0, !.exists = TRUE]
                           ELSE db[a]
  BY <1>1 DEF Drain
<1>3. QED
  BY <1>1, <1>2 DEF IsAccount

\* Crediting adds the increments of the accounts reached, and nothing else.
LEMMA CreditFields ==
    ASSUME Ledger(db), \A x \in DOMAIN increments : increments[x] \in Nat,
           NEW some, NEW a \in Addresses
    PROVE  LET after == Credit(db, increments, some)[a]
           IN  /\ after.nonce = db[a].nonce
               /\ after.storage = db[a].storage
               /\ after.balance = db[a].balance
                    + (IF a \in some \cap DOMAIN increments THEN increments[a] ELSE 0)
<1> DEFINE after == Credit(db, increments, some)[a]
           hit == a \in some \cap DOMAIN increments
<1>1. DOMAIN db = Addresses /\ IsAccount(db[a]) /\ db[a].balance \in Nat
  BY DEF Ledger
<1>2. CASE hit /\ increments[a] # 0
  <2>1. after = [db[a] EXCEPT !.balance = @ + increments[a], !.exists = TRUE]
    BY <1>1, <1>2 DEF Credit
  <2>2. QED
    BY <1>1, <1>2, <2>1 DEF IsAccount
<1>3. CASE ~(hit /\ increments[a] # 0)
  <2>1. after = db[a]
    BY <1>1, <1>3 DEF Credit
  <2>2. QED
    BY <1>1, <1>3, <2>1
<1>4. QED
  BY <1>2, <1>3

\* What BalanceConserved and ReceiptPerCommit need to know of the fields.
LedgerInv ==
    /\ Ledger(db)
    /\ \A a \in DOMAIN increments : increments[a] \in Nat

\* An amount more for one account.
LEMMA BumpFields ==
    ASSUME NEW map, \A x \in DOMAIN map : map[x] \in Nat, NEW a, NEW amount \in Nat
    PROVE  \A x \in DOMAIN Bump(map, a, amount) : Bump(map, a, amount)[x] \in Nat
BY DEF Bump

LEMMA LedgerInvariant == Spec => []LedgerInv
<1>1. Init => LedgerInv
  BY AddressAssumption, StateAssumption DEF Init, LedgerInv, Ledger, NoIncrements
<1>2. GasInv /\ HookInv /\ HookInv' /\ LedgerInv /\ [Next]_vars => LedgerInv'
  <2> SUFFICES ASSUME GasInv, HookInv, HookInv', LedgerInv, [Next]_vars PROVE LedgerInv'
    OBVIOUS
  <2>0. /\ Ledger(db) /\ blk \in Blocks
        /\ db' = [a \in Addresses |-> db'[a]]
        /\ \A a \in Addresses : IsAccount(db'[a])
        /\ \A a \in DOMAIN increments : increments[a] \in Nat
    BY DEF HookInv, LedgerInv
  <2>1. ASSUME \A a \in Addresses : db'[a].nonce \in Nat /\ db'[a].balance \in Nat,
               \A a \in DOMAIN increments' : increments'[a] \in Nat
        PROVE  LedgerInv'
    BY <2>0, <2>1 DEF LedgerInv, Ledger
  <2>2. CASE CommitTransaction
    <3>1. PICK tx, success :
              /\ tx \in AllTransactions
              /\ tx.value <= db[tx.sender].balance
              /\ \A a \in Addresses : Moved(tx, success, db, db', a)
      BY <2>0, <2>2, CommitTransactionMoves
    <3>2. tx.value \in Nat
      BY <3>1, StateAssumption
    <3>3. ASSUME NEW a \in Addresses PROVE db'[a].nonce \in Nat /\ db'[a].balance \in Nat
      BY <2>0, <3>1, <3>2 DEF Ledger, Moved
    <3>4. increments' = increments
      BY <2>2 DEF CommitTransaction, Committed
    <3>5. QED
      BY <2>0, <2>1, <3>3, <3>4
  <2>3. CASE CollectBalanceIncrements
    <3> DEFINE base == PostBlockBalanceIncrements(blk)
    <3>1. ASSUME NEW a \in Addresses PROVE db'[a].nonce \in Nat /\ db'[a].balance \in Nat
      <4>1. db' = db \/ \E some : db' = Drain(db, some)
        BY <2>3 DEF CollectBalanceIncrements
      <4>2. QED
        BY <2>0, <4>1, DrainFields DEF Ledger
    <3>2. \A a \in DOMAIN base : base[a] \in Nat
      BY <2>0, IncrementsOfAccounts
    <3>3. TotalBalance(db, DaoAccounts) \in Nat
      <4>1. IsFiniteSet(DaoAccounts) /\ DaoAccounts \subseteq Addresses
        BY AddressAssumption, StateAssumption, FS_Subset
      <4>2. \A a \in DaoAccounts : [x \in DaoAccounts |-> db[x].balance][a] \in Nat
        BY <2>0, <4>1 DEF Ledger
      <4>3. QED
        BY <4>1, <4>2, SumType DEF TotalBalance
    <3> HIDE DEF base
    <3>4. \A a \in DOMAIN DaoIncrements(base) : DaoIncrements(base)[a] \in Nat
      BY <3>2, <3>3, BumpFields DEF DaoIncrements
    <3>5. increments' \in {increments, base, DaoIncrements(base)}
      BY <2>3 DEF CollectBalanceIncrements, base
    <3>6. QED
      BY <2>0, <2>1, <3>1, <3>2, <3>4, <3>5
  <2>4. CASE IncrementBalances
    <3>1. PICK some : db' = Credit(db, increments, some)
      BY <2>4 DEF IncrementBalances
    <3>2. increments' = increments
      BY <2>4 DEF IncrementBalances
    <3>3. ASSUME NEW a \in Addresses PROVE db'[a].nonce \in Nat /\ db'[a].balance \in Nat
      BY <2>0, <3>1, CreditFields DEF Ledger
    <3>4. QED
      BY <2>0, <2>1, <3>2, <3>3
  <2>5. CASE Quiet /\ UNCHANGED <<receipts, increments>>
    BY <2>0, <2>1, <2>5 DEF Quiet, Ledger
  <2>6. QED
    BY <2>0, <2>2, <2>3, <2>4, <2>5, LedgerSteps
<1>3. QED
  BY <1>1, <1>2, GasInvariant, HookInvariant, PTL DEF Spec

\* How far the nonce of every account has moved in the block.
NonceMoves(base) == [a \in Addresses |-> base[a].nonce - InitialState[a].nonce]

\* One receipt per committed transaction: the nonces moved in the database
\* count the receipts, whatever was skipped, rejected or failed.
THEOREM NoncesCountReceipts == Spec => []ReceiptPerCommit
<1> USE DEF NonceMoves
<1>0. /\ IsFiniteSet(Addresses)
      /\ \A a \in Addresses : InitialState[a].nonce \in Nat
  BY StateAssumption
<1>1. Init => ReceiptPerCommit
  <2> SUFFICES ASSUME Init PROVE SumFunctionOnSet(NonceMoves(db), Addresses) = Len(receipts)
    BY DEF ReceiptPerCommit, SumFunction
  <2>1. \A a \in Addresses : NonceMoves(db)[a] = 0
    BY <1>0 DEF Init
  <2>2. receipts = <<>>
    BY DEF Init
  <2> HIDE DEF NonceMoves
  <2>3. QED
    BY <1>0, <2>1, <2>2, SumOfZeroes
<1>2. GasInv /\ ReceiptsInv /\ LedgerInv /\ LedgerInv' /\ ReceiptPerCommit /\ [Next]_vars
          => ReceiptPerCommit'
  <2> SUFFICES ASSUME GasInv, ReceiptsInv, LedgerInv, LedgerInv', [Next]_vars,
                      SumFunctionOnSet(NonceMoves(db), Addresses) = Len(receipts)
               PROVE  SumFunctionOnSet(NonceMoves(db'), Addresses) = Len(receipts')
    BY DEF ReceiptPerCommit, SumFunction
  <2>0. \A a \in Addresses :
          /\ db[a].nonce \in Nat /\ db'[a].nonce \in Nat
          /\ NonceMoves(db)[a] \in Int /\ NonceMoves(db')[a] \in Int
    BY <1>0 DEF LedgerInv, Ledger
  <2>1. CASE CommitTransaction
    <3>1. PICK tx, success :
              /\ tx \in AllTransactions
              /\ \A a \in Addresses : Moved(tx, success, db, db', a)
      BY <2>1, CommitTransactionMoves DEF LedgerInv
    <3>2. tx.sender \in Addresses
      BY <3>1, StateAssumption
    <3>3. Len(receipts') = Len(receipts) + 1
      <4>1. \E r \in Receipt : receipts' = Append(receipts, r)
        BY <2>1, CommitTransactionReceipt
      <4>2. QED
        BY <4>1 DEF ReceiptsInv
    <3> DEFINE one == [a \in Addresses |-> IF a = tx.sender THEN 1 ELSE 0]
    <3>4. SumFunctionOnSet(one, Addresses) = 1
      <4>1. /\ one[tx.sender] = 1 /\ one[tx.sender] \in Int
            /\ \A a \in Addresses \ {tx.sender} : one[a] = 0
        BY <3>2
      <4> HIDE DEF one
      <4>2. QED
        BY <1>0, <3>2, <4>1, SumOfSingle
    <3>5. \A a \in Addresses :
            /\ NonceMoves(db)[a] \in Int /\ one[a] \in Int
            /\ NonceMoves(db')[a] = NonceMoves(db)[a] + one[a]
      BY <1>0, <2>0, <3>1 DEF Moved
    <3> HIDE DEF one, NonceMoves
    <3>6. SumFunctionOnSet(NonceMoves(db'), Addresses)
            = SumFunctionOnSet(NonceMoves(db), Addresses) + SumFunctionOnSet(one, Addresses)
      BY <1>0, <3>5, SumOfSums
    <3>7. QED
      BY <3>3, <3>4, <3>6
  <2>2. CASE (\A a \in Addresses : db'[a].nonce = db[a].nonce) /\ UNCHANGED receipts
    <3>1. \A a \in Addresses :
            NonceMoves(db)[a] \in Int /\ NonceMoves(db')[a] = NonceMoves(db)[a]
      BY <2>0, <2>2
    <3> HIDE DEF NonceMoves
    <3>2. QED
      BY <1>0, <2>2, <3>1, SumOfEquals
  <2>3. CASE CollectBalanceIncrements
    <3>1. receipts' = receipts /\ (db' = db \/ \E some : db' = Drain(db, some))
      BY <2>3 DEF CollectBalanceIncrements, result
    <3>2. QED
      BY <2>2, <3>1, DrainFields DEF LedgerInv
  <2>4. CASE IncrementBalances
    <3>1. receipts' = receipts /\ \E some : db' = Credit(db, increments, some)
      BY <2>4 DEF IncrementBalances, result
    <3>2. QED
      BY <2>2, <3>1, CreditFields DEF LedgerInv
  <2>5. QED
    BY <2>1, <2>2, <2>3, <2>4, LedgerSteps DEF LedgerInv, Quiet
<1>3. QED
  BY <1>1, <1>2, GasInvariant, ReceiptsInvariant, LedgerInvariant, PTL DEF Spec

-----------------------------------------------------------------------------
(***************************************************************************)
(* Ether.                                                                   *)
(***************************************************************************)

Balances(base, accounts) == [a \in accounts |-> base[a].balance]

\* Balances of known accounts add up to a natural number.
LEMMA TotalBalanceType ==
    ASSUME NEW base, Ledger(base), NEW accounts \in SUBSET Addresses
    PROVE  /\ IsFiniteSet(accounts)
           /\ TotalBalance(base, accounts) = SumFunctionOnSet(Balances(base, accounts), accounts)
           /\ TotalBalance(base, accounts) \in Nat
<1>1. IsFiniteSet(accounts)
  BY StateAssumption, FS_Subset
<1>2. \A a \in accounts : Balances(base, accounts)[a] \in Nat
  BY DEF Balances, Ledger
<1>3. SumFunctionOnSet(Balances(base, accounts), accounts) \in Nat
  BY <1>1, <1>2, SumType
<1>4. QED
  BY <1>1, <1>3 DEF TotalBalance, Balances

\* Totals of databases whose balances are the same.
LEMMA TotalOfEquals ==
    ASSUME NEW base, Ledger(base), NEW after, Ledger(after),
           \A a \in Addresses : after[a].balance = base[a].balance
    PROVE  TotalBalance(after, Addresses) = TotalBalance(base, Addresses)
<1>1. \A a \in Addresses : /\ Balances(base, Addresses)[a] \in Int
                           /\ Balances(after, Addresses)[a] = Balances(base, Addresses)[a]
  BY DEF Balances, Ledger
<1>2. QED
  BY <1>1, StateAssumption, SumOfEquals, TotalBalanceType

\* A map of amounts, extended with zeroes to all of S, adds up to the same.
LEMMA SumOfExtension ==
    ASSUME NEW S, IsFiniteSet(S), NEW T \in SUBSET S, NEW map, NEW f,
           \A x \in T : map[x] \in Nat,
           f = [x \in S |-> IF x \in T THEN map[x] ELSE 0]
    PROVE  SumFunctionOnSet(f, S) = SumFunctionOnSet(map, T)
<1>1. /\ \A x \in S : f[x] \in Int
      /\ \A x \in S \ T : f[x] = 0
      /\ \A x \in T : map[x] \in Int /\ f[x] = map[x]
  OBVIOUS
<1>2. IsFiniteSet(T)
  BY FS_Subset
<1>3. SumFunctionOnSet(f, S) = SumFunctionOnSet(f, T)
  BY <1>1, SumOfSubset
<1>4. SumFunctionOnSet(f, T) = SumFunctionOnSet(map, T)
  BY <1>1, <1>2, SumOfEquals
<1>5. QED
  BY <1>3, <1>4

\* A transaction moves ether from its sender to its recipient, or none.
LEMMA TransactionConserves ==
    ASSUME NEW base, Ledger(base), NEW after, Ledger(after),
           NEW tx \in AllTransactions, NEW success,
           \A a \in Addresses : Moved(tx, success, base, after, a)
    PROVE  TotalBalance(after, Addresses) = TotalBalance(base, Addresses)
<1> DEFINE amount == IF success THEN tx.value ELSE 0
           paid == [a \in Addresses |-> IF a = tx.sender THEN amount ELSE 0]
           got == [a \in Addresses |-> IF a = tx.to THEN amount ELSE 0]
           old == Balances(base, Addresses)
           new == Balances(after, Addresses)
           both == [a \in Addresses |-> new[a] + paid[a]]
<1>1. /\ tx.sender \in Addresses /\ tx.to \in Addresses /\ amount \in Nat
      /\ IsFiniteSet(Addresses)
  BY StateAssumption
<1>2. SumFunctionOnSet(paid, Addresses) = amount
  <2>1. /\ paid[tx.sender] = amount
        /\ \A a \in Addresses \ {tx.sender} : paid[a] = 0
    BY <1>1
  <2> HIDE DEF paid, amount
  <2>2. QED
    BY <1>1, <2>1, SumOfSingle
<1>3. SumFunctionOnSet(got, Addresses) = amount
  <2>1. /\ got[tx.to] = amount
        /\ \A a \in Addresses \ {tx.to} : got[a] = 0
    BY <1>1
  <2> HIDE DEF got, amount
  <2>2. QED
    BY <1>1, <2>1, SumOfSingle
<1>4. ASSUME NEW a \in Addresses
      PROVE  /\ new[a] \in Int /\ paid[a] \in Int /\ both[a] = new[a] + paid[a]
             /\ old[a] \in Int /\ got[a] \in Int /\ both[a] = old[a] + got[a]
  <2>1. /\ after[a].balance = base[a].balance - (IF success /\ a = tx.sender THEN tx.value ELSE 0)
                                + (IF success /\ a = tx.to THEN tx.value ELSE 0)
        /\ base[a].balance \in Nat /\ after[a].balance \in Nat
    BY DEF Moved, Ledger
  <2>2. /\ paid[a] = (IF success /\ a = tx.sender THEN tx.value ELSE 0)
        /\ got[a] = (IF success /\ a = tx.to THEN tx.value ELSE 0)
        /\ new[a] = after[a].balance /\ old[a] = base[a].balance
        /\ both[a] = new[a] + paid[a]
    BY DEF Balances
  <2>3. tx.value \in Nat
    BY StateAssumption
  <2> HIDE DEF paid, got, new, old, both
  <2>4. QED
    BY <2>1, <2>2, <2>3
<1> HIDE DEF paid, got, new, old, both
<1>5. /\ SumFunctionOnSet(both, Addresses)
            = SumFunctionOnSet(new, Addresses) + SumFunctionOnSet(paid, Addresses)
      /\ SumFunctionOnSet(both, Addresses)
            = SumFunctionOnSet(old, Addresses) + SumFunctionOnSet(got, Addresses)
  BY <1>1, <1>4, SumOfSums
<1>6. /\ TotalBalance(base, Addresses) = SumFunctionOnSet(old, Addresses)
      /\ TotalBalance(after, Addresses) = SumFunctionOnSet(new, Addresses)
      /\ TotalBalance(base, Addresses) \in Nat /\ TotalBalance(after, Addresses) \in Nat
  BY TotalBalanceType DEF new, old
<1>7. QED
  BY <1>1, <1>2, <1>3, <1>5, <1>6

\* What a drain takes is what the drained accounts had.
LEMMA DrainTotal ==
    ASSUME Ledger(db), NEW some \in SUBSET Addresses, Ledger(Drain(db, some))
    PROVE  TotalBalance(db, Addresses)
              = TotalBalance(Drain(db, some), Addresses) + TotalBalance(db, some)
<1> DEFINE old == Balances(db, Addresses)
           new == Balances(Drain(db, some), Addresses)
           had == Balances(db, some)
           taken == [a \in Addresses |-> IF a \in some THEN had[a] ELSE 0]
<1>1. IsFiniteSet(Addresses)
  BY StateAssumption
<1>2. ASSUME NEW a \in Addresses
      PROVE  new[a] \in Int /\ taken[a] \in Int /\ old[a] = new[a] + taken[a]
  <2>1. /\ Drain(db, some)[a].balance = IF a \in some THEN 0 ELSE db[a].balance
        /\ db[a].balance \in Nat
    BY DrainFields DEF Ledger
  <2>2. QED
    BY <2>1 DEF Balances
<1>3. \A a \in some : had[a] \in Nat
  BY DEF Balances, Ledger
<1> HIDE DEF old, new, had
<1>4. SumFunctionOnSet(taken, Addresses) = SumFunctionOnSet(had, some)
  BY <1>1, <1>3, SumOfExtension
<1> HIDE DEF taken
<1>5. SumFunctionOnSet(old, Addresses)
        = SumFunctionOnSet(new, Addresses) + SumFunctionOnSet(taken, Addresses)
  BY <1>1, <1>2, SumOfSums
<1>6. QED
  BY <1>4, <1>5, TotalBalanceType DEF old, new, had

\* Crediting every increment adds all of them.
LEMMA CreditTotal ==
    ASSUME LedgerInv, DOMAIN increments \subseteq Addresses,
           Ledger(Credit(db, increments, Addresses))
    PROVE  TotalBalance(Credit(db, increments, Addresses), Addresses)
              = TotalBalance(db, Addresses) + SumFunction(increments)
<1> DEFINE old == Balances(db, Addresses)
           new == Balances(Credit(db, increments, Addresses), Addresses)
           added == [a \in Addresses |-> IF a \in DOMAIN increments THEN increments[a] ELSE 0]
<1>1. IsFiniteSet(Addresses) /\ Ledger(db)
      /\ \A a \in DOMAIN increments : increments[a] \in Nat
  BY StateAssumption DEF LedgerInv
<1>2. ASSUME NEW a \in Addresses
      PROVE  old[a] \in Int /\ added[a] \in Int /\ new[a] = old[a] + added[a]
  <2>1. /\ Credit(db, increments, Addresses)[a].balance
              = db[a].balance + (IF a \in Addresses \cap DOMAIN increments
                                 THEN increments[a] ELSE 0)
        /\ db[a].balance \in Nat
    BY <1>1, CreditFields DEF Ledger
  <2>2. QED
    BY <1>1, <2>1 DEF Balances
<1> HIDE DEF old, new
<1>3. SumFunctionOnSet(added, Addresses) = SumFunctionOnSet(increments, DOMAIN increments)
  BY <1>1, SumOfExtension
<1> HIDE DEF added
<1>4. SumFunctionOnSet(new, Addresses)
        = SumFunctionOnSet(old, Addresses) + SumFunctionOnSet(added, Addresses)
  BY <1>1, <1>2, SumOfSums
<1>5. QED
  BY <1>1, <1>3, <1>4, TotalBalanceType DEF old, new, SumFunction

\* Bumping an account adds the amount to the sum.
LEMMA BumpTotal ==
    ASSUME NEW map, IsFiniteSet(DOMAIN map), \A x \in DOMAIN map : map[x] \in Nat,
           NEW a, NEW amount \in Nat
    PROVE  SumFunction(Bump(map, a, amount)) = SumFunction(map) + amount
<1> DEFINE S == DOMAIN map \cup {a}
           before == [x \in S |-> IF x \in DOMAIN map THEN map[x] ELSE 0]
           added == [x \in S |-> IF x = a THEN amount ELSE 0]
           after == Bump(map, a, amount)
<1>1. IsFiniteSet(S)
  BY FS_AddElement
<1>2. SumFunctionOnSet(before, S) = SumFunctionOnSet(map, DOMAIN map)
  BY <1>1, SumOfExtension
<1>3. SumFunctionOnSet(added, S) = amount
  <2>1. added[a] = amount /\ a \in S /\ \A x \in S \ {a} : added[x] = 0
    OBVIOUS
  <2> HIDE DEF added, S
  <2>2. QED
    BY <1>1, <2>1, SumOfSingle
<1>4. DOMAIN after = S
  BY DEF Bump
<1>5. \A x \in S : before[x] \in Int /\ added[x] \in Int /\ after[x] = before[x] + added[x]
  BY DEF Bump
<1> HIDE DEF S, before, added, after
<1>6. SumFunctionOnSet(after, S) = SumFunctionOnSet(before, S) + SumFunctionOnSet(added, S)
  BY <1>1, <1>5, SumOfSums
<1>7. QED
  BY <1>2, <1>3, <1>4, <1>6 DEF SumFunction, after

\* The ether the block has created so far, and what it shall have created.
Created == TotalBalance(db, Addresses) - TotalBalance(InitialState, Addresses)
Minted == SumFunction(PostBlockBalanceIncrements(blk))

\* The inductive strengthening of BalanceConserved: between the collection of
\* the increments and their credit, what the DAO lost is in the increments.
BalanceInv ==
    /\ phase \notin {"credit", "report", "done", "failed"} => Created = 0
    /\ phase = "credit" => Created + SumFunction(increments) = Minted
    /\ phase \in {"report", "done"} => Created = Minted

\* Ether is created by the block's rewards and withdrawals alone, each applied
\* once: transactions and the DAO drain, for any amounts, only move it.
THEOREM EtherConserved == Spec => []BalanceConserved
<1> DEFINE initial == TotalBalance(InitialState, Addresses)
<1>1. Init => BalanceInv
  <2>1. Ledger(InitialState)
    BY AddressAssumption, StateAssumption DEF Ledger
  <2>2. initial \in Nat
    BY <2>1, TotalBalanceType
  <2>3. QED
    BY <2>2 DEF Init, BalanceInv, Created
<1>2. /\ GasInv /\ HookInv /\ FieldsInv /\ LedgerInv /\ LedgerInv' /\ BalanceInv
      /\ [Next]_vars
      => BalanceInv'
  <2> SUFFICES ASSUME GasInv, HookInv, FieldsInv, LedgerInv, LedgerInv', BalanceInv,
                      [Next]_vars
               PROVE  BalanceInv'
    OBVIOUS
  <2> DEFINE total == TotalBalance(db, Addresses)
             after == TotalBalance(db', Addresses)
  <2>1. /\ Ledger(db) /\ Ledger(db')
        /\ Ledger(InitialState)
        /\ total \in Nat /\ after \in Nat /\ initial \in Nat
    <3>1. Ledger(db) /\ Ledger(db') /\ Ledger(InitialState)
      BY AddressAssumption, StateAssumption DEF LedgerInv, Ledger
    <3>2. QED
      BY <3>1, TotalBalanceType
  <2>2. /\ Created = total - initial /\ Created' = after - initial
        /\ blk' = blk /\ Minted' = Minted
    <3>1. blk' = blk
      BY OtherStepsKeepCaller
    <3>2. QED
      BY <3>1 DEF Created, Minted
  <2> HIDE DEF total, after, initial
  <2>3. CASE /\ after = total /\ increments' = increments
             /\ phase' \in {"credit", "report"} => phase' = phase
    BY <2>1, <2>2, <2>3, PhaseSteps DEF BalanceInv
  <2>4. CASE CommitTransaction
    <3>1. /\ phase' = phase /\ increments' = increments
      BY <2>4 DEF CommitTransaction, Committed
    <3>2. PICK tx, success :
              /\ tx \in AllTransactions
              /\ \A a \in Addresses : Moved(tx, success, db, db', a)
      BY <2>1, <2>4, CommitTransactionMoves
    <3>3. after = total
      BY <2>1, <3>2, TransactionConserves DEF after, total
    <3>4. QED
      BY <2>3, <3>1, <3>3
  <2>5. CASE CollectBalanceIncrements
    <3> DEFINE base == PostBlockBalanceIncrements(blk)
               dao == TotalBalance(db, DaoAccounts)
    <3>1. /\ phase = "increments"
          /\ \/ phase' = "failed"
             \/ phase' = "credit" /\ increments' = base /\ db' = db
             \/ /\ phase' = "credit" /\ increments' = DaoIncrements(base)
                /\ db' = Drain(db, DaoAccounts)
      BY <2>5 DEF CollectBalanceIncrements
    <3>2. /\ DOMAIN base \subseteq Addresses
          /\ \A a \in DOMAIN base : base[a] \in Nat
          /\ IsFiniteSet(DOMAIN base)
      <4>1. blk \in Blocks
        BY DEF GasInv
      <4>2. /\ DOMAIN base \subseteq Addresses
            /\ \A a \in DOMAIN base : base[a] \in Nat
        BY <4>1, IncrementsOfAccounts
      <4>3. QED
        BY <4>2, StateAssumption, FS_Subset
    <3>3. Minted \in Nat /\ Minted = SumFunction(base)
      BY <3>2, SumType DEF Minted, SumFunction
    <3>4. total = initial
      BY <2>1, <2>2, <3>1 DEF BalanceInv
    <3> HIDE DEF base
    <3>5. CASE phase' = "failed"
      BY <3>5 DEF BalanceInv
    <3>6. CASE phase' = "credit" /\ increments' = base /\ db' = db
      <4>1. after = total
        BY <3>6 DEF after, total
      <4>2. QED
        BY <2>1, <2>2, <3>3, <3>4, <3>6, <4>1 DEF BalanceInv
    <3>7. CASE /\ phase' = "credit" /\ increments' = DaoIncrements(base)
               /\ db' = Drain(db, DaoAccounts)
      <4>1. DaoAccounts \in SUBSET Addresses
        BY AddressAssumption
      <4>2. total = after + dao
        <5>1. Ledger(Drain(db, DaoAccounts))
          BY <2>1, <3>7
        <5>2. TotalBalance(db, Addresses)
                = TotalBalance(Drain(db, DaoAccounts), Addresses) + TotalBalance(db, DaoAccounts)
          BY <2>1, <4>1, <5>1, DrainTotal
        <5>3. QED
          BY <3>7, <5>2 DEF total, after
      <4>3. dao \in Nat
        BY <2>1, <4>1, TotalBalanceType
      <4>4. SumFunction(increments') = Minted + dao
        BY <3>2, <3>3, <3>7, <4>3, BumpTotal DEF DaoIncrements
      <4> HIDE DEF dao
      <4>5. Created' + SumFunction(increments') = Minted
        BY <2>1, <2>2, <3>3, <3>4, <4>2, <4>3, <4>4
      <4>6. SumFunction(increments)' = SumFunction(increments')
        BY DEF SumFunction
      <4>7. QED
        BY <2>2, <3>7, <4>5, <4>6 DEF BalanceInv
    <3>8. QED
      BY <3>1, <3>5, <3>6, <3>7
  <2>6. CASE IncrementBalances
    <3>1. /\ phase = "credit"
          /\ \/ phase' = "failed"
             \/ phase' = "report" /\ db' = Credit(db, increments, Addresses)
      BY <2>6 DEF IncrementBalances
    <3>2. CASE phase' = "failed"
      BY <3>2 DEF BalanceInv
    <3>3. CASE phase' = "report" /\ db' = Credit(db, increments, Addresses)
      <4>1. after = total + SumFunction(increments)
        <5>1. DOMAIN increments \subseteq Addresses /\ Ledger(Credit(db, increments, Addresses))
          BY <2>1, <3>3 DEF HookInv
        <5>2. TotalBalance(Credit(db, increments, Addresses), Addresses)
                = TotalBalance(db, Addresses) + SumFunction(increments)
          BY <5>1, CreditTotal
        <5>3. QED
          BY <3>3, <5>2 DEF total, after
      <4>2. SumFunction(increments) \in Nat
        <5>1. DOMAIN increments \in SUBSET Addresses /\ IsFiniteSet(Addresses)
              /\ \A a \in DOMAIN increments : increments[a] \in Nat
          BY StateAssumption DEF HookInv, LedgerInv
        <5>2. IsFiniteSet(DOMAIN increments)
          BY <5>1, FS_Subset
        <5>3. QED
          BY <5>1, <5>2, SumType DEF SumFunction
      <4>3. total - initial + SumFunction(increments) = Minted
        BY <2>2, <3>1 DEF BalanceInv
      <4>4. after - initial = Minted
        BY <2>1, <4>1, <4>2, <4>3
      <4>5. QED
        BY <2>2, <3>3, <4>4 DEF BalanceInv
    <3>4. QED
      BY <3>1, <3>2, <3>3
  <2>7. CASE /\ Quiet /\ UNCHANGED <<receipts, increments>>
             /\ phase' \in {"credit", "report"} => phase' = phase
    <3>1. after = total
      BY <2>1, <2>7, TotalOfEquals DEF Quiet, after, total
    <3>2. QED
      BY <2>3, <2>7, <3>1
  <2>8. QED
    BY <2>1, <2>4, <2>5, <2>6, <2>7, LedgerSteps
<1>3. BalanceInv => BalanceConserved
  BY DEF BalanceInv, BalanceConserved, Created, Minted
<1>4. QED
  BY <1>1, <1>2, <1>3, GasInvariant, HookInvariant, FieldsInvariant, LedgerInvariant, PTL
  DEF Spec

-----------------------------------------------------------------------------
(***************************************************************************)
(* What the system contracts hold.                                          *)
(***************************************************************************)

LEMMA OneMoreElement ==
    ASSUME NEW s, IsFiniteSet(s), NEW n \in Nat, Cardinality(s) <= n, NEW x
    PROVE  IsFiniteSet(s \cup {x}) /\ Cardinality(s \cup {x}) <= n + 1
<1>1. Cardinality(s) \in Nat
  BY FS_CardinalityType
<1>2. /\ IsFiniteSet(s \cup {x})
      /\ Cardinality(s \cup {x}) = Cardinality(s) \/ Cardinality(s \cup {x}) = Cardinality(s) + 1
  BY FS_AddElement
<1>3. QED
  BY <1>1, <1>2

LEMMA FourElements ==
    ASSUME NEW a, NEW b, NEW c, NEW d
    PROVE  Cardinality({a, b, c, d}) <= 4
<1>1. IsFiniteSet({a}) /\ Cardinality({a}) <= 1
  <2>1. IsFiniteSet({a}) /\ Cardinality({a}) = 1
    BY FS_Singleton
  <2>2. QED
    BY <2>1
<1>2. IsFiniteSet({a} \cup {b}) /\ Cardinality({a} \cup {b}) <= 1 + 1
  BY <1>1, OneMoreElement
<1>3. {a} \cup {b} = {a, b}
  OBVIOUS
<1>4. IsFiniteSet({a, b}) /\ Cardinality({a, b}) <= 2
  BY <1>2, <1>3
<1>5. IsFiniteSet({a, b} \cup {c}) /\ Cardinality({a, b} \cup {c}) <= 2 + 1
  BY <1>4, OneMoreElement
<1>6. {a, b} \cup {c} = {a, b, c}
  OBVIOUS
<1>7. IsFiniteSet({a, b, c}) /\ Cardinality({a, b, c}) <= 3
  BY <1>5, <1>6
<1>8. Cardinality({a, b, c} \cup {d}) <= 3 + 1
  BY <1>7, OneMoreElement
<1>9. {a, b, c} \cup {d} = {a, b, c, d}
  OBVIOUS
<1>10. QED
  BY <1>8, <1>9

\* No two system contracts share an address.
LEMMA DistinctContracts ==
    /\ HistoryContract \notin {BeaconContract, WithdrawalContract, ConsolidationContract}
    /\ BeaconContract \notin {WithdrawalContract, ConsolidationContract}
    /\ WithdrawalContract # ConsolidationContract
<1> DEFINE h == HistoryContract
           b == BeaconContract
           w == WithdrawalContract
           c == ConsolidationContract
           d == DepositContract
<1>1. Cardinality({h, b, w, c, d}) = 5
  BY AddressAssumption DEF SystemContracts
<1>2. /\ Cardinality({b, w, c, d}) <= 4
      /\ Cardinality({h, w, c, d}) <= 4
      /\ Cardinality({h, b, c, d}) <= 4
  BY FourElements
<1> HIDE DEF h, b, w, c, d
<1>3. /\ {h, b, w, c, d} # {b, w, c, d}
      /\ {h, b, w, c, d} # {h, w, c, d}
      /\ {h, b, w, c, d} # {h, b, c, d}
  BY <1>1, <1>2
<1>4. /\ h = b \/ h = w \/ h = c => {h, b, w, c, d} = {b, w, c, d}
      /\ b = w \/ b = c => {h, b, w, c, d} = {h, w, c, d}
      /\ w = c => {h, b, w, c, d} = {h, b, c, d}
  OBVIOUS
<1>5. h # b /\ h # w /\ h # c /\ b # w /\ b # c /\ w # c
  BY <1>3, <1>4
<1>6. QED
  BY <1>5 DEF h, b, w, c, d

\* Which step changes what a contract holds.
LEMMA StorageSteps ==
    ASSUME LedgerInv, GasInv, [Next]_vars,
           NEW a \in Addresses, db'[a].storage # db[a].storage
    PROVE  \/ /\ a = HistoryContract /\ CallsHistoryContract
              /\ db'[a].storage = <<blk.parentHash>>
           \/ /\ a = BeaconContract /\ CallsBeaconContract
              /\ db'[a].storage = <<blk.parentBeaconRoot>>
           \/ /\ a \in {WithdrawalContract, ConsolidationContract}
              /\ CommitTransaction
           \/ a = WithdrawalContract /\ ApplyWithdrawalRequestsContractCall
           \/ a = ConsolidationContract /\ ApplyConsolidationRequestsContractCall
<1>0. Ledger(db)
  BY DEF LedgerInv
<1>1. db' # db
  OBVIOUS
<1>2. ASSUME NEW contract, NEW storage, NEW output, NEW clear,
             NEW res \in SystemCallResults(contract, storage, output),
             db' = Commit(db, res.state, clear)
      PROVE  a = contract /\ db'[a].storage = storage
  <2>1. Called(contract, storage, res.success, db, db', a)
    BY <1>0, <1>2, SystemCallKeeps
  <2>2. QED
    BY <2>1 DEF Called
<1>3. CASE ApplyBlockhashesContractCall
  <2>1. CallsHistoryContract
        /\ \E res \in SystemCallResults(HistoryContract, <<blk.parentHash>>, <<>>) :
              db' = Commit(db, res.state, stateClear')
    BY <1>1, <1>3 DEF ApplyBlockhashesContractCall, ReportAndCommit
  <2>2. QED
    BY <1>2, <2>1
<1>4. CASE ApplyBeaconRootContractCall
  <2>1. CallsBeaconContract
        /\ \E res \in SystemCallResults(BeaconContract, <<blk.parentBeaconRoot>>, <<>>) :
              db' = Commit(db, res.state, stateClear)
    BY <1>1, <1>4 DEF ApplyBeaconRootContractCall, ReportAndCommit
  <2>2. QED
    BY <1>2, <2>1
<1>5. CASE ApplyWithdrawalRequestsContractCall
  <2>1. \E storage, output : \E res \in SystemCallResults(WithdrawalContract, storage, output) :
          db' = Commit(db, res.state, stateClear)
    BY <1>1, <1>5 DEF ApplyWithdrawalRequestsContractCall, RequestsCall, ReportAndCommit,
                      DequeueResults
  <2>2. QED
    BY <1>2, <1>5, <2>1
<1>6. CASE ApplyConsolidationRequestsContractCall
  <2>1. \E storage, output : \E res \in SystemCallResults(ConsolidationContract, storage, output) :
          db' = Commit(db, res.state, stateClear)
    BY <1>1, <1>6 DEF ApplyConsolidationRequestsContractCall, RequestsCall, ReportAndCommit,
                      DequeueResults
  <2>2. QED
    BY <1>2, <1>6, <2>1
<1>7. CASE CommitTransaction
  <2>1. PICK tx, success : Moved(tx, success, db, db', a)
    BY <1>0, <1>7, CommitTransactionMoves
  <2>2. a \in {WithdrawalContract, ConsolidationContract}
    BY <2>1 DEF Moved
  <2>3. QED
    BY <1>7, <2>2
<1>8. CASE CollectBalanceIncrements
  <2>1. \E some : db' = Drain(db, some)
    BY <1>1, <1>8 DEF CollectBalanceIncrements
  <2>2. QED
    BY <1>0, <2>1, DrainFields
<1>9. CASE IncrementBalances
  <2>1. \E some : db' = Credit(db, increments, some)
    BY <1>9 DEF IncrementBalances
  <2>2. QED
    BY <2>1, CreditFields DEF LedgerInv
<1>10. QED
  BY <1>1, <1>3, <1>4, <1>5, <1>6, <1>7, <1>8, <1>9
  DEF Next, Execute, RejectTransaction, SkipTransaction, Skipped, StartFinish,
      ReportBalanceIncrements, SetStateHook, vars

\* The history and beacon contracts are called only when their fork is active,
\* at the block's time in seconds whatever the unit of its timestamp, and never
\* in the genesis block; nothing else changes what they hold.
THEOREM PreBlockCalls == Spec => []PreBlockCallsGated
<1>1. Init => PreBlockCallsGated
  BY DEF Init, PreBlockCallsGated
<1>2. GasInv /\ LedgerInv /\ PreBlockCallsGated /\ [Next]_vars => PreBlockCallsGated'
  <2> SUFFICES ASSUME GasInv, LedgerInv, PreBlockCallsGated, [Next]_vars
               PROVE  PreBlockCallsGated'
    OBVIOUS
  <2> DEFINE Gated(contract, fork, word, storage) ==
                storage # InitialState[contract].storage =>
                    /\ storage = <<word>>
                    /\ blk.number > 0
                    /\ ActiveAtTimestamp(blk.spec[fork], BlockSeconds)
                    /\ <<word>> # <<NoRoot>>
  <2>1. /\ blk \in Blocks /\ blk.number \in Nat /\ blk.parentHash # NoRoot
        /\ HistoryContract \in Addresses /\ BeaconContract \in Addresses
    BY StateAssumption, AddressAssumption DEF GasInv, SystemContracts
  <2>2. ForkSeconds = BlockSeconds
    BY DEF ForkSeconds, BlockSeconds, TimestampSeconds, MillisPerSecond
  <2>3. Gated(HistoryContract, "Prague", blk.parentHash, db[HistoryContract].storage)'
    <3>1. CASE db'[HistoryContract].storage = db[HistoryContract].storage
      <4>1. blk' = blk
        BY OtherStepsKeepCaller
      <4>2. QED
        BY <3>1, <4>1 DEF PreBlockCallsGated, BlockSeconds
    <3>2. CASE db'[HistoryContract].storage # db[HistoryContract].storage
      <4>1. CallsHistoryContract /\ db'[HistoryContract].storage = <<blk.parentHash>>
        BY <2>1, <3>2, StorageSteps, DistinctContracts
      <4>2. blk' = blk
        BY OtherStepsKeepCaller
      <4>3. QED
        BY <2>1, <2>2, <4>1, <4>2 DEF CallsHistoryContract, BlockSeconds
    <3>3. QED
      BY <3>1, <3>2
  <2>4. Gated(BeaconContract, "Cancun", blk.parentBeaconRoot, db[BeaconContract].storage)'
    <3>1. CASE db'[BeaconContract].storage = db[BeaconContract].storage
      <4>1. blk' = blk
        BY OtherStepsKeepCaller
      <4>2. QED
        BY <3>1, <4>1 DEF PreBlockCallsGated, BlockSeconds
    <3>2. CASE db'[BeaconContract].storage # db[BeaconContract].storage
      <4>1. CallsBeaconContract /\ db'[BeaconContract].storage = <<blk.parentBeaconRoot>>
        BY <2>1, <3>2, StorageSteps, DistinctContracts
      <4>2. blk' = blk
        BY OtherStepsKeepCaller
      <4>3. QED
        BY <2>1, <2>2, <4>1, <4>2
        DEF CallsBeaconContract, CancunActive, BeaconRootValid, BlockSeconds
    <3>3. QED
      BY <3>1, <3>2
  <2>5. QED
    BY <2>3, <2>4 DEF PreBlockCallsGated
<1>3. QED
  BY <1>1, <1>2, GasInvariant, LedgerInvariant, PTL DEF Spec

-----------------------------------------------------------------------------
(***************************************************************************)
(* What the hook hears, in which order.                                     *)
(***************************************************************************)

\* Where a source stands among those of its rank.
Place(source) ==
    IF Rank(source) = 1 THEN source[2]
    ELSE CASE source[2] \in {"BlockHashesContract", "WithdrawalRequestsContract"} -> 0
           [] source[2] \in {"BeaconRootContract", "ConsolidationRequestsContract"} -> 1
           [] source[2] = "BalanceIncrements" -> 2

Before(s, t) ==
    \/ Rank(s) < Rank(t)
    \/ Rank(s) = Rank(t) /\ Place(s) < Place(t)

\* The sources the hook can have heard of when the executor is in phase p with
\* n receipts.
PreHeard(p) ==
    IF p = "start" THEN {}
    ELSE IF p = "beaconRoot" THEN {PreSource("BlockHashesContract")}
    ELSE {PreSource("BlockHashesContract"), PreSource("BeaconRootContract")}

TxHeard(n) == {TxSource(k) : k \in 0 .. n - 1}

PostHeard(p) ==
    IF p \in {"start", "beaconRoot", "txs", "withdrawalRequests"} THEN {}
    ELSE IF p = "consolidationRequests" THEN {PostSource("WithdrawalRequestsContract")}
    ELSE {PostSource("WithdrawalRequestsContract"),
          PostSource("ConsolidationRequestsContract")}
         \cup (IF p \in {"increments", "credit", "report"} THEN {}
               ELSE {PostSource("BalanceIncrements")})

Heard(p, n) == PreHeard(p) \cup TxHeard(n) \cup PostHeard(p)

\* The transactions in a list of sources are consecutive up to number n - 1.
Consecutive(list, n) ==
    \A i \in 1 .. Len(list) :
        Rank(list[i]) = 1 =>
            list[i][2] = IF i < Len(list) /\ Rank(list[i + 1]) = 1
                         THEN list[i + 1][2] - 1 ELSE n - 1

\* The inductive strengthening of HookSourcesInOrder.
Ordered(list, p, n) ==
    /\ list \in Seq(Heard(p, n))
    /\ \A i, j \in 1 .. Len(list) : i < j => Before(list[i], list[j])
    /\ Consecutive(list, n)

SourcesInv ==
    /\ ~hook => reported = <<>>
    /\ phase \in {"start", "beaconRoot"} => receipts = <<>>
    /\ Ordered(reported, phase, Len(receipts))

LEMMA RankOfSource ==
    /\ \A call : Rank(PreSource(call)) = 0
    /\ \A k : Rank(TxSource(k)) = 1 /\ TxSource(k)[2] = k /\ Place(TxSource(k)) = k
    /\ \A change : Rank(PostSource(change)) = 2
    /\ Place(PreSource("BlockHashesContract")) = 0
    /\ Place(PreSource("BeaconRootContract")) = 1
    /\ Place(PostSource("WithdrawalRequestsContract")) = 0
    /\ Place(PostSource("ConsolidationRequestsContract")) = 1
    /\ Place(PostSource("BalanceIncrements")) = 2
BY DEF Rank, PreSource, TxSource, PostSource, Place

\* A list stays in order when nothing is added to it.
LEMMA OrderedLater ==
    ASSUME NEW p, NEW q, NEW n \in Nat, NEW list, Ordered(list, p, n),
           Heard(p, n) \subseteq Heard(q, n)
    PROVE  Ordered(list, q, n)
BY DEF Ordered

\* A list stays in order when it is extended by a later source.
LEMMA OrderedAppend ==
    ASSUME NEW p, NEW n \in Nat, NEW q, NEW m \in Nat, NEW list, Ordered(list, p, n),
           NEW source \in Heard(q, m), Heard(p, n) \subseteq Heard(q, m),
           \A s \in Heard(p, n) : Before(s, source),
           \/ m = n /\ Rank(source) # 1
           \/ m = n + 1 /\ source = TxSource(n)
    PROVE  Ordered(Append(list, source), q, m)
<1> DEFINE new == Append(list, source)
<1>1. /\ list \in Seq(Heard(p, n)) /\ list \in Seq(Heard(q, m))
      /\ \A i \in 1 .. Len(list) : list[i] \in Heard(p, n)
  BY DEF Ordered
<1>2. /\ new \in Seq(Heard(q, m)) /\ Len(new) = Len(list) + 1
      /\ \A i \in 1 .. Len(list) : new[i] = list[i]
      /\ new[Len(list) + 1] = source /\ Len(list) \in Nat
  BY <1>1
<1> HIDE DEF new
<1>3. ASSUME NEW i \in 1 .. Len(new), NEW j \in 1 .. Len(new), i < j
      PROVE  Before(new[i], new[j])
  <2>1. CASE j = Len(list) + 1
    <3>1. i \in 1 .. Len(list)
      BY <1>2, <1>3, <2>1
    <3>2. QED
      BY <1>1, <1>2, <2>1, <3>1
  <2>2. CASE j # Len(list) + 1
    <3>1. i \in 1 .. Len(list) /\ j \in 1 .. Len(list)
      BY <1>2, <1>3, <2>2
    <3>2. QED
      BY <1>2, <1>3, <3>1 DEF Ordered
  <2>3. QED
    BY <2>1, <2>2
<1>4. ASSUME NEW i \in 1 .. Len(new), Rank(new[i]) = 1
      PROVE  new[i][2] = IF i < Len(new) /\ Rank(new[i + 1]) = 1
                         THEN new[i + 1][2] - 1 ELSE m - 1
  <2>1. CASE i = Len(list) + 1
    <3>1. m = n + 1 /\ source = TxSource(n)
      BY <1>2, <1>4, <2>1
    <3>2. QED
      BY <1>2, <2>1, <3>1, RankOfSource
  <2>2. CASE i = Len(list)
    <3>1. new[i] = list[i] /\ new[i + 1] = source /\ i \in 1 .. Len(list) /\ i < Len(new)
      BY <1>2, <2>2
    <3>2. list[i][2] = n - 1
      BY <1>4, <2>2, <3>1 DEF Ordered, Consecutive
    <3>3. QED
      BY <3>1, <3>2, RankOfSource
  <2>3. CASE i # Len(list) + 1 /\ i # Len(list)
    <3>1. /\ i \in 1 .. Len(list) /\ i + 1 \in 1 .. Len(list) /\ i < Len(list) /\ i < Len(new)
          /\ new[i] = list[i] /\ new[i + 1] = list[i + 1]
      BY <1>2, <2>3
    <3>2. list[i][2] = IF Rank(list[i + 1]) = 1 THEN list[i + 1][2] - 1 ELSE n - 1
      BY <1>4, <3>1 DEF Ordered, Consecutive
    <3>3. m = n \/ Rank(list[i + 1]) = 1
      <4>1. CASE source = TxSource(n) /\ m = n + 1
        <5>1. Before(list[i], list[i + 1])
          BY <3>1 DEF Ordered
        <5>2. Before(list[i + 1], source)
          BY <1>1, <3>1
        <5>3. list[i + 1] \in Heard(p, n)
          BY <1>1, <3>1
        <5>4. Rank(list[i + 1]) \in 0 .. 2
          BY <5>3, RankOfSource DEF Heard, PreHeard, TxHeard, PostHeard
        <5>5. QED
          BY <1>4, <3>1, <4>1, <5>1, <5>2, <5>4, RankOfSource DEF Before
      <4>2. QED
        BY <4>1
    <3>4. QED
      BY <3>1, <3>2, <3>3
  <2>4. QED
    BY <2>1, <2>2, <2>3
<1>5. QED
  BY <1>2, <1>3, <1>4 DEF Ordered, Consecutive, new

\* What the hook can have heard grows with the phases and the receipts.
LEMMA HeardGrows ==
    ASSUME FieldsInv, [Next]_vars, receipts' = receipts, phase' # "failed"
    PROVE  Heard(phase, Len(receipts)) \subseteq Heard(phase', Len(receipts))
<1>1. /\ PreHeard(phase) \subseteq PreHeard(phase')
      /\ PostHeard(phase) \subseteq PostHeard(phase')
  BY PhaseSteps DEF PreHeard, PostHeard
<1>2. QED
  BY <1>1 DEF Heard

LEMMA HeardAtFailure ==
    ASSUME NEW n
    PROVE  Heard(phase, n) \subseteq Heard("failed", n)
<1>1. /\ PreHeard(phase) \subseteq PreHeard("failed")
      /\ PostHeard(phase) \subseteq PostHeard("failed")
  BY DEF PreHeard, PostHeard
<1>2. QED
  BY <1>1 DEF Heard

\* The sources of the pre-block calls come first.
LEMMA PreAppend ==
    ASSUME NEW list
    PROVE  /\ Ordered(list, "start", 0) =>
                Ordered(Append(list, PreSource("BlockHashesContract")), "beaconRoot", 0)
           /\ Ordered(list, "beaconRoot", 0) =>
                Ordered(Append(list, PreSource("BeaconRootContract")), "txs", 0)
<1>1. /\ Heard("start", 0) = {}
      /\ Heard("beaconRoot", 0) = {PreSource("BlockHashesContract")}
      /\ Heard("txs", 0) = {PreSource("BlockHashesContract"), PreSource("BeaconRootContract")}
  BY DEF Heard, PreHeard, TxHeard, PostHeard
<1>2. Before(PreSource("BlockHashesContract"), PreSource("BeaconRootContract"))
  BY RankOfSource DEF Before
<1>3. /\ Rank(PreSource("BlockHashesContract")) # 1
      /\ Rank(PreSource("BeaconRootContract")) # 1
  BY RankOfSource
<1>4. ASSUME Ordered(list, "start", 0)
      PROVE  Ordered(Append(list, PreSource("BlockHashesContract")), "beaconRoot", 0)
  BY <1>1, <1>3, <1>4, OrderedAppend
<1>5. ASSUME Ordered(list, "beaconRoot", 0)
      PROVE  Ordered(Append(list, PreSource("BeaconRootContract")), "txs", 0)
  BY <1>1, <1>2, <1>3, <1>5, OrderedAppend
<1>6. QED
  BY <1>4, <1>5

\* Then those of the transactions, each with the number of its receipt.
LEMMA TxAppend ==
    ASSUME NEW n \in Nat, NEW list, Ordered(list, "txs", n)
    PROVE  Ordered(Append(list, TxSource(n)), "txs", n + 1)
<1>1. TxSource(n) \in Heard("txs", n + 1) /\ Heard("txs", n) \subseteq Heard("txs", n + 1)
  BY DEF Heard, TxHeard, PreHeard, PostHeard
<1>2. ASSUME NEW s \in Heard("txs", n) PROVE Before(s, TxSource(n))
  <2>1. CASE s \in PreHeard("txs")
    <3>1. Rank(s) = 0 /\ Rank(TxSource(n)) = 1
      BY <2>1, RankOfSource DEF PreHeard
    <3>2. QED
      BY <3>1 DEF Before
  <2>2. CASE s \in TxHeard(n)
    <3>1. PICK k \in 0 .. n - 1 : s = TxSource(k)
      BY <2>2 DEF TxHeard
    <3>2. QED
      BY <3>1, RankOfSource DEF Before
  <2>3. QED
    BY <2>1, <2>2 DEF Heard, PostHeard
<1>3. n + 1 \in Nat
  OBVIOUS
<1>4. QED
  BY <1>1, <1>2, <1>3, OrderedAppend

\* Then those of the post-block changes, one after the other.
LEMMA PostAppend ==
    ASSUME NEW n \in Nat, NEW p, NEW q, NEW list, Ordered(list, p, n),
           Heard(p, n) \subseteq Heard(q, n),
           NEW change, PostSource(change) \in PostHeard(q),
           \A s \in PostHeard(p) : Rank(s) = 2 /\ Place(s) < Place(PostSource(change))
    PROVE  Ordered(Append(list, PostSource(change)), q, n)
<1>1. ASSUME NEW s \in Heard(p, n) PROVE Before(s, PostSource(change))
  <2>1. CASE s \in PreHeard(p)
    <3>1. Rank(s) = 0 /\ Rank(PostSource(change)) = 2
      BY <2>1, RankOfSource DEF PreHeard
    <3>2. QED
      BY <3>1 DEF Before
  <2>2. CASE s \in TxHeard(n)
    <3>1. Rank(s) = 1 /\ Rank(PostSource(change)) = 2
      BY <2>2, RankOfSource DEF TxHeard
    <3>2. QED
      BY <3>1 DEF Before
  <2>3. CASE s \in PostHeard(p)
    BY <2>3, RankOfSource DEF Before
  <2>4. QED
    BY <2>1, <2>2, <2>3 DEF Heard
<1>2. PostSource(change) \in Heard(q, n) /\ Rank(PostSource(change)) # 1
  BY RankOfSource DEF Heard
<1>3. QED
  BY <1>1, <1>2, OrderedAppend

\* A list in order has its ranks in order, nothing twice, and its transactions
\* numbered like their receipts.
LEMMA OrderedSources ==
    ASSUME Len(receipts) \in Nat, SourcesInv
    PROVE  HookSourcesInOrder
<1>1. /\ reported \in Seq(Heard(phase, Len(receipts))) /\ Len(reported) \in Nat
      /\ \A i, j \in 1 .. Len(reported) : i < j => Before(reported[i], reported[j])
      /\ Consecutive(reported, Len(receipts))
  BY DEF SourcesInv, Ordered
<1>2. \A i \in 1 .. Len(reported) : Rank(reported[i]) \in 0 .. 2
                                    /\ Place(reported[i]) \in Int
  <2>1. \A s \in Heard(phase, Len(receipts)) : Rank(s) \in 0 .. 2 /\ Place(s) \in Int
    BY RankOfSource DEF Heard, PreHeard, TxHeard, PostHeard
  <2>2. QED
    BY <1>1, <2>1
<1>3. \A i \in 1 .. Len(reported) - 1 : Rank(reported[i]) <= Rank(reported[i + 1])
  BY <1>1, <1>2 DEF Before
<1>4. IsInjective(reported)
  <2>1. DOMAIN reported = 1 .. Len(reported)
    BY <1>1
  <2>2. ASSUME NEW i \in 1 .. Len(reported), NEW j \in 1 .. Len(reported), i < j
        PROVE  reported[i] # reported[j]
    BY <1>1, <1>2, <2>2 DEF Before
  <2>3. \A i, j \in 1 .. Len(reported) : i # j => reported[i] # reported[j]
    BY <1>1, <2>2
  <2>4. QED
    BY <2>1, <2>3 DEF IsInjective
<1>5. QED
  BY <1>1, <1>3, <1>4 DEF HookSourcesInOrder, Consecutive

\* Which source each step reports.
LEMMA ReportedSteps ==
    ASSUME [Next]_vars
    PROVE  \/ UNCHANGED <<reported, hook, receipts>>
           \/ SetStateHook
           \/ CommitTransaction
           \/ /\ UNCHANGED <<hook, receipts>> /\ hook
              /\ \/ /\ phase = "start" /\ phase' = "beaconRoot"
                    /\ reported' = Append(reported, PreSource("BlockHashesContract"))
                 \/ /\ phase = "beaconRoot" /\ phase' = "txs"
                    /\ reported' = Append(reported, PreSource("BeaconRootContract"))
                 \/ /\ phase = "withdrawalRequests" /\ phase' \in {"consolidationRequests", "failed"}
                    /\ reported' = Append(reported, PostSource("WithdrawalRequestsContract"))
                 \/ /\ phase = "consolidationRequests" /\ phase' \in {"increments", "failed"}
                    /\ reported' = Append(reported, PostSource("ConsolidationRequestsContract"))
                 \/ /\ phase = "report" /\ phase' = "done"
                    /\ reported' = Append(reported, PostSource("BalanceIncrements"))
<1> USE DEF hookVars, result
<1>1. CASE ApplyBlockhashesContractCall
  BY <1>1 DEF ApplyBlockhashesContractCall, ReportAndCommit, OnState
<1>2. CASE ApplyBeaconRootContractCall
  BY <1>2 DEF ApplyBeaconRootContractCall, ReportAndCommit, OnState
<1>3. CASE ApplyWithdrawalRequestsContractCall
  BY <1>3 DEF ApplyWithdrawalRequestsContractCall, RequestsCall, ReportAndCommit, OnState
<1>4. CASE ApplyConsolidationRequestsContractCall
  BY <1>4 DEF ApplyConsolidationRequestsContractCall, RequestsCall, ReportAndCommit, OnState
<1>5. CASE ReportBalanceIncrements
  BY <1>5 DEF ReportBalanceIncrements
<1>6. CASE \/ RejectTransaction \/ SkipTransaction \/ StartFinish
           \/ CollectBalanceIncrements \/ IncrementBalances \/ UNCHANGED vars
  BY <1>6 DEF RejectTransaction, SkipTransaction, Skipped, StartFinish,
       CollectBalanceIncrements, IncrementBalances, vars
<1>7. QED
  BY <1>1, <1>2, <1>3, <1>4, <1>5, <1>6 DEF Next, Execute

LEMMA SourcesInvariant == Spec => []SourcesInv
<1>1. Init => SourcesInv
  BY DEF Init, SourcesInv, Ordered, Consecutive
<1>2. GasInv /\ ReceiptsInv /\ FieldsInv /\ SourcesInv /\ [Next]_vars => SourcesInv'
  <2> SUFFICES ASSUME GasInv, ReceiptsInv, FieldsInv, SourcesInv, [Next]_vars
               PROVE  SourcesInv'
    OBVIOUS
  <2> DEFINE n == Len(receipts)
  <2>1. n \in Nat /\ receipts \in Seq(Receipt)
    BY DEF ReceiptsInv
  <2>2. CASE UNCHANGED <<reported, hook, receipts>>
    <3>1. Heard(phase, n) \subseteq Heard(phase', n)
      BY <2>2, HeardGrows, HeardAtFailure
    <3>2. Ordered(reported, phase', n)
      BY <2>1, <3>1, OrderedLater DEF SourcesInv
    <3>3. phase' \in {"start", "beaconRoot"} => phase \in {"start", "beaconRoot"}
      BY PhaseSteps
    <3>4. QED
      BY <2>2, <3>2, <3>3 DEF SourcesInv
  <2>3. CASE SetStateHook
    <3>1. reported' = <<>> /\ phase' = phase /\ receipts' = receipts
      BY <2>3 DEF SetStateHook, result
    <3>2. Ordered(<<>>, phase', n)
      BY DEF Ordered, Consecutive
    <3>3. QED
      BY <3>1, <3>2 DEF SourcesInv
  <2>4. CASE CommitTransaction
    <3>1. /\ phase = "txs" /\ phase' = "txs" /\ hook' = hook
          /\ IF hook THEN reported' = Append(reported, TxSource(n)) ELSE reported' = reported
      BY <2>4 DEF CommitTransaction, Committed, ReportAndCommit, OnState, hookVars
    <3>2. Len(receipts') = n + 1
      <4>1. \E r \in Receipt : receipts' = Append(receipts, r)
        BY <2>4, CommitTransactionReceipt
      <4>2. QED
        BY <2>1, <4>1
    <3>3. Ordered(reported', "txs", n + 1)
      <4>1. CASE hook
        <5>1. Ordered(reported, "txs", n)
          BY <3>1 DEF SourcesInv
        <5>2. QED
          BY <2>1, <3>1, <4>1, <5>1, TxAppend
      <4>2. CASE ~hook
        <5>1. reported' = <<>>
          BY <3>1, <4>2 DEF SourcesInv
        <5>2. QED
          BY <5>1 DEF Ordered, Consecutive
      <4>3. QED
        BY <4>1, <4>2
    <3>4. ~hook' => reported' = <<>>
      BY <3>1 DEF SourcesInv
    <3>5. QED
      BY <3>1, <3>2, <3>3, <3>4 DEF SourcesInv
  <2>5. CASE UNCHANGED <<hook, receipts>> /\ hook
    <3> SUFFICES ASSUME \/ /\ phase = "start" /\ phase' = "beaconRoot"
                           /\ reported' = Append(reported, PreSource("BlockHashesContract"))
                        \/ /\ phase = "beaconRoot" /\ phase' = "txs"
                           /\ reported' = Append(reported, PreSource("BeaconRootContract"))
                        \/ /\ phase = "withdrawalRequests"
                           /\ phase' \in {"consolidationRequests", "failed"}
                           /\ reported' = Append(reported, PostSource("WithdrawalRequestsContract"))
                        \/ /\ phase = "consolidationRequests" /\ phase' \in {"increments", "failed"}
                           /\ reported' = Append(reported, PostSource("ConsolidationRequestsContract"))
                        \/ /\ phase = "report" /\ phase' = "done"
                           /\ reported' = Append(reported, PostSource("BalanceIncrements"))
                 PROVE  Ordered(reported', phase', n)
      <4>1. phase' \in {"start", "beaconRoot"} => phase \in {"start", "beaconRoot"}
        BY PhaseSteps
      <4>2. ~(UNCHANGED <<reported, hook, receipts>>) /\ ~SetStateHook /\ ~CommitTransaction => Ordered(reported', phase', n)
        BY ReportedSteps
      <4>3. QED
        BY <2>2, <2>3, <2>4, <2>5, <4>1, <4>2 DEF SourcesInv
    <3>0. /\ Ordered(reported, phase, n)
          /\ Heard(phase, n) \subseteq Heard(phase', n)
      BY <2>5, HeardGrows, HeardAtFailure DEF SourcesInv
    <3>1. CASE phase = "start" \/ phase = "beaconRoot"
      <4>1. n = 0
        BY <3>1 DEF SourcesInv
      <4>2. QED
        BY <3>0, <3>1, <4>1, PreAppend
    <3>2. ASSUME NEW change, reported' = Append(reported, PostSource(change)),
                 PostSource(change) \in PostHeard(phase'),
                 \A s \in PostHeard(phase) : Rank(s) = 2 /\ Place(s) < Place(PostSource(change))
          PROVE  Ordered(reported', phase', n)
      BY <2>1, <3>0, <3>2, PostAppend
    <3>3. CASE /\ phase = "withdrawalRequests" /\ phase' \in {"consolidationRequests", "failed"}
               /\ reported' = Append(reported, PostSource("WithdrawalRequestsContract"))
      BY <3>2, <3>3 DEF PostHeard
    <3>4. CASE /\ phase = "consolidationRequests" /\ phase' \in {"increments", "failed"}
               /\ reported' = Append(reported, PostSource("ConsolidationRequestsContract"))
      BY <3>2, <3>4, RankOfSource DEF PostHeard
    <3>5. CASE /\ phase = "report" /\ phase' = "done"
               /\ reported' = Append(reported, PostSource("BalanceIncrements"))
      BY <3>2, <3>5, RankOfSource DEF PostHeard
    <3>6. QED
      BY <3>1, <3>3, <3>4, <3>5
  <2>6. QED
    BY <2>2, <2>3, <2>4, <2>5, ReportedSteps
<1>3. QED
  BY <1>1, <1>2, GasInvariant, ReceiptsInvariant, FieldsInvariant, PTL DEF Spec

\* The hook hears the changes in the order the database gets them, each source
\* once and the transactions numbered like their receipts without a gap, from
\* whichever transaction on it was installed.
THEOREM SourcesInOrder == Spec => []HookSourcesInOrder
<1>1. ReceiptsInv /\ SourcesInv => HookSourcesInOrder
  BY OrderedSources DEF ReceiptsInv
<1>2. QED
  BY <1>1, ReceiptsInvariant, SourcesInvariant, PTL

-----------------------------------------------------------------------------
(***************************************************************************)
(* The unit of the fork checks.                                             *)
(***************************************************************************)

\* The hook has heard of the withdrawal requests call exactly when Prague is
\* active at the raw timestamp, once finish is past it.
RequestsCallInv ==
    /\ phase \in {"withdrawalRequests", "consolidationRequests"} => PragueActiveAtFinish
    /\ hook /\ phase \in {"consolidationRequests", "increments", "credit", "report", "done"} =>
          (PostSource("WithdrawalRequestsContract") \in Range(reported)
              <=> PragueActiveAtFinish)

LEMMA RangeOfAppend ==
    ASSUME NEW S, NEW list \in Seq(S), NEW e \in S
    PROVE  Range(Append(list, e)) = Range(list) \cup {e}
<1>1. /\ Append(list, e) \in Seq(S) /\ Len(Append(list, e)) = Len(list) + 1
      /\ \A i \in 1 .. Len(list) : Append(list, e)[i] = list[i]
      /\ Append(list, e)[Len(list) + 1] = e /\ Len(list) \in Nat
  OBVIOUS
<1>2. /\ DOMAIN list = 1 .. Len(list)
      /\ DOMAIN Append(list, e) = 1 .. Len(list) + 1
  BY <1>1
<1>3. Range(Append(list, e)) \subseteq Range(list) \cup {e}
  BY <1>1, <1>2 DEF Range
<1>4. Range(list) \cup {e} \subseteq Range(Append(list, e))
  BY <1>1, <1>2 DEF Range
<1>5. QED
  BY <1>3, <1>4

LEMMA RequestsCallInvariant == Spec => []RequestsCallInv
<1> DEFINE call == PostSource("WithdrawalRequestsContract")
<1>1. Init => RequestsCallInv
  BY DEF Init, RequestsCallInv
<1>2. ReceiptsInv /\ FieldsInv /\ SourcesInv /\ RequestsCallInv /\ [Next]_vars => RequestsCallInv'
  <2> SUFFICES ASSUME ReceiptsInv, FieldsInv, SourcesInv, RequestsCallInv, [Next]_vars
               PROVE  RequestsCallInv'
    OBVIOUS
  <2>1. /\ reported \in Seq(Heard(phase, Len(receipts)))
        /\ Range(reported) \subseteq Heard(phase, Len(receipts))
        /\ PragueActiveAtFinish' = PragueActiveAtFinish
    <3>1. reported \in Seq(Heard(phase, Len(receipts)))
      BY DEF SourcesInv, Ordered
    <3>2. blk' = blk
      BY OtherStepsKeepCaller
    <3>3. QED
      BY <3>1, <3>2 DEF Range, PragueActiveAtFinish
  <2>2. phase' \in {"withdrawalRequests", "consolidationRequests"} => PragueActiveAtFinish'
    <3>1. phase' = "withdrawalRequests" => phase = "withdrawalRequests" \/ PragueActiveAtFinish
      BY DEF Next, Execute, ApplyBlockhashesContractCall, ApplyBeaconRootContractCall,
         CommitTransaction, Committed, RejectTransaction,
         SkipTransaction, Skipped, StartFinish, RequestsCall,
         ApplyWithdrawalRequestsContractCall, ApplyConsolidationRequestsContractCall,
         CollectBalanceIncrements, IncrementBalances, ReportBalanceIncrements,
         SetStateHook, vars
    <3>2. QED
      BY <2>1, <3>1, PhaseSteps DEF RequestsCallInv
  <2>3. ASSUME hook', phase' \in {"consolidationRequests", "increments", "credit", "report", "done"}
        PROVE  call \in Range(reported') <=> PragueActiveAtFinish
    <3>1. CASE phase \in {"consolidationRequests", "increments", "credit", "report", "done"}
      <4>1. hook' = hook
        BY <3>1, ReportedSteps DEF SetStateHook, CommitTransaction, Committed
      <4>2. call \in Range(reported) <=> PragueActiveAtFinish
        BY <2>3, <3>1, <4>1 DEF RequestsCallInv
      <4>3. \/ reported' = reported
            \/ \E change \in {"ConsolidationRequestsContract", "BalanceIncrements"} :
                  reported' = Append(reported, PostSource(change))
        BY <3>1, ReportedSteps DEF SetStateHook, CommitTransaction, Committed
      <4>4. CASE reported' = reported
        BY <4>2, <4>4
      <4>5. ASSUME NEW change \in {"ConsolidationRequestsContract", "BalanceIncrements"},
                   reported' = Append(reported, PostSource(change))
            PROVE  call \in Range(reported') <=> call \in Range(reported)
        <5> DEFINE S == Heard(phase, Len(receipts)) \cup {PostSource(change)}
        <5>1. reported \in Seq(S) /\ PostSource(change) \in S
          BY <2>1
        <5> HIDE DEF S
        <5>2. Range(reported') = Range(reported) \cup {PostSource(change)}
          BY <4>5, <5>1, RangeOfAppend
        <5>3. call # PostSource(change)
          BY DEF PostSource
        <5>4. QED
          BY <5>2, <5>3
      <4>6. QED
        BY <4>2, <4>3, <4>4, <4>5
    <3>2. CASE phase = "withdrawalRequests" /\ phase' = "consolidationRequests"
      <4>1. hook /\ reported' = Append(reported, call) /\ PragueActiveAtFinish
        <5>1. ApplyWithdrawalRequestsContractCall
          BY <3>2 DEF Next, Execute, ApplyBlockhashesContractCall, ApplyBeaconRootContractCall,
             CommitTransaction, Committed, RejectTransaction,
             SkipTransaction, Skipped, StartFinish, RequestsCall,
             ApplyConsolidationRequestsContractCall,
             CollectBalanceIncrements, IncrementBalances, ReportBalanceIncrements,
             SetStateHook, vars
        <5>2. QED
          BY <2>3, <3>2, <5>1 DEF ApplyWithdrawalRequestsContractCall, RequestsCall,
             ReportAndCommit, OnState, hookVars, RequestsCallInv
      <4> DEFINE S == Heard(phase, Len(receipts)) \cup {call}
      <4>2. reported \in Seq(S) /\ call \in S
        BY <2>1
      <4> HIDE DEF S, call
      <4>3. Range(reported') = Range(reported) \cup {call}
        BY <4>1, <4>2, RangeOfAppend
      <4>4. QED
        BY <4>1, <4>3
    <3>3. CASE phase = "txs" /\ phase' = "increments"
      <4>1. reported' = reported /\ ~PragueActiveAtFinish
        BY <3>3 DEF Next, Execute, ApplyBlockhashesContractCall, ApplyBeaconRootContractCall,
             CommitTransaction, Committed, RejectTransaction,
             SkipTransaction, Skipped, StartFinish, RequestsCall,
             ApplyWithdrawalRequestsContractCall, ApplyConsolidationRequestsContractCall,
             CollectBalanceIncrements, IncrementBalances, ReportBalanceIncrements,
             SetStateHook, vars, hookVars
      <4>2. call \notin Heard("txs", Len(receipts))
        BY DEF Heard, PreHeard, TxHeard, PostHeard, PreSource, TxSource, PostSource
      <4>3. QED
        BY <2>1, <3>3, <4>1, <4>2
    <3>4. QED
      BY <2>3, <3>1, <3>2, <3>3, PhaseSteps
  <2>4. QED
    BY <2>1, <2>2, <2>3 DEF RequestsCallInv
<1>3. QED
  BY <1>1, <1>2, ReceiptsInvariant, FieldsInvariant, SourcesInvariant, PTL DEF Spec

\* When the block's timestamp is in seconds, the post-block request calls are
\* made exactly when Prague is active at the block's time.  Without the
\* hypothesis this fails: finish compares the raw timestamp.
THEOREM ForkChecksInSeconds ==
    ASSUME TimestampInSeconds
    PROVE  Spec => []ForkChecksUseSeconds
<1>1. RequestsCallInv => ForkChecksUseSeconds
  BY DEF RequestsCallInv, ForkChecksUseSeconds, BlockSeconds, PragueActiveAtFinish
<1>2. QED
  BY <1>1, RequestsCallInvariant, PTL

-----------------------------------------------------------------------------
(***************************************************************************)
(* Requests.                                                                *)
(***************************************************************************)

\* Summing up ones counts.
LEMMA SumOfOnes ==
    ASSUME NEW S, IsFiniteSet(S), NEW T \in SUBSET S, NEW f,
           \A x \in S : f[x] = IF x \in T THEN 1 ELSE 0
    PROVE  SumFunctionOnSet(f, S) = Cardinality(T)
<1> DEFINE N == {n \in Nat : \A s \in SUBSET T : Cardinality(s) = n =>
                    SumFunctionOnSet(f, s) = n}
<1>1. 0 \in N
  <2>1. \A s \in SUBSET T : Cardinality(s) = 0 => s = {}
    BY FS_Subset, ChosenElement
  <2>2. QED
    BY <2>1, SumOfNothing
<1>2. ASSUME NEW n \in Nat, n \in N PROVE n + 1 \in N
  <2> SUFFICES ASSUME NEW s \in SUBSET T, Cardinality(s) = n + 1
               PROVE  SumFunctionOnSet(f, s) = n + 1
    OBVIOUS
  <2>1. IsFiniteSet(s) /\ s # {}
    BY FS_Subset, FS_EmptySet
  <2>2. PICK x \in s : TRUE
    BY <2>1
  <2>3. \A y \in s : f[y] \in Int
    OBVIOUS
  <2>4. SumFunctionOnSet(f, s) = f[x] + SumFunctionOnSet(f, s \ {x})
    BY <2>1, <2>3, SumOfElement
  <2>5. Cardinality(s \ {x}) = n
    <3>1. Cardinality(s \ {x}) = Cardinality(s) - 1
      BY <2>1, <2>2, FS_RemoveElement
    <3>2. QED
      BY <3>1
  <2>6. SumFunctionOnSet(f, s \ {x}) = n
    BY <1>2, <2>5
  <2>7. QED
    BY <2>4, <2>6
<1>3. \A n \in Nat : n \in N
  <2> HIDE DEF N
  <2> QED
    BY <1>1, <1>2, NatSetInduction
<1>4. Cardinality(T) \in Nat
  BY FS_Subset, FS_CardinalityType
<1>5. SumFunctionOnSet(f, T) = Cardinality(T)
  BY <1>3, <1>4
<1>6. SumFunctionOnSet(f, S) = SumFunctionOnSet(f, T)
  <2>1. (\A x \in S : f[x] \in Int) /\ (\A x \in S \ T : f[x] = 0)
    OBVIOUS
  <2>2. QED
    BY <2>1, SumOfSubset
<1>7. QED
  BY <1>5, <1>6

\* The sum over a list that grew by one.
LEMMA SumOfLonger ==
    ASSUME NEW n \in Nat, NEW f, NEW g, \A i \in 1 .. n + 1 : g[i] \in Int,
           \A i \in 1 .. n : g[i] = f[i]
    PROVE  SumFunctionOnSet(g, 1 .. n + 1) = SumFunctionOnSet(f, 1 .. n) + g[n + 1]
<1>0. IsFiniteSet(1 .. n + 1) /\ IsFiniteSet(1 .. n)
  BY IndicesFinite
<1>1. (1 .. n + 1) \ {n + 1} = 1 .. n /\ n + 1 \in 1 .. n + 1
  OBVIOUS
<1>2. SumFunctionOnSet(g, 1 .. n + 1) = g[n + 1] + SumFunctionOnSet(g, (1 .. n + 1) \ {n + 1})
  BY <1>0, <1>1, SumOfElement
<1>3. \A i \in 1 .. n : f[i] \in Int /\ g[i] = f[i]
  OBVIOUS
<1>4. SumFunctionOnSet(g, 1 .. n) = SumFunctionOnSet(f, 1 .. n)
  BY <1>0, <1>3, SumOfEquals
<1>5. SumFunctionOnSet(f, 1 .. n) \in Int
  BY <1>0, <1>3, SumType
<1>6. SumFunctionOnSet(g, 1 .. n + 1) = g[n + 1] + SumFunctionOnSet(f, 1 .. n)
  BY <1>1, <1>2, <1>4
<1>7. g[n + 1] \in Int
  OBVIOUS
<1>8. QED
  BY <1>5, <1>6, <1>7

\* g is the function FlattenSeq defines recursively.
IsFlat(g, lists) ==
    g = [i \in 1 .. Len(lists) |-> IF i = 1 THEN lists[i] ELSE g[i - 1] \o lists[i]]

LEMMA FlattenIsChosen ==
    ASSUME NEW lists, Len(lists) # 0
    PROVE  FlattenSeq(lists) = (CHOOSE g : IsFlat(g, lists))[Len(lists)]
BY DEF FlattenSeq, IsFlat

\* The recursion has a solution: on the first n lists, for every n.
LEMMA FlattenExists ==
    ASSUME NEW lists, Len(lists) \in Nat
    PROVE  \E g : IsFlat(g, lists)
<1> DEFINE D == 1 .. Len(lists)
           Step(g, i) == IF i = 1 THEN lists[i] ELSE g[i - 1] \o lists[i]
           Solves(g, n) == \A i \in D : i <= n => g[i] = Step(g, i)
           N == {n \in Nat : \E g : Solves(g, n)}
<1>1. 0 \in N
  <2>1. Solves(<<>>, 0)
    OBVIOUS
  <2>2. QED
    BY <2>1
<1>2. ASSUME NEW n \in Nat, n \in N PROVE n + 1 \in N
  <2>1. PICK g : Solves(g, n)
    BY <1>2
  <2> DEFINE h == [i \in D |-> Step(g, i)]
  <2>2. \A i \in D : i <= n => h[i] = g[i]
    BY <2>1
  <2>3. ASSUME NEW i \in D, i <= n + 1, i # 1 PROVE h[i - 1] = g[i - 1]
    BY <2>2, <2>3
  <2>4. Solves(h, n + 1)
    BY <2>3
  <2>5. \E k : Solves(k, n + 1)
    BY <2>4
  <2>6. QED
    BY <2>5
<1>3. \A n \in Nat : n \in N
  <2> HIDE DEF N
  <2> QED
    BY <1>1, <1>2, NatSetInduction
<1>4. PICK g : Solves(g, Len(lists))
  BY <1>3
<1> DEFINE h == [i \in D |-> g[i]]
<1>5. ASSUME NEW i \in D PROVE h[i] = Step(h, i)
  <2>1. i # 1 => i - 1 \in D
    OBVIOUS
  <2>2. QED
    BY <1>4, <2>1
<1>6. h = [i \in D |-> Step(h, i)]
  <2>1. DOMAIN h = D
    OBVIOUS
  <2> HIDE DEF Step
  <2>2. \A i \in D : h[i] = Step(h, i)
    BY <1>5
  <2>3. h = [i \in D |-> h[i]]
    OBVIOUS
  <2> HIDE DEF h
  <2>4. QED
    BY <2>2, <2>3
<1>7. QED
  BY <1>6 DEF IsFlat

\* Flattening lists yields a list, as long as they are together.
LEMMA FlattenLength ==
    ASSUME NEW S, NEW lists \in Seq(Seq(S))
    PROVE  /\ FlattenSeq(lists) \in Seq(S)
           /\ Len(FlattenSeq(lists)) =
                 SumFunction([i \in DOMAIN lists |-> Len(lists[i])])
<1> DEFINE n == Len(lists)
           f == [i \in DOMAIN lists |-> Len(lists[i])]
<1>0. n \in Nat /\ DOMAIN lists = 1 .. n /\ \A i \in 1 .. n : lists[i] \in Seq(S)
  OBVIOUS
<1>1. SumFunction(f) = SumFunctionOnSet(f, 1 .. n)
  BY <1>0 DEF SumFunction
<1>2. CASE n = 0
  <2>1. FlattenSeq(lists) = lists /\ lists = <<>> /\ 1 .. n = {}
    BY <1>2 DEF FlattenSeq
  <2>2. QED
    BY <1>1, <2>1, SumOfNothing
<1>3. CASE n # 0
  <2> DEFINE g == CHOOSE g : IsFlat(g, lists)
  <2>1. IsFlat(g, lists) /\ FlattenSeq(lists) = g[n]
    BY <1>0, <1>3, FlattenExists, FlattenIsChosen
  <2>2. \A i \in 1 .. n : g[i] = IF i = 1 THEN lists[i] ELSE g[i - 1] \o lists[i]
    BY <2>1 DEF IsFlat
  <2>3. \A i \in 1 .. n : f[i] = Len(lists[i]) /\ f[i] \in Nat
    BY <1>0
  <2> HIDE DEF g, f
  <2> DEFINE Good(i) == g[i] \in Seq(S) /\ Len(g[i]) = SumFunctionOnSet(f, 1 .. i)
             N == {m \in Nat : m + 1 \in 1 .. n => Good(m + 1)}
  <2>4. 0 \in N
    <3>1. g[1] = lists[1] /\ 1 \in 1 .. n
      BY <1>0, <1>3, <2>2
    <3>2. SumFunctionOnSet(f, 1 .. 1) = f[1]
      <4>1. IsFiniteSet(1 .. 1) /\ 1 \in 1 .. 1
        <5>1. 1 \in Int
          OBVIOUS
        <5>2. IsFiniteSet(1 .. 1)
          BY <5>1, FS_Interval
        <5>3. 1 \in 1 .. 1
          OBVIOUS
        <5>4. QED
          BY <5>2, <5>3
      <4>2. \A y \in (1 .. 1) \ {1} : f[y] = 0
        OBVIOUS
      <4>3. f[1] \in Int
        BY <2>3, <3>1
      <4> DEFINE D == 1 .. 1
      <4>4. IsFiniteSet(D) /\ 1 \in D /\ \A y \in D \ {1} : f[y] = 0
        BY <4>1, <4>2
      <4> HIDE DEF D
      <4>5. SumFunctionOnSet(f, D) = f[1]
        BY <4>3, <4>4, SumOfSingle
      <4>6. QED
        BY <4>5 DEF D
    <3>3. 1 \in 1 .. n /\ lists[1] \in Seq(S) /\ f[1] = Len(lists[1])
      BY <1>0, <2>3, <3>1
    <3>4. Good(1) /\ 0 + 1 = 1
      BY <3>1, <3>2, <3>3
    <3> HIDE DEF Good
    <3>5. QED
      BY <3>4
  <2>5. ASSUME NEW m \in Nat, m \in N PROVE m + 1 \in N
    <3> SUFFICES ASSUME m + 2 \in 1 .. n PROVE Good(m + 2)
      OBVIOUS
    <3>1. Good(m + 1) /\ m + 1 \in Nat
      BY <1>0, <2>5
    <3>0. m + 2 \in 1 .. n /\ m + 2 # 1 /\ (m + 2) - 1 = m + 1
      OBVIOUS
    <3>2. g[m + 2] = g[m + 1] \o lists[m + 2] /\ lists[m + 2] \in Seq(S)
      <4>1. g[m + 2] = g[(m + 2) - 1] \o lists[m + 2]
        BY <2>2, <3>0
      <4>2. QED
        BY <1>0, <3>0, <4>1
    <3>3. g[m + 2] \in Seq(S) /\ Len(g[m + 2]) = Len(g[m + 1]) + Len(lists[m + 2])
      <4> DEFINE s == g[m + 1]
                 t == lists[m + 2]
      <4>1. s \in Seq(S) /\ t \in Seq(S)
        BY <3>1, <3>2
      <4> HIDE DEF s, t
      <4>2. s \o t \in Seq(S) /\ Len(s \o t) = Len(s) + Len(t)
        BY <4>1, ConcatProperties
      <4>3. QED
        BY <3>2, <4>2 DEF s, t
    <3>4. SumFunctionOnSet(f, 1 .. (m + 1) + 1) = SumFunctionOnSet(f, 1 .. m + 1) + f[(m + 1) + 1]
      <4>1. \A i \in 1 .. (m + 1) + 1 : f[i] \in Int
        BY <1>0, <2>3
      <4>2. QED
        BY <3>1, <4>1, SumOfLonger
    <3>5. (m + 1) + 1 = m + 2 /\ f[m + 2] = Len(lists[m + 2])
      BY <2>3
    <3>6. QED
      BY <3>1, <3>3, <3>4, <3>5
  <2>6. \A m \in Nat : m \in N
    <3> HIDE DEF N
    <3> QED
      BY <2>4, <2>5, NatSetInduction
  <2>7. n - 1 \in Nat /\ (n - 1) + 1 = n /\ n \in 1 .. n
    BY <1>0, <1>3
  <2>8. Good(n)
    <3>1. n - 1 \in N
      BY <2>6, <2>7
    <3> HIDE DEF Good
    <3>2. QED
      BY <2>7, <3>1
  <2>9. QED
    BY <1>1, <2>1, <2>8 DEF f
<1>4. QED
  BY <1>2, <1>3

\* What a request can be about: an account, or the data of a log.
RequestItem == Addresses \cup
    UNION {{tx.logs[j].data : j \in DOMAIN tx.logs} : tx \in AllTransactions}

Request == [type : 0 .. 2, data : Seq(RequestItem)]

\* The deposits of a receipt are as many as the events in its logs.
LEMMA DepositsOfLogs ==
    ASSUME NEW S, NEW logs, logs \in Seq(Range(logs)),
           \A j \in DOMAIN logs : logs[j].data \in S
    PROVE  /\ DepositsOf(logs) \in Seq(S)
           /\ Len(DepositsOf(logs)) = Cardinality({j \in DOMAIN logs : IsDeposit(logs[j])})
           /\ Len(DepositsOf(logs)) \in Nat
<1> DEFINE lists == [j \in DOMAIN logs |->
                        IF IsDeposit(logs[j]) THEN <<logs[j].data>> ELSE <<>>]
           f == [j \in DOMAIN lists |-> Len(lists[j])]
           events == {j \in DOMAIN logs : IsDeposit(logs[j])}
<1>1. DOMAIN logs = 1 .. Len(logs) /\ Len(logs) \in Nat
  OBVIOUS
<1>2. lists \in Seq(Seq(S))
  <2>1. \A j \in DOMAIN logs : lists[j] \in Seq(S)
    OBVIOUS
  <2> HIDE DEF lists
  <2>2. lists \in [1 .. Len(logs) -> Seq(S)]
    BY <1>1, <2>1 DEF lists
  <2>3. QED
    BY <1>1, <2>2
<1>3. /\ FlattenSeq(lists) \in Seq(S)
      /\ Len(FlattenSeq(lists)) = SumFunction(f)
  BY <1>2, FlattenLength
<1>4. DepositsOf(logs) = FlattenSeq(lists)
  BY DEF DepositsOf
<1>5. SumFunction(f) = Cardinality(events)
  <2>1. DOMAIN f = DOMAIN logs /\ IsFiniteSet(DOMAIN logs) /\ events \in SUBSET DOMAIN logs
    BY <1>1, FS_Interval
  <2>2. \A j \in DOMAIN logs : f[j] = IF j \in events THEN 1 ELSE 0
    OBVIOUS
  <2> HIDE DEF f, events
  <2>3. QED
    BY <2>1, <2>2, SumOfOnes DEF SumFunction
<1>6. Len(FlattenSeq(lists)) \in Nat
  BY <1>3, LenProperties
<1> HIDE DEF lists, f
<1>7. QED
  BY <1>3, <1>4, <1>5, <1>6

\* The deposit requests of a block are as many as the deposit events in it.
LEMMA DepositsOfBlock ==
    ASSUME ReceiptsInv
    PROVE  /\ DepositRequests \in Seq(RequestItem)
           /\ Len(DepositRequests) = DepositEvents
           /\ Len(DepositRequests) \in Nat
<1> DEFINE lists == [i \in DOMAIN receipts |-> DepositsOf(receipts[i].logs)]
           f == [i \in DOMAIN lists |-> Len(lists[i])]
           e == [i \in DOMAIN receipts |->
                    Cardinality({j \in DOMAIN receipts[i].logs :
                        LET log == receipts[i].logs[j]
                        IN  log.address = DepositContract /\ log.topic = "DepositEvent"})]
<1>1. receipts \in Seq(Receipt) /\ DOMAIN receipts = 1 .. Len(receipts) /\ Len(receipts) \in Nat
  BY DEF ReceiptsInv
<1>2. ASSUME NEW i \in DOMAIN receipts
      PROVE  /\ DepositsOf(receipts[i].logs) \in Seq(RequestItem)
             /\ Len(DepositsOf(receipts[i].logs)) = e[i]
  <2> DEFINE logs == receipts[i].logs
  <2>1. logs \in {tx.logs : tx \in AllTransactions} \cup {<<>>}
    <3>1. receipts[i] \in Receipt
      BY <1>1, <1>2
    <3>2. \A r \in Receipt : r.logs \in {tx.logs : tx \in AllTransactions} \cup {<<>>}
      BY DEF Receipt
    <3>3. QED
      BY <3>1, <3>2
  <2>2. logs \in Seq(Range(logs)) /\ \A j \in DOMAIN logs : logs[j].data \in RequestItem
    <3>1. CASE logs = <<>>
      BY <3>1
    <3>2. CASE logs # <<>>
      <4>1. PICK tx \in AllTransactions : logs = tx.logs
        BY <2>1, <3>2
      <4>2. QED
        BY <4>1, StateAssumption DEF RequestItem
    <3>3. QED
      BY <3>1, <3>2
  <2>3. /\ DepositsOf(logs) \in Seq(RequestItem)
        /\ Len(DepositsOf(logs)) = Cardinality({j \in DOMAIN logs : IsDeposit(logs[j])})
    <3> HIDE DEF logs
    <3> QED
      BY <2>2, DepositsOfLogs
  <2>4. QED
    BY <2>3 DEF IsDeposit
<1>3. lists \in Seq(Seq(RequestItem))
  <2>1. lists \in [1 .. Len(receipts) -> Seq(RequestItem)]
    BY <1>1, <1>2
  <2>2. QED
    BY <1>1, <2>1
<1>4. DepositRequests = FlattenSeq(lists)
  BY DEF DepositRequests
<1>5. /\ FlattenSeq(lists) \in Seq(RequestItem)
      /\ Len(FlattenSeq(lists)) = SumFunction(f)
  BY <1>3, FlattenLength
<1>6. f = e
  BY <1>2
<1>7. DepositEvents = SumFunction(e)
  BY DEF DepositEvents
<1> HIDE DEF lists, f, e
<1>8. Len(FlattenSeq(lists)) \in Nat
  BY <1>5, LenProperties
<1>9. QED
  BY <1>4, <1>5, <1>6, <1>7, <1>8

\* The requests of a type after one more list was added.
LEMMA RequestedAfterPush ==
    ASSUME NEW list \in Seq(Request), NEW type \in 0 .. 2, NEW data \in Seq(RequestItem),
           NEW t
    PROVE  /\ PushRequest(list, type, data) \in Seq(Request)
           /\ Requested(list, t) \in Nat
           /\ Requested(PushRequest(list, type, data), t)
                = Requested(list, t) + (IF t = type THEN Len(data) ELSE 0)
<1> DEFINE more == Append(list, [type |-> type, data |-> data])
           n == Len(list)
           f == [i \in DOMAIN list |-> IF list[i].type = t THEN Len(list[i].data) ELSE 0]
           g == [i \in DOMAIN more |-> IF more[i].type = t THEN Len(more[i].data) ELSE 0]
<1>1. /\ n \in Nat /\ DOMAIN list = 1 .. n /\ DOMAIN more = 1 .. n + 1
      /\ more \in Seq(Request) /\ Len(data) \in Nat
  BY DEF Request
<1>2. \A i \in 1 .. n : f[i] \in Nat
  BY <1>1 DEF Request
<1>3. /\ \A i \in 1 .. n : g[i] = f[i]
      /\ g[n + 1] = IF t = type THEN Len(data) ELSE 0
  BY <1>1
<1>4. /\ Requested(list, t) = SumFunctionOnSet(f, 1 .. n)
      /\ Requested(more, t) = SumFunctionOnSet(g, 1 .. n + 1)
  BY <1>1 DEF Requested, SumFunction
<1> HIDE DEF f, g
<1>5. Requested(list, t) \in Nat
  <2>1. IsFiniteSet(1 .. n)
    BY <1>1, FS_Interval
  <2>2. QED
    BY <1>2, <1>4, <2>1, SumType
<1>6. Requested(more, t) = Requested(list, t) + (IF t = type THEN Len(data) ELSE 0)
  <2>1. \A i \in 1 .. n + 1 : g[i] \in Int
    BY <1>1, <1>2, <1>3
  <2>2. SumFunctionOnSet(g, 1 .. n + 1) = SumFunctionOnSet(f, 1 .. n) + g[n + 1]
    BY <1>1, <1>3, <2>1, SumOfLonger
  <2>3. QED
    BY <1>3, <1>4, <2>2
<1>7. CASE data = <<>>
  <2>1. Len(data) = 0
    BY <1>7
  <2>2. PushRequest(list, type, data) = list
    BY <1>7 DEF PushRequest
  <2>3. QED
    BY <1>5, <2>1, <2>2
<1>8. CASE data # <<>>
  <2>1. PushRequest(list, type, data) = more
    BY <1>8 DEF PushRequest
  <2> HIDE DEF more
  <2>2. QED
    BY <1>1, <1>5, <1>6, <2>1
<1>9. QED
  BY <1>7, <1>8

LEMMA NothingRequested == \A t : Requested(<<>>, t) = 0
<1> SUFFICES ASSUME NEW t PROVE Requested(<<>>, t) = 0
  OBVIOUS
<1> DEFINE f == [i \in DOMAIN <<>> |-> IF <<>>[i].type = t THEN Len(<<>>[i].data) ELSE 0]
<1>1. DOMAIN f = {}
  OBVIOUS
<1>2. Requested(<<>>, t) = SumFunctionOnSet(f, {})
  BY <1>1 DEF Requested, SumFunction
<1> HIDE DEF f
<1>3. QED
  BY <1>2, SumOfNothing

\* A receipt more: one more successful call when its transaction made one.
LEMMA SuccessfulCallsAfterReceipt ==
    ASSUME TypesTellApart, ReceiptsInv, NEW tx \in AllTransactions, NEW r,
           r.type = tx.type, receipts' = Append(receipts, r), NEW contract
    PROVE  /\ SuccessfulCalls(contract) \in Nat
           /\ SuccessfulCalls(contract)'
                = SuccessfulCalls(contract) + (IF r.success /\ tx.to = contract THEN 1 ELSE 0)
<1> DEFINE n == Len(receipts)
           Call(x) == /\ x.success
                      /\ \E u \in AllTransactions : u.type = x.type /\ u.to = contract
           old == {i \in DOMAIN receipts : Call(receipts[i])}
           new == {i \in DOMAIN receipts' : Call(receipts'[i])}
<1>1. /\ n \in Nat /\ DOMAIN receipts = 1 .. n /\ DOMAIN receipts' = 1 .. n + 1
      /\ \A i \in 1 .. n : receipts'[i] = receipts[i]
      /\ receipts'[n + 1] = r
  BY DEF ReceiptsInv
<1>2. Call(r) <=> r.success /\ tx.to = contract
  BY DEF TypesTellApart
<1>3. IsFiniteSet(old) /\ Cardinality(old) \in Nat
  <2>1. IsFiniteSet(1 .. n) /\ old \in SUBSET (1 .. n)
    BY <1>1, FS_Interval
  <2> HIDE DEF old
  <2>2. IsFiniteSet(old)
    BY <2>1, FS_Subset
  <2>3. QED
    BY <2>2, FS_CardinalityType
<1>4. SuccessfulCalls(contract) = Cardinality(old) /\ SuccessfulCalls(contract)' = Cardinality(new)
  BY DEF SuccessfulCalls
<1>5. n + 1 \notin old /\ new = IF Call(r) THEN old \cup {n + 1} ELSE old
  <2> HIDE DEF Call
  <2> QED
    BY <1>1
<1> HIDE DEF old, new, n
<1>6. Cardinality(new) = Cardinality(old) + (IF Call(r) THEN 1 ELSE 0)
  <2>1. CASE Call(r)
    <3>1. Cardinality(old \cup {n + 1}) = Cardinality(old) + 1
      BY <1>3, <1>5, FS_AddElement
    <3>2. QED
      BY <1>3, <1>5, <2>1, <3>1
  <2>2. CASE ~Call(r)
    BY <1>3, <1>5, <2>2
  <2>3. QED
    BY <2>1, <2>2
<1> HIDE DEF Call
<1>7. QED
  BY <1>2, <1>3, <1>4, <1>6

\* The types of the requests there can be in a phase.
TypesAt(p) ==
    IF p \in {"start", "beaconRoot", "txs"} THEN {}
    ELSE IF p = "withdrawalRequests" THEN {0}
    ELSE IF p = "consolidationRequests" THEN {0, 1}
    ELSE 0 .. 2

\* The lists of requests, none empty, in the order of their types.
InOrder(list, types) ==
    /\ list \in Seq(Request)
    /\ \A i \in DOMAIN list : list[i].type \in types /\ list[i].data # <<>>
    /\ \A i, j \in DOMAIN list : i < j => list[i].type < list[j].type

\* What became of the requests made to a predeploy.
Accounted(type, contract) ==
    /\ db[contract].storage \in Seq(Addresses)
    /\ Requested(requests, type) + Len(db[contract].storage)
          = Len(InitialState[contract].storage) + SuccessfulCalls(contract)

Finishing == {"withdrawalRequests", "consolidationRequests", "increments", "credit",
              "report", "done"}

\* The inductive strengthening of RequestsConserved: which types there are
\* already, that the queues hold accounts, and the deposits at every phase.
RequestsInv ==
    /\ InOrder(requests, TypesAt(phase))
    /\ Accounted(1, WithdrawalContract)
    /\ Accounted(2, ConsolidationContract)
    /\ phase \in Finishing /\ PragueActiveAtFinish => Requested(requests, 0) = DepositEvents

\* A list of a later type keeps the lists in order.
LEMMA PushKeepsOrder ==
    ASSUME NEW types, NEW more, types \subseteq more, NEW list, InOrder(list, types),
           NEW type \in (0 .. 2) \cap more, NEW data \in Seq(RequestItem),
           \A t \in types : t < type
    PROVE  InOrder(PushRequest(list, type, data), more)
<1> DEFINE request == [type |-> type, data |-> data]
           n == Len(list)
<1>1. list \in Seq(Request) /\ n \in Nat /\ DOMAIN list = 1 .. n
  BY DEF InOrder
<1>2. CASE data = <<>>
  <2>1. PushRequest(list, type, data) = list
    BY <1>2 DEF PushRequest
  <2>2. QED
    BY <2>1 DEF InOrder
<1>3. CASE data # <<>>
  <2> DEFINE longer == Append(list, request)
  <2>1. PushRequest(list, type, data) = longer
    BY <1>3 DEF PushRequest
  <2>2. request \in Request /\ request.type = type /\ request.data = data
    BY DEF Request
  <2> HIDE DEF request
  <2>3. /\ longer \in Seq(Request)
        /\ DOMAIN longer = 1 .. n + 1
        /\ longer[n + 1] = request
        /\ \A i \in 1 .. n : longer[i] = list[i]
    BY <1>1, <2>2
  <2> HIDE DEF longer
  <2>4. \A i \in DOMAIN longer : longer[i].type \in more /\ longer[i].data # <<>>
    <3> SUFFICES ASSUME NEW i \in 1 .. n + 1
                 PROVE  longer[i].type \in more /\ longer[i].data # <<>>
      BY <2>3
    <3>1. CASE i = n + 1
      BY <1>3, <2>2, <2>3, <3>1
    <3>2. CASE i \in 1 .. n
      BY <1>1, <2>3, <3>2 DEF InOrder
    <3>3. QED
      BY <1>1, <3>1, <3>2
  <2>5. \A i, j \in DOMAIN longer : i < j => longer[i].type < longer[j].type
    <3> SUFFICES ASSUME NEW i \in 1 .. n + 1, NEW j \in 1 .. n + 1, i < j
                 PROVE  longer[i].type < longer[j].type
      BY <2>3
    <3>1. i \in 1 .. n /\ longer[i] = list[i] /\ list[i].type \in types
      BY <1>1, <2>3 DEF InOrder
    <3>2. CASE j = n + 1
      BY <2>2, <2>3, <3>1, <3>2
    <3>3. CASE j \in 1 .. n
      <4>1. list[i].type < list[j].type
        BY <1>1, <3>1, <3>3 DEF InOrder
      <4>2. QED
        BY <2>3, <3>1, <3>3, <4>1
    <3>4. QED
      BY <1>1, <3>2, <3>3
  <2>6. InOrder(longer, more)
    BY <2>3, <2>4, <2>5 DEF InOrder
  <2>7. QED
    BY <2>1, <2>6
<1>4. QED
  BY <1>2, <1>3

LEMMA MinOfTwo ==
    ASSUME NEW m \in Nat, NEW n \in Nat
    PROVE  Min({m, n}) \in 0 .. n
<1>1. \E x \in {m, n} : \A y \in {m, n} : x =< y
  <2>1. CASE m <= n
    BY <2>1
  <2>2. CASE n <= m
    BY <2>2
  <2>3. QED
    BY <2>1, <2>2
<1>2. Min({m, n}) \in {m, n} /\ \A y \in {m, n} : Min({m, n}) =< y
  BY <1>1 DEF Min
<1>3. QED
  BY <1>2

\* What a requests call returns it takes from the head of the queue.
LEMMA RequestsCallMoves ==
    ASSUME LedgerInv, NEW contract \in Addresses, NEW source, NEW type, NEW next,
           db[contract].storage \in Seq(Addresses),
           RequestsCall(contract, source, type, next)
    PROVE  \E data \in Seq(Addresses) :
              /\ requests' = PushRequest(requests, type, data)
              /\ db'[contract].storage \in Seq(Addresses)
              /\ Len(data) + Len(db'[contract].storage) = Len(db[contract].storage)
<1> DEFINE queue == db[contract].storage
           n == Min({MaxRequests, Len(queue)})
           head == SubSeq(queue, 1, n)
           rest == SubSeq(queue, n + 1, Len(queue))
<1>1. /\ Len(queue) \in Nat /\ n \in 0 .. Len(queue)
      /\ queue \in Seq(Addresses)
  <2>1. Len(queue) \in Nat /\ MaxRequests \in Nat
    BY StateAssumption, LenProperties
  <2> HIDE DEF queue
  <2>2. n \in 0 .. Len(queue)
    BY <2>1, MinOfTwo
  <2>3. QED
    BY <2>1, <2>2 DEF queue
<1>2. /\ head \in Seq(Addresses) /\ Len(head) = n
      /\ rest \in Seq(Addresses) /\ Len(rest) = Len(queue) - n
  <2> HIDE DEF n, queue
  <2>1. head \in Seq(Addresses) /\ Len(head) = n
    BY <1>1, SubSeqProperties
  <2>2. rest \in Seq(Addresses) /\ Len(rest) = Len(queue) - n
    BY <1>1, SubSeqProperties
  <2>3. QED
    BY <2>1, <2>2
<1>3. CASE db' = db /\ requests' = requests
  <2>1. requests' = PushRequest(requests, type, <<>>)
    BY <1>3 DEF PushRequest
  <2>2. <<>> \in Seq(Addresses) /\ Len(<<>>) = 0
    OBVIOUS
  <2>3. Len(<<>>) + Len(db'[contract].storage) = Len(db[contract].storage)
    BY <1>1, <1>3, <2>2
  <2>4. db'[contract].storage \in Seq(Addresses)
    BY <1>3
  <2>5. QED
    BY <2>1, <2>2, <2>3, <2>4
<1>4. CASE \E res \in DequeueResults(contract) :
              /\ db' = Commit(db, res.state, stateClear)
              /\ requests' = PushRequest(requests, type, res.output)
  <2>1. PICK res \in SystemCallResults(contract, rest, head) :
              /\ db' = Commit(db, res.state, stateClear)
              /\ requests' = PushRequest(requests, type, res.output)
    BY <1>4 DEF DequeueResults
  <2>2. Called(contract, rest, res.success, db, db', contract)
    BY <2>1, SystemCallKeeps DEF LedgerInv
  <2>3. \/ res.success = TRUE /\ res.output = head
        \/ res.success = FALSE /\ res.output = <<>>
    <3> HIDE DEF head, rest
    <3> QED
      BY <2>1 DEF SystemCallResults
  <2>4. CASE res.success = TRUE /\ res.output = head
    <3>1. db'[contract].storage = rest
      BY <2>2, <2>4 DEF Called
    <3> HIDE DEF head, rest, n
    <3>2. Len(head) + Len(rest) = Len(queue)
      BY <1>1, <1>2
    <3>3. QED
      BY <1>2, <2>1, <2>4, <3>1, <3>2
  <2>5. CASE res.success = FALSE /\ res.output = <<>>
    <3>1. db'[contract].storage = queue
      BY <2>2, <2>5 DEF Called
    <3>2. <<>> \in Seq(Addresses) /\ Len(<<>>) + Len(queue) = Len(queue)
      BY <1>1
    <3>3. QED
      BY <1>1, <2>1, <2>5, <3>1, <3>2
  <2>6. QED
    BY <2>3, <2>4, <2>5
<1>5. QED
  BY <1>3, <1>4 DEF RequestsCall, ReportAndCommit

\* Which step changes the requests, the receipts or a queue of requests.
LEMMA RequestsSteps ==
    ASSUME LedgerInv, GasInv, [Next]_vars
    PROVE  \/ CommitTransaction
           \/ StartFinish
           \/ ApplyWithdrawalRequestsContractCall
           \/ ApplyConsolidationRequestsContractCall
           \/ /\ UNCHANGED <<requests, receipts>>
              /\ db'[WithdrawalContract].storage = db[WithdrawalContract].storage
              /\ db'[ConsolidationContract].storage = db[ConsolidationContract].storage
<1> DEFINE Touching == \/ CommitTransaction
                       \/ StartFinish
                       \/ ApplyWithdrawalRequestsContractCall
                       \/ ApplyConsolidationRequestsContractCall
<1> SUFFICES ASSUME ~Touching
             PROVE  /\ UNCHANGED <<requests, receipts>>
                    /\ \A a \in {WithdrawalContract, ConsolidationContract} :
                          db'[a].storage = db[a].storage
  OBVIOUS
<1>1. UNCHANGED <<requests, receipts>>
  BY DEF Next, Execute, ApplyBlockhashesContractCall, ApplyBeaconRootContractCall,
       RejectTransaction, SkipTransaction, Skipped, CollectBalanceIncrements,
       IncrementBalances, ReportBalanceIncrements, SetStateHook, vars, result
<1>2. ASSUME NEW a \in {WithdrawalContract, ConsolidationContract}
      PROVE  db'[a].storage = db[a].storage
  <2>1. a \in Addresses
    BY AddressAssumption DEF SystemContracts
  <2>2. a # HistoryContract /\ a # BeaconContract
    BY DistinctContracts
  <2>3. QED
    BY <2>1, <2>2, StorageSteps
<1>3. QED
  BY <1>1, <1>2

\* Only StartFinish begins to finish.
LEMMA FinishSteps ==
    [Next]_vars /\ ~StartFinish /\ phase' \in Finishing => phase \in Finishing
BY DEF Finishing, Next, Execute, ApplyBlockhashesContractCall, ApplyBeaconRootContractCall,
       CommitTransaction, Committed, RejectTransaction,
       SkipTransaction, Skipped, RequestsCall,
       ApplyWithdrawalRequestsContractCall, ApplyConsolidationRequestsContractCall,
       CollectBalanceIncrements, IncrementBalances, ReportBalanceIncrements,
       SetStateHook, vars

\* A step that leaves receipts, requests and queue alone leaves the account.
LEMMA AccountedStays ==
    ASSUME NEW type, NEW contract, Accounted(type, contract), receipts' = receipts,
           Requested(requests', type) = Requested(requests, type),
           db'[contract].storage = db[contract].storage
    PROVE  Accounted(type, contract)'
<1>1. SuccessfulCalls(contract)' = SuccessfulCalls(contract)
  BY DEF SuccessfulCalls
<1>2. QED
  BY <1>1 DEF Accounted

\* A transaction that calls the predeploy is in its queue.
LEMMA AccountedTransaction ==
    ASSUME TypesTellApart, GasInv, LedgerInv, ReceiptsInv, CommitTransaction,
           NEW type, NEW contract \in {WithdrawalContract, ConsolidationContract},
           Accounted(type, contract), Requested(requests, type) \in Nat,
           Len(InitialState[contract].storage) \in Nat
    PROVE  Accounted(type, contract)'
<1>1. PICK tx, success, r :
          /\ tx \in AllTransactions
          /\ \A a \in Addresses : Moved(tx, success, db, db', a)
          /\ receipts' = Append(receipts, r)
          /\ r.type = tx.type /\ r.success = success
  BY CommitTransactionMoves DEF LedgerInv
<1>2. contract \in Addresses
  BY AddressAssumption DEF SystemContracts
<1> DEFINE queue == db[contract].storage
           called == success /\ contract = tx.to
<1>3. db'[contract].storage = IF called THEN Append(queue, tx.sender) ELSE queue
  <2>1. Moved(tx, success, db, db', contract)
    BY <1>1, <1>2
  <2>2. QED
    BY <2>1 DEF Moved
<1>4. /\ SuccessfulCalls(contract) \in Nat
      /\ SuccessfulCalls(contract)'
            = SuccessfulCalls(contract) + (IF called THEN 1 ELSE 0)
  BY <1>1, SuccessfulCallsAfterReceipt
<1>5. requests' = requests
  BY DEF CommitTransaction, Committed
<1>6. tx.sender \in Addresses
  BY <1>1, StateAssumption
<1>7. /\ queue \in Seq(Addresses) /\ Len(queue) \in Nat
      /\ Requested(requests, type) + Len(queue)
           = Len(InitialState[contract].storage) + SuccessfulCalls(contract)
  BY DEF Accounted
<1>8. /\ Append(queue, tx.sender) \in Seq(Addresses)
      /\ Len(Append(queue, tx.sender)) = Len(queue) + 1
  BY <1>6, <1>7
<1> HIDE DEF queue, called
<1>9. CASE called
  <2>1. /\ db'[contract].storage \in Seq(Addresses)
        /\ Len(db'[contract].storage) = Len(queue) + 1
        /\ SuccessfulCalls(contract)' = SuccessfulCalls(contract) + 1
    BY <1>3, <1>4, <1>8, <1>9
  <2>2. Requested(requests', type) + (Len(queue) + 1)
           = Len(InitialState[contract].storage) + (SuccessfulCalls(contract) + 1)
    <3>1. Requested(requests', type) = Requested(requests, type)
      BY <1>5
    <3>2. QED
      BY <1>4, <1>7, <3>1
  <2>3. QED
    BY <2>1, <2>2 DEF Accounted
<1>10. CASE ~called
  BY <1>3, <1>4, <1>5, <1>7, <1>10 DEF Accounted
<1>11. QED
  BY <1>9, <1>10

\* What a requests call takes from the queue is in the requests.
LEMMA AccountedCall ==
    ASSUME LedgerInv, requests \in Seq(Request), NEW type \in 0 .. 2, NEW source, NEW next,
           NEW contract \in {WithdrawalContract, ConsolidationContract},
           Accounted(type, contract), Len(InitialState[contract].storage) \in Nat,
           RequestsCall(contract, source, type, next)
    PROVE  /\ Accounted(type, contract)'
           /\ \E data \in Seq(RequestItem) : requests' = PushRequest(requests, type, data)
           /\ \A t : t # type => Requested(requests', t) = Requested(requests, t)
<1>1. contract \in Addresses
  BY AddressAssumption DEF SystemContracts
<1>2. PICK data \in Seq(Addresses) :
          /\ requests' = PushRequest(requests, type, data)
          /\ db'[contract].storage \in Seq(Addresses)
          /\ Len(data) + Len(db'[contract].storage) = Len(db[contract].storage)
  BY <1>1, RequestsCallMoves DEF Accounted
<1>3. data \in Seq(RequestItem)
  BY SeqMonotonic DEF RequestItem
<1>4. \A t : /\ Requested(requests, t) \in Nat
             /\ Requested(requests', t)
                  = Requested(requests, t) + (IF t = type THEN Len(data) ELSE 0)
  BY <1>2, <1>3, RequestedAfterPush
<1>5. receipts' = receipts
  BY DEF RequestsCall
<1>6. SuccessfulCalls(contract)' = SuccessfulCalls(contract)
  BY <1>5 DEF SuccessfulCalls
<1>7. /\ Requested(requests, type) \in Nat
      /\ Requested(requests', type) = Requested(requests, type) + Len(data)
      /\ Len(data) \in Nat /\ Len(db'[contract].storage) \in Nat
  BY <1>2, <1>4, LenProperties
<1>8. Requested(requests', type) + Len(db'[contract].storage)
        = Requested(requests, type) + Len(db[contract].storage)
  <2> DEFINE before == Len(db[contract].storage)
             after == Len(db'[contract].storage)
             given == Len(data)
             had == Requested(requests, type)
             has == Requested(requests', type)
  <2>1. /\ after \in Nat /\ given \in Nat /\ had \in Nat
        /\ before = given + after /\ has = had + given
    BY <1>2, <1>7
  <2> HIDE DEF before, after, given, had, has
  <2>2. has + after = had + before
    BY <2>1
  <2>3. QED
    BY <2>2 DEF before, after, had, has
<1>9. Accounted(type, contract)'
  BY <1>2, <1>6, <1>8 DEF Accounted
<1>10. \A t : t # type => Requested(requests', t) = Requested(requests, t)
  BY <1>4
<1>11. QED
  BY <1>2, <1>3, <1>9, <1>10

LEMMA RequestsInvariant == ASSUME TypesTellApart PROVE Spec => []RequestsInv
<1>0. /\ WithdrawalContract \in Addresses /\ ConsolidationContract \in Addresses
      /\ InitialState[WithdrawalContract].storage \in Seq(Addresses)
      /\ InitialState[ConsolidationContract].storage \in Seq(Addresses)
      /\ Len(InitialState[WithdrawalContract].storage) \in Nat
      /\ Len(InitialState[ConsolidationContract].storage) \in Nat
  BY AddressAssumption, StateAssumption, LenProperties DEF SystemContracts
<1>1. Init => RequestsInv
  <2> SUFFICES ASSUME Init PROVE RequestsInv
    OBVIOUS
  <2>1. requests = <<>> /\ receipts = <<>> /\ db = InitialState /\ phase = "start"
    BY DEF Init
  <2>2. InOrder(requests, TypesAt(phase))
    BY <2>1 DEF InOrder
  <2>3. \A c : SuccessfulCalls(c) = 0
    <3>1. \A c : SuccessfulCalls(c) = Cardinality({})
      BY <2>1 DEF SuccessfulCalls
    <3>2. QED
      BY <3>1, FS_EmptySet
  <2>4. \A t : Requested(requests, t) = 0
    BY <2>1, NothingRequested
  <2>5. Accounted(1, WithdrawalContract) /\ Accounted(2, ConsolidationContract)
    BY <1>0, <2>1, <2>3, <2>4 DEF Accounted
  <2>6. phase \notin Finishing
    BY <2>1 DEF Finishing
  <2>7. QED
    BY <2>2, <2>5, <2>6 DEF RequestsInv
<1>2. GasInv /\ ReceiptsInv /\ LedgerInv /\ FieldsInv /\ RequestsInv /\ [Next]_vars
        => RequestsInv'
  <2> SUFFICES ASSUME GasInv, ReceiptsInv, LedgerInv, FieldsInv, RequestsInv, [Next]_vars
               PROVE  RequestsInv'
    OBVIOUS
  <2>0. /\ requests \in Seq(Request)
        /\ InOrder(requests, TypesAt(phase))
        /\ Accounted(1, WithdrawalContract) /\ Accounted(2, ConsolidationContract)
        /\ phase \in Finishing /\ PragueActiveAtFinish => Requested(requests, 0) = DepositEvents
        /\ PragueActiveAtFinish' = PragueActiveAtFinish
    BY OtherStepsKeepCaller DEF RequestsInv, InOrder, PragueActiveAtFinish
  <2>1. \A t : Requested(requests, t) \in Nat
    <3>1. <<>> \in Seq(RequestItem) /\ 0 \in 0 .. 2
      OBVIOUS
    <3>2. QED
      BY <2>0, <3>1, RequestedAfterPush
  <2>2. requests' = requests => InOrder(requests', TypesAt(phase'))
    <3>1. TypesAt(phase) \subseteq TypesAt(phase')
      BY PhaseSteps DEF TypesAt
    <3>2. QED
      BY <2>0, <3>1 DEF InOrder
  <2>3. receipts' = receipts => DepositEvents' = DepositEvents
    BY DEF DepositEvents
  <2>4. CASE CommitTransaction
    <3>1. requests' = requests /\ phase = "txs" /\ phase' = "txs"
      BY <2>4 DEF CommitTransaction, Committed
    <3>2. Accounted(1, WithdrawalContract)' /\ Accounted(2, ConsolidationContract)'
      BY <1>0, <2>0, <2>1, <2>4, AccountedTransaction
    <3>3. QED
      BY <2>2, <3>1, <3>2 DEF RequestsInv, Finishing
  <2>5. CASE StartFinish
    <3>1. receipts' = receipts /\ db' = db /\ phase = "txs"
      BY <2>5 DEF StartFinish
    <3>2. requests = <<>>
      BY <2>0, <3>1 DEF TypesAt, InOrder
    <3>3. /\ DepositRequests \in Seq(RequestItem)
          /\ Len(DepositRequests) = DepositEvents /\ Len(DepositRequests) \in Nat
      BY DepositsOfBlock
    <3>4. CASE requests' = requests /\ (phase' = "failed" \/ ~PragueActiveAtFinish)
      <4>1. Accounted(1, WithdrawalContract)' /\ Accounted(2, ConsolidationContract)'
        BY <2>0, <3>1, <3>4, AccountedStays
      <4>2. phase' = "failed" => phase' \notin Finishing
        BY DEF Finishing
      <4>3. QED
        BY <2>0, <2>2, <3>4, <4>1, <4>2 DEF RequestsInv
    <3>5. CASE /\ requests' = PushRequest(requests, 0, DepositRequests)
               /\ phase' = "withdrawalRequests"
      <4>1. \A t : Requested(requests', t)
                      = Requested(requests, t) + (IF t = 0 THEN Len(DepositRequests) ELSE 0)
        BY <2>0, <3>3, <3>5, RequestedAfterPush
      <4>2. \A t : Requested(requests, t) = 0
        BY <3>2, NothingRequested
      <4>3. /\ Requested(requests', 1) = Requested(requests, 1)
            /\ Requested(requests', 2) = Requested(requests, 2)
            /\ Requested(requests', 0) = DepositEvents
        BY <2>1, <3>3, <4>1, <4>2
      <4>4. Accounted(1, WithdrawalContract)' /\ Accounted(2, ConsolidationContract)'
        BY <2>0, <3>1, <4>3, AccountedStays
      <4>5. InOrder(requests', TypesAt(phase'))
        <5>1. TypesAt(phase) = {} /\ TypesAt(phase') = {0}
          BY <3>1, <3>5 DEF TypesAt
        <5>2. QED
          BY <2>0, <3>3, <3>5, <5>1, PushKeepsOrder
      <4>6. QED
        BY <2>3, <3>1, <4>3, <4>4, <4>5 DEF RequestsInv
    <3>6. QED
      BY <2>5, <3>2, <3>4, <3>5 DEF StartFinish
  <2>6. CASE ApplyWithdrawalRequestsContractCall
    <3>0. RequestsCall(WithdrawalContract, "WithdrawalRequestsContract", 1,
                       "consolidationRequests") /\ phase = "withdrawalRequests"
      BY <2>6 DEF ApplyWithdrawalRequestsContractCall
    <3>1. /\ Accounted(1, WithdrawalContract)'
          /\ \E data \in Seq(RequestItem) : requests' = PushRequest(requests, 1, data)
          /\ \A t : t # 1 => Requested(requests', t) = Requested(requests, t)
      BY <1>0, <2>0, <3>0, AccountedCall
    <3>2. receipts' = receipts /\ phase' \in {"consolidationRequests", "failed"}
      BY <3>0 DEF RequestsCall
    <3>3. Accounted(2, ConsolidationContract)'
      <4>1. db'[ConsolidationContract].storage = db[ConsolidationContract].storage
        <5>1. phase # "txs" /\ phase # "consolidationRequests"
          BY <3>0
        <5>2. ~CommitTransaction /\ ~ApplyConsolidationRequestsContractCall
          BY <5>1 DEF CommitTransaction, Committed, ApplyConsolidationRequestsContractCall
        <5>3. QED
          BY <1>0, <5>2, DistinctContracts, StorageSteps
      <4>2. QED
        BY <2>0, <3>1, <3>2, <4>1, AccountedStays
    <3>4. InOrder(requests', TypesAt(phase'))
      <4>1. TypesAt(phase) = {0} /\ {0} \subseteq TypesAt(phase') /\ 1 \in TypesAt(phase')
        BY <3>0, <3>2 DEF TypesAt
      <4>2. QED
        BY <2>0, <3>1, <4>1, PushKeepsOrder
    <3>5. Requested(requests', 0) = Requested(requests, 0) /\ phase \in Finishing
      BY <3>0, <3>1 DEF Finishing
    <3>6. QED
      BY <2>0, <2>3, <3>1, <3>2, <3>3, <3>4, <3>5 DEF RequestsInv
  <2>7. CASE ApplyConsolidationRequestsContractCall
    <3>0. RequestsCall(ConsolidationContract, "ConsolidationRequestsContract", 2,
                       "increments") /\ phase = "consolidationRequests"
      BY <2>7 DEF ApplyConsolidationRequestsContractCall
    <3>1. /\ Accounted(2, ConsolidationContract)'
          /\ \E data \in Seq(RequestItem) : requests' = PushRequest(requests, 2, data)
          /\ \A t : t # 2 => Requested(requests', t) = Requested(requests, t)
      BY <1>0, <2>0, <3>0, AccountedCall
    <3>2. receipts' = receipts /\ phase' \in {"increments", "failed"}
      BY <3>0 DEF RequestsCall
    <3>3. Accounted(1, WithdrawalContract)'
      <4>1. db'[WithdrawalContract].storage = db[WithdrawalContract].storage
        <5>1. phase # "txs" /\ phase # "withdrawalRequests"
          BY <3>0
        <5>2. ~CommitTransaction /\ ~ApplyWithdrawalRequestsContractCall
          BY <5>1 DEF CommitTransaction, Committed, ApplyWithdrawalRequestsContractCall
        <5>3. QED
          BY <1>0, <5>2, DistinctContracts, StorageSteps
      <4>2. QED
        BY <2>0, <3>1, <3>2, <4>1, AccountedStays
    <3>4. InOrder(requests', TypesAt(phase'))
      <4>1. TypesAt(phase) = {0, 1} /\ {0, 1} \subseteq TypesAt(phase') /\ 2 \in TypesAt(phase')
        BY <3>0, <3>2 DEF TypesAt
      <4>2. QED
        BY <2>0, <3>1, <4>1, PushKeepsOrder
    <3>5. Requested(requests', 0) = Requested(requests, 0) /\ phase \in Finishing
      BY <3>0, <3>1 DEF Finishing
    <3>6. QED
      BY <2>0, <2>3, <3>1, <3>2, <3>3, <3>4, <3>5 DEF RequestsInv
  <2>8. CASE /\ UNCHANGED <<requests, receipts>>
             /\ ~StartFinish
             /\ db'[WithdrawalContract].storage = db[WithdrawalContract].storage
             /\ db'[ConsolidationContract].storage = db[ConsolidationContract].storage
    <3>1. Accounted(1, WithdrawalContract)' /\ Accounted(2, ConsolidationContract)'
      BY <2>0, <2>8, AccountedStays
    <3>2. phase' \in Finishing => phase \in Finishing
      BY <2>8, FinishSteps
    <3>3. QED
      BY <2>0, <2>2, <2>3, <2>8, <3>1, <3>2 DEF RequestsInv
  <2>9. QED
    BY <2>4, <2>5, <2>6, <2>7, <2>8, RequestsSteps
<1>3. QED
  BY <1>1, <1>2, GasInvariant, ReceiptsInvariant, LedgerInvariant, FieldsInvariant,
     PTL DEF Spec

\* No request is lost or made up: every request queued before the block or made
\* by a successful transaction in it is returned or still queued, the deposits
\* returned are the events the deposit contract logged, and the lists are in the
\* order of their types.  The hypothesis lets a receipt tell what was called.
THEOREM RequestsAccounted == ASSUME TypesTellApart PROVE Spec => []RequestsConserved
<1>1. RequestsInv => RequestsConserved
  <2> SUFFICES ASSUME RequestsInv PROVE RequestsConserved
    OBVIOUS
  <2>1. phase = "done" => phase \in Finishing
    BY DEF Finishing
  <2>2. QED
    BY <2>1 DEF RequestsInv, InOrder, Accounted, RequestsConserved
<1>2. QED
  BY <1>1, RequestsInvariant, PTL

=============================================================================
