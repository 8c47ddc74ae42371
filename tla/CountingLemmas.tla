--------------------------- MODULE CountingLemmas ---------------------------
(***************************************************************************)
(* Counting: finite sets whose elements carry an integer (the finish times *)
(* of tasks) have a last element and an order statistic, and finite sets   *)
(* that are ordered (positions in a ring or in a text) have a k-th element.*)
(***************************************************************************)
EXTENDS Integers, FiniteSets, Functions, FiniteSetTheorems, WellFoundedInduction, TLAPS

\* Of a nonempty set measured by natural numbers, some element is least.
LEMMA LeastMeasure ==
    ASSUME NEW T, T # {}, NEW g \in [T -> Nat]
    PROVE  \E x \in T : \A y \in T : g[x] <= g[y]
<1> DEFINE Img == {g[x] : x \in T}
<1>1. Img \subseteq Nat /\ Img # {}
  OBVIOUS
<1>2. PICK m \in Img : \A k \in Img : ~ (<<k, m>> \in OpToRel(<, Nat))
  BY <1>1, NatLessThanWellFounded, WFMin, Zenon
<1>3. \A k \in Img : m <= k
  <2> SUFFICES ASSUME NEW k \in Img PROVE m <= k
    OBVIOUS
  <2>1. ~ (<<k, m>> \in {ss \in Nat \X Nat : ss[1] < ss[2]})
    BY <1>2 DEF OpToRel
  <2>2. m \in Nat /\ k \in Nat
    BY <1>1
  <2> QED
    BY <2>1, <2>2
<1>4. PICK x \in T : m = g[x]
  OBVIOUS
<1> QED
  BY <1>3, <1>4

\* What holds of 0 and goes from each number to the next holds of all numbers:
\* induction, for what can be collected in a set.
LEMMA AllNumbers ==
    ASSUME NEW S, 0 \in S, \A n \in Nat : n \in S => n + 1 \in S
    PROVE  Nat \subseteq S
<1> DEFINE T == Nat \ S
           g == [n \in T |-> n]
<1> SUFFICES ASSUME T # {} PROVE FALSE
  OBVIOUS
<1>1. g \in [T -> Nat]
  OBVIOUS
<1>2. PICK m \in T : \A n \in T : g[m] <= g[n]
  <2> HIDE DEF g, T
  <2> QED BY <1>1, LeastMeasure
<1>3. m \in Nat /\ m # 0 /\ m - 1 \notin T
  BY <1>2
<1>4. m - 1 \in Nat /\ m - 1 \in S
  BY <1>3
<1> QED BY <1>3, <1>4

\* A finite nonempty set has an element of greatest value.
LEMMA GreatestElement ==
    ASSUME NEW S, IsFiniteSet(S), S # {}, NEW f \in [S -> Int]
    PROVE  \E m \in S : \A j \in S : f[j] <= f[m]
<1> DEFINE Above(i) == {j \in S : f[j] > f[i]}
<1> DEFINE g == [i \in S |-> Cardinality(Above(i))]
<1>1. \A i \in S : IsFiniteSet(Above(i)) /\ Cardinality(Above(i)) \in Nat
  BY FS_Subset, FS_CardinalityType
<1>2. g \in [S -> Nat]
  BY <1>1
<1> HIDE DEF g
<1>3. PICK m \in S : \A i \in S : g[m] <= g[i]
  BY <1>2, LeastMeasure
<1>4. SUFFICES ASSUME NEW j \in S, f[j] > f[m] PROVE FALSE
  OBVIOUS
<1>5. Above(j) \subseteq Above(m) /\ j \in Above(m) /\ j \notin Above(j)
  BY <1>4
<1>6. Cardinality(Above(j)) < Cardinality(Above(m))
  <2> HIDE DEF Above
  <2>1. Above(j) \in SUBSET Above(m) /\ Above(j) # Above(m)
    BY <1>5
  <2>2. Cardinality(Above(j)) <= Cardinality(Above(m)) /\ Cardinality(Above(j)) # Cardinality(Above(m))
    BY <1>1, <2>1, FS_Subset
  <2> QED
    BY <1>1, <2>2
<1> QED
  BY <1>1, <1>3, <1>6 DEF g

\* How many elements of S carry a value below v, or up to v.
CountBelow(S, f, v) == Cardinality({i \in S : f[i] < v})
CountUpTo(S, f, v) == Cardinality({i \in S : f[i] <= v})

\* The order statistic of index n: some element has at most n values strictly
\* below its own and more than n at or below it.
LEMMA OrderStatistic ==
    ASSUME NEW S, IsFiniteSet(S), NEW f \in [S -> Int],
           NEW n \in Nat, n < Cardinality(S)
    PROVE  \E m \in S : CountBelow(S, f, f[m]) <= n /\ n < CountUpTo(S, f, f[m])
<1> DEFINE UpTo(i) == {j \in S : f[j] <= f[i]}
<1> DEFINE Under(i) == {j \in S : f[j] < f[i]}
<1> DEFINE U == {i \in S : n < Cardinality(UpTo(i))}
<1>1. \A i \in S : /\ IsFiniteSet(UpTo(i)) /\ Cardinality(UpTo(i)) \in Nat
                   /\ IsFiniteSet(Under(i)) /\ Cardinality(Under(i)) \in Nat
  BY FS_Subset, FS_CardinalityType
<1>2. U # {}
  <2>1. S # {}
    BY FS_EmptySet
  <2>2. PICK m \in S : \A j \in S : f[j] <= f[m]
    BY <2>1, GreatestElement
  <2>3. UpTo(m) = S
    BY <2>2
  <2> QED
    BY <2>3
<1> DEFINE g == [i \in U |-> Cardinality(UpTo(i))]
<1>3. PICK i \in U : \A k \in U : Cardinality(UpTo(i)) <= Cardinality(UpTo(k))
  <2>1. g \in [U -> Nat]
    BY <1>1
  <2>2. \E i \in U : \A k \in U : g[i] <= g[k]
    <3> HIDE DEF g, U
    <3> QED BY <1>2, <2>1, LeastMeasure
  <2> QED
    BY <2>2
<1>4. Cardinality(Under(i)) <= n
  <2>0. i \in S /\ Cardinality(Under(i)) \in Nat /\ Cardinality(UpTo(i)) \in Nat
    BY <1>1
  <2> SUFFICES ASSUME n < Cardinality(Under(i)) PROVE FALSE
    <3> HIDE DEF Under
    <3> QED BY <2>0
  <2>1. Under(i) # {}
    BY FS_EmptySet
  <2>2. PICK m \in Under(i) : \A j \in Under(i) : f[j] <= f[m]
    <3> DEFINE h == [j \in Under(i) |-> f[j]]
    <3>1. h \in [Under(i) -> Int]
      OBVIOUS
    <3>2. IsFiniteSet(Under(i))
      BY <1>1
    <3>3. \E m \in Under(i) : \A j \in Under(i) : h[j] <= h[m]
      <4> HIDE DEF h, Under
      <4> QED BY <2>1, <3>1, <3>2, GreatestElement
    <3> QED
      BY <3>3
  <2>3. UpTo(m) = Under(i)
    BY <2>2
  <2>4. m \in U
    BY <2>3
  <2>5. UpTo(m) \in SUBSET UpTo(i) /\ UpTo(m) # UpTo(i)
    <3>1. i \in UpTo(i) /\ i \notin Under(i)
      OBVIOUS
    <3>2. Under(i) \subseteq UpTo(i)
      OBVIOUS
    <3> QED
      BY <3>1, <3>2, <2>3
  <2>6. m \in S /\ IsFiniteSet(UpTo(i)) /\ Cardinality(UpTo(m)) \in Nat
    BY <1>1, <2>4
  <2>7. Cardinality(UpTo(m)) < Cardinality(UpTo(i))
    <3> HIDE DEF UpTo
    <3>1. Cardinality(UpTo(m)) <= Cardinality(UpTo(i)) /\ Cardinality(UpTo(m)) # Cardinality(UpTo(i))
      BY <2>5, <2>6, FS_Subset
    <3> QED
      BY <2>0, <2>6, <3>1
  <2>8. Cardinality(UpTo(i)) <= Cardinality(UpTo(m))
    BY <1>3, <2>4
  <2> QED
    <3> HIDE DEF UpTo
    <3> QED BY <2>0, <2>6, <2>7, <2>8
<1>5. n < Cardinality(UpTo(i)) /\ i \in S
  OBVIOUS
<1> QED
  BY <1>4, <1>5 DEF CountBelow, CountUpTo

\* What an order statistic leaves on the other side.
LEMMA OrderStatisticAbove ==
    ASSUME NEW S, IsFiniteSet(S), NEW f \in [S -> Int], NEW v \in Int, NEW n \in Nat,
           CountBelow(S, f, v) <= n, n < CountUpTo(S, f, v)
    PROVE  /\ Cardinality({i \in S : f[i] > v}) < Cardinality(S) - n
           /\ Cardinality({i \in S : f[i] >= v}) >= Cardinality(S) - n
<1> DEFINE Lt == {i \in S : f[i] < v}
           Le == {i \in S : f[i] <= v}
<1>1. {i \in S : f[i] > v} = S \ Le /\ {i \in S : f[i] >= v} = S \ Lt
  OBVIOUS
<1>2. S \cap Le = Le /\ S \cap Lt = Lt
  OBVIOUS
<1>3. /\ Cardinality(S \ Le) = Cardinality(S) - Cardinality(Le)
      /\ Cardinality(S \ Lt) = Cardinality(S) - Cardinality(Lt)
  <2> HIDE DEF Lt, Le
  <2>1. Cardinality(S \ Le) = Cardinality(S) - Cardinality(S \cap Le)
    BY FS_Difference, Zenon
  <2>2. Cardinality(S \ Lt) = Cardinality(S) - Cardinality(S \cap Lt)
    BY FS_Difference, Zenon
  <2> QED BY <1>2, <2>1, <2>2, Zenon
<1>4. Cardinality(S) \in Nat /\ Cardinality(Lt) \in Nat /\ Cardinality(Le) \in Nat
  BY FS_Subset, FS_CardinalityType
<1>5. Cardinality(Lt) <= n /\ n < Cardinality(Le)
  BY DEF CountBelow, CountUpTo
<1> QED
  BY <1>1, <1>3, <1>4, <1>5

\* A relation R puts the elements of S in a line.
Lines(R, S) ==
    /\ \A x \in S : <<x, x>> \notin R
    /\ \A x, y \in S : x # y => <<x, y>> \in R \/ <<y, x>> \in R
    /\ \A x, y, z \in S : <<x, y>> \in R /\ <<y, z>> \in R => <<x, z>> \in R

\* The place of x in that line.
Rank(R, S, x) == Cardinality({y \in S : y = x \/ <<y, x>> \in R})

\* Who stands further back has the greater rank.
LEMMA RankGrows ==
    ASSUME NEW S, IsFiniteSet(S), NEW R, Lines(R, S),
           NEW x \in S, NEW y \in S, <<x, y>> \in R
    PROVE  Rank(R, S, x) < Rank(R, S, y)
<1> DEFINE UpTo(z) == {w \in S : w = z \/ <<w, z>> \in R}
<1>1. UpTo(x) \subseteq UpTo(y) /\ y \in UpTo(y) /\ y \notin UpTo(x)
  BY DEF Lines
<1>2. IsFiniteSet(UpTo(y)) /\ Cardinality(UpTo(y)) \in Nat /\ Cardinality(UpTo(x)) \in Nat
  BY FS_Subset, FS_CardinalityType
<1>3. Cardinality(UpTo(x)) <= Cardinality(UpTo(y)) /\ Cardinality(UpTo(x)) # Cardinality(UpTo(y))
  <2> HIDE DEF UpTo
  <2>1. UpTo(x) \in SUBSET UpTo(y) /\ UpTo(x) # UpTo(y)
    BY <1>1
  <2> QED BY <1>2, <2>1, FS_Subset
<1> QED BY <1>2, <1>3 DEF Rank

\* Every place in a line is somebody's.
LEMMA RanksCover ==
    ASSUME NEW S, IsFiniteSet(S), NEW R, Lines(R, S)
    PROVE  /\ \A x \in S : Rank(R, S, x) \in 1 .. Cardinality(S)
           /\ \A k \in 1 .. Cardinality(S) : \E x \in S : Rank(R, S, x) = k
           /\ \A x, y \in S : Rank(R, S, x) = Rank(R, S, y) => x = y
<1> DEFINE n == Cardinality(S)
           rank == [x \in S |-> Rank(R, S, x)]
<1>1. ASSUME NEW x \in S PROVE Rank(R, S, x) \in 1 .. n
  <2> DEFINE UpTo == {y \in S : y = x \/ <<y, x>> \in R}
  <2>1. UpTo \in SUBSET S /\ x \in UpTo
    OBVIOUS
  <2> HIDE DEF UpTo
  <2>2. IsFiniteSet(UpTo) /\ Cardinality(UpTo) <= n /\ n \in Nat /\ Cardinality(UpTo) \in Nat
    BY <2>1, FS_Subset, FS_CardinalityType
  <2>3. Cardinality(UpTo) # 0
    BY <2>1, <2>2, FS_EmptySet
  <2>4. Rank(R, S, x) = Cardinality(UpTo)
    BY DEF Rank, UpTo
  <2> QED BY <2>2, <2>3, <2>4
<1>2. ASSUME NEW x \in S, NEW y \in S, Rank(R, S, x) = Rank(R, S, y) PROVE x = y
  <2> SUFFICES ASSUME x # y PROVE FALSE
    OBVIOUS
  <2>1. <<x, y>> \in R \/ <<y, x>> \in R
    BY DEF Lines
  <2>2. Rank(R, S, x) < Rank(R, S, y) \/ Rank(R, S, y) < Rank(R, S, x)
    BY <2>1, RankGrows
  <2> QED BY <1>1, <1>2, <2>2
<1>3. n \in Nat
  BY FS_CardinalityType
<1>4. rank \in Injection(S, 1 .. n)
  BY <1>1, <1>2 DEF Injection, IsInjective
<1>5. IsFiniteSet(1 .. n) /\ Cardinality(1 .. n) = n
  BY <1>3, FS_Interval
<1>6. rank \in Surjection(S, 1 .. n)
  <2> HIDE DEF rank, n
  <2>1. Cardinality(S) = Cardinality(1 .. n)
    BY <1>5 DEF n
  <2> QED BY <1>4, <1>5, <2>1, FS_Injection
<1>7. \A k \in 1 .. n : \E x \in S : rank[x] = k
  BY <1>6 DEF Surjection
<1> QED BY <1>1, <1>2, <1>7

\* s lists the elements of S by rising values.
Sorts(s, S, f) ==
    /\ s \in [1 .. Cardinality(S) -> S]
    /\ \A i, j \in 1 .. Cardinality(S) : i < j => s[i] # s[j] /\ f[s[i]] <= f[s[j]]

\* A finite set can be sorted, equal values in any order.
LEMMA Sortable ==
    ASSUME NEW S, IsFiniteSet(S), NEW f \in [S -> Int]
    PROVE  \E s : Sorts(s, S, f)
<1> DEFINE n == Cardinality(S)
<1>1. n \in Nat /\ ExistsBijection(1 .. n, S)
  <2>1. PICK m \in Nat : ExistsBijection(1 .. m, S)
    BY FS_NatBijection
  <2>2. Cardinality(S) = m
    BY <2>1, FS_CountingElements
  <2> HIDE DEF n
  <2>3. n = m
    BY <2>2 DEF n
  <2> QED BY <2>1, <2>3
<1>2. PICK b \in Bijection(1 .. n, S) : TRUE
  BY <1>1 DEF ExistsBijection
<1>3. /\ b \in [1 .. n -> S]
      /\ \A i, j \in 1 .. n : b[i] = b[j] => i = j
      /\ \A x \in S : \E i \in 1 .. n : b[i] = x
  BY <1>2 DEF Bijection, Injection, IsInjective, Surjection
<1> DEFINE at == [x \in S |-> CHOOSE i \in 1 .. n : b[i] = x]
<1>4. at \in [S -> 1 .. n] /\ \A x \in S : b[at[x]] = x
  BY <1>3
<1> HIDE DEF at
<1>5. \A x \in S : at[x] \in Int /\ f[x] \in Int
  BY <1>1, <1>4
<1> DEFINE Before == {p \in S \X S :
                        f[p[1]] < f[p[2]] \/ (f[p[1]] = f[p[2]] /\ at[p[1]] < at[p[2]])}
<1>6. \A x, y \in S : <<x, y>> \in Before <=>
                        f[x] < f[y] \/ (f[x] = f[y] /\ at[x] < at[y])
  OBVIOUS
<1> HIDE DEF Before
<1>7. \A x, y \in S : at[x] = at[y] => x = y
  BY <1>4
<1>8. Lines(Before, S)
  BY <1>5, <1>6, <1>7 DEF Lines
<1> DEFINE s == [k \in 1 .. n |-> CHOOSE x \in S : Rank(Before, S, x) = k]
<1>9. \A k \in 1 .. n : s[k] \in S /\ Rank(Before, S, s[k]) = k
  BY <1>8, RanksCover
<1>10. s \in [1 .. n -> S]
  BY <1>9
<1> HIDE DEF s
<1>11. ASSUME NEW i \in 1 .. n, NEW j \in 1 .. n, i < j
       PROVE  s[i] # s[j] /\ f[s[i]] <= f[s[j]]
  <2>1. s[i] \in S /\ s[j] \in S /\ Rank(Before, S, s[i]) = i /\ Rank(Before, S, s[j]) = j
    BY <1>9
  <2>2. s[i] # s[j]
    BY <1>1, <1>11, <2>1
  <2>3. <<s[j], s[i]>> \notin Before
    <3> SUFFICES ASSUME <<s[j], s[i]>> \in Before PROVE FALSE
      OBVIOUS
    <3>1. Rank(Before, S, s[j]) < Rank(Before, S, s[i])
      BY <1>8, <2>1, RankGrows
    <3> QED BY <1>1, <1>11, <2>1, <3>1
  <2> QED BY <1>5, <1>6, <2>1, <2>2, <2>3
<1> QED BY <1>10, <1>11 DEF Sorts

\* The element at index n of a sorted list: at most n values are below it, and
\* more than n are at or below it.
LEMMA SortedIndex ==
    ASSUME NEW S, IsFiniteSet(S), NEW f \in [S -> Int], NEW s, Sorts(s, S, f),
           NEW n \in Nat, n < Cardinality(S)
    PROVE  /\ s[n + 1] \in S
           /\ CountBelow(S, f, f[s[n + 1]]) <= n
           /\ n < CountUpTo(S, f, f[s[n + 1]])
<1> DEFINE k == Cardinality(S)
           v == f[s[n + 1]]
           Below == {x \in S : f[x] < v}
           UpTo  == {x \in S : f[x] <= v}
<1>1. /\ k \in Nat /\ n + 1 \in 1 .. k /\ s \in [1 .. k -> S]
      /\ \A i, j \in 1 .. k : i < j => s[i] # s[j] /\ f[s[i]] <= f[s[j]]
  BY FS_CardinalityType DEF Sorts
<1>2. /\ IsFiniteSet(Below) /\ Cardinality(Below) \in Nat
      /\ IsFiniteSet(UpTo) /\ Cardinality(UpTo) \in Nat
  BY FS_Subset, FS_CardinalityType
<1>3. \A x \in S : \E i \in 1 .. k : s[i] = x
  <2>1. s \in Injection(1 .. k, S)
    <3>1. \A i, j \in 1 .. k : s[i] = s[j] => i = j
      BY <1>1
    <3> QED BY <1>1, <3>1 DEF Injection, IsInjective
  <2>2. IsFiniteSet(1 .. k) /\ Cardinality(1 .. k) = Cardinality(S)
    BY <1>1, FS_Interval
  <2> HIDE DEF k
  <2>3. s \in Surjection(1 .. k, S)
    BY <2>1, <2>2, FS_Injection
  <2> QED BY <2>3 DEF Surjection
<1>4. Cardinality(Below) <= n
  <2> DEFINE T == {s[i] : i \in 1 .. n}
             t == [i \in 1 .. n |-> s[i]]
  <2>1. Below \subseteq T
    <3> SUFFICES ASSUME NEW x \in Below PROVE x \in T
      OBVIOUS
    <3>1. PICK i \in 1 .. k : s[i] = x
      BY <1>3
    <3>2. i < n + 1
      <4> SUFFICES ASSUME n + 1 <= i PROVE FALSE
        BY <1>1
      <4>1. f[s[n + 1]] <= f[s[i]]
        <5>1. CASE n + 1 = i
          BY <1>1, <5>1
        <5>2. CASE n + 1 < i
          BY <1>1, <5>2
        <5> QED BY <1>1, <5>1, <5>2
      <4>2. f[s[i]] < f[s[n + 1]] /\ f[s[i]] \in Int /\ f[s[n + 1]] \in Int
        BY <1>1, <3>1
      <4> QED BY <4>1, <4>2
    <3>3. i \in 1 .. n
      BY <1>1, <3>2
    <3> QED BY <3>1, <3>3
  <2>2. t \in Surjection(1 .. n, T)
    BY DEF Surjection
  <2>3. IsFiniteSet(1 .. n) /\ Cardinality(1 .. n) = n
    BY FS_Interval
  <2> HIDE DEF t, T, Below
  <2>4. IsFiniteSet(T) /\ Cardinality(T) <= n
    BY <2>2, <2>3, FS_Surjection
  <2>5. Cardinality(Below) <= Cardinality(T) /\ Cardinality(T) \in Nat
    BY <2>1, <2>4, FS_Subset, FS_CardinalityType
  <2> QED BY <1>2, <2>4, <2>5
<1>5. n < Cardinality(UpTo)
  <2> DEFINE t == [i \in 1 .. n + 1 |-> s[i]]
  <2>1. \A i \in 1 .. n + 1 : s[i] \in UpTo
    <3> SUFFICES ASSUME NEW i \in 1 .. n + 1 PROVE f[s[i]] <= f[s[n + 1]] /\ s[i] \in S
      OBVIOUS
    <3>1. i \in 1 .. k
      BY <1>1
    <3>2. CASE i = n + 1
      BY <1>1, <3>2
    <3>3. CASE i < n + 1
      BY <1>1, <3>1, <3>3
    <3> QED BY <3>2, <3>3
  <2>2. \A i, j \in 1 .. n + 1 : s[i] = s[j] => i = j
    <3>1. \A i \in 1 .. n + 1 : i \in 1 .. k
      BY <1>1
    <3> QED BY <1>1, <3>1
  <2>3. t \in Injection(1 .. n + 1, UpTo)
    BY <2>1, <2>2 DEF Injection, IsInjective
  <2>4. Cardinality(1 .. n + 1) = n + 1
    BY FS_Interval
  <2> HIDE DEF t, UpTo
  <2>5. n + 1 <= Cardinality(UpTo)
    BY <1>2, <2>3, <2>4, FS_Injection
  <2> QED BY <1>2, <2>5
<1> QED BY <1>1, <1>4, <1>5 DEF CountBelow, CountUpTo

\* Only one value is at that index.
LEMMA OneAtIndex ==
    ASSUME NEW S, IsFiniteSet(S), NEW f \in [S -> Int], NEW n \in Nat,
           NEW v \in Int, CountBelow(S, f, v) <= n, n < CountUpTo(S, f, v),
           NEW w \in Int, CountBelow(S, f, w) <= n, n < CountUpTo(S, f, w)
    PROVE  v = w
<1>1. ASSUME NEW a \in Int, NEW b \in Int, a < b
      PROVE  CountUpTo(S, f, a) <= CountBelow(S, f, b)
  <2> DEFINE A == {x \in S : f[x] <= a}
             B == {x \in S : f[x] < b}
  <2>1. A \in SUBSET B
    BY <1>1
  <2>2. IsFiniteSet(B)
    BY FS_Subset
  <2> HIDE DEF A, B
  <2>3. Cardinality(A) <= Cardinality(B)
    BY <2>1, <2>2, FS_Subset
  <2> QED BY <2>3 DEF CountUpTo, CountBelow, A, B
<1>2. ASSUME NEW a \in Int PROVE CountUpTo(S, f, a) \in Nat /\ CountBelow(S, f, a) \in Nat
  BY FS_Subset, FS_CardinalityType DEF CountUpTo, CountBelow
<1>3. ~(v < w) /\ ~(w < v)
  BY <1>1, <1>2
<1> QED BY <1>3
=============================================================================
