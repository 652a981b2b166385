----------------------------- MODULE RankingProofs ---------------------------
(* What a ranking is, for any finite set and any strict order of all of it. *)
EXTENDS Ranking, Sequences, FiniteSetTheorems, WellFoundedInduction, TLAPS

\* R puts any two elements of S in an order.
Orders(R, S) ==
  /\ \A x \in S : <<x, x>> \notin R
  /\ \A x, y \in S : x = y \/ <<x, y>> \in R \/ <<y, x>> \in R
  /\ \A x, y, z \in S : <<x, y>> \in R /\ <<y, z>> \in R => <<x, z>> \in R

\* The list s has the elements of S, each once, in the order R.
Ranks(s, S, R) ==
  /\ s \in [1..Cardinality(S) -> S]
  /\ \A x \in S : \E i \in 1..Cardinality(S) : s[i] = x
  /\ \A i, j \in 1..Cardinality(S) : i < j <=> <<s[i], s[j]>> \in R

\* Of two elements the first has fewer before it.
LEMMA FewerBefore ==
  ASSUME NEW S, IsFiniteSet(S), NEW R, Orders(R, S), NEW x \in S, NEW y \in S, <<x, y>> \in R
  PROVE  Cardinality(Before(x, S, R)) < Cardinality(Before(y, S, R))
<1>1. IsFiniteSet(Before(y, S, R)) /\ IsFiniteSet(Before(x, S, R))
  BY FS_Subset DEF Before
<1>2. Before(x, S, R) \in SUBSET Before(y, S, R)
  BY DEF Before, Orders
<1>3. x \in Before(y, S, R) /\ x \notin Before(x, S, R)
  BY DEF Before, Orders
<1>4. /\ Cardinality(Before(x, S, R)) <= Cardinality(Before(y, S, R))
      /\ Cardinality(Before(x, S, R)) # Cardinality(Before(y, S, R))
  BY <1>1, <1>2, <1>3, FS_Subset
<1> QED
  BY <1>1, <1>4, FS_CardinalityType

\* There is exactly one element for each number of elements before it.
LEMMA PlacesAreTaken ==
  ASSUME NEW S, IsFiniteSet(S), NEW R, Orders(R, S)
  PROVE  /\ Cardinality(S) \in Nat
         /\ \A x \in S : Cardinality(Before(x, S, R)) \in 0..(Cardinality(S) - 1)
         /\ \A i \in 0..(Cardinality(S) - 1) : \E x \in S : Cardinality(Before(x, S, R)) = i
<1> DEFINE n == Cardinality(S)
           place == [x \in S |-> Cardinality(Before(x, S, R))]
<1>1. n \in Nat
  BY FS_CardinalityType
<1>2. ASSUME NEW x \in S PROVE place[x] \in 0..(n - 1)
  <2>1. Before(x, S, R) \in SUBSET S /\ Before(x, S, R) # S
    BY DEF Before, Orders
  <2>2. IsFiniteSet(Before(x, S, R)) /\ Cardinality(Before(x, S, R)) <= n /\ Cardinality(Before(x, S, R)) # n
    BY <2>1, FS_Subset
  <2>3. Cardinality(Before(x, S, R)) \in Nat
    BY <2>2, FS_CardinalityType
  <2> QED
    BY <1>1, <2>2, <2>3
<1>3. ASSUME NEW x \in S, NEW y \in S, x # y PROVE place[x] # place[y]
  <2>1. <<x, y>> \in R \/ <<y, x>> \in R
    BY <1>3 DEF Orders
  <2>2. place[x] < place[y] \/ place[y] < place[x]
    BY <2>1, FewerBefore
  <2> QED
    BY <1>1, <1>2, <2>2
<1>4. place \in Injection(S, 0..(n - 1))
  <2>1. place \in [S -> 0..(n - 1)]
    BY <1>2
  <2>2. \A x, y \in S : place[x] = place[y] => x = y
    BY <1>3
  <2> HIDE DEF place
  <2> QED
    <3>1. DOMAIN place = S /\ IsInjective(place)
      BY <2>1, <2>2 DEF IsInjective
    <3> QED
      <4> DEFINE T == 0..(n - 1)
      <4>1. place \in [S -> T]
        BY <2>1
      <4> HIDE DEF T
      <4>2. place \in Injection(S, T)
        BY <3>1, <4>1 DEF Injection
      <4> QED
        BY <4>2 DEF T
<1>5. IsFiniteSet(0..(n - 1)) /\ Cardinality(0..(n - 1)) = n
  BY <1>1, FS_Interval
<1>6. place \in Surjection(S, 0..(n - 1))
  BY <1>4, <1>5, FS_Injection
<1> QED
  BY <1>1, <1>2, <1>6 DEF Surjection

\* sorted() with a key that tells all elements apart: the list has each element
\* once, in the order of the key (download.py:221, routes_search.py:226-263,
\* asset_detail.py:150-154).
THEOREM RankedRanks ==
  ASSUME NEW S, IsFiniteSet(S), NEW R, Orders(R, S)
  PROVE  Ranks(Ranked(S, R), S, R) /\ Cardinality(S) \in Nat
<1> DEFINE n == Cardinality(S)
           s == Ranked(S, R)
           before(x) == Cardinality(Before(x, S, R))
<1>1. /\ n \in Nat
      /\ \A x \in S : before(x) \in 0..(n - 1)
      /\ \A i \in 0..(n - 1) : \E x \in S : before(x) = i
  BY PlacesAreTaken
<1>2. ASSUME NEW i \in 1..n PROVE s[i] \in S /\ before(s[i]) = i - 1
  <2>1. \E x \in S : before(x) = i - 1
    BY <1>1
  <2>2. s[i] = CHOOSE x \in S : before(x) = i - 1
    BY DEF Ranked
  <2> QED
    BY <2>1, <2>2
<1>3. s \in [1..n -> S]
  BY <1>2 DEF Ranked
<1> HIDE DEF s
<1>4. ASSUME NEW x \in S, NEW y \in S, before(x) < before(y) PROVE <<x, y>> \in R
  <2>1. CASE x = y
    BY <1>1, <1>4, <2>1
  <2>2. CASE <<y, x>> \in R
    <3>1. before(y) < before(x)
      BY <2>2, FewerBefore
    <3> QED
      BY <1>1, <1>4, <3>1
  <2> QED
    BY <2>1, <2>2 DEF Orders
<1>5. ASSUME NEW x \in S, NEW y \in S, before(x) = before(y) PROVE x = y
  <2>1. CASE <<x, y>> \in R
    BY <1>1, <1>5, <2>1, FewerBefore
  <2>2. CASE <<y, x>> \in R
    BY <1>1, <1>5, <2>2, FewerBefore
  <2> QED
    BY <2>1, <2>2 DEF Orders
<1>6. ASSUME NEW x \in S PROVE \E i \in 1..n : s[i] = x
  <2>1. before(x) + 1 \in 1..n
    BY <1>1
  <2>2. s[before(x) + 1] \in S /\ before(s[before(x) + 1]) = before(x)
    BY <1>1, <1>2, <2>1
  <2> QED
    BY <1>5, <2>1, <2>2
<1>7. ASSUME NEW i \in 1..n, NEW j \in 1..n PROVE i < j <=> <<s[i], s[j]>> \in R
  <2>1. s[i] \in S /\ s[j] \in S /\ before(s[i]) = i - 1 /\ before(s[j]) = j - 1
    BY <1>2
  <2>2. i < j => <<s[i], s[j]>> \in R
    BY <1>1, <1>4, <2>1
  <2>3. <<s[i], s[j]>> \in R => i - 1 < j - 1
    BY <2>1, FewerBefore
  <2> QED
    BY <1>1, <2>2, <2>3
<1> QED
  BY <1>1, <1>3, <1>6, <1>7 DEF Ranks, s

\* The place of an element is the number of the elements before it.
LEMMA RankedPlace ==
  ASSUME NEW S, IsFiniteSet(S), NEW R, Orders(R, S), NEW i \in 1..Cardinality(S)
  PROVE  Ranked(S, R)[i] \in S /\ Cardinality(Before(Ranked(S, R)[i], S, R)) = i - 1
<1> DEFINE n == Cardinality(S)
<1>1. n \in Nat /\ \A k \in 0..(n - 1) : \E x \in S : Cardinality(Before(x, S, R)) = k
  BY PlacesAreTaken
<1>2. \E x \in S : Cardinality(Before(x, S, R)) = i - 1
  BY <1>1
<1>3. Ranked(S, R)[i] = CHOOSE x \in S : Cardinality(Before(x, S, R)) = i - 1
  BY DEF Ranked
<1> QED
  BY <1>2, <1>3

-----------------------------------------------------------------------------
(* Consequences.                                                           *)

\* A set of naturals with 0 and with the successor of each of its elements
\* has them all.
LEMMA SetInduction ==
  ASSUME NEW P, 0 \in P, \A k \in Nat : k \in P => k + 1 \in P
  PROVE  Nat \subseteq P
<1> DEFINE Rest == Nat \ P
           Less == OpToRel(<, Nat)
<1>1. SUFFICES ASSUME Rest # {} PROVE FALSE
  OBVIOUS
<1>2. IsWellFoundedOn(Less, Nat) /\ Rest \subseteq Nat
  BY NatLessThanWellFounded
<1>3. PICK k \in Rest : \A m \in Rest : <<m, k>> \notin Less
  <2> HIDE DEF Rest, Less
  <2> QED
    BY <1>1, <1>2, WFMin
<1>4. \A m \in Rest : ~(m < k)
  BY <1>3 DEF OpToRel
<1>5. k \in Nat /\ k \notin P
  OBVIOUS
<1>6. k # 0
  BY <1>5, Zenon
<1>7. k - 1 \in Nat /\ k - 1 < k /\ (k - 1) + 1 = k
  BY <1>5, <1>6
<1>8. k - 1 \in P
  BY <1>4, <1>7
<1> QED
  BY <1>5, <1>7, <1>8

\* Numbers are in an order.
LEMMA AscendingOrders ==
  ASSUME NEW S, S \subseteq Nat
  PROVE  Orders(Ascending, S)
BY DEF Orders, Ascending

\* s is the part of the list at the places of I, in its order.
Picks(s, list, I) ==
  /\ \A i \in DOMAIN s : \E k \in I : s[i] = list[k]
  /\ \A k \in I : \E i \in DOMAIN s : s[i] = list[k]
  /\ \A i, j \in DOMAIN s : i < j => \E k, l \in I : k < l /\ s[i] = list[k] /\ s[j] = list[l]

\* What is picked at an ascending list of places comes in the order of the
\* list, each place once.
LEMMA PickedInOrder ==
  ASSUME NEW T, NEW list \in Seq(T), NEW I, I \subseteq DOMAIN list,
         NEW s, s = Kept(list, I)
  PROVE  /\ s \in Seq(T)
         /\ Picks(s, list, I)
<1> DEFINE r == Ranked(I, Ascending)
           n == Cardinality(I)
<1>1. Len(list) \in Nat /\ DOMAIN list = 1..Len(list)
  OBVIOUS
<1>2. IsFiniteSet(I) /\ I \subseteq Nat
  <2>1. IsFiniteSet(1..Len(list))
    BY <1>1, FS_Interval
  <2> QED
    BY <1>1, <2>1, FS_Subset
<1>3. Ranks(r, I, Ascending) /\ n \in Nat
  <2>1. Orders(Ascending, I)
    BY <1>2, AscendingOrders
  <2> QED
    BY <1>2, <2>1, RankedRanks
<1>4. /\ r \in [1..n -> I]
      /\ \A x \in I : \E i \in 1..n : r[i] = x
      /\ \A i, j \in 1..n : i < j <=> <<r[i], r[j]>> \in Ascending
  BY <1>3 DEF Ranks
<1>p. s = Pick(list, r)
  BY DEF Kept
<1> HIDE DEF r, n
<1>5. s = [i \in 1..n |-> list[r[i]]]
  BY <1>4, <1>p DEF Pick
<1>6. s \in [1..n -> T]
  BY <1>1, <1>4, <1>5
<1>7. s \in Seq(T) /\ DOMAIN s = 1..n
  BY <1>3, <1>6
<1>8. \A i \in DOMAIN s : r[i] \in I /\ s[i] = list[r[i]]
  BY <1>4, <1>5
<1>9. \A k \in I : \E i \in DOMAIN s : s[i] = list[k]
  BY <1>4, <1>7, <1>8
<1>10. \A i, j \in DOMAIN s : i < j => r[i] < r[j]
  BY <1>4, <1>7 DEF Ascending
<1> QED
  BY <1>7, <1>8, <1>9, <1>10 DEF Picks

\* Who keeps everything keeps the list.
LEMMA KeptAll ==
  ASSUME NEW T, NEW list \in Seq(T)
  PROVE  Kept(list, DOMAIN list) = list
<1> DEFINE n == Len(list)
           I == DOMAIN list
           r == Ranked(I, Ascending)
<1>1. n \in Nat /\ I = 1..n
  OBVIOUS
<1>2. IsFiniteSet(1..n) /\ Cardinality(1..n) = n
  BY <1>1, FS_Interval
<1>3. Orders(Ascending, 1..n)
  BY AscendingOrders
<1>4. ASSUME NEW i \in 1..n PROVE r[i] = i
  <2> DEFINE x == r[i]
  <2>1. x \in 1..n /\ Cardinality(Before(x, 1..n, Ascending)) = i - 1
    BY <1>1, <1>2, <1>3, RankedPlace
  <2> HIDE DEF x
  <2>2. Before(x, 1..n, Ascending) = 1..(x - 1)
    BY <1>1, <2>1 DEF Before, Ascending
  <2>3. Cardinality(1..(x - 1)) = x - 1
    BY <1>1, <2>1, FS_Interval
  <2>4. x = i
    BY <1>1, <2>1, <2>2, <2>3
  <2> QED
    BY <2>4 DEF x
<1>5. DOMAIN r = 1..n
  BY <1>1, <1>2 DEF Ranked
<1>6. Kept(list, I) = [i \in DOMAIN r |-> list[r[i]]]
  BY DEF Kept, Pick
<1> HIDE DEF r
<1>7. [i \in DOMAIN r |-> list[r[i]]] = [i \in 1..n |-> list[i]]
  BY <1>4, <1>5
<1>8. list = [i \in 1..n |-> list[i]]
  OBVIOUS
<1> QED
  BY <1>6, <1>7, <1>8

\* R puts the elements of S in an order, but for some that it does not tell
\* apart.
Sorts(R, S) ==
  /\ \A x, y \in S : <<x, y>> \in R => <<y, x>> \notin R
  /\ \A x, y, z \in S : <<x, z>> \in R => <<x, y>> \in R \/ <<y, z>> \in R

\* With the places to tell them apart, the elements of a list are in an order.
LEMMA StableOrders ==
  ASSUME NEW T, NEW list \in Seq(T), NEW R, Sorts(R, T)
  PROVE  Orders(Stable(list, R), DOMAIN list)
<1> DEFINE I == DOMAIN list
<1>1. I \subseteq Nat /\ \A i \in I : list[i] \in T
  OBVIOUS
<1>2. \A i, j \in I : <<i, j>> \in Stable(list, R) <=>
        <<list[i], list[j]>> \in R \/ (<<list[j], list[i]>> \notin R /\ i < j)
  BY DEF Stable, Order
<1>3. ASSUME NEW i \in I PROVE <<i, i>> \notin Stable(list, R)
  <2>1. list[i] \in T /\ ~(i < i)
    BY <1>1
  <2>2. <<list[i], list[i]>> \notin R
    BY <2>1 DEF Sorts
  <2> QED
    BY <1>2, <2>1, <2>2
<1>4. ASSUME NEW i \in I, NEW j \in I, i # j PROVE <<i, j>> \in Stable(list, R) \/ <<j, i>> \in Stable(list, R)
  <2>1. i < j \/ j < i
    BY <1>1, <1>4
  <2> QED
    BY <1>1, <1>2, <2>1
<1>5. ASSUME NEW i \in I, NEW j \in I, NEW k \in I, <<i, j>> \in Stable(list, R), <<j, k>> \in Stable(list, R)
      PROVE  <<i, k>> \in Stable(list, R)
  <2> DEFINE a == list[i]
             b == list[j]
             d == list[k]
  <2>1. a \in T /\ b \in T /\ d \in T
    BY <1>1
  <2>2. /\ <<a, b>> \in R \/ (<<b, a>> \notin R /\ i < j)
        /\ <<b, d>> \in R \/ (<<d, b>> \notin R /\ j < k)
    BY <1>2, <1>5
  <2> HIDE DEF a, b, d
  <2>3. <<a, d>> \in R \/ (<<d, a>> \notin R /\ i < j /\ j < k)
    BY <2>1, <2>2 DEF Sorts
  <2>4. <<a, d>> \in R \/ (<<d, a>> \notin R /\ i < k)
    BY <1>1, <2>3
  <2> QED
    BY <1>2, <2>4 DEF a, d
<1> QED
  BY <1>3, <1>4, <1>5 DEF Orders

\* s is list, sorted by R: r says where each element comes from.
IsSortOf(s, list, R, r) ==
  /\ s = [i \in DOMAIN list |-> list[r[i]]]
  /\ r \in [DOMAIN list -> DOMAIN list]
  /\ \A k \in DOMAIN list : \E i \in DOMAIN list : r[i] = k
  /\ \A i, j \in DOMAIN list : i < j <=> <<r[i], r[j]>> \in Stable(list, R)
  /\ \A i \in DOMAIN list : Cardinality(Before(r[i], DOMAIN list, Stable(list, R))) = i - 1

\* list.sort() with any key: a rearrangement of the list, in order, in which
\* elements with equal keys stay as they were (search_group.py:127-164,
\* asset_detail.py:107-149).
THEOREM SortedIsSorted ==
  ASSUME NEW T, NEW list \in Seq(T), NEW R, Sorts(R, T)
  PROVE  \E r : IsSortOf(SortedBy(list, R), list, R, r)
<1> DEFINE n == Len(list)
           P == Stable(list, R)
           I == 1..n
           r == Ranked(I, P)
<1>1. n \in Nat /\ DOMAIN list = I
  OBVIOUS
<1>2. IsFiniteSet(I) /\ Cardinality(I) = n
  BY <1>1, FS_Interval
<1>3. Orders(P, I)
  BY <1>1, StableOrders
<1> HIDE DEF P
<1>4. /\ r \in [I -> I]
      /\ \A k \in I : \E i \in I : r[i] = k
      /\ \A i, j \in I : i < j <=> <<r[i], r[j]>> \in P
  <2> HIDE DEF r
  <2>1. Ranks(r, I, P)
    BY <1>2, <1>3, RankedRanks DEF r
  <2> QED
    BY <1>2, <2>1 DEF Ranks
<1>5. \A i \in I : Cardinality(Before(r[i], I, P)) = i - 1
  BY <1>2, <1>3, RankedPlace
<1>6. SortedBy(list, R) = Pick(list, r)
  BY <1>1 DEF SortedBy, P
<1> HIDE DEF r
<1>7. SortedBy(list, R) = [i \in DOMAIN list |-> list[r[i]]]
  BY <1>1, <1>4, <1>6 DEF Pick
<1> HIDE DEF I
<1> QED
  BY <1>1, <1>4, <1>5, <1>7 DEF IsSortOf, P

-----------------------------------------------------------------------------
(* Facts about finite sets and lists.                                      *)

\* The values of a function of finitely many arguments.
LEMMA ImageIsFinite ==
  ASSUME NEW S, IsFiniteSet(S), NEW f, DOMAIN f = S
  PROVE  IsFiniteSet({f[x] : x \in S})
<1> DEFINE T == {f[x] : x \in S}
           g == [x \in S |-> f[x]]
<1>1. g \in [S -> T] /\ \A y \in T : \E x \in S : g[x] = y
  OBVIOUS
<1> HIDE DEF T, g
<1>2. g \in Surjection(S, T)
  BY <1>1 DEF Surjection
<1>3. IsFiniteSet(T)
  BY <1>2, FS_Surjection
<1> QED
  BY <1>3 DEF T

\* A function that is one to one on a set makes a set as large.
LEMMA ImageIsAsLarge ==
  ASSUME NEW S, IsFiniteSet(S), NEW f, S \subseteq DOMAIN f, \A x, y \in S : f[x] = f[y] => x = y
  PROVE  /\ IsFiniteSet({f[x] : x \in S})
         /\ Cardinality({f[x] : x \in S}) = Cardinality(S) /\ Cardinality(S) \in Nat
<1> DEFINE T == {f[x] : x \in S}
           g == [x \in S |-> f[x]]
<1>1. g \in [S -> T] /\ (\A x, y \in S : g[x] = g[y] => x = y) /\ \A z \in T : \E x \in S : g[x] = z
  OBVIOUS
<1> HIDE DEF T, g
<1>2. DOMAIN g = S /\ IsInjective(g)
  BY <1>1 DEF IsInjective
<1>3. g \in Injection(S, T) /\ g \in Surjection(S, T)
  BY <1>1, <1>2 DEF Injection, Surjection
<1>4. ExistsBijection(S, T)
  BY <1>3 DEF Bijection, ExistsBijection
<1>5. IsFiniteSet(T) /\ Cardinality(T) = Cardinality(S)
  BY <1>4, FS_Bijection
<1> QED
  BY <1>5, FS_CardinalityType DEF T

\* A set of numbers has a least one.
LEMMA HasLeast ==
  ASSUME NEW S, S \subseteq Nat, S # {}
  PROVE  \E x \in S : \A y \in S : x <= y
<1> DEFINE Less == OpToRel(<, Nat)
<1>1. IsWellFoundedOn(Less, Nat)
  BY NatLessThanWellFounded
<1> HIDE DEF Less
<1>2. PICK x \in S : \A y \in S : <<y, x>> \notin Less
  BY <1>1, WFMin
<1>3. \A y \in S : ~(y < x)
  BY <1>2 DEF OpToRel, Less
<1> QED
  BY <1>3

\* The elements of two sequences, one after the other.
LEMMA Concatenated ==
  ASSUME NEW T, NEW s \in Seq(T), NEW t \in Seq(T)
  PROVE  /\ s \o t \in Seq(T) /\ Len(s \o t) = Len(s) + Len(t)
         /\ \A i \in 1..Len(s) : (s \o t)[i] = s[i]
         /\ \A i \in 1..Len(t) : (s \o t)[Len(s) + i] = t[i]
<1>1. s \o t \in Seq(T) /\ Len(s \o t) = Len(s) + Len(t)
  OBVIOUS
<1>2. \A i \in 1..Len(s) : (s \o t)[i] = s[i]
  OBVIOUS
<1>3. \A i \in 1..Len(t) : (s \o t)[Len(s) + i] = t[i]
  OBVIOUS
<1> QED
  BY <1>1, <1>2, <1>3
=============================================================================
