----------------------------- MODULE BundleProofs ---------------------------
(* Proofs about Bundle, for any assets, file names, neighbour rows and      *)
(* limits.                                                                 *)
EXTENDS Bundle, RankingProofs

\* An entry with a new name at the end.
LEMMA AppendEntry ==
  ASSUME NEW S, NEW s \in Seq(S), NEW e
  PROVE  /\ Append(s, e) \in Seq(S \cup {e})
         /\ DOMAIN Append(s, e) = DOMAIN s \cup {Len(s) + 1}
         /\ \A i \in DOMAIN s : Append(s, e)[i] = s[i]
         /\ Append(s, e)[Len(s) + 1] = e
         /\ Len(s) + 1 \notin DOMAIN s
<1>1. s \in Seq(S \cup {e})
  OBVIOUS
<1> QED
  BY <1>1

-----------------------------------------------------------------------------
(* The loop over the neighbour rows.                                       *)

\* The loop is what its definition says, row by row.
LEMMA BestAfterRows ==
  ASSUME rows \in Seq(Rows)
  PROVE  /\ BestAfter[0] = <<>>
         /\ \A n \in 1..Len(rows) : BestAfter[n] = BestConfidence(BestAfter[n - 1], rows[n])
<1> DEFINE N == Len(rows)
           step(f, n) == IF n = 0 THEN <<>> ELSE BestConfidence(f[n - 1], rows[n])
           Has(n) == \E f : f = [m \in 0..n |-> step(f, m)]
           P == {n \in Nat : Has(n)}
<1>1. N \in Nat
  OBVIOUS
<1>2. 0 \in P
  <2> DEFINE f == [m \in 0..0 |-> <<>>]
  <2>1. f = [m \in 0..0 |-> step(f, m)]
    OBVIOUS
  <2> QED
    BY <2>1
<1>3. ASSUME NEW k \in Nat, k \in P PROVE k + 1 \in P
  <2>1. PICK f : f = [m \in 0..k |-> step(f, m)]
    BY <1>3
  <2> DEFINE g == [m \in 0..(k + 1) |-> IF m = k + 1 THEN step(f, m) ELSE f[m]]
  <2>2. \A m \in 0..(k + 1) : g[m] = step(g, m)
    <3>1. \A m \in 0..k : g[m] = f[m]
      OBVIOUS
    <3>2. ASSUME NEW m \in 0..(k + 1) PROVE step(g, m) = step(f, m)
      <4>1. m = 0 \/ (m - 1 \in 0..k /\ g[m - 1] = f[m - 1])
        BY <3>1
      <4> HIDE DEF g
      <4> QED
        BY <4>1
    <3>3. \A m \in 0..k : f[m] = step(f, m)
      BY <2>1
    <3>4. g[k + 1] = step(f, k + 1)
      OBVIOUS
    <3> HIDE DEF g, step
    <3> QED
      BY <3>1, <3>2, <3>3, <3>4
  <2>3. g = [m \in 0..(k + 1) |-> step(g, m)]
    <3>1. g = [m \in 0..(k + 1) |-> g[m]]
      OBVIOUS
    <3> HIDE DEF g, step
    <3> QED
      BY <2>2, <3>1
  <2>4. Has(k + 1)
    <3> HIDE DEF g, step
    <3> QED
      BY <2>3
  <2> QED
    BY <2>4
<1>4. N \in P
  <2> HIDE DEF P
  <2> QED
    BY <1>1, <1>2, <1>3, SetInduction
<1>5. BestAfter = [m \in 0..N |-> step(BestAfter, m)]
  BY <1>4 DEF BestAfter
<1> QED
  BY <1>1, <1>5

\* What best_conf is after n rows: the neighbours so far, each with the
\* strongest confidence so far.
BestIs(best, n) ==
  /\ best = [a \in DOMAIN best |-> best[a]]
  /\ DOMAIN best = {rows[i].asset : i \in {j \in 1..n : Confidence(rows[j]) >= MinConfidence}} \ {Seed}
  /\ \A a \in DOMAIN best :
       /\ \E i \in 1..n : rows[i].asset = a /\ Confidence(rows[i]) = best[a]
       /\ \A i \in 1..n : rows[i].asset = a => Confidence(rows[i]) <= best[a]

\* A row without a confidence counts as one with none.
LEMMA ConfidenceIsNat ==
  ASSUME NEW row \in Rows PROVE Confidence(row) \in Nat /\ row.asset \in Assets
BY DEF Rows, Confidence, NoConfidence

\* One turn of the loop keeps best_conf the best of the rows so far.
LEMMA BestConfidenceKeeps ==
  ASSUME rows \in Seq(Rows), NEW n \in 1..Len(rows), NEW best, BestIs(best, n - 1)
  PROVE  BestIs(BestConfidence(best, rows[n]), n)
<1> DEFINE row == rows[n]
           c == Confidence(row)
           new == BestConfidence(best, row)
<1>1. \A i \in 1..n : rows[i] \in Rows /\ Confidence(rows[i]) \in Nat
  BY ConfidenceIsNat
<1>2. n \in Nat /\ 1..n = 1..(n - 1) \cup {n} /\ MinConfidence \in Nat /\ c \in Nat
  BY <1>1, BoundsAssumption
<1>3. \A a \in DOMAIN best : best[a] \in Nat /\ best[a] >= MinConfidence
  <2>1. ASSUME NEW a \in DOMAIN best PROVE best[a] \in Nat /\ best[a] >= MinConfidence
    <3>1. PICK i \in 1..(n - 1) : rows[i].asset = a /\ Confidence(rows[i]) >= MinConfidence
      BY DEF BestIs
    <3>2. PICK k \in 1..(n - 1) : Confidence(rows[k]) = best[a]
      BY DEF BestIs
    <3>3. Confidence(rows[i]) <= best[a]
      BY <3>1 DEF BestIs
    <3> QED
      BY <1>1, <1>2, <3>1, <3>2, <3>3
  <2> QED
    BY <2>1
<1>4. CASE row.asset = Seed \/ c < MinConfidence
  <2>1. new = best
    BY <1>4 DEF BestConfidence
  <2> HIDE DEF new
  <2>2. DOMAIN best = {rows[i].asset : i \in {j \in 1..n : Confidence(rows[j]) >= MinConfidence}} \ {Seed}
    BY <1>1, <1>2, <1>4 DEF BestIs
  <2>3. \A a \in DOMAIN best : row.asset = a => c <= best[a]
    BY <1>2, <1>3, <1>4, <2>2
  <2>4. \A a \in DOMAIN best :
          /\ \E i \in 1..n : rows[i].asset = a /\ Confidence(rows[i]) = best[a]
          /\ \A i \in 1..n : rows[i].asset = a => Confidence(rows[i]) <= best[a]
    BY <1>2, <2>3 DEF BestIs
  <2> QED
    BY <2>1, <2>2, <2>4 DEF BestIs, new
<1>5. CASE ~(row.asset = Seed \/ c < MinConfidence) /\ row.asset \in DOMAIN best /\ c <= best[row.asset]
  <2>1. new = best
    BY <1>5 DEF BestConfidence
  <2> HIDE DEF new
  <2>2. DOMAIN best = {rows[i].asset : i \in {j \in 1..n : Confidence(rows[j]) >= MinConfidence}} \ {Seed}
    <3>1. {rows[i].asset : i \in {j \in 1..n : Confidence(rows[j]) >= MinConfidence}}
            = {rows[i].asset : i \in {j \in 1..(n - 1) : Confidence(rows[j]) >= MinConfidence}} \cup {row.asset}
      BY <1>1, <1>2, <1>5
    <3> QED
      BY <1>5, <3>1 DEF BestIs
  <2>4. \A a \in DOMAIN best :
          /\ \E i \in 1..n : rows[i].asset = a /\ Confidence(rows[i]) = best[a]
          /\ \A i \in 1..n : rows[i].asset = a => Confidence(rows[i]) <= best[a]
    BY <1>2, <1>5 DEF BestIs
  <2> QED
    BY <2>1, <2>2, <2>4 DEF BestIs, new
<1>6. CASE ~(row.asset = Seed \/ c < MinConfidence) /\ ~(row.asset \in DOMAIN best /\ c <= best[row.asset])
  <2>1. new = [a \in DOMAIN best \cup {row.asset} |-> IF a = row.asset THEN c ELSE best[a]]
    BY <1>6 DEF BestConfidence
  <2> HIDE DEF new
  <2>2. DOMAIN new = DOMAIN best \cup {row.asset} /\ new[row.asset] = c
        /\ (\A a \in DOMAIN best : a # row.asset => new[a] = best[a])
        /\ new = [a \in DOMAIN new |-> new[a]]
    BY <2>1
  <2>3. DOMAIN new = {rows[i].asset : i \in {j \in 1..n : Confidence(rows[j]) >= MinConfidence}} \ {Seed}
    BY <1>1, <1>2, <1>6, <2>2 DEF BestIs
  <2>4. ASSUME NEW a \in DOMAIN new, a # row.asset
        PROVE  /\ \E i \in 1..n : rows[i].asset = a /\ Confidence(rows[i]) = new[a]
               /\ \A i \in 1..n : rows[i].asset = a => Confidence(rows[i]) <= new[a]
    <3>1. a \in DOMAIN best /\ new[a] = best[a]
      BY <2>2, <2>4
    <3> QED
      BY <1>2, <2>4, <3>1 DEF BestIs
  <2>5. ASSUME NEW i \in 1..n, rows[i].asset = row.asset PROVE Confidence(rows[i]) <= c
    <3>1. CASE i = n
      BY <1>2, <3>1
    <3>2. CASE row.asset \in DOMAIN best /\ i \in 1..(n - 1)
      <4>1. Confidence(rows[i]) <= best[row.asset]
        BY <2>5, <3>2 DEF BestIs
      <4> QED
        BY <1>1, <1>2, <1>3, <1>6, <3>2, <4>1
    <3>3. CASE row.asset \notin DOMAIN best /\ i \in 1..(n - 1)
      <4>1. ~(Confidence(rows[i]) >= MinConfidence)
        BY <1>6, <2>5, <3>3 DEF BestIs
      <4> QED
        BY <1>1, <1>2, <1>6, <4>1
    <3> QED
      BY <1>2, <3>1, <3>2, <3>3
  <2>6. \E i \in 1..n : rows[i].asset = row.asset /\ Confidence(rows[i]) = new[row.asset]
    BY <1>2, <2>2
  <2>7. \A a \in DOMAIN new :
          /\ \E i \in 1..n : rows[i].asset = a /\ Confidence(rows[i]) = new[a]
          /\ \A i \in 1..n : rows[i].asset = a => Confidence(rows[i]) <= new[a]
    BY <2>2, <2>4, <2>5, <2>6
  <2> QED
    BY <2>2, <2>3, <2>7 DEF BestIs, new
<1> QED
  BY <1>4, <1>5, <1>6

\* The result of the loop.
LEMMA BestIsStrongest ==
  ASSUME rows \in Seq(Rows)
  PROVE  BestIs(BestAfter[Len(rows)], Len(rows))
<1> DEFINE N == Len(rows)
           P == {n \in Nat : n <= N => BestIs(BestAfter[n], n)}
<1>1. N \in Nat
  OBVIOUS
<1>2. 0 \in P
  <2>1. BestAfter[0] = <<>> /\ DOMAIN <<>> = {} /\ <<>> = [a \in DOMAIN <<>> |-> <<>>[a]]
    BY BestAfterRows
  <2> QED
    BY <2>1 DEF BestIs
<1>3. ASSUME NEW k \in Nat, k \in P PROVE k + 1 \in P
  <2>1. CASE k + 1 <= N
    <3>1. k + 1 \in 1..N /\ (k + 1) - 1 = k /\ BestIs(BestAfter[k], k)
      BY <1>1, <1>3, <2>1
    <3>2. BestAfter[k + 1] = BestConfidence(BestAfter[k], rows[k + 1])
      BY <3>1, BestAfterRows
    <3>3. BestIs(BestConfidence(BestAfter[k], rows[k + 1]), k + 1)
      BY <3>1, BestConfidenceKeeps
    <3> QED
      BY <3>2, <3>3
  <2> QED
    BY <2>1
<1>4. N \in P
  <2> HIDE DEF P
  <2> QED
    BY <1>1, <1>2, <1>3, SetInduction
<1> QED
  BY <1>1, <1>4

-----------------------------------------------------------------------------
(* The ranking.                                                            *)

Best == BestAfter[Len(rows)]
BestOrder == Order(DOMAIN Best, LAMBDA a, b : Precedes(Best, a, b))

\* What best_conf is after the loop: the neighbours, each with a number.
LEMMA BestType ==
  ASSUME rows \in Seq(Rows)
  PROVE  /\ DOMAIN Best = Neighbours
         /\ DOMAIN Best \subseteq Assets \ {Seed}
         /\ IsFiniteSet(DOMAIN Best)
         /\ \A a \in DOMAIN Best : Best[a] \in Nat /\ a \in Nat
<1>1. BestIs(Best, Len(rows))
  BY BestIsStrongest DEF Best
<1>2. DOMAIN rows = 1..Len(rows) /\ \A i \in DOMAIN rows : rows[i] \in Rows
  OBVIOUS
<1>3. DOMAIN Best = Neighbours
  BY <1>1, <1>2 DEF BestIs, Neighbours
<1>4. DOMAIN Best \subseteq Assets \ {Seed}
  BY <1>2, <1>3, ConfidenceIsNat DEF Neighbours
<1>5. IsFiniteSet(DOMAIN Best)
  BY <1>4, AssetsAssumption, FS_Subset
<1>6. ASSUME NEW a \in DOMAIN Best PROVE Best[a] \in Nat
  <2>1. PICK i \in 1..Len(rows) : Confidence(rows[i]) = Best[a]
    BY <1>1 DEF BestIs
  <2> QED
    BY <1>2, <2>1, ConfidenceIsNat
<1> QED
  BY <1>3, <1>4, <1>5, <1>6, AssetsAssumption

\* The sorted items are the neighbours, each once, in the order of the key.
LEMMA BestIsRanked ==
  ASSUME rows \in Seq(Rows)
  PROVE  Ranks(RankedBy(Best), DOMAIN Best, BestOrder) /\ Cardinality(DOMAIN Best) \in Nat
<1>1. IsFiniteSet(DOMAIN Best) /\ \A a \in DOMAIN Best : Best[a] \in Nat /\ a \in Nat
  BY BestType
<1>2. \A a, b \in DOMAIN Best : <<a, b>> \in BestOrder <=> Precedes(Best, a, b)
  BY DEF BestOrder, Order
<1>3. Orders(BestOrder, DOMAIN Best)
  <2>1. \A a \in DOMAIN Best : ~Precedes(Best, a, a)
    BY <1>1 DEF Precedes
  <2>2. \A a, b \in DOMAIN Best : a = b \/ Precedes(Best, a, b) \/ Precedes(Best, b, a)
    BY <1>1 DEF Precedes
  <2>3. \A a, b, c \in DOMAIN Best : Precedes(Best, a, b) /\ Precedes(Best, b, c) => Precedes(Best, a, c)
    BY <1>1 DEF Precedes
  <2> QED
    BY <1>2, <2>1, <2>2, <2>3 DEF Orders
<1>4. RankedBy(Best) = Ranked(DOMAIN Best, BestOrder)
  BY DEF RankedBy, BestOrder
<1> QED
  BY <1>1, <1>3, <1>4, RankedRanks

\* The order of best_conf is the order of strength.
LEMMA PrecedesOutranks ==
  ASSUME rows \in Seq(Rows), NEW a \in DOMAIN Best, NEW b \in DOMAIN Best, Precedes(Best, a, b)
  PROVE  Outranks(a, b)
<1>1. DOMAIN rows = 1..Len(rows)
  OBVIOUS
<1>2. Strongest(a, Best[a]) /\ Strongest(b, Best[b])
  BY <1>1, BestIsStrongest DEF BestIs, Best, Strongest
<1>3. {Best[a], Best[b]} \subseteq {Confidence(rows[i]) : i \in DOMAIN rows}
  BY <1>2 DEF Strongest
<1> QED
  BY <1>2, <1>3 DEF Outranks, Precedes

\* The ranking is cut at its end.
LEMMA OrderedIsCut ==
  ASSUME rows \in Seq(Rows)
  PROVE  /\ Ordered \in Seq(DOMAIN Best)
         /\ Len(Ordered) <= MaxNeighbors
         /\ \A i, j \in 1..Len(Ordered) : i < j <=> Precedes(Best, Ordered[i], Ordered[j])
         /\ \A b \in DOMAIN Best :
              \/ \E i \in 1..Len(Ordered) : Ordered[i] = b
              \/ Len(Ordered) = MaxNeighbors /\ \A i \in 1..Len(Ordered) : Precedes(Best, Ordered[i], b)
<1> DEFINE r == RankedBy(Best)
           n == Cardinality(DOMAIN Best)
           k == IF n <= MaxNeighbors THEN n ELSE MaxNeighbors
<1>1. /\ n \in Nat /\ r \in [1..n -> DOMAIN Best]
      /\ \A b \in DOMAIN Best : \E i \in 1..n : r[i] = b
      /\ \A i, j \in 1..n : i < j <=> <<r[i], r[j]>> \in BestOrder
  BY BestIsRanked DEF Ranks
<1>2. \A a, b \in DOMAIN Best : <<a, b>> \in BestOrder <=> Precedes(Best, a, b)
  BY DEF BestOrder, Order
<1>3. r \in Seq(DOMAIN Best) /\ Len(r) = n
  BY <1>1
<1>4. k \in 0..n /\ k <= MaxNeighbors /\ (k = n \/ k = MaxNeighbors)
  BY <1>1, BoundsAssumption
<1>5. Ordered = SubSeq(r, 1, k)
  BY <1>3 DEF Ordered, Best
<1> HIDE DEF r, n, k
<1>6. Ordered \in Seq(DOMAIN Best) /\ Len(Ordered) = k /\ \A i \in 1..k : Ordered[i] = r[i]
  BY <1>1, <1>3, <1>4, <1>5
<1>7. ASSUME NEW i \in 1..Len(Ordered), NEW j \in 1..Len(Ordered)
      PROVE  i < j <=> Precedes(Best, Ordered[i], Ordered[j])
  <2>1. i \in 1..n /\ j \in 1..n /\ Ordered[i] = r[i] /\ Ordered[j] = r[j]
    BY <1>1, <1>4, <1>6
  <2> QED
    BY <1>1, <1>2, <2>1
<1>8. ASSUME NEW b \in DOMAIN Best
      PROVE  \/ \E i \in 1..Len(Ordered) : Ordered[i] = b
             \/ Len(Ordered) = MaxNeighbors /\ \A i \in 1..Len(Ordered) : Precedes(Best, Ordered[i], b)
  <2>1. PICK i \in 1..n : r[i] = b
    BY <1>1
  <2>2. CASE i <= k
    BY <1>1, <1>4, <1>6, <2>1, <2>2
  <2>3. CASE i > k
    <3>1. k = MaxNeighbors
      BY <1>1, <1>4, <2>3
    <3>2. \A j \in 1..k : j \in 1..n /\ j < i
      BY <1>1, <1>4, <2>3
    <3> QED
      BY <1>1, <1>2, <1>6, <2>1, <3>1, <3>2
  <2> QED
    BY <1>1, <1>4, <2>2, <2>3
<1> QED
  BY <1>4, <1>6, <1>7, <1>8

\* As many elements as places.
LEMMA CountMembers ==
  ASSUME NEW T, NEW s \in Seq(T), \A i, j \in 1..Len(s) : s[i] = s[j] => i = j
  PROVE  Cardinality({s[i] : i \in 1..Len(s)}) = Len(s)
<1> DEFINE S == {s[i] : i \in 1..Len(s)}
           f == [i \in 1..Len(s) |-> s[i]]
<1>1. f \in Bijection(1..Len(s), S)
  <2>1. f \in [1..Len(s) -> S]
    OBVIOUS
  <2>2. \A i, j \in 1..Len(s) : f[i] = f[j] => i = j
    OBVIOUS
  <2>3. \A x \in S : \E i \in 1..Len(s) : f[i] = x
    OBVIOUS
  <2> HIDE DEF f, S
  <2> QED
    BY <2>1, <2>2, <2>3 DEF Bijection, Injection, Surjection, IsInjective
<1>2. Len(s) \in Nat
  OBVIOUS
<1> HIDE DEF f, S
<1>3. ExistsBijection(1..Len(s), S)
  BY <1>1 DEF ExistsBijection
<1> QED
  BY <1>2, <1>3, FS_CountingElements DEF S

\* What is cut off is outranked by everything that is kept.
LEMMA RankIsTop ==
  ASSUME rows \in Seq(Rows), Rank PROVE BundleIsTop'
<1> DEFINE o == Ordered
           n == Len(o)
           kept == {o[i] : i \in 1..n}
<1>1. /\ o \in Seq(DOMAIN Best) /\ n <= MaxNeighbors
      /\ \A i, j \in 1..n : i < j <=> Precedes(Best, o[i], o[j])
      /\ \A b \in DOMAIN Best :
           \/ \E i \in 1..n : o[i] = b
           \/ n = MaxNeighbors /\ \A i \in 1..n : Precedes(Best, o[i], b)
  BY OrderedIsCut
<1>2. /\ DOMAIN Best = Neighbours /\ \A a \in DOMAIN Best : Best[a] \in Nat /\ a \in Nat
  BY BestType
<1>3. ordered' = <<Seed>> \o o /\ UNCHANGED rows
  BY DEF Rank
<1> HIDE DEF o
<1>4. n \in Nat /\ DOMAIN o = 1..n /\ \A i \in 1..n : o[i] \in DOMAIN Best
  BY <1>1
<1>5. /\ Len(ordered') = n + 1 /\ DOMAIN ordered' = 1..(n + 1)
      /\ ordered'[1] = Seed /\ \A i \in 2..(n + 1) : ordered'[i] = o[i - 1]
  BY <1>1, <1>3
<1>6. {ordered'[i] : i \in 2..Len(ordered')} = kept
  <2>1. \A i \in 2..(n + 1) : i - 1 \in 1..n /\ ordered'[i] = o[i - 1]
    BY <1>4, <1>5
  <2>2. \A i \in 1..n : i + 1 \in 2..(n + 1) /\ ordered'[i + 1] = o[i]
    BY <1>4, <1>5
  <2>3. {ordered'[i] : i \in 2..(n + 1)} \subseteq kept
    BY <2>1
  <2>4. kept \subseteq {ordered'[i] : i \in 2..(n + 1)}
    BY <2>2
  <2> QED
    BY <1>5, <2>3, <2>4
<1>7. Cardinality(kept) = n
  <2>1. \A i, j \in 1..n : o[i] = o[j] => i = j
    <3>1. \A a \in DOMAIN Best : ~Precedes(Best, a, a)
      BY <1>2 DEF Precedes
    <3>2. \A i, j \in 1..n : o[i] = o[j] => ~(i < j) /\ ~(j < i)
      BY <1>1, <1>4, <3>1
    <3> QED
      BY <1>4, <3>2
  <2> QED
    BY <1>1, <2>1, CountMembers
<1>8. \A i, j \in 2..Len(ordered') : i < j => Outranks(ordered'[i], ordered'[j])
  <2>1. ASSUME NEW i \in 2..(n + 1), NEW j \in 2..(n + 1), i < j PROVE Outranks(ordered'[i], ordered'[j])
    <3>1. i - 1 \in 1..n /\ j - 1 \in 1..n /\ i - 1 < j - 1
      BY <1>4, <2>1
    <3>2. Precedes(Best, o[i - 1], o[j - 1])
      BY <1>1, <3>1
    <3> QED
      BY <1>4, <1>5, <3>1, <3>2, PrecedesOutranks
  <2> QED
    BY <1>5, <2>1
<1>9. \A b \in Neighbours \ kept : Cardinality(kept) = MaxNeighbors /\ \A a \in kept : Outranks(a, b)
  <2>1. ASSUME NEW b \in Neighbours \ kept PROVE n = MaxNeighbors /\ \A a \in kept : Outranks(a, b)
    <3>1. n = MaxNeighbors /\ \A i \in 1..n : Precedes(Best, o[i], b)
      BY <1>1, <1>2
    <3> QED
      BY <1>2, <1>4, <3>1, PrecedesOutranks
  <2> QED
    BY <1>7, <2>1
<1>10. kept \subseteq Neighbours
  BY <1>2, <1>4
<1>11. /\ Neighbours' = Neighbours
       /\ \A a, b : Outranks(a, b)' <=> Outranks(a, b)
  BY <1>3 DEF Neighbours, Outranks, Strongest
<1>12. Len(ordered') - 1 <= MaxNeighbors
  BY <1>1, <1>4, <1>5
<1> HIDE DEF kept, n
<1>13. (ordered[1] = Seed)'
  BY <1>5
<1> QED
  BY <1>6, <1>8, <1>9, <1>10, <1>11, <1>12, <1>13 DEF BundleIsTop

-----------------------------------------------------------------------------
(* The inductive invariant.                                                *)

\* A name that is given to an entry is used up.
NamesInv ==
  /\ \A i \in DOMAIN entries : entries[i].name \in used
  /\ FilesHaveOwnNames

Distinct(list) == \A k, l \in DOMAIN list : list[k] = list[l] => k = l

\* When the lists are made, and that what has a path is part of the ranking.
ListInv ==
  /\ pc \in {"gate", "rows", "rank", "refused"} => ordered = <<>>
  /\ pc \in {"gate", "rows", "rank", "paths", "refused"} => targets = <<>>
  /\ Distinct(ordered)
  /\ InOrderOf(targets, ordered)

\* What the lists are as long as nothing has changed.
QuietInv ==
  changes = 0 =>
    /\ pc \notin {"gate", "rows", "rank", "paths", "refused", "failed"} => Members(targets) = Members(ordered) \cap (registered \ Pathless)
    /\ Members(EntryAssets) \subseteq present
    /\ Members(missing) \cap present = {}

\* The zip is finished after the last target.
EndInv ==
  pc \in {"stream", "close", "dropped", "done"} =>
    next = Len(targets) + 1 /\ (manifest <=> missing # <<>>)

IInv == TypeOK /\ NamesInv /\ ListInv /\ BundleIsTop /\ EveryTargetOnce /\ QuietInv /\ EndInv

\* A list that grows by the next target.
LEMMA ListGrows ==
  ASSUME NEW list, NEW n \in Nat, NEW s, NEW t, NEW m \in Nat, 1..n \subseteq DOMAIN list, n # 0,
         DOMAIN t = DOMAIN s \cup {m}, \A i \in DOMAIN s : i \in Nat /\ i < m /\ t[i] = s[i], t[m] = list[n],
         Members(s) \subseteq {list[k] : k \in 1..(n - 1)}, InOrderOf(s, list)
  PROVE  InOrderOf(t, list) /\ Members(t) = Members(s) \cup {list[n]}
<1>1. ASSUME NEW i \in DOMAIN t, NEW j \in DOMAIN t, i < j
      PROVE  \E k, l \in DOMAIN list : k < l /\ list[k] = t[i] /\ list[l] = t[j]
  <2>1. i \in DOMAIN s /\ t[i] = s[i]
    BY <1>1
  <2>2. CASE j \in DOMAIN s
    BY <1>1, <2>1, <2>2 DEF InOrderOf
  <2>3. CASE j = m
    <3>1. PICK k \in 1..(n - 1) : list[k] = s[i]
      BY <2>1 DEF Members
    <3>2. k \in DOMAIN list /\ n \in DOMAIN list /\ k < n
      OBVIOUS
    <3> QED
      BY <2>1, <2>3, <3>1, <3>2
  <2> QED
    BY <2>2, <2>3
<1>2. Members(t) = Members(s) \cup {list[n]}
  BY DEF Members
<1> QED
  BY <1>1, <1>2 DEF InOrderOf

\* An entry is written: nothing else changes but the names.
LEMMA AddEntryGrows ==
  ASSUME TypeOK, AddEntry
  PROVE  /\ next \in 1..Len(targets) /\ targets[next] \in present
         /\ DOMAIN EntryAssets' = DOMAIN EntryAssets \cup {Len(entries) + 1} /\ Len(entries) + 1 \in Nat
         /\ \A i \in DOMAIN EntryAssets : i \in Nat /\ i < Len(entries) + 1 /\ EntryAssets'[i] = EntryAssets[i]
         /\ EntryAssets'[Len(entries) + 1] = targets[next]
<1> DEFINE E == [asset : Assets, name : Names]
<1>1. entries \in Seq(E) /\ Len(entries) \in Nat /\ DOMAIN entries = 1..Len(entries)
  BY DEF TypeOK
<1>2. PICK n : entries' = Append(entries, [asset |-> targets[next], name |-> n])
  BY DEF AddEntry
<1> DEFINE e == [asset |-> targets[next], name |-> n]
<1>3. e.asset = targets[next]
  OBVIOUS
<1> HIDE DEF e, E
<1>4. /\ DOMAIN entries' = DOMAIN entries \cup {Len(entries) + 1}
      /\ \A i \in DOMAIN entries : entries'[i] = entries[i]
      /\ entries'[Len(entries) + 1] = e
  BY <1>1, <1>2, AppendEntry DEF e
<1>5. next \in 1..Len(targets) /\ targets[next] \in present
  BY DEF AddEntry, TypeOK
<1> QED
  BY <1>1, <1>3, <1>4, <1>5 DEF EntryAssets

\* A file that cannot be opened makes the list of the missing ones longer by
\* one, its target.
LEMMA NoteMissingGrows ==
  ASSUME TypeOK, NoteMissing
  PROVE  /\ next \in 1..Len(targets) /\ targets[next] \notin present
         /\ DOMAIN missing' = DOMAIN missing \cup {Len(missing) + 1} /\ Len(missing) + 1 \in Nat
         /\ \A i \in DOMAIN missing : i \in Nat /\ i < Len(missing) + 1 /\ missing'[i] = missing[i]
         /\ missing'[Len(missing) + 1] = targets[next]
<1>1. missing \in Seq(Assets) /\ Len(missing) \in Nat /\ DOMAIN missing = 1..Len(missing)
  BY DEF TypeOK
<1>2. missing' = Append(missing, targets[next]) /\ next \in 1..Len(targets) /\ targets[next] \notin present
  BY DEF NoteMissing, TypeOK
<1>3. /\ DOMAIN missing' = DOMAIN missing \cup {Len(missing) + 1}
      /\ \A i \in DOMAIN missing : missing'[i] = missing[i]
      /\ missing'[Len(missing) + 1] = targets[next]
  BY <1>1, <1>2, AppendEntry
<1> QED
  BY <1>1, <1>2, <1>3

\* The paths that are looked up.
LEMMA PathsPicks ==
  ASSUME TypeOK, Distinct(ordered), Paths
  PROVE  /\ targets' \in Seq(Assets) /\ ordered' = ordered
         /\ Members(targets') = Members(ordered) \cap (registered \ Pathless)
         /\ InOrderOf(targets', ordered)
         /\ Distinct(targets')
<1> DEFINE I == {i \in DOMAIN ordered : HasPath(ordered[i])}
           t == Kept(ordered, I)
<1>1. ordered \in Seq(Assets) /\ DOMAIN ordered = 1..Len(ordered)
  BY DEF TypeOK
<1>2. t \in Seq(Assets) /\ Picks(t, ordered, I)
  <2>1. I \subseteq DOMAIN ordered
    OBVIOUS
  <2>2. t = Kept(ordered, I)
    OBVIOUS
  <2> HIDE DEF I, t
  <2> QED
    BY <1>1, <2>1, <2>2, PickedInOrder
<1>3. targets' = t /\ ordered' = ordered
  BY DEF Paths
<1> HIDE DEF t
<1>4. Members(t) = Members(ordered) \cap (registered \ Pathless)
  BY <1>2 DEF Members, HasPath, Picks
<1>5. InOrderOf(t, ordered)
  BY <1>2 DEF InOrderOf, Picks
<1>6. Distinct(t)
  <2>1. ASSUME NEW i \in DOMAIN t, NEW j \in DOMAIN t, i < j PROVE t[i] # t[j]
    <3>1. PICK k \in I, l \in I : k < l /\ t[i] = ordered[k] /\ t[j] = ordered[l]
      BY <1>2, <2>1 DEF Picks
    <3>2. k \in Nat /\ l \in Nat /\ k # l
      BY <1>1, <3>1
    <3> QED
      BY <3>1, <3>2 DEF Distinct
  <2>2. DOMAIN t \subseteq Nat
    BY <1>2
  <2>3. \A i, j \in DOMAIN t : i = j \/ i < j \/ j < i
    BY <2>2
  <2> QED
    BY <2>1, <2>3 DEF Distinct
<1> QED
  BY <1>2, <1>3, <1>4, <1>5, <1>6

\* The ranking has nothing twice.
LEMMA RankIsDistinct ==
  ASSUME TypeOK, Rank
  PROVE  ordered' \in Seq(Assets) /\ Distinct(ordered') /\ ordered' # <<>>
<1>1. rows \in Seq(Rows)
  BY DEF TypeOK
<1> DEFINE o == Ordered
           n == Len(o)
<1>2. o \in Seq(DOMAIN Best) /\ \A i, j \in 1..n : i < j <=> Precedes(Best, o[i], o[j])
  BY <1>1, OrderedIsCut
<1>3. DOMAIN Best \subseteq Assets \ {Seed} /\ \A a \in DOMAIN Best : Best[a] \in Nat /\ a \in Nat
  BY <1>1, BestType
<1>4. ordered' = <<Seed>> \o o
  BY DEF Rank
<1> HIDE DEF o
<1>5. n \in Nat /\ \A i \in 1..n : o[i] \in DOMAIN Best
  BY <1>2
<1>6. o \in Seq(Assets) /\ <<Seed>> \in Seq(Assets)
  BY <1>2, <1>3, AssetsAssumption
<1>7. /\ ordered' \in Seq(Assets) /\ DOMAIN ordered' = 1..(n + 1)
      /\ ordered'[1] = Seed /\ \A i \in 2..(n + 1) : ordered'[i] = o[i - 1]
  BY <1>4, <1>6
<1>8. ASSUME NEW i \in 1..(n + 1), NEW j \in 1..(n + 1), i < j PROVE ordered'[i] # ordered'[j]
  <2>1. j - 1 \in 1..n /\ ordered'[j] = o[j - 1]
    BY <1>5, <1>7, <1>8
  <2>2. CASE i = 1
    BY <1>3, <1>5, <1>7, <2>1, <2>2
  <2>3. CASE i # 1
    <3>1. i - 1 \in 1..n /\ i - 1 < j - 1 /\ ordered'[i] = o[i - 1]
      BY <1>5, <1>7, <1>8, <2>3
    <3>2. Precedes(Best, o[i - 1], o[j - 1])
      BY <1>2, <2>1, <3>1
    <3>3. ~Precedes(Best, o[i - 1], o[i - 1])
      BY <1>3, <1>5, <3>1 DEF Precedes
    <3> QED
      BY <2>1, <3>1, <3>2, <3>3
  <2> QED
    BY <2>2, <2>3
<1>9. \A i, j \in 1..(n + 1) : i = j \/ i < j \/ j < i
  BY <1>5
<1> QED
  BY <1>5, <1>7, <1>8, <1>9 DEF Distinct

\* A name with a mark is a name.
LEMMA CandidateIsName ==
  ASSUME NEW n \in Names, NEW i \in Nat PROVE Candidate(n, i) \in Names
<1>1. n.root \in STRING /\ Append(n.marks, i) \in Seq(Nat) /\ n = [root |-> n.root, marks |-> n.marks]
  BY DEF Names
<1> DEFINE m == Append(n.marks, i)
<1>2. [n EXCEPT !.marks = Append(@, i)] = [n EXCEPT !.marks = m]
  OBVIOUS
<1> HIDE DEF m
<1>3. [n EXCEPT !.marks = m] \in [root : STRING, marks : Seq(Nat)]
  BY <1>1 DEF Names, m
<1> QED
  BY <1>2, <1>3 DEF Names, Candidate

\* A request begins with nothing.
LEMMA InitInvariant == Init => IInv
<1> SUFFICES ASSUME Init PROVE IInv
  OBVIOUS
<1>1. /\ rows \in Seq(Rows) /\ registered \subseteq Assets /\ present \subseteq Assets
      /\ changes = 0 /\ retries = 0 /\ pc = "gate" /\ ordered = <<>> /\ targets = <<>> /\ next = 1 /\ used = {}
      /\ entries = <<>> /\ missing = <<>> /\ manifest = FALSE /\ spool = "none"
  BY InputsAssumption DEF Init
<1>2. TypeOK
  <2>1. 0 \in 0..MaxChanges /\ 0 \in 0..MaxRetries /\ 1 \in 1..(Len(<<>>) + 1)
    BY BoundsAssumption
  <2>2. ordered \in Seq(Assets) /\ targets \in Seq(Assets) /\ missing \in Seq(Assets)
    BY <1>1
  <2>3. entries \in Seq([asset : Assets, name : Names])
    BY <1>1
  <2>4. changes \in 0..MaxChanges /\ retries \in 0..MaxRetries /\ next \in 1..(Len(targets) + 1)
    BY <1>1, <2>1
  <2> QED
    BY <1>1, <2>2, <2>3, <2>4 DEF TypeOK, PCs, Transaction
<1>3. EntryAssets = <<>> /\ Members(EntryAssets) = {} /\ Members(missing) = {}
  BY <1>1 DEF EntryAssets, Members
<1>4. NamesInv
  BY <1>1 DEF NamesInv, FilesHaveOwnNames
<1>5. ListInv
  BY <1>1 DEF ListInv, Distinct, InOrderOf
<1>6. BundleIsTop
  BY <1>1 DEF BundleIsTop
<1>7. EveryTargetOnce
  BY <1>1, <1>3 DEF EveryTargetOnce, InOrderOf
<1>8. QuietInv
  BY <1>1, <1>3 DEF QuietInv
<1>9. EndInv
  BY <1>1 DEF EndInv
<1> QED
  BY <1>2, <1>4, <1>5, <1>6, <1>7, <1>8, <1>9 DEF IInv

\* The request writes entries of the assets' type.
LEMMA TypeKept ==
  ASSUME TypeOK, ListInv, [Next]_vars PROVE TypeOK'
<1> USE DEF TypeOK, PCs, Transaction, worldVars, listVars, zipVars
<1>1. CASE Rank
  BY <1>1, RankIsDistinct DEF Rank
<1>2. CASE Paths
  <2>1. targets' \in Seq(Assets)
    BY <1>2, PathsPicks DEF ListInv
  <2>2. next = 1
    BY <1>2 DEF ListInv, Paths
  <2> QED
    BY <1>2, <2>1, <2>2, BoundsAssumption DEF Paths
<1>3. CASE AddEntry
  <2>1. next \in 1..Len(targets) /\ targets[next] \in Assets
    BY <1>3 DEF AddEntry
  <2>2. PICK n \in Names : used' = used \cup {n} /\ entries' = Append(entries, [asset |-> targets[next], name |-> n])
    <3>1. FileName[targets[next]] \in Names
      BY <2>1, NamesAssumption
    <3>2. PICK i \in 0..Len(targets) :
            /\ used' = used \cup {Candidate(FileName[targets[next]], i)}
            /\ entries' = Append(entries, [asset |-> targets[next], name |-> Candidate(FileName[targets[next]], i)])
      BY <1>3 DEF AddEntry
    <3>3. i \in Nat
      OBVIOUS
    <3>4. Candidate(FileName[targets[next]], i) \in Names
      BY <3>1, <3>3, CandidateIsName
    <3> QED
      BY <3>2, <3>4
  <2>3. entries' \in Seq([asset : Assets, name : Names])
    BY <2>1, <2>2
  <2>4. used' \subseteq Names /\ next' \in 1..(Len(targets') + 1)
    BY <1>3, <2>1, <2>2 DEF AddEntry
  <2>5. UNCHANGED <<worldVars, pc, listVars, missing, manifest, spool>>
    BY <1>3 DEF AddEntry
  <2> QED
    BY <2>3, <2>4, <2>5
<1>4. CASE NoteMissing
  BY <1>4 DEF NoteMissing
<1>5. CASE Gate \/ StartZip \/ FinishZip \/ Stream \/ CloseSpool \/ Finalise \/ DatabaseFails \/ Fail \/ Leave
  BY <1>5 DEF Gate, StartZip, FinishZip, Stream, CloseSpool, Finalise, DatabaseFails, Fail, Leave
<1>6. CASE \E a \in Assets : ChangeStatus(a) \/ ChangeFile(a)
  BY <1>6, BoundsAssumption DEF ChangeStatus, ChangeFile, Change
<1>7. CASE UNCHANGED vars
  BY <1>7 DEF vars
<1>8. CASE Query
  BY <1>8, InputsAssumption DEF Query
<1>9. CASE Retry
  BY <1>9, BoundsAssumption DEF Retry
<1> QED
  BY <1>1, <1>2, <1>3, <1>4, <1>5, <1>6, <1>7, <1>8, <1>9 DEF Next, Work

\* The loop over the files takes free names only.
LEMMA NamesKept ==
  ASSUME TypeOK, NamesInv, [Next]_vars PROVE NamesInv'
<1>1. CASE AddEntry
  <2>1. PICK n : n \notin used /\ used' = used \cup {n}
                 /\ entries' = Append(entries, [asset |-> targets[next], name |-> n])
    BY <1>1 DEF AddEntry, FirstFree
  <2> DEFINE e == [asset |-> targets[next], name |-> n]
             E == [asset : Assets, name : Names]
  <2>2. e.name = n /\ entries' = Append(entries, e) /\ entries \in Seq(E)
    BY <2>1 DEF TypeOK
  <2> HIDE DEF e, E
  <2>3. /\ DOMAIN entries' = DOMAIN entries \cup {Len(entries) + 1}
        /\ \A i \in DOMAIN entries : entries'[i] = entries[i]
        /\ entries'[Len(entries) + 1] = e
        /\ Len(entries) + 1 \notin DOMAIN entries
    BY <2>2, AppendEntry
  <2>4. \A i \in DOMAIN entries' : entries'[i].name \in used'
    BY <2>1, <2>2, <2>3 DEF NamesInv
  <2>5. FilesHaveOwnNames'
    BY <2>1, <2>2, <2>3 DEF NamesInv, FilesHaveOwnNames
  <2> QED
    BY <2>4, <2>5 DEF NamesInv
<1>2. CASE UNCHANGED <<used, entries>>
  BY <1>2 DEF NamesInv, FilesHaveOwnNames
<1>3. AddEntry \/ UNCHANGED <<used, entries>>
  BY DEF Next, Work, Gate, Query, Rank, Paths, StartZip, NoteMissing, FinishZip, Stream, CloseSpool,
         Finalise, Retry, DatabaseFails, Fail, Leave, ChangeStatus, ChangeFile, Change, vars, zipVars
<1> QED
  BY <1>1, <1>2, <1>3

\* The lists are made once, in the order of the ranking.
LEMMA ListKept ==
  ASSUME TypeOK, ListInv, [Next]_vars PROVE ListInv'
<1>1. CASE Rank
  <2>1. targets = <<>> /\ targets' = <<>> /\ pc' = "paths"
    BY <1>1 DEF Rank, ListInv
  <2>2. InOrderOf(targets', ordered')
    BY <2>1 DEF InOrderOf
  <2> QED
    BY <1>1, <2>1, <2>2, RankIsDistinct DEF ListInv
<1>2. CASE Paths
  <2>1. pc' = "zip" /\ ordered' = ordered /\ Distinct(ordered)
    BY <1>2 DEF Paths, ListInv
  <2>2. InOrderOf(targets', ordered')
    BY <1>2, <2>1, PathsPicks
  <2> QED
    BY <2>1, <2>2 DEF ListInv
<1>3. CASE UNCHANGED <<ordered, targets>>
  <2>1. /\ pc' \in {"gate", "rows", "rank", "refused"} =>
             pc \in {"gate", "rows", "rank", "refused"} \/ ordered' = <<>>
        /\ pc' \in {"gate", "rows", "rank", "paths", "refused"} =>
             pc \in {"gate", "rows", "rank", "paths", "refused"}
    BY <1>3 DEF Next, Work, Gate, Query, Rank, Paths, Retry, DatabaseFails, Transaction, StartZip, AddEntry, NoteMissing, FinishZip, Stream,
                CloseSpool, Finalise, Fail, Leave, ChangeStatus, ChangeFile, Change, vars
  <2> QED
    BY <1>3, <2>1 DEF ListInv, Distinct, InOrderOf
<1>4. CASE Retry
  <2>1. targets = <<>> /\ targets' = <<>> /\ ordered' = <<>>
    BY <1>4 DEF Retry, Transaction, ListInv
  <2> QED
    BY <2>1 DEF ListInv, Distinct, InOrderOf
<1>5. Rank \/ Paths \/ Retry \/ UNCHANGED <<ordered, targets>>
  BY DEF Next, Work, Gate, Query, StartZip, AddEntry, NoteMissing, FinishZip, Stream, CloseSpool,
         Finalise, DatabaseFails, Fail, Leave, ChangeStatus, ChangeFile, Change, vars, listVars
<1> QED
  BY <1>1, <1>2, <1>3, <1>4, <1>5

\* After the ranking nothing changes the order.
LEMMA TopKept ==
  ASSUME TypeOK, ListInv, BundleIsTop, [Next]_vars PROVE BundleIsTop'
<1>1. CASE Rank
  BY <1>1, RankIsTop DEF TypeOK
<1>2. CASE UNCHANGED <<rows, ordered>>
  <2>1. /\ Neighbours' = Neighbours
        /\ \A a, b : Outranks(a, b)' <=> Outranks(a, b)
    BY <1>2 DEF Neighbours, Outranks, Strongest
  <2> QED
    <3>1. SUFFICES ASSUME ordered # <<>> PROVE BundleIsTop'
      BY <1>2 DEF BundleIsTop
    <3> DEFINE kept == {ordered[i] : i \in 2..Len(ordered)}
    <3>2. /\ ordered[1] = Seed /\ kept \subseteq Neighbours /\ Len(ordered) - 1 <= MaxNeighbors
          /\ \A i, j \in 2..Len(ordered) : i < j => Outranks(ordered[i], ordered[j])
          /\ \A b \in Neighbours \ kept : Cardinality(kept) = MaxNeighbors /\ \A a \in kept : Outranks(a, b)
      BY <3>1 DEF BundleIsTop
    <3>3. kept' = kept /\ ordered' = ordered
      BY <1>2
    <3> QED
      BY <2>1, <3>2, <3>3 DEF BundleIsTop
<1>3. CASE Query \/ Retry
  <2>1. ordered' = <<>>
    BY <1>3 DEF Query, Retry, ListInv
  <2> QED
    BY <2>1 DEF BundleIsTop
<1>4. Rank \/ Query \/ Retry \/ UNCHANGED <<rows, ordered>>
  BY DEF Next, Work, Gate, Paths, StartZip, AddEntry, NoteMissing, FinishZip, Stream, CloseSpool,
         Finalise, DatabaseFails, Fail, Leave, ChangeStatus, ChangeFile, Change, vars, listVars
<1> QED
  BY <1>1, <1>2, <1>3, <1>4

\* The targets that were passed, one turn of the loop later.
LEMMA PassedGrows ==
  ASSUME NEW n \in Nat, n # 0
  PROVE  {targets[k] : k \in 1..((n + 1) - 1)} = {targets[k] : k \in 1..(n - 1)} \cup {targets[n]}
<1>1. 1..((n + 1) - 1) = 1..(n - 1) \cup {n}
  OBVIOUS
<1> QED
  BY <1>1

\* A turn of the loop puts its target into one of the two lists, at its end.
LEMMA TargetsKept ==
  ASSUME TypeOK, ListInv, EveryTargetOnce, [Next]_vars PROVE EveryTargetOnce'
<1> DEFINE passed == {targets[k] : k \in 1..(next - 1)}
<1>1. CASE Paths
  <2>1. targets = <<>> /\ next = 1 /\ next' = 1 /\ UNCHANGED <<entries, missing>>
    BY <1>1 DEF Paths, ListInv, TypeOK, zipVars
  <2>2. Distinct(targets')
    BY <1>1, PathsPicks DEF ListInv
  <2>3. Members(EntryAssets) = {} /\ Members(missing) = {}
    BY <2>1 DEF EveryTargetOnce
  <2>4. DOMAIN EntryAssets = {} /\ DOMAIN missing = {}
    BY <2>3 DEF Members
  <2>5. EntryAssets' = EntryAssets
    BY <2>1 DEF EntryAssets
  <2>6. {targets'[k] : k \in 1..(next' - 1)} = {}
    BY <2>1
  <2>7. InOrderOf(EntryAssets', targets') /\ InOrderOf(missing', targets')
    BY <2>1, <2>4, <2>5 DEF InOrderOf
  <2> QED
    BY <2>1, <2>2, <2>3, <2>5, <2>6, <2>7 DEF EveryTargetOnce, Distinct
<1>2. ASSUME AddEntry \/ NoteMissing
      PROVE  /\ next \in Nat /\ next # 0 /\ 1..next \subseteq DOMAIN targets /\ next' = next + 1 /\ targets' = targets
             /\ targets[next] \notin passed
             /\ {targets'[k] : k \in 1..(next' - 1)} = passed \cup {targets[next]}
  <2>1. next \in Nat /\ next # 0 /\ 1..next \subseteq DOMAIN targets /\ next' = next + 1 /\ targets' = targets
    BY <1>2 DEF AddEntry, NoteMissing, TypeOK, listVars
  <2>2. targets[next] \notin passed
    <3>1. ASSUME NEW k \in 1..(next - 1), targets[k] = targets[next] PROVE FALSE
      <4>1. k \in DOMAIN targets /\ next \in DOMAIN targets /\ k # next
        BY <2>1
      <4> QED
        BY <3>1, <4>1 DEF EveryTargetOnce
    <3> QED
      BY <3>1
  <2> QED
    BY <2>1, <2>2, PassedGrows
<1>3. /\ Members(EntryAssets) \subseteq passed /\ InOrderOf(EntryAssets, targets)
      /\ Members(missing) \subseteq passed /\ InOrderOf(missing, targets)
      /\ Members(EntryAssets) \cup Members(missing) = passed
      /\ Members(EntryAssets) \cap Members(missing) = {}
  BY DEF EveryTargetOnce
<1>4. CASE AddEntry
  <2>1. missing' = missing
    BY <1>4 DEF AddEntry
  <2>2. InOrderOf(EntryAssets', targets) /\ Members(EntryAssets') = Members(EntryAssets) \cup {targets[next]}
    <3>1. /\ DOMAIN EntryAssets' = DOMAIN EntryAssets \cup {Len(entries) + 1} /\ Len(entries) + 1 \in Nat
          /\ \A i \in DOMAIN EntryAssets : i \in Nat /\ i < Len(entries) + 1 /\ EntryAssets'[i] = EntryAssets[i]
          /\ EntryAssets'[Len(entries) + 1] = targets[next]
      BY <1>4, AddEntryGrows
    <3> QED
      BY <1>2, <1>3, <1>4, <3>1, ListGrows, SMTT(20)
  <2> HIDE DEF passed
  <2> QED
    BY <1>2, <1>3, <1>4, <2>1, <2>2 DEF EveryTargetOnce
<1>5. CASE NoteMissing
  <2>1. EntryAssets' = EntryAssets
    BY <1>5 DEF NoteMissing, EntryAssets
  <2>2. InOrderOf(missing', targets) /\ Members(missing') = Members(missing) \cup {targets[next]}
    <3>1. /\ DOMAIN missing' = DOMAIN missing \cup {Len(missing) + 1} /\ Len(missing) + 1 \in Nat
          /\ \A i \in DOMAIN missing : i \in Nat /\ i < Len(missing) + 1 /\ missing'[i] = missing[i]
          /\ missing'[Len(missing) + 1] = targets[next]
      BY <1>5, NoteMissingGrows
    <3> QED
      BY <1>2, <1>3, <1>5, <3>1, ListGrows, SMTT(20)
  <2> HIDE DEF passed
  <2> QED
    BY <1>2, <1>3, <1>5, <2>1, <2>2 DEF EveryTargetOnce
<1>6. CASE UNCHANGED <<targets, next, entries, missing>>
  <2>1. EntryAssets' = EntryAssets
    BY <1>6 DEF EntryAssets
  <2>2. Members(EntryAssets') = Members(EntryAssets) /\ Members(missing') = Members(missing)
    BY <1>6, <2>1
  <2>3. InOrderOf(EntryAssets', targets') /\ InOrderOf(missing', targets')
    BY <1>3, <1>6, <2>1
  <2>4. {targets'[k] : k \in 1..(next' - 1)} = passed
    BY <1>6
  <2>5. \A k, l \in DOMAIN targets' : targets'[k] = targets'[l] => k = l
    BY <1>6 DEF EveryTargetOnce
  <2> HIDE DEF passed
  <2> QED
    BY <1>3, <2>2, <2>3, <2>4, <2>5 DEF EveryTargetOnce
<1>7. Paths \/ AddEntry \/ NoteMissing \/ UNCHANGED <<targets, next, entries, missing>>
  BY DEF Next, Work, Gate, Query, Rank, StartZip, FinishZip, Stream, CloseSpool,
         Finalise, Retry, DatabaseFails, Fail, Leave, ChangeStatus, ChangeFile, Change, vars, listVars, zipVars
<1> QED
  BY <1>1, <1>4, <1>5, <1>6, <1>7

\* While nothing changes, the second look finds what the first one found.
LEMMA QuietKept ==
  ASSUME TypeOK, ListInv, EveryTargetOnce, QuietInv, [Next]_vars PROVE QuietInv'
<1>1. CASE \E a \in Assets : ChangeStatus(a) \/ ChangeFile(a)
  BY <1>1 DEF ChangeStatus, ChangeFile, Change, QuietInv, TypeOK
<1>2. CASE Gate
  <2>1. pc' \in {"rows", "refused"} /\ UNCHANGED <<registered, present, changes, entries, missing>>
    BY <1>2 DEF Gate, worldVars, zipVars
  <2>2. EntryAssets' = EntryAssets
    BY <2>1 DEF EntryAssets
  <2> QED
    BY <2>1, <2>2 DEF QuietInv, Members
<1>3. CASE Rank
  <2>1. pc' = "paths" /\ UNCHANGED <<registered, present, changes, entries, missing>>
    BY <1>3 DEF Rank, worldVars, zipVars
  <2>2. EntryAssets' = EntryAssets
    BY <2>1 DEF EntryAssets
  <2> QED
    BY <2>1, <2>2 DEF QuietInv, Members
<1>4. CASE Paths
  <2>1. UNCHANGED <<registered, present, changes, entries, missing>>
    BY <1>4 DEF Paths, worldVars, zipVars
  <2>2. EntryAssets' = EntryAssets
    BY <2>1 DEF EntryAssets
  <2>3. ordered' = ordered /\ Members(targets') = Members(ordered) \cap (registered \ Pathless)
    BY <1>4, PathsPicks DEF ListInv
  <2>4. Members(ordered') = Members(ordered) /\ Members(EntryAssets') = Members(EntryAssets) /\ Members(missing') = Members(missing)
    BY <2>1, <2>2, <2>3
  <2> QED
    BY <2>1, <2>3, <2>4 DEF QuietInv
<1>5. CASE AddEntry
  <2>1. UNCHANGED <<registered, present, changes, pc, ordered, targets, missing>>
    BY <1>5 DEF AddEntry, worldVars, listVars
  <2>2. /\ targets[next] \in present
        /\ Members(EntryAssets') = Members(EntryAssets) \cup {targets[next]}
    BY <1>5, AddEntryGrows DEF Members
  <2>3. Members(ordered') = Members(ordered) /\ Members(targets') = Members(targets) /\ Members(missing') = Members(missing)
    BY <2>1
  <2> QED
    BY <2>1, <2>2, <2>3 DEF QuietInv
<1>6. CASE NoteMissing
  <2>1. UNCHANGED <<registered, present, changes, pc, ordered, targets, entries>>
    BY <1>6 DEF NoteMissing, worldVars, listVars
  <2>2. /\ targets[next] \notin present
        /\ Members(missing') = Members(missing) \cup {targets[next]}
    BY <1>6, NoteMissingGrows DEF Members
  <2>3. EntryAssets' = EntryAssets
    BY <2>1 DEF EntryAssets
  <2>4. Members(ordered') = Members(ordered) /\ Members(targets') = Members(targets) /\ Members(EntryAssets') = Members(EntryAssets)
    BY <2>1, <2>3
  <2> QED
    BY <2>1, <2>2, <2>4 DEF QuietInv
<1>7. CASE StartZip \/ FinishZip \/ Stream \/ CloseSpool \/ Finalise \/ Fail \/ Leave \/ UNCHANGED vars
  <2>1. /\ UNCHANGED <<registered, present, changes, ordered, targets, entries, missing>>
        /\ pc \in {"gate", "rows", "rank", "paths", "refused", "failed"} => pc' = pc
    BY <1>7 DEF StartZip, FinishZip, Stream, CloseSpool, Finalise, Fail, Leave, vars, worldVars, listVars, zipVars
  <2>2. EntryAssets' = EntryAssets
    BY <2>1 DEF EntryAssets
  <2>3. /\ Members(ordered') = Members(ordered) /\ Members(targets') = Members(targets)
        /\ Members(EntryAssets') = Members(EntryAssets) /\ Members(missing') = Members(missing)
    BY <2>1, <2>2
  <2> QED
    BY <2>1, <2>3 DEF QuietInv
<1>8. CASE Query \/ Retry \/ DatabaseFails
  <2>1. /\ UNCHANGED <<registered, present, changes, entries, missing>>
        /\ pc' \in {"gate", "rank", "failed"}
    BY <1>8 DEF Query, Retry, DatabaseFails, worldVars, zipVars
  <2>2. EntryAssets' = EntryAssets
    BY <2>1 DEF EntryAssets
  <2> QED
    BY <2>1, <2>2 DEF QuietInv, Members
<1> QED
  BY <1>1, <1>2, <1>3, <1>4, <1>5, <1>6, <1>7, <1>8 DEF Next, Work

\* The manifest is written after the last target, if something is missing.
LEMMA EndKept ==
  ASSUME TypeOK, EndInv, [Next]_vars PROVE EndInv'
<1> USE DEF EndInv
<1>0. Len(targets) \in Nat /\ next \in 1..(Len(targets) + 1) /\ changes \in Nat
  BY DEF TypeOK
<1>1. CASE FinishZip
  <2>1. next' = next /\ targets' = targets /\ missing' = missing /\ next > Len(targets)
    BY <1>1 DEF FinishZip, listVars
  <2>2. next' = Len(targets') + 1
    BY <1>0, <2>1
  <2>3. manifest' <=> missing' # <<>>
    BY <1>1, Zenon DEF FinishZip
  <2> QED
    BY <2>2, <2>3
<1>2. CASE Gate \/ Query \/ Rank \/ Paths \/ StartZip \/ AddEntry \/ NoteMissing \/ Retry \/ DatabaseFails \/ Fail
  BY <1>2 DEF Gate, Query, Rank, Paths, StartZip, AddEntry, NoteMissing, Retry, DatabaseFails, Fail
<1>3. CASE Stream \/ CloseSpool \/ Finalise \/ Leave \/ UNCHANGED vars
  BY <1>3 DEF Stream, CloseSpool, Finalise, Leave, vars, listVars, zipVars
<1>4. CASE \E a \in Assets : ChangeStatus(a) \/ ChangeFile(a)
  <2>1. UNCHANGED <<pc, targets, next, missing, manifest>>
    BY <1>4 DEF ChangeStatus, ChangeFile, Change, listVars, zipVars
  <2> QED
    BY <2>1
<1> QED
  BY <1>1, <1>2, <1>3, <1>4 DEF Next, Work

\* The bundle that was finished without a change.
LEMMA QuietIsExact == IInv => QuietBundleIsExact
<1> SUFFICES ASSUME IInv, changes = 0, pc \in {"stream", "close", "dropped", "done"}
             PROVE  LET wanted == Members(ordered) \cap (registered \ Pathless) IN
                      /\ Members(EntryAssets) = wanted \cap present
                      /\ InOrderOf(EntryAssets, ordered)
                      /\ manifest <=> wanted \ present # {}
  BY DEF QuietBundleIsExact
<1> DEFINE wanted == Members(ordered) \cap (registered \ Pathless)
<1>1. TypeOK /\ ListInv /\ EveryTargetOnce /\ QuietInv /\ EndInv
  BY DEF IInv
<1>2. /\ Members(targets) = wanted /\ Members(EntryAssets) \subseteq present /\ Members(missing) \cap present = {}
  BY <1>1 DEF QuietInv
<1>3. next = Len(targets) + 1 /\ (manifest <=> missing # <<>>)
  BY <1>1 DEF EndInv
<1>4. Members(targets) = {targets[k] : k \in 1..(next - 1)}
  <2>1. DOMAIN targets = 1..(next - 1)
    BY <1>1, <1>3 DEF TypeOK
  <2> QED
    BY <2>1 DEF Members
<1>5. Members(EntryAssets) \cup Members(missing) = wanted
  BY <1>1, <1>2, <1>4 DEF EveryTargetOnce
<1>6. InOrderOf(EntryAssets, ordered)
  BY <1>1 DEF EveryTargetOnce, ListInv, InOrderOf
<1>7. missing # <<>> <=> Members(missing) # {}
  <2>1. missing \in Seq(Assets)
    BY <1>1 DEF TypeOK
  <2>2. missing # <<>> <=> 1 \in DOMAIN missing
    BY <2>1
  <2>3. DOMAIN missing # {} => 1 \in DOMAIN missing
    BY <2>1
  <2> QED
    BY <2>2, <2>3 DEF Members
<1> QED
  BY <1>2, <1>3, <1>5, <1>6, <1>7

\* What a bundle request keeps in every step, whatever the catalogue, the
\* archive and the client do meanwhile (download.py:171-333,
\* routes_assets.py:265-345).
THEOREM Invariance == Spec => []IInv
<1>1. Init => IInv
  BY InitInvariant
<1>2. IInv /\ [Next]_vars => IInv'
  <2> SUFFICES ASSUME IInv, [Next]_vars PROVE IInv'
    OBVIOUS
  <2>1. TypeOK /\ NamesInv /\ ListInv /\ BundleIsTop /\ EveryTargetOnce /\ QuietInv /\ EndInv
    BY DEF IInv
  <2>2. TypeOK' /\ NamesInv' /\ ListInv' /\ BundleIsTop'
    BY <2>1, TypeKept, NamesKept, ListKept, TopKept
  <2>3. EveryTargetOnce' /\ QuietInv' /\ EndInv'
    BY <2>1, TargetsKept, QuietKept, EndKept
  <2> QED
    BY <2>2, <2>3 DEF IInv
<1> QED
  BY <1>1, <1>2, PTL DEF Spec

\* A bundle request keeps to its types: the lists it builds hold assets, the
\* loop over the targets never runs past their end (download.py:171-352).
THEOREM TypeCorrect == Spec => []TypeOK
BY Invariance, PTL DEF IInv

\* "the same name twice and one overwrites the other when it is unpacked"
\* (download.py:244-272): no two files of a bundle have the same name,
\* whatever they are called and however many there are.
THEOREM FilesHaveOwnNamesHolds == Spec => []FilesHaveOwnNames
<1>1. IInv => FilesHaveOwnNames
  BY DEF IInv, NamesInv
<1> QED
  BY <1>1, Invariance, PTL

\* For any neighbour rows, in any order and with any repetitions, the ranking
\* is the seed and its strongest neighbours, and who is left out is outranked
\* by everybody who is in (collect_bundle_assets, download.py:171-241).
THEOREM BundleIsTopHolds == Spec => []BundleIsTop
<1>1. IInv => BundleIsTop
  BY DEF IInv
<1> QED
  BY <1>1, Invariance, PTL

\* However the files come and go while they are copied, each target ends up in
\* the zip or among the missing ones, once and in order
\* (build_bundle_zip_stream, download.py:275-331).
THEOREM EveryTargetOnceHolds == Spec => []EveryTargetOnce
<1>1. IInv => EveryTargetOnce
  BY DEF IInv
<1> QED
  BY <1>1, Invariance, PTL

\* A bundle nothing interfered with is exactly what was asked for, manifest
\* included.
THEOREM QuietBundleIsExactHolds == Spec => []QuietBundleIsExact
BY QuietIsExact, Invariance, PTL
=============================================================================
