---------------------------- MODULE ReportsProofs ---------------------------
(***************************************************************************)
(* Proofs about Reports, for all tables, calendars and requests.           *)
(*                                                                         *)
(* A figure adds up to what its statement counts: every row is in one cell *)
(* (FigureCounts).  A statement without a bucket, on columns that never    *)
(* change, counts no less after a step (SizeGrows): rows are added, and a  *)
(* row that changes keeps its id, time and fixed columns.  So an answer is *)
(* never more than a later answer of the same rows, and while no row       *)
(* changes each answer is what its statement would give now: this is the   *)
(* invariant, ReportsInv, and the properties follow from the script each   *)
(* report runs.                                                            *)
(***************************************************************************)
EXTENDS Reports, RankingProofs

-----------------------------------------------------------------------------
(* Sums of figures.                                                      *)

\* The pairs of a cell and an element of its set.
IsUnion(U, A) ==
  /\ IsFiniteSet(U)
  /\ \A u \in U : u = <<u[1], u[2]>> /\ u[1] \in DOMAIN A /\ u[2] \in A[u[1]]
  /\ \A c \in DOMAIN A : IsFiniteSet(A[c]) /\ \A a \in A[c] : <<c, a>> \in U

\* The cells of f are as large as the sets of A.
AreSizes(f, A) == DOMAIN f = DOMAIN A /\ \A c \in DOMAIN A : f[c] = Cardinality(A[c])

\* The sum of the sizes of the sets of some cells is the size of their
\* disjoint union.
LEMMA SumOfSets ==
  ASSUME NEW A, NEW f, AreSizes(f, A), NEW U, IsUnion(U, A)
  PROVE  SumOf(f) = Cardinality(U)
<1> DEFINE D == DOMAIN A
<1>d. /\ DOMAIN f = D /\ \A c \in D : f[c] = Cardinality(A[c]) /\ IsFiniteSet(A[c])
      /\ \A u \in U : u = <<u[1], u[2]>> /\ u[1] \in D /\ u[2] \in A[u[1]]
      /\ \A c \in D : \A a \in A[c] : <<c, a>> \in U
      /\ IsFiniteSet(U)
  BY DEF IsUnion, AreSizes
<1> HIDE DEF D
<1> DEFINE IsPlace(c, h) == h \in Bijection(1..f[c], A[c])
           b == [c \in D |-> CHOOSE h : IsPlace(c, h)]
           V == UNION {{c} \X (1..f[c]) : c \in D}
           g == [x \in V |-> <<x[1], b[x[1]][x[2]]>>]
<1>1. ASSUME NEW c \in D PROVE f[c] \in Nat /\ b[c] \in Bijection(1..f[c], A[c])
  <2>1. f[c] = Cardinality(A[c]) /\ IsFiniteSet(A[c])
    BY <1>d
  <2>2. f[c] \in Nat /\ \E h : IsPlace(c, h)
    BY <2>1, FS_CardinalityType DEF ExistsBijection
  <2> HIDE DEF IsPlace
  <2>3. b[c] = CHOOSE h : IsPlace(c, h)
    OBVIOUS
  <2>4. IsPlace(c, b[c])
    BY <2>2, <2>3
  <2> QED
    BY <2>2, <2>4 DEF IsPlace
<1> HIDE DEF b
<1>2. \A c \in D : /\ b[c] \in [1..f[c] -> A[c]]
                   /\ \A i, j \in 1..f[c] : b[c][i] = b[c][j] => i = j
                   /\ \A y \in A[c] : \E i \in 1..f[c] : b[c][i] = y
  BY <1>1 DEF Bijection, Injection, Surjection, IsInjective
<1>3. /\ \A x \in V : x = <<x[1], x[2]>> /\ x[1] \in D /\ x[2] \in 1..f[x[1]]
      /\ \A c \in D : \A i \in 1..f[c] : <<c, i>> \in V
  OBVIOUS
<1>v. SumOf(f) = Cardinality(V)
  BY <1>d DEF SumOf
<1> HIDE DEF V
<1>5. \A x \in V : g[x] = <<x[1], b[x[1]][x[2]]>>
  OBVIOUS
<1>6. g \in [V -> U]
  <2>1. \A c \in D : \A i \in 1..f[c] : b[c][i] \in A[c]
    BY <1>2, Zenon
  <2>2. \A x \in V : <<x[1], b[x[1]][x[2]]>> \in U
    BY <1>3, <1>d, <2>1
  <2> QED
    BY <2>2
<1> HIDE DEF g
<1>7. ASSUME NEW x \in V, NEW y \in V, g[x] = g[y] PROVE x = y
  <2>1. g[x] = <<x[1], b[x[1]][x[2]]>> /\ g[y] = <<y[1], b[y[1]][y[2]]>>
    BY <1>5
  <2> DEFINE gx == b[x[1]][x[2]]
             gy == b[y[1]][y[2]]
  <2>2. x[1] = y[1] /\ b[x[1]][x[2]] = b[y[1]][y[2]]
    <3>1. <<x[1], gx>> = <<y[1], gy>>
      BY <1>7, <2>1
    <3> HIDE DEF gx, gy
    <3>2. x[1] = y[1] /\ gx = gy
      BY <3>1
    <3> QED
      BY <3>2 DEF gx, gy
  <2>3. x[1] \in D /\ x[2] \in 1..f[x[1]] /\ y[2] \in 1..f[x[1]]
    BY <1>3, <2>2
  <2>4. x[2] = y[2]
    BY <1>2, <2>2, <2>3
  <2> QED
    BY <1>3, <2>2, <2>4
<1>8. ASSUME NEW y \in U PROVE \E x \in V : g[x] = y
  <2>1. PICK i \in 1..f[y[1]] : b[y[1]][i] = y[2]
    BY <1>2, <1>d
  <2>2. <<y[1], i>> \in V
    BY <1>3, <1>d, <2>1
  <2>3. g[<<y[1], i>>] = y
    BY <1>5, <1>d, <2>1, <2>2
  <2> QED
    BY <2>2, <2>3
<1>9. DOMAIN g = V /\ IsInjective(g)
  BY <1>6, <1>7 DEF IsInjective
<1>10. g \in Injection(V, U) /\ g \in Surjection(V, U)
  BY <1>6, <1>8, <1>9 DEF Injection, Surjection
<1>11. Cardinality(V) = Cardinality(U)
  BY <1>10, <1>d, FS_Injection
<1> QED
  BY <1>11, <1>v

\* Who counts each row in one cell has counted them all.
LEMMA CountsSum ==
  ASSUME NEW S, IsFiniteSet(S), NEW D, NEW cell \in [S -> D],
         NEW f, f = [c \in D |-> Cardinality({r \in S : cell[r] = c})]
  PROVE  SumOf(f) = Cardinality(S) /\ Cardinality(S) \in Nat
<1> DEFINE A == [c \in D |-> {r \in S : cell[r] = c}]
           U == UNION {{c} \X A[c] : c \in D}
           h == [r \in S |-> <<cell[r], r>>]
<1>1. \A c \in D : IsFiniteSet(A[c])
  BY FS_Subset
<1>2. U = {h[r] : r \in S}
  <2>1. \A y : y \in U <=> y = <<y[1], y[2]>> /\ y[1] \in D /\ y[2] \in S /\ cell[y[2]] = y[1]
    OBVIOUS
  <2>2. \A r \in S : h[r] = <<cell[r], r>>
    OBVIOUS
  <2> HIDE DEF U, h
  <2> QED
    BY <2>1, <2>2
<1>3. S \subseteq DOMAIN h /\ \A x, y \in S : h[x] = h[y] => x = y
  OBVIOUS
<1> HIDE DEF h
<1>4. IsFiniteSet(U) /\ Cardinality(U) = Cardinality(S) /\ Cardinality(S) \in Nat
  <2> HIDE DEF A, U
  <2> QED
    BY <1>2, <1>3, ImageIsAsLarge
<1>5. DOMAIN f = D /\ DOMAIN A = D /\ \A c \in D : f[c] = Cardinality(A[c])
  OBVIOUS
<1>6. /\ \A u \in U : u = <<u[1], u[2]>> /\ u[1] \in D /\ u[2] \in A[u[1]]
      /\ \A c \in D : \A a \in A[c] : <<c, a>> \in U
  OBVIOUS
<1> HIDE DEF A, U
<1>7. SumOf(f) = Cardinality(U)
  <2>1. IsUnion(U, A) /\ AreSizes(f, A)
    BY <1>1, <1>4, <1>5, <1>6 DEF IsUnion, AreSizes
  <2> QED
    BY <2>1, SumOfSets
<1> QED
  BY <1>4, <1>7

\* The keys of the elements.
Keys(S, key) == {key[r] : r \in S}

\* The cells of f count the keys of the elements in them.
IsKeyCount(f, S, D, cell, key) ==
  /\ DOMAIN f = D
  /\ \A c \in D : f[c] = Cardinality({key[r] : r \in {q \in S : cell[q] = c}})

\* Who counts in each cell the keys of its rows has counted every key, and in
\* a single cell each of them once.
LEMMA DistinctSum ==
  ASSUME NEW S, IsFiniteSet(S), NEW D, NEW cell \in [S -> D], NEW key, DOMAIN key = S,
         NEW f, IsKeyCount(f, S, D, cell, key)
  PROVE  /\ SumOf(f) \in Nat /\ Cardinality(Keys(S, key)) \in Nat /\ Cardinality(Keys(S, key)) <= SumOf(f)
         /\ (\A q, r \in S : cell[q] = cell[r]) => SumOf(f) = Cardinality(Keys(S, key))
<1> DEFINE A == [c \in D |-> {key[r] : r \in {q \in S : cell[q] = c}}]
           U == UNION {{c} \X A[c] : c \in D}
           h == [r \in S |-> <<cell[r], key[r]>>]
           K == {key[r] : r \in S}
           second == [u \in U |-> u[2]]
<1>k. IsFiniteSet(K) /\ Cardinality(K) \in Nat
  BY ImageIsFinite, FS_CardinalityType
<1>1. \A c \in D : IsFiniteSet(A[c])
  <2> SUFFICES ASSUME NEW c \in D PROVE A[c] \in SUBSET K
    BY <1>k, FS_Subset
  <2> QED
    OBVIOUS
<1>2. \A y : y \in U <=> \E r \in S : y = <<cell[r], key[r]>>
  OBVIOUS
<1>3. IsFiniteSet(U) /\ Cardinality(U) \in Nat
  <2>1. U = {h[r] : r \in S} /\ DOMAIN h = S
    <3>1. DOMAIN h = S /\ \A r \in S : h[r] = <<cell[r], key[r]>>
      OBVIOUS
    <3> HIDE DEF U, h
    <3> QED
      BY <1>2, <3>1
  <2> HIDE DEF U, h
  <2> QED
    BY <2>1, ImageIsFinite, FS_CardinalityType
<1>4. SumOf(f) = Cardinality(U)
  <2>1. DOMAIN f = D /\ DOMAIN A = D /\ \A c \in D : f[c] = Cardinality(A[c])
    BY DEF IsKeyCount
  <2>2. /\ \A u \in U : u = <<u[1], u[2]>> /\ u[1] \in D /\ u[2] \in A[u[1]]
        /\ \A c \in D : \A a \in A[c] : <<c, a>> \in U
    OBVIOUS
  <2> HIDE DEF A, U
  <2>3. IsUnion(U, A) /\ AreSizes(f, A)
    BY <1>1, <1>3, <2>1, <2>2 DEF IsUnion, AreSizes
  <2> QED
    BY <2>3, SumOfSets
<1> HIDE DEF U
<1>5. \A u \in U : second[u] = u[2]
  OBVIOUS
<1>6. second \in [U -> K]
  BY <1>2, <1>5
<1> HIDE DEF second
<1>7. \A k \in K : \E u \in U : second[u] = k
  <2> SUFFICES ASSUME NEW r \in S PROVE \E u \in U : second[u] = key[r]
    OBVIOUS
  <2>1. <<cell[r], key[r]>> \in U
    BY <1>2
  <2>2. second[<<cell[r], key[r]>>] = key[r]
    BY <1>5, <2>1
  <2> QED
    BY <2>1, <2>2
<1> HIDE DEF K
<1>8. second \in Surjection(U, K)
  BY <1>6, <1>7 DEF Surjection
<1>9. /\ Cardinality(K) <= Cardinality(U)
      /\ second \in Injection(U, K) => Cardinality(K) = Cardinality(U)
  BY <1>3, <1>8, FS_Surjection
<1>10. ASSUME \A q, r \in S : cell[q] = cell[r] PROVE second \in Injection(U, K)
  <2>1. \A u, v \in U : second[u] = second[v] => u = v
    BY <1>2, <1>5, <1>10
  <2>2. DOMAIN second = U /\ IsInjective(second)
    BY <1>6, <2>1 DEF IsInjective
  <2> QED
    BY <1>6, <2>2 DEF Injection
<1> QED
  BY <1>3, <1>4, <1>9, <1>10, <1>k DEF K, Keys

-----------------------------------------------------------------------------
(* The tables and what a statement counts.                               *)

\* The tables the statements read.
Tables == {"access_log", "asset", "asset_lineage"}

\* The rows of the tables, each with an id of its own.
TablesInv ==
  /\ log \subseteq LogRows /\ assets \subseteq AssetRows /\ events \subseteq EventRows
  /\ Keyed(log) /\ Keyed(assets) /\ Keyed(events)

\* What the statements of the reports have in common.
IsStatement(st) ==
  /\ st.table \in Tables
  /\ st.shape \in {"counts", "distinct", "buckets", "page"}
  /\ st.shape = "distinct" => st.table = "asset_lineage"
  /\ st.shape = "buckets" => st.table = "asset"
  /\ st.shape = "page" => st.limit \in Nat /\ st.offset \in Nat

\* What a statement counts: rows or assets.
Size(st) ==
  IF st.shape = "distinct" THEN Cardinality({row.asset : row \in Selected(st)})
                           ELSE Cardinality(Selected(st))

\* The result of the statement counts nothing twice.
Exact(st) == st.shape # "page" /\ (st.shape = "distinct" => st.by = None /\ st.interval = None)

\* The lineage, joined with the assets, has a row for each event of an asset.
LEMMA JoinedRows ==
  /\ \A e \in events : \A a \in assets : e.asset = a.id =>
       [id |-> e.id, time |-> e.time, asset |-> e.asset, activity |-> e.activity,
        status |-> a.status, modality |-> a.modality] \in Joined
  /\ \A row \in Joined : \E e \in events : \E a \in assets :
       /\ e.asset = a.id
       /\ row = [id |-> e.id, time |-> e.time, asset |-> e.asset, activity |-> e.activity,
                 status |-> a.status, modality |-> a.modality]
<1> DEFINE row(p) == [id |-> p[1].id, time |-> p[1].time, asset |-> p[1].asset, activity |-> p[1].activity,
                      status |-> p[2].status, modality |-> p[2].modality]
           P == {q \in events \X assets : q[1].asset = q[2].id}
<1>1. Joined = {row(p) : p \in P}
  BY DEF Joined
<1> HIDE DEF P
<1>2. \A p \in P : row(p) \in Joined
  BY <1>1
<1>3. \A r \in Joined : \E p \in P : r = row(p)
  BY <1>1
<1>4. \A e \in events : \A a \in assets : e.asset = a.id => <<e, a>> \in P
  BY DEF P
<1>5. \A p \in P : p[1] \in events /\ p[2] \in assets /\ p[1].asset = p[2].id
  BY DEF P
<1>6. \A e, a : <<e, a>>[1] = e /\ <<e, a>>[2] = a
  OBVIOUS
<1>7. ASSUME NEW e \in events, NEW a \in assets, e.asset = a.id
      PROVE  [id |-> e.id, time |-> e.time, asset |-> e.asset, activity |-> e.activity,
              status |-> a.status, modality |-> a.modality] \in Joined
  <2>1. row(<<e, a>>) \in Joined
    BY <1>2, <1>4, <1>7
  <2> QED
    BY <2>1
<1>8. ASSUME NEW r \in Joined
      PROVE  \E e \in events : \E a \in assets :
               /\ e.asset = a.id
               /\ r = [id |-> e.id, time |-> e.time, asset |-> e.asset, activity |-> e.activity,
                       status |-> a.status, modality |-> a.modality]
  BY <1>3, <1>5
<1> QED
  BY <1>7, <1>8

\* The tables and the join are finite, and their rows are told apart by ids.
LEMMA TablesAreKeyed ==
  ASSUME TablesInv, NEW table \in Tables
  PROVE  Keyed(From(table))
<1>1. CASE table = "access_log"
  BY <1>1 DEF TablesInv, From
<1>2. CASE table = "asset"
  BY <1>2 DEF TablesInv, From
<1>3. CASE table = "asset_lineage"
  <2>1. IsFiniteSet(Joined)
    <3> DEFINE row(p) == [id |-> p[1].id, time |-> p[1].time, asset |-> p[1].asset, activity |-> p[1].activity,
                          status |-> p[2].status, modality |-> p[2].modality]
               P == {q \in events \X assets : q[1].asset = q[2].id}
               f == [p \in P |-> row(p)]
    <3>1. IsFiniteSet(events \X assets)
      BY FS_Product DEF TablesInv, Keyed
    <3>2. IsFiniteSet(P)
      BY <3>1, FS_Subset
    <3>3. Joined = {row(p) : p \in P}
      BY DEF Joined
    <3>4. DOMAIN f = P /\ \A p \in P : f[p] = row(p)
      OBVIOUS
    <3> HIDE DEF P, f
    <3>5. Joined = {f[p] : p \in P}
      BY <3>3, <3>4
    <3> HIDE DEF row
    <3> QED
      BY <3>2, <3>4, <3>5, ImageIsFinite
  <2>2. ASSUME NEW r \in Joined, NEW s \in Joined, r.id = s.id PROVE r = s
    <3>1. PICK e \in events : \E a \in assets :
            /\ e.asset = a.id
            /\ r = [id |-> e.id, time |-> e.time, asset |-> e.asset, activity |-> e.activity,
                    status |-> a.status, modality |-> a.modality]
      BY JoinedRows
    <3>2. PICK a \in assets :
            /\ e.asset = a.id
            /\ r = [id |-> e.id, time |-> e.time, asset |-> e.asset, activity |-> e.activity,
                    status |-> a.status, modality |-> a.modality]
      BY <3>1
    <3>3. PICK f \in events : \E b \in assets :
            /\ f.asset = b.id
            /\ s = [id |-> f.id, time |-> f.time, asset |-> f.asset, activity |-> f.activity,
                    status |-> b.status, modality |-> b.modality]
      BY JoinedRows
    <3>4. PICK b \in assets :
            /\ f.asset = b.id
            /\ s = [id |-> f.id, time |-> f.time, asset |-> f.asset, activity |-> f.activity,
                    status |-> b.status, modality |-> b.modality]
      BY <3>3
    <3>5. e.id = f.id
      BY <2>2, <3>2, <3>4
    <3>6. e = f
      BY <3>5 DEF TablesInv, Keyed
    <3>7. a = b
      BY <3>2, <3>4, <3>6 DEF TablesInv, Keyed
    <3> QED
      BY <3>2, <3>4, <3>6, <3>7
  <2> QED
    BY <1>3, <2>1, <2>2 DEF From, Keyed
<1> QED
  BY <1>1, <1>2, <1>3 DEF Tables

\* So is what a statement selects.
LEMMA SelectedIsKeyed ==
  ASSUME TablesInv, NEW st, IsStatement(st)
  PROVE  Keyed(Selected(st)) /\ Cardinality(Selected(st)) \in Nat /\ Selected(st) \subseteq From(st.table)
<1>1. Keyed(From(st.table))
  BY TablesAreKeyed DEF IsStatement
<1>2. Selected(st) \in SUBSET From(st.table)
  BY DEF Selected
<1>3. IsFiniteSet(Selected(st))
  BY <1>1, <1>2, FS_Subset DEF Keyed
<1> QED
  BY <1>1, <1>2, <1>3, FS_CardinalityType DEF Keyed

\* A number of buckets: every asset is in one of them and no other.
LEMMA OneBucket ==
  ASSUME NEW row, row.status \in AllStatuses, NEW period
  PROVE  /\ \E b \in Buckets : InBucket(b, row, period)
         /\ \A b, c \in Buckets : InBucket(b, row, period) /\ InBucket(c, row, period) => b = c
BY DEF InBucket, Buckets, AllStatuses, Processing

\* What a result adds up to.
LEMMA FigureCounts ==
  ASSUME TablesInv, NEW st, IsStatement(st), st.shape # "page", NEW result \in Results(st)
  PROVE  /\ SumOf(result) \in Nat /\ Size(st) \in Nat /\ Size(st) <= SumOf(result)
         /\ Exact(st) => SumOf(result) = Size(st)
<1> DEFINE S == Selected(st)
           cell == [r \in S |-> Cell(st, r)]
           D == {Cell(st, r) : r \in S}
<1>1. IsFiniteSet(S) /\ S \subseteq From(st.table)
  BY SelectedIsKeyed DEF Keyed
<1>2. cell \in [S -> D] /\ \A r \in S : cell[r] = Cell(st, r)
  OBVIOUS
<1>3. CASE st.shape = "counts"
  <2>1. result = [c \in D |-> Cardinality({r \in S : Cell(st, r) = c})]
    BY <1>3 DEF Results, Counts
  <2> HIDE DEF S, cell, D
  <2>2. \A c \in D : {r \in S : Cell(st, r) = c} = {r \in S : cell[r] = c}
    BY <1>2
  <2>3. result = [c \in D |-> Cardinality({r \in S : cell[r] = c})]
    BY <2>1, <2>2
  <2>4. SumOf(result) = Cardinality(S) /\ Cardinality(S) \in Nat
    BY <1>1, <1>2, <2>3, CountsSum
  <2> QED
    BY <1>3, <2>4 DEF Size, S
<1>4. CASE st.shape = "distinct"
  <2> DEFINE key == [r \in S |-> r.asset]
  <2>1. result = [c \in D |-> Cardinality({r.asset : r \in {q \in S : Cell(st, q) = c}})]
    BY <1>4 DEF Results, DistinctAssets
  <2>2. DOMAIN key = S /\ \A r \in S : key[r] = r.asset
    OBVIOUS
  <2>3. Size(st) = Cardinality({r.asset : r \in S})
    BY <1>4 DEF Size
  <2>4. Exact(st) => \A q, r \in S : cell[q] = cell[r]
    BY <1>2, <1>4 DEF Exact, Cell
  <2> HIDE DEF S, cell, D, key
  <2>5. \A c \in D : {r.asset : r \in {q \in S : Cell(st, q) = c}} = {key[r] : r \in {q \in S : cell[q] = c}}
    BY <1>2, <2>2
  <2>6. result = [c \in D |-> Cardinality({key[r] : r \in {q \in S : cell[q] = c}})]
    BY <2>1, <2>5
  <2>7. {r.asset : r \in S} = {key[r] : r \in S}
    BY <2>2
  <2>8. /\ SumOf(result) \in Nat /\ Cardinality(Keys(S, key)) \in Nat
        /\ Cardinality(Keys(S, key)) <= SumOf(result)
        /\ (\A q, r \in S : cell[q] = cell[r]) => SumOf(result) = Cardinality(Keys(S, key))
    <3>1. IsKeyCount(result, S, D, cell, key)
      BY <2>6 DEF IsKeyCount
    <3> QED
      BY <1>1, <1>2, <2>2, <3>1, DistinctSum
  <2> QED
    BY <2>3, <2>4, <2>7, <2>8 DEF Keys
<1>5. CASE st.shape = "buckets"
  <2> DEFINE bucket == [r \in S |-> CHOOSE b \in Buckets : InBucket(b, r, Ever)]
  <2>1. result = [b \in Buckets |-> Cardinality({r \in S : InBucket(b, r, Ever)})]
    BY <1>5 DEF Results, BucketCounts
  <2>2. S \subseteq assets
    BY <1>1, <1>5 DEF IsStatement, From
  <2>3. ASSUME NEW r \in S
        PROVE  /\ bucket[r] \in Buckets /\ InBucket(bucket[r], r, Ever)
               /\ \A b \in Buckets : InBucket(b, r, Ever) <=> bucket[r] = b
    <3>1. r.status \in AllStatuses
      BY <2>2 DEF TablesInv, AssetRows
    <3>2. /\ \E b \in Buckets : InBucket(b, r, Ever)
          /\ \A b, c \in Buckets : InBucket(b, r, Ever) /\ InBucket(c, r, Ever) => b = c
      BY <3>1, OneBucket
    <3>3. bucket[r] = CHOOSE b \in Buckets : InBucket(b, r, Ever)
      OBVIOUS
    <3> HIDE DEF bucket
    <3>4. bucket[r] \in Buckets /\ InBucket(bucket[r], r, Ever)
      BY <3>2, <3>3
    <3> QED
      BY <3>2, <3>4
  <2>4. bucket \in [S -> Buckets]
    BY <2>3
  <2> HIDE DEF bucket, S
  <2>5. \A b \in Buckets : {r \in S : InBucket(b, r, Ever)} = {r \in S : bucket[r] = b}
    BY <2>3
  <2>6. result = [b \in Buckets |-> Cardinality({r \in S : bucket[r] = b})]
    BY <2>1, <2>5
  <2>7. SumOf(result) = Cardinality(S) /\ Cardinality(S) \in Nat
    BY <1>1, <2>4, <2>6, CountsSum
  <2> QED
    BY <1>5, <2>7 DEF Size, S
<1> QED
  BY <1>3, <1>4, <1>5 DEF IsStatement

-----------------------------------------------------------------------------
(* What a step does to the tables.                                       *)

\* The columns of a table that never change.
Fixed(table) ==
  CASE table = "access_log"    -> {"action"}
    [] table = "asset"         -> {"modality"}
    [] table = "asset_lineage" -> {"activity", "asset"}

\* The rows a statement selects only become more.
Growing(st) == st.bucket = None /\ DOMAIN st.only \subseteq Fixed(st.table)

\* Row s is what row r has become.
Becomes(r, s, table) == s.id = r.id /\ s.time = r.time /\ \A c \in Fixed(table) : s[c] = r[c]

\* The transactions of everybody else.
Changing ==
  \/ \E t \in RowTimes :
       \/ \E action \in Actions : RecordAccess(action, t)
       \/ \E modality \in Modalities : Arrive(modality, t)
       \/ \E row \in assets : Propose(row, t)
  \/ \E row \in assets, status \in Statuses : ChangeStatus(row, status)

\* There is an id that no row has.
LEMMA NewIdIsNew ==
  ASSUME NEW table, Keyed(table)
  PROVE  NewId(table) \in Nat /\ \A row \in table : row.id # NewId(table)
<1> DEFINE n == Cardinality(table)
           f == [row \in table |-> row.id]
           Ids == {f[row] : row \in table}
           IsNew(i) == \A row \in table : row.id # i
<1>1. \A row \in table : f[row] = row.id
  OBVIOUS
<1>2. IsFiniteSet(Ids) /\ Cardinality(Ids) = n /\ n \in Nat
  <2>1. IsFiniteSet(table) /\ table \subseteq DOMAIN f /\ \A x, y \in table : f[x] = f[y] => x = y
    BY DEF Keyed
  <2> HIDE DEF f
  <2> QED
    BY <2>1, ImageIsAsLarge
<1>3. \A row \in table : row.id \in Ids
  BY <1>1
<1> HIDE DEF f, Ids
<1>4. \E i \in 1..(n + 1) : i \notin Ids
  <2> SUFFICES ASSUME 1..(n + 1) \subseteq Ids PROVE FALSE
    OBVIOUS
  <2>1. 1..(n + 1) \in SUBSET Ids
    OBVIOUS
  <2>2. Cardinality(1..(n + 1)) <= n
    BY <1>2, <2>1, FS_Subset
  <2>3. Cardinality(1..(n + 1)) = n + 1
    <3>1. 1 \in Int /\ n + 1 \in Int /\ ~(1 > n + 1) /\ (n + 1) - 1 + 1 = n + 1
      BY <1>2
    <3> QED
      BY <3>1, FS_Interval
  <2> QED
    BY <1>2, <2>2, <2>3
<1>5. \E i \in 1..(n + 1) : IsNew(i)
  BY <1>3, <1>4
<1>6. NewId(table) = CHOOSE i \in 1..(n + 1) : IsNew(i)
  BY DEF NewId
<1> HIDE DEF IsNew
<1>7. NewId(table) \in 1..(n + 1) /\ IsNew(NewId(table))
  BY <1>5, <1>6
<1> QED
  BY <1>2, <1>7 DEF IsNew

\* A row with a new id.
LEMMA KeyedAddition ==
  ASSUME NEW table, Keyed(table), NEW row, \A r \in table : r.id # row.id
  PROVE  Keyed(table \cup {row})
<1>1. IsFiniteSet(table \cup {row})
  BY FS_AddElement DEF Keyed
<1> QED
  BY <1>1 DEF Keyed

\* A row may have the time of its begin.
LEMMA RowTimesAreTimes ==
  ASSUME clock \in Times
  PROVE  RowTimes \subseteq Times
BY CalendarAssumption DEF RowTimes, Times, Horizon

\* The tables keep their keys.
LEMMA TablesStep ==
  ASSUME TypeOK, TablesInv, [Next]_vars
  PROVE  TablesInv'
<1>0. RowTimes \subseteq Times
  BY RowTimesAreTimes DEF TypeOK
<1>1. CASE UNCHANGED tables
  BY <1>1 DEF TablesInv, tables
<1>2. ASSUME NEW t \in RowTimes, NEW action \in Actions, RecordAccess(action, t) PROVE TablesInv'
  <2>1. PICK id \in AccessIds : log' = log \cup {[id |-> id, time |-> t, action |-> action]}
    BY <1>2 DEF RecordAccess
  <2> DEFINE row == [id |-> id, time |-> t, action |-> action]
  <2>2. UNCHANGED <<assets, events>>
    BY <1>2 DEF RecordAccess
  <2>3. id \in Nat /\ \A r \in log : r.id # id
    <3>1. Cardinality(log) \in Nat
      BY FS_CardinalityType DEF TablesInv, Keyed
    <3> QED
      BY <3>1 DEF AccessIds
  <2>4. row \in LogRows
    BY <1>0, <2>3 DEF LogRows
  <2>5. row.id = id
    OBVIOUS
  <2> HIDE DEF row
  <2>6. Keyed(log \cup {row})
    BY <2>3, <2>5, KeyedAddition DEF TablesInv
  <2> QED
    BY <2>1, <2>2, <2>4, <2>6 DEF TablesInv, row
<1>3. ASSUME NEW t \in RowTimes, NEW modality \in Modalities, Arrive(modality, t) PROVE TablesInv'
  <2> DEFINE asset == [id |-> NewId(assets), time |-> t, status |-> "received", modality |-> modality]
             event == [id |-> NewId(events), time |-> t, asset |-> NewId(assets), activity |-> "ingest"]
  <2>1. /\ NewId(assets) \in Nat /\ \A r \in assets : r.id # NewId(assets)
        /\ NewId(events) \in Nat /\ \A r \in events : r.id # NewId(events)
    BY NewIdIsNew DEF TablesInv
  <2>2. asset \in AssetRows /\ event \in EventRows
    BY <1>0, <2>1 DEF AssetRows, EventRows, AllStatuses, Processing
  <2>3. asset.id = NewId(assets) /\ event.id = NewId(events)
    OBVIOUS
  <2>4. assets' = assets \cup {asset} /\ events' = events \cup {event} /\ log' = log
    BY <1>3 DEF Arrive
  <2> HIDE DEF asset, event
  <2>5. Keyed(assets \cup {asset}) /\ Keyed(events \cup {event})
    BY <2>1, <2>3, KeyedAddition DEF TablesInv
  <2> QED
    BY <2>2, <2>4, <2>5 DEF TablesInv
<1>4. ASSUME NEW t \in RowTimes, NEW row \in assets, Propose(row, t) PROVE TablesInv'
  <2> DEFINE event == [id |-> NewId(events), time |-> t, asset |-> row.id, activity |-> Proposed]
  <2>1. NewId(events) \in Nat /\ \A r \in events : r.id # NewId(events)
    BY NewIdIsNew DEF TablesInv
  <2>2. event \in EventRows
    BY <1>0, <2>1 DEF EventRows, AssetRows, TablesInv
  <2>3. event.id = NewId(events)
    OBVIOUS
  <2>4. events' = events \cup {event} /\ log' = log /\ assets' = assets
    BY <1>4 DEF Propose
  <2> HIDE DEF event
  <2>5. Keyed(events \cup {event})
    BY <2>1, <2>3, KeyedAddition DEF TablesInv
  <2> QED
    BY <2>2, <2>4, <2>5 DEF TablesInv
<1>5. ASSUME NEW row \in assets, NEW status \in Statuses, ChangeStatus(row, status) PROVE TablesInv'
  <2> DEFINE new == [row EXCEPT !.status = status]
             rest == assets \ {row}
  <2>1. assets' = rest \cup {new} /\ log' = log /\ events' = events
    BY <1>5 DEF ChangeStatus
  <2>2. new \in AssetRows /\ new.id = row.id
    BY TablesAssumption DEF TablesInv, AssetRows
  <2>3. Keyed(rest) /\ \A r \in rest : r.id # row.id
    BY FS_RemoveElement DEF TablesInv, Keyed
  <2>4. rest \subseteq AssetRows
    BY DEF TablesInv
  <2> HIDE DEF new, rest
  <2>5. Keyed(rest \cup {new})
    BY <2>2, <2>3, KeyedAddition
  <2> QED
    BY <2>1, <2>2, <2>4, <2>5 DEF TablesInv
<1>6. CASE Begin \/ Execute \/ Retry \/ Tick \/ UNCHANGED vars
  BY <1>1, <1>6 DEF Begin, Execute, Retry, Tick, vars, tables
<1> QED
  BY <1>2, <1>3, <1>4, <1>5, <1>6 DEF Next

\* No step takes a row away, or changes more of one than the status of its asset.
LEMMA RowsRemain ==
  ASSUME TablesInv, [Next]_vars, NEW table \in Tables, NEW r \in From(table)
  PROVE  \E s \in From(table)' : Becomes(r, s, table)
<1>1. /\ log \subseteq log' /\ events \subseteq events'
      /\ \A a \in assets : \E b \in assets' : b.id = a.id /\ b.time = a.time /\ b.modality = a.modality
  <2>1. CASE UNCHANGED tables
    BY <2>1 DEF tables
  <2>2. ASSUME NEW t \in RowTimes, NEW action \in Actions, RecordAccess(action, t) PROVE <1>1!:
    BY <2>2 DEF RecordAccess
  <2>3. ASSUME NEW t \in RowTimes, NEW modality \in Modalities, Arrive(modality, t) PROVE <1>1!:
    BY <2>3 DEF Arrive
  <2>4. ASSUME NEW t \in RowTimes, NEW row \in assets, Propose(row, t) PROVE <1>1!:
    BY <2>4 DEF Propose
  <2>5. ASSUME NEW row \in assets, NEW status \in Statuses, ChangeStatus(row, status) PROVE <1>1!:
    <3> DEFINE new == [row EXCEPT !.status = status]
    <3>1. assets' = (assets \ {row}) \cup {new} /\ log' = log /\ events' = events
      BY <2>5 DEF ChangeStatus
    <3>2. new.id = row.id /\ new.time = row.time /\ new.modality = row.modality
      BY DEF TablesInv, AssetRows
    <3> HIDE DEF new
    <3> QED
      BY <3>1, <3>2
  <2>6. CASE Begin \/ Execute \/ Retry \/ Tick \/ UNCHANGED vars
    BY <2>1, <2>6 DEF Begin, Execute, Retry, Tick, vars, tables
  <2> QED
    BY <2>2, <2>3, <2>4, <2>5, <2>6 DEF Next
<1>2. CASE table = "access_log"
  BY <1>1, <1>2 DEF From, Becomes
<1>3. CASE table = "asset"
  BY <1>1, <1>3 DEF From, Becomes, Fixed
<1>4. CASE table = "asset_lineage"
  <2>1. PICK e \in events : \E a \in assets :
          /\ e.asset = a.id
          /\ r = [id |-> e.id, time |-> e.time, asset |-> e.asset, activity |-> e.activity,
                  status |-> a.status, modality |-> a.modality]
    BY <1>4, JoinedRows DEF From
  <2>2. PICK a \in assets :
          /\ e.asset = a.id
          /\ r = [id |-> e.id, time |-> e.time, asset |-> e.asset, activity |-> e.activity,
                  status |-> a.status, modality |-> a.modality]
    BY <2>1
  <2>3. PICK b \in assets' : b.id = a.id
    BY <1>1
  <2> DEFINE s == [id |-> e.id, time |-> e.time, asset |-> e.asset, activity |-> e.activity,
                   status |-> b.status, modality |-> b.modality]
  <2>4. e \in events' /\ e.asset = b.id
    BY <1>1, <2>2, <2>3
  <2>5. s \in Joined'
    <3> DEFINE P == {q \in events' \X assets' : q[1].asset = q[2].id}
               row(p) == [id |-> p[1].id, time |-> p[1].time, asset |-> p[1].asset, activity |-> p[1].activity,
                          status |-> p[2].status, modality |-> p[2].modality]
    <3>1. Joined' = {row(p) : p \in P}
      BY DEF Joined
    <3>2. <<e, b>> \in P /\ <<e, b>>[1] = e /\ <<e, b>>[2] = b
      BY <2>4
    <3> HIDE DEF P
    <3>3. row(<<e, b>>) \in Joined'
      BY <3>1, <3>2
    <3> QED
      BY <3>2, <3>3
  <2>6. Becomes(r, s, table)
    BY <1>4, <2>2 DEF Becomes, Fixed
  <2> QED
    BY <1>4, <2>5, <2>6 DEF From
<1> QED
  BY <1>2, <1>3, <1>4 DEF Tables

-----------------------------------------------------------------------------
(* What a step does to a count.                                          *)

\* SelectedIsKeyed of all statements at once, for a step.
SelectionsAreKeyed ==
  TablesInv => \A st : IsStatement(st) =>
    Keyed(Selected(st)) /\ Cardinality(Selected(st)) \in Nat /\ Selected(st) \subseteq From(st.table)

\* What a statement selects, at any time.
LEMMA SelectedKeyed == SelectionsAreKeyed
BY SelectedIsKeyed DEF SelectionsAreKeyed

\* What a statement without a bucket counts becomes no less.
LEMMA SizeGrows ==
  ASSUME TablesInv, TablesInv', [Next]_vars, NEW st, IsStatement(st), Growing(st)
  PROVE  Size(st) \in Nat /\ Size(st)' \in Nat /\ Size(st) <= Size(st)'
<1> DEFINE S == Selected(st)
           T == Selected(st)'
<1>1. Keyed(S) /\ Cardinality(S) \in Nat /\ S \subseteq From(st.table)
  BY SelectedIsKeyed
<1>2. Keyed(T) /\ Cardinality(T) \in Nat /\ T \subseteq From(st.table)'
  <2>1. SelectionsAreKeyed'
    BY SelectedKeyed, PTL
  <2> QED
    BY <2>1 DEF SelectionsAreKeyed
<1>3. ASSUME NEW r \in S PROVE \E s \in T : Becomes(r, s, st.table)
  <2>1. PICK s \in From(st.table)' : Becomes(r, s, st.table)
    BY <1>1, RowsRemain DEF IsStatement
  <2>2. /\ r \in From(st.table) /\ Within(r.time, st.period)
        /\ \A c \in DOMAIN st.only : st.only[c] # None => r[c] = st.only[c]
    BY DEF Selected
  <2>3. Within(s.time, st.period)
    BY <2>1, <2>2 DEF Becomes
  <2>4. \A c \in DOMAIN st.only : st.only[c] # None => s[c] = st.only[c]
    BY <2>1, <2>2 DEF Becomes, Growing
  <2>5. s \in T
    BY <2>1, <2>3, <2>4 DEF Selected, Growing, Within
  <2> QED
    BY <2>1, <2>5
<1>4. CASE st.shape = "distinct"
  <2> DEFINE K == {r.asset : r \in S}
             L == {r.asset : r \in T}
             f == [r \in S |-> r.asset]
             g == [r \in T |-> r.asset]
  <2>1. K \in SUBSET L
    <3>1. \A r \in S : \E s \in T : s["asset"] = r["asset"]
      BY <1>3, <1>4 DEF Becomes, Fixed, IsStatement
    <3> HIDE DEF S, T
    <3> QED
      BY <3>1
  <2>2. IsFiniteSet(L)
    <3>1. L = {g[r] : r \in T} /\ DOMAIN g = T /\ IsFiniteSet(T)
      BY <1>2 DEF Keyed
    <3> HIDE DEF L, g, T
    <3> QED
      BY <3>1, ImageIsFinite
  <2>3. Size(st) = Cardinality(K) /\ Size(st)' = Cardinality(L)
    BY <1>4 DEF Size
  <2> HIDE DEF K, L
  <2>4. IsFiniteSet(K) /\ Cardinality(K) <= Cardinality(L)
    BY <2>1, <2>2, FS_Subset
  <2> QED
    BY <2>2, <2>3, <2>4, FS_CardinalityType
<1>5. CASE st.shape # "distinct"
  <2> DEFINE f == [r \in S |-> r.id]
             g == [r \in T |-> r.id]
             K == {f[r] : r \in S}
             L == {g[r] : r \in T}
  <2>1. /\ DOMAIN f = S /\ \A r \in S : f[r] = r.id
        /\ DOMAIN g = T /\ \A r \in T : g[r] = r.id
    OBVIOUS
  <2>2. Size(st) = Cardinality(S) /\ Size(st)' = Cardinality(T)
    BY <1>5 DEF Size
  <2>3. \A r \in S : \E s \in T : s.id = r.id
    BY <1>3 DEF Becomes
  <2> HIDE DEF S, T, f, g
  <2>4. IsFiniteSet(K) /\ Cardinality(K) = Cardinality(S)
    BY <1>1, <2>1, ImageIsAsLarge DEF Keyed
  <2>5. IsFiniteSet(L) /\ Cardinality(L) = Cardinality(T)
    BY <1>2, <2>1, ImageIsAsLarge DEF Keyed
  <2>6. K \in SUBSET L
    BY <2>1, <2>3
  <2> HIDE DEF K, L
  <2>7. Cardinality(K) <= Cardinality(L)
    BY <2>5, <2>6, FS_Subset
  <2> QED
    BY <1>1, <1>2, <2>2, <2>4, <2>5, <2>7
<1> QED
  BY <1>4, <1>5

\* What a statement may return depends on the tables only.
LEMMA ResultsUnchanged ==
  ASSUME UNCHANGED tables, NEW st
  PROVE  Results(st)' = Results(st) /\ Selected(st)' = Selected(st) /\ Size(st)' = Size(st)
<1>1. log' = log /\ assets' = assets /\ events' = events
  BY DEF tables
<1>2. From(st.table)' = From(st.table)
  BY <1>1 DEF From, Joined
<1>3. \A b, row, period : InBucket(b, row, period)' <=> InBucket(b, row, period)
  BY <1>1 DEF InBucket, IsProposed
<1>4. Selected(st)' = Selected(st)
  BY <1>1, <1>2, <1>3 DEF Selected
<1>5. Size(st)' = Size(st)
  BY <1>4 DEF Size
<1>6. Counts(st)' = Counts(st) /\ DistinctAssets(st)' = DistinctAssets(st) /\ PagesOf(st)' = PagesOf(st)
  BY <1>4 DEF Counts, DistinctAssets, PagesOf
<1>7. BucketCounts(st)' = BucketCounts(st)
  BY <1>3, <1>4 DEF BucketCounts
<1> QED
  BY <1>4, <1>5, <1>6, <1>7 DEF Results

-----------------------------------------------------------------------------
(* Lists of statements, and the statements of each report.               *)

\* A function on 1..n.
IsList(s) == Len(s) \in Nat /\ s = [i \in 1..Len(s) |-> s[i]]

\* The columns a statement looks at, with the value each of them has to have.
Wanted(st) == {<<c, st.only[c]>> : c \in {d \in DOMAIN st.only : st.only[d] # None}}

\* Statements that select the same rows: a scope is only looked at for a bucket.
Alike(s, t) ==
  /\ s.table = t.table /\ s.period = t.period
  /\ s.bucket = t.bucket /\ (s.bucket # None => s.scope = t.scope)
  /\ Wanted(s) = Wanted(t)

\* The operators on lists, under a name.
Joins(w, s, t) == w = s \o t
NarrowedTo(st, column, value) == [st EXCEPT !.only = [c \in {column} |-> value]]
InTransaction(st, n) == [st EXCEPT !.tx = n]

Narrows(w, s, column, value) == w = Only(s, column, value)
Runs(w, n, s) == w = Transaction(n, s)

\* Two lists, one after the other.
IsJoin(w, s, t) ==
  /\ IsList(w) /\ Len(w) = Len(s) + Len(t)
  /\ \A i \in 1..Len(s) : w[i] = s[i]
  /\ \A i \in (Len(s) + 1)..(Len(s) + Len(t)) : w[i] = t[i - Len(s)]

\* What the concatenation of two lists is.
LEMMA ListsJoined ==
  ASSUME NEW s, NEW t, IsList(s), IsList(t), NEW w, Joins(w, s, t)
  PROVE  IsJoin(w, s, t)
<1> DEFINE T == {s[i] : i \in 1..Len(s)} \cup {t[i] : i \in 1..Len(t)}
<1>1. s \in [1..Len(s) -> T] /\ t \in [1..Len(t) -> T]
  BY DEF IsList
<1> HIDE DEF T
<1>2. s \in Seq(T) /\ t \in Seq(T)
  BY <1>1 DEF IsList
<1>3. /\ w \in Seq(T) /\ Len(w) = Len(s) + Len(t)
      /\ \A i \in 1..Len(s) : w[i] = s[i]
      /\ \A i \in 1..Len(t) : w[Len(s) + i] = t[i]
  BY <1>2, Concatenated DEF Joins
<1>4. IsList(w)
  <2>1. Len(w) \in Nat /\ DOMAIN w = 1..Len(w) /\ w = [i \in DOMAIN w |-> w[i]]
    BY <1>3
  <2> QED
    BY <2>1 DEF IsList
<1>5. ASSUME NEW i \in (Len(s) + 1)..(Len(s) + Len(t)) PROVE w[i] = t[i - Len(s)]
  <2> DEFINE j == i - Len(s)
  <2>1. j \in 1..Len(t) /\ Len(s) + j = i
    BY DEF IsList
  <2> HIDE DEF j
  <2> QED
    BY <1>3, <2>1 DEF j
<1> QED
  BY <1>3, <1>4, <1>5 DEF IsJoin

\* A list of given length.
LEMMA ListOf ==
  ASSUME NEW s, NEW n \in Nat, DOMAIN s = 1..n, s = [i \in DOMAIN s |-> s[i]]
  PROVE  IsList(s) /\ Len(s) = n
<1> DEFINE T == {s[i] : i \in DOMAIN s}
<1>1. s \in [1..n -> T]
  OBVIOUS
<1>2. s \in Seq(T) /\ Len(s) = n
  BY <1>1
<1> QED
  BY <1>2 DEF IsList

\* Only does not change the length of a list.
LEMMA ListOfColumn ==
  ASSUME NEW s, IsList(s), NEW column, NEW value, NEW w, Narrows(w, s, column, value)
  PROVE  /\ IsList(w) /\ Len(w) = Len(s)
         /\ \A i \in 1..Len(s) : w[i] = NarrowedTo(s[i], column, value)
<1>1. DOMAIN s = 1..Len(s) /\ Len(s) \in Nat
  BY DEF IsList
<1>2. /\ DOMAIN w = 1..Len(s) /\ w = [i \in 1..Len(s) |-> w[i]]
      /\ \A i \in 1..Len(s) : w[i] = NarrowedTo(s[i], column, value)
  BY <1>1 DEF Only, Narrows, NarrowedTo
<1> QED
  BY <1>1, <1>2, ListOf

\* Neither does Transaction.
LEMMA ListOfTransaction ==
  ASSUME NEW s, IsList(s), NEW n, NEW w, Runs(w, n, s)
  PROVE  /\ IsList(w) /\ Len(w) = Len(s)
         /\ \A i \in 1..Len(s) : w[i] = InTransaction(s[i], n)
<1>1. DOMAIN s = 1..Len(s) /\ Len(s) \in Nat
  BY DEF IsList
<1>2. /\ DOMAIN w = 1..Len(s) /\ w = [i \in 1..Len(s) |-> w[i]]
      /\ \A i \in 1..Len(s) : w[i] = InTransaction(s[i], n)
  BY <1>1 DEF Transaction, Runs, InTransaction
<1> QED
  BY <1>1, <1>2, ListOf

\* Short lists.
LEMMA ShortLists ==
  /\ \A x : IsList(<<x>>) /\ Len(<<x>>) = 1 /\ <<x>>[1] = x
  /\ \A x, y : IsList(<<x, y>>) /\ Len(<<x, y>>) = 2 /\ <<x, y>>[1] = x /\ <<x, y>>[2] = y
  /\ \A x, y, z : /\ IsList(<<x, y, z>>) /\ Len(<<x, y, z>>) = 3
                  /\ <<x, y, z>>[1] = x /\ <<x, y, z>>[2] = y /\ <<x, y, z>>[3] = z
<1>1. ASSUME NEW x PROVE IsList(<<x>>) /\ Len(<<x>>) = 1 /\ <<x>>[1] = x
  BY DEF IsList
<1>2. ASSUME NEW x, NEW y PROVE IsList(<<x, y>>) /\ Len(<<x, y>>) = 2 /\ <<x, y>>[1] = x /\ <<x, y>>[2] = y
  BY DEF IsList
<1>3. ASSUME NEW x, NEW y, NEW z
      PROVE  /\ IsList(<<x, y, z>>) /\ Len(<<x, y, z>>) = 3
             /\ <<x, y, z>>[1] = x /\ <<x, y, z>>[2] = y /\ <<x, y, z>>[3] = z
  BY DEF IsList
<1> QED
  BY <1>1, <1>2, <1>3

\* Statements that are alike select the same rows.
LEMMA AlikeSelect ==
  ASSUME NEW s, NEW t, Alike(s, t)
  PROVE  Selected(s) = Selected(t)
<1>1. \A st, row : (\A c \in DOMAIN st.only : st.only[c] # None => row[c] = st.only[c])
                     <=> \A p \in Wanted(st) : row[p[1]] = p[2]
  <2> SUFFICES ASSUME NEW st, NEW row
               PROVE  (\A c \in DOMAIN st.only : st.only[c] # None => row[c] = st.only[c])
                        <=> \A p \in Wanted(st) : row[p[1]] = p[2]
    OBVIOUS
  <2>1. /\ \A c \in DOMAIN st.only : st.only[c] # None => <<c, st.only[c]>> \in Wanted(st)
        /\ \A p \in Wanted(st) : p[1] \in DOMAIN st.only /\ st.only[p[1]] # None /\ p[2] = st.only[p[1]]
    BY DEF Wanted
  <2>2. \A x, y : <<x, y>>[1] = x /\ <<x, y>>[2] = y
    OBVIOUS
  <2>3. ASSUME \A p \in Wanted(st) : row[p[1]] = p[2], NEW c \in DOMAIN st.only, st.only[c] # None
        PROVE  row[c] = st.only[c]
    <3> DEFINE p == <<c, st.only[c]>>
    <3>1. p \in Wanted(st) /\ p[1] = c /\ p[2] = st.only[c]
      BY <2>1, <2>2, <2>3
    <3> HIDE DEF p
    <3> QED
      BY <2>3, <3>1
  <2> QED
    BY <2>1, <2>3
<1>2. \A row : (\A c \in DOMAIN s.only : s.only[c] # None => row[c] = s.only[c])
                 <=> (\A c \in DOMAIN t.only : t.only[c] # None => row[c] = t.only[c])
  BY <1>1 DEF Alike
<1>3. /\ From(s.table) = From(t.table) /\ s.period = t.period
      /\ s.bucket = t.bucket /\ (s.bucket # None => s.scope = t.scope)
  BY DEF Alike
<1> QED
  BY <1>2, <1>3 DEF Selected

\* The overview of the access log.
LEMMA OverviewStatements ==
  ASSUME NEW period, NEW action, NEW interval, NEW s, s = AccessOverview(period, action, interval)
  PROVE  /\ IsList(s) /\ Len(s) = 3
         /\ s[1] = Count("overview", "access_log", period)
         /\ s[2] = By("overview", "access_log", period, "action")
         /\ s[3] = NarrowedTo(Series("overview", "access_log", period, "action", interval), "action", action)
<1> DEFINE u == AccessStats("overview", period)
           series == Series("overview", "access_log", period, "action", interval)
           v == Only(<<series>>, "action", action)
<1>1. IsList(u) /\ Len(u) = 2 /\ u[1] = Count("overview", "access_log", period)
      /\ u[2] = By("overview", "access_log", period, "action")
  BY ShortLists DEF AccessStats
<1>2. Narrows(v, <<series>>, "action", action) /\ Joins(s, u, v)
  BY DEF Narrows, Joins, AccessOverview
<1> HIDE DEF u, series, v
<1>3. IsList(<<series>>) /\ Len(<<series>>) = 1 /\ <<series>>[1] = series
  BY ShortLists
<1>4. IsList(v) /\ Len(v) = 1 /\ v[1] = NarrowedTo(series, "action", action)
  BY <1>2, <1>3, ListOfColumn
<1>5. IsList(s) /\ Len(s) = 3 /\ s[1] = u[1] /\ s[2] = u[2] /\ s[3] = v[1]
  <2>1. IsJoin(s, u, v)
    BY <1>1, <1>2, <1>4, ListsJoined
  <2> QED
    BY <1>1, <1>4, <2>1 DEF IsJoin
<1> QED
  BY <1>1, <1>4, <1>5 DEF series

\* A count and the page after it.
CountOf(as, st) == [st EXCEPT !.as = <<as, "count">>]

\* The statement of a page, the rows of a list of assets, and a count of assets.
PageOf(as, st, limit, offset) ==
  [st EXCEPT !.as = <<as, "rows">>, !.shape = "page", !.limit = limit, !.offset = offset]

AssetRowsOf(as, period, bucket, scope) ==
  [Plain(as, "asset", period) EXCEPT !.bucket = bucket, !.scope = BucketScope(scope, period)]

\* A list is its count and its page.
LEMMA PageStatements ==
  ASSUME NEW as, NEW st, NEW limit, NEW offset
  PROVE  LET s == Page(as, st, limit, offset) IN
         IsList(s) /\ Len(s) = 2 /\ s[1] = CountOf(as, st) /\ s[2] = PageOf(as, st, limit, offset)
BY ShortLists DEF Page, CountOf, PageOf

\* The overview of a modality.
LEMMA ModalityStatements ==
  ASSUME NEW modality, NEW period, NEW interval, NEW limit,
         NEW s, s = ModalityOverview(modality, period, interval, limit),
         NEW st, st = AssetRowsOf("first_page", period, None, "period")
  PROVE  /\ IsList(s) /\ Len(s) = 5
         /\ s[1] = NarrowedTo(Count("detail", "asset", period), "modality", modality)
         /\ s[2] = NarrowedTo(By("detail", "asset", period, "status"), "modality", modality)
         /\ s[3] = NarrowedTo(Series("detail", "asset", period, None, interval), "modality", modality)
         /\ s[4] = NarrowedTo(CountOf("first_page", st), "modality", modality)
         /\ s[5] = NarrowedTo(PageOf("first_page", st, limit, 0), "modality", modality)
<1> DEFINE a == Count("detail", "asset", period)
           b == By("detail", "asset", period, "status")
           c == Series("detail", "asset", period, None, interval)
           u == <<a, b, c>>
           v == Page("first_page", st, limit, 0)
           w == u \o v
<1>1. Narrows(s, w, "modality", modality) /\ Joins(w, u, v)
  BY DEF Narrows, Joins, ModalityOverview, AssetList, AssetRowsOf
<1>2. IsList(u) /\ Len(u) = 3 /\ u[1] = a /\ u[2] = b /\ u[3] = c
  BY ShortLists
<1>3. IsList(v) /\ Len(v) = 2 /\ v[1] = CountOf("first_page", st) /\ v[2] = PageOf("first_page", st, limit, 0)
  BY PageStatements
<1> HIDE DEF a, b, c, u, v, w
<1>4. IsJoin(w, u, v)
  BY <1>1, <1>2, <1>3, ListsJoined
<1>5. IsList(w) /\ Len(w) = 5 /\ w[1] = a /\ w[2] = b /\ w[3] = c /\ w[4] = v[1] /\ w[5] = v[2]
  BY <1>2, <1>3, <1>4 DEF IsJoin
<1>6. /\ IsList(s) /\ Len(s) = Len(w)
      /\ \A i \in 1..Len(w) : s[i] = NarrowedTo(w[i], "modality", modality)
  BY <1>1, <1>5, ListOfColumn
<1> QED
  BY <1>3, <1>5, <1>6 DEF a, b, c

DistinctOf(st) == [st EXCEPT !.shape = "distinct"]

\* The summary of the proposals.
LEMMA RelationStatements ==
  ASSUME NEW period, NEW interval, NEW s, s = RelationSummary(period, interval)
  PROVE  /\ IsList(s) /\ Len(s) = 2
         /\ s[1] = NarrowedTo(DistinctOf(Count("proposed", "asset_lineage", period)), "activity", Proposed)
         /\ s[2] = NarrowedTo(DistinctOf(Series("proposed", "asset_lineage", period, None, interval)),
                           "activity", Proposed)
<1> DEFINE a == DistinctOf(Count("proposed", "asset_lineage", period))
           b == DistinctOf(Series("proposed", "asset_lineage", period, None, interval))
           u == <<a, b>>
<1>1. Narrows(s, u, "activity", Proposed)
  BY DEF Narrows, RelationSummary, DistinctOf
<1>2. IsList(u) /\ Len(u) = 2 /\ u[1] = a /\ u[2] = b
  BY ShortLists
<1> HIDE DEF a, b, u
<1>3. /\ IsList(s) /\ Len(s) = Len(u)
      /\ \A i \in 1..Len(u) : s[i] = NarrowedTo(u[i], "activity", Proposed)
  BY <1>1, <1>2, ListOfColumn
<1> QED
  BY <1>2, <1>3 DEF a, b

\* The feed of the lineage.
LEMMA FeedStatements ==
  ASSUME NEW period, NEW status, NEW limit, NEW offset,
         NEW st, st = Plain("feed", "asset_lineage", period),
         NEW s, s = Only(Page("feed", st, limit, offset), "status", status)
  PROVE  /\ IsList(s) /\ Len(s) = 2
         /\ s[1] = NarrowedTo(CountOf("feed", st), "status", status)
         /\ s[2] = NarrowedTo(PageOf("feed", st, limit, offset), "status", status)
<1> DEFINE u == Page("feed", st, limit, offset)
<1>1. Narrows(s, u, "status", status)
  BY DEF Narrows
<1>2. IsList(u) /\ Len(u) = 2 /\ u[1] = CountOf("feed", st) /\ u[2] = PageOf("feed", st, limit, offset)
  BY PageStatements
<1> HIDE DEF u
<1>3. /\ IsList(s) /\ Len(s) = Len(u)
      /\ \A i \in 1..Len(u) : s[i] = NarrowedTo(u[i], "status", status)
  BY <1>1, <1>2, ListOfColumn
<1> QED
  BY <1>2, <1>3

\* What the snapshot and the reader of the log run.
Snapshot(period, bucket, scope, limit) ==
  AssetStats("stats", period) \o SnapshotBuckets("stats", period)
    \o Transaction(2, AssetList("list", period, bucket, scope, limit))

\* The snapshot of the assets and the list behind one of its figures.
LEMMA SnapshotStatements ==
  ASSUME NEW period, NEW bucket, NEW scope, NEW limit,
         NEW s, s = Snapshot(period, bucket, scope, limit),
         NEW st, st = AssetRowsOf("list", period, bucket, scope)
  PROVE  /\ IsList(s) /\ Len(s) = 6
         /\ s[1] = Count("stats", "asset", period)
         /\ s[2] = By("stats", "asset", period, "status")
         /\ s[3] = By("stats", "asset", period, "modality")
         /\ s[4] = [Plain(<<"stats", "buckets">>, "asset", period) EXCEPT !.shape = "buckets"]
         /\ s[5] = InTransaction(CountOf("list", st), 2)
         /\ s[6] = InTransaction(PageOf("list", st, limit, 0), 2)
<1> DEFINE u == AssetStats("stats", period)
           v == SnapshotBuckets("stats", period)
           uv == u \o v
           p == Page("list", st, limit, 0)
           w == Transaction(2, p)
<1>1. Joins(uv, u, v) /\ Joins(s, uv, w) /\ Runs(w, 2, p)
  BY DEF Joins, Runs, Snapshot, AssetList, AssetRowsOf
<1>2. /\ IsList(u) /\ Len(u) = 3
      /\ u[1] = Count("stats", "asset", period)
      /\ u[2] = By("stats", "asset", period, "status")
      /\ u[3] = By("stats", "asset", period, "modality")
  BY ShortLists DEF AssetStats
<1>3. IsList(v) /\ Len(v) = 1 /\ v[1] = [Plain(<<"stats", "buckets">>, "asset", period) EXCEPT !.shape = "buckets"]
  BY ShortLists DEF SnapshotBuckets
<1>4. IsList(p) /\ Len(p) = 2 /\ p[1] = CountOf("list", st) /\ p[2] = PageOf("list", st, limit, 0)
  BY PageStatements
<1> HIDE DEF u, v, uv, p, w
<1>5. /\ IsList(w) /\ Len(w) = Len(p)
      /\ \A i \in 1..Len(p) : w[i] = InTransaction(p[i], 2)
  BY <1>1, <1>4, ListOfTransaction
<1>6. IsJoin(uv, u, v)
  BY <1>1, <1>2, <1>3, ListsJoined
<1>7. IsList(uv) /\ Len(uv) = 4 /\ uv[1] = u[1] /\ uv[2] = u[2] /\ uv[3] = u[3] /\ uv[4] = v[1]
  BY <1>2, <1>3, <1>6 DEF IsJoin
<1>8. IsJoin(s, uv, w)
  BY <1>1, <1>5, <1>7, ListsJoined
<1>9. /\ IsList(s) /\ Len(s) = 6 /\ s[1] = uv[1] /\ s[2] = uv[2] /\ s[3] = uv[3] /\ s[4] = uv[4]
      /\ s[5] = w[1] /\ s[6] = w[2]
  <2>1. Len(uv) = 4 /\ Len(w) = 2
    BY <1>4, <1>5, <1>7
  <2>2. IsList(s) /\ Len(s) = 6 /\ (\A i \in 1..4 : s[i] = uv[i]) /\ \A i \in 5..6 : s[i] = w[i - 4]
    BY <1>8, <2>1 DEF IsJoin
  <2> QED
    BY <2>2
<1>10. w[1] = InTransaction(p[1], 2) /\ w[2] = InTransaction(p[2], 2)
  BY <1>4, <1>5
<1> QED
  BY <1>2, <1>3, <1>4, <1>7, <1>9, <1>10

LogPages(limit, st) ==
  Transaction(1, Page(0, st, limit, 0)) \o Transaction(2, Page(1, st, limit, limit))
    \o Transaction(3, Page(2, st, limit, 2 * limit))

\* The three pages of the log.
LEMMA LogStatements ==
  ASSUME NEW limit, NEW st, st = Plain("log", "access_log", Ever),
         NEW s, s = LogPages(limit, st)
  PROVE  /\ IsList(s) /\ Len(s) = 6
         /\ s[1] = InTransaction(CountOf(0, st), 1)
         /\ s[2] = InTransaction(PageOf(0, st, limit, 0), 1)
         /\ s[3] = InTransaction(CountOf(1, st), 2)
         /\ s[4] = InTransaction(PageOf(1, st, limit, limit), 2)
         /\ s[5] = InTransaction(CountOf(2, st), 3)
         /\ s[6] = InTransaction(PageOf(2, st, limit, 2 * limit), 3)
<1> DEFINE p == Page(0, st, limit, 0)
           q == Page(1, st, limit, limit)
           r == Page(2, st, limit, 2 * limit)
           u == Transaction(1, p)
           v == Transaction(2, q)
           w == Transaction(3, r)
           uv == u \o v
<1>1. Joins(uv, u, v) /\ Joins(s, uv, w) /\ Runs(u, 1, p) /\ Runs(v, 2, q) /\ Runs(w, 3, r)
  BY DEF Joins, Runs, LogPages
<1>2. IsList(p) /\ Len(p) = 2 /\ p[1] = CountOf(0, st) /\ p[2] = PageOf(0, st, limit, 0)
  BY PageStatements
<1>3. IsList(q) /\ Len(q) = 2 /\ q[1] = CountOf(1, st) /\ q[2] = PageOf(1, st, limit, limit)
  BY PageStatements
<1>4. IsList(r) /\ Len(r) = 2 /\ r[1] = CountOf(2, st) /\ r[2] = PageOf(2, st, limit, 2 * limit)
  BY PageStatements
<1> HIDE DEF p, q, r, u, v, w, uv
<1>5. /\ IsList(u) /\ Len(u) = Len(p) /\ \A i \in 1..Len(p) : u[i] = InTransaction(p[i], 1)
      /\ IsList(v) /\ Len(v) = Len(q) /\ \A i \in 1..Len(q) : v[i] = InTransaction(q[i], 2)
      /\ IsList(w) /\ Len(w) = Len(r) /\ \A i \in 1..Len(r) : w[i] = InTransaction(r[i], 3)
  BY <1>1, <1>2, <1>3, <1>4, ListOfTransaction
<1>6. /\ Len(u) = 2 /\ u[1] = InTransaction(p[1], 1) /\ u[2] = InTransaction(p[2], 1)
      /\ Len(v) = 2 /\ v[1] = InTransaction(q[1], 2) /\ v[2] = InTransaction(q[2], 2)
      /\ Len(w) = 2 /\ w[1] = InTransaction(r[1], 3) /\ w[2] = InTransaction(r[2], 3)
  BY <1>2, <1>3, <1>4, <1>5
<1>7. IsJoin(uv, u, v)
  BY <1>1, <1>5, ListsJoined
<1>8. IsList(uv) /\ Len(uv) = 4 /\ uv[1] = u[1] /\ uv[2] = u[2] /\ uv[3] = v[1] /\ uv[4] = v[2]
  BY <1>6, <1>7 DEF IsJoin
<1>9. IsJoin(s, uv, w)
  BY <1>1, <1>5, <1>8, ListsJoined
<1>10. /\ IsList(s) /\ Len(s) = 6 /\ s[1] = uv[1] /\ s[2] = uv[2] /\ s[3] = uv[3] /\ s[4] = uv[4]
       /\ s[5] = w[1] /\ s[6] = w[2]
  <2>1. Len(uv) = 4 /\ Len(w) = 2
    BY <1>6, <1>8
  <2>2. IsList(s) /\ Len(s) = 6 /\ (\A i \in 1..4 : s[i] = uv[i]) /\ \A i \in 5..6 : s[i] = w[i - 4]
    BY <1>9, <2>1 DEF IsJoin
  <2> QED
    BY <2>2
<1> QED
  BY <1>2, <1>3, <1>4, <1>6, <1>8, <1>10

-----------------------------------------------------------------------------
(* The statements of the dashboard.                                      *)

\* The labels of the dashboard.
Columns == {"total", "action", "activity", "status", "modality", "series"}
Slices == {"alltime", "today", "monthly", "hourly"}

\* The period of a slice.
PeriodOf(slice, t, n) ==
  CASE slice = "alltime" -> Ever
    [] slice = "monthly" -> Months(t, n)
    [] OTHER             -> Today(t)

\* A figure of the dashboard: the area, the slice and the column are its label.
IsFigureOf(st, area, slice, column, period) ==
  /\ st.as = <<<<area, slice>>, column>>
  /\ st.table = TableOf(area) /\ st.period = period /\ st.shape = "counts"
  /\ st.only = <<>> /\ st.bucket = None /\ st.scope = Ever

\* A list of figures of some areas.
AreFigures(s, areas, t, n) ==
  /\ IsList(s)
  /\ \A i \in 1..Len(s) : \E area \in areas : \E slice \in Slices : \E column \in Columns :
       IsFigureOf(s[i], area, slice, column, PeriodOf(slice, t, n))

\* A total comes before the figures that are compared with it.
Heads(l, m) ==
  /\ l[2] = "total" /\ l[1][1] = m[1][1]
  /\ \/ m[2] # "total" /\ m[1][2] = l[1][2]
     \/ l[1][2] = "today" /\ m[1][2] = "hourly"

\* A total comes before what is compared with it.
InOrder(s) == \A i, j \in 1..Len(s) : Heads(s[i].as, s[j].as) => i < j

\* The total and the figures by a column of a period.
AreStats(s, area, slice, period) ==
  /\ IsList(s)
  /\ \A i \in 1..Len(s) : \E column \in Columns :
       IsFigureOf(s[i], area, slice, column, period) /\ (column = "total" <=> i = 1)

\* A label.
LEMMA Labels ==
  ASSUME NEW st, NEW area, NEW slice, NEW column, NEW period, IsFigureOf(st, area, slice, column, period)
  PROVE  st.as[1][1] = area /\ st.as[1][2] = slice /\ st.as[2] = column
BY DEF IsFigureOf

\* The figures of each table.
LEMMA StatsAreStats ==
  ASSUME NEW slice, NEW period
  PROVE  /\ AreStats(AccessStats(<<"access", slice>>, period), "access", slice, period)
         /\ AreStats(LineageStats(<<"lineage", slice>>, period), "lineage", slice, period)
         /\ AreStats(AssetStats(<<"asset", slice>>, period), "asset", slice, period)
<1>1. AreStats(AccessStats(<<"access", slice>>, period), "access", slice, period)
  <2> DEFINE s == AccessStats(<<"access", slice>>, period)
             a == Count(<<"access", slice>>, "access_log", period)
             b == By(<<"access", slice>>, "access_log", period, "action")
  <2>1. IsFigureOf(a, "access", slice, "total", period) /\ IsFigureOf(b, "access", slice, "action", period)
    BY DEF IsFigureOf, Count, By, Plain, TableOf
  <2>2. s = <<a, b>>
    BY DEF AccessStats
  <2> HIDE DEF s, a, b
  <2>3. IsList(s) /\ Len(s) = 2 /\ s[1] = a /\ s[2] = b
    BY <2>2, ShortLists
  <2>4. ASSUME NEW i \in 1..Len(s)
        PROVE  \E column \in Columns :
                 IsFigureOf(s[i], "access", slice, column, period) /\ (column = "total" <=> i = 1)
    <3>1. CASE i = 1
      BY <2>1, <2>3, <3>1 DEF Columns
    <3>2. CASE i = 2
      BY <2>1, <2>3, <3>2 DEF Columns
    <3> QED
      BY <2>3, <3>1, <3>2
  <2> QED
    BY <2>3, <2>4 DEF AreStats, s
<1>2. AreStats(LineageStats(<<"lineage", slice>>, period), "lineage", slice, period)
  <2> DEFINE s == LineageStats(<<"lineage", slice>>, period)
             a == Count(<<"lineage", slice>>, "asset_lineage", period)
             b == By(<<"lineage", slice>>, "asset_lineage", period, "activity")
             c == By(<<"lineage", slice>>, "asset_lineage", period, "status")
  <2>1. /\ IsFigureOf(a, "lineage", slice, "total", period) /\ IsFigureOf(b, "lineage", slice, "activity", period)
        /\ IsFigureOf(c, "lineage", slice, "status", period)
    BY DEF IsFigureOf, Count, By, Plain, TableOf
  <2>2. s = <<a, b, c>>
    BY DEF LineageStats
  <2> HIDE DEF s, a, b, c
  <2>3. IsList(s) /\ Len(s) = 3 /\ s[1] = a /\ s[2] = b /\ s[3] = c
    BY <2>2, ShortLists
  <2>4. ASSUME NEW i \in 1..Len(s)
        PROVE  \E column \in Columns :
                 IsFigureOf(s[i], "lineage", slice, column, period) /\ (column = "total" <=> i = 1)
    <3>1. CASE i = 1
      BY <2>1, <2>3, <3>1 DEF Columns
    <3>2. CASE i = 2
      BY <2>1, <2>3, <3>2 DEF Columns
    <3>3. CASE i = 3
      BY <2>1, <2>3, <3>3 DEF Columns
    <3> QED
      BY <2>3, <3>1, <3>2, <3>3
  <2> QED
    BY <2>3, <2>4 DEF AreStats, s
<1>3. AreStats(AssetStats(<<"asset", slice>>, period), "asset", slice, period)
  <2> DEFINE s == AssetStats(<<"asset", slice>>, period)
             a == Count(<<"asset", slice>>, "asset", period)
             b == By(<<"asset", slice>>, "asset", period, "status")
             c == By(<<"asset", slice>>, "asset", period, "modality")
  <2>1. /\ IsFigureOf(a, "asset", slice, "total", period) /\ IsFigureOf(b, "asset", slice, "status", period)
        /\ IsFigureOf(c, "asset", slice, "modality", period)
    BY DEF IsFigureOf, Count, By, Plain, TableOf
  <2>2. s = <<a, b, c>>
    BY DEF AssetStats
  <2> HIDE DEF s, a, b, c
  <2>3. IsList(s) /\ Len(s) = 3 /\ s[1] = a /\ s[2] = b /\ s[3] = c
    BY <2>2, ShortLists
  <2>4. ASSUME NEW i \in 1..Len(s)
        PROVE  \E column \in Columns :
                 IsFigureOf(s[i], "asset", slice, column, period) /\ (column = "total" <=> i = 1)
    <3>1. CASE i = 1
      BY <2>1, <2>3, <3>1 DEF Columns
    <3>2. CASE i = 2
      BY <2>1, <2>3, <3>2 DEF Columns
    <3>3. CASE i = 3
      BY <2>1, <2>3, <3>3 DEF Columns
    <3> QED
      BY <2>3, <3>1, <3>2, <3>3
  <2> QED
    BY <2>3, <2>4 DEF AreStats, s
<1> QED
  BY <1>1, <1>2, <1>3

\* Where an element of two joined lists is from.
LEMMA JoinPlace ==
  ASSUME NEW s, NEW u, NEW v, IsList(u), IsList(v), IsJoin(s, u, v), NEW i \in 1..Len(s)
  PROVE  \/ i \in 1..Len(u) /\ s[i] = u[i]
         \/ i > Len(u) /\ i - Len(u) \in 1..Len(v) /\ s[i] = v[i - Len(u)]
BY DEF IsJoin, IsList

\* Figures of different areas, one after the other.
LEMMA FiguresJoined ==
  ASSUME NEW s, NEW u, NEW v, NEW A, NEW B, NEW t, NEW n, IsJoin(s, u, v), A \cap B = {},
         AreFigures(u, A, t, n), AreFigures(v, B, t, n), InOrder(u), InOrder(v)
  PROVE  AreFigures(s, A \cup B, t, n) /\ InOrder(s)
<1>1. IsList(u) /\ IsList(v) /\ Len(u) \in Nat /\ Len(v) \in Nat
  BY DEF AreFigures, IsList
<1>2. ASSUME NEW i \in 1..Len(u) PROVE u[i].as[1][1] \in A
  BY Labels DEF AreFigures
<1>3. ASSUME NEW i \in 1..Len(v) PROVE v[i].as[1][1] \in B
  BY Labels DEF AreFigures
<1>4. AreFigures(s, A \cup B, t, n)
  <2>1. IsList(s)
    BY DEF IsJoin
  <2>2. ASSUME NEW i \in 1..Len(s)
        PROVE  \E area \in A \cup B : \E slice \in Slices : \E column \in Columns :
                 IsFigureOf(s[i], area, slice, column, PeriodOf(slice, t, n))
    <3>1. CASE i \in 1..Len(u) /\ s[i] = u[i]
      BY <3>1 DEF AreFigures
    <3>2. CASE i - Len(u) \in 1..Len(v) /\ s[i] = v[i - Len(u)]
      BY <3>2 DEF AreFigures
    <3> QED
      BY <1>1, <3>1, <3>2, JoinPlace
  <2> QED
    BY <2>1, <2>2 DEF AreFigures
<1>5. ASSUME NEW i \in 1..Len(s), NEW j \in 1..Len(s), Heads(s[i].as, s[j].as) PROVE i < j
  <2>0. \/ i \in 1..Len(u) /\ s[i] = u[i]
        \/ i > Len(u) /\ i - Len(u) \in 1..Len(v) /\ s[i] = v[i - Len(u)]
    BY <1>1, JoinPlace
  <2>b. \/ j \in 1..Len(u) /\ s[j] = u[j]
        \/ j > Len(u) /\ j - Len(u) \in 1..Len(v) /\ s[j] = v[j - Len(u)]
    BY <1>1, JoinPlace
  <2>a. s[i].as[1][1] = s[j].as[1][1]
    BY <1>5 DEF Heads
  <2>1. CASE i \in 1..Len(u) /\ s[i] = u[i] /\ j \in 1..Len(u) /\ s[j] = u[j]
    BY <1>5, <2>1 DEF InOrder
  <2>2. CASE i \in 1..Len(u) /\ j > Len(u)
    BY <1>1, <2>2
  <2>3. CASE /\ i - Len(u) \in 1..Len(v) /\ s[i] = v[i - Len(u)]
             /\ j \in 1..Len(u) /\ s[j] = u[j]
    BY <1>2, <1>3, <2>3, <2>a
  <2>4. CASE /\ i - Len(u) \in 1..Len(v) /\ s[i] = v[i - Len(u)]
             /\ j - Len(u) \in 1..Len(v) /\ s[j] = v[j - Len(u)]
    <3>1. i - Len(u) < j - Len(u)
      BY <1>5, <2>4 DEF InOrder
    <3> QED
      BY <1>1, <3>1
  <2> QED
    BY <2>0, <2>b, <2>1, <2>2, <2>3, <2>4
<1> QED
  BY <1>4, <1>5 DEF InOrder

\* The figures of an area.
LEMMA SliceStatements ==
  ASSUME NEW area, NEW t, NEW n, NEW column, NEW interval, NEW u, NEW v, NEW uv, NEW m, NEW s,
         AreStats(u, area, "alltime", Ever), AreStats(v, area, "today", Today(t)),
         m = <<Series(<<area, "monthly">>, TableOf(area), Months(t, n), column, interval),
               Series(<<area, "hourly">>, TableOf(area), Today(t), column, "hour")>>,
         Joins(uv, u, v), Joins(s, uv, m)
  PROVE  AreFigures(s, {area}, t, n) /\ InOrder(s)
<1>1. IsList(u) /\ IsList(v) /\ Len(u) \in Nat /\ Len(v) \in Nat
  BY DEF AreStats, IsList
<1>2. /\ IsList(m) /\ Len(m) = 2
      /\ IsFigureOf(m[1], area, "monthly", "series", Months(t, n))
      /\ IsFigureOf(m[2], area, "hourly", "series", Today(t))
  <2> DEFINE a == Series(<<area, "monthly">>, TableOf(area), Months(t, n), column, interval)
             b == Series(<<area, "hourly">>, TableOf(area), Today(t), column, "hour")
  <2>1. IsFigureOf(a, area, "monthly", "series", Months(t, n)) /\ IsFigureOf(b, area, "hourly", "series", Today(t))
    BY DEF IsFigureOf, Series, Plain
  <2>2. m = <<a, b>>
    OBVIOUS
  <2> HIDE DEF a, b
  <2>3. IsList(<<a, b>>) /\ Len(<<a, b>>) = 2 /\ <<a, b>>[1] = a /\ <<a, b>>[2] = b
    BY ShortLists
  <2> QED
    BY <2>1, <2>2, <2>3
<1>3. IsJoin(uv, u, v) /\ IsList(uv)
  BY <1>1, ListsJoined DEF IsJoin
<1>4. IsJoin(s, uv, m) /\ IsList(s)
  <2>1. IsJoin(s, uv, m)
    <3>1. IsList(uv) /\ IsList(m)
      BY <1>2, <1>3
    <3> QED
      BY <3>1, ListsJoined
  <2> QED
    BY <2>1 DEF IsJoin
<1>5. Len(uv) = Len(u) + Len(v)
  BY <1>3 DEF IsJoin
\* Its place says what an element is.
<1> DEFINE First(i) == i \in 1..Len(u) /\ \E c \in Columns :
                         IsFigureOf(s[i], area, "alltime", c, Ever) /\ (c = "total" <=> i = 1)
           Second(i) == i - Len(u) \in 1..Len(v) /\ \E c \in Columns :
                          IsFigureOf(s[i], area, "today", c, Today(t)) /\ (c = "total" <=> i = Len(u) + 1)
           Third(i) == i > Len(u) + Len(v) /\ \/ IsFigureOf(s[i], area, "monthly", "series", Months(t, n))
                                              \/ IsFigureOf(s[i], area, "hourly", "series", Today(t))
<1>6. ASSUME NEW i \in 1..Len(s) PROVE First(i) \/ Second(i) \/ Third(i)
  <2>1. \/ i \in 1..Len(uv) /\ s[i] = uv[i]
        \/ i > Len(uv) /\ i - Len(uv) \in 1..Len(m) /\ s[i] = m[i - Len(uv)]
    BY <1>2, <1>3, <1>4, JoinPlace
  <2>2. CASE i \in 1..Len(uv) /\ s[i] = uv[i]
    <3>1. \/ i \in 1..Len(u) /\ uv[i] = u[i]
          \/ i > Len(u) /\ i - Len(u) \in 1..Len(v) /\ uv[i] = v[i - Len(u)]
      BY <1>1, <1>3, <2>2, JoinPlace
    <3>2. CASE i \in 1..Len(u) /\ uv[i] = u[i]
      BY <2>2, <3>2 DEF AreStats
    <3>3. CASE i > Len(u) /\ i - Len(u) \in 1..Len(v) /\ uv[i] = v[i - Len(u)]
      <4>1. PICK c \in Columns :
              IsFigureOf(v[i - Len(u)], area, "today", c, Today(t)) /\ (c = "total" <=> i - Len(u) = 1)
        BY <3>3 DEF AreStats
      <4>2. i - Len(u) = 1 <=> i = Len(u) + 1
        BY <1>1
      <4> QED
        BY <2>2, <3>3, <4>1, <4>2
    <3> QED
      BY <3>1, <3>2, <3>3
  <2>3. CASE i > Len(uv) /\ i - Len(uv) \in 1..Len(m) /\ s[i] = m[i - Len(uv)]
    <3>1. i - Len(uv) = 1 \/ i - Len(uv) = 2
      BY <1>2, <2>3
    <3> QED
      BY <1>2, <1>5, <2>3, <3>1
  <2> QED
    BY <2>1, <2>2, <2>3
<1>7. AreFigures(s, {area}, t, n)
  <2>1. ASSUME NEW i \in 1..Len(s)
        PROVE  \E slice \in Slices : \E c \in Columns : IsFigureOf(s[i], area, slice, c, PeriodOf(slice, t, n))
    <3>1. /\ PeriodOf("alltime", t, n) = Ever /\ PeriodOf("today", t, n) = Today(t)
          /\ PeriodOf("monthly", t, n) = Months(t, n) /\ PeriodOf("hourly", t, n) = Today(t)
          /\ {"alltime", "today", "monthly", "hourly"} \subseteq Slices /\ "series" \in Columns
      BY DEF PeriodOf, Slices, Columns
    <3>2. CASE First(i)
      BY <3>1, <3>2
    <3>3. CASE Second(i)
      BY <3>1, <3>3
    <3>4. CASE Third(i)
      BY <3>1, <3>4
    <3> QED
      BY <1>6, <3>2, <3>3, <3>4
  <2> QED
    BY <1>4, <2>1 DEF AreFigures
<1>8. ASSUME NEW i \in 1..Len(s) PROVE
        /\ First(i) => s[i].as[1][2] = "alltime" /\ (s[i].as[2] = "total" <=> i = 1) /\ i <= Len(u)
        /\ Second(i) => s[i].as[1][2] = "today" /\ (s[i].as[2] = "total" <=> i = Len(u) + 1) /\ i <= Len(u) + Len(v)
        /\ Third(i) => s[i].as[1][2] \in {"monthly", "hourly"} /\ s[i].as[2] = "series" /\ i > Len(u) + Len(v)
  <2>1. First(i) => s[i].as[1][2] = "alltime" /\ (s[i].as[2] = "total" <=> i = 1) /\ i <= Len(u)
    BY <1>1, Labels
  <2>2. Second(i) => s[i].as[1][2] = "today" /\ (s[i].as[2] = "total" <=> i = Len(u) + 1) /\ i <= Len(u) + Len(v)
    BY <1>1, Labels
  <2>3. Third(i) => s[i].as[1][2] \in {"monthly", "hourly"} /\ s[i].as[2] = "series" /\ i > Len(u) + Len(v)
    BY Labels
  <2> QED
    BY <2>1, <2>2, <2>3
<1>9. ASSUME NEW i \in 1..Len(s), NEW j \in 1..Len(s), Heads(s[i].as, s[j].as) PROVE i < j
  <2> DEFINE si == s[i].as[1][2]
             sj == s[j].as[1][2]
             ci == s[i].as[2]
             cj == s[j].as[2]
  <2>1. ci = "total" /\ ((cj # "total" /\ sj = si) \/ (si = "today" /\ sj = "hourly"))
    BY <1>9 DEF Heads
  <2>2. i \in Nat /\ j \in Nat /\ i >= 1 /\ j >= 1
    BY <1>4 DEF IsList
  <2>3. Second(j) => j >= Len(u) + 1
    BY <1>1, <2>2
  <2> HIDE DEF si, sj, ci, cj
  <2>4. CASE First(i)
    <3>1. si = "alltime" /\ i = 1
      BY <1>8, <2>1, <2>4 DEF si, ci
    <3>2. cj # "total" /\ sj = "alltime"
      BY <2>1, <3>1
    <3>3. First(j)
      BY <1>6, <1>8, <3>2 DEF sj
    <3>4. j # 1
      BY <1>8, <3>2, <3>3 DEF cj
    <3> QED
      BY <2>2, <3>1, <3>4
  <2>5. CASE Second(i)
    <3>1. si = "today" /\ i = Len(u) + 1
      BY <1>8, <2>1, <2>5 DEF si, ci
    <3>2. CASE cj # "total" /\ sj = "today"
      <4>1. Second(j)
        BY <1>6, <1>8, <3>2 DEF sj
      <4>2. j # Len(u) + 1
        BY <1>8, <3>2, <4>1 DEF cj
      <4> QED
        BY <1>1, <2>2, <2>3, <3>1, <4>1, <4>2
    <3>3. CASE sj = "hourly"
      <4>1. Third(j)
        BY <1>6, <1>8, <3>3 DEF sj
      <4>2. j > Len(u) + Len(v) /\ i <= Len(u) + Len(v)
        BY <1>8, <2>5, <4>1
      <4> QED
        BY <1>1, <2>2, <4>2
    <3> QED
      BY <2>1, <3>1, <3>2, <3>3
  <2>6. CASE Third(i)
    BY <1>8, <2>1, <2>6 DEF ci
  <2> QED
    BY <1>6, <2>4, <2>5, <2>6
<1> QED
  BY <1>7, <1>9 DEF InOrder

\* The figures of the dashboard.
LEMMA DashboardStatements ==
  ASSUME NEW t, NEW n, NEW interval, NEW s, s = Dashboard(t, n, interval)
  PROVE  AreFigures(s, Areas, t, n) /\ InOrder(s)
<1> DEFINE m(area, column) == <<Series(<<area, "monthly">>, TableOf(area), Months(t, n), column, interval),
                                Series(<<area, "hourly">>, TableOf(area), Today(t), column, "hour")>>
           u1 == AccessStats(<<"access", "alltime">>, Ever)
           v1 == AccessStats(<<"access", "today">>, Today(t))
           a == (u1 \o v1) \o m("access", "action")
           u2 == LineageStats(<<"lineage", "alltime">>, Ever)
           v2 == LineageStats(<<"lineage", "today">>, Today(t))
           b == (u2 \o v2) \o m("lineage", "activity")
           u3 == AssetStats(<<"asset", "alltime">>, Ever)
           v3 == AssetStats(<<"asset", "today">>, Today(t))
           c == (u3 \o v3) \o m("asset", "modality")
           ab == a \o b
<1>0. TableOf("access") = "access_log" /\ TableOf("lineage") = "asset_lineage" /\ TableOf("asset") = "asset"
  BY DEF TableOf
<1>1. Joins(ab, a, b) /\ Joins(s, ab, c)
  BY <1>0 DEF Joins, Dashboard, Slice
<1>2. AreFigures(a, {"access"}, t, n) /\ InOrder(a)
  <2> DEFINE uv == u1 \o v1
  <2>1. Joins(uv, u1, v1) /\ Joins(a, uv, m("access", "action"))
    BY DEF Joins
  <2>2. AreStats(u1, "access", "alltime", Ever) /\ AreStats(v1, "access", "today", Today(t))
    BY StatsAreStats
  <2> HIDE DEF u1, v1, a, uv
  <2> QED
    BY <2>1, <2>2, SliceStatements
<1>3. AreFigures(b, {"lineage"}, t, n) /\ InOrder(b)
  <2> DEFINE uv == u2 \o v2
  <2>1. Joins(uv, u2, v2) /\ Joins(b, uv, m("lineage", "activity"))
    BY DEF Joins
  <2>2. AreStats(u2, "lineage", "alltime", Ever) /\ AreStats(v2, "lineage", "today", Today(t))
    BY StatsAreStats
  <2> HIDE DEF u2, v2, b, uv
  <2> QED
    BY <2>1, <2>2, SliceStatements
<1>4. AreFigures(c, {"asset"}, t, n) /\ InOrder(c)
  <2> DEFINE uv == u3 \o v3
  <2>1. Joins(uv, u3, v3) /\ Joins(c, uv, m("asset", "modality"))
    BY DEF Joins
  <2>2. AreStats(u3, "asset", "alltime", Ever) /\ AreStats(v3, "asset", "today", Today(t))
    BY StatsAreStats
  <2> HIDE DEF u3, v3, c, uv
  <2> QED
    BY <2>1, <2>2, SliceStatements
<1> HIDE DEF a, b, c, ab
<1>5. IsList(a) /\ IsList(b) /\ IsList(c)
  BY <1>2, <1>3, <1>4 DEF AreFigures
<1>6. IsJoin(ab, a, b) /\ IsList(ab)
  BY <1>1, <1>5, ListsJoined DEF IsJoin
<1>7. AreFigures(ab, {"access", "lineage"}, t, n) /\ InOrder(ab)
  <2>1. {"access"} \cap {"lineage"} = {} /\ {"access"} \cup {"lineage"} = {"access", "lineage"}
    OBVIOUS
  <2> QED
    BY <1>2, <1>3, <1>6, <2>1, FiguresJoined
<1>8. IsJoin(s, ab, c)
  BY <1>1, <1>5, <1>6, ListsJoined
<1> QED
  <2>1. {"access", "lineage"} \cap {"asset"} = {} /\ {"access", "lineage"} \cup {"asset"} = Areas
    BY DEF Areas
  <2> QED
    BY <1>4, <1>7, <1>8, <2>1, FiguresJoined

-----------------------------------------------------------------------------
(* The fields of the statements.                                         *)

\* The fields of a statement.
Shaped(st) ==
  DOMAIN st = {"as", "tx", "table", "period", "shape", "only", "bucket", "scope", "by", "interval",
               "limit", "offset"}

\* What a statement asks, its columns and its transaction apart.
IsOf(st, as, table, period, shape, only, bucket, scope) ==
  /\ Shaped(st)
  /\ st.as = as /\ st.table = table /\ st.period = period /\ st.shape = shape /\ st.only = only
  /\ st.bucket = bucket /\ st.scope = scope

\* Its columns, its cut and its narrowing.
IsBy(st, column, interval) == st.by = column /\ st.interval = interval
IsCut(st, limit, offset) == st.limit = limit /\ st.offset = offset
OnlyColumn(column, value) == [c \in {column} |-> value]

\* What each of the constructors makes of them.
LEMMA FigureFields ==
  ASSUME NEW as, NEW table, NEW period, NEW column, NEW interval
  PROVE  /\ IsOf(Count(as, table, period), <<as, "total">>, table, period, "counts", <<>>, None, Ever)
         /\ IsBy(Count(as, table, period), None, None)
         /\ IsOf(By(as, table, period, column), <<as, column>>, table, period, "counts", <<>>, None, Ever)
         /\ IsBy(By(as, table, period, column), column, None)
         /\ IsOf(Series(as, table, period, column, interval), <<as, "series">>, table, period, "counts", <<>>,
                 None, Ever)
         /\ IsBy(Series(as, table, period, column, interval), column, interval)
BY DEF IsOf, IsBy, Shaped, Count, By, Series, Plain

\* A statement narrowed to a value of a column.
LEMMA NarrowedFields ==
  ASSUME NEW st, NEW as, NEW table, NEW period, NEW shape, NEW only, NEW bucket, NEW scope,
         IsOf(st, as, table, period, shape, only, bucket, scope), NEW column, NEW value
  PROVE  LET r == NarrowedTo(st, column, value) IN
         /\ IsOf(r, as, table, period, shape, OnlyColumn(column, value), bucket, scope)
         /\ IsBy(r, st.by, st.interval) /\ IsCut(r, st.limit, st.offset)
BY DEF IsOf, IsBy, IsCut, Shaped, NarrowedTo, OnlyColumn

\* A statement of a transaction.
LEMMA TransactionFields ==
  ASSUME NEW st, NEW as, NEW table, NEW period, NEW shape, NEW only, NEW bucket, NEW scope,
         IsOf(st, as, table, period, shape, only, bucket, scope), NEW n
  PROVE  LET r == InTransaction(st, n) IN
         IsOf(r, as, table, period, shape, only, bucket, scope) /\ IsCut(r, st.limit, st.offset)
BY DEF IsOf, IsCut, Shaped, InTransaction

\* A statement that counts assets.
LEMMA DistinctFields ==
  ASSUME NEW st, NEW as, NEW table, NEW period, NEW only, NEW bucket, NEW scope,
         IsOf(st, as, table, period, "counts", only, bucket, scope)
  PROVE  LET r == DistinctOf(st) IN
         IsOf(r, as, table, period, "distinct", only, bucket, scope) /\ IsBy(r, st.by, st.interval)
BY DEF IsOf, IsBy, Shaped, DistinctOf

\* The count and the page of the same rows.
LEMMA PageFields ==
  ASSUME NEW st, NEW x, NEW table, NEW period, NEW shape, NEW only, NEW bucket, NEW scope,
         IsOf(st, x, table, period, shape, only, bucket, scope), NEW as, NEW limit, NEW offset
  PROVE  /\ IsOf(CountOf(as, st), <<as, "count">>, table, period, shape, only, bucket, scope)
         /\ IsOf(PageOf(as, st, limit, offset), <<as, "rows">>, table, period, "page", only, bucket, scope)
         /\ IsCut(PageOf(as, st, limit, offset), limit, offset)
BY DEF IsOf, IsCut, Shaped, CountOf, PageOf

\* The count and the first page of the assets.
LEMMA AssetListFields ==
  ASSUME NEW as, NEW period, NEW bucket, NEW scope, NEW limit,
         NEW st, st = AssetRowsOf(as, period, bucket, scope), NEW b, b = BucketScope(scope, period)
  PROVE  /\ IsOf(CountOf(as, st), <<as, "count">>, "asset", period, "counts", <<>>, bucket, b)
         /\ IsOf(PageOf(as, st, limit, 0), <<as, "rows">>, "asset", period, "page", <<>>, bucket, b)
         /\ IsCut(PageOf(as, st, limit, 0), limit, 0)
<1>1. IsOf(st, as, "asset", period, "counts", <<>>, bucket, b)
  BY DEF IsOf, Shaped, AssetRowsOf, Plain
<1> QED
  BY <1>1, PageFields

\* The statements of each report.
LEMMA OverviewFields ==
  ASSUME NEW period, NEW action, NEW interval, NEW s, s = AccessOverview(period, action, interval)
  PROVE  /\ IsList(s) /\ Len(s) = 3
         /\ IsOf(s[1], <<"overview", "total">>, "access_log", period, "counts", <<>>, None, Ever)
         /\ IsOf(s[2], <<"overview", "action">>, "access_log", period, "counts", <<>>, None, Ever)
         /\ IsBy(s[2], "action", None)
         /\ IsOf(s[3], <<"overview", "series">>, "access_log", period, "counts",
                 OnlyColumn("action", action), None, Ever)
<1>1. /\ IsList(s) /\ Len(s) = 3
      /\ s[1] = Count("overview", "access_log", period)
      /\ s[2] = By("overview", "access_log", period, "action")
      /\ s[3] = NarrowedTo(Series("overview", "access_log", period, "action", interval), "action", action)
  BY OverviewStatements
<1> QED
  BY <1>1, FigureFields, NarrowedFields

\* The overview of a modality.
LEMMA ModalityFields ==
  ASSUME NEW modality, NEW period, NEW interval, NEW limit,
         NEW s, s = ModalityOverview(modality, period, interval, limit),
         NEW only, only = OnlyColumn("modality", modality), NEW b, b = BucketScope("period", period)
  PROVE  /\ IsList(s) /\ Len(s) = 5
         /\ IsOf(s[1], <<"detail", "total">>, "asset", period, "counts", only, None, Ever)
         /\ IsOf(s[2], <<"detail", "status">>, "asset", period, "counts", only, None, Ever)
         /\ IsOf(s[3], <<"detail", "series">>, "asset", period, "counts", only, None, Ever)
         /\ IsOf(s[4], <<"first_page", "count">>, "asset", period, "counts", only, None, b)
         /\ IsOf(s[5], <<"first_page", "rows">>, "asset", period, "page", only, None, b) /\ IsCut(s[5], limit, 0)
<1> DEFINE st == AssetRowsOf("first_page", period, None, "period")
<1>1. /\ IsList(s) /\ Len(s) = 5
      /\ s[1] = NarrowedTo(Count("detail", "asset", period), "modality", modality)
      /\ s[2] = NarrowedTo(By("detail", "asset", period, "status"), "modality", modality)
      /\ s[3] = NarrowedTo(Series("detail", "asset", period, None, interval), "modality", modality)
      /\ s[4] = NarrowedTo(CountOf("first_page", st), "modality", modality)
      /\ s[5] = NarrowedTo(PageOf("first_page", st, limit, 0), "modality", modality)
  BY ModalityStatements
<1>2. /\ IsOf(CountOf("first_page", st), <<"first_page", "count">>, "asset", period, "counts", <<>>, None, b)
      /\ IsOf(PageOf("first_page", st, limit, 0), <<"first_page", "rows">>, "asset", period, "page", <<>>, None, b)
      /\ IsCut(PageOf("first_page", st, limit, 0), limit, 0)
  BY AssetListFields
<1> HIDE DEF st
<1>3. /\ IsOf(s[1], <<"detail", "total">>, "asset", period, "counts", only, None, Ever)
      /\ IsOf(s[2], <<"detail", "status">>, "asset", period, "counts", only, None, Ever)
      /\ IsOf(s[3], <<"detail", "series">>, "asset", period, "counts", only, None, Ever)
  BY <1>1, FigureFields, NarrowedFields
<1>4. IsOf(s[4], <<"first_page", "count">>, "asset", period, "counts", only, None, b)
  BY <1>1, <1>2, NarrowedFields
<1>5. IsOf(s[5], <<"first_page", "rows">>, "asset", period, "page", only, None, b) /\ IsCut(s[5], limit, 0)
  <2>1. /\ IsOf(s[5], <<"first_page", "rows">>, "asset", period, "page", only, None, b)
        /\ IsCut(s[5], PageOf("first_page", st, limit, 0).limit, PageOf("first_page", st, limit, 0).offset)
    BY <1>1, <1>2, NarrowedFields
  <2> QED
    BY <1>2, <2>1 DEF IsCut
<1> QED
  BY <1>1, <1>3, <1>4, <1>5

\* The summary of the proposals.
LEMMA RelationFields ==
  ASSUME NEW period, NEW interval, NEW s, s = RelationSummary(period, interval),
         NEW only, only = OnlyColumn("activity", Proposed)
  PROVE  /\ IsList(s) /\ Len(s) = 2
         /\ IsOf(s[1], <<"proposed", "total">>, "asset_lineage", period, "distinct", only, None, Ever)
         /\ IsBy(s[1], None, None)
         /\ IsOf(s[2], <<"proposed", "series">>, "asset_lineage", period, "distinct", only, None, Ever)
<1> DEFINE a == Count("proposed", "asset_lineage", period)
           b == Series("proposed", "asset_lineage", period, None, interval)
<1>1. /\ IsList(s) /\ Len(s) = 2
      /\ s[1] = NarrowedTo(DistinctOf(a), "activity", Proposed)
      /\ s[2] = NarrowedTo(DistinctOf(b), "activity", Proposed)
  BY RelationStatements
<1>2. /\ IsOf(a, <<"proposed", "total">>, "asset_lineage", period, "counts", <<>>, None, Ever) /\ IsBy(a, None, None)
      /\ IsOf(b, <<"proposed", "series">>, "asset_lineage", period, "counts", <<>>, None, Ever)
  BY FigureFields
<1> HIDE DEF a, b
<1>3. /\ IsOf(DistinctOf(a), <<"proposed", "total">>, "asset_lineage", period, "distinct", <<>>, None, Ever)
      /\ IsBy(DistinctOf(a), None, None)
      /\ IsOf(DistinctOf(b), <<"proposed", "series">>, "asset_lineage", period, "distinct", <<>>, None, Ever)
  BY <1>2, DistinctFields DEF IsBy
<1> QED
  BY <1>1, <1>3, NarrowedFields DEF IsBy

\* The feed of the lineage.
LEMMA FeedFields ==
  ASSUME NEW period, NEW status, NEW limit, NEW offset,
         NEW s, s = Only(Page("feed", Plain("feed", "asset_lineage", period), limit, offset), "status", status),
         NEW only, only = OnlyColumn("status", status)
  PROVE  /\ IsList(s) /\ Len(s) = 2
         /\ IsOf(s[1], <<"feed", "count">>, "asset_lineage", period, "counts", only, None, Ever)
         /\ IsOf(s[2], <<"feed", "rows">>, "asset_lineage", period, "page", only, None, Ever)
         /\ IsCut(s[2], limit, offset)
<1> DEFINE st == Plain("feed", "asset_lineage", period)
<1>1. /\ IsList(s) /\ Len(s) = 2
      /\ s[1] = NarrowedTo(CountOf("feed", st), "status", status)
      /\ s[2] = NarrowedTo(PageOf("feed", st, limit, offset), "status", status)
  BY FeedStatements
<1>2. IsOf(st, "feed", "asset_lineage", period, "counts", <<>>, None, Ever)
  BY DEF IsOf, Shaped, Plain
<1> HIDE DEF st
<1>3. /\ IsOf(CountOf("feed", st), <<"feed", "count">>, "asset_lineage", period, "counts", <<>>, None, Ever)
      /\ IsOf(PageOf("feed", st, limit, offset), <<"feed", "rows">>, "asset_lineage", period, "page", <<>>, None, Ever)
      /\ IsCut(PageOf("feed", st, limit, offset), limit, offset)
  BY <1>2, PageFields
<1> QED
  BY <1>1, <1>3, NarrowedFields DEF IsCut

\* The snapshot: its figures, its buckets and the list behind one.
LEMMA SnapshotFields ==
  ASSUME NEW period, NEW bucket, NEW scope, NEW limit, NEW s, s = Snapshot(period, bucket, scope, limit),
         NEW b, b = BucketScope(scope, period)
  PROVE  /\ IsList(s) /\ Len(s) = 6
         /\ IsOf(s[1], <<"stats", "total">>, "asset", period, "counts", <<>>, None, Ever)
         /\ IsOf(s[2], <<"stats", "status">>, "asset", period, "counts", <<>>, None, Ever)
         /\ IsOf(s[3], <<"stats", "modality">>, "asset", period, "counts", <<>>, None, Ever)
         /\ IsOf(s[4], <<"stats", "buckets">>, "asset", period, "buckets", <<>>, None, Ever)
         /\ IsOf(s[5], <<"list", "count">>, "asset", period, "counts", <<>>, bucket, b)
         /\ IsOf(s[6], <<"list", "rows">>, "asset", period, "page", <<>>, bucket, b) /\ IsCut(s[6], limit, 0)
<1> DEFINE st == AssetRowsOf("list", period, bucket, scope)
           shown == [Plain(<<"stats", "buckets">>, "asset", period) EXCEPT !.shape = "buckets"]
<1>1. /\ IsList(s) /\ Len(s) = 6
      /\ s[1] = Count("stats", "asset", period)
      /\ s[2] = By("stats", "asset", period, "status")
      /\ s[3] = By("stats", "asset", period, "modality")
      /\ s[4] = shown
      /\ s[5] = InTransaction(CountOf("list", st), 2)
      /\ s[6] = InTransaction(PageOf("list", st, limit, 0), 2)
  BY SnapshotStatements
<1>2. /\ IsOf(CountOf("list", st), <<"list", "count">>, "asset", period, "counts", <<>>, bucket, b)
      /\ IsOf(PageOf("list", st, limit, 0), <<"list", "rows">>, "asset", period, "page", <<>>, bucket, b)
      /\ IsCut(PageOf("list", st, limit, 0), limit, 0)
  BY AssetListFields
<1>3. IsOf(shown, <<"stats", "buckets">>, "asset", period, "buckets", <<>>, None, Ever)
  BY DEF IsOf, Shaped, Plain
<1> HIDE DEF st, shown
<1>4. /\ IsOf(s[5], <<"list", "count">>, "asset", period, "counts", <<>>, bucket, b)
      /\ IsOf(s[6], <<"list", "rows">>, "asset", period, "page", <<>>, bucket, b) /\ IsCut(s[6], limit, 0)
  BY <1>1, <1>2, TransactionFields DEF IsCut
<1> QED
  BY <1>1, <1>3, <1>4, FigureFields

\* The statements of a reader of the log.
IsLogCount(st, as) == IsOf(st, as, "access_log", Ever, "counts", <<>>, None, Ever)
IsLogPage(st, as, limit, offset) ==
  IsOf(st, as, "access_log", Ever, "page", <<>>, None, Ever) /\ IsCut(st, limit, offset)

\* Three pages of the log, each after a count.
LEMMA LogFields ==
  ASSUME NEW limit, NEW s, s = LogPages(limit, Plain("log", "access_log", Ever))
  PROVE  /\ IsList(s) /\ Len(s) = 6
         /\ IsLogCount(s[1], <<0, "count">>) /\ IsLogPage(s[2], <<0, "rows">>, limit, 0)
         /\ IsLogCount(s[3], <<1, "count">>) /\ IsLogPage(s[4], <<1, "rows">>, limit, limit)
         /\ IsLogCount(s[5], <<2, "count">>) /\ IsLogPage(s[6], <<2, "rows">>, limit, 2 * limit)
<1> DEFINE st == Plain("log", "access_log", Ever)
<1>1. /\ IsList(s) /\ Len(s) = 6
      /\ s[1] = InTransaction(CountOf(0, st), 1)
      /\ s[2] = InTransaction(PageOf(0, st, limit, 0), 1)
      /\ s[3] = InTransaction(CountOf(1, st), 2)
      /\ s[4] = InTransaction(PageOf(1, st, limit, limit), 2)
      /\ s[5] = InTransaction(CountOf(2, st), 3)
      /\ s[6] = InTransaction(PageOf(2, st, limit, 2 * limit), 3)
  BY LogStatements
<1>2. IsOf(st, "log", "access_log", Ever, "counts", <<>>, None, Ever)
  BY DEF IsOf, Shaped, Plain
<1> HIDE DEF st
<1>3. ASSUME NEW as, NEW n PROVE IsLogCount(InTransaction(CountOf(as, st), n), <<as, "count">>)
  <2>1. IsLogCount(CountOf(as, st), <<as, "count">>)
    BY <1>2, PageFields DEF IsLogCount
  <2> QED
    BY <2>1, TransactionFields DEF IsLogCount
<1>4. ASSUME NEW as, NEW n, NEW offset
      PROVE  IsLogPage(InTransaction(PageOf(as, st, limit, offset), n), <<as, "rows">>, limit, offset)
  <2>1. IsLogPage(PageOf(as, st, limit, offset), <<as, "rows">>, limit, offset)
    BY <1>2, PageFields DEF IsLogPage
  <2> QED
    BY <2>1, TransactionFields DEF IsLogPage, IsCut
<1> QED
  BY <1>1, <1>3, <1>4

-----------------------------------------------------------------------------
(* The scripts.                                                          *)

\* Two statements that count the same things.
SameKind(s, t) == (s.shape = "distinct" <=> t.shape = "distinct") /\ t.shape # "page"

\* A page comes after the count of the same rows.
PagesFollow(s) ==
  \A i \in 1..Len(s) : s[i].shape = "page" =>
    i - 1 \in 1..Len(s) /\ s[i - 1].shape = "counts" /\ Alike(s[i - 1], s[i]) /\ s[i - 1].only = s[i].only

\* What every report runs, and what most of them do.
IsScript(s) == IsList(s) /\ (\A i \in 1..Len(s) : IsStatement(s[i])) /\ PagesFollow(s)

AllGrow(s) == \A i \in 1..Len(s) : Growing(s[i])

\* The figure labelled l is the total of that labelled m.
IsTotalOf(l, m, s) ==
  \A i, j \in 1..Len(s) : s[i].as = l /\ s[j].as = m =>
    /\ i < j /\ Alike(s[i], s[j]) /\ SameKind(s[i], s[j])
    /\ Growing(s[i]) /\ Exact(s[i]) /\ Exact(s[j])

\* What each report runs.
LEMMA ScriptOf ==
  ASSUME NEW a \in Asks, NEW t
  PROVE  /\ a.report \in {"overview", "modality", "relations", "dashboard", "feed", "snapshot", "log"}
         /\ a.report = "overview" => Script(a, t) = AccessOverview(a.period, a.action, a.interval)
         /\ a.report = "modality" => Script(a, t) = ModalityOverview(a.modality, a.period, a.interval, a.limit)
         /\ a.report = "relations" => Script(a, t) = RelationSummary(a.period, a.interval)
         /\ a.report = "dashboard" => Script(a, t) = Dashboard(t, a.months, a.interval)
         /\ a.report = "feed" =>
              Script(a, t) = Only(Page("feed", Plain("feed", "asset_lineage", a.period), a.limit, a.offset),
                                  "status", a.status)
         /\ a.report = "snapshot" => Script(a, t) = Snapshot(a.period, a.bucket, a.scope, a.limit)
         /\ a.report = "log" => Script(a, t) = LogPages(a.limit, Plain("log", "access_log", Ever))
<1>1. a.report \in {"overview", "modality", "relations", "dashboard", "feed", "snapshot", "log"}
  BY AsksAssumption
<1> HIDE DEF Script
<1> QED
  BY <1>1 DEF Script, Snapshot, LogPages

\* What the fields say of a statement.
LEMMA Statements ==
  ASSUME NEW st, NEW as, NEW table \in Tables, NEW period, NEW shape, NEW only, NEW bucket, NEW scope,
         IsOf(st, as, table, period, shape, only, bucket, scope)
  PROVE  /\ shape = "counts" => IsStatement(st) /\ Exact(st)
         /\ shape = "buckets" /\ table = "asset" => IsStatement(st) /\ Exact(st)
         /\ shape = "distinct" /\ table = "asset_lineage" => IsStatement(st) /\ (IsBy(st, None, None) => Exact(st))
         /\ \A limit, offset \in Nat : shape = "page" /\ IsCut(st, limit, offset) => IsStatement(st)
BY DEF IsOf, IsStatement, Exact, IsBy, IsCut

\* A statement without a bucket that looks at fixed columns only.
LEMMA Growth ==
  ASSUME NEW st, NEW as, NEW table \in Tables, NEW period, NEW shape, NEW scope
  PROVE  /\ IsOf(st, as, table, period, shape, <<>>, None, scope) => Growing(st)
         /\ \A column \in Fixed(table) : \A value :
              IsOf(st, as, table, period, shape, OnlyColumn(column, value), None, scope) => Growing(st)
<1>1. IsOf(st, as, table, period, shape, <<>>, None, scope) => Growing(st)
  BY DEF IsOf, Growing
<1>2. ASSUME NEW column \in Fixed(table), NEW value,
             IsOf(st, as, table, period, shape, OnlyColumn(column, value), None, scope)
      PROVE  Growing(st)
  <2>1. st.only = OnlyColumn(column, value) /\ st.bucket = None /\ st.table = table
    BY <1>2 DEF IsOf
  <2>2. DOMAIN OnlyColumn(column, value) = {column}
    BY DEF OnlyColumn
  <2> QED
    BY <2>1, <2>2 DEF Growing
<1> QED
  BY <1>1, <1>2

\* Statements that ask the same are alike.
LEMMA SameFields ==
  ASSUME NEW s, NEW t, NEW as, NEW bs, NEW table, NEW period, NEW shape, NEW form, NEW only, NEW bucket, NEW scope,
         IsOf(s, as, table, period, shape, only, bucket, scope), IsOf(t, bs, table, period, form, only, bucket, scope)
  PROVE  Alike(s, t) /\ s.only = t.only
BY DEF IsOf, Alike, Wanted

\* The overview.
LEMMA OverviewIsScript ==
  ASSUME NEW period, NEW action, NEW interval, NEW s, s = AccessOverview(period, action, interval)
  PROVE  /\ IsScript(s) /\ AllGrow(s)
         /\ IsTotalOf(<<"overview", "total">>, <<"overview", "action">>, s)
         /\ action = None => IsTotalOf(<<"overview", "total">>, <<"overview", "series">>, s)
<1>1. /\ IsList(s) /\ Len(s) = 3
      /\ IsOf(s[1], <<"overview", "total">>, "access_log", period, "counts", <<>>, None, Ever)
      /\ IsOf(s[2], <<"overview", "action">>, "access_log", period, "counts", <<>>, None, Ever)
      /\ IsOf(s[3], <<"overview", "series">>, "access_log", period, "counts",
              OnlyColumn("action", action), None, Ever)
  BY OverviewFields
<1>2. "access_log" \in Tables /\ "action" \in Fixed("access_log")
  BY DEF Tables, Fixed
<1>3. \A i \in 1..3 : IsStatement(s[i]) /\ Exact(s[i]) /\ Growing(s[i]) /\ s[i].shape = "counts"
  <2>1. IsStatement(s[1]) /\ Exact(s[1]) /\ IsStatement(s[2]) /\ Exact(s[2]) /\ IsStatement(s[3]) /\ Exact(s[3])
    BY <1>1, <1>2, Statements
  <2>2. Growing(s[1]) /\ Growing(s[2]) /\ Growing(s[3])
    BY <1>1, <1>2, Growth
  <2> QED
    BY <1>1, <2>1, <2>2 DEF IsOf
<1>4. IsScript(s) /\ AllGrow(s)
  BY <1>1, <1>3 DEF IsScript, PagesFollow, AllGrow
<1>5. Alike(s[1], s[2])
  BY <1>1, SameFields
<1>6. action = None => Alike(s[1], s[3])
  BY <1>1 DEF IsOf, Alike, Wanted, OnlyColumn
<1>7. \A i \in 1..3 : s[i].as = <<"overview", "total">> => i = 1
  BY <1>1 DEF IsOf
<1>8. \A i \in 1..3 : /\ s[i].as = <<"overview", "action">> => i = 2
                      /\ s[i].as = <<"overview", "series">> => i = 3
  BY <1>1 DEF IsOf
<1> QED
  BY <1>1, <1>3, <1>4, <1>5, <1>6, <1>7, <1>8 DEF IsTotalOf, SameKind

\* The overview of a modality.
LEMMA ModalityIsScript ==
  ASSUME NEW modality, NEW period, NEW interval, NEW limit \in Nat,
         NEW s, s = ModalityOverview(modality, period, interval, limit)
  PROVE  /\ IsScript(s) /\ AllGrow(s)
         /\ \A m \in {<<"detail", "status">>, <<"detail", "series">>, <<"first_page", "count">>} :
              IsTotalOf(<<"detail", "total">>, m, s)
<1> DEFINE only == OnlyColumn("modality", modality)
           b == BucketScope("period", period)
<1>1. /\ IsList(s) /\ Len(s) = 5
      /\ IsOf(s[1], <<"detail", "total">>, "asset", period, "counts", only, None, Ever)
      /\ IsOf(s[2], <<"detail", "status">>, "asset", period, "counts", only, None, Ever)
      /\ IsOf(s[3], <<"detail", "series">>, "asset", period, "counts", only, None, Ever)
      /\ IsOf(s[4], <<"first_page", "count">>, "asset", period, "counts", only, None, b)
      /\ IsOf(s[5], <<"first_page", "rows">>, "asset", period, "page", only, None, b) /\ IsCut(s[5], limit, 0)
  BY ModalityFields
<1>2. "asset" \in Tables /\ "modality" \in Fixed("asset")
  BY DEF Tables, Fixed
<1>3. /\ \A i \in 1..4 : IsStatement(s[i]) /\ Exact(s[i]) /\ Growing(s[i]) /\ s[i].shape = "counts"
      /\ IsStatement(s[5]) /\ Growing(s[5]) /\ s[5].shape = "page"
  <2>1. /\ IsStatement(s[1]) /\ Exact(s[1]) /\ IsStatement(s[2]) /\ Exact(s[2])
        /\ IsStatement(s[3]) /\ Exact(s[3]) /\ IsStatement(s[4]) /\ Exact(s[4])
    BY <1>1, <1>2, Statements
  <2>2. IsStatement(s[5])
    BY <1>1, <1>2, Statements
  <2>3. Growing(s[1]) /\ Growing(s[2]) /\ Growing(s[3]) /\ Growing(s[4]) /\ Growing(s[5])
    BY <1>1, <1>2, Growth
  <2> QED
    BY <1>1, <2>1, <2>2, <2>3 DEF IsOf
<1>4. IsScript(s) /\ AllGrow(s)
  <2>1. Alike(s[4], s[5]) /\ s[4].only = s[5].only
    BY <1>1, SameFields
  <2> HIDE DEF only, b
  <2> QED
    BY <1>1, <1>3, <2>1 DEF IsScript, PagesFollow, AllGrow
<1>5. Alike(s[1], s[2]) /\ Alike(s[1], s[3])
  BY <1>1, SameFields
<1>6. Alike(s[1], s[4])
  BY <1>1 DEF IsOf, Alike, Wanted
<1>7. \A i \in 1..5 : s[i].as = <<"detail", "total">> => i = 1
  BY <1>1 DEF IsOf
<1>8. \A i \in 1..5 : /\ s[i].as = <<"detail", "status">> => i = 2
                      /\ s[i].as = <<"detail", "series">> => i = 3
                      /\ s[i].as = <<"first_page", "count">> => i = 4
  BY <1>1 DEF IsOf
<1> HIDE DEF only, b
<1>9. \A i \in 2..4 : Alike(s[1], s[i]) /\ SameKind(s[1], s[i]) /\ Growing(s[1]) /\ Exact(s[1]) /\ Exact(s[i])
  BY <1>3, <1>5, <1>6 DEF SameKind
<1>10. ASSUME NEW m \in {<<"detail", "status">>, <<"detail", "series">>, <<"first_page", "count">>}
       PROVE  IsTotalOf(<<"detail", "total">>, m, s)
  BY <1>1, <1>7, <1>8, <1>9 DEF IsTotalOf
<1> QED
  BY <1>4, <1>10

\* The summary of the proposals.
LEMMA RelationsIsScript ==
  ASSUME NEW period, NEW interval, NEW s, s = RelationSummary(period, interval)
  PROVE  IsScript(s) /\ AllGrow(s)
<1> DEFINE only == OnlyColumn("activity", Proposed)
<1>1. /\ IsList(s) /\ Len(s) = 2
      /\ IsOf(s[1], <<"proposed", "total">>, "asset_lineage", period, "distinct", only, None, Ever)
      /\ IsBy(s[1], None, None)
      /\ IsOf(s[2], <<"proposed", "series">>, "asset_lineage", period, "distinct", only, None, Ever)
  BY RelationFields
<1>2. "asset_lineage" \in Tables /\ "activity" \in Fixed("asset_lineage")
  BY DEF Tables, Fixed
<1>3. IsStatement(s[1]) /\ Exact(s[1]) /\ IsStatement(s[2])
  BY <1>1, <1>2, Statements
<1>4. Growing(s[1]) /\ Growing(s[2])
  BY <1>1, <1>2, Growth
<1>5. s[1].shape = "distinct" /\ s[2].shape = "distinct"
  BY <1>1 DEF IsOf
<1> QED
  BY <1>1, <1>3, <1>4, <1>5 DEF IsScript, PagesFollow, AllGrow

\* The feed of the lineage.
LEMMA FeedIsScript ==
  ASSUME NEW period, NEW status, NEW limit \in Nat, NEW offset \in Nat,
         NEW s, s = Only(Page("feed", Plain("feed", "asset_lineage", period), limit, offset), "status", status)
  PROVE  IsScript(s)
<1> DEFINE only == OnlyColumn("status", status)
<1>1. /\ IsList(s) /\ Len(s) = 2
      /\ IsOf(s[1], <<"feed", "count">>, "asset_lineage", period, "counts", only, None, Ever)
      /\ IsOf(s[2], <<"feed", "rows">>, "asset_lineage", period, "page", only, None, Ever)
      /\ IsCut(s[2], limit, offset)
  BY FeedFields
<1>2. "asset_lineage" \in Tables
  BY DEF Tables
<1>3. IsStatement(s[1]) /\ IsStatement(s[2])
  BY <1>1, <1>2, Statements
<1>4. s[1].shape = "counts" /\ s[2].shape = "page"
  BY <1>1 DEF IsOf
<1>5. Alike(s[1], s[2]) /\ s[1].only = s[2].only
  BY <1>1, SameFields
<1> HIDE DEF only
<1> QED
  BY <1>1, <1>3, <1>4, <1>5 DEF IsScript, PagesFollow

\* The snapshot.
LEMMA SnapshotIsScript ==
  ASSUME NEW period, NEW bucket, NEW scope, NEW limit \in Nat, NEW s, s = Snapshot(period, bucket, scope, limit)
  PROVE  /\ IsScript(s)
         /\ \A c \in {"status", "modality", "buckets"} : IsTotalOf(<<"stats", "total">>, <<"stats", c>>, s)
<1> DEFINE b == BucketScope(scope, period)
<1>1. /\ IsList(s) /\ Len(s) = 6
      /\ IsOf(s[1], <<"stats", "total">>, "asset", period, "counts", <<>>, None, Ever)
      /\ IsOf(s[2], <<"stats", "status">>, "asset", period, "counts", <<>>, None, Ever)
      /\ IsOf(s[3], <<"stats", "modality">>, "asset", period, "counts", <<>>, None, Ever)
      /\ IsOf(s[4], <<"stats", "buckets">>, "asset", period, "buckets", <<>>, None, Ever)
      /\ IsOf(s[5], <<"list", "count">>, "asset", period, "counts", <<>>, bucket, b)
      /\ IsOf(s[6], <<"list", "rows">>, "asset", period, "page", <<>>, bucket, b) /\ IsCut(s[6], limit, 0)
  BY SnapshotFields
<1>2. "asset" \in Tables
  BY DEF Tables
<1>3. /\ \A i \in 1..5 : IsStatement(s[i]) /\ Exact(s[i])
      /\ \A i \in 1..5 : s[i].shape \in {"counts", "buckets"}
      /\ IsStatement(s[6]) /\ s[6].shape = "page" /\ s[5].shape = "counts"
  <2>1. /\ IsStatement(s[1]) /\ Exact(s[1]) /\ IsStatement(s[2]) /\ Exact(s[2])
        /\ IsStatement(s[3]) /\ Exact(s[3]) /\ IsStatement(s[4]) /\ Exact(s[4])
        /\ IsStatement(s[5]) /\ Exact(s[5])
    BY <1>1, <1>2, Statements
  <2>2. IsStatement(s[6])
    BY <1>1, <1>2, Statements
  <2>3. /\ s[1].shape = "counts" /\ s[2].shape = "counts" /\ s[3].shape = "counts" /\ s[4].shape = "buckets"
        /\ s[5].shape = "counts" /\ s[6].shape = "page"
    BY <1>1 DEF IsOf
  <2> QED
    BY <2>1, <2>2, <2>3
<1>4. IsScript(s)
  <2>1. Alike(s[5], s[6]) /\ s[5].only = s[6].only
    BY <1>1, SameFields
  <2> HIDE DEF b
  <2>2. \A i \in 1..6 : IsStatement(s[i]) /\ (s[i].shape = "page" => i = 6)
    BY <1>3
  <2> QED
    BY <1>1, <1>3, <2>1, <2>2 DEF IsScript, PagesFollow
<1>5. Growing(s[1])
  BY <1>1, <1>2, Growth
<1>6. Alike(s[1], s[2]) /\ Alike(s[1], s[3]) /\ Alike(s[1], s[4])
  BY <1>1, SameFields
<1>7. \A i \in 1..6 : s[i].as = <<"stats", "total">> => i = 1
  BY <1>1 DEF IsOf
<1>8. \A i \in 1..6 : /\ s[i].as = <<"stats", "status">> => i = 2
                      /\ s[i].as = <<"stats", "modality">> => i = 3
                      /\ s[i].as = <<"stats", "buckets">> => i = 4
  BY <1>1 DEF IsOf
<1> HIDE DEF b
<1>9. \A i \in 2..4 : Alike(s[1], s[i]) /\ SameKind(s[1], s[i]) /\ Growing(s[1]) /\ Exact(s[1]) /\ Exact(s[i])
  BY <1>3, <1>5, <1>6 DEF SameKind
<1>10. ASSUME NEW c \in {"status", "modality", "buckets"}
       PROVE  IsTotalOf(<<"stats", "total">>, <<"stats", c>>, s)
  BY <1>1, <1>7, <1>8, <1>9 DEF IsTotalOf
<1> QED
  BY <1>4, <1>10

\* The pages of the log are of all its rows; the first starts at its first
\* row, and each of the others where the one before it ends.
IsPageOfLog(s, i) ==
  /\ s[i].table = "access_log" /\ s[i].period = Ever /\ s[i].only = <<>> /\ s[i].bucket = None
  /\ s[i].limit \in Nat /\ s[i].offset \in Nat
  /\ \/ s[i].offset = 0
     \/ \E j \in 1..Len(s) : j < i /\ s[j].shape = "page" /\ s[i].offset = s[j].offset + s[j].limit

\* Every page reads on where another one ends.
ReadsOn(s) == \A i \in 1..Len(s) : s[i].shape = "page" => IsPageOfLog(s, i)

\* The log.
LEMMA LogIsScript ==
  ASSUME NEW limit \in Nat, NEW s, s = LogPages(limit, Plain("log", "access_log", Ever))
  PROVE  IsScript(s) /\ AllGrow(s) /\ ReadsOn(s)
<1>1. /\ IsList(s) /\ Len(s) = 6
      /\ IsLogCount(s[1], <<0, "count">>) /\ IsLogPage(s[2], <<0, "rows">>, limit, 0)
      /\ IsLogCount(s[3], <<1, "count">>) /\ IsLogPage(s[4], <<1, "rows">>, limit, limit)
      /\ IsLogCount(s[5], <<2, "count">>) /\ IsLogPage(s[6], <<2, "rows">>, limit, 2 * limit)
  BY LogFields
<1>2. "access_log" \in Tables
  BY DEF Tables
<1>3. \A st, as : IsLogCount(st, as) => IsStatement(st) /\ Growing(st) /\ st.shape = "counts"
  BY <1>2, Statements, Growth DEF IsLogCount, IsOf
<1>4. \A st, as, offset : IsLogPage(st, as, limit, offset) /\ offset \in Nat =>
        /\ IsStatement(st) /\ Growing(st) /\ st.shape = "page"
        /\ st.table = "access_log" /\ st.period = Ever /\ st.only = <<>> /\ st.bucket = None
        /\ st.limit = limit /\ st.offset = offset
  <2> SUFFICES ASSUME NEW st, NEW as, NEW offset \in Nat, IsLogPage(st, as, limit, offset)
               PROVE  /\ IsStatement(st) /\ Growing(st) /\ st.shape = "page"
                      /\ st.table = "access_log" /\ st.period = Ever /\ st.only = <<>> /\ st.bucket = None
                      /\ st.limit = limit /\ st.offset = offset
    OBVIOUS
  <2>1. IsOf(st, as, "access_log", Ever, "page", <<>>, None, Ever) /\ IsCut(st, limit, offset)
    BY DEF IsLogPage
  <2>2. IsStatement(st)
    BY <1>2, <2>1, Statements
  <2>3. Growing(st)
    BY <1>2, <2>1, Growth
  <2> QED
    BY <2>1, <2>2, <2>3 DEF IsOf, IsCut
<1>5. \A x, y, as, bs, offset : IsLogCount(x, as) /\ IsLogPage(y, bs, limit, offset) => Alike(x, y) /\ x.only = y.only
  BY SameFields DEF IsLogCount, IsLogPage
<1>6. IsScript(s) /\ AllGrow(s)
  <2>1. \A i \in {1, 3, 5} : IsStatement(s[i]) /\ Growing(s[i]) /\ s[i].shape = "counts"
    BY <1>1, <1>3
  <2>2. \A i \in {2, 4, 6} : IsStatement(s[i]) /\ Growing(s[i]) /\ s[i].shape = "page"
    <3>1. 0 \in Nat /\ limit \in Nat /\ 2 * limit \in Nat
      OBVIOUS
    <3> QED
      BY <1>1, <1>4, <3>1
  <2>3. \A i \in {2, 4, 6} : Alike(s[i - 1], s[i]) /\ s[i - 1].only = s[i].only
    <3>1. /\ Alike(s[1], s[2]) /\ s[1].only = s[2].only /\ Alike(s[3], s[4]) /\ s[3].only = s[4].only
          /\ Alike(s[5], s[6]) /\ s[5].only = s[6].only
      BY <1>1, <1>5
    <3> QED
      BY <3>1
  <2>4. \A i \in 1..6 : i \in {1, 3, 5} \/ i \in {2, 4, 6}
    OBVIOUS
  <2>5. ASSUME NEW i \in 1..6 PROVE IsStatement(s[i]) /\ Growing(s[i]) /\ (s[i].shape = "page" => i \in {2, 4, 6})
    BY <2>1, <2>2, <2>4
  <2>6. AllGrow(s)
    BY <1>1, <2>5 DEF AllGrow
  <2>7. PagesFollow(s)
    <3> SUFFICES ASSUME NEW i \in 1..6, s[i].shape = "page"
                 PROVE  /\ i - 1 \in 1..6 /\ s[i - 1].shape = "counts"
                        /\ Alike(s[i - 1], s[i]) /\ s[i - 1].only = s[i].only
      BY <1>1 DEF PagesFollow
    <3>1. i \in {2, 4, 6}
      BY <2>5
    <3>2. i - 1 \in {1, 3, 5}
      BY <3>1
    <3> QED
      BY <2>1, <2>3, <3>1, <3>2
  <2> QED
    BY <1>1, <2>5, <2>6, <2>7 DEF IsScript
<1>7. ReadsOn(s)
  <2>0. Len(s) = 6
    BY <1>1
  <2>1. 0 \in Nat /\ limit \in Nat /\ 2 * limit \in Nat
    OBVIOUS
  <2>2. /\ \A i \in {2, 4, 6} :
             /\ s[i].table = "access_log" /\ s[i].period = Ever /\ s[i].only = <<>> /\ s[i].bucket = None
             /\ s[i].limit = limit /\ s[i].shape = "page"
        /\ s[2].offset = 0 /\ s[4].offset = limit /\ s[6].offset = 2 * limit
    BY <1>1, <1>4, <2>1
  <2>3. \A i \in 1..6 : s[i].shape = "page" => i \in {2, 4, 6}
    BY <1>1, <1>3
  <2>4. /\ s[2].offset = 0
        /\ 2 < 4 /\ s[2].shape = "page" /\ s[4].offset = s[2].offset + s[2].limit
        /\ 4 < 6 /\ s[4].shape = "page" /\ s[6].offset = s[4].offset + s[4].limit
    BY <2>2
  <2>5. ASSUME NEW i \in {2, 4, 6}
        PROVE  \/ s[i].offset = 0
               \/ \E j \in 1..6 : j < i /\ s[j].shape = "page" /\ s[i].offset = s[j].offset + s[j].limit
    <3>1. CASE i = 2
      BY <2>4, <3>1
    <3>2. CASE i = 4
      BY <2>4, <3>2
    <3>3. CASE i = 6
      BY <2>4, <3>3
    <3> QED
      BY <3>1, <3>2, <3>3
  <2>6. ASSUME NEW i \in {2, 4, 6}
        PROVE  /\ s[i].table = "access_log" /\ s[i].period = Ever /\ s[i].only = <<>> /\ s[i].bucket = None
               /\ s[i].limit \in Nat /\ s[i].offset \in Nat
    BY <2>1, <2>2
  <2>7. ASSUME NEW i \in {2, 4, 6} PROVE IsPageOfLog(s, i)
    BY <2>0, <2>5, <2>6 DEF IsPageOfLog
  <2> QED
    BY <2>0, <2>3, <2>7 DEF ReadsOn
<1> QED
  BY <1>6, <1>7

\* The total of slice x and column c of slice y are of the same rows.
Compared(x, y, c) ==
  /\ c \in Columns
  /\ \/ x \in {"alltime", "today"} /\ c # "total" /\ y = x
     \/ x = "today" /\ y = "hourly"

\* The dashboard.
LEMMA DashboardIsScript ==
  ASSUME NEW t, NEW n, NEW interval, NEW s, s = Dashboard(t, n, interval)
  PROVE  /\ IsScript(s) /\ AllGrow(s)
         /\ \A area, x, y, c : Compared(x, y, c) => IsTotalOf(<<<<area, x>>, "total">>, <<<<area, y>>, c>>, s)
<1>1. AreFigures(s, Areas, t, n) /\ InOrder(s)
  BY DashboardStatements
<1> HIDE DEF Dashboard
<1>2. ASSUME NEW i \in 1..Len(s) PROVE IsStatement(s[i]) /\ s[i].shape = "counts" /\ Growing(s[i]) /\ Exact(s[i])
  <2>1. PICK area \in Areas, slice \in Slices, column \in Columns :
          IsFigureOf(s[i], area, slice, column, PeriodOf(slice, t, n))
    BY <1>1 DEF AreFigures
  <2>2. TableOf(area) \in Tables
    BY DEF Areas, TableOf, Tables
  <2>3. /\ s[i].table = TableOf(area) /\ s[i].shape = "counts" /\ s[i].only = <<>> /\ s[i].bucket = None
    BY <2>1 DEF IsFigureOf
  <2>4. IsStatement(s[i]) /\ Exact(s[i])
    BY <2>2, <2>3 DEF IsStatement, Exact
  <2>5. DOMAIN <<>> = {}
    OBVIOUS
  <2> QED
    BY <2>3, <2>4, <2>5 DEF Growing
<1>3. IsScript(s) /\ AllGrow(s)
  BY <1>1, <1>2 DEF IsScript, PagesFollow, AreFigures, AllGrow
<1>4. ASSUME NEW area, NEW x, NEW y, NEW c, Compared(x, y, c),
             NEW i \in 1..Len(s), NEW j \in 1..Len(s),
             s[i].as = <<<<area, x>>, "total">>, s[j].as = <<<<area, y>>, c>>
      PROVE  i < j /\ Alike(s[i], s[j])
  <2>1. Heads(s[i].as, s[j].as)
    BY <1>4 DEF Heads, Compared
  <2>2. i < j
    BY <1>1, <2>1 DEF InOrder
  <2>3. PICK area1 \in Areas, slice1 \in Slices, column1 \in Columns :
          IsFigureOf(s[i], area1, slice1, column1, PeriodOf(slice1, t, n))
    BY <1>1 DEF AreFigures
  <2>4. PICK area2 \in Areas, slice2 \in Slices, column2 \in Columns :
          IsFigureOf(s[j], area2, slice2, column2, PeriodOf(slice2, t, n))
    BY <1>1 DEF AreFigures
  <2>5. area1 = area /\ slice1 = x /\ area2 = area /\ slice2 = y
    BY <1>4, <2>3, <2>4, Labels
  <2>6. PeriodOf(slice1, t, n) = PeriodOf(slice2, t, n)
    BY <1>4, <2>5 DEF PeriodOf, Compared
  <2>7. Alike(s[i], s[j])
    BY <2>3, <2>4, <2>5, <2>6 DEF IsFigureOf, Alike, Wanted
  <2> QED
    BY <2>2, <2>7
<1>5. ASSUME NEW area, NEW x, NEW y, NEW c, Compared(x, y, c)
      PROVE  IsTotalOf(<<<<area, x>>, "total">>, <<<<area, y>>, c>>, s)
  <2> SUFFICES ASSUME NEW i \in 1..Len(s), NEW j \in 1..Len(s),
                      s[i].as = <<<<area, x>>, "total">>, s[j].as = <<<<area, y>>, c>>
               PROVE  /\ i < j /\ Alike(s[i], s[j]) /\ SameKind(s[i], s[j])
                      /\ Growing(s[i]) /\ Exact(s[i]) /\ Exact(s[j])
    BY DEF IsTotalOf
  <2>1. i < j /\ Alike(s[i], s[j])
    BY <1>4, <1>5
  <2> QED
    BY <1>2, <2>1 DEF SameKind
<1> QED
  BY <1>3, <1>5

\* Every script is a list of statements, each page after its count.
LEMMA ScriptIsScript ==
  ASSUME NEW a \in Asks, NEW t, NEW s, s = Script(a, t)
  PROVE  /\ IsScript(s)
         /\ a.report \in {"overview", "modality", "relations", "dashboard", "log"} => AllGrow(s)
         /\ a.report = "log" => ReadsOn(s)
<1>1. CASE a.report = "overview"
  BY <1>1, ScriptOf, OverviewIsScript
<1>2. CASE a.report = "modality"
  <2>1. a.limit \in Nat
    BY <1>2, AsksAssumption
  <2> QED
    BY <1>2, <2>1, ScriptOf, ModalityIsScript
<1>3. CASE a.report = "relations"
  BY <1>3, ScriptOf, RelationsIsScript
<1>4. CASE a.report = "dashboard"
  BY <1>4, ScriptOf, DashboardIsScript
<1>5. CASE a.report = "feed"
  <2>1. a.limit \in Nat /\ a.offset \in Nat
    BY <1>5, AsksAssumption
  <2> QED
    BY <1>5, <2>1, ScriptOf, FeedIsScript
<1>6. CASE a.report = "snapshot"
  <2>1. a.limit \in Nat
    BY <1>6, AsksAssumption
  <2> QED
    BY <1>6, <2>1, ScriptOf, SnapshotIsScript
<1>7. CASE a.report = "log"
  <2>1. a.limit \in Nat
    BY <1>7, AsksAssumption
  <2> QED
    BY <1>7, <2>1, ScriptOf, LogIsScript
<1> QED
  BY <1>1, <1>2, <1>3, <1>4, <1>5, <1>6, <1>7, ScriptOf

\* The pairs of figures of the dashboard.
PairOf(area, x, y, c) == <<<<<<area, x>>, "total">>, <<<<area, y>>, c>>>>
StatsPairs(area) == {PairOf(area, slice, slice, c) : slice \in {"alltime", "today"}, c \in ColumnsOf(area)}

DayPairs == UNION {StatsPairs(area) : area \in Areas}
HourPairs == {PairOf(area, "today", "hourly", "series") : area \in Areas}

\* The figures that are compared are a total and a later count of its rows.
LEMMA TotalsFirst ==
  ASSUME ask \in Asks, NEW t, NEW s, s = Script(ask, t), NEW p \in SameRows
  PROVE  IsTotalOf(p[1], p[2], s)
<1>1. CASE ask.report = "overview"
  <2>1. PICK c \in {"action"} \cup (IF ask.action = None THEN {"series"} ELSE {}) :
          p = <<<<"overview", "total">>, <<"overview", c>>>>
    BY <1>1 DEF SameRows
  <2> QED
    BY <1>1, <2>1, ScriptOf, OverviewIsScript
<1>2. CASE ask.report = "modality"
  <2>1. ask.limit \in Nat
    BY <1>2, AsksAssumption
  <2>2. PICK m \in {<<"detail", "status">>, <<"detail", "series">>, <<"first_page", "count">>} :
          p = <<<<"detail", "total">>, m>>
    BY <1>2 DEF SameRows
  <2> QED
    BY <1>2, <2>1, <2>2, ScriptOf, ModalityIsScript
<1>3. CASE ask.report = "snapshot"
  <2>1. ask.limit \in Nat
    BY <1>3, AsksAssumption
  <2>2. PICK c \in {"status", "modality", "buckets"} : p = <<<<"stats", "total">>, <<"stats", c>>>>
    BY <1>3 DEF SameRows
  <2> QED
    BY <1>3, <2>1, <2>2, ScriptOf, SnapshotIsScript
<1>4. CASE ask.report = "dashboard"
  <2>1. SameRows = DayPairs \cup HourPairs
    BY <1>4 DEF SameRows, DayPairs, HourPairs, StatsPairs, PairOf
  <2>2. CASE p \in HourPairs
    <3>1. PICK area \in Areas : p = PairOf(area, "today", "hourly", "series")
      BY <2>2 DEF HourPairs
    <3>2. Compared("today", "hourly", "series")
      BY DEF Compared, Columns
    <3>3. p[1] = <<<<area, "today">>, "total">> /\ p[2] = <<<<area, "hourly">>, "series">>
      BY <3>1 DEF PairOf
    <3> QED
      BY <1>4, <3>2, <3>3, ScriptOf, DashboardIsScript
  <2>3. CASE p \in DayPairs
    <3>1. PICK area \in Areas : p \in StatsPairs(area)
      BY <2>3 DEF DayPairs
    <3>2. PICK slice \in {"alltime", "today"}, c \in ColumnsOf(area) : p = PairOf(area, slice, slice, c)
      BY <3>1 DEF StatsPairs
    <3>3. Compared(slice, slice, c)
      BY DEF Compared, Columns, ColumnsOf, Areas
    <3>4. p[1] = <<<<area, slice>>, "total">> /\ p[2] = <<<<area, slice>>, c>>
      BY <3>2 DEF PairOf
    <3> QED
      BY <1>4, <3>3, <3>4, ScriptOf, DashboardIsScript
  <2> QED
    BY <2>1, <2>2, <2>3
<1> QED
  BY <1>1, <1>2, <1>3, <1>4 DEF SameRows

-----------------------------------------------------------------------------
(* The invariant.                                                        *)

\* The statements that have been executed.
Answered == 1..Len(answers)

\* The script is that of the request, the answers are a list, and a figure
\* adds up to a number.
RequestInv ==
  /\ script = <<>> \/ script = Script(ask, now)
  /\ IsList(answers)
  /\ asked \subseteq log
  /\ \A i \in Answered : script[i].shape # "page" => SumOf(answers[i]) \in Nat

\* Without a change every answer is one its statement may have now.
QuietInv == quiet => \A i \in Answered : answers[i] \in Results(script[i])

\* A figure never exceeds what its statement would count now, nor a later
\* figure of the same rows.
FigureInv ==
  \A i \in Answered :
    Growing(script[i]) /\ Exact(script[i]) =>
      /\ SumOf(answers[i]) <= Size(script[i])
      /\ \A j \in Answered :
           i < j /\ Alike(script[i], script[j]) /\ SameKind(script[i], script[j]) =>
             SumOf(answers[i]) <= SumOf(answers[j])

\* A page of a growing table is not shorter than the count before it says.
PageInv ==
  \A i \in Answered :
    script[i].shape = "page" /\ Growing(script[i]) =>
      PageLength(script[i], SumOf(answers[i - 1])) <= Len(answers[i])

\* What an overview shows for its action is not more than the series of it.
CellOf(f, c) == IF c \in DOMAIN f THEN f[c] ELSE 0

DrillInv ==
  ask.report = "overview" /\ ask.action # None =>
    /\ 2 \in Answered => CellOf(answers[2], <<ask.action, 0>>) \in 0..Size(script[3])
    /\ 3 \in Answered => CellOf(answers[2], <<ask.action, 0>>) <= SumOf(answers[3])

\* A row that is on none of the pages up to i comes after page i.
IsOn(r, i) == script[i].shape = "page" /\ \E k \in DOMAIN answers[i] : answers[i][k] = r

\* The place of a row, the newest row first.
Rank(r) == Cardinality({s \in log : s.time > r.time \/ (s.time = r.time /\ s.id >= r.id)})

PagingInv ==
  ask.report = "log" =>
    \A i \in Answered, r \in asked :
      script[i].shape = "page" =>
        (\E j \in 1..i : IsOn(r, j)) \/ Rank(r) > script[i].offset + script[i].limit

\* The inductive invariant.
ReportsInv ==
  /\ TypeOK /\ TablesInv /\ RequestInv
  /\ QuietInv /\ FigureInv /\ PageInv /\ DrillInv /\ PagingInv

\* A sequence is a list.
LEMMA SequencesAreLists ==
  ASSUME NEW T, NEW s \in Seq(T)
  PROVE  IsList(s)
<1>1. Len(s) \in Nat /\ DOMAIN s = 1..Len(s) /\ s = [i \in DOMAIN s |-> s[i]]
  OBVIOUS
<1> QED
  BY <1>1 DEF IsList

\* Lists that become longer or shorter.
Adds(t, s, x) == t = Append(s, x)
Cuts(t, s, n) == t = SubSeq(s, 1, n)

\* A list with one more element.
LEMMA Appended ==
  ASSUME NEW s, IsList(s), NEW x, NEW t, Adds(t, s, x)
  PROVE  /\ IsList(t) /\ Len(t) = Len(s) + 1 /\ t[Len(s) + 1] = x
         /\ \A i \in 1..Len(s) : t[i] = s[i]
<1> DEFINE T == {s[i] : i \in 1..Len(s)} \cup {x}
<1>1. s \in [1..Len(s) -> T] /\ x \in T
  BY DEF IsList
<1> HIDE DEF T
<1>2. s \in Seq(T)
  BY <1>1 DEF IsList
<1>3. /\ t \in Seq(T) /\ Len(t) = Len(s) + 1 /\ t[Len(s) + 1] = x
      /\ \A i \in 1..Len(s) : t[i] = s[i]
  BY <1>1, <1>2 DEF Adds
<1>4. IsList(t)
  BY <1>3, SequencesAreLists
<1> QED
  BY <1>3, <1>4

\* The first elements of a list.
LEMMA CutOff ==
  ASSUME NEW s, IsList(s), NEW n \in 0..Len(s), NEW t, Cuts(t, s, n)
  PROVE  IsList(t) /\ Len(t) = n /\ \A i \in 1..n : t[i] = s[i]
<1> DEFINE T == {s[i] : i \in 1..Len(s)}
<1>1. s \in [1..Len(s) -> T]
  BY DEF IsList
<1> HIDE DEF T
<1>2. s \in Seq(T)
  BY <1>1 DEF IsList
<1>3. t \in Seq(T) /\ Len(t) = n /\ \A i \in 1..n : t[i] = s[i]
  BY <1>2 DEF IsList, Cuts
<1>4. IsList(t)
  BY <1>3, SequencesAreLists
<1> QED
  BY <1>3, <1>4

\* The cells of a figure are numbers.
LEMMA FigureCells ==
  ASSUME TablesInv, NEW st, IsStatement(st), st.shape # "page", NEW result \in Results(st)
  PROVE  \A c \in DOMAIN result : result[c] \in Nat
<1> DEFINE S == Selected(st)
<1>1. IsFiniteSet(S)
  BY SelectedIsKeyed DEF Keyed
<1>2. CASE st.shape = "counts"
  <2>1. result = [c \in {Cell(st, r) : r \in S} |-> Cardinality({r \in S : Cell(st, r) = c})]
    BY <1>2 DEF Results, Counts
  <2> HIDE DEF S
  <2>2. \A c : IsFiniteSet({r \in S : Cell(st, r) = c})
    BY <1>1, FS_Subset
  <2> QED
    BY <2>1, <2>2, FS_CardinalityType
<1>3. CASE st.shape = "distinct"
  <2>1. result = [c \in {Cell(st, r) : r \in S} |-> Cardinality({r.asset : r \in {q \in S : Cell(st, q) = c}})]
    BY <1>3 DEF Results, DistinctAssets
  <2> HIDE DEF S
  <2>2. ASSUME NEW c PROVE Cardinality({r.asset : r \in {q \in S : Cell(st, q) = c}}) \in Nat
    <3> DEFINE Q == {q \in S : Cell(st, q) = c}
               f == [r \in Q |-> r.asset]
    <3>1. IsFiniteSet(Q)
      BY <1>1, FS_Subset
    <3>2. DOMAIN f = Q /\ {r.asset : r \in Q} = {f[r] : r \in Q}
      OBVIOUS
    <3> HIDE DEF Q, f
    <3>3. IsFiniteSet({f[r] : r \in Q})
      BY <3>1, <3>2, ImageIsFinite
    <3>4. Cardinality({r.asset : r \in Q}) \in Nat
      BY <3>2, <3>3, FS_CardinalityType
    <3> QED
      BY <3>4 DEF Q
  <2> QED
    BY <2>1, <2>2
<1>4. CASE st.shape = "buckets"
  <2>1. result = [b \in Buckets |-> Cardinality({r \in S : InBucket(b, r, Ever)})]
    BY <1>4 DEF Results, BucketCounts
  <2> HIDE DEF S
  <2>2. \A b : IsFiniteSet({r \in S : InBucket(b, r, Ever)})
    BY <1>1, FS_Subset
  <2> QED
    BY <2>1, <2>2, FS_CardinalityType
<1> QED
  BY <1>2, <1>3, <1>4 DEF IsStatement

\* The length of a page.
LEMMA PageIsAsLong ==
  ASSUME TablesInv, NEW st, IsStatement(st), st.shape = "page", NEW page \in Results(st)
  PROVE  Len(page) = PageLength(st, Cardinality(Selected(st))) /\ Len(page) \in Nat
<1>1. Cardinality(Selected(st)) \in Nat /\ st.limit \in Nat /\ st.offset \in Nat
  BY SelectedIsKeyed DEF IsStatement
<1>2. PageLength(st, Cardinality(Selected(st))) \in Nat
  BY <1>1 DEF PageLength
<1>3. page \in [1..PageLength(st, Cardinality(Selected(st))) -> Selected(st)]
  BY DEF Results, PagesOf
<1> QED
  BY <1>2, <1>3

\* A transaction that is run again starts at its first statement.
LEMMA FirstOfTransaction ==
  ASSUME NEW n \in Nat, n > 1, NEW tx,
         NEW j, j = CHOOSE i \in 1..(n - 1) : tx[i] = tx[n - 1] /\ (i = 1 \/ tx[i - 1] # tx[i])
  PROVE  j \in 1..(n - 1)
<1> DEFINE K == {i \in 1..(n - 1) : \A k \in i..(n - 1) : tx[k] = tx[n - 1]}
<1>1. K \subseteq Nat /\ n - 1 \in K
  OBVIOUS
<1>2. PICK i \in K : \A k \in K : i <= k
  BY <1>1, HasLeast
<1>3. i \in 1..(n - 1) /\ tx[i] = tx[n - 1]
  OBVIOUS
<1>4. i = 1 \/ tx[i - 1] # tx[i]
  <2> SUFFICES ASSUME i # 1, tx[i - 1] = tx[i] PROVE FALSE
    OBVIOUS
  <2>1. i - 1 \in 1..(n - 1)
    BY <1>3
  <2>2. \A k \in (i - 1)..(n - 1) : tx[k] = tx[n - 1]
    BY <1>3
  <2>3. i - 1 \in K
    BY <2>1, <2>2
  <2> QED
    BY <1>2, <1>3, <2>3
<1> QED
  BY <1>3, <1>4

-----------------------------------------------------------------------------
(* The steps, and the shape of the request.                              *)

\* What is known of the script and the answers.
LEMMA Underway ==
  ASSUME TypeOK, RequestInv
  PROVE  /\ Len(script) \in Nat /\ next \in 1..(Len(script) + 1)
         /\ Len(answers) = next - 1 /\ Len(answers) \in Nat /\ Len(answers) <= Len(script)
         /\ DOMAIN answers = Answered /\ ask \in Asks
         /\ \A i \in 1..Len(script) : IsStatement(script[i])
         /\ PagesFollow(script)
<1>1. IsScript(script) \/ script = <<>>
  BY ScriptIsScript DEF RequestInv, TypeOK
<1>2. Len(script) \in Nat /\ (\A i \in 1..Len(script) : IsStatement(script[i])) /\ PagesFollow(script)
  <2>1. CASE IsScript(script)
    BY <2>1 DEF IsScript, IsList
  <2>2. CASE script = <<>>
    BY <2>2 DEF PagesFollow
  <2> QED
    BY <1>1, <2>1, <2>2
<1>3. next \in 1..(Len(script) + 1) /\ Len(answers) = next - 1 /\ ask \in Asks
  BY DEF TypeOK
<1>4. DOMAIN answers = Answered
  BY DEF RequestInv, IsList, Answered
<1> QED
  BY <1>2, <1>3, <1>4

\* The next statement is executed.
Executes(result) ==
  /\ next <= Len(script) /\ result \in Results(script[next])
  /\ answers' = Append(answers, result) /\ next' = next + 1 /\ quiet' = (next = 1 \/ quiet)
  /\ UNCHANGED <<clock, tables, changes, request, retries>>

\* The answers of the last transaction are given up.
GivesUp ==
  /\ next' \in 1..(next - 1)
  /\ answers' = SubSeq(answers, 1, next' - 1)
  /\ retries < MaxRetries /\ retries' = retries + 1
  /\ UNCHANGED <<clock, tables, changes, request, quiet>>

\* Others change the tables.
Interferes ==
  /\ Changing
  /\ changes' \in 0..MaxChanges /\ quiet' = FALSE
  /\ UNCHANGED <<clock, request, next, answers, retries>>

\* The steps, as the proofs look at them.
LEMMA Steps ==
  ASSUME TypeOK, RequestInv, [Next]_vars
  PROVE  \/ Begin \/ (\E result : Executes(result)) \/ GivesUp \/ Tick \/ Interferes \/ UNCHANGED vars
<1>1. CASE Begin
  BY <1>1
<1>2. CASE Execute
  BY <1>2 DEF Execute, Executes
<1>3. CASE Retry
  <2> DEFINE tx == [i \in 1..(next - 1) |-> script[i].tx]
  <2>1. next \in Nat /\ next > 1
    BY <1>3, Underway DEF Retry
  <2>2. next' = CHOOSE i \in 1..(next - 1) : tx[i] = tx[next - 1] /\ (i = 1 \/ tx[i - 1] # tx[i])
    <3>1. \A i \in 1..(next - 1) : /\ tx[i] = script[i].tx /\ tx[next - 1] = script[next - 1].tx
                                   /\ i # 1 => tx[i - 1] = script[i - 1].tx
      BY <2>1
    <3> HIDE DEF tx
    <3>2. \A i \in 1..(next - 1) :
            (tx[i] = tx[next - 1] /\ (i = 1 \/ tx[i - 1] # tx[i]))
              <=> (script[i].tx = script[next - 1].tx /\ (i = 1 \/ script[i - 1].tx # script[i].tx))
      BY <3>1
    <3> QED
      BY <1>3, <3>2 DEF Retry
  <2> HIDE DEF tx
  <2>3. next' \in 1..(next - 1)
    BY <2>1, <2>2, FirstOfTransaction
  <2> QED
    BY <1>3, <2>3 DEF Retry, GivesUp
<1>4. CASE Tick
  BY <1>4
<1>5. CASE Changing
  <2>1. Change
    BY <1>5 DEF Changing, RecordAccess, Arrive, Propose, ChangeStatus
  <2>2. changes' \in 0..MaxChanges
    BY <2>1, BoundsAssumption DEF Change, TypeOK
  <2> QED
    BY <1>5, <2>1, <2>2 DEF Change, Interferes
<1>6. CASE UNCHANGED vars
  BY <1>6
<1> QED
  BY <1>1, <1>2, <1>3, <1>4, <1>5, <1>6 DEF Next, Changing

\* What of a table another transaction leaves, in these terms.
LEMMA LogGrows ==
  ASSUME Interferes
  PROVE  log \subseteq log'
BY DEF Interferes, Changing, RecordAccess, Arrive, Propose, ChangeStatus

\* The types, and the shape of the request.
LEMMA RequestStep ==
  ASSUME TypeOK, TablesInv, RequestInv, [Next]_vars
  PROVE  TypeOK' /\ RequestInv'
<1>1. TablesInv'
  BY TablesStep
<1>2. /\ log' \subseteq LogRows /\ assets' \subseteq AssetRows /\ events' \subseteq EventRows
  BY <1>1 DEF TablesInv
<1>u. /\ Len(script) \in Nat /\ next \in 1..(Len(script) + 1)
      /\ Len(answers) = next - 1 /\ Len(answers) \in Nat /\ Len(answers) <= Len(script)
      /\ DOMAIN answers = Answered /\ ask \in Asks /\ IsList(answers)
  BY Underway DEF RequestInv
<1>v. \A i \in 1..Len(script) : IsStatement(script[i])
  BY Underway
<1>3. CASE Begin
  <2>1. script = <<>> /\ next = 1 /\ Len(answers) = 0
    BY <1>3, <1>u DEF Begin
  <2>2. script' = Script(ask, clock) /\ now' = clock /\ ask' = ask /\ asked' = log /\ log' = log
        /\ answers' = answers /\ next' = next /\ clock' = clock /\ changes' = changes
        /\ quiet' = quiet /\ retries' = retries
    BY <1>3 DEF Begin, tables
  <2>3. script' = Script(ask, now)'
    BY <2>2 DEF Script
  <2>4. Len(script') \in Nat
    BY <1>u, <2>2, ScriptIsScript DEF IsScript, IsList
  <2>5. TypeOK'
    BY <1>2, <2>1, <2>2, <2>4 DEF TypeOK
  <2>6. RequestInv'
    BY <2>1, <2>2, <2>3 DEF RequestInv, Answered
  <2> QED
    BY <2>5, <2>6
<1>4. ASSUME NEW result, Executes(result) PROVE TypeOK' /\ RequestInv'
  <2>1. /\ script' = script /\ now' = now /\ ask' = ask /\ asked' = asked /\ log' = log /\ next' = next + 1
        /\ answers' = Append(answers, result) /\ clock' = clock /\ changes' = changes /\ quiet' \in BOOLEAN
        /\ retries' = retries
    BY <1>4 DEF Executes, request, tables, TypeOK
  <2>2. next <= Len(script) /\ IsStatement(script[next]) /\ result \in Results(script[next])
    BY <1>4, <1>u, <1>v DEF Executes
  <2>3. /\ IsList(answers') /\ Len(answers') = Len(answers) + 1 /\ answers'[Len(answers) + 1] = result
        /\ \A i \in 1..Len(answers) : answers'[i] = answers[i]
    <3>1. Adds(answers', answers, result)
      BY <2>1 DEF Adds
    <3> QED
      BY <1>u, <3>1, Appended
  <2>4. script[next].shape # "page" => SumOf(result) \in Nat /\ \A c \in DOMAIN result : result[c] \in Nat
    BY <2>2, FigureCounts, FigureCells
  <2>5. DOMAIN answers' = 1..next /\ Len(answers) + 1 = next /\ next \in Nat
    BY <1>u, <2>3 DEF IsList
  <2>6. ASSUME NEW i \in 1..next, script[i].shape # "page"
        PROVE  SumOf(answers'[i]) \in Nat /\ \A c \in DOMAIN answers'[i] : answers'[i][c] \in Nat
    <3>1. CASE i = next
      BY <2>3, <2>4, <2>5, <2>6, <3>1
    <3>2. CASE i \in 1..Len(answers)
      BY <1>u, <2>3, <2>6, <3>2 DEF RequestInv, TypeOK, Answered
    <3> QED
      BY <2>5, <3>1, <3>2
  <2>7. TypeOK'
    BY <1>2, <1>u, <2>1, <2>2, <2>3, <2>5, <2>6 DEF TypeOK
  <2>8. Script(ask, now)' = Script(ask, now)
    BY <2>1 DEF Script
  <2>9. RequestInv'
    BY <2>1, <2>3, <2>5, <2>6, <2>8 DEF RequestInv, Answered
  <2> QED
    BY <2>7, <2>9
<1>5. CASE GivesUp
  <2>1. /\ script' = script /\ now' = now /\ ask' = ask /\ asked' = asked /\ log' = log
        /\ answers' = SubSeq(answers, 1, next' - 1) /\ clock' = clock /\ changes' = changes /\ quiet' = quiet
        /\ retries' \in 0..MaxRetries /\ next' \in 1..(next - 1)
    BY <1>5, BoundsAssumption DEF GivesUp, request, tables, TypeOK
  <2>2. next' - 1 \in 0..Len(answers) /\ next' \in Nat
    <3>1. next' \in 1..(next - 1) /\ next \in Nat /\ Len(answers) = next - 1
      BY <1>u, <2>1
    <3>2. \A m \in Nat : \A k \in 1..(m - 1) : k \in Nat /\ k - 1 \in 0..(m - 1)
      OBVIOUS
    <3> QED
      BY <3>1, <3>2
  <2>3. IsList(answers') /\ Len(answers') = next' - 1 /\ \A i \in 1..(next' - 1) : answers'[i] = answers[i]
    <3>1. Cuts(answers', answers, next' - 1)
      BY <2>1 DEF Cuts
    <3>2. IsList(answers)
      BY <1>u
    <3> QED
      BY <2>2, <3>1, <3>2, CutOff
  <2>4. DOMAIN answers' = 1..(next' - 1) /\ 1..(next' - 1) \subseteq Answered
    BY <2>2, <2>3 DEF IsList, Answered
  <2>a. next' \in 1..(Len(script) + 1)
    BY <1>u, <2>1, <2>2
  <2>b. \A i \in DOMAIN answers' : script'[i].shape # "page" => \A c \in DOMAIN answers'[i] : answers'[i][c] \in Nat
    BY <1>u, <2>1, <2>3, <2>4 DEF TypeOK
  <2>5. TypeOK'
    BY <1>2, <2>1, <2>3, <2>a, <2>b DEF TypeOK
  <2>6. Script(ask, now)' = Script(ask, now)
    BY <2>1 DEF Script
  <2>7. RequestInv'
    BY <2>1, <2>3, <2>4, <2>6 DEF RequestInv, Answered
  <2> QED
    BY <2>5, <2>7
<1>6. CASE Tick
  <2>1. clock' \in Times
    BY <1>6, CalendarAssumption DEF Tick, Times, Horizon, TypeOK
  <2>2. /\ script' = script /\ now' = now /\ ask' = ask /\ asked' = asked /\ log' = log /\ next' = next
        /\ answers' = answers /\ changes' = changes
        /\ quiet' = quiet /\ retries' = retries
    BY <1>6 DEF Tick, request, tables
  <2>3. Script(ask, now)' = Script(ask, now)
    BY <2>2 DEF Script
  <2> QED
    BY <1>2, <2>1, <2>2, <2>3 DEF TypeOK, RequestInv, Answered
<1>7. CASE Interferes
  <2>1. /\ script' = script /\ now' = now /\ ask' = ask /\ asked' = asked /\ next' = next /\ clock' = clock
        /\ answers' = answers /\ changes' \in 0..MaxChanges /\ quiet' \in BOOLEAN /\ retries' = retries
    BY <1>7 DEF Interferes, request
  <2>2. log \subseteq log'
    BY <1>7, LogGrows
  <2>3. Script(ask, now)' = Script(ask, now)
    BY <2>1 DEF Script
  <2> QED
    BY <1>2, <2>1, <2>2, <2>3 DEF TypeOK, RequestInv, Answered
<1>8. CASE UNCHANGED vars
  <2>1. /\ script' = script /\ now' = now /\ ask' = ask /\ asked' = asked /\ next' = next /\ clock' = clock
        /\ answers' = answers /\ changes' = changes /\ quiet' = quiet /\ retries' = retries /\ log' = log
    BY <1>8 DEF vars, request, tables
  <2>2. Script(ask, now)' = Script(ask, now)
    BY <2>1 DEF Script
  <2> QED
    BY <1>2, <2>1, <2>2 DEF TypeOK, RequestInv, Answered
<1> QED
  BY <1>3, <1>4, <1>5, <1>6, <1>7, <1>8, Steps

-----------------------------------------------------------------------------
(* The answers after a step.                                             *)

\* A result is added to the answers.
Added(result) ==
  /\ next \in Nat /\ next >= 1 /\ Answered = 1..(next - 1) /\ Answered' = 1..next
  /\ answers'[next] = result /\ \A i \in Answered : answers'[i] = answers[i]
  /\ script' = script /\ ask' = ask /\ asked' = asked /\ (quiet' => next = 1 \/ quiet)
  /\ UNCHANGED tables
  /\ next \in 1..Len(script) /\ IsStatement(script[next]) /\ result \in Results(script[next])

\* No result is added, and what is left of the answers is as it was.
Keeps ==
  /\ Answered' \subseteq Answered /\ ask' = ask
  /\ \A i \in Answered' : answers'[i] = answers[i] /\ script' = script /\ asked' = asked
  /\ quiet' => quiet /\ (Answered' = {} \/ UNCHANGED tables)

\* Every step does one or the other.
LEMMA AddedOrKept ==
  ASSUME TypeOK, RequestInv, [Next]_vars
  PROVE  Keeps \/ \E result : Added(result)
<1>u. /\ Len(script) \in Nat /\ next \in 1..(Len(script) + 1)
      /\ Len(answers) = next - 1 /\ Len(answers) \in Nat /\ Len(answers) <= Len(script)
      /\ IsList(answers)
  BY Underway DEF RequestInv
<1>v. \A i \in 1..Len(script) : IsStatement(script[i])
  BY Underway
<1>1. CASE Begin
  <2>1. script = <<>> /\ answers' = answers /\ quiet' = quiet /\ ask' = ask
    BY <1>1 DEF Begin
  <2>2. Len(answers) = 0
    BY <1>u, <2>1
  <2>3. Answered' = {} /\ Answered = {}
    BY <2>1, <2>2 DEF Answered
  <2> QED
    BY <2>1, <2>3 DEF Keeps
<1>2. ASSUME NEW result, Executes(result) PROVE Added(result)
  <2>1. /\ script' = script /\ ask' = ask /\ asked' = asked /\ answers' = Append(answers, result)
        /\ (quiet' => next = 1 \/ quiet) /\ UNCHANGED tables
        /\ next <= Len(script) /\ result \in Results(script[next])
    BY <1>2 DEF Executes, request
  <2>2. /\ Len(answers') = Len(answers) + 1 /\ answers'[Len(answers) + 1] = result
        /\ \A i \in 1..Len(answers) : answers'[i] = answers[i]
    <3>1. Adds(answers', answers, result)
      BY <2>1 DEF Adds
    <3> QED
      BY <1>u, <3>1, Appended
  <2>3. next \in Nat /\ next >= 1 /\ next \in 1..Len(script) /\ Len(answers) + 1 = next
    BY <1>u, <2>1
  <2>4. Answered = 1..(next - 1) /\ Answered' = 1..next
    BY <1>u, <2>2, <2>3 DEF Answered
  <2>5. IsStatement(script[next])
    BY <1>v, <2>3
  <2> QED
    BY <1>u, <2>1, <2>2, <2>3, <2>4, <2>5 DEF Added
<1>3. CASE GivesUp
  <2>1. /\ script' = script /\ ask' = ask /\ asked' = asked /\ answers' = SubSeq(answers, 1, next' - 1)
        /\ quiet' = quiet /\ UNCHANGED tables /\ next' \in 1..(next - 1)
    BY <1>3 DEF GivesUp, request
  <2>2. next' - 1 \in 0..Len(answers)
    <3>1. next' \in 1..(next - 1) /\ next \in Nat /\ Len(answers) = next - 1
      BY <1>u, <2>1
    <3>2. \A m \in Nat : \A k \in 1..(m - 1) : k \in Nat /\ k - 1 \in 0..(m - 1)
      OBVIOUS
    <3> QED
      BY <3>1, <3>2
  <2>3. Len(answers') = next' - 1 /\ \A i \in 1..(next' - 1) : answers'[i] = answers[i]
    <3>1. Cuts(answers', answers, next' - 1)
      BY <2>1 DEF Cuts
    <3>2. IsList(answers)
      BY <1>u
    <3> QED
      BY <2>2, <3>1, <3>2, CutOff
  <2>4. Answered' = 1..(next' - 1) /\ Answered' \subseteq Answered
    BY <2>2, <2>3 DEF Answered
  <2> QED
    BY <2>1, <2>3, <2>4 DEF Keeps
<1>4. CASE Tick
  <2>1. /\ script' = script /\ ask' = ask /\ asked' = asked /\ answers' = answers /\ quiet' = quiet
        /\ UNCHANGED tables
    BY <1>4 DEF Tick, request
  <2> QED
    BY <2>1 DEF Keeps, Answered
<1>5. CASE Interferes
  <2>1. /\ script' = script /\ ask' = ask /\ asked' = asked /\ answers' = answers /\ quiet' = FALSE
    BY <1>5 DEF Interferes, request
  <2> QED
    BY <2>1 DEF Keeps, Answered
<1>6. CASE UNCHANGED vars
  <2>1. /\ script' = script /\ ask' = ask /\ asked' = asked /\ answers' = answers /\ quiet' = quiet
        /\ UNCHANGED tables
    BY <1>6 DEF vars, request
  <2> QED
    BY <2>1 DEF Keeps, Answered
<1> QED
  BY <1>1, <1>2, <1>3, <1>4, <1>5, <1>6, Steps

\* The answers of a quiet request.
LEMMA QuietStep ==
  ASSUME TypeOK, RequestInv, QuietInv, [Next]_vars
  PROVE  QuietInv'
<1>1. CASE Keeps
  <2> SUFFICES ASSUME quiet', NEW i \in Answered' PROVE answers'[i] \in Results(script[i])'
    BY DEF QuietInv
  <2>1. /\ i \in Answered /\ answers'[i] = answers[i] /\ script' = script /\ quiet /\ UNCHANGED tables
    BY <1>1 DEF Keeps
  <2>2. answers[i] \in Results(script[i])
    BY <2>1 DEF QuietInv
  <2>3. PICK st : st = script[i]
    OBVIOUS
  <2>4. Results(st)' = Results(st)
    BY <2>1, ResultsUnchanged
  <2>5. Results(script[i])' = Results(st)'
    BY <2>1, <2>3 DEF Results, Counts, DistinctAssets, BucketCounts, PagesOf, Selected, Cell
  <2> QED
    BY <2>1, <2>2, <2>3, <2>4, <2>5
<1>2. ASSUME NEW result, Added(result) PROVE QuietInv'
  <2> SUFFICES ASSUME quiet', NEW i \in Answered' PROVE answers'[i] \in Results(script[i])'
    BY DEF QuietInv
  <2>1. /\ script' = script /\ UNCHANGED tables
    BY <1>2 DEF Added
  <2>2. answers'[i] \in Results(script[i])
    <3>1. CASE i = next
      BY <1>2, <3>1 DEF Added
    <3>2. CASE i \in Answered
      <4>1. i \in 1..(next - 1) /\ next \in Nat /\ (quiet' => next = 1 \/ quiet)
        BY <1>2, <3>2 DEF Added
      <4>2. quiet
        BY <4>1
      <4> QED
        BY <1>2, <3>2, <4>2 DEF Added, QuietInv
    <3>3. i = next \/ i \in Answered
      BY <1>2 DEF Added
    <3> QED
      BY <3>1, <3>2, <3>3
  <2>3. PICK st : st = script[i]
    OBVIOUS
  <2>4. Results(st)' = Results(st)
    BY <2>1, ResultsUnchanged
  <2>5. Results(script[i])' = Results(st)'
    BY <2>1, <2>3 DEF Results, Counts, DistinctAssets, BucketCounts, PagesOf, Selected, Cell
  <2> QED
    BY <2>2, <2>3, <2>4, <2>5
<1> QED
  BY <1>1, <1>2, AddedOrKept

-----------------------------------------------------------------------------
(* Figures and pages after a step.                                       *)

\* What a given statement of the script returns and counts after a step.
LEMMA AfterStep ==
  ASSUME NEW st, NEW i, script'[i] = st
  PROVE  Size(script[i])' = Size(st)' /\ Selected(script[i])' = Selected(st)'
BY DEF Size, Selected

\* Statements of the same kind that are alike count the same.
LEMMA AlikeSize ==
  ASSUME NEW s, NEW t, Alike(s, t), SameKind(s, t)
  PROVE  Size(s) = Size(t)
<1>1. Selected(s) = Selected(t)
  BY AlikeSelect
<1> QED
  BY <1>1 DEF Size, SameKind


\* What a statement of the script counts becomes no less.
LEMMA SizesOfScriptGrow ==
  ASSUME TypeOK, TablesInv, TablesInv', RequestInv, [Next]_vars, script' = script, NEW i \in 1..Len(script),
         Growing(script[i])
  PROVE  Size(script[i]) \in Nat /\ Size(script[i])' \in Nat /\ Size(script[i]) <= Size(script[i])'
<1>1. PICK st : st = script[i]
  OBVIOUS
<1>2. IsStatement(st) /\ Growing(st)
  BY <1>1, Underway
<1>3. Size(st) \in Nat /\ Size(st)' \in Nat /\ Size(st) <= Size(st)'
  BY <1>2, SizeGrows
<1>4. Size(script[i])' = Size(st)'
  BY <1>1, AfterStep
<1> QED
  BY <1>1, <1>3, <1>4

\* The figures.
LEMMA FigureStep ==
  ASSUME TypeOK, TablesInv, TablesInv', RequestInv, FigureInv, [Next]_vars
  PROVE  FigureInv'
<1>0. \A i \in Answered : script[i].shape # "page" => SumOf(answers[i]) \in Nat
  BY DEF RequestInv
<1>a. Answered \subseteq 1..Len(script)
  BY Underway DEF Answered
<1>1. CASE Keeps
  <2> SUFFICES ASSUME NEW i \in Answered', Growing(script'[i]), Exact(script'[i])
               PROVE  /\ SumOf(answers'[i]) <= Size(script[i])'
                      /\ \A j \in Answered' :
                           i < j /\ Alike(script'[i], script'[j]) /\ SameKind(script'[i], script'[j]) =>
                             SumOf(answers'[i]) <= SumOf(answers'[j])
    BY DEF FigureInv
  <2>1. /\ Answered' \subseteq Answered /\ script' = script
        /\ \A j \in Answered' : answers'[j] = answers[j]
    BY <1>1 DEF Keeps
  <2>2. Size(script[i]) \in Nat /\ Size(script[i])' \in Nat /\ Size(script[i]) <= Size(script[i])'
    BY <1>a, <2>1, SizesOfScriptGrow
  <2>3. SumOf(answers[i]) \in Nat /\ SumOf(answers[i]) <= Size(script[i])
    BY <1>0, <2>1 DEF FigureInv, Exact
  <2>4. SumOf(answers'[i]) <= Size(script[i])'
    BY <2>1, <2>2, <2>3
  <2>5. ASSUME NEW j \in Answered', i < j, Alike(script'[i], script'[j]), SameKind(script'[i], script'[j])
        PROVE  SumOf(answers'[i]) <= SumOf(answers'[j])
    BY <2>1, <2>5 DEF FigureInv
  <2> QED
    BY <2>4, <2>5
<1>2. ASSUME NEW result, Added(result) PROVE FigureInv'
  <2> SUFFICES ASSUME NEW i \in Answered', Growing(script'[i]), Exact(script'[i])
               PROVE  /\ SumOf(answers'[i]) <= Size(script[i])'
                      /\ \A j \in Answered' :
                           i < j /\ Alike(script'[i], script'[j]) /\ SameKind(script'[i], script'[j]) =>
                             SumOf(answers'[i]) <= SumOf(answers'[j])
    BY DEF FigureInv
  <2>1. /\ script' = script /\ next \in Nat /\ Answered = 1..(next - 1) /\ Answered' = 1..next
        /\ next \in 1..Len(script) /\ answers'[next] = result /\ \A j \in Answered : answers'[j] = answers[j]
    BY <1>2 DEF Added
  <2>2. IsStatement(script[next]) /\ result \in Results(script[next])
    BY <1>2 DEF Added
  <2>3. i \in 1..Len(script)
    BY <1>a, <2>1
  <2>4. Size(script[i]) \in Nat /\ Size(script[i])' \in Nat /\ Size(script[i]) <= Size(script[i])'
    BY <2>1, <2>3, SizesOfScriptGrow
  <2>5. script[next].shape # "page" =>
          /\ SumOf(result) \in Nat /\ Size(script[next]) \in Nat /\ Size(script[next]) <= SumOf(result)
          /\ Exact(script[next]) => SumOf(result) = Size(script[next])
    BY <2>2, FigureCounts
  <2>6. CASE i \in Answered
    <3>1. SumOf(answers[i]) \in Nat /\ SumOf(answers[i]) <= Size(script[i]) /\ answers'[i] = answers[i]
      BY <1>0, <2>1, <2>6 DEF FigureInv, Exact
    <3>2. SumOf(answers'[i]) <= Size(script[i])'
      BY <2>4, <3>1
    <3>3. ASSUME NEW j \in Answered', i < j, Alike(script'[i], script'[j]), SameKind(script'[i], script'[j])
          PROVE  SumOf(answers'[i]) <= SumOf(answers'[j])
      <4>1. CASE j \in Answered
        BY <2>1, <2>6, <3>3, <4>1 DEF FigureInv
      <4>2. CASE j = next
        <5>1. Size(script[i]) = Size(script[next]) /\ script[next].shape # "page"
          BY <2>1, <3>3, <4>2, AlikeSize DEF SameKind
        <5> QED
          BY <2>1, <2>4, <2>5, <3>1, <4>2, <5>1
      <4> QED
        BY <2>1, <4>1, <4>2
    <3> QED
      BY <3>2, <3>3
  <2>7. CASE i = next
    <3>1. SumOf(answers'[i]) = Size(script[i])
      BY <2>1, <2>5, <2>7 DEF Exact
    <3>2. \A j \in Answered' : ~(i < j)
      BY <2>1, <2>7
    <3> QED
      BY <2>4, <3>1, <3>2
  <2> QED
    BY <2>1, <2>6, <2>7
<1> QED
  BY <1>1, <1>2, AddedOrKept

\* A longer list has a page as long or longer.
LEMMA PageLengthGrows ==
  ASSUME NEW st, st.limit \in Nat, st.offset \in Nat, NEW m \in Nat, NEW n \in Nat, m <= n
  PROVE  PageLength(st, m) <= PageLength(st, n)
BY DEF PageLength

\* The pages.
LEMMA PageStep ==
  ASSUME TypeOK, TablesInv, RequestInv, RequestInv', FigureInv, PageInv, [Next]_vars
  PROVE  PageInv'
<1>1. CASE Keeps
  <2> SUFFICES ASSUME NEW i \in Answered', script'[i].shape = "page", Growing(script'[i])
               PROVE  PageLength(script'[i], SumOf(answers'[i - 1])) <= Len(answers'[i])
    BY DEF PageInv
  <2>1. /\ Answered' \subseteq Answered /\ script' = script
        /\ \A j \in Answered' : answers'[j] = answers[j]
    BY <1>1 DEF Keeps
  <2>2. i \in 1..Len(script) /\ Len(answers) \in Nat /\ i \in Answered
    BY <2>1, Underway DEF Answered
  <2>3. i - 1 \in 1..Len(script)
    BY <2>1, <2>2, Underway DEF PagesFollow
  <2>4. i - 1 \in Answered'
    <3>1. PICK n : n = Len(answers')
      OBVIOUS
    <3>2. Answered' = 1..n /\ i \in 1..n /\ n \in Nat
      BY <3>1 DEF Answered, RequestInv, IsList
    <3> QED
      BY <2>3, <3>2
  <2>5. PageLength(script[i], SumOf(answers[i - 1])) <= Len(answers[i])
    BY <2>1, <2>2 DEF PageInv
  <2> QED
    BY <2>1, <2>4, <2>5
<1>2. ASSUME NEW result, Added(result) PROVE PageInv'
  <2> SUFFICES ASSUME NEW i \in Answered', script'[i].shape = "page", Growing(script'[i])
               PROVE  PageLength(script'[i], SumOf(answers'[i - 1])) <= Len(answers'[i])
    BY DEF PageInv
  <2>1. /\ script' = script /\ next \in Nat /\ Answered = 1..(next - 1) /\ Answered' = 1..next
        /\ next \in 1..Len(script) /\ answers'[next] = result /\ \A j \in Answered : answers'[j] = answers[j]
    BY <1>2 DEF Added
  <2>2. IsStatement(script[next]) /\ result \in Results(script[next])
    BY <1>2 DEF Added
  <2>3. i \in 1..Len(script)
    BY <2>1, Underway
  <2>4. /\ i - 1 \in 1..Len(script) /\ script[i - 1].shape = "counts" /\ Alike(script[i - 1], script[i])
        /\ script[i - 1].only = script[i].only
    BY <2>1, <2>3, Underway DEF PagesFollow
  <2>5. i - 1 \in Answered /\ answers'[i - 1] = answers[i - 1]
    BY <2>1, <2>4
  <2>6. CASE i \in Answered
    BY <2>1, <2>5, <2>6 DEF PageInv
  <2>7. CASE i = next
    <3>1. Len(result) = PageLength(script[i], Cardinality(Selected(script[i])))
      BY <2>1, <2>2, <2>7, PageIsAsLong
    <3>2. Growing(script[i - 1]) /\ Exact(script[i - 1])
      BY <2>1, <2>4 DEF Growing, Exact, Alike
    <3>3. SumOf(answers[i - 1]) \in Nat /\ SumOf(answers[i - 1]) <= Size(script[i - 1])
      BY <2>4, <2>5, <3>2 DEF FigureInv, RequestInv
    <3>4. Size(script[i - 1]) = Cardinality(Selected(script[i]))
      BY <2>4, AlikeSelect DEF Size
    <3>5. Cardinality(Selected(script[i])) \in Nat /\ script[i].limit \in Nat /\ script[i].offset \in Nat
      BY <2>1, <2>2, <2>7, SelectedIsKeyed DEF IsStatement
    <3>6. PageLength(script[i], SumOf(answers[i - 1])) <= PageLength(script[i], Cardinality(Selected(script[i])))
      BY <3>3, <3>4, <3>5, PageLengthGrows
    <3> QED
      BY <2>1, <2>5, <2>7, <3>1, <3>6
  <2> QED
    BY <2>1, <2>6, <2>7
<1> QED
  BY <1>1, <1>2, AddedOrKept

-----------------------------------------------------------------------------
(* The drill-down of an overview after a step.                           *)

\* The figure by action shows for an action the rows of that action.
LEMMA PerAction ==
  ASSUME TablesInv, NEW period, NEW as, NEW bs, NEW action, action # None,
         NEW st, IsOf(st, as, "access_log", period, "counts", <<>>, None, Ever), IsBy(st, "action", None),
         NEW t, IsOf(t, bs, "access_log", period, "counts", OnlyColumn("action", action), None, Ever),
         NEW result \in Results(st)
  PROVE  CellOf(result, <<action, 0>>) = Cardinality(Selected(t))
<1> DEFINE S == Selected(st)
           T == Selected(t)
           c == <<action, 0>>
<1>1. /\ st.table = t.table /\ st.period = t.period /\ st.bucket = None /\ t.bucket = None
      /\ st.only = <<>> /\ t.only = OnlyColumn("action", action) /\ st.shape = "counts"
      /\ st.by = "action" /\ st.interval = None
  BY DEF IsOf, IsBy
<1>2. \A r : Cell(st, r) = <<r["action"], 0>>
  BY <1>1 DEF Cell, None
<1>3. result = [d \in {Cell(st, r) : r \in S} |-> Cardinality({r \in S : Cell(st, r) = d})]
  BY <1>1 DEF Results, Counts
<1>4. \A r : r \in T <=> r \in S /\ r["action"] = action
  <2>1. DOMAIN st.only = {} /\ DOMAIN t.only = {"action"} /\ t.only["action"] = action
    BY <1>1 DEF OnlyColumn
  <2> QED
    BY <1>1, <2>1 DEF Selected
<1>5. \A r : Cell(st, r) = c <=> r["action"] = action
  BY <1>2
<1> HIDE DEF S, T, c
<1>6. {r \in S : Cell(st, r) = c} = T
  BY <1>4, <1>5
<1>7. CASE c \in DOMAIN result
  BY <1>3, <1>6, <1>7 DEF CellOf, T, c
<1>8. CASE c \notin DOMAIN result
  <2>1. T = {}
    BY <1>3, <1>4, <1>5, <1>8
  <2> QED
    BY <1>8, <2>1, FS_EmptySet DEF CellOf, T, c
<1> QED
  BY <1>7, <1>8

\* The script of an overview.
LEMMA OverviewScript ==
  ASSUME TypeOK, RequestInv, ask.report = "overview", script # <<>>
  PROVE  /\ Len(script) = 3
         /\ IsOf(script[2], <<"overview", "action">>, "access_log", ask.period, "counts", <<>>, None, Ever)
         /\ IsBy(script[2], "action", None)
         /\ IsOf(script[3], <<"overview", "series">>, "access_log", ask.period, "counts",
                 OnlyColumn("action", ask.action), None, Ever)
         /\ IsStatement(script[3]) /\ Exact(script[3]) /\ Growing(script[3]) /\ script[3].shape = "counts"
<1>1. script = AccessOverview(ask.period, ask.action, ask.interval)
  BY ScriptOf DEF RequestInv, TypeOK
<1>2. /\ Len(script) = 3
      /\ IsOf(script[2], <<"overview", "action">>, "access_log", ask.period, "counts", <<>>, None, Ever)
      /\ IsBy(script[2], "action", None)
      /\ IsOf(script[3], <<"overview", "series">>, "access_log", ask.period, "counts",
              OnlyColumn("action", ask.action), None, Ever)
  BY <1>1, OverviewFields
<1>3. IsStatement(script[3]) /\ Exact(script[3]) /\ Growing(script[3]) /\ script[3].shape = "counts"
  <2>1. "access_log" \in Tables /\ "action" \in Fixed("access_log")
    BY DEF Tables, Fixed
  <2>2. IsStatement(script[3]) /\ Exact(script[3])
    BY <1>2, <2>1, Statements
  <2>3. Growing(script[3])
    BY <1>2, <2>1, Growth
  <2> QED
    BY <1>2, <2>2, <2>3 DEF IsOf
<1> QED
  BY <1>2, <1>3

\* The figure of an action.
LEMMA DrillStep ==
  ASSUME TypeOK, TablesInv, TablesInv', RequestInv, DrillInv, [Next]_vars
  PROVE  DrillInv'
<1>0. Answered \subseteq 1..Len(script) /\ (Answered # {} => script # <<>>)
  <2>1. Len(answers) \in Nat /\ Len(script) \in Nat /\ Len(answers) <= Len(script)
    BY Underway
  <2>2. CASE script = <<>>
    BY <2>1, <2>2 DEF Answered
  <2>3. CASE script # <<>>
    BY <2>1, <2>3 DEF Answered
  <2> QED
    BY <2>2, <2>3
<1> DEFINE cell(f) == CellOf(f, <<ask.action, 0>>)
<1>1. CASE Keeps
  <2> SUFFICES ASSUME ask.report = "overview", ask.action # None, NEW i \in {2, 3}, i \in Answered'
               PROVE  /\ i = 2 => cell(answers'[2]) \in 0..(Size(script[3])')
                      /\ i = 3 => cell(answers'[2]) <= SumOf(answers'[3])
    BY <1>1 DEF Keeps, DrillInv, CellOf
  <2>1. /\ i \in Answered /\ script' = script /\ answers'[i] = answers[i]
    BY <1>1 DEF Keeps
  <2>2. /\ Len(script) = 3 /\ IsStatement(script[3]) /\ Growing(script[3])
    BY <1>0, <2>1, OverviewScript
  <2>3. Size(script[3]) \in Nat /\ Size(script[3])' \in Nat /\ Size(script[3]) <= Size(script[3])'
    BY <2>1, <2>2, SizesOfScriptGrow
  <2>4. CASE i = 2
    <3>1. cell(answers[2]) \in 0..Size(script[3])
      BY <2>1, <2>4 DEF DrillInv
    <3> QED
      BY <2>1, <2>3, <2>4, <3>1
  <2>5. CASE i = 3
    <3>1. 2 \in Answered'
      BY <2>5, <2>1 DEF Answered
    <3>2. answers'[2] = answers[2]
      BY <1>1, <3>1 DEF Keeps
    <3> QED
      BY <2>1, <2>5, <3>2 DEF DrillInv
  <2> QED
    BY <2>4, <2>5
<1>2. ASSUME NEW result, Added(result) PROVE DrillInv'
  <2> SUFFICES ASSUME ask.report = "overview", ask.action # None, NEW i \in {2, 3}, i \in Answered'
               PROVE  /\ i = 2 => cell(answers'[2]) \in 0..(Size(script[3])')
                      /\ i = 3 => cell(answers'[2]) <= SumOf(answers'[3])
    BY <1>2 DEF Added, DrillInv, CellOf
  <2>1. /\ script' = script /\ next \in Nat /\ Answered = 1..(next - 1) /\ Answered' = 1..next
        /\ next \in 1..Len(script) /\ answers'[next] = result /\ \A j \in Answered : answers'[j] = answers[j]
        /\ result \in Results(script[next])
    BY <1>2 DEF Added
  <2>2. script # <<>>
    BY <2>1
  <2>3. /\ Len(script) = 3 /\ IsStatement(script[3]) /\ Growing(script[3]) /\ Exact(script[3])
        /\ script[3].shape = "counts"
    BY <2>2, OverviewScript
  <2>4. Size(script[3]) \in Nat /\ Size(script[3])' \in Nat /\ Size(script[3]) <= Size(script[3])'
    BY <2>1, <2>3, SizesOfScriptGrow
  <2>5. CASE i \in Answered
    <3>1. /\ i = 2 => cell(answers[2]) \in 0..Size(script[3])
          /\ i = 3 => cell(answers[2]) <= SumOf(answers[3])
      BY <2>5 DEF DrillInv
    <3>2. answers'[i] = answers[i] /\ answers'[2] = answers[2]
      BY <2>1, <2>5
    <3> QED
      BY <2>4, <3>1, <3>2
  <2>6. CASE next = 2 /\ i = 2
    <3>1. cell(result) = Cardinality(Selected(script[3]))
      BY <2>1, <2>2, <2>6, OverviewScript, PerAction
    <3>2. cell(result) = Size(script[3])
      BY <2>3, <3>1 DEF Size
    <3> QED
      BY <2>1, <2>4, <2>6, <3>2
  <2>7. CASE next = 3 /\ i = 3
    <3>1. SumOf(result) = Size(script[3])
      BY <2>1, <2>3, <2>7, FigureCounts
    <3>2. 2 \in Answered
      BY <2>1, <2>7
    <3>3. cell(answers[2]) \in 0..Size(script[3]) /\ answers'[2] = answers[2]
      BY <2>1, <3>2 DEF DrillInv
    <3> QED
      BY <2>1, <2>4, <2>7, <3>1, <3>3
  <2> QED
    BY <2>1, <2>5, <2>6, <2>7
<1> QED
  BY <1>1, <1>2, AddedOrKept

-----------------------------------------------------------------------------
(* Reading the log page by page.                                         *)

\* The rows before row r.
NewerThan(r) == {s \in log : Newer(s, r)}

\* The newest row first is an order of all the rows of the log, and the rank
\* of a row is its place in it.
LEMMA Places ==
  ASSUME TablesInv
  PROVE  /\ IsFiniteSet(log)
         /\ \A r \in log : /\ Cardinality(NewerThan(r)) \in Nat
                           /\ Rank(r) = Cardinality(NewerThan(r)) + 1 /\ Rank(r) <= Cardinality(log)
                           /\ Cardinality({s \in log : ~Newer(r, s)}) = Cardinality(NewerThan(r)) + 1
         /\ \A q, r \in log : Cardinality(NewerThan(q)) = Cardinality(NewerThan(r)) => q = r
<1> DEFINE R == {p \in log \X log : Newer(p[1], p[2])}
<1>1. IsFiniteSet(log)
  BY DEF TablesInv, Keyed
<1>2. \A r \in log : r.time \in Nat /\ r.id \in Nat
  BY CalendarAssumption DEF TablesInv, LogRows, Times, Horizon
<1>3. \A q, r \in log : q.id = r.id => q = r
  BY DEF TablesInv, Keyed
<1>4. /\ \A x \in log : ~Newer(x, x)
      /\ \A x, y \in log : x = y \/ Newer(x, y) \/ Newer(y, x)
      /\ \A x, y, z \in log : Newer(x, y) /\ Newer(y, z) => Newer(x, z)
      /\ \A x, y \in log : ~(Newer(x, y) /\ Newer(y, x))
  BY <1>2, <1>3 DEF Newer
<1>5. \A x, y \in log : <<x, y>> \in R <=> Newer(x, y)
  OBVIOUS
<1> HIDE DEF R
<1>6. Orders(R, log)
  BY <1>4, <1>5 DEF Orders
<1>7. ASSUME NEW r \in log
      PROVE  /\ IsFiniteSet(NewerThan(r)) /\ Cardinality(NewerThan(r)) \in Nat
             /\ NewerThan(r) = Before(r, log, R)
  <2>1. NewerThan(r) \in SUBSET log
    BY DEF NewerThan
  <2>2. NewerThan(r) = Before(r, log, R)
    BY <1>5 DEF NewerThan, Before
  <2> QED
    BY <1>1, <2>1, <2>2, FS_Subset, FS_CardinalityType
<1>8. ASSUME NEW r \in log
      PROVE  /\ Rank(r) = Cardinality(NewerThan(r)) + 1 /\ Rank(r) <= Cardinality(log)
             /\ Cardinality({s \in log : ~Newer(r, s)}) = Cardinality(NewerThan(r)) + 1
  <2> DEFINE upTo == {s \in log : s.time > r.time \/ (s.time = r.time /\ s.id >= r.id)}
             notAfter == {s \in log : ~Newer(r, s)}
  <2>1. \A s \in log : (s.time > r.time \/ (s.time = r.time /\ s.id >= r.id)) <=> (Newer(s, r) \/ s = r)
    BY <1>2, <1>3 DEF Newer
  <2>2. upTo = NewerThan(r) \cup {r}
    BY <2>1 DEF NewerThan
  <2>3. notAfter = NewerThan(r) \cup {r}
    BY <1>4 DEF NewerThan
  <2>4. r \notin NewerThan(r)
    BY <1>4 DEF NewerThan
  <2>5. Cardinality(NewerThan(r) \cup {r}) = Cardinality(NewerThan(r)) + 1
    BY <1>7, <2>4, FS_AddElement
  <2>6. upTo \in SUBSET log
    OBVIOUS
  <2>7. Cardinality(upTo) <= Cardinality(log)
    BY <1>1, <2>6, FS_Subset
  <2>8. Rank(r) = Cardinality(upTo)
    BY DEF Rank
  <2> QED
    BY <2>2, <2>3, <2>5, <2>7, <2>8
<1>9. ASSUME NEW q \in log, NEW r \in log, Cardinality(NewerThan(q)) = Cardinality(NewerThan(r)), q # r PROVE FALSE
  <2>1. <<q, r>> \in R \/ <<r, q>> \in R
    BY <1>4, <1>5, <1>9
  <2>2. /\ Cardinality(Before(q, log, R)) = Cardinality(Before(r, log, R))
        /\ Cardinality(Before(q, log, R)) \in Nat
    BY <1>7, <1>9
  <2>3. CASE <<q, r>> \in R
    <3>1. Cardinality(Before(q, log, R)) < Cardinality(Before(r, log, R))
      BY <1>1, <1>6, <2>3, FewerBefore
    <3> QED
      BY <2>2, <3>1
  <2>4. CASE <<r, q>> \in R
    <3>1. Cardinality(Before(r, log, R)) < Cardinality(Before(q, log, R))
      BY <1>1, <1>6, <2>4, FewerBefore
    <3> QED
      BY <2>2, <3>1
  <2> QED
    BY <2>1, <2>3, <2>4
<1> QED
  BY <1>1, <1>7, <1>8, <1>9

\* Ranks are positive numbers, and not larger than the log.
LEMMA RankBounds ==
  ASSUME TablesInv, NEW r \in log
  PROVE  Rank(r) \in Nat /\ Rank(r) >= 1 /\ Rank(r) <= Cardinality(log) /\ Cardinality(log) \in Nat
<1>1. /\ Cardinality(NewerThan(r)) \in Nat
      /\ Rank(r) = Cardinality(NewerThan(r)) + 1 /\ Rank(r) <= Cardinality(log)
  BY Places
<1>2. Cardinality(log) \in Nat
  BY Places, FS_CardinalityType
<1> QED
  BY <1>1, <1>2

\* A page of the log has the rows whose place is on it.
LEMMA RowsOfPage ==
  ASSUME TablesInv, NEW st, IsStatement(st), st.shape = "page", st.table = "access_log", st.period = Ever,
         st.only = <<>>, st.bucket = None, NEW page \in Results(st),
         NEW r \in log, st.offset < Rank(r), Rank(r) <= st.offset + st.limit
  PROVE  \E k \in DOMAIN page : page[k] = r
<1>1. Selected(st) = log
  <2>1. From(st.table) = log
    BY DEF From
  <2>2. \A row : Within(row.time, st.period)
    BY DEF Within, Ever, Period
  <2>3. DOMAIN st.only = {}
    OBVIOUS
  <2> QED
    BY <2>1, <2>2, <2>3 DEF Selected
<1>2. /\ page \in [1..PageLength(st, Cardinality(log)) -> log]
      /\ \A i \in DOMAIN page : MayBeAt(st.offset + i, page[i], log)
  BY <1>1 DEF Results, PagesOf
<1>3. st.limit \in Nat /\ st.offset \in Nat
  BY DEF IsStatement
<1>4. Rank(r) \in Nat /\ Rank(r) <= Cardinality(log) /\ Cardinality(log) \in Nat
  BY RankBounds
<1> DEFINE k == Rank(r) - st.offset
           q == page[k]
<1>5. k \in 1..PageLength(st, Cardinality(log)) /\ st.offset + k = Rank(r)
  BY <1>3, <1>4 DEF PageLength
<1> HIDE DEF k
<1>6. q \in log /\ MayBeAt(Rank(r), q, log)
  BY <1>2, <1>5
<1> HIDE DEF q
<1>7. Cardinality(NewerThan(q)) < Rank(r) /\ Rank(r) <= Cardinality({s \in log : ~Newer(q, s)})
  BY <1>6 DEF MayBeAt, NewerThan
<1>8. Cardinality(NewerThan(q)) = Cardinality(NewerThan(r))
  <2>1. /\ Cardinality(NewerThan(q)) \in Nat /\ Cardinality({s \in log : ~Newer(q, s)}) = Cardinality(NewerThan(q)) + 1
        /\ Cardinality(NewerThan(r)) \in Nat /\ Rank(r) = Cardinality(NewerThan(r)) + 1
    BY <1>6, Places
  <2> QED
    BY <1>7, <2>1
<1>9. q = r
  BY <1>6, <1>8, Places
<1> QED
  BY <1>2, <1>5, <1>9 DEF q

\* Rows are only added to the log, so a row does not lose its rank.
LEMMA RanksGrow ==
  ASSUME TypeOK, TablesInv, TablesInv', RequestInv, [Next]_vars, NEW r \in log
  PROVE  r \in log' /\ Rank(r) \in Nat /\ Rank(r)' \in Nat /\ Rank(r) <= Rank(r)'
<1>1. log \subseteq log'
  <2>1. CASE Interferes
    BY <2>1, LogGrows
  <2>2. CASE Begin \/ GivesUp \/ Tick \/ UNCHANGED vars \/ \E result : Executes(result)
    BY <2>2 DEF Begin, GivesUp, Tick, Executes, tables, vars
  <2> QED
    BY <2>1, <2>2, Steps
<1> DEFINE S == {s \in log : s.time > r.time \/ (s.time = r.time /\ s.id >= r.id)}
           T == {s \in log' : s.time > r.time \/ (s.time = r.time /\ s.id >= r.id)}
<1>2. S \subseteq T /\ T \subseteq log' /\ S \subseteq log
  BY <1>1
<1>3. IsFiniteSet(log) /\ IsFiniteSet(log')
  BY DEF TablesInv, Keyed
<1>4. Rank(r) = Cardinality(S) /\ Rank(r)' = Cardinality(T)
  BY DEF Rank
<1> HIDE DEF S, T
<1>5. IsFiniteSet(S) /\ IsFiniteSet(T) /\ Cardinality(S) <= Cardinality(T)
  BY <1>2, <1>3, FS_Subset
<1> QED
  BY <1>1, <1>4, <1>5, FS_CardinalityType

\* Reading on, page by page.
LEMMA PagingStep ==
  ASSUME TypeOK, TablesInv, TablesInv', RequestInv, RequestInv', PagingInv, [Next]_vars
  PROVE  PagingInv'
<1>1. CASE Keeps
  <2> SUFFICES ASSUME ask.report = "log", NEW i \in Answered', NEW r \in asked', script'[i].shape = "page"
               PROVE  (\E j \in 1..i : IsOn(r, j)') \/ Rank(r)' > script'[i].offset + script'[i].limit
    BY <1>1 DEF Keeps, PagingInv
  <2>1. i \in Answered /\ script' = script /\ asked' = asked
    BY <1>1 DEF Keeps
  <2>2. r \in log /\ asked \subseteq log
    BY <2>1 DEF RequestInv
  <2>3. CASE \E j \in 1..i : IsOn(r, j)
    <3>1. PICK j \in 1..i : IsOn(r, j)
      BY <2>3
    <3>2. j \in Answered' /\ i \in Nat
      BY DEF Answered, RequestInv, IsList
    <3>3. answers'[j] = answers[j]
      BY <1>1, <3>2 DEF Keeps
    <3> QED
      BY <2>1, <3>1, <3>3 DEF IsOn
  <2>4. CASE Rank(r) > script[i].offset + script[i].limit
    <3>1. IsStatement(script[i])
      BY <2>1, Underway DEF Answered
    <3>2. script[i].offset \in Nat /\ script[i].limit \in Nat
      BY <2>1, <3>1 DEF IsStatement
    <3>3. Rank(r) \in Nat /\ Rank(r)' \in Nat /\ Rank(r) <= Rank(r)'
      BY <2>2, RanksGrow
    <3> QED
      BY <2>1, <2>4, <3>2, <3>3
  <2> QED
    BY <2>1, <2>3, <2>4 DEF PagingInv
<1>2. ASSUME NEW result, Added(result) PROVE PagingInv'
  <2>1. /\ script' = script /\ asked' = asked /\ ask' = ask /\ log' = log
        /\ next \in Nat /\ Answered = 1..(next - 1) /\ Answered' = 1..next
        /\ next \in 1..Len(script) /\ answers'[next] = result /\ \A j \in Answered : answers'[j] = answers[j]
        /\ IsStatement(script[next]) /\ result \in Results(script[next])
    BY <1>2 DEF Added, tables
  <2> SUFFICES ASSUME ask.report = "log", NEW i \in Answered', NEW r \in asked', script[i].shape = "page"
               PROVE  (\E j \in 1..i : IsOn(r, j)') \/ Rank(r)' > script[i].offset + script[i].limit
    BY <2>1 DEF PagingInv
  <2>2. r \in asked /\ r \in log
    BY <2>1 DEF RequestInv
  <2>3. Rank(r)' = Rank(r)
    BY <2>1 DEF Rank
  <2>4. \A j \in Answered : IsOn(r, j) => IsOn(r, j)'
    BY <2>1 DEF IsOn
  <2>5. CASE i \in Answered
    <3>1. (\E j \in 1..i : IsOn(r, j)) \/ Rank(r) > script[i].offset + script[i].limit
      BY <2>2, <2>5 DEF PagingInv
    <3>2. \A j \in 1..i : j \in Answered
      BY <2>1, <2>5
    <3> QED
      BY <2>3, <2>4, <3>1, <3>2
  <2>6. CASE i = next
    <3>1. Rank(r) \in Nat /\ Rank(r) >= 1
      BY <2>2, RankBounds
    <3>2. IsPageOfLog(script, i)
      <4>1. ReadsOn(script)
        <5>1. script # <<>>
          BY <2>1
        <5> QED
          BY <5>1, ScriptIsScript DEF RequestInv, TypeOK
      <4> QED
        BY <2>1, <2>6, <4>1 DEF ReadsOn
    <3>3. script[i].limit \in Nat /\ script[i].offset \in Nat
      BY <3>2 DEF IsPageOfLog
    <3>4. CASE script[i].offset < Rank(r) /\ Rank(r) <= script[i].offset + script[i].limit
      <4>1. \E k \in DOMAIN result : result[k] = r
        BY <2>1, <2>2, <2>6, <3>2, <3>4, RowsOfPage DEF IsPageOfLog
      <4>2. IsOn(r, i)'
        BY <2>1, <2>6, <4>1 DEF IsOn
      <4> QED
        BY <2>1, <2>6, <4>2
    <3>5. CASE Rank(r) <= script[i].offset
      <4>1. PICK j \in 1..Len(script) :
              j < i /\ script[j].shape = "page" /\ script[i].offset = script[j].offset + script[j].limit
        BY <3>1, <3>2, <3>3, <3>5 DEF IsPageOfLog
      <4>2. j \in Answered
        BY <2>1, <2>6, <4>1
      <4>3. (\E h \in 1..j : IsOn(r, h)) \/ Rank(r) > script[j].offset + script[j].limit
        BY <2>2, <4>1, <4>2 DEF PagingInv
      <4>4. ~(Rank(r) > script[j].offset + script[j].limit)
        BY <3>1, <3>3, <3>5, <4>1
      <4>5. PICK h \in 1..j : IsOn(r, h)
        BY <4>3, <4>4
      <4>6. h \in Answered /\ h \in 1..i
        BY <2>1, <2>6, <4>1, <4>2
      <4> QED
        BY <2>4, <4>5, <4>6
    <3>6. CASE Rank(r) > script[i].offset + script[i].limit
      BY <2>3, <3>6
    <3> QED
      BY <3>1, <3>3, <3>4, <3>5, <3>6
  <2> QED
    BY <2>1, <2>5, <2>6
<1> QED
  BY <1>1, <1>2, AddedOrKept

-----------------------------------------------------------------------------
(* The invariant holds, and the figures of a screen agree.               *)

\* At the start nothing has been answered.
LEMMA InvariantInit ==
  ASSUME Init
  PROVE  ReportsInv
<1>1. /\ clock = StartTime /\ log \in Logs /\ changes = 0 /\ ask \in Asks /\ now = StartTime
      /\ script = <<>> /\ next = 1 /\ answers = <<>> /\ asked = {} /\ quiet = TRUE /\ retries = 0
  BY DEF Init
<1>2. PICK c \in Catalogues : assets = c.assets /\ events = c.events
  BY DEF Init
<1>3. TablesInv
  BY <1>1, <1>2, TablesAssumption DEF TablesInv
<1>4. Len(answers) = 0 /\ Len(script) = 0 /\ DOMAIN answers = {} /\ IsList(answers)
  <2>1. IsList(<<>>)
    BY DEF IsList
  <2> QED
    BY <1>1, <2>1
<1>5. Answered = {}
  BY <1>4 DEF Answered
<1>6. TypeOK
  <2>1. StartTime \in Times
    BY CalendarAssumption DEF Times, Horizon
  <2>2. 0 \in 0..MaxChanges /\ 0 \in 0..MaxRetries
    BY BoundsAssumption
  <2>3. next \in 1..(Len(script) + 1) /\ Len(answers) = next - 1
    BY <1>1, <1>4
  <2> QED
    BY <1>1, <1>3, <1>4, <2>1, <2>2, <2>3 DEF TypeOK, TablesInv
<1>7. RequestInv
  BY <1>1, <1>4, <1>5 DEF RequestInv
<1>8. QuietInv /\ FigureInv /\ PageInv /\ DrillInv /\ PagingInv
  BY <1>5 DEF QuietInv, FigureInv, PageInv, DrillInv, PagingInv
<1> QED
  BY <1>3, <1>6, <1>7, <1>8 DEF ReportsInv

\* Every step keeps the invariant.
LEMMA InvariantStep ==
  ASSUME ReportsInv, [Next]_vars
  PROVE  ReportsInv'
<1>1. TypeOK /\ TablesInv /\ RequestInv /\ QuietInv /\ FigureInv /\ PageInv /\ DrillInv /\ PagingInv
  BY DEF ReportsInv
<1>2. TablesInv'
  BY <1>1, TablesStep
<1>3. TypeOK' /\ RequestInv'
  BY <1>1, RequestStep
<1>4. QuietInv'
  BY <1>1, QuietStep
<1>5. FigureInv'
  BY <1>1, <1>2, FigureStep
<1>6. PageInv'
  BY <1>1, <1>3, PageStep
<1>7. DrillInv'
  BY <1>1, <1>2, DrillStep
<1>8. PagingInv'
  BY <1>1, <1>2, <1>3, PagingStep
<1> QED
  BY <1>2, <1>3, <1>4, <1>5, <1>6, <1>7, <1>8 DEF ReportsInv

\* The invariant of the reports: the tables keep their keys, each answer is of
\* the statement it belongs to, and what it shows stands in its relation to
\* what the statement would show now.
THEOREM Invariance == Spec => []ReportsInv
<1>1. Init => ReportsInv
  BY InvariantInit
<1>2. ReportsInv /\ [Next]_vars => ReportsInv'
  BY InvariantStep
<1> QED
  BY <1>1, <1>2, PTL DEF Spec

\* The types of the tables, the request and the answers.
THEOREM TypeCorrect == Spec => []TypeOK
<1>1. ReportsInv => TypeOK
  BY DEF ReportsInv
<1> QED
  BY <1>1, Invariance, PTL

\* The answer with a label is that of one of the statements executed so far.
LEMMA KnownAnswer ==
  ASSUME TypeOK, RequestInv, NEW l, Known(l)
  PROVE  \E i \in Answered : /\ script[i].as = l /\ Result(l) = answers[i]
                             /\ i \in 1..Len(script) /\ script # <<>>
<1> DEFINE i == CHOOSE j \in DOMAIN answers : script[j].as = l
<1>1. i \in DOMAIN answers /\ script[i].as = l
  BY DEF Known
<1>2. Result(l) = answers[i]
  BY DEF Result
<1> HIDE DEF i
<1>3. i \in Answered /\ Answered = 1..Len(answers) /\ Len(answers) <= Len(script)
      /\ Len(answers) \in Nat /\ Len(script) \in Nat
  BY <1>1, Underway DEF Answered
<1>4. i \in 1..Len(script) /\ script # <<>>
  BY <1>3
<1> QED
  BY <1>1, <1>2, <1>3, <1>4

\* Without a change a figure counts what its statement would count now.
LEMMA QuietFigure ==
  ASSUME TypeOK, TablesInv, RequestInv, QuietInv, quiet, NEW i \in Answered, i \in 1..Len(script),
         Exact(script[i])
  PROVE  SumOf(answers[i]) = Size(script[i]) /\ Size(script[i]) \in Nat /\ answers[i] \in Results(script[i])
<1>1. IsStatement(script[i])
  BY Underway
<1>2. answers[i] \in Results(script[i])
  BY DEF QuietInv
<1> QED
  BY <1>1, <1>2, FigureCounts DEF Exact

\* The figures of a screen agree (FiguresAgree).
LEMMA InvariantAgrees ==
  ASSUME ReportsInv
  PROVE  FiguresAgree
<1>1. TypeOK /\ TablesInv /\ RequestInv /\ QuietInv /\ FigureInv
  BY DEF ReportsInv
<1> SUFFICES ASSUME NEW p \in SameRows, Known(p[1]), Known(p[2])
             PROVE  Total(p[1]) <= Total(p[2]) /\ (quiet => Total(p[1]) = Total(p[2]))
  BY DEF FiguresAgree
<1>2. PICK i \in Answered : script[i].as = p[1] /\ Result(p[1]) = answers[i] /\ i \in 1..Len(script) /\ script # <<>>
  BY <1>1, KnownAnswer
<1>3. PICK j \in Answered : script[j].as = p[2] /\ Result(p[2]) = answers[j] /\ j \in 1..Len(script)
  BY <1>1, KnownAnswer
<1>4. script = Script(ask, now) /\ ask \in Asks
  BY <1>1, <1>2 DEF RequestInv, TypeOK
<1>5. IsTotalOf(p[1], p[2], script)
  BY <1>4, TotalsFirst
<1>6. /\ i < j /\ Alike(script[i], script[j]) /\ SameKind(script[i], script[j])
      /\ Growing(script[i]) /\ Exact(script[i]) /\ Exact(script[j])
  BY <1>2, <1>3, <1>5 DEF IsTotalOf
<1>7. SumOf(answers[i]) <= SumOf(answers[j])
  BY <1>1, <1>6 DEF FigureInv
<1>8. ASSUME quiet PROVE SumOf(answers[i]) = SumOf(answers[j])
  <2>1. SumOf(answers[i]) = Size(script[i]) /\ SumOf(answers[j]) = Size(script[j])
    BY <1>1, <1>2, <1>3, <1>6, <1>8, QuietFigure
  <2> QED
    BY <1>6, <2>1, AlikeSize
<1> QED
  BY <1>2, <1>3, <1>7, <1>8 DEF Total

\* What a screen shows of the same rows never contradicts its headline: the
\* figures of one transaction agree although others commit in between.
THEOREM FiguresAgreeHolds == Spec => []FiguresAgree
<1>1. ReportsInv => FiguresAgree
  BY InvariantAgrees
<1> QED
  BY <1>1, Invariance, PTL

-----------------------------------------------------------------------------
(* Drill-downs and pages.                                                *)

\* The overview: the figure of the action asked for and the series of it.
LEMMA OverviewDrills ==
  ASSUME ReportsInv, ask.report = "overview", ask.action # None, Known(<<"overview", "series">>),
         NEW n, n = CellOf(Result(<<"overview", "action">>), <<ask.action, 0>>)
  PROVE  n <= Total(<<"overview", "series">>) /\ (quiet => n = Total(<<"overview", "series">>))
<1>1. TypeOK /\ TablesInv /\ RequestInv /\ QuietInv /\ DrillInv
  BY DEF ReportsInv
<1>2. PICK i \in Answered : /\ script[i].as = <<"overview", "series">> /\ Result(<<"overview", "series">>) = answers[i]
                            /\ i \in 1..Len(script) /\ script # <<>>
  BY <1>1, KnownAnswer
<1>3. /\ Len(script) = 3
      /\ IsOf(script[2], <<"overview", "action">>, "access_log", ask.period, "counts", <<>>, None, Ever)
      /\ IsBy(script[2], "action", None)
      /\ IsOf(script[3], <<"overview", "series">>, "access_log", ask.period, "counts",
              OnlyColumn("action", ask.action), None, Ever)
      /\ Exact(script[3]) /\ script[3].shape = "counts"
  BY <1>1, <1>2, OverviewScript
<1>4. script[1].as = <<"overview", "total">>
  <2>1. script = AccessOverview(ask.period, ask.action, ask.interval)
    BY <1>1, <1>2, ScriptOf DEF RequestInv, TypeOK
  <2> QED
    BY <2>1, OverviewFields DEF IsOf
<1>5. script[2].as = <<"overview", "action">> /\ script[3].as = <<"overview", "series">>
  BY <1>3 DEF IsOf
<1>6. /\ <<"overview", "total">> # <<"overview", "series">> /\ <<"overview", "action">> # <<"overview", "series">>
      /\ <<"overview", "total">> # <<"overview", "action">>
  OBVIOUS
<1>7. i = 3
  BY <1>2, <1>3, <1>4, <1>5, <1>6
<1>8. 2 \in Answered /\ 3 \in Answered
  BY <1>7 DEF Answered
<1>9. Result(<<"overview", "action">>) = answers[2]
  <2>1. Known(<<"overview", "action">>)
    BY <1>1, <1>5, <1>8, Underway DEF Known
  <2>2. PICK j \in Answered : /\ script[j].as = <<"overview", "action">>
                              /\ Result(<<"overview", "action">>) = answers[j] /\ j \in 1..Len(script)
    BY <1>1, <2>1, KnownAnswer
  <2>3. j = 2
    BY <1>3, <1>4, <1>5, <1>6, <2>2
  <2> QED
    BY <2>2, <2>3
<1>10. n <= SumOf(answers[3])
  BY <1>1, <1>8, <1>9 DEF DrillInv
<1>11. ASSUME quiet PROVE n = SumOf(answers[3])
  <2>1. SumOf(answers[3]) = Size(script[3])
    BY <1>1, <1>2, <1>3, <1>7, <1>8, <1>11, QuietFigure
  <2>2. answers[2] \in Results(script[2])
    BY <1>1, <1>8, <1>11 DEF QuietInv
  <2>3. n = Cardinality(Selected(script[3]))
    BY <1>1, <1>3, <1>9, <2>2, PerAction
  <2> QED
    BY <1>3, <2>1, <2>3 DEF Size
<1> QED
  BY <1>2, <1>7, <1>10, <1>11 DEF Total

\* There are not more assets with a lineage of some kind than assets.
LEMMA NotMoreThanAssets ==
  ASSUME TablesInv, NEW st, IsStatement(st), st.shape = "distinct"
  PROVE  Size(st) <= Cardinality(assets)
<1> DEFINE ids == {a.id : a \in assets}
           f == [a \in assets |-> a.id]
           K == {row.asset : row \in Selected(st)}
<1>1. IsFiniteSet(assets) /\ \A a, b \in assets : f[a] = f[b] => a = b
  BY DEF TablesInv, Keyed
<1>2. IsFiniteSet(ids) /\ Cardinality(ids) = Cardinality(assets)
  <2>1. ids = {f[a] : a \in assets} /\ DOMAIN f = assets
    OBVIOUS
  <2> HIDE DEF f, ids
  <2> QED
    BY <1>1, <2>1, ImageIsAsLarge
<1>3. ASSUME NEW row \in Selected(st) PROVE row.asset \in ids
  <2>1. row \in Joined
    <3>1. st.table = "asset_lineage"
      BY DEF IsStatement
    <3> QED
      BY <3>1 DEF Selected, From
  <2>2. PICK e \in events, a \in assets :
          /\ e.asset = a.id
          /\ row = [id |-> e.id, time |-> e.time, asset |-> e.asset, activity |-> e.activity,
                    status |-> a.status, modality |-> a.modality]
    BY <2>1, JoinedRows
  <2>3. row.asset = a.id
    BY <2>2
  <2> QED
    BY <2>3
<1>4. K \in SUBSET ids
  BY <1>3
<1>5. Cardinality(K) <= Cardinality(ids)
  <2> HIDE DEF K, ids
  <2> QED
    BY <1>2, <1>4, FS_Subset
<1>6. Size(st) = Cardinality(K)
  BY DEF Size
<1> QED
  BY <1>2, <1>5, <1>6

\* The proposals: the assets that have one and the series of them.
LEMMA RelationsDrill ==
  ASSUME ReportsInv, ask.report = "relations", Known(<<"proposed", "series">>)
  PROVE  /\ Total(<<"proposed", "total">>) <= Total(<<"proposed", "series">>)
         /\ quiet => Total(<<"proposed", "total">>) <= Cardinality(assets)
<1>1. TypeOK /\ TablesInv /\ RequestInv /\ QuietInv /\ FigureInv
  BY DEF ReportsInv
<1>2. PICK i \in Answered : /\ script[i].as = <<"proposed", "series">> /\ Result(<<"proposed", "series">>) = answers[i]
                            /\ i \in 1..Len(script) /\ script # <<>>
  BY <1>1, KnownAnswer
<1>3. script = RelationSummary(ask.period, ask.interval)
  BY <1>1, <1>2, ScriptOf DEF RequestInv, TypeOK
<1> DEFINE only == OnlyColumn("activity", Proposed)
<1>4. /\ Len(script) = 2
      /\ IsOf(script[1], <<"proposed", "total">>, "asset_lineage", ask.period, "distinct", only, None, Ever)
      /\ IsBy(script[1], None, None)
      /\ IsOf(script[2], <<"proposed", "series">>, "asset_lineage", ask.period, "distinct", only, None, Ever)
  BY <1>3, RelationFields
<1>5. Growing(script[1]) /\ Exact(script[1]) /\ IsStatement(script[1])
  <2>1. "asset_lineage" \in Tables /\ "activity" \in Fixed("asset_lineage")
    BY DEF Tables, Fixed
  <2>2. Exact(script[1]) /\ IsStatement(script[1])
    BY <1>4, <2>1, Statements
  <2>3. Growing(script[1])
    BY <1>4, <2>1, Growth
  <2> QED
    BY <2>2, <2>3
<1>6. Alike(script[1], script[2])
  BY <1>4, SameFields
<1> HIDE DEF only
<1>7. /\ script[1].as = <<"proposed", "total">> /\ script[2].as = <<"proposed", "series">>
      /\ script[1].shape = "distinct" /\ script[2].shape = "distinct"
      /\ <<"proposed", "total">> # <<"proposed", "series">>
  BY <1>4 DEF IsOf
<1>8. i = 2 /\ 1 \in Answered /\ 2 \in Answered
  <2>1. i = 2
    BY <1>2, <1>4, <1>7
  <2> QED
    BY <2>1 DEF Answered
<1>9. Result(<<"proposed", "total">>) = answers[1]
  <2>1. Known(<<"proposed", "total">>)
    BY <1>1, <1>7, <1>8, Underway DEF Known
  <2>2. PICK j \in Answered : /\ script[j].as = <<"proposed", "total">>
                              /\ Result(<<"proposed", "total">>) = answers[j] /\ j \in 1..Len(script)
    BY <1>1, <2>1, KnownAnswer
  <2>3. j = 1
    BY <1>4, <1>7, <2>2
  <2> QED
    BY <2>2, <2>3
<1>10. SumOf(answers[1]) <= SumOf(answers[2])
  <2>1. SameKind(script[1], script[2])
    BY <1>7 DEF SameKind
  <2> QED
    BY <1>1, <1>5, <1>6, <1>8, <2>1 DEF FigureInv
<1>11. ASSUME quiet PROVE SumOf(answers[1]) <= Cardinality(assets)
  <2>1. SumOf(answers[1]) = Size(script[1])
    BY <1>1, <1>4, <1>5, <1>8, <1>11, QuietFigure
  <2> QED
    BY <1>1, <1>5, <1>7, <2>1, NotMoreThanAssets
<1> QED
  BY <1>2, <1>8, <1>9, <1>10, <1>11 DEF Total

\* The figures of the drill-downs agree with those above them
\* (DrillDownsAgree).
LEMMA InvariantDrills ==
  ASSUME ReportsInv
  PROVE  DrillDownsAgree
<1>1. ASSUME ask.report = "overview", ask.action # None, Known(<<"overview", "series">>)
      PROVE  LET perAction == Result(<<"overview", "action">>)
                 c == <<ask.action, 0>>
                 n == IF c \in DOMAIN perAction THEN perAction[c] ELSE 0
             IN  /\ n <= Total(<<"overview", "series">>)
                 /\ quiet => n = Total(<<"overview", "series">>)
  <2>1. /\ CellOf(Result(<<"overview", "action">>), <<ask.action, 0>>) <= Total(<<"overview", "series">>)
        /\ quiet => CellOf(Result(<<"overview", "action">>), <<ask.action, 0>>) = Total(<<"overview", "series">>)
    BY <1>1, OverviewDrills
  <2> QED
    BY <2>1 DEF CellOf
<1>2. ASSUME ask.report = "relations", Known(<<"proposed", "series">>)
      PROVE  /\ Total(<<"proposed", "total">>) <= Total(<<"proposed", "series">>)
             /\ quiet => Total(<<"proposed", "total">>) <= Cardinality(assets)
  BY <1>2, RelationsDrill
<1> QED
  BY <1>1, <1>2 DEF DrillDownsAgree

\* A drill-down shows the rows its headline counted: the series of an action
\* is not less than its cell, the assets with a proposal are counted once.
THEOREM DrillDownsAgreeHolds == Spec => []DrillDownsAgree
<1>1. ReportsInv => DrillDownsAgree
  BY InvariantDrills
<1> QED
  BY <1>1, Invariance, PTL

\* A page is as long as the count before it says.
LEMMA InvariantPageFollows ==
  ASSUME ReportsInv
  PROVE  PageFollowsCount
<1>1. TypeOK /\ TablesInv /\ RequestInv /\ QuietInv /\ PageInv
  BY DEF ReportsInv
<1> SUFFICES ASSUME NEW i \in Answered, script[i].shape = "page"
             PROVE  /\ quiet => Len(answers[i]) = PageLength(script[i], SumOf(answers[i - 1]))
                    /\ ask.report # "feed" /\ (ask.report = "snapshot" => quiet)
                         => Len(answers[i]) >= PageLength(script[i], SumOf(answers[i - 1]))
  BY <1>1, Underway DEF PageFollowsCount
<1>2. i \in 1..Len(script) /\ Answered = 1..Len(answers) /\ Len(answers) \in Nat /\ script # <<>>
  <2>1. Answered = 1..Len(answers) /\ Len(answers) <= Len(script) /\ Len(answers) \in Nat /\ Len(script) \in Nat
    BY <1>1, Underway DEF Answered
  <2>2. i \in 1..Len(script)
    BY <2>1
  <2> QED
    BY <2>1, <2>2
<1>3. IsStatement(script[i])
  BY <1>1, <1>2, Underway
<1>4. i - 1 \in 1..Len(script) /\ script[i - 1].shape = "counts" /\ Alike(script[i - 1], script[i])
  BY <1>1, <1>2, Underway DEF PagesFollow
<1>5. i - 1 \in Answered
  BY <1>2, <1>4
<1>6. ASSUME quiet
      PROVE  Len(answers[i]) = PageLength(script[i], SumOf(answers[i - 1])) /\ Len(answers[i]) \in Nat
  <2>1. answers[i] \in Results(script[i])
    BY <1>1, <1>6 DEF QuietInv
  <2>2. Len(answers[i]) = PageLength(script[i], Cardinality(Selected(script[i]))) /\ Len(answers[i]) \in Nat
    BY <1>1, <1>3, <2>1, PageIsAsLong
  <2>3. Exact(script[i - 1])
    BY <1>4 DEF Exact
  <2>4. SumOf(answers[i - 1]) = Size(script[i - 1])
    BY <1>1, <1>4, <1>5, <1>6, <2>3, QuietFigure
  <2>5. Size(script[i - 1]) = Cardinality(Selected(script[i]))
    BY <1>4, AlikeSelect DEF Size
  <2> QED
    BY <2>2, <2>4, <2>5
<1>7. ASSUME ask.report # "feed", ask.report # "snapshot"
      PROVE  PageLength(script[i], SumOf(answers[i - 1])) <= Len(answers[i])
  <2>1. ask \in Asks /\ script = Script(ask, now)
    BY <1>1, <1>2 DEF TypeOK, RequestInv
  <2>2. ask.report \in {"overview", "modality", "relations", "dashboard", "log"}
    BY <1>7, <2>1, AsksAssumption
  <2>3. AllGrow(script)
    BY <2>1, <2>2, ScriptIsScript
  <2>4. Growing(script[i])
    BY <1>2, <2>3 DEF AllGrow
  <2> QED
    BY <1>1, <2>4 DEF PageInv
<1>8. SumOf(answers[i - 1]) \in Nat /\ script[i].limit \in Nat /\ script[i].offset \in Nat
  BY <1>1, <1>3, <1>4, <1>5 DEF RequestInv, IsStatement
<1>9. PageLength(script[i], SumOf(answers[i - 1])) \in Nat
  BY <1>8 DEF PageLength
<1>10. ASSUME ask.report # "feed", ask.report = "snapshot" => quiet
       PROVE  Len(answers[i]) >= PageLength(script[i], SumOf(answers[i - 1]))
  <2>1. CASE quiet
    BY <1>6, <1>9, <2>1
  <2>2. CASE ask.report # "snapshot"
    <3>1. PageLength(script[i], SumOf(answers[i - 1])) <= Len(answers[i])
      BY <1>7, <1>10, <2>2
    <3> QED
      BY <3>1
  <2> QED
    BY <1>10, <2>1, <2>2
<1> QED
  BY <1>6, <1>10

-----------------------------------------------------------------------------
(* Reading on, and the lists of the snapshot.                            *)

\* A row that was there at the start is on a page or comes after all of them.
LEMMA InvariantSkipsNothing ==
  ASSUME ReportsInv
  PROVE  PagingSkipsNothing
<1>1. TypeOK /\ RequestInv /\ PagingInv
  BY DEF ReportsInv
<1>2. DOMAIN answers = Answered /\ Answered = 1..Len(answers) /\ Len(answers) \in Nat
  BY <1>1, Underway DEF Answered
<1> DEFINE read == {i \in DOMAIN answers : script[i].shape = "page"}
<1>3. ASSUME ask.report = "log", NEW r \in asked,
             ~(\E i \in read : \E j \in DOMAIN answers[i] : answers[i][j] = r),
             NEW i \in read
      PROVE  Rank(r) > script[i].offset + script[i].limit
  <2>1. i \in Answered /\ script[i].shape = "page"
    BY <1>2
  <2>2. (\E j \in 1..i : IsOn(r, j)) \/ Rank(r) > script[i].offset + script[i].limit
    BY <1>1, <1>3, <2>1 DEF PagingInv
  <2>3. ASSUME NEW j \in 1..i, IsOn(r, j) PROVE FALSE
    <3>1. j \in Answered
      BY <1>2, <2>1
    <3>2. j \in read
      BY <1>2, <2>3, <3>1 DEF IsOn
    <3> QED
      BY <1>3, <2>3, <3>2 DEF IsOn
  <2> QED
    BY <2>2, <2>3
<1> QED
  BY <1>3 DEF PagingSkipsNothing, Rank

\* The lists are complete (PagesAreComplete).
THEOREM PagesAreCompleteHolds == Spec => []PagesAreComplete
<1>1. ReportsInv => PagesAreComplete
  BY InvariantPageFollows, InvariantSkipsNothing DEF PagesAreComplete
<1> QED
  BY <1>1, Invariance, PTL

\* A proposal of a period is a proposal of all time.
LEMMA ProposedEver ==
  ASSUME NEW row, NEW period
  PROVE  /\ IsProposed(row, period) => IsProposed(row, Ever)
         /\ InBucket("relation_proposed", row, period) => InBucket("relation_proposed", row, Ever)
         /\ InBucket("registered", row, Ever) => InBucket("registered", row, period)
<1>1. \A t : Within(t, Ever)
  BY DEF Within, Ever, Period, NoTime
<1>2. IsProposed(row, period) => IsProposed(row, Ever)
  BY <1>1 DEF IsProposed
<1> QED
  BY <1>2 DEF InBucket

\* The number of a bucket and the list of it.
LEMMA InvariantMatches ==
  ASSUME ReportsInv
  PROVE  ListMatchesBucket
<1>1. TypeOK /\ TablesInv /\ RequestInv /\ QuietInv
  BY DEF ReportsInv
<1> SUFFICES ASSUME ask.report = "snapshot", quiet, Known(<<"list", "count">>),
                    NEW shown, shown = Result(<<"stats", "buckets">>)[ask.bucket],
                    NEW listed, listed = Total(<<"list", "count">>)
             PROVE  /\ ask.scope = "alltime" => listed = shown
                    /\ ask.bucket = "relation_proposed" => listed <= shown
                    /\ ask.bucket = "registered" => listed >= shown
  BY DEF ListMatchesBucket
<1>2. PICK i \in Answered : /\ script[i].as = <<"list", "count">> /\ Result(<<"list", "count">>) = answers[i]
                            /\ i \in 1..Len(script) /\ script # <<>>
  BY <1>1, KnownAnswer
<1>3. script = Snapshot(ask.period, ask.bucket, ask.scope, ask.limit) /\ ask.bucket \in Buckets
  BY <1>1, <1>2, ScriptOf, AsksAssumption DEF RequestInv, TypeOK
<1> DEFINE b == BucketScope(ask.scope, ask.period)
<1>4. /\ Len(script) = 6
      /\ IsOf(script[1], <<"stats", "total">>, "asset", ask.period, "counts", <<>>, None, Ever)
      /\ IsOf(script[2], <<"stats", "status">>, "asset", ask.period, "counts", <<>>, None, Ever)
      /\ IsOf(script[3], <<"stats", "modality">>, "asset", ask.period, "counts", <<>>, None, Ever)
      /\ IsOf(script[4], <<"stats", "buckets">>, "asset", ask.period, "buckets", <<>>, None, Ever)
      /\ IsOf(script[5], <<"list", "count">>, "asset", ask.period, "counts", <<>>, ask.bucket, b)
      /\ IsOf(script[6], <<"list", "rows">>, "asset", ask.period, "page", <<>>, ask.bucket, b)
  BY <1>3, SnapshotFields
<1>5. /\ script[1].as = <<"stats", "total">> /\ script[2].as = <<"stats", "status">>
      /\ script[3].as = <<"stats", "modality">> /\ script[4].as = <<"stats", "buckets">>
      /\ script[5].as = <<"list", "count">> /\ script[6].as = <<"list", "rows">>
  BY <1>4 DEF IsOf
<1>6. \A j \in 1..6 : /\ script[j].as = <<"list", "count">> => j = 5
                      /\ script[j].as = <<"stats", "buckets">> => j = 4
  BY <1>5
<1>7. i = 5 /\ 4 \in Answered /\ 5 \in Answered
  <2>1. i = 5
    BY <1>2, <1>4, <1>6
  <2> QED
    BY <2>1 DEF Answered
<1>8. Result(<<"stats", "buckets">>) = answers[4]
  <2>1. Known(<<"stats", "buckets">>)
    BY <1>1, <1>5, <1>7, Underway DEF Known
  <2>2. PICK j \in Answered : /\ script[j].as = <<"stats", "buckets">>
                              /\ Result(<<"stats", "buckets">>) = answers[j] /\ j \in 1..Len(script)
    BY <1>1, <2>1, KnownAnswer
  <2>3. j = 4
    BY <1>4, <1>6, <2>2
  <2> QED
    BY <2>2, <2>3
<1> DEFINE S == Selected(script[4])
           T(scope) == {row \in S : InBucket(ask.bucket, row, scope)}
<1>9. shown = Cardinality(T(Ever))
  <2>1. answers[4] \in Results(script[4])
    BY <1>1, <1>7 DEF QuietInv
  <2>2. script[4].shape = "buckets"
    BY <1>4 DEF IsOf
  <2>3. answers[4] = BucketCounts(script[4])
    BY <2>1, <2>2 DEF Results
  <2> QED
    BY <1>3, <1>8, <2>3 DEF BucketCounts
<1>10. listed = Cardinality(Selected(script[5]))
  <2>1. "asset" \in Tables
    BY DEF Tables
  <2>2. Exact(script[5])
    BY <1>4, <2>1, Statements
  <2>3. SumOf(answers[5]) = Size(script[5])
    BY <1>1, <1>2, <1>7, <2>2, QuietFigure
  <2>4. script[5].shape = "counts"
    BY <1>4 DEF IsOf
  <2> QED
    BY <1>2, <1>7, <2>3, <2>4 DEF Total, Size
<1>11. Selected(script[5]) = T(b)
  <2>1. /\ script[4].table = script[5].table /\ script[4].period = script[5].period
        /\ script[4].only = <<>> /\ script[5].only = <<>>
        /\ script[4].bucket = None /\ script[5].bucket = ask.bucket /\ script[5].scope = b
    BY <1>4 DEF IsOf
  <2>2. ask.bucket # None
    BY <1>3 DEF Buckets, None
  <2> HIDE DEF b
  <2> QED
    BY <2>1, <2>2 DEF Selected
<1>12. IsFiniteSet(S)
  <2>1. "asset" \in Tables
    BY DEF Tables
  <2>2. IsStatement(script[4])
    BY <1>4, <2>1, Statements
  <2> QED
    BY <1>1, <2>2, SelectedIsKeyed DEF Keyed
<1> HIDE DEF S
<1>13. \A scope : IsFiniteSet(T(scope)) /\ Cardinality(T(scope)) \in Nat
  BY <1>12, FS_Subset, FS_CardinalityType
<1>14. ask.scope = "alltime" => b = Ever
  BY DEF BucketScope
<1> HIDE DEF b
<1>15. ask.bucket = "relation_proposed" => Cardinality(T(b)) <= Cardinality(T(Ever))
  <2> SUFFICES ASSUME ask.bucket = "relation_proposed" PROVE Cardinality(T(b)) <= Cardinality(T(Ever))
    OBVIOUS
  <2>1. T(b) \in SUBSET T(Ever)
    BY ProposedEver
  <2> HIDE DEF T
  <2> QED
    BY <1>13, <2>1, FS_Subset
<1>16. ask.bucket = "registered" => Cardinality(T(Ever)) <= Cardinality(T(b))
  <2> SUFFICES ASSUME ask.bucket = "registered" PROVE Cardinality(T(Ever)) <= Cardinality(T(b))
    OBVIOUS
  <2>1. T(Ever) \in SUBSET T(b)
    BY ProposedEver
  <2> HIDE DEF T
  <2> QED
    BY <1>13, <2>1, FS_Subset
<1> HIDE DEF T
<1> QED
  BY <1>9, <1>10, <1>11, <1>13, <1>14, <1>15, <1>16

\* The list behind a bucket has as many assets as the bucket shows.
THEOREM ListMatchesBucketHolds == Spec => []ListMatchesBucket
<1>1. ReportsInv => ListMatchesBucket
  BY InvariantMatches
<1> QED
  BY <1>1, Invariance, PTL

-----------------------------------------------------------------------------
(* The calendar.                                                         *)

\* Products keep the order of their first factors.
LEMMA ProductGrows ==
  ASSUME NEW x \in Int, NEW y \in Int, NEW b \in Nat, x <= y
  PROVE  x * b <= y * b
<1>1. (y - x) * b >= 0
  <2>1. y - x \in Nat
    OBVIOUS
  <2>2. \A u, v \in Nat : u * v >= 0
    OBVIOUS
  <2> QED
    BY <2>1, <2>2
<1>2. (y - x) * b = y * b - x * b
  OBVIOUS
<1>3. x * b \in Int /\ y * b \in Int
  OBVIOUS
<1> QED
  BY <1>1, <1>2, <1>3

\* What division and the remainder are.
LEMMA Quotient ==
  ASSUME NEW a \in Int, NEW b \in Nat \ {0}
  PROVE  a \div b \in Int /\ (a \div b) * b <= a /\ a < (a \div b + 1) * b
<1>1. a \div b \in Int
  OBVIOUS
<1>2. (a \div b) * b <= a
  OBVIOUS
<1>3. a < (a \div b) * b + b
  OBVIOUS
<1>4. \A q \in Int : (q + 1) * b = q * b + b
  OBVIOUS
<1> QED
  BY <1>1, <1>2, <1>3, <1>4

\* The multiples of b up to a.
LEMMA QuotientBounds ==
  ASSUME NEW a \in Int, NEW b \in Nat \ {0}, NEW k \in Int
  PROVE  k * b <= a <=> k <= a \div b
<1> DEFINE q == a \div b
<1>1. q \in Int /\ q * b <= a /\ a < (q + 1) * b
  BY Quotient
<1> HIDE DEF q
<1>2. k * b \in Int /\ q * b \in Int /\ (q + 1) * b \in Int
  BY <1>1
<1>3. ASSUME k <= q PROVE k * b <= a
  <2>1. k * b <= q * b
    BY <1>1, <1>3, ProductGrows
  <2> QED
    BY <1>1, <1>2, <2>1
<1>4. ASSUME q < k PROVE a < k * b
  <2>1. q + 1 \in Int /\ q + 1 <= k
    BY <1>1, <1>4
  <2>2. (q + 1) * b <= k * b
    BY <2>1, ProductGrows
  <2> QED
    BY <1>1, <1>2, <2>2
<1>5. k <= q \/ q < k
  BY <1>1
<1>6. ~(k * b <= a /\ a < k * b) /\ ~(k <= q /\ q < k)
  BY <1>1, <1>2
<1> QED
  BY <1>3, <1>4, <1>5, <1>6 DEF q

\* The calendar: hours, days and months.
LEMMA CalendarIsPositive ==
  /\ HoursPerDay \in Nat \ {0} /\ DaysPerMonth \in Nat \ {0} /\ HoursPerMonth \in Nat \ {0}
  /\ \A k \in Int : k * HoursPerMonth = (k * DaysPerMonth) * HoursPerDay
<1>1. HoursPerDay \in Nat /\ DaysPerMonth \in Nat /\ HoursPerDay > 0 /\ DaysPerMonth > 0
  BY CalendarAssumption
<1>2. \A x, y \in Nat : x > 0 /\ y > 0 => x * y \in Nat /\ x * y > 0
  OBVIOUS
<1>3. HoursPerMonth \in Nat /\ HoursPerMonth > 0
  BY <1>1, <1>2 DEF HoursPerMonth
<1>4. ASSUME NEW k \in Int PROVE k * HoursPerMonth = (k * DaysPerMonth) * HoursPerDay
  BY <1>1 DEF HoursPerMonth
<1> QED
  BY <1>1, <1>3, <1>4

\* The day a time is in starts in its month.
LEMMA MonthOfDay ==
  ASSUME NEW t \in Int
  PROVE  MonthOf(DayStart(t)) = MonthOf(t) /\ MonthOf(t) \in Int /\ DayStart(t) \in Int
<1> DEFINE q == t \div HoursPerDay
           m == MonthOf(t)
           n == MonthOf(DayStart(t))
<1>1. HoursPerDay \in Nat \ {0} /\ DaysPerMonth \in Nat \ {0} /\ HoursPerMonth \in Nat \ {0}
  BY CalendarIsPositive
<1>2. q \in Int /\ q * HoursPerDay \in Int /\ DayStart(t) = q * HoursPerDay
  BY <1>1 DEF DayStart
<1>3. m \in Int /\ n \in Int
  BY <1>1, <1>2, Quotient DEF MonthOf
<1>4. ASSUME NEW k \in Int PROVE k <= n <=> k <= m
  <2>1. k <= n <=> k * HoursPerMonth <= q * HoursPerDay
    BY <1>1, <1>2, QuotientBounds DEF MonthOf
  <2>2. k <= m <=> k * HoursPerMonth <= t
    BY <1>1, QuotientBounds DEF MonthOf
  <2> DEFINE d == k * DaysPerMonth
  <2>3. d \in Int /\ k * HoursPerMonth = d * HoursPerDay
    BY <1>1, CalendarIsPositive
  <2> HIDE DEF d
  <2>4. d * HoursPerDay <= t <=> d <= q
    BY <1>1, <2>3, QuotientBounds
  <2>5. d * HoursPerDay <= q * HoursPerDay <=> d <= (q * HoursPerDay) \div HoursPerDay
    BY <1>1, <1>2, <2>3, QuotientBounds
  <2>6. (q * HoursPerDay) \div HoursPerDay = q
    <3> DEFINE p == (q * HoursPerDay) \div HoursPerDay
    <3>1. p \in Int
      BY <1>1, <1>2, Quotient
    <3>2. q <= p
      BY <1>1, <1>2, QuotientBounds
    <3>3. p * HoursPerDay <= q * HoursPerDay
      BY <1>1, <1>2, Quotient
    <3>4. ~(q + 1 <= p)
      <4> SUFFICES ASSUME q + 1 <= p PROVE FALSE
        OBVIOUS
      <4>1. (q + 1) * HoursPerDay <= p * HoursPerDay
        BY <1>1, <1>2, <3>1, ProductGrows
      <4>2. (q + 1) * HoursPerDay = q * HoursPerDay + HoursPerDay
        BY <1>1, <1>2
      <4> HIDE DEF p, q
      <4>3. p * HoursPerDay \in Int
        BY <1>1, <3>1
      <4> QED
        BY <1>1, <1>2, <3>3, <4>1, <4>2, <4>3
    <3> HIDE DEF p, q
    <3> QED
      BY <1>2, <3>1, <3>2, <3>4 DEF p
  <2> QED
    BY <2>1, <2>2, <2>3, <2>4, <2>5, <2>6
<1> HIDE DEF m, n
<1>5. n <= m /\ m <= n
  BY <1>3, <1>4
<1>6. m = n
  BY <1>3, <1>5
<1> QED
  BY <1>2, <1>3, <1>6 DEF m, n

\* The first of the month n - 1 months before that of t.
LEMMA MonthsBack ==
  ASSUME NEW t \in Int, NEW n \in Nat \ {0}
  PROVE  MonthFloorBack(t, n) = (MonthOf(t) - n + 1) * HoursPerMonth
<1> DEFINE m == MonthOf(t)
           back == ((m % 12) + 1) - (n - 1)
           K == {k \in 0..n : back + 12 * k > 0}
           turns == CHOOSE k \in 0..n : back + 12 * k > 0 /\ \A j \in 0..(k - 1) : back + 12 * j <= 0
<1>1. m \in Int
  BY MonthOfDay
<1> HIDE DEF m
<1>2. m % 12 \in 0..11 /\ m \div 12 \in Int /\ (m \div 12) * 12 + (m % 12) = m
  BY <1>1
<1>3. back \in Int /\ back + 12 * n > 0
  BY <1>2
<1>4. K \subseteq Nat /\ n \in K
  BY <1>3
<1>5. PICK k \in K : \A j \in K : k <= j
  BY <1>4, HasLeast
<1> HIDE DEF back
<1>6. k \in 0..n /\ back + 12 * k > 0 /\ \A j \in 0..(k - 1) : back + 12 * j <= 0
  <2>1. k \in 0..n /\ back + 12 * k > 0
    BY <1>5
  <2>2. ASSUME NEW j \in 0..(k - 1) PROVE back + 12 * j <= 0
    <3>1. j \notin K /\ j \in 0..n
      BY <1>5, <2>1
    <3> QED
      BY <1>3, <3>1
  <2> QED
    BY <2>1, <2>2
<1>7. turns \in 0..n
  BY <1>6
<1>8. MonthFloorBack(t, n) = (((m \div 12) - turns) * 12 + (back + 12 * turns) - 1) * HoursPerMonth
  BY DEF MonthFloorBack, m, back
<1> HIDE DEF turns
<1>9. ((m \div 12) - turns) * 12 + (back + 12 * turns) - 1 = m - n + 1
  BY <1>2, <1>7 DEF back
<1> QED
  BY <1>8, <1>9 DEF m

\* The window of the monthly series.
LEMMA MonthsWindow ==
  ASSUME NEW t \in Nat, NEW at \in Nat, NEW n \in Nat \ {0}
  PROVE  Within(t, Months(at, n)) <=> /\ MonthOf(t) \in (MonthOf(at) - n + 1)..MonthOf(at)
                                      /\ DayStart(t) <= DayStart(at)
<1> DEFINE since == (MonthOf(at) - n + 1) * HoursPerMonth
           until == DayStart(at) + HoursPerDay
           q == t \div HoursPerDay
           p == at \div HoursPerDay
<1>1. HoursPerDay \in Nat \ {0} /\ DaysPerMonth \in Nat \ {0} /\ HoursPerMonth \in Nat \ {0}
  BY CalendarIsPositive
<1>2. /\ MonthOf(t) \in Int /\ MonthOf(at) \in Int /\ DayStart(at) \in Int /\ DayStart(t) \in Int
      /\ MonthOf(DayStart(at)) = MonthOf(at)
  BY MonthOfDay
<1>3. Months(at, n) = Period(since, until)
  <2>1. MonthFloorBack(DayStart(at), n) = (MonthOf(DayStart(at)) - n + 1) * HoursPerMonth
    BY <1>2, MonthsBack
  <2> QED
    BY <1>2, <2>1 DEF Months
<1>4. since <= t <=> MonthOf(at) - n + 1 <= MonthOf(t)
  <2>1. MonthOf(at) - n + 1 \in Int
    BY <1>2
  <2> QED
    BY <1>1, <2>1, QuotientBounds DEF MonthOf
<1>5. p \in Int /\ q \in Int /\ DayStart(t) = q * HoursPerDay /\ DayStart(at) = p * HoursPerDay
  BY <1>1 DEF DayStart
<1>6. p >= 0
  <2>1. 0 * HoursPerDay <= at
    BY <1>1
  <2>2. 0 <= p
    BY <1>1, <2>1, QuotientBounds
  <2> QED
    BY <1>5, <2>2
<1> HIDE DEF since, p, q
<1>7. until \in Nat /\ until = (p + 1) * HoursPerDay
  <2>1. \A x, y \in Nat : x * y \in Nat
    OBVIOUS
  <2>2. p * HoursPerDay \in Nat /\ (p + 1) * HoursPerDay = p * HoursPerDay + HoursPerDay
    BY <1>1, <1>5, <1>6, <2>1
  <2> QED
    BY <1>1, <1>5, <2>2
<1>8. t < until <=> q <= p
  <2>1. p + 1 \in Int
    BY <1>5
  <2>2. (p + 1) * HoursPerDay <= t <=> p + 1 <= q
    BY <1>1, <2>1, QuotientBounds DEF q
  <2> HIDE DEF until
  <2> QED
    BY <1>5, <1>7, <2>2
<1>9. q <= p <=> DayStart(t) <= DayStart(at)
  <2>1. ASSUME q <= p PROVE DayStart(t) <= DayStart(at)
    BY <1>1, <1>5, <2>1, ProductGrows
  <2>2. ASSUME p + 1 <= q PROVE ~(DayStart(t) <= DayStart(at))
    <3>1. (p + 1) * HoursPerDay <= q * HoursPerDay
      BY <1>1, <1>5, <2>2, ProductGrows
    <3>2. DayStart(at) + HoursPerDay <= DayStart(t)
      BY <1>5, <1>7, <3>1
    <3> QED
      BY <1>1, <1>2, <3>2
  <2> QED
    BY <1>5, <2>1, <2>2
<1> HIDE DEF until
<1>10. ASSUME q <= p PROVE MonthOf(t) <= MonthOf(at)
  <2> DEFINE m == MonthOf(at)
             d == (m + 1) * DaysPerMonth
  <2>0. m + 1 \in Int
    BY <1>2
  <2>1. m + 1 \in Int /\ d \in Int /\ (m + 1) * HoursPerMonth = d * HoursPerDay
    <3> HIDE DEF m
    <3> QED
      BY <1>1, <2>0, CalendarIsPositive
  <2>2. ~((m + 1) * HoursPerMonth <= at)
    <3>1. (m + 1) * HoursPerMonth <= at <=> m + 1 <= m
      BY <1>1, <2>1, QuotientBounds DEF MonthOf
    <3> QED
      BY <1>2, <3>1
  <2> HIDE DEF m, d
  <2>3. d * HoursPerDay <= at <=> d <= p
    BY <1>1, <2>1, QuotientBounds DEF p
  <2>4. d * HoursPerDay <= t <=> d <= q
    BY <1>1, <2>1, QuotientBounds DEF q
  <2>5. ~(d * HoursPerDay <= t)
    BY <1>5, <1>10, <2>1, <2>2, <2>3, <2>4
  <2>6. (m + 1) * HoursPerMonth <= t <=> m + 1 <= MonthOf(t)
    BY <1>1, <2>1, QuotientBounds DEF MonthOf
  <2>7. m \in Int /\ ~(m + 1 <= MonthOf(t))
    BY <1>2, <2>1, <2>5, <2>6 DEF m
  <2> QED
    BY <1>2, <2>7 DEF m
<1>11. Within(t, Months(at, n)) <=> since <= t /\ t < until
  <2>1. Within(t, Period(since, until)) <=> (since # NoTime => since <= t) /\ (until # NoTime => t < until)
    BY DEF Within, Period
  <2>2. since = NoTime => since <= t
    BY DEF NoTime
  <2>3. until # NoTime
    BY <1>7 DEF NoTime
  <2> QED
    BY <1>3, <2>1, <2>2, <2>3
<1>12. MonthOf(t) \in (MonthOf(at) - n + 1)..MonthOf(at)
         <=> MonthOf(at) - n + 1 <= MonthOf(t) /\ MonthOf(t) <= MonthOf(at)
  BY <1>2
<1> QED
  BY <1>4, <1>8, <1>9, <1>10, <1>11, <1>12

-----------------------------------------------------------------------------
(* The months of the dashboard.                                          *)

\* Every row has a time.
LEMMA RowsHaveTimes ==
  ASSUME TablesInv, NEW table \in Tables, NEW row \in From(table)
  PROVE  row.time \in Nat
<1>1. Times \subseteq Nat
  BY CalendarAssumption DEF Times, Horizon
<1>2. CASE table = "access_log"
  BY <1>1, <1>2 DEF From, TablesInv, LogRows
<1>3. CASE table = "asset"
  BY <1>1, <1>3 DEF From, TablesInv, AssetRows
<1>4. CASE table = "asset_lineage"
  <2>1. row \in Joined
    BY <1>4 DEF From
  <2>2. PICK e \in events, a \in assets :
          row = [id |-> e.id, time |-> e.time, asset |-> e.asset, activity |-> e.activity,
                 status |-> a.status, modality |-> a.modality]
    BY <2>1, JoinedRows
  <2>3. row.time = e.time
    BY <2>2
  <2>4. e.time \in Times
    BY DEF TablesInv, EventRows
  <2> QED
    BY <1>1, <2>3, <2>4
<1> QED
  BY <1>2, <1>3, <1>4 DEF Tables

\* The monthly series is of the months it says (MonthlyCoversMonths).
LEMMA InvariantCovers ==
  ASSUME ReportsInv
  PROVE  MonthlyCoversMonths
<1>1. TypeOK /\ TablesInv /\ RequestInv /\ QuietInv
  BY DEF ReportsInv
<1> SUFFICES ASSUME ask.report = "dashboard", quiet, NEW area \in Areas, Known(<<<<area, "monthly">>, "series">>)
             PROVE  Total(<<<<area, "monthly">>, "series">>) =
                      Cardinality({row \in From(TableOf(area)) :
                         /\ MonthOf(row.time) \in (MonthOf(now) - ask.months + 1)..MonthOf(now)
                         /\ DayStart(row.time) <= DayStart(now)})
  BY DEF MonthlyCoversMonths
<1> DEFINE l == <<<<area, "monthly">>, "series">>
           window == {row \in From(TableOf(area)) :
                         /\ MonthOf(row.time) \in (MonthOf(now) - ask.months + 1)..MonthOf(now)
                         /\ DayStart(row.time) <= DayStart(now)}
<1>2. PICK i \in Answered : script[i].as = l /\ Result(l) = answers[i] /\ i \in 1..Len(script) /\ script # <<>>
  BY <1>1, KnownAnswer
<1>3. script = Dashboard(now, ask.months, ask.interval) /\ ask.months \in Nat \ {0}
  BY <1>1, <1>2, ScriptOf, AsksAssumption DEF RequestInv, TypeOK
<1>4. AreFigures(script, Areas, now, ask.months)
  BY <1>3, DashboardStatements
<1>5. PICK area1 \in Areas, slice \in Slices, column \in Columns :
        IsFigureOf(script[i], area1, slice, column, PeriodOf(slice, now, ask.months))
  BY <1>2, <1>4 DEF AreFigures
<1>6. area1 = area /\ slice = "monthly"
  <2>1. l[1][1] = area /\ l[1][2] = "monthly"
    OBVIOUS
  <2> HIDE DEF l
  <2> QED
    BY <1>2, <1>5, <2>1, Labels
<1>7. /\ script[i].table = TableOf(area) /\ script[i].period = Months(now, ask.months)
      /\ script[i].shape = "counts" /\ script[i].only = <<>> /\ script[i].bucket = None
  BY <1>5, <1>6 DEF IsFigureOf, PeriodOf
<1>8. TableOf(area) \in Tables
  BY DEF Areas, TableOf, Tables
<1>9. SumOf(answers[i]) = Cardinality(Selected(script[i]))
  <2>1. Exact(script[i])
    BY <1>7 DEF Exact
  <2>2. SumOf(answers[i]) = Size(script[i])
    BY <1>1, <1>2, <2>1, QuietFigure
  <2> QED
    BY <1>7, <2>2 DEF Size
<1>10. now \in Nat
  BY <1>1, CalendarAssumption DEF TypeOK, Times, Horizon
<1>11. ASSUME NEW row \in From(TableOf(area))
       PROVE  row \in Selected(script[i]) <=> row \in window
  <2>1. row.time \in Nat
    BY <1>1, <1>8, RowsHaveTimes
  <2>2. Within(row.time, Months(now, ask.months))
          <=> /\ MonthOf(row.time) \in (MonthOf(now) - ask.months + 1)..MonthOf(now)
              /\ DayStart(row.time) <= DayStart(now)
    BY <1>3, <1>10, <2>1, MonthsWindow
  <2>3. DOMAIN script[i].only = {}
    BY <1>7
  <2>4. row \in Selected(script[i]) <=> Within(row.time, Months(now, ask.months))
    BY <1>7, <2>3 DEF Selected
  <2> QED
    BY <2>2, <2>4
<1>12. Selected(script[i]) = window
  <2>1. Selected(script[i]) \subseteq From(TableOf(area)) /\ window \subseteq From(TableOf(area))
    BY <1>7 DEF Selected
  <2> HIDE DEF window
  <2> QED
    BY <1>11, <2>1
<1> QED
  BY <1>2, <1>9, <1>12 DEF Total

\* The monthly series of the dashboard covers the months that were asked for,
\* in every calendar and across the turn of the year.
THEOREM MonthlyCoversMonthsHolds == Spec => []MonthlyCoversMonths
<1>1. ReportsInv => MonthlyCoversMonths
  BY InvariantCovers
<1> QED
  BY <1>1, Invariance, PTL
=============================================================================
