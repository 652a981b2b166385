------------------------------- MODULE SearchGroup ---------------------------
(***************************************************************************)
(* What the service makes of the hits of a search: groups of the best for  *)
(* each modality (search_group.group_ranked), rows without what the caller *)
(* may not see, the facet of topics and the compact view (routes_search).  *)
(*                                                                         *)
(* A score is a number of ten-millionths.  A row's id stands for the asset *)
(* and its name; a topic and a pair of a topic and a subtopic are sequences *)
(* of the characters the code tells apart, ">" and others.  The order of   *)
(* the facets and the clipping of summaries are left out.                  *)
(***************************************************************************)
EXTENDS Integers, Sequences, FiniteSets, SequencesExt, Ranking

CONSTANT Unreadable   \* a score that is missing, not a number or not finite

Omitted == "omitted"  \* the row has no key summary

\* _row_similarity and _finite.
Finite(score) == IF score = Unreadable THEN 0 ELSE score

\* round(x, 6) and round(x, 4).
RoundTo(unit, x) == ((x + unit \div 2) \div unit) * unit
Sixth(x) == RoundTo(10, x)
Fourth(x) == RoundTo(1000, x)

\* _EXCLUDE_DOMAINS.
Excluded == {}

AtMost(n, s) == SubSeq(s, 1, IF Len(s) < n THEN Len(s) ELSE n)
RowsOf(groups) == UNION {ToSet(groups[m]) : m \in DOMAIN groups}

-----------------------------------------------------------------------------
(* group_ranked.                                                           *)

Shape(row) == [row EXCEPT !.score = Finite(@)]

\* _sort_key.
Closer(r, s) ==
  LET x == Sixth(r.score)
      y == Sixth(s.score)
  IN  x > y \/ (x = y /\ r.id < s.id)

ShapedRows(rows) ==
  LET kept == Kept(rows, {i \in DOMAIN rows : rows[i].domain \notin Excluded})
  IN  [i \in DOMAIN kept |-> Shape(kept[i])]

InOrder(shaped) == SortedBy(shaped, Order(ToSet(shaped), Closer))

\* Mutant: the rows are cut before they are in order.
GroupedCutFirst(result, limit) ==
  [m \in DOMAIN result |-> InOrder(ShapedRows(AtMost(limit, result[m])))]

\* The best of each modality, the modalities apart.
Grouped(result, limit) ==
  [m \in DOMAIN result |-> AtMost(limit, InOrder(ShapedRows(result[m])))]

-----------------------------------------------------------------------------
(* _project_grouped_search.                                                *)

\* project_ext_meta (core package) keeps a field of a tier up to the clearance.
MaySee(tier, clearance) == tier <= clearance

Project(row, tiers, clearance) ==
  IF row.summary # "" /\ ~MaySee(tiers[row.domain], clearance)
    THEN [row EXCEPT !.summary = Omitted] ELSE row

Projected(groups, tiers, clearance) ==
  [m \in DOMAIN groups |-> [i \in DOMAIN groups[m] |-> Project(groups[m][i], tiers, clearance)]]

-----------------------------------------------------------------------------
(* _search_topic_facet.                                                    *)

\* Mutant: a pair is split at the last ">".
LastSplit(pair) == SelectLastInSeq(pair, LAMBDA c : c = ">")

\* A pair is split at the first ">".
Split(pair) == SelectInSeq(pair, LAMBDA c : c = ">")

Parent(pair) == IF Split(pair) = 0 THEN pair ELSE SubSeq(pair, 1, Split(pair) - 1)
Child(pair)  == IF Split(pair) = 0 THEN <<>> ELSE SubSeq(pair, Split(pair) + 1, Len(pair))

\* Old documents have no pairs: their topics are counted.
Pairs(row) == IF row.pairs \ {<<>>} # {} THEN row.pairs \ {<<>>} ELSE row.topics \ {<<>>}

AssetsWith(groups, topic, child) ==
  {row.id : row \in {r \in RowsOf(groups) :
     \E p \in Pairs(r) : Parent(p) = topic /\ (child # <<>> => Child(p) = child)}}

Facet(groups) ==
  LET all == UNION {Pairs(row) : row \in RowsOf(groups)} IN
    [topic \in {Parent(p) : p \in all} \ {<<>>} |->
       [count |-> Cardinality(AssetsWith(groups, topic, <<>>)),
        subs  |-> [child \in {Child(p) : p \in {q \in all : Parent(q) = topic}} \ {<<>>} |->
                     Cardinality(AssetsWith(groups, topic, child))]]]

-----------------------------------------------------------------------------
(* _compact_view.                                                          *)

CompactRow(row) ==
  [id |-> row.id, score |-> Fourth(row.score),
   summary |-> IF row.summary = Omitted THEN "" ELSE row.summary]

\* One ranking of all the modalities.
Compact(groups, limit) ==
  LET rows == {CompactRow(row) : row \in RowsOf(groups)}
  IN  AtMost(limit, Ranked(rows, Order(rows, LAMBDA r, s : r.score > s.score \/ (r.score = s.score /\ r.id < s.id))))
=============================================================================
