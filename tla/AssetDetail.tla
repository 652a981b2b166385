------------------------------- MODULE AssetDetail ---------------------------
(***************************************************************************)
(* _merge_relations_by_asset: the rows of an asset's relations become one  *)
(* card for each neighbour.  The rows come from the core package in any    *)
(* order, today one for each neighbour with the kinds of the edges folded  *)
(* into it; the code is also written for several.                          *)
(***************************************************************************)
EXTENDS Integers, Sequences, FiniteSetsExt, SequencesExt, Ranking

\* No confidence: last in a descending order, as the code has it.
NoConfidence == -1

\* _TIER_RANK: a tier that is not known comes last.
TierRank(tier) ==
  CASE tier = "strong" -> 0
    [] tier = "weak"   -> 1
    [] OTHER           -> 2

\* A row as the core package returns it: an edge with the tier of its state and
\* the kinds of the edges folded into it (folded_kind_codes).
Graded(e, tier, folded) ==
  [edge |-> e.edge, asset |-> e.asset, kind |-> e.kind, conf |-> e.conf,
   tier |-> tier, folded |-> folded]

\* Mutant: folded_kind_codes is not among the keys that are kept.
DetailWithoutFolded(row) ==
  [edge |-> row.edge, kind |-> row.kind, conf |-> row.conf, tier |-> row.tier, folded |-> {}]

\* _EDGE_DETAIL_KEYS: what a card keeps of a row.
Detail(row) ==
  [edge |-> row.edge, kind |-> row.kind, conf |-> row.conf, tier |-> row.tier,
   folded |-> row.folded]

EdgePrecedes(e, f) == e.conf > f.conf \/ (e.conf = f.conf /\ e.edge < f.edge)

\* Mutant: the tier of the strongest confidence is the tier of the card.
FirstTier(edges) == edges[1].tier

\* The best of the tiers of the edges.
BestTier(edges) ==
  LET tiers == {edges[i].tier : i \in DOMAIN edges} IN
    CHOOSE t \in tiers : \A u \in tiers : TierRank(t) <= TierRank(u)

Card(all, neighbour) ==
  LET own    == Kept(all, {i \in DOMAIN all : all[i].asset = neighbour})
      sorted == SortedBy(own, Order(ToSet(own), EdgePrecedes))
      edges  == [i \in DOMAIN sorted |-> Detail(sorted[i])]
  IN
    [asset |-> neighbour,
     kinds |-> {edges[i].kind : i \in DOMAIN edges},
     best  |-> Max({edges[i].conf : i \in DOMAIN edges}),
     tier  |-> BestTier(edges),
     edges |-> edges]

\* Mutant: the confidence comes before the tier.
ConfidenceFirst(c, d) ==
  \/ c.best > d.best
  \/ c.best = d.best /\ c.asset < d.asset

CardPrecedes(c, d) ==
  \/ TierRank(c.tier) < TierRank(d.tier)
  \/ TierRank(c.tier) = TierRank(d.tier) /\ (c.best > d.best \/ (c.best = d.best /\ c.asset < d.asset))

Merged(edges) ==
  LET cards == {Card(edges, a) : a \in {edges[i].asset : i \in DOMAIN edges}}
  IN  Ranked(cards, Order(cards, CardPrecedes))
=============================================================================
