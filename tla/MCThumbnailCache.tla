--------------------------- MODULE MCThumbnailCache -------------------------
(* ThumbnailCache for TLC: two sizes of an asset and one unsafe id.        *)
EXTENDS ThumbnailCache, TLC

CONSTANTS r1, r2, r3, card, detail, odd

ThreeRequests == {r1, r2, r3}
ThreeKeys     == {card, detail, odd}
OneUnsafe     == {odd}

\* Requests are interchangeable, and so are the two sizes.
Symmetry == Permutations(Requests) \cup Permutations({card, detail})
=============================================================================
