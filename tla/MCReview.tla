------------------------------- MODULE MCReview -----------------------------
(* Review for TLC.  Batches name the two relations in both orders, one of  *)
(* them twice, an id that does not exist, and nothing.                     *)
EXTENDS Review

CONSTANTS r1, r2, e1, e2, k1, ghost

TwoRequests == {r1, r2}
TwoEdges    == {e1, e2}
OneKind     == {k1}
AllIds      == {e1, e2, k1, ghost}
AllBatches  == {<<>>, <<e1, e2>>, <<e2, e1>>, <<e1, e1>>, <<ghost, e1>>}
=============================================================================
