------------------------------- MODULE MCBundle -----------------------------
(* Bundle for TLC: a seed and three neighbours, at most two of them kept.  *)
(* The seed and a neighbour have the same file name, another neighbour has *)
(* the name one of them is renamed to, and the last one has no path.  The   *)
(* second one may be no longer registered.                                 *)
EXTENDS Bundle

FourAssets == 1..4
Fourth == {4}

Plain(root) == [root |-> root, marks |-> <<>>]
CollidingNames ==
  <<Plain("a"), Plain("a"), [root |-> "a", marks |-> <<1>>], Plain("b")>>

\* Two neighbours with every confidence, one of them also without; the seed
\* itself and the one without a path with the best.
Links == [asset : {2, 3}, conf : {1, 2}] \cup [asset : {1, 4}, conf : {2}]
         \cup [asset : {2}, conf : {NoConfidence}]
AllRowLists == UNION {[1..n -> Links] : n \in 0..3}

AllOrNot2 == {FourAssets, {1, 3, 4}}
FullAndHalf == {FourAssets, {2, 4}}
=============================================================================
