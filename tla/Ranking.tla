-------------------------------- MODULE Ranking ------------------------------
(***************************************************************************)
(* Ranked lists and what is picked out of a list, without recursion: what  *)
(* Python's sorted, list.sort and list comprehensions return.  An order is *)
(* a set of pairs.  An element's place in a ranking is the number of the   *)
(* elements before it.                                                     *)
(***************************************************************************)
EXTENDS Integers, FiniteSets

Order(S, Precedes(_, _)) == {p \in S \X S : Precedes(p[1], p[2])}
Ascending == {p \in Nat \X Nat : p[1] < p[2]}

Before(x, S, R) == {y \in S : <<y, x>> \in R}

\* The elements of S, in the order R.
Ranked(S, R) ==
  [i \in 1..Cardinality(S) |-> CHOOSE x \in S : Cardinality(Before(x, S, R)) = i - 1]

\* The elements of a list at the given places, one after the other.
Pick(list, places) == [i \in DOMAIN places |-> list[places[i]]]

\* The elements at the places of I, in the order of the list.
Kept(list, I) == Pick(list, Ranked(I, Ascending))

\* A sort is stable: what R does not tell apart stays as it was.
Stable(list, R) ==
  Order(DOMAIN list, LAMBDA i, j :
    \/ <<list[i], list[j]>> \in R
    \/ <<list[j], list[i]>> \notin R /\ i < j)

SortedBy(list, R) == Pick(list, Ranked(DOMAIN list, Stable(list, R)))
=============================================================================
