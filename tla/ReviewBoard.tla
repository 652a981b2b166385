----------------------------- MODULE ReviewBoard ----------------------------
(***************************************************************************)
(* What the review of relations promises: a relation or a relation kind    *)
(* that waits for review is decided at most once, a request decides all    *)
(* that it decides in one step, and only the explicit correction changes a *)
(* decision that was taken.                                                *)
(***************************************************************************)
CONSTANT Items      \* the relations (edges) and the relation kinds

VARIABLE status     \* status[i]: "proposed", "active" or "rejected"

Statuses == {"proposed", "active", "rejected"}

Init == status = [i \in Items |-> "proposed"]

\* One request decides any number of waiting items.
Decide(S, to) ==
  /\ \A i \in S : status[i] = "proposed"
  /\ status' = [i \in Items |-> IF i \in S THEN to ELSE status[i]]

\* A person corrects one decision.
Revise(i, to) == status' = [status EXCEPT ![i] = to]

Next ==
  \/ \E S \in SUBSET Items, to \in {"active", "rejected"} : Decide(S, to)
  \/ \E i \in Items, to \in Statuses : Revise(i, to)

Spec == Init /\ [][Next]_status
=============================================================================
