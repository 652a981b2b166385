----------------------------- MODULE SharedPool -----------------------------
(***************************************************************************)
(* What the process-wide database object promises its users: there is at   *)
(* most one published pool, a user only ever gets that one, and it is not  *)
(* replaced or closed while anybody uses it.                               *)
(***************************************************************************)
EXTENDS Naturals

CONSTANT Users

NoPool == 0

VARIABLES
  pool,   \* the published pool, or NoPool
  using   \* using[u]: the pool u works with, or NoPool

vars == <<pool, using>>

Init ==
  /\ pool = NoPool
  /\ using = [u \in Users |-> NoPool]

\* A pool is opened and published, only when none is.
Open ==
  /\ pool = NoPool
  /\ pool' \in Nat \ {NoPool}
  /\ UNCHANGED using

\* A user gets the published pool; the first one may open it.
Get(u) ==
  /\ using[u] = NoPool
  /\ IF pool = NoPool THEN pool' \in Nat \ {NoPool} ELSE pool' = pool
  /\ using' = [using EXCEPT ![u] = pool']

\* A user is done with it.
Put(u) ==
  /\ using' = [using EXCEPT ![u] = NoPool]
  /\ UNCHANGED pool

\* The pool is closed: nobody uses it.
Close ==
  /\ \A u \in Users : using[u] = NoPool
  /\ pool' = NoPool
  /\ UNCHANGED using

\* The process dies, and every user with it.
Die ==
  /\ pool' = NoPool
  /\ using' = [u \in Users |-> NoPool]

Next ==
  \/ Open
  \/ \E u \in Users : Get(u) \/ Put(u)
  \/ Close
  \/ Die

Spec == Init /\ [][Next]_vars
=============================================================================
