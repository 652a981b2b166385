------------------------------ MODULE AuditLog ------------------------------
(***************************************************************************)
(* What the access log promises, without threads, tasks or a process life: *)
(* a request is decided once, a decided request that is a data access may  *)
(* get a row, a row is never removed and no request gets two.  A request   *)
(* may stay without a row: the log is best effort.                         *)
(***************************************************************************)
EXTENDS Naturals

CONSTANT Requests

VARIABLES
  granted,   \* the requests answered as a data access that is to be logged
  rows       \* rows[r]: the number of rows of the access log about r

vars == <<granted, rows>>

Init ==
  /\ granted = {}
  /\ rows = [r \in Requests |-> 0]

\* The service answers r as a data access.
Grant(r) ==
  /\ r \notin granted
  /\ granted' = granted \cup {r}
  /\ UNCHANGED rows

\* The row about r becomes durable.
Record(r) ==
  /\ r \in granted
  /\ rows[r] = 0
  /\ rows' = [rows EXCEPT ![r] = 1]
  /\ UNCHANGED granted

Next == \E r \in Requests : Grant(r) \/ Record(r)

Spec == Init /\ [][Next]_vars
=============================================================================
