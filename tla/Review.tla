------------------------------- MODULE Review -------------------------------
(***************************************************************************)
(* The review endpoints (service/api/routes_review.py): approve and reject *)
(* a batch of relations, revise a decision, promote a relation kind.  Each *)
(* request is one database transaction: it decides its items one by one,   *)
(* then writes one audit row per item it changed, each behind a savepoint, *)
(* then commits.                                                           *)
(*                                                                         *)
(* The statements themselves (bulk_review, revise_edge,                    *)
(* promote_relation_kind) belong to the core package and are external:     *)
(* they are UPDATEs of one row, guarded by the waiting status except for   *)
(* revise, under read committed, with PostgreSQL's row locks and deadlock  *)
(* detection.                                                              *)
(***************************************************************************)
EXTENDS Naturals, Sequences, FiniteSets

CONSTANTS
  Requests,   \* the requests of the reviewers
  Edges,      \* the relations that wait for review
  Kinds,      \* the relation kinds that wait for review
  Ids,        \* the ids a reviewer may name, whether such a row exists or not
  Batches,    \* the lists of ids a reviewer may send
  Nobody,     \* the value of a row lock that is free
  Faults      \* the faults that may happen, a subset of FaultKinds

Items == Edges \cup Kinds
Statuses == {"proposed", "active", "rejected"}
Ops == {"approve", "reject", "revise", "promote"}
PCs == {"new", "decide", "audit", "done", "unknown", "failed", "refused"}
FaultKinds == {"audit_error", "connection", "ack_lost"}

ASSUME IdsAssumption == Items \subseteq Ids /\ Batches \subseteq Seq(Ids)
ASSUME NobodyAssumption == Nobody \notin Requests
ASSUME FaultsAssumption == Faults \subseteq FaultKinds

VARIABLES
  status,   \* status[i]: the committed status of item i
  lock,     \* lock[i]: the request whose transaction has changed row i
  pc,       \* pc[r]: how far the transaction of r is, or how r ended
  op,       \* op[r]: the endpoint of r
  to,       \* to[r]: the status r gives to its items
  todo,     \* todo[r]: the ids r has still to decide
  changed,  \* changed[r]: the items r has changed (ok = true)
  told,     \* told[r]: the ids with ok = true in the answer being built
  left,     \* left[r]: the changed items without an attempted audit row
  rows,     \* rows[r]: the items with an audit row in r's transaction
  history   \* the committed requests in commit order, with their effects

txVars == <<op, to, todo, changed, told, left, rows>>
vars == <<status, lock, pc, txVars, history>>

Entries == [req : Requests, op : Ops, to : Statuses,
            items : SUBSET Items, rows : SUBSET Items]

TypeOK ==
  /\ status \in [Items -> Statuses]
  /\ lock \in [Items -> Requests \cup {Nobody}]
  /\ pc \in [Requests -> PCs]
  /\ op \in [Requests -> Ops]
  /\ to \in [Requests -> Statuses]
  /\ todo \in [Requests -> Seq(Ids)]
  /\ changed \in [Requests -> SUBSET Items]
  /\ told \in [Requests -> SUBSET Items]
  /\ left \in [Requests -> SUBSET Items]
  /\ rows \in [Requests -> SUBSET Items]
  /\ history \in Seq(Entries)

Init ==
  /\ status = [i \in Items |-> "proposed"]
  /\ lock = [i \in Items |-> Nobody]
  /\ pc = [r \in Requests |-> "new"]
  /\ op = [r \in Requests |-> "approve"]
  /\ to = [r \in Requests |-> "proposed"]
  /\ todo = [r \in Requests |-> <<>>]
  /\ changed = [r \in Requests |-> {}]
  /\ told = [r \in Requests |-> {}]
  /\ left = [r \in Requests |-> {}]
  /\ rows = [r \in Requests |-> {}]
  /\ history = <<>>

-----------------------------------------------------------------------------
(* The requests.                                                           *)

\* The request passes its checks and its transaction begins.
Begin(r, o, s, ids) ==
  /\ pc[r] = "new"
  /\ pc' = [pc EXCEPT ![r] = "decide"]
  /\ op' = [op EXCEPT ![r] = o]
  /\ to' = [to EXCEPT ![r] = s]
  /\ todo' = [todo EXCEPT ![r] = ids]
  /\ UNCHANGED <<status, lock, changed, told, left, rows, history>>

\* An empty list or an unknown to_status: 400, before any transaction.
Refuse(r) ==
  /\ pc[r] = "new"
  /\ pc' = [pc EXCEPT ![r] = "refused"]
  /\ UNCHANGED <<status, lock, txVars, history>>

\* relations_approve and relations_reject: _bulk_decide.
BulkDecide(r, o, ids) ==
  IF ids = <<>>
    THEN Refuse(r)
    ELSE Begin(r, o, IF o = "approve" THEN "active" ELSE "rejected", ids)

\* relations_revise: _REVIEW_STATUSES are the three statuses.
Revise(r, e, s) ==
  IF s \notin Statuses THEN Refuse(r) ELSE Begin(r, "revise", s, <<e>>)

\* relation_kind_promote.
Promote(r, k) == Begin(r, "promote", "active", <<k>>)

-----------------------------------------------------------------------------
(* The statements of the transaction.                                      *)

\* The status of item i that the transaction of r sees.
Visible(r, i) == IF i \in changed[r] THEN to[r] ELSE status[i]

\* Mutant: the statements do not look at the status they change.
AnyRow(r, i) == i \in Items

\* The row the UPDATE of r finds: it exists, and it waits for review unless
\* this is the correction.
Matches(r, i) ==
  /\ i \in Items
  /\ op[r] = "revise" \/ Visible(r, i) = "proposed"

\* The row is locked by the transaction of u, and r waits for it.
Waits(r, u) ==
  /\ pc[r] = "decide"
  /\ u # r
  /\ Matches(r, Head(todo[r]))
  /\ lock[Head(todo[r])] = u

Advance(r) ==
  /\ todo' = [todo EXCEPT ![r] = Tail(@)]
  /\ pc' = [pc EXCEPT ![r] = IF Len(todo[r]) = 1 THEN "audit" ELSE "decide"]

\* Mutant: every id of the list is audited, not only those that changed.
DecideAuditsAll(r) ==
  /\ pc[r] = "decide"
  /\ Head(todo[r]) \in Items
  /\ ~\E u \in Requests : Waits(r, u)
  /\ IF Matches(r, Head(todo[r]))
       THEN /\ lock' = [lock EXCEPT ![Head(todo[r])] = r]
            /\ changed' = [changed EXCEPT ![r] = @ \cup {Head(todo[r])}]
            /\ told' = [told EXCEPT ![r] = @ \cup {Head(todo[r])}]
       ELSE UNCHANGED <<lock, changed, told>>
  /\ left' = [left EXCEPT ![r] = @ \cup {Head(todo[r])}]
  /\ Advance(r)
  /\ UNCHANGED <<status, op, to, rows, history>>

\* Mutant: the status is read and written without holding the row.
DecideUnlocked(r) ==
  /\ pc[r] = "decide"
  /\ IF Matches(r, Head(todo[r]))
       THEN /\ changed' = [changed EXCEPT ![r] = @ \cup {Head(todo[r])}]
            /\ told' = [told EXCEPT ![r] = @ \cup {Head(todo[r])}]
            /\ left' = [left EXCEPT ![r] = @ \cup {Head(todo[r])}]
       ELSE UNCHANGED <<changed, told, left>>
  /\ Advance(r)
  /\ UNCHANGED <<status, lock, op, to, rows, history>>

\* One id of the list: ok = true changes and locks its row, ok = false does
\* nothing.  Only the changed ones are audited.
DecideOne(r) ==
  /\ pc[r] = "decide"
  /\ LET i == Head(todo[r]) IN
       \/ /\ Matches(r, i)
          /\ lock[i] \in {Nobody, r}
          /\ lock' = [lock EXCEPT ![i] = r]
          /\ changed' = [changed EXCEPT ![r] = @ \cup {i}]
          /\ told' = [told EXCEPT ![r] = @ \cup {i}]
          /\ left' = [left EXCEPT ![r] = @ \cup {i}]
       \/ /\ ~Matches(r, i)
          /\ UNCHANGED <<lock, changed, told, left>>
  /\ Advance(r)
  /\ UNCHANGED <<status, op, to, rows, history>>

\* _record_relation_audit inside its savepoint.
AuditOne(r, i) ==
  /\ pc[r] = "audit"
  /\ i \in left[r]
  /\ left' = [left EXCEPT ![r] = @ \ {i}]
  /\ rows' = [rows EXCEPT ![r] = @ \cup {i}]
  /\ UNCHANGED <<status, lock, pc, op, to, todo, changed, told, history>>

\* Mutant: no savepoint, the failed insert aborts the whole transaction, its
\* exception is caught all the same and the COMMIT does nothing.
AuditOneFailsAborts(r, i) ==
  /\ "audit_error" \in Faults
  /\ pc[r] = "audit"
  /\ i \in left[r]
  /\ changed' = [changed EXCEPT ![r] = {}]
  /\ left' = [left EXCEPT ![r] = {}]
  /\ rows' = [rows EXCEPT ![r] = {}]
  /\ UNCHANGED <<status, lock, pc, op, to, todo, told, history>>

\* The insert fails: the savepoint is rolled back, the decision stays.
AuditOneFails(r, i) ==
  /\ "audit_error" \in Faults
  /\ pc[r] = "audit"
  /\ i \in left[r]
  /\ left' = [left EXCEPT ![r] = @ \ {i}]
  /\ UNCHANGED <<status, lock, pc, op, to, todo, changed, told, rows, history>>

Unlocked(r) == [i \in Items |-> IF lock[i] = r THEN Nobody ELSE lock[i]]

\* Mutant: a commit whose acknowledgement is lost is sent again.
CommitRepeated(r, end) ==
  /\ pc[r] = "audit"
  /\ left[r] = {}
  /\ pc' = [pc EXCEPT ![r] = IF end = "unknown" THEN "audit" ELSE end]
  /\ status' = [i \in Items |-> Visible(r, i)]
  /\ lock' = Unlocked(r)
  /\ history' = Append(history, [req |-> r, op |-> op[r], to |-> to[r],
                                 items |-> changed[r], rows |-> rows[r]])
  /\ UNCHANGED txVars

\* The transaction commits; the acknowledgement may be lost on the way, and
\* then the reviewer sees a failure although the decisions are applied.
Commit(r, end) ==
  /\ pc[r] = "audit"
  /\ left[r] = {}
  /\ pc' = [pc EXCEPT ![r] = end]
  /\ status' = [i \in Items |-> Visible(r, i)]
  /\ lock' = Unlocked(r)
  /\ history' = Append(history, [req |-> r, op |-> op[r], to |-> to[r],
                                 items |-> changed[r], rows |-> rows[r]])
  /\ UNCHANGED txVars

\* Mutant: each statement commits on its own, a failure keeps the first ones.
RollbackKeeps(r) ==
  /\ pc' = [pc EXCEPT ![r] = "failed"]
  /\ status' = [i \in Items |-> Visible(r, i)]
  /\ lock' = Unlocked(r)
  /\ UNCHANGED <<txVars, history>>

\* Mutant: the rows of a transaction that has failed stay locked.
RollbackLocked(r) ==
  /\ pc' = [pc EXCEPT ![r] = "failed"]
  /\ UNCHANGED <<status, lock, txVars, history>>

\* The transaction ends with nothing applied; the request is answered 500.
Rollback(r) ==
  /\ pc' = [pc EXCEPT ![r] = "failed"]
  /\ lock' = Unlocked(r)
  /\ UNCHANGED <<status, txVars, history>>

ConnectionFails(r) ==
  /\ "connection" \in Faults
  /\ pc[r] \in {"decide", "audit"}
  /\ Rollback(r)

\* The database ends one of the transactions that wait for each other.
DeadlockVictim(r) ==
  /\ \E S \in SUBSET Requests :
       /\ r \in S
       /\ \A u \in S : \E v \in S : Waits(u, v)
       /\ \A v \in S : \E u \in S : Waits(u, v)
  /\ Rollback(r)

-----------------------------------------------------------------------------
Submit(r) ==
  \/ \E o \in {"approve", "reject"}, ids \in Batches : BulkDecide(r, o, ids)
  \/ \E e \in Ids \ Kinds, s \in Statuses \cup {"deleted"} : Revise(r, e, s)
  \/ \E k \in Ids \ Edges : Promote(r, k)

Work(r) ==
  \/ DecideOne(r)
  \/ \E i \in Items : AuditOne(r, i) \/ AuditOneFails(r, i)
  \/ Commit(r, "done")
  \/ "ack_lost" \in Faults /\ Commit(r, "unknown")

Ended(r) == pc[r] \in {"done", "unknown", "failed", "refused"}

\* Every reviewer has been answered.
Finished == (\A r \in Requests : Ended(r)) /\ UNCHANGED vars

Next ==
  \/ \E r \in Requests :
       Submit(r) \/ Work(r) \/ ConnectionFails(r) \/ DeadlockVictim(r)
  \/ Finished

Spec == Init /\ [][Next]_vars

\* The database executes the statements it is sent and breaks deadlocks.
FairSpec ==
  Spec /\ \A r \in Requests : WF_vars(Work(r)) /\ WF_vars(DeadlockVictim(r))

-----------------------------------------------------------------------------
(* Properties.                                                             *)

\* The entries of the history about item i that precede position n.
Before(n, i) == {m \in 1..(n - 1) : i \in history[m].items}

\* approve, reject and promote act on what waits for review: whatever the
\* interleaving, none of them is applied over a decision that was taken,
\* unless a person first set that one back to proposed.
DecisionsNotOverwritten ==
  \A n \in DOMAIN history : \A i \in history[n].items :
    history[n].op # "revise" =>
      \A m \in Before(n, i) :
        (\A k \in Before(n, i) : k <= m) => history[m].to = "proposed"

\* What is committed is what the committed requests decided, the last one
\* about each item: a request that failed has left nothing behind.
StatusIsLastDecision ==
  \A i \in Items :
    LET ns == Before(Len(history) + 1, i) IN
      IF ns = {} THEN status[i] = "proposed"
      ELSE \E m \in ns : (\A k \in ns : k <= m) /\ status[i] = history[m].to

\* The audit and the answer tell what was done: a request has effects exactly
\* when it was committed, and then once; each of its audit rows is about an
\* item it changed itself ("if the audit also held what did nothing, it would
\* disagree with the changes", _bulk_decide); and an audit row that could not
\* be written costs none of the decisions the reviewer is told of (FR-502).
AuditTellsWhatWasDone ==
  \A r \in Requests :
    LET ns == {n \in DOMAIN history : history[n].req = r} IN
      /\ IF pc[r] \in {"done", "unknown"} THEN Cardinality(ns) = 1 ELSE ns = {}
      /\ \A n \in ns : history[n].rows \subseteq history[n].items
      /\ \A n \in ns : history[n].items = told[r]

\* The transactions implement the one-step board.
Board == INSTANCE ReviewBoard
BoardSpec == Board!Spec

\* Every request that was sent is answered: reviewers whose batches name the
\* same relations in different orders do not wait for each other for ever.
RequestsEnd == \A r \in Requests : (pc[r] = "decide") ~> Ended(r)
=============================================================================
