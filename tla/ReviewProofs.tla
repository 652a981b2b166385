---------------------------- MODULE ReviewProofs ----------------------------
(* Proofs about Review, for any reviewers, relations and batches.          *)
EXTENDS Review, FiniteSetTheorems, TLAPS

Active(r) == pc[r] \in {"decide", "audit"}

\* The transaction of one request: a correction has a single item, a decision
\* never sets an item back to proposed.
TxInv ==
  \A r \in Requests :
    /\ pc[r] = "new" => changed[r] = {}
    /\ pc[r] = "decide" => todo[r] # <<>>
    /\ op[r] = "revise" /\ pc[r] = "decide" => Len(todo[r]) = 1 /\ changed[r] = {}
    /\ op[r] = "revise" /\ Active(r) => \A i, j \in changed[r] : i = j
    /\ op[r] # "revise" /\ Active(r) => to[r] \in {"active", "rejected"}

\* What a transaction has changed it holds, and what it has decided was, and
\* until it ends remains, committed as proposed.
LockInv ==
  \A r \in Requests : Active(r) => \A i \in changed[r] :
    /\ lock[i] = r
    /\ op[r] # "revise" => status[i] = "proposed"

IInv == TypeOK /\ TxInv /\ LockInv

\* What the checks of the endpoints let through.
WellFormed(o, s, ids) ==
  /\ ids # <<>>
  /\ o = "revise" => Len(ids) = 1
  /\ o # "revise" => s \in {"active", "rejected"}

\* Each endpoint refuses its request or begins a well formed transaction.
LEMMA SubmitCases ==
  ASSUME NEW r \in Requests, Submit(r)
  PROVE  \/ Refuse(r)
         \/ \E o \in Ops, s \in Statuses, ids \in Seq(Ids) :
              WellFormed(o, s, ids) /\ Begin(r, o, s, ids)
<1>. USE DEF WellFormed, Ops, Statuses
<1>1. ASSUME NEW o \in {"approve", "reject"}, NEW ids \in Batches, BulkDecide(r, o, ids), ids # <<>>
      PROVE  \E s \in Statuses : WellFormed(o, s, ids) /\ Begin(r, o, s, ids)
  BY <1>1 DEF BulkDecide
<1>2. ASSUME NEW e \in Ids \ Kinds, NEW s \in Statuses, Revise(r, e, s)
      PROVE  <<e>> \in Seq(Ids) /\ WellFormed("revise", s, <<e>>) /\ Begin(r, "revise", s, <<e>>)
  BY <1>2, IdsAssumption DEF Revise, Items
<1>3. ASSUME NEW k \in Ids \ Edges, Promote(r, k)
      PROVE  <<k>> \in Seq(Ids) /\ WellFormed("promote", "active", <<k>>) /\ Begin(r, "promote", "active", <<k>>)
  BY <1>3, IdsAssumption DEF Promote, Items
<1>4. CASE \E o \in {"approve", "reject"}, ids \in Batches : BulkDecide(r, o, ids)
  <2>1. PICK o \in {"approve", "reject"}, ids \in Batches : BulkDecide(r, o, ids)
    BY <1>4
  <2>2. CASE ids = <<>>
    BY <2>1, <2>2 DEF BulkDecide
  <2>3. CASE ids # <<>>
    BY <1>1, <2>1, <2>3, IdsAssumption
  <2>. QED
    BY <2>2, <2>3
<1>5. CASE \E e \in Ids \ Kinds, s \in Statuses \cup {"deleted"} : Revise(r, e, s)
  <2>1. PICK e \in Ids \ Kinds, s \in Statuses \cup {"deleted"} : Revise(r, e, s)
    BY <1>5
  <2>2. CASE s \in Statuses
    BY <1>2, <2>1, <2>2
  <2>3. CASE s \notin Statuses
    BY <2>1, <2>3 DEF Revise
  <2>. QED
    BY <2>2, <2>3
<1>6. CASE \E k \in Ids \ Edges : Promote(r, k)
  BY <1>3, <1>6
<1>. QED
  BY <1>4, <1>5, <1>6 DEF Submit

-----------------------------------------------------------------------------
\* Every step keeps the types.
LEMMA TypeStep ==
  ASSUME TypeOK, TxInv, [Next]_vars
  PROVE  TypeOK'
<1>. USE IdsAssumption DEF TypeOK, Statuses, Ops, PCs, txVars
<1>1. ASSUME NEW r \in Requests, Refuse(r)
       PROVE  TypeOK'
  BY <1>1 DEF Refuse
<1>2. ASSUME NEW r \in Requests, NEW o \in Ops, NEW s \in Statuses, NEW ids \in Seq(Ids),
             WellFormed(o, s, ids), Begin(r, o, s, ids)
       PROVE  TypeOK'
  BY <1>2 DEF Begin, WellFormed
<1>3. ASSUME NEW r \in Requests, DecideOne(r)
       PROVE  TypeOK'
  <2>1. todo[r] # <<>> /\ todo[r] \in Seq(Ids)
    BY <1>3 DEF DecideOne, TxInv
  <2>2. Tail(todo[r]) \in Seq(Ids)
    BY <2>1
  <2>3. todo' \in [Requests -> Seq(Ids)] /\ pc' \in [Requests -> PCs]
    BY <1>3, <2>2 DEF DecideOne, Advance
  <2>4. CASE Matches(r, Head(todo[r]))
    <3>. DEFINE i == Head(todo[r])
    <3>1. /\ i \in Items
          /\ lock' = [lock EXCEPT ![i] = r]
          /\ changed' = [changed EXCEPT ![r] = @ \cup {i}]
          /\ told' = [told EXCEPT ![r] = @ \cup {i}]
          /\ left' = [left EXCEPT ![r] = @ \cup {i}]
      BY <1>3, <2>4 DEF DecideOne, Matches
    <3>. QED
      BY <1>3, <2>3, <3>1 DEF DecideOne
  <2>5. CASE ~Matches(r, Head(todo[r]))
    BY <1>3, <2>3, <2>5 DEF DecideOne
  <2>. QED
    BY <2>4, <2>5
<1>4. ASSUME NEW r \in Requests, NEW i \in Items, AuditOne(r, i)
       PROVE  TypeOK'
  BY <1>4 DEF AuditOne
<1>5. ASSUME NEW r \in Requests, NEW i \in Items, AuditOneFails(r, i)
       PROVE  TypeOK'
  BY <1>5 DEF AuditOneFails
<1>6. ASSUME NEW r \in Requests, NEW end \in {"done", "unknown"}, Commit(r, end)
       PROVE  TypeOK'
  <2>1. [req |-> r, op |-> op[r], to |-> to[r], items |-> changed[r], rows |-> rows[r]]
          \in Entries
    BY DEF Entries
  <2>2. history' \in Seq(Entries)
    BY <1>6, <2>1 DEF Commit
  <2>3. status' \in [Items -> Statuses] /\ lock' \in [Items -> Requests \cup {Nobody}]
    BY <1>6 DEF Commit, Visible, Unlocked
  <2>. QED
    BY <1>6, <2>2, <2>3 DEF Commit
<1>7. ASSUME NEW r \in Requests, ConnectionFails(r)
       PROVE  TypeOK'
  BY <1>7 DEF ConnectionFails, Rollback, Unlocked
<1>8. ASSUME NEW r \in Requests, DeadlockVictim(r)
       PROVE  TypeOK'
  BY <1>8 DEF DeadlockVictim, Rollback, Unlocked
<1>9. CASE UNCHANGED vars
  BY <1>9 DEF vars, txVars
<1>. HIDE DEF TypeOK, Statuses, Ops, PCs
<1>. QED
  BY SubmitCases, <1>1, <1>2, <1>3, <1>4, <1>5, <1>6, <1>7, <1>8, <1>9
  DEF Next, Work, Finished

\* Every step keeps the transactions well formed.
LEMMA TxStep ==
  ASSUME TypeOK, TxInv, [Next]_vars
  PROVE  TxInv'
<1>. USE DEF TypeOK, TxInv, Active, Statuses, Ops, txVars
<1>1. ASSUME NEW r \in Requests, Refuse(r)
       PROVE  TxInv'
  BY <1>1 DEF Refuse
<1>2. ASSUME NEW r \in Requests, NEW o \in Ops, NEW s \in Statuses, NEW ids \in Seq(Ids),
             WellFormed(o, s, ids), Begin(r, o, s, ids)
       PROVE  TxInv'
  BY <1>2 DEF Begin, WellFormed
<1>3. ASSUME NEW r \in Requests, DecideOne(r)
       PROVE  TxInv'
  <2>1. todo[r] # <<>> /\ todo[r] \in Seq(Ids) /\ pc[r] = "decide"
    BY <1>3 DEF DecideOne
  <2>2. Len(todo[r]) # 1 => Tail(todo[r]) # <<>> /\ op[r] # "revise"
    <3>1. Len(todo[r]) # 1 => Len(Tail(todo[r])) # 0
      BY <2>1
    <3>. QED
      BY <2>1, <3>1
  <2>3. ASSUME NEW u \in Requests, u # r
        PROVE  /\ pc'[u] = pc[u] /\ op'[u] = op[u] /\ to'[u] = to[u]
               /\ changed'[u] = changed[u] /\ todo'[u] = todo[u]
    BY <1>3, <2>3 DEF DecideOne, Advance
  <2>4. /\ op'[r] = op[r] /\ to'[r] = to[r]
        /\ todo'[r] = Tail(todo[r])
        /\ pc'[r] = IF Len(todo[r]) = 1 THEN "audit" ELSE "decide"
        /\ \/ changed'[r] = changed[r]
           \/ changed'[r] = changed[r] \cup {Head(todo[r])}
    BY <1>3 DEF DecideOne, Advance
  <2>5. changed[r] \in SUBSET Items /\ (op[r] = "revise" => changed[r] = {})
    BY <2>1
  <2>6. op[r] = "revise" => \A i, j \in changed'[r] : i = j
    BY <2>4, <2>5
  <2>7. /\ pc'[r] # "new"
        /\ pc'[r] = "decide" => todo'[r] # <<>>
        /\ op'[r] = "revise" => pc'[r] # "decide"
        /\ op'[r] # "revise" => to'[r] \in {"active", "rejected"}
    BY <2>1, <2>2, <2>4
  <2>8. ASSUME NEW u \in Requests
        PROVE  /\ pc'[u] = "new" => changed'[u] = {}
               /\ pc'[u] = "decide" => todo'[u] # <<>>
               /\ op'[u] = "revise" /\ pc'[u] = "decide" =>
                    Len(todo'[u]) = 1 /\ changed'[u] = {}
               /\ op'[u] = "revise" /\ pc'[u] \in {"decide", "audit"} =>
                    \A i, j \in changed'[u] : i = j
               /\ op'[u] # "revise" /\ pc'[u] \in {"decide", "audit"} =>
                    to'[u] \in {"active", "rejected"}
    <3>. HIDE DEF TypeOK, TxInv
    <3>1. CASE u = r
      <4>1. pc'[u] # "new" /\ (pc'[u] = "decide" => todo'[u] # <<>>)
        BY <2>7, <3>1
      <4>2. op'[u] = "revise" => pc'[u] # "decide" /\ \A i, j \in changed'[u] : i = j
        BY <2>4, <2>6, <2>7, <3>1
      <4>3. op'[u] # "revise" => to'[u] \in {"active", "rejected"}
        BY <2>7, <3>1
      <4>. QED
        BY <4>1, <4>2, <4>3
    <3>2. CASE u # r
      BY <2>3, <3>2 DEF TxInv, Active
    <3>. QED
      BY <3>1, <3>2
  <2>. QED
    BY <2>8
<1>4. ASSUME NEW r \in Requests, NEW i \in Items, AuditOne(r, i)
       PROVE  TxInv'
  BY <1>4 DEF AuditOne
<1>5. ASSUME NEW r \in Requests, NEW i \in Items, AuditOneFails(r, i)
       PROVE  TxInv'
  BY <1>5 DEF AuditOneFails
<1>6. ASSUME NEW r \in Requests, NEW end \in {"done", "unknown"}, Commit(r, end)
       PROVE  TxInv'
  BY <1>6 DEF Commit, Unlocked, Visible
<1>7. ASSUME NEW r \in Requests, ConnectionFails(r)
       PROVE  TxInv'
  BY <1>7 DEF ConnectionFails, Rollback, Unlocked
<1>8. ASSUME NEW r \in Requests, DeadlockVictim(r)
       PROVE  TxInv'
  <2>. Rollback(r)
    BY <1>8 DEF DeadlockVictim
  <2>. QED
    BY DEF Rollback
<1>9. CASE UNCHANGED vars
  BY <1>9 DEF vars, txVars
<1>. HIDE DEF TypeOK, TxInv, Statuses, Ops
<1>. QED
  BY SubmitCases, <1>1, <1>2, <1>3, <1>4, <1>5, <1>6, <1>7, <1>8, <1>9
  DEF Next, Work, Finished

\* Every step keeps the changed rows with their transactions.
LEMMA LockStep ==
  ASSUME TypeOK, TxInv, LockInv, [Next]_vars
  PROVE  LockInv'
<1>. USE NobodyAssumption DEF TypeOK, LockInv, Active, txVars
<1>1. ASSUME NEW r \in Requests, Refuse(r)
       PROVE  LockInv'
  BY <1>1 DEF Refuse
<1>2. ASSUME NEW r \in Requests, NEW o \in Ops, NEW s \in Statuses, NEW ids \in Seq(Ids),
             WellFormed(o, s, ids), Begin(r, o, s, ids)
       PROVE  LockInv'
  BY <1>2 DEF Begin, TxInv
<1>3. ASSUME NEW r \in Requests, DecideOne(r)
       PROVE  LockInv'
  BY <1>3 DEF DecideOne, Matches, Visible, Advance, TxInv
<1>4. ASSUME NEW r \in Requests, NEW i \in Items, AuditOne(r, i)
       PROVE  LockInv'
  BY <1>4 DEF AuditOne
<1>5. ASSUME NEW r \in Requests, NEW i \in Items, AuditOneFails(r, i)
       PROVE  LockInv'
  BY <1>5 DEF AuditOneFails
<1>6. ASSUME NEW r \in Requests, NEW end \in {"done", "unknown"}, Commit(r, end)
       PROVE  LockInv'
  BY <1>6 DEF Commit, Unlocked, Visible
<1>7. ASSUME NEW r \in Requests, Rollback(r)
       PROVE  LockInv'
  BY <1>7 DEF Rollback, Unlocked
<1>8. ASSUME NEW r \in Requests, ConnectionFails(r) \/ DeadlockVictim(r)
       PROVE  LockInv'
  <2>. HIDE DEF TypeOK, LockInv
  <2>. QED
    BY <1>7, <1>8 DEF ConnectionFails, DeadlockVictim
<1>9. CASE UNCHANGED vars
  BY <1>9 DEF vars, txVars
<1>. QED
  BY SubmitCases, <1>1, <1>2, <1>3, <1>4, <1>5, <1>6, <1>7, <1>8, <1>9
  DEF Next, Work, Finished

\* A step of a transaction is a step of the board, or none.
LEMMA BoardSimulation ==
  ASSUME TypeOK, TxInv, LockInv, [Next]_vars
  PROVE  [Board!Next]_status
<1>. USE DEF txVars
<1>1. ASSUME NEW r \in Requests, Refuse(r)
       PROVE  [Board!Next]_status
  BY <1>1 DEF Refuse
<1>2. ASSUME NEW r \in Requests, NEW o \in Ops, NEW s \in Statuses, NEW ids \in Seq(Ids),
             WellFormed(o, s, ids), Begin(r, o, s, ids)
       PROVE  [Board!Next]_status
  BY <1>2 DEF Begin, WellFormed
<1>3. ASSUME NEW r \in Requests, DecideOne(r)
       PROVE  [Board!Next]_status
  BY <1>3 DEF DecideOne, Matches, Visible, Advance
<1>4. ASSUME NEW r \in Requests, NEW i \in Items, AuditOne(r, i)
       PROVE  [Board!Next]_status
  BY <1>4 DEF AuditOne
<1>5. ASSUME NEW r \in Requests, NEW i \in Items, AuditOneFails(r, i)
       PROVE  [Board!Next]_status
  BY <1>5 DEF AuditOneFails
<1>6. ASSUME NEW r \in Requests, NEW end \in {"done", "unknown"}, Commit(r, end)
       PROVE  [Board!Next]_status
  <2>. DEFINE S == changed[r]
  <2>1. /\ Active(r) /\ S \in SUBSET Items /\ to[r] \in Statuses
        /\ status \in [Items -> Statuses]
        /\ status' = [i \in Items |-> IF i \in S THEN to[r] ELSE status[i]]
    BY <1>6 DEF Commit, Visible, Active, TypeOK
  <2>2. CASE op[r] # "revise"
    <3>1. to[r] \in {"active", "rejected"}
      BY <2>1, <2>2 DEF TxInv
    <3>2. \A i \in S : status[i] = "proposed"
      BY <2>1, <2>2 DEF LockInv
    <3>3. Board!Decide(S, to[r])
      BY <2>1, <3>2 DEF Board!Decide
    <3>. QED
      BY <2>1, <3>1, <3>3 DEF Board!Next
  <2>3. CASE op[r] = "revise" /\ S = {}
    BY <2>1, <2>3
  <2>4. CASE op[r] = "revise" /\ S # {}
    <3>1. PICK i \in Items : S = {i}
      BY <2>1, <2>4 DEF TxInv
    <3>2. Board!Revise(i, to[r])
      BY <2>1, <3>1 DEF Board!Revise
    <3>. QED
      BY <2>1, <3>2 DEF Board!Next, Board!Statuses, Statuses
  <2>. QED
    BY <2>2, <2>3, <2>4
<1>7. ASSUME NEW r \in Requests, ConnectionFails(r)
       PROVE  [Board!Next]_status
  BY <1>7 DEF ConnectionFails, Rollback, Unlocked
<1>8. ASSUME NEW r \in Requests, DeadlockVictim(r)
       PROVE  [Board!Next]_status
  BY <1>8 DEF DeadlockVictim, Rollback, Unlocked
<1>9. CASE UNCHANGED vars
  BY <1>9 DEF vars, txVars
<1>. QED
  BY SubmitCases, <1>1, <1>2, <1>3, <1>4, <1>5, <1>6, <1>7, <1>8, <1>9
  DEF Next, Work, Finished

-----------------------------------------------------------------------------
(* The history of the committed transactions.                              *)

Committed(r) == pc[r] \in {"done", "unknown"}

\* Only changed items wait for an audit row, or have one, and the changed ones
\* are those the answer tells of.
RowsInv ==
  \A r \in Requests :
    left[r] \subseteq changed[r] /\ rows[r] \subseteq changed[r] /\ told[r] = changed[r]

\* The committed requests have one entry each, and nobody else has one.
EntriesInv ==
  /\ \A r \in Requests : Committed(r) => \E n \in DOMAIN history : history[n].req = r
  /\ \A n \in DOMAIN history :
       /\ Committed(history[n].req)
       /\ history[n].rows \subseteq history[n].items
       /\ history[n].items = told[history[n].req]
       /\ \A m \in DOMAIN history : history[m].req = history[n].req => m = n

HInv == RowsInv /\ EntriesInv /\ StatusIsLastDecision /\ DecisionsNotOverwritten

\* Only a commit changes the board and the history, or commits a request.
LEMMA OnlyCommits ==
  ASSUME TypeOK, [Next]_vars
  PROVE  \/ /\ UNCHANGED <<status, history>>
            /\ \A q \in Requests : Committed(q)' = Committed(q)
            /\ \A q \in Requests : Committed(q) => told'[q] = told[q]
         \/ \E r \in Requests, end \in {"done", "unknown"} : Commit(r, end)
<1>. DEFINE Quiet ==
       /\ UNCHANGED <<status, history>>
       /\ \A q \in Requests : Committed(q)' = Committed(q)
       /\ \A q \in Requests : Committed(q) => told'[q] = told[q]
<1>0. pc \in [Requests -> PCs] /\ told \in [Requests -> SUBSET Items]
  BY DEF TypeOK
<1>. USE DEF Committed, txVars
<1>1. ASSUME NEW r \in Requests, Refuse(r)
      PROVE  Quiet
  BY <1>0, <1>1 DEF Refuse
<1>2. ASSUME NEW r \in Requests, NEW o \in Ops, NEW s \in Statuses, NEW ids \in Seq(Ids),
             Begin(r, o, s, ids)
      PROVE  Quiet
  BY <1>0, <1>2 DEF Begin
<1>3. ASSUME NEW r \in Requests, DecideOne(r)
      PROVE  Quiet
  BY <1>0, <1>3 DEF DecideOne, Advance
<1>4. ASSUME NEW r \in Requests, NEW i \in Items, AuditOne(r, i) \/ AuditOneFails(r, i)
      PROVE  Quiet
  BY <1>4 DEF AuditOne, AuditOneFails
<1>5. ASSUME NEW r \in Requests, pc[r] \in {"decide", "audit"}, Rollback(r)
      PROVE  Quiet
  BY <1>0, <1>5 DEF Rollback
<1>6. ASSUME NEW r \in Requests, ConnectionFails(r) \/ DeadlockVictim(r)
      PROVE  pc[r] \in {"decide", "audit"} /\ Rollback(r)
  BY <1>6 DEF ConnectionFails, DeadlockVictim, Waits
<1>7. CASE UNCHANGED vars
  BY <1>7 DEF vars
<1>. QED
  BY SubmitCases, <1>1, <1>2, <1>3, <1>4, <1>5, <1>6, <1>7 DEF Next, Work, Finished

\* Every step keeps the audit rows among the changed items.
LEMMA RowsStep ==
  ASSUME TypeOK, RowsInv, [Next]_vars
  PROVE  RowsInv'
<1>. USE DEF TypeOK, RowsInv, txVars
<1>1. ASSUME NEW r \in Requests, Refuse(r)
      PROVE  RowsInv'
  BY <1>1 DEF Refuse
<1>2. ASSUME NEW r \in Requests, NEW o \in Ops, NEW s \in Statuses, NEW ids \in Seq(Ids),
             Begin(r, o, s, ids)
      PROVE  RowsInv'
  BY <1>2 DEF Begin
<1>3. ASSUME NEW r \in Requests, DecideOne(r)
      PROVE  RowsInv'
  <2>. DEFINE i == Head(todo[r])
  <2>1. rows' = rows
    BY <1>3 DEF DecideOne
  <2>2. CASE Matches(r, i)
    <3>1. /\ changed' = [changed EXCEPT ![r] = @ \cup {i}]
          /\ told' = [told EXCEPT ![r] = @ \cup {i}]
          /\ left' = [left EXCEPT ![r] = @ \cup {i}]
      BY <1>3, <2>2 DEF DecideOne
    <3>. QED
      BY <2>1, <3>1
  <2>3. CASE ~Matches(r, i)
    BY <1>3, <2>1, <2>3 DEF DecideOne
  <2>. QED
    BY <2>2, <2>3
<1>4. ASSUME NEW r \in Requests, NEW i \in Items, AuditOne(r, i)
      PROVE  RowsInv'
  BY <1>4 DEF AuditOne
<1>5. ASSUME NEW r \in Requests, NEW i \in Items, AuditOneFails(r, i)
      PROVE  RowsInv'
  BY <1>5 DEF AuditOneFails
<1>6. ASSUME NEW r \in Requests, NEW end \in {"done", "unknown"}, Commit(r, end)
      PROVE  RowsInv'
  BY <1>6 DEF Commit
<1>7. ASSUME NEW r \in Requests, ConnectionFails(r) \/ DeadlockVictim(r)
      PROVE  RowsInv'
  BY <1>7 DEF ConnectionFails, DeadlockVictim, Rollback
<1>8. CASE UNCHANGED vars
  BY <1>8 DEF vars
<1>. QED
  BY SubmitCases, <1>1, <1>2, <1>3, <1>4, <1>5, <1>6, <1>7, <1>8 DEF Next, Work, Finished

\* The entries of the history have their types.
LEMMA HistoryTypes ==
  ASSUME TypeOK
  PROVE  /\ Len(history) \in Nat
         /\ DOMAIN history = 1..Len(history)
         /\ \A n \in DOMAIN history : history[n].req \in Requests
<1>1. history \in Seq(Entries)
  BY DEF TypeOK
<1>2. Len(history) \in Nat /\ DOMAIN history = 1..Len(history)
  BY <1>1
<1>3. ASSUME NEW n \in 1..Len(history)
      PROVE  history[n].req \in Requests
  <2>1. history[n] \in Entries
    BY <1>1, <1>3
  <2>. QED
    BY <2>1 DEF Entries
<1>. QED
  BY <1>2, <1>3

\* What a commit appends.
Entry(r) == [req |-> r, op |-> op[r], to |-> to[r], items |-> changed[r], rows |-> rows[r]]

\* A commit appends the entry of its request to the history.
LEMMA CommitAppends ==
  ASSUME TypeOK, NEW r \in Requests, NEW end \in {"done", "unknown"}, Commit(r, end)
  PROVE  /\ Len(history) \in Nat
         /\ DOMAIN history = 1..Len(history)
         /\ DOMAIN history' = 1..(Len(history) + 1)
         /\ Len(history') = Len(history) + 1
         /\ \A n \in 1..Len(history) : history'[n] = history[n]
         /\ history'[Len(history) + 1] = Entry(r)
<1>1. Entry(r) \in Entries /\ history \in Seq(Entries) /\ history' = Append(history, Entry(r))
  BY DEF Commit, TypeOK, Entries, Entry
<1>. QED
  BY <1>1

\* The last decision about an item before the end of the history is unique.
LEMMA LastIsUnique ==
  ASSUME TypeOK, NEW i \in Items, NEW n \in Nat,
         NEW m \in Before(n, i), NEW k \in Before(n, i),
         \A j \in Before(n, i) : j <= m, \A j \in Before(n, i) : j <= k
  PROVE  m = k
<1>1. m \in Int /\ k \in Int /\ m <= k /\ k <= m
  BY DEF Before
<1>. QED
  BY <1>1

\* Every step keeps what the history says.
LEMMA HistoryStep ==
  ASSUME IInv, HInv, [Next]_vars
  PROVE  HInv'
<1>0. TypeOK /\ LockInv
  BY DEF IInv
<1>1. RowsInv'
  BY <1>0, RowsStep DEF HInv
<1>2. CASE /\ UNCHANGED <<status, history>>
           /\ \A q \in Requests : Committed(q)' = Committed(q)
           /\ \A q \in Requests : Committed(q) => told'[q] = told[q]
  <2>1. EntriesInv'
    <3>1. \A n \in DOMAIN history : history[n].req \in Requests
      BY <1>0, HistoryTypes
    <3>. QED
      BY <1>2, <3>1 DEF HInv, EntriesInv
  <2>2. StatusIsLastDecision' /\ DecisionsNotOverwritten'
    BY <1>2 DEF HInv, StatusIsLastDecision, DecisionsNotOverwritten, Before
  <2>. QED
    BY <1>1, <2>1, <2>2 DEF HInv
<1>3. ASSUME NEW r \in Requests, NEW end \in {"done", "unknown"}, Commit(r, end)
      PROVE  HInv'
  <2>0. PICK L \in Nat : L = Len(history)
    BY <1>0, HistoryTypes
  <2>1. /\ DOMAIN history = 1..L
        /\ DOMAIN history' = 1..(L + 1)
        /\ Len(history') = L + 1
        /\ \A n \in 1..L : history'[n] = history[n]
        /\ history'[L + 1] = Entry(r)
    BY <1>0, <1>3, <2>0, CommitAppends
  <2>2. /\ pc[r] = "audit" /\ pc' = [pc EXCEPT ![r] = end]
        /\ pc \in [Requests -> PCs]
        /\ changed[r] \subseteq Items
        /\ told' = told /\ told[r] = changed[r]
        /\ \A i \in Items : status'[i] = IF i \in changed[r] THEN to[r] ELSE status[i]
    BY <1>0, <1>3 DEF Commit, Visible, TypeOK, txVars, HInv, RowsInv
  <2>3. \A n \in 1..L : history[n].req \in Requests /\ history[n].req # r
    <3>1. \A n \in 1..L : history[n].req \in Requests
      BY <1>0, <2>1, HistoryTypes
    <3>2. \A n \in 1..L : Committed(history[n].req)
      BY <2>1 DEF HInv, EntriesInv
    <3>. QED
      BY <2>2, <3>1, <3>2 DEF Committed
  <2>4. EntriesInv'
    <3>1. ASSUME NEW q \in Requests, Committed(q)'
          PROVE  \E n \in 1..(L + 1) : history'[n].req = q
      <4>1. CASE q = r
        BY <2>1, <4>1 DEF Entry
      <4>2. CASE q # r
        <5>1. Committed(q)
          BY <2>2, <3>1, <4>2 DEF Committed
        <5>2. PICK n \in 1..L : history[n].req = q
          BY <2>1, <5>1 DEF HInv, EntriesInv
        <5>. QED
          BY <2>1, <5>2
      <4>. QED
        BY <4>1, <4>2
    <3>2. ASSUME NEW n \in 1..(L + 1)
          PROVE  /\ pc'[history'[n].req] \in {"done", "unknown"}
                 /\ history'[n].rows \subseteq history'[n].items
                 /\ history'[n].items = told'[history'[n].req]
                 /\ \A m \in 1..(L + 1) : history'[m].req = history'[n].req => m = n
      <4>1. CASE n \in 1..L
        <5>1. /\ Committed(history[n].req)
              /\ history[n].rows \subseteq history[n].items
              /\ history[n].items = told[history[n].req]
              /\ \A m \in 1..L : history[m].req = history[n].req => m = n
          BY <2>1, <4>1 DEF HInv, EntriesInv
        <5>2. history'[L + 1].req # history[n].req
          BY <2>1, <2>3, <4>1 DEF Entry
        <5>. QED
          BY <2>1, <2>2, <2>3, <4>1, <5>1, <5>2 DEF Committed
      <4>2. CASE n = L + 1
        <5>1. history'[n].req = r /\ rows[r] \subseteq changed[r]
          BY <2>1, <4>2 DEF Entry, HInv, RowsInv
        <5>. QED
          BY <2>1, <2>2, <2>3, <4>2, <5>1 DEF Committed, Entry
      <4>. QED
        BY <2>1, <4>1, <4>2
    <3>. QED
      BY <2>1, <3>1, <3>2 DEF EntriesInv, Committed
  <2>5. StatusIsLastDecision'
    <3>. SUFFICES ASSUME NEW i \in Items
                  PROVE  LET ns == Before(L + 2, i)' IN
                           IF ns = {} THEN status'[i] = "proposed"
                           ELSE \E m \in ns : (\A k \in ns : k <= m) /\ status'[i] = history'[m].to
      BY <2>1 DEF StatusIsLastDecision, Before
    <3>1. Before(L + 2, i)' =
            IF i \in changed[r] THEN Before(L + 1, i) \cup {L + 1} ELSE Before(L + 1, i)
      BY <2>1 DEF Before, Entry
    <3>2. CASE i \in changed[r]
      <4>1. /\ \A k \in Before(L + 1, i) \cup {L + 1} : k <= L + 1
            /\ status'[i] = history'[L + 1].to
        BY <2>1, <2>2, <3>2 DEF Before, Entry
      <4>. QED
        BY <3>1, <3>2, <4>1
    <3>3. CASE i \notin changed[r]
      <4>1. status'[i] = status[i] /\ Before(L + 2, i)' = Before(L + 1, i)
        BY <2>2, <3>1, <3>3
      <4>2. \A m \in Before(L + 1, i) : history'[m] = history[m]
        BY <2>1 DEF Before
      <4>3. LET ns == Before(L + 1, i) IN
              IF ns = {} THEN status[i] = "proposed"
              ELSE \E m \in ns : (\A k \in ns : k <= m) /\ status[i] = history[m].to
        BY <2>0 DEF HInv, StatusIsLastDecision
      <4>. QED
        BY <4>1, <4>2, <4>3
    <3>. QED
      BY <3>2, <3>3
  <2>6. DecisionsNotOverwritten'
    <3>. SUFFICES ASSUME NEW n \in 1..(L + 1), NEW i \in history'[n].items,
                         history'[n].op # "revise", NEW m \in Before(n, i)',
                         \A k \in Before(n, i)' : k <= m
                  PROVE  history'[m].to = "proposed"
      BY <2>1 DEF DecisionsNotOverwritten
    <3>1. Before(n, i)' = Before(n, i) /\ history'[m] = history[m]
      BY <2>1 DEF Before
    <3>2. CASE n \in 1..L
      BY <2>1, <3>1, <3>2 DEF HInv, DecisionsNotOverwritten
    <3>3. CASE n = L + 1
      <4>1. i \in changed[r] /\ i \in Items /\ op[r] # "revise"
        BY <2>1, <2>2, <3>3 DEF Entry
      <4>2. status[i] = "proposed"
        BY <1>0, <2>2, <4>1 DEF LockInv, Active
      <4>3. PICK k \in Before(L + 1, i) :
              (\A j \in Before(L + 1, i) : j <= k) /\ status[i] = history[k].to
        BY <2>0, <3>1, <3>3, <4>1 DEF HInv, StatusIsLastDecision
      <4>4. m = k
        BY <1>0, <2>1, <3>1, <3>3, <4>1, <4>3, LastIsUnique
      <4>. QED
        BY <3>1, <4>2, <4>3, <4>4
    <3>. QED
      BY <2>1, <3>2, <3>3
  <2>. QED
    BY <1>1, <2>4, <2>5, <2>6 DEF HInv
<1>. QED
  BY <1>0, <1>2, <1>3, OnlyCommits

-----------------------------------------------------------------------------
\* The inductive invariant holds in every reachable state.
THEOREM Invariance == Spec => []IInv
<1>1. Init => IInv
  BY NobodyAssumption, IdsAssumption
  DEF Init, IInv, TypeOK, TxInv, LockInv, Active, Statuses, Ops, PCs
<1>2. IInv /\ [Next]_vars => IInv'
  BY TypeStep, TxStep, LockStep DEF IInv
<1>. QED
  BY <1>1, <1>2, PTL DEF Spec

\* Type correctness of the review transactions.
THEOREM TypeCorrect == Spec => []TypeOK
BY Invariance, PTL DEF IInv

\* Any number of concurrent review transactions, with deadlocks, failures and
\* lost acknowledgements, change the board as one-step decisions do: nothing
\* decided is decided again, and a request that fails changes nothing.
THEOREM ImplementsBoard == Spec => BoardSpec
<1>1. Init => Board!Init
  BY DEF Init, Board!Init
<1>2. IInv /\ [Next]_vars => [Board!Next]_status
  BY BoardSimulation DEF IInv
<1>. QED
  BY <1>1, <1>2, Invariance, PTL DEF Spec, BoardSpec, Board!Spec

\* What the history says holds in every reachable state.
THEOREM HistoryInvariance == Spec => []HInv
<1>1. Init => HInv
  BY DEF Init, HInv, RowsInv, EntriesInv, StatusIsLastDecision, DecisionsNotOverwritten,
         Before, Committed
<1>2. IInv /\ HInv /\ [Next]_vars => HInv'
  BY HistoryStep
<1>. QED
  BY <1>1, <1>2, Invariance, PTL DEF Spec

\* approve, reject and promote are never applied over a decision, whatever
\* transactions run at the same time and however they end.
THEOREM DecisionsNotOverwrittenHolds == Spec => []DecisionsNotOverwritten
BY HistoryInvariance, PTL DEF HInv

\* The committed status is always that of the last committed decision.
THEOREM StatusIsLastDecisionHolds == Spec => []StatusIsLastDecision
BY HistoryInvariance, PTL DEF HInv

\* A request has effects exactly when it was committed, once, its audit rows
\* are about items it changed, and its decisions are those its answer tells of.
THEOREM AuditTellsWhatWasDoneHolds == Spec => []AuditTellsWhatWasDone
<1>1. HInv => AuditTellsWhatWasDone
  <2>. SUFFICES ASSUME HInv, NEW r \in Requests
                PROVE  LET ns == {n \in DOMAIN history : history[n].req = r} IN
                         /\ IF Committed(r) THEN Cardinality(ns) = 1 ELSE ns = {}
                         /\ \A n \in ns : history[n].rows \subseteq history[n].items
                         /\ \A n \in ns : history[n].items = told[r]
    BY DEF AuditTellsWhatWasDone, Committed
  <2>. DEFINE ns == {n \in DOMAIN history : history[n].req = r}
  <2>1. \A n \in ns : history[n].rows \subseteq history[n].items /\ history[n].items = told[r]
    BY DEF HInv, EntriesInv
  <2>2. CASE Committed(r)
    <3>1. PICK n \in DOMAIN history : history[n].req = r
      BY <2>2 DEF HInv, EntriesInv
    <3>2. ns = {n}
      BY <3>1 DEF HInv, EntriesInv
    <3>3. Cardinality(ns) = 1
      BY <3>2, FS_Singleton
    <3>. QED
      BY <2>1, <2>2, <3>3
  <2>3. CASE ~Committed(r)
    <3>1. ns = {}
      BY <2>3 DEF HInv, EntriesInv
    <3>. QED
      BY <2>1, <2>3, <3>1
  <2>. QED
    BY <2>2, <2>3
<1>. QED
  BY <1>1, HistoryInvariance, PTL
=============================================================================
