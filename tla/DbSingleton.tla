----------------------------- MODULE DbSingleton ----------------------------
(***************************************************************************)
(* _get_db and _close_db_singleton of service/api/_infra.py, statement by  *)
(* statement: worker threads that ask for the process-wide database object *)
(* with a check outside the lock and a second one inside it, while the     *)
(* lifespan may close the object between two bursts of requests.           *)
(***************************************************************************)
EXTENDS Naturals

CONSTANTS
  Callers,    \* the worker threads, as callers of _get_db
  Nobody,     \* the value of the lock when no thread holds it
  MaxCloses,  \* a bound on the shutdowns inside one process
  MaxFails    \* a bound on the failures of open_pool

ASSUME NobodyAssumption == Nobody \notin Callers
ASSUME BoundsAssumption == MaxCloses \in Nat /\ MaxFails \in Nat

NoDb == 0
PCs == {"idle", "check", "acquire", "recheck", "open", "publish", "return", "using"}

VARIABLES
  singleton,  \* _DB_SINGLETON
  lock,       \* the holder of _DB_LOCK
  pc,         \* pc[t]: the statement t executes next
  local,      \* local[t]: the variable db of t, an object not yet published
  result,     \* result[t]: what _get_db returned to t
  opened,     \* the pools that are open
  seq,        \* the number of pools ever opened
  closes,     \* the number of shutdowns
  fails       \* the number of failed opens

dbVars == <<singleton, lock, pc, local, result, opened, seq, closes, fails>>

DbTypeOK ==
  /\ singleton \in Nat
  /\ lock \in Callers \cup {Nobody}
  /\ pc \in [Callers -> PCs]
  /\ local \in [Callers -> Nat]
  /\ result \in [Callers -> Nat]
  /\ opened \subseteq Nat \ {NoDb}
  /\ seq \in Nat
  /\ closes \in 0..MaxCloses
  /\ fails \in 0..MaxFails

DbInit ==
  /\ singleton = NoDb
  /\ lock = Nobody
  /\ pc = [t \in Callers |-> "idle"]
  /\ local = [t \in Callers |-> NoDb]
  /\ result = [t \in Callers |-> NoDb]
  /\ opened = {}
  /\ seq = 0
  /\ closes = 0
  /\ fails = 0

Goto(t, from, to) == pc[t] = from /\ pc' = [pc EXCEPT ![t] = to]

-----------------------------------------------------------------------------
\* A job reaches _run_in_db or _run_in_db_write.
Call(t) ==
  /\ Goto(t, "idle", "check")
  /\ UNCHANGED <<singleton, lock, local, result, opened, seq, closes, fails>>

\* The check outside the lock.
FirstCheck(t) ==
  /\ Goto(t, "check", IF singleton = NoDb THEN "acquire" ELSE "return")
  /\ UNCHANGED <<singleton, lock, local, result, opened, seq, closes, fails>>

Acquire(t) ==
  /\ lock = Nobody
  /\ lock' = t
  /\ Goto(t, "acquire", "recheck")
  /\ UNCHANGED <<singleton, local, result, opened, seq, closes, fails>>

\* Mutant: no check inside the lock.
NoSecondCheck(t) ==
  /\ Goto(t, "recheck", "open")
  /\ UNCHANGED <<singleton, lock, local, result, opened, seq, closes, fails>>

\* The check inside the lock; leaving the with statement releases the lock.
SecondCheck(t) ==
  /\ \/ /\ singleton = NoDb
        /\ Goto(t, "recheck", "open")
        /\ UNCHANGED lock
     \/ /\ singleton # NoDb
        /\ Goto(t, "recheck", "return")
        /\ lock' = Nobody
  /\ UNCHANGED <<singleton, local, result, opened, seq, closes, fails>>

\* Mutant: the object is published before its pool is open.
PublishThenOpen(t) ==
  /\ \/ /\ pc[t] = "open" /\ singleton = NoDb
        /\ singleton' = seq + 1
        /\ UNCHANGED <<pc, opened, seq, local>>
     \/ /\ singleton # NoDb
        /\ Goto(t, "open", "publish")
        /\ seq' = seq + 1
        /\ opened' = opened \cup {seq + 1}
        /\ local' = [local EXCEPT ![t] = seq + 1]
        /\ UNCHANGED singleton
  /\ UNCHANGED <<lock, result, closes, fails>>

\* db = PostgresUtil(); db.open_pool().
OpenPool(t) ==
  /\ Goto(t, "open", "publish")
  /\ seq' = seq + 1
  /\ local' = [local EXCEPT ![t] = seq + 1]
  /\ opened' = opened \cup {seq + 1}
  /\ UNCHANGED <<singleton, lock, result, closes, fails>>

\* Mutant: the lock is not released on the way out of an exception.
OpenFailsLocked(t) ==
  /\ fails < MaxFails
  /\ fails' = fails + 1
  /\ Goto(t, "open", "idle")
  /\ UNCHANGED <<singleton, lock, local, result, opened, seq, closes>>

\* open_pool raises: the with statement releases the lock, nothing is
\* published, and the job fails.
OpenFails(t) ==
  /\ fails < MaxFails
  /\ fails' = fails + 1
  /\ Goto(t, "open", "idle")
  /\ lock' = Nobody
  /\ UNCHANGED <<singleton, local, result, opened, seq, closes>>

Publish(t) ==
  /\ Goto(t, "publish", "return")
  /\ singleton' = local[t]
  /\ local' = [local EXCEPT ![t] = NoDb]
  /\ lock' = Nobody
  /\ UNCHANGED <<result, opened, seq, closes, fails>>

\* The return statement reads the global again, outside the lock.
Return(t) ==
  /\ Goto(t, "return", "using")
  /\ result' = [result EXCEPT ![t] = singleton]
  /\ UNCHANGED <<singleton, lock, local, opened, seq, closes, fails>>

\* The transaction of the job ends.
Finish(t) ==
  /\ Goto(t, "using", "idle")
  /\ result' = [result EXCEPT ![t] = NoDb]
  /\ UNCHANGED <<singleton, lock, local, opened, seq, closes, fails>>

\* ServiceRuntime!QuietAfterShutdown: no job is left when the lifespan closes.
Quiet == \A t \in Callers : pc[t] = "idle"

\* _close_db_singleton.  (A close that raises is in ServiceRuntime.)
Close ==
  /\ closes < MaxCloses
  /\ Quiet
  /\ singleton # NoDb
  /\ closes' = closes + 1
  /\ opened' = opened \ {singleton}
  /\ singleton' = NoDb
  /\ UNCHANGED <<lock, pc, local, result, seq, fails>>

-----------------------------------------------------------------------------
DbStep(t) ==
  \/ FirstCheck(t)
  \/ Acquire(t)
  \/ SecondCheck(t)
  \/ OpenPool(t)
  \/ OpenFails(t)
  \/ Publish(t)
  \/ Return(t)
  \/ Finish(t)

DbNext ==
  \/ \E t \in Callers : Call(t) \/ DbStep(t)
  \/ Close

DbSpec == DbInit /\ [][DbNext]_dbVars

\* A thread in the middle of a call keeps running, and the lock is granted to
\* a waiting thread if it stays free.
DbFairSpec == DbSpec /\ \A t \in Callers : WF_dbVars(DbStep(t))

-----------------------------------------------------------------------------
\* However the calls interleave the process opens one pool and not two: every
\* open pool is the published one, or the one the lock holder is publishing.
OneDb ==
  \A p, q \in opened : p = q

\* A caller never gets None or a pool that is not open, although the return
\* statement reads the global outside the lock.
CallersGetOpenPool ==
  \A t \in Callers : pc[t] = "using" => result[t] = singleton /\ result[t] \in opened

\* The checks and the lock give what callers see of an atomic get-or-open.
DbShared == INSTANCE SharedPool WITH Users <- Callers, pool <- singleton, using <- result
DbSharedPoolSpec == DbShared!Spec

\* A job that asks for the pool gets it or fails: the lock is never kept by a
\* thread that has left.
CallsEnd == \A t \in Callers : (pc[t] # "idle") ~> (pc[t] = "idle")
=============================================================================
