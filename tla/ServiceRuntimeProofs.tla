------------------------ MODULE ServiceRuntimeProofs -----------------------
(* Proofs about ServiceRuntime, for any requests, threads and faults, and   *)
(* about DbSingleton, which does statement by statement what ServiceRuntime *)
(* takes as one step, for any callers.                                      *)
EXTENDS ServiceRuntime, DbSingleton, TLAPS

-----------------------------------------------------------------------------
(* The inductive invariant.                                                *)

\* A job on a thread is one its request or its task is waiting for, and no
\* job is on two threads.
JobsInv ==
  /\ \A t \in Threads : worker[t] # NoJob =>
       IF worker[t].step = "audit"
         THEN worker[t].req \in pending
         ELSE phase[worker[t].req] = worker[t].step
  /\ \A t, u \in Threads : worker[t] # NoJob /\ worker[t] = worker[u] => t = u

\* Only jobs hold pools, and they hold the published one.
PoolsInv ==
  /\ \A t \in Threads : uses[t] # NoPool => worker[t] # NoJob /\ uses[t] = db
  /\ db # NoPool => db \in openPools
  /\ openPools \ leaked \subseteq {db}

\* What is left when the server has finished, and when the lifespan has.
LifeInv ==
  /\ life = "draining" => /\ \A r \in Requests : ~InFlight(r)
                          /\ pending \subseteq drain
  /\ life \in {"closed", "down"} => /\ \A r \in Requests : ~InFlight(r)
                                    /\ pending = {}
                                    /\ db = NoPool

\* A row is written at most once, by the task of an answered request.
RowsInv ==
  /\ \A r \in Requests :
       /\ phase[r] \notin {"answered", "body", "done"} => r \notin pending /\ rows[r] = 0
       /\ r \in pending => rows[r] = 0
       /\ rows[r] # 0 => rows[r] = 1 /\ Recordable(r)
  /\ \A t \in Threads :
       Runs(t, "audit") /\ uses[t] # NoPool => Recordable(worker[t].req)

IInv == TypeOK /\ JobsInv /\ PoolsInv /\ LifeInv /\ RowsInv

-----------------------------------------------------------------------------
(* Lemmas.                                                                 *)

\* What _get_db does to the pools: the published pool is the one returned, and
\* it is a new one exactly when none was published.
LEMMA GetDbPublishes ==
  ASSUME TypeOK, NEW t \in Threads, GetDb(t)
  PROVE  /\ db' \in Nat /\ db' # NoPool
         /\ db # NoPool => db' = db /\ openPools' = openPools
         /\ db = NoPool => openPools' = openPools \cup {db'}
         /\ poolSeq' \in Nat
         /\ leaked' = leaked
         /\ uses' = [uses EXCEPT ![t] = db']
BY DEF TypeOK, GetDb, NoPool

\* It keeps the types of the pool variables.
LEMMA GetDbTypes ==
  ASSUME TypeOK, NEW t \in Threads, GetDb(t)
  PROVE  /\ db' \in Nat /\ poolSeq' \in Nat
         /\ openPools' \subseteq Nat \ {NoPool} /\ leaked' \subseteq Nat \ {NoPool}
         /\ uses' \in [Threads -> Nat]
<1>. USE DEF TypeOK
<1>1. CASE db = NoPool
  BY <1>1, GetDbPublishes
<1>2. CASE db # NoPool
  BY <1>2, GetDbPublishes DEF GetDb
<1>. QED
  BY <1>1, <1>2

\* A job that gets its pool keeps the pools as they should be.
LEMMA GetDbKeepsPools ==
  ASSUME TypeOK, PoolsInv, NEW t \in Threads, GetDb(t), worker[t] # NoJob,
         UNCHANGED worker
  PROVE  PoolsInv'
<1>1. /\ db' # NoPool
      /\ leaked' = leaked
      /\ uses' = [uses EXCEPT ![t] = db']
      /\ db # NoPool => db' = db /\ openPools' = openPools
      /\ db = NoPool => openPools' = openPools \cup {db'}
  BY GetDbPublishes
<1>2. ASSUME NEW u \in Threads, uses'[u] # NoPool
      PROVE  worker'[u] # NoJob /\ uses'[u] = db'
  BY <1>1, <1>2 DEF TypeOK, PoolsInv
<1>3. db' \in openPools' /\ openPools' \ leaked' \subseteq {db'}
  <2>1. CASE db = NoPool
    BY <1>1, <2>1 DEF TypeOK, PoolsInv
  <2>2. CASE db # NoPool
    BY <1>1, <2>2 DEF PoolsInv
  <2>. QED
    BY <2>1, <2>2
<1>. QED
  BY <1>2, <1>3 DEF PoolsInv

\* When the shutdown has gathered its tasks no task is left, not only none of
\* those it waited for, and every thread is free.
LEMMA GatheredIsQuiet ==
  ASSUME TypeOK, JobsInv, LifeInv, Gathered
  PROVE  pending = {} /\ \A t \in Threads : worker[t] = NoJob
<1>1. pending = {} /\ \A r \in Requests : ~InFlight(r)
  BY DEF Gathered, LifeInv
<1>. QED
  BY <1>1 DEF TypeOK, JobsInv, InFlight, Begun, Jobs, Steps

\* Every step keeps the types.
LEMMA TypeStep ==
  TypeOK /\ [Next]_vars => TypeOK'
<1> SUFFICES ASSUME TypeOK, [Next]_vars PROVE TypeOK'
  OBVIOUS
<1>. USE StartsAssumption, NoJobAssumption
       DEF TypeOK, Jobs, Steps, Kinds, Phases, Statuses, Lives, NoPool, procVars, reqVars, poolVars
<1>1. ASSUME NEW r \in Requests, NEW k \in Kinds, Arrive(r, k)
       PROVE  TypeOK'
  BY <1>1 DEF Arrive
<1>2. ASSUME NEW r \in Requests, Respond(r)
       PROVE  TypeOK'
  BY <1>2 DEF Respond
<1>3. ASSUME NEW r \in Requests, Deliver(r)
       PROVE  TypeOK'
  BY <1>3 DEF Deliver
<1>4. ASSUME NEW t \in Threads, NEW j \in Jobs, TakeThread(t, j)
       PROVE  TypeOK'
  BY <1>4 DEF TakeThread, Waiting, OnThread
<1>5. ASSUME NEW t \in Threads, FinishAuth(t)
       PROVE  TypeOK'
  BY <1>5 DEF FinishAuth, Runs, Release
<1>6. ASSUME NEW t \in Threads, HandlerUsesDb(t)
       PROVE  TypeOK'
  BY <1>6, GetDbTypes DEF HandlerUsesDb
<1>7. ASSUME NEW t \in Threads, NEW s \in {"ok", "error", "raised"}, FinishHandler(t, s)
       PROVE  TypeOK'
  BY <1>7 DEF FinishHandler, Runs, Release
<1>8. ASSUME NEW t \in Threads, AuditSkip(t)
       PROVE  TypeOK'
  BY <1>8 DEF AuditSkip, Runs, EndTask, Release
<1>9. ASSUME NEW t \in Threads, AuditUsesDb(t)
       PROVE  TypeOK'
  BY <1>9, GetDbTypes DEF AuditUsesDb
<1>10. ASSUME NEW t \in Threads, AuditCommit(t)
       PROVE  TypeOK'
  BY <1>10 DEF AuditCommit, AddRow, Runs, EndTask, Release
<1>11. ASSUME NEW t \in Threads, AuditAckLost(t)
       PROVE  TypeOK'
  BY <1>11 DEF AuditAckLost, RetriedWrite, AddRow, Runs, EndTask, Release
<1>12. ASSUME NEW t \in Threads, AuditFail(t)
       PROVE  TypeOK'
  BY <1>12 DEF AuditFail, Runs, EndTask, Release
<1>13. CASE Start
  BY <1>13 DEF Start
<1>14. CASE Stop
  BY <1>14 DEF Stop
<1>15. CASE BeginDrain
  BY <1>15 DEF BeginDrain
<1>16. CASE CloseDb
  BY <1>16 DEF CloseDb, Gathered
<1>17. CASE CloseDbRaises
  BY <1>17 DEF CloseDbRaises, Gathered
<1>18. CASE Crash
  BY <1>18 DEF Crash
<1>19. CASE UNCHANGED vars
  BY <1>19 DEF vars, procVars, reqVars, poolVars
<1>20. ASSUME NEW t \in Threads, FinishBody(t)
       PROVE  TypeOK'
  BY <1>20 DEF FinishBody, Runs, Release
<1>. QED
  BY <1>1, <1>2, <1>3, <1>4, <1>5, <1>6, <1>7, <1>8, <1>9, <1>10,
     <1>11, <1>12, <1>13, <1>14, <1>15, <1>16, <1>17, <1>18, <1>19, <1>20
  DEF Next, ThreadStep, HandlerStep, AuditStep, RequestStep, ShutdownStep

\* Every step keeps jobs and what waits for them together.
LEMMA JobsStep ==
  TypeOK /\ JobsInv /\ [Next]_vars => JobsInv'
<1> SUFFICES ASSUME TypeOK, JobsInv, [Next]_vars PROVE JobsInv'
  OBVIOUS
<1>. USE NoJobAssumption DEF TypeOK, JobsInv, Jobs, Steps, procVars, reqVars
<1>1. ASSUME NEW r \in Requests, NEW k \in Kinds, Arrive(r, k)
       PROVE  JobsInv'
  BY <1>1 DEF Arrive
<1>2. ASSUME NEW r \in Requests, Respond(r)
       PROVE  JobsInv'
  BY <1>2 DEF Respond
<1>3. ASSUME NEW r \in Requests, Deliver(r)
       PROVE  JobsInv'
  BY <1>3 DEF Deliver
<1>4. ASSUME NEW t \in Threads, NEW j \in Jobs, TakeThread(t, j)
       PROVE  JobsInv'
  BY <1>4 DEF TakeThread, Waiting, OnThread
<1>5. ASSUME NEW t \in Threads, FinishAuth(t)
       PROVE  JobsInv'
  BY <1>5 DEF FinishAuth, Runs, Release
<1>6. ASSUME NEW t \in Threads, HandlerUsesDb(t)
       PROVE  JobsInv'
  BY <1>6 DEF HandlerUsesDb, Runs, GetDb
<1>7. ASSUME NEW t \in Threads, NEW s \in {"ok", "error", "raised"}, FinishHandler(t, s)
       PROVE  JobsInv'
  BY <1>7 DEF FinishHandler, Runs, Release
<1>8. ASSUME NEW t \in Threads, AuditSkip(t)
       PROVE  JobsInv'
  BY <1>8 DEF AuditSkip, Runs, EndTask, Release
<1>9. ASSUME NEW t \in Threads, AuditUsesDb(t)
       PROVE  JobsInv'
  BY <1>9 DEF AuditUsesDb, Runs, GetDb
<1>10. ASSUME NEW t \in Threads, AuditCommit(t)
       PROVE  JobsInv'
  BY <1>10 DEF AuditCommit, AddRow, Runs, EndTask, Release
<1>11. ASSUME NEW t \in Threads, AuditAckLost(t)
       PROVE  JobsInv'
  BY <1>11 DEF AuditAckLost, RetriedWrite, AddRow, Runs, EndTask, Release
<1>12. ASSUME NEW t \in Threads, AuditFail(t)
       PROVE  JobsInv'
  BY <1>12 DEF AuditFail, Runs, EndTask, Release
<1>13. CASE Start
  BY <1>13 DEF Start
<1>14. CASE Stop
  BY <1>14 DEF Stop
<1>15. CASE BeginDrain
  BY <1>15 DEF BeginDrain
<1>16. CASE CloseDb
  BY <1>16 DEF CloseDb, Gathered
<1>17. CASE CloseDbRaises
  BY <1>17 DEF CloseDbRaises, Gathered
<1>18. CASE Crash
  BY <1>18 DEF Crash, InFlight, Begun
<1>19. CASE UNCHANGED vars
  BY <1>19 DEF vars, procVars, reqVars, poolVars
<1>20. ASSUME NEW t \in Threads, FinishBody(t)
       PROVE  JobsInv'
  BY <1>20 DEF FinishBody, Runs, Release
<1>. QED
  BY <1>1, <1>2, <1>3, <1>4, <1>5, <1>6, <1>7, <1>8, <1>9, <1>10,
     <1>11, <1>12, <1>13, <1>14, <1>15, <1>16, <1>17, <1>18, <1>19, <1>20
  DEF Next, ThreadStep, HandlerStep, AuditStep, RequestStep, ShutdownStep

\* Every step keeps the pools with the threads that use them.
LEMMA PoolsStep ==
  TypeOK /\ JobsInv /\ PoolsInv /\ LifeInv /\ [Next]_vars => PoolsInv'
<1> SUFFICES ASSUME TypeOK, JobsInv, PoolsInv, LifeInv, [Next]_vars PROVE PoolsInv'
  OBVIOUS
<1>. USE NoJobAssumption DEF PoolsInv, procVars, reqVars, poolVars
<1>1. ASSUME NEW r \in Requests, NEW k \in Kinds, Arrive(r, k)
       PROVE  PoolsInv'
  BY <1>1 DEF Arrive, TypeOK, NoPool
<1>2. ASSUME NEW r \in Requests, Respond(r)
       PROVE  PoolsInv'
  BY <1>2 DEF Respond, TypeOK, NoPool
<1>3. ASSUME NEW r \in Requests, Deliver(r)
       PROVE  PoolsInv'
  BY <1>3 DEF Deliver, TypeOK, NoPool
<1>4. ASSUME NEW t \in Threads, NEW j \in Jobs, TakeThread(t, j)
       PROVE  PoolsInv'
  BY <1>4 DEF TakeThread, Waiting, OnThread, TypeOK, NoPool
<1>5. ASSUME NEW t \in Threads, FinishAuth(t)
       PROVE  PoolsInv'
  BY <1>5 DEF FinishAuth, Runs, Release, TypeOK, NoPool
<1>6. ASSUME NEW t \in Threads, HandlerUsesDb(t)
       PROVE  PoolsInv'
  BY <1>6, GetDbKeepsPools DEF HandlerUsesDb, Runs
<1>7. ASSUME NEW t \in Threads, NEW s \in {"ok", "error", "raised"}, FinishHandler(t, s)
       PROVE  PoolsInv'
  BY <1>7 DEF FinishHandler, Runs, Release, TypeOK, NoPool
<1>8. ASSUME NEW t \in Threads, AuditSkip(t)
       PROVE  PoolsInv'
  BY <1>8 DEF AuditSkip, Runs, EndTask, Release, TypeOK, NoPool
<1>9. ASSUME NEW t \in Threads, AuditUsesDb(t)
       PROVE  PoolsInv'
  BY <1>9, GetDbKeepsPools DEF AuditUsesDb, Runs
<1>10. ASSUME NEW t \in Threads, AuditCommit(t)
       PROVE  PoolsInv'
  BY <1>10 DEF AuditCommit, AddRow, Runs, EndTask, Release, TypeOK, NoPool
<1>11. ASSUME NEW t \in Threads, AuditAckLost(t)
       PROVE  PoolsInv'
  BY <1>11 DEF AuditAckLost, RetriedWrite, AddRow, Runs, EndTask, Release, TypeOK, NoPool
<1>12. ASSUME NEW t \in Threads, AuditFail(t)
       PROVE  PoolsInv'
  BY <1>12 DEF AuditFail, Runs, EndTask, Release, TypeOK, NoPool
<1>13. CASE Start
  BY <1>13 DEF Start, TypeOK, NoPool
<1>14. CASE Stop
  BY <1>14 DEF Stop, TypeOK, NoPool
<1>15. CASE BeginDrain
  BY <1>15 DEF BeginDrain, TypeOK, NoPool
<1>16. CASE CloseDb
  <2>1. \A t \in Threads : uses[t] = NoPool
    BY <1>16, GatheredIsQuiet DEF CloseDb
  <2>. QED
    BY <1>16, <2>1 DEF CloseDb
<1>17. CASE CloseDbRaises
  <2>1. \A t \in Threads : uses[t] = NoPool
    BY <1>17, GatheredIsQuiet DEF CloseDbRaises
  <2>. QED
    BY <1>17, <2>1 DEF CloseDbRaises
<1>18. CASE Crash
  BY <1>18 DEF Crash, TypeOK, NoPool
<1>19. CASE UNCHANGED vars
  BY <1>19 DEF vars, procVars, reqVars, poolVars, TypeOK, NoPool
<1>20. ASSUME NEW t \in Threads, FinishBody(t)
       PROVE  PoolsInv'
  BY <1>20 DEF FinishBody, Runs, Release, TypeOK, NoPool
<1>. QED
  BY <1>1, <1>2, <1>3, <1>4, <1>5, <1>6, <1>7, <1>8, <1>9, <1>10,
     <1>11, <1>12, <1>13, <1>14, <1>15, <1>16, <1>17, <1>18, <1>19, <1>20
  DEF Next, ThreadStep, HandlerStep, AuditStep, RequestStep, ShutdownStep

\* Every step keeps what a stopped process has left behind.
LEMMA LifeStep ==
  TypeOK /\ JobsInv /\ LifeInv /\ [Next]_vars => LifeInv'
<1> SUFFICES ASSUME TypeOK, JobsInv, LifeInv, [Next]_vars PROVE LifeInv'
  OBVIOUS
<1>. USE NoJobAssumption
       DEF TypeOK, JobsInv, LifeInv, InFlight, Begun, Jobs, Steps, NoPool, procVars, reqVars, poolVars
<1>1. ASSUME NEW r \in Requests, NEW k \in Kinds, Arrive(r, k)
       PROVE  LifeInv'
  BY <1>1 DEF Arrive
<1>2. ASSUME NEW r \in Requests, Respond(r)
       PROVE  LifeInv'
  BY <1>2 DEF Respond
<1>3. ASSUME NEW r \in Requests, Deliver(r)
       PROVE  LifeInv'
  BY <1>3 DEF Deliver
<1>4. ASSUME NEW t \in Threads, NEW j \in Jobs, TakeThread(t, j)
       PROVE  LifeInv'
  BY <1>4 DEF TakeThread, Waiting, OnThread
<1>5. ASSUME NEW t \in Threads, FinishAuth(t)
       PROVE  LifeInv'
  BY <1>5 DEF FinishAuth, Runs, Release
<1>6. ASSUME NEW t \in Threads, HandlerUsesDb(t)
       PROVE  LifeInv'
  BY <1>6 DEF HandlerUsesDb, Runs, GetDb
<1>7. ASSUME NEW t \in Threads, NEW s \in {"ok", "error", "raised"}, FinishHandler(t, s)
       PROVE  LifeInv'
  BY <1>7 DEF FinishHandler, Runs, Release
<1>8. ASSUME NEW t \in Threads, AuditSkip(t)
       PROVE  LifeInv'
  BY <1>8 DEF AuditSkip, Runs, EndTask, Release
<1>9. ASSUME NEW t \in Threads, AuditUsesDb(t)
       PROVE  LifeInv'
  BY <1>9 DEF AuditUsesDb, Runs, GetDb
<1>10. ASSUME NEW t \in Threads, AuditCommit(t)
       PROVE  LifeInv'
  BY <1>10 DEF AuditCommit, AddRow, Runs, EndTask, Release
<1>11. ASSUME NEW t \in Threads, AuditAckLost(t)
       PROVE  LifeInv'
  BY <1>11 DEF AuditAckLost, RetriedWrite, AddRow, Runs, EndTask, Release
<1>12. ASSUME NEW t \in Threads, AuditFail(t)
       PROVE  LifeInv'
  BY <1>12 DEF AuditFail, Runs, EndTask, Release
<1>13. CASE Start
  BY <1>13 DEF Start
<1>14. CASE Stop
  BY <1>14 DEF Stop
<1>15. CASE BeginDrain
  BY <1>15 DEF BeginDrain
<1>16. CASE CloseDb
  BY <1>16 DEF CloseDb, Gathered
<1>17. CASE CloseDbRaises
  BY <1>17 DEF CloseDbRaises, Gathered
<1>18. CASE Crash
  BY <1>18 DEF Crash
<1>19. CASE UNCHANGED vars
  BY <1>19 DEF vars, procVars, reqVars, poolVars
<1>20. ASSUME NEW t \in Threads, FinishBody(t)
       PROVE  LifeInv'
  BY <1>20 DEF FinishBody, Runs, Release
<1>. QED
  BY <1>1, <1>2, <1>3, <1>4, <1>5, <1>6, <1>7, <1>8, <1>9, <1>10,
     <1>11, <1>12, <1>13, <1>14, <1>15, <1>16, <1>17, <1>18, <1>19, <1>20
  DEF Next, ThreadStep, HandlerStep, AuditStep, RequestStep, ShutdownStep

\* Every step keeps the rows within what the tasks may still write.
LEMMA RowsStep ==
  TypeOK /\ JobsInv /\ PoolsInv /\ RowsInv /\ [Next]_vars => RowsInv'
<1> SUFFICES ASSUME TypeOK, JobsInv, PoolsInv, RowsInv, [Next]_vars PROVE RowsInv'
  OBVIOUS
<1>. USE NoJobAssumption
       DEF TypeOK, JobsInv, RowsInv, Recordable, RecordedStatus, AuditedKind, Runs,
           NoPool, procVars, reqVars, poolVars
<1>1. ASSUME NEW r \in Requests, NEW k \in Kinds, Arrive(r, k)
       PROVE  RowsInv'
  BY <1>1 DEF Arrive
<1>2. ASSUME NEW r \in Requests, Respond(r)
       PROVE  RowsInv'
  BY <1>2 DEF Respond
<1>3. ASSUME NEW r \in Requests, Deliver(r)
       PROVE  RowsInv'
  BY <1>3 DEF Deliver
<1>4. ASSUME NEW t \in Threads, NEW j \in Jobs, TakeThread(t, j)
       PROVE  RowsInv'
  BY <1>4 DEF TakeThread, Waiting, OnThread, PoolsInv
<1>5. ASSUME NEW t \in Threads, FinishAuth(t)
       PROVE  RowsInv'
  BY <1>5 DEF FinishAuth, Runs, Release
<1>6. ASSUME NEW t \in Threads, HandlerUsesDb(t)
       PROVE  RowsInv'
  BY <1>6 DEF HandlerUsesDb, Runs, GetDb
<1>7. ASSUME NEW t \in Threads, NEW s \in {"ok", "error", "raised"}, FinishHandler(t, s)
       PROVE  RowsInv'
  BY <1>7 DEF FinishHandler, Runs, Release
<1>8. ASSUME NEW t \in Threads, AuditSkip(t)
       PROVE  RowsInv'
  BY <1>8 DEF AuditSkip, Runs, EndTask, Release
<1>9. ASSUME NEW t \in Threads, AuditUsesDb(t)
       PROVE  RowsInv'
  BY <1>9 DEF AuditUsesDb, Runs, GetDb
<1>10. ASSUME NEW t \in Threads, AuditCommit(t)
       PROVE  RowsInv'
  BY <1>10 DEF AuditCommit, AddRow, Runs, EndTask, Release
<1>11. ASSUME NEW t \in Threads, AuditAckLost(t)
       PROVE  RowsInv'
  BY <1>11 DEF AuditAckLost, RetriedWrite, AddRow, Runs, EndTask, Release
<1>12. ASSUME NEW t \in Threads, AuditFail(t)
       PROVE  RowsInv'
  BY <1>12 DEF AuditFail, Runs, EndTask, Release
<1>13. CASE Start
  BY <1>13 DEF Start
<1>14. CASE Stop
  BY <1>14 DEF Stop
<1>15. CASE BeginDrain
  BY <1>15 DEF BeginDrain
<1>16. CASE CloseDb
  BY <1>16 DEF CloseDb, Gathered
<1>17. CASE CloseDbRaises
  BY <1>17 DEF CloseDbRaises, Gathered
<1>18. CASE Crash
  BY <1>18 DEF Crash, InFlight, Begun
<1>19. CASE UNCHANGED vars
  BY <1>19 DEF vars, procVars, reqVars, poolVars
<1>20. ASSUME NEW t \in Threads, FinishBody(t)
       PROVE  RowsInv'
  BY <1>20 DEF FinishBody, Runs, Release
<1>. QED
  BY <1>1, <1>2, <1>3, <1>4, <1>5, <1>6, <1>7, <1>8, <1>9, <1>10,
     <1>11, <1>12, <1>13, <1>14, <1>15, <1>16, <1>17, <1>18, <1>19, <1>20
  DEF Next, ThreadStep, HandlerStep, AuditStep, RequestStep, ShutdownStep

-----------------------------------------------------------------------------
(* Theorems.                                                               *)

\* The inductive invariant holds in every reachable state.
THEOREM Invariance == Spec => []IInv
<1>1. Init => IInv
  BY NoJobAssumption, StartsAssumption
  DEF Init, IInv, TypeOK, JobsInv, PoolsInv, LifeInv, RowsInv, InFlight, Begun, Runs,
      Jobs, Kinds, Phases, Statuses, Lives, NoPool
<1>2. IInv /\ [Next]_vars => IInv'
  BY TypeStep, JobsStep, PoolsStep, LifeStep, RowsStep DEF IInv
<1>. QED
  BY <1>1, <1>2, PTL DEF Spec

\* Type correctness of the process model.
THEOREM TypeCorrect == Spec => []TypeOK
BY Invariance, PTL DEF IInv

\* No thread works on a pool that is not published and open, in any run of the
\* process: this is what the shutdown's order buys.
THEOREM NoJobOnClosedPoolHolds == Spec => []NoJobOnClosedPool
<1>1. IInv => NoJobOnClosedPool
  BY DEF IInv, PoolsInv, NoJobOnClosedPool
<1>. QED
  BY <1>1, Invariance, PTL

\* When the lifespan has ended nothing runs and nothing is open.
THEOREM QuietAfterShutdownHolds == Spec => []QuietAfterShutdown
<1>1. IInv => QuietAfterShutdown
  <2> SUFFICES ASSUME IInv, life = "closed" PROVE QuietAfterShutdown
    BY DEF QuietAfterShutdown
  <2>1. pending = {} /\ db = NoPool /\ \A r \in Requests : ~InFlight(r)
    BY DEF IInv, LifeInv
  <2>2. \A t \in Threads : worker[t] = NoJob
    BY <2>1, NoJobAssumption DEF IInv, TypeOK, JobsInv, InFlight, Begun, Jobs, Steps
  <2>3. openPools \subseteq leaked
    BY <2>1 DEF IInv, TypeOK, PoolsInv
  <2>. QED
    BY <2>1, <2>2, <2>3 DEF QuietAfterShutdown
<1>. QED
  BY <1>1, Invariance, PTL

\* At most one pool is open, and it is the published one.
THEOREM OnePoolHolds == Spec => []OnePool
<1>1. IInv => OnePool
  BY DEF IInv, PoolsInv, OnePool
<1>. QED
  BY <1>1, Invariance, PTL

\* A row is about a request answered as a data access, and it is its only one.
THEOREM RowsAreGrantsHolds == Spec => []RowsAreGrants
<1>1. IInv => RowsAreGrants
  <2> SUFFICES ASSUME IInv, NEW r \in Requests
               PROVE  rows[r] <= 1 /\ (rows[r] = 1 => r \in Granted)
    BY DEF RowsAreGrants
  <2>1. CASE rows[r] = 0
    BY <2>1
  <2>2. CASE rows[r] # 0
    BY <2>2 DEF IInv, RowsInv, Granted, Recordable, RecordedStatus, AuditedKind
  <2>. QED
    BY <2>1, <2>2
<1>. QED
  BY <1>1, Invariance, PTL

\* A step of the process is a step of the abstract access log, or none.
LEMMA AuditStepSimulation ==
  ASSUME TypeOK, JobsInv, RowsInv, [Next]_vars
  PROVE  [Audit!Next]_Audit!vars
<1>. USE DEF TypeOK, Granted, Audit!vars, procVars, reqVars, poolVars
<1>1. ASSUME NEW r \in Requests, NEW k \in Kinds, Arrive(r, k)
       PROVE  [Audit!Next]_Audit!vars
  BY <1>1, NoJobAssumption DEF Arrive, JobsInv, Jobs
<1>2. ASSUME NEW r \in Requests, Respond(r)
       PROVE  [Audit!Next]_Audit!vars
  <2>1. CASE r \in Granted'
    <3>. Audit!Grant(r)
      BY <1>2, <2>1 DEF Respond, Audit!Grant
    <3>. QED
      BY DEF Audit!Next
  <2>2. CASE r \notin Granted'
    BY <1>2, <2>2 DEF Respond
  <2>. QED
    BY <2>1, <2>2
<1>3. ASSUME NEW r \in Requests, Deliver(r)
       PROVE  [Audit!Next]_Audit!vars
  BY <1>3, NoJobAssumption DEF Deliver, JobsInv, Jobs
<1>4. ASSUME NEW t \in Threads, NEW j \in Jobs, TakeThread(t, j)
       PROVE  [Audit!Next]_Audit!vars
  BY <1>4 DEF TakeThread
<1>5. ASSUME NEW t \in Threads, FinishAuth(t)
       PROVE  [Audit!Next]_Audit!vars
  BY <1>5, NoJobAssumption DEF FinishAuth, Runs, Release, JobsInv, Jobs
<1>6. ASSUME NEW t \in Threads, HandlerUsesDb(t)
       PROVE  [Audit!Next]_Audit!vars
  BY <1>6, NoJobAssumption DEF HandlerUsesDb, Runs, GetDb, JobsInv, Jobs
<1>7. ASSUME NEW t \in Threads, NEW s \in {"ok", "error", "raised"}, FinishHandler(t, s)
       PROVE  [Audit!Next]_Audit!vars
  BY <1>7, NoJobAssumption DEF FinishHandler, Runs, Release, JobsInv, Jobs
<1>8. ASSUME NEW t \in Threads, AuditSkip(t)
       PROVE  [Audit!Next]_Audit!vars
  BY <1>8, NoJobAssumption DEF AuditSkip, Runs, EndTask, Release, JobsInv, Jobs
<1>9. ASSUME NEW t \in Threads, AuditUsesDb(t)
       PROVE  [Audit!Next]_Audit!vars
  BY <1>9, NoJobAssumption DEF AuditUsesDb, Runs, GetDb, JobsInv, Jobs
<1>10. ASSUME NEW t \in Threads, AuditCommit(t)
       PROVE  [Audit!Next]_Audit!vars
  <2>. DEFINE r == worker[t].req
  <2>1. r \in Requests /\ r \in Granted /\ rows[r] = 0
    BY <1>10, NoJobAssumption
    DEF AuditCommit, Runs, JobsInv, RowsInv, Recordable, RecordedStatus, AuditedKind, Jobs
  <2>2. Audit!Record(r)
    BY <1>10, <2>1 DEF AuditCommit, AddRow, Audit!Record
  <2>. QED
    BY <2>1, <2>2 DEF Audit!Next
<1>11. ASSUME NEW t \in Threads, AuditAckLost(t)
       PROVE  [Audit!Next]_Audit!vars
  <2>. DEFINE r == worker[t].req
  <2>1. r \in Requests /\ r \in Granted /\ rows[r] = 0
    BY <1>11, NoJobAssumption
    DEF AuditAckLost, Runs, JobsInv, RowsInv, Recordable, RecordedStatus, AuditedKind, Jobs
  <2>2. Audit!Record(r)
    BY <1>11, <2>1 DEF AuditAckLost, AddRow, Audit!Record
  <2>. QED
    BY <2>1, <2>2 DEF Audit!Next
<1>12. ASSUME NEW t \in Threads, AuditFail(t)
       PROVE  [Audit!Next]_Audit!vars
  BY <1>12, NoJobAssumption DEF AuditFail, Runs, EndTask, Release, JobsInv, Jobs
<1>13. CASE Start
  BY <1>13, NoJobAssumption DEF Start, JobsInv, Jobs
<1>14. CASE Stop
  BY <1>14, NoJobAssumption DEF Stop, JobsInv, Jobs
<1>15. CASE BeginDrain
  BY <1>15, NoJobAssumption DEF BeginDrain, JobsInv, Jobs
<1>16. CASE CloseDb
  BY <1>16, NoJobAssumption DEF CloseDb, Gathered, JobsInv, Jobs
<1>17. CASE CloseDbRaises
  BY <1>17, NoJobAssumption DEF CloseDbRaises, Gathered, JobsInv, Jobs
<1>18. CASE Crash
  BY <1>18 DEF Crash, InFlight, Begun
<1>19. CASE UNCHANGED vars
  BY <1>19, NoJobAssumption DEF vars, procVars, reqVars, poolVars, JobsInv, Jobs
<1>20. ASSUME NEW t \in Threads, FinishBody(t)
       PROVE  [Audit!Next]_Audit!vars
  BY <1>20, NoJobAssumption DEF FinishBody, Runs, Release, JobsInv, Jobs
<1>. QED
  BY <1>1, <1>2, <1>3, <1>4, <1>5, <1>6, <1>7, <1>8, <1>9, <1>10,
     <1>11, <1>12, <1>13, <1>14, <1>15, <1>16, <1>17, <1>18, <1>19, <1>20
  DEF Next, ThreadStep, HandlerStep, AuditStep, RequestStep, ShutdownStep

\* The process implements the abstract access log, whatever faults happen.
THEOREM ImplementsAuditLog == Spec => AuditLogSpec
<1>1. Init => Audit!Init
  BY DEF Init, Granted, Audit!Init
<1>2. IInv /\ [Next]_vars => [Audit!Next]_Audit!vars
  BY AuditStepSimulation DEF IInv
<1>. QED
  BY <1>1, <1>2, Invariance, PTL DEF Spec, AuditLogSpec, Audit!Spec

\* A step of the process is a step of the abstract shared pool, or none.
LEMMA SharedPoolSimulation ==
  ASSUME TypeOK, JobsInv, PoolsInv, LifeInv, [Next]_vars
  PROVE  [Shared!Next]_Shared!vars
<1>. USE DEF TypeOK, NoPool, Shared!NoPool, Shared!vars, procVars, reqVars, poolVars
<1>1. ASSUME NEW r \in Requests, NEW k \in Kinds, Arrive(r, k)
       PROVE  [Shared!Next]_Shared!vars
  BY <1>1 DEF Arrive
<1>2. ASSUME NEW r \in Requests, Respond(r)
       PROVE  [Shared!Next]_Shared!vars
  BY <1>2 DEF Respond
<1>3. ASSUME NEW r \in Requests, Deliver(r)
       PROVE  [Shared!Next]_Shared!vars
  BY <1>3 DEF Deliver
<1>4. ASSUME NEW t \in Threads, NEW j \in Jobs, TakeThread(t, j)
       PROVE  [Shared!Next]_Shared!vars
  BY <1>4 DEF TakeThread
<1>5. ASSUME NEW t \in Threads, FinishAuth(t)
       PROVE  [Shared!Next]_Shared!vars
  BY <1>5 DEF FinishAuth, Runs, Release, Shared!Next, Shared!Put
<1>6. ASSUME NEW t \in Threads, HandlerUsesDb(t)
       PROVE  [Shared!Next]_Shared!vars
  BY <1>6, GetDbPublishes DEF HandlerUsesDb, Shared!Next, Shared!Get
<1>7. ASSUME NEW t \in Threads, NEW s \in {"ok", "error", "raised"}, FinishHandler(t, s)
       PROVE  [Shared!Next]_Shared!vars
  BY <1>7 DEF FinishHandler, Runs, Release, Shared!Next, Shared!Put
<1>8. ASSUME NEW t \in Threads, AuditSkip(t)
       PROVE  [Shared!Next]_Shared!vars
  BY <1>8 DEF AuditSkip, Runs, EndTask, Release, Shared!Next, Shared!Put
<1>9. ASSUME NEW t \in Threads, AuditUsesDb(t)
       PROVE  [Shared!Next]_Shared!vars
  BY <1>9, GetDbPublishes DEF AuditUsesDb, Shared!Next, Shared!Get
<1>10. ASSUME NEW t \in Threads, AuditCommit(t)
       PROVE  [Shared!Next]_Shared!vars
  BY <1>10 DEF AuditCommit, AddRow, Runs, EndTask, Release, Shared!Next, Shared!Put
<1>11. ASSUME NEW t \in Threads, AuditAckLost(t)
       PROVE  [Shared!Next]_Shared!vars
  BY <1>11 DEF AuditAckLost, RetriedWrite, AddRow, Runs, EndTask, Release, Shared!Next, Shared!Put
<1>12. ASSUME NEW t \in Threads, AuditFail(t)
       PROVE  [Shared!Next]_Shared!vars
  BY <1>12 DEF AuditFail, Runs, EndTask, Release, Shared!Next, Shared!Put
<1>13. CASE Start
  BY <1>13 DEF Start
<1>14. CASE Stop
  BY <1>14 DEF Stop
<1>15. CASE BeginDrain
  BY <1>15 DEF BeginDrain
<1>16. CASE CloseDb
  BY <1>16, GatheredIsQuiet DEF CloseDb, PoolsInv, Shared!Next, Shared!Close
<1>17. CASE CloseDbRaises
  BY <1>17, GatheredIsQuiet DEF CloseDbRaises, PoolsInv, Shared!Next, Shared!Close
<1>18. CASE Crash
  BY <1>18 DEF Crash, Shared!Next, Shared!Die
<1>19. CASE UNCHANGED vars
  BY <1>19 DEF vars, vars
<1>20. ASSUME NEW t \in Threads, FinishBody(t)
       PROVE  [Shared!Next]_Shared!vars
  BY <1>20 DEF FinishBody, Runs, Release, Shared!Next, Shared!Put
<1>. QED
  BY <1>1, <1>2, <1>3, <1>4, <1>5, <1>6, <1>7, <1>8, <1>9, <1>10,
     <1>11, <1>12, <1>13, <1>14, <1>15, <1>16, <1>17, <1>18, <1>19, <1>20
  DEF Next, ThreadStep, HandlerStep, AuditStep, RequestStep, ShutdownStep

\* The threads of the process share the database object as SharedPool promises.
THEOREM ImplementsSharedPool == Spec => SharedPoolSpec
<1>1. Init => Shared!Init
  BY DEF Init, NoPool, Shared!Init, Shared!NoPool
<1>2. IInv /\ [Next]_vars => [Shared!Next]_Shared!vars
  BY SharedPoolSimulation DEF IInv
<1>. QED
  BY <1>1, <1>2, Invariance, PTL DEF Spec, SharedPoolSpec, Shared!Spec

-----------------------------------------------------------------------------
(* The database object: the threads inside _get_db.                        *)

\* The lock is held exactly inside the with statement.
DbLockInv ==
  \A t \in Callers : pc[t] \in {"recheck", "open", "publish"} <=> lock = t

\* The global is unset while a thread creates an object and set from then on;
\* what is open is the object being published, or else the published one.
DbPoolInv ==
  /\ \A t \in Callers :
       /\ pc[t] \in {"open", "publish"} => singleton = NoDb
       /\ pc[t] = "publish" => local[t] # NoDb /\ opened = {local[t]}
       /\ pc[t] \in {"return", "using"} => singleton # NoDb
  /\ (\A t \in Callers : pc[t] # "publish") =>
       opened = IF singleton = NoDb THEN {} ELSE {singleton}

\* A thread has a result exactly while it uses it.
DbResultInv ==
  \A t \in Callers : result[t] = IF pc[t] = "using" THEN singleton ELSE NoDb

DbIInv == DbTypeOK /\ DbLockInv /\ DbPoolInv /\ DbResultInv

-----------------------------------------------------------------------------
\* Every step keeps the types.
LEMMA DbTypeStep ==
  ASSUME DbTypeOK, [DbNext]_dbVars
  PROVE  DbTypeOK'
<1>. USE BoundsAssumption DEF DbTypeOK, PCs, NoDb
<1>1. ASSUME NEW t \in Callers, Call(t)
       PROVE  DbTypeOK'
  BY <1>1 DEF Call, Goto
<1>2. ASSUME NEW t \in Callers, FirstCheck(t)
       PROVE  DbTypeOK'
  BY <1>2 DEF FirstCheck, Goto
<1>3. ASSUME NEW t \in Callers, Acquire(t)
       PROVE  DbTypeOK'
  BY <1>3 DEF Acquire, Goto
<1>4. ASSUME NEW t \in Callers, SecondCheck(t)
       PROVE  DbTypeOK'
  BY <1>4 DEF SecondCheck, Goto
<1>5. ASSUME NEW t \in Callers, OpenPool(t)
       PROVE  DbTypeOK'
  BY <1>5 DEF OpenPool, Goto
<1>6. ASSUME NEW t \in Callers, OpenFails(t)
       PROVE  DbTypeOK'
  BY <1>6 DEF OpenFails, Goto
<1>7. ASSUME NEW t \in Callers, Publish(t)
       PROVE  DbTypeOK'
  BY <1>7 DEF Publish, Goto
<1>8. ASSUME NEW t \in Callers, Return(t)
       PROVE  DbTypeOK'
  BY <1>8 DEF Return, Goto
<1>9. ASSUME NEW t \in Callers, Finish(t)
       PROVE  DbTypeOK'
  BY <1>9 DEF Finish, Goto
<1>10. CASE Close
  BY <1>10 DEF Close, Quiet
<1>11. CASE UNCHANGED dbVars
  BY <1>11 DEF dbVars
<1>. QED
  BY <1>1, <1>2, <1>3, <1>4, <1>5, <1>6, <1>7, <1>8, <1>9, <1>10, <1>11
  DEF DbNext, DbStep

\* Every step keeps the lock with the thread inside the with statement.
LEMMA DbLockStep ==
  ASSUME DbTypeOK, DbLockInv, [DbNext]_dbVars
  PROVE  DbLockInv'
<1>. USE NobodyAssumption DEF DbTypeOK, DbLockInv
<1>1. ASSUME NEW t \in Callers, Call(t)
       PROVE  DbLockInv'
  BY <1>1 DEF Call, Goto
<1>2. ASSUME NEW t \in Callers, FirstCheck(t)
       PROVE  DbLockInv'
  BY <1>2 DEF FirstCheck, Goto
<1>3. ASSUME NEW t \in Callers, Acquire(t)
       PROVE  DbLockInv'
  BY <1>3 DEF Acquire, Goto
<1>4. ASSUME NEW t \in Callers, SecondCheck(t)
       PROVE  DbLockInv'
  BY <1>4 DEF SecondCheck, Goto
<1>5. ASSUME NEW t \in Callers, OpenPool(t)
       PROVE  DbLockInv'
  BY <1>5 DEF OpenPool, Goto
<1>6. ASSUME NEW t \in Callers, OpenFails(t)
       PROVE  DbLockInv'
  BY <1>6 DEF OpenFails, Goto
<1>7. ASSUME NEW t \in Callers, Publish(t)
       PROVE  DbLockInv'
  BY <1>7 DEF Publish, Goto
<1>8. ASSUME NEW t \in Callers, Return(t)
       PROVE  DbLockInv'
  BY <1>8 DEF Return, Goto
<1>9. ASSUME NEW t \in Callers, Finish(t)
       PROVE  DbLockInv'
  BY <1>9 DEF Finish, Goto
<1>10. CASE Close
  BY <1>10 DEF Close, Quiet
<1>11. CASE UNCHANGED dbVars
  BY <1>11 DEF dbVars
<1>. QED
  BY <1>1, <1>2, <1>3, <1>4, <1>5, <1>6, <1>7, <1>8, <1>9, <1>10, <1>11
  DEF DbNext, DbStep

\* Every step keeps the open pool the published one.
LEMMA DbPoolStep ==
  ASSUME DbTypeOK, DbLockInv, DbPoolInv, [DbNext]_dbVars
  PROVE  DbPoolInv'
<1>. USE NobodyAssumption DEF DbTypeOK, DbLockInv, DbPoolInv, NoDb
<1>1. ASSUME NEW t \in Callers, Call(t)
       PROVE  DbPoolInv'
  BY <1>1 DEF Call, Goto
<1>2. ASSUME NEW t \in Callers, FirstCheck(t)
       PROVE  DbPoolInv'
  BY <1>2 DEF FirstCheck, Goto
<1>3. ASSUME NEW t \in Callers, Acquire(t)
       PROVE  DbPoolInv'
  BY <1>3 DEF Acquire, Goto
<1>4. ASSUME NEW t \in Callers, SecondCheck(t)
       PROVE  DbPoolInv'
  BY <1>4 DEF SecondCheck, Goto
<1>5. ASSUME NEW t \in Callers, OpenPool(t)
       PROVE  DbPoolInv'
  <2>1. \A u \in Callers : pc[u] # "publish"
    BY <1>5 DEF OpenPool, Goto
  <2>2. opened = {} /\ singleton = NoDb
    BY <1>5, <2>1 DEF OpenPool, Goto
  <2>3. opened' = {local'[t]} /\ local'[t] # NoDb /\ pc'[t] = "publish"
    BY <1>5, <2>2 DEF OpenPool, Goto
  <2>4. \A u \in Callers : pc'[u] \in {"open", "publish"} => u = t
    BY <1>5 DEF OpenPool, Goto
  <2>5. \A u \in Callers : pc'[u] \notin {"return", "using"}
    BY <1>5, <2>2 DEF OpenPool, Goto
  <2>. QED
    BY <1>5, <2>2, <2>3, <2>4, <2>5 DEF OpenPool
<1>6. ASSUME NEW t \in Callers, OpenFails(t)
       PROVE  DbPoolInv'
  BY <1>6 DEF OpenFails, Goto
<1>7. ASSUME NEW t \in Callers, Publish(t)
       PROVE  DbPoolInv'
  BY <1>7 DEF Publish, Goto
<1>8. ASSUME NEW t \in Callers, Return(t)
       PROVE  DbPoolInv'
  BY <1>8 DEF Return, Goto
<1>9. ASSUME NEW t \in Callers, Finish(t)
       PROVE  DbPoolInv'
  BY <1>9 DEF Finish, Goto
<1>10. CASE Close
  BY <1>10 DEF Close, Quiet
<1>11. CASE UNCHANGED dbVars
  BY <1>11 DEF dbVars
<1>. QED
  BY <1>1, <1>2, <1>3, <1>4, <1>5, <1>6, <1>7, <1>8, <1>9, <1>10, <1>11
  DEF DbNext, DbStep

\* Every step keeps the results of the callers current.
LEMMA DbResultStep ==
  ASSUME DbTypeOK, DbPoolInv, DbLockInv, DbResultInv, [DbNext]_dbVars
  PROVE  DbResultInv'
<1>. USE DEF DbTypeOK, DbPoolInv, DbLockInv, DbResultInv
<1>1. ASSUME NEW t \in Callers, Call(t)
       PROVE  DbResultInv'
  BY <1>1 DEF Call, Goto
<1>2. ASSUME NEW t \in Callers, FirstCheck(t)
       PROVE  DbResultInv'
  BY <1>2 DEF FirstCheck, Goto
<1>3. ASSUME NEW t \in Callers, Acquire(t)
       PROVE  DbResultInv'
  BY <1>3 DEF Acquire, Goto
<1>4. ASSUME NEW t \in Callers, SecondCheck(t)
       PROVE  DbResultInv'
  BY <1>4 DEF SecondCheck, Goto
<1>5. ASSUME NEW t \in Callers, OpenPool(t)
       PROVE  DbResultInv'
  BY <1>5 DEF OpenPool, Goto
<1>6. ASSUME NEW t \in Callers, OpenFails(t)
       PROVE  DbResultInv'
  BY <1>6 DEF OpenFails, Goto
<1>7. ASSUME NEW t \in Callers, Publish(t)
       PROVE  DbResultInv'
  BY <1>7 DEF Publish, Goto
<1>8. ASSUME NEW t \in Callers, Return(t)
       PROVE  DbResultInv'
  BY <1>8 DEF Return, Goto
<1>9. ASSUME NEW t \in Callers, Finish(t)
       PROVE  DbResultInv'
  BY <1>9 DEF Finish, Goto
<1>10. CASE Close
  BY <1>10 DEF Close, Quiet
<1>11. CASE UNCHANGED dbVars
  BY <1>11 DEF dbVars
<1>. QED
  BY <1>1, <1>2, <1>3, <1>4, <1>5, <1>6, <1>7, <1>8, <1>9, <1>10, <1>11
  DEF DbNext, DbStep

\* A step of a caller is a step of the abstract shared pool, or none.
LEMMA DbSimulation ==
  ASSUME DbTypeOK, DbPoolInv, DbResultInv, [DbNext]_dbVars
  PROVE  [DbShared!Next]_(DbShared!vars)
<1>. USE DEF DbTypeOK, DbShared!vars, DbShared!NoPool, NoDb
<1>1. ASSUME NEW t \in Callers, Call(t)
       PROVE  [DbShared!Next]_(DbShared!vars)
  BY <1>1 DEF Call, Goto
<1>2. ASSUME NEW t \in Callers, FirstCheck(t)
       PROVE  [DbShared!Next]_(DbShared!vars)
  BY <1>2 DEF FirstCheck, Goto
<1>3. ASSUME NEW t \in Callers, Acquire(t)
       PROVE  [DbShared!Next]_(DbShared!vars)
  BY <1>3 DEF Acquire, Goto
<1>4. ASSUME NEW t \in Callers, SecondCheck(t)
       PROVE  [DbShared!Next]_(DbShared!vars)
  BY <1>4 DEF SecondCheck, Goto
<1>5. ASSUME NEW t \in Callers, OpenPool(t)
       PROVE  [DbShared!Next]_(DbShared!vars)
  BY <1>5 DEF OpenPool, Goto
<1>6. ASSUME NEW t \in Callers, OpenFails(t)
       PROVE  [DbShared!Next]_(DbShared!vars)
  BY <1>6 DEF OpenFails, Goto
<1>7. ASSUME NEW t \in Callers, Publish(t)
       PROVE  [DbShared!Next]_(DbShared!vars)
  BY <1>7 DEF Publish, Goto, DbPoolInv, DbShared!Next, DbShared!Open
<1>8. ASSUME NEW t \in Callers, Return(t)
       PROVE  [DbShared!Next]_(DbShared!vars)
  BY <1>8 DEF Return, Goto, DbPoolInv, DbResultInv, DbShared!Next, DbShared!Get
<1>9. ASSUME NEW t \in Callers, Finish(t)
       PROVE  [DbShared!Next]_(DbShared!vars)
  BY <1>9 DEF Finish, Goto, DbShared!Next, DbShared!Put
<1>10. CASE Close
  BY <1>10 DEF Close, Quiet, DbResultInv, DbShared!Next, DbShared!Close
<1>11. CASE UNCHANGED dbVars
  BY <1>11 DEF dbVars
<1>. QED
  BY <1>1, <1>2, <1>3, <1>4, <1>5, <1>6, <1>7, <1>8, <1>9, <1>10, <1>11
  DEF DbNext, DbStep

-----------------------------------------------------------------------------
\* The inductive invariant holds in every reachable state.
THEOREM DbInvariance ==
  DbSpec => []DbIInv
<1>1. DbInit => DbIInv
  BY NobodyAssumption, BoundsAssumption DEF DbInit, DbIInv, DbTypeOK, DbLockInv, DbPoolInv, DbResultInv, PCs, NoDb
<1>2. DbIInv /\ [DbNext]_dbVars => DbIInv'
  BY DbTypeStep, DbLockStep, DbPoolStep, DbResultStep DEF DbIInv
<1>. QED
  BY <1>1, <1>2, PTL DEF DbSpec

\* The double-checked lock never opens two pools.
THEOREM OneDbHolds ==
  DbSpec => []OneDb
<1>1. DbIInv => OneDb
  BY DEF DbIInv, DbPoolInv, OneDb
<1>. QED
  BY <1>1, DbInvariance, PTL

\* _get_db never hands out None or a closed pool.
THEOREM CallersGetOpenPoolHolds ==
  DbSpec => []CallersGetOpenPool
<1>1. DbIInv => CallersGetOpenPool
  <2> SUFFICES ASSUME DbIInv, NEW t \in Callers, pc[t] = "using"
               PROVE  result[t] = singleton /\ result[t] \in opened
    BY DEF CallersGetOpenPool
  <2>1. result[t] = singleton /\ singleton # NoDb
    BY DEF DbIInv, DbResultInv, DbPoolInv
  <2>2. \A u \in Callers : pc[u] # "publish"
    BY <2>1 DEF DbIInv, DbPoolInv
  <2>. QED
    BY <2>1, <2>2 DEF DbIInv, DbPoolInv
<1>. QED
  BY <1>1, DbInvariance, PTL

\* Callers cannot tell the two checks and the lock from one atomic step.
THEOREM DbImplementsSharedPool ==
  DbSpec => DbSharedPoolSpec
<1>1. DbInit => DbShared!Init
  BY DEF DbInit, DbShared!Init, DbShared!NoPool, NoDb
<1>2. DbIInv /\ [DbNext]_dbVars => [DbShared!Next]_(DbShared!vars)
  BY DbSimulation DEF DbIInv
<1>. QED
  BY <1>1, <1>2, DbInvariance, PTL DEF DbSpec, DbSharedPoolSpec, DbShared!Spec
=============================================================================
