--------------------------- MODULE ServiceRuntime ---------------------------
(***************************************************************************)
(* One process of the portal API (service/api/_infra.py and __init__.py):  *)
(* the requests it accepts, the worker threads that run its synchronous    *)
(* code, the audit tasks the middleware leaves behind each response, the   *)
(* process-wide database object, and the shutdown that must empty the      *)
(* tasks before it closes that object.                                     *)
(*                                                                         *)
(* The event loop is one thread: each action of the loop (Arrive, Respond, *)
(* BeginDrain, CloseDb, ...) is the code between two of its awaits.  Every *)
(* route, the authentication dependency and the audit write are plain      *)
(* functions, so they run on the same bounded set of worker threads.       *)
(***************************************************************************)
EXTENDS Naturals

CONSTANTS
  Requests,   \* the requests clients may send, each at most once
  Threads,    \* the worker threads of the server's thread limiter
  NoJob,      \* a worker thread that runs nothing
  Faults,     \* the faults that may happen, a subset of FaultKinds
  MaxStarts   \* a bound on the starts of the process

FaultKinds == {"crash", "db_error", "ack_lost", "close_error"}

ASSUME FaultsAssumption == Faults \subseteq FaultKinds
ASSUME StartsAssumption == MaxStarts \in Nat \ {0}

Kinds == {"read", "admin", "health", "slash"}
Steps == {"auth", "handler", "body", "audit"}
Jobs  == [step : Steps, req : Requests]
Phases == {"new", "auth", "handler", "responding", "answered", "body", "done", "lost"}
Statuses == {"none", "ok", "redirect", "error", "raised"}
Lives == {"down", "serving", "stopping", "draining", "closed"}
NoPool == 0

ASSUME NoJobAssumption == NoJob \notin Jobs

VARIABLES
  life,       \* where the lifespan of the application is
  starts,     \* how often the process was started
  kind,       \* kind[r]: the route family of r, "health" until r arrives
  phase,      \* phase[r]: how far r has got
  status,     \* status[r]: the answer of r
  worker,     \* worker[t]: the job thread t runs
  uses,       \* uses[t]: the pool the job of t got from _get_db
  db,         \* _DB_SINGLETON
  poolSeq,    \* the number of pools ever opened
  openPools,  \* the pools that are open
  leaked,     \* the pools whose close raised
  pending,    \* _PENDING_TASKS: the requests whose audit task has not ended
  drain,      \* the tasks the shutdown waits for
  rows        \* rows[r]: the rows of the access log about r

procVars == <<life, starts, drain>>
reqVars  == <<kind, phase, status>>
poolVars == <<db, poolSeq, openPools, leaked>>
vars == <<procVars, reqVars, worker, uses, poolVars, pending, rows>>

TypeOK ==
  /\ life \in Lives
  /\ starts \in 0..MaxStarts
  /\ kind \in [Requests -> Kinds]
  /\ phase \in [Requests -> Phases]
  /\ status \in [Requests -> Statuses]
  /\ worker \in [Threads -> Jobs \cup {NoJob}]
  /\ uses \in [Threads -> Nat]
  /\ db \in Nat
  /\ poolSeq \in Nat
  /\ openPools \subseteq Nat \ {NoPool}
  /\ leaked \subseteq Nat \ {NoPool}
  /\ pending \subseteq Requests
  /\ drain \subseteq Requests
  /\ rows \in [Requests -> Nat]

Init ==
  /\ life = "down"
  /\ starts = 0
  /\ kind = [r \in Requests |-> "health"]
  /\ phase = [r \in Requests |-> "new"]
  /\ status = [r \in Requests |-> "none"]
  /\ worker = [t \in Threads |-> NoJob]
  /\ uses = [t \in Threads |-> NoPool]
  /\ db = NoPool
  /\ poolSeq = 0
  /\ openPools = {}
  /\ leaked = {}
  /\ pending = {}
  /\ drain = {}
  /\ rows = [r \in Requests |-> 0]

-----------------------------------------------------------------------------
(* What the audit job records.                                             *)

\* Mutant: the status of the response is not looked at.
AnyStatus(s) == s \in Statuses

\* _record_access_safe leaves when status_code >= 400.
RecordedStatus(s) == s \in {"ok", "redirect"}

\* derive_access_action names an action for the data routes; it strips the
\* trailing slash, so it names the same action for the path the router only
\* redirects.
AuditedKind(k) == k \in {"read", "slash"}

Recordable(r) == RecordedStatus(status[r]) /\ AuditedKind(kind[r])

\* Mutant: the write is marked repeatable, as the reads are.
RetriedWhenLost == TRUE

\* _run_in_db_write passes idempotent=False: the database object does not
\* repeat a write whose outcome it did not learn.
RetriedWrite == FALSE

-----------------------------------------------------------------------------
(* The shared pieces of the thread's code.                                 *)

OnThread(j) == \E t \in Threads : worker[t] = j

Waiting(j) ==
  /\ ~OnThread(j)
  /\ IF j.step = "audit" THEN j.req \in pending ELSE phase[j.req] = j.step

Runs(t, s) == worker[t] # NoJob /\ worker[t].step = s

Release(t) ==
  /\ worker' = [worker EXCEPT ![t] = NoJob]
  /\ uses' = [uses EXCEPT ![t] = NoPool]

\* Mutant: every job opens a pool of its own.
GetFreshDb(t) ==
  /\ poolSeq' = poolSeq + 1
  /\ db' = poolSeq'
  /\ openPools' = openPools \cup {poolSeq'}
  /\ uses' = [uses EXCEPT ![t] = poolSeq']
  /\ UNCHANGED leaked

\* _get_db: the pool is opened by the first caller and shared after that.
\* (DbSingleton models the two checks and the lock inside it.)
GetDb(t) ==
  /\ \/ /\ db # NoPool
        /\ UNCHANGED <<db, poolSeq, openPools>>
     \/ /\ db = NoPool
        /\ poolSeq' = poolSeq + 1
        /\ db' = poolSeq + 1
        /\ openPools' = openPools \cup {poolSeq + 1}
  /\ uses' = [uses EXCEPT ![t] = db']
  /\ UNCHANGED leaked

-----------------------------------------------------------------------------
(* Requests.                                                               *)

\* The server hands r to the application.  A path with a trailing slash is
\* answered by the router itself with a redirect, before any dependency.
Arrive(r, k) ==
  /\ life = "serving"
  /\ phase[r] = "new"
  /\ kind' = [kind EXCEPT ![r] = k]
  /\ phase' = [phase EXCEPT ![r] = CASE k = "slash"  -> "responding"
                                     [] k = "health" -> "handler"
                                     [] OTHER        -> "auth"]
  /\ status' = [status EXCEPT ![r] = IF k = "slash" THEN "redirect" ELSE "none"]
  /\ UNCHANGED <<procVars, worker, uses, poolVars, pending, rows>>

\* A free thread of the limiter takes a waiting job.
TakeThread(t, j) ==
  /\ worker[t] = NoJob
  /\ Waiting(j)
  /\ worker' = [worker EXCEPT ![t] = j]
  /\ UNCHANGED <<procVars, reqVars, uses, poolVars, pending, rows>>

\* Mutant: the dependency does not give its thread back.
FinishAuthKeepsThread(t) ==
  /\ Runs(t, "auth")
  /\ phase[worker[t].req] = "auth"
  /\ phase' = [phase EXCEPT ![worker[t].req] = "handler"]
  /\ UNCHANGED <<procVars, kind, status, worker, uses, poolVars, pending, rows>>

\* require_principal: the handler follows, or the answer is 401, or the
\* configuration does not load, which raises.
FinishAuth(t) ==
  /\ Runs(t, "auth")
  /\ LET r == worker[t].req IN
       \/ /\ phase' = [phase EXCEPT ![r] = "handler"]
          /\ UNCHANGED status
       \/ /\ phase' = [phase EXCEPT ![r] = "responding"]
          /\ status' = [status EXCEPT ![r] = "error"]
       \/ /\ phase' = [phase EXCEPT ![r] = "done"]
          /\ status' = [status EXCEPT ![r] = "raised"]
  /\ Release(t)
  /\ UNCHANGED <<procVars, kind, poolVars, pending, rows>>

\* The handler reaches _run_in_db.
HandlerUsesDb(t) ==
  /\ Runs(t, "handler")
  /\ kind[worker[t].req] \in {"read", "admin"}
  /\ uses[t] = NoPool
  /\ GetDb(t)
  /\ UNCHANGED <<procVars, reqVars, worker, pending, rows>>

\* The handler returns data, raises an HTTPException, or raises anything else
\* (call_next then raises too and the middleware's own code does not run).
FinishHandler(t, s) ==
  /\ Runs(t, "handler")
  /\ LET r == worker[t].req IN
       /\ s = "ok" => kind[r] = "health" \/ uses[t] # NoPool
       /\ status' = [status EXCEPT ![r] = s]
       /\ phase' = [phase EXCEPT ![r] = IF s = "raised" THEN "done" ELSE "responding"]
  /\ Release(t)
  /\ UNCHANGED <<procVars, kind, poolVars, pending, rows>>

\* Mutant: nothing keeps the task, it is collected before it runs.
RespondDropsTask(r) ==
  /\ phase[r] = "responding"
  /\ phase' = [phase EXCEPT ![r] = "answered"]
  /\ UNCHANGED <<procVars, kind, status, worker, uses, poolVars, pending, rows>>

\* access_log_middleware after call_next: the audit task is created and kept,
\* and the response goes out without waiting for it.
Respond(r) ==
  /\ phase[r] = "responding"
  /\ phase' = [phase EXCEPT ![r] = "answered"]
  /\ pending' = pending \cup {r}
  /\ UNCHANGED <<procVars, kind, status, worker, uses, poolVars, rows>>

\* The server has sent the response, or, of a download or a bundle, all but its
\* body: that comes from a synchronous generator.
Deliver(r) ==
  /\ phase[r] = "answered"
  /\ \/ phase' = [phase EXCEPT ![r] = "done"]
     \/ /\ status[r] = "ok" /\ kind[r] = "read"
        /\ phase' = [phase EXCEPT ![r] = "body"]
  /\ UNCHANGED <<procVars, kind, status, worker, uses, poolVars, pending, rows>>

\* The generator runs on the threads of the limiter and uses no pool; its turns,
\* one for each chunk, are taken as one.
FinishBody(t) ==
  /\ Runs(t, "body")
  /\ phase' = [phase EXCEPT ![worker[t].req] = "done"]
  /\ Release(t)
  /\ UNCHANGED <<procVars, kind, status, poolVars, pending, rows>>

-----------------------------------------------------------------------------
(* Audit tasks: _record_access_bg runs _record_access_safe on a thread.    *)

\* The task ends, the done callback discards it.
EndTask(t) ==
  /\ pending' = pending \ {worker[t].req}
  /\ Release(t)

\* A failed access or a route that is not a data access leaves no row.
AuditSkip(t) ==
  /\ Runs(t, "audit")
  /\ ~Recordable(worker[t].req)
  /\ EndTask(t)
  /\ UNCHANGED <<procVars, reqVars, poolVars, rows>>

AuditUsesDb(t) ==
  /\ Runs(t, "audit")
  /\ Recordable(worker[t].req)
  /\ uses[t] = NoPool
  /\ GetDb(t)
  /\ UNCHANGED <<procVars, reqVars, worker, pending, rows>>

\* record_access appends a row and the transaction commits.
AddRow(t) == rows' = [rows EXCEPT ![worker[t].req] = @ + 1]

AuditCommit(t) ==
  /\ Runs(t, "audit")
  /\ uses[t] # NoPool
  /\ AddRow(t)
  /\ EndTask(t)
  /\ UNCHANGED <<procVars, reqVars, poolVars>>

\* The commit is applied and its acknowledgement is lost: an exception, which
\* _record_access_bg swallows, unless the write is one to be repeated.
AuditAckLost(t) ==
  /\ "ack_lost" \in Faults
  /\ Runs(t, "audit")
  /\ uses[t] # NoPool
  /\ AddRow(t)
  /\ \/ /\ ~RetriedWrite
        /\ EndTask(t)
     \/ /\ RetriedWrite
        /\ UNCHANGED <<worker, uses, pending>>
  /\ UNCHANGED <<procVars, reqVars, poolVars>>

\* The pool cannot be opened or the transaction rolls back: swallowed.
AuditFail(t) ==
  /\ "db_error" \in Faults
  /\ Runs(t, "audit")
  /\ Recordable(worker[t].req)
  /\ EndTask(t)
  /\ UNCHANGED <<procVars, reqVars, poolVars, rows>>

-----------------------------------------------------------------------------
(* The lifespan.                                                           *)

\* bootstrap_env, then the application serves.
Start ==
  /\ life \in {"down", "closed"}
  /\ starts < MaxStarts
  /\ life' = "serving"
  /\ starts' = starts + 1
  /\ drain' = {}
  /\ UNCHANGED <<reqVars, worker, uses, poolVars, pending, rows>>

\* SIGTERM: the server accepts no more requests.
Stop ==
  /\ life = "serving"
  /\ life' = "stopping"
  /\ UNCHANGED <<starts, drain, reqVars, worker, uses, poolVars, pending, rows>>

Begun(r) == phase[r] \in {"answered", "body"}

InFlight(r) == phase[r] \in {"auth", "handler", "responding"} \/ Begun(r)

\* The server has finished its requests and resumes the lifespan, which hands
\* the tasks of this moment to gather.
BeginDrain ==
  /\ life = "stopping"
  /\ \A r \in Requests : ~InFlight(r)
  /\ life' = "draining"
  /\ drain' = pending
  /\ UNCHANGED <<starts, reqVars, worker, uses, poolVars, pending, rows>>

\* Mutant: the pool is closed without waiting for the tasks.
NoGather == life = "draining"

\* Mutant: the shutdown waits for a row of each task.
WaitForRows == life = "draining" /\ \A r \in drain : rows[r] = 1

Gathered == life = "draining" /\ drain \cap pending = {}

\* Mutant: the closed object stays in the global.
CloseKeepsGlobal ==
  /\ Gathered
  /\ life' = "closed"
  /\ openPools' = openPools \ {db}
  /\ UNCHANGED <<starts, drain, reqVars, worker, uses, db, poolSeq, leaked, pending, rows>>

\* _close_db_singleton: close, and reset the global whatever close did.
CloseDb ==
  /\ Gathered
  /\ life' = "closed"
  /\ db' = NoPool
  /\ openPools' = openPools \ {db}
  /\ UNCHANGED <<starts, drain, reqVars, worker, uses, poolSeq, leaked, pending, rows>>

\* The close of the object raises: logged, and the global is reset all the same.
CloseDbRaises ==
  /\ "close_error" \in Faults
  /\ Gathered
  /\ db # NoPool
  /\ life' = "closed"
  /\ db' = NoPool
  /\ leaked' = leaked \cup {db}
  /\ UNCHANGED <<starts, drain, reqVars, worker, uses, poolSeq, openPools, pending, rows>>

\* The process is killed: its tasks, threads and connections go with it.  A
\* request whose response had started is over, any other one is lost.
Crash ==
  /\ "crash" \in Faults
  /\ life \notin {"down", "closed"}
  /\ life' = "down"
  /\ phase' = [r \in Requests |-> CASE Begun(r) -> "done"
                                    [] InFlight(r) /\ ~Begun(r) -> "lost"
                                    [] ~InFlight(r) -> phase[r]]
  /\ worker' = [t \in Threads |-> NoJob]
  /\ uses' = [t \in Threads |-> NoPool]
  /\ db' = NoPool
  /\ openPools' = {}
  /\ leaked' = {}
  /\ pending' = {}
  /\ drain' = {}
  /\ UNCHANGED <<starts, kind, status, poolSeq, rows>>

-----------------------------------------------------------------------------
HandlerStep(t) ==
  \/ HandlerUsesDb(t)
  \/ \E s \in {"ok", "error", "raised"} : FinishHandler(t, s)

AuditStep(t) ==
  \/ AuditSkip(t)
  \/ AuditUsesDb(t)
  \/ AuditCommit(t)
  \/ AuditAckLost(t)
  \/ AuditFail(t)

ThreadStep(t) ==
  \/ \E j \in Jobs : TakeThread(t, j)
  \/ FinishAuth(t)
  \/ HandlerStep(t)
  \/ FinishBody(t)
  \/ AuditStep(t)

RequestStep(r) ==
  \/ \E k \in Kinds : Arrive(r, k)
  \/ Respond(r)
  \/ Deliver(r)

ShutdownStep == BeginDrain \/ CloseDb \/ CloseDbRaises

Next ==
  \/ \E t \in Threads : ThreadStep(t)
  \/ \E r \in Requests : RequestStep(r)
  \/ Start
  \/ Stop
  \/ ShutdownStep
  \/ Crash

Spec == Init /\ [][Next]_vars

\* What the scheduling gives: the loop runs its ready continuations, a free
\* thread takes a waiting job, and a handler and a body end (the database
\* answers, the client reads or goes).
ServingFairness ==
  /\ \A r \in Requests : WF_vars(Respond(r)) /\ WF_vars(Deliver(r))
  /\ \A t \in Threads :
       /\ WF_vars(\E j \in Jobs : TakeThread(t, j))
       /\ WF_vars(FinishAuth(t))
       /\ WF_vars(HandlerStep(t))
       /\ WF_vars(FinishBody(t))
       /\ WF_vars(AuditSkip(t) \/ AuditUsesDb(t))
  /\ WF_vars(ShutdownStep)

\* The database also answers the audit writes.
FairSpec ==
  /\ Spec
  /\ ServingFairness
  /\ \A t \in Threads : WF_vars(AuditStep(t))

\* The database may leave an audit write unanswered for ever.
StalledAuditSpec == Spec /\ ServingFairness

-----------------------------------------------------------------------------
(* Properties.                                                             *)

\* No thread works on a pool the service has given up: a job between _get_db
\* and its commit always holds the pool that is published and open.  This is
\* what the order of the shutdown (tasks first, then the pool) is for.
NoJobOnClosedPool ==
  \A t \in Threads : uses[t] # NoPool => uses[t] = db /\ uses[t] \in openPools

\* After the lifespan has ended nothing is left running and no pool is open
\* but those whose close raised; no straggler has opened a new one.
QuietAfterShutdown ==
  life = "closed" =>
    /\ pending = {}
    /\ \A t \in Threads : worker[t] = NoJob
    /\ db = NoPool
    /\ openPools \subseteq leaked

\* The process has at most one pool open at a time, the published one (and
\* those whose close raised).
OnePool == openPools \ leaked \subseteq {db}

\* The requests that were answered, below 400, on a data path.
Granted ==
  {r \in Requests : /\ phase[r] \in {"answered", "body", "done"}
                    /\ status[r] \in {"ok", "redirect"}
                    /\ kind[r] \in {"read", "slash"}}

\* A row of the access log is about a request that was answered as a data
\* access, and it is the only one about it.
RowsAreGrants ==
  \A r \in Requests : rows[r] <= 1 /\ (rows[r] = 1 => r \in Granted)

\* The access log is what AuditLog promises: append only, at most one row
\* about a request, none before the request was answered as a data access.
Audit == INSTANCE AuditLog WITH granted <- Granted
AuditLogSpec == Audit!Spec

\* The worker threads share the database object as SharedPool promises: the
\* pool is closed, at shutdown, when no thread uses it.
Shared == INSTANCE SharedPool WITH Users <- Threads, pool <- db, using <- uses
SharedPoolSpec == Shared!Spec

\* A process that was told to stop does stop: the shutdown does not wait for
\* ever for a request or a task.
ShutdownEnds == (life = "stopping") ~> (life \in {"closed", "down"})

\* Every request that arrived is answered, whatever the audit tasks do.
EveryRequestAnswered ==
  \A r \in Requests : InFlight(r) ~> (phase[r] \in {"done", "lost"})

\* Without a crash and with a database that answers, every data access that
\* was answered gets its row: no task is lost between response and shutdown.
EveryGrantRecorded ==
  \A r \in Requests :
    (phase[r] = "answered" /\ status[r] = "ok" /\ kind[r] = "read") ~> (rows[r] = 1)

\* "a failed or late record affects neither the status nor the latency of a
\* response" (access_log_middleware): also when the database leaves the audit
\* writes unanswered, a request that arrived is answered.
AnsweredWhateverAuditsDo == EveryRequestAnswered
=============================================================================
