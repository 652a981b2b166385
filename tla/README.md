# Verification of the data platform service

The repository (`cbccbs123/dataplatform-service`) is the HTTP service of a data
platform: FastAPI routes (`service/api`) over read models, file streaming and a
thumbnail cache (`service/portal`). The pipeline, the search engine, the review
statements and the database layer are in a core package (`src.*`) that is
imported and not in the repository; here it is *external* and modelled from the
way the service uses it.

This directory holds TLA+ models of the service, the TLC configurations that
check them on small instances, and theorems about them that TLAPS proves for
every value of the constants. All paths below are relative to `src/`.

    tlc -workers 4 -config RuntimeSafety.cfg MCServiceRuntime.tla
    tlapm ServiceRuntimeProofs.tla

Contents: 1 the system · 2 the modules and the code · 3 the runs · 4 fairness ·
5 the proofs · 6 findings and smaller observations · 7 what is not modelled ·
8 plan.

## 1. The system

| component | code | state it keeps | what makes it hard |
|---|---|---|---|
| application runtime | `service/api/_infra.py`, `__init__.py`, `bootstrap.py` | the lifespan; `_PENDING_TASKS`; the worker threads of the server | fire-and-forget audit tasks, the order of the shutdown, one bounded set of threads for everything synchronous |
| database object | `_infra.py:30-66` | `_DB_SINGLETON`, `_DB_LOCK` | double-checked locking by threads, with an open that may raise and a close at shutdown |
| access log, written | `_infra.py:96-122, 155-235`, `portal/access_log.py:13-64` | rows of `access_log` | a row is written after the answer, by a task that may fail, be repeated or be lost in a crash |
| relation review | `api/routes_review.py` | status of relations and relation kinds, audit rows | many rows in one transaction, savepoints, row locks, lost acknowledgements |
| thumbnails | `portal/thumbnail.py`, the route in `routes_assets.py` | the cache directory | several threads make one file; crash and disk errors between the file operations |
| download | `portal/download.py:27-126`, `routes_assets.py:165-262` | none; a stream in progress | the file is checked, measured and opened at three times; intervals with inclusive ends |
| bundle | `portal/download.py:129-333`, `routes_assets.py:265-345` | a temporary file | ranking, a second look at the catalogue, files that vanish, equal names |
| reports and lists | `portal/access_log.py`, `lineage_query.py`, `asset_stats.py`, `dashboard.py`, `_timeline_util.py`, `routes_admin.py` | none | several statements per screen, each with a snapshot of its own; retried transactions; calendar windows; paging a growing table |
| authentication | `portal/auth/*`, `_infra.py:148-161` | a verifier cached for the life of the process | the configuration is read on each request, the verifier is not; tokens outlive processes; the token is verified a second time for the row |
| search and grouping | `portal/search_group.py`, `routes_search.py` | none | cut and order of rows with unequal and unreadable scores; tiers read while they are changed; a projection that is run again; a facet that must fit the rows |
| asset detail | `portal/asset_detail.py`, `routes_assets.py:65-93` | none | several edges about one neighbour in any order, confirmed or not, while reviewers decide |
| topic lists, unclassified assets | routes of `routes_assets.py` | none | – |

**How they interact.** A request enters the event loop through
`access_log_middleware`, passes the authentication dependency and then its
handler. Dependency and handler are plain functions, so the framework runs each
of them on a thread of *one* bounded set. A handler calls `_get_db()`, which
opens the pool at the first use, and `with_retry`, which may run the transaction
a second time after a lost connection. When the answer is below 400 and the path
reads data, the middleware creates a task that writes a row of the access log –
on the same threads, through the same pool – and sends the answer without
waiting. At shutdown the lifespan gathers the pending tasks and then closes the
pool. For the row it verifies the token again, for it does not see whom the
dependency has admitted. Search, detail, review, reports, download and bundle are
handlers of this runtime. A search asks the engine first and then projects its
rows in one transaction; a detail is one transaction; both read tiers that
operators change and relations that reviewers decide. The
thumbnail cache is shared by threads and by successive processes through the
file system.

**What each component owes** (the properties are in the modules, each with a
comment; `PROJECT.json` lists the hazards they are for, each at its line):

* *runtime* – no job works on a pool that has been closed; a finished shutdown
  leaves nothing running and nothing open; every request is answered, every
  task ends, a shutdown ends;
* *database object* – one pool whatever the interleaving of first uses; a call
  never returns a closed or half-open one; a failed open leaves the lock free;
* *access log* – append only, one row at most about a request, none before it
  was answered as a data access, and (database permitting) one for each;
* *review* – a decision is taken once; the status is that of the last committed
  decision; a transaction is visible as a whole or not at all; an audit row says
  what was changed, and a decision is kept when its audit row fails; crossing
  batches do not wait for ever;
* *thumbnails* – the cache and the answers hold whole thumbnails of the right
  asset and size; a stored one is used; a store that fails costs nobody the answer,
  and a temporary file stays only where it cannot be removed;
* *download* – the announced interval is what the header selects; the body is
  that interval, in order, of one file; a resumed download is the whole file;
* *bundle* – the strongest neighbours in a fixed order, each an entry or noted
  as missing, with names of their own; the temporary file is closed;
* *reports* – figures that count the same rows agree if nothing changes and
  never fall short of their headline if rows are added; a list is as long as its
  bucket says; paging misses no row; the window has the months it is asked for;
* *authentication* – a living token is accepted by every process with its secret
  and issuer, and by no other; nobody is served as somebody else, or named as
  somebody else in the row;
* *search and detail* – an answer holds the best rows, in order; what the caller
  sees follows tiers there were during the request, and all rows of a domain
  alike, in groups, in the compact view and in details; the facet promises what
  the rows keep; confirmed relations stand above proposed ones.

## 2. The modules and the code

| module | models | composed with |
|---|---|---|
| `AuditLog` | abstract: an append-only log with one row at most about a granted request | implemented by `ServiceRuntime` |
| `SharedPool` | abstract: a pool that users get atomically and that is closed when nobody uses it | implemented by `ServiceRuntime` and `DbSingleton` |
| `ServiceRuntime` | one process: requests, worker threads, middleware, audit tasks, lifespan, crash | uses `_get_db` as one step |
| `DbSingleton` | that step, statement by statement | justifies it: both implement `SharedPool` |
| `ReviewBoard` | abstract: waiting items that a request decides in one step | implemented by `Review` |
| `Review` | the transactions of the review routes, row by row | |
| `ThumbnailCache` | `cached_thumbnail`, file operation by file operation | |
| `Download` | the route, `parse_range_header`, `_file_iterator` | |
| `Bundle` | `collect_bundle_assets`, `build_bundle_zip_stream`, the route | |
| `Reports` | the statements of the reports and lists, and the tables under them | |
| `Auth` | the rules of `portal/auth`: configuration, tokens, verifier, principal | used by `Portal` |
| `SearchGroup` | what is made of the hits of a search: groups, projection, facet, compact view | used by `Portal` |
| `AssetDetail` | the cards of an asset's relations | used by `Portal` |
| `Portal` | searches and details from the token to the row, with clock, changes, retries and restarts | composes `Auth`, `SearchGroup`, `AssetDetail` |
| `Ranking` | what Python's `sorted`, `list.sort` and list comprehensions return, without recursion | used by `Bundle`, `SearchGroup`, `AssetDetail` |

`MC*` modules give the constants small values; `*Proofs` modules hold the
theorems. `PROJECT.json` maps every definition to the lines it stands for.

**ServiceRuntime.** `phase[r]` is how far request `r` has got, `worker[t]` what
thread `t` runs, `pending` is `_PENDING_TASKS`, `db` is `_DB_SINGLETON`. An
action of the event loop is the code between two awaits: `Respond` is the
middleware after `call_next` (it creates the task and adds it to the set),
`BeginDrain` is the lifespan up to `gather`, `CloseDb` and `CloseDbRaises` are
`_close_db_singleton`. `TakeThread` is the thread limiter giving a free thread to
a waiting job: an authentication, a handler, the body of a download or an audit
write. `FinishAuth` admits the request, refuses it, or raises because the
configuration does not load. A download or a bundle sends its body from a
synchronous generator, which the framework runs on the same threads, one turn for
each chunk: `FinishBody` takes all turns as one, and `Download` and `Bundle` show
what is in them. `HandlerUsesDb` and `AuditUsesDb` call `_get_db`; `AuditCommit`,
`AuditAckLost`, `AuditFail` are the outcomes of `_write_audit_row`, which
swallows its errors and does not repeat a write that may have been applied.
`Start` is a start of the process and needs the former one to have ended; the
rows survive it.

**DbSingleton.** The program counters of a thread are the statements of
`_get_db`: the check without the lock, the lock, the second check, the open, the
assignment and the *second read of the global* in `return`, outside the lock. Its
definitions carry the prefix `Db` where `ServiceRuntime` has one of the same name, for
one module of proofs extends both; `Callers` are the worker threads.

**Review.** A transaction decides its ids one by one (`DecideOne`), then writes
an audit row for each item it changed (`AuditOne`, or `AuditOneFails`, which
rolls back to its savepoint), then commits. The guarded updates are external:
one row, only when it waits (except `revise`), read committed, row locks held to
the end, and `DeadlockVictim` when PostgreSQL breaks a cycle. A commit may be
applied and its acknowledgement lost (`unknown`). That a decision is kept when its
audit row fails is stated and tested by the code (`routes_review.py:6-7`, `50-51`,
`64`; `TestRelationAuditBestEffort`); `told` is what the answer says was decided,
and `AuditTellsWhatWasDone` demands that a committed request has done just that,
however many of its audit rows failed. `history` records committed
requests in order and exists for the properties only.

**ThumbnailCache.** `Probe`, `ReadCache`, `Generate`, `Mkstemp`, `Write`,
`Replace` are the file operations of `cached_thumbnail`; `ReadFails` and
`StoreFails` are its handlers of `OSError`. The second one removes the temporary
file, and suppresses the error when that is refused, as in a directory that has
become read-only: the name is then in `refused` and the file stays. An error of
another kind (`StoreRaises`) leaves the function with the file where it is. The bytes of a thumbnail are the key
and the version of the original they were made from.

**Download.** `CheckFile`, `StatFile`, `Open`, `Read` are the three looks at the
file and the loop of the generator. A byte is the pair of the file it comes from
and its offset, so a body that mixes two files or leaves a byte out is visible.
The owner of the file may replace, cut, remove or lock it between any two steps;
the client may break off and resume from what it has.

**Bundle.** The transaction is `Gate`, `Query` (the rows of the neighbours),
`Rank` (the reduction to the best confidence, the order and the cut) and `Paths`,
the second look at the catalogue. At each of them it may fail and be run again
from the gate (`Retry`) or fail for good (`DatabaseFails`), before there is a
temporary file. `AddEntry` and `NoteMissing` are the passes of the loop over the files, `FirstFree`
is `_dedup_entry_name`; `FinishZip` writes the manifest of what is missing;
`Stream` and `CloseSpool` are the response and its background task. When the
client leaves (`Leave`) the framework may run the task or not; without it the
temporary file is closed with its object (`Finalise`). `build_bundle_zip` reads
the same stream to its end and adds nothing.

**Reports.** A statement is a record – table, period, filter, the column it
groups by – and `Results` says what the database answers. `Script` translates
each report into its statements in the order of the code, and `Execute` runs one
of them in a snapshot of its own; between two, rows are added and statuses
change. `Retry` is `with_retry` repeating a transaction from its start.
`MonthFloorBack` and `Trunc` are the calendar helpers.

**Auth, SearchGroup, AssetDetail** have no state. `Auth` says what a process
makes of its environment (`Loads`, `Secret`, `Ttl`), what its verifier accepts
(`Verifies`), whom a request is taken for (`Refuses`, `PrincipalFor`) and whom
the middleware takes it for (`UserOf`); a signature is the secret it was made
with. `SearchGroup` is `group_ranked`, `_project_grouped_search`,
`_search_topic_facet` and `_compact_view` on rows with a score in
ten-millionths, so that six and four digits are different roundings; topics and
pairs are short sequences of characters, because the code cuts them at `>`.
`AssetDetail` is `_merge_relations_by_asset` on the rows of
`fetch_relations_for_asset`, a row being an edge with the tier of its state and the
kinds of the edges that were folded into it.

**Ranking** has no state. An order is a set of pairs; an element's place in a
ranking is the number of the elements before it (`Ranked`), a stable sort ranks
the places of the list by key and then by place (`SortedBy`), and a comprehension
with a condition keeps the places that meet it (`Kept`).

**Portal.** `env` is the environment of the process and changes only with
`Restart`, which loses the verifier and the requests, while `minted` tokens stay
with the clients. A request of client `c` goes through `phase[c]`:
`Authenticate` is the dependency, `Query` the engine, `ReadTiers` one statement
of the projection, `AnswerSearch` the rest of the route; `ReadAsset`,
`ReadRelations`, `ReadAssetTiers` and `AnswerDetail` are the transaction of the
detail; `Retry`
starts a transaction again, from nothing; `Label` is the middleware after the
response. `ChangeTier` and `ChangeRelation` are commits of other transactions,
between any two of these. `since[c]` keeps what tiers and relations there have
been since the request arrived; it and `checked` exist for the properties only.
A client sends its next request through the same slot, so what one leaves behind
would be seen in the next one.

The rows of the relations are the core package's, and the service says three
things about them: it makes one row of the edges of a neighbour and names the
others in `folded_kind_codes` (`asset_detail.py:57-58, 132-135`); the detail is
written to be right without that, too (`test_portal_asset_detail.py:405-411`);
edges under `min_conf_similarity` are left out (`asset_detail.py:207-213`). So
`RowsFrom` either folds or does not, by `Folds`, and `Selected` leaves out what is
rejected or under `MinConf`. What the repository does not say is left open: whether
the floor also drops what a reviewer has confirmed, or what has no confidence – any
choice is allowed, edge by edge. The row of a folded neighbour is that of its
first edge by tier, confidence and id; the service names the first two
(`asset_detail.py:64-66`). `ConfirmedFirst` speaks only of edges from the floor
on, and of a folded edge it demands that its kind is told.

The two statements about topics (`routes_assets.py:85-86`) are left out. They read
what nothing else in the model reads; that the transaction may fail there, be run
again there, or that other transactions commit before them, is already so in the
phase `reading` before `AnswerDetail`.

## 3. The runs

| run | module | distinct states | what it shows |
|---|---|---|---|
| `runtime_safety` | `MCServiceRuntime` | 793,505 | the safety properties and both abstract specifications, with crash, database errors, lost acknowledgements and a close that raises |
| `runtime_liveness` | `MCServiceRuntime` | 13,976 | every request is answered, tasks and shutdowns end, every grant is recorded |
| `runtime_stalled_audit` | `MCServiceRuntime` | – | expected violation: finding 1 |
| `db_singleton` | `MCDbSingleton` | 2,736 | the double-checked lock as an atomic get-or-open; every call ends |
| `review` | `MCReview` | 44,885 | decisions are taken once, as a whole, and audited only if made, kept when an audit row fails; crossing batches end, with every fault |
| `thumbnail` | `MCThumbnailCache` | 2,862,924 | whole files and answers under races, errors, removals and crash |
| `download` | `MCDownload` | 454,200 | headers, bodies, changes of the file, resumption |
| `download_unreadable` | `MCDownload` | – | expected violation: finding 2 |
| `bundle` | `MCBundle` | 294,672 | a transaction that is run again, ranking, missing files, names, the end of the request and of its temporary file |
| `reports` | `MCReports` | 907,908 | figures, drill-downs, windows, pages |
| `portal` | `MCPortal` | 570,976 | tokens across restarts, rows of the log, projections under changes and retries, groups, facets |
| `portal_detail` | `MCPortal` | 526,509 | cards of relations, folded or not, under decisions of reviewers and retries |

**Bounds, and why they are enough.**

* *Runtime, safety*: three requests on two threads is the smallest instance in
  which a job waits while both threads are busy and a third request's task is
  pending at shutdown. Two starts show a life after a shutdown and after a
  crash. Requests and threads are interchangeable, and the properties treat them
  alike, so the run uses symmetry.
* *Runtime, liveness*: one thread is the case in which dependencies, handlers
  and audit writes compete most. `crash` and `db_error` are left out there,
  because they excuse what the properties demand; a lost acknowledgement and a
  close that raises are kept.
* *DbSingleton*: three threads – one past the first check, one in the lock, one
  that skips the lock – with two failed opens and two shutdowns.
* *Review*: two reviewers are what a conflict and a deadlock need; the safety
  properties are proved for any number. The batches name both relations in both
  orders, one twice, an id that does not exist, and nothing.
* *Thumbnail*: three requests over two sizes of an asset and one id that is not
  a safe file name; two versions of an original; one removal; one crash. A race
  takes two writers; the third request reads what they leave.
* *Download*: sizes 0 to 4 with chunks of 2 give empty, short, whole and
  multiple chunks; first and last bytes run from below 0 to beyond the end; two
  changes of the file and two resumptions, so that a change may come on each
  side of a resumption. Clients share only the file, which none of them writes,
  so one client is enough.
* *Bundle*: up to three rows over a seed and three neighbours, of which two are
  kept. Two neighbours have a low and a high confidence, one of them also none;
  the seed itself and the neighbour without a path have the high one. That gives
  every case of equal strength, repetition, self-reference and cut. Names collide
  with each other and with the name a file is renamed to. `MaxChanges = 1` lets one
  asset or file change at any point, `MaxRetries = 1` runs the transaction again
  from any of its statements, with other rows.
* *Portal*: requests share the process and what it reads, and none of them
  writes anything another one reads but the verifier; so one client, whose
  requests follow each other in one slot, with one token issued at any time,
  one tick of the clock, one change, one retry and one restart at any point. (The
  proofs cover any number of clients.) Four environments: switched off with and
  without a secret, on with a secret and a pinned issuer, and one that does not
  load; a token of another service with the same secret. The hits have equal
  scores, scores that are equal to six or to four digits only, one that cannot be
  read, rows without a summary and without pairs; a pool smaller than the answer.
* *Portal, details*: two neighbours with two edges each, one of them without a
  confidence, and a third under the floor, in every order of the rows, folded and
  not; two decisions and one retry at any point, so that two edges may change
  around the statement that reads them. One anonymous client and one environment,
  for the cards depend on neither; `portal` has details under changing tokens and
  tiers.
* *Reports*: a calendar of months of two days of two hours, begun in the last
  hour of a January, so that day, month and window change under the request,
  and a dashboard of 15 months begins in a former year. Two changes and one
  retry: a row before and a row after any statement, on both sides of a retry.
  Log ids are not in the order of time.

`TypeOK` (`DbTypeOK`) is part of the inductive invariant that is proved of every
module. `OnePool`, `OneDb` and `RowsAreGrants` are proved as well; what they say
is also in `SharedPoolSpec`, `CallersGetOpenPool` and `AuditLogSpec`, which the
runs check.

Each property has a mutant in `PROJECT.json`: a definition changed the way a
plausible error would change it, under which the property fails in its run. The
mutated definitions are in the modules, before the true ones, marked *Mutant*.

`CHECK_DEADLOCK FALSE` is used where requests come to an end and the system may
really stop; the run `review` checks deadlock (a terminal state stutters
explicitly in `Finished`), because there a deadlock is a hazard.

## 4. Fairness

* `ServiceRuntime!ServingFairness`: the event loop runs its ready continuations
  (`Respond`, `Deliver`, `ShutdownStep`), a free thread takes *some* waiting job
  (no job is promised to be next), and a job on a thread proceeds. `FairSpec`
  adds that the database answers audit writes; `StalledAuditSpec` leaves exactly
  that out, because nothing in the code bounds the time of such a write. A crash,
  a fault, the arrival of a request and the order to stop are never forced.
* `DbSingleton!DbFairSpec`: each thread goes on while it can. The lock is only
  weakly fair, for `threading.Lock` promises no order, and a thread waits as long
  as others take it. They take it only while no pool is published, and that
  happens a bounded number of times, because failed opens and closes are bounded.
* `Review!FairSpec`: a transaction proceeds when the row it wants is free, and
  PostgreSQL chooses a victim in a cycle (`deadlock_timeout`).
* `Download!FairSpec` and `Bundle!FairSpec`: the server proceeds while the
  client reads, and an object nothing refers to is destroyed (`Finalise`).
  Disconnects and changes of files are never forced.
* `ThumbnailCache`, `Reports` and `Portal` state safety only: their requests are
  sequences of steps without a loop or a wait of their own, and that a handler
  ends is the runtime's `EveryRequestAnswered`.

## 5. The proofs

Every theorem holds for all values of the constants that satisfy the named
assumptions of the module (sets of faults, `NoJob` and `Nobody` being no job and
no request, bounds being numbers); the sets of requests, threads, clients,
relations and keys are arbitrary, infinite ones included.

| module | theorems | inductive invariant |
|---|---|---|
| `ServiceRuntimeProofs` | type correctness; `NoJobOnClosedPool`, `QuietAfterShutdown`, `OnePool`, `RowsAreGrants`; implements `AuditLog` and `SharedPool` | `TypeOK ∧ JobsInv ∧ PoolsInv ∧ LifeInv ∧ RowsInv` |
| – its second part, about `DbSingleton` | `OneDb`, `CallersGetOpenPool`; implements `SharedPool` | `DbTypeOK ∧ DbLockInv ∧ DbPoolInv ∧ DbResultInv` |
| `ReviewProofs` | type correctness; implements `ReviewBoard`; `DecisionsNotOverwritten`, `StatusIsLastDecision`, `AuditTellsWhatWasDone` | `TypeOK ∧ TxInv ∧ LockInv`, then `HInv` |
| `ThumbnailCacheProofs` | `CacheIsWhole`, `AnswersAreWhole`, `FailedStoresAreHarmless`, `WarmRequestsHit` | `TypeOK ∧ StoreInv ∧ CacheIsWhole ∧ AnswersAreWhole`, then `WarmInv` and `BytesInv` |
| `DownloadProofs` | `ParserSelects`; `PromiseIsSelected`, `BodyInOrder`, `ShortOnlyIfChanged`, `ResumedIsWhole` | `TypeOK ∧ PromiseInv ∧ BodyInv ∧ FreshInv`, then `WholeInv` |
| `RankingProofs` | `RankedRanks`, `SortedIsSorted`: what a ranking and a stable sort are, for any finite set, any list and any order; and the facts about finite sets and lists the other modules use | – |
| `BundleProofs` | type correctness; `FilesHaveOwnNames`, `BundleIsTop`, `EveryTargetOnce`, `QuietBundleIsExact` | `TypeOK ∧ NamesInv ∧ ListInv ∧ BundleIsTop ∧ EveryTargetOnce ∧ QuietInv ∧ EndInv` |
| `PortalProofs` | type correctness; `TokensServe`, `RowNamesCaller`, `ReadsAreFresh`, `AnswersFollowTiers`, `AnswersAreTop`, `FacetsMatchRows`, `ConfirmedFirst` | `TypeOK ∧ ReadInv ∧ MintedInv ∧ VerifierInv ∧ CheckInv ∧ StageInv ∧ RowNamesCaller ∧ ReadsAreFresh`, then `AnswerInv` |
| `ReportsProofs` | type correctness; `FiguresAgree`, `DrillDownsAgree`, `PagesAreComplete`, `ListMatchesBucket`, `MonthlyCoversMonths` | `TypeOK ∧ TablesInv ∧ RequestInv ∧ QuietInv ∧ FigureInv ∧ PageInv ∧ DrillInv ∧ PagingInv` |

*Runtime.* `NoJobOnClosedPool` is not inductive: one has to know that a thread
is busy only while its request is in flight or its task is pending (`JobsInv`),
that a drained shutdown has neither (`LifeInv`, `GatheredIsQuiet`), and that a
published pool is open (`PoolsInv`). Then a close never meets a job. `RowsInv`
ties a row to an answered data access and to a task that has passed its write,
which also gives the simulation of `AuditLog`: a commit or a lost
acknowledgement is its append, and everything else grants or stutters.

*Database object.* `LockInv` says who is inside the lock; `PoolInv` that between
`open` and the assignment the new pool is known to the holder alone; `ResultInv`
that whoever has passed a check is counted as a user, so a close cannot come
between the check and the second read of the global. `Return` is the linearisation
point of the refinement. The close needs quiet threads, which is what
`QuietAfterShutdown` shows of the runtime: each module proves the assumption of
the other.

*Review.* `TxInv` says that what a transaction changed was waiting (or is
revised) and is what its audit rows speak of; `LockInv` that it holds those
rows, so nobody else may touch them before the end. Hence at commit all changed
rows still wait, and the commit is one step of `ReviewBoard`; all other steps
stutter. `HInv` is about the history: a committed request has one entry and an
uncommitted one none (`EntriesInv`), audit rows are among the changed items and the
answer tells of just those items (`RowsInv`), and the status is that of the last entry. `OnlyCommits` reduces a
step to a commit or to nothing; for a commit, `LockInv` says that a changed item
still waits, so its last decision, if there is one, had set it back to proposed.

*Thumbnails.* `StoreInv`: a temporary file belongs to the request that made it,
and it is whole when it is about to replace the cache file. `WarmInv`: a request
that found its thumbnail stored still finds it until it is answered. `BytesInv`: bytes
exist only once they are generated, and from then on an end of the request without
them is a crash or an exception that is none of a file operation; a temporary file
is left by one of those or is in `refused`.

*Download.* `ParserSelects` is a fact about the operators alone: for every header
and every size, `Accepted` holds exactly when the header selects a byte, and the
interval is exactly `Selected`. With it `PromiseInv` carries the interval from
the measurement to the open; `BodyInv` counts what is sent against what remains;
`FreshInv` says that a file nobody changed is at least as long as was measured,
so a read of nothing means the interval is complete. `WholeInv` is about a
client that wants the whole file while nothing has changed: what it has is the
beginning of the file, and a resumption asks for what follows. A turn of the loop
keeps it because `BodyInv` says which bytes the request has sent; at the end
`FreshInv` says that the request sent all it announced, or, if it was answered
416, the parser theorem that nothing was left.

*Rankings.* `PlacesAreTaken` counts: the numbers of elements before each element
of a finite ordered set are different and less than its size, so an injection of
the set into as many numbers reaches each of them. Hence `RankedRanks`; a list's
places ordered by key and then by place are ordered strictly even when keys are
equal, hence `SortedIsSorted`. The theorems about lists below rest on these two.

*Bundle.* `NamesInv`: the name of an entry is in `used_names`, and a name is taken
only when it is not. `BundleIsTop` is about the reduction of the rows:
`BestIs(best, n)` says what `best_conf` is after `n` rows – the neighbours among
them, each with the best of its confidences – and a turn of the loop takes `n - 1`
to `n` (`BestConfidenceKeeps`); with it the sorted items are the neighbours ranked
(`BestIsRanked`), and what the cut leaves out is outranked by all it keeps.
`EveryTargetOnce` is inductive with `ListInv`: both lists grow at the end, by the
target the loop is at, which neither has yet because targets are distinct
(`ListGrows`). `QuietInv` and `EndInv` say what the lists and the manifest are
while nothing has changed and once the loop has ended.

*Portal.* The row names the caller because the two verifications are by the same
verifier: `VerifierInv` says that a process has no verifier or the one of its
environment, and `CheckInv` that an open request was checked in the environment
there is now (a restart loses it) and, when it is answered with 200, was
admitted. So the second verification can differ by the clock alone.
`TokensServe` needs `MintedInv`, that an issued token is what its process issues,
and `CheckInv`, that a request is refused or admitted by the verifier of the
environment it was checked in. `ReadsAreFresh`: the present tier is always among those a running
request has recorded, and a retry forgets what was read.

*The answers of the portal.* `AnswerInv` says that an answer is what the handler
makes of its reads and that the reads are complete: a search that was answered has
the hits of its query and the tier of every domain in them (`SearchInv`); the rows
of a detail tell of every edge from the floor on that was there all the time, and
of its confirmation (`DetailInv`, `RowsTell`), for those edges are there, confirmed
ones as confirmed, as long as the request runs (`LiveInv`). It is inductive
beside `IInv`; the four theorems then follow from facts about the operators. A
group is the best rows of its modality, in the places a sort gives them
(`GroupIsBest`, `GroupsShowBest`), and projecting a row keeps everything but its
summary (`ProjectOfRow`), so whatever the view, a shown row is a hit, seen by the
tier that was read for its domain (`ShownIsHit`): with `ReadsAreFresh` that is
`AnswersFollowTiers`. For `AnswersAreTop` each row that the cut of a group leaves
out has as many better rows in that group as were asked for (`ShownOrCutOff`); as
rounding to four digits keeps the order of six up to one unit
(`RoundingIsMonotonic`), they keep it out of the compact view as well. For
`FacetsMatchRows` a pair splits at its first `>`, which a topic does not have, so
the parents of a row's pairs are its topics (`ParentOfPairOf`, `RowIsDescribed`),
and a row is counted once because ids are different (`RowsAreCounted`). For
`ConfirmedFirst` a card has the rows of its neighbour, each once and with what was
folded into them, and the best of their tiers (`CardIsCard`); cards are ranked by
it; and of an edge confirmed all the time a row was read that is strong, be it the
edge itself or, where the core package folds, the first edge of its neighbour, which
outranks it. What is proved of the service is that its merge, sort and promotion
keep this; that folding itself does is modelled from what the service says of it.

*What is assumed of the inputs of the portal*, beside types: the engine finds an
asset once (`HitsAssumption`; an index has one document for an asset, in the bucket
of its modality); a topic has a name without the separator `>`, and a row with
pairs has those of its topics (`TopicsAssumption`; the pairs are written by the
pipeline next to the topics they are of, and a row of an old document has none,
routes_search.py:113-115); an edge has an id of its own (`EdgesAssumption`, a
primary key); a search asks for one row at least (`AsksAssumption`, the bounds of
the route's parameters, `group_ranked` raises otherwise). TLC evaluates them on
the inputs of the run.

*Reports.* The properties compare answers given at different times, so the
invariant says how an answer stands to the tables of now. Three facts carry it.
`FigureCounts`: the cells of a `GROUP BY` are disjoint sets of rows, so a figure
adds up to the number of rows (`CountsSum`, by counting the pairs of a cell and a
row), a `COUNT(DISTINCT)` to the number of assets when there is one cell and to no
less otherwise (`DistinctSum`). `SizeGrows`: a statement without a bucket, on
columns that never change (`Growing`), counts no less after any step, because a
row that changes keeps its id, its time and those columns (`RowsRemain`); an asset
keeps its place in a join although its status changes. `ScriptIsScript` and
`TotalsFirst`: in each report, the dashboard of three areas and four slices
included, a page follows the count of its rows, and of two figures that are
compared the total comes first.

With them `FigureInv` – an answer is not more than what its statement would count
now, nor than a later answer of the same rows – is inductive: a new answer *is*
what its statement counts now, and a retry takes answers away from the end.
`QuietInv` says that while no row has changed, each answer is one its statement
might give now, those before a retry included; there the equalities come from.
`DrillInv` is `FigureInv` for a single cell (`PerAction`). `PageInv` carries the
promise of a count to the page after it (`PageLengthGrows`).

`PagingInv` is about who reads on: a row that was there at the start is on one of
the pages up to page *i*, or its rank lies beyond page *i*. Rows are only added,
so ranks only grow (`RanksGrow`); and when page *i* is read, a row whose rank is on
it is on it, because (time, id) is a total order and the i-th place of it has one
row (`Places`, `RowsOfPage`), while a row before it has been on an earlier page,
for each page begins where another one ends (`ReadsOn`). This is where the second
key of `ORDER BY` is needed: the mutant without it loses a row.

`MonthlyCoversMonths` is arithmetic: the loop of `_month_floor_back` ends with a
positive month (`HasLeast`) and, however many years it takes back, has subtracted
`n - 1` months (`MonthsBack`); the start of a day is in the month of its hours
(`MonthOfDay`), as months are whole days; so the half-open window of
instants is the closed interval of months, up to the end of the day
(`MonthsWindow`).

*What is assumed of the inputs of the reports*: rows have the columns of their
tables and ids are primary keys of finite tables (`TablesAssumption`); the
parameters are in the bounds of their routes, and a list behind a figure of the
snapshot is of one of its buckets (`AsksAssumption`). TLC evaluates both.

*Recursion without induction on data.* The library's induction theorems cannot be
instantiated here, but induction over a *set* of numbers can be stated without an
operator parameter: a set that has 0 and with each number the next one has all of
them. With it `BestAfter`, the loop over the rows as a recursive function, is
shown to exist and to be what `BestIs` says for every number of rows; `SortSeq`,
`SelectSeq` and their like are avoided, because the provers have no facts about
them.

*Only model-checked*: all liveness – `EveryRequestAnswered`,
`EveryGrantRecorded`, `ShutdownEnds`, `CallsEnd`, `RequestsEnd`, `DownloadsEnd`,
`BundleEnds` – and the two violations, for fairness and `ENABLED` are out of the
prover's reach. Every invariant and every action property of a passing run is
proved. No module that is proved about uses a `RECURSIVE` operator.

## 6. Findings and smaller observations

Two runs are expected to end in a violation of what the code's own texts say:

1. `runtime_stalled_audit`. `_infra.py:214-215` says that a failed or *late*
   record affects neither the status nor the latency of a response. The write is
   not awaited, but it runs on the threads of the handlers (`_infra.py:204`):
   writes that hang take all of them, and a request that arrived is never
   answered. With a database that answers (`runtime_liveness`), it is.
2. `download_unreadable`. `routes_assets.py:203` promises 410 for an original
   that is missing *or cannot be read*. The route asks `os.path.isfile` only, and
   the file is opened when the status has been sent.

Met while reading, and not the subject of a run:

* `_infra.py:176`: a data path with a trailing slash is redirected before
  authentication, and the redirect (below 400) gets a row, though the docstring
  (line 165) speaks of successful data accesses. `Granted` therefore includes the
  redirect.
* `asset_stats.py:142` and the docstring of `build_modality_overview` say that
  figures agree because they are of one transaction. Under read committed they
  agree only when nothing changes in between; while rows are added, later figures
  are the larger ones. That is what `FiguresAgree` states. The isolation level is
  set outside the repository.
* `download.py:322`: the name `_manifest.json` is not among the names
  `_dedup_entry_name` avoids (245-247). `FilesHaveOwnNames` is about the files
  of the assets.
* `routes_admin.py:418`: one bound with a time zone and one without cannot be
  compared and raise a `TypeError`.
* `portal/auth/config.py:62` is evaluated on a request, while its comment and the
  README promise to fail at the start without a secret. In `Portal` such a process
  starts, and each request with its dependency is answered 500.
* `_infra.py:124`: the text for the interval names weeks; `TIMELINE_INTERVALS`
  decides.
* A token that expires between the two verifications labels the row of a granted
  access anonymous (`_infra.py:158`); `RowNamesCaller` says that this is the only
  case.
* `_sort_key` compares scores to six digits and `_compact_view` to four, after the
  groups have been cut: a row that ties with a shown one to four digits may be left
  out although its id is smaller. `AnswersAreTop` therefore allows one unit of the
  last digit.
* `routes_search.py:55`: a summary the caller may not see is taken out with its
  key, so that the key tells nothing. Rows without a summary keep an empty one
  (`search_group.py:114`), so the missing key does tell that there is one.

## 7. What is not modelled, and why

* *The lists of topics and of unclassified assets* – routes that hand their
  parameters to one statement of the core package.
* *The search engine* – external: `search_hybrid` returns any of the given hits, up
  to the pool, in any order. The order of the facet, the clipping of summaries to
  160 characters and the formats of the single filters are left out.
* *Signatures* – PyJWT's; a token is signed with a secret or not.
* *The core package* – external. Its statements are modelled by the guard and the
  effect the service relies on.
* *Wording, columns of rows, media types, content dispositions, decoding of
  images and videos* – data no property tells apart.
* *Time zones* – `date_trunc` works in the session's time zone and the windows
  in UTC; `Reports` has one calendar.
* *Reports of the same shape* – lists by user, domain, extension and day are
  statements of the same shape as those by action, modality and status.

## 8. Plan

Done, in this order: runtime and its abstract specifications, the database
object, review, thumbnails, download, bundle, reports, then authentication,
search and detail with their composition, and the proofs about all of them.

Next, the composition: that `ServiceRuntime` with the steps of `DbSingleton` in
place of its own `_get_db` keeps `NoJobOnClosedPool`. Both implement `SharedPool`,
and each proves what the other assumes of it, but there is no module with the
steps of both.

And more of the system: the pivot of the lineage, and the paging of the review
queue while a reviewer decides from it.
