------------------------------- MODULE Reports ------------------------------
(***************************************************************************)
(* The reading side of the service: figures, series, buckets and pages of  *)
(* the access log, the lineage and the assets (access_log, lineage_query,  *)
(* asset_stats, dashboard).  A screen asks for one report; the service     *)
(* runs the statements of the report one after the other in a transaction  *)
(* (several, for a screen that asks more than once), and between any two   *)
(* of them other transactions commit: PostgreSQL gives every statement a   *)
(* snapshot of its own.                                                    *)
(*                                                                         *)
(* A statement is a record: the rows it reads, the cells it counts them in *)
(* and the label of its result.  Lists by another column of the same shape *)
(* (user, domain, extension, day) are left out.  Times are hours of a      *)
(* calendar of twelve equal months a year.                                 *)
(***************************************************************************)
EXTENDS Integers, Sequences, FiniteSets, Functions

CONSTANTS
  HoursPerDay, DaysPerMonth,  \* the calendar
  StartTime,     \* the clock at the start
  MaxTicks,      \* a bound on the hours that pass
  MaxChanges,    \* a bound on the rows that are added or changed
  MaxRetries,    \* a bound on the retries of a transaction
  Actions,       \* the actions of the access log
  Modalities,    \* the modalities of the assets
  Statuses,      \* the statuses the pipeline gives an asset
  Logs,          \* the access logs there may be at the start
  Catalogues,    \* the pairs of assets and lineage there may be at the start
  Asks           \* what a screen may ask for

None == "none"
NoTime == -1
Horizon == StartTime + MaxTicks
Times == 0..Horizon

\* _PROCESSING_STATUSES and _SNAPSHOT_BUCKETS.
Processing == {"received", "routing", "classifying", "extracting"}
Buckets == {"processing", "deferred", "registered", "failed", "relation_proposed"}
AllStatuses == Processing \cup {"deferred", "registered", "failed"}
Proposed == "relations.proposed.v1"

LogRows == [id : Nat, time : Times, action : Actions]
AssetRows == [id : Nat, time : Times, status : AllStatuses, modality : Modalities]
EventRows == [id : Nat, time : Times, asset : Nat, activity : {"ingest", Proposed}]

ASSUME CalendarAssumption ==
  /\ HoursPerDay \in Nat \ {0} /\ DaysPerMonth \in Nat \ {0}
  /\ StartTime \in Nat /\ MaxTicks \in Nat
ASSUME BoundsAssumption == MaxChanges \in Nat /\ MaxRetries \in Nat

\* Ids are primary keys.
Keyed(table) == IsFiniteSet(table) /\ \A r, s \in table : r.id = s.id => r = s

ASSUME TablesAssumption ==
  /\ \A l \in Logs : l \subseteq LogRows /\ Keyed(l)
  /\ \A c \in Catalogues :
       c.assets \subseteq AssetRows /\ Keyed(c.assets) /\ c.events \subseteq EventRows /\ Keyed(c.events)
  /\ Statuses \subseteq AllStatuses

\* The bounds of the query parameters (Query(ge=...)); a list behind a figure
\* of the snapshot is of one of its buckets.
ASSUME AsksAssumption == \A a \in Asks :
  /\ a.report \in {"overview", "modality", "relations", "dashboard", "feed", "snapshot", "log"}
  /\ a.report = "dashboard" => a.months \in Nat \ {0}
  /\ a.report \in {"modality", "feed", "snapshot", "log"} => a.limit \in Nat
  /\ a.report = "feed" => a.offset \in Nat
  /\ a.report = "snapshot" => a.bucket \in Buckets

VARIABLES
  clock,    \* the time
  log,      \* access_log
  assets,   \* asset
  events,   \* asset_lineage
  changes,  \* the changes so far
  ask,      \* what the screen asked for
  now,      \* the time at which it asked
  script,   \* the statements that answer it
  next,     \* the statement that is executed next
  answers,  \* the results so far
  asked,    \* the access log when the screen asked
  quiet,    \* no row has changed since the first of the results
  retries   \* the retries so far

tables == <<log, assets, events>>
request == <<ask, now, script, asked>>
vars == <<clock, tables, changes, request, next, answers, quiet, retries>>

TypeOK ==
  /\ clock \in Times
  /\ log \subseteq LogRows
  /\ assets \subseteq AssetRows
  /\ events \subseteq EventRows
  /\ changes \in 0..MaxChanges
  /\ ask \in Asks
  /\ now \in Times
  /\ next \in 1..(Len(script) + 1)
  /\ Len(answers) = next - 1
  /\ \A i \in DOMAIN answers :
       script[i].shape # "page" => \A c \in DOMAIN answers[i] : answers[i][c] \in Nat
  /\ asked \subseteq LogRows
  /\ quiet \in BOOLEAN
  /\ retries \in 0..MaxRetries

-----------------------------------------------------------------------------
(* The calendar.                                                           *)

HoursPerMonth == HoursPerDay * DaysPerMonth
DayStart(t) == (t \div HoursPerDay) * HoursPerDay
MonthOf(t) == t \div HoursPerMonth      \* the months since year 0

\* date_trunc; an unknown interval is folded to days.
Trunc(interval, t) ==
  CASE interval = "hour"  -> t
    [] interval = "month" -> MonthOf(t) * HoursPerMonth
    [] OTHER              -> DayStart(t)

\* Mutant: December is the month before the month before January.
MonthFloorBackSkips(t, n) ==
  LET month == (MonthOf(t) % 12) + 1
      year  == MonthOf(t) \div 12
      back  == month - (n - 1)
  IN  IF back > 0 THEN (year * 12 + back - 1) * HoursPerMonth
                  ELSE ((year - 1) * 12 + 12 + back - 2) * HoursPerMonth

\* _month_floor_back: the first of the month n - 1 months before that of t.
\* The loop takes a year back until the number of the month is positive.
MonthFloorBack(t, n) ==
  LET month == (MonthOf(t) % 12) + 1
      year  == MonthOf(t) \div 12
      back  == month - (n - 1)
      turns == CHOOSE k \in 0..n :
                 /\ back + 12 * k > 0
                 /\ \A j \in 0..(k - 1) : back + 12 * j <= 0
  IN  ((year - turns) * 12 + (back + 12 * turns) - 1) * HoursPerMonth

\* A period: from since (inclusive) to until (exclusive), either may be absent.
Period(since, until) == [since |-> since, until |-> until]
Ever == Period(NoTime, NoTime)

Within(t, p) ==
  /\ p.since # NoTime => p.since <= t
  /\ p.until # NoTime => t < p.until

-----------------------------------------------------------------------------
(* Statements.                                                             *)

\* The lineage is joined with the asset as it is now.
Joined ==
  {[id |-> p[1].id, time |-> p[1].time, asset |-> p[1].asset, activity |-> p[1].activity,
    status |-> p[2].status, modality |-> p[2].modality] :
     p \in {q \in events \X assets : q[1].asset = q[2].id}}

From(table) ==
  CASE table = "access_log"    -> log
    [] table = "asset"         -> assets
    [] table = "asset_lineage" -> Joined

\* The EXISTS on asset_lineage.
IsProposed(row, period) ==
  \E e \in events : e.asset = row.id /\ e.activity = Proposed /\ Within(e.time, period)

\* Mutant: the last of the statuses of the processing is forgotten.
ExtractingForgotten(b, row, period) ==
  CASE b = "processing"        -> row.status \in Processing \ {"extracting"}
    [] b = "registered"        -> row.status = "registered" /\ ~IsProposed(row, period)
    [] b = "relation_proposed" -> row.status = "registered" /\ IsProposed(row, period)
    [] OTHER                   -> row.status = b

\* The five buckets; registered ones are split by whether they have a proposal.
InBucket(b, row, period) ==
  CASE b = "processing"        -> row.status \in Processing
    [] b = "registered"        -> row.status = "registered" /\ ~IsProposed(row, period)
    [] b = "relation_proposed" -> row.status = "registered" /\ IsProposed(row, period)
    [] OTHER                   -> row.status = b

\* The WHERE clause: a period, columns with a given value, and a bucket.
Selected(st) ==
  {row \in From(st.table) :
     /\ Within(row.time, st.period)
     /\ \A c \in DOMAIN st.only : st.only[c] # None => row[c] = st.only[c]
     /\ st.bucket # None => InBucket(st.bucket, row, st.scope)}

\* The cell of a row in a GROUP BY of a column, a time bucket, both or neither.
Cell(st, row) ==
  <<IF st.by = None THEN None ELSE row[st.by],
    IF st.interval = None THEN 0 ELSE Trunc(st.interval, row.time)>>

Counts(st) ==
  [c \in {Cell(st, row) : row \in Selected(st)} |->
     Cardinality({row \in Selected(st) : Cell(st, row) = c})]

\* COUNT(DISTINCT asset_id).
DistinctAssets(st) ==
  [c \in {Cell(st, row) : row \in Selected(st)} |->
     Cardinality({row.asset : row \in {r \in Selected(st) : Cell(st, r) = c}})]

\* The five FILTERs of _snapshot_bucket_counts, whatever the time of a proposal.
BucketCounts(st) ==
  [b \in Buckets |-> Cardinality({row \in Selected(st) : InBucket(b, row, Ever)})]

\* Mutant: there is no second key.
NewerByTime(r, s) == r.time > s.time

\* ORDER BY time DESC, id DESC.
Newer(r, s) == r.time > s.time \/ (r.time = s.time /\ r.id > s.id)

\* The rows a page has when n rows are selected.
PageLength(st, n) ==
  IF n <= st.offset THEN 0 ELSE IF n - st.offset <= st.limit THEN n - st.offset ELSE st.limit

\* Row r may be the i-th one in an order the clause allows.
MayBeAt(i, r, rows) ==
  /\ Cardinality({s \in rows : Newer(s, r)}) < i
  /\ i <= Cardinality({s \in rows : ~Newer(r, s)})

\* Mutant: the parameters of LIMIT and OFFSET are swapped.
PagesSwapped(st) ==
  LET rows == Selected(st)
      swapped == [st EXCEPT !.limit = st.offset, !.offset = st.limit]
  IN  {page \in [1..PageLength(swapped, Cardinality(rows)) -> rows] :
         /\ IsInjective(page)
         /\ \A i \in DOMAIN page : MayBeAt(swapped.offset + i, page[i], rows)}

\* The pages LIMIT and OFFSET may cut out of it.
PagesOf(st) ==
  LET rows == Selected(st) IN
    {page \in [1..PageLength(st, Cardinality(rows)) -> rows] :
       /\ IsInjective(page)
       /\ \A i \in DOMAIN page : MayBeAt(st.offset + i, page[i], rows)}

Results(st) ==
  CASE st.shape = "counts"   -> {Counts(st)}
    [] st.shape = "distinct" -> {DistinctAssets(st)}
    [] st.shape = "buckets"  -> {BucketCounts(st)}
    [] st.shape = "page"     -> PagesOf(st)

-----------------------------------------------------------------------------
(* The reports: sequences of statements.                                   *)

\* A statement; each report changes what differs.
Plain(as, table, period) ==
  [as |-> as, tx |-> 1, table |-> table, period |-> period, shape |-> "counts",
   only |-> <<>>, bucket |-> None, scope |-> Ever, by |-> None, interval |-> None,
   limit |-> 0, offset |-> 0]

Count(as, table, period)          == Plain(<<as, "total">>, table, period)
By(as, table, period, column)     == [Plain(<<as, column>>, table, period) EXCEPT !.by = column]
Series(as, table, period, column, interval) ==
  [Plain(<<as, "series">>, table, period) EXCEPT !.by = column, !.interval = interval]

Only(statements, column, value) ==
  [i \in DOMAIN statements |->
     [statements[i] EXCEPT !.only = [c \in {column} |-> value]]]

Transaction(n, statements) ==
  [i \in DOMAIN statements |-> [statements[i] EXCEPT !.tx = n]]

\* access_log_stats, lineage_stats and asset_stats.
AccessStats(as, period) ==
  <<Count(as, "access_log", period), By(as, "access_log", period, "action")>>

LineageStats(as, period) ==
  <<Count(as, "asset_lineage", period), By(as, "asset_lineage", period, "activity"),
    By(as, "asset_lineage", period, "status")>>

AssetStats(as, period) ==
  <<Count(as, "asset", period), By(as, "asset", period, "status"),
    By(as, "asset", period, "modality")>>

SnapshotBuckets(as, period) ==
  <<[Plain(<<as, "buckets">>, "asset", period) EXCEPT !.shape = "buckets"]>>

\* query_access_logs, query_lineage_feed and query_assets: the count, then
\* the page, of the same rows.
Page(as, statement, limit, offset) ==
  <<[statement EXCEPT !.as = <<as, "count">>],
    [statement EXCEPT !.as = <<as, "rows">>, !.shape = "page",
                      !.limit = limit, !.offset = offset]>>

\* Mutant: the scope is not looked at.
AlwaysPeriod(scope, period) ==
  IF period.since # NoTime /\ period.until # NoTime THEN period ELSE Ever

\* _snapshot_bucket_predicate: the proposal has to be of the period of the
\* assets, unless the scope is alltime or the period is open.
BucketScope(scope, period) ==
  IF scope = "period" /\ period.since # NoTime /\ period.until # NoTime THEN period ELSE Ever

AssetList(as, period, bucket, scope, limit) ==
  Page(as, [Plain(as, "asset", period) EXCEPT !.bucket = bucket,
                                              !.scope = BucketScope(scope, period)], limit, 0)

\* access_log_overview: the figures are of all the actions, the series of one.
AccessOverview(period, action, interval) ==
  AccessStats("overview", period)
    \o Only(<<Series("overview", "access_log", period, "action", interval)>>, "action", action)

\* Mutant: the series is of all the modalities.
SeriesOfAll(modality, period, interval, limit) ==
  Only(<<Count("detail", "asset", period), By("detail", "asset", period, "status")>>, "modality", modality)
    \o <<Series("detail", "asset", period, None, interval)>>
    \o Only(AssetList("first_page", period, None, "period", limit), "modality", modality)

\* modality_detail and build_modality_overview.
ModalityOverview(modality, period, interval, limit) ==
  Only(<<Count("detail", "asset", period), By("detail", "asset", period, "status"),
         Series("detail", "asset", period, None, interval)>>
       \o AssetList("first_page", period, None, "period", limit), "modality", modality)

\* Mutant: the total counts the proposals instead of the assets.
RelationSummaryOfRows(period, interval) ==
  Only(<<Count("proposed", "asset_lineage", period),
         [Series("proposed", "asset_lineage", period, None, interval) EXCEPT !.shape = "distinct"]>>,
       "activity", Proposed)

\* relation_proposed_summary.
RelationSummary(period, interval) ==
  LET assetsOf(st) == [st EXCEPT !.shape = "distinct"] IN
    Only(<<assetsOf(Count("proposed", "asset_lineage", period)),
           assetsOf(Series("proposed", "asset_lineage", period, None, interval))>>,
         "activity", Proposed)

\* build_dashboard_summary: each area of all time, of today, by month and by
\* hour, with the periods of one instant.
Today(t) == Period(DayStart(t), DayStart(t) + HoursPerDay)
Months(t, n) == Period(MonthFloorBack(DayStart(t), n), DayStart(t) + HoursPerDay)

Slice(area, table, column, stats(_, _), t, n, interval) ==
  LET as(slice) == <<area, slice>> IN
    stats(as("alltime"), Ever) \o stats(as("today"), Today(t))
      \o <<Series(as("monthly"), table, Months(t, n), column, interval),
           Series(as("hourly"), table, Today(t), column, "hour")>>

Dashboard(t, n, interval) ==
  Slice("access", "access_log", "action", AccessStats, t, n, interval)
    \o Slice("lineage", "asset_lineage", "activity", LineageStats, t, n, interval)
    \o Slice("asset", "asset", "modality", AssetStats, t, n, interval)

\* What a screen asks for.  The last two ask more than once.
Script(a, t) ==
  CASE a.report = "overview"  -> AccessOverview(a.period, a.action, a.interval)
    [] a.report = "modality"  -> ModalityOverview(a.modality, a.period, a.interval, a.limit)
    [] a.report = "relations" -> RelationSummary(a.period, a.interval)
    [] a.report = "dashboard" -> Dashboard(t, a.months, a.interval)
    [] a.report = "feed"      ->
         Only(Page("feed", Plain("feed", "asset_lineage", a.period), a.limit, a.offset),
              "status", a.status)
    [] a.report = "snapshot"  ->
         AssetStats("stats", a.period) \o SnapshotBuckets("stats", a.period)
           \o Transaction(2, AssetList("list", a.period, a.bucket, a.scope, a.limit))
    [] a.report = "log"       ->
         Transaction(1, Page(0, Plain("log", "access_log", Ever), a.limit, 0))
           \o Transaction(2, Page(1, Plain("log", "access_log", Ever), a.limit, a.limit))
           \o Transaction(3, Page(2, Plain("log", "access_log", Ever), a.limit, 2 * a.limit))

-----------------------------------------------------------------------------
(* One screen and the transactions of everybody else.                      *)

Init ==
  /\ clock = StartTime
  /\ log \in Logs
  /\ \E c \in Catalogues : assets = c.assets /\ events = c.events
  /\ changes = 0
  /\ ask \in Asks
  /\ now = StartTime
  /\ script = <<>>
  /\ next = 1
  /\ answers = <<>>
  /\ asked = {}
  /\ quiet = TRUE
  /\ retries = 0

Begin ==
  /\ script = <<>>
  /\ now' = clock
  /\ script' = Script(ask, clock)
  /\ asked' = log
  /\ UNCHANGED <<clock, tables, changes, ask, next, answers, quiet, retries>>

Execute ==
  /\ next <= Len(script)
  /\ \E result \in Results(script[next]) : answers' = Append(answers, result)
  /\ next' = next + 1
  /\ quiet' = (next = 1 \/ quiet)
  /\ UNCHANGED <<clock, tables, changes, request, retries>>

\* Mutant: what the failed attempt has collected stays.
RetryKeepsAnswers ==
  /\ next > 1
  /\ retries < MaxRetries
  /\ retries' = retries + 1
  /\ next' = CHOOSE i \in 1..(next - 1) :
               /\ script[i].tx = script[next - 1].tx
               /\ i = 1 \/ script[i - 1].tx # script[i].tx
  /\ UNCHANGED <<clock, tables, changes, request, answers, quiet>>

\* The connection is lost in a transaction or at its commit: _run_in_db runs
\* it again from its first statement, with the same parameters.
Retry ==
  /\ next > 1
  /\ retries < MaxRetries
  /\ retries' = retries + 1
  /\ next' = CHOOSE i \in 1..(next - 1) :
               /\ script[i].tx = script[next - 1].tx
               /\ i = 1 \/ script[i - 1].tx # script[i].tx
  /\ answers' = SubSeq(answers, 1, next' - 1)
  /\ UNCHANGED <<clock, tables, changes, request, quiet>>

Tick ==
  /\ clock < Horizon
  /\ clock' = clock + 1
  /\ UNCHANGED <<tables, changes, request, next, answers, quiet, retries>>

Change ==
  /\ changes < MaxChanges
  /\ changes' = changes + 1
  /\ quiet' = FALSE
  /\ UNCHANGED <<clock, request, next, answers, retries>>

\* The time of a row is that of the begin of its transaction, which may be
\* before the last tick.
RowTimes == {t \in {clock - 1, clock} : StartTime <= t}
NewId(table) == CHOOSE n \in 1..(Cardinality(table) + 1) : \A row \in table : row.id # n

\* access_id is a uuid7 of the clock of a worker, which may be behind the
\* one that made the row before: it need not be the largest.
AccessIds == (1..(Cardinality(log) + 2)) \ {row.id : row \in log}

\* record_access.
RecordAccess(action, t) ==
  /\ Change
  /\ \E id \in AccessIds : log' = log \cup {[id |-> id, time |-> t, action |-> action]}
  /\ UNCHANGED <<assets, events>>

\* The pipeline (external): an asset arrives, its status changes, relations
\* of it are proposed.
Arrive(modality, t) ==
  /\ Change
  /\ assets' = assets \cup {[id |-> NewId(assets), time |-> t, status |-> "received",
                             modality |-> modality]}
  /\ events' = events \cup {[id |-> NewId(events), time |-> t, asset |-> NewId(assets),
                             activity |-> "ingest"]}
  /\ UNCHANGED log

ChangeStatus(row, status) ==
  /\ Change
  /\ status # row.status
  /\ assets' = (assets \ {row}) \cup {[row EXCEPT !.status = status]}
  /\ UNCHANGED <<log, events>>

Propose(row, t) ==
  /\ Change
  /\ events' = events \cup {[id |-> NewId(events), time |-> t, asset |-> row.id,
                             activity |-> Proposed]}
  /\ UNCHANGED <<log, assets>>

Next ==
  \/ Begin
  \/ Execute
  \/ Retry
  \/ Tick
  \/ \E t \in RowTimes :
       \/ \E action \in Actions : RecordAccess(action, t)
       \/ \E modality \in Modalities : Arrive(modality, t)
       \/ \E row \in assets : Propose(row, t)
  \/ \E row \in assets, status \in Statuses : ChangeStatus(row, status)

Spec == Init /\ [][Next]_vars

-----------------------------------------------------------------------------
(* Properties.                                                             *)

Known(l) == \E i \in DOMAIN answers : script[i].as = l
Result(l) == answers[CHOOSE i \in DOMAIN answers : script[i].as = l]

\* The sum of the cells of a result: the number of what is counted in them.
SumOf(cells) == Cardinality(UNION {{c} \X (1..cells[c]) : c \in DOMAIN cells})
Total(l) == SumOf(Result(l))

Areas == {"access", "lineage", "asset"}
TableOf(area) ==
  CASE area = "access"  -> "access_log"
    [] area = "lineage" -> "asset_lineage"
    [] area = "asset"   -> "asset"
ColumnsOf(area) ==
  CASE area = "access"  -> {"action"}
    [] area = "lineage" -> {"activity", "status"}
    [] area = "asset"   -> {"modality", "status"}

\* The pairs of figures of a report that count the same rows, the earlier
\* one first.
SameRows ==
  CASE ask.report = "overview" ->
         {<<<<"overview", "total">>, <<"overview", c>>>> :
            c \in {"action"} \cup (IF ask.action = None THEN {"series"} ELSE {})}
    [] ask.report = "modality" ->
         {<<<<"detail", "total">>, m>> :
            m \in {<<"detail", "status">>, <<"detail", "series">>, <<"first_page", "count">>}}
    [] ask.report = "snapshot" ->
         {<<<<"stats", "total">>, <<"stats", c>>>> :
            c \in {"status", "modality", "buckets"}}
    [] ask.report = "dashboard" ->
         (UNION {{<<<<<<area, slice>>, "total">>, <<<<area, slice>>, c>>>> :
                    slice \in {"alltime", "today"}, c \in ColumnsOf(area)} : area \in Areas})
           \cup {<<<<<<area, "today">>, "total">>, <<<<area, "hourly">>, "series">>>> : area \in Areas}
    [] OTHER -> {}

\* "the same transaction, so that the figures agree" (build_modality_overview,
\* asset_stats).  Rows are added while a report is made and none is taken
\* away, so a list never adds up to less than the total above it: the bars of
\* a screen may exceed its headline, they never fall short of it.  When no
\* row changes meanwhile the two are equal, whatever happened before a retry.
FiguresAgree ==
  \A p \in SameRows : Known(p[1]) /\ Known(p[2]) =>
    /\ Total(p[1]) <= Total(p[2])
    /\ quiet => Total(p[1]) = Total(p[2])

\* The figures of a drill-down: the totals of an overview stay those of all
\* the actions, its series is that of the action, and an asset with several
\* proposals is counted once in the total and not less in the series.
DrillDownsAgree ==
  /\ ask.report = "overview" /\ ask.action # None /\ Known(<<"overview", "series">>) =>
       LET perAction == Result(<<"overview", "action">>)
           c == <<ask.action, 0>>
           n == IF c \in DOMAIN perAction THEN perAction[c] ELSE 0
       IN  /\ n <= Total(<<"overview", "series">>)
           /\ quiet => n = Total(<<"overview", "series">>)
  /\ ask.report = "relations" /\ Known(<<"proposed", "series">>) =>
       /\ Total(<<"proposed", "total">>) <= Total(<<"proposed", "series">>)
       /\ quiet => Total(<<"proposed", "total">>) <= Cardinality(assets)

\* The monthly series of the dashboard is of the given number of calendar
\* months, the current one included, up to the end of the day of the request,
\* also when the window starts in another year.
MonthlyCoversMonths ==
  ask.report = "dashboard" /\ quiet =>
    \A area \in Areas :
      Known(<<<<area, "monthly">>, "series">>) =>
        Total(<<<<area, "monthly">>, "series">>) =
          Cardinality({row \in From(TableOf(area)) :
             /\ MonthOf(row.time) \in (MonthOf(now) - ask.months + 1)..MonthOf(now)
             /\ DayStart(row.time) <= DayStart(now)})

\* The number a bucket shows is the length of the list behind it, when the
\* list is of all time; a list of a period may know of fewer proposals.
ListMatchesBucket ==
  ask.report = "snapshot" /\ quiet /\ Known(<<"list", "count">>) =>
    LET shown  == Result(<<"stats", "buckets">>)[ask.bucket]
        listed == Total(<<"list", "count">>)
    IN  /\ ask.scope = "alltime" => listed = shown
        /\ ask.bucket = "relation_proposed" => listed <= shown
        /\ ask.bucket = "registered" => listed >= shown

\* A page is as long as the count before it says; of a table that only grows
\* it is not shorter, also when rows are added between the two statements.
PageFollowsCount ==
  \A i \in DOMAIN answers :
    script[i].shape = "page" =>
      LET n == SumOf(answers[i - 1]) IN
        /\ quiet => Len(answers[i]) = PageLength(script[i], n)
        /\ ask.report # "feed" /\ (ask.report = "snapshot" => quiet)
             => Len(answers[i]) >= PageLength(script[i], n)

\* Who reads the access log page by page while rows are added sees every row
\* that was there: a row may come twice, but none slips from a page that is
\* still to come onto one that has been read.
PagingSkipsNothing ==
  ask.report = "log" =>
    LET read == {i \in DOMAIN answers : script[i].shape = "page"}
        rank(r) == Cardinality({s \in log : s.time > r.time \/ (s.time = r.time /\ s.id >= r.id)})
    IN  \A r \in asked :
          \/ \E i \in read : \E j \in DOMAIN answers[i] : answers[i][j] = r
          \/ \A i \in read : rank(r) > script[i].offset + script[i].limit

\* A list is complete, page by page: each page has the rows its count
\* promised (query_assets, query_access_logs), and no row is lost between two
\* pages of a growing table (the order of access_log.py:137-140).
PagesAreComplete == PageFollowsCount /\ PagingSkipsNothing
=============================================================================
