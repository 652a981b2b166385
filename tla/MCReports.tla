------------------------------ MODULE MCReports -----------------------------
(* Reports for TLC: months of two days of two hours.  The clock starts in  *)
(* the last hour of January of year 2 (month 24, hour 99), so the day, the *)
(* month and the window of the dashboard may change under a request.       *)
EXTENDS Reports

TwoActions    == {"search", "download"}
TwoModalities == {"text", "video"}
TwoStatuses   == {"registered", "failed"}

\* Rows of the same hour and of the day before; an id is still free between
\* them.
SomeLogs ==
  {{[id |-> 1, time |-> 97, action |-> "search"], [id |-> 2, time |-> 99, action |-> "search"],
    [id |-> 4, time |-> 99, action |-> "download"]}}

\* An asset of November of year 0, with proposals of two months, and one that
\* is being processed.
Old == [id |-> 1, time |-> 40, status |-> "registered", modality |-> "text"]
New == [id |-> 2, time |-> 99, status |-> "extracting", modality |-> "video"]
SomeCatalogues ==
  {[assets |-> {Old, New},
    events |-> {[id |-> 1, time |-> 40, asset |-> 1, activity |-> "ingest"],
                [id |-> 2, time |-> 95, asset |-> 1, activity |-> Proposed],
                [id |-> 3, time |-> 98, asset |-> 1, activity |-> Proposed],
                [id |-> 4, time |-> 99, asset |-> 2, activity |-> "ingest"]}]}

Year0   == Period(0, 48)
January == Period(96, 100)

SomeAsks ==
  {[report |-> "overview", period |-> January, action |-> x, interval |-> "day"] :
     x \in {None, "search"}}
  \cup {[report |-> "modality", modality |-> "video", period |-> p, interval |-> "hour", limit |-> 1] :
          p \in {January}}
  \cup {[report |-> "relations", period |-> Ever, interval |-> "month"]}
  \cup {[report |-> "dashboard", months |-> 15, interval |-> "month"]}
  \cup {[report |-> "feed", period |-> Ever, status |-> "registered", limit |-> 1, offset |-> 1]}
  \cup {[report |-> "snapshot", period |-> p, bucket |-> b, scope |-> x, limit |-> 2] :
          p \in {Year0}, b \in {"registered", "relation_proposed"}, x \in {"period", "alltime"}}
  \cup {[report |-> "snapshot", period |-> Ever, bucket |-> "processing", scope |-> "period", limit |-> 2]}
  \cup {[report |-> "log", limit |-> 1]}
=============================================================================
