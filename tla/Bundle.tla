-------------------------------- MODULE Bundle ------------------------------
(***************************************************************************)
(* GET /assets/{id}/bundle: one request that collects an asset and its     *)
(* neighbours in a transaction (collect_bundle_assets), then, outside of   *)
(* it, copies their files into a zip in a temporary file                   *)
(* (build_bundle_zip_stream), streams it and closes it.  Assets may be     *)
(* registered or withdrawn between the statements of the transaction, and  *)
(* files may come and go until they are opened.  A transaction may fail at *)
(* any of its statements and be run again.                                 *)
(*                                                                         *)
(* The rows of graph_query are external.  Assets are numbers, in the order *)
(* of their ids; a file name is a root and the numbers appended to it.     *)
(***************************************************************************)
EXTENDS Integers, Sequences, FiniteSets, Ranking

CONSTANTS
  Assets,        \* the assets
  Seed,          \* the asset that is asked for
  FileName,      \* FileName[a]: display_file_name of a's path
  Pathless,      \* the assets without a path
  RowLists,      \* the lists of neighbour rows graph_query may return
  Catalogues,    \* the sets of registered assets at the start
  Archives,      \* the sets of assets whose file can be opened at the start
  MaxNeighbors,  \* max_neighbors
  MinConfidence, \* min_confidence
  MaxChanges,    \* a bound on the changes of the catalogue and the archive
  MaxRetries     \* how often the transaction is run again

NoConfidence == -1
Rows == [asset : Assets, conf : Nat \cup {NoConfidence}]
Names == [root : STRING, marks : Seq(Nat)]

ASSUME AssetsAssumption ==
  /\ IsFiniteSet(Assets) /\ Assets \subseteq Nat
  /\ Seed \in Assets /\ Pathless \subseteq Assets
ASSUME NamesAssumption == FileName \in [Assets -> Names]
ASSUME InputsAssumption ==
  /\ RowLists \subseteq Seq(Rows)
  /\ Catalogues \subseteq SUBSET Assets /\ Archives \subseteq SUBSET Assets
ASSUME BoundsAssumption ==
  /\ MaxNeighbors \in Nat /\ MinConfidence \in Nat
  /\ MaxChanges \in Nat /\ MaxRetries \in Nat

Transaction == {"gate", "rows", "rank", "paths"}

PCs == Transaction \cup {"zip", "copy", "stream", "close", "dropped",
                         "done", "refused", "failed"}

VARIABLES
  registered,  \* the assets with status registered
  present,     \* the assets whose file can be opened
  changes,     \* the changes of the two so far
  pc,          \* the next step of the request
  retries,     \* of the transaction that is running
  rows,        \* the neighbour rows
  ordered,     \* ordered_ids
  targets,     \* the assets of the bundle, in order
  next,        \* the target the loop is at
  used,        \* used_names
  entries,     \* the entries of the zip: the asset and the name
  missing,     \* the targets that could not be opened
  manifest,    \* the zip has a _manifest.json
  spool        \* the temporary file: "none", "open" or "closed"

worldVars == <<registered, present, changes>>
listVars == <<retries, rows, ordered, targets>>
zipVars == <<next, used, entries, missing, manifest>>
vars == <<worldVars, pc, listVars, zipVars, spool>>

TypeOK ==
  /\ registered \subseteq Assets
  /\ present \subseteq Assets
  /\ changes \in 0..MaxChanges
  /\ pc \in PCs
  /\ retries \in 0..MaxRetries
  /\ rows \in Seq(Rows)
  /\ ordered \in Seq(Assets)
  /\ targets \in Seq(Assets)
  /\ next \in 1..(Len(targets) + 1)
  /\ used \subseteq Names
  /\ entries \in Seq([asset : Assets, name : Names])
  /\ missing \in Seq(Assets)
  /\ manifest \in BOOLEAN
  /\ spool \in {"none", "open", "closed"}

Init ==
  /\ registered \in Catalogues
  /\ present \in Archives
  /\ changes = 0
  /\ pc = "gate"
  /\ retries = 0
  /\ rows = <<>>
  /\ ordered = <<>>
  /\ targets = <<>>
  /\ next = 1
  /\ used = {}
  /\ entries = <<>>
  /\ missing = <<>>
  /\ manifest = FALSE
  /\ spool = "none"

-----------------------------------------------------------------------------
(* collect_bundle_assets.                                                  *)

\* A row without a confidence counts as 0.
Confidence(row) == IF row.conf = NoConfidence THEN 0 ELSE row.conf

\* Mutant: the last row of a neighbour counts.
LastConfidence(best, row) ==
  IF row.asset = Seed \/ Confidence(row) < MinConfidence
    THEN best
    ELSE [a \in DOMAIN best \cup {row.asset} |-> IF a = row.asset THEN Confidence(row) ELSE best[a]]

\* One turn of the loop: the seed itself and weak rows are passed over, of
\* several rows about a neighbour the best one counts.
BestConfidence(best, row) ==
  IF \/ row.asset = Seed
     \/ Confidence(row) < MinConfidence
     \/ row.asset \in DOMAIN best /\ Confidence(row) <= best[row.asset]
    THEN best
    ELSE [a \in DOMAIN best \cup {row.asset} |-> IF a = row.asset THEN Confidence(row) ELSE best[a]]

\* The sort key (-confidence, asset_id).
Precedes(best, a, b) == best[a] > best[b] \/ (best[a] = best[b] /\ a < b)

\* best_conf after the first n rows.
BestAfter[n \in 0..Len(rows)] ==
  IF n = 0 THEN <<>> ELSE BestConfidence(BestAfter[n - 1], rows[n])

\* The sorted items of a best_conf, cut at max_neighbors.
RankedBy(best) == Ranked(DOMAIN best, Order(DOMAIN best, LAMBDA a, b : Precedes(best, a, b)))

Ordered ==
  LET ranks == RankedBy(BestAfter[Len(rows)])
  IN  SubSeq(ranks, 1, IF Len(ranks) <= MaxNeighbors THEN Len(ranks) ELSE MaxNeighbors)

\* resolve_download_target: the seed is registered, or 404.
Gate ==
  /\ pc = "gate"
  /\ pc' = IF Seed \in registered THEN "rows" ELSE "refused"
  /\ UNCHANGED <<worldVars, listVars, zipVars, spool>>

\* fetch_active_relations_for_asset: the rows of the neighbours.
Query ==
  /\ pc = "rows"
  /\ pc' = "rank"
  /\ rows' \in RowLists
  /\ UNCHANGED <<worldVars, retries, ordered, targets, zipVars, spool>>

\* The neighbours, ranked and cut, after the seed.
Rank ==
  /\ pc = "rank"
  /\ pc' = "paths"
  /\ ordered' = <<Seed>> \o Ordered
  /\ UNCHANGED <<worldVars, retries, rows, targets, zipVars, spool>>

\* Mutant: the paths are looked up whatever the status of the asset is.
AnyPath(a) == a \notin Pathless

\* _BUNDLE_PATHS_SQL: only registered assets have a path here.
HasPath(a) == a \in registered /\ a \notin Pathless

\* _fetch_asset_paths: the assets with a path, in the same order.  The
\* transaction ends.
Paths ==
  /\ pc = "paths"
  /\ pc' = "zip"
  /\ targets' = Kept(ordered, {i \in DOMAIN ordered : HasPath(ordered[i])})
  /\ retries' = 0
  /\ UNCHANGED <<worldVars, rows, ordered, zipVars, spool>>

\* _run_in_db: a statement fails and the transaction is run again from its
\* start, the gate included.
Retry ==
  /\ pc \in Transaction
  /\ retries < MaxRetries
  /\ retries' = retries + 1
  /\ pc' = "gate"
  /\ rows' = <<>> /\ ordered' = <<>>
  /\ UNCHANGED <<worldVars, targets, zipVars, spool>>

\* It fails for good: 500, before there is a temporary file.
DatabaseFails ==
  /\ pc \in Transaction
  /\ pc' = "failed"
  /\ UNCHANGED <<worldVars, listVars, zipVars, spool>>

-----------------------------------------------------------------------------
(* build_bundle_zip_stream.                                                *)

StartZip ==
  /\ pc = "zip"
  /\ pc' = "copy"
  /\ spool' = "open"
  /\ UNCHANGED <<worldVars, listVars, zipVars>>

\* The i-th name _dedup_entry_name tries for n: n, n_1, n_2, ...
Candidate(n, i) == IF i = 0 THEN n ELSE [n EXCEPT !.marks = Append(@, i)]

\* Mutant: the loop tries the same name again and again.
NeverRenamed(n, i) == i = 0 /\ n \notin used

\* Mutant: the number is appended without looking again.
NumberedOnce(n, i) ==
  /\ i \in {0, 1}
  /\ i = 1 <=> n \in used

\* The first candidate that is not in use.
FirstFree(n, i) ==
  /\ Candidate(n, i) \notin used
  /\ \A j \in 0..(i - 1) : Candidate(n, j) \in used

\* The file of the next target is opened: an entry with a name of its own is
\* written from it.
AddEntry ==
  /\ pc = "copy"
  /\ next <= Len(targets)
  /\ targets[next] \in present
  /\ \E i \in 0..Len(targets) :
       LET n == FileName[targets[next]] IN
         /\ FirstFree(n, i)
         /\ used' = used \cup {Candidate(n, i)}
         /\ entries' = Append(entries, [asset |-> targets[next], name |-> Candidate(n, i)])
  /\ next' = next + 1
  /\ UNCHANGED <<worldVars, pc, listVars, missing, manifest, spool>>

\* Mutant: a file that is gone is passed over in silence.
SkipSilently ==
  /\ pc = "copy"
  /\ next <= Len(targets)
  /\ targets[next] \notin present
  /\ next' = next + 1
  /\ UNCHANGED <<worldVars, pc, listVars, used, entries, missing, manifest, spool>>

\* It cannot be opened: it is noted and the bundle goes on.
NoteMissing ==
  /\ pc = "copy"
  /\ next <= Len(targets)
  /\ targets[next] \notin present
  /\ missing' = Append(missing, targets[next])
  /\ next' = next + 1
  /\ UNCHANGED <<worldVars, pc, listVars, used, entries, manifest, spool>>

\* Reading the file or writing the zip raises: the temporary file is closed
\* and the request answered 500.
Fail ==
  /\ pc = "copy"
  /\ pc' = "failed"
  /\ spool' = "closed"
  /\ UNCHANGED <<worldVars, listVars, zipVars>>

\* After the last target: the manifest, if something is missing, and rewind.
FinishZip ==
  /\ pc = "copy"
  /\ next > Len(targets)
  /\ pc' = "stream"
  /\ manifest' = (missing # <<>>)
  /\ UNCHANGED <<worldVars, listVars, next, used, entries, missing, spool>>

\* The zip has been streamed; the background task closes it.
Stream ==
  /\ pc = "stream"
  /\ pc' = "close"
  /\ UNCHANGED <<worldVars, listVars, zipVars, spool>>

CloseSpool ==
  /\ pc = "close"
  /\ pc' = "done"
  /\ spool' = "closed"
  /\ UNCHANGED <<worldVars, listVars, zipVars>>

\* The client leaves while the zip is streamed.  It is the framework's choice
\* whether the background task runs all the same.
Leave ==
  /\ pc = "stream"
  /\ pc' \in {"close", "dropped"}
  /\ UNCHANGED <<worldVars, listVars, zipVars, spool>>

\* Without the task nothing refers to the temporary file once the response is
\* gone: it is closed when its object is destroyed.
Finalise ==
  /\ pc = "dropped"
  /\ pc' = "done"
  /\ spool' = "closed"
  /\ UNCHANGED <<worldVars, listVars, zipVars>>

-----------------------------------------------------------------------------
(* The pipeline (external): assets are registered and withdrawn, files     *)
(* come and go.                                                            *)

Change ==
  /\ changes < MaxChanges
  /\ changes' = changes + 1
  /\ UNCHANGED <<pc, listVars, zipVars, spool>>

ChangeStatus(a) ==
  /\ Change
  /\ registered' = IF a \in registered THEN registered \ {a} ELSE registered \cup {a}
  /\ UNCHANGED present

ChangeFile(a) ==
  /\ Change
  /\ present' = IF a \in present THEN present \ {a} ELSE present \cup {a}
  /\ UNCHANGED registered

-----------------------------------------------------------------------------
Work ==
  \/ Gate
  \/ Query
  \/ Rank
  \/ Paths
  \/ StartZip
  \/ AddEntry
  \/ NoteMissing
  \/ FinishZip
  \/ Stream
  \/ CloseSpool
  \/ Finalise

Next ==
  \/ Work
  \/ Retry \/ DatabaseFails \/ Fail \/ Leave
  \/ (\E a \in Assets : ChangeStatus(a) \/ ChangeFile(a))

Spec == Init /\ [][Next]_vars

\* The worker thread runs the request to its end.
FairSpec == Spec /\ WF_vars(Work)

-----------------------------------------------------------------------------
(* Properties.                                                             *)

\* The strongest confidence the rows give a neighbour.
Strongest(a, c) ==
  /\ \E i \in DOMAIN rows : rows[i].asset = a /\ Confidence(rows[i]) = c
  /\ \A i \in DOMAIN rows : rows[i].asset = a => Confidence(rows[i]) <= c

\* a belongs before b in a bundle.
Outranks(a, b) ==
  \E c, d \in {Confidence(rows[i]) : i \in DOMAIN rows} :
    Strongest(a, c) /\ Strongest(b, d) /\ (c > d \/ (c = d /\ a < b))

Neighbours ==
  {rows[i].asset : i \in {j \in DOMAIN rows : Confidence(rows[j]) >= MinConfidence}} \ {Seed}

\* The bundle is the seed and its strongest neighbours, each once, in the
\* order of strength and then of id, whatever the order of the rows was; a
\* neighbour is left out only when the limit is used up by stronger ones.
BundleIsTop ==
  ordered # <<>> =>
    LET kept == {ordered[i] : i \in 2..Len(ordered)} IN
      /\ ordered[1] = Seed
      /\ kept \subseteq Neighbours
      /\ \A i, j \in 2..Len(ordered) : i < j => Outranks(ordered[i], ordered[j])
      /\ Len(ordered) - 1 <= MaxNeighbors
      /\ \A b \in Neighbours \ kept :
           Cardinality(kept) = MaxNeighbors /\ \A a \in kept : Outranks(a, b)

EntryAssets == [i \in DOMAIN entries |-> entries[i].asset]
Members(list) == {list[i] : i \in DOMAIN list}

\* The elements of s are in the order in which the list has them.
InOrderOf(s, list) ==
  \A i, j \in DOMAIN s : i < j =>
    \E k, l \in DOMAIN list : k < l /\ list[k] = s[i] /\ list[l] = s[j]

\* Every target that was passed is in the zip or in the list of the missing
\* ones, in one of them and once, both in the order of the targets: one file
\* that cannot be opened neither ends the bundle nor costs another its place.
EveryTargetOnce ==
  /\ \A k, l \in DOMAIN targets : targets[k] = targets[l] => k = l
  /\ Members(EntryAssets) \cup Members(missing) = {targets[k] : k \in 1..(next - 1)}
  /\ Members(EntryAssets) \cap Members(missing) = {}
  /\ InOrderOf(EntryAssets, targets) /\ InOrderOf(missing, targets)

\* When nothing changes meanwhile the zip holds exactly the files of the
\* registered assets of the ranking, in its order, and has a manifest
\* exactly when one of them has no file: neither the second look at the
\* status nor a missing file costs the bundle more than it must.
QuietBundleIsExact ==
  changes = 0 /\ pc \in {"stream", "close", "dropped", "done"} =>
    LET wanted == Members(ordered) \cap (registered \ Pathless) IN
      /\ Members(EntryAssets) = wanted \cap present
      /\ InOrderOf(EntryAssets, ordered)
      /\ manifest <=> wanted \ present # {}

\* "the same name twice and one overwrites the other when it is unpacked"
\* (_dedup_entry_name): the files of the bundle have different names, also
\* when a file is called what another one would be renamed to.
FilesHaveOwnNames ==
  \A i, j \in DOMAIN entries : entries[i].name = entries[j].name => i = j

\* Every bundle request ends, the search for a free name included, and its
\* temporary file is closed then, also when the copying fails half-way or the
\* client leaves before the end of the zip; a request whose transaction fails has
\* no such file to close.
BundleEnds == <>(pc \in {"done", "failed", "refused"} /\ spool # "open")
=============================================================================
